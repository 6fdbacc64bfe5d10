SPECIFICATION FairSpec
CONSTANTS
  NBufs = 2
  MaxMsgSize = 2
  Sizes = {3}
  SeqSpace = 1
  Timeout = 1
  WireCap = 1
  MaxSeq = 2
  MaxLinger = 1
INVARIANTS
  FoundIsRequested
  HistoryByAge
PROPERTIES
  KeptForTimeout
  ReceiveProceeds
  HistoryDrains
