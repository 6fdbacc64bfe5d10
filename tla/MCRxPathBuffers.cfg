SPECIFICATION Spec
CONSTANTS
  NBufs = 63
  MaxPkts = 4
  SeqSpace = 16
  Timeout = 1
  DropPeriod = 13
  Packets <- Two
  MaxMsgSize = 2
  LastLen <- Short
  NetCap = 2
  AskCap = 2
  MaxReplies = 0
  Reorder = FALSE
INVARIANT BuffersConserved
