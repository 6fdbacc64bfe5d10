SPECIFICATION LinkSpec
CONSTANTS
  NBufs = 63
  MaxPkts = 4
  SeqSpace = 16
  Timeout = 1
  DropPeriod = 50
  Packets <- FourDatagrams
  MaxMsgSize = 2
  LastLen <- Short
  NetCap = 4
  AskCap = 12
  MaxReplies = 40
  Reorder = FALSE
  MaxLosses = 1
INVARIANT EntireMessage
CHECK_DEADLOCK FALSE
