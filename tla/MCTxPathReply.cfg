SPECIFICATION Spec
CONSTANTS
  NBufs = 2
  MaxMsgSize = 2
  Sizes = {2, 3}
  SeqSpace = 4
  Timeout = 2
  WireCap = 1
  MaxSeq = 2
  MaxLinger = 1
INVARIANT ReplyServesRequest
