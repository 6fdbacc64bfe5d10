SPECIFICATION FairSpec
CONSTANTS
  NBufs = 4
  MaxPkts = 2
  SeqSpace = 4
  Timeout = 1
  DropPeriod = 3
  Packets <- Wrapping
  MaxMsgSize = 2
  LastLen <- Short
  NetCap = 2
  AskCap = 2
  MaxReplies = 1
  Reorder = TRUE
INVARIANTS
  TypeOK
  StoredIsKept
  CompleteIsSent
  IncompleteOnlyIfTwice
  SentIsOneDatagram
  LostOnlyBeyondTable
  AskedExists
PROPERTY SlotsReleased
