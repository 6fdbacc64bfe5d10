SPECIFICATION Spec
CONSTANTS
  NBufs = 2
  MaxMsgSize = 2
  Sizes = {2, 5}
  SeqSpace = 2
  Timeout = 1
  WireCap = 0
  MaxSeq = 3
  MaxLinger = 1
INVARIANTS
  TypeOK
  Ownership
  Contiguous
  HeadersTruthful
  IdentityUnique
PROPERTIES
  ImplementsBufferRing
