SPECIFICATION FairSpec
CONSTANTS
  Putters = {p1, p2}
  Getters = {g1}
  Flushers = {f1}
  Ptrs = {a, b}
  NoPtr = none
  W = 3
  Capacity = 7
  MaxFlushes = 2
INVARIANTS
  TypeOK
  CountCoversEntries
PROPERTIES
  ImplementsPointerQueue
  FlushUnblocks
