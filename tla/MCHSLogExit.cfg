SPECIFICATION Spec
CONSTANTS
  Threads = {t1, t2}
  NoThread = none
  Flags = {3}
  Files <- TwoFiles
  EventCap = 1
INVARIANT UnlockSucceeds
