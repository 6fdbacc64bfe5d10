SPECIFICATION FairSpec
CONSTANTS
  Threads = {t1, t2}
  NoThread = none
  Flags = {3}
  Files <- ThreeFiles
  EventCap = 2
INVARIANTS
  TypeOK
  LockDiscipline
  ExitOnlyAfterReinit
  SendsOnSocket
  SettledIsCurrent
PROPERTIES
  CallsReturn
  Converges
