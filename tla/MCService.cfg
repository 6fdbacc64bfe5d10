SPECIFICATION FairSpec
CONSTANTS
  Configs <- FourFiles
  PoolSize = 4
  MaxEvents = 1
  MaxMsgs = 2
  MaxMissing = 1
INVARIANTS
  TypeOK
  PortsConfigured
  ThreadsEquipped
  NullNeedsTraffic
  ControlDecides
  StatsExact
  StatsBracketed
PROPERTIES
  SwitchObeyed
  StartupEnds
CHECK_DEADLOCK FALSE
