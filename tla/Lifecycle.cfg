SPECIFICATION FairSpec
CONSTANTS
  SaveEvery = 2
  Budget = 2
  MaxFaults = 3
INVARIANTS
  LifecycleTypeOK
  CleanStopPersists
  SocketIsOfListener
PROPERTIES
  StopEnds
  ComesBack
