SPECIFICATION FairSpec
CONSTANTS
  Cpus = {c1, c2}
  Slots = 2
  MaxEvents = 4
  None = None
INVARIANTS
  RingTypeOK
  NoLostWakeup
  RecordsAreOwned
PROPERTIES
  EveryEventIsDecided
