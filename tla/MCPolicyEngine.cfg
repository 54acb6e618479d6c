SPECIFICATION EngineSpec
CONSTANTS
  Execs <- MCExecs
  KernelOffsets <- MCKernelOffsets
  BuildHost <- MCBuildHost
  KernelLists <- MCKernelLists
  None = None
  Fingerprints <- MCFingerprints
  Governors <- MCGovernors
  ActionLists <- MCActionLists
  Rewards = {2000, 9000}
  MaxBuckets = 2
  SaveEvery = 2
  MaxVisits = 6
  MaxTick = 4
  MaxDirty = 9
  Bonus <- MCBonus
  SaveFaults = {"open", "write"}
INVARIANTS
  EngineTypeOK
  PendingIsNewest
  EvictionIsDeterministic
  BaselineBeforeCredit
  LineageCounts
PROPERTIES
  ImplementsLearning
