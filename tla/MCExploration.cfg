SPECIFICATION EngineSpec
CONSTANTS
  Execs <- MCExecs
  KernelOffsets <- MCKernelOffsets
  BuildHost <- MCBuildHost
  KernelLists <- MCKernelLists
  None = None
  Fingerprints <- MCFingerprints
  Governors <- MCGovernors
  ActionLists <- MCActionLists
  Rewards = {0, 10000}
  MaxBuckets = 1
  SaveEvery = 5
  MaxVisits = 14
  MaxTick = 12
  MaxDirty = 13
  Bonus <- MCBonus
  SaveFaults = {}
INVARIANTS
  CrashCost
  NoGovernorStarves
