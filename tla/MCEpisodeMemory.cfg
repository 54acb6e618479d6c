SPECIFICATION Spec
CONSTANTS
  k1 = k1
  k2 = k2
  k3 = k3
  Fingerprints <- MCFingerprints
  Governors <- MCGovernors
  ActionLists <- MCActionLists
  Rewards = {6000}
  MaxBuckets = 2
  SaveEvery = 2
  MaxVisits = 2
  MaxTick = 2
  MaxDirty = 3
  Bonus <- MCBonus
  SaveFaults = {"open", "write"}
SYMMETRY MCSymmetry
INVARIANTS
  TypeOK
  BucketCap
  ClockCoversStamps
  VisitsAddUp
  DirtyBoundsLoss
PROPERTIES
  ImplementsStore
