SPECIFICATION FairSpec
CONSTANTS
  Cpus = {0, 1, 2}
  Governors = {"performance", "powersave"}
  Start = "ondemand"
  Unknown = Unknown
  None = None
  MaxFaults = 3
INVARIANTS
  LoopTypeOK
  SteadyCpusFollow
  ShownIsInForce
  CreditIsForShown
PROPERTIES
  StopsWhenAsked
  CpusConverge
