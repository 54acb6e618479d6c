SPECIFICATION Spec
CONSTANTS
  Unit = 10
  Governors = {"performance", "schedutil", "powersave"}
  Ticks = {0, 1, 3}
  Energies = {0, 3, 5}
  EnergyFull = 5
  EnergyWrap = 8
  OtherEnergies = {2}
  Comfort = 70
  Critical = 95
  Temps = {65, 80, 99}
  NoReading = NoReading
  MaxTotal = 7
INVARIANTS
  MetricsOK
  RewardInRange
  LoadFavoursPerformance
PROPERTIES
  RecoversFromFailedReads
  EnergyIsOfWindow
