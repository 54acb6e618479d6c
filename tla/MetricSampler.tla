--------------------------- MODULE MetricSampler ---------------------------
(***************************************************************************)
(* MetricSampler of foverin/src/reward.rs: the counters of /proc/stat and  *)
(* of RAPL as they run, the reads of them that may fail, the baselines the *)
(* sampler keeps between two windows, and the metrics it derives, from     *)
(* which balanced_reward rates every governor.                             *)
(*                                                                         *)
(* One step is one call of sample() and the window before it.              *)
(***************************************************************************)
EXTENDS Reward

CONSTANTS
  Governors,
  Ticks,        \* idle and busy CPU ticks that may pass in a window
  Energies,     \* micro-joules that may be spent in a window
  EnergyFull,   \* 50 J, the energy of a window that counts as 1.0
  EnergyWrap,   \* max_energy_range_uj: the RAPL counter is modulo this
  OtherEnergies, \* readings of a node that the scan of powercap may find
  Comfort,      \* T_COMFORT_MC
  Critical,     \* T_CRIT_MC
  Temps,        \* readings of the hottest thermal zone
  NoReading,    \* a read that failed, or a baseline not yet taken
  MaxTotal      \* bound: ticks that /proc/stat may count

ASSUME SamplerAssumption ==
  /\ Ticks \subseteq Nat
  /\ EnergyWrap \in Nat \ {0}
  /\ Energies \subseteq 0 .. EnergyWrap - 1
  /\ OtherEnergies \subseteq 0 .. EnergyWrap - 1
  /\ EnergyFull \in Nat \ {0}
  /\ Comfort \in Nat /\ Critical \in Nat /\ Comfort < Critical
  /\ Temps \subseteq Nat
  /\ MaxTotal \in Nat
  /\ NoReading \notin Nat \cup [idle : Nat, total : Nat]

VARIABLES
  stat,         \* the kernel's CPU counters at the last call of sample()
  rapl,         \* the package's RAPL counter at the last call
  prev_cpu,     \* the sampler's baselines, or NoReading
  prev_rapl,
  metrics,      \* what the last call returned
  cpu_read,     \* the last call could read /proc/stat
  node          \* whose energy it read: "package", "other" or "none"

samplerVars == <<stat, rapl, prev_cpu, prev_rapl, metrics, cpu_read, node>>

ZeroTimes == [idle |-> 0, total |-> 0]      \* CpuTimes::default()

SatSub(x, y) == IF x < y THEN 0 ELSE x - y

BusyFraction(prev, cur) ==
  LET d_total == SatSub(cur.total, prev.total)
      d_idle  == SatSub(cur.idle, prev.idle)
  IN  IF d_total = 0 THEN Unit \div 2
      ELSE Clamp(Unit - (Unit * d_idle) \div d_total, 0, Unit)

\* Mutant of EnergyRate: the counter is taken not to wrap.
EnergyRateNoWrap(prev, cur) ==
  IF prev = NoReading \/ cur = NoReading THEN NoEnergy
  ELSE Clamp((Unit * SatSub(cur, prev)) \div EnergyFull, 0, Unit)

\* A counter that went back has wrapped: no energy rather than a wrong one.
EnergyRate(prev, cur) ==
  IF prev = NoReading \/ cur = NoReading THEN NoEnergy
  ELSE IF cur < prev THEN NoEnergy
  ELSE Clamp((Unit * (cur - prev)) \div EnergyFull, 0, Unit)

\* Mutant of ThermalPen: a cool zone is not clamped.
ThermalPenUnclamped(temp) ==
  IF temp = NoReading THEN 0
  ELSE (Unit * (temp - Comfort)) \div (Critical - Comfort)

ThermalPen(temp) ==
  IF temp = NoReading THEN 0
  ELSE Clamp((Unit * (temp - Comfort)) \div (Critical - Comfort), 0, Unit)

\* Mutant of Remember: the baselines of the first call are kept for good.
RememberFirst(cpu, energy) ==
  IF prev_cpu = NoReading THEN prev_cpu' = cpu /\ prev_rapl' = energy
                          ELSE UNCHANGED <<prev_cpu, prev_rapl>>

\* What is read becomes the baseline of the next call.
Remember(cpu, energy) == prev_cpu' = cpu /\ prev_rapl' = energy

\* sample(), given what read_cpu_times, read_rapl_energy and
\* read_max_thermal_mc return.
Sample(cpu, energy, temp) ==
  /\ Remember(cpu, energy)
  /\ metrics' =
       [busy |-> IF prev_cpu = NoReading THEN Unit \div 2
                 ELSE BusyFraction(prev_cpu, cpu),
        thermal_pen |-> ThermalPen(temp),
        energy_rate_norm |-> IF prev_cpu = NoReading THEN NoEnergy
                             ELSE EnergyRate(prev_rapl, energy)]

\* read_rapl_energy: where the package's counter cannot be read it scans for
\* any other, and the reading does not tell.
RaplEnergy(from, counter) ==
  IF from = "package" THEN {counter}
  ELSE IF from = "other" THEN OtherEnergies
  ELSE {NoReading}

\* A window of idle and busy ticks and of spent energy, then sample().  A
\* failed read of /proc/stat is taken for CpuTimes::default().
Window(idle, busy, spent, temp) ==
  /\ stat.total + idle + busy <= MaxTotal
  /\ stat' = [idle |-> stat.idle + idle, total |-> stat.total + idle + busy]
  /\ rapl' = (rapl + spent) % EnergyWrap
  /\ cpu_read' \in BOOLEAN
  /\ node' \in {"package", "other", "none"}
  /\ \E energy \in RaplEnergy(node', rapl') :
       Sample(IF cpu_read' THEN stat' ELSE ZeroTimes, energy, temp)

\* new(): the machine has been up for a while.
Init ==
  /\ stat = [idle |-> 1, total |-> 2]
  /\ rapl \in Energies
  /\ prev_cpu = NoReading
  /\ prev_rapl = NoReading
  /\ metrics = [busy |-> Unit \div 2, thermal_pen |-> 0,
                energy_rate_norm |-> NoEnergy]
  /\ cpu_read = FALSE
  /\ node = "none"

Next ==
  \E idle, busy \in Ticks, spent \in Energies, temp \in Temps \cup {NoReading} :
    Window(idle, busy, spent, temp)

Spec == Init /\ [][Next]_samplerVars

-----------------------------------------------------------------------------
(* Properties. *)

\* The metrics stay in [0, 1] whatever is read, fails or wraps, and the
\* baselines are readings.
MetricsOK ==
  /\ metrics \in WindowMetrics
  /\ stat \in [idle : Nat, total : Nat]
  /\ rapl \in 0 .. EnergyWrap - 1
  /\ prev_cpu \in [idle : Nat, total : Nat] \cup {NoReading}
  /\ prev_rapl \in 0 .. EnergyWrap - 1 \cup {NoReading}
  /\ cpu_read \in BOOLEAN
  /\ node \in {"package", "other", "none"}

\* The final clamp of balanced_reward never distorts a reward: every weighted
\* sum is in [0, 1] already, as the EMA of memory.rs needs.
RewardInRange ==
  \A g \in Governors : WeightedSum(metrics, GovPerfScore(g)) \in 0 .. RewardUnit

\* Load only ever speaks for the faster governor: if "performance" is rated at
\* least as high as "powersave" at some load, so it is at every higher one,
\* and strictly, with RAPL or without (reward_clamps_and_prefers_align).
LoadFavoursPerformance ==
  \A b \in (metrics.busy + 1) .. Unit :
    BalancedReward(metrics, "performance") >= BalancedReward(metrics, "powersave")
      => LET loaded == [metrics EXCEPT !.busy = b] IN
           BalancedReward(loaded, "performance") > BalancedReward(loaded, "powersave")

\* A hotter window is rated lower under every governor
\* (thermal_penalty_lowers_reward).
HeatCosts ==
  \A g \in Governors, t \in (metrics.thermal_pen + 1) .. Unit :
    BalancedReward([metrics EXCEPT !.thermal_pen = t], g)
      < BalancedReward(metrics, g)

\* What the window that ends in this step was like.
TrueBusy == BusyFraction(stat, stat')

\* However many reads failed before, a window whose two ends could be read is
\* rated by its own ticks.
RecoversFromFailedReads ==
  [][cpu_read /\ cpu_read' => metrics'.busy = TrueBusy]_samplerVars

\* An energy rate is that of energy spent in this window, never of a counter
\* that wrapped, of a failed read or of an earlier window; but only if both
\* ends were read from the package, which the code prefers and does not check.
EnergyIsOfWindow ==
  [][metrics'.energy_rate_norm # NoEnergy =>
       /\ "none" \notin {node, node'}
       /\ {node, node'} = {"package"} =>
            \E spent \in Energies :
              /\ rapl + spent = rapl'
              /\ metrics'.energy_rate_norm
                   = Clamp((Unit * spent) \div EnergyFull, 0, Unit)]_samplerVars

\* "Read current counters and return metrics since the previous call"
\* (reward.rs): so does every call but the first that can read /proc/stat.
MetricsSincePreviousCall ==
  [][prev_cpu # NoReading /\ cpu_read' => metrics'.busy = TrueBusy]_samplerVars

=============================================================================
