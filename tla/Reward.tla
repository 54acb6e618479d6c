------------------------------- MODULE Reward -------------------------------
(***************************************************************************)
(* balanced_reward of foverin/src/reward.rs on exact fractions.  A metric  *)
(* of 1.0 is Unit; a power penalty of 1.0 is PenUnit and a reward of 1.0   *)
(* is RewardUnit, the common denominators of the products and of the       *)
(* decimal weights in the code.                                            *)
(***************************************************************************)
EXTENDS Integers

CONSTANT Unit     \* the metric 1.0

ASSUME UnitAssumption == Unit \in Nat \ {0} /\ Unit % 10 = 0

PenUnit == 10 * (Unit * Unit)

RewardUnit == 200 * (Unit * Unit)

NoEnergy == -1    \* energy_rate_norm where RAPL cannot be read

WindowMetrics ==
  [busy : 0 .. Unit, thermal_pen : 0 .. Unit,
   energy_rate_norm : 0 .. Unit \cup {NoEnergy}]

Clamp(x, low, high) == IF x < low THEN low ELSE IF x > high THEN high ELSE x

Distance(x, y) == IF x < y THEN y - x ELSE x - y

\* Mutant of GovPerfScore: the ends are swapped.
GovPerfSwapped(governor) ==
  CASE governor = "performance" -> 0
    [] governor = "powersave"   -> Unit
    [] OTHER                    -> Unit \div 2

GovPerfScore(governor) ==
  CASE governor = "performance" -> Unit
    [] governor = "powersave"   -> 0
    [] OTHER                    -> Unit \div 2

\* Energy while idle is waste; load without energy is starvation.  The same
\* for every governor.
EnergyPen(busy, energy) ==
  10 * (energy * (Unit - busy)) + 5 * ((Unit - energy) * busy)

\* The proxy without RAPL: what the governor's speed wastes or withholds.
ProxyPen(busy, perf) ==
  CASE 10 * perf >= 9 * Unit -> 10 * (Unit * (Unit - busy))
    [] 10 * perf <= Unit     -> 8 * (Unit * Clamp(busy - 2 * (Unit \div 5), 0, Unit))
    [] OTHER                 -> 3 * (Unit * Distance(busy, perf))

PowerPen(metrics, perf) ==
  Clamp(IF metrics.energy_rate_norm >= 0
        THEN EnergyPen(metrics.busy, metrics.energy_rate_norm)
        ELSE ProxyPen(metrics.busy, perf),
        0, PenUnit)

\* Mutant of Align: the distance keeps its sign.
AlignSigned(metrics, perf) == Unit - (metrics.busy - perf)

Align(metrics, perf) == Unit - Distance(metrics.busy, perf)

\* 0.45 * align + 0.35 * (1 - power_pen) + 0.20 * (1 - thermal_pen)
WeightedSum(metrics, perf) ==
  90 * (Unit * Align(metrics, perf)) + 7 * (PenUnit - PowerPen(metrics, perf))
    + 40 * (Unit * (Unit - metrics.thermal_pen))

BalancedReward(metrics, governor) ==
  Clamp(WeightedSum(metrics, GovPerfScore(governor)), 0, RewardUnit)

=============================================================================
