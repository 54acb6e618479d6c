------------------------ MODULE MetricSamplerProofs ------------------------
(***************************************************************************)
(* MetricSampler and Reward for every unit, window and reading: metrics    *)
(* and rewards in range, and that a window is rated by its own ticks and   *)
(* energy however many reads failed before it.                             *)
(***************************************************************************)
EXTENDS MetricSampler, TLAPS

-----------------------------------------------------------------------------
(* Arithmetic. *)

\* A clamp returns a value between its bounds.
LEMMA ClampRange ==
  ASSUME NEW x \in Int, NEW low \in Int, NEW high \in Int, low <= high
  PROVE  Clamp(x, low, high) \in low .. high
BY DEF Clamp

\* The unit is a positive integer with an integral half.
LEMMA UnitFacts == Unit \in Nat /\ Unit > 0 /\ Unit \div 2 \in 0 .. Unit
BY UnitAssumption

\* So does a clamp to [0, 1].
LEMMA ClampToUnit == \A x \in Int : Clamp(x, 0, Unit) \in 0 .. Unit
BY UnitFacts, ClampRange

\* Multiplication by a natural number keeps an order.
LEMMA TimesMonotone ==
  ASSUME NEW k \in Nat, NEW a \in Int, NEW b \in Int, a <= b
  PROVE  k * a <= k * b
OBVIOUS

\* A product of a number in [0, 1] with the unit is in 0 .. Unit * Unit.
LEMMA TimesRange ==
  ASSUME NEW a \in 0 .. Unit
  PROVE  Unit * a \in 0 .. Unit * Unit
<1>1. Unit * 0 <= Unit * a /\ Unit * a <= Unit * Unit
  BY UnitFacts, TimesMonotone
<1> QED
  BY <1>1, UnitFacts

\* What is left of a sum modulo w when both terms are below w.
LEMMA SumModulo ==
  ASSUME NEW w \in Nat \ {0}, NEW a \in 0 .. w - 1, NEW b \in 0 .. w - 1
  PROVE  /\ (a + b) % w \in 0 .. w - 1
         /\ (a + b) % w >= a => (a + b) % w = a + b
OBVIOUS

-----------------------------------------------------------------------------
(* The reward. *)

LEMMA PerfRange == ASSUME NEW g PROVE GovPerfScore(g) \in 0 .. Unit
BY UnitFacts DEF GovPerfScore

LEMMA PowerPenRange ==
  ASSUME NEW m \in WindowMetrics, NEW perf \in 0 .. Unit
  PROVE  PowerPen(m, perf) \in 0 .. PenUnit
<1> DEFINE busy   == m.busy
           energy == m.energy_rate_norm
<1>1. busy \in 0 .. Unit /\ energy \in Int
  BY UnitFacts DEF WindowMetrics, NoEnergy
<1>2. EnergyPen(busy, energy) \in Int
  BY <1>1, UnitFacts DEF EnergyPen
<1>3. ProxyPen(busy, perf) \in Int
  <2>1. Unit \div 5 \in Int
    BY UnitFacts
  <2>2. Clamp(busy - 2 * (Unit \div 5), 0, Unit) \in Int
    BY <1>1, <2>1, UnitFacts DEF Clamp
  <2>3. Distance(busy, perf) \in Int
    BY <1>1, UnitFacts DEF Distance
  <2> QED
    BY <1>1, <2>2, <2>3, UnitFacts DEF ProxyPen
<1>4. PenUnit \in Int /\ 0 <= PenUnit
  BY UnitFacts, TimesRange DEF PenUnit
<1> DEFINE pen == IF energy >= 0 THEN EnergyPen(busy, energy)
                  ELSE ProxyPen(busy, perf)
<1>5. PowerPen(m, perf) = Clamp(pen, 0, PenUnit)
  BY DEF PowerPen
<1>6. pen \in Int
  BY <1>2, <1>3
<1> HIDE DEF pen
<1> QED
  BY <1>4, <1>5, <1>6, ClampRange

LEMMA SumRange ==
  ASSUME NEW m \in WindowMetrics, NEW perf \in 0 .. Unit
  PROVE  WeightedSum(m, perf) \in 0 .. RewardUnit
<1> DEFINE square == Unit * Unit
           a == Unit * Align(m, perf)
           p == PowerPen(m, perf)
           t == Unit * (Unit - m.thermal_pen)
<1>1. square \in Nat
  BY UnitFacts, TimesRange
<1>2. a \in 0 .. square
  <2>1. Align(m, perf) \in 0 .. Unit
    BY UnitFacts DEF Align, Distance, WindowMetrics
  <2> QED
    BY <2>1, TimesRange
<1>3. p \in 0 .. 10 * square
  BY PowerPenRange DEF PenUnit
<1>4. t \in 0 .. square
  <2>1. Unit - m.thermal_pen \in 0 .. Unit
    BY UnitFacts DEF WindowMetrics
  <2> QED
    BY <2>1, TimesRange
<1>5. WeightedSum(m, perf) = 90 * a + 7 * (10 * square - p) + 40 * t
  BY DEF WeightedSum, PenUnit
<1>6. RewardUnit = 200 * square
  BY DEF RewardUnit
<1> HIDE DEF square, a, p, t
<1> QED
  BY <1>1, <1>2, <1>3, <1>4, <1>5, <1>6

\* So the clamp of balanced_reward changes nothing.
LEMMA NoClamp ==
  ASSUME NEW m \in WindowMetrics, NEW g
  PROVE  /\ BalancedReward(m, g) = WeightedSum(m, GovPerfScore(g))
         /\ BalancedReward(m, g) \in Int
<1>1. WeightedSum(m, GovPerfScore(g)) \in 0 .. RewardUnit
  BY PerfRange, SumRange
<1>2. RewardUnit \in Int
  BY UnitFacts, TimesRange DEF RewardUnit
<1> DEFINE sum == WeightedSum(m, GovPerfScore(g))
<1>3. BalancedReward(m, g) = Clamp(sum, 0, RewardUnit)
  BY DEF BalancedReward
<1> HIDE DEF sum
<1> QED
  BY <1>1, <1>2, <1>3 DEF Clamp, sum

LEMMA HeatLowers ==
  ASSUME NEW m \in WindowMetrics, NEW t \in (m.thermal_pen + 1) .. Unit, NEW g
  PROVE  BalancedReward([m EXCEPT !.thermal_pen = t], g) < BalancedReward(m, g)
<1> DEFINE hot  == [m EXCEPT !.thermal_pen = t]
           perf == GovPerfScore(g)
           rest == 90 * (Unit * Align(m, perf)) + 7 * (PenUnit - PowerPen(m, perf))
           cool_term == Unit * (Unit - m.thermal_pen)
           hot_term  == Unit * (Unit - t)
<1>1. m.thermal_pen \in 0 .. Unit /\ t \in 0 .. Unit /\ m.thermal_pen < t
  BY UnitFacts DEF WindowMetrics
<1>2. hot \in WindowMetrics
  BY <1>1 DEF WindowMetrics
<1>3. /\ hot.thermal_pen = t
      /\ hot.busy = m.busy
      /\ hot.energy_rate_norm = m.energy_rate_norm
  BY DEF WindowMetrics
<1>4. /\ WeightedSum(m, perf) = rest + 40 * cool_term
      /\ WeightedSum(hot, perf) = rest + 40 * hot_term
  BY <1>3 DEF WeightedSum, Align, PowerPen
<1>5. hot_term < cool_term /\ hot_term \in Int /\ cool_term \in Int
  <2>1. Unit * (Unit - t) + Unit <= Unit * (Unit - m.thermal_pen)
    <3> DEFINE below == (Unit - t) + 1
               above == Unit - m.thermal_pen
    <3>0. below \in Int /\ above \in Int /\ below <= above
      BY <1>1, UnitFacts
    <3>1. Unit * below <= Unit * above
      <4> HIDE DEF below, above
      <4> QED
        BY <3>0, UnitFacts, TimesMonotone
    <3>2. Unit * ((Unit - t) + 1) = Unit * (Unit - t) + Unit
      BY <1>1, UnitFacts
    <3> QED
      BY <3>1, <3>2
  <2>2. Unit * (Unit - t) \in Int /\ Unit * (Unit - m.thermal_pen) \in Int
    BY <1>1, UnitFacts
  <2> QED
    BY <2>1, <2>2, UnitFacts
<1>6. rest \in Int
  <2>1. perf \in 0 .. Unit
    BY PerfRange
  <2>2. Align(m, perf) \in Int
    BY <2>1, UnitFacts DEF Align, Distance, WindowMetrics
  <2>3. PenUnit \in Int /\ PowerPen(m, perf) \in Int
    BY <2>1, PowerPenRange, UnitFacts, TimesRange DEF PenUnit
  <2> QED
    BY <2>2, <2>3, UnitFacts
<1>7. /\ BalancedReward(m, g) = WeightedSum(m, perf)
      /\ BalancedReward(hot, g) = WeightedSum(hot, perf)
  BY <1>2, NoClamp
<1> HIDE DEF hot, perf, rest, cool_term, hot_term
<1>8. BalancedReward(hot, g) < BalancedReward(m, g)
  BY <1>4, <1>5, <1>6, <1>7
<1> QED
  BY <1>8 DEF hot

\* How much better "performance" is rated than "powersave", per unit of the
\* common denominator: without RAPL the two pay different power penalties.
Lead(m) ==
  90 * (2 * m.busy - Unit)
    + (IF m.energy_rate_norm >= 0 THEN 0
       ELSE 56 * Clamp(m.busy - 2 * (Unit \div 5), 0, Unit)
              - 70 * (Unit - m.busy))

LEMMA LeadIsTheDifference ==
  ASSUME NEW m \in WindowMetrics
  PROVE  /\ Lead(m) \in Int
         /\ BalancedReward(m, "performance") - BalancedReward(m, "powersave")
              = Unit * Lead(m)
<1> DEFINE busy   == m.busy
           energy == m.energy_rate_norm
           over   == Clamp(busy - 2 * (Unit \div 5), 0, Unit)
           penP   == PowerPen(m, Unit)
           penS   == PowerPen(m, 0)
           therm  == 40 * (Unit * (Unit - m.thermal_pen))
<1>1. /\ busy \in 0 .. Unit
      /\ energy \in Int
      /\ m.thermal_pen \in 0 .. Unit
  BY UnitFacts DEF WindowMetrics, NoEnergy
<1>2. over \in 0 .. Unit
  <2>1. busy - 2 * (Unit \div 5) \in Int
    BY <1>1, UnitFacts
  <2> QED
    BY <2>1, ClampToUnit, Zenon
<1>3. penP \in Int /\ penS \in Int
  BY UnitFacts, PowerPenRange, TimesRange DEF PenUnit
<1>4. penP - penS = IF energy >= 0 THEN 0
                    ELSE 10 * (Unit * (Unit - busy)) - 8 * (Unit * over)
  <2>1. CASE energy >= 0
    <3>1. penP = penS
      BY <2>1 DEF PowerPen
    <3> QED
      BY <1>3, <2>1, <3>1
  <2>2. CASE ~ (energy >= 0)
    <3>1. /\ ProxyPen(busy, Unit) = 10 * (Unit * (Unit - busy))
          /\ ProxyPen(busy, 0) = 8 * (Unit * over)
      BY UnitFacts DEF ProxyPen
    <3>2. /\ Unit * (Unit - busy) \in 0 .. Unit * Unit
          /\ Unit * over \in 0 .. Unit * Unit
      <4>1. Unit - busy \in 0 .. Unit
        BY <1>1, UnitFacts
      <4> QED
        BY <1>2, <4>1, TimesRange
    <3>3. Unit * Unit \in Int
      BY UnitFacts
    <3>4. /\ penP = Clamp(10 * (Unit * (Unit - busy)), 0, PenUnit)
          /\ penS = Clamp(8 * (Unit * over), 0, PenUnit)
      BY <2>2, <3>1 DEF PowerPen
    <3>5. /\ penP = 10 * (Unit * (Unit - busy))
          /\ penS = 8 * (Unit * over)
      <4> DEFINE square == Unit * Unit
                 fast   == Unit * (Unit - busy)
                 slow   == Unit * over
      <4>1. /\ penP = Clamp(10 * fast, 0, 10 * square)
            /\ penS = Clamp(8 * slow, 0, 10 * square)
        BY <3>4 DEF PenUnit
      <4>2. square \in Int /\ fast \in 0 .. square /\ slow \in 0 .. square
        BY <3>2, <3>3
      <4> HIDE DEF square, fast, slow, penP, penS
      <4>3. penP = 10 * fast /\ penS = 8 * slow
        BY <4>1, <4>2 DEF Clamp
      <4> QED
        BY <4>3 DEF fast, slow
    <3> QED
      BY <2>2, <3>5
  <2> QED
    BY <2>1, <2>2
<1>5. Lead(m) = 90 * (2 * busy - Unit)
                 + (IF energy >= 0 THEN 0 ELSE 56 * over - 70 * (Unit - busy))
  BY DEF Lead
<1>6. /\ Align(m, Unit) = busy
      /\ Align(m, 0) = Unit - busy
  BY <1>1, UnitFacts DEF Align, Distance
<1>7. GovPerfScore("performance") = Unit /\ GovPerfScore("powersave") = 0
  BY DEF GovPerfScore
<1>8. /\ BalancedReward(m, "performance")
            = 90 * (Unit * busy) + 7 * (PenUnit - penP) + therm
      /\ BalancedReward(m, "powersave")
            = 90 * (Unit * (Unit - busy)) + 7 * (PenUnit - penS) + therm
  BY <1>6, <1>7, NoClamp DEF WeightedSum
<1>9. /\ PenUnit \in Int
      /\ therm \in Int
      /\ Unit * busy \in Int
      /\ Unit * (Unit - busy) \in Int
      /\ Unit * over \in Int
  BY <1>1, <1>2, UnitFacts DEF PenUnit
<1>10. Lead(m) \in Int
  BY <1>1, <1>2, <1>5, UnitFacts
<1>11. Unit * Lead(m)
        = 90 * (Unit * busy) - 90 * (Unit * (Unit - busy)) - 7 * (penP - penS)
  <2>1. Unit * (90 * (2 * busy - Unit))
          = 90 * (Unit * busy) - 90 * (Unit * (Unit - busy))
    BY <1>1, UnitFacts
  <2>2. CASE energy >= 0
    <3>1. Unit * Lead(m) = Unit * (90 * (2 * busy - Unit))
      <4>1. Lead(m) = 90 * (2 * busy - Unit) + 0
        BY <1>5, <2>2
      <4>2. Lead(m) = 90 * (2 * busy - Unit)
        BY <1>1, <4>1, UnitFacts
      <4> QED
        BY <4>2
    <3>2. penP - penS = 0
      BY <1>4, <2>2
    <3> HIDE DEF penP, penS
    <3> QED
      BY <1>3, <1>9, <2>1, <3>1, <3>2
  <2>3. CASE ~ (energy >= 0)
    <3>1. Lead(m) = 90 * (2 * busy - Unit) + (56 * over - 70 * (Unit - busy))
      BY <1>5, <2>3
    <3>2. Unit * (56 * over - 70 * (Unit - busy))
            = 56 * (Unit * over) - 70 * (Unit * (Unit - busy))
      BY <1>1, <1>2, UnitFacts
    <3>3. Unit * Lead(m) = Unit * (90 * (2 * busy - Unit))
                             + Unit * (56 * over - 70 * (Unit - busy))
      BY <1>1, <1>2, <3>1, UnitFacts
    <3>4. penP - penS = 10 * (Unit * (Unit - busy)) - 8 * (Unit * over)
      BY <1>4, <2>3
    <3> HIDE DEF penP, penS, over
    <3> QED
      BY <1>3, <1>9, <2>1, <3>2, <3>3, <3>4
  <2> QED
    BY <2>2, <2>3
<1> HIDE DEF penP, penS, therm, busy
<1> QED
  BY <1>3, <1>8, <1>9, <1>10, <1>11

LEMMA LoadRaises ==
  ASSUME NEW m \in WindowMetrics, NEW b \in (m.busy + 1) .. Unit,
         BalancedReward(m, "performance") >= BalancedReward(m, "powersave")
  PROVE  BalancedReward([m EXCEPT !.busy = b], "performance")
           > BalancedReward([m EXCEPT !.busy = b], "powersave")
<1> DEFINE loaded == [m EXCEPT !.busy = b]
<1>1. m.busy \in 0 .. Unit /\ b \in 0 .. Unit /\ m.busy < b
  BY UnitFacts DEF WindowMetrics
<1>2. loaded \in WindowMetrics
  BY <1>1 DEF WindowMetrics
<1>3. loaded.busy = b /\ loaded.energy_rate_norm = m.energy_rate_norm
  BY DEF WindowMetrics
<1>4. Lead(m) < Lead(loaded)
  <2> DEFINE fifths == 2 * (Unit \div 5)
  <2>1. fifths \in Int
    BY UnitFacts
  <2> HIDE DEF fifths
  <2>2. /\ Clamp(m.busy - fifths, 0, Unit) \in Int
        /\ Clamp(b - fifths, 0, Unit) \in Int
        /\ Clamp(m.busy - fifths, 0, Unit) <= Clamp(b - fifths, 0, Unit)
    BY <1>1, <2>1, UnitFacts DEF Clamp
  <2> QED
    BY <1>1, <1>3, <2>2, UnitFacts DEF Lead, fifths
<1>5. Lead(m) >= 0
  <2>1. Unit * Lead(m) >= 0
    BY LeadIsTheDifference, NoClamp
  <2> QED
    BY <2>1, LeadIsTheDifference, UnitFacts
<1>6. Unit * Lead(loaded) > 0
  <2>1. Lead(loaded) >= 1
    BY <1>2, <1>4, <1>5, LeadIsTheDifference
  <2>2. Unit * 1 <= Unit * Lead(loaded)
    BY <1>2, <2>1, LeadIsTheDifference, TimesMonotone, UnitFacts
  <2> QED
    BY <1>2, <2>2, LeadIsTheDifference, UnitFacts
<1> QED
  BY <1>2, <1>6, LeadIsTheDifference, NoClamp

-----------------------------------------------------------------------------
(* The sampler. *)

\* The baselines are the kernel's counters where they could be read.
BaselinesAreReadings ==
  /\ cpu_read => prev_cpu = stat
  /\ prev_rapl \in RaplEnergy(node, rapl)

SamplerInv == MetricsOK /\ BaselinesAreReadings

LEMMA BusyRange ==
  ASSUME NEW prev \in [idle : Nat, total : Nat],
         NEW cur \in [idle : Nat, total : Nat]
  PROVE  BusyFraction(prev, cur) \in 0 .. Unit
<1> DEFINE d_total == SatSub(cur.total, prev.total)
           d_idle  == SatSub(cur.idle, prev.idle)
<1>1. d_total \in Nat /\ d_idle \in Nat
  BY DEF SatSub
<1>2. CASE d_total = 0
  BY <1>2, UnitFacts DEF BusyFraction
<1>3. CASE d_total # 0
  <2>1. BusyFraction(prev, cur) = Clamp(Unit - (Unit * d_idle) \div d_total, 0, Unit)
    BY <1>3 DEF BusyFraction
  <2> HIDE DEF d_total, d_idle
  <2>2. Unit * d_idle \in Int
    BY <1>1, UnitFacts
  <2>3. (Unit * d_idle) \div d_total \in Int
    BY <1>1, <1>3, <2>2
  <2> DEFINE fraction == Unit - (Unit * d_idle) \div d_total
  <2>4. fraction \in Int
    BY <2>3, UnitFacts
  <2>5. BusyFraction(prev, cur) = Clamp(fraction, 0, Unit)
    BY <2>1
  <2> HIDE DEF fraction
  <2>6. Clamp(fraction, 0, Unit) \in 0 .. Unit
    BY <2>4, ClampToUnit, Zenon
  <2> QED
    BY <2>5, <2>6
<1> QED
  BY <1>2, <1>3

LEMMA EnergyRange ==
  ASSUME NEW prev \in Nat \cup {NoReading}, NEW cur \in Nat \cup {NoReading}
  PROVE  EnergyRate(prev, cur) \in 0 .. Unit \cup {NoEnergy}
<1>1. CASE prev = NoReading \/ cur = NoReading
  BY <1>1 DEF EnergyRate
<1>2. CASE prev # NoReading /\ cur # NoReading
  <2>1. Unit * (cur - prev) \in Int
    BY <1>2, UnitFacts
  <2> DEFINE rate == (Unit * (cur - prev)) \div EnergyFull
  <2>2. rate \in Int
    BY <2>1, SamplerAssumption
  <2>3. EnergyRate(prev, cur) \in {NoEnergy, Clamp(rate, 0, Unit)}
    BY <1>2 DEF EnergyRate
  <2> HIDE DEF rate
  <2>4. Clamp(rate, 0, Unit) \in 0 .. Unit
    BY <2>2, ClampToUnit, Zenon
  <2> QED
    BY <2>3, <2>4
<1> QED
  BY <1>1, <1>2

LEMMA ThermalRange ==
  ASSUME NEW temp \in Temps \cup {NoReading}
  PROVE  ThermalPen(temp) \in 0 .. Unit
<1>1. CASE temp = NoReading
  BY <1>1, UnitFacts DEF ThermalPen
<1>2. CASE temp # NoReading
  <2>1. /\ Unit * (temp - Comfort) \in Int
        /\ Critical - Comfort \in Nat \ {0}
    BY <1>2, UnitFacts, SamplerAssumption
  <2> DEFINE pressure == (Unit * (temp - Comfort)) \div (Critical - Comfort)
  <2>2. pressure \in Int
    BY <2>1
  <2>3. ThermalPen(temp) = Clamp(pressure, 0, Unit)
    BY <1>2 DEF ThermalPen
  <2> HIDE DEF pressure
  <2>4. Clamp(pressure, 0, Unit) \in 0 .. Unit
    BY <2>2, ClampToUnit, Zenon
  <2> QED
    BY <2>3, <2>4
<1> QED
  BY <1>1, <1>2

LEMMA SamplerInvInit == Init => SamplerInv
<1> SUFFICES ASSUME Init PROVE SamplerInv
  OBVIOUS
<1>1. metrics \in WindowMetrics
  BY UnitFacts DEF Init, WindowMetrics
<1>2. rapl \in 0 .. EnergyWrap - 1
  BY SamplerAssumption DEF Init
<1>3. stat \in [idle : Nat, total : Nat]
  BY DEF Init
<1> QED
  BY <1>1, <1>2, <1>3
  DEF Init, SamplerInv, MetricsOK, BaselinesAreReadings, RaplEnergy

LEMMA SamplerInvNext == SamplerInv /\ [Next]_samplerVars => SamplerInv'
<1> SUFFICES ASSUME SamplerInv, [Next]_samplerVars
             PROVE  SamplerInv'
  OBVIOUS
<1>1. ASSUME NEW idle \in Ticks, NEW busy \in Ticks, NEW spent \in Energies,
             NEW temp \in Temps \cup {NoReading}, Window(idle, busy, spent, temp)
      PROVE  SamplerInv'
  <2> DEFINE cpu == IF cpu_read' THEN stat' ELSE ZeroTimes
  <2>1. stat' \in [idle : Nat, total : Nat]
    BY <1>1, SamplerAssumption DEF Window, SamplerInv, MetricsOK
  <2>2. rapl' \in 0 .. EnergyWrap - 1
    <3>1. rapl \in 0 .. EnergyWrap - 1 /\ spent \in 0 .. EnergyWrap - 1
      BY SamplerAssumption DEF SamplerInv, MetricsOK
    <3> QED
      BY <1>1, <3>1, SumModulo, SamplerAssumption DEF Window
  <2>3. cpu \in [idle : Nat, total : Nat]
    BY <2>1 DEF ZeroTimes
  <2>5. PICK energy \in RaplEnergy(node', rapl') : Sample(cpu, energy, temp)
    BY <1>1 DEF Window
  <2>4. energy \in 0 .. EnergyWrap - 1 \cup {NoReading}
    BY <2>2, <2>5, SamplerAssumption DEF RaplEnergy
  <2>6. metrics' \in WindowMetrics
    <3>1. (IF prev_cpu = NoReading THEN Unit \div 2
           ELSE BusyFraction(prev_cpu, cpu)) \in 0 .. Unit
      BY <2>3, UnitFacts, BusyRange DEF SamplerInv, MetricsOK
    <3>2. ThermalPen(temp) \in 0 .. Unit
      BY ThermalRange
    <3>3. prev_rapl \in Nat \cup {NoReading} /\ energy \in Nat \cup {NoReading}
      BY <2>4, SamplerAssumption DEF SamplerInv, MetricsOK
    <3>4. (IF prev_cpu = NoReading THEN NoEnergy
           ELSE EnergyRate(prev_rapl, energy)) \in 0 .. Unit \cup {NoEnergy}
      BY <3>3, EnergyRange
    <3> HIDE DEF cpu
    <3> QED
      BY <2>5, <3>1, <3>2, <3>4 DEF Sample, WindowMetrics
  <2>7. prev_cpu' = cpu /\ prev_rapl' = energy
    BY <2>5 DEF Sample, Remember
  <2>8. cpu_read' \in BOOLEAN /\ node' \in {"package", "other", "none"}
    BY <1>1 DEF Window
  <2>9. BaselinesAreReadings'
    BY <2>5, <2>7 DEF BaselinesAreReadings, RaplEnergy
  <2>10. MetricsOK'
    BY <2>1, <2>2, <2>3, <2>4, <2>6, <2>7, <2>8 DEF MetricsOK
  <2> QED
    BY <2>9, <2>10 DEF SamplerInv
<1>2. ASSUME UNCHANGED samplerVars
      PROVE  SamplerInv'
  BY <1>2 DEF samplerVars, SamplerInv, MetricsOK, BaselinesAreReadings
<1> QED
  BY <1>1, <1>2 DEF Next

LEMMA SamplerInvariance == Spec => []SamplerInv
BY SamplerInvInit, SamplerInvNext, PTL DEF Spec

\* Metrics stay in [0, 1] for every reading, failure and wrap (sample).
THEOREM MetricsInvariance == Spec => []MetricsOK
<1>1. SamplerInv => MetricsOK
  BY DEF SamplerInv
<1> QED
  BY <1>1, SamplerInvariance, PTL

\* No reward is distorted by the final clamp of balanced_reward.
THEOREM RewardInvariance == Spec => []RewardInRange
<1>1. SamplerInv => RewardInRange
  BY PerfRange, SumRange DEF SamplerInv, MetricsOK, RewardInRange
<1> QED
  BY <1>1, SamplerInvariance, PTL

\* A hotter window is rated lower, whatever the load and the governor.
THEOREM HeatInvariance == Spec => []HeatCosts
<1>1. SamplerInv => HeatCosts
  BY HeatLowers DEF SamplerInv, MetricsOK, HeatCosts
<1> QED
  BY <1>1, SamplerInvariance, PTL

\* Load only ever speaks for "performance" against "powersave", with RAPL or
\* without, at every load, unit and temperature.
THEOREM LoadInvariance == Spec => []LoadFavoursPerformance
<1>1. SamplerInv => LoadFavoursPerformance
  BY LoadRaises DEF SamplerInv, MetricsOK, LoadFavoursPerformance
<1> QED
  BY <1>1, SamplerInvariance, PTL

\* A window whose two ends could be read is rated by its own ticks: a failed
\* read is forgotten after one good one.
THEOREM Recovery == Spec => RecoversFromFailedReads
<1>1. SamplerInv /\ [Next]_samplerVars
        => [cpu_read /\ cpu_read' => metrics'.busy = TrueBusy]_samplerVars
  <2> SUFFICES ASSUME SamplerInv, cpu_read, cpu_read',
                      NEW idle \in Ticks, NEW busy \in Ticks,
                      NEW spent \in Energies, NEW temp \in Temps \cup {NoReading},
                      Window(idle, busy, spent, temp)
               PROVE  metrics'.busy = TrueBusy
    BY DEF Next
  <2>1. prev_cpu = stat /\ stat \in [idle : Nat, total : Nat]
    BY DEF SamplerInv, MetricsOK, BaselinesAreReadings
  <2>2. prev_cpu # NoReading
    BY <2>1, SamplerAssumption
  <2> QED
    BY <2>1, <2>2 DEF Window, Sample, TrueBusy
<1> QED
  BY <1>1, SamplerInvariance, PTL DEF Spec, RecoversFromFailedReads

\* An energy rate is never that of a wrapped counter, of a failed read or of
\* an earlier window, where the package's counter can be read.
THEOREM EnergyOfWindow == Spec => EnergyIsOfWindow
<1> DEFINE OfSpent(spent) ==
             /\ rapl + spent = rapl'
             /\ metrics'.energy_rate_norm
                  = Clamp((Unit * spent) \div EnergyFull, 0, Unit)
           Rated == metrics'.energy_rate_norm # NoEnergy =>
             /\ "none" \notin {node, node'}
             /\ {node, node'} = {"package"} => \E spent \in Energies : OfSpent(spent)
<1>1. SamplerInv /\ [Next]_samplerVars => [Rated]_samplerVars
  <2> SUFFICES ASSUME SamplerInv, metrics'.energy_rate_norm # NoEnergy,
                      NEW idle \in Ticks, NEW busy \in Ticks,
                      NEW spent \in Energies, NEW temp \in Temps \cup {NoReading},
                      Window(idle, busy, spent, temp)
               PROVE  /\ "none" \notin {node, node'}
                      /\ {node, node'} = {"package"} => OfSpent(spent)
    BY DEF Next
  <2>1. PICK energy \in RaplEnergy(node', rapl') :
          metrics'.energy_rate_norm
            = IF prev_cpu = NoReading THEN NoEnergy
              ELSE EnergyRate(prev_rapl, energy)
    BY DEF Window, Sample
  <2>2. /\ prev_rapl # NoReading
        /\ energy # NoReading
        /\ ~ (energy < prev_rapl)
        /\ metrics'.energy_rate_norm
             = Clamp((Unit * (energy - prev_rapl)) \div EnergyFull, 0, Unit)
    BY <2>1 DEF EnergyRate
  <2>3. prev_rapl \in RaplEnergy(node, rapl)
    BY DEF SamplerInv, BaselinesAreReadings
  <2>4. "none" \notin {node, node'}
    BY <2>1, <2>2, <2>3 DEF RaplEnergy
  <2>5. ASSUME node = "package", node' = "package"
        PROVE  OfSpent(spent)
    <3>1. prev_rapl = rapl /\ energy = rapl'
      BY <2>1, <2>3, <2>5 DEF RaplEnergy
    <3>2. /\ rapl \in 0 .. EnergyWrap - 1
          /\ spent \in 0 .. EnergyWrap - 1
          /\ rapl' = (rapl + spent) % EnergyWrap
      BY SamplerAssumption DEF Window, SamplerInv, MetricsOK
    <3>3. rapl' \in 0 .. EnergyWrap - 1
      BY <3>2, SumModulo, SamplerAssumption
    <3>4. rapl' >= rapl
      BY <2>2, <3>1, <3>2, <3>3, SamplerAssumption
    <3>5. rapl' = rapl + spent
      BY <3>2, <3>4, SumModulo, SamplerAssumption
    <3>6. energy - prev_rapl = spent
      BY <3>1, <3>2, <3>5, SamplerAssumption
    <3> QED
      BY <2>2, <3>5, <3>6
  <2> QED
    BY <2>4, <2>5
<1> QED
  BY <1>1, SamplerInvariance, PTL DEF Spec, EnergyIsOfWindow

=============================================================================
