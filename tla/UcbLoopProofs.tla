---------------------------- MODULE UcbLoopProofs ----------------------------
(***************************************************************************)
(* The loop of select finds what EpisodeMemory.tla says it finds, for any  *)
(* number of actions and any scores.                                       *)
(***************************************************************************)
EXTENDS UcbLoop, TLAPS

\* A confidence is a percentage, and at least 5, whatever it is derived from.
LEMMA ConfidenceType ==
  ASSUME NEW first \in Int, NEW second \in Int, NEW v \in Nat
  PROVE  Confidence(first, second, v) \in 5 .. 100
<1>1. Margin(first, second) \in Int
  BY LoopAssumption DEF Margin, AtLeast
<1>2. (80 * Margin(first, second)) \div Scale \in Int
  BY <1>1, LoopAssumption
<1> QED
  BY <1>2 DEF Confidence, AtMost, AtLeast

\* The loop's variables keep their types.
THEOREM TypeInvariance == Spec => []TypeOK
<1>1. Init => TypeOK
  BY LoopAssumption DEF Init, TypeOK, NegInf, Undecided
<1>2. TypeOK /\ [Next]_loopVars => TypeOK'
  <2> SUFFICES ASSUME TypeOK, [Next]_loopVars PROVE TypeOK'
    OBVIOUS
  <2> USE LoopAssumption DEF TypeOK, NegInf, inputs
  <2>0. next <= len => ucb[next] \in 0 .. MaxScore /\ visits[next] \in 0 .. MaxVisits
    OBVIOUS
  <2>1. CASE Lead
    BY <2>0, <2>1 DEF Lead, Leads, Demoted
  <2>2. CASE RunUp
    <3>1. second_ucb' \in NegInf .. MaxScore /\ next' \in 1 .. len + 1
      BY <2>0, <2>2 DEF RunUp, Leads
    <3> QED
      BY <2>2, <3>1 DEF RunUp, Leads
  <2>3. CASE Pass
    BY <2>0, <2>3 DEF Pass, Leads
  <2>4. CASE Return
    <3>0. best_ucb \in Int /\ second_ucb \in Int /\ best_visits \in Nat
      OBVIOUS
    <3>1. Confidence(best_ucb, second_ucb, best_visits) \in 5 .. 100
      BY <3>0, ConfidenceType
    <3> QED
      BY <2>4, <3>1 DEF Return
  <2>5. CASE UNCHANGED loopVars
    BY <2>5 DEF loopVars
  <2> QED
    BY <2>1, <2>2, <2>3, <2>4, <2>5 DEF Next
<1> QED
  BY <1>1, <1>2, PTL DEF Spec

\* SeenSoFar, with the fact that nothing is returned before the last action.
LoopInvariant == SeenSoFar /\ (Returned => next > len)

LEMMA LoopInvariance == Spec => []LoopInvariant
<1>1. Init => LoopInvariant
  BY DEF Init, LoopInvariant, SeenSoFar, Returned
<1>2. TypeOK /\ LoopInvariant /\ [Next]_loopVars => LoopInvariant'
  <2> SUFFICES ASSUME TypeOK, LoopInvariant, [Next]_loopVars
               PROVE  LoopInvariant'
    OBVIOUS
  <2>0. /\ len \in Nat /\ next \in Nat \ {0} /\ best \in 1 .. len
        /\ best_ucb \in Int /\ second_ucb \in Int /\ best_ucb >= -1
        /\ \A j \in 1 .. len : ucb[j] \in Nat
    BY LoopAssumption DEF TypeOK, NegInf
  <2>1. CASE Lead
    <3>1. CASE next = 1
      BY <2>0, <2>1, <3>1
      DEF Lead, Leads, Demoted, LoopInvariant, SeenSoFar, Returned, NegInf, inputs
    <3>2. CASE next # 1
      <4>1. /\ best < next /\ best_ucb = ucb[best]
            /\ \A j \in 1 .. next - 1 : ucb[j] <= best_ucb
            /\ next <= len /\ ucb[next] > best_ucb
            /\ second_ucb' = best_ucb /\ best_ucb' = ucb[next] /\ best' = next
            /\ best_visits' = visits[next] /\ next' = next + 1
            /\ ucb' = ucb /\ visits' = visits /\ len' = len
            /\ ~ Returned'
        BY <2>0, <2>1, <3>2 DEF Lead, Leads, Demoted, LoopInvariant, SeenSoFar, Returned, inputs
      <4>2. \A j \in 1 .. next : ucb[j] <= ucb[next]
        BY <2>0, <4>1
      <4>3. \A j \in 1 .. next - 1 : ucb[j] < ucb[next]
        BY <2>0, <4>1
      <4>4. \E j \in (1 .. next) \ {next} : ucb[j] = best_ucb
        BY <2>0, <4>1
      <4>5. next' # 1 /\ next' # 2 /\ next' - 1 = next /\ best' - 1 = next - 1
        BY <2>0, <3>2, <4>1
      <4>6. SeenSoFar'
        BY <4>1, <4>2, <4>3, <4>4, <4>5, <2>0 DEF SeenSoFar
      <4> QED
        BY <4>1, <4>6 DEF LoopInvariant
    <3> QED
      BY <3>1, <3>2
  <2>2. CASE RunUp
    <3>1. next # 1
      BY <2>0, <2>2 DEF RunUp, Leads, LoopInvariant, SeenSoFar, NegInf
    <3>2. /\ best < next /\ best_ucb = ucb[best] /\ best_visits = visits[best]
          /\ \A j \in 1 .. next - 1 : ucb[j] <= best_ucb
          /\ \A j \in 1 .. best - 1 : ucb[j] < best_ucb
          /\ \A j \in (1 .. next - 1) \ {best} : ucb[j] <= second_ucb
      BY <3>1 DEF LoopInvariant, SeenSoFar
    <3>3. /\ next <= len /\ ucb[next] <= best_ucb /\ ucb[next] > second_ucb
          /\ second_ucb' = ucb[next] /\ next' = next + 1
          /\ best' = best /\ best_ucb' = best_ucb /\ best_visits' = best_visits
          /\ ucb' = ucb /\ visits' = visits /\ len' = len
          /\ confidence' = confidence
      BY <2>0, <2>2 DEF RunUp, Leads, inputs
    <3>4. \A j \in 1 .. next : ucb[j] <= best_ucb
      BY <2>0, <3>2, <3>3
    <3>5. \A j \in (1 .. next) \ {best} : ucb[j] <= ucb[next]
      BY <2>0, <3>2, <3>3
    <3>6. next \in (1 .. next) \ {best}
      BY <2>0, <3>2
    <3>7. ~ Returned'
      BY <2>0, <3>3 DEF LoopInvariant, Returned
    <3> QED
      BY <2>0, <3>1, <3>2, <3>3, <3>4, <3>5, <3>6, <3>7 DEF LoopInvariant, SeenSoFar
  <2>3. CASE Pass
    <3>1. next # 1
      BY <2>0, <2>3 DEF Pass, Leads, LoopInvariant, SeenSoFar, NegInf
    <3>2. /\ best < next /\ best_ucb = ucb[best] /\ best_visits = visits[best]
          /\ \A j \in 1 .. next - 1 : ucb[j] <= best_ucb
          /\ \A j \in 1 .. best - 1 : ucb[j] < best_ucb
          /\ \A j \in (1 .. next - 1) \ {best} : ucb[j] <= second_ucb
          /\ IF next = 2
             THEN second_ucb = NegInf
             ELSE \E j \in (1 .. next - 1) \ {best} : ucb[j] = second_ucb
      BY <3>1 DEF LoopInvariant, SeenSoFar
    <3>3. /\ next <= len /\ ucb[next] <= best_ucb /\ ucb[next] <= second_ucb
          /\ second_ucb' = second_ucb /\ next' = next + 1
          /\ best' = best /\ best_ucb' = best_ucb /\ best_visits' = best_visits
          /\ ucb' = ucb /\ visits' = visits /\ len' = len
          /\ confidence' = confidence
      BY <2>0, <2>3 DEF Pass, Leads, inputs
    <3>4. \A j \in 1 .. next : ucb[j] <= best_ucb
      BY <2>0, <3>2, <3>3
    <3>5. \A j \in (1 .. next) \ {best} : ucb[j] <= second_ucb
      BY <2>0, <3>2, <3>3
    <3>6. next # 2
      BY <2>0, <3>2, <3>3 DEF NegInf
    <3>7. PICK j \in (1 .. next - 1) \ {best} : ucb[j] = second_ucb
      BY <3>2, <3>6
    <3>8. j \in (1 .. next) \ {best}
      BY <2>0, <3>7
    <3>9. ~ Returned'
      BY <2>0, <3>3 DEF LoopInvariant, Returned
    <3> QED
      BY <2>0, <3>1, <3>2, <3>3, <3>4, <3>5, <3>7, <3>8, <3>9
      DEF LoopInvariant, SeenSoFar
  <2>4. CASE Return
    BY <2>4 DEF Return, LoopInvariant, SeenSoFar, Returned, inputs
  <2>5. CASE UNCHANGED loopVars
    BY <2>5 DEF loopVars, LoopInvariant, SeenSoFar, Returned, inputs
  <2> QED
    BY <2>1, <2>2, <2>3, <2>4, <2>5 DEF Next
<1> QED
  BY <1>1, <1>2, TypeInvariance, PTL DEF Spec

\* At the end SeenSoFar has seen every action: for every list of governors and
\* every score the selection is the first best one.
THEOREM FirstBest == Spec => []SelectsFirstBest
<1>1. TypeOK /\ LoopInvariant => SelectsFirstBest
  BY DEF TypeOK, LoopInvariant, SeenSoFar, SelectsFirstBest, IsFirstMax
<1> QED
  BY <1>1, TypeInvariance, LoopInvariance, PTL

\* And the margin of its confidence is against the best of the others.
THEOREM RunnerUp == Spec => []MarginIsAgainstRunnerUp
<1>1. TypeOK /\ LoopInvariant => MarginIsAgainstRunnerUp
  BY DEF TypeOK, LoopInvariant, SeenSoFar, MarginIsAgainstRunnerUp, IsRunnerUp
<1> QED
  BY <1>1, TypeInvariance, LoopInvariance, PTL

-----------------------------------------------------------------------------
(* The loop ends. *)

\* What is left to do: the actions not looked at yet, and the return.
StepsLeft == (len + 1 - next) + (IF Returned THEN 0 ELSE 1)

\* Every step is one of a finite number: each iteration, and the return, takes
\* exactly one of the steps that are left, so select() returns after one pass
\* over the actions (`for gov in actions`, then the Selection).
Counts ==
  /\ StepsLeft \in Nat
  /\ StepsLeft' \in Nat
  /\ StepsLeft' = StepsLeft - 1

CountsDown == [][Counts]_loopVars

THEOREM Termination == Spec => CountsDown
<1>1. TypeOK /\ TypeOK' /\ LoopInvariant /\ [Next]_loopVars
        => [Counts]_loopVars
  <2> SUFFICES ASSUME TypeOK, TypeOK', LoopInvariant, Next
               PROVE  Counts
    OBVIOUS
  <2>1. len \in Nat /\ next \in 1 .. len + 1 /\ len' \in Nat /\ next' \in 1 .. len' + 1
    <3>1. 1 .. MaxActions \subseteq Nat
      BY LoopAssumption
    <3>2. len \in 1 .. MaxActions /\ next \in 1 .. len + 1
      BY DEF TypeOK
    <3>3. len' \in 1 .. MaxActions /\ next' \in 1 .. len' + 1
      BY DEF TypeOK
    <3> QED
      BY <3>1, <3>2, <3>3
  <2>2. StepsLeft \in Nat /\ StepsLeft' \in Nat
    <3>1. len + 1 - next \in Nat /\ len' + 1 - next' \in Nat
      <4>1. ASSUME NEW n \in Nat, NEW k \in 1 .. n + 1
            PROVE  n + 1 - k \in Nat
        OBVIOUS
      <4> QED
        BY <2>1, <4>1, ZenonT(20)
    <3> QED
      BY <3>1 DEF StepsLeft
  <2>3. ASSUME next <= len, next' = next + 1, UNCHANGED <<inputs, confidence>>
        PROVE  StepsLeft' = StepsLeft - 1
    <3>1. ~ Returned /\ ~ Returned'
      BY <2>1, <2>3 DEF LoopInvariant, Returned
    <3> QED
      BY <2>1, <2>3, <3>1 DEF StepsLeft, inputs
  <2>4. CASE Return
    <3>1. confidence' \in 5 .. 100
      <4>1. best_ucb \in Int /\ second_ucb \in Int /\ best_visits \in Nat
        BY LoopAssumption DEF TypeOK, NegInf
      <4> QED
        BY <2>4, <4>1, ConfidenceType DEF Return
    <3>2. ~ Returned /\ Returned'
      BY <2>4, <3>1 DEF Return, Returned, Undecided
    <3> QED
      <4>1. len' = len /\ next' = next
        BY <2>4 DEF Return, inputs
      <4>2. StepsLeft' = StepsLeft - 1
        BY <2>1, <3>2, <4>1 DEF StepsLeft
      <4> QED
        BY <2>2, <4>2 DEF Counts
  <2> QED
    BY <2>2, <2>3, <2>4 DEF Next, Lead, RunUp, Pass, Counts
<1> QED
  BY <1>1, TypeInvariance, LoopInvariance, PTL DEF Spec, CountsDown

==============================================================================
