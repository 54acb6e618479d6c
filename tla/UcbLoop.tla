------------------------------- MODULE UcbLoop -------------------------------
(***************************************************************************)
(* The loop of EpisodeMemory::select (foverin/src/memory.rs) over the      *)
(* actions: one pass that keeps the best score and the second best one,    *)
(* and the confidence it derives from them.  The scores ema + bonus are    *)
(* arbitrary here; EpisodeMemory.tla says what they are, and takes the     *)
(* result of the loop as one step.                                         *)
(***************************************************************************)
EXTENDS Integers, ArgMax

CONSTANTS
  MaxActions,   \* the length of the longest list of governors
  MaxScore,     \* the highest score
  MaxVisits,    \* the highest visit count
  Scale         \* the score that stands for 1.0

ASSUME LoopAssumption ==
  /\ MaxActions \in Nat \ {0}
  /\ MaxScore \in Nat
  /\ MaxVisits \in Nat
  /\ Scale \in Nat \ {0}

VARIABLES
  len,          \* actions.len(): open() never leaves the list empty
  ucb,          \* the score of each action
  visits,       \* the visits of each action, 0 if it has no stats
  next,         \* the action the loop looks at next
  best,         \* the position of best_gov in actions
  best_ucb,
  second_ucb,
  best_visits,
  confidence    \* the confidence of the Selection, Undecided before it

inputs == <<len, ucb, visits>>

loopVars == <<inputs, next, best, best_ucb, second_ucb, best_visits, confidence>>

NegInf == -1      \* f32::NEG_INFINITY: below every score

Undecided == -1

AtMost(m, x) == IF x < m THEN x ELSE m

AtLeast(m, x) == IF x > m THEN x ELSE m

\* (best_ucb - second_ucb).max(0.0), or 1.0 for a list of one.
Margin(first, second) ==
  IF second = NegInf THEN Scale ELSE AtLeast(0, first - second)

\* The larger of 5 % per visit and 80 % of the margin, within 5 .. 100.
Confidence(first, second, v) ==
  AtMost(100, AtLeast(5, AtLeast(AtMost(100, 5 * v),
                         AtMost(100, (80 * Margin(first, second)) \div Scale))))

Init ==
  /\ len \in 1 .. MaxActions
  /\ ucb \in [1 .. len -> 0 .. MaxScore]
  /\ visits \in [1 .. len -> 0 .. MaxVisits]
  /\ next = 1
  /\ best = 1
  /\ best_ucb = NegInf
  /\ second_ucb = NegInf
  /\ best_visits = 0
  /\ confidence = Undecided

\* Mutant of Leads: a tie goes to the later action.
LeadsOnTie == ucb[next] >= best_ucb

\* The action looked at becomes the best.
Leads == ucb[next] > best_ucb

\* Mutant of Demoted: the old best is forgotten.
DemotedNever == second_ucb

\* The old best becomes second.
Demoted == best_ucb

\* if ucb > best_ucb
Lead ==
  /\ next <= len
  /\ Leads
  /\ second_ucb' = Demoted
  /\ best_ucb' = ucb[next]
  /\ best' = next
  /\ best_visits' = visits[next]
  /\ next' = next + 1
  /\ UNCHANGED <<inputs, confidence>>

\* else if ucb > second_ucb
RunUp ==
  /\ next <= len
  /\ ~ Leads
  /\ ucb[next] > second_ucb
  /\ second_ucb' = ucb[next]
  /\ next' = next + 1
  /\ UNCHANGED <<inputs, best, best_ucb, best_visits, confidence>>

Pass ==
  /\ next <= len
  /\ ~ Leads
  /\ ucb[next] <= second_ucb
  /\ next' = next + 1
  /\ UNCHANGED <<inputs, best, best_ucb, second_ucb, best_visits, confidence>>

\* The Selection is returned.
Return ==
  /\ next > len
  /\ confidence = Undecided
  /\ confidence' = Confidence(best_ucb, second_ucb, best_visits)
  /\ UNCHANGED <<inputs, next, best, best_ucb, second_ucb, best_visits>>

Next == Lead \/ RunUp \/ Pass \/ Return

Spec == Init /\ [][Next]_loopVars

-----------------------------------------------------------------------------
(* Properties. *)

\* The loop's variables keep their types; a confidence is a percentage that
\* is never below 5.
TypeOK ==
  /\ len \in 1 .. MaxActions
  /\ ucb \in [1 .. len -> 0 .. MaxScore]
  /\ visits \in [1 .. len -> 0 .. MaxVisits]
  /\ next \in 1 .. len + 1
  /\ best \in 1 .. len
  /\ best_ucb \in NegInf .. MaxScore
  /\ second_ucb \in NegInf .. MaxScore
  /\ best_visits \in 0 .. MaxVisits
  /\ confidence \in {Undecided} \cup 5 .. 100

Returned == confidence # Undecided

\* The selection is the first action with the highest score, with its own
\* visits, whatever the order of the scores.
SelectsFirstBest ==
  Returned => IsFirstMax(ucb, best) /\ best_visits = visits[best]

\* The margin is taken against the best of the other actions, and is 1.0
\* exactly when there is no other.
MarginIsAgainstRunnerUp ==
  Returned =>
    IF len = 1 THEN second_ucb = NegInf ELSE IsRunnerUp(ucb, best, second_ucb)

\* Where the loop stands after next - 1 actions: the inductive invariant.
SeenSoFar ==
  IF next = 1
  THEN best_ucb = NegInf /\ second_ucb = NegInf
  ELSE /\ best < next
       /\ best_ucb = ucb[best]
       /\ best_visits = visits[best]
       /\ \A j \in 1 .. next - 1 : ucb[j] <= best_ucb
       /\ \A j \in 1 .. best - 1 : ucb[j] < best_ucb
       /\ \A j \in (1 .. next - 1) \ {best} : ucb[j] <= second_ucb
       /\ IF next = 2
          THEN second_ucb = NegInf
          ELSE \E j \in (1 .. next - 1) \ {best} : ucb[j] = second_ucb

=============================================================================
