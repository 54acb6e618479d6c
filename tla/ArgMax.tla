------------------------------- MODULE ArgMax -------------------------------
(***************************************************************************)
(* What a search for the best of a sequence of scores must find: the first *)
(* position with the highest score, and the highest score elsewhere.       *)
(***************************************************************************)
EXTENDS Integers

IsFirstMax(score, i) ==
  /\ i \in DOMAIN score
  /\ \A j \in DOMAIN score :
       /\ score[j] <= score[i]
       /\ j < i => score[j] < score[i]

\* m is the highest score at a position other than i.
IsRunnerUp(score, i, m) ==
  /\ \E j \in DOMAIN score \ {i} : score[j] = m
  /\ \A j \in DOMAIN score \ {i} : score[j] <= m

=============================================================================
