--------------------------- MODULE DelayedCredit ---------------------------
(***************************************************************************)
(* What the policy engine promises of learning, eviction order and scores  *)
(* aside.  A decision for a context stays outstanding until the next       *)
(* window, when it is credited, once, to the pair it was made for; only    *)
(* then is the next decision made.  A decision may cost one other context  *)
(* everything learned about it.  A stop drops the outstanding decision     *)
(* uncredited and whatever was not saved; a start resumes the last whole   *)
(* save.                                                                   *)
(***************************************************************************)
EXTENDS Integers

CONSTANTS
  Contexts, Choices,
  None,         \* no decision is outstanding
  MaxCount      \* counts stop here

VARIABLES
  live,         \* the engine is running
  outstanding,  \* the decision awaiting its reward, or None
  learned,      \* rewards received per pair, for contexts remembered
  intact,       \* the saved copy can be read back
  saved         \* the saved copy of learned

creditVars == <<live, outstanding, learned, intact, saved>>

Pairs == Contexts \X Choices

Nothing == [p \in Pairs |-> 0]

Init ==
  /\ live = FALSE
  /\ outstanding = None
  /\ learned = Nothing
  /\ intact = TRUE
  /\ saved = Nothing

CopyOut(counts) ==
  \/ intact' = TRUE /\ saved' = counts
  \/ UNCHANGED <<intact, saved>>
  \/ intact' = FALSE /\ saved' = Nothing

Start ==
  /\ ~ live
  /\ intact
  /\ live' = TRUE
  /\ learned' = saved
  /\ UNCHANGED <<outstanding, intact, saved>>

Decide(c, g) ==
  /\ live
  /\ outstanding = None
  /\ outstanding' = [fingerprint |-> c, governor |-> g]
  /\ \/ learned' = learned
     \/ \E forgotten \in Contexts \ {c} :
          learned' = [p \in Pairs |->
                        IF p[1] = forgotten THEN 0 ELSE learned[p]]
  /\ UNCHANGED <<live, intact, saved>>

Credit ==
  /\ live
  /\ outstanding # None
  /\ LET pair == <<outstanding.fingerprint, outstanding.governor>> IN
       learned' = [learned EXCEPT ![pair] = IF @ < MaxCount THEN @ + 1 ELSE @]
  /\ outstanding' = None
  /\ CopyOut(learned')
  /\ UNCHANGED live

Persist ==
  /\ live
  /\ CopyOut(learned)
  /\ UNCHANGED <<live, outstanding, learned>>

Stop ==
  /\ live
  /\ live' = FALSE
  /\ outstanding' = None
  /\ learned' = Nothing
  /\ CopyOut(learned)

Next ==
  \/ Start
  \/ \E c \in Contexts, g \in Choices : Decide(c, g)
  \/ Credit
  \/ Persist
  \/ Stop

Spec == Init /\ [][Next]_creditVars

=============================================================================
