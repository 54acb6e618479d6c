---------------------------- MODULE BoundedStore ----------------------------
(***************************************************************************)
(* What the episodic memory promises of its keys, values aside: a touched  *)
(* key is resident; a resident key goes only to make room for a new one,   *)
(* one for one, and only when the store is full; a stop forgets the store, *)
(* and a start brings back exactly the keys of the last whole copy that    *)
(* was made durable.  Making a copy durable may fail, leave the previous   *)
(* copy, or spoil it.                                                      *)
(***************************************************************************)
EXTENDS Integers, FiniteSets

CONSTANTS Keys, Capacity

VARIABLES
  live,       \* the store is open
  resident,   \* the keys in memory
  intact,     \* the durable copy can be read back
  durable     \* the keys of the durable copy

storeVars == <<live, resident, intact, durable>>

Init ==
  /\ live = FALSE
  /\ resident = {}
  /\ intact = TRUE
  /\ durable = {}

\* The durable copy becomes a copy of keys, stays as it was, or is spoilt.
CopyOut(keys) ==
  \/ intact' = TRUE /\ durable' = keys
  \/ UNCHANGED <<intact, durable>>
  \/ intact' = FALSE /\ durable' = {}

Start ==
  /\ ~ live
  /\ intact
  /\ live' = TRUE
  /\ resident' = durable
  /\ UNCHANGED <<intact, durable>>

Touch(k) ==
  /\ live
  /\ \/ /\ k \in resident \/ Cardinality(resident) < Capacity
        /\ resident' = resident \cup {k}
     \/ /\ k \notin resident
        /\ Cardinality(resident) = Capacity
        /\ \E victim \in resident :
             resident' = (resident \ {victim}) \cup {k}
  /\ CopyOut(resident')
  /\ UNCHANGED live

Persist ==
  /\ live
  /\ CopyOut(resident)
  /\ UNCHANGED <<live, resident>>

Stop ==
  /\ live
  /\ live' = FALSE
  /\ resident' = {}
  /\ CopyOut(resident)

Next == Start \/ (\E k \in Keys : Touch(k)) \/ Persist \/ Stop

Spec == Init /\ [][Next]_storeVars

=============================================================================
