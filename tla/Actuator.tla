------------------------------ MODULE Actuator ------------------------------
(***************************************************************************)
(* What foverin/src/actuator.rs makes of cpu0's list of governors, which   *)
(* the kernel may change and which cannot always be read.  The writing of  *)
(* a governor is in SensorLoop.tla.                                        *)
(***************************************************************************)
EXTENDS Sequences

Preferred == <<"performance", "schedutil", "powersave", "ondemand">>

\* A read of scaling_available_governors: the list, or that it failed.
Unreadable == [ok |-> FALSE, list |-> <<>>]
Readable(list) == [ok |-> TRUE, list |-> list]

Lists(have, governor) == \E i \in DOMAIN have.list : have.list[i] = governor

\* available_governors: the preferred ones the kernel has, in that order; all
\* it has if it has none of them.
AvailableGovernors(have) ==
  LET preferred == SelectSeq(Preferred, LAMBDA g : Lists(have, g))
  IN  IF ~ have.ok THEN <<"performance", "powersave">>
      ELSE IF preferred # <<>> THEN preferred
      ELSE IF have.list # <<>> THEN have.list
      ELSE <<"powersave">>

\* preferred_efficiency_governor.
EfficiencyGovernor(have) ==
  IF Lists(have, "schedutil") THEN "schedutil" ELSE "powersave"

=============================================================================
