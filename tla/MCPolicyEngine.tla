--------------------------- MODULE MCPolicyEngine ---------------------------
(***************************************************************************)
(* PolicyEngine for TLC: a compiler, children of steam and of its helper,  *)
(* and names that look like entries of VOCAB give four fingerprints over   *)
(* two or three buckets; the kernel lists schedutil, or does not.          *)
(***************************************************************************)
EXTENDS PolicyEngine

Exec(name, exes, parent, elsewhere) ==
  [name |-> name, exes |-> exes, parent |-> parent, elsewhere |-> elsewhere]

Bash == <<"b", "a", "s", "h">>

SteamWebHelper == Steam \o <<"w", "e", "b", "h", "e", "l", "p", "e", "r">>

MCExecs == {
  Exec("cargo",      0, Bash,           Comm(Steam)),
  Exec("eldenring",  1, Steam,          Comm(<<>>)),
  Exec("steam_app",  2, SteamWebHelper, Comm(<<>>)) }

MCKernelOffsets == [real_parent |-> 2456, comm |-> 3048]

MCBuildHost ==
  [skip |-> FALSE, btf |-> TRUE, kernel |-> MCKernelOffsets,
   pahole |-> "runs", parses |-> {"real_parent", "comm"}]

\* Positions of "cargo" and "steam_app"; EngineAssumption says that it is them.
MCFingerprints == SUBSET {2, 21}

MCGovernors == {"performance", "schedutil", "powersave"}

MCKernelLists == {Readable(<<"schedutil", "performance">>), Unreadable}

MCActionLists == {AvailableGovernors(have) : have \in MCKernelLists}

\* 7000 * sqrt(ln(n + 1) / (v + 1)), rounded, for n in 1..6 and v in 0..6.
BonusTable == <<
  <<5828, 4121, 3365, 2914, 2606, 2379, 2203>>,
  <<7337, 5188, 4236, 3669, 3281, 2995, 2773>>,
  <<8242, 5828, 4758, 4121, 3686, 3365, 3115>>,
  <<8880, 6279, 5127, 4440, 3971, 3625, 3356>>,
  <<9370, 6626, 5410, 4685, 4190, 3825, 3542>>,
  <<9765, 6905, 5638, 4882, 4367, 3986, 3691>> >>

MCBonus == [n \in 1 .. 6 |-> [v \in 0 .. 6 |-> BonusTable[n][v + 1]]]

=============================================================================
