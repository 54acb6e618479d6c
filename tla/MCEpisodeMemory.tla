-------------------------- MODULE MCEpisodeMemory --------------------------
(***************************************************************************)
(* EpisodeMemory for TLC: three fingerprints over two buckets, so that     *)
(* every new fingerprint may evict; action lists that differ between       *)
(* restarts; counters that saturate at 2.                                  *)
(***************************************************************************)
EXTENDS EpisodeMemory, TLC

CONSTANTS k1, k2, k3   \* model values for three fingerprints

MCFingerprints == {k1, k2, k3}

\* Fingerprints are only compared for equality.
MCSymmetry == Permutations(MCFingerprints)

MCGovernors == {"performance", "powersave"}

MCActionLists == {<<>>, <<"powersave">>}

\* 7000 * sqrt(ln(n + 1) / (v + 1)), rounded, for n in 1..2 and v in 0..2.
BonusTable == <<
  <<5828, 4121, 3365>>,
  <<7337, 5188, 4236>> >>

MCBonus == [n \in 1 .. 2 |-> [v \in 0 .. 2 |-> BonusTable[n][v + 1]]]

=============================================================================
