--------------------------- MODULE MCExploration ---------------------------
(***************************************************************************)
(* PolicyEngine for TLC on one fingerprint, with rewards at both ends of   *)
(* their range and enough windows for UCB1 to leave a governor it likes.   *)
(***************************************************************************)
EXTENDS PolicyEngine

MCExecs ==
  {[name |-> "ls", exes |-> 0, parent |-> <<"b", "a", "s", "h">>,
    elsewhere |-> Comm(<<>>)]}

MCKernelOffsets == FallbackOffsets

MCBuildHost ==
  [skip |-> FALSE, btf |-> FALSE, kernel |-> FallbackOffsets,
   pahole |-> "missing", parses |-> {}]

MCFingerprints == {{}}

MCGovernors == {"performance", "schedutil", "powersave"}

MCKernelLists ==
  {Readable(<<"powersave", "userspace", "performance", "schedutil">>)}

MCActionLists == {AvailableGovernors(have) : have \in MCKernelLists}

\* 7000 * sqrt(ln(n + 1) / (v + 1)), rounded, for n in 1..14 and v in 0..14.
BonusTable == <<
  <<5828, 4121, 3365, 2914, 2606, 2379, 2203, 2060, 1943, 1843, 1757, 1682, 1616, 1558, 1505>>,
  <<7337, 5188, 4236, 3669, 3281, 2995, 2773, 2594, 2446, 2320, 2212, 2118, 2035, 1961, 1894>>,
  <<8242, 5828, 4758, 4121, 3686, 3365, 3115, 2914, 2747, 2606, 2485, 2379, 2286, 2203, 2128>>,
  <<8880, 6279, 5127, 4440, 3971, 3625, 3356, 3140, 2960, 2808, 2678, 2564, 2463, 2373, 2293>>,
  <<9370, 6626, 5410, 4685, 4190, 3825, 3542, 3313, 3123, 2963, 2825, 2705, 2599, 2504, 2419>>,
  <<9765, 6905, 5638, 4882, 4367, 3986, 3691, 3452, 3255, 3088, 2944, 2819, 2708, 2610, 2521>>,
  <<10094, 7138, 5828, 5047, 4514, 4121, 3815, 3569, 3365, 3192, 3044, 2914, 2800, 2698, 2606>>,
  <<10376, 7337, 5991, 5188, 4640, 4236, 3922, 3669, 3459, 3281, 3129, 2995, 2878, 2773, 2679>>,
  <<10622, 7511, 6133, 5311, 4750, 4336, 4015, 3755, 3541, 3359, 3203, 3066, 2946, 2839, 2743>>,
  <<10840, 7665, 6258, 5420, 4848, 4425, 4097, 3832, 3613, 3428, 3268, 3129, 3006, 2897, 2799>>,
  <<11035, 7803, 6371, 5517, 4935, 4505, 4171, 3901, 3678, 3489, 3327, 3185, 3060, 2949, 2849>>,
  <<11211, 7927, 6473, 5605, 5014, 4577, 4237, 3964, 3737, 3545, 3380, 3236, 3109, 2996, 2895>>,
  <<11372, 8041, 6565, 5686, 5086, 4642, 4298, 4020, 3791, 3596, 3429, 3283, 3154, 3039, 2936>>,
  <<11519, 8145, 6651, 5760, 5152, 4703, 4354, 4073, 3840, 3643, 3473, 3325, 3195, 3079, 2974>> >>

MCBonus == [n \in 1 .. 14 |-> [v \in 0 .. 14 |-> BonusTable[n][v + 1]]]

\* So NoGovernorStarves is about every bucket that was credited ten times.
ASSUME FourVisitsSate == SatedBy(4) /\ ~ SatedBy(3)

=============================================================================
