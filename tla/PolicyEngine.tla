---------------------------- MODULE PolicyEngine ----------------------------
(***************************************************************************)
(* PolicyEngine of foverin/src/brain.rs over the EpisodeMemory of         *)
(* memory.rs: each call of decide() first credits the previous decision    *)
(* with the reward of the window that has passed, then selects a governor  *)
(* for the processes of that window and leaves the pair pending.           *)
(*                                                                         *)
(* decide() is two steps here, Credit and Choose, because the process may  *)
(* die between them; phase forces the second after the first.              *)
(***************************************************************************)
EXTENDS EpisodeMemory, Fingerprint, Actuator

CONSTANTS
  KernelLists,  \* what reads of the kernel's list of governors may return
  None          \* no credit is pending

ASSUME EngineAssumption ==
  /\ Fingerprints = {FingerprintBits(window, BakedOffsets(BuildHost)) :
                       window \in SUBSET Execs}
  /\ ActionLists = {AvailableGovernors(have) : have \in KernelLists}
  /\ None \notin [fingerprint : Fingerprints, governor : Governors]
  /\ \A e \in Execs : e.parent \in Seq(STRING \ {NUL})

VARIABLES
  pending,    \* the decision that awaits its reward, or None
  primed,     \* decide() has been called before
  baseline,   \* the metric sampler holds a previous sample (prev_cpu)
  phase       \* "waiting" for a window, "deciding" inside decide(),
              \* "stopped" after the flush on shutdown

engineVars == <<memVars, pending, primed, baseline, phase>>

PendingCredit == [fingerprint : Fingerprints, governor : Governors]

\* The window that the probe and the ring deliver, as a fingerprint.
FingerprintOf ==
  [window \in SUBSET Execs |-> FingerprintBits(window, BakedOffsets(BuildHost))]

ResolvePrior(want) ==
  IF \E i \in DOMAIN actions : actions[i] = want THEN want ELSE actions[1]

\* The prior of a window; the kernel's list is read again for it.
PriorOf(fp, have) ==
  ResolvePrior(PriorGovernor(SoftLabel(fp), EfficiencyGovernor(have)))

-----------------------------------------------------------------------------
(* The engine's operations. *)

OpenEngine(list) ==
  /\ Open(list)
  /\ phase' = "waiting"
  /\ UNCHANGED <<pending, primed, baseline>>

OpenEngineFails == OpenFails /\ UNCHANGED <<pending, primed, baseline, phase>>

\* Mutant of Sample: only for a credit.
SampleForCredit == baseline' = (baseline \/ (primed /\ pending # None))

\* metrics.sample(); the sampler is that of MetricSampler.tla.
Sample == baseline' = TRUE

\* Mutant of Take: the pending decision is read but not taken.
Peek == UNCHANGED pending

\* pending.take()
Take == pending' = None

\* decide(), first half: sample the metrics; credit the pending decision.
Credit(reward) ==
  /\ running
  /\ phase = "waiting"
  /\ tick < MaxTick
  /\ Sample
  /\ \/ /\ primed /\ pending # None
        /\ Update(pending.fingerprint, pending.governor, reward)
        /\ Take
     \/ /\ ~ (primed /\ pending # None)
        /\ UNCHANGED <<memVars, pending>>
  /\ primed' = TRUE
  /\ phase' = "deciding"

\* decide(), second half: select a governor for the window; leave it pending.
Choose(window, have, governor) ==
  LET fp == FingerprintOf[window]
  IN  /\ phase = "deciding"
      /\ Select(fp, PriorOf(fp, have), governor)
      /\ pending' = [fingerprint |-> fp, governor |-> governor]
      /\ phase' = "waiting"
      /\ UNCHANGED <<primed, baseline>>

\* The sensor loop's shutdown branch: flush() and break.
Flush ==
  /\ phase = "waiting"
  /\ SaveNow
  /\ phase' = "stopped"
  /\ UNCHANGED <<pending, primed, baseline>>

\* The engine's state goes with the process; "waiting" is how it starts again.
LoseEngine ==
  /\ pending' = None
  /\ primed' = FALSE
  /\ baseline' = FALSE
  /\ phase' = "waiting"

\* The process ends after its flush, or dies at any time.
EndProcess == Crash /\ LoseEngine

\* It dies in the middle of a save: one that a credit made due, or the flush.
DieInSave == phase = "waiting" /\ CrashInSave /\ LoseEngine

-----------------------------------------------------------------------------
EngineInit ==
  /\ Init
  /\ pending = None
  /\ primed = FALSE
  /\ baseline = FALSE
  /\ phase = "waiting"

EngineNext ==
  \/ \E list \in ActionLists : OpenEngine(list)
  \/ OpenEngineFails
  \/ \E reward \in Rewards : Credit(reward)
  \/ \E window \in SUBSET Execs, have \in KernelLists, governor \in Governors :
        Choose(window, have, governor)
  \/ Flush
  \/ EndProcess
  \/ DieInSave

EngineSpec == EngineInit /\ [][EngineNext]_engineVars

-----------------------------------------------------------------------------
(* Properties. *)

\* TypeOK, and a pending credit is for a fingerprint over VOCAB and a governor
\* of some action list.
EngineTypeOK ==
  /\ TypeOK
  /\ pending \in PendingCredit \cup {None}
  /\ primed \in BOOLEAN
  /\ baseline \in BOOLEAN
  /\ phase \in {"waiting", "deciding", "stopped"}

\* The reward that arrives one window later finds its bucket: the pending
\* decision's bucket has not been evicted and is the most recently used one.
\* So update() never creates a bucket and never evicts one.
PendingIsNewest ==
  pending # None =>
    /\ pending.fingerprint \in DOMAIN buckets
    /\ buckets[pending.fingerprint].last_used = tick
    /\ \A k \in DOMAIN buckets \ {pending.fingerprint} :
         buckets[k].last_used < tick

\* Every bucket of the map B has a last_used of its own.
DistinctStamps(B) ==
  \A j, k \in DOMAIN B : B[j].last_used = B[k].last_used => j = k

\* No two buckets were last used at the same tick, in memory or in the file.
RecencyIsUnique == DistinctStamps(buckets) /\ DistinctStamps(disk.buckets)

\* Which bucket is evicted does not depend on the iteration order of the
\* HashMap, although min_by takes the first of equal minima.
EvictionIsDeterministic ==
  \A fp \in Fingerprints : \A V, W \in Evictions(fp) : V = W

\* With n visits in all, a governor of v visits scores less than an untried
\* one, whatever it has earned.
Outgrown(n, v) == Scale + Bonus[n][v] < UnseenScore + Bonus[n][0]

\* That is so from p + 1 visits on, and at p once the bucket has more than
\* twice as many.
SatedBy(p) ==
  \A n \in 1 .. MaxVisits : \A v \in 0 .. n :
    v > p \/ (v = p /\ n > 2 * p) => Outgrown(n, v)

AlwaysOffered ==
  {g \in Governors : \A list \in ActionLists : \E i \in DOMAIN list : list[i] = g}

\* However well the governors tried so far do, a bucket with more than p visits
\* for each governor but one, and one more, has tried every governor that is
\* always offered: the bonus outgrows any reward, over restarts, evictions and
\* credits that come a window late (memory.rs,
\* ucb_explores_unseen_then_exploits).
NoGovernorStarves ==
  \A p \in 1 .. MaxVisits : 2 * p < MaxVisits /\ SatedBy(p) =>
    \A k \in DOMAIN buckets :
      buckets[k].total_visits > (Cardinality(Governors) - 1) * p + 1 =>
        AlwaysOffered \subseteq DOMAIN buckets[k].actions

\* No reward is computed from the sampler's first, neutral sample
\* (reward.rs: "so credit assignment can skip it"), and primed never holds
\* a credit back.
BaselineBeforeCredit == pending # None => baseline /\ primed

\* A probe built for the running kernel marks a window as steam_app if and only
\* if a child of steam (or a file of that name) ran in it, not one of steam's
\* helpers; and such a window gets the prior of gaming, whatever else ran
\* ("so Proton/Wine game binaries that are out-of-vocabulary still fingerprint
\* as gaming", README.md).
LineageCounts ==
  phase = "deciding" /\ BuiltForKernel(BuildHost) =>
    \A window \in SUBSET Execs, have \in KernelLists :
      LET fp     == FingerprintOf[window]
          marked == \E i \in fp : VOCAB[i] = "steam_app"
      IN  /\ marked <=>
               \E e \in window :
                 e.parent = Steam \/ (e.name = "steam_app" /\ e.exes <= 1)
          /\ marked => PriorOf(fp, have) = ResolvePrior("performance")

\* The rewards the map B has received, per pair.
VisitsIn(B) ==
  [p \in Fingerprints \X Governors |->
     IF p[1] \in DOMAIN B THEN StatsOf(B[p[1]], p[2]).visits ELSE 0]

\* The learning this engine implements: see DelayedCredit.tla.
Learning == INSTANCE DelayedCredit WITH
              Contexts    <- Fingerprints,
              Choices     <- Governors,
              MaxCount    <- MaxVisits,
              live        <- running,
              outstanding <- pending,
              learned     <- VisitsIn(buckets),
              intact      <- disk.state # "torn",
              saved       <- VisitsIn(disk.buckets)

\* Every decision that is followed by another is credited exactly once, to
\* its own bucket and governor, and nothing else is ever learned.
ImplementsLearning == Learning!Spec

\* Where saving never fails, a crash between two saves costs at most SAVE_EVERY
\* windows of the clock and fewer credits than that of any bucket, over all
\* restarts ("Persist every ~12 ticks", README.md).
CrashCost ==
  SaveFaults = {} /\ disk.state # "torn" =>
    /\ tick <= disk.tick + SaveEvery
    /\ \A k \in DOMAIN buckets :
         buckets[k].total_visits < FileVisits(k) + SaveEvery

\* A start after a stop can read the memory that was persisted
\* (foverin.service: "Persist episodic memory across restarts").
RestartFindsMemory == ~ running => disk.state # "torn"

=============================================================================
