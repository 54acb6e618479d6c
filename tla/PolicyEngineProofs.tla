------------------------- MODULE PolicyEngineProofs -------------------------
(***************************************************************************)
(* PolicyEngine uses the episodic memory only as EpisodeMemory.tla allows, *)
(* and its one-window-late credit always finds its bucket; from that, that *)
(* stamps never collide and evictions are determined.                      *)
(***************************************************************************)
EXTENDS PolicyEngine, EpisodeMemoryProofs

-----------------------------------------------------------------------------
(* Steps of the engine are steps of the memory. *)

LEMMA FingerprintType ==
  ASSUME NEW window \in SUBSET Execs
  PROVE  FingerprintOf[window] \in Fingerprints
BY EngineAssumption DEF FingerprintOf

\* The prior is one of the engine's actions: what the label asks for, or the
\* first of them.
LEMMA PriorType ==
  ASSUME TypeOK, actions # <<>>, NEW want
  PROVE  ResolvePrior(want) \in Governors
BY DEF TypeOK, ResolvePrior

LEMMA StepIsMemoryStep ==
  ASSUME EngineTypeOK, [EngineNext]_engineVars
  PROVE  [Next]_memVars
<1>0. TypeOK
  BY DEF EngineTypeOK
<1>1. ASSUME NEW list \in ActionLists, OpenEngine(list) PROVE Next
  BY <1>1 DEF OpenEngine, Next
<1>2. CASE OpenEngineFails
  BY <1>2 DEF OpenEngineFails, Next
<1>3. ASSUME NEW reward \in Rewards, Credit(reward) PROVE [Next]_memVars
  <2>1. CASE /\ pending # None
             /\ Update(pending.fingerprint, pending.governor, reward)
    <3>1. pending \in PendingCredit
      BY <2>1 DEF EngineTypeOK
    <3>2. pending.fingerprint \in Fingerprints /\ pending.governor \in Governors
      BY <3>1 DEF PendingCredit
    <3> QED
      BY <2>1, <3>2 DEF Next
  <2>2. CASE UNCHANGED memVars
    BY <2>2
  <2> QED
    BY <1>3, <2>1, <2>2 DEF Credit, Sample, Take
<1>4. ASSUME NEW window \in SUBSET Execs, NEW have \in KernelLists,
             NEW governor \in Governors, Choose(window, have, governor)
      PROVE  Next
  <2> DEFINE fp == FingerprintOf[window]
             prior == PriorOf(fp, have)
  <2>1. Select(fp, prior, governor)
    BY <1>4 DEF Choose
  <2>2. actions # <<>>
    BY <2>1 DEF Select
  <2>3. fp \in Fingerprints /\ prior \in Governors
    BY <1>0, <2>2, FingerprintType, PriorType DEF PriorOf
  <2> HIDE DEF fp, prior
  <2> QED
    BY <2>1, <2>3 DEF Next
<1>5. CASE Flush
  BY <1>5 DEF Flush, Next
<1>6. CASE EndProcess
  BY <1>6 DEF EndProcess, Next
<1>7. CASE DieInSave
  BY <1>7 DEF DieInSave, Next
<1>8. CASE UNCHANGED engineVars
  BY <1>8 DEF engineVars
<1> QED
  BY <1>1, <1>2, <1>3, <1>4, <1>5, <1>6, <1>7, <1>8 DEF EngineNext

LEMMA ChosenType ==
  ASSUME NEW window \in SUBSET Execs, NEW governor \in Governors
  PROVE  [fingerprint |-> FingerprintOf[window], governor |-> governor]
           \in PendingCredit
BY FingerprintType DEF PendingCredit

\* The engine's own variables keep their types, and so does the memory.
THEOREM EngineTypeInvariance == EngineSpec => []EngineTypeOK
<1>1. EngineInit => EngineTypeOK
  <2>1. Init => TypeOK
    BY TypeInit
  <2> QED
    BY <2>1 DEF EngineInit, EngineTypeOK
<1>2. EngineTypeOK /\ [EngineNext]_engineVars => EngineTypeOK'
  <2> SUFFICES ASSUME EngineTypeOK, [EngineNext]_engineVars PROVE EngineTypeOK'
    OBVIOUS
  <2>1. TypeOK'
    BY StepIsMemoryStep, TypeStep DEF EngineTypeOK
  <2>2. ASSUME NEW list \in ActionLists, OpenEngine(list) PROVE EngineTypeOK'
    BY <2>1, <2>2 DEF OpenEngine, EngineTypeOK
  <2>3. CASE OpenEngineFails
    BY <2>1, <2>3 DEF OpenEngineFails, EngineTypeOK
  <2>4. ASSUME NEW reward \in Rewards, Credit(reward) PROVE EngineTypeOK'
    BY <2>1, <2>4 DEF Credit, Sample, Take, EngineTypeOK
  <2>5. ASSUME NEW window \in SUBSET Execs,
               NEW have \in KernelLists, NEW governor \in Governors,
               Choose(window, have, governor)
        PROVE  EngineTypeOK'
    BY <2>1, <2>5, ChosenType DEF Choose, EngineTypeOK
  <2>6. CASE Flush
    BY <2>1, <2>6 DEF Flush, EngineTypeOK
  <2>7. CASE EndProcess \/ DieInSave
    BY <2>1, <2>7 DEF EndProcess, DieInSave, LoseEngine, EngineTypeOK
  <2>8. CASE UNCHANGED engineVars
    BY <2>1, <2>8 DEF engineVars, EngineTypeOK
  <2> QED
    BY <2>2, <2>3, <2>4, <2>5, <2>6, <2>7, <2>8 DEF EngineNext
<1> QED
  BY <1>1, <1>2, PTL DEF EngineSpec

\* The engine drives the memory through its public operations only, so that
\* every theorem about Spec holds of the engine.
THEOREM EngineUsesMemory == EngineSpec => Spec
<1>1. EngineInit => Init
  BY DEF EngineInit
<1>2. EngineTypeOK /\ [EngineNext]_engineVars => [Next]_memVars
  BY StepIsMemoryStep
<1> QED
  BY <1>1, <1>2, EngineTypeInvariance, PTL DEF EngineSpec, Spec

-----------------------------------------------------------------------------
(* The pending decision and the stamps. *)

\* The inductive invariant: stamps are never ahead of their clock, they never
\* collide, a pending decision's bucket holds the newest one, and a decision does
\* not outlive its process.
RecencyInvariant ==
  /\ ClockCoversStamps
  /\ RecencyIsUnique
  /\ PendingIsNewest
  /\ ~ running => pending = None

\* A credit finds its bucket, so the map keeps its keys and its stamps.
LEMMA CreditKeepsStamps ==
  ASSUME TypeOK, RecencyInvariant, pending # None, pending.fingerprint \in Fingerprints,
         NEW reward, Update(pending.fingerprint, pending.governor, reward)
  PROVE  /\ DOMAIN buckets' = DOMAIN buckets
         /\ \A k \in DOMAIN buckets : buckets'[k].last_used = buckets[k].last_used
<1> DEFINE fp == pending.fingerprint
<1>1. fp \in DOMAIN buckets /\ buckets[fp].last_used = tick
  BY DEF RecencyInvariant, PendingIsNewest
<1>2. PICK evicted \in Evictions(fp) :
        /\ DOMAIN buckets' = (DOMAIN buckets \ evicted) \cup {fp}
        /\ buckets'[fp].last_used = tick
        /\ \A k \in (DOMAIN buckets \ evicted) \ {fp} : buckets'[k] = buckets[k]
  BY UpdateFields
<1>3. evicted = {}
  BY <1>1, EvictionsType
<1> QED
  BY <1>1, <1>2, <1>3

LEMMA SaveKeepsDistinct ==
  ASSUME NEW B, NEW d, Save(B, d), DistinctStamps(B), DistinctStamps(disk.buckets)
  PROVE  DistinctStamps(disk'.buckets)
BY DEF Save, SavedFile, TornFile, NoBuckets, DistinctStamps

LEMMA RecencyStep ==
  ASSUME EngineTypeOK, RecencyInvariant, ClockCoversStamps', [EngineNext]_engineVars
  PROVE  RecencyIsUnique' /\ PendingIsNewest'
<1>0. /\ TypeOK
      /\ DistinctStamps(buckets) /\ DistinctStamps(disk.buckets)
      /\ \A k \in DOMAIN buckets : buckets[k].last_used <= tick
      /\ \A k \in DOMAIN buckets : buckets[k].last_used \in Nat
      /\ tick \in Nat
  BY DEF EngineTypeOK, RecencyInvariant, RecencyIsUnique, ClockCoversStamps, TypeOK,
         IsBuckets, IsBucket
<1>1. ASSUME NEW list \in ActionLists, OpenEngine(list)
      PROVE  RecencyIsUnique' /\ PendingIsNewest'
  <2>1. pending' = None
    BY <1>1 DEF OpenEngine, Open, RecencyInvariant
  <2> QED
    BY <1>0, <1>1, <2>1 DEF OpenEngine, Open, RecencyIsUnique, PendingIsNewest
<1>2. CASE OpenEngineFails
  BY <1>2 DEF OpenEngineFails, OpenFails, memVars, RecencyInvariant, RecencyIsUnique,
              PendingIsNewest
<1>3. ASSUME NEW reward \in Rewards, Credit(reward)
      PROVE  RecencyIsUnique' /\ PendingIsNewest'
  <2>1. CASE /\ pending # None
             /\ Update(pending.fingerprint, pending.governor, reward)
             /\ pending' = None
    <3>1. pending.fingerprint \in Fingerprints
      BY <2>1 DEF EngineTypeOK, PendingCredit
    <3>2. DistinctStamps(buckets')
      BY <1>0, <2>1, <3>1, CreditKeepsStamps DEF DistinctStamps
    <3>3. DistinctStamps(disk'.buckets)
      BY <1>0, <2>1, <3>2, SaveKeepsDistinct DEF Update
    <3> QED
      BY <2>1, <3>2, <3>3 DEF RecencyIsUnique, PendingIsNewest
  <2>2. CASE UNCHANGED <<memVars, pending>>
    BY <2>2 DEF memVars, RecencyInvariant, RecencyIsUnique, PendingIsNewest
  <2> QED
    BY <1>3, <2>1, <2>2 DEF Credit, Sample, Take
<1>4. ASSUME NEW window \in SUBSET Execs, NEW have \in KernelLists,
             NEW governor \in Governors, Choose(window, have, governor)
      PROVE  RecencyIsUnique' /\ PendingIsNewest'
  <2> DEFINE fp == FingerprintOf[window]
  <2>1. fp \in Fingerprints
    BY FingerprintType
  <2>2. PICK prior : Select(fp, prior, governor)
    BY <1>4 DEF Choose
  <2>3. pending' = [fingerprint |-> fp, governor |-> governor]
    BY <1>4 DEF Choose
  <2> HIDE DEF fp
  <2>4. tick' = tick + 1 /\ disk' = disk
    BY <2>2 DEF Select
  <2>5. PICK evicted \in Evictions(fp) :
          /\ DOMAIN buckets' = (DOMAIN buckets \ evicted) \cup {fp}
          /\ buckets'[fp].last_used = tick + 1
          /\ \A k \in (DOMAIN buckets \ evicted) \ {fp} : buckets'[k] = buckets[k]
    BY <1>0, <2>1, <2>2, SelectFields
  <2>6. \A k \in DOMAIN buckets' \ {fp} :
          k \in DOMAIN buckets /\ buckets'[k].last_used = buckets[k].last_used
    BY <2>5
  <2>7. DistinctStamps(buckets')
    BY <1>0, <2>5, <2>6 DEF DistinctStamps
  <2>8. PendingIsNewest'
    <3>1. \A k \in DOMAIN buckets' \ {fp} : buckets'[k].last_used < tick + 1
      BY <1>0, <2>6
    <3> QED
      BY <2>3, <2>4, <2>5, <3>1 DEF PendingIsNewest
  <2> QED
    BY <1>0, <2>4, <2>7, <2>8 DEF RecencyIsUnique
<1>5. CASE Flush
  <2>1. /\ buckets' = buckets /\ tick' = tick /\ pending' = pending
        /\ Save(buckets, dirty_since_save)
    BY <1>5 DEF Flush, SaveNow
  <2>2. DistinctStamps(disk'.buckets)
    BY <1>0, <2>1, SaveKeepsDistinct
  <2> QED
    BY <1>0, <2>1, <2>2 DEF RecencyInvariant, RecencyIsUnique, PendingIsNewest
<1>6. CASE EndProcess \/ DieInSave
  <2>1. buckets' = NoBuckets /\ pending' = None
        /\ (disk' = disk \/ disk' = TornFile)
    BY <1>6 DEF EndProcess, DieInSave, Crash, CrashInSave, LoseMemory, LoseEngine
  <2> QED
    BY <1>0, <2>1 DEF NoBuckets, TornFile, DistinctStamps, RecencyIsUnique,
                      PendingIsNewest
<1>7. CASE UNCHANGED engineVars
  BY <1>7 DEF engineVars, memVars, RecencyInvariant, RecencyIsUnique, PendingIsNewest
<1> QED
  BY <1>1, <1>2, <1>3, <1>4, <1>5, <1>6, <1>7 DEF EngineNext

LEMMA StoppedStep ==
  ASSUME EngineTypeOK, RecencyInvariant, [EngineNext]_engineVars
  PROVE  ~ running' => pending' = None
<1>1. ASSUME running' = TRUE PROVE ~ running' => pending' = None
  BY <1>1
<1>2. ASSUME running' = running /\ pending' = pending
      PROVE  ~ running' => pending' = None
  BY <1>2 DEF RecencyInvariant
<1>3. ASSUME NEW list \in ActionLists, OpenEngine(list)
      PROVE  ~ running' => pending' = None
  BY <1>1, <1>3 DEF OpenEngine, Open
<1>4. ASSUME NEW reward \in Rewards, Credit(reward) PROVE ~ running' => pending' = None
  BY <1>1, <1>2, <1>4 DEF Credit, Sample, Take, Update, memVars
<1>5. ASSUME NEW window, NEW have, NEW governor,
             Choose(window, have, governor)
      PROVE  ~ running' => pending' = None
  BY <1>1, <1>5 DEF Choose, Select
<1>6. CASE Flush \/ OpenEngineFails
  BY <1>2, <1>6 DEF Flush, SaveNow, OpenEngineFails, OpenFails, memVars
<1>7. CASE EndProcess \/ DieInSave
  BY <1>7 DEF EndProcess, DieInSave, LoseEngine
<1>8. CASE UNCHANGED engineVars
  BY <1>2, <1>8 DEF engineVars, memVars
<1> QED
  BY <1>3, <1>4, <1>5, <1>6, <1>7, <1>8 DEF EngineNext

LEMMA RecencyInvariance == EngineSpec => []RecencyInvariant
<1>1. EngineInit => RecencyInvariant
  BY DEF EngineInit, Init, RecencyInvariant, ClockCoversStamps, RecencyIsUnique,
         DistinctStamps, PendingIsNewest, NoBuckets, AbsentFile
<1>2. EngineTypeOK /\ ClockCoversStamps' /\ RecencyInvariant /\ [EngineNext]_engineVars
        => RecencyInvariant'
  BY RecencyStep, StoppedStep DEF RecencyInvariant
<1> QED
  BY <1>1, <1>2, EngineTypeInvariance, EngineUsesMemory, ClockInvariance, PTL
  DEF EngineSpec

\* The reward of a window always finds the bucket it is for: between a decision
\* and its credit nothing is evicted or stamped, and a decision dies with its
\* process.
THEOREM PendingInvariance == EngineSpec => []PendingIsNewest
BY RecencyInvariance, PTL DEF RecencyInvariant

\* No two buckets share a last_used, over any number of restarts and failed
\* saves.
THEOREM StampInvariance == EngineSpec => []RecencyIsUnique
BY RecencyInvariance, PTL DEF RecencyInvariant

\* Distinct stamps make the minimum of min_by unique: the HashMap's order never
\* matters.
LEMMA MinimumIsUnique ==
  ASSUME EngineTypeOK, BucketCap, RecencyIsUnique
  PROVE  EvictionIsDeterministic
<1>0. /\ TypeOK
      /\ \A k \in DOMAIN buckets :
           buckets[k].total_visits \in Nat /\ buckets[k].last_used \in Nat
      /\ DistinctStamps(buckets)
  BY DEF EngineTypeOK, TypeOK, IsBuckets, IsBucket, RecencyIsUnique
<1> SUFFICES ASSUME NEW fp \in Fingerprints, NEW V \in Evictions(fp),
                    NEW W \in Evictions(fp)
             PROVE  V = W
  BY DEF EvictionIsDeterministic
<1>1. CASE fp \in DOMAIN buckets
  BY <1>1, EvictionsType
<1>2. CASE fp \notin DOMAIN buckets
  <2>1. CASE Cardinality(DOMAIN buckets) < MaxBuckets
    <3>1. Cardinality(DOMAIN buckets) # MaxBuckets
      <4>1. IsFiniteSet(DOMAIN buckets)
        BY <1>0, FS_Subset, MemoryAssumption DEF TypeOK, IsBuckets
      <4> QED
        BY <2>1, <4>1, FS_CardinalityType, MemoryAssumption
    <3> QED
      BY <1>0, <1>2, <3>1, EvictsOneAtTheCap
  <2>2. CASE ~ (Cardinality(DOMAIN buckets) < MaxBuckets)
    <3>1. PICK v \in DOMAIN buckets : V = {v}
      BY <1>0, <1>2, <2>2, EvictsOneAtTheCap
    <3>2. PICK w \in DOMAIN buckets : W = {w}
      BY <1>0, <1>2, <2>2, EvictsOneAtTheCap
    <3>3. ASSUME v # w PROVE FALSE
      <4>1. ~ Before(buckets[w], buckets[v])
        BY <1>2, <3>1, <3>3 DEF Evictions, IsEviction
      <4>2. ~ Before(buckets[v], buckets[w])
        BY <1>2, <3>2, <3>3 DEF Evictions, IsEviction
      <4>3. buckets[v].last_used = buckets[w].last_used
        BY <1>0, <4>1, <4>2 DEF Before
      <4> QED
        BY <1>0, <3>3, <4>3 DEF DistinctStamps
    <3> QED
      BY <3>1, <3>2, <3>3
  <2> QED
    BY <2>1, <2>2
<1> QED
  BY <1>1, <1>2

\* Which bucket the engine evicts does not depend on the HashMap's order.
THEOREM DeterministicEviction == EngineSpec => []EvictionIsDeterministic
BY MinimumIsUnique, EngineTypeInvariance, EngineUsesMemory, CapInvariance,
   StampInvariance, PTL

\* What decide() does with a window when the memory evicts and the loop of
\* select() ends at actions[i].
Decides(window, have, evicted, i) ==
  LET fp == FingerprintOf[window] IN
  /\ evicted \in Evictions(fp)
  /\ i \in DOMAIN actions
  /\ IsBest(Touched(fp, evicted, tick + 1)[fp], i, PriorOf(fp, have))

\* decide() is a function of its state, the window and the list of governors: it
\* always has a result, and whatever the HashMap's order and the ties of scores
\* only one, so the same memory always decides alike.
DecisionIsUnique ==
  running /\ tick < MaxTick =>
    \A window \in SUBSET Execs, have \in KernelLists :
      \E evicted, i :
        /\ Decides(window, have, evicted, i)
        /\ \A other, j : Decides(window, have, other, j) => other = evicted /\ j = i

\* For every window there is exactly one bucket to evict, or none, and exactly
\* one governor to select.
THEOREM DecisionUniqueness == EngineSpec => []DecisionIsUnique
<1>1. ASSUME EngineTypeOK, EvictionIsDeterministic, SelectionIsPossible,
             running => actions # <<>>
      PROVE  DecisionIsUnique
  <2> SUFFICES ASSUME running, tick < MaxTick,
                      NEW window \in SUBSET Execs, NEW have \in KernelLists
               PROVE  \E evicted, i :
                        /\ Decides(window, have, evicted, i)
                        /\ \A other, j : Decides(window, have, other, j) =>
                                           other = evicted /\ j = i
    BY DEF DecisionIsUnique
  <2> DEFINE fp == FingerprintOf[window]
             prior == PriorOf(fp, have)
  <2>1. fp \in Fingerprints
    BY FingerprintType
  <2>2. prior \in Governors
    BY <1>1, PriorType DEF PriorOf, EngineTypeOK
  <2>3. PICK evicted \in Evictions(fp), i \in DOMAIN actions :
          IsBest(Touched(fp, evicted, tick + 1)[fp], i, prior)
    <3> HIDE DEF fp, prior
    <3> QED
      BY <1>1, <2>1, <2>2 DEF SelectionIsPossible
  <2>4. Decides(window, have, evicted, i)
    BY <2>3 DEF Decides
  <2>5. ASSUME NEW other, NEW j, Decides(window, have, other, j)
        PROVE  other = evicted /\ j = i
    <3>1. /\ other \in Evictions(fp) /\ j \in DOMAIN actions
          /\ IsBest(Touched(fp, other, tick + 1)[fp], j, prior)
      BY <2>5 DEF Decides
    <3>2. other = evicted
      BY <1>1, <2>1, <2>3, <3>1 DEF EvictionIsDeterministic
    <3>3. IsBucket(Touched(fp, evicted, tick + 1)[fp])
      <4>1. IsBuckets(buckets) /\ tick + 1 \in 0 .. MaxTick
        BY <1>1, MemoryAssumption DEF EngineTypeOK, TypeOK
      <4> QED
        BY <2>1, <4>1, TouchedFields
    <3>4. actions \in Seq(Governors)
      BY <1>1 DEF EngineTypeOK, TypeOK
    <3> HIDE DEF fp, prior
    <3>5. j = i
      BY <2>3, <3>1, <3>2, <3>3, <3>4, BestIsUnique
    <3> QED
      BY <3>2, <3>5
  <2> QED
    BY <2>4, <2>5
<1> QED
  BY <1>1, EngineTypeInvariance, DeterministicEviction, EngineUsesMemory,
     SelectionTotality, ActionsInvariance, PTL

\* What a process may forget: the bucket v, and only when the decision for the
\* fingerprint fp needs its room.  It is the one bucket that comes before every
\* other: the least visited, of those the least recently used.
Forgets(v, fp) ==
  /\ phase = "deciding"
  /\ Cardinality(DOMAIN buckets) = MaxBuckets
  /\ fp \notin DOMAIN buckets
  /\ DOMAIN buckets' = (DOMAIN buckets \ {v}) \cup {fp}
  /\ \A k \in DOMAIN buckets \ {v} : Before(buckets[v], buckets[k])

\* A daemon that keeps running loses a bucket only to a decision for a new
\* fingerprint in a full memory (evict_if_needed), and the reward that arrives
\* one window later costs none.
EvictsOnlyForRoom ==
  [][running /\ running' /\ ~ (DOMAIN buckets \subseteq DOMAIN buckets') =>
       \E v \in DOMAIN buckets : Forgets(v, pending'.fingerprint)]_engineVars

\* The victim of an eviction comes strictly before every other bucket.
LEMMA VictimIsMinimum ==
  ASSUME EngineTypeOK, DistinctStamps(buckets), NEW fp, NEW v \in DOMAIN buckets,
         fp \notin DOMAIN buckets, {v} \in Evictions(fp), NEW k \in DOMAIN buckets \ {v}
  PROVE  Before(buckets[v], buckets[k])
<1>1. ~ Before(buckets[k], buckets[v])
  BY DEF Evictions, IsEviction
<1>2. /\ buckets[k].total_visits \in Nat /\ buckets[k].last_used \in Nat
      /\ buckets[v].total_visits \in Nat /\ buckets[v].last_used \in Nat
  BY DEF EngineTypeOK, TypeOK, IsBuckets, IsBucket
<1>3. buckets[k].last_used # buckets[v].last_used
  BY DEF DistinctStamps
<1> QED
  BY <1>1, <1>2, <1>3 DEF Before

\* In every other step the running map keeps its keys: a credit finds its bucket.
THEOREM OrderlyEviction == EngineSpec => EvictsOnlyForRoom
<1>1. ASSUME EngineTypeOK, BucketCap, RecencyInvariant, EngineNext, running, running',
             ~ (DOMAIN buckets \subseteq DOMAIN buckets')
      PROVE  \E v \in DOMAIN buckets : Forgets(v, pending'.fingerprint)
  <2>0. TypeOK
    BY <1>1 DEF EngineTypeOK
  <2>1. ASSUME NEW window \in SUBSET Execs, NEW have \in KernelLists,
               NEW governor \in Governors, Choose(window, have, governor)
        PROVE  \E v \in DOMAIN buckets : Forgets(v, pending'.fingerprint)
    <3> DEFINE fp == FingerprintOf[window]
    <3>1. fp \in Fingerprints /\ phase = "deciding" /\ pending'.fingerprint = fp
      BY <2>1, FingerprintType DEF Choose
    <3>2. PICK prior : Select(fp, prior, governor)
      BY <2>1 DEF Choose
    <3> HIDE DEF fp
    <3>3. PICK evicted \in Evictions(fp) :
            DOMAIN buckets' = (DOMAIN buckets \ evicted) \cup {fp}
      BY <2>0, <3>1, <3>2, SelectFields
    <3>4. evicted # {} /\ fp \notin DOMAIN buckets
      BY <1>1, <3>3, EvictionsType
    <3>5. PICK v \in DOMAIN buckets :
            evicted = {v} /\ Cardinality(DOMAIN buckets) = MaxBuckets
      BY <1>1, <2>0, <3>3, <3>4, EvictsOneAtTheCap
    <3>6. \A k \in DOMAIN buckets \ {v} : Before(buckets[v], buckets[k])
      BY <1>1, <3>3, <3>4, <3>5, VictimIsMinimum DEF RecencyInvariant, RecencyIsUnique
    <3> QED
      BY <3>1, <3>3, <3>4, <3>5, <3>6 DEF Forgets
  <2>2. ASSUME NEW reward \in Rewards, Credit(reward) PROVE FALSE
    <3>1. pending # None /\ Update(pending.fingerprint, pending.governor, reward)
      BY <1>1, <2>2 DEF Credit, memVars
    <3>2. pending.fingerprint \in Fingerprints
      BY <1>1, <3>1 DEF EngineTypeOK, PendingCredit
    <3> QED
      BY <1>1, <2>0, <3>1, <3>2, CreditKeepsStamps
  <2>3. ASSUME NEW list \in ActionLists, OpenEngine(list) PROVE FALSE
    BY <1>1, <2>3 DEF OpenEngine, Open
  <2>4. CASE Flush \/ OpenEngineFails
    BY <1>1, <2>4 DEF Flush, SaveNow, OpenEngineFails, OpenFails, memVars
  <2>5. CASE EndProcess \/ DieInSave
    BY <1>1, <2>5 DEF EndProcess, DieInSave, Crash, CrashInSave, LoseMemory
  <2> QED
    BY <1>1, <2>1, <2>2, <2>3, <2>4, <2>5 DEF EngineNext
<1> QED
  BY <1>1, EngineTypeInvariance, EngineUsesMemory, CapInvariance, RecencyInvariance, PTL
  DEF EngineSpec, EvictsOnlyForRoom

-----------------------------------------------------------------------------
(* The neutral sample, and the cost of a crash. *)

\* decide() samples before it selects: a credit always has a baseline, and the
\* test of primed never holds one back.
THEOREM BaselineInvariance == EngineSpec => []BaselineBeforeCredit
<1> DEFINE Inv == pending # None \/ phase = "deciding" => baseline /\ primed
<1>1. EngineInit => Inv
  BY DEF EngineInit
<1>2. Inv /\ [EngineNext]_engineVars => Inv'
  <2> SUFFICES ASSUME Inv, [EngineNext]_engineVars PROVE Inv'
    OBVIOUS
  <2>1. ASSUME NEW list, OpenEngine(list) PROVE Inv'
    BY <2>1 DEF OpenEngine
  <2>2. ASSUME NEW reward, Credit(reward) PROVE Inv'
    BY <2>2 DEF Credit, Sample, Take
  <2>3. ASSUME NEW window, NEW have, NEW governor,
               Choose(window, have, governor)
        PROVE  Inv'
    BY <2>3 DEF Choose
  <2>4. CASE Flush \/ OpenEngineFails
    BY <2>4 DEF Flush, OpenEngineFails
  <2>5. CASE EndProcess \/ DieInSave
    BY <2>5 DEF EndProcess, DieInSave, LoseEngine
  <2>6. CASE UNCHANGED engineVars
    BY <2>6 DEF engineVars
  <2> QED
    BY <2>1, <2>2, <2>3, <2>4, <2>5, <2>6 DEF EngineNext
<1>3. Inv => BaselineBeforeCredit
  BY DEF BaselineBeforeCredit
<1> QED
  BY <1>1, <1>2, <1>3, PTL DEF EngineSpec

\* The inductive invariant: the clock runs ahead of the file by the unsaved
\* credits, and by one more while a decision is pending.
ClockLead ==
  /\ phase = "deciding" => pending = None
  /\ SaveFaults = {} =>
       /\ dirty_since_save < SaveEvery
       /\ disk.state # "torn" =>
            /\ tick <= disk.tick + dirty_since_save + 1
            /\ pending = None => tick <= disk.tick + dirty_since_save

\* Without faults a save brings the file up to date.
LEMMA CleanSave ==
  ASSUME SaveFaults = {}, NEW B, NEW d, Save(B, d)
  PROVE  disk' = SavedFile(tick, B) /\ dirty_since_save' = 0
BY DEF Save

LEMMA ClockLeadStep ==
  EngineTypeOK /\ BaselineBeforeCredit /\ ClockLead /\ [EngineNext]_engineVars
    => ClockLead'
<1> SUFFICES ASSUME EngineTypeOK, BaselineBeforeCredit, ClockLead,
                    [EngineNext]_engineVars
             PROVE  ClockLead'
  OBVIOUS
<1>0. /\ tick \in Nat /\ dirty_since_save \in Nat /\ disk.tick \in Nat
      /\ SaveEvery \in Nat \ {0}
  BY MemoryAssumption DEF EngineTypeOK, TypeOK, IsFile
<1>1. ASSUME NEW list \in ActionLists, OpenEngine(list) PROVE ClockLead'
  BY <1>0, <1>1 DEF OpenEngine, Open, Clock, ClockLead
<1>2. CASE OpenEngineFails \/ UNCHANGED engineVars
  BY <1>2 DEF OpenEngineFails, OpenFails, engineVars, memVars, ClockLead
<1>3. ASSUME NEW reward \in Rewards, Credit(reward) PROVE ClockLead'
  <2>1. CASE /\ pending # None
             /\ Update(pending.fingerprint, pending.governor, reward)
             /\ pending' = None
    <3>1. tick' = tick
      BY <2>1 DEF Update
    <3>2. CASE /\ dirty_since_save + 1 >= SaveEvery
               /\ Save(buckets', dirty_since_save + 1)
      BY <1>0, <2>1, <3>1, <3>2, CleanSave DEF ClockLead, SavedFile
    <3>3. CASE /\ ~ (dirty_since_save + 1 >= SaveEvery)
               /\ dirty_since_save' = dirty_since_save + 1 /\ UNCHANGED disk
      BY <1>0, <2>1, <3>1, <3>3 DEF ClockLead
    <3> QED
      BY <2>1, <3>2, <3>3 DEF Update, SaveIsDue
  <2>2. CASE UNCHANGED <<memVars, pending>> /\ ~ (primed /\ pending # None)
    <3>1. pending = None
      BY <2>2 DEF BaselineBeforeCredit
    <3> QED
      BY <2>2, <3>1 DEF memVars, ClockLead
  <2> QED
    BY <1>3, <2>1, <2>2 DEF Credit, Sample, Take
<1>4. ASSUME NEW window \in SUBSET Execs, NEW have \in KernelLists,
             NEW governor \in Governors, Choose(window, have, governor)
      PROVE  ClockLead'
  <2>1. /\ phase = "deciding" /\ phase' = "waiting"
        /\ pending' = [fingerprint |-> FingerprintOf[window], governor |-> governor]
        /\ tick' = tick + 1 /\ dirty_since_save' = dirty_since_save /\ disk' = disk
    BY <1>4 DEF Choose, Select
  <2>2. pending' # None
    BY <2>1, ChosenType, EngineAssumption DEF PendingCredit
  <2> QED
    BY <1>0, <2>1, <2>2 DEF ClockLead
<1>5. CASE Flush
  <2>1. /\ tick' = tick /\ pending' = pending /\ phase' = "stopped"
        /\ Save(buckets, dirty_since_save)
    BY <1>5 DEF Flush, SaveNow
  <2> QED
    BY <1>0, <2>1, CleanSave DEF ClockLead, SavedFile
<1>6. CASE EndProcess \/ DieInSave
  BY <1>0, <1>6 DEF EndProcess, DieInSave, Crash, CrashInSave, LoseMemory, LoseEngine,
                    TornFile, ClockLead
<1> QED
  BY <1>1, <1>2, <1>3, <1>4, <1>5, <1>6 DEF EngineNext

\* Where saving never fails, a crash costs at most SAVE_EVERY windows of the
\* clock, and fewer credits than that of any bucket.
THEOREM BoundedCrashCost == EngineSpec => []CrashCost
<1>1. EngineInit => ClockLead
  BY MemoryAssumption DEF EngineInit, Init, AbsentFile, ClockLead
<1>2. EngineTypeOK /\ ClockLead /\ DirtyBoundsLoss => CrashCost
  <2> SUFFICES ASSUME EngineTypeOK, ClockLead, DirtyBoundsLoss, SaveFaults = {},
                      disk.state # "torn"
               PROVE  /\ tick <= disk.tick + SaveEvery
                      /\ \A k \in DOMAIN buckets :
                           buckets[k].total_visits < FileVisits(k) + SaveEvery
    BY DEF CrashCost
  <2>1. /\ tick \in Nat /\ dirty_since_save \in Nat /\ disk.tick \in Nat
        /\ SaveEvery \in Nat \ {0}
        /\ \A k \in DOMAIN buckets : buckets[k].total_visits \in Nat
        /\ \A k : FileVisits(k) \in Nat
    BY MemoryAssumption, FileVisitsType
    DEF EngineTypeOK, TypeOK, IsFile, IsBuckets, IsBucket, FileVisits, VisitsOf
  <2>2. /\ dirty_since_save < SaveEvery
        /\ tick <= disk.tick + dirty_since_save + 1
    BY DEF ClockLead
  <2>3. \A k \in DOMAIN buckets :
          buckets[k].total_visits <= FileVisits(k) + dirty_since_save
    BY DEF DirtyBoundsLoss
  <2> QED
    BY <2>1, <2>2, <2>3
<1> QED
  BY <1>1, <1>2, ClockLeadStep, EngineTypeInvariance, BaselineInvariance, EngineUsesMemory,
     LossInvariance, PTL DEF EngineSpec

-----------------------------------------------------------------------------
(* The lineage token. *)

LEMMA SteamAppIsGaming ==
  /\ 21 \in DOMAIN VOCAB
  /\ \A i \in DOMAIN VOCAB : VOCAB[i] = "steam_app" <=> i = 21
BY DEF VOCAB

LEMMA MarkedIsPerformance ==
  ASSUME NEW fp, 21 \in fp, NEW efficiency
  PROVE  PriorGovernor(SoftLabel(fp), efficiency) = "performance"
<1>1. Hit(fp, COMPILE_END, GAMING_END)
  BY DEF Hit, COMPILE_END, GAMING_END
<1>2. SoftLabel(fp) \in {"COMPILING", "GAMING"}
  BY <1>1 DEF SoftLabel
<1> QED
  BY <1>2 DEF PriorGovernor

\* The comparison with its terminator tells steam from every other name,
\* however long, as the kernel keeps it.
LEMMA CommIsName ==
  ASSUME NEW name \in Seq(STRING \ {NUL})
  PROVE  CommEq(Comm(name), Steam) <=> name = Steam
<1> DEFINE comm == Comm(name)
<1>1. Len(Steam) = 5 /\ Steam \in Seq({"s", "t", "e", "a", "m"})
  BY DEF Steam
<1>2. \A i \in 1 .. 6 : comm[i] = IF i <= Len(name) THEN name[i] ELSE NUL
  BY DEF Comm, TASK_COMM_LEN
<1>3. \A i \in 1 .. Len(name) : name[i] # NUL
  OBVIOUS
<1>4. CommEq(comm, Steam) <=> (\A i \in 1 .. 5 : comm[i] = Steam[i]) /\ comm[6] = NUL
  BY <1>1 DEF CommEq, TASK_COMM_LEN
<1> HIDE DEF comm
<1>5. ASSUME name = Steam PROVE CommEq(comm, Steam)
  <2>1. Len(name) = 5
    BY <1>1, <1>5
  <2>2. \A i \in 1 .. 5 : comm[i] = Steam[i]
    BY <1>2, <1>5, <2>1
  <2>3. comm[6] = NUL
    BY <1>2, <2>1
  <2> QED
    BY <1>4, <2>2, <2>3
<1>6. ASSUME CommEq(comm, Steam) PROVE name = Steam
  <2>1. \A i \in 1 .. 5 : Steam[i] # NUL
    <3>1. /\ Steam[1] # NUL
          /\ Steam[2] # NUL
          /\ Steam[3] # NUL
          /\ Steam[4] # NUL
          /\ Steam[5] # NUL
      BY DEF Steam, NUL
    <3> QED
      BY <3>1
  <2>2. \A i \in 1 .. 5 : i <= Len(name) /\ name[i] = Steam[i]
    BY <1>2, <1>4, <1>6, <2>1
  <2>3. 5 <= Len(name)
    BY <2>2
  <2>4. ~ 6 <= Len(name)
    BY <1>2, <1>3, <1>4, <1>6
  <2>5. Len(name) = 5
    <3>1. Len(name) \in Nat
      OBVIOUS
    <3>2. \A n \in Nat : 5 <= n /\ ~ 6 <= n => n = 5
      OBVIOUS
    <3> QED
      BY <2>3, <2>4, <3>1, <3>2, Zenon
  <2> QED
    BY <1>1, <2>2, <2>5
<1> QED
  BY <1>5, <1>6 DEF comm

\* Whatever runs on the machine, and in every state of the engine, children of
\* steam count as gaming if the probe was built for the kernel.
THEOREM LineageInvariance == EngineSpec => []LineageCounts
<1>1. LineageCounts
  <2> SUFFICES ASSUME BuiltForKernel(BuildHost),
                      NEW window \in SUBSET Execs, NEW have \in KernelLists
      PROVE  LET fp     == FingerprintOf[window]
                 marked == \E i \in fp : VOCAB[i] = "steam_app"
             IN  /\ marked <=>
                      \E e \in window :
                        e.parent = Steam \/ (e.name = "steam_app" /\ e.exes <= 1)
                 /\ marked => PriorOf(fp, have) = ResolvePrior("performance")
    BY DEF LineageCounts
  <2> DEFINE offsets == BakedOffsets(BuildHost)
             fp == FingerprintOf[window]
             Marks(e) == e.parent = Steam \/ (e.name = "steam_app" /\ e.exes <= 1)
  <2>1. offsets = KernelOffsets
    BY DEF BakedOffsets, BuiltForKernel
  <2>2. fp = {i \in DOMAIN VOCAB : \E e \in window : IsEntry(Event(e, offsets), i)}
    BY DEF FingerprintOf, FingerprintBits
  <2>3. ASSUME NEW e \in window PROVE IsEntry(Event(e, offsets), 21) <=> Marks(e)
    <3>1. VOCAB[21] = "steam_app"
      BY SteamAppIsGaming
    <3>2. CommEq(ParentComm(e, offsets), Steam) <=> e.parent = Steam
      BY <2>1, CommIsName, EngineAssumption DEF ParentComm
    <3>3. CASE e.parent = Steam
      <4>1. Event(e, offsets) = [name |-> "steam_app", exes |-> 0]
        BY <3>2, <3>3 DEF Event
      <4> QED
        BY <3>1, <3>3, <4>1 DEF IsEntry
    <3>4. CASE e.parent # Steam
      <4>1. Event(e, offsets) = [name |-> e.name, exes |-> e.exes]
        BY <3>2, <3>4 DEF Event
      <4> QED
        BY <3>1, <3>4, <4>1 DEF IsEntry
    <3> QED
      BY <3>3, <3>4
  <2>4. (\E i \in fp : VOCAB[i] = "steam_app") <=> 21 \in fp
    BY <2>2, SteamAppIsGaming
  <2>5. 21 \in fp <=> \E e \in window : IsEntry(Event(e, offsets), 21)
    BY <2>2, SteamAppIsGaming
  <2>6. 21 \in fp <=> \E e \in window : Marks(e)
    BY <2>3, <2>5, Zenon
  <2>7. 21 \in fp => PriorOf(fp, have) = ResolvePrior("performance")
    BY MarkedIsPerformance DEF PriorOf
  <2> QED
    BY <2>4, <2>6, <2>7, Zenon
<1> QED
  BY <1>1, PTL

-----------------------------------------------------------------------------
(* Every governor is tried. *)

\* The numbers of visits that NoGovernorStarves is about.
Sating == {p \in 1 .. MaxVisits : 2 * p < MaxVisits /\ SatedBy(p)}

AllTried(b) == AlwaysOffered \subseteq DOMAIN b.actions

\* No governor of bucket b has more than p + 1 visits, and only one has as many.
Shared(b, p) ==
  /\ \A g \in DOMAIN b.actions : b.actions[g].visits <= p + 1
  /\ \A g, h \in DOMAIN b.actions :
       b.actions[g].visits > p /\ b.actions[h].visits > p => g = h

\* Governor g may be credited once more.
MayGain(b, g, p) ==
  LET v == StatsOf(b, g).visits
  IN  v < p \/ (v = p /\ b.total_visits <= 2 * p)

FairMap(B, p) == \A k \in DOMAIN B : AllTried(B[k]) \/ Shared(B[k], p)

\* The inductive invariant: until a bucket has tried all that is always offered,
\* its visits are shared, and the governor that is about to be credited leaves
\* them so.
Exploring(p) ==
  /\ FairMap(buckets, p)
  /\ FairMap(disk.buckets, p)
  /\ running => \A g \in AlwaysOffered : \E i \in DOMAIN actions : actions[i] = g
  /\ pending # None =>
       LET b == buckets[pending.fingerprint]
       IN  AllTried(b) \/ MayGain(b, pending.governor, p)

ExplorationInvariant == \A p \in Sating : Exploring(p)

\* Two governors' visits are part of those of the bucket.
LEMMA VisitsOfTwo ==
  ASSUME NEW b, IsBucket(b), NEW g \in DOMAIN b.actions,
         NEW h \in DOMAIN b.actions, g # h
  PROVE  b.actions[g].visits + b.actions[h].visits <= Cardinality(Visits(b))
<1> DEFINE v == b.actions[g].visits
           w == b.actions[h].visits
           gs == {g} \X (1 .. v)
           hs == {h} \X (1 .. w)
<1>1. /\ v \in 0 .. MaxVisits /\ g \in Governors
      /\ w \in 0 .. MaxVisits /\ h \in Governors
  BY DEF IsBucket, IsMap, ActionStats
<1>2. gs \subseteq Visits(b) /\ hs \subseteq Visits(b)
  BY <1>1, MaxVisitsType DEF Visits
<1> HIDE DEF v, w
<1>3. v \in Nat /\ w \in Nat
  BY <1>1, MaxVisitsType
<1>4. /\ IsFiniteSet(gs) /\ Cardinality(gs) = v
      /\ IsFiniteSet(hs) /\ Cardinality(hs) = w
  BY <1>3, ColumnSize
<1>5. gs \cap hs = {}
  OBVIOUS
<1> HIDE DEF gs, hs
<1>6. IsFiniteSet(gs \cup hs) /\ Cardinality(gs \cup hs) = v + w - Cardinality(gs \cap hs)
  BY <1>4, FS_Union
<1>7. Cardinality(gs \cap hs) = 0
  BY <1>5, FS_EmptySet
<1>8. Cardinality(gs \cup hs) <= Cardinality(Visits(b))
  <2>1. gs \cup hs \in SUBSET Visits(b)
    BY <1>2
  <2> QED
    BY <2>1, VisitsFinite, FS_Subset
<1>9. v + w <= Cardinality(Visits(b))
  BY <1>3, <1>6, <1>7, <1>8
<1> QED
  BY <1>9 DEF v, w

\* Visits that are shared while a governor is untried are few.
LEMMA SharedIsBounded ==
  ASSUME NEW b, IsBucket(b), CountsAddUp(b), NEW p \in Nat, Shared(b, p),
         NEW g \in Governors \ DOMAIN b.actions
  PROVE  b.total_visits <= (Cardinality(Governors) - 1) * p + 1
<1> DEFINE others == Governors \ {g}
           block  == others \X (1 .. p)
           N      == Cardinality(Governors)
<1>1. /\ IsFiniteSet(others) /\ Cardinality(others) = N - 1
      /\ N \in Nat
  BY FS_RemoveElement, FS_CardinalityType, MemoryAssumption
<1>2. IsFiniteSet(1 .. p) /\ Cardinality(1 .. p) = p
  BY IntervalSize
<1>3. IsFiniteSet(block) /\ Cardinality(block) = (N - 1) * p
  <2> HIDE DEF others, N
  <2>1. /\ IsFiniteSet(block)
        /\ Cardinality(block) = Cardinality(others) * Cardinality(1 .. p)
    BY <1>1, <1>2, FS_Product
  <2> QED
    BY <1>1, <1>2, <2>1
<1>4. \E last : Visits(b) \subseteq block \cup {last}
  <2>1. ASSUME NEW v \in Visits(b)
        PROVE  /\ v = <<v[1], v[2]>> /\ v[1] \in others /\ v[1] \in DOMAIN b.actions
               /\ v[2] \in 1 .. p + 1
               /\ v[2] <= b.actions[v[1]].visits
    <3>1. /\ v \in Governors \X (1 .. MaxVisits)
          /\ v[1] \in DOMAIN b.actions /\ v[2] <= b.actions[v[1]].visits
      BY DEF Visits
    <3>2. v[2] \in Nat /\ v[2] >= 1 /\ v = <<v[1], v[2]>> /\ v[1] \in Governors
      BY <3>1, MaxVisitsType
    <3>3. b.actions[v[1]].visits <= p + 1 /\ b.actions[v[1]].visits \in Nat
      BY <3>1, MaxVisitsType DEF Shared, IsBucket, IsMap, ActionStats
    <3> QED
      BY <3>1, <3>2, <3>3
  <2>2. CASE \E h \in DOMAIN b.actions : b.actions[h].visits > p
    <3>1. PICK h \in DOMAIN b.actions : b.actions[h].visits > p
      BY <2>2
    <3>2. ASSUME NEW v \in Visits(b) PROVE v \in block \cup {<<h, p + 1>>}
      <4>1. CASE v[2] <= p
        BY <2>1, <4>1
      <4>2. CASE ~ (v[2] <= p)
        <5>1. v[2] = p + 1
          BY <2>1, <4>2
        <5>2. b.actions[v[1]].visits > p
          BY <2>1, <5>1, MaxVisitsType DEF IsBucket, IsMap, ActionStats
        <5>3. v[1] = h
          BY <2>1, <3>1, <5>2 DEF Shared
        <5> QED
          BY <2>1, <5>1, <5>3
      <4> QED
        BY <4>1, <4>2
    <3> QED
      BY <3>2
  <2>3. CASE \A h \in DOMAIN b.actions : ~ (b.actions[h].visits > p)
    <3>1. ASSUME NEW v \in Visits(b) PROVE v \in block
      <4>1. b.actions[v[1]].visits \in Nat /\ ~ (b.actions[v[1]].visits > p)
        BY <2>1, <2>3, MaxVisitsType DEF IsBucket, IsMap, ActionStats
      <4>2. v[2] \in 1 .. p
        BY <2>1, <4>1
      <4> QED
        BY <2>1, <4>2
    <3> QED
      BY <3>1
  <2> QED
    BY <2>2, <2>3
<1> HIDE DEF block, others
<1>5. PICK last : Visits(b) \subseteq block \cup {last}
  BY <1>4
<1>6. IsFiniteSet(block \cup {last}) /\ Cardinality(block \cup {last}) <= Cardinality(block) + 1
  <2>1. Cardinality(block) \in Nat /\ IsFiniteSet(block)
    BY <1>3, FS_CardinalityType
  <2>2. /\ IsFiniteSet(block \cup {last})
        /\ Cardinality(block \cup {last}) =
             IF last \in block THEN Cardinality(block) ELSE Cardinality(block) + 1
    BY <2>1, FS_AddElement
  <2> QED
    BY <2>1, <2>2
<1>7. Cardinality(Visits(b)) <= Cardinality(block \cup {last})
  <2>1. Visits(b) \in SUBSET (block \cup {last})
    BY <1>5
  <2> QED
    BY <1>6, <2>1, FS_Subset
<1>8. b.total_visits <= Cardinality(Visits(b))
  BY VisitsFinite, MaxVisitsType DEF CountsAddUp
<1>9. /\ Cardinality(Visits(b)) \in Nat /\ Cardinality(block \cup {last}) \in Nat
      /\ b.total_visits \in Nat /\ (N - 1) * p \in Nat
  BY <1>3, <1>6, VisitsFinite, FS_CardinalityType, MaxVisitsType DEF IsBucket
<1> HIDE DEF N
<1>10. b.total_visits <= (N - 1) * p + 1
  BY <1>3, <1>6, <1>7, <1>8, <1>9
<1> QED
  BY <1>10 DEF N

\* What a score that beats an untried governor's says of the bonuses.
LEMMA BonusIsBounded ==
  ASSUME NEW ema \in 0 .. Scale, NEW tried \in Nat, NEW untried \in Nat,
         \E first \in {PreferredScore, UnseenScore} : first + untried <= ema + tried
  PROVE  ~ (Scale + tried < UnseenScore + untried)
<1>1. PICK first \in {7200, 4500} : first + untried <= ema + tried
  BY DEF PreferredScore, UnseenScore
<1>2. ema \in Nat /\ ema <= 10000
  BY DEF Scale
<1>3. 4500 + untried <= 10000 + tried
  BY <1>1, <1>2
<1> QED
  BY <1>3 DEF Scale, UnseenScore

\* A governor that beats an untried one in UCB1 may gain a visit.
LEMMA WinnerMayGain ==
  ASSUME NEW b, IsBucket(b), CountsAddUp(b), NEW p \in Sating,
         NEW g \in Governors \ DOMAIN b.actions, NEW h \in Governors, NEW prior,
         Score(b, g, prior) <= Score(b, h, prior)
  PROVE  MayGain(b, h, p)
<1> DEFINE total == b.total_visits
           n == IF total = 0 THEN 1 ELSE total
           v == StatsOf(b, h).visits
<1>1. p \in Nat /\ p >= 1 /\ SatedBy(p) /\ MaxVisits \in Nat /\ MaxVisits >= 1
  BY MaxVisitsType DEF Sating
<1>2. CASE h \notin DOMAIN b.actions
  BY <1>1, <1>2 DEF MayGain, StatsOf, DefaultStats
<1>3. CASE h \in DOMAIN b.actions
  <2>1. v = b.actions[h].visits /\ b.actions[h] \in ActionStats
    BY <1>3 DEF StatsOf, IsBucket, IsMap
  <2>2. v \in 0 .. MaxVisits /\ b.actions[h].ema_reward \in 0 .. Scale
    BY <2>1 DEF ActionStats
  <2>3. total \in 0 .. MaxVisits
    BY DEF IsBucket
  <2>4. v <= total
    <3>1. v <= Cardinality(Visits(b)) /\ Cardinality(Visits(b)) \in Nat
      BY <1>3, <2>1, OwnVisits, VisitsFinite
    <3> HIDE DEF v
    <3> QED
      BY <1>1, <2>2, <3>1 DEF CountsAddUp
  <2>5. n \in 1 .. MaxVisits
    BY <1>1, <2>3
  <2>6. Score(b, h, prior) = b.actions[h].ema_reward + Bonus[n][v]
    BY <1>3, <2>1 DEF Score
  <2>7. Bonus[n][v] \in Nat /\ Bonus[n][0] \in Nat
    <3> HIDE DEF n, v
    <3> QED
      BY <1>1, <2>2, <2>5, BonusType
  <2>8. \E first \in {PreferredScore, UnseenScore} :
          Score(b, g, prior) = first + Bonus[n][0]
    BY DEF Score
  <2> HIDE DEF n, v
  <2>9. ~ Outgrown(n, v)
    <3>1. \E first \in {PreferredScore, UnseenScore} :
            first + Bonus[n][0] <= b.actions[h].ema_reward + Bonus[n][v]
      BY <2>6, <2>8
    <3>2. ~ (Scale + Bonus[n][v] < UnseenScore + Bonus[n][0])
      BY <2>2, <2>7, <3>1, BonusIsBounded
    <3> QED
      BY <3>2 DEF Outgrown
  <2>10. v \in 0 .. n
    BY <1>1, <2>2, <2>3, <2>4 DEF n
  <2>11. ~ (v > p \/ (v = p /\ n > 2 * p))
    BY <1>1, <2>5, <2>9, <2>10 DEF SatedBy
  <2>12. v < p \/ (v = p /\ total <= 2 * p)
    BY <1>1, <2>2, <2>3, <2>11 DEF n
  <2> QED
    BY <2>12 DEF MayGain, v
<1> QED
  BY <1>2, <1>3

\* A credit that may be given leaves the visits shared.
LEMMA CreditedShared ==
  ASSUME NEW b, IsBucket(b), CountsAddUp(b), NEW p \in Sating,
         NEW h \in Governors, NEW reward,
         AllTried(b) \/ (Shared(b, p) /\ MayGain(b, h, p))
  PROVE  LET c == Credited(b, h, reward) IN AllTried(c) \/ Shared(c, p)
<1> DEFINE c == Credited(b, h, reward)
           v == StatsOf(b, h).visits
<1>0. p \in Nat /\ p >= 1 /\ 2 * p < MaxVisits /\ MaxVisits \in Nat
  BY MaxVisitsType DEF Sating
<1>1. /\ DOMAIN c.actions = DOMAIN b.actions \cup {h}
      /\ c.actions[h].visits = SaturatingInc(v)
      /\ \A g \in DOMAIN b.actions \ {h} : c.actions[g] = b.actions[g]
  BY DEF Credited
<1>2. v \in 0 .. MaxVisits
  BY StatsType DEF ActionStats
<1> HIDE DEF c
<1>3. CASE AllTried(b)
  BY <1>1, <1>3 DEF AllTried, c
<1>4. CASE Shared(b, p) /\ MayGain(b, h, p)
  <2>1. v < p \/ (v = p /\ b.total_visits <= 2 * p)
    BY <1>4 DEF MayGain
  <2> HIDE DEF v
  <2>2. SaturatingInc(v) = v + 1 /\ v + 1 <= p + 1
    BY <1>0, <1>2, <2>1 DEF SaturatingInc
  <2>3. ASSUME NEW g \in DOMAIN b.actions \ {h}, v + 1 > p
        PROVE  ~ (b.actions[g].visits > p)
    <3>1. v = p /\ b.total_visits <= 2 * p
      BY <1>0, <1>2, <2>1, <2>3
    <3>2. h \in DOMAIN b.actions /\ b.actions[h].visits = p
      BY <1>0, <3>1 DEF v, StatsOf, DefaultStats
    <3>3. b.actions[g].visits \in Nat
      BY MaxVisitsType DEF IsBucket, IsMap, ActionStats
    <3>4. p + b.actions[g].visits <= Cardinality(Visits(b))
      BY <3>2, VisitsOfTwo
    <3>5. /\ Cardinality(Visits(b)) \in Nat
          /\ b.total_visits = IF Cardinality(Visits(b)) < MaxVisits
                              THEN Cardinality(Visits(b)) ELSE MaxVisits
      BY VisitsFinite DEF CountsAddUp
    <3> QED
      BY <1>0, <3>1, <3>3, <3>4, <3>5
  <2>4. \A g \in DOMAIN c.actions : c.actions[g].visits <= p + 1
    BY <1>1, <1>4, <2>2 DEF Shared
  <2>5. ASSUME NEW f \in DOMAIN c.actions, NEW g \in DOMAIN c.actions,
               c.actions[f].visits > p, c.actions[g].visits > p
        PROVE  f = g
    BY <1>1, <1>4, <2>2, <2>3, <2>5 DEF Shared
  <2> QED
    BY <2>4, <2>5 DEF Shared, c
<1> QED
  BY <1>3, <1>4

\* Whether a bucket is fair depends only on its counts; a new one is.
LEMMA SameIsFair ==
  ASSUME NEW b, NEW c, SameCounts(b, c), NEW p, NEW g
  PROVE  /\ AllTried(c) => AllTried(b)
         /\ Shared(c, p) => Shared(b, p)
         /\ MayGain(c, g, p) => MayGain(b, g, p)
BY DEF SameCounts, AllTried, Shared, MayGain, StatsOf

LEMMA NewIsFair == \A t, p : Shared(NewBucket(t), p)
BY DEF NewBucket, NoBuckets, Shared

\* The governor that select() returns may gain a visit.
LEMMA ChosenMayGain ==
  ASSUME TypeOK', VisitsAddUp', NEW p \in Sating, NEW fp \in Fingerprints,
         NEW prior, NEW governor \in Governors, Select(fp, prior, governor),
         \A g \in AlwaysOffered : \E i \in DOMAIN actions : actions[i] = g
  PROVE  AllTried(buckets'[fp]) \/ MayGain(buckets'[fp], governor, p)
<1> DEFINE b == buckets'[fp]
<1>1. fp \in DOMAIN buckets'
  BY DEF Select, Touched
<1>2. IsBucket(b) /\ CountsAddUp(b)
  BY <1>1 DEF TypeOK, IsBuckets, VisitsAddUp
<1>3. PICK i \in DOMAIN actions : governor = actions[i] /\ IsBest(b, i, prior)
  BY DEF Select
<1> HIDE DEF b
<1>4. \A j \in DOMAIN actions : Score(b, actions[j], prior) <= Score(b, governor, prior)
  BY <1>3 DEF IsBest, IsFirstMax
<1>5. ASSUME NEW g \in AlwaysOffered, g \notin DOMAIN b.actions
      PROVE  MayGain(b, governor, p)
  <2>1. Score(b, g, prior) <= Score(b, governor, prior)
    BY <1>4
  <2>2. g \in Governors \ DOMAIN b.actions
    BY <1>5 DEF AlwaysOffered
  <2> QED
    BY <1>2, <2>1, <2>2, WinnerMayGain
<1> QED
  BY <1>5 DEF AllTried, b

\* Every step of the engine keeps the visits shared.
LEMMA ExplorationStep ==
  ASSUME EngineTypeOK, EngineTypeOK', VisitsAddUp, VisitsAddUp', RecencyInvariant,
         NEW p \in Sating, Exploring(p), [EngineNext]_engineVars
  PROVE  Exploring(p)'
<1>0. /\ TypeOK /\ TypeOK'
      /\ \A k \in DOMAIN buckets : AllTried(buckets[k]) \/ Shared(buckets[k], p)
      /\ FairMap(buckets, p) /\ FairMap(disk.buckets, p)
      /\ \A k \in DOMAIN buckets : CountsAddUp(buckets[k])
  BY DEF EngineTypeOK, Exploring, FairMap, VisitsAddUp
<1>1. ASSUME NEW list \in ActionLists, OpenEngine(list) PROVE Exploring(p)'
  <2>1. pending' = None /\ FairMap(buckets', p) /\ FairMap(disk'.buckets, p)
    BY <1>0, <1>1 DEF OpenEngine, Open, RecencyInvariant
  <2>2. ASSUME NEW g \in AlwaysOffered PROVE \E i \in DOMAIN actions' : actions'[i] = g
    <3>1. PICK i \in DOMAIN list : list[i] = g
      BY DEF AlwaysOffered
    <3>2. list # <<>>
      BY <3>1
    <3>3. actions' = list
      BY <1>1, <3>2 DEF OpenEngine, Open
    <3> QED
      BY <3>1, <3>3
  <2> QED
    BY <2>1, <2>2 DEF Exploring, FairMap
<1>2. ASSUME UNCHANGED <<memVars, pending>> PROVE Exploring(p)'
  BY <1>2 DEF memVars, Exploring, FairMap
<1>3. ASSUME NEW reward \in Rewards, Credit(reward) PROVE Exploring(p)'
  <2>1. CASE /\ pending # None /\ pending' = None
             /\ Update(pending.fingerprint, pending.governor, reward)
    <3> DEFINE fp == pending.fingerprint
               gov == pending.governor
    <3>1. fp \in Fingerprints /\ gov \in Governors /\ fp \in DOMAIN buckets
      BY <2>1 DEF EngineTypeOK, PendingCredit, RecencyInvariant, PendingIsNewest
    <3>2. AllTried(buckets[fp]) \/ (Shared(buckets[fp], p) /\ MayGain(buckets[fp], gov, p))
      BY <1>0, <2>1, <3>1 DEF Exploring
    <3> HIDE DEF fp, gov
    <3>3. Update(fp, gov, reward)
      BY <2>1 DEF fp, gov
    <3>4. PICK b : /\ IsBucket(b)
                   /\ buckets'[fp] = Credited(b, gov, reward)
                   /\ SameCounts(b, buckets[fp])
      BY <1>0, <3>1, <3>3, UpdateCounts
    <3>5. CountsAddUp(b) /\ (AllTried(b) \/ (Shared(b, p) /\ MayGain(b, gov, p)))
      BY <1>0, <3>1, <3>2, <3>4, SameCountsAddUp, SameIsFair
    <3>6. AllTried(buckets'[fp]) \/ Shared(buckets'[fp], p)
      BY <3>1, <3>4, <3>5, CreditedShared
    <3>7. FairMap(buckets', p)
      BY <1>0, <3>1, <3>3, <3>6, UpdateCounts DEF FairMap
    <3>8. /\ running' = running /\ actions' = actions
          /\ disk'.buckets = buckets' \/ disk' = disk \/ DOMAIN disk'.buckets = {}
      BY <3>3, SavedBuckets DEF Update
    <3>9. FairMap(disk'.buckets, p)
      BY <1>0, <3>7, <3>8 DEF FairMap
    <3> QED
      BY <2>1, <3>7, <3>8, <3>9 DEF Exploring, FairMap
  <2> QED
    BY <1>2, <1>3, <2>1 DEF Credit, Sample, Take
<1>4. ASSUME NEW window \in SUBSET Execs, NEW have \in KernelLists,
             NEW governor \in Governors, Choose(window, have, governor)
      PROVE  Exploring(p)'
  <2> DEFINE fp == FingerprintOf[window]
  <2>1. fp \in Fingerprints
    BY FingerprintType
  <2>2. PICK prior : Select(fp, prior, governor)
    BY <1>4 DEF Choose
  <2>3. pending' = [fingerprint |-> fp, governor |-> governor]
    BY <1>4 DEF Choose
  <2> HIDE DEF fp
  <2>4. running /\ running' = running /\ actions' = actions /\ disk' = disk
    BY <2>2 DEF Select
  <2>5. \A g \in AlwaysOffered : \E i \in DOMAIN actions : actions[i] = g
    BY <2>4 DEF Exploring
  <2>6. AllTried(buckets'[fp]) \/ MayGain(buckets'[fp], governor, p)
    BY <1>0, <2>1, <2>2, <2>5, ChosenMayGain
  <2>7. FairMap(buckets', p)
    BY <1>0, <2>1, <2>2, SelectCounts, SameIsFair, NewIsFair DEF FairMap
  <2>8. pending'.fingerprint = fp /\ pending'.governor = governor
    BY <2>3
  <2> QED
    BY <1>0, <2>4, <2>5, <2>6, <2>7, <2>8 DEF Exploring, FairMap
<1>5. CASE Flush
  <2>1. /\ UNCHANGED <<running, buckets, actions, pending>>
        /\ disk'.buckets = buckets \/ disk' = disk \/ DOMAIN disk'.buckets = {}
    BY <1>5, SavedBuckets DEF Flush, SaveNow
  <2>2. FairMap(disk'.buckets, p)
    BY <1>0, <2>1 DEF FairMap
  <2> QED
    BY <1>0, <2>1, <2>2 DEF Exploring, FairMap
<1>6. CASE EndProcess \/ DieInSave
  <2>1. /\ DOMAIN buckets' = {} /\ ~ running' /\ pending' = None
        /\ disk' = disk \/ DOMAIN disk'.buckets = {}
    BY <1>6 DEF EndProcess, DieInSave, LoseEngine, Crash, CrashInSave, LoseMemory,
                NoBuckets, TornFile
  <2> QED
    BY <1>0, <2>1 DEF Exploring, FairMap
<1>7. CASE OpenEngineFails \/ UNCHANGED engineVars
  BY <1>2, <1>7 DEF OpenEngineFails, OpenFails, engineVars
<1> QED
  BY <1>1, <1>3, <1>4, <1>5, <1>6, <1>7 DEF EngineNext

\* While an always offered governor is untried in a bucket, UCB1 turns away from
\* each governor it has tried p times, so that the visits stay few, whatever the
\* rewards, however long the list, and through restarts and evictions.
THEOREM Exploration == EngineSpec => []NoGovernorStarves
<1>1. EngineInit => ExplorationInvariant
  BY DEF EngineInit, Init, ExplorationInvariant, Exploring, FairMap, NoBuckets, AbsentFile
<1>2. EngineTypeOK /\ EngineTypeOK' /\ VisitsAddUp /\ VisitsAddUp' /\ RecencyInvariant
        /\ ExplorationInvariant /\ [EngineNext]_engineVars => ExplorationInvariant'
  <2> SUFFICES ASSUME EngineTypeOK, EngineTypeOK', VisitsAddUp, VisitsAddUp',
                      RecencyInvariant, ExplorationInvariant, [EngineNext]_engineVars
               PROVE  ExplorationInvariant'
    OBVIOUS
  <2>1. ASSUME NEW p \in Sating PROVE Exploring(p)'
    BY ExplorationStep DEF ExplorationInvariant
  <2>2. Sating' = Sating
    BY DEF Sating, SatedBy, Outgrown, Scale, UnseenScore
  <2> QED
    BY <2>1, <2>2 DEF ExplorationInvariant
<1>3. EngineTypeOK /\ VisitsAddUp /\ ExplorationInvariant => NoGovernorStarves
  <2> SUFFICES ASSUME EngineTypeOK, VisitsAddUp, ExplorationInvariant,
                      NEW p \in Sating, NEW k \in DOMAIN buckets,
                      ~ AllTried(buckets[k])
               PROVE  ~ (buckets[k].total_visits > (Cardinality(Governors) - 1) * p + 1)
    BY DEF NoGovernorStarves, Sating, AllTried
  <2> DEFINE b == buckets[k]
             N == Cardinality(Governors)
  <2>1. IsBucket(b) /\ CountsAddUp(b)
    BY DEF EngineTypeOK, TypeOK, IsBuckets, VisitsAddUp
  <2>2. Shared(b, p)
    BY DEF ExplorationInvariant, Exploring, FairMap
  <2>3. PICK g \in Governors \ DOMAIN b.actions : TRUE
    BY DEF AllTried, AlwaysOffered
  <2>4. p \in Nat /\ N \in Nat /\ b.total_visits \in Nat
    BY <2>1, MaxVisitsType, FS_CardinalityType, MemoryAssumption DEF Sating, IsBucket
  <2> HIDE DEF b
  <2>5. b.total_visits <= (N - 1) * p + 1
    BY <2>1, <2>2, <2>4, SharedIsBounded
  <2> HIDE DEF N
  <2>6. (N - 1) * p \in Int
    BY <2>4
  <2>7. ~ (b.total_visits > (N - 1) * p + 1)
    BY <2>4, <2>5, <2>6
  <2> QED
    BY <2>7 DEF b, N
<1> QED
  BY <1>1, <1>2, <1>3, EngineTypeInvariance, EngineUsesMemory, VisitsInvariance,
     RecencyInvariance, PTL DEF EngineSpec

-----------------------------------------------------------------------------
(* PolicyEngine implements DelayedCredit. *)

\* What VisitsIn says of the pair <<k, g>>.
Count(B, k, g) == IF k \in DOMAIN B THEN StatsOf(B[k], g).visits ELSE 0

LEMMA VisitsInIs ==
  ASSUME NEW B
  PROVE  VisitsIn(B) = [p \in Fingerprints \X Governors |-> Count(B, p[1], p[2])]
BY DEF VisitsIn, Count

\* No decision is pending between the two halves of decide().
DecidingIsFree == phase = "deciding" => pending = None

LEMMA DecidingStep ==
  ASSUME BaselineBeforeCredit, DecidingIsFree, [EngineNext]_engineVars
  PROVE  DecidingIsFree'
<1> USE DEF DecidingIsFree
<1>1. ASSUME NEW reward \in Rewards, Credit(reward) PROVE DecidingIsFree'
  BY <1>1 DEF Credit, Sample, Take, BaselineBeforeCredit
<1>2. CASE \/ \E list \in ActionLists : OpenEngine(list)
           \/ OpenEngineFails
           \/ \E window \in SUBSET Execs, have \in KernelLists,
                 governor \in Governors : Choose(window, have, governor)
           \/ Flush \/ EndProcess \/ DieInSave
           \/ UNCHANGED engineVars
  BY <1>2 DEF OpenEngine, OpenEngineFails, Choose, Flush, EndProcess, DieInSave,
              LoseEngine, engineVars
<1> QED
  BY <1>1, <1>2 DEF EngineNext

\* Touching a bucket counts nothing; only what is evicted is forgotten.
LEMMA TouchedCounts ==
  ASSUME TypeOK, NEW fp, NEW evicted \in Evictions(fp), NEW t, NEW k, NEW g
  PROVE  Count(Touched(fp, evicted, t), k, g) =
           IF k \in evicted /\ k # fp THEN 0 ELSE Count(buckets, k, g)
<1> DEFINE B == Touched(fp, evicted, t)
<1>1. DOMAIN B = (DOMAIN buckets \ evicted) \cup {fp}
  BY TouchedDomain
<1>2. evicted \subseteq DOMAIN buckets /\ (fp \in DOMAIN buckets => evicted = {})
  BY EvictionsType
<1>3. CASE k = fp
  <2>1. CASE fp \in DOMAIN buckets
    <3>1. B[fp] = [buckets[fp] EXCEPT !.last_used = t]
      BY <2>1, <1>1 DEF Touched
    <3>2. IsBucket(buckets[fp])
      BY <2>1 DEF TypeOK, IsBuckets
    <3>3. B[fp].actions = buckets[fp].actions
      BY <3>1, <3>2 DEF IsBucket
    <3> HIDE DEF B
    <3>4. Count(B, k, g) = Count(buckets, k, g)
      BY <1>1, <1>3, <2>1, <3>3 DEF Count, StatsOf
    <3> QED
      BY <1>3, <3>4 DEF B
  <2>2. CASE fp \notin DOMAIN buckets
    <3>1. B[fp].actions = NoBuckets
      BY <2>2, <1>1 DEF Touched, NewBucket
    <3> QED
      BY <1>1, <1>2, <1>3, <2>2, <3>1 DEF Count, StatsOf, DefaultStats, NoBuckets
  <2> QED
    BY <2>1, <2>2
<1>4. CASE k # fp
  <2>1. k \in DOMAIN B => B[k] = buckets[k]
    BY <1>1, <1>4 DEF Touched
  <2> QED
    BY <1>1, <1>2, <1>4, <2>1 DEF Count
<1> QED
  BY <1>3, <1>4

LEMMA ChooseMaps ==
  ASSUME EngineTypeOK, BucketCap, DecidingIsFree,
         NEW window \in SUBSET Execs, NEW have \in KernelLists,
         NEW governor \in Governors, Choose(window, have, governor)
  PROVE  Learning!Decide(FingerprintOf[window], governor)
<1> DEFINE fp == FingerprintOf[window]
<1>1. fp \in Fingerprints
  BY FingerprintType
<1>2. PICK prior : Select(fp, prior, governor)
  BY DEF Choose
<1>3. /\ pending = None
      /\ pending' = [fingerprint |-> fp, governor |-> governor]
  BY DEF Choose, DecidingIsFree
<1> HIDE DEF fp
<1>4. PICK evicted \in Evictions(fp) : buckets' = Touched(fp, evicted, tick + 1)
  BY <1>2 DEF Select
<1>5. running /\ running' = running /\ disk' = disk
  BY <1>2 DEF Select
<1>6. \A k, g : Count(buckets', k, g) =
                  IF k \in evicted /\ k # fp THEN 0 ELSE Count(buckets, k, g)
  BY <1>4, TouchedCounts DEF EngineTypeOK
<1>7. \/ evicted = {}
      \/ fp \notin DOMAIN buckets /\ \E victim \in DOMAIN buckets : evicted = {victim}
  BY EvictsOneAtTheCap, EvictionsType DEF EngineTypeOK
<1>8. \/ VisitsIn(buckets') = VisitsIn(buckets)
      \/ \E forgotten \in Fingerprints \ {fp} :
           VisitsIn(buckets') =
             [p \in Fingerprints \X Governors |->
                IF p[1] = forgotten THEN 0 ELSE VisitsIn(buckets)[p]]
  <2>1. CASE evicted = {}
    <3>1. \A k, g : Count(buckets', k, g) = Count(buckets, k, g)
      BY <1>6, <2>1
    <3> QED
      BY <3>1, VisitsInIs
  <2>2. ASSUME NEW victim \in DOMAIN buckets, evicted = {victim},
               fp \notin DOMAIN buckets
        PROVE  \E forgotten \in Fingerprints \ {fp} :
                 VisitsIn(buckets') =
                   [p \in Fingerprints \X Governors |->
                      IF p[1] = forgotten THEN 0 ELSE VisitsIn(buckets)[p]]
    <3>1. victim \in Fingerprints \ {fp}
      BY <2>2 DEF EngineTypeOK, TypeOK, IsBuckets
    <3>2. \A k, g : Count(buckets', k, g) =
                      IF k = victim THEN 0 ELSE Count(buckets, k, g)
      BY <1>6, <2>2
    <3>3. VisitsIn(buckets') =
            [p \in Fingerprints \X Governors |->
               IF p[1] = victim THEN 0 ELSE VisitsIn(buckets)[p]]
      BY <3>2, VisitsInIs
    <3> QED
      BY <3>1, <3>3
  <2> QED
    BY <1>7, <2>1, <2>2
<1>9. Learning!Decide(fp, governor)
  BY <1>3, <1>5, <1>8 DEF Learning!Decide, Learning!Pairs
<1> QED
  BY <1>9 DEF fp

\* A save() is one of Learning!CopyOut.
LEMMA SaveCopiesOut ==
  ASSUME NEW B, NEW d, Save(B, d), NEW counts, counts = VisitsIn(B)
  PROVE  \/ (disk'.state # "torn") = TRUE /\ VisitsIn(disk'.buckets) = counts
         \/ disk' = disk
         \/ (disk'.state # "torn") = FALSE /\ VisitsIn(disk'.buckets) = Learning!Nothing
<1>1. VisitsIn(NoBuckets) = Learning!Nothing
  BY VisitsInIs DEF Count, NoBuckets, Learning!Nothing, Learning!Pairs
<1> QED
  BY <1>1 DEF Save, SavedFile, TornFile

LEMMA CreditMaps ==
  ASSUME EngineTypeOK, RecencyInvariant, BaselineBeforeCredit,
         NEW reward \in Rewards, Credit(reward)
  PROVE  Learning!Credit \/ UNCHANGED Learning!creditVars
<1>1. CASE /\ pending # None
           /\ Update(pending.fingerprint, pending.governor, reward)
           /\ pending' = None
  <2> DEFINE fp   == pending.fingerprint
             gov  == pending.governor
             pair == <<fp, gov>>
  <2>0. TypeOK
    BY DEF EngineTypeOK
  <2>1. fp \in Fingerprints /\ gov \in Governors /\ fp \in DOMAIN buckets
    BY <1>1 DEF EngineTypeOK, PendingCredit, RecencyInvariant, PendingIsNewest
  <2> HIDE DEF fp, gov
  <2>2. Update(fp, gov, reward)
    BY <1>1 DEF fp, gov
  <2>3. PICK evicted \in Evictions(fp) :
          buckets' = [Touched(fp, evicted, tick) EXCEPT
                        ![fp] = Credited(Touched(fp, evicted, tick)[fp], gov, reward)]
    BY <2>2 DEF Update
  <2> DEFINE touched == Touched(fp, evicted, tick)
  <2>4. evicted = {}
    BY <2>1, EvictionsType
  <2>5. DOMAIN touched = DOMAIN buckets
    <3>1. DOMAIN touched = (DOMAIN buckets \ evicted) \cup {fp}
      BY TouchedDomain
    <3> HIDE DEF touched
    <3> QED
      BY <2>1, <2>4, <3>1
  <2>6. \A k, g : Count(touched, k, g) = Count(buckets, k, g)
    BY <2>0, <2>4, TouchedCounts
  <2> HIDE DEF touched
  <2>7. \A k, g : Count(buckets', k, g) =
                    IF k = fp /\ g = gov THEN SaturatingInc(Count(buckets, k, g))
                    ELSE Count(buckets, k, g)
    <3> SUFFICES ASSUME NEW k, NEW g
                 PROVE  Count(buckets', k, g) =
                          IF k = fp /\ g = gov
                          THEN SaturatingInc(Count(touched, k, g))
                          ELSE Count(touched, k, g)
      BY <2>6
    <3>1. buckets' = [touched EXCEPT ![fp] = Credited(touched[fp], gov, reward)]
      BY <2>3 DEF touched
    <3>2. DOMAIN buckets' = DOMAIN touched /\ fp \in DOMAIN touched
      BY <2>1, <2>5, <3>1
    <3>3. CASE k = fp
      <4>1. buckets'[fp] = Credited(touched[fp], gov, reward)
        BY <3>1, <3>2
      <4>2. Count(buckets', k, g) = StatsOf(Credited(touched[fp], gov, reward), g).visits
        BY <3>2, <3>3, <4>1 DEF Count
      <4>3. Count(touched, k, g) = StatsOf(touched[fp], g).visits
        BY <3>2, <3>3 DEF Count
      <4> QED
        BY <3>3, <4>2, <4>3 DEF Credited, StatsOf
    <3>4. CASE k # fp
      <4>1. k \in DOMAIN touched => buckets'[k] = touched[k]
        BY <3>1, <3>4
      <4> QED
        BY <3>2, <3>4, <4>1 DEF Count
    <3> QED
      BY <3>3, <3>4
  <2>8. VisitsIn(buckets') =
          [VisitsIn(buckets) EXCEPT ![pair] = IF @ < MaxVisits THEN @ + 1 ELSE @]
    <3>1. \A p \in Fingerprints \X Governors :
            p = pair <=> p[1] = fp /\ p[2] = gov
      BY <2>1
    <3> QED
      BY <2>7, <3>1, VisitsInIs DEF SaturatingInc
  <2>9. running /\ running' = running
    BY <2>2 DEF Update
  <2>10. \/ (disk'.state # "torn") = TRUE /\ VisitsIn(disk'.buckets) = VisitsIn(buckets')
         \/ disk' = disk
         \/ (disk'.state # "torn") = FALSE /\ VisitsIn(disk'.buckets) = Learning!Nothing
    <3>1. CASE Save(buckets', dirty_since_save + 1)
      BY <3>1, SaveCopiesOut
    <3> QED
      BY <2>2, <3>1 DEF Update
  <2> QED
    BY <1>1, <2>8, <2>9, <2>10
    DEF Learning!Credit, Learning!CopyOut, fp, gov
<1>2. CASE UNCHANGED <<memVars, pending>>
  BY <1>2 DEF memVars, Learning!creditVars
<1> QED
  BY <1>1, <1>2 DEF Credit, Sample, Take, BaselineBeforeCredit

\* Every step is a step of DelayedCredit, or changes nothing of it.
LEMMA LearningStep ==
  EngineTypeOK /\ BucketCap /\ RecencyInvariant /\ BaselineBeforeCredit /\ DecidingIsFree
    /\ [EngineNext]_engineVars => [Learning!Next]_(Learning!creditVars)
<1> SUFFICES ASSUME EngineTypeOK, BucketCap, RecencyInvariant, BaselineBeforeCredit,
                    DecidingIsFree, [EngineNext]_engineVars
             PROVE  Learning!Next \/ UNCHANGED Learning!creditVars
  OBVIOUS
<1>0. VisitsIn(NoBuckets) = Learning!Nothing
  BY VisitsInIs DEF Count, NoBuckets, Learning!Nothing, Learning!Pairs
<1>1. ASSUME NEW list \in ActionLists, OpenEngine(list) PROVE Learning!Start
  BY <1>1 DEF OpenEngine, Open, Learning!Start
<1>2. ASSUME NEW reward \in Rewards, Credit(reward)
      PROVE  Learning!Credit \/ UNCHANGED Learning!creditVars
  BY <1>2, CreditMaps
<1>3. ASSUME NEW window \in SUBSET Execs, NEW have \in KernelLists,
             NEW governor \in Governors, Choose(window, have, governor)
      PROVE  \E c \in Fingerprints, g \in Governors : Learning!Decide(c, g)
  BY <1>3, ChooseMaps, FingerprintType
<1>4. CASE Flush
  <2>1. running /\ UNCHANGED <<running, buckets, pending>>
        /\ Save(buckets, dirty_since_save)
    BY <1>4 DEF Flush, SaveNow
  <2>2. \/ (disk'.state # "torn") = TRUE /\ VisitsIn(disk'.buckets) = VisitsIn(buckets)
        \/ disk' = disk
        \/ (disk'.state # "torn") = FALSE /\ VisitsIn(disk'.buckets) = Learning!Nothing
    BY <2>1, SaveCopiesOut
  <2>3. Learning!Persist
    BY <2>1, <2>2 DEF Learning!Persist, Learning!CopyOut
  <2> QED
    BY <2>3 DEF Learning!Next
<1>5. CASE EndProcess
  <2>1. Learning!Stop
    BY <1>0, <1>5 DEF EndProcess, Crash, LoseMemory, LoseEngine,
                      Learning!Stop, Learning!CopyOut
  <2> QED
    BY <2>1 DEF Learning!Next
<1>6. CASE DieInSave
  <2>1. Learning!Stop
    BY <1>0, <1>6 DEF DieInSave, CrashInSave, LoseMemory, LoseEngine, TornFile,
                      Learning!Stop, Learning!CopyOut
  <2> QED
    BY <2>1 DEF Learning!Next
<1>7. CASE OpenEngineFails \/ UNCHANGED engineVars
  BY <1>7 DEF OpenEngineFails, OpenFails, engineVars, memVars, Learning!creditVars
<1> QED
  BY <1>1, <1>2, <1>3, <1>4, <1>5, <1>6, <1>7 DEF EngineNext, Learning!Next

\* The engine implements the delayed learning of DelayedCredit.tla: every
\* decision followed by another is credited once, to its own bucket and
\* governor, and nothing else is learned, through evictions, failed saves,
\* crashes and restarts.
THEOREM LearningImplementation == EngineSpec => ImplementsLearning
<1>1. EngineInit => Learning!Init
  <2>1. VisitsIn(NoBuckets) = Learning!Nothing
    BY VisitsInIs DEF Count, NoBuckets, Learning!Nothing, Learning!Pairs
  <2> QED
    BY <2>1 DEF EngineInit, Init, AbsentFile, Learning!Init
<1>2. EngineInit => DecidingIsFree
  BY DEF EngineInit, DecidingIsFree
<1>3. EngineSpec => Learning!Init /\ [][Learning!Next]_(Learning!creditVars)
  BY <1>1, <1>2, LearningStep, DecidingStep, EngineTypeInvariance, EngineUsesMemory,
     CapInvariance, RecencyInvariance, BaselineInvariance, PTL DEF EngineSpec
<1> QED
  BY <1>3 DEF ImplementsLearning, Learning!Spec

=============================================================================
