------------------------- MODULE EpisodeMemoryProofs -------------------------
(***************************************************************************)
(* Invariants of EpisodeMemory.tla for every set of fingerprints, list of  *)
(* governors, cap, save period and bonus table.                            *)
(***************************************************************************)
EXTENDS EpisodeMemory, FiniteSetTheorems, TLAPS

-----------------------------------------------------------------------------
(* The operators keep the types of the store. *)

LEMMA StatsType ==
  ASSUME NEW b, IsBucket(b), NEW g \in Governors
  PROVE  StatsOf(b, g) \in ActionStats
<1>1. DefaultStats \in ActionStats
  BY MemoryAssumption DEF DefaultStats, ActionStats, Scale
<1> QED
  BY <1>1 DEF StatsOf, IsBucket, IsMap

\* Integer division as the provers know it, and its consequence: an average of
\* two rewards is between them.
LEMMA DivByFive ==
  ASSUME NEW n \in Nat
  PROVE  n \div 5 \in Int /\ n \div 5 >= 0 /\ 5 * (n \div 5) <= n
<1>1. n \div 5 \in Int
  OBVIOUS
<1>2. n \div 5 >= 0
  OBVIOUS
<1>3. 5 * (n \div 5) <= n
  OBVIOUS
<1> QED
  BY <1>1, <1>2, <1>3

LEMMA EmaType ==
  ASSUME NEW old \in 0 .. Scale, NEW reward \in 0 .. Scale
  PROVE  Ema(old, reward) \in 0 .. Scale
<1> DEFINE sum == 4 * old + reward
<1>0. old \in Nat /\ reward \in Nat /\ old <= 10000 /\ reward <= 10000
  BY DEF Scale
<1>1. sum \in Nat /\ sum <= 50000
  <2>1. sum \in Nat
    BY <1>0
  <2>2. sum <= 50000
    BY <1>0
  <2> QED
    BY <2>1, <2>2
<1> HIDE DEF sum
<1>2. sum \div 5 \in Int /\ sum \div 5 >= 0 /\ 5 * (sum \div 5) <= sum
  BY <1>1, DivByFive
<1>3. sum \div 5 \in 0 .. Scale
  BY <1>1, <1>2 DEF Scale
<1> QED
  BY <1>3 DEF Ema, sum

LEMMA IncType ==
  ASSUME NEW n \in 0 .. MaxVisits
  PROVE  SaturatingInc(n) \in 0 .. MaxVisits
BY MemoryAssumption DEF SaturatingInc

\* What a credit does to the fields of a bucket.
LEMMA CreditedFields ==
  ASSUME NEW b, NEW g, NEW reward
  PROVE  /\ Credited(b, g, reward).total_visits = SaturatingInc(b.total_visits)
         /\ Credited(b, g, reward).last_used = b.last_used
BY DEF Credited

LEMMA CreditedType ==
  ASSUME NEW b, IsBucket(b), NEW g \in Governors, NEW reward \in Rewards
  PROVE  IsBucket(Credited(b, g, reward))
<1> DEFINE old == StatsOf(b, g)
           new == [visits |-> SaturatingInc(old.visits),
                   ema_reward |-> IF old.visits = 0 THEN reward
                                  ELSE Ema(old.ema_reward, reward)]
           acts == [h \in DOMAIN b.actions \cup {g} |->
                      IF h = g THEN new ELSE b.actions[h]]
<1>1. old \in ActionStats
  BY StatsType
<1>2. old.visits \in 0 .. MaxVisits /\ old.ema_reward \in 0 .. Scale
  BY <1>1 DEF ActionStats
<1>3. reward \in 0 .. Scale
  BY MemoryAssumption
<1>4. new \in ActionStats
  BY <1>2, <1>3, IncType, EmaType DEF ActionStats
<1>5. IsMap(acts, Governors, ActionStats)
  <2>1. DOMAIN b.actions \subseteq Governors
    BY DEF IsBucket, IsMap
  <2>2. \A h \in DOMAIN b.actions : b.actions[h] \in ActionStats
    BY DEF IsBucket, IsMap
  <2> HIDE DEF new
  <2> QED
    BY <1>4, <2>1, <2>2 DEF IsMap
<1>6. Credited(b, g, reward) = [total_visits |-> SaturatingInc(b.total_visits),
                                last_used |-> b.last_used,
                                actions |-> acts]
  BY DEF Credited
<1>7. SaturatingInc(b.total_visits) \in 0 .. MaxVisits /\ b.last_used \in 0 .. MaxTick
  BY IncType DEF IsBucket
<1> HIDE DEF acts
<1> QED
  BY <1>5, <1>6, <1>7 DEF IsBucket

LEMMA NewBucketType ==
  ASSUME NEW t \in 0 .. MaxTick
  PROVE  IsBucket(NewBucket(t))
BY MemoryAssumption DEF NewBucket, NoBuckets, IsBucket, IsMap

\* Evictions are subsets of the map, and nothing is evicted for a resident
\* fingerprint.
LEMMA EvictionsType ==
  ASSUME NEW fp, NEW evicted \in Evictions(fp)
  PROVE  /\ evicted \subseteq DOMAIN buckets
         /\ fp \in DOMAIN buckets => evicted = {}
BY DEF Evictions

LEMMA TouchedDomain ==
  ASSUME NEW fp, NEW evicted, NEW t
  PROVE  DOMAIN Touched(fp, evicted, t) = (DOMAIN buckets \ evicted) \cup {fp}
BY DEF Touched

\* The touched bucket is stamped t and keeps its visits; no other changes.
LEMMA TouchedFields ==
  ASSUME IsBuckets(buckets), NEW fp \in Fingerprints, NEW evicted, NEW t \in 0 .. MaxTick
  PROVE  /\ IsBucket(Touched(fp, evicted, t)[fp])
         /\ Touched(fp, evicted, t)[fp].last_used = t
         /\ fp \in DOMAIN buckets =>
              Touched(fp, evicted, t)[fp].total_visits = buckets[fp].total_visits
         /\ fp \notin DOMAIN buckets => Touched(fp, evicted, t)[fp].total_visits = 0
         /\ \A k \in (DOMAIN buckets \ evicted) \ {fp} :
              Touched(fp, evicted, t)[k] = buckets[k]
<1>1. CASE fp \in DOMAIN buckets
  <2>1. Touched(fp, evicted, t)[fp] = [buckets[fp] EXCEPT !.last_used = t]
    BY <1>1 DEF Touched
  <2>2. IsBucket(buckets[fp])
    BY <1>1 DEF IsBuckets
  <2>3. [buckets[fp] EXCEPT !.last_used = t] =
          [total_visits |-> buckets[fp].total_visits, last_used |-> t,
           actions |-> buckets[fp].actions]
    BY <2>2 DEF IsBucket
  <2> QED
    BY <1>1, <2>1, <2>2, <2>3 DEF IsBucket, Touched
<1>2. CASE fp \notin DOMAIN buckets
  <2>1. Touched(fp, evicted, t)[fp] = NewBucket(t)
    BY <1>2 DEF Touched
  <2> QED
    BY <1>2, <2>1, NewBucketType DEF NewBucket, Touched
<1> QED
  BY <1>1, <1>2

LEMMA TouchedType ==
  ASSUME IsBuckets(buckets), NEW fp \in Fingerprints, NEW evicted, NEW t \in 0 .. MaxTick
  PROVE  IsBuckets(Touched(fp, evicted, t))
<1> DEFINE kept == DOMAIN buckets \ evicted
<1>0. DOMAIN buckets \subseteq Fingerprints /\ \A k \in DOMAIN buckets : IsBucket(buckets[k])
  BY DEF IsBuckets
<1>1. DOMAIN Touched(fp, evicted, t) = kept \cup {fp}
  BY TouchedDomain
<1>2. ASSUME NEW k \in DOMAIN Touched(fp, evicted, t)
      PROVE  IsBucket(Touched(fp, evicted, t)[k])
  <2>1. CASE k = fp
    BY <2>1, TouchedFields
  <2>2. CASE k # fp
    BY <1>0, <1>1, <1>2, <2>2, TouchedFields
  <2> QED
    BY <2>1, <2>2
<1>3. Touched(fp, evicted, t) = [k \in DOMAIN Touched(fp, evicted, t) |->
                                   Touched(fp, evicted, t)[k]]
  BY DEF Touched
<1> QED
  BY <1>0, <1>1, <1>2, <1>3 DEF IsBuckets

\* The map of an update: the touched one with a credit for its fingerprint.
LEMMA UpdatedMap ==
  ASSUME NEW B, IsBuckets(B), NEW fp \in DOMAIN B, NEW b, IsBucket(b)
  PROVE  LET C == [B EXCEPT ![fp] = b]
         IN  /\ IsBuckets(C)
             /\ DOMAIN C = DOMAIN B
             /\ C[fp] = b
             /\ \A k \in DOMAIN B \ {fp} : C[k] = B[k]
BY DEF IsBuckets

-----------------------------------------------------------------------------
(* Type correctness. *)

LEMMA EmptyMapType == IsBuckets(NoBuckets)
BY DEF IsBuckets, NoBuckets

LEMMA FileTypes ==
  /\ IsFile(AbsentFile)
  /\ IsFile(TornFile)
  /\ \A B, t : IsBuckets(B) /\ t \in 0 .. MaxTick => IsFile(SavedFile(t, B))
BY EmptyMapType, MemoryAssumption DEF IsFile, AbsentFile, TornFile, SavedFile

LEMMA SaveType ==
  ASSUME TypeOK, NEW B, IsBuckets(B), NEW d \in 0 .. MaxDirty, Save(B, d)
  PROVE  IsFile(disk') /\ dirty_since_save' \in 0 .. MaxDirty
<1>1. IsFile(SavedFile(tick, B)) /\ IsFile(TornFile) /\ IsFile(disk)
  BY FileTypes DEF TypeOK
<1>2. 0 \in 0 .. MaxDirty
  BY MemoryAssumption
<1> QED
  BY <1>1, <1>2 DEF Save

\* What an update leaves in the map, whichever buckets it evicts.
LEMMA UpdateType ==
  ASSUME TypeOK, NEW fp \in Fingerprints, NEW governor \in Governors,
         NEW reward \in Rewards, NEW evicted
  PROVE  LET touched == Touched(fp, evicted, tick)
         IN  IsBuckets([touched EXCEPT
                          ![fp] = Credited(touched[fp], governor, reward)])
<1> DEFINE touched == Touched(fp, evicted, tick)
<1>0. IsBuckets(buckets) /\ tick \in 0 .. MaxTick
  BY DEF TypeOK
<1>1. IsBuckets(touched)
  BY <1>0, TouchedType
<1>2. fp \in DOMAIN touched
  BY DEF Touched
<1>3. IsBucket(touched[fp])
  BY <1>0, TouchedFields
<1>4. IsBucket(Credited(touched[fp], governor, reward))
  BY <1>3, CreditedType
<1> HIDE DEF touched
<1>5. IsBuckets([touched EXCEPT ![fp] = Credited(touched[fp], governor, reward)])
  BY <1>1, <1>2, <1>4, UpdatedMap
<1> QED
  BY <1>5 DEF touched

\* Every step of the store keeps the types.
LEMMA TypeStep == TypeOK /\ [Next]_memVars => TypeOK'
<1> SUFFICES ASSUME TypeOK, [Next]_memVars PROVE TypeOK'
  OBVIOUS
<1>1. ASSUME NEW list \in ActionLists, Open(list) PROVE TypeOK'
  <2>1. <<"performance", "powersave">> \in Seq(Governors)
    BY MemoryAssumption
  <2>2. actions' \in Seq(Governors)
    BY <1>1, <2>1, MemoryAssumption DEF Open
  <2>3. IsBuckets(buckets') /\ tick' \in 0 .. MaxTick
    BY <1>1 DEF Open, Clock, TypeOK, IsFile
  <2> QED
    BY <1>1, <2>2, <2>3, MemoryAssumption DEF Open, Clock, TypeOK
<1>2. CASE OpenFails
  BY <1>2 DEF OpenFails, TypeOK, memVars
<1>3. ASSUME NEW fp \in Fingerprints, NEW prior \in Governors,
             NEW governor \in Governors, Select(fp, prior, governor)
      PROVE  TypeOK'
  <2>1. tick + 1 \in 0 .. MaxTick
    BY <1>3, MemoryAssumption DEF Select, TypeOK
  <2>2. PICK evicted \in Evictions(fp) : buckets' = Touched(fp, evicted, tick + 1)
    BY <1>3 DEF Select
  <2>3. IsBuckets(buckets')
    BY <2>1, <2>2, TouchedType DEF TypeOK
  <2> QED
    BY <1>3, <2>1, <2>3 DEF Select, TypeOK
<1>4. ASSUME NEW fp \in Fingerprints, NEW governor \in Governors,
             NEW reward \in Rewards, Update(fp, governor, reward)
      PROVE  TypeOK'
  <2>1. IsBuckets(buckets')
    <3>1. PICK evicted \in Evictions(fp) :
            LET touched == Touched(fp, evicted, tick)
            IN  buckets' = [touched EXCEPT
                              ![fp] = Credited(touched[fp], governor, reward)]
      BY <1>4 DEF Update
    <3> QED
      BY <3>1, UpdateType
  <2>2. dirty_since_save + 1 \in 0 .. MaxDirty
    BY <1>4, MemoryAssumption DEF Update, TypeOK
  <2>3. IsFile(disk') /\ dirty_since_save' \in 0 .. MaxDirty
    BY <1>4, <2>1, <2>2, SaveType DEF Update, TypeOK
  <2> QED
    BY <1>4, <2>1, <2>3 DEF Update, TypeOK
<1>5. CASE SaveNow
  <2>1. IsFile(disk') /\ dirty_since_save' \in 0 .. MaxDirty
    BY <1>5, SaveType DEF SaveNow, TypeOK
  <2> QED
    BY <1>5, <2>1 DEF SaveNow, TypeOK
<1>6. ASSUME LoseMemory, IsFile(disk') PROVE TypeOK'
  <2>1. <<>> \in Seq(Governors)
    OBVIOUS
  <2>2. 0 \in 0 .. MaxTick /\ 0 \in 0 .. MaxDirty
    BY MemoryAssumption
  <2> QED
    BY <1>6, <2>1, <2>2, EmptyMapType DEF LoseMemory, TypeOK
<1>7. CASE Crash
  BY <1>6, <1>7 DEF Crash, TypeOK
<1>8. CASE CrashInSave
  BY <1>6, <1>8, FileTypes DEF CrashInSave
<1>9. CASE UNCHANGED memVars
  BY <1>9 DEF memVars, TypeOK
<1> QED
  BY <1>1, <1>2, <1>3, <1>4, <1>5, <1>7, <1>8, <1>9 DEF Next

LEMMA TypeInit == Init => TypeOK
<1>1. <<>> \in Seq(Governors)
  OBVIOUS
<1>2. 0 \in 0 .. MaxTick /\ 0 \in 0 .. MaxDirty
  BY MemoryAssumption
<1> QED
  BY <1>1, <1>2, EmptyMapType, FileTypes DEF Init, TypeOK

\* The state is always what the structs and the file can hold.
THEOREM TypeInvariance == Spec => []TypeOK
BY TypeInit, TypeStep, PTL DEF Spec

-----------------------------------------------------------------------------
(* What select() and update() do to the map, field by field. *)

LEMMA SelectFields ==
  ASSUME TypeOK, NEW fp \in Fingerprints, NEW prior, NEW governor,
         Select(fp, prior, governor)
  PROVE  \E evicted \in Evictions(fp) :
           /\ DOMAIN buckets' = (DOMAIN buckets \ evicted) \cup {fp}
           /\ buckets'[fp].last_used = tick + 1
           /\ fp \in DOMAIN buckets =>
                buckets'[fp].total_visits = buckets[fp].total_visits
           /\ fp \notin DOMAIN buckets => buckets'[fp].total_visits = 0
           /\ \A k \in (DOMAIN buckets \ evicted) \ {fp} : buckets'[k] = buckets[k]
<1>1. IsBuckets(buckets) /\ tick + 1 \in 0 .. MaxTick
  BY MemoryAssumption DEF TypeOK, Select
<1>2. PICK evicted \in Evictions(fp) : buckets' = Touched(fp, evicted, tick + 1)
  BY DEF Select
<1> DEFINE touched == Touched(fp, evicted, tick + 1)
<1>3. DOMAIN touched = (DOMAIN buckets \ evicted) \cup {fp}
  BY DEF Touched
<1>4. /\ touched[fp].last_used = tick + 1
      /\ fp \in DOMAIN buckets =>
           touched[fp].total_visits = buckets[fp].total_visits
      /\ fp \notin DOMAIN buckets => touched[fp].total_visits = 0
      /\ \A k \in (DOMAIN buckets \ evicted) \ {fp} : touched[k] = buckets[k]
  BY <1>1, TouchedFields
<1>5. buckets' = touched
  BY <1>2
<1> HIDE DEF touched
<1> QED
  BY <1>3, <1>4, <1>5

LEMMA UpdateFields ==
  ASSUME TypeOK, NEW fp \in Fingerprints, NEW governor, NEW reward,
         Update(fp, governor, reward)
  PROVE  \E evicted \in Evictions(fp) :
           /\ DOMAIN buckets' = (DOMAIN buckets \ evicted) \cup {fp}
           /\ buckets'[fp].last_used = tick
           /\ fp \in DOMAIN buckets =>
                buckets'[fp].total_visits = SaturatingInc(buckets[fp].total_visits)
           /\ fp \notin DOMAIN buckets =>
                buckets'[fp].total_visits = SaturatingInc(0)
           /\ \A k \in (DOMAIN buckets \ evicted) \ {fp} : buckets'[k] = buckets[k]
<1>1. IsBuckets(buckets) /\ tick \in 0 .. MaxTick
  BY DEF TypeOK
<1>2. PICK evicted \in Evictions(fp) :
        LET touched == Touched(fp, evicted, tick)
        IN  buckets' = [touched EXCEPT
                          ![fp] = Credited(touched[fp], governor, reward)]
  BY DEF Update
<1> DEFINE touched == Touched(fp, evicted, tick)
<1>3. DOMAIN touched = (DOMAIN buckets \ evicted) \cup {fp}
  BY DEF Touched
<1>4. DOMAIN buckets' = DOMAIN touched
  BY <1>2
<1>5. buckets'[fp] = Credited(touched[fp], governor, reward)
  BY <1>2, <1>3
<1>6. \A k \in (DOMAIN buckets \ evicted) \ {fp} : buckets'[k] = touched[k]
  BY <1>2, <1>3
<1>7. /\ buckets'[fp].last_used = touched[fp].last_used
      /\ buckets'[fp].total_visits = SaturatingInc(touched[fp].total_visits)
  BY <1>5, CreditedFields
<1>8. /\ touched[fp].last_used = tick
      /\ fp \in DOMAIN buckets =>
           touched[fp].total_visits = buckets[fp].total_visits
      /\ fp \notin DOMAIN buckets => touched[fp].total_visits = 0
      /\ \A k \in (DOMAIN buckets \ evicted) \ {fp} : touched[k] = buckets[k]
  BY <1>1, TouchedFields
<1> HIDE DEF touched
<1> QED
  BY <1>3, <1>4, <1>6, <1>7, <1>8

-----------------------------------------------------------------------------
(* The cap. *)

LEMMA TouchedCap ==
  ASSUME TypeOK, Cardinality(DOMAIN buckets) <= MaxBuckets, NEW fp,
         NEW evicted \in Evictions(fp)
  PROVE  Cardinality((DOMAIN buckets \ evicted) \cup {fp}) <= MaxBuckets
<1> DEFINE kept == DOMAIN buckets \ evicted
<1>1. IsFiniteSet(DOMAIN buckets)
  <2>1. DOMAIN buckets \subseteq Fingerprints
    BY DEF TypeOK, IsBuckets
  <2> QED
    BY <2>1, FS_Subset, MemoryAssumption
<1>2. CASE fp \in DOMAIN buckets
  <2>1. kept \cup {fp} = DOMAIN buckets
    BY <1>2, EvictionsType
  <2> QED
    BY <2>1
<1>3. CASE fp \notin DOMAIN buckets
  <2>1. Cardinality(kept) < MaxBuckets
    BY <1>3 DEF Evictions, IsEviction
  <2>2. IsFiniteSet(kept) /\ kept \subseteq DOMAIN buckets
    BY <1>1, FS_Subset
  <2>3. Cardinality(kept) \in Nat
    BY <2>2, FS_CardinalityType
  <2>4. fp \notin kept
    BY <1>3
  <2> HIDE DEF kept
  <2>5. Cardinality(kept \cup {fp}) = Cardinality(kept) + 1
    BY <2>2, <2>4, FS_AddElement
  <2>6. Cardinality(kept \cup {fp}) <= MaxBuckets
    BY <2>1, <2>3, <2>5, MemoryAssumption
  <2> QED
    BY <2>6 DEF kept
<1> QED
  BY <1>2, <1>3

LEMMA SavedKeys ==
  ASSUME NEW B, NEW d, Save(B, d)
  PROVE  \/ DOMAIN disk'.buckets = DOMAIN B
         \/ disk' = disk
         \/ DOMAIN disk'.buckets = {}
BY DEF Save, SavedFile, TornFile, NoBuckets

LEMMA EmptyCap == Cardinality({}) <= MaxBuckets
BY FS_EmptySet, MemoryAssumption

\* No order of calls, reloads and crashes takes the map or the file over the
\* cap: only a new fingerprint adds a bucket, and only after room was made.
THEOREM CapInvariance == Spec => []BucketCap
<1>1. Init => BucketCap
  BY EmptyCap DEF Init, BucketCap, AbsentFile, NoBuckets
<1>2. TypeOK /\ BucketCap /\ [Next]_memVars => BucketCap'
  <2> SUFFICES ASSUME TypeOK, BucketCap, [Next]_memVars PROVE BucketCap'
    OBVIOUS
  <2>0. Cardinality(DOMAIN buckets) <= MaxBuckets
    BY DEF BucketCap
  <2>1. ASSUME NEW list \in ActionLists, Open(list) PROVE BucketCap'
    BY <2>1 DEF Open, BucketCap
  <2>2. ASSUME NEW fp \in Fingerprints, NEW prior, NEW governor,
               Select(fp, prior, governor)
        PROVE  BucketCap'
    <3>1. Cardinality(DOMAIN buckets') <= MaxBuckets
      BY <2>0, <2>2, SelectFields, TouchedCap
    <3> QED
      BY <2>2, <3>1 DEF Select, BucketCap
  <2>3. ASSUME NEW B, NEW d, Cardinality(DOMAIN B) <= MaxBuckets, Save(B, d)
        PROVE  Cardinality(DOMAIN disk'.buckets) <= MaxBuckets
    BY <2>3, SavedKeys, EmptyCap DEF BucketCap
  <2>4. ASSUME NEW fp \in Fingerprints, NEW governor, NEW reward,
               Update(fp, governor, reward)
        PROVE  BucketCap'
    <3>1. Cardinality(DOMAIN buckets') <= MaxBuckets
      BY <2>0, <2>4, UpdateFields, TouchedCap
    <3>2. CASE Save(buckets', dirty_since_save + 1)
      BY <3>1, <3>2, SavedKeys, EmptyCap DEF BucketCap
    <3>3. CASE UNCHANGED disk
      BY <3>1, <3>3 DEF BucketCap
    <3> QED
      BY <2>4, <3>2, <3>3 DEF Update
  <2>5. CASE SaveNow
    BY <2>0, <2>3, <2>5 DEF SaveNow, BucketCap
  <2>6. CASE Crash
    BY <2>6, EmptyCap DEF Crash, LoseMemory, BucketCap, NoBuckets
  <2>7. CASE CrashInSave
    BY <2>7, EmptyCap DEF CrashInSave, LoseMemory, BucketCap, NoBuckets, TornFile
  <2>8. CASE UNCHANGED memVars
    BY <2>8 DEF memVars, BucketCap
  <2>9. CASE OpenFails
    BY <2>8, <2>9 DEF OpenFails
  <2> QED
    BY <2>1, <2>2, <2>4, <2>5, <2>6, <2>7, <2>8, <2>9 DEF Next
<1> QED
  BY <1>1, <1>2, TypeInvariance, PTL DEF Spec

-----------------------------------------------------------------------------
(* The clock. *)

StampsUpTo(B, t) == \A k \in DOMAIN B : B[k].last_used <= t

\* A save copies map and clock together.
LEMMA SaveStamps ==
  ASSUME NEW B, NEW d, Save(B, d), StampsUpTo(B, tick),
         StampsUpTo(disk.buckets, disk.tick)
  PROVE  StampsUpTo(disk'.buckets, disk'.tick)
BY DEF Save, SavedFile, TornFile, NoBuckets, StampsUpTo

\* Recency survives a restart: no stamp, in memory or in the file, is ahead of
\* the clock saved with it.
THEOREM ClockInvariance == Spec => []ClockCoversStamps
<1>1. Init => ClockCoversStamps
  BY DEF Init, ClockCoversStamps, AbsentFile, NoBuckets
<1>2. TypeOK /\ ClockCoversStamps /\ [Next]_memVars => ClockCoversStamps'
  <2> SUFFICES ASSUME TypeOK, ClockCoversStamps, [Next]_memVars
               PROVE  ClockCoversStamps'
    OBVIOUS
  <2>0. StampsUpTo(buckets, tick) /\ StampsUpTo(disk.buckets, disk.tick)
    BY DEF ClockCoversStamps, StampsUpTo
  <2> SUFFICES StampsUpTo(buckets', tick') /\ StampsUpTo(disk'.buckets, disk'.tick)
    BY DEF ClockCoversStamps, StampsUpTo
  <2>1. ASSUME NEW list \in ActionLists, Open(list)
        PROVE  StampsUpTo(buckets', tick') /\ StampsUpTo(disk'.buckets, disk'.tick)
    BY <2>0, <2>1 DEF Open, Clock
  <2>2. ASSUME NEW fp \in Fingerprints, NEW prior, NEW governor,
               Select(fp, prior, governor)
        PROVE  StampsUpTo(buckets', tick') /\ StampsUpTo(disk'.buckets, disk'.tick)
    <3>1. PICK evicted \in Evictions(fp) :
            /\ DOMAIN buckets' = (DOMAIN buckets \ evicted) \cup {fp}
            /\ buckets'[fp].last_used = tick + 1
            /\ \A k \in (DOMAIN buckets \ evicted) \ {fp} : buckets'[k] = buckets[k]
      BY <2>2, SelectFields
    <3>2. \A k \in DOMAIN buckets : buckets[k].last_used \in Nat
      BY DEF TypeOK, IsBuckets, IsBucket
    <3>3. tick' = tick + 1 /\ disk' = disk /\ tick \in Nat
      BY <2>2 DEF Select, TypeOK
    <3>4. StampsUpTo(buckets', tick')
      BY <2>0, <3>1, <3>2, <3>3 DEF StampsUpTo
    <3> QED
      BY <2>0, <3>3, <3>4
  <2>3. ASSUME NEW fp \in Fingerprints, NEW governor, NEW reward,
               Update(fp, governor, reward)
        PROVE  StampsUpTo(buckets', tick') /\ StampsUpTo(disk'.buckets, disk'.tick)
    <3>1. PICK evicted \in Evictions(fp) :
            /\ DOMAIN buckets' = (DOMAIN buckets \ evicted) \cup {fp}
            /\ buckets'[fp].last_used = tick
            /\ \A k \in (DOMAIN buckets \ evicted) \ {fp} : buckets'[k] = buckets[k]
      BY <2>3, UpdateFields
    <3>2. tick' = tick /\ tick \in Nat
      BY <2>3 DEF Update, TypeOK
    <3>3. StampsUpTo(buckets', tick)
      BY <2>0, <3>1, <3>2 DEF StampsUpTo
    <3>4. StampsUpTo(disk'.buckets, disk'.tick)
      BY <2>0, <2>3, <3>3, SaveStamps DEF Update
    <3> QED
      BY <3>2, <3>3, <3>4
  <2>4. CASE SaveNow
    BY <2>0, <2>4, SaveStamps DEF SaveNow
  <2>5. CASE Crash
    BY <2>0, <2>5 DEF Crash, LoseMemory, NoBuckets, StampsUpTo
  <2>6. CASE CrashInSave
    BY <2>6 DEF CrashInSave, LoseMemory, NoBuckets, TornFile, StampsUpTo
  <2>7. CASE UNCHANGED memVars
    BY <2>0, <2>7 DEF memVars
  <2>8. CASE OpenFails
    BY <2>7, <2>8 DEF OpenFails
  <2> QED
    BY <2>1, <2>2, <2>3, <2>4, <2>5, <2>6, <2>7, <2>8 DEF Next
<1> QED
  BY <1>1, <1>2, TypeInvariance, PTL DEF Spec

-----------------------------------------------------------------------------
(* What a crash loses. *)

\* The visits of k in the buckets of a file f.
VisitsOf(f, k) == IF k \in DOMAIN f.buckets THEN f.buckets[k].total_visits ELSE 0

\* No bucket of B is more than d credits ahead of the file f.
AheadBy(B, f, d) ==
  f.state # "torn" => \A k \in DOMAIN B : B[k].total_visits <= VisitsOf(f, k) + d

\* A save that succeeds leaves nothing ahead, one that fails leaves the counter
\* or a torn file.
LEMMA SaveAhead ==
  ASSUME NEW B, IsBuckets(B), NEW d, Save(B, d), AheadBy(B, disk, d)
  PROVE  AheadBy(B, disk', dirty_since_save')
<1>1. \A k \in DOMAIN B : B[k].total_visits \in Nat
  BY DEF IsBuckets, IsBucket
<1>2. CASE disk' = SavedFile(tick, B) /\ dirty_since_save' = 0
  BY <1>1, <1>2 DEF SavedFile, AheadBy, VisitsOf
<1>3. CASE disk' = disk /\ dirty_since_save' = d
  BY <1>3
<1>4. CASE disk' = TornFile
  BY <1>4 DEF TornFile, AheadBy
<1> QED
  BY <1>2, <1>3, <1>4 DEF Save

LEMMA FileVisitsType == TypeOK => \A k : VisitsOf(disk, k) \in Nat
BY DEF TypeOK, IsFile, IsBuckets, IsBucket, VisitsOf

\* What a crash can cost any bucket is what dirty_since_save counts: every
\* credit counts, a failed save does not reset the counter, and an eviction
\* only lowers what is in memory.
THEOREM LossInvariance == Spec => []DirtyBoundsLoss
<1> DEFINE Ahead == AheadBy(buckets, disk, dirty_since_save)
<1>0. DirtyBoundsLoss <=> Ahead
  BY DEF DirtyBoundsLoss, FileVisits, AheadBy, VisitsOf
<1>1. Init => Ahead
  BY DEF Init, NoBuckets, AheadBy
<1>2. TypeOK /\ TypeOK' /\ Ahead /\ [Next]_memVars => Ahead'
  <2> SUFFICES ASSUME TypeOK, TypeOK', Ahead, [Next]_memVars PROVE Ahead'
    OBVIOUS
  <2>0. /\ \A k \in DOMAIN buckets : buckets[k].total_visits \in 0 .. MaxVisits
        /\ dirty_since_save \in Nat
        /\ IsBuckets(buckets')
    BY DEF TypeOK, IsBuckets, IsBucket
  <2>1. ASSUME NEW list \in ActionLists, Open(list) PROVE Ahead'
    <3>1. \A k \in DOMAIN disk.buckets : disk.buckets[k].total_visits \in Nat
      BY DEF TypeOK, IsFile, IsBuckets, IsBucket
    <3> QED
      BY <2>1, <3>1 DEF Open, AheadBy, VisitsOf
  <2>2. ASSUME NEW fp \in Fingerprints, NEW prior, NEW governor,
               Select(fp, prior, governor)
        PROVE  Ahead'
    <3>1. PICK evicted \in Evictions(fp) :
            /\ DOMAIN buckets' = (DOMAIN buckets \ evicted) \cup {fp}
            /\ fp \in DOMAIN buckets =>
                 buckets'[fp].total_visits = buckets[fp].total_visits
            /\ fp \notin DOMAIN buckets => buckets'[fp].total_visits = 0
            /\ \A k \in (DOMAIN buckets \ evicted) \ {fp} : buckets'[k] = buckets[k]
      BY <2>2, SelectFields
    <3>2. disk' = disk /\ dirty_since_save' = dirty_since_save
      BY <2>2 DEF Select
    <3>3. ASSUME disk.state # "torn", NEW k \in DOMAIN buckets'
          PROVE  buckets'[k].total_visits <= VisitsOf(disk, k) + dirty_since_save
      <4>1. VisitsOf(disk, k) \in Nat
        BY FileVisitsType
      <4>2. CASE k \in DOMAIN buckets
        <5>1. buckets[k].total_visits <= VisitsOf(disk, k) + dirty_since_save
          BY <3>3, <4>2 DEF AheadBy
        <5> QED
          BY <3>1, <3>3, <4>2, <5>1
      <4>3. CASE k \notin DOMAIN buckets
        BY <2>0, <3>1, <3>3, <4>1, <4>3
      <4> QED
        BY <4>2, <4>3
    <3> QED
      BY <3>2, <3>3 DEF AheadBy
  <2>3. ASSUME NEW fp \in Fingerprints, NEW governor, NEW reward,
               Update(fp, governor, reward)
        PROVE  Ahead'
    <3>1. PICK evicted \in Evictions(fp) :
            /\ DOMAIN buckets' = (DOMAIN buckets \ evicted) \cup {fp}
            /\ fp \in DOMAIN buckets =>
                 buckets'[fp].total_visits = SaturatingInc(buckets[fp].total_visits)
            /\ fp \notin DOMAIN buckets =>
                 buckets'[fp].total_visits = SaturatingInc(0)
            /\ \A k \in (DOMAIN buckets \ evicted) \ {fp} : buckets'[k] = buckets[k]
      BY <2>3, UpdateFields
    <3>2. ASSUME disk.state # "torn", NEW k \in DOMAIN buckets'
          PROVE  buckets'[k].total_visits <=
                   VisitsOf(disk, k) + (dirty_since_save + 1)
      <4>1. VisitsOf(disk, k) \in Nat
        BY FileVisitsType
      <4>2. \A n \in Nat : SaturatingInc(n) \in Nat /\ SaturatingInc(n) <= n + 1
        BY MemoryAssumption DEF SaturatingInc
      <4>3. CASE k \in DOMAIN buckets
        <5>1. buckets[k].total_visits <= VisitsOf(disk, k) + dirty_since_save
          BY <3>2, <4>3 DEF AheadBy
        <5>2. CASE k = fp
          BY <2>0, <3>1, <4>1, <4>2, <4>3, <5>1, <5>2
        <5>3. CASE k # fp
          BY <2>0, <3>1, <3>2, <4>1, <4>3, <5>1, <5>3
        <5> QED
          BY <5>2, <5>3
      <4>4. CASE k \notin DOMAIN buckets
        <5>1. k = fp
          BY <3>1, <3>2, <4>4
        <5> QED
          BY <2>0, <3>1, <4>1, <4>2, <4>4, <5>1
      <4> QED
        BY <4>3, <4>4
    <3>3. AheadBy(buckets', disk, dirty_since_save + 1)
      BY <3>2 DEF AheadBy
    <3>4. CASE Save(buckets', dirty_since_save + 1)
      BY <2>0, <3>3, <3>4, SaveAhead
    <3>5. CASE dirty_since_save' = dirty_since_save + 1 /\ UNCHANGED disk
      BY <3>3, <3>5
    <3> QED
      BY <2>3, <3>4, <3>5 DEF Update
  <2>4. CASE SaveNow
    <3>1. buckets' = buckets /\ Save(buckets, dirty_since_save)
      BY <2>4 DEF SaveNow
    <3> QED
      BY <2>0, <3>1, SaveAhead
  <2>5. CASE Crash \/ CrashInSave
    BY <2>5 DEF Crash, CrashInSave, LoseMemory, NoBuckets, AheadBy
  <2>6. CASE UNCHANGED memVars
    BY <2>6 DEF memVars
  <2>7. CASE OpenFails
    BY <2>6, <2>7 DEF OpenFails
  <2> QED
    BY <2>1, <2>2, <2>3, <2>4, <2>5, <2>6, <2>7 DEF Next
<1>3. Spec => []Ahead
  BY <1>1, <1>2, TypeInvariance, PTL DEF Spec
<1> QED
  BY <1>0, <1>3, PTL

-----------------------------------------------------------------------------
(* The counts of a bucket. *)

LEMMA MaxVisitsType == MaxVisits \in Nat /\ MaxVisits >= 1
BY MemoryAssumption

LEMMA IntervalSize ==
  ASSUME NEW n \in Nat
  PROVE  IsFiniteSet(1 .. n) /\ Cardinality(1 .. n) = n
<1>1. /\ IsFiniteSet(1 .. n)
      /\ Cardinality(1 .. n) = IF 1 > n THEN 0 ELSE n - 1 + 1
  BY FS_Interval
<1> QED
  BY <1>1

\* A governor's share of a set of visits.
LEMMA ColumnSize ==
  ASSUME NEW g, NEW n \in Nat
  PROVE  IsFiniteSet({g} \X (1 .. n)) /\ Cardinality({g} \X (1 .. n)) = n
<1>1. IsFiniteSet({g}) /\ Cardinality({g}) = 1
  BY FS_Singleton
<1>2. /\ IsFiniteSet({g} \X (1 .. n))
      /\ Cardinality({g} \X (1 .. n)) = 1 * n
  BY <1>1, IntervalSize, FS_Product
<1> QED
  BY <1>2

\* A bucket counts finitely many visits.
LEMMA VisitsFinite ==
  ASSUME NEW b
  PROVE  IsFiniteSet(Visits(b)) /\ Cardinality(Visits(b)) \in Nat
<1> DEFINE all == Governors \X (1 .. MaxVisits)
<1>1. IsFiniteSet(1 .. MaxVisits)
  BY FS_Interval, MemoryAssumption
<1>2. IsFiniteSet(all)
  BY <1>1, FS_Product, MemoryAssumption
<1>3. Visits(b) \in SUBSET all
  BY DEF Visits
<1> HIDE DEF all
<1> QED
  BY <1>2, <1>3, FS_Subset, FS_CardinalityType

\* What a credit counts: one visit more, of its governor, unless that
\* governor's count is saturated.
LEMMA CreditedVisits ==
  ASSUME NEW b, IsBucket(b), NEW g \in Governors, NEW reward,
         NEW v, v = StatsOf(b, g).visits
  PROVE  /\ v \in 0 .. MaxVisits
         /\ Visits(Credited(b, g, reward)) =
              Visits(b) \cup (IF v < MaxVisits THEN {<<g, v + 1>>} ELSE {})
         /\ <<g, v + 1>> \notin Visits(b)
<1> DEFINE c == Credited(b, g, reward)
<1>0. v \in Nat /\ v <= MaxVisits /\ MaxVisits \in Nat
  BY StatsType, MaxVisitsType DEF ActionStats
<1>1. v \in 0 .. MaxVisits
  BY <1>0
<1>2. /\ DOMAIN c.actions = DOMAIN b.actions \cup {g}
      /\ c.actions[g].visits = SaturatingInc(v)
      /\ \A h \in DOMAIN b.actions \ {g} : c.actions[h] = b.actions[h]
  BY DEF Credited
<1>3. /\ g \in DOMAIN b.actions => b.actions[g].visits = v
      /\ g \notin DOMAIN b.actions => v = 0
  BY DEF StatsOf, DefaultStats
<1>4. SaturatingInc(v) = IF v < MaxVisits THEN v + 1 ELSE v
  BY DEF SaturatingInc
<1> HIDE DEF c
<1>5. ASSUME NEW p \in Governors \X (1 .. MaxVisits)
      PROVE  p \in Visits(c) <=>
               p \in Visits(b) \/ (v < MaxVisits /\ p = <<g, v + 1>>)
  <2>1. PICK h \in Governors, i \in 1 .. MaxVisits : p = <<h, i>>
    BY <1>5
  <2>2. p[1] = h /\ p[2] = i
    BY <2>1
  <2>3. CASE h # g
    BY <1>2, <2>1, <2>2, <2>3 DEF Visits
  <2>4. CASE h = g
    <3>1. p \in Visits(c) <=> i <= SaturatingInc(v)
      BY <1>2, <2>1, <2>2, <2>4 DEF Visits
    <3>2. p \in Visits(b) <=> g \in DOMAIN b.actions /\ i <= v
      BY <1>3, <2>1, <2>2, <2>4 DEF Visits
    <3>3. p \in Visits(b) <=> i <= v
      BY <1>3, <3>2
    <3>4. p = <<g, v + 1>> <=> i = v + 1
      BY <2>1, <2>4
    <3> QED
      BY <1>0, <1>4, <3>1, <3>3, <3>4
  <2> QED
    BY <2>3, <2>4
<1>6. v < MaxVisits => <<g, v + 1>> \in Governors \X (1 .. MaxVisits)
  BY <1>0
<1>7. <<g, v + 1>> \notin Visits(b)
  <2>1. CASE g \in DOMAIN b.actions
    <3>1. b.actions[g].visits = v
      BY <1>3, <2>1
    <3>2. ~ (v + 1 <= v)
      BY <1>0
    <3> QED
      BY <3>1, <3>2 DEF Visits
  <2>2. CASE g \notin DOMAIN b.actions
    BY <2>2 DEF Visits
  <2> QED
    BY <2>1, <2>2
<1>8. Visits(c) \subseteq Governors \X (1 .. MaxVisits)
      /\ Visits(b) \subseteq Governors \X (1 .. MaxVisits)
  BY DEF Visits
<1>9. Visits(c) = Visits(b) \cup (IF v < MaxVisits THEN {<<g, v + 1>>} ELSE {})
  BY <1>5, <1>6, <1>8
<1> QED
  BY <1>1, <1>7, <1>9 DEF c

\* The visits of one governor are part of those of the bucket.
LEMMA OwnVisits ==
  ASSUME NEW b, IsBucket(b), NEW g \in DOMAIN b.actions
  PROVE  b.actions[g].visits <= Cardinality(Visits(b))
<1> DEFINE v == b.actions[g].visits
           own == {g} \X (1 .. v)
<1>1. v \in 0 .. MaxVisits /\ g \in Governors
  BY DEF IsBucket, IsMap, ActionStats
<1> HIDE DEF v
<1>0. v \in Nat /\ v <= MaxVisits /\ MaxVisits \in Nat
  BY <1>1, MaxVisitsType
<1>2. IsFiniteSet(own) /\ Cardinality(own) = v
  BY <1>0, ColumnSize
<1>3. own \in SUBSET Visits(b)
  <2>1. ASSUME NEW p \in own PROVE p \in Visits(b)
    <3>1. p \in {g} \X (1 .. v)
      BY <2>1
    <3>2. p \in Governors \X (1 .. MaxVisits) /\ p[1] = g /\ p[2] <= v
      BY <1>0, <1>1, <3>1
    <3> QED
      BY <3>2 DEF Visits, v
  <2> QED
    BY <2>1
<1> HIDE DEF own
<1>4. v <= Cardinality(Visits(b))
  BY <1>2, <1>3, VisitsFinite, FS_Subset
<1> QED
  BY <1>4 DEF v

\* A credit keeps the counts of its bucket in agreement.
LEMMA CreditedCounts ==
  ASSUME NEW b, IsBucket(b), CountsAddUp(b), NEW g \in Governors, NEW reward
  PROVE  CountsAddUp(Credited(b, g, reward))
<1> DEFINE v == StatsOf(b, g).visits
           c == Credited(b, g, reward)
           n == Cardinality(Visits(b))
<1>1. /\ v \in 0 .. MaxVisits
      /\ Visits(c) = Visits(b) \cup (IF v < MaxVisits THEN {<<g, v + 1>>} ELSE {})
      /\ <<g, v + 1>> \notin Visits(b)
  BY CreditedVisits
<1>2. n \in Nat /\ IsFiniteSet(Visits(b))
  BY VisitsFinite
<1>3. b.total_visits = IF n < MaxVisits THEN n ELSE MaxVisits
  BY DEF CountsAddUp
<1>4. c.total_visits = IF b.total_visits < MaxVisits THEN b.total_visits + 1
                       ELSE b.total_visits
  BY CreditedFields DEF SaturatingInc
<1>5. v = MaxVisits => n >= MaxVisits
  <2>1. g \notin DOMAIN b.actions => v = 0
    BY DEF StatsOf, DefaultStats
  <2>2. g \in DOMAIN b.actions => v <= n
    BY OwnVisits DEF StatsOf
  <2> QED
    BY <1>1, <2>1, <2>2, MemoryAssumption
<1> HIDE DEF c, v
<1>6. CASE v < MaxVisits
  <2>1. Cardinality(Visits(c)) = n + 1
    BY <1>1, <1>2, <1>6, FS_AddElement
  <2> HIDE DEF n
  <2> QED
    BY <1>2, <1>3, <1>4, <2>1, MemoryAssumption DEF CountsAddUp, c
<1>7. CASE ~ (v < MaxVisits)
  <2>1. Visits(c) = Visits(b)
    BY <1>1, <1>7
  <2>2. n >= MaxVisits
    BY <1>1, <1>5, <1>7, MemoryAssumption
  <2>3. c.total_visits = MaxVisits
    BY <1>2, <1>3, <1>4, <2>2, MemoryAssumption
  <2> QED
    BY <1>2, <2>1, <2>2, <2>3, MemoryAssumption DEF CountsAddUp, c
<1> QED
  BY <1>6, <1>7 DEF c

\* Buckets that count the same.
SameCounts(b, c) == b.total_visits = c.total_visits /\ b.actions = c.actions

LEMMA SameCountsAddUp ==
  ASSUME NEW b, NEW c, SameCounts(b, c), CountsAddUp(c)
  PROVE  CountsAddUp(b)
<1>1. Visits(b) = Visits(c)
  BY DEF SameCounts, Visits
<1> QED
  BY <1>1 DEF SameCounts, CountsAddUp

\* A new bucket counts nothing.
LEMMA NewBucketCounts == \A t : CountsAddUp(NewBucket(t))
<1> TAKE t
<1>1. NewBucket(t).total_visits = 0 /\ DOMAIN NewBucket(t).actions = {}
  BY DEF NewBucket, NoBuckets
<1>2. Visits(NewBucket(t)) = {}
  BY <1>1 DEF Visits
<1> QED
  BY <1>1, <1>2, FS_EmptySet, MemoryAssumption DEF CountsAddUp

\* Touching a bucket leaves its counts alone, or makes a new one.
LEMMA TouchedSame ==
  ASSUME IsBuckets(buckets), NEW fp \in Fingerprints, NEW evicted,
         NEW t \in 0 .. MaxTick
  PROVE  LET b == Touched(fp, evicted, t)[fp]
         IN  \/ fp \in DOMAIN buckets /\ SameCounts(b, buckets[fp])
             \/ fp \notin DOMAIN buckets /\ SameCounts(b, NewBucket(t))
<1>1. CASE fp \in DOMAIN buckets
  <2>1. IsBucket(buckets[fp])
    BY <1>1 DEF IsBuckets
  <2>2. Touched(fp, evicted, t)[fp] = [buckets[fp] EXCEPT !.last_used = t]
    BY <1>1 DEF Touched
  <2>3. [buckets[fp] EXCEPT !.last_used = t] =
          [total_visits |-> buckets[fp].total_visits, last_used |-> t,
           actions |-> buckets[fp].actions]
    BY <2>1 DEF IsBucket
  <2> QED
    BY <1>1, <2>2, <2>3 DEF SameCounts
<1>2. CASE fp \notin DOMAIN buckets
  BY <1>2 DEF Touched, SameCounts
<1> QED
  BY <1>1, <1>2

\* What select() leaves of the counts of a bucket.
LEMMA SelectCounts ==
  ASSUME TypeOK, NEW fp \in Fingerprints, NEW prior, NEW governor,
         Select(fp, prior, governor)
  PROVE  /\ \A k \in DOMAIN buckets' \ {fp} :
              k \in DOMAIN buckets /\ buckets'[k] = buckets[k]
         /\ \/ fp \in DOMAIN buckets /\ SameCounts(buckets'[fp], buckets[fp])
            \/ SameCounts(buckets'[fp], NewBucket(tick + 1))
<1>1. IsBuckets(buckets) /\ tick + 1 \in 0 .. MaxTick
  BY MemoryAssumption DEF TypeOK, Select
<1>2. PICK evicted : buckets' = Touched(fp, evicted, tick + 1)
  BY DEF Select
<1> DEFINE touched == Touched(fp, evicted, tick + 1)
<1>3. DOMAIN touched = (DOMAIN buckets \ evicted) \cup {fp}
  BY DEF Touched
<1>4. \A k \in (DOMAIN buckets \ evicted) \ {fp} : touched[k] = buckets[k]
  BY <1>1, TouchedFields
<1>5. \/ fp \in DOMAIN buckets /\ SameCounts(touched[fp], buckets[fp])
      \/ SameCounts(touched[fp], NewBucket(tick + 1))
  BY <1>1, TouchedSame
<1>6. buckets' = touched
  BY <1>2
<1> HIDE DEF touched
<1> QED
  BY <1>3, <1>4, <1>5, <1>6

\* What update() does to them.
LEMMA UpdateCounts ==
  ASSUME TypeOK, NEW fp \in Fingerprints, NEW governor, NEW reward,
         Update(fp, governor, reward)
  PROVE  /\ \A k \in DOMAIN buckets' \ {fp} :
              k \in DOMAIN buckets /\ buckets'[k] = buckets[k]
         /\ \E b : /\ IsBucket(b)
                   /\ buckets'[fp] = Credited(b, governor, reward)
                   /\ \/ fp \in DOMAIN buckets /\ SameCounts(b, buckets[fp])
                      \/ fp \notin DOMAIN buckets /\ SameCounts(b, NewBucket(tick))
<1>1. IsBuckets(buckets) /\ tick \in 0 .. MaxTick
  BY DEF TypeOK
<1>2. PICK evicted :
        LET touched == Touched(fp, evicted, tick)
        IN  buckets' = [touched EXCEPT
                          ![fp] = Credited(touched[fp], governor, reward)]
  BY DEF Update
<1> DEFINE touched == Touched(fp, evicted, tick)
<1>3. DOMAIN touched = (DOMAIN buckets \ evicted) \cup {fp}
  BY TouchedDomain
<1>4. /\ IsBucket(touched[fp])
      /\ \A k \in (DOMAIN buckets \ evicted) \ {fp} : touched[k] = buckets[k]
  BY <1>1, TouchedFields
<1>5. \/ fp \in DOMAIN buckets /\ SameCounts(touched[fp], buckets[fp])
      \/ fp \notin DOMAIN buckets /\ SameCounts(touched[fp], NewBucket(tick))
  BY <1>1, TouchedSame
<1> HIDE DEF touched
<1>6. /\ DOMAIN buckets' = DOMAIN touched
      /\ buckets'[fp] = Credited(touched[fp], governor, reward)
      /\ \A k \in DOMAIN touched \ {fp} : buckets'[k] = touched[k]
  BY <1>2, <1>3 DEF touched
<1> QED
  BY <1>3, <1>4, <1>5, <1>6

LEMMA SavedBuckets ==
  ASSUME NEW B, NEW d, Save(B, d)
  PROVE  disk'.buckets = B \/ disk' = disk \/ DOMAIN disk'.buckets = {}
BY DEF Save, SavedFile, TornFile, NoBuckets

\* The counts of every bucket add up, in memory and in the file, over all calls,
\* evictions, failed saves, crashes and restarts under other lists of governors.
THEOREM VisitsInvariance == Spec => []VisitsAddUp
<1>1. Init => VisitsAddUp
  BY DEF Init, VisitsAddUp, AbsentFile, NoBuckets
<1>2. TypeOK /\ VisitsAddUp /\ [Next]_memVars => VisitsAddUp'
  <2> SUFFICES ASSUME TypeOK, VisitsAddUp, [Next]_memVars PROVE VisitsAddUp'
    OBVIOUS
  <2>0. /\ \A k \in DOMAIN buckets : CountsAddUp(buckets[k])
        /\ \A k \in DOMAIN disk.buckets : CountsAddUp(disk.buckets[k])
    BY DEF VisitsAddUp
  <2>1. ASSUME NEW list \in ActionLists, Open(list) PROVE VisitsAddUp'
    BY <2>0, <2>1 DEF Open, VisitsAddUp, CountsAddUp, Visits
  <2>2. CASE UNCHANGED memVars
    BY <2>0, <2>2 DEF memVars, VisitsAddUp, CountsAddUp, Visits
  <2>3. ASSUME NEW fp \in Fingerprints, NEW prior \in Governors,
               NEW governor \in Governors, Select(fp, prior, governor)
        PROVE  VisitsAddUp'
    <3>1. \A k \in DOMAIN buckets' : CountsAddUp(buckets'[k])
      BY <2>0, <2>3, SelectCounts, SameCountsAddUp, NewBucketCounts
    <3>2. disk' = disk
      BY <2>3 DEF Select
    <3> QED
      BY <2>0, <3>1, <3>2 DEF VisitsAddUp
  <2>4. ASSUME NEW fp \in Fingerprints, NEW governor \in Governors,
               NEW reward \in Rewards, Update(fp, governor, reward)
        PROVE  VisitsAddUp'
    <3>1. PICK b : /\ IsBucket(b)
                   /\ buckets'[fp] = Credited(b, governor, reward)
                   /\ \/ fp \in DOMAIN buckets /\ SameCounts(b, buckets[fp])
                      \/ SameCounts(b, NewBucket(tick))
      BY <2>4, UpdateCounts
    <3>2. CountsAddUp(b)
      BY <2>0, <3>1, SameCountsAddUp, NewBucketCounts
    <3>3. CountsAddUp(buckets'[fp])
      BY <3>1, <3>2, CreditedCounts
    <3>4. \A k \in DOMAIN buckets' : CountsAddUp(buckets'[k])
      BY <2>0, <2>4, <3>3, UpdateCounts
    <3>5. \/ disk'.buckets = buckets' \/ disk' = disk \/ DOMAIN disk'.buckets = {}
      BY <2>4, SavedBuckets DEF Update
    <3> QED
      BY <2>0, <3>4, <3>5 DEF VisitsAddUp
  <2>5. CASE SaveNow
    <3>1. buckets' = buckets
      BY <2>5 DEF SaveNow
    <3>2. disk'.buckets = buckets \/ disk' = disk \/ DOMAIN disk'.buckets = {}
      BY <2>5, SavedBuckets DEF SaveNow
    <3> QED
      BY <2>0, <3>1, <3>2 DEF VisitsAddUp
  <2>6. CASE Crash \/ CrashInSave
    <3>1. DOMAIN buckets' = {} /\ (disk' = disk \/ DOMAIN disk'.buckets = {})
      BY <2>6 DEF Crash, CrashInSave, LoseMemory, NoBuckets, TornFile
    <3> QED
      BY <2>0, <3>1 DEF VisitsAddUp
  <2> QED
    BY <2>1, <2>2, <2>3, <2>4, <2>5, <2>6 DEF Next, OpenFails
<1> QED
  BY <1>1, <1>2, TypeInvariance, PTL DEF Spec

-----------------------------------------------------------------------------
(* EpisodeMemory implements BoundedStore. *)

\* Making room removes nothing, or one key when the map is at its cap: the loop
\* of evict_if_needed never runs twice.
LEMMA EvictsOneAtTheCap ==
  ASSUME TypeOK, BucketCap, NEW fp, NEW evicted \in Evictions(fp),
         fp \notin DOMAIN buckets
  PROVE  \/ evicted = {} /\ Cardinality(DOMAIN buckets) < MaxBuckets
         \/ /\ Cardinality(DOMAIN buckets) = MaxBuckets
            /\ \E victim \in DOMAIN buckets : evicted = {victim}
<1> DEFINE resident == DOMAIN buckets
           kept == resident \ evicted
<1>1. /\ evicted \subseteq resident
      /\ Cardinality(kept) < MaxBuckets
      /\ evicted # {} => Cardinality(kept) = MaxBuckets - 1
  BY DEF Evictions, IsEviction
<1>2. IsFiniteSet(resident)
  <2>1. resident \subseteq Fingerprints
    BY DEF TypeOK, IsBuckets
  <2> QED
    BY <2>1, FS_Subset, MemoryAssumption
<1>3. Cardinality(resident) <= MaxBuckets /\ Cardinality(resident) \in Nat
  BY <1>2, FS_CardinalityType DEF BucketCap
<1>4. CASE evicted = {}
  <2>1. kept = resident
    BY <1>4
  <2> QED
    BY <1>1, <1>4, <2>1
<1>5. CASE evicted # {}
  <2>1. PICK victim \in evicted : TRUE
    BY <1>5
  <2> DEFINE others == resident \ {victim}
  <2>2. victim \in resident /\ kept \subseteq others
    BY <1>1, <2>1
  <2>3. IsFiniteSet(others) /\ Cardinality(others) = Cardinality(resident) - 1
    BY <1>2, <2>2, FS_RemoveElement
  <2>4. Cardinality(kept) <= Cardinality(others)
        /\ (Cardinality(others) = Cardinality(kept) => others = kept)
    BY <2>2, <2>3, FS_Subset
  <2>5. Cardinality(kept) = MaxBuckets - 1
    BY <1>1, <1>5
  <2>6. Cardinality(resident) = MaxBuckets /\ Cardinality(others) = Cardinality(kept)
    <3> HIDE DEF kept, others, resident
    <3> QED
      BY <1>3, <2>3, <2>4, <2>5, MemoryAssumption
  <2>7. others = kept
    BY <2>4, <2>6
  <2>8. evicted = {victim}
    BY <1>1, <2>1, <2>7
  <2> QED
    BY <2>2, <2>6, <2>8
<1> QED
  BY <1>4, <1>5

\* The change of the keys in Store!Touch.
TouchesKeys(fp) ==
  \/ /\ fp \in DOMAIN buckets \/ Cardinality(DOMAIN buckets) < MaxBuckets
     /\ DOMAIN buckets' = DOMAIN buckets \cup {fp}
  \/ /\ fp \notin DOMAIN buckets
     /\ Cardinality(DOMAIN buckets) = MaxBuckets
     /\ \E victim \in DOMAIN buckets :
          DOMAIN buckets' = (DOMAIN buckets \ {victim}) \cup {fp}

\* A change of the keys by select() or update() is one of Store!Touch.
LEMMA TouchMaps ==
  ASSUME TypeOK, BucketCap, NEW fp, NEW evicted \in Evictions(fp),
         DOMAIN buckets' = (DOMAIN buckets \ evicted) \cup {fp}
  PROVE  TouchesKeys(fp)
<1>1. CASE fp \in DOMAIN buckets
  <2>1. DOMAIN buckets' = DOMAIN buckets \cup {fp}
    BY <1>1, EvictionsType
  <2> QED
    BY <1>1, <2>1 DEF TouchesKeys
<1>2. CASE fp \notin DOMAIN buckets
  <2>1. CASE evicted = {} /\ Cardinality(DOMAIN buckets) < MaxBuckets
    <3>1. DOMAIN buckets' = DOMAIN buckets \cup {fp}
      BY <2>1
    <3> QED
      BY <2>1, <3>1 DEF TouchesKeys
  <2>2. CASE /\ Cardinality(DOMAIN buckets) = MaxBuckets
             /\ \E victim \in DOMAIN buckets : evicted = {victim}
    BY <1>2, <2>2 DEF TouchesKeys
  <2> QED
    BY <1>2, <2>1, <2>2, EvictsOneAtTheCap
<1> QED
  BY <1>1, <1>2

\* A save() is one of Store!CopyOut.
LEMMA SaveMaps ==
  ASSUME NEW B, NEW d, Save(B, d)
  PROVE  \/ (disk'.state # "torn") = TRUE /\ DOMAIN disk'.buckets = DOMAIN B
         \/ disk' = disk
         \/ (disk'.state # "torn") = FALSE /\ DOMAIN disk'.buckets = {}
BY DEF Save, SavedFile, TornFile, NoBuckets

\* The instance of FiniteSets under Store is the one of this module.
LEMMA SameCardinality ==
  ASSUME NEW S
  PROVE  Store!Cardinality(S) = Cardinality(S)
BY DEF Store!Cardinality, Cardinality

LEMMA InitMaps == Init => Store!Init
BY DEF Init, Store!Init, NoBuckets, AbsentFile

\* Every step is a step of the bounded store, or changes nothing of it.
LEMMA StepMaps ==
  TypeOK /\ BucketCap /\ [Next]_memVars => [Store!Next]_(Store!storeVars)
<1> SUFFICES ASSUME TypeOK, BucketCap, [Next]_memVars
             PROVE  [Store!Next]_(Store!storeVars)
  OBVIOUS
<1>0. Store!Cardinality(DOMAIN buckets) = Cardinality(DOMAIN buckets)
  BY SameCardinality
<1>1. ASSUME NEW list \in ActionLists, Open(list) PROVE Store!Start
  BY <1>1 DEF Open, Store!Start
<1>2. ASSUME NEW fp \in Fingerprints, NEW prior, NEW governor,
             Select(fp, prior, governor)
      PROVE  Store!Touch(fp)
  <2>1. PICK evicted \in Evictions(fp) :
          DOMAIN buckets' = (DOMAIN buckets \ evicted) \cup {fp}
    BY <1>2, SelectFields
  <2>2. running /\ running' = running /\ disk' = disk
    BY <1>2 DEF Select
  <2>3. TouchesKeys(fp)
    BY <2>1, TouchMaps
  <2> QED
    BY <1>0, <2>2, <2>3 DEF TouchesKeys, Store!Touch, Store!CopyOut
<1>3. ASSUME NEW fp \in Fingerprints, NEW governor, NEW reward,
             Update(fp, governor, reward)
      PROVE  Store!Touch(fp)
  <2>1. PICK evicted \in Evictions(fp) :
          DOMAIN buckets' = (DOMAIN buckets \ evicted) \cup {fp}
    BY <1>3, UpdateFields
  <2>2. running /\ running' = running
    BY <1>3 DEF Update
  <2>3. TouchesKeys(fp)
    BY <2>1, TouchMaps
  <2>4. CASE Save(buckets', dirty_since_save + 1)
    BY <1>0, <2>2, <2>3, <2>4, SaveMaps DEF TouchesKeys, Store!Touch, Store!CopyOut
  <2>5. CASE UNCHANGED disk
    BY <1>0, <2>2, <2>3, <2>5 DEF TouchesKeys, Store!Touch, Store!CopyOut
  <2> QED
    BY <1>3, <2>4, <2>5 DEF Update
<1>4. ASSUME SaveNow PROVE Store!Persist
  <2>1. Save(buckets, dirty_since_save) /\ UNCHANGED <<running, buckets>> /\ running
    BY <1>4 DEF SaveNow
  <2> QED
    BY <2>1, SaveMaps DEF Store!Persist, Store!CopyOut
<1>5. ASSUME Crash PROVE Store!Stop
  BY <1>5 DEF Crash, LoseMemory, NoBuckets, Store!Stop, Store!CopyOut
<1>6. ASSUME CrashInSave PROVE Store!Stop
  BY <1>6 DEF CrashInSave, LoseMemory, NoBuckets, TornFile, Store!Stop, Store!CopyOut
<1>7. ASSUME UNCHANGED memVars PROVE UNCHANGED Store!storeVars
  BY <1>7 DEF memVars, Store!storeVars
<1>8. ASSUME OpenFails PROVE UNCHANGED Store!storeVars
  BY <1>7, <1>8 DEF OpenFails
<1>9. Store!Next \/ UNCHANGED Store!storeVars
  <2>1. CASE \E fp \in Fingerprints : Store!Touch(fp)
    BY <2>1 DEF Store!Next
  <2> QED
    BY <1>1, <1>2, <1>3, <1>4, <1>5, <1>6, <1>7, <1>8, <2>1 DEF Next, Store!Next
<1> QED
  BY <1>9

\* The episodic memory implements the bounded store of BoundedStore.tla: a
\* resident fingerprint is lost only one for one to a new one at the cap, or to
\* a stop, and a start brings back exactly the last whole copy.
THEOREM Implementation == Spec => ImplementsStore
<1>1. Spec => Store!Init /\ [][Store!Next]_(Store!storeVars)
  BY InitMaps, StepMaps, TypeInvariance, CapInvariance, PTL DEF Spec
<1> QED
  BY <1>1 DEF ImplementsStore, Store!Spec

-----------------------------------------------------------------------------
(* A selection is always possible: the searches of select() find something. *)

\* Induction over numbers, as the provers can instantiate it: a set of numbers
\* has a least one.
LEMMA LeastNumber ==
  ASSUME NEW S \in SUBSET Nat, S # {}
  PROVE  \E n \in S : \A m \in S : n <= m
<1> DEFINE less == {pair \in Nat \X Nat : pair[1] < pair[2]}
<1>1. IsWellFoundedOn(less, Nat)
  BY NatLessThanWellFounded DEF OpToRel
<1>2. PICK n \in S : \A m \in S : ~ (<<m, n>> \in less)
  <2> HIDE DEF less
  <2> QED
    BY <1>1, WFMin
<1>3. ASSUME NEW m \in S PROVE n <= m
  <2>1. m < n => <<m, n>> \in less
    OBVIOUS
  <2> QED
    BY <1>2, <2>1
<1> QED
  BY <1>3

\* A first maximum of the first n of the scores s.
IsFirstMaxUpTo(s, n, i) ==
  /\ i \in 1 .. n
  /\ \A j \in 1 .. n : s[j] <= s[i] /\ (j < i => s[j] < s[i])

\* A list of scores has exactly one first maximum: by the least n for which the
\* first n have none.
LEMMA FirstMaxExists ==
  ASSUME NEW len \in Nat \ {0}, NEW s \in [1 .. len -> Nat]
  PROVE  \E i : IsFirstMax(s, i)
<1> DEFINE Without == {n \in 1 .. len : ~ \E i : IsFirstMaxUpTo(s, n, i)}
<1>1. Without = {}
  <2> SUFFICES ASSUME Without # {} PROVE FALSE
    OBVIOUS
  <2>0. Without \in SUBSET Nat
    OBVIOUS
  <2>1. PICK n \in Without : \A m \in Without : n <= m
    <3> HIDE DEF Without
    <3> QED
      BY <2>0, LeastNumber
  <2>2. n \in 1 .. len /\ ~ \E i : IsFirstMaxUpTo(s, n, i)
    BY <2>1
  <2>3. n # 1
    <3>1. IsFirstMaxUpTo(s, 1, 1)
      BY DEF IsFirstMaxUpTo
    <3> QED
      BY <2>2, <3>1
  <2>4. n - 1 \in 1 .. len /\ n - 1 \notin Without
    BY <2>1, <2>2, <2>3
  <2>5. PICK i : IsFirstMaxUpTo(s, n - 1, i)
    BY <2>4
  <2>6. CASE s[n] > s[i]
    <3>1. IsFirstMaxUpTo(s, n, n)
      BY <2>2, <2>5, <2>6 DEF IsFirstMaxUpTo
    <3> QED
      BY <2>2, <3>1
  <2>7. CASE ~ (s[n] > s[i])
    <3>1. IsFirstMaxUpTo(s, n, i)
      BY <2>2, <2>5, <2>7 DEF IsFirstMaxUpTo
    <3> QED
      BY <2>2, <3>1
  <2> QED
    BY <2>6, <2>7
<1>2. PICK i : IsFirstMaxUpTo(s, len, i)
  BY <1>1
<1>3. IsFirstMax(s, i)
  BY <1>2 DEF IsFirstMaxUpTo, IsFirstMax
<1> QED
  BY <1>3

LEMMA FirstMaxIsUnique ==
  ASSUME NEW len \in Nat, NEW s \in [1 .. len -> Nat],
         NEW i, NEW j, IsFirstMax(s, i), IsFirstMax(s, j)
  PROVE  i = j
BY DEF IsFirstMax

\* Some bucket comes before no other in the order of min_by.
LEMMA MinimumExists ==
  ASSUME IsBuckets(buckets), DOMAIN buckets # {}
  PROVE  \E v \in DOMAIN buckets :
           \A k \in DOMAIN buckets : ~ Before(buckets[k], buckets[v])
<1>0. \A k \in DOMAIN buckets :
        buckets[k].total_visits \in Nat /\ buckets[k].last_used \in Nat
  BY DEF IsBuckets, IsBucket
<1> DEFINE totals == {buckets[k].total_visits : k \in DOMAIN buckets}
<1>1. PICK t \in totals : \A u \in totals : t <= u
  <2>1. totals \in SUBSET Nat /\ totals # {}
    BY <1>0
  <2> QED
    BY <2>1, LeastNumber
<1> DEFINE least   == {k \in DOMAIN buckets : buckets[k].total_visits = t}
           stamps  == {buckets[k].last_used : k \in least}
<1>2. PICK s \in stamps : \A u \in stamps : s <= u
  <2>1. stamps \in SUBSET Nat /\ stamps # {}
    BY <1>0, <1>1
  <2> QED
    BY <2>1, LeastNumber
<1>3. PICK v \in least : buckets[v].last_used = s
  BY <1>2
<1>4. ASSUME NEW k \in DOMAIN buckets PROVE ~ Before(buckets[k], buckets[v])
  <2>1. t <= buckets[k].total_visits /\ buckets[v].total_visits = t
    BY <1>1, <1>3
  <2>2. buckets[k].total_visits = t => s <= buckets[k].last_used
    BY <1>2
  <2> QED
    BY <1>0, <1>3, <2>1, <2>2 DEF Before
<1> QED
  BY <1>3, <1>4

\* Room can always be made for a fingerprint.
LEMMA EvictionExists ==
  ASSUME TypeOK, BucketCap, NEW fp
  PROVE  Evictions(fp) # {}
<1>0. IsBuckets(buckets) /\ IsFiniteSet(DOMAIN buckets)
      /\ Cardinality(DOMAIN buckets) \in Nat /\ MaxBuckets \in Nat \ {0}
  <2>1. IsFiniteSet(DOMAIN buckets)
    BY FS_Subset, MemoryAssumption DEF TypeOK, IsBuckets
  <2>2. MaxBuckets \in Nat \ {0}
    BY MemoryAssumption
  <2> QED
    BY <2>1, <2>2, FS_CardinalityType DEF TypeOK
<1>1. CASE fp \in DOMAIN buckets
  BY <1>1 DEF Evictions
<1>2. CASE fp \notin DOMAIN buckets /\ Cardinality(DOMAIN buckets) < MaxBuckets
  <2>1. DOMAIN buckets \ {} = DOMAIN buckets
    OBVIOUS
  <2>2. IsEviction({})
    BY <1>2, <2>1 DEF IsEviction
  <2> QED
    BY <1>2, <2>2 DEF Evictions
<1>3. CASE fp \notin DOMAIN buckets /\ Cardinality(DOMAIN buckets) = MaxBuckets
  <2>1. DOMAIN buckets # {}
    BY <1>0, <1>3, FS_EmptySet
  <2>2. PICK v \in DOMAIN buckets :
          \A k \in DOMAIN buckets : ~ Before(buckets[k], buckets[v])
    BY <1>0, <2>1, MinimumExists
  <2>3. Cardinality(DOMAIN buckets \ {v}) = MaxBuckets - 1
    BY <1>0, <1>3, FS_RemoveElement
  <2>4. IsEviction({v})
    BY <1>0, <2>2, <2>3 DEF IsEviction
  <2> QED
    BY <1>3, <2>4 DEF Evictions
<1> QED
  BY <1>0, <1>1, <1>2, <1>3 DEF BucketCap

\* The bonus table has an entry for every count that occurs.
LEMMA BonusType ==
  ASSUME NEW n \in 1 .. MaxVisits, NEW v \in 0 .. MaxVisits
  PROVE  Bonus[n][v] \in Nat /\ Bonus[n][0] \in Nat
<1>1. 0 \in 0 .. MaxVisits
  BY MaxVisitsType
<1>2. Bonus[n] \in [0 .. MaxVisits -> Nat]
  BY MemoryAssumption
<1> QED
  BY <1>1, <1>2

LEMMA StatsFields ==
  ASSUME NEW stats \in ActionStats
  PROVE  stats.visits \in 0 .. MaxVisits /\ stats.ema_reward \in Nat
<1>1. stats.visits \in 0 .. MaxVisits
  BY DEF ActionStats
<1>2. stats.ema_reward \in 0 .. Scale
  BY DEF ActionStats
<1>3. 0 .. Scale \subseteq Nat
  BY DEF Scale
<1> QED
  BY <1>1, <1>2, <1>3

LEMMA ScoreType ==
  ASSUME NEW b, IsBucket(b), NEW g \in Governors, NEW prior
  PROVE  Score(b, g, prior) \in Nat
<1> DEFINE n      == IF b.total_visits = 0 THEN 1 ELSE b.total_visits
           visits == IF g \in DOMAIN b.actions THEN b.actions[g].visits ELSE 0
           ema    == IF g \in DOMAIN b.actions THEN b.actions[g].ema_reward
                     ELSE IF g = prior THEN PreferredScore ELSE UnseenScore
<1>0. g \in DOMAIN b.actions => b.actions[g] \in ActionStats
  BY DEF IsBucket, IsMap
<1>1. g \in DOMAIN b.actions =>
        b.actions[g].visits \in 0 .. MaxVisits /\ b.actions[g].ema_reward \in Nat
  BY <1>0, StatsFields
<1>2. n \in 1 .. MaxVisits
  BY MaxVisitsType DEF IsBucket
<1>3. visits \in 0 .. MaxVisits
  BY <1>1, MaxVisitsType
<1>4. ema \in Nat
  BY <1>1 DEF PreferredScore, UnseenScore
<1>5. Score(b, g, prior) = ema + Bonus[n][visits]
  BY DEF Score
<1> HIDE DEF n, visits, ema
<1>6. Bonus[n][visits] \in Nat
  BY <1>2, <1>3, BonusType
<1> QED
  BY <1>4, <1>5, <1>6

\* In any bucket, exactly one action is the one the loop selects.
LEMMA BestIsUnique ==
  ASSUME actions \in Seq(Governors), NEW b, IsBucket(b), NEW prior
  PROVE  /\ actions # <<>> => \E i \in DOMAIN actions : IsBest(b, i, prior)
         /\ \A i, j \in DOMAIN actions :
              IsBest(b, i, prior) /\ IsBest(b, j, prior) => i = j
<1> DEFINE scores == [j \in DOMAIN actions |-> Score(b, actions[j], prior)]
           len    == Len(actions)
<1>1. /\ DOMAIN actions = 1 .. len
      /\ len \in Nat
      /\ actions # <<>> => len \in Nat \ {0}
      /\ \A j \in 1 .. len : actions[j] \in Governors
  OBVIOUS
<1>2. scores \in [1 .. len -> Nat]
  BY <1>1, ScoreType
<1>3. DOMAIN scores = DOMAIN actions
  OBVIOUS
<1>4. \A i : IsBest(b, i, prior) <=> IsFirstMax(scores, i)
  BY DEF IsBest
<1>5. \A i : IsFirstMax(scores, i) => i \in DOMAIN scores
  BY DEF IsFirstMax
<1> HIDE DEF scores, len
<1> QED
  BY <1>1, <1>2, <1>3, <1>4, <1>5, FirstMaxExists, FirstMaxIsUnique

\* open() never leaves a memory without governors.
LEMMA ActionsInvariance == Spec => [](running => actions # <<>>)
<1>1. Init => (running => actions # <<>>)
  BY DEF Init
<1>2. (running => actions # <<>>) /\ [Next]_memVars => (running => actions # <<>>)'
  <2>1. ASSUME NEW list \in ActionLists, Open(list) PROVE actions' # <<>>
    <3>1. <<"performance", "powersave">> # <<>>
      OBVIOUS
    <3> QED
      BY <2>1, <3>1 DEF Open
  <2>2. ASSUME NEW fp, NEW prior, NEW governor, Select(fp, prior, governor)
        PROVE  UNCHANGED <<running, actions>>
    BY <2>2 DEF Select
  <2>3. ASSUME NEW fp, NEW governor, NEW reward, Update(fp, governor, reward)
        PROVE  UNCHANGED <<running, actions>>
    BY <2>3 DEF Update
  <2>4. CASE Crash \/ CrashInSave
    BY <2>4 DEF Crash, CrashInSave, LoseMemory
  <2>5. CASE OpenFails \/ SaveNow \/ UNCHANGED memVars
    BY <2>5 DEF OpenFails, SaveNow, memVars
  <2> QED
    BY <2>1, <2>2, <2>3, <2>4, <2>5 DEF Next
<1> QED
  BY <1>1, <1>2, PTL DEF Spec

\* select() has a result in every state: there is an action for best_gov to start
\* with, the pass over the actions ends at one of them, and evict_if_needed finds
\* what to remove, so neither the index nor a loop of select() can stop the
\* daemon.
SelectionIsPossible ==
  running /\ tick < MaxTick =>
    \A fp \in Fingerprints, prior \in Governors :
      \E evicted \in Evictions(fp), i \in DOMAIN actions :
        IsBest(Touched(fp, evicted, tick + 1)[fp], i, prior)

\* The searches of select() always find a bucket to evict and a governor to
\* select, in every state of a memory that is open.
THEOREM SelectionTotality == Spec => []SelectionIsPossible
<1>1. ASSUME TypeOK, BucketCap, running => actions # <<>>
      PROVE  SelectionIsPossible
  <2> SUFFICES ASSUME running, tick < MaxTick,
                      NEW fp \in Fingerprints, NEW prior \in Governors
               PROVE  \E evicted \in Evictions(fp), i \in DOMAIN actions :
                        IsBest(Touched(fp, evicted, tick + 1)[fp], i, prior)
    BY DEF SelectionIsPossible
  <2>1. PICK evicted \in Evictions(fp) : TRUE
    BY <1>1, EvictionExists
  <2>2. IsBuckets(buckets) /\ tick + 1 \in 0 .. MaxTick
    BY <1>1, MemoryAssumption DEF TypeOK
  <2>3. IsBucket(Touched(fp, evicted, tick + 1)[fp])
    BY <2>2, TouchedFields
  <2>4. actions \in Seq(Governors) /\ actions # <<>>
    BY <1>1 DEF TypeOK
  <2>5. \E i \in DOMAIN actions : IsBest(Touched(fp, evicted, tick + 1)[fp], i, prior)
    BY <2>3, <2>4, BestIsUnique
  <2> QED
    BY <2>1, <2>5
<1> QED
  BY <1>1, TypeInvariance, CapInvariance, ActionsInvariance, PTL

-----------------------------------------------------------------------------
(* Averages are of rewards received. *)

\* The average of a governor of bucket b lies between the rewards it had.
EarnedWithin(b, low, high) ==
  \A g \in DOMAIN b.actions :
    b.actions[g].visits > 0 /\ b.actions[g].ema_reward \in low .. high

\* The neutral 0.5 with which a governor's statistics begin never enters an
\* average: every governor that has statistics was credited, and its average
\* lies between the least and the greatest reward that was ever given, in
\* memory and in the file.  (Credited discards the 0.5 at the first visit, and
\* a count of zero never stays.)
AveragesAreEarned ==
  \A low, high \in Nat : Rewards \subseteq low .. high =>
    /\ \A k \in DOMAIN buckets : EarnedWithin(buckets[k], low, high)
    /\ \A k \in DOMAIN disk.buckets : EarnedWithin(disk.buckets[k], low, high)

\* A moving average stays between what it averages.
LEMMA EmaBetween ==
  ASSUME NEW low \in Nat, NEW high \in Nat,
         NEW old \in low .. high, NEW reward \in low .. high
  PROVE  Ema(old, reward) \in low .. high
<1> DEFINE sum == 4 * old + reward
           n == sum \div 5
<1>0. /\ old \in Nat /\ reward \in Nat
      /\ low <= old /\ old <= high /\ low <= reward /\ reward <= high
  OBVIOUS
<1>1. sum \in Nat /\ 5 * low <= sum /\ sum <= 5 * high
  BY <1>0
<1> HIDE DEF sum
<1>2. n \in Int /\ 5 * n <= sum /\ sum < 5 * n + 5
  BY <1>1
<1> HIDE DEF n
<1>3. low <= n /\ n <= high
  BY <1>1, <1>2
<1>4. Ema(old, reward) = n
  BY DEF Ema, n, sum
<1> QED
  BY <1>2, <1>3, <1>4

\* A credit keeps a bucket's averages between the rewards given.
LEMMA CreditedIsEarned ==
  ASSUME NEW low \in Nat, NEW high \in Nat, NEW b, IsBucket(b),
         EarnedWithin(b, low, high),
         NEW g \in Governors, NEW reward \in low .. high
  PROVE  EarnedWithin(Credited(b, g, reward), low, high)
<1> DEFINE old == StatsOf(b, g)
           new == [visits |-> SaturatingInc(old.visits),
                   ema_reward |-> IF old.visits = 0 THEN reward
                                  ELSE Ema(old.ema_reward, reward)]
           c == Credited(b, g, reward)
<1>1. old.visits \in 0 .. MaxVisits
  BY StatsType, StatsFields
<1>2. SaturatingInc(old.visits) > 0
  BY <1>1, MaxVisitsType DEF SaturatingInc
<1>3. old.visits # 0 => old.ema_reward \in low .. high
  <2>1. g \notin DOMAIN b.actions => old.visits = 0
    BY DEF StatsOf, DefaultStats
  <2>2. g \in DOMAIN b.actions => old = b.actions[g]
    BY DEF StatsOf
  <2> QED
    BY <2>1, <2>2 DEF EarnedWithin
<1> HIDE DEF old
<1>4. new.visits > 0 /\ new.ema_reward \in low .. high
  BY <1>2, <1>3, EmaBetween
<1>5. /\ DOMAIN c.actions = DOMAIN b.actions \cup {g}
      /\ c.actions[g] = new
      /\ \A h \in DOMAIN b.actions \ {g} : c.actions[h] = b.actions[h]
  BY DEF Credited, old
<1> HIDE DEF new, c
<1>6. EarnedWithin(c, low, high)
  BY <1>4, <1>5 DEF EarnedWithin
<1> QED
  BY <1>6 DEF c

LEMMA SameIsEarned ==
  ASSUME NEW low, NEW high, NEW b, NEW c, SameCounts(b, c), EarnedWithin(c, low, high)
  PROVE  EarnedWithin(b, low, high)
BY DEF SameCounts, EarnedWithin

LEMMA NewIsEarned == \A t, low, high : EarnedWithin(NewBucket(t), low, high)
BY DEF NewBucket, NoBuckets, EarnedWithin

\* No average ever holds anything but rewards.
THEOREM AveragesInvariance == Spec => []AveragesAreEarned
<1>1. Init => AveragesAreEarned
  BY DEF Init, AveragesAreEarned, AbsentFile, NoBuckets
<1>2. TypeOK /\ AveragesAreEarned /\ [Next]_memVars => AveragesAreEarned'
  <2> SUFFICES ASSUME TypeOK, AveragesAreEarned, [Next]_memVars,
                      NEW low \in Nat, NEW high \in Nat, Rewards \subseteq low .. high
               PROVE  /\ \A k \in DOMAIN buckets' : EarnedWithin(buckets'[k], low, high)
                      /\ \A k \in DOMAIN disk'.buckets :
                           EarnedWithin(disk'.buckets[k], low, high)
    BY DEF AveragesAreEarned
  <2> DEFINE Earned(B) == \A k \in DOMAIN B : EarnedWithin(B[k], low, high)
             Kept == Earned(buckets') /\ Earned(disk'.buckets)
  <2>0. Earned(buckets) /\ Earned(disk.buckets)
    BY DEF AveragesAreEarned
  <2>1. Earned(NoBuckets)
    BY DEF NoBuckets
  <2>2. ASSUME NEW list \in ActionLists, Open(list)
        PROVE  Kept
    BY <2>0, <2>2 DEF Open
  <2>3. ASSUME NEW fp \in Fingerprints, NEW prior \in Governors,
               NEW governor \in Governors, Select(fp, prior, governor)
        PROVE  Kept
    <3>1. Earned(buckets')
      BY <2>0, <2>3, SelectCounts, SameIsEarned, NewIsEarned
    <3>2. disk' = disk
      BY <2>3 DEF Select
    <3> QED
      BY <2>0, <3>1, <3>2
  <2>4. ASSUME NEW B, NEW d, Earned(B), Save(B, d)
        PROVE  Earned(disk'.buckets)
    BY <2>0, <2>4, SavedBuckets
  <2>5. ASSUME NEW fp \in Fingerprints, NEW governor \in Governors,
               NEW reward \in Rewards, Update(fp, governor, reward)
        PROVE  Kept
    <3>1. PICK b : /\ IsBucket(b)
                   /\ buckets'[fp] = Credited(b, governor, reward)
                   /\ \/ fp \in DOMAIN buckets /\ SameCounts(b, buckets[fp])
                      \/ fp \notin DOMAIN buckets /\ SameCounts(b, NewBucket(tick))
      BY <2>5, UpdateCounts
    <3>2. EarnedWithin(b, low, high)
      BY <2>0, <3>1, SameIsEarned, NewIsEarned
    <3>3. EarnedWithin(buckets'[fp], low, high)
      BY <3>1, <3>2, CreditedIsEarned
    <3>4. \A k \in DOMAIN buckets' \ {fp} : k \in DOMAIN buckets /\ buckets'[k] = buckets[k]
      BY <2>5, UpdateCounts
    <3>5. Earned(buckets')
      BY <2>0, <3>3, <3>4
    <3>6. Save(buckets', dirty_since_save + 1) \/ UNCHANGED disk
      BY <2>5 DEF Update
    <3> HIDE DEF Earned
    <3> QED
      BY <2>0, <2>4, <3>5, <3>6
  <2>6. ASSUME SaveNow PROVE Kept
    BY <2>0, <2>4, <2>6 DEF SaveNow
  <2>7. ASSUME Crash PROVE Kept
    BY <2>0, <2>1, <2>7 DEF Crash, LoseMemory
  <2>8. ASSUME CrashInSave PROVE Kept
    BY <2>1, <2>8 DEF CrashInSave, LoseMemory, TornFile
  <2>9. ASSUME OpenFails \/ UNCHANGED memVars PROVE Kept
    BY <2>0, <2>9 DEF OpenFails, memVars
  <2>10. Kept
    <3> HIDE DEF Kept
    <3> QED
      BY <2>2, <2>3, <2>5, <2>6, <2>7, <2>8, <2>9 DEF Next
  <2> QED
    BY <2>10
<1> QED
  BY <1>1, <1>2, TypeInvariance, PTL DEF Spec

=============================================================================
