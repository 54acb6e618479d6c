--------------------------- MODULE EpisodeMemory ---------------------------
(***************************************************************************)
(* The episodic store of foverin/src/memory.rs: buckets keyed by a window  *)
(* fingerprint, each with per-governor visit counts and EMA rewards; UCB1  *)
(* selection; eviction at a cap; and the JSON file the store is saved to   *)
(* every SAVE_EVERY credits, with the crashes and write errors that file   *)
(* is exposed to.                                                          *)
(*                                                                         *)
(* Rewards and scores are integers: 1.0 is Scale, and an EMA is rounded    *)
(* down to a multiple of 1 / Scale.  The specification Spec lets a caller  *)
(* use the public operations in any order, as the unit tests of memory.rs  *)
(* do; PolicyEngine.tla restricts the order to that of decide().           *)
(***************************************************************************)
EXTENDS Integers, Sequences, FiniteSets, ArgMax

CONSTANTS
  Fingerprints,   \* the bucket keys (u64 bitsets over VOCAB)
  Governors,      \* every governor name the kernel may offer
  ActionLists,    \* the governor lists open() may be given
  Rewards,        \* the rewards update() may be given
  MaxBuckets,     \* MAX_BUCKETS
  SaveEvery,      \* SAVE_EVERY
  MaxVisits,      \* u32::MAX, where saturating_add stops
  MaxTick,        \* bound: no selection once the tick counter is here
  MaxDirty,       \* bound: no credit once this many are unsaved
  Bonus,          \* Bonus[n][v]: Scale * UCB_C * sqrt(ln(n + 1) / (v + 1))
  SaveFaults      \* how save() may fail: "open" before fs::write has
                  \* truncated the file, "write" after it

Scale == 10000

PreferredScore == 7200   \* score of an unseen action that is the prior governor
UnseenScore == 4500      \* score of any other unseen action

ASSUME MemoryAssumption ==
  /\ IsFiniteSet(Fingerprints)
  /\ IsFiniteSet(Governors)
  /\ {"performance", "powersave"} \subseteq Governors
  /\ ActionLists \subseteq Seq(Governors)
  /\ Rewards \subseteq 0 .. Scale
  /\ MaxBuckets \in Nat \ {0}
  /\ SaveEvery \in Nat \ {0}
  /\ MaxVisits \in Nat \ {0}
  /\ MaxTick \in Nat
  /\ MaxDirty \in Nat
  /\ Bonus \in [1 .. MaxVisits -> [0 .. MaxVisits -> Nat]]
  /\ SaveFaults \subseteq {"open", "write"}

VARIABLES
  running,            \* a process holds an open EpisodeMemory
  buckets,            \* fingerprint -> Bucket, on the fingerprints present
  actions,            \* the governors to choose among, in order
  tick,               \* selections made since the file was first created
  dirty_since_save,   \* credits since the last save that succeeded
  disk                \* the file at self.path

memVars == <<running, buckets, actions, tick, dirty_since_save, disk>>

ActionStats == [visits : 0 .. MaxVisits, ema_reward : 0 .. Scale]

\* m is a HashMap with keys in S and values in T.
IsMap(m, S, T) == DOMAIN m \subseteq S /\ m \in [DOMAIN m -> T]

IsBucket(b) ==
  /\ b = [total_visits |-> b.total_visits, last_used |-> b.last_used,
          actions |-> b.actions]
  /\ b.total_visits \in 0 .. MaxVisits
  /\ b.last_used \in 0 .. MaxTick
  /\ IsMap(b.actions, Governors, ActionStats)

IsBuckets(m) ==
  /\ DOMAIN m \subseteq Fingerprints
  /\ m = [k \in DOMAIN m |-> m[k]]
  /\ \A k \in DOMAIN m : IsBucket(m[k])

\* What open() finds: no file, the file of a successful save, or a file that
\* an interrupted fs::write left truncated and serde_json rejects.
IsFile(f) ==
  /\ f = [state |-> f.state, tick |-> f.tick, buckets |-> f.buckets]
  /\ f.state \in {"absent", "saved", "torn"}
  /\ f.tick \in 0 .. MaxTick
  /\ IsBuckets(f.buckets)

NoBuckets == [k \in {} |-> 0]

AbsentFile == [state |-> "absent", tick |-> 0, buckets |-> NoBuckets]

TornFile == [state |-> "torn", tick |-> 0, buckets |-> NoBuckets]

SavedFile(t, B) == [state |-> "saved", tick |-> t, buckets |-> B]

NewBucket(t) == [total_visits |-> 0, last_used |-> t, actions |-> NoBuckets]

DefaultStats == [visits |-> 0, ema_reward |-> Scale \div 2]

\* Mutant of SaturatingInc: an unchecked addition.
UncheckedInc(n) == n + 1

\* u32::saturating_add(1)
SaturatingInc(n) == IF n < MaxVisits THEN n + 1 ELSE n

\* Mutant of Ema: the old average is not scaled by 1 - EMA_ALPHA.
EmaUnscaled(old, reward) == old + reward \div 5

\* The exponential moving average with EMA_ALPHA = 0.2.
Ema(old, reward) == (4 * old + reward) \div 5

StatsOf(b, g) == IF g \in DOMAIN b.actions THEN b.actions[g] ELSE DefaultStats

-----------------------------------------------------------------------------
(* Eviction. *)

\* Mutant of Before: ties of total_visits are not broken by last_used.
BeforeByVisits(b, c) == b.total_visits < c.total_visits

\* The order of min_by: fewer visits first, then less recently used.
Before(b, c) ==
  \/ b.total_visits < c.total_visits
  \/ b.total_visits = c.total_visits /\ b.last_used < c.last_used

\* Mutant of IsEviction: "while len > MAX_BUCKETS".
IsLateEviction(evicted) ==
  LET kept == DOMAIN buckets \ evicted IN
  /\ \A v \in evicted, k \in kept : ~ Before(buckets[k], buckets[v])
  /\ Cardinality(kept) <= MaxBuckets
  /\ evicted # {} => Cardinality(kept) = MaxBuckets

\* What evict_if_needed may remove: it takes minimal buckets one by one while
\* the map is at its cap.  Equal buckets go in the order of the HashMap's
\* iteration, which is arbitrary.
IsEviction(evicted) ==
  LET kept == DOMAIN buckets \ evicted IN
  /\ \A v \in evicted, k \in kept : ~ Before(buckets[k], buckets[v])
  /\ Cardinality(kept) < MaxBuckets
  /\ evicted # {} => Cardinality(kept) = MaxBuckets - 1

\* Mutant of Evictions: the contains_key test is missing.
EvictionsUnasked(fp) == {evicted \in SUBSET DOMAIN buckets : IsEviction(evicted)}

\* select() and update() evict only to make room for a new fingerprint.
Evictions(fp) ==
  IF fp \in DOMAIN buckets
  THEN {{}}
  ELSE {evicted \in SUBSET DOMAIN buckets : IsEviction(evicted)}

\* Mutant of Touched: an existing bucket is not stamped.
TouchedIfNew(fp, evicted, t) ==
  [k \in (DOMAIN buckets \ evicted) \cup {fp} |->
     IF k \in DOMAIN buckets THEN buckets[k] ELSE NewBucket(t)]

\* The map after the eviction, entry().or_insert_with() and last_used = t.
Touched(fp, evicted, t) ==
  [k \in (DOMAIN buckets \ evicted) \cup {fp} |->
     IF k # fp THEN buckets[k]
     ELSE IF fp \in DOMAIN buckets THEN [buckets[fp] EXCEPT !.last_used = t]
     ELSE NewBucket(t)]

-----------------------------------------------------------------------------
(* Persistence. *)

\* Mutant of Save: the counter is reset before the write can fail.
SaveResetFirst(B, d) ==
  /\ dirty_since_save' = 0
  /\ \/ disk' = SavedFile(tick, B)
     \/ "open" \in SaveFaults /\ disk' = disk
     \/ "write" \in SaveFaults /\ disk' = TornFile

\* save() of the map B at counter value d.  fs::write truncates the file and
\* then fills it; an error leaves dirty_since_save as it was, and both callers
\* drop the error.
Save(B, d) ==
  \/ /\ disk' = SavedFile(tick, B)
     /\ dirty_since_save' = 0
  \/ /\ "open" \in SaveFaults
     /\ disk' = disk
     /\ dirty_since_save' = d
  \/ /\ "write" \in SaveFaults
     /\ disk' = TornFile
     /\ dirty_since_save' = d

\* Mutant of Clock: the tick counter is not restored from the file.
ClockAtZero(file) == 0

\* Where the tick counter goes on after a start.
Clock(file) == file.tick

\* open(): loads the file if there is one; an unreadable file is an error.
Open(list) ==
  /\ ~ running
  /\ disk.state # "torn"
  /\ running' = TRUE
  /\ buckets' = disk.buckets
  /\ tick' = Clock(disk)
  /\ dirty_since_save' = 0
  /\ actions' = IF list = <<>> THEN <<"performance", "powersave">> ELSE list
  /\ UNCHANGED disk

\* open() fails on a torn file, the process exits, and the service manager
\* tries again: nothing changes.
OpenFails ==
  /\ ~ running
  /\ disk.state = "torn"
  /\ UNCHANGED memVars

\* Everything but the file is gone.
LoseMemory ==
  /\ running' = FALSE
  /\ buckets' = NoBuckets
  /\ actions' = <<>>
  /\ tick' = 0
  /\ dirty_since_save' = 0

\* The process dies between two writes.
Crash ==
  /\ running
  /\ LoseMemory
  /\ UNCHANGED disk

\* The process dies inside fs::write, after the truncation.
CrashInSave ==
  /\ running
  /\ LoseMemory
  /\ disk' = TornFile

-----------------------------------------------------------------------------
(* Selection. *)

\* Mutant of Score: no exploration bonus.
ScoreGreedy(b, g, prior) ==
  IF g \in DOMAIN b.actions THEN b.actions[g].ema_reward
  ELSE IF g = prior THEN PreferredScore ELSE UnseenScore

\* ema + bonus for governor g of bucket b.
Score(b, g, prior) ==
  LET n      == IF b.total_visits = 0 THEN 1 ELSE b.total_visits
      seen   == g \in DOMAIN b.actions
      visits == IF seen THEN b.actions[g].visits ELSE 0
      ema    == IF seen THEN b.actions[g].ema_reward
                ELSE IF g = prior THEN PreferredScore ELSE UnseenScore
  IN  ema + Bonus[n][visits]

\* The loop over actions leaves best_gov at actions[i]; UcbLoop.tla steps
\* through it.
IsBest(b, i, prior) ==
  IsFirstMax([j \in DOMAIN actions |-> Score(b, actions[j], prior)], i)

\* select(): counts the tick, makes room, touches the bucket, picks governor.
Select(fp, prior, governor) ==
  /\ running
  /\ tick < MaxTick
  /\ tick' = tick + 1
  /\ \E evicted \in Evictions(fp), i \in DOMAIN actions :
       /\ buckets' = Touched(fp, evicted, tick + 1)
       /\ governor = actions[i]
       /\ IsBest(buckets'[fp], i, prior)
  /\ UNCHANGED <<running, actions, dirty_since_save, disk>>

\* Mutant of Credited: the total counts first visits only.
CreditedTotalOnce(b, g, reward) ==
  LET old == StatsOf(b, g)
      new == [visits |-> SaturatingInc(old.visits),
              ema_reward |-> IF old.visits = 0 THEN reward
                             ELSE Ema(old.ema_reward, reward)]
  IN  [total_visits |-> IF old.visits = 0 THEN SaturatingInc(b.total_visits)
                        ELSE b.total_visits,
       last_used    |-> b.last_used,
       actions      |-> [h \in DOMAIN b.actions \cup {g} |->
                           IF h = g THEN new ELSE b.actions[h]]]

\* The bucket b after a reward for governor g.
Credited(b, g, reward) ==
  LET old == StatsOf(b, g)
      new == [visits |-> SaturatingInc(old.visits),
              ema_reward |-> IF old.visits = 0 THEN reward
                             ELSE Ema(old.ema_reward, reward)]
  IN  [total_visits |-> SaturatingInc(b.total_visits),
       last_used    |-> b.last_used,
       actions      |-> [h \in DOMAIN b.actions \cup {g} |->
                           IF h = g THEN new ELSE b.actions[h]]]

\* Mutant of SaveIsDue: one credit late.
SaveIsLate(d) == d > SaveEvery

\* The test at the end of update().
SaveIsDue(d) == d >= SaveEvery

\* update(): credits the pair and saves on every SAVE_EVERY-th credit.
Update(fp, governor, reward) ==
  /\ running
  /\ dirty_since_save < MaxDirty
  /\ \E evicted \in Evictions(fp) :
       LET touched == Touched(fp, evicted, tick)
       IN  buckets' = [touched EXCEPT
                         ![fp] = Credited(touched[fp], governor, reward)]
  /\ IF SaveIsDue(dirty_since_save + 1)
     THEN Save(buckets', dirty_since_save + 1)
     ELSE dirty_since_save' = dirty_since_save + 1 /\ UNCHANGED disk
  /\ UNCHANGED <<running, actions, tick>>

\* A caller's own save().
SaveNow ==
  /\ running
  /\ Save(buckets, dirty_since_save)
  /\ UNCHANGED <<running, buckets, actions, tick>>

-----------------------------------------------------------------------------
Init ==
  /\ running = FALSE
  /\ buckets = NoBuckets
  /\ actions = <<>>
  /\ tick = 0
  /\ dirty_since_save = 0
  /\ disk = AbsentFile

Next ==
  \/ \E list \in ActionLists : Open(list)
  \/ OpenFails
  \/ \E fp \in Fingerprints, prior, governor \in Governors :
       Select(fp, prior, governor)
  \/ \E fp \in Fingerprints, governor \in Governors, reward \in Rewards :
       Update(fp, governor, reward)
  \/ SaveNow
  \/ Crash
  \/ CrashInSave

Spec == Init /\ [][Next]_memVars

-----------------------------------------------------------------------------
(* Properties. *)

\* The state is what the structs of memory.rs and the file can hold; the
\* counters saturate instead of leaving their range, and an EMA of rewards in
\* [0, 1] stays in [0, 1].
TypeOK ==
  /\ running \in BOOLEAN
  /\ IsBuckets(buckets)
  /\ actions \in Seq(Governors)
  /\ tick \in 0 .. MaxTick
  /\ dirty_since_save \in 0 .. MaxDirty
  /\ IsFile(disk)

\* The cap holds for the map and for the file, whatever the order of the calls
\* and however often the map is reloaded (memory.rs eviction_caps_buckets).
BucketCap ==
  /\ Cardinality(DOMAIN buckets) <= MaxBuckets
  /\ Cardinality(DOMAIN disk.buckets) <= MaxBuckets

\* No bucket is stamped later than the clock that will stamp the next one, in
\* memory or in the file, so recency survives a restart.
ClockCoversStamps ==
  /\ \A k \in DOMAIN buckets : buckets[k].last_used <= tick
  /\ \A k \in DOMAIN disk.buckets : disk.buckets[k].last_used <= disk.tick

\* The visits that the statistics of bucket b count: one pair of a governor and
\* a number for each of them.
Visits(b) ==
  {v \in Governors \X (1 .. MaxVisits) :
     v[1] \in DOMAIN b.actions /\ v[2] <= b.actions[v[1]].visits}

CountsAddUp(b) ==
  b.total_visits = IF Cardinality(Visits(b)) < MaxVisits
                   THEN Cardinality(Visits(b)) ELSE MaxVisits

\* The per-governor counts of a bucket add up to its total, also for governors
\* of an earlier boot's list, until the total saturates; in memory and in the
\* file.
VisitsAddUp ==
  /\ \A k \in DOMAIN buckets : CountsAddUp(buckets[k])
  /\ \A k \in DOMAIN disk.buckets : CountsAddUp(disk.buckets[k])

FileVisits(k) ==
  IF k \in DOMAIN disk.buckets THEN disk.buckets[k].total_visits ELSE 0

\* What a crash can lose is what dirty_since_save counts: no bucket in memory
\* is ahead of its copy in an intact file by more credits than that, through
\* failed saves, evictions and re-creations.
DirtyBoundsLoss ==
  disk.state # "torn" =>
    \A k \in DOMAIN buckets :
      buckets[k].total_visits <= FileVisits(k) + dirty_since_save

\* The store of keys this memory implements: see BoundedStore.tla.
Store == INSTANCE BoundedStore WITH
           Keys     <- Fingerprints,
           Capacity <- MaxBuckets,
           live     <- running,
           resident <- DOMAIN buckets,
           intact   <- disk.state # "torn",
           durable  <- DOMAIN disk.buckets

\* Every operation is an operation of the bounded store: an eviction trades
\* one old bucket for the new one, only at the cap, and a restart brings back
\* the buckets of the last whole file.
ImplementsStore == Store!Spec

=============================================================================
