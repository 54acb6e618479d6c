# Foverin: a TLA+ verification project

Foverin is a Linux daemon that watches which programs are executed, learns by
trial which CPU frequency governor suits which mix of programs, and writes the
governor it chooses to sysfs. This directory holds TLA+ models of its parts,
TLC configurations that check them on small instances, and proofs that TLAPS
checks for every value of the constants.

Contents: [inventory](#inventory), [modules](#modules),
[correspondence with the code](#correspondence-with-the-code),
[runs](#runs), [fairness](#fairness), [proofs](#proofs),
[disagreements found](#disagreements-found), [precision](#precision),
[what is not modelled](#what-is-not-modelled), [plan](#plan).

Paths below are relative to the repository's root; `mem`, `brain`, `reward`,
`act`, `daemon`, `cli`, `ui`, `ebpf` and `build` stand for `foverin/src/memory.rs`,
`foverin/src/brain.rs`, `foverin/src/reward.rs`, `foverin/src/actuator.rs`,
`foverin/src/bin/foverin-daemon.rs`, `foverin/src/bin/foverin-cli.rs`,
`foverin/src/ui.rs`, `foverin-ebpf/src/main.rs` and `foverin-ebpf/build.rs`.

## Inventory

    sched_process_exec            every 5 s                       sysfs
          |                                                         ^
     eBPF probe --ring buffer--> sensor loop --decide()--> engine   |
                                   |   |  \                |  |     |
                                   |   |   \-- governor ---|--|---> actuator
                                   |   |                   |  \-- metric sampler <- /proc, /sys
                                   |   |                   \-- episodic memory <-> foverin_memory.json
                               AppState (mutex)
                                   |
                        broadcast channel --> one task per client --> foverin-cli

| Component | State | Operations | Interaction | What is hard | What makes it correct |
| --- | --- | --- | --- | --- | --- |
| Episodic memory (`mem`) | buckets by fingerprint, tick, list of actions, unsaved credits; the JSON file | `open`, `select`, `update`, `save`, `evict_if_needed` | called by the engine; file written in place | crashes between and inside saves, restarts under another list of governors, saturation, eviction at the cap | cap, consistent counts, a clock that survives restarts, bounded loss, eviction only for room |
| UCB1 loop (`mem` `select`) | best and second score so far | one step per action | inside `select` | ties, NEG_INFINITY start, order of the runner-up | first best and true margin |
| Policy engine (`brain`) | pending decision, `primed`, the memory, the sampler | `open`, `decide`, `flush` | called by the sensor loop | the reward of a decision arrives one window later, with crashes and evictions in between | each decision credited once, to its own bucket |
| Reward and sampler (`reward`) | previous CPU and RAPL readings | `sample`, `balanced_reward` | called by the engine; reads /proc and /sys | failing reads, counter wrap, neutral first sample | metrics of exactly the window, reward in [0, 1], right ordering |
| Actuator (`act`) | none of its own; the CPUs' governors | `set_scaling_governor`, `available_governors`, `preferred_efficiency_governor` | called by the sensor loop and the engine; sysfs | CPUs that come and go between listing and writing, partial failure, a list of governors that changes or cannot be read | one CPU's failure costs no other its governor |
| eBPF probe and ring (`ebpf`) | ring buffer | read the parent's name, rewrite children of steam, reserve, write, submit | the kernel wakes the daemon through epoll | CPUs that submit out of order, wakeups that race the reader, offsets of another kernel | no lost event that got room, no lost wakeup, games are marked and nothing else is |
| Sensor loop (`daemon`) | window buffer, tokio readiness | `select!` over shutdown, readable, tick | everything above | order of the branches, failures in a tick, shutdown at any point | what is displayed is in force, it stops when asked |
| Shared state and broadcast (`daemon`, `state.rs`) | AppState, channel of 64 messages | `publish_snapshot`, accept loop, client tasks | two publishers, many clients | stale snapshots sent late, lag, failing accept | every attached client gets to the newest state |
| CLI and TUI (`cli`, `ui`) | last snapshot | connect, read, draw, quit | socket | the daemon goes while a client is attached | the screen says so |
| Lifecycle (`daemon` `main`, `foverin.service`) | socket file, process | open, bind, attach, serve, signal, join, leave | systemd starts the daemon again when it died | stale sockets, failing starts, a stop while the task works, the 3 s join | a stop keeps what was learned, the path leads to the listener, the daemon comes back |
| Build scripts (`build`) | none at run time | find the offsets of `task_struct`, or take the fallback | bake the offsets into the probe | the kernel that runs is not the one that built | the offsets fit |

`PROJECT.json` lists each component with what is modelled of it, and each
hazard with the line of the code at which it bites and the properties that
would catch it.

## Modules

In the order of the plan, the most important behaviour first:

| Module | Role |
| --- | --- |
| `EpisodeMemory` | the memory and its file; its own `Spec` allows any order of calls |
| `ArgMax` | what a search for the first maximum must find; used by `EpisodeMemory` and `UcbLoop` |
| `BoundedStore` | abstract: a store of keys with a capacity and a durable copy |
| `Fingerprint` | what an exec becomes: the record the probe writes, with the offsets it was built with, the bits of a window, its label and prior |
| `Actuator` | the lists of governors made of the kernel's list |
| `PolicyEngine` | extends `EpisodeMemory`, `Fingerprint` and `Actuator` with the engine and restricts calls to the order `decide()` makes |
| `DelayedCredit` | abstract: decisions that are credited once, one window later |
| `UcbLoop` | the loop inside `select`, step by step |
| `Reward`, `MetricSampler` | `balanced_reward` as operators; the sampler with the counters it reads |
| `SensorRing` | probe, ring buffer, wakeup path, and the loop's readable and tick branches |
| `SensorLoop` | the loop's tick and shutdown branches with the actuator's write loop |
| `Uplink` | publishers, broadcast channel, accept loop, clients and their screens |
| `Lifecycle` | `main()` from start to end and back: socket file, sensor task, signal, join, restart |
| `MCEpisodeMemory`, `MCPolicyEngine`, `MCExploration` | values of the constants for TLC; the other modules take theirs from the `.cfg` |
| `*Proofs` | theorems: one module per module above that has any |

`EpisodeMemory` implements `BoundedStore` (`ImplementsStore`), and
`PolicyEngine` implements `DelayedCredit` (`ImplementsLearning`), each by
`INSTANCE ... WITH` and the abstract specification as a property. Operators
named "Mutant of X" next to a definition X are the faulty variants against
which the properties were tried; no specification uses them.

## Correspondence with the code

`PROJECT.json` maps every definition to its lines; this is how to read them.

**Memory.** `buckets` is the HashMap as a function on the keys present; `disk`
is the file, either absent, the tick and buckets of the last complete save, or
torn. `Save` is the whole of `save()`: `fs::write` truncates the file and then
fills it, so it succeeds, fails before the truncation, or fails after it.
`Update` contains its eviction and its periodic save. `CrashInSave` is a death
between the truncation and the last byte; `Crash` any other.

**Engine.** `decide()` is two steps, `Credit` (sample, credit the pending
decision) and `Choose` (fingerprint, prior, `select`, leave pending), because a
crash can come between them. A window is a set of exec events; a fingerprint is
the set of VOCAB entries in it. `Event` is what the probe makes of an exec:
`steam_app` if the parent is called `steam`, read at the offsets that
`BakedOffsets` took from the build host; at other offsets it reads whatever is
there (`elsewhere`). The name is compared as the code does it, character by
character and with its terminator (`CommEq`), in the 16 bytes in which the
kernel keeps it (`Comm`). A file name is kept as `encode_names` sees it: its last
part in lower case and its number of `.exe` suffixes, of which one is stripped.
The kernel's list of governors is read at `open()` for the actions and again at
each decision for the prior; either read may fail or differ.

**Sampler.** A step is a window of idle and busy ticks, energy and a
temperature, followed by the call of `sample()`; every read may fail. A failed
read of `/proc/stat` is `unwrap_or_default()`, two zeroes. Energy is read from
the package, from another node that the scan of powercap found, or not at all
(`node`); the code does not know which, and another node's counter may be
anything.

**Ring.** A record is its position, counted without wrapping. `Reserve`,
`Submit` and `DecideWakeup` are the three steps a CPU takes that others can come
between: the last two are inside `entry.submit(0)`, which clears the BUSY bit
and then wakes the reader only if the reader's position is that of this very
record. `Fire`, `Poll` and the readiness with its driver tick are the path
through the kernel's irq_work, epoll and tokio's `AsyncFd`: they are external
and modelled from how the code uses them. `clear_ready` clears only the
readiness its guard has seen.

**Sensor loop.** `Decide`, `List`, `Write` (one per CPU, in the order of the
sorted paths), `Return` with `Ok` or `Err` are the steps of one tick. `Hotplug`
may come between any two. A CPU is online if its `scaling_governor` can be
written; one that is offline keeps its last governor. Which governor is decided
is left open here, so that the properties hold whatever the engine chooses.

**Uplink.** A snapshot is the number of changes AppState had seen. A publisher
takes it under the lock (`Take`) and sends it later (`Send`). A client is
accepted, subscribed and greeted in three steps, as in `accept_loop`; then its
task forwards what the channel still has and skips what it dropped (`Lagged`).
A user may quit at any point of that (`Quit`, the end of `ui_loop`), or leave
the fatal screen (`Dismiss`, the end of `fatal_loop`, which never reconnects).
`Change` is any round of the sensor loop that ends in `publish_snapshot`, also
one that was woken and drained nothing.

**Lifecycle.** `main` names the last thing `main()` has done, `sensor` where the
sensor task is: between polls ("idle", or "yielded" if it could have gone on),
inside a poll ("select", "working", "saving", "flushing"), or "done". Of the
memory only the number of credits that are not in the file, and whether the file
is torn, are kept. `accepting` is the accept loop, which one error of `accept()`
ends while the rest goes on (`AcceptFails`, as in `Uplink`); the path then leads
nowhere. `RemoveSocket` may fail, and nobody looks at its error: `bind` then
fails on the path, or a stop leaves it (`kept`). Four facts about tokio and the
kernel carry the module, all external:

- The task's poll has no await but `select!`, and `select!` returns pending only
  if no branch is ready, or if the task has taken as many branches in this poll
  as its coop budget allows (`Budget`, 128 in tokio; `Yield`). The shutdown
  message stays ready, so a poll that began after the signal ends in the flush
  (`Park` needs `main \notin Stopping`) or in a yield.
- Dropping the runtime, when `main()` returns, waits for a poll in progress and
  drops a task that waits (`End`). A join that timed out therefore does not cut
  off a flush. It does cut off a task that yields after it (`cutOff`): that
  needs a branch that takes over 3 s and is the last of its budget.
- The 3 s limit can only expire while the task is inside its poll: a task that
  merely has to be woken is woken at once (`Joined`). The comment at
  `daemon:105` says that the task is aborted if it hangs; in fact main goes on
  without it and the runtime waits.
- The handlers of the signals are installed where `select!` first polls them
  (`daemon:95`), so an earlier signal is a `Kill`; a second one after the first
  finds nobody waiting and does nothing.

`Die` leaves the socket file behind; `Open` may be called on a stale one. After
a stop (`main = "ended"`) someone may start the daemon again, but systemd does
not.

## Runs

Every passing run checks for deadlock except `ucb_loop`, where the loop returns
and the model ends.

| Run | Question | Bounds, and why they suffice |
| --- | --- | --- |
| `memory_api` | does the memory stay consistent, and is it the bounded store, under any order of its operations? | three keys over a cap of two, so every new key may evict; counters saturate at 2 and saves are due at 2 credits, so saturation, periodic saves and failed saves with up to three unsaved credits occur together; two ticks order the stamps of a full map; two lists of governors |
| `engine` | is each decision credited once, is eviction deterministic, and are games recognised, with restarts and crashes? | every set of three execs as a window: a compiler, a child of steam, and a child of steam's helper with a name that is not quite `steam_app`. That is four fingerprints over a cap of two in four windows: enough to fill the map, evict and return to an evicted key; two rewards; the kernel lists `schedutil` or cannot be read. 143,781 states |
| `exploration` | where writes do not fail, does UCB1 try every governor, and what does a crash cost? | one bucket, three governors, rewards 0 and 1, twelve windows: the bound of ten credits that follows from the table of bonuses (`FourVisitsSate`) lies inside, and so do two saves at every fifth credit, with crashes and restarts anywhere |
| `ucb_loop` | does the one pass find the first best and the runner-up? | all sequences of up to four scores with values 0..3: every order and every tie pattern of four elements |
| `sensor_ring` | are events or wakeups lost? | two CPUs, two slots, four events: full ring, out-of-order submission, reuse of slots, and each wakeup decision against each position of the reader |
| `metric_sampler` | are metrics those of the window, and does the reward order things rightly? | up to seven ticks in steps of 0, 1 and 3, RAPL modulo 8 with up to 5 per window, so it wraps; another node whose counter stands at 2; temperatures below, inside and above the ramp; `Unit` 10 gives every load and penalty in tenths |
| `sensor_loop` | do CPUs, display and pending credit agree, and does the loop stop? | three CPUs, two governors, three faults: a CPU can go and come back while another goes |
| `uplink` | is any update missed, is everyone served, with accept failing and the daemon stopping at any point? | two clients, channel of two, two changes after the first publication: three messages, so a client can lag by more than the channel holds, and main's snapshot can be sent late. Users come and go without limit |
| `lifecycle` | does a stop keep what was learned, does it end, and does the daemon come back? | saves due at two credits, a budget of two branches per poll, three faults among failing starts, kills, failing writes, a failing `accept()` and a socket that cannot be removed: a daemon can be killed inside a save, fail two saves and its flush, or lose its accept loop and leave its socket. Starts, signals and decisions are without limit. 2,561 states |

Three more runs are expected to end in a violation:
see [disagreements found](#disagreements-found).

### What the properties say

*Memory.* `TypeOK`: counters saturate and EMAs stay in [0, 1]. `BucketCap`: map
and file are within the cap. `ClockCoversStamps`: no stamp is later than the
clock, also after a restart. `VisitsAddUp`: in memory and in the file the
per-governor visits sum to the total until it saturates. `DirtyBoundsLoss`: a crash loses of no bucket more
than `dirty_since_save` credits, whatever saves failed. `ImplementsStore`.

*Engine.* `PendingIsNewest`: the pending decision's bucket is present and the
most recent, so its late credit neither creates nor evicts.
`EvictionIsDeterministic`: eviction never depends on the HashMap's order.
`BaselineBeforeCredit`: the neutral first sample is never credited.
`CrashCost`: at most `SAVE_EVERY` windows are lost. `NoGovernorStarves`: if the
bonus of an untried governor outweighs any score of one with p visits
(`SatedBy(p)`), a bucket with more than p visits for each governor but one, and
one more, has tried every governor that is always offered. In the run p is 4, so
ten credits suffice. `LineageCounts`: a probe built for the
running kernel marks a window as `steam_app` if and only if a child of steam, or
a file of that name, ran in it, and the window gets the prior of gaming whatever
else ran. `ImplementsLearning`.

*Loop of `select`.* `SelectsFirstBest`, `MarginIsAgainstRunnerUp`.

*Sampler and reward.* `MetricsOK`; `RewardInRange`: the sum is in [0, 1] before
the clamp; `LoadFavoursPerformance`: more load never moves the preference from
`performance` to `powersave`; `RecoversFromFailedReads`: a window both of whose
ends were read is rated by its own ticks; `EnergyIsOfWindow`: an energy rate has
two readings behind it, and if both are the package's it is that of energy
spent in the window. If one is another node's it may be anything, which the code
does not notice.

*Ring.* `RingTypeOK`: never more records than room; `RecordsAreOwned`: no CPU
fills what the reader has passed or another CPU fills; `NoLostWakeup`: the loop
never sleeps on a readable ring without a wakeup under way;
`EveryEventIsDecided`: each event that got room is in a window at last.

*Sensor loop.* `SteadyCpusFollow`: every CPU that stays online takes the
governor whatever happens to the others; `ShownIsInForce`: the displayed
governor is the one the CPUs that took it last have; `CreditIsForShown`: unless
the status says that the actuator failed, the governor to be credited is the
displayed one and some CPU runs it; `StopsWhenAsked`; `CpusConverge`: when
CPUs stop coming and going, all of them run the displayed governor again and
again.

*Uplink.* `NoMissedUpdate`: an attached client has shown, or can still reach in
the channel, something as new as anything that was sent; `EveryUpdateArrives`:
it does show it; `ClientsAreServed`: who connects is served, or gives up, as long
as there is an accept loop. One error of `accept()` ends that loop while the
daemon runs on (`daemon:130`); from then on a new client is told that the daemon
is not reachable, although `README.md:125` says "attach anytime".

*Lifecycle.* `CleanStopPersists`: after a stop by a signal the file has every
credit, however busy, slow or late the task was, unless the flush itself failed
or the task was cut off. `SocketIsOfListener`: while the accept loop runs the path
leads to it, whatever an earlier process left there; without it the path leads
nowhere; a stop leaves nothing that it could remove. `StopEnds`: a stop ends
the process, or, if the task hangs, at least takes the socket away.
`ComesBack`: after any deaths, failed starts and stale sockets the daemon serves
clients again, unless it was stopped, hangs, left a file that no start can read,
or goes on without its accept loop.

## Fairness

Only the liveness properties use fairness; it is assumed of the code's own
tasks and never of users, programs or faults.

- `SensorRing`: a CPU that reserved submits (the probe cannot sleep), the
  kernel's work and tokio's driver run, the loop's task runs. `Wake` and `Tick`
  are weakly fair each. Both wait in `select!`; tokio polls its branches in
  random order, so neither is passed over for ever while it stays ready.
- `SensorLoop`: the task runs and the interval fires (weak fairness). `Flush` is
  strongly fair: the shutdown branch stays ready but is only polled between
  ticks, and the random order of `select!` picks it at last.
- `Uplink`: the tasks run. `Accept(c)` is strongly fair: the loop serves one
  client at a time in the order of the backlog, so a waiting client is not
  overtaken for ever. Users need not connect and AppState need not change.
- `Lifecycle`: systemd opens a daemon that died (`Restart=always`; `RestartSec=2`
  keeps the starts below systemd's default limit of five in ten seconds), `main()`
  goes on, the timer of the join expires, a woken task is polled, and a poll ends
  unless it is stuck; a task whose budget is spent yields. `FlushBegins` is strongly fair for the same reason as `Flush`.
  Kills, signals, failures and hanging are not fair.

`EpisodeMemory`, `PolicyEngine`, `UcbLoop` and `MetricSampler` state safety
only and have no fairness.

## Proofs

Each theorem is `Spec => []Inv` or `Spec => [][A]_vars` for every value of the
constants that satisfies the module's named assumption; the assumptions are
evaluated by TLC in the runs. Two kinds of restriction are in the assumptions:
ranges the code's types give, and finiteness of the sets of fingerprints and of
governors. Where an argument is an induction over numbers (a search through a
list, a sum of counts), it is made by the least counterexample, with `WFMin` of
the library: the set of numbers for which the statement fails has a least member.

| Module | Proved | Argument |
| --- | --- | --- |
| `EpisodeMemoryProofs` | `TypeOK`, `BucketCap`, `ClockCoversStamps`, `DirtyBoundsLoss`, `VisitsAddUp`, `SelectionIsPossible`, `AveragesAreEarned`, `ImplementsStore` | each is inductive given `TypeOK`, once the file is included: a restart makes the file's buckets the map's. The eviction lemmas say what remains is below the cap. `ImplementsStore` is a step simulation: a call on a resident key, with room, or at the cap is the matching disjunct of `Touch`; the cap invariant rules out larger maps. `VisitsAddUp` writes the sum as the number of elements of a set with one pair per visit, to which a credit adds one. `SelectionIsPossible`: a map at its cap has a minimum of `min_by`, and a list of scores exactly one first maximum. `AveragesAreEarned`: the first credit discards the initial 0.5, and a moving average stays between what it averages |
| `PolicyEngineProofs` | `EngineTypeOK`, `PendingIsNewest`, `RecencyIsUnique`, `EvictionIsDeterministic`, `DecisionIsUnique`, `EvictsOnlyForRoom`, `BaselineBeforeCredit`, `CrashCost`, `LineageCounts`, `NoGovernorStarves`, `ImplementsLearning` | between `Choose` and the next `Credit` nothing else touches the memory, so the pending bucket is the only one stamped with `tick`; hence stamps are distinct, hence the order `min_by` uses is total and the set evicted is unique. With `SelectionIsPossible` that makes `decide()` a function: it has a result and only one. A late credit finds its bucket, so only a decision evicts (`EvictsOnlyForRoom`). `NoGovernorStarves` needs `ExplorationInvariant`: while an always offered governor is untried, no other has more than p + 1 visits and at most one has that many, and the pending governor was chosen at the counts that its credit finds, because nothing else is credited in between. `ImplementsLearning` is one step simulation per action: the pending bucket is present, so its credit adds one visit to one pair, and an eviction only forgets. `LineageCounts` follows from the definitions of `Fingerprint` for every set of execs, since `steam_app` is one entry of VOCAB and lies in the gaming group, and so does not depend on what the model's windows contain; `CommIsName` is the lemma that the comparison tells `steam` from every other name, of any length |
| `UcbLoopProofs` | `TypeOK`, `SelectsFirstBest`, `MarginIsAgainstRunnerUp`, `CountsDown` | inductive invariant `SeenSoFar`: after n actions the best is the first maximum of the first n, the second the maximum of the others. `CountsDown`: each step takes one of the steps that are left, a natural number, so the loop returns |
| `MetricSamplerProofs` | `MetricsOK`, `RewardInRange`, `HeatCosts` (a hotter window is rated lower under every governor), `LoadFavoursPerformance`, `RecoversFromFailedReads`, `EnergyIsOfWindow` | the baselines are the last readings or say that there was none (`BaselinesAreReadings`); the reward facts are lemmas of arithmetic for every `Unit` divisible by ten |
| `SensorRingProofs` | `RingTypeOK`, `RecordsAreOwned`, `NoLostWakeup`, `QuietRingIsEmpty`, `WindowsAreWhole` | the CPUs' positions are distinct (`RingInv`), and each record that is not committed is in the hands of a CPU (`BusyIsHeld`); `NoLostWakeup` needs its counterpart at the instant before `clear_ready`: readiness newer than the guard's, or a wakeup under way (`WakeInv`). `QuietRingIsEmpty` is the safety half of `EveryEventIsDecided`: a system at rest has nothing left in the ring |
| `SensorLoopProofs` | `LoopTypeOK`, `SteadyCpusFollow`, `ShownIsInForce`, `CreditIsForShown` | together inductive with `CallInv`: until the first write of a call succeeds, the CPUs of the last successful call still have the displayed governor |
| `UplinkProofs` | `UplinkTypeOK`, `NoMissedUpdate`, `SettledScreensAreCurrent` | the sensor loop holds a snapshot only while AppState does not change, and main sends once; so one of the last two messages is the newest of all (`NewestIsLate`), and a channel of at least two never drops it. With a capacity of one the theorem would be false. `SettledScreensAreCurrent`: the present state is in a message or will be sent (`StateIsSent`), and a client that has everything shows the last message or its greeting (`ScreenFollows`). The exception in it is real: main's first snapshot, sent late, can stand on a screen until AppState changes again |
| `LifecycleProofs` | `LifecycleTypeOK`, `SocketIsOfListener`, `CleanStopPersists`, `OnlyFaultsLose` | the path is live exactly while the accept loop runs, and a `Bind` that succeeds follows an `Unlink` that did (`SocketInv`). The task ends only by a flush, and `main` passes `Join` only over a task that has ended or is inside its poll; such a poll can only end in the flush or in a yield, so when the runtime has waited for it the flush is done or the task was cut off (`StopInv`). `OnlyFaultsLose` follows the unsaved credits through a life without faults |

Every invariant and every action property of the runs is proved. Only
model-checked: the liveness properties (`EveryEventIsDecided`, `StopsWhenAsked`,
`CpusConverge`, `EveryUpdateArrives`, `ClientsAreServed`, `StopEnds`,
`ComesBack`), which need fairness and ENABLED. Their safety halves are proved
where they have one: `QuietRingIsEmpty`, `SettledScreensAreCurrent`.

Only proved, without a run of their own: `TypeOK` of `UcbLoop` and `CountsDown`;
`RecencyIsUnique`, on which `EvictionIsDeterministic` rests; `SelectionIsPossible`,
`AveragesAreEarned`, `DecisionIsUnique`, `EvictsOnlyForRoom`; `HeatCosts`;
`QuietRingIsEmpty`, `WindowsAreWhole`; `SettledScreensAreCurrent`;
`OnlyFaultsLose`. Those that are not in a module of the model are defined before
their theorem. `SelectionIsPossible` and `DecisionIsUnique` say that a call has a
result without ENABLED: they name the bucket and the action.

## Disagreements found

| Run | The repository says | The code does |
| --- | --- | --- |
| `torn_restart` (`RestartFindsMemory`) | `foverin.service:12` "Persist episodic memory across restarts" | `fs::write` (`mem:229`) truncates in place; a crash in the middle leaves a file that `open()` rejects, and every restart fails the same way |
| `sampler_doc` (`MetricsSincePreviousCall`) | `reward:47` "Read current counters and return metrics since the previous call." | a failed read of `/proc/stat` (`reward:52`) becomes a baseline of zeroes, and the next call returns the busy fraction since boot |
| `down_doc` (`DownIsShown`) | `README.md:144` "Daemon down → [ FATAL ]: FOVERIN DAEMON NOT REACHABLE" | only a failed connect at start shows it; a client that was attached and shows a state keeps that screen (`cli:33`). The run's trace is such a client |

## Precision

- Scores, rewards and EMAs of the memory are multiples of 1/10000, rounded down
  where `f32` rounds to nearest. The bonus table is computed from the code's
  formula. A tie of the model may be a difference in the last bit of an `f32`.
- The reward is exact: its weights and products have a common denominator. The
  busy fraction, the thermal penalty and the energy rate are rounded down to a
  multiple of `1/Unit`.
- CPU counters only grow in the model, although the kernel's iowait may decrease;
  the saturating subtraction of the code is kept, for the failed reads.
- Positions of the ring and the driver tick of tokio do not wrap: the code's
  reader would have to sleep through a whole cycle of either for it to matter.
- The scan of powercap finds one other node, with any reading of
  `OtherEnergies`; which node comes first is up to the directory.
- `README.md:74` says that the memory is persisted "on clean shutdown". That is
  `CleanStopPersists`, whose two exceptions (a failing flush, a task cut off with
  its budget spent) are reachable in the model.
- Four hazards have no property because the code, and what the repository says of
  it, leaves nothing to ask: a list of governors that changes under the daemon
  (`brain:105`), another powercap node (`reward:194`), a probe built for another
  kernel (`build:89`), and the length of a path (`ebpf:56`). A fifth is covered in
  part: `CreditIsForShown` allows the credit for a governor that no CPU took
  (`brain:195`) where the status says so. `PROJECT.json` has the note on each.
- The comment at `ebpf:29` says that `steam_app` is written when a child of
  steam runs an unknown binary; the code writes it for known ones too, and so
  does `Event`.
- No other program writes `scaling_governor` while the daemon runs; with one,
  `ShownIsInForce` is not something the code could ensure.
- Bounds are named constants: `MaxTick`, `MaxDirty`, `MaxEvents`, `MaxTotal`,
  `MaxFaults`, `MaxVersion`. They only stop TLC; the proofs hold for every value.

## What is not modelled

- Drawing of the TUI (`ui.rs` from line 109 on); wording of status lines;
  latency; the pacing of frames.
- Parsing of names, of `/proc/stat`, of thermal zones and powercap: a reading
  or no reading. A path longer than the 128 bytes of an event loses its end; the
  name in `Execs` is what is left.
- `apply_system_profile` and `governor_for_workload` (`act`): nothing calls
  them.
- The per-CPU scratch buffer of the probe: the kernel runs a tracepoint's program
  without preemption and no exec happens inside one, so a CPU fills it for one
  event at a time and has copied it to the ring before the next.
- How fast execs come: a producer as fast as the drain loop is `GetStuck` of
  `Lifecycle`, without a rate. `SensorRing` bounds the number of events.
- Two daemons at once, which would remove each other's socket: systemd runs one.
- The failure of `readable_mut`, which returns an error only when the runtime is
  gone; `setrlimit`; the choice of the memory path.
- `foverin/build.rs`, which calls the compiler for the probe.

## Plan

Done in this order: memory, loop of `select`, engine, sampler and reward, ring,
actuator and sensor loop, uplink; then fingerprint and lists of governors inside
the engine, the refinement of delayed credit proved, and the lifecycle; then the
proofs of what the runs had only checked, and of what no run asks (that a call
has exactly one result, that a loop ends, that a system at rest has shown and
read everything). What is left:

1. One module with all branches of `select!`: which governor is written and
   credited when the actuator fails, with the engine's own decisions, and the
   ring's events as the engine's windows. The parts meet in the interfaces
   above (a decision, a window), and none constrains the other's order.
2. `Uplink` over `Lifecycle`: clients that reconnect to the next daemon.
3. An abstract specification of unsaved credits that `EpisodeMemory` implements,
   as the ground of the counter with which `Lifecycle` stands for the memory.
