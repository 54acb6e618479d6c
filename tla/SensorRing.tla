----------------------------- MODULE SensorRing -----------------------------
(***************************************************************************)
(* The way of an exec event from the probe of foverin-ebpf/src/main.rs to  *)
(* the window that foverin-daemon.rs hands to decide(): the BPF ring       *)
(* buffer EVENTS, which CPUs fill by reserving and submitting records; the *)
(* wakeup of the consumer, which passes through the kernel, epoll and the  *)
(* readiness of tokio's AsyncFd; and the sensor loop, which drains the     *)
(* ring, clears the readiness, and takes the buffer at every tick.         *)
(*                                                                         *)
(* A record is its position in the ring, counted from 0 without wrapping.  *)
(* The ring, aya's reader and tokio are modelled from how the code uses    *)
(* them.                                                                   *)
(***************************************************************************)
EXTENDS Integers

CONSTANTS
  Cpus,        \* the CPUs that exec
  Slots,       \* records that fit in the 256 KiB of EVENTS
  MaxEvents,   \* bound: records ever reserved
  None         \* a CPU is not inside reserve .. submit

ASSUME RingAssumption ==
  /\ Slots \in Nat \ {0}
  /\ MaxEvents \in Nat
  /\ None \notin Nat

VARIABLES
  prod,        \* the next position reserve() hands out
  committed,   \* positions whose BUSY bit is off
  cons,        \* the next position the reader looks at
  holds,       \* per CPU: the position it is filling or has submitted
  submitted,   \* per CPU: the bit is off and the wakeup not yet decided
  irq,         \* the kernel's wakeup work is queued
  polled,      \* epoll will look at the ring
  ready,       \* the readiness of the AsyncFd
  stamp,       \* the driver tick that readiness carries; tokio keeps its low
               \* bits, which a drain would have to outlast to matter
  loop,        \* where the sensor loop is
  seen,        \* the driver tick in the loop's guard
  decided      \* events before this one were in a window of decide();
               \* buffer is decided .. cons - 1

ringVars == <<prod, committed, cons, holds, submitted>>
wakeVars == <<irq, polled, ready, stamp>>
loopVars == <<loop, seen, decided>>
sensorVars == <<ringVars, wakeVars, loopVars>>

Positions == 0 .. MaxEvents - 1

\* The reader finds a record: next() returns an item.
Readable == cons < prod /\ cons \in committed

-----------------------------------------------------------------------------
(* The probe, on each CPU. *)

\* Mutant of HasRoom: for one record too many.
HasRoomForOneMore == prod - cons <= Slots

HasRoom == prod - cons < Slots

\* EVENTS.reserve: the record is BUSY.  A full ring drops the event, which
\* changes nothing.
Reserve(c) ==
  /\ holds[c] = None
  /\ prod < MaxEvents
  /\ HasRoom
  /\ holds' = [holds EXCEPT ![c] = prod]
  /\ prod' = prod + 1
  /\ UNCHANGED <<committed, cons, submitted, wakeVars, loopVars>>

\* entry.write and the first half of entry.submit(0): the BUSY bit goes off.
Submit(c) ==
  /\ holds[c] # None
  /\ ~ submitted[c]
  /\ committed' = committed \cup {holds[c]}
  /\ submitted' = [submitted EXCEPT ![c] = TRUE]
  /\ UNCHANGED <<prod, cons, holds, wakeVars, loopVars>>

\* The second half: the flags 0 wake the consumer only if it has caught up
\* with this very record.
DecideWakeup(c) ==
  /\ holds[c] # None
  /\ submitted[c]
  /\ irq' = (irq \/ cons = holds[c])
  /\ holds' = [holds EXCEPT ![c] = None]
  /\ submitted' = [submitted EXCEPT ![c] = FALSE]
  /\ UNCHANGED <<prod, committed, cons, polled, ready, stamp, loopVars>>

-----------------------------------------------------------------------------
(* The wakeup. *)

\* The queued work wakes whoever waits on the ring: epoll, once registered.
Fire ==
  /\ irq
  /\ irq' = FALSE
  /\ polled' = (polled \/ loop # "starting")
  /\ UNCHANGED <<ringVars, ready, stamp, loopVars>>

\* tokio's driver gets the edge if epoll finds data in the ring.
Poll ==
  /\ polled
  /\ polled' = FALSE
  /\ IF prod # cons
     THEN ready' = TRUE /\ stamp' = stamp + 1
     ELSE UNCHANGED <<ready, stamp>>
  /\ UNCHANGED <<ringVars, irq, loopVars>>

-----------------------------------------------------------------------------
(* The sensor loop. *)

\* AsyncFd::with_interest, after the probe was attached: epoll looks at the
\* ring when it is added.
Register ==
  /\ loop = "starting"
  /\ polled' = TRUE
  /\ loop' = "select"
  /\ UNCHANGED <<ringVars, irq, ready, stamp, seen, decided>>

\* The branch readable_mut() of select!.
Wake ==
  /\ loop = "select"
  /\ ready
  /\ seen' = stamp
  /\ loop' = "drain"
  /\ UNCHANGED <<ringVars, wakeVars, decided>>

\* Mutant of Item: the record is taken although its CPU still fills it.
ItemUnfinished ==
  /\ loop = "drain"
  /\ cons < prod
  /\ loop' = "item"
  /\ UNCHANGED <<ringVars, wakeVars, seen, decided>>

\* ring_buf.next() returns an item.
Item ==
  /\ loop = "drain"
  /\ Readable
  /\ loop' = "item"
  /\ UNCHANGED <<ringVars, wakeVars, seen, decided>>

\* Mutant of AfterItem: "if let" instead of "while let".
AfterItemDone == "clear"

AfterItem == "drain"

\* The event goes to the buffer, and the item is dropped: the ring is told.
Consume ==
  /\ loop = "item"
  /\ cons' = cons + 1
  /\ loop' = AfterItem
  /\ UNCHANGED <<prod, committed, holds, submitted, wakeVars, seen, decided>>

\* ring_buf.next() returns None: the ring is empty or its next record BUSY.
NoItem ==
  /\ loop = "drain"
  /\ ~ Readable
  /\ loop' = "clear"
  /\ UNCHANGED <<ringVars, wakeVars, seen, decided>>

\* Mutant of StillReady: whatever became ready since is cleared too.
StillReadyNever == FALSE

\* What became ready after the guard was made stays.
StillReady == ready /\ stamp # seen

\* guard.clear_ready()
ClearReady ==
  /\ loop = "clear"
  /\ ready' = StillReady
  /\ loop' = "select"
  /\ UNCHANGED <<ringVars, irq, polled, stamp, seen, decided>>

\* The branch tick.tick() of select!: the buffer is taken and decided on.
Tick ==
  /\ loop = "select"
  /\ decided' = cons
  /\ UNCHANGED <<ringVars, wakeVars, loop, seen>>

-----------------------------------------------------------------------------
Init ==
  /\ prod = 0
  /\ committed = {}
  /\ cons = 0
  /\ holds = [c \in Cpus |-> None]
  /\ submitted = [c \in Cpus |-> FALSE]
  /\ irq = FALSE
  /\ polled = FALSE
  /\ ready = FALSE
  /\ stamp = 0
  /\ loop = "starting"
  /\ seen = 0
  /\ decided = 0

Next ==
  \/ \E c \in Cpus : Reserve(c) \/ Submit(c) \/ DecideWakeup(c)
  \/ Fire
  \/ Poll
  \/ Register
  \/ Wake
  \/ Item
  \/ Consume
  \/ NoItem
  \/ ClearReady
  \/ Tick

Spec == Init /\ [][Next]_sensorVars

\* A probe that has reserved submits, the kernel and the driver run, and so
\* does the loop's task; the interval fires every AGGREGATE_WINDOW.  Nothing
\* has to be executed: Reserve is not fair.
Fairness ==
  /\ \A c \in Cpus : WF_sensorVars(Submit(c)) /\ WF_sensorVars(DecideWakeup(c))
  /\ WF_sensorVars(Fire)
  /\ WF_sensorVars(Poll)
  /\ WF_sensorVars(Register \/ Item \/ Consume \/ NoItem \/ ClearReady)
  /\ WF_sensorVars(Wake)
  /\ WF_sensorVars(Tick)

FairSpec == Spec /\ Fairness

-----------------------------------------------------------------------------
(* Properties. *)

\* The ring never holds more than Slots records, and events are decided on
\* after they were read, read after they were reserved.
RingTypeOK ==
  /\ prod \in 0 .. MaxEvents
  /\ cons \in 0 .. prod
  /\ prod - cons <= Slots
  /\ decided \in 0 .. cons
  /\ committed \subseteq 0 .. prod - 1
  /\ 0 .. cons - 1 \subseteq committed
  /\ holds \in [Cpus -> Positions \cup {None}]
  /\ submitted \in [Cpus -> BOOLEAN]
  /\ irq \in BOOLEAN
  /\ polled \in BOOLEAN
  /\ ready \in BOOLEAN
  /\ stamp \in Nat
  /\ seen \in 0 .. stamp
  /\ loop \in {"starting", "select", "drain", "item", "clear"}

\* A wakeup for the reader is under way somewhere between a CPU and epoll.
WakeupUnderWay ==
  \/ irq
  \/ polled
  \/ \E c \in Cpus : submitted[c] /\ holds[c] = cons

\* The loop never sleeps on a ring it could read: if it waits in select! while
\* next() would return an item, its readiness is set or will be.
NoLostWakeup == loop = "select" /\ Readable => ready \/ WakeupUnderWay

\* No CPU fills a record that the reader has passed or another CPU fills, so
\* an event reaches the buffer whole.
RecordsAreOwned ==
  \A c \in Cpus : holds[c] # None /\ ~ submitted[c] =>
    /\ holds[c] >= cons
    /\ \A d \in Cpus \ {c} : holds[d] # holds[c]

\* Every event that got room in the ring is in a window of decide() at last,
\* also one submitted out of order or while the loop drains or clears.
EveryEventIsDecided ==
  \A n \in Positions : (n < prod) ~> (n < decided)

=============================================================================
