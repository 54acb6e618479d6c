-------------------------- MODULE SensorRingProofs --------------------------
(***************************************************************************)
(* SensorRing for every number of CPUs, slots and events: the ring's types *)
(* and bounds, the ownership of records, and that no wakeup is lost.       *)
(***************************************************************************)
EXTENDS SensorRing, TLAPS

-----------------------------------------------------------------------------
(* Types and ownership.  They are proved together: that a submitted record *)
(* lies in the ring needs the record to be its CPU's, and that the reader  *)
(* passes no record being filled needs the types.                          *)

\* A CPU that is inside reserve .. submit holds a record of the ring, BUSY
\* until it is submitted and in no other CPU's hands meanwhile.
Owned ==
  /\ \A c \in Cpus : submitted[c] => holds[c] # None
  /\ \A c \in Cpus : holds[c] # None =>
       /\ holds[c] < prod
       /\ submitted[c] <=> holds[c] \in committed
  /\ \A c, d \in Cpus : c # d /\ holds[c] # None => holds[d] # holds[c]

RingInv ==
  /\ RingTypeOK
  /\ Owned
  /\ loop = "item" => Readable

LEMMA RingInvInit == Init => RingInv
<1> SUFFICES ASSUME Init PROVE RingInv
  OBVIOUS
<1> USE RingAssumption
<1>1. RingTypeOK
  <2>1. 0 .. cons - 1 = {} /\ 0 .. prod - 1 = {}
    BY DEF Init
  <2>2. submitted \in [Cpus -> BOOLEAN]
    BY Zenon DEF Init
  <2>3. irq \in BOOLEAN /\ polled \in BOOLEAN /\ ready \in BOOLEAN
    BY DEF Init
  <2> QED
    BY <2>1, <2>2, <2>3 DEF Init, RingTypeOK
<1>2. Owned
  BY DEF Init, Owned
<1> QED
  BY <1>1, <1>2 DEF Init, RingInv

LEMMA RingInvNext == RingInv /\ [Next]_sensorVars => RingInv'
<1> SUFFICES ASSUME RingInv, [Next]_sensorVars
             PROVE  RingInv'
  OBVIOUS
<1> USE RingAssumption
<1>1. ASSUME NEW c \in Cpus, Reserve(c)
      PROVE  RingInv'
  <2>1. RingTypeOK'
    BY <1>1 DEF Reserve, HasRoom, RingInv, RingTypeOK, Positions, wakeVars, loopVars
  <2>2. Owned'
    BY <1>1 DEF Reserve, HasRoom, RingInv, RingTypeOK, Owned, Positions
  <2>3. (loop = "item" => Readable)'
    BY <1>1 DEF Reserve, HasRoom, RingInv, RingTypeOK, Readable, loopVars
  <2> QED
    BY <2>1, <2>2, <2>3 DEF RingInv
<1>2. ASSUME NEW c \in Cpus, Submit(c)
      PROVE  RingInv'
  <2>1. RingTypeOK'
    <3>1. submitted' \in [Cpus -> BOOLEAN]
      BY <1>2 DEF Submit, RingInv, RingTypeOK
    <3>2. holds[c] \in 0 .. prod - 1
      BY <1>2 DEF Submit, RingInv, RingTypeOK, Owned, Positions
    <3>3. committed' = committed \cup {holds[c]} /\ prod' = prod /\ cons' = cons
      BY <1>2 DEF Submit
    <3>4. committed' \subseteq 0 .. prod' - 1 /\ 0 .. cons' - 1 \subseteq committed'
      BY <3>2, <3>3 DEF RingInv, RingTypeOK
    <3> QED
      BY <1>2, <3>1, <3>4 DEF Submit, RingInv, RingTypeOK, wakeVars, loopVars
  <2>2. Owned'
    BY <1>2 DEF Submit, RingInv, RingTypeOK, Owned, Positions
  <2>3. (loop = "item" => Readable)'
    BY <1>2 DEF Submit, RingInv, Readable, loopVars
  <2> QED
    BY <2>1, <2>2, <2>3 DEF RingInv
<1>3. ASSUME NEW c \in Cpus, DecideWakeup(c)
      PROVE  RingInv'
  <2>1. RingTypeOK'
    BY <1>3 DEF DecideWakeup, RingInv, RingTypeOK, Positions, loopVars
  <2>2. Owned'
    BY <1>3 DEF DecideWakeup, RingInv, RingTypeOK, Owned, Positions
  <2>3. (loop = "item" => Readable)'
    BY <1>3 DEF DecideWakeup, RingInv, Readable, loopVars
  <2> QED
    BY <2>1, <2>2, <2>3 DEF RingInv
<1>4. ASSUME Consume
      PROVE  RingInv'
  <2>1. RingTypeOK'
    BY <1>4 DEF Consume, AfterItem, RingInv, RingTypeOK, Readable, wakeVars
  <2>2. Owned'
    BY <1>4 DEF Consume, AfterItem, RingInv, Owned
  <2> QED
    BY <1>4, <2>1, <2>2 DEF Consume, AfterItem, RingInv
<1>5. ASSUME Fire \/ Poll \/ Register \/ Wake \/ Item \/ NoItem
             \/ ClearReady \/ Tick
      PROVE  RingInv'
  <2>1. UNCHANGED ringVars
    BY <1>5 DEF Fire, Poll, Register, Wake, Item, NoItem, ClearReady, StillReady, Tick
  <2>2. RingTypeOK'
    <3>1. /\ irq' \in BOOLEAN
          /\ polled' \in BOOLEAN
          /\ ready' \in BOOLEAN
      BY <1>5 DEF Fire, Poll, Register, Wake, Item, NoItem, ClearReady, StillReady, Tick,
                  wakeVars, RingInv, RingTypeOK
    <3>2. stamp' \in Nat /\ seen' \in 0 .. stamp'
      BY <1>5 DEF Fire, Poll, Register, Wake, Item, NoItem, ClearReady, StillReady, Tick,
                  wakeVars, loopVars, RingInv, RingTypeOK
    <3>3. /\ decided' \in 0 .. cons'
          /\ loop' \in {"starting", "select", "drain", "item", "clear"}
      BY <1>5 DEF Fire, Poll, Register, Wake, Item, NoItem, ClearReady, StillReady, Tick,
                  ringVars, loopVars, RingInv, RingTypeOK
    <3> QED
      BY <2>1, <3>1, <3>2, <3>3 DEF ringVars, RingInv, RingTypeOK
  <2>3. Owned'
    BY <2>1 DEF RingInv, Owned, ringVars
  <2>4. (loop = "item" => Readable)'
    BY <1>5, <2>1 DEF Fire, Poll, Register, Wake, Item, NoItem, ClearReady, StillReady,
                      Tick, RingInv, Readable, ringVars, loopVars
  <2> QED
    BY <2>2, <2>3, <2>4 DEF RingInv
<1>6. ASSUME UNCHANGED sensorVars
      PROVE  RingInv'
  BY <1>6 DEF sensorVars, ringVars, wakeVars, loopVars, RingInv, RingTypeOK,
              Owned, Readable
<1> QED
  BY <1>1, <1>2, <1>3, <1>4, <1>5, <1>6 DEF Next

LEMMA RingInvariance == Spec => []RingInv
BY RingInvInit, RingInvNext, PTL DEF Spec

\* The ring holds at most Slots records and decided <= cons <= prod, whatever
\* the CPUs and the loop do (reserve in main.rs, the buffer in sensor_loop).
THEOREM TypeInvariance == Spec => []RingTypeOK
<1>1. RingInv => RingTypeOK
  BY DEF RingInv
<1> QED
  BY <1>1, RingInvariance, PTL

\* The reader passes no record a CPU still fills (the BUSY bit of the ring).
THEOREM Ownership == Spec => []RecordsAreOwned
<1>1. RingInv => RecordsAreOwned
  BY RingAssumption DEF RingInv, RingTypeOK, Owned, RecordsAreOwned, Positions
<1> QED
  BY <1>1, RingInvariance, PTL

-----------------------------------------------------------------------------
(* Wakeups.  While the loop drains it needs no wakeup: it looks again.  The *)
(* danger is between the last next() and clear_ready(), so the invariant    *)
(* says of that place what NoLostWakeup says of select!, with the readiness *)
(* that clear_ready() will keep.                                            *)

WakeInv ==
  /\ NoLostWakeup
  /\ loop = "clear" /\ Readable => (ready /\ stamp # seen) \/ WakeupUnderWay

LEMMA WakeInvInit == Init => WakeInv
BY RingAssumption DEF Init, WakeInv, NoLostWakeup, Readable

\* A step that leaves the ring and the wakeups alone leaves them alone.
LEMMA SameRing ==
  ASSUME UNCHANGED ringVars
  PROVE  (Readable' <=> Readable) /\ (UNCHANGED <<irq, polled>> =>
           (WakeupUnderWay' <=> WakeupUnderWay))
BY DEF ringVars, Readable, WakeupUnderWay

LEMMA WakeInvNext == RingInv /\ WakeInv /\ [Next]_sensorVars => WakeInv'
<1> SUFFICES ASSUME RingInv, WakeInv, [Next]_sensorVars
             PROVE  WakeInv'
  OBVIOUS
<1> USE RingAssumption
<1>1. ASSUME NEW c \in Cpus, Reserve(c)
      PROVE  WakeInv'
  <2>1. Readable' => Readable
    BY <1>1 DEF Reserve, HasRoom, RingInv, RingTypeOK, Readable
  <2>2. WakeupUnderWay => WakeupUnderWay'
    BY <1>1 DEF Reserve, HasRoom, RingInv, RingTypeOK, Owned, WakeupUnderWay, wakeVars
  <2> QED
    BY <1>1, <2>1, <2>2 DEF Reserve, HasRoom, WakeInv, NoLostWakeup, wakeVars, loopVars
<1>2. ASSUME NEW c \in Cpus, Submit(c)
      PROVE  WakeInv'
  <2>1. Readable' => Readable \/ WakeupUnderWay'
    BY <1>2 DEF Submit, RingInv, RingTypeOK, Readable, WakeupUnderWay
  <2>2. WakeupUnderWay => WakeupUnderWay'
    BY <1>2 DEF Submit, RingInv, RingTypeOK, WakeupUnderWay, wakeVars
  <2> QED
    BY <1>2, <2>1, <2>2 DEF Submit, WakeInv, NoLostWakeup, wakeVars, loopVars
<1>3. ASSUME NEW c \in Cpus, DecideWakeup(c)
      PROVE  WakeInv'
  <2>1. Readable' => Readable
    BY <1>3 DEF DecideWakeup, Readable
  <2>2. WakeupUnderWay => WakeupUnderWay'
    BY <1>3 DEF DecideWakeup, RingInv, RingTypeOK, WakeupUnderWay
  <2> QED
    BY <1>3, <2>1, <2>2 DEF DecideWakeup, WakeInv, NoLostWakeup, loopVars
<1>4. ASSUME Fire
      PROVE  WakeInv'
  <2>1. loop \in {"select", "clear"} => polled'
    BY <1>4 DEF Fire
  <2> QED
    BY <1>4, <2>1 DEF Fire, WakeInv, NoLostWakeup, WakeupUnderWay, loopVars
<1>5. ASSUME Poll
      PROVE  WakeInv'
  <2>1. Readable' => ready' /\ stamp' # seen'
    BY <1>5 DEF Poll, RingInv, RingTypeOK, Readable, ringVars, loopVars
  <2> QED
    BY <2>1 DEF WakeInv, NoLostWakeup
<1>6. CASE Register
  BY <1>6 DEF Register, WakeInv, NoLostWakeup, WakeupUnderWay
<1>7. CASE Wake
  BY <1>7 DEF Wake, WakeInv, NoLostWakeup
<1>8. CASE Item
  BY <1>8 DEF Item, WakeInv, NoLostWakeup
<1>9. CASE Consume
  BY <1>9 DEF Consume, AfterItem, WakeInv, NoLostWakeup
<1>10. CASE NoItem
  <2>1. ~ Readable'
    BY <1>10, SameRing DEF NoItem
  <2> QED
    BY <2>1 DEF WakeInv, NoLostWakeup
<1>11. CASE ClearReady
  <2>1. (Readable' <=> Readable) /\ (WakeupUnderWay' <=> WakeupUnderWay)
    BY <1>11, SameRing DEF ClearReady, StillReady
  <2> QED
    BY <1>11, <2>1 DEF ClearReady, StillReady, WakeInv, NoLostWakeup
<1>12. CASE Tick \/ UNCHANGED sensorVars
  <2>1. UNCHANGED <<ringVars, wakeVars, loop, seen>>
    BY <1>12 DEF Tick, sensorVars, loopVars
  <2>2. (Readable' <=> Readable) /\ (WakeupUnderWay' <=> WakeupUnderWay)
    BY <2>1, SameRing DEF wakeVars
  <2> QED
    BY <2>1, <2>2 DEF WakeInv, NoLostWakeup, wakeVars
<1> QED
  BY <1>1, <1>2, <1>3, <1>4, <1>5, <1>6, <1>7, <1>8, <1>9, <1>10, <1>11, <1>12
  DEF Next

\* The loop never sleeps on a ring it could read: a record submitted between
\* the last next() and clear_ready() keeps its wakeup (sensor_loop).
THEOREM Wakeups == Spec => []NoLostWakeup
<1>1. WakeInv => NoLostWakeup
  BY DEF WakeInv
<1> QED
  BY <1>1, RingInvariance, WakeInvInit, WakeInvNext, PTL DEF Spec

-----------------------------------------------------------------------------
(* What is left when everything has come to rest, and what a window holds. *)

\* A record that is still BUSY is in some CPU's hands.
BusyIsHeld == \A n \in 0 .. prod - 1 : n \in committed \/ \E c \in Cpus : holds[c] = n

LEMMA BusyIsHeldStep == RingInv /\ BusyIsHeld /\ [Next]_sensorVars => BusyIsHeld'
<1> SUFFICES ASSUME RingInv, BusyIsHeld, [Next]_sensorVars
             PROVE  BusyIsHeld'
  OBVIOUS
<1> USE RingAssumption
<1>0. prod \in Nat /\ holds \in [Cpus -> Positions \cup {None}]
  BY DEF RingInv, RingTypeOK
<1>1. ASSUME NEW c \in Cpus, Reserve(c) PROVE BusyIsHeld'
  <2>1. /\ holds[c] = None /\ holds' = [holds EXCEPT ![c] = prod]
        /\ prod' = prod + 1 /\ committed' = committed
    BY <1>1 DEF Reserve
  <2>2. ASSUME NEW n \in 0 .. prod
        PROVE  n \in committed \/ \E d \in Cpus : holds'[d] = n
    <3>1. CASE n = prod
      BY <1>0, <2>1, <3>1
    <3>2. CASE n # prod
      <4>1. n \in 0 .. prod - 1 /\ n # None
        BY <1>0, <3>2
      <4> QED
        BY <1>0, <2>1, <4>1 DEF BusyIsHeld
    <3> QED
      BY <3>1, <3>2
  <2> QED
    BY <1>0, <2>1, <2>2 DEF BusyIsHeld
<1>2. ASSUME NEW c \in Cpus, Submit(c) PROVE BusyIsHeld'
  BY <1>2 DEF Submit, BusyIsHeld
<1>3. ASSUME NEW c \in Cpus, DecideWakeup(c) PROVE BusyIsHeld'
  <2>1. holds[c] \in committed
    BY <1>3 DEF DecideWakeup, RingInv, Owned
  <2>2. /\ holds' = [holds EXCEPT ![c] = None]
        /\ prod' = prod /\ committed' = committed
    BY <1>3 DEF DecideWakeup
  <2> QED
    BY <1>0, <2>1, <2>2 DEF BusyIsHeld
<1>4. CASE UNCHANGED <<prod, committed, holds>>
  BY <1>4 DEF BusyIsHeld
<1>5. CASE \/ Fire \/ Poll \/ Register \/ Wake \/ Item \/ NoItem \/ ClearReady
           \/ Tick \/ Consume \/ UNCHANGED sensorVars
  <2>1. UNCHANGED <<prod, committed, holds>>
    BY <1>5 DEF Fire, Poll, Register, Wake, Item, NoItem, ClearReady, Tick, Consume,
                sensorVars, ringVars
  <2> QED
    BY <1>4, <2>1
<1> QED
  BY <1>1, <1>2, <1>3, <1>5 DEF Next

\* When the loop waits in select!, no CPU is inside reserve .. submit and no
\* wakeup is under way, then every event that got room has been read: nothing
\* stays behind in the ring until some later exec happens to wake the reader.
QuietRingIsEmpty ==
  loop = "select" /\ ~ ready /\ ~ irq /\ ~ polled
                  /\ (\A c \in Cpus : holds[c] = None) => cons = prod

\* A system at rest has read every event: what a lost wakeup, a record skipped
\* or one submitted out of order would break.
THEOREM QuietRing == Spec => []QuietRingIsEmpty
<1>1. Init => BusyIsHeld
  BY DEF Init, BusyIsHeld
<1>2. ASSUME RingInv, BusyIsHeld, NoLostWakeup PROVE QuietRingIsEmpty
  <2> SUFFICES ASSUME loop = "select", ~ ready, ~ irq, ~ polled,
                      \A c \in Cpus : holds[c] = None
               PROVE  cons = prod
    BY DEF QuietRingIsEmpty
  <2>1. ~ Readable
    <3>1. ~ WakeupUnderWay
      BY <1>2 DEF WakeupUnderWay, RingInv, Owned
    <3> QED
      BY <1>2, <3>1 DEF NoLostWakeup
  <2>2. prod \in Nat /\ cons \in 0 .. prod
    BY <1>2, RingAssumption DEF RingInv, RingTypeOK
  <2>3. cons < prod => cons \in committed
    <3>1. cons < prod => cons \in 0 .. prod - 1 /\ cons # None
      BY <2>2, RingAssumption
    <3> QED
      BY <1>2, <3>1 DEF BusyIsHeld
  <2> QED
    BY <2>1, <2>2, <2>3 DEF Readable
<1> QED
  BY <1>1, <1>2, RingInvariance, Wakeups, BusyIsHeldStep, PTL DEF Spec

\* The window of a tick is the events since the last one, in the order of the
\* ring, and each of them is whole: its CPU has submitted it.
WindowsAreWhole ==
  [][decided' # decided =>
       /\ decided' > decided
       /\ \A n \in decided .. decided' - 1 :
            n \in committed /\ \A c \in Cpus : holds[c] = n => submitted[c]]_sensorVars

\* No event is decided on twice, or before it was written.
THEOREM WholeWindows == Spec => WindowsAreWhole
<1> DEFINE Whole ==
      decided' # decided =>
        /\ decided' > decided
        /\ \A n \in decided .. decided' - 1 :
             n \in committed /\ \A c \in Cpus : holds[c] = n => submitted[c]
<1>1. ASSUME RingInv, [Next]_sensorVars PROVE Whole
  <2> SUFFICES ASSUME decided' # decided
               PROVE  /\ decided' > decided
                      /\ \A n \in decided .. decided' - 1 :
                           n \in committed /\ \A c \in Cpus : holds[c] = n => submitted[c]
    OBVIOUS
  <2>1. decided' = cons
    BY <1>1 DEF Next, Reserve, Submit, DecideWakeup, Fire, Poll, Register, Wake, Item,
                Consume, NoItem, ClearReady, Tick, loopVars, sensorVars
  <2>2. /\ prod \in Nat /\ cons \in 0 .. prod /\ decided \in 0 .. cons
        /\ 0 .. cons - 1 \subseteq committed
    BY <1>1, RingAssumption DEF RingInv, RingTypeOK
  <2>3. \A n \in decided .. cons - 1 : n \in committed /\ n # None
    BY <2>2, RingAssumption
  <2>4. \A n \in decided .. cons - 1, c \in Cpus : holds[c] = n => submitted[c]
    BY <1>1, <2>3 DEF RingInv, Owned
  <2> QED
    BY <2>1, <2>2, <2>3, <2>4
<1> QED
  BY <1>1, RingInvariance, PTL DEF Spec, WindowsAreWhole

=============================================================================
