-------------------------- MODULE LifecycleProofs --------------------------
(***************************************************************************)
(* Lifecycle for every save period, budget and number of faults.           *)
(***************************************************************************)
EXTENDS Lifecycle, TLAPS

-----------------------------------------------------------------------------
(* Types. *)

\* LifecycleTypeOK in the three parts that the provers take apart.
Flags ==
  /\ stuck \in BOOLEAN
  /\ accepting \in BOOLEAN
  /\ kept \in BOOLEAN
  /\ flushFailed \in BOOLEAN
  /\ cutOff \in BOOLEAN

Counts ==
  /\ budget \in 0 .. Budget
  /\ unsaved \in 0 .. SaveEvery + faults
  /\ faults \in 0 .. MaxFaults

Places ==
  /\ main \in Stopped \cup Starting \cup {"serving"} \cup Stopping
  /\ sensor \in {"none", "done"} \cup Waiting \cup Polled
  /\ (sensor = "none") <=> (main \in Stopped \cup {"opened", "unlinked", "bound"})
  /\ stuck => sensor = "working"
  /\ socket \in {"none", "live", "stale"}
  /\ file \in {"whole", "torn"}

LEMMA TypeInit == Init => LifecycleTypeOK
<1> SUFFICES ASSUME Init PROVE LifecycleTypeOK
  OBVIOUS
<1> USE LifecycleAssumption DEF Init
<1>1. Flags
  BY DEF Flags
<1>2. (sensor = "none") <=> (main \in Stopped \cup {"opened", "unlinked", "bound"})
  BY DEF Stopped
<1>3. Counts
  BY DEF Counts
<1> QED
  BY <1>1, <1>2, <1>3 DEF LifecycleTypeOK, Flags, Counts, Stopped

LEMMA TypeParts == LifecycleTypeOK <=> Flags /\ Counts /\ Places
BY Zenon DEF LifecycleTypeOK, Flags, Counts, Places

LEMMA FlagsStep == Flags /\ [Next]_vars => Flags'
<1> SUFFICES ASSUME Flags, [Next]_vars PROVE Flags'
  OBVIOUS
<1> USE DEF Flags
<1>1. stuck' \in BOOLEAN
  BY Zenon
  DEF Next, Advance, Poll, Open, OpenFails, Unlink, Bind, Attach, Serve, Die,
      AcceptFails, StartFails, Kill, Wake, Park, Yield, Drain, Tick, SaveEnds,
      WorkEnds, GetStuck, FlushBegins, FlushEnds, Signal, Join, Leave, End,
      RemoveSocket, vars, taskVars, socketVars, memoryVars
<1>2. accepting' \in BOOLEAN
  BY Zenon
  DEF Next, Advance, Poll, Open, OpenFails, Unlink, Bind, Attach, Serve, Die,
      AcceptFails, StartFails, Kill, Wake, Park, Yield, Drain, Tick, SaveEnds,
      WorkEnds, GetStuck, FlushBegins, FlushEnds, Signal, Join, Leave, End,
      RemoveSocket, vars, taskVars, socketVars, memoryVars
<1>3. kept' \in BOOLEAN
  BY Zenon
  DEF Next, Advance, Poll, Open, OpenFails, Unlink, Bind, Attach, Serve, Die,
      AcceptFails, StartFails, Kill, Wake, Park, Yield, Drain, Tick, SaveEnds,
      WorkEnds, GetStuck, FlushBegins, FlushEnds, Signal, Join, Leave, End,
      RemoveSocket, vars, taskVars, socketVars, memoryVars
<1>4. flushFailed' \in BOOLEAN
  BY Zenon
  DEF Next, Advance, Poll, Open, OpenFails, Unlink, Bind, Attach, Serve, Die,
      AcceptFails, StartFails, Kill, Wake, Park, Yield, Drain, Tick, SaveEnds,
      WorkEnds, GetStuck, FlushBegins, FlushEnds, Signal, Join, Leave, End,
      RemoveSocket, vars, taskVars, socketVars, memoryVars
<1>5. cutOff' \in BOOLEAN
  BY Zenon
  DEF Next, Advance, Poll, Open, OpenFails, Unlink, Bind, Attach, Serve, Die,
      AcceptFails, StartFails, Kill, Wake, Park, Yield, Drain, Tick, SaveEnds,
      WorkEnds, GetStuck, FlushBegins, FlushEnds, Signal, Join, Leave, End,
      RemoveSocket, vars, taskVars, socketVars, memoryVars
<1> QED
  BY <1>1, <1>2, <1>3, <1>4, <1>5

\* Each credit past the period is one whose save, or an earlier one, failed.
Below == sensor # "saving" => unsaved < SaveEvery + faults

LEMMA BelowInit == Init => Below
BY LifecycleAssumption DEF Init, Below

LEMMA CountsStep ==
  Counts /\ Below /\ Places /\ [Next]_vars => Counts' /\ Below'
<1> SUFFICES ASSUME Counts, Below, Places, [Next]_vars PROVE Counts' /\ Below'
  OBVIOUS
<1> USE LifecycleAssumption DEF Counts, Below, Fault, taskVars,
        socketVars, memoryVars
<1>1. CASE Open \/ OpenFails
  BY <1>1 DEF Open, OpenFails, vars
<1>2. CASE Advance
  BY <1>2 DEF Advance, Unlink, Bind, Attach, Serve, Leave, End, RemoveSocket, Orphaned, Polled,
                Places, Stopped
<1>3. CASE StartFails \/ Kill \/ AcceptFails
  BY <1>3 DEF StartFails, Kill, Die, AcceptFails, Orphaned
<1>4. CASE Wake \/ Park \/ Yield \/ Drain \/ WorkEnds \/ GetStuck \/ Signal \/ Join
  <2>1. /\ sensor # "saving" \/ UNCHANGED sensor
        /\ UNCHANGED <<unsaved, faults>>
    BY <1>4 DEF Waiting, Selects, Wake, Park, Yield, Drain, WorkEnds, GetStuck, Signal, Join
  <2>2. budget' \in 0 .. Budget
    BY <1>4 DEF Selects, Wake, Park, Yield, Drain, WorkEnds, GetStuck, Signal, Join
  <2> QED
    BY <2>1, <2>2
<1>5. CASE Tick
  BY <1>5 DEF Selects, Tick, Truncate, SaveIsDue
<1>6. CASE SaveEnds
  BY <1>6 DEF SaveEnds, Fill
<1>7. CASE FlushBegins \/ FlushEnds
  BY <1>7 DEF Selects, FlushBegins, FlushEnds, Truncate, Fill
<1>8. CASE UNCHANGED vars
  BY <1>8 DEF vars
<1> QED
  BY <1>1, <1>2, <1>3, <1>4, <1>5, <1>6, <1>7, <1>8 DEF Next, Poll

LEMMA PlacesStep == Flags /\ Places /\ [Next]_vars => Places'
<1> SUFFICES ASSUME Flags, Places, [Next]_vars PROVE Places'
  OBVIOUS
<1> USE DEF Places, Stopped, Starting, Stopping, Polled, Waiting, taskVars,
        socketVars, memoryVars
<1>1. CASE Open \/ OpenFails
  BY <1>1 DEF Open, OpenFails, vars
<1>2. CASE Unlink \/ Bind \/ Attach \/ Serve
  BY <1>2 DEF Unlink, Bind, Attach, Serve, RemoveSocket
<1>3. CASE StartFails \/ Kill \/ AcceptFails
  BY <1>3 DEF StartFails, Kill, Die, AcceptFails, Orphaned
<1>4. CASE Wake \/ Park \/ Yield \/ Drain
  BY <1>4 DEF Selects, Wake, Park, Yield, Drain
<1>5. CASE WorkEnds
  BY <1>5 DEF WorkEnds
<1>6. CASE GetStuck
  BY <1>6 DEF GetStuck
<1>7. CASE Tick
  BY <1>7 DEF Selects, Tick, Truncate
<1>8. CASE SaveEnds
  BY <1>8 DEF SaveEnds, Fill
<1>9. CASE FlushBegins \/ FlushEnds
  BY <1>9 DEF Selects, FlushBegins, FlushEnds, Truncate, Fill
<1>10. CASE Signal \/ Join \/ Leave \/ End
  BY <1>10 DEF Signal, Join, Leave, End, RemoveSocket, Orphaned
<1>11. CASE UNCHANGED vars
  BY <1>11 DEF vars
<1> QED
  BY <1>1, <1>2, <1>3, <1>4, <1>5, <1>6, <1>7, <1>8, <1>9, <1>10, <1>11
  DEF Next, Advance, Poll

\* main, the task and the memory's file keep their types; what is unsaved is
\* bounded by the save period and the faults.
THEOREM TypeInvariance == Spec => []LifecycleTypeOK
BY TypeInit, TypeParts, BelowInit, FlagsStep, CountsStep, PlacesStep,
   PTL DEF Spec

-----------------------------------------------------------------------------
(* The socket. *)

\* What main's place says of the socket, whoever left it.
SocketInv ==
  /\ main \in Listening /\ accepting => socket = "live"
  /\ main \in {"dropping", "ended"} => socket = "none" \/ kept
  /\ accepting => main \in Listening \cup {"dropping"}
  /\ socket = "live" => accepting

LEMMA SocketStep == Places /\ SocketInv /\ [Next]_vars => SocketInv'
<1> SUFFICES ASSUME Places, SocketInv, [Next]_vars PROVE SocketInv'
  OBVIOUS
<1> USE DEF SocketInv, Listening, Stopped, Starting, Stopping, taskVars,
        socketVars, memoryVars
<1>1. CASE Open \/ OpenFails
  BY <1>1 DEF Open, OpenFails, vars
<1>2. CASE Unlink \/ Bind \/ Attach \/ Serve
  BY <1>2 DEF Unlink, Bind, Attach, Serve, RemoveSocket
<1>3. CASE StartFails \/ Kill \/ AcceptFails
  BY <1>3 DEF StartFails, Kill, Die, AcceptFails, Orphaned
<1>4. CASE Wake \/ Park \/ Yield \/ Drain \/ Tick \/ SaveEnds \/ WorkEnds \/ GetStuck
  BY <1>4 DEF Selects, Wake, Park, Yield, Drain, Tick, SaveEnds, WorkEnds, GetStuck
<1>5. CASE FlushBegins \/ FlushEnds
  BY <1>5 DEF Selects, FlushBegins, FlushEnds
<1>6. CASE Signal \/ Join \/ Leave \/ End
  BY <1>6 DEF Signal, Join, Leave, End, RemoveSocket, Orphaned
<1>7. CASE UNCHANGED vars
  BY <1>7 DEF vars
<1> QED
  BY <1>1, <1>2, <1>3, <1>4, <1>5, <1>6, <1>7 DEF Next, Advance, Poll

\* Whatever an earlier process left at the path, it leads to the accept loop
\* while one runs, and a stop leaves nothing there that it could remove.
THEOREM SocketInvariance == Spec => []SocketIsOfListener
<1>1. Init => SocketInv
  BY DEF Init, SocketInv, Listening
<1>2. SocketInv => SocketIsOfListener
  BY DEF SocketInv, SocketIsOfListener
<1>3. LifecycleTypeOK => Places
  BY TypeParts
<1> QED
  BY <1>1, <1>2, <1>3, TypeInvariance, SocketStep, PTL DEF Spec

-----------------------------------------------------------------------------
(* The flush. *)

Persisted == flushFailed \/ (unsaved = 0 /\ file = "whole")

\* The task ends only by a flush; main leaves only over a task that has ended
\* or is inside its poll, and the runtime waits for that poll, which ends in
\* the flush or with the budget.
StopInv ==
  /\ sensor = "done" => main \in Stopping /\ Persisted
  /\ sensor = "flushing" => main \in Stopping /\ file = "torn"
  /\ main \in {"leaving", "dropping"} => sensor \in {"done", "yielded"} \cup Polled
  /\ main = "ended" => cutOff \/ Persisted

LEMMA StopStep == Flags /\ Places /\ StopInv /\ [Next]_vars => StopInv'
<1> SUFFICES ASSUME Flags, Places, StopInv, [Next]_vars PROVE StopInv'
  OBVIOUS
<1> USE DEF StopInv, Persisted, Places, Stopped, Starting, Stopping, Polled, Waiting,
            taskVars, socketVars, memoryVars
<1>1. CASE Open \/ OpenFails
  BY <1>1 DEF Open, OpenFails, vars
<1>2. CASE Unlink \/ Bind \/ Attach \/ Serve
  BY <1>2 DEF Unlink, Bind, Attach, Serve, RemoveSocket
<1>3. CASE StartFails \/ Kill \/ AcceptFails
  BY <1>3 DEF StartFails, Kill, Die, AcceptFails, Orphaned
<1>4. CASE Wake \/ Park \/ Yield \/ Drain \/ WorkEnds \/ GetStuck
  BY <1>4 DEF Selects, Wake, Park, Yield, Drain, WorkEnds, GetStuck
<1>5. CASE Tick
  BY <1>5 DEF Selects, Tick, Truncate
<1>6. CASE SaveEnds
  BY <1>6 DEF SaveEnds, Fill
<1>7. CASE FlushBegins
  BY <1>7 DEF Selects, FlushBegins, Truncate
<1>8. CASE FlushEnds
  BY <1>8 DEF FlushEnds, Fill
<1>9. CASE Signal \/ Join \/ Leave \/ End
  BY <1>9 DEF Signal, Join, Joined, Leave, End, RemoveSocket, Orphaned
<1>10. CASE UNCHANGED vars
  BY <1>10 DEF vars
<1> QED
  BY <1>1, <1>2, <1>3, <1>4, <1>5, <1>6, <1>7, <1>8, <1>9, <1>10
  DEF Next, Advance, Poll

\* A stop by a signal keeps everything learned, whatever the task was doing and
\* also past the limit of the join, unless the flush itself failed or the task
\* was cut off with its budget spent.
THEOREM StopPersists == Spec => []CleanStopPersists
<1>1. Init => StopInv
  BY DEF Init, StopInv
<1>2. StopInv => CleanStopPersists
  BY DEF StopInv, Persisted, CleanStopPersists
<1>3. LifecycleTypeOK => Flags /\ Places
  BY TypeParts
<1> QED
  BY <1>1, <1>2, <1>3, TypeInvariance, StopStep, PTL DEF Spec

-----------------------------------------------------------------------------
(* Without faults nothing is ever lost. *)

\* As long as no write has failed and nothing was killed, the memory file is
\* whole whenever the task is not inside fs::write, less than a save period is
\* unsaved except in a save, and a stop whose task was not cut off leaves
\* nothing unsaved: starts, busy or hanging tasks, signals at any moment and
\* joins that time out cost nothing.
OnlyFaultsLose ==
  faults = 0 =>
    /\ file = "torn" => sensor \in {"saving", "flushing"}
    /\ sensor # "saving" => unsaved < SaveEvery
    /\ \/ sensor = "done"
       \/ main = "ended" /\ ~ cutOff
       => unsaved = 0 /\ file = "whole"

LEMMA OnlyFaultsStep ==
  ASSUME Flags, Counts, Places, StopInv, Below', OnlyFaultsLose, [Next]_vars
  PROVE  OnlyFaultsLose'
<1> USE LifecycleAssumption
    DEF OnlyFaultsLose, Counts, Below, Places, Fault, Polled, Waiting, Stopped, Starting,
        Stopping, taskVars,
        socketVars, memoryVars
<1>1. CASE Open \/ OpenFails
  BY <1>1 DEF Open, OpenFails, vars
<1>2. CASE Unlink \/ Bind \/ Attach \/ Serve
  BY <1>2 DEF Unlink, Bind, Attach, Serve, RemoveSocket
<1>3. CASE StartFails \/ Kill \/ AcceptFails
  BY <1>3 DEF StartFails, Kill, Die, AcceptFails, Orphaned
<1>4. CASE Wake \/ Park \/ Yield \/ Drain \/ WorkEnds \/ GetStuck
  BY <1>4 DEF Selects, Wake, Park, Yield, Drain, WorkEnds, GetStuck
<1>5. CASE Tick
  BY <1>5 DEF Selects, Tick, Truncate
<1>6. CASE SaveEnds
  BY <1>6 DEF SaveEnds, Fill
<1>7. CASE FlushBegins
  BY <1>7 DEF Selects, FlushBegins, Truncate
<1>8. CASE FlushEnds
  BY <1>8 DEF FlushEnds, Fill
<1>9. CASE Signal \/ Join \/ Leave
  BY <1>9 DEF Signal, Join, Joined, Leave, RemoveSocket
<1>10. CASE End
  BY <1>10 DEF End, Orphaned, StopInv
<1>11. CASE UNCHANGED vars
  BY <1>11 DEF vars
<1> QED
  BY <1>1, <1>2, <1>3, <1>4, <1>5, <1>6, <1>7, <1>8, <1>9, <1>10, <1>11
  DEF Next, Advance, Poll

\* What a daemon has learned is lost, or its file spoilt, only by a kill, a
\* failing start, a failing write, or past the limit of the join a spent budget.
THEOREM FaultsAlone == Spec => []OnlyFaultsLose
<1>1. Init => OnlyFaultsLose
  BY LifecycleAssumption DEF Init, OnlyFaultsLose
<1>2. Init => StopInv
  BY DEF Init, StopInv
<1>3. LifecycleTypeOK => Flags /\ Counts /\ Places
  BY TypeParts
<1> QED
  BY <1>1, <1>2, <1>3, TypeInvariance, BelowInit, CountsStep, StopStep, OnlyFaultsStep,
     PTL DEF Spec

=============================================================================
