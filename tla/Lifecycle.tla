----------------------------- MODULE Lifecycle -----------------------------
(***************************************************************************)
(* A daemon from start to end and back: main() of foverin-daemon.rs with   *)
(* the socket file, the accept loop, the sensor task as the runtime polls  *)
(* it, the shutdown message, the join with its 3 s limit, the runtime that *)
(* waits for a poll in progress, and the service manager that starts the   *)
(* next process.                                                           *)
(*                                                                         *)
(* Of the memory only what a stop can lose is kept: the credits that are   *)
(* not in the file, and whether the file can be read.  EpisodeMemory.tla   *)
(* has the rest.  tokio and systemd are modelled from how they are used.   *)
(***************************************************************************)
EXTENDS Integers

CONSTANTS
  SaveEvery,   \* SAVE_EVERY
  Budget,      \* branches of select! that tokio lets a task take in one poll
  MaxFaults    \* bound: failures and kills

ASSUME LifecycleAssumption ==
  /\ SaveEvery \in Nat \ {0}
  /\ Budget \in Nat \ {0}
  /\ MaxFaults \in Nat

VARIABLES
  main,        \* where main() is; "down" after a death, "ended" after a stop
  sensor,      \* where the sensor task is
  stuck,       \* its poll does not return: a write to sysfs hangs, or the
               \* events come as fast as the drain loop takes them
  budget,      \* branches it may still take in this poll
  accepting,   \* the accept loop runs
  socket,      \* SOCKET_PATH: "none", "live" if it leads to the accept loop,
               \* or "stale"
  kept,        \* history: this process failed to remove the path
  unsaved,     \* credits that are not in the memory file
  file,        \* the memory file: "whole" or "torn"
  flushFailed, \* history: the flush of this process failed
  cutOff,      \* history: its task was dropped when it had yielded
  faults       \* how many faults happened

taskVars   == <<sensor, stuck, budget>>
socketVars == <<accepting, socket, kept>>
memoryVars == <<unsaved, file, flushFailed, cutOff>>
vars == <<main, taskVars, socketVars, memoryVars, faults>>

Fault == faults < MaxFaults /\ faults' = faults + 1

Stopped   == {"down", "ended"}
Starting  == {"opened", "unlinked", "bound", "attached"}
Stopping  == {"joining", "leaving", "dropping"}
Listening == {"bound", "attached", "serving", "joining", "leaving"}

\* The task is between two polls; it has "yielded" if a branch was ready.
Waiting == {"idle", "yielded"}

\* The runtime is inside the sensor task's poll, which has no await but
\* select!, and select! ends the poll only if no branch of it is ready or the
\* budget is spent.
Polled == {"select", "working", "saving", "flushing"}

-----------------------------------------------------------------------------
(* main(), up to the signal. *)

\* PolicyEngine::open.
Open ==
  /\ main \in Stopped
  /\ file = "whole"
  /\ main' = "opened"
  /\ unsaved' = 0
  /\ flushFailed' = FALSE
  /\ cutOff' = FALSE
  /\ kept' = FALSE
  /\ UNCHANGED <<taskVars, accepting, socket, file, faults>>

\* On a torn file it fails, and so does every later start: nothing changes.
OpenFails == main \in Stopped /\ file = "torn" /\ UNCHANGED vars

\* Mutant of RemoveSocket: the path is left as it is.
KeepSocket == UNCHANGED <<socket, kept, faults>>

\* fs::remove_file: an error is ignored, and the path stays.
RemoveSocket ==
  \/ socket' = "none" /\ UNCHANGED <<kept, faults>>
  \/ socket # "none" /\ Fault /\ kept' = TRUE /\ UNCHANGED socket

\* bind_uds: remove_file ...
Unlink ==
  /\ main = "opened"
  /\ main' = "unlinked"
  /\ RemoveSocket
  /\ UNCHANGED <<taskVars, accepting, memoryVars>>

\* ... and bind, which fails if the path exists.  The accept loop is spawned.
Bind ==
  /\ main = "unlinked"
  /\ IF socket = "none"
     THEN main' = "bound" /\ socket' = "live" /\ accepting' = TRUE
     ELSE main' = "down" /\ UNCHANGED <<socket, accepting>>
  /\ UNCHANGED <<taskVars, kept, memoryVars, faults>>

\* The probe is loaded and attached, and the sensor task spawned.  The first
\* tick of its interval is ready at once, and costs one of the budget.
Attach ==
  /\ main = "bound"
  /\ main' = "attached"
  /\ sensor' = "select"
  /\ budget' = Budget - 1
  /\ UNCHANGED <<stuck, socketVars, memoryVars, faults>>

\* publish_snapshot, and select! over the signals, which installs handlers.
Serve ==
  /\ main = "attached"
  /\ main' = "serving"
  /\ UNCHANGED <<taskVars, socketVars, memoryVars, faults>>

\* The path outlives its listener.
Orphaned == socket' = IF socket = "live" THEN "stale" ELSE socket

\* accept() fails, as when descriptors run out: the accept loop returns the
\* error and drops the listener, and nothing else takes notice.
AcceptFails ==
  /\ main \in Listening
  /\ accepting
  /\ Fault
  /\ accepting' = FALSE
  /\ Orphaned
  /\ UNCHANGED <<main, taskVars, kept, memoryVars>>

\* What a death leaves on the file system.
Die ==
  /\ main' = "down"
  /\ sensor' = "none"
  /\ stuck' = FALSE
  /\ accepting' = FALSE
  /\ Orphaned
  /\ UNCHANGED <<budget, kept, memoryVars>>

\* A "?" of main returns an error while there is no sensor task yet.
StartFails == main \in {"opened", "unlinked", "bound"} /\ Fault /\ Die

\* SIGKILL, power loss, or a signal before its handler is installed.
Kill == main \notin Stopped /\ Fault /\ Die

-----------------------------------------------------------------------------
(* The sensor task. *)

\* A waker of the task has fired: the interval, the ring or the shutdown, or
\* the task's own as it yielded.  A runtime that is being dropped polls
\* nothing any more.
Wake ==
  /\ sensor \in Waiting
  /\ main # "dropping"
  /\ sensor' = "select"
  /\ budget' = Budget
  /\ UNCHANGED <<main, stuck, socketVars, memoryVars, faults>>

\* select! looks at its branches, which it does while budget is left.
Selects == sensor = "select" /\ budget > 0

\* No branch is ready.
Park ==
  /\ Selects
  /\ main \notin Stopping
  /\ sensor' = "idle"
  /\ UNCHANGED <<main, stuck, budget, socketVars, memoryVars, faults>>

\* The budget is spent: select! returns without a look at its branches.
Yield ==
  /\ sensor = "select"
  /\ budget = 0
  /\ sensor' = "yielded"
  /\ UNCHANGED <<main, stuck, budget, socketVars, memoryVars, faults>>

\* The readable branch.
Drain ==
  /\ Selects
  /\ sensor' = "working"
  /\ budget' = budget - 1
  /\ UNCHANGED <<main, stuck, socketVars, memoryVars, faults>>

\* The call of fs::write in save(): it cannot open the file, or truncates it.
Truncate(writing, failed) ==
  \/ file' = "torn" /\ sensor' = writing /\ UNCHANGED faults
  \/ Fault /\ sensor' = failed /\ UNCHANGED file

\* The rest of it: the file is filled, or stays as it is.
Fill(next) ==
  /\ sensor' = next
  /\ \/ file' = "whole" /\ unsaved' = 0 /\ UNCHANGED faults
     \/ Fault /\ UNCHANGED <<file, unsaved>>

\* Mutant of SaveIsDue: one credit late.
SaveIsLate == unsaved' > SaveEvery

SaveIsDue == unsaved' >= SaveEvery

\* The tick branch: decide() credits the decision of the last tick, if it has
\* one, saves if that is due, and the governor is written.
Tick ==
  /\ Selects
  /\ budget' = budget - 1
  /\ \/ sensor' = "working" /\ UNCHANGED <<unsaved, file, faults>>
     \/ /\ unsaved' = unsaved + 1
        /\ IF SaveIsDue
           THEN Truncate("saving", "working")
           ELSE sensor' = "working" /\ UNCHANGED <<file, faults>>
  /\ UNCHANGED <<main, stuck, socketVars, flushFailed, cutOff>>

SaveEnds ==
  /\ sensor = "saving"
  /\ Fill("working")
  /\ UNCHANGED <<main, stuck, budget, socketVars, flushFailed, cutOff>>

\* The branch is done, and the loop polls select! again.
WorkEnds ==
  /\ sensor = "working"
  /\ ~ stuck
  /\ sensor' = "select"
  /\ UNCHANGED <<main, stuck, budget, socketVars, memoryVars, faults>>

GetStuck ==
  /\ sensor = "working"
  /\ stuck' = TRUE
  /\ UNCHANGED <<main, sensor, budget, socketVars, memoryVars, faults>>

\* The shutdown branch: flush() ...
FlushBegins ==
  /\ Selects
  /\ main \in Stopping
  /\ Truncate("flushing", "done")
  /\ flushFailed' = (sensor' = "done")
  /\ UNCHANGED <<main, stuck, budget, socketVars, unsaved, cutOff>>

\* ... and break.
FlushEnds ==
  /\ sensor = "flushing"
  /\ Fill("done")
  /\ flushFailed' = (file' = "torn")
  /\ UNCHANGED <<main, stuck, budget, socketVars, cutOff>>

-----------------------------------------------------------------------------
(* main(), from the signal to the end. *)

\* SIGINT or SIGTERM ends the select!: shutdown_tx.send.  A later signal finds
\* its handler installed and nobody waiting for it.
Signal ==
  /\ main = "serving"
  /\ main' = "joining"
  /\ UNCHANGED <<taskVars, socketVars, memoryVars, faults>>

\* Mutant of Joined: main does not wait.
JoinedAtOnce == TRUE

\* Mutant of Joined: no time limit.
JoinedInTheEnd == sensor = "done"

\* timeout(3 s, sensor): the task has ended, or is still inside its poll.  A
\* task that only has to be woken is woken within the limit.
Joined == sensor = "done" \/ sensor \in Polled

Join ==
  /\ main = "joining"
  /\ Joined
  /\ main' = "leaving"
  /\ UNCHANGED <<taskVars, socketVars, memoryVars, faults>>

\* remove_file, and main returns.
Leave ==
  /\ main = "leaving"
  /\ main' = "dropping"
  /\ RemoveSocket
  /\ UNCHANGED <<taskVars, accepting, memoryVars>>

\* The runtime is dropped: it waits for the poll in progress and drops a task
\* that waits.
End ==
  /\ main = "dropping"
  /\ sensor \notin Polled
  /\ main' = "ended"
  /\ sensor' = "none"
  /\ cutOff' = (sensor = "yielded")
  /\ accepting' = FALSE
  /\ Orphaned
  /\ UNCHANGED <<stuck, budget, kept, unsaved, file, flushFailed, faults>>

-----------------------------------------------------------------------------
Init ==
  /\ main = "down"
  /\ sensor = "none"
  /\ stuck = FALSE
  /\ budget = 0
  /\ accepting = FALSE
  /\ socket \in {"none", "stale"}
  /\ kept = FALSE
  /\ unsaved = 0
  /\ file = "whole"
  /\ flushFailed = FALSE
  /\ cutOff = FALSE
  /\ faults = 0

Advance == Unlink \/ Bind \/ Attach \/ Serve \/ Leave \/ End

Poll == Drain \/ Tick \/ SaveEnds \/ WorkEnds \/ FlushBegins \/ FlushEnds

Next ==
  \/ Open
  \/ OpenFails
  \/ Advance
  \/ AcceptFails
  \/ StartFails
  \/ Kill
  \/ Wake
  \/ Park
  \/ Yield
  \/ Poll
  \/ GetStuck
  \/ Signal
  \/ Join

Spec == Init /\ [][Next]_vars

\* systemd starts a daemon that died again (Restart=always), but not one it
\* was asked to stop; main runs, the timer of the join expires, and the task
\* is polled.  select! polls its branches in random order, so the shutdown is
\* taken at last: FlushBegins is strongly fair.  Signals, kills and failures
\* are not fair.
Fairness ==
  /\ WF_vars(main = "down" /\ Open)
  /\ WF_vars(Advance)
  /\ WF_vars(Join)
  /\ WF_vars(Wake)
  /\ WF_vars(Yield)
  /\ WF_vars(SaveEnds \/ WorkEnds \/ FlushEnds)
  /\ SF_vars(FlushBegins)

FairSpec == Spec /\ Fairness

-----------------------------------------------------------------------------
(* Properties. *)

\* Unsaved credits never exceed what is due plus one for each failed save, and
\* there is a sensor task only between its spawn and the end of the process.
LifecycleTypeOK ==
  /\ main \in Stopped \cup Starting \cup {"serving"} \cup Stopping
  /\ sensor \in {"none", "done"} \cup Waiting \cup Polled
  /\ (sensor = "none") <=> (main \in Stopped \cup {"opened", "unlinked", "bound"})
  /\ stuck \in BOOLEAN
  /\ stuck => sensor = "working"
  /\ budget \in 0 .. Budget
  /\ accepting \in BOOLEAN
  /\ socket \in {"none", "live", "stale"}
  /\ kept \in BOOLEAN
  /\ unsaved \in 0 .. SaveEvery + faults
  /\ file \in {"whole", "torn"}
  /\ flushFailed \in BOOLEAN
  /\ cutOff \in BOOLEAN
  /\ faults \in 0 .. MaxFaults

\* A stop by a signal keeps everything learned, also when the task was busy,
\* slow or past the limit of the join, unless the flush itself failed or the
\* task, past that limit, had spent its budget and was dropped as it yielded
\* ("Persist every ~12 ticks and on clean shutdown", README.md).
CleanStopPersists ==
  main = "ended" => flushFailed \/ cutOff \/ (unsaved = 0 /\ file = "whole")

\* While the accept loop runs the path leads to it, whatever an earlier process
\* left there; without it the path leads nowhere; and a stop leaves nothing
\* that it could remove.
SocketIsOfListener ==
  /\ main \in Listening /\ accepting => socket = "live"
  /\ socket = "live" => accepting
  /\ main = "ended" => socket = "none" \/ kept

\* A stop ends the process; if the task is stuck, main at least gives up on it
\* and takes the socket away, if it can, so that a new client is told.
StopEnds ==
  main = "joining"
    ~> (main \in Stopped \/ (stuck /\ (socket = "none" \/ kept)))

\* After any deaths, failed starts and stale sockets the daemon serves clients
\* again, unless it was stopped, the task is stuck for ever, no start can read
\* the file, or it runs on without its accept loop.
ComesBack ==
  \/ []<>(main = "serving" /\ accepting)
  \/ <>[](\/ main = "ended"
          \/ stuck
          \/ file = "torn"
          \/ main = "serving" /\ ~ accepting)

=============================================================================
