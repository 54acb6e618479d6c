------------------------------- MODULE Uplink -------------------------------
(***************************************************************************)
(* From AppState to the screen of foverin-cli: the two tasks of the daemon *)
(* that publish snapshots, the broadcast channel with its bounded history, *)
(* the accept loop, the task that feeds each client, and the clients,      *)
(* which come and go (foverin-daemon.rs, foverin-cli.rs, ui.rs).           *)
(*                                                                         *)
(* A snapshot is the number of changes AppState had seen when it was       *)
(* taken.  tokio's broadcast channel is modelled from how it is used.      *)
(***************************************************************************)
EXTENDS Integers, Sequences

CONSTANTS
  Clients,
  Cap,           \* BROADCAST_CAP
  MaxVersion,    \* bound: changes of AppState
  AcceptMayFail, \* accept() may return an error, as when descriptors run out
  MayStop,       \* the daemon may be stopped
  None           \* no snapshot has been taken or shown

ASSUME UplinkAssumption ==
  /\ Cap \in Nat \ {0, 1}
  /\ MaxVersion \in Nat
  /\ AcceptMayFail \in BOOLEAN
  /\ MayStop \in BOOLEAN
  /\ None \notin Nat

VARIABLES
  up,          \* the daemon runs
  accepting,   \* so does its accept loop
  version,     \* changes of AppState so far
  due,         \* publishers inside publish_snapshot, before the lock
  taken,       \* per publisher: the snapshot it is about to send, or None
  log,         \* the snapshots sent to the channel, in order
  status,      \* per client: where it is
  next,        \* per client: the position in log its receiver is at
  shown,       \* per client: the snapshot on its screen, or None
  newest       \* history: per client, the newest snapshot it has shown

Publishers == {"main", "sensor"}

stateVars  == <<version, due, taken, log>>
clientVars == <<status, next, shown, newest>>
vars == <<up, accepting, stateVars, clientVars>>

Snapshots == 0 .. MaxVersion

\* Between accept() and the spawn of the client's task.
InService == {"accepted", "subscribed"}

\* "orphan": the stream has ended and the screen stays; "fatal": the screen
\* says that the daemon is not reachable.
Statuses == {"away", "connecting", "attached", "orphan", "fatal"} \cup InService

-----------------------------------------------------------------------------
(* Publishing. *)

\* A round of the sensor loop, from the state it begins with to the end of a
\* readable or tick branch: AppState changes under its lock, once or several
\* times, and is published.  A readable round that drained nothing publishes
\* the state as it was; it counts as a change, which asks for more.
Change ==
  /\ up
  /\ version < MaxVersion
  /\ taken["sensor"] = None
  /\ version' = version + 1
  /\ due' = due \cup {"sensor"}
  /\ UNCHANGED <<up, accepting, taken, log, clientVars>>

\* snapshot_json: a copy under the lock.
Take(p) ==
  /\ up
  /\ p \in due
  /\ due' = due \ {p}
  /\ taken' = [taken EXCEPT ![p] = version]
  /\ UNCHANGED <<up, accepting, version, log, clientVars>>

\* Mutant of Holds: a publisher sends before it took a snapshot.
HoldsOrIsDue(p) == taken[p] # None \/ p \in due

\* A publisher has a snapshot in its hands.
Holds(p) == taken[p] # None

\* bus.send, after the lock is released.
Send(p) ==
  /\ up
  /\ Holds(p)
  /\ log' = Append(log, taken[p])
  /\ taken' = [taken EXCEPT ![p] = None]
  /\ UNCHANGED <<up, accepting, version, due, clientVars>>

-----------------------------------------------------------------------------
(* The accept loop: one client at a time. *)

Accept(c) ==
  /\ up
  /\ accepting
  /\ \A d \in Clients : status[d] \notin InService
  /\ status[c] = "connecting"
  /\ status' = [status EXCEPT ![c] = "accepted"]
  /\ UNCHANGED <<up, accepting, stateVars, next, shown, newest>>

\* tx.subscribe(): from here on the client misses no message.
Subscribe(c) ==
  /\ up
  /\ status[c] = "accepted"
  /\ next' = [next EXCEPT ![c] = Len(log) + 1]
  /\ status' = [status EXCEPT ![c] = "subscribed"]
  /\ UNCHANGED <<up, accepting, stateVars, shown, newest>>

Show(c, snapshot) ==
  /\ shown' = [shown EXCEPT ![c] = snapshot]
  /\ newest' = [newest EXCEPT ![c] =
                  IF @ = None \/ @ < snapshot THEN snapshot ELSE @]

\* Mutant of Greeting: the first snapshot is left to the channel.
GreetingIsSilent(c) == UNCHANGED <<shown, newest>>

\* Mutant of Greeting: the accept loop waits for a first message to pass on.
GreetingOnMessage(c) == next[c] <= Len(log) /\ Show(c, version)

\* What a client is sent first: the state of now.
Greeting(c) == Show(c, version)

\* The first snapshot is written and the client's task spawned.
Greet(c) ==
  /\ up
  /\ status[c] = "subscribed"
  /\ Greeting(c)
  /\ status' = [status EXCEPT ![c] = "attached"]
  /\ UNCHANGED <<up, accepting, stateVars, next>>

\* accept() fails: the loop returns the error and drops the listener, and
\* whoever waits in its backlog is cut off.
AcceptFails ==
  /\ AcceptMayFail
  /\ up
  /\ accepting
  /\ \A d \in Clients : status[d] \notin InService
  /\ accepting' = FALSE
  /\ status' = [d \in Clients |-> IF status[d] = "connecting" THEN "orphan"
                                  ELSE status[d]]
  /\ UNCHANGED <<up, stateVars, next, shown, newest>>

-----------------------------------------------------------------------------
(* The client's task in the daemon, and the client's reader. *)

Oldest == IF Len(log) > Cap THEN Len(log) - Cap + 1 ELSE 1

\* Mutant of Resume: it subscribes anew, behind the newest message.
ResumeAtTail == Len(log) + 1

\* Where a receiver that lagged goes on.
Resume == Oldest

\* rx.recv() and write_all: a message the channel still has is shown; one it
\* has dropped is Lagged, which moves the receiver to the oldest one.
Forward(c) ==
  /\ up
  /\ status[c] = "attached"
  /\ next[c] <= Len(log)
  /\ \/ /\ next[c] < Oldest
        /\ next' = [next EXCEPT ![c] = Resume]
        /\ UNCHANGED <<shown, newest>>
     \/ /\ next[c] >= Oldest
        /\ Show(c, log[next[c]])
        /\ next' = [next EXCEPT ![c] = @ + 1]
  /\ UNCHANGED <<up, accepting, stateVars, status>>

\* foverin-cli starts: without a listener it shows the fatal screen.
Connect(c) ==
  /\ status[c] = "away"
  /\ status' = [status EXCEPT ![c] =
                  IF up /\ accepting THEN "connecting" ELSE "fatal"]
  /\ UNCHANGED <<up, accepting, stateVars, next, shown, newest>>

\* The user quits ui_loop, at any point of the client's service: the reader
\* is aborted, and the daemon fails at its next write to the client and moves
\* on.
Quit(c) ==
  /\ status[c] \in {"connecting", "attached", "orphan"} \cup InService
  /\ status' = [status EXCEPT ![c] = "away"]
  /\ next' = [next EXCEPT ![c] = 1]
  /\ shown' = [shown EXCEPT ![c] = None]
  /\ newest' = [newest EXCEPT ![c] = None]
  /\ UNCHANGED <<up, accepting, stateVars>>

\* The user leaves fatal_loop, which has no stream and never tries again.
Dismiss(c) ==
  /\ status[c] = "fatal"
  /\ status' = [status EXCEPT ![c] = "away"]
  /\ UNCHANGED <<up, accepting, stateVars, next, shown, newest>>

\* The daemon stops: readers see the end of their streams, and end; the
\* screens are drawn by another task.
Stop ==
  /\ MayStop
  /\ up
  /\ up' = FALSE
  /\ accepting' = FALSE
  /\ status' = [c \in Clients |->
                  IF status[c] \in {"connecting", "attached"} \cup InService
                  THEN "orphan" ELSE status[c]]
  /\ UNCHANGED <<stateVars, next, shown, newest>>

-----------------------------------------------------------------------------
Init ==
  /\ up = TRUE
  /\ accepting = TRUE
  /\ version = 0
  /\ due = {"main"}
  /\ taken = [p \in Publishers |-> None]
  /\ log = <<>>
  /\ status = [c \in Clients |-> "away"]
  /\ next = [c \in Clients |-> 1]
  /\ shown = [c \in Clients |-> None]
  /\ newest = [c \in Clients |-> None]

Next ==
  \/ Change
  \/ \E p \in Publishers : Take(p) \/ Send(p)
  \/ \E c \in Clients : Accept(c) \/ Subscribe(c) \/ Greet(c) \/ Forward(c)
                        \/ Connect(c) \/ Quit(c) \/ Dismiss(c)
  \/ AcceptFails
  \/ Stop

Spec == Init /\ [][Next]_vars

\* The daemon's tasks run, and a client that stays reads what it is sent.
\* Users need not connect, and AppState need not change.
Fairness ==
  /\ \A p \in Publishers : WF_vars(Take(p)) /\ WF_vars(Send(p))
  /\ \A c \in Clients : /\ SF_vars(Accept(c))
                        /\ WF_vars(Subscribe(c))
                        /\ WF_vars(Greet(c))
                        /\ WF_vars(Forward(c))

FairSpec == Spec /\ Fairness

-----------------------------------------------------------------------------
(* Properties. *)

\* A publisher never sends what it has not taken, and a receiver never leaves
\* the positions of the channel.
UplinkTypeOK ==
  /\ up \in BOOLEAN
  /\ accepting \in BOOLEAN
  /\ version \in Snapshots
  /\ due \subseteq Publishers
  /\ taken \in [Publishers -> Snapshots \cup {None}]
  /\ log \in Seq(Snapshots)
  /\ status \in [Clients -> Statuses]
  /\ next \in [Clients -> Nat \ {0}]
  /\ shown \in [Clients -> Snapshots \cup {None}]
  /\ newest \in [Clients -> Snapshots \cup {None}]

\* A client can still come to show a snapshot as new as v: it has shown one,
\* or the channel keeps one that its receiver has yet to reach.
CanReach(c, v) ==
  \/ newest[c] # None /\ newest[c] >= v
  \/ \E i \in Oldest .. Len(log) : i >= next[c] /\ log[i] >= v

\* No attached client misses an update: whatever was sent, before it came,
\* while it was being greeted or while it lagged, it has shown or can still
\* reach something as new.
NoMissedUpdate ==
  \A c \in Clients : status[c] = "attached" =>
    \A i \in 1 .. Len(log) : CanReach(c, log[i])

\* A client that stays attached comes to show every state of AppState or a
\* newer one, however it lags.
EveryUpdateArrives ==
  \A c \in Clients, v \in Snapshots :
    (version >= v /\ status[c] = "attached")
      ~> (status[c] # "attached" \/ (newest[c] # None /\ newest[c] >= v))

\* Who connects is served, or gives up, as long as there is an accept loop.
ClientsAreServed ==
  \A c \in Clients :
    status[c] = "connecting"
      ~> (status[c] \in {"attached", "away"} \/ ~ accepting)

\* A client that was attached, and shows a state of the daemon, says that the
\* daemon is down once it is ("Daemon down -> FATAL", README.md), or its user
\* quits.
DownIsShown ==
  \A c \in Clients :
    (~ up /\ shown[c] # None) ~> status[c] \in {"fatal", "away"}

=============================================================================
