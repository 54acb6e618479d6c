----------------------------- MODULE SensorLoop -----------------------------
(***************************************************************************)
(* The tick and shutdown branches of sensor_loop (foverin-daemon.rs) with  *)
(* the write loop of foverin/src/actuator.rs: a decision is made, its      *)
(* governor is written CPU by CPU while CPUs come and go, and AppState is  *)
(* told what came of it.  What the engine decides is any governor here;    *)
(* PolicyEngine.tla says which.  The readable branch, which only fills the *)
(* window, is that of SensorRing.tla.                                      *)
(***************************************************************************)
EXTENDS Integers

CONSTANTS
  Cpus,          \* cpu* directories, numbered in the order of their paths
  Governors,     \* the engine's actions
  Start,         \* the governor in force when the daemon starts
  Unknown,       \* what current_governor says if it cannot be read
  None,          \* no decision yet
  MaxFaults      \* bound: hotplug events and failures to list /sys

ASSUME LoopAssumption ==
  /\ Cpus \subseteq Nat
  /\ None \notin Governors
  /\ MaxFaults \in Nat

VARIABLES
  online,        \* CPUs with a cpufreq/scaling_governor that can be written
  faults,        \* how many faults happened
  scaling,       \* the governor of each CPU, kept while it is offline
  shutdown,      \* main was told to stop
  loop,          \* "select", "listing", "writing" or "stopped"
  pending,       \* the governor of the decision that awaits its reward
  todo,          \* listed paths not yet tried
  written,       \* CPUs that took the governor in this call
  active,        \* AppState.active_governor
  failed,        \* AppState.status says that the actuator failed
  steady,        \* history: CPUs listed by this call and never offline since
  holding        \* history: written, of the last call that returned Ok

machineVars == <<online, faults, shutdown>>
stateVars   == <<active, failed>>
vars == <<machineVars, scaling, loop, pending, todo, written, stateVars,
          steady, holding>>

-----------------------------------------------------------------------------
(* The machine. *)

\* A CPU or its cpufreq node goes, or comes back with its last governor.
Hotplug(c) ==
  /\ faults < MaxFaults
  /\ faults' = faults + 1
  /\ online' = IF c \in online THEN online \ {c} ELSE online \cup {c}
  /\ steady' = steady \ {c}
  /\ UNCHANGED <<scaling, shutdown, loop, pending, todo, written, stateVars,
                 holding>>

\* SIGINT or SIGTERM: main sends on shutdown_tx.
Signal ==
  /\ ~ shutdown
  /\ shutdown' = TRUE
  /\ UNCHANGED <<online, faults, scaling, loop, pending, todo, written,
                 stateVars, steady, holding>>

-----------------------------------------------------------------------------
(* The sensor loop. *)

\* Mutant of Decide: the pending decision is taken and not replaced.
DecideTakes(governor) ==
  /\ loop = "select"
  /\ pending' = None
  /\ failed' = FALSE
  /\ loop' = "listing"
  /\ UNCHANGED <<machineVars, scaling, todo, written, active, steady, holding>>

\* tick: the engine credits its pending decision and makes the next one, and
\* AppState.status becomes the decision's reason.
Decide(governor) ==
  /\ loop = "select"
  /\ pending' = governor
  /\ failed' = FALSE
  /\ loop' = "listing"
  /\ UNCHANGED <<machineVars, scaling, todo, written, active, steady, holding>>

\* Mutant of Ok: the state is not told.
OkKeepsActive ==
  /\ UNCHANGED stateVars
  /\ holding' = written
  /\ loop' = "select"

\* What sensor_loop does with Ok: set_governor.
Ok ==
  /\ active' = pending
  /\ holding' = written
  /\ loop' = "select"
  /\ UNCHANGED failed

\* What it does with Err: a status line; active_governor stays.
Err ==
  /\ failed' = TRUE
  /\ loop' = "select"
  /\ UNCHANGED <<active, holding>>

\* Mutant of Paths: those of the last call that succeeded.
PathsOnce == IF holding = {} THEN online ELSE holding

\* cpufreq_governor_paths: the nodes that are there.
Paths == online

List ==
  /\ loop = "listing"
  /\ todo' = Paths
  /\ written' = {}
  /\ steady' = online
  /\ loop' = "writing"
  /\ UNCHANGED <<machineVars, scaling, pending, stateVars, holding>>

\* read_dir, or an entry of it, fails.
ListFails ==
  /\ loop = "listing"
  /\ faults < MaxFaults
  /\ faults' = faults + 1
  /\ Err
  /\ UNCHANGED <<online, shutdown, scaling, pending, todo, written, steady>>

IsNext(c) == c \in todo /\ \A d \in todo : c <= d

\* Mutant of Rest: a CPU that fails is tried until it succeeds.
RestAgain(c) == IF c \in online THEN todo \ {c} ELSE todo

\* Mutant of Rest: a CPU that fails ends the list.
RestUntilError(c) == IF c \in online THEN todo \ {c} ELSE {}

\* What is left to do after c was tried.
Rest(c) == todo \ {c}

\* write_governor on the next path: a CPU that is gone is skipped.
Write(c) ==
  /\ loop = "writing"
  /\ IsNext(c)
  /\ todo' = Rest(c)
  /\ \/ /\ c \in online
        /\ scaling' = [scaling EXCEPT ![c] = pending]
        /\ written' = written \cup {c}
     \/ /\ c \notin online
        /\ UNCHANGED <<scaling, written>>
  /\ UNCHANGED <<machineVars, loop, pending, stateVars, steady, holding>>

\* Mutant of Succeeded: not if a CPU that was listed did not take it.
SucceededOnAll ==
  written # {} /\ steady \subseteq written /\ written \subseteq online

\* set_all_governors is Ok if any write succeeded, so not if there was nothing
\* to write.
Succeeded == written # {}

Return ==
  /\ loop = "writing"
  /\ todo = {}
  /\ IF Succeeded THEN Ok ELSE Err
  /\ UNCHANGED <<machineVars, scaling, pending, todo, written, steady>>

\* The shutdown branch: flush() and break.
Flush ==
  /\ loop = "select"
  /\ shutdown
  /\ loop' = "stopped"
  /\ UNCHANGED <<machineVars, scaling, pending, todo, written, stateVars,
                 steady, holding>>

\* The runtime goes; the process is over.
Exited == loop = "stopped" /\ UNCHANGED vars

-----------------------------------------------------------------------------
\* What current_governor may tell main, which displays it until the first
\* decision: any governor of the kernel, also one the engine never chooses.
CurrentGovernors == {Start, Unknown}

Init ==
  /\ online \in SUBSET Cpus
  /\ faults = 0
  /\ scaling = [c \in Cpus |-> Start]
  /\ shutdown = FALSE
  /\ loop = "select"
  /\ pending = None
  /\ todo = {}
  /\ written = {}
  /\ active \in CurrentGovernors
  /\ failed = FALSE
  /\ steady = {}
  /\ holding = {}

Loop ==
  \/ List
  \/ ListFails
  \/ \E c \in Cpus : Write(c)
  \/ Return

Next ==
  \/ \E c \in Cpus : Hotplug(c)
  \/ Signal
  \/ \E governor \in Governors : Decide(governor)
  \/ Loop
  \/ Flush
  \/ Exited

Spec == Init /\ [][Next]_vars

\* The loop's task runs, and the interval fires every AGGREGATE_WINDOW.
\* select! polls its branches in random order, so a shutdown that stays ready
\* is not passed over for ever: Flush is strongly fair.
Fairness ==
  /\ WF_vars(Loop)
  /\ WF_vars(\E governor \in Governors : Decide(governor))
  /\ SF_vars(Flush)

FairSpec == Spec /\ Fairness

-----------------------------------------------------------------------------
(* Properties. *)

\* The loop actuates only with a decision in hand: whatever it lists and
\* writes, there is a pending governor to write.
LoopTypeOK ==
  /\ online \in SUBSET Cpus
  /\ faults \in 0 .. MaxFaults
  /\ scaling \in [Cpus -> Governors \cup {Start}]
  /\ shutdown \in BOOLEAN
  /\ loop \in {"select", "listing", "writing", "stopped"}
  /\ pending \in Governors \cup {None}
  /\ loop \in {"listing", "writing"} => pending # None
  /\ todo \in SUBSET Cpus
  /\ written \in SUBSET Cpus
  /\ active \in Governors \cup CurrentGovernors
  /\ failed \in BOOLEAN
  /\ steady \in SUBSET Cpus
  /\ holding \in SUBSET Cpus

\* One CPU that fails costs no other its governor: once the list is done,
\* every CPU that stayed online took the decision's governor.
SteadyCpusFollow ==
  loop = "writing" =>
    \A c \in steady \ todo : scaling[c] = pending /\ c \in written

\* The governor that is displayed is in force: between two calls, the CPUs
\* that took it last still have it, also when calls after that one failed.
ShownIsInForce ==
  loop \in {"select", "listing", "stopped"} =>
    \A c \in holding : scaling[c] = active

\* Unless the status says that the actuator failed, the governor that will be
\* credited with the coming window is the one displayed, and some CPU runs it.
CreditIsForShown ==
  loop \in {"select", "stopped"} /\ pending # None /\ ~ failed =>
    pending = active /\ holding # {}

\* A signal stops the loop, through its flush, whatever fails meanwhile.
StopsWhenAsked == shutdown ~> loop = "stopped"

\* When CPUs stop coming and going, all of them run the displayed governor
\* again and again, also those that were offline when it was chosen.
CpusConverge ==
  <>shutdown \/ []<>(loop = "select" /\ \A c \in online : scaling[c] = active)

=============================================================================
