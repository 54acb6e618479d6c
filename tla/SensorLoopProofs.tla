-------------------------- MODULE SensorLoopProofs --------------------------
(***************************************************************************)
(* SensorLoop for every set of CPUs and governors: what the display and    *)
(* the coming credit say of the governors in force.                        *)
(***************************************************************************)
EXTENDS SensorLoop, TLAPS

\* In the middle of a call the CPUs written so far have the new governor, and
\* before the first of them nothing has changed since the call that succeeded
\* last: so a call that fails, having written nothing, changes nothing.  A CPU
\* that never went offline is online when its turn comes.
CallInv ==
  /\ steady \subseteq online
  /\ loop = "writing" => \A c \in written : scaling[c] = pending
  /\ loop = "writing" /\ written = {} => \A c \in holding : scaling[c] = active

ActuationInv ==
  LoopTypeOK /\ SteadyCpusFollow /\ ShownIsInForce /\ CreditIsForShown /\ CallInv

LEMMA ActuationInit == Init => ActuationInv
<1> SUFFICES ASSUME Init PROVE ActuationInv
  OBVIOUS
<1> USE LoopAssumption DEF Init
<1>1. LoopTypeOK
  <2>1. shutdown \in BOOLEAN /\ failed \in BOOLEAN
    OBVIOUS
  <2>2. scaling \in [Cpus -> Governors \cup {Start}] /\ faults \in 0 .. MaxFaults
    OBVIOUS
  <2> QED
    BY <2>1, <2>2 DEF LoopTypeOK
<1>2. SteadyCpusFollow /\ ShownIsInForce
  BY DEF SteadyCpusFollow, ShownIsInForce
<1>3. CreditIsForShown /\ CallInv
  BY DEF CreditIsForShown, CallInv
<1> QED
  BY <1>1, <1>2, <1>3 DEF ActuationInv

\* Ok and Err tell the state what holds of the CPUs.
LEMMA ReturnKeeps ==
  ASSUME ActuationInv, Return
  PROVE  ActuationInv'
<1>1. CASE written # {} /\ Ok
  BY <1>1 DEF Return, Succeeded, Ok, machineVars, stateVars, ActuationInv, LoopTypeOK,
              SteadyCpusFollow, ShownIsInForce, CreditIsForShown, CallInv
<1>2. CASE written = {} /\ Err
  BY <1>2 DEF Return, Succeeded, Err, machineVars, stateVars, ActuationInv, LoopTypeOK,
              SteadyCpusFollow, ShownIsInForce, CreditIsForShown, CallInv
<1> QED
  BY <1>1, <1>2 DEF Return, Succeeded

\* A write moves one CPU from todo to the decision's governor.
LEMMA WriteKeeps ==
  ASSUME ActuationInv, NEW c \in Cpus, Write(c)
  PROVE  ActuationInv'
<1> USE DEF Write, Rest, machineVars, stateVars, ActuationInv
<1>1. LoopTypeOK'
  BY DEF LoopTypeOK
<1>2. SteadyCpusFollow'
  <2>1. CASE c \in online
    BY <2>1 DEF SteadyCpusFollow, LoopTypeOK
  <2>2. CASE c \notin online
    BY <2>2 DEF SteadyCpusFollow, CallInv
  <2> QED
    BY <2>1, <2>2
<1>3. ShownIsInForce' /\ CreditIsForShown'
  BY DEF ShownIsInForce, CreditIsForShown
<1>4. CallInv'
  BY DEF CallInv, LoopTypeOK
<1> QED
  BY <1>1, <1>2, <1>3, <1>4

LEMMA ActuationNext == ActuationInv /\ [Next]_vars => ActuationInv'
<1> SUFFICES ASSUME ActuationInv, [Next]_vars
             PROVE  ActuationInv'
  OBVIOUS
<1> USE DEF machineVars, stateVars, ActuationInv, LoopTypeOK, SteadyCpusFollow,
            ShownIsInForce, CreditIsForShown, CallInv
<1>1. ASSUME NEW c \in Cpus, Hotplug(c)
      PROVE  ActuationInv'
  BY <1>1, LoopAssumption DEF Hotplug
<1>2. CASE Signal
  BY <1>2 DEF Signal
<1>3. ASSUME NEW governor \in Governors, Decide(governor)
      PROVE  ActuationInv'
  BY <1>3, LoopAssumption DEF Decide
<1>4. CASE List
  BY <1>4 DEF List, Paths
<1>5. CASE ListFails
  BY <1>5, LoopAssumption DEF ListFails, Err
<1>6. CASE Flush
  BY <1>6 DEF Flush
<1>7. CASE UNCHANGED vars
  BY <1>7 DEF vars
<1> QED
  BY <1>1, <1>2, <1>3, <1>4, <1>5, <1>6, <1>7, WriteKeeps, ReturnKeeps
  DEF Next, Loop, Exited

LEMMA ActuationInvariance == Spec => []ActuationInv
BY ActuationInit, ActuationNext, PTL DEF Spec

\* The loop's and the machine's variables keep their types.
THEOREM TypeInvariance == Spec => []LoopTypeOK
BY ActuationInvariance, PTL DEF ActuationInv

\* One CPU that fails costs no other its governor (set_all_governors).
THEOREM SteadyInvariance == Spec => []SteadyCpusFollow
BY ActuationInvariance, PTL DEF ActuationInv

\* The displayed governor is in force on the CPUs that took it last, through
\* any number of failed calls (set_governor in sensor_loop).
THEOREM ShownInvariance == Spec => []ShownIsInForce
BY ActuationInvariance, PTL DEF ActuationInv

\* Unless the status says that the actuator failed, the credit to come is for
\* the displayed governor.
THEOREM CreditInvariance == Spec => []CreditIsForShown
BY ActuationInvariance, PTL DEF ActuationInv

=============================================================================
