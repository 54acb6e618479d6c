---------------------------- MODULE UplinkProofs ----------------------------
(***************************************************************************)
(* The publishers, the channel and the clients are well typed, and no      *)
(* attached client misses an update.  The argument: the sensor loop never  *)
(* sends a snapshot older than one already sent, and main sends only once, *)
(* so one of the last two messages is always the newest of all; a channel  *)
(* of at least two messages therefore never drops the newest.              *)
(***************************************************************************)
EXTENDS Uplink, TLAPS

ClientStep(c) ==
  \/ Accept(c) \/ Subscribe(c) \/ Greet(c) \/ Forward(c)
  \/ Connect(c) \/ Quit(c) \/ Dismiss(c)

\* The message that a send appends, and what it leaves in place.
LEMMA AppendFacts ==
  ASSUME NEW S, NEW s \in Seq(S), NEW e \in S
  PROVE  /\ Append(s, e) \in Seq(S)
         /\ Len(s) \in Nat
         /\ Len(Append(s, e)) = Len(s) + 1
         /\ Append(s, e)[Len(s) + 1] = e
         /\ \A i \in 1 .. Len(s) : Append(s, e)[i] = s[i] /\ s[i] \in S
  OBVIOUS

LEMMA TypeInit == Init => UplinkTypeOK
  BY UplinkAssumption DEF Init, UplinkTypeOK, Snapshots, Publishers, Statuses

LEMMA TypePublishers ==
  ASSUME UplinkTypeOK, Change \/ \E p \in Publishers : Take(p) \/ Send(p)
  PROVE  UplinkTypeOK'
<1> USE UplinkAssumption
<1>1. CASE Change
  BY <1>1 DEF UplinkTypeOK, Change, Snapshots, Publishers, clientVars
<1>2. ASSUME NEW p \in Publishers, Take(p)
      PROVE  UplinkTypeOK'
  BY <1>2 DEF UplinkTypeOK, Take, Snapshots, clientVars
<1>3. ASSUME NEW p \in Publishers, Send(p)
      PROVE  UplinkTypeOK'
  <2>1. taken[p] \in Snapshots
    BY <1>3 DEF UplinkTypeOK, Send, Holds
  <2>2. log' \in Seq(Snapshots)
    BY <1>3, <2>1, AppendFacts DEF UplinkTypeOK, Send
  <2> QED
    BY <1>3, <2>2 DEF UplinkTypeOK, Send, Snapshots, clientVars
<1> QED
  BY <1>1, <1>2, <1>3

LEMMA TypeClients ==
  ASSUME UplinkTypeOK, NEW c \in Clients, ClientStep(c)
  PROVE  UplinkTypeOK'
<1> USE UplinkAssumption
<1>0. Len(log) \in Nat
  BY DEF UplinkTypeOK
<1>1. ASSUME NEW v \in Snapshots, Show(c, v)
      PROVE  /\ shown' \in [Clients -> Snapshots \cup {None}]
             /\ newest' \in [Clients -> Snapshots \cup {None}]
  BY <1>1 DEF UplinkTypeOK, Show
<1>2. CASE Accept(c)
  BY <1>2 DEF UplinkTypeOK, Accept, Statuses, InService, stateVars
<1>3. CASE Subscribe(c)
  BY <1>3, <1>0 DEF UplinkTypeOK, Subscribe, Statuses, InService, stateVars
<1>4. CASE Greet(c)
  <2>1. version \in Snapshots /\ Show(c, version)
    BY <1>4 DEF UplinkTypeOK, Greet, Greeting
  <2>2. /\ shown' \in [Clients -> Snapshots \cup {None}]
        /\ newest' \in [Clients -> Snapshots \cup {None}]
    BY <2>1, <1>1
  <2> QED
    BY <1>4, <2>2 DEF UplinkTypeOK, Greet, Statuses, stateVars
<1>5. CASE Forward(c)
  <2>1. Oldest \in Nat \ {0}
    BY <1>0 DEF Oldest
  <2>2. CASE next[c] < Oldest
    <3>1. ~ (next[c] >= Oldest)
      BY <2>1, <2>2 DEF UplinkTypeOK
    <3>2. /\ next' = [next EXCEPT ![c] = Oldest]
          /\ UNCHANGED <<shown, newest, up, accepting, stateVars, status>>
      BY <1>5, <3>1 DEF Forward, Resume
    <3>3. next' \in [Clients -> Nat \ {0}]
      BY <3>2, <2>1 DEF UplinkTypeOK
    <3> QED
      BY <3>2, <3>3 DEF UplinkTypeOK, stateVars
  <2>3. CASE next[c] >= Oldest
    <3>1. next[c] \in Nat \ {0} /\ next[c] <= Len(log)
      BY <1>5 DEF UplinkTypeOK, Forward
    <3>2. ~ (next[c] < Oldest)
      BY <2>1, <2>3, <3>1
    <3>3. log[next[c]] \in Snapshots
      BY <3>1, <1>0 DEF UplinkTypeOK
    <3>4. Show(c, log[next[c]])
      BY <1>5, <3>2 DEF Forward
    <3>5. /\ shown' \in [Clients -> Snapshots \cup {None}]
          /\ newest' \in [Clients -> Snapshots \cup {None}]
      BY <3>3, <3>4, <1>1
    <3> QED
      BY <1>5, <3>2, <3>5 DEF UplinkTypeOK, Forward, stateVars
  <2>4. next[c] \in Nat
    BY DEF UplinkTypeOK
  <2> QED
    BY <2>1, <2>2, <2>3, <2>4
<1>6. CASE Connect(c)
  BY <1>6 DEF UplinkTypeOK, Connect, Statuses, stateVars
<1>7. CASE Quit(c)
  BY <1>7 DEF UplinkTypeOK, Quit, Statuses, stateVars
<1>8. CASE Dismiss(c)
  BY <1>8 DEF UplinkTypeOK, Dismiss, Statuses, stateVars
<1> QED
  BY <1>2, <1>3, <1>4, <1>5, <1>6, <1>7, <1>8 DEF ClientStep

LEMMA TypeFaults ==
  ASSUME UplinkTypeOK, AcceptFails \/ Stop
  PROVE  UplinkTypeOK'
  BY DEF UplinkTypeOK, AcceptFails, Stop, Statuses, InService, stateVars

LEMMA TypeStep == UplinkTypeOK /\ [Next]_vars => UplinkTypeOK'
<1> SUFFICES ASSUME UplinkTypeOK, [Next]_vars
             PROVE  UplinkTypeOK'
  OBVIOUS
<1>1. CASE UNCHANGED vars
  BY <1>1 DEF UplinkTypeOK, vars, stateVars, clientVars
<1>2. CASE Next
  BY <1>2, TypePublishers, TypeClients, TypeFaults DEF Next, ClientStep
<1> QED
  BY <1>1, <1>2

\* Every reachable state of the uplink is well typed: a publisher never sends
\* what it has not taken, and a receiver never leaves the channel.
THEOREM TypeInvariance == Spec => []UplinkTypeOK
  BY TypeInit, TypeStep, PTL DEF Spec

-----------------------------------------------------------------------------
(* The newest message is one of the last two. *)

MainHasSent == "main" \notin due /\ taken["main"] = None

\* main publishes once.
MainOnce == taken["main"] # None => "main" \notin due

\* Nothing is newer than AppState; what the sensor loop holds is its state.
TakenFromState ==
  /\ taken["sensor"] \in {None, version}
  /\ taken["main"] # None => taken["main"] <= version
  /\ \A i \in 1 .. Len(log) : log[i] <= version

\* Message j is as new as any.
IsNewest(j) ==
  /\ j \in 1 .. Len(log)
  /\ \A i \in 1 .. Len(log) : log[i] <= log[j]

NewestIsLate ==
  Len(log) > 0 =>
    \/ IsNewest(Len(log))
    \/ MainHasSent /\ IsNewest(Len(log) - 1)

LogInv == UplinkTypeOK /\ MainOnce /\ TakenFromState /\ NewestIsLate

LEMMA LogInit == Init => TakenFromState /\ NewestIsLate
  BY UplinkAssumption
  DEF Init, TakenFromState, NewestIsLate, Publishers

\* A send appends a message and, if it is the sensor loop's, the newest one.
LEMMA LogSend ==
  ASSUME LogInv, NEW p \in Publishers, Send(p)
  PROVE  TakenFromState' /\ NewestIsLate'
<1> USE UplinkAssumption
<1>1. taken[p] \in Snapshots /\ version \in Snapshots /\ log \in Seq(Snapshots)
  BY DEF LogInv, UplinkTypeOK, Send, Holds
<1>2. /\ Len(log) \in Nat
      /\ Len(log') = Len(log) + 1
      /\ log'[Len(log) + 1] = taken[p]
      /\ \A i \in 1 .. Len(log) : log'[i] = log[i] /\ log[i] \in Snapshots
  BY <1>1, AppendFacts DEF Send
<1>3. taken[p] <= version
  BY <1>1 DEF LogInv, TakenFromState, Publishers, Send, Holds, Snapshots
<1>4. /\ version' = version
      /\ due' = due
      /\ taken' = [taken EXCEPT ![p] = None]
      /\ taken \in [Publishers -> Snapshots \cup {None}]
  BY DEF Send, LogInv, UplinkTypeOK
<1>5. TakenFromState'
  <2>1. \A i \in 1 .. Len(log') : log'[i] <= version'
    BY <1>1, <1>2, <1>3, <1>4 DEF LogInv, TakenFromState, Snapshots
  <2> QED
    BY <2>1, <1>4 DEF LogInv, TakenFromState, Publishers
<1>6. NewestIsLate'
  <2>1. CASE p = "sensor"
    <3>1. taken[p] = version
      BY <2>1 DEF LogInv, TakenFromState, Send, Holds
    <3>2. \A i \in 1 .. Len(log') : log'[i] <= log'[Len(log')]
      BY <3>1, <1>1, <1>2 DEF LogInv, TakenFromState, Snapshots
    <3> QED
      BY <3>2, <1>2 DEF NewestIsLate, IsNewest
  <2>2. CASE p = "main"
    <3>1. taken["main"] # None /\ ~ MainHasSent
      BY <2>2 DEF Send, Holds, MainHasSent
    <3>2. "main" \notin due
      BY <2>2 DEF LogInv, MainOnce, Send, Holds
    <3>3. MainHasSent'
      BY <2>2, <3>2, <1>4 DEF MainHasSent, Publishers
    <3>4. CASE Len(log) = 0
      BY <3>4, <1>1, <1>2 DEF NewestIsLate, IsNewest, Snapshots
    <3>5. CASE Len(log) > 0
      <4>1. IsNewest(Len(log))
        BY <3>1, <3>5 DEF LogInv, NewestIsLate
      <4>2. CASE taken[p] <= log[Len(log)]
        <5>1. \A i \in 1 .. Len(log') : log'[i] <= log'[Len(log') - 1]
          BY <4>1, <4>2, <3>5, <1>1, <1>2 DEF IsNewest, Snapshots
        <5> QED
          BY <5>1, <3>3, <3>5, <1>2 DEF NewestIsLate, IsNewest
      <4>3. CASE ~ (taken[p] <= log[Len(log)])
        <5>1. \A i \in 1 .. Len(log') : log'[i] <= log'[Len(log')]
          BY <4>1, <4>3, <3>5, <1>1, <1>2 DEF IsNewest, Snapshots
        <5> QED
          BY <5>1, <1>2 DEF NewestIsLate, IsNewest
      <4> QED
        BY <4>2, <4>3
    <3> QED
      BY <3>4, <3>5, <1>2
  <2> QED
    BY <2>1, <2>2 DEF Publishers
<1> QED
  BY <1>5, <1>6

LEMMA LogOther ==
  ASSUME LogInv, UNCHANGED log,
         \/ Change
         \/ \E p \in Publishers : Take(p)
         \/ UNCHANGED <<version, due, taken>>
  PROVE  MainOnce' /\ TakenFromState' /\ NewestIsLate'
<1> USE UplinkAssumption
<1>1. /\ version \in Snapshots
      /\ due \subseteq Publishers
      /\ taken \in [Publishers -> Snapshots \cup {None}]
      /\ log \in Seq(Snapshots)
      /\ Len(log) \in Nat
      /\ \A i \in 1 .. Len(log) : log[i] \in Snapshots
  BY DEF LogInv, UplinkTypeOK
<1>2. \A j : IsNewest(j) => IsNewest(j)'
  BY DEF IsNewest
<1>3. CASE Change
  <2>1. /\ version' = version + 1
        /\ due' = due \cup {"sensor"}
        /\ taken' = taken
        /\ taken["sensor"] = None
    BY <1>3 DEF Change
  <2>2. MainOnce' /\ (MainHasSent => MainHasSent')
    BY <2>1 DEF LogInv, MainOnce, MainHasSent
  <2>3. TakenFromState'
    BY <2>1, <1>1 DEF LogInv, TakenFromState, Publishers, Snapshots
  <2> QED
    BY <2>2, <2>3, <1>2 DEF LogInv, NewestIsLate
<1>4. ASSUME NEW p \in Publishers, Take(p)
      PROVE  MainOnce' /\ TakenFromState' /\ NewestIsLate'
  <2>1. /\ p \in due
        /\ due' = due \ {p}
        /\ taken' = [taken EXCEPT ![p] = version]
        /\ version' = version
    BY <1>4 DEF Take
  <2>2. MainOnce' /\ (MainHasSent => MainHasSent')
    BY <2>1, <1>1 DEF LogInv, MainOnce, MainHasSent, Publishers
  <2>3. TakenFromState'
    BY <2>1, <1>1 DEF LogInv, TakenFromState, Publishers, Snapshots
  <2> QED
    BY <2>2, <2>3, <1>2 DEF LogInv, NewestIsLate
<1>5. CASE UNCHANGED <<version, due, taken>>
  BY <1>5 DEF LogInv, MainOnce, TakenFromState, NewestIsLate, MainHasSent,
              IsNewest
<1> QED
  BY <1>3, <1>4, <1>5

LEMMA LogStep == LogInv /\ [Next]_vars => LogInv'
<1> SUFFICES ASSUME LogInv, [Next]_vars
             PROVE  LogInv'
  OBVIOUS
<1>1. UplinkTypeOK'
  BY TypeStep DEF LogInv
<1>2. ASSUME NEW p \in Publishers, Send(p)
      PROVE  MainOnce' /\ TakenFromState' /\ NewestIsLate'
  <2>1. MainOnce'
    BY <1>2 DEF LogInv, UplinkTypeOK, MainOnce, Send, Publishers
  <2> QED
    BY <1>2, <2>1, LogSend
<1>3. CASE Change
  BY <1>1, <1>3, LogOther DEF Change, LogInv
<1>4. ASSUME NEW p \in Publishers, Take(p)
      PROVE  UNCHANGED log
  BY <1>4 DEF Take
<1>5. ASSUME NEW c \in Clients, ClientStep(c)
      PROVE  UNCHANGED stateVars
  BY <1>5 DEF ClientStep, Accept, Subscribe, Greet, Forward, Connect, Quit,
              Dismiss
<1>6. CASE AcceptFails \/ Stop \/ UNCHANGED vars
  BY <1>1, <1>6, LogOther DEF AcceptFails, Stop, vars, stateVars, LogInv
<1> QED
  BY <1>1, <1>2, <1>3, <1>4, <1>5, <1>6, LogOther
  DEF LogInv, Next, ClientStep, stateVars

-----------------------------------------------------------------------------
(* What an attached client has not shown it can still reach. *)

\* A receiver is at most one past the newest message.
ReceiversFollow == \A c \in Clients : next[c] <= Len(log) + 1

UplinkInv == LogInv /\ ReceiversFollow /\ NoMissedUpdate

LEMMA UplinkInit == Init => UplinkInv
<1> SUFFICES ASSUME Init PROVE UplinkInv
  OBVIOUS
<1>1. LogInv
  BY TypeInit, LogInit DEF LogInv, MainOnce, Init, Publishers
<1>2. ReceiversFollow /\ NoMissedUpdate
  BY DEF Init, ReceiversFollow, NoMissedUpdate
<1> QED
  BY <1>1, <1>2 DEF UplinkInv

\* The values that the proofs below compare.
LEMMA LogFacts ==
  ASSUME UplinkTypeOK
  PROVE  /\ Len(log) \in Nat
         /\ Oldest \in Nat \ {0}
         /\ \A i \in 1 .. Len(log) : log[i] \in Int
         /\ \A c \in Clients : /\ next[c] \in Nat \ {0}
                              /\ newest[c] # None => newest[c] \in Int
  BY UplinkAssumption DEF UplinkTypeOK, Oldest, Snapshots

\* A message that a send drops is not the newest one.
LEMMA SendKeepsReach ==
  ASSUME UplinkInv, NEW p \in Publishers, Send(p),
         NEW c \in Clients, status[c] = "attached"
  PROVE  \A i \in 1 .. Len(log') : CanReach(c, log[i])'
<1> USE UplinkAssumption
<1>1. LogInv /\ LogInv' /\ UplinkTypeOK /\ UplinkTypeOK'
  BY LogStep DEF UplinkInv, LogInv, Next
<1>2. /\ Len(log') = Len(log) + 1
      /\ \A i \in 1 .. Len(log) : log'[i] = log[i]
  <2>1. taken[p] \in Snapshots /\ log \in Seq(Snapshots)
    BY <1>1 DEF UplinkTypeOK, Send, Holds
  <2> QED
    BY <2>1, AppendFacts DEF Send
<1>3. next' = next /\ newest' = newest /\ status' = status
  BY DEF Send, clientVars
<1>4. /\ Len(log) \in Nat
      /\ \A i \in 1 .. Len(log') : log'[i] \in Int
      /\ next[c] \in Nat \ {0} /\ next[c] <= Len(log')
      /\ newest[c] # None => newest[c] \in Int
  <2>1. log' \in Seq(Snapshots)
    BY <1>1 DEF UplinkTypeOK
  <2>2. \A i \in 1 .. Len(log') : log'[i] \in Int
    BY <2>1, UplinkAssumption DEF Snapshots
  <2>3. Len(log) \in Nat /\ next[c] \in Nat \ {0}
    BY <1>1 DEF UplinkTypeOK
  <2>4. newest[c] # None => newest[c] \in Int
    BY <1>1 DEF UplinkTypeOK, Snapshots
  <2>5. next[c] <= Len(log')
    BY <1>2, <2>3 DEF UplinkInv, ReceiversFollow
  <2> QED
    BY <2>2, <2>3, <2>4, <2>5
<1>5. /\ Oldest' = (IF Len(log') > Cap THEN Len(log') - Cap + 1 ELSE 1)
      /\ Oldest = (IF Len(log) > Cap THEN Len(log) - Cap + 1 ELSE 1)
  BY DEF Oldest
<1>6. ASSUME NEW i \in 1 .. Len(log'),
             \E j \in Oldest' .. Len(log') : j >= next[c] /\ log'[j] >= log'[i]
      PROVE  CanReach(c, log[i])'
  BY <1>3, <1>6 DEF CanReach
<1>7. PICK m \in 1 .. Len(log') :
        /\ m \in {Len(log') - 1, Len(log')}
        /\ \A i \in 1 .. Len(log') : log'[i] <= log'[m]
  <2>1. Len(log') > 0
    BY <1>2, <1>4
  <2> QED
    BY <1>1, <2>1 DEF LogInv, NewestIsLate, IsNewest
<1>8. m >= Oldest'
  BY <1>7, <1>5, <1>4, <1>2
<1>9. ASSUME NEW i \in 1 .. Len(log') PROVE CanReach(c, log[i])'
  <2>1. CASE i = Len(log')
    <3>1. i \in Oldest' .. Len(log') /\ i >= next[c] /\ log'[i] >= log'[i]
      BY <2>1, <1>2, <1>4, <1>5
    <3> QED
      BY <3>1, <1>6
  <2>2. CASE i # Len(log')
    <3>1. i \in 1 .. Len(log) /\ log'[i] = log[i]
      BY <2>2, <1>2, <1>4
    <3>2. CanReach(c, log[i])
      BY <3>1 DEF UplinkInv, NoMissedUpdate
    <3>3. CASE newest[c] # None /\ newest[c] >= log[i]
      BY <3>1, <3>3, <1>3 DEF CanReach
    <3>4. ASSUME NEW j \in Oldest .. Len(log),
                 j >= next[c], log[j] >= log[i]
          PROVE  CanReach(c, log[i])'
      <4>1. j \in 1 .. Len(log) /\ log'[j] = log[j]
        BY <1>2, <1>4, <1>5
      <4>2. CASE j >= Oldest'
        <5>1. j \in Oldest' .. Len(log') /\ log'[j] >= log'[i]
          BY <4>1, <4>2, <3>1, <3>4, <1>2, <1>4, <1>5
        <5> QED
          BY <5>1, <3>4, <1>6
      <4>3. CASE j < Oldest'
        <5>1. m \in Oldest' .. Len(log') /\ m >= next[c]
          BY <4>1, <4>3, <3>4, <1>2, <1>4, <1>5, <1>7, <1>8
        <5>2. log'[m] >= log'[i]
          BY <1>4, <1>7
        <5> QED
          BY <5>1, <5>2, <1>6
      <4> QED
        BY <4>1, <4>2, <4>3, <1>4, <1>5
    <3> QED
      BY <3>2, <3>3, <3>4 DEF CanReach
  <2> QED
    BY <2>1, <2>2
<1> QED
  BY <1>9

\* A client that a step leaves as it was can reach what it could.
LEMMA ReachKept ==
  ASSUME UplinkInv, NEW c \in Clients, UNCHANGED <<log, next[c], newest[c]>>,
         status[c] = "attached"
  PROVE  \A i \in 1 .. Len(log') : CanReach(c, log[i])'
  BY DEF UplinkInv, NoMissedUpdate, CanReach, Oldest

\* Greeting shows a snapshot as new as any sent before it.
LEMMA GreetReaches ==
  ASSUME UplinkInv, NEW c \in Clients, Greet(c)
  PROVE  \A i \in 1 .. Len(log') : CanReach(c, log[i])'
<1> USE UplinkAssumption
<1>1. /\ UplinkTypeOK /\ TakenFromState
      /\ version \in Snapshots
      /\ newest \in [Clients -> Snapshots \cup {None}]
  BY DEF UplinkInv, LogInv, UplinkTypeOK
<1>2. newest'[c] \in Snapshots /\ newest'[c] >= version
  BY <1>1 DEF Greet, Greeting, Show, Snapshots
<1>3. log' = log
  BY DEF Greet, stateVars
<1>4. \A i \in 1 .. Len(log') : newest'[c] # None /\ newest'[c] >= log'[i]
  <2>1. \A i \in 1 .. Len(log) : log[i] <= version /\ log[i] \in Int
    BY <1>1, LogFacts DEF TakenFromState
  <2> QED
    BY <1>1, <1>2, <1>3, <2>1 DEF Snapshots
<1> QED
  BY <1>4 DEF CanReach

\* A client that lags moves over dropped messages only, and one that does not
\* shows the message it moves over.
LEMMA ForwardReaches ==
  ASSUME UplinkInv, NEW c \in Clients, Forward(c)
  PROVE  \A i \in 1 .. Len(log') : CanReach(c, log[i])'
<1> USE UplinkAssumption
<1>1. /\ UplinkTypeOK
      /\ log' = log /\ Oldest' = Oldest
      /\ status[c] = "attached"
  BY DEF UplinkInv, LogInv, Forward, stateVars, Oldest
<1>2. /\ Len(log) \in Nat /\ Oldest \in Nat \ {0}
      /\ next[c] \in Nat \ {0} /\ next[c] <= Len(log)
      /\ newest[c] # None => newest[c] \in Int
      /\ \A i \in 1 .. Len(log) : log[i] \in Int
  <2>1. Len(log) \in Nat /\ Oldest \in Nat \ {0}
    BY <1>1, LogFacts
  <2>2. next[c] \in Nat \ {0} /\ next[c] <= Len(log)
    BY <1>1 DEF Forward, UplinkTypeOK
  <2>3. newest[c] # None => newest[c] \in Int
    BY <1>1 DEF UplinkTypeOK, Snapshots
  <2>4. \A i \in 1 .. Len(log) : log[i] \in Int
    BY <1>1, LogFacts
  <2> QED
    BY <2>1, <2>2, <2>3, <2>4
<1>3. ASSUME NEW i \in 1 .. Len(log) PROVE CanReach(c, log[i])'
  <2>1. \/ newest[c] # None /\ newest[c] >= log[i]
        \/ \E j \in Oldest .. Len(log) : j >= next[c] /\ log[j] >= log[i]
    BY <1>1 DEF UplinkInv, NoMissedUpdate, CanReach
  <2>2. CASE next[c] < Oldest
    <3>1. next'[c] = Oldest /\ newest' = newest
      BY <1>1, <1>2, <2>2 DEF Forward, Resume, UplinkTypeOK
    <3>2. ASSUME NEW j \in Oldest .. Len(log) PROVE j >= next'[c]
      BY <3>1, <1>2
    <3> QED
      BY <1>1, <2>1, <3>1, <3>2 DEF CanReach
  <2>3. CASE next[c] >= Oldest
    <3>1. next'[c] = next[c] + 1 /\ Show(c, log[next[c]])
      BY <1>1, <1>2, <2>3 DEF Forward, UplinkTypeOK
    <3>2. newest \in [Clients -> Snapshots \cup {None}]
      BY <1>1 DEF UplinkTypeOK
    <3>3. log[next[c]] \in Snapshots
      BY <1>1, <1>2 DEF UplinkTypeOK
    <3>4. /\ newest'[c] \in Snapshots
          /\ newest'[c] >= log[next[c]]
          /\ newest[c] # None => newest'[c] >= newest[c]
      BY <3>1, <3>2, <3>3 DEF Show, Snapshots
    <3>5. CASE newest[c] # None /\ newest[c] >= log[i]
      <4>1. newest'[c] # None /\ newest'[c] >= log[i]
        BY <3>4, <3>5, <1>2 DEF Snapshots
      <4> QED
        BY <1>1, <4>1 DEF CanReach
    <3>6. ASSUME NEW j \in Oldest .. Len(log), j >= next[c], log[j] >= log[i]
          PROVE  CanReach(c, log[i])'
      <4>1. CASE j = next[c]
        <5>1. newest'[c] # None /\ newest'[c] >= log[i]
          BY <3>3, <3>4, <3>6, <4>1, <1>2 DEF Snapshots
        <5> QED
          BY <1>1, <5>1 DEF CanReach
      <4>2. CASE j # next[c]
        <5>1. j >= next'[c]
          BY <3>1, <3>6, <4>2, <1>2
        <5> QED
          BY <1>1, <3>6, <5>1 DEF CanReach
      <4> QED
        BY <4>1, <4>2
    <3> QED
      BY <2>1, <3>5, <3>6
  <2> QED
    BY <2>2, <2>3, <1>2
<1> QED
  BY <1>1, <1>3

\* What a step of one client leaves alone of another, and where it may lead.
LEMMA ClientLocal ==
  ASSUME UplinkTypeOK, NEW d \in Clients, ClientStep(d), NEW c \in Clients
  PROVE  /\ UNCHANGED log
         /\ c # d => UNCHANGED <<status[c], next[c], newest[c]>>
         /\ c = d => Greet(d) \/ Forward(d) \/ status'[c] # "attached"
<1>1. CASE Accept(d)
  BY <1>1 DEF Accept, UplinkTypeOK, stateVars
<1>2. CASE Subscribe(d)
  BY <1>2 DEF Subscribe, UplinkTypeOK, stateVars
<1>3. CASE Greet(d)
  BY <1>3 DEF Greet, Greeting, Show, UplinkTypeOK, stateVars
<1>4. CASE Forward(d)
  BY <1>4 DEF Forward, Show, UplinkTypeOK, stateVars
<1>5. CASE Connect(d)
  BY <1>5 DEF Connect, UplinkTypeOK, stateVars
<1>6. CASE Quit(d)
  BY <1>6 DEF Quit, UplinkTypeOK, stateVars
<1>7. CASE Dismiss(d)
  BY <1>7 DEF Dismiss, UplinkTypeOK, stateVars
<1> QED
  BY <1>1, <1>2, <1>3, <1>4, <1>5, <1>6, <1>7 DEF ClientStep

\* No receiver moves beyond the messages there are.
LEMMA ReceiversStep ==
  ASSUME UplinkInv, [Next]_vars
  PROVE  ReceiversFollow'
<1> USE UplinkAssumption
<1>1. /\ UplinkTypeOK /\ ReceiversFollow
      /\ next \in [Clients -> Nat \ {0}]
      /\ Len(log) \in Nat /\ Oldest \in Nat \ {0} /\ Oldest <= Len(log) + 1
  BY LogFacts DEF UplinkInv, LogInv, UplinkTypeOK, Oldest
<1>2. ASSUME NEW p \in Publishers, Send(p)
      PROVE  ReceiversFollow'
  <2>1. taken[p] \in Snapshots /\ log \in Seq(Snapshots)
    BY <1>1, <1>2 DEF UplinkTypeOK, Send, Holds
  <2>2. Len(log') = Len(log) + 1 /\ next' = next
    BY <1>2, <2>1, AppendFacts DEF Send, clientVars
  <2> QED
    BY <1>1, <2>2 DEF ReceiversFollow
<1>3. ASSUME NEW c \in Clients,
             Subscribe(c) \/ Forward(c) \/ Quit(c)
      PROVE  ReceiversFollow'
  <2>1. log' = log
    BY <1>3 DEF Subscribe, Forward, Quit, stateVars
  <2>2. \/ next' = next
        \/ \E n \in 1 .. Len(log) + 1 : next' = [next EXCEPT ![c] = n]
    <3>1. CASE Subscribe(c)
      <4>1. next' = [next EXCEPT ![c] = Len(log) + 1]
        BY <3>1 DEF Subscribe
      <4>2. Len(log) + 1 \in 1 .. Len(log) + 1
        BY <1>1
      <4> QED
        BY <4>1, <4>2
    <3>2. CASE Forward(c)
      <4>1. \/ next' = [next EXCEPT ![c] = Oldest]
            \/ next[c] <= Len(log) /\ next' = [next EXCEPT ![c] = next[c] + 1]
        BY <3>2 DEF Forward, Resume
      <4>2. next[c] \in Nat \ {0}
        BY <1>1
      <4> QED
        BY <1>1, <4>1, <4>2
    <3>3. CASE Quit(c)
      <4>1. next' = [next EXCEPT ![c] = 1]
        BY <3>3 DEF Quit
      <4>2. 1 \in 1 .. Len(log) + 1
        BY <1>1
      <4> QED
        BY <4>1, <4>2
    <3> QED
      BY <1>3, <3>1, <3>2, <3>3
  <2> QED
    BY <1>1, <2>1, <2>2 DEF ReceiversFollow
<1>4. ASSUME UNCHANGED <<log, next>>
      PROVE  ReceiversFollow'
  BY <1>1, <1>4 DEF ReceiversFollow
<1>5. ASSUME NEW c \in Clients,
             Accept(c) \/ Greet(c) \/ Connect(c) \/ Dismiss(c)
      PROVE  UNCHANGED <<log, next>>
  BY <1>5 DEF Accept, Greet, Connect, Dismiss, stateVars
<1>6. ASSUME NEW p \in Publishers, Take(p)
      PROVE  UNCHANGED <<log, next>>
  BY <1>6 DEF Take, clientVars
<1>7. CASE Change \/ AcceptFails \/ Stop \/ UNCHANGED vars
  BY <1>4, <1>7 DEF Change, AcceptFails, Stop, vars, stateVars, clientVars
<1> QED
  BY <1>2, <1>3, <1>4, <1>5, <1>6, <1>7 DEF Next

LEMMA UplinkStep == UplinkInv /\ [Next]_vars => UplinkInv'
<1> SUFFICES ASSUME UplinkInv, [Next]_vars
             PROVE  UplinkInv'
  OBVIOUS
<1>1. LogInv' /\ ReceiversFollow' /\ UplinkTypeOK
  BY LogStep, ReceiversStep DEF UplinkInv, LogInv
<1>2. ASSUME NEW c \in Clients, status'[c] = "attached"
      PROVE  \A i \in 1 .. Len(log') : CanReach(c, log[i])'
  <2>1. ASSUME NEW p \in Publishers, Send(p)
        PROVE  \A i \in 1 .. Len(log') : CanReach(c, log[i])'
    <3>1. status[c] = "attached"
      BY <1>2, <2>1 DEF Send, clientVars
    <3> QED
      BY <2>1, <3>1, SendKeepsReach
  <2>2. ASSUME NEW p \in Publishers, Take(p)
        PROVE  UNCHANGED <<log, status, next, newest>>
    BY <2>2 DEF Take, clientVars
  <2>3. CASE Change \/ UNCHANGED vars
    <3>1. UNCHANGED <<log, status, next, newest>>
      BY <2>3 DEF Change, vars, stateVars, clientVars
    <3> QED
      BY <1>2, <3>1, ReachKept
  <2>4. ASSUME NEW d \in Clients, ClientStep(d)
        PROVE  \A i \in 1 .. Len(log') : CanReach(c, log[i])'
    <3>1. CASE c = d
      BY <1>1, <1>2, <2>4, <3>1, ClientLocal, GreetReaches, ForwardReaches
    <3>2. CASE c # d
      BY <1>1, <1>2, <2>4, <3>2, ClientLocal, ReachKept
    <3> QED
      BY <3>1, <3>2
  <2>5. CASE AcceptFails \/ Stop
    <3>1. UNCHANGED <<log, next, newest>> /\ status[c] = "attached"
      BY <1>1, <1>2, <2>5 DEF AcceptFails, Stop, UplinkTypeOK, stateVars
    <3> QED
      BY <3>1, ReachKept
  <2> QED
    BY <1>2, <2>1, <2>2, <2>3, <2>4, <2>5, ReachKept DEF Next, ClientStep
<1>3. NoMissedUpdate'
  BY <1>2 DEF NoMissedUpdate
<1> QED
  BY <1>1, <1>3 DEF UplinkInv

\* No attached client misses an update for any number of clients and any
\* capacity of at least two, whatever the order in which the two publishers
\* send what they took and however far a client lags.
THEOREM NoUpdateIsMissed == Spec => []NoMissedUpdate
<1>1. UplinkInv => NoMissedUpdate
  BY DEF UplinkInv
<1> QED
  BY <1>1, UplinkInit, UplinkStep, PTL DEF Spec

-----------------------------------------------------------------------------
(* What the screens show when nothing is left to send. *)

\* No publisher has a snapshot to take or to send.
Settled == due = {} /\ \A p \in Publishers : taken[p] = None

\* The client has received every message.
HasAll(c) == status[c] = "attached" /\ next[c] > Len(log)

\* The sensor loop will still send the present state.
OnItsWay == "sensor" \in due \/ taken["sensor"] # None

StateIsSent ==
  \/ OnItsWay
  \/ \E i \in 1 .. Len(log) : log[i] = version
  \/ version = 0 /\ ("main" \in due \/ taken["main"] # None)

\* A client that has every message shows the last one or, if it came after
\* that, the state that it was greeted with, which is out of date only while
\* the next message is under way.
ScreenFollows(c) ==
  /\ newest[c] # None => newest[c] <= version
  /\ HasAll(c) => \/ shown[c] = version
                  \/ OnItsWay
                  \/ Len(log) > 0 /\ shown[c] = log[Len(log)]

ScreenInv == StateIsSent /\ \A c \in Clients : ScreenFollows(c)

\* Once both publishers have sent what they had, a client that has received
\* everything has shown the present state of AppState.  It shows it still,
\* unless the last message is main's: main's first snapshot may be sent after
\* newer ones, and then stands on the screen until the next change.
SettledScreensAreCurrent ==
  Settled =>
    /\ log # <<>>
    /\ \A c \in Clients : HasAll(c) =>
         /\ newest[c] = version
         /\ shown[c] = version \/ log[Len(log)] # version

LEMMA StateIsSentStep ==
  ASSUME UplinkInv, StateIsSent, [Next]_vars
  PROVE  StateIsSent'
<1> USE UplinkAssumption
<1>1. /\ UplinkTypeOK /\ TakenFromState /\ log \in Seq(Snapshots)
      /\ taken \in [Publishers -> Snapshots \cup {None}]
      /\ version \in Nat /\ Len(log) \in Nat
  BY LogFacts DEF UplinkInv, LogInv, UplinkTypeOK, Snapshots
<1>2. CASE Change
  BY <1>2 DEF Change, StateIsSent, OnItsWay
<1>3. ASSUME NEW p \in Publishers, Take(p) PROVE StateIsSent'
  <2>1. /\ due' = due \ {p} /\ taken' = [taken EXCEPT ![p] = version]
        /\ version' = version /\ log' = log
    BY <1>3 DEF Take
  <2>2. version # None
    BY <1>1
  <2>3. CASE p = "sensor"
    BY <1>1, <2>1, <2>2, <2>3 DEF StateIsSent, OnItsWay, Publishers
  <2>4. CASE p = "main"
    BY <1>1, <2>1, <2>2, <2>4 DEF StateIsSent, OnItsWay, Publishers
  <2> QED
    BY <2>3, <2>4 DEF Publishers
<1>4. ASSUME NEW p \in Publishers, Send(p) PROVE StateIsSent'
  <2>1. /\ taken[p] # None /\ taken[p] \in Snapshots
        /\ log' = Append(log, taken[p]) /\ taken' = [taken EXCEPT ![p] = None]
        /\ version' = version /\ due' = due
    BY <1>1, <1>4 DEF Send, Holds
  <2>2. /\ Len(log') = Len(log) + 1
        /\ log'[Len(log) + 1] = taken[p]
        /\ \A i \in 1 .. Len(log) : log'[i] = log[i]
    BY <1>1, <2>1, AppendFacts
  <2>3. CASE taken[p] = version
    <3>1. Len(log) + 1 \in 1 .. Len(log') /\ log'[Len(log) + 1] = version'
      BY <1>1, <2>1, <2>2, <2>3
    <3> QED
      BY <3>1 DEF StateIsSent
  <2>4. CASE taken[p] # version
    <3>1. p = "main" /\ version # 0
      BY <1>1, <2>1, <2>4 DEF TakenFromState, Publishers, Snapshots
    <3>2. OnItsWay => OnItsWay'
      BY <1>1, <2>1, <3>1 DEF OnItsWay, Publishers
    <3>3. \A i \in 1 .. Len(log) : i \in 1 .. Len(log') /\ log'[i] = log[i]
      BY <1>1, <2>2
    <3> QED
      BY <2>1, <3>1, <3>2, <3>3 DEF StateIsSent
  <2> QED
    BY <2>3, <2>4
<1>5. CASE UNCHANGED stateVars
  BY <1>5 DEF stateVars, StateIsSent, OnItsWay
<1>6. ASSUME NEW c \in Clients, ClientStep(c) PROVE UNCHANGED stateVars
  BY <1>6 DEF ClientStep, Accept, Subscribe, Greet, Forward, Connect, Quit, Dismiss
<1>7. CASE AcceptFails \/ Stop \/ UNCHANGED vars
  BY <1>5, <1>7 DEF AcceptFails, Stop, vars
<1> QED
  BY <1>2, <1>3, <1>4, <1>5, <1>6, <1>7 DEF Next, ClientStep

\* A step of one client leaves the screens of the others alone; only a message
\* or a greeting changes a screen that is attached.
LEMMA ScreenLocal ==
  ASSUME UplinkTypeOK, NEW d \in Clients, ClientStep(d), NEW c \in Clients
  PROVE  \/ c # d /\ UNCHANGED <<status[c], next[c], newest[c], shown[c]>>
         \/ c = d /\ (Greet(d) \/ Forward(d))
         \/ c = d /\ status'[c] # "attached" /\ newest'[c] \in {newest[c], None}
<1>1. CASE Accept(d)
  BY <1>1 DEF Accept, UplinkTypeOK
<1>2. CASE Subscribe(d)
  BY <1>2 DEF Subscribe, UplinkTypeOK
<1>3. CASE Greet(d)
  BY <1>3 DEF Greet, Greeting, Show, UplinkTypeOK
<1>4. CASE Forward(d)
  BY <1>4 DEF Forward, Show, UplinkTypeOK
<1>5. CASE Connect(d)
  BY <1>5 DEF Connect, UplinkTypeOK
<1>6. CASE Quit(d)
  BY <1>6 DEF Quit, UplinkTypeOK
<1>7. CASE Dismiss(d)
  BY <1>7 DEF Dismiss, UplinkTypeOK
<1> QED
  BY <1>1, <1>2, <1>3, <1>4, <1>5, <1>6, <1>7 DEF ClientStep

\* A screen after a message or the greeting.
LEMMA ShowFollows ==
  ASSUME UplinkInv, NEW c \in Clients, ScreenFollows(c), Greet(c) \/ Forward(c)
  PROVE  ScreenFollows(c)'
<1> USE UplinkAssumption
<1>1. /\ UplinkTypeOK /\ TakenFromState
      /\ newest \in [Clients -> Snapshots \cup {None}]
      /\ shown \in [Clients -> Snapshots \cup {None}]
      /\ next \in [Clients -> Nat \ {0}]
      /\ version \in Nat /\ version \in Snapshots /\ Len(log) \in Nat
      /\ Oldest \in Nat \ {0}
      /\ log' = log /\ version' = version /\ status \in [Clients -> Statuses]
  BY LogFacts DEF UplinkInv, LogInv, UplinkTypeOK, Snapshots, Greet, Forward, stateVars
<1>2. ASSUME NEW v \in Snapshots, v <= version, Show(c, v)
      PROVE  /\ shown'[c] = v
             /\ newest'[c] # None => newest'[c] <= version
  BY <1>1, <1>2 DEF Show, ScreenFollows, Snapshots
<1>3. CASE Greet(c)
  <2>1. Show(c, version)
    BY <1>3 DEF Greet, Greeting
  <2> QED
    BY <1>1, <1>2, <2>1 DEF ScreenFollows
<1>4. CASE Forward(c) /\ next[c] < Oldest
  <2>1. next' = [next EXCEPT ![c] = Oldest] /\ newest' = newest
    BY <1>1, <1>4 DEF Forward, Resume
  <2>2. Oldest <= Len(log)
    BY <1>1, <1>4 DEF Oldest
  <2>3. ~ (next'[c] > Len(log'))
    BY <1>1, <2>1, <2>2
  <2> QED
    BY <1>1, <2>1, <2>3 DEF ScreenFollows, HasAll
<1>5. CASE Forward(c) /\ ~ (next[c] < Oldest)
  <2>1. /\ next[c] <= Len(log) /\ Show(c, log[next[c]])
        /\ next' = [next EXCEPT ![c] = next[c] + 1]
    BY <1>1, <1>5 DEF Forward
  <2>2. next[c] \in 1 .. Len(log)
    BY <1>1, <2>1
  <2>3. log[next[c]] <= version /\ log[next[c]] \in Snapshots
    BY <1>1, <2>2 DEF TakenFromState, UplinkTypeOK
  <2>4. /\ shown'[c] = log[next[c]]
        /\ newest'[c] # None => newest'[c] <= version
    BY <1>2, <2>1, <2>3
  <2>5. next'[c] > Len(log) => next[c] = Len(log) /\ Len(log) > 0
    BY <1>1, <2>1, <2>2
  <2> QED
    BY <1>1, <2>4, <2>5 DEF ScreenFollows, HasAll
<1> QED
  BY <1>3, <1>4, <1>5

LEMMA ScreenStep ==
  ASSUME UplinkInv, ScreenInv, [Next]_vars
  PROVE  ScreenInv'
<1> USE UplinkAssumption
<1>0. /\ UplinkTypeOK /\ StateIsSent
      /\ \A c \in Clients : ScreenFollows(c)
  BY DEF ScreenInv, UplinkInv, LogInv
<1>1. StateIsSent'
  BY <1>0, StateIsSentStep
<1>2. ASSUME NEW c \in Clients PROVE ScreenFollows(c)'
  <2>0. /\ ScreenFollows(c)
        /\ next[c] \in Nat /\ Len(log) \in Nat /\ next[c] <= Len(log) + 1
        /\ version \in Nat /\ newest[c] \in Snapshots \cup {None}
        /\ taken \in [Publishers -> Snapshots \cup {None}]
    BY <1>0, LogFacts DEF UplinkInv, ReceiversFollow, UplinkTypeOK, Snapshots
  <2>1. CASE Change
    <3>1. OnItsWay' /\ version' = version + 1 /\ newest' = newest
      BY <2>1 DEF Change, OnItsWay, clientVars
    <3> QED
      BY <2>0, <3>1 DEF ScreenFollows, Snapshots
  <2>2. ASSUME NEW p \in Publishers, Take(p) PROVE ScreenFollows(c)'
    <3>1. OnItsWay => OnItsWay'
      BY <2>0, <2>2 DEF Take, OnItsWay, Publishers
    <3>2. UNCHANGED <<version, log, status, next, newest, shown>>
      BY <2>2 DEF Take, clientVars
    <3> QED
      BY <2>0, <3>1, <3>2 DEF ScreenFollows, HasAll
  <2>3. ASSUME NEW p \in Publishers, Send(p) PROVE ScreenFollows(c)'
    <3>1. taken[p] \in Snapshots /\ log \in Seq(Snapshots)
      BY <1>0, <2>3 DEF UplinkTypeOK, Send, Holds
    <3>2. Len(log') = Len(log) + 1
      BY <2>3, <3>1, AppendFacts DEF Send
    <3>3. UNCHANGED <<version, status, next, newest>>
      BY <2>3 DEF Send, clientVars
    <3>4. ~ (next'[c] > Len(log'))
      BY <2>0, <3>2, <3>3
    <3> QED
      BY <2>0, <3>3, <3>4 DEF ScreenFollows, HasAll
  <2>4. ASSUME UNCHANGED <<stateVars, next, newest, shown>>,
               status'[c] = "attached" => status[c] = "attached"
        PROVE  ScreenFollows(c)'
    BY <2>0, <2>4 DEF ScreenFollows, HasAll, OnItsWay, stateVars
  <2>5. ASSUME NEW d \in Clients, ClientStep(d) PROVE ScreenFollows(c)'
    <3>1. UNCHANGED stateVars
      BY <2>5 DEF ClientStep, Accept, Subscribe, Greet, Forward, Connect, Quit, Dismiss
    <3>2. CASE c # d /\ UNCHANGED <<status[c], next[c], newest[c], shown[c]>>
      BY <2>0, <3>1, <3>2 DEF ScreenFollows, HasAll, OnItsWay, stateVars
    <3>3. CASE c = d /\ (Greet(d) \/ Forward(d))
      BY <2>0, <3>3, ShowFollows
    <3>4. CASE status'[c] # "attached" /\ newest'[c] \in {newest[c], None}
      BY <2>0, <3>1, <3>4 DEF ScreenFollows, HasAll, stateVars
    <3> QED
      BY <1>0, <2>5, <3>2, <3>3, <3>4, ScreenLocal
  <2>6. CASE AcceptFails \/ Stop
    <3>1. /\ UNCHANGED <<stateVars, next, newest, shown>>
          /\ status'[c] = "attached" => status[c] = "attached"
      BY <2>6 DEF AcceptFails, Stop
    <3> QED
      BY <2>4, <3>1
  <2>7. CASE UNCHANGED vars
    BY <2>4, <2>7 DEF vars, clientVars
  <2> QED
    BY <2>1, <2>2, <2>3, <2>5, <2>6, <2>7 DEF Next, ClientStep
<1> QED
  BY <1>1, <1>2 DEF ScreenInv

\* In a settled system a client that has everything is up to date, for any
\* number of clients, any capacity of at least two and any order of sends; the
\* one screen that may lag behind is one on which main's first snapshot came
\* last.
THEOREM SettledScreens == Spec => []SettledScreensAreCurrent
<1>1. Init => ScreenInv
  BY DEF Init, ScreenInv, StateIsSent, ScreenFollows, HasAll
<1>2. ASSUME UplinkInv, ScreenInv PROVE SettledScreensAreCurrent
  <2> SUFFICES ASSUME Settled PROVE SettledScreensAreCurrent
    BY DEF SettledScreensAreCurrent
  <2>1. ~ OnItsWay /\ "main" \notin due /\ taken["main"] = None
    BY DEF Settled, OnItsWay, Publishers
  <2>2. PICK i \in 1 .. Len(log) : log[i] = version
    BY <1>2, <2>1 DEF ScreenInv, StateIsSent
  <2>3. /\ Len(log) \in Nat /\ Oldest \in Nat \ {0} /\ version \in Nat
        /\ \A c \in Clients : next[c] \in Nat /\ (newest[c] # None => newest[c] \in Int)
    BY <1>2, LogFacts, UplinkAssumption
    DEF UplinkInv, LogInv, UplinkTypeOK, Snapshots
  <2>4. log # <<>>
    BY <2>2, <2>3
  <2>5. ASSUME NEW c \in Clients, HasAll(c)
        PROVE  /\ newest[c] = version
               /\ shown[c] = version \/ log[Len(log)] # version
    <3>1. newest[c] # None /\ newest[c] >= version
      <4>1. CanReach(c, version)
        BY <1>2, <2>2, <2>5 DEF UplinkInv, NoMissedUpdate, HasAll
      <4> QED
        BY <2>3, <2>5, <4>1 DEF CanReach, HasAll
    <3>2. newest[c] <= version
      BY <1>2, <3>1 DEF ScreenInv, ScreenFollows
    <3>3. shown[c] = version \/ shown[c] = log[Len(log)]
      BY <1>2, <2>1, <2>5 DEF ScreenInv, ScreenFollows
    <3> QED
      BY <2>3, <3>1, <3>2, <3>3
  <2> QED
    BY <2>4, <2>5 DEF SettledScreensAreCurrent
<1>3. UplinkInv /\ ScreenInv /\ [Next]_vars => ScreenInv'
  BY ScreenStep
<1> QED
  BY <1>1, <1>2, <1>3, UplinkInit, UplinkStep, PTL DEF Spec

=============================================================================
