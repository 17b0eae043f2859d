-------------------------- MODULE ForemanInbox_proofs --------------------------
(***************************************************************************)
(* Proofs about ForemanInbox, for every set of inputs and every bound: the *)
(* domains of the variables, that one input at most is with the Foreman,   *)
(* that no message or review is submitted twice and no result twice to one *)
(* run, and that the rows tell what happened.                              *)
(***************************************************************************)
EXTENDS ForemanInbox, TLAPS

Row == [state : RowStates, gen : 0..MaxRuns]

RunRow == [gen : 0..MaxRuns, status : {"none", "stopped", "failed"} \cup Active,
           desired : {"running", "stopped"}, phase : {"idle", "recovering", "recovered"},
           alive : BOOLEAN, bound : BOOLEAN, authority : Nat]

TickRow == [pc : {"idle", "observe", "arbiter", "load", "pasted", "entered"},
            input : Inputs \cup {"none"}, gen : 0..MaxRuns, authority : Nat, moved : BOOLEAN]

ConfigRow == [enabled : BOOLEAN, switched : 0..MaxSwitches]

ActorRow == [enabled : BOOLEAN, authority : Nat]

Counts == [Inputs -> [1..MaxRuns -> Nat]]

Ops == {"idle", "launch", "recover", "launch view", "recover view", "stop"}

\* A row that is out names the run it went to.
OutNamed == \A i \in Inputs : inbox[i].state \in Unresolved => inbox[i].gen \in 1..run.gen

\* Before the first launch there is no run and nothing in progress.
Begun == run.gen = 0 => run.status = "none" /\ op = "idle"

\* TypeOK in named parts, and the above.
Typed ==
  /\ inbox \in [Inputs -> Row] /\ OutNamed
  /\ config \in ConfigRow /\ actor \in ActorRow
  /\ run \in RunRow /\ op \in Ops
  /\ attempts \in 0..MaxAttempts /\ idle \in BOOLEAN
  /\ tick \in TickRow
  /\ up \in BOOLEAN /\ crashes \in 0..MaxCrashes
  /\ entered \in Counts
  /\ Begun

\* Typed is TypeOK and Begun.
LEMMA TypedIs == Typed <=> TypeOK /\ Begun
BY DEF Typed, TypeOK, Row, OutNamed, ConfigRow, ActorRow, RunRow, Ops, TickRow, Counts

\* A run that is active, or an operation on one, has a number.
LEMMA Numbered ==
  ASSUME Typed, run.status # "none" \/ op # "idle"
  PROVE  run.gen \in 1..MaxRuns
BY InboxAssumption DEF Typed, RunRow, Begun, InboxAssumption

\* No tick in progress is a tick.
LEMMA NoTickType == NoTick \in TickRow
BY InboxAssumption DEF NoTick, TickRow, InboxAssumption

\* Settle changes one state, and no generation.
LEMMA SettleEffect ==
  ASSUME Typed, NEW i \in Inputs \cup {"none"}, NEW from, NEW to \in {"submitted", "ambiguous", "settled"},
         Settle(i, from, to), from \subseteq Unresolved \/ to = "settled"
  PROVE  /\ inbox' \in [Inputs -> Row]
         /\ \A j \in Inputs : inbox'[j].gen = inbox[j].gen
         /\ \A j \in Inputs : j # i => inbox'[j] = inbox[j]
         /\ i \in Inputs => inbox'[i].state = IF State(i) \in from THEN to ELSE State(i)
         /\ \A j \in Inputs : inbox'[j].state \in Unresolved => State(j) \in Unresolved
BY DEF Settle, Typed, Row, RowStates, Unresolved, State

\* Enqueue changes a row that did not exist.
LEMMA EnqueueEffect ==
  ASSUME Typed, NEW i \in Inputs, State(i) = "none", Enqueue(i)
  PROVE  /\ inbox' \in [Inputs -> Row]
         /\ \A j \in Inputs : inbox'[j].gen = inbox[j].gen
         /\ \A j \in Inputs : j # i => inbox'[j] = inbox[j]
         /\ inbox'[i].state = "queued"
         /\ \A j \in Inputs : inbox'[j].state \in Unresolved => State(j) \in Unresolved
BY DEF Enqueue, Typed, Row, RowStates, Unresolved, State

\* One more Enter for input i in generation n, and for nothing else.
CountedAt(i, n) ==
  \A j \in Inputs, g \in 1..MaxRuns :
    entered'[j][g] = IF j = i /\ g = n THEN entered[j][g] + 1 ELSE entered[j][g]

\* What Enter does to the counts.
LEMMA EnterCounts ==
  ASSUME entered \in Counts, NEW i, NEW n \in 1..MaxRuns, entered' = [entered EXCEPT ![i][n] = @ + 1]
  PROVE  /\ entered' \in Counts
         /\ CountedAt(i, n)
<1>1. \A f \in [1..MaxRuns -> Nat] :
        /\ [f EXCEPT ![n] = f[n] + 1] \in [1..MaxRuns -> Nat]
        /\ \A g \in 1..MaxRuns : [f EXCEPT ![n] = f[n] + 1][g] = IF g = n THEN f[g] + 1 ELSE f[g]
  OBVIOUS
<1>2. entered' = [entered EXCEPT ![i] = [entered[i] EXCEPT ![n] = entered[i][n] + 1]]
  OBVIOUS
<1>3. \A j \in Inputs : entered[j] \in [1..MaxRuns -> Nat]
  BY DEF Counts
<1>4. \A j \in Inputs : entered'[j] = IF j = i THEN [entered[i] EXCEPT ![n] = entered[i][n] + 1]
                                                ELSE entered[j]
  BY <1>2 DEF Counts
<1>5. entered' = [j \in Inputs |-> entered'[j]]
  BY <1>2 DEF Counts
<1>6. ASSUME NEW j \in Inputs PROVE entered'[j] \in [1..MaxRuns -> Nat]
  <2>1. CASE j = i
    <3>1. entered[i] \in [1..MaxRuns -> Nat]
      BY <1>3, <2>1
    <3>2. [entered[i] EXCEPT ![n] = entered[i][n] + 1] \in [1..MaxRuns -> Nat]
      BY <1>1, <3>1
    <3> QED BY <1>4, <2>1, <3>2
  <2>2. CASE j # i
    BY <1>3, <1>4, <2>2
  <2> QED BY <2>1, <2>2
<1>7. entered' \in Counts
  BY <1>5, <1>6 DEF Counts
<1>8. ASSUME NEW j \in Inputs, NEW g \in 1..MaxRuns
      PROVE  entered'[j][g] = IF j = i /\ g = n THEN entered[j][g] + 1 ELSE entered[j][g]
  <2>1. CASE j = i
    BY <1>1, <1>3, <1>4, <2>1
  <2>2. CASE j # i
    BY <1>4, <2>2
  <2> QED BY <2>1, <2>2
<1> QED BY <1>7, <1>8 DEF CountedAt

-----------------------------------------------------------------------------

\* A step that only changes rows, none of which goes out, keeps the types.
LEMMA RowsType ==
  ASSUME Typed, UNCHANGED <<service, tick, daemon, entered>>,
         inbox' \in [Inputs -> Row],
         \A j \in Inputs : inbox'[j].gen = inbox[j].gen,
         \A j \in Inputs : inbox'[j].state \in Unresolved => State(j) \in Unresolved
  PROVE  Typed'
BY DEF Typed, OutNamed, State, Begun, service, daemon

\* Operators, the Foreman and the other services settle and add rows.
RowStep ==
  \/ \E m \in Messages : OperatorMessage(m) \/ ForemanReply(m)
  \/ \E i \in Inputs : ResolveInput(i)
  \/ \E q \in Results : ConversationResult(q) \/ FinishConversation(q)
  \/ \E r \in Reviews : GoalReview(r) \/ FinishReview(r)

\* Steps of one row keep the variables in their domains.
LEMMA RowStepType == Typed /\ RowStep => Typed'
<1> SUFFICES ASSUME Typed, RowStep PROVE Typed'
  OBVIOUS
<1> USE DEF Typed, Inputs
<1>1. ASSUME NEW m \in Messages, OperatorMessage(m) PROVE Typed'
  BY <1>1, EnqueueEffect, RowsType DEF OperatorMessage
<1>2. ASSUME NEW q \in Results, ConversationResult(q) PROVE Typed'
  BY <1>2, EnqueueEffect, RowsType DEF ConversationResult
<1>3. ASSUME NEW r \in Reviews, GoalReview(r) PROVE Typed'
  BY <1>3, EnqueueEffect, RowsType DEF GoalReview
<1>4. ASSUME NEW m \in Messages, ForemanReply(m) PROVE Typed'
  BY <1>4, SettleEffect, RowsType DEF ForemanReply
<1>5. ASSUME NEW q \in Results, FinishConversation(q) PROVE Typed'
  BY <1>5, SettleEffect, RowsType DEF FinishConversation
<1>6. ASSUME NEW r \in Reviews, FinishReview(r) PROVE Typed'
  BY <1>6, SettleEffect, RowsType DEF FinishReview
<1>7. ASSUME NEW i \in Inputs, ResolveInput(i) PROVE Typed'
  BY <1>7, SettleEffect, RowsType DEF ResolveInput
<1> QED BY <1>1, <1>2, <1>3, <1>4, <1>5, <1>6, <1>7 DEF RowStep

\* The pass keeps the variables in their domains.
LEMMA TickType == Typed /\ Tick => Typed'
<1> SUFFICES ASSUME Typed, Tick PROVE Typed'
  OBVIOUS
<1> USE NoTickType
<1>0. tick \in TickRow /\ inbox \in [Inputs -> Row] /\ run \in RunRow
  BY DEF Typed
<1>1. CASE TickBegin
  <2>1. tick' \in TickRow
    BY <1>0, <1>1 DEF TickBegin, TickRow, RunRow
  <2> QED BY <1>1, <2>1 DEF TickBegin, Typed, OutNamed, Begun, service, daemon
<1>2. CASE TickChoose
  <2> DEFINE rows == IF Ready(tick.gen) THEN Requeued(tick.gen) ELSE inbox
  <2>1. /\ rows \in [Inputs -> Row]
        /\ \A i \in Inputs : rows[i].state \in Unresolved => rows[i] = inbox[i]
    BY <1>0, InboxAssumption DEF Requeued, Row, RowStates, Unresolved, InboxAssumption
  <2>2. /\ tick' \in TickRow
        /\ \/ inbox' = rows
           \/ \E i \in Inputs : inbox' = [rows EXCEPT ![i].state = "settled"]
    BY <1>0, <1>2 DEF TickChoose, TickRow
  <2> HIDE DEF rows
  <2>3. /\ inbox' \in [Inputs -> Row]
        /\ \A i \in Inputs : inbox'[i].state \in Unresolved => inbox'[i] = inbox[i]
    BY <2>1, <2>2 DEF Row, RowStates, Unresolved
  <2>4. \A i \in Inputs : inbox'[i].state \in Unresolved => inbox'[i].gen \in 1..run.gen
    BY <2>3 DEF Typed, OutNamed
  <2> QED BY <1>2, <2>2, <2>3, <2>4 DEF TickChoose, Typed, OutNamed, Begun, service, daemon
<1>3. CASE TickClaim
  <2>1. tick' \in TickRow
    BY <1>0, <1>3 DEF TickClaim, TickRow, Typed, ActorRow
  <2>2. /\ inbox' \in [Inputs -> Row]
        /\ \A i \in Inputs : inbox'[i].state \in Unresolved => inbox'[i].gen \in 1..run.gen
    <3>1. CASE inbox' = inbox
      BY <1>0, <3>1 DEF Typed, OutNamed
    <3>2. CASE Ready(tick.gen) /\ inbox' = [inbox EXCEPT ![tick.input] = Claimed]
      <4>1. tick.gen = run.gen /\ run.gen \in 1..MaxRuns
        BY <3>2, Numbered DEF Ready
      <4>2. Claimed \in Row /\ Claimed.gen \in 1..run.gen
        BY <4>1, <1>0, InboxAssumption DEF Claimed, Row, RowStates, Unresolved, InboxAssumption
      <4> QED BY <1>0, <3>2, <4>2 DEF Typed, OutNamed
    <3> QED BY <1>3, <3>1, <3>2 DEF TickClaim
  <2> QED BY <1>3, <2>1, <2>2 DEF TickClaim, Typed, OutNamed, Begun, service, daemon
<1>4. CASE TickPaste
  <2>1. tick' \in TickRow
    BY <1>0, <1>4 DEF TickPaste, TickRow
  <2> QED BY <1>4, <2>1 DEF TickPaste, Typed, OutNamed, Begun, service, daemon
<1>5. CASE TickEnter
  <2>1. tick' \in TickRow
    BY <1>0, <1>5 DEF TickEnter, TickRow
  <2>2. tick.gen \in 1..MaxRuns
    BY <1>5, Numbered DEF TickEnter, AssertCurrent, Ready
  <2>3. entered' \in Counts
    BY <1>5, <2>2, EnterCounts DEF TickEnter, Typed
  <2> QED BY <1>5, <2>1, <2>3 DEF TickEnter, Typed, OutNamed, Begun, service, daemon
<1>6. ASSUME NEW to \in {"submitted", "ambiguous"}, Settle(tick.input, {"writing"}, to),
             tick' = NoTick, UNCHANGED <<service, daemon, entered>>
      PROVE  Typed'
  <2>1. /\ inbox' \in [Inputs -> Row]
        /\ \A i \in Inputs : inbox'[i].gen = inbox[i].gen
        /\ \A i \in Inputs : inbox'[i].state \in Unresolved => State(i) \in Unresolved
    <3>1. tick.input \in Inputs \cup {"none"} /\ {"writing"} \subseteq Unresolved
      BY <1>0 DEF TickRow, Unresolved
    <3> QED BY <1>6, <3>1, SettleEffect DEF Typed
  <2>2. \A i \in Inputs : inbox'[i].state \in Unresolved => inbox'[i].gen \in 1..run.gen
    BY <2>1 DEF Typed, OutNamed, State
  <2> QED BY <1>6, <2>1, <2>2 DEF Typed, OutNamed, Begun, service, daemon
<1> QED BY <1>1, <1>2, <1>3, <1>4, <1>5, <1>6 DEF Tick, TickSubmitted, TickFailed

\* A step of the runtime leaves the rows out where they are.
LEMMA RunType ==
  ASSUME Typed, run' \in RunRow, run'.gen >= run.gen,
         config' \in ConfigRow,
         actor' \in ActorRow,
         op' \in Ops,
         attempts' \in 0..MaxAttempts, idle' \in BOOLEAN, tick' \in TickRow,
         Begun', inbox' \in [Inputs -> Row],
         \A i \in Inputs : inbox'[i].gen = inbox[i].gen,
         \A i \in Inputs : inbox'[i].state \in Unresolved => State(i) \in Unresolved,
         UNCHANGED <<up, crashes, entered>>
  PROVE  Typed'
<1>1. \A i \in Inputs : inbox'[i].state \in Unresolved => inbox'[i].gen \in 1..run'.gen
  BY DEF Typed, OutNamed, State, RunRow
<1> QED BY <1>1 DEF Typed, OutNamed

\* upsertForeman keeps the actor typed.
LEMMA UpsertType ==
  ASSUME actor \in ActorRow, NEW enabled \in BOOLEAN, Upsert(enabled)
  PROVE  actor' \in ActorRow
<1> DEFINE more == IF actor.enabled # enabled THEN 1 ELSE 0
<1>1. actor.authority \in Nat /\ more \in Nat
  BY DEF ActorRow
<1>2. actor.authority + more \in Nat
  <2> HIDE DEF more
  <2> QED BY <1>1
<1> QED BY <1>2 DEF Upsert, ActorRow

\* What Launch makes of the run and the actor.
LEMMA LaunchType ==
  ASSUME Typed, Launch, run.gen < MaxRuns
  PROVE  /\ run' \in RunRow /\ run'.gen = run.gen + 1 /\ actor' \in ActorRow /\ idle' \in BOOLEAN
<1>1. actor' \in ActorRow
  BY UpsertType DEF Launch, Typed
<1>2. run.gen + 1 \in 0..MaxRuns
  BY InboxAssumption DEF Typed, RunRow, InboxAssumption
<1> QED BY <1>1, <1>2 DEF Launch, RunRow, ActorRow, Active

\* The operations of the runtime keep the variables in their domains.
LEMMA RuntimeType ==
  Typed /\ (Start \/ Stop \/ RuntimeSteps \/ ReconcileRun \/ Recover) => Typed'
<1> SUFFICES ASSUME Typed, Start \/ Stop \/ RuntimeSteps \/ ReconcileRun \/ Recover
             PROVE  Typed'
  OBVIOUS
<1>0. /\ run \in RunRow /\ run.gen >= run.gen /\ actor \in ActorRow /\ config \in ConfigRow
      /\ op \in Ops /\ tick \in TickRow /\ attempts \in 0..MaxAttempts /\ idle \in BOOLEAN
      /\ inbox \in [Inputs -> Row] /\ Begun
  BY DEF Typed, RunRow
<1>1. CASE Start
  <2>1. /\ run' \in RunRow /\ run'.gen = run.gen + 1 /\ actor' \in ActorRow /\ idle' \in BOOLEAN
    BY <1>1, LaunchType DEF Start
  <2>2. Begun' /\ run'.gen >= run.gen
    BY <1>0, <2>1 DEF Begun, RunRow
  <2> QED BY <1>0, <1>1, <2>1, <2>2, RunType DEF Start, daemon, Ops, State
<1>2. CASE Stop
  <2>1. run' \in RunRow /\ run'.gen = run.gen /\ op' \in Ops /\ Begun'
    BY <1>0, <1>2 DEF Stop, BeginStop, RunRow, Active, Ops, Begun
  <2> QED BY <1>0, <1>2, <2>1, RunType DEF Stop, daemon, State
<1>3. CASE LaunchDone
  <2>1. op' \in Ops /\ op # "idle"
    BY <1>3 DEF LaunchDone, Ops
  <2>2. ASSUME NEW status \in {"running", "stopping"}, NEW desired \in {"running", "stopped"}
        PROVE  /\ [run EXCEPT !.status = status, !.desired = desired, !.alive = TRUE] \in RunRow
               /\ [run EXCEPT !.status = status, !.desired = desired, !.alive = TRUE].gen = run.gen
    BY <1>0 DEF RunRow, Active
  <2>3. ASSUME NEW status \in {"running", "stopping"}
        PROVE  /\ [run EXCEPT !.status = status, !.alive = TRUE] \in RunRow
               /\ [run EXCEPT !.status = status, !.alive = TRUE].gen = run.gen
    BY <1>0 DEF RunRow, Active
  <2>4. run' \in RunRow /\ run'.gen = run.gen
    BY <1>3, <2>2, <2>3 DEF LaunchDone
  <2>5. Begun'
    BY <1>0, <2>1, <2>4 DEF Begun
  <2> QED BY <1>0, <1>3, <2>1, <2>4, <2>5, RunType DEF LaunchDone, daemon, State
<1>4. CASE LaunchFailed
  <2>1. run' \in RunRow /\ run'.gen = run.gen /\ op' \in Ops /\ Begun'
    BY <1>0, <1>4 DEF LaunchFailed, RunRow, Ops, Begun
  <2> QED BY <1>0, <1>4, <2>1, RunType DEF LaunchFailed, daemon, State
<1>5. CASE LaunchViewed
  <2>1. run' \in RunRow /\ run'.gen = run.gen /\ op' \in Ops /\ Begun' /\ attempts' \in 0..MaxAttempts
    <3>1. CASE op = "launch view"
      <4>1. run' = run /\ op' = "idle" /\ attempts' = 0
        BY <1>5, <3>1 DEF LaunchViewed
      <4>2. attempts' \in 0..MaxAttempts
        BY <4>1, InboxAssumption DEF InboxAssumption
      <4> QED BY <1>0, <4>1, <4>2 DEF Ops, Begun
    <3>2. CASE op # "launch view"
      BY <1>0, <1>5, <3>2 DEF LaunchViewed, RunRow, Ops, Begun
    <3> QED BY <3>1, <3>2
  <2> QED BY <1>0, <1>5, <2>1, RunType DEF LaunchViewed, daemon, State
<1>6. CASE StopDone
  <2>1. run' \in RunRow /\ run'.gen = run.gen /\ op' \in Ops /\ Begun' /\ idle' \in BOOLEAN
    BY <1>0, <1>6 DEF StopDone, RunRow, Ops, Begun
  <2> QED BY <1>0, <1>6, <2>1, RunType DEF StopDone, daemon, State
<1>7. CASE ReconcileRun
  <2>1. run' \in RunRow /\ run'.gen = run.gen /\ op' \in Ops /\ Begun'
    BY <1>0, <1>7 DEF ReconcileRun, BeginStop, RunRow, Active, Ops, Begun
  <2>2. actor' \in ActorRow
    BY <1>0, <1>7, UpsertType DEF ReconcileRun
  <2> QED BY <1>0, <1>7, <2>1, <2>2, RunType DEF ReconcileRun, daemon, State
<1>8. CASE Recover
  <2>1. /\ run' \in RunRow /\ run'.gen = run.gen + 1 /\ actor' \in ActorRow /\ idle' \in BOOLEAN
    BY <1>8, LaunchType DEF Recover
  <2>2. Begun' /\ run'.gen >= run.gen /\ attempts' \in 0..MaxAttempts
    BY <1>0, <1>8, <2>1, InboxAssumption DEF Recover, Begun, RunRow, InboxAssumption
  <2>3. /\ inbox' \in [Inputs -> Row]
        /\ \A i \in Inputs : inbox'[i].gen = inbox[i].gen
        /\ \A i \in Inputs : inbox'[i].state \in Unresolved => State(i) \in Unresolved
    BY <1>0, <1>8 DEF Recover, State, Row, RowStates, Unresolved
  <2> QED BY <1>0, <1>8, <2>1, <2>2, <2>3, RunType DEF Recover, daemon, Ops
<1> QED BY <1>1, <1>2, <1>3, <1>4, <1>5, <1>6, <1>7, <1>8 DEF RuntimeSteps

\* What happens around keeps the variables in their domains.
Around ==
  \/ \E enabled \in BOOLEAN : Reconfigure(enabled)
  \/ \E ready \in BOOLEAN : AgentReports(ready)
  \/ ProcessDies

LEMMA AroundType == Typed /\ Around => Typed'
<1> SUFFICES ASSUME Typed, Around PROVE Typed'
  OBVIOUS
<1>0. /\ run \in RunRow /\ run.gen >= run.gen /\ actor \in ActorRow /\ config \in ConfigRow
      /\ op \in Ops /\ tick \in TickRow /\ attempts \in 0..MaxAttempts /\ idle \in BOOLEAN
      /\ inbox \in [Inputs -> Row] /\ Begun
  BY DEF Typed, RunRow
<1>1. ASSUME NEW enabled \in BOOLEAN, Reconfigure(enabled) PROVE Typed'
  <2>1. run' \in RunRow /\ run'.gen = run.gen /\ Begun'
    BY <1>0, <1>1 DEF Reconfigure, RunRow, Begun
  <2>2. config' \in ConfigRow
    BY <1>0, <1>1, InboxAssumption DEF Reconfigure, ConfigRow, InboxAssumption
  <2> QED BY <1>0, <1>1, <2>1, <2>2, RunType DEF Reconfigure, daemon, State
<1>2. Moved \in TickRow
  BY <1>0 DEF Moved, TickRow
<1>3. CASE ProcessDies
  <2>1. run' \in RunRow /\ run'.gen = run.gen /\ Begun'
    BY <1>0, <1>3 DEF ProcessDies, RunRow, Begun
  <2> QED BY <1>0, <1>2, <1>3, <2>1, RunType DEF ProcessDies, daemon, State
<1>4. ASSUME NEW ready \in BOOLEAN, AgentReports(ready) PROVE Typed'
  <2>1. run' \in RunRow /\ run'.gen = run.gen /\ Begun'
    BY <1>0, <1>4 DEF AgentReports, RunRow, Begun
  <2>2. idle' \in BOOLEAN
    BY <1>0, <1>4 DEF AgentReports
  <2> QED BY <1>0, <1>2, <1>4, <2>1, <2>2, RunType DEF AgentReports, daemon, State
<1> QED BY <1>1, <1>3, <1>4 DEF Around

\* A crash and a restart keep the variables in their domains.
LEMMA CrashType == Typed /\ (Crash \/ Restart) => Typed'
<1> SUFFICES ASSUME Typed, Crash \/ Restart PROVE Typed'
  OBVIOUS
<1>1. CASE Crash
  <2>1. crashes' \in 0..MaxCrashes
    BY <1>1, InboxAssumption DEF Crash, Typed, InboxAssumption
  <2> QED BY <1>1, <2>1, NoTickType DEF Crash, Typed, OutNamed, Begun, Ops
<1>2. CASE Restart
  <2>1. /\ inbox' \in [Inputs -> Row]
        /\ \A i \in Inputs : inbox'[i].gen = inbox[i].gen
        /\ \A i \in Inputs : inbox'[i].state \in Unresolved => State(i) \in Unresolved
    BY <1>2 DEF Restart, Interrupted, Typed, State, Row, RowStates, Unresolved
  <2> QED BY <1>2, <2>1 DEF Restart, Typed, OutNamed, Begun, service, State
<1> QED BY <1>1, <1>2

\* The initial state is well typed.
LEMMA InitTyped == Init => Typed
<1> SUFFICES ASSUME Init PROVE Typed
  OBVIOUS
<1>1. 0 \in 0..MaxRuns /\ 0 \in 0..MaxAttempts /\ 0 \in 0..MaxCrashes /\ 0 \in 0..MaxSwitches
  BY InboxAssumption DEF InboxAssumption
<1>2. inbox \in [Inputs -> Row] /\ OutNamed
  BY <1>1 DEF Init, Row, RowStates, OutNamed, Unresolved
<1>3. run \in RunRow /\ Begun /\ config \in ConfigRow /\ actor \in ActorRow
  BY <1>1 DEF Init, RunRow, Begun, ConfigRow, ActorRow
<1>4. entered \in Counts
  BY DEF Init, Counts
<1> QED BY <1>1, <1>2, <1>3, <1>4, NoTickType DEF Init, Typed, Ops

\* Every step keeps the variables in their domains.
LEMMA NextTyped == Typed /\ [Next]_vars => Typed'
<1> SUFFICES ASSUME Typed, [Next]_vars PROVE Typed'
  OBVIOUS
<1>1. CASE UNCHANGED vars
  BY <1>1 DEF vars, service, daemon, Typed, OutNamed, Begun
<1>2. CASE Next
  <2>1. RowStep \/ Tick \/ Around \/ Crash \/ Restart
          \/ Start \/ Stop \/ RuntimeSteps \/ ReconcileRun \/ Recover
    BY <1>2 DEF Next, Operators, Foreman, RowStep, Around
  <2> QED BY <2>1, RowStepType, TickType, AroundType, CrashType, RuntimeType
<1> QED BY <1>1, <1>2

\* The variables stay in their domains, and a row that is out names the run it went to
\* (foreman-inbox-scheduler.ts #dispatch).
THEOREM TypeCorrect == Spec => []TypeOK
<1>1. Spec => []Typed
  BY InitTyped, NextTyped, PTL DEF Spec
<1>2. Typed => TypeOK
  BY TypedIs
<1> QED BY <1>1, <1>2, PTL

-----------------------------------------------------------------------------
(* One input at a time, submitted once. *)

\* The input the pass has in its hand.
Hand == tick.input

\* The pass has chosen an input: nothing is with the Foreman.
Chosen ==
  tick.pc = "arbiter" => Hand \in Inputs /\ \A i \in Inputs : State(i) \notin Unresolved

\* The row of an input that is being written: it went to the run of the pass, or was
\* settled or marked ambiguous meanwhile.
InHand ==
  tick.pc \in {"load", "pasted", "entered"} =>
    /\ Hand \in Inputs /\ tick.gen \in 1..MaxRuns
    /\ State(Hand) \in {"writing", "ambiguous", "settled"}
    /\ State(Hand) \in Unresolved => inbox[Hand].gen = tick.gen

\* It was submitted only when Enter was sent.
Unsent ==
  /\ tick.pc \in {"load", "pasted"} =>
       \A g \in 1..MaxRuns : g = tick.gen \/ Hand \notin Results => entered[Hand][g] = 0
  /\ tick.pc = "entered" => entered[Hand][tick.gen] > 0

\* Where an input may have been submitted so far: nowhere before it is out, results only to
\* runs that came earlier while they are queued, and not later than to the run they name.
Sent ==
  \A i \in Inputs, g \in 1..MaxRuns :
    /\ State(i) = "none" => entered[i][g] = 0
    /\ State(i) = "queued" /\ (i \notin Results \/ g >= run.gen) => entered[i][g] = 0
    /\ State(i) \in Unresolved /\ g > inbox[i].gen => entered[i][g] = 0
    /\ State(i) = "submitted" /\ g = inbox[i].gen => entered[i][g] > 0

InputInv == OneOutstanding /\ Chosen /\ InHand /\ Unsent /\ Sent /\ EnteredOnce

\* Rows that are settled or marked while the pass stands where it is.
LEMMA RowsMoved ==
  ASSUME Typed, InputInv, UNCHANGED <<tick, entered>>, run'.gen \in 0..MaxRuns, run'.gen >= run.gen,
         \A i \in Inputs : /\ inbox'[i].gen = inbox[i].gen
                           /\ \/ inbox'[i].state = State(i)
                              \/ inbox'[i].state = "settled"
                              \/ inbox'[i].state = "queued" /\ State(i) = "none"
                              \/ inbox'[i].state = "ambiguous" /\ State(i) \in {"writing", "submitted"}
  PROVE  InputInv'
<1>1. OneOutstanding' /\ Chosen'
  BY DEF InputInv, OneOutstanding, Chosen, Hand, State, Unresolved
<1>2. InHand' /\ Unsent'
  BY DEF InputInv, InHand, Unsent, Hand, State, Unresolved
<1>3. Sent'
  BY DEF Typed, RunRow, InputInv, Sent, State, Unresolved
<1>4. EnteredOnce'
  BY DEF InputInv, EnteredOnce
<1> QED BY <1>1, <1>2, <1>3, <1>4 DEF InputInv

\* Steps of one row keep the invariant.
LEMMA RowStepInput == Typed /\ InputInv /\ RowStep => InputInv'
<1> SUFFICES ASSUME Typed, InputInv, RowStep PROVE InputInv'
  OBVIOUS
<1>1. UNCHANGED <<tick, entered>> /\ run' = run /\ run'.gen \in 0..MaxRuns /\ run'.gen >= run.gen
  <2>1. UNCHANGED <<service, tick, entered>>
    BY DEF RowStep, OperatorMessage, ForemanReply, ResolveInput, ConversationResult,
           FinishConversation, GoalReview, FinishReview
  <2>2. run.gen \in 0..MaxRuns
    BY DEF Typed, RunRow
  <2> QED BY <2>1, <2>2 DEF service
<1>2. ASSUME NEW i \in Inputs, NEW from, Settle(i, from, "settled") PROVE InputInv'
  BY <1>1, <1>2, RowsMoved DEF Settle, State, Typed, Row
<1>3. ASSUME NEW i \in Inputs, State(i) = "none", Enqueue(i) PROVE InputInv'
  BY <1>1, <1>3, RowsMoved DEF Enqueue, State, Typed, Row
<1> QED BY <1>2, <1>3 DEF RowStep, OperatorMessage, ForemanReply, ResolveInput, ConversationResult,
                          FinishConversation, GoalReview, FinishReview, Inputs

\* The runtime keeps the invariant: a recovery marks what was out.
LEMMA RuntimeInput ==
  Typed /\ InputInv /\ (Start \/ Stop \/ RuntimeSteps \/ ReconcileRun \/ Recover) => InputInv'
<1> SUFFICES ASSUME Typed, InputInv, Start \/ Stop \/ RuntimeSteps \/ ReconcileRun \/ Recover
             PROVE  InputInv'
  OBVIOUS
<1>1. Typed'
  BY RuntimeType
<1>2. UNCHANGED <<tick, entered>>
  BY DEF Start, Stop, RuntimeSteps, LaunchDone, LaunchFailed, LaunchViewed, StopDone, ReconcileRun,
         Recover
<1>3. run'.gen \in 0..MaxRuns /\ run'.gen >= run.gen
  <2>1. run' \in RunRow /\ run \in RunRow
    BY <1>1 DEF Typed
  <2>2. run'.gen \in 0..MaxRuns /\ run.gen \in Nat
    BY <2>1 DEF RunRow
  <2>3. run'.gen = run.gen \/ run'.gen = run.gen + 1
    <3>1. CASE Start \/ Recover
      BY <3>1, LaunchType DEF Start, Recover
    <3>2. CASE Stop \/ ReconcileRun
      BY <2>1, <3>2 DEF Stop, ReconcileRun, BeginStop, RunRow
    <3>3. CASE LaunchDone
      BY <2>1, <3>3 DEF LaunchDone, RunRow
    <3>4. CASE LaunchFailed \/ StopDone
      BY <2>1, <3>4 DEF LaunchFailed, StopDone, RunRow
    <3>5. CASE LaunchViewed
      BY <2>1, <3>5 DEF LaunchViewed, RunRow
    <3> QED BY <3>1, <3>2, <3>3, <3>4, <3>5 DEF RuntimeSteps
  <2> QED BY <2>2, <2>3
<1>4. CASE Recover
  BY <1>2, <1>3, <1>4, RowsMoved DEF Recover, State, Typed, Row
<1>5. CASE ~ Recover
  BY <1>2, <1>3, <1>5, RowsMoved DEF Start, Stop, RuntimeSteps, LaunchDone, LaunchFailed, LaunchViewed,
                               StopDone, ReconcileRun, State
<1> QED BY <1>4, <1>5

\* Changes around the pass do not move rows or the pass.
LEMMA AroundInput == Typed /\ InputInv /\ (Around \/ Crash \/ Restart) => InputInv'
<1> SUFFICES ASSUME Typed, InputInv, Around \/ Crash \/ Restart PROVE InputInv'
  OBVIOUS
<1>1. run \in RunRow /\ run.gen \in 0..MaxRuns /\ run.gen \in Nat /\ run.gen >= run.gen
  BY InboxAssumption DEF Typed, RunRow, InboxAssumption
<1>2. CASE Around
  <2>1. UNCHANGED <<inbox, entered>> /\ run'.gen = run.gen
    BY <1>1, <1>2 DEF Around, Reconfigure, AgentReports, ProcessDies, RunRow
  <2>2. tick'.pc = tick.pc /\ tick'.input = tick.input /\ tick'.gen = tick.gen
    BY <1>2 DEF Around, Reconfigure, AgentReports, ProcessDies, Moved, Typed, TickRow
  <2> QED BY <2>1, <2>2
          DEF InputInv, OneOutstanding, Chosen, Hand, InHand, Unsent, Sent, EnteredOnce, State
<1>3. CASE Crash
  BY <1>3 DEF Crash, NoTick, InputInv, OneOutstanding, Chosen, Hand, InHand, Unsent, Sent, EnteredOnce, State
<1>4. CASE Restart
  <2>1. \A i \in Inputs : /\ inbox'[i].gen = inbox[i].gen
                         /\ \/ inbox'[i].state = State(i)
                            \/ inbox'[i].state = "ambiguous" /\ State(i) = "writing"
    BY <1>4 DEF Restart, Interrupted, State, Typed, Row
  <2>2. UNCHANGED <<tick, entered, run>>
    BY <1>4 DEF Restart, service
  <2> QED BY <1>1, <2>1, <2>2, RowsMoved
<1> QED BY <1>2, <1>3, <1>4

\* The pass keeps the invariant: it claims one input when nothing is out, for the present
\* run, and requeues results only from runs that came before.
LEMMA TickInput == Typed /\ InputInv /\ Tick => InputInv'
<1> SUFFICES ASSUME Typed, InputInv, Tick PROVE InputInv'
  OBVIOUS
<1>0. /\ tick \in TickRow /\ inbox \in [Inputs -> Row] /\ run \in RunRow /\ entered \in Counts
      /\ OutNamed /\ run.gen \in 0..MaxRuns
  BY DEF Typed, RunRow
<1>1. CASE TickBegin
  <2>1. tick'.pc = "observe" /\ UNCHANGED <<inbox, run, entered>>
    BY <1>1 DEF TickBegin, NoTick, service
  <2> QED BY <2>1 DEF InputInv, OneOutstanding, Chosen, Hand, InHand, Unsent, Sent, EnteredOnce, State
<1>2. CASE TickChoose
  <2> DEFINE rows == IF Ready(tick.gen) THEN Requeued(tick.gen) ELSE inbox
  <2>1. \A i \in Inputs :
          \/ rows[i] = inbox[i]
          \/ /\ rows[i].state = "queued" /\ i \in Results
             /\ State(i) \in Unresolved /\ inbox[i].gen # run.gen
    BY <1>0 DEF Requeued, Ready
  <2>2. /\ UNCHANGED <<run, entered>> /\ tick'.pc \in {"idle", "arbiter"}
        /\ tick'.pc = "arbiter" =>
             Hand' \in Inputs /\ \A i \in Inputs : inbox'[i].state \notin Unresolved
        /\ \A i \in Inputs : inbox'[i] = rows[i] \/ inbox'[i].state = "settled"
    <3>1. rows \in [Inputs -> Row]
      BY <1>0, InboxAssumption DEF Requeued, Row, RowStates, Unresolved, InboxAssumption
    <3>2. UNCHANGED <<run, entered>>
      BY <1>2 DEF TickChoose, service
    <3>3. PICK items \in SUBSET Inputs :
            /\ items # {} => \A j \in Inputs : rows[j].state \notin Unresolved
            /\ \/ inbox' = rows /\ tick' = NoTick
               \/ \E i \in items :
                    inbox' = rows /\ tick' = [tick EXCEPT !.pc = "arbiter", !.input = i]
               \/ \E i \in items \cap Reviews :
                    inbox' = [rows EXCEPT ![i].state = "settled"] /\ tick' = NoTick
      <4> DEFINE chosen == {i \in Inputs : /\ Ready(tick.gen) /\ rows[i].state = "queued"
                                          /\ \A j \in Inputs : rows[j].state \notin Blocking}
      <4>1. /\ chosen \in SUBSET Inputs
            /\ chosen # {} => \A j \in Inputs : rows[j].state \notin Unresolved
        BY DEF Blocking
      <4>2. \/ inbox' = rows /\ tick' = NoTick
            \/ \E i \in chosen :
                 inbox' = rows /\ tick' = [tick EXCEPT !.pc = "arbiter", !.input = i]
            \/ \E i \in chosen \cap Reviews :
                 inbox' = [rows EXCEPT ![i].state = "settled"] /\ tick' = NoTick
        BY <1>2 DEF TickChoose
      <4> QED BY <4>1, <4>2
    <3> HIDE DEF rows
    <3>4. CASE inbox' = rows /\ tick' = NoTick
      BY <3>2, <3>4 DEF NoTick
    <3>5. ASSUME NEW i \in items, inbox' = rows,
                 tick' = [tick EXCEPT !.pc = "arbiter", !.input = i]
          PROVE  /\ tick'.pc = "arbiter" /\ Hand' \in Inputs
                 /\ \A j \in Inputs : inbox'[j] = rows[j] /\ rows[j].state \notin Unresolved
      BY <1>0, <3>3, <3>5 DEF TickRow, Hand
    <3>6. ASSUME NEW i \in items \cap Reviews, tick' = NoTick,
                 inbox' = [rows EXCEPT ![i].state = "settled"]
          PROVE  /\ tick'.pc = "idle"
                 /\ \A j \in Inputs : inbox'[j] = rows[j] \/ inbox'[j].state = "settled"
      BY <3>1, <3>6 DEF NoTick, Row
    <3> QED BY <3>2, <3>3, <3>4, <3>5, <3>6
  <2> HIDE DEF rows
  <2>3. \A i \in Inputs :
          \/ inbox'[i] = inbox[i]
          \/ inbox'[i].state = "settled"
          \/ /\ inbox'[i].state = "queued" /\ i \in Results
             /\ State(i) \in Unresolved /\ inbox[i].gen # run.gen
    BY <2>1, <2>2
  <2>4. OneOutstanding' /\ Chosen'
    BY <2>2, <2>3 DEF InputInv, OneOutstanding, Chosen, Hand, State, Unresolved
  <2>5. Sent'
    <3> SUFFICES ASSUME NEW i \in Inputs, NEW g \in 1..MaxRuns
                 PROVE  /\ inbox'[i].state = "none" => entered[i][g] = 0
                        /\ inbox'[i].state = "queued" /\ (i \notin Results \/ g >= run.gen)
                             => entered[i][g] = 0
                        /\ inbox'[i].state \in Unresolved /\ g > inbox'[i].gen => entered[i][g] = 0
                        /\ inbox'[i].state = "submitted" /\ g = inbox'[i].gen => entered[i][g] > 0
      BY <2>2 DEF Sent, State
    <3>1. CASE inbox'[i] = inbox[i] \/ inbox'[i].state = "settled"
      BY <3>1 DEF InputInv, Sent, State, Unresolved
    <3>2. CASE /\ inbox'[i].state = "queued" /\ i \in Results
               /\ State(i) \in Unresolved /\ inbox[i].gen # run.gen
      <4>1. inbox[i].gen \in 1..run.gen /\ run.gen \in Nat
        BY <1>0, <3>2, InboxAssumption DEF OutNamed, State, InboxAssumption
      <4>2. g >= run.gen => g > inbox[i].gen
        BY <3>2, <4>1
      <4> QED BY <3>2, <4>2 DEF InputInv, Sent, State, Unresolved
    <3> QED BY <2>3, <3>1, <3>2
  <2> QED BY <2>2, <2>4, <2>5 DEF InputInv, InHand, Unsent, EnteredOnce
<1>3. CASE TickClaim
  <2>1. CASE ~ (Ready(tick.gen) /\ State(tick.input) = "queued")
    <3>1. tick'.pc = "idle" /\ UNCHANGED <<inbox, run, entered>>
      BY <1>3, <2>1 DEF TickClaim, NoTick, service
    <3> QED BY <3>1 DEF InputInv, OneOutstanding, Chosen, Hand, InHand, Unsent, Sent, EnteredOnce, State
  <2>2. CASE Ready(tick.gen) /\ State(tick.input) = "queued" /\ tick.input \in Inputs
    <3>1. tick.gen = run.gen /\ run.gen \in 1..MaxRuns
      BY <2>2, Numbered DEF Ready
    <3>2. /\ tick'.pc = "load" /\ tick'.input = Hand /\ tick'.gen = tick.gen
          /\ UNCHANGED <<run, entered>> /\ Hand \in Inputs /\ State(Hand) = "queued"
          /\ inbox'[Hand].state = "writing" /\ inbox'[Hand].gen = tick.gen
          /\ \A i \in Inputs : i # Hand => inbox'[i] = inbox[i]
          /\ \A i \in Inputs : State(i) \notin Unresolved
      <4>1. /\ tick.pc = "arbiter" /\ UNCHANGED <<service, entered>>
            /\ inbox' = [inbox EXCEPT ![tick.input] = Claimed]
            /\ tick' = [tick EXCEPT !.pc = "load", !.authority = actor.authority]
        BY <1>3, <2>2 DEF TickClaim
      <4>2. tick'.pc = "load" /\ tick'.input = tick.input /\ tick'.gen = tick.gen
        BY <1>0, <4>1 DEF TickRow
      <4>3. \A i \in Inputs : inbox'[i] = IF i = tick.input THEN Claimed ELSE inbox[i]
        BY <1>0, <4>1
      <4> QED BY <2>2, <4>1, <4>2, <4>3 DEF Claimed, service, Hand, InputInv, Chosen
    <3>3. \A g \in 1..MaxRuns : g >= run.gen \/ Hand \notin Results => entered[Hand][g] = 0
      BY <3>2 DEF InputInv, Sent
    <3>4. OneOutstanding' /\ Chosen' /\ EnteredOnce'
      BY <3>2 DEF InputInv, OneOutstanding, Chosen, Hand, EnteredOnce, State, Unresolved
    <3>5. InHand' /\ Unsent'
      BY <3>1, <3>2, <3>3 DEF InHand, Unsent, Hand, State, Unresolved
    <3>6. Sent'
      BY <1>0, <3>1, <3>2, <3>3 DEF InputInv, Sent, State, Unresolved
    <3> QED BY <3>4, <3>5, <3>6 DEF InputInv
  <2>3. tick.input \in Inputs
    BY <1>3 DEF TickClaim, InputInv, Chosen, Hand
  <2> QED BY <2>1, <2>2, <2>3
<1>4. CASE TickPaste
  <2>1. /\ tick.pc = "load" /\ tick'.pc = "pasted" /\ Hand' = Hand /\ tick'.gen = tick.gen
        /\ UNCHANGED <<inbox, run, entered>>
    BY <1>0, <1>4 DEF TickPaste, TickRow, Hand, service
  <2> QED BY <2>1 DEF InputInv, OneOutstanding, Chosen, Hand, InHand, Unsent, Sent, EnteredOnce, State
<1>5. CASE TickEnter
  <2>1. /\ tick.pc = "pasted" /\ tick'.pc = "entered" /\ Hand' = Hand /\ tick'.gen = tick.gen
        /\ UNCHANGED <<inbox, run>> /\ tick.gen = run.gen
    BY <1>0, <1>5 DEF TickEnter, TickRow, Hand, service, AssertCurrent, Ready
  <2>2. Hand \in Inputs /\ tick.gen \in 1..MaxRuns
    BY <2>1 DEF InputInv, InHand
  <2>3. \A j \in Inputs, g \in 1..MaxRuns :
          entered'[j][g] = IF j = Hand /\ g = tick.gen THEN entered[j][g] + 1 ELSE entered[j][g]
    <3>1. \A j \in Inputs, g \in 1..MaxRuns :
            entered'[j][g] = IF j = tick.input /\ g = tick.gen THEN entered[j][g] + 1 ELSE entered[j][g]
      <4> DEFINE i == tick.input
                 n == tick.gen
      <4>1. entered \in Counts /\ n \in 1..MaxRuns
        BY <1>0, <2>2
      <4>2. entered' = [entered EXCEPT ![i][n] = @ + 1]
        BY <1>5 DEF TickEnter
      <4> HIDE DEF i, n
      <4>3. CountedAt(i, n)
        BY <4>1, <4>2, EnterCounts
      <4> QED BY <4>3 DEF i, n, CountedAt
    <3> QED BY <3>1 DEF Hand
  <2>4. \A g \in 1..MaxRuns : g = tick.gen \/ Hand \notin Results => entered[Hand][g] = 0
    BY <2>1 DEF InputInv, Unsent
  <2>5. \A j \in Inputs, g \in 1..MaxRuns : entered[j][g] \in Nat
    BY <1>0 DEF Counts
  <2>6. OneOutstanding' /\ Chosen' /\ InHand'
    BY <2>1 DEF InputInv, OneOutstanding, Chosen, Hand, InHand, State
  <2>7. Unsent'
    BY <2>1, <2>2, <2>3, <2>4 DEF Unsent
  <2>8. Sent'
    BY <2>1, <2>2, <2>3, <2>5 DEF InputInv, Sent, InHand, State, Unresolved
  <2>9. EnteredOnce'
    <3>1. ASSUME NEW i \in Messages \cup Reviews, NEW g \in 1..MaxRuns, NEW h \in 1..MaxRuns
          PROVE  entered'[i][g] + (IF g = h THEN 0 ELSE entered'[i][h]) <= 1
      <4>1. i \in Inputs /\ i \notin Results
        BY InboxAssumption DEF Inputs, InboxAssumption
      <4>2. entered[i][g] + (IF g = h THEN 0 ELSE entered[i][h]) <= 1
        BY DEF InputInv, EnteredOnce
      <4>3. CASE i = Hand
        BY <2>3, <2>4, <4>1, <4>3
      <4>4. CASE i # Hand
        BY <2>3, <4>1, <4>2, <4>4
      <4> QED BY <4>3, <4>4
    <3>2. ASSUME NEW q \in Results, NEW g \in 1..MaxRuns
          PROVE  entered'[q][g] <= 1
      <4>1. q \in Inputs /\ entered[q][g] <= 1
        BY DEF Inputs, InputInv, EnteredOnce
      <4>2. CASE q = Hand /\ g = tick.gen
        BY <2>3, <2>4, <4>1, <4>2
      <4>3. CASE ~ (q = Hand /\ g = tick.gen)
        BY <2>3, <4>1, <4>3
      <4> QED BY <4>2, <4>3
    <3> QED BY <3>1, <3>2 DEF EnteredOnce
  <2> QED BY <2>6, <2>7, <2>8, <2>9 DEF InputInv
<1>6. CASE TickSubmitted \/ TickFailed
  <2>1. /\ tick.pc \in {"load", "pasted", "entered"} /\ tick'.pc = "idle"
        /\ UNCHANGED <<run, entered>> /\ Hand \in Inputs
    BY <1>6 DEF TickSubmitted, TickFailed, NoTick, service, InputInv, InHand
  <2>2. \A i \in Inputs :
          /\ inbox'[i].gen = inbox[i].gen
          /\ \/ inbox'[i].state = State(i)
             \/ inbox'[i].state = "ambiguous" /\ State(i) = "writing"
             \/ /\ inbox'[i].state = "submitted" /\ State(i) = "writing"
                /\ i = Hand /\ tick.pc = "entered"
    BY <1>0, <1>6, <2>1 DEF TickSubmitted, TickFailed, Settle, State, Row, Hand
  <2>3. OneOutstanding' /\ Chosen' /\ InHand' /\ Unsent' /\ EnteredOnce'
    BY <2>1, <2>2 DEF InputInv, OneOutstanding, Chosen, Hand, InHand, Unsent, EnteredOnce, State, Unresolved
  <2>4. Sent'
    BY <2>1, <2>2 DEF InputInv, Sent, InHand, Unsent, State, Unresolved
  <2> QED BY <2>3, <2>4 DEF InputInv
<1> QED BY <1>1, <1>2, <1>3, <1>4, <1>5, <1>6 DEF Tick

\* Every step keeps the invariant.
LEMMA NextInput == Typed /\ InputInv /\ [Next]_vars => InputInv'
<1> SUFFICES ASSUME Typed, InputInv, [Next]_vars PROVE InputInv'
  OBVIOUS
<1>1. CASE UNCHANGED vars
  BY <1>1 DEF vars, service, InputInv, OneOutstanding, Chosen, Hand, InHand, Unsent, Sent,
              EnteredOnce, State
<1>2. CASE Next
  <2>1. RowStep \/ Tick \/ Around \/ Crash \/ Restart
          \/ Start \/ Stop \/ RuntimeSteps \/ ReconcileRun \/ Recover
    BY <1>2 DEF Next, Operators, Foreman, RowStep, Around
  <2> QED BY <2>1, RowStepInput, TickInput, AroundInput, RuntimeInput
<1> QED BY <1>1, <1>2

\* The invariant holds.
LEMMA InputsKept == Spec => []InputInv
<1>1. Init => InputInv
  BY DEF Init, NoTick, InputInv, OneOutstanding, Chosen, InHand, Unsent, Sent, EnteredOnce, State,
         Unresolved, Inputs
<1>2. Spec => []Typed
  BY InitTyped, NextTyped, PTL DEF Spec
<1> QED BY <1>1, <1>2, NextInput, PTL DEF Spec

\* One input at most is with the Foreman (foreman-inbox-scheduler.ts #dispatch).
THEOREM OneAtATime == Spec => []OneOutstanding
<1>1. InputInv => OneOutstanding
  BY DEF InputInv
<1> QED BY <1>1, InputsKept, PTL

\* No message or review is submitted twice, and no result twice to one run, over any number
\* of crashes, recoveries and requeued results.
THEOREM NeverReplayed == Spec => []EnteredOnce
<1>1. InputInv => EnteredOnce
  BY DEF InputInv
<1> QED BY <1>1, InputsKept, PTL

\* The row tells whether its input was submitted (markForemanInputSubmitted, requeue).
THEOREM RowsTellTheFate == Spec => []FateRecorded
<1>1. Typed /\ InputInv => FateRecorded
  <2> SUFFICES ASSUME Typed, InputInv, NEW i \in Inputs
               PROVE  /\ State(i) = "submitted" => entered[i][inbox[i].gen] > 0
                      /\ State(i) = "queued" /\ i \notin Results
                           => \A g \in 1..MaxRuns : entered[i][g] = 0
    BY DEF FateRecorded
  <2>1. State(i) = "submitted" => inbox[i].gen \in 1..run.gen
    BY DEF Typed, OutNamed, State, Unresolved
  <2>2. run.gen \in 0..MaxRuns
    BY DEF Typed, RunRow
  <2>3. State(i) = "submitted" => inbox[i].gen \in 1..MaxRuns
    BY <2>1, <2>2, InboxAssumption DEF InboxAssumption
  <2> QED BY <2>3 DEF InputInv, Sent
<1>2. Spec => []Typed
  BY InitTyped, NextTyped, PTL DEF Spec
<1> QED BY <1>1, <1>2, InputsKept, PTL
=============================================================================
