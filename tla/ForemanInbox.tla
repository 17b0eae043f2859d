----------------------------- MODULE ForemanInbox -----------------------------
(***************************************************************************)
(* The Foreman's inbox: the durable rows of store.ts, the pass of          *)
(* foreman-inbox-scheduler.ts that types them into the Foreman's terminal, *)
(* and the Foreman runtime that is started, stopped and recovered          *)
(* underneath it (foreman-runtime-service.ts).                             *)
(*                                                                         *)
(* The daemon has one thread; a pass or a runtime operation lets other     *)
(* handlers run only where it awaits, and each such stretch is one action. *)
(* Reporter epoch, status revision and process fingerprint are folded into *)
(* tick.moved: the agent's status changed since the row was claimed.  Two  *)
(* things that only delay or refuse an input are left out: the operator    *)
(* who holds the terminal (module TerminalControl) and the cooldown of a   *)
(* recovery.  Which of several queued inputs comes first is left open; the *)
(* code takes the oldest.  A "settled" row is answered or cancelled.       *)
(***************************************************************************)
EXTENDS Integers

CONSTANTS
  Messages,     \* messages of operators
  Results,      \* conversation requests whose result is announced
  Reviews,      \* goal reviews
  MaxRuns,      \* bound: generations of the Foreman
  MaxAttempts,  \* maxRecoveryAttempts
  MaxCrashes,   \* bound: daemon crashes
  MaxSwitches   \* bound: switches of the configuration

ASSUME InboxAssumption ==
  /\ MaxRuns \in Nat /\ MaxAttempts \in Nat
  /\ MaxCrashes \in Nat /\ MaxSwitches \in Nat
  /\ Messages \cap Results = {} /\ Reviews \cap (Messages \cup Results) = {}

Inputs == Messages \cup Results \cup Reviews

VARIABLES
  inbox,     \* row of every input: state and generation of its target run
  config,    \* Foreman is enabled in the configuration; times it was switched
  actor,     \* the durable Foreman: enabled and authority revision
  run,       \* its latest run
  op,        \* runtime operation in progress; they are serialised
  attempts,  \* recovery attempts since the last start
  idle,      \* the current reporter of the run says that the agent is idle
  tick,      \* the pass in progress
  up,        \* the daemon runs
  crashes,
  entered    \* history: times an input was submitted to each generation

service == <<config, actor, run, op, attempts, idle>>
daemon == <<up, crashes>>
vars == <<inbox, service, tick, daemon, entered>>

Active == {"starting", "running", "stopping"}
Unresolved == {"writing", "submitted", "ambiguous"}
RowStates == {"none", "queued", "settled"} \cup Unresolved

\* The type of every variable; a row that is out names the run it went to.
TypeOK ==
  /\ inbox \in [Inputs -> [state : RowStates, gen : 0..MaxRuns]]
  /\ \A i \in Inputs : inbox[i].state \in Unresolved => inbox[i].gen \in 1..run.gen
  /\ config \in [enabled : BOOLEAN, switched : 0..MaxSwitches]
  /\ actor \in [enabled : BOOLEAN, authority : Nat]
  /\ run \in [gen : 0..MaxRuns, status : {"none", "stopped", "failed"} \cup Active,
              desired : {"running", "stopped"}, phase : {"idle", "recovering", "recovered"},
              alive : BOOLEAN, bound : BOOLEAN, authority : Nat]
  /\ op \in {"idle", "launch", "recover", "launch view", "recover view", "stop"}
  /\ attempts \in 0..MaxAttempts
  /\ idle \in BOOLEAN
  /\ tick \in [pc : {"idle", "observe", "arbiter", "load", "pasted", "entered"},
               input : Inputs \cup {"none"}, gen : 0..MaxRuns, authority : Nat, moved : BOOLEAN]
  /\ up \in BOOLEAN /\ crashes \in 0..MaxCrashes
  /\ entered \in [Inputs -> [1..MaxRuns -> Nat]]

NoTick == [pc |-> "idle", input |-> "none", gen |-> 0, authority |-> 0, moved |-> FALSE]

Init ==
  /\ inbox = [i \in Inputs |-> [state |-> "none", gen |-> 0]]
  /\ config = [enabled |-> TRUE, switched |-> 0]
  /\ actor = [enabled |-> FALSE, authority |-> 0]
  /\ run = [gen |-> 0, status |-> "none", desired |-> "stopped", phase |-> "idle",
            alive |-> FALSE, bound |-> TRUE, authority |-> 0]
  /\ op = "idle" /\ attempts = 0 /\ idle = FALSE
  /\ tick = NoTick
  /\ up = TRUE /\ crashes = 0
  /\ entered = [i \in Inputs |-> [g \in 1..MaxRuns |-> 0]]

-----------------------------------------------------------------------------
(* Rows. *)

State(i) == inbox[i].state

\* A new row; the dedupe key is unique, so that a second insert is ignored.
Enqueue(i) ==
  inbox' = [inbox EXCEPT ![i].state = IF @ = "none" THEN "queued" ELSE @]

Settle(i, from, to) == inbox' = [inbox EXCEPT ![i].state = IF @ \in from THEN to ELSE @]

\* sendForemanMessage of an operator.
OperatorMessage(m) ==
  /\ up /\ State(m) = "none"
  /\ Enqueue(m)
  /\ UNCHANGED <<service, tick, daemon, entered>>

\* resolveForemanInput: an operator marks an input handled or dismisses it.
ResolveInput(i) ==
  /\ up /\ State(i) \in {"queued", "submitted", "ambiguous"}
  /\ Settle(i, {State(i)}, "settled")
  /\ UNCHANGED <<service, tick, daemon, entered>>

\* ForemanConversationService.#wake announces a result (module ForemanConversations).
ConversationResult(q) ==
  /\ up /\ State(q) = "none"
  /\ Enqueue(q)
  /\ UNCHANGED <<service, tick, daemon, entered>>

\* ForemanGoalService.#wake queues a review of a goal.
GoalReview(r) ==
  /\ up /\ State(r) = "none"
  /\ Enqueue(r)
  /\ UNCHANGED <<service, tick, daemon, entered>>

\* The authority check of every call of the Foreman agent.
Authorized ==
  /\ actor.enabled /\ run.authority = actor.authority
  /\ run.status \in {"starting", "running"} /\ run.desired = "running" /\ run.alive

\* The Foreman replies to a message, finishes a review or a conversation result.
ForemanReply(m) ==
  /\ up /\ Authorized /\ State(m) # "none"
  /\ Settle(m, {"queued", "submitted", "writing", "ambiguous"}, "settled")
  /\ UNCHANGED <<service, tick, daemon, entered>>

FinishReview(r) ==
  /\ up /\ Authorized /\ State(r) # "none"
  /\ Settle(r, {"queued", "submitted"}, "settled")
  /\ UNCHANGED <<service, tick, daemon, entered>>

FinishConversation(q) ==
  /\ up /\ Authorized /\ State(q) # "none"
  /\ Settle(q, {"queued", "writing", "submitted"}, "settled")
  /\ UNCHANGED <<service, tick, daemon, entered>>

-----------------------------------------------------------------------------
(* The pass of the scheduler. *)

\* #ready: the run of the pass may be typed into.
Ready(g) ==
  /\ actor.enabled /\ run.gen = g /\ run.status = "running" /\ run.desired = "running"
  /\ run.phase \in {"idle", "recovered"} /\ run.alive /\ idle

\* #dispatch up to its first await.
TickBegin ==
  /\ up /\ tick.pc = "idle"
  /\ config.enabled /\ run.status = "running"
  /\ tick' = [NoTick EXCEPT !.pc = "observe", !.gen = run.gen]
  /\ UNCHANGED <<inbox, service, daemon, entered>>

\* Mutant: results are requeued from the current run as well.
RequeuedAlways(g) ==
  [i \in Inputs |-> IF i \in Results /\ State(i) \in Unresolved
                    THEN [state |-> "queued", gen |-> 0] ELSE inbox[i]]

\* Results left unresolved on another run that has ended are queued again.  Every run but
\* the latest has ended: a new one is refused while one is active.
Requeued(g) ==
  [i \in Inputs |-> IF i \in Results /\ State(i) \in Unresolved /\ inbox[i].gen # g
                    THEN [state |-> "queued", gen |-> 0] ELSE inbox[i]]

\* Mutant: an ambiguous input no longer holds the others back.
BlockingWritten == {"writing", "submitted"}

\* States of an input that hold every other input back.
Blocking == Unresolved

\* After the observation: requeue, check, choose.  A review whose goal is no longer
\* authorized is cancelled instead (ForemanGoalService.authorizeInbox).
TickChoose ==
  /\ up /\ tick.pc = "observe"
  /\ LET rows == IF Ready(tick.gen) THEN Requeued(tick.gen) ELSE inbox
         items == {i \in Inputs : /\ Ready(tick.gen) /\ rows[i].state = "queued"
                                   /\ \A j \in Inputs : rows[j].state \notin Blocking}
     IN \/ items = {} /\ inbox' = rows /\ tick' = NoTick
        \/ \E i \in items :
             inbox' = rows /\ tick' = [tick EXCEPT !.pc = "arbiter", !.input = i]
        \/ \E i \in items \cap Reviews :
             inbox' = [rows EXCEPT ![i].state = "settled"] /\ tick' = NoTick
  /\ UNCHANGED <<service, daemon, entered>>

\* Mutant: the claim does not name the run.
ClaimedUnbound == [inbox[tick.input] EXCEPT !.state = "writing"]

\* The row as it is claimed.
Claimed == [state |-> "writing", gen |-> tick.gen]

\* In the turn of the arbiter, after another observation: claim the row.
TickClaim ==
  /\ up /\ tick.pc = "arbiter"
  /\ IF Ready(tick.gen) /\ State(tick.input) = "queued"
     THEN /\ inbox' = [inbox EXCEPT ![tick.input] = Claimed]
          /\ tick' = [tick EXCEPT !.pc = "load", !.authority = actor.authority]
     ELSE tick' = NoTick /\ UNCHANGED inbox
  /\ UNCHANGED <<service, daemon, entered>>

\* The callback of pasteToRun; it may also find the goal of a review stopped (TickFailed).
AssertCurrent ==
  /\ config.enabled /\ actor.authority = tick.authority
  /\ Ready(tick.gen) /\ ~tick.moved

\* The buffer is loaded, the target checked and the text pasted.
TickPaste ==
  /\ up /\ tick.pc = "load" /\ AssertCurrent
  /\ tick' = [tick EXCEPT !.pc = "pasted"]
  /\ UNCHANGED <<inbox, service, daemon, entered>>

\* After the delay: the pane and the target are checked again and Enter is sent.
TickEnter ==
  /\ up /\ tick.pc = "pasted" /\ AssertCurrent
  /\ tick' = [tick EXCEPT !.pc = "entered"]
  /\ entered' = [entered EXCEPT ![tick.input][tick.gen] = @ + 1]
  /\ UNCHANGED <<inbox, service, daemon>>

\* pasteToRun returned.
TickSubmitted ==
  /\ up /\ tick.pc = "entered"
  /\ Settle(tick.input, {"writing"}, "submitted")
  /\ tick' = NoTick
  /\ UNCHANGED <<service, daemon, entered>>

\* A check or a command of tmux failed, before or after the prompt was submitted.
TickFailed ==
  /\ up /\ tick.pc \in {"load", "pasted", "entered"}
  /\ Settle(tick.input, {"writing"}, "ambiguous")
  /\ tick' = NoTick
  /\ UNCHANGED <<service, daemon, entered>>

-----------------------------------------------------------------------------
(* The runtime of the Foreman. *)

\* upsertForeman: the authority revision counts every change.
Upsert(enabled) ==
  actor' = [enabled |-> enabled,
            authority |-> actor.authority + IF actor.enabled # enabled THEN 1 ELSE 0]

\* #launch up to the row of the new run.
Launch ==
  /\ Upsert(TRUE)
  /\ run' = [gen |-> run.gen + 1, status |-> "starting", desired |-> "running",
             phase |-> "idle", alive |-> FALSE, bound |-> TRUE, authority |-> actor'.authority]
  /\ idle' = FALSE

\* start, of an operator or at the start of the daemon.
Start ==
  /\ up /\ op = "idle" /\ run.gen < MaxRuns
  /\ config.enabled /\ run.status \notin Active
  /\ Launch /\ op' = "launch"
  /\ UNCHANGED <<inbox, config, attempts, tick, daemon, entered>>

\* updateRuntimeRunStatus "stopping".
BeginStop == run' = [run EXCEPT !.status = "stopping", !.desired = "stopped"]

\* startForemanRun returned: the pane runs the provider.  A configuration that changed
\* meanwhile stops it again.
LaunchDone ==
  /\ up /\ op \in {"launch", "recover"}
  /\ IF run.bound
     THEN /\ run' = [run EXCEPT !.status = "running", !.alive = TRUE]
          /\ op' = IF op = "launch" THEN "launch view" ELSE "recover view"
     ELSE /\ run' = [run EXCEPT !.status = "stopping", !.desired = "stopped", !.alive = TRUE]
          /\ op' = "stop"
  /\ UNCHANGED <<inbox, config, actor, attempts, idle, tick, daemon, entered>>

\* #launchCreatedRun fails, and kills the pane it had made.
LaunchFailed ==
  /\ up /\ op \in {"launch", "recover"}
  /\ run' = [run EXCEPT !.status = "failed"]
  /\ op' = "idle"
  /\ UNCHANGED <<inbox, config, actor, attempts, idle, tick, daemon, entered>>

\* After the view session: start forgets the recoveries, a recovery marks the run.
LaunchViewed ==
  /\ up /\ op \in {"launch view", "recover view"}
  /\ IF op = "launch view"
     THEN attempts' = 0 /\ UNCHANGED run
     ELSE run' = [run EXCEPT !.phase = "recovering"] /\ UNCHANGED attempts
  /\ op' = "idle"
  /\ UNCHANGED <<inbox, config, actor, idle, tick, daemon, entered>>

\* stop.
Stop ==
  /\ up /\ op = "idle"
  /\ \/ run.status \in Active /\ BeginStop /\ op' = "stop"
     \/ /\ run.status \notin Active /\ run.desired = "running"
        /\ run' = [run EXCEPT !.desired = "stopped"] /\ UNCHANGED op
  /\ UNCHANGED <<inbox, config, actor, attempts, idle, tick, daemon, entered>>

\* The pane is gone.
StopDone ==
  /\ up /\ op = "stop"
  /\ run' = [run EXCEPT !.status = "stopped", !.phase = "idle", !.alive = FALSE]
  /\ op' = "idle" /\ idle' = FALSE
  /\ UNCHANGED <<inbox, config, actor, attempts, tick, daemon, entered>>

\* reconcile of an active run: stopped when it is no longer configured or its launch plan
\* is outdated, failed when its process is gone.
ReconcileRun ==
  /\ up /\ op = "idle" /\ run.status \in Active
  /\ \/ /\ ~config.enabled \/ ~run.bound
        /\ IF config.enabled THEN UNCHANGED actor ELSE Upsert(FALSE)
        /\ BeginStop /\ op' = "stop"
     \/ /\ config.enabled /\ run.bound /\ ~run.alive
        /\ run' = [run EXCEPT !.status = "failed"] /\ UNCHANGED <<actor, op>>
  /\ UNCHANGED <<inbox, config, attempts, idle, tick, daemon, entered>>

\* #recover.
Recover ==
  /\ up /\ op = "idle" /\ run.gen < MaxRuns
  /\ run.status = "failed" /\ run.desired = "running" /\ ~run.alive
  /\ actor.enabled /\ config.enabled /\ run.bound
  /\ attempts < MaxAttempts /\ attempts' = attempts + 1
  /\ inbox' = [i \in Inputs |->
                 IF State(i) \in {"writing", "submitted"} /\ inbox[i].gen = run.gen
                 THEN [inbox[i] EXCEPT !.state = "ambiguous"] ELSE inbox[i]]
  /\ Launch /\ op' = "recover"
  /\ UNCHANGED <<config, tick, daemon, entered>>

\* The configuration file is edited: Foreman is enabled, disabled or launched differently.
Reconfigure(enabled) ==
  /\ config.switched < MaxSwitches
  /\ config' = [enabled |-> enabled, switched |-> config.switched + 1]
  /\ run' = [run EXCEPT !.bound = FALSE]
  /\ UNCHANGED <<inbox, actor, op, attempts, idle, tick, daemon, entered>>

\* The status of the agent changes.
Moved == [tick EXCEPT !.moved = tick.pc \in {"load", "pasted"} \/ @]

\* The provider exits.
ProcessDies ==
  /\ run.alive /\ run' = [run EXCEPT !.alive = FALSE]
  /\ idle' = FALSE /\ tick' = Moved
  /\ UNCHANGED <<inbox, config, actor, op, attempts, daemon, entered>>

\* The reporter of the run reports; session.ready ends a recovery (agent-status-routes.ts).
AgentReports(ready) ==
  /\ up /\ run.alive /\ run.status \in {"starting", "running"}
  /\ idle' = ~idle /\ tick' = Moved
  /\ run' = IF ready /\ run.phase = "recovering" THEN [run EXCEPT !.phase = "recovered"] ELSE run
  /\ UNCHANGED <<inbox, config, actor, op, attempts, daemon, entered>>

\* The daemon dies wherever it is.
Crash ==
  /\ up /\ crashes < MaxCrashes
  /\ up' = FALSE /\ crashes' = crashes + 1
  /\ tick' = NoTick /\ op' = "idle"
  /\ UNCHANGED <<inbox, config, actor, run, attempts, idle, entered>>

\* Mutant: an interrupted write is queued again.
InterruptedAgain(row) == IF row.state = "writing" THEN [row EXCEPT !.state = "queued"] ELSE row

\* start: an interrupted write may or may not have been submitted.
Interrupted(row) == IF row.state = "writing" THEN [row EXCEPT !.state = "ambiguous"] ELSE row

Restart ==
  /\ ~up /\ up' = TRUE
  /\ inbox' = [i \in Inputs |-> Interrupted(inbox[i])]
  /\ UNCHANGED <<service, tick, crashes, entered>>

-----------------------------------------------------------------------------
Tick == TickBegin \/ TickChoose \/ TickClaim \/ TickPaste \/ TickEnter \/ TickSubmitted
          \/ TickFailed

RuntimeSteps == LaunchDone \/ LaunchFailed \/ LaunchViewed \/ StopDone

Operators ==
  \/ \E m \in Messages : OperatorMessage(m)
  \/ \E i \in Inputs : ResolveInput(i)
  \/ Start \/ Stop
  \/ \E enabled \in BOOLEAN : Reconfigure(enabled)

Foreman ==
  \/ \E m \in Messages : ForemanReply(m)
  \/ \E r \in Reviews : FinishReview(r)
  \/ \E q \in Results : FinishConversation(q)
  \/ \E ready \in BOOLEAN : AgentReports(ready)
  \/ ProcessDies

Next ==
  \/ Operators \/ Foreman
  \/ \E q \in Results : ConversationResult(q)
  \/ \E r \in Reviews : GoalReview(r)
  \/ Tick \/ RuntimeSteps \/ ReconcileRun \/ Recover
  \/ Crash \/ Restart

Spec == Init /\ [][Next]_vars

-----------------------------------------------------------------------------
(* Properties. *)

\* At most one input is with the Foreman at a time: a row that is being written, was
\* submitted or has an unknown fate holds the next one back, across crashes, restarts of
\* the Foreman and requeued results (foreman-inbox-scheduler.ts #dispatch).
OneOutstanding ==
  \A i, j \in Inputs : State(i) \in Unresolved /\ State(j) \in Unresolved => i = j

\* A message of an operator and a review are submitted once and never again, whatever is
\* interrupted; a stored result is submitted at most once to each run of the Foreman.
EnteredOnce ==
  /\ \A i \in Messages \cup Reviews : \A g, h \in 1..MaxRuns :
       entered[i][g] + (IF g = h THEN 0 ELSE entered[i][h]) <= 1
  /\ \A q \in Results : \A g \in 1..MaxRuns : entered[q][g] <= 1

\* The row tells what happened: it says submitted only if the prompt was submitted to the
\* run it names, and a message or review that was submitted is never queued again.
FateRecorded ==
  \A i \in Inputs :
    /\ State(i) = "submitted" => entered[i][inbox[i].gen] > 0
    /\ State(i) = "queued" /\ i \notin Results => \A g \in 1..MaxRuns : entered[i][g] = 0
=============================================================================
