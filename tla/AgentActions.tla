----------------------------- MODULE AgentActions -----------------------------
(***************************************************************************)
(* Durable actions for the exact run of one member: the rows and attempts  *)
(* of store.ts, the pass of agent-action-scheduler.ts that dispatches them *)
(* to the terminal and enforces their deadlines, cancellation, and the     *)
(* acknowledgements of the agent.                                          *)
(*                                                                         *)
(* The daemon has one thread: other handlers run only where the pass       *)
(* awaits, so that they are disabled while pc is "visit", and "settle",    *)
(* where the pass is between two writes of one row.  The revisions and     *)
(* turn identifiers that fence out single acknowledgements are left out:   *)
(* an agent acknowledges in any order, or not at all.                      *)
(***************************************************************************)
EXTENDS Integers, Sequences

CONSTANTS
  MaxActions,   \* bound: actions created
  MaxRuns,      \* bound: generations of the member
  MaxReporters, \* bound: reporter sessions registered
  MaxCrashes    \* bound: daemon crashes

ASSUME ActionsAssumption ==
  MaxActions \in Nat /\ MaxRuns \in Nat /\ MaxReporters \in Nat /\ MaxCrashes \in Nat

Actions == 1..MaxActions

VARIABLES
  action,   \* row of every action: its state and exact target
  attempt,  \* state of the attempt of every action
  leaseDue, \* attempts whose lease has expired
  overdue,  \* deadlines of every action that have passed
  denied,   \* delegated actions whose goal no longer authorizes them
  run,      \* the member's latest run and its current reporter session
  epochs,   \* reporter sessions registered so far
  up,       \* the daemon runs
  pc,       \* next step of the pass
  list,     \* the actions the pass has still to visit, as they were listed
  crashes,
  entered   \* history: prompts submitted in the terminal

rows == <<action, attempt>>
clocks == <<leaseDue, overdue>>
target == <<run, epochs>>
daemon == <<up, pc, list>>
vars == <<rows, clocks, denied, target, daemon, crashes, entered>>

Queued == {"created", "deferred"}
InWork == {"accepted", "started", "blocked"}
Unsettled == Queued \cup {"submitted"} \cup InWork

\* TERMINAL_ACTION_STATES.
Settled == {"completed", "settled-unverified", "failed", "stalled", "timed-out", "cancelled",
            "expired", "superseded", "rejected"}

\* The acceptance and the completion deadline are one: each is looked at only in states
\* in which the other is not.
Deadlines == {"queue", "answer"}

Listed == [id : Actions, state : Unsettled \cup Settled, overdue : SUBSET Deadlines]

\* The type of every variable.
TypeOK ==
  /\ action \in [Actions -> [state : {"none"} \cup Unsettled \cup Settled,
                             gen : 0..MaxRuns, rep : 0..MaxReporters]]
  /\ attempt \in [Actions -> {"none", "submitting", "submitted", "closed"}]
  /\ leaseDue \in SUBSET Actions
  /\ overdue \in [Actions -> SUBSET Deadlines]
  /\ denied \in SUBSET Actions
  /\ run \in [gen : 0..MaxRuns, live : BOOLEAN, rep : 0..MaxReporters, bound : BOOLEAN,
              ready : {"wait", "ready", "refuse"}]
  /\ epochs \in 0..MaxReporters
  /\ up \in BOOLEAN
  /\ pc \in {"idle", "visit", "yield", "verify", "observe", "paste", "commit", "settle"}
  /\ list \in Seq(Listed)
  /\ pc \notin {"idle", "yield"} => list # <<>>
  /\ crashes \in 0..MaxCrashes
  /\ entered \in [Actions -> Nat]

NoRun == [gen |-> 0, live |-> FALSE, rep |-> 0, bound |-> FALSE, ready |-> "wait"]

Init ==
  /\ action = [a \in Actions |-> [state |-> "none", gen |-> 0, rep |-> 0]]
  /\ attempt = [a \in Actions |-> "none"]
  /\ leaseDue = {} /\ overdue = [a \in Actions |-> {}] /\ denied = {}
  /\ run = NoRun /\ epochs = 0
  /\ up = TRUE /\ pc = "idle" /\ list = <<>>
  /\ crashes = 0 /\ entered = [a \in Actions |-> 0]

State(a) == action[a].state

SetState(S, state) ==
  action' = [a \in Actions |-> IF a \in S THEN [action[a] EXCEPT !.state = state] ELSE action[a]]

\* The pass does not hold the thread of the daemon.
Free == up /\ pc \notin {"visit", "settle"}

-----------------------------------------------------------------------------
(* Requests of operators, goals and peers. *)

\* AgentActionService.create: the target is the run and the reporter of now.
Create(a) ==
  /\ Free /\ run.live /\ run.rep # 0
  /\ State(a) = "none" /\ \A b \in 1..(a - 1) : State(b) # "none"
  /\ action' = [action EXCEPT ![a] = [state |-> "created", gen |-> run.gen, rep |-> run.rep]]
  /\ UNCHANGED <<attempt, clocks, denied, target, daemon, crashes, entered>>

\* Mutant: an action whose attempt is in progress can be cancelled.
CancellableEarly(a) == State(a) \in Queued

\* The guards of cancel.
Cancellable(a) == State(a) \in Queued /\ attempt[a] # "submitting"

\* AgentActionService.cancel.
Cancel(a) ==
  /\ Free /\ Cancellable(a)
  /\ SetState({a}, "cancelled")
  /\ UNCHANGED <<attempt, clocks, denied, target, daemon, crashes, entered>>

\* ForemanGoalService.authorizeAction starts to refuse a delegated action.
Deny(a) ==
  /\ Free /\ State(a) # "none" /\ a \notin denied
  /\ denied' = denied \cup {a}
  /\ UNCHANGED <<rows, clocks, target, daemon, crashes, entered>>

-----------------------------------------------------------------------------
(* The pass of the scheduler. *)

\* recoverAmbiguousActionAttempts: attempts a crash left behind, with their lease over.
Ambiguous == {a \in leaseDue : attempt[a] = "submitting" /\ State(a) \in Queued}

\* tick, #schedule: settle what is ambiguous and list the actions.
Tick ==
  /\ up /\ pc = "idle"
  /\ SetState(Ambiguous, "settled-unverified")
  /\ \E n \in Actions :
       /\ \A a \in Actions : State(a) # "none" <=> a <= n
       /\ list' = [a \in 1..n |-> [id |-> a, state |-> action'[a].state, overdue |-> overdue[a]]]
  /\ pc' = "visit"
  /\ UNCHANGED <<attempt, clocks, denied, target, up, crashes, entered>>

\* Mutant: the end of the list is not noticed.
AdvanceOn(how) == list' = Tail(list) /\ pc' = how /\ UNCHANGED up

\* The pass goes on with the next action, holding the thread or after an await.
Advance(how) ==
  /\ list' = Tail(list)
  /\ pc' = IF Len(list) = 1 /\ how = "visit" THEN "idle" ELSE how
  /\ UNCHANGED up

\* A rejected tick is handled nowhere: the process ends.
Abort ==
  /\ up' = FALSE /\ pc' = "idle" /\ list' = <<>>
  /\ UNCHANGED rows

\* transitionAgentAction: the state is still the one that was listed.
AsListed(e) == State(e.id) = e.state

\* transitionAgentAction: a conflict throws.
Resolve(e, state, how) ==
  IF AsListed(e)
  THEN SetState({e.id}, state) /\ Advance(how) /\ UNCHANGED attempt
  ELSE Abort

\* The run and the reporter an action names are the current ones.
Exact(a) == run.live /\ run.gen = action[a].gen /\ run.rep = action[a].rep

\* Mutant: an attempt left submitting does not stop the next one.
StartableAgain(a) == State(a) \in Queued

\* The guards of beginAgentActionAttempt that #consider has not just established.
Startable(a) == State(a) \in Queued /\ attempt[a] # "submitting"

\* beginAgentActionAttempt: outside the try of #consider.
Begin(a) ==
  IF Startable(a)
  THEN /\ attempt' = [attempt EXCEPT ![a] = "submitting"]
       /\ pc' = "verify"
       /\ UNCHANGED <<action, up, list>>
  ELSE Abort

\* Mutant: work that was accepted may take for ever.
CompletionDueNever(e) == FALSE

CompletionDue(e) == e.state \in InWork /\ "answer" \in e.overdue

\* One iteration of #schedule, up to its first await.
Visit ==
  /\ pc = "visit"
  /\ LET e == Head(list)
         a == e.id
         queued == e.state \in Queued
         allowed == queued /\ a \notin denied
         timely == allowed /\ "queue" \notin e.overdue
         exact == timely /\ Exact(a)
         stalled == e.state = "submitted" /\ "answer" \in e.overdue
     IN \/ queued /\ ~ allowed /\ Resolve(e, "cancelled", "yield")
        \/ allowed /\ ~ timely /\ Resolve(e, "expired", "yield")
        \/ timely /\ ~ exact /\ Resolve(e, "superseded", "yield")
        \/ exact /\ run.ready = "wait" /\ e.state = "created" /\ Resolve(e, "deferred", "yield")
        \/ exact /\ run.ready = "wait" /\ e.state = "deferred" /\ Advance("yield") /\ UNCHANGED rows
        \/ exact /\ run.ready = "refuse" /\ Resolve(e, "rejected", "yield")
        \/ exact /\ run.ready = "ready" /\ Begin(a)
        \/ stalled /\ Resolve(e, "stalled", "visit")
        \/ CompletionDue(e) /\ Resolve(e, "timed-out", "visit")
        \/ ~ queued /\ ~ stalled /\ ~ CompletionDue(e) /\ Advance("visit") /\ UNCHANGED rows
  /\ UNCHANGED <<clocks, denied, target, crashes, entered>>

\* The await of #consider is over; after the last action the pass ends.
Resume ==
  /\ pc = "yield"
  /\ pc' = IF list = <<>> THEN "idle" ELSE "visit"
  /\ UNCHANGED <<rows, clocks, denied, target, up, list, crashes, entered>>

Current == Head(list).id

\* actionReadiness says dispatch.
Dispatchable(a) == Exact(a) /\ run.ready = "ready"

\* abandonAgentActionAttempt of a settled action, or failAgentActionAttempt.
Closes(a, state) ==
  /\ IF State(a) \in Settled THEN UNCHANGED action ELSE SetState({a}, state)
  /\ attempt' = [attempt EXCEPT ![a] = "closed"]

\* The catch of #consider.
Fails(a, state) == Closes(a, state) /\ Advance("yield")

\* dispatchAutomated reaches the action: its readiness is looked at again.
Verify ==
  /\ pc = "verify"
  /\ IF Dispatchable(Current)
     THEN pc' = "observe" /\ UNCHANGED <<rows, up, list>>
     ELSE Fails(Current, "failed")
  /\ UNCHANGED <<clocks, denied, target, crashes, entered>>

\* observeRun answers, or cannot tell; then every condition is looked at once more.
Observe ==
  /\ pc = "observe"
  /\ LET sound == Dispatchable(Current) /\ State(Current) \in Queued /\ Current \notin denied
     IN \/ run.bound /\ sound /\ pc' = "paste" /\ UNCHANGED <<rows, up, list>>
        \/ ~ run.bound /\ Fails(Current, "superseded")
        \/ Fails(Current, "failed")
  /\ UNCHANGED <<clocks, denied, target, crashes, entered>>

\* pasteToRun submits the prompt, or throws before it does.
Paste ==
  /\ pc = "paste"
  /\ \/ /\ Current \notin denied
        /\ entered' = [entered EXCEPT ![Current] = @ + 1]
        /\ pc' = "commit"
        /\ UNCHANGED <<rows, up, list>>
     \/ Fails(Current, "failed") /\ UNCHANGED entered
  /\ UNCHANGED <<clocks, denied, target, crashes>>

\* The guards of markAgentActionSubmitted; the end of its run settles an action.
Committable(a) == State(a) \in Queued

\* The catch when markAgentActionSubmitted is refused: nothing but the attempt is
\* written of an action that is settled; another one is stalled, for now.
MarkRefused ==
  IF State(Current) \in Settled
  THEN Fails(Current, "stalled")
  ELSE Closes(Current, "stalled") /\ pc' = "settle" /\ UNCHANGED <<up, list>>

\* markAgentActionSubmitted, or the failure of the delete-buffer before it, or its
\* refusal: the row is settled, or the terminal binding changed, or the transaction fails.
Commit ==
  /\ pc = "commit"
  /\ \/ /\ Committable(Current)
        /\ SetState({Current}, "submitted")
        /\ attempt' = [attempt EXCEPT ![Current] = "submitted"]
        /\ Advance("yield")
     \/ Fails(Current, "failed")
     \/ MarkRefused
  /\ UNCHANGED <<clocks, denied, target, crashes, entered>>

\* The catch goes on: stalled is provisional, in a second transaction it becomes the
\* outcome.  A crash may come between the two.
SettleCommit ==
  /\ pc = "settle"
  /\ SetState({Current}, "settled-unverified")
  /\ Advance("yield")
  /\ UNCHANGED <<attempt, clocks, denied, target, crashes, entered>>

-----------------------------------------------------------------------------
(* The agent and its run. *)

AckKinds == InWork \cup {"completed", "settled-unverified", "failed", "cancelled"}

\* Mutant: an agent may acknowledge an attempt in progress.
AcknowledgeableEarly(a) == attempt[a] \in {"submitting", "submitted"} /\ State(a) \in Unsettled

Acknowledgeable(a) == attempt[a] = "submitted" /\ State(a) \in {"submitted"} \cup InWork

\* recordAgentActionAcknowledgement.
Acknowledge(a, kind) ==
  /\ Free /\ Acknowledgeable(a) /\ Exact(a)
  /\ SetState({a}, kind)
  /\ UNCHANGED <<attempt, clocks, denied, target, daemon, crashes, entered>>

\* createRun; actions of earlier runs are superseded.
RunStarts ==
  /\ Free /\ ~ run.live /\ run.gen < MaxRuns
  /\ run' = [NoRun EXCEPT !.gen = run.gen + 1, !.live = TRUE]
  /\ SetState({a \in Actions : State(a) \in Unsettled}, "superseded")
  /\ UNCHANGED <<attempt, clocks, denied, epochs, daemon, crashes, entered>>

\* The actions the end of the run settles.
EndedWith == {a \in Actions : action[a].gen = run.gen /\ State(a) \in Unsettled}

\* updateRuntimeRunStatus: stopped or failed; the reporter loses its authority.
RunEnds ==
  /\ Free /\ run.live
  /\ \E state \in {"superseded", "failed"} : SetState(EndedWith, state)
  /\ run' = [NoRun EXCEPT !.gen = run.gen]
  /\ UNCHANGED <<attempt, clocks, denied, epochs, daemon, crashes, entered>>

\* registerReporterSession on session.ready, after any earlier session was closed.
SessionReady ==
  /\ Free /\ run.live /\ epochs < MaxReporters
  /\ epochs' = epochs + 1
  /\ run' = [run EXCEPT !.rep = epochs + 1, !.bound = TRUE, !.ready = "ready"]
  /\ UNCHANGED <<rows, clocks, denied, daemon, crashes, entered>>

\* revokeReporterAuthority, for a process that was replaced.
AuthorityRevoked ==
  /\ Free /\ run.rep # 0 /\ ~ run.bound
  /\ run' = [run EXCEPT !.rep = 0]
  /\ UNCHANGED <<rows, clocks, denied, epochs, daemon, crashes, entered>>

\* What actionReadiness sees of the status changes, or a lease in it lapses.
StatusChanges ==
  /\ Free /\ run.live
  /\ \E ready \in {"wait", "ready", "refuse"} \ {run.ready} : run' = [run EXCEPT !.ready = ready]
  /\ UNCHANGED <<rows, clocks, denied, epochs, daemon, crashes, entered>>

\* Another process comes to the foreground of the pane.
ProcessReplaced ==
  /\ run.bound
  /\ run' = [run EXCEPT !.bound = FALSE]
  /\ UNCHANGED <<rows, clocks, denied, epochs, daemon, crashes, entered>>

-----------------------------------------------------------------------------
(* Time and crashes. *)

\* The queue deadline is the earliest.
DeadlinePasses(a, d) ==
  /\ State(a) # "none" /\ d \notin overdue[a]
  /\ d # "queue" => "queue" \in overdue[a]
  /\ overdue' = [overdue EXCEPT ![a] = @ \cup {d}]
  /\ UNCHANGED <<rows, leaseDue, denied, target, daemon, crashes, entered>>

LeaseExpires(a) ==
  /\ attempt[a] = "submitting" /\ a \notin leaseDue
  /\ leaseDue' = leaseDue \cup {a}
  /\ UNCHANGED <<rows, overdue, denied, target, daemon, crashes, entered>>

Crash ==
  /\ up /\ crashes < MaxCrashes
  /\ crashes' = crashes + 1
  /\ up' = FALSE /\ pc' = "idle" /\ list' = <<>>
  /\ UNCHANGED <<rows, clocks, denied, target, entered>>

Boot ==
  /\ ~ up
  /\ up' = TRUE
  /\ UNCHANGED <<rows, clocks, denied, target, pc, list, crashes, entered>>

PassStep == Visit \/ Resume \/ Verify \/ Observe \/ Paste \/ Commit \/ SettleCommit

Request == \E a \in Actions : Create(a) \/ Cancel(a) \/ Deny(a)

Agent ==
  \/ \E a \in Actions, kind \in AckKinds : Acknowledge(a, kind)
  \/ RunStarts \/ RunEnds \/ SessionReady \/ AuthorityRevoked \/ StatusChanges \/ ProcessReplaced

Clock == \E a \in Actions : LeaseExpires(a) \/ \E d \in Deadlines : DeadlinePasses(a, d)

Next == Request \/ Tick \/ PassStep \/ Agent \/ Clock \/ Crash \/ Boot

Spec == Init /\ [][Next]_vars

\* The timer ticks, a pass proceeds, deadlines pass and the service manager starts a
\* daemon that ended.
Fairness ==
  /\ WF_vars(Tick) /\ WF_vars(PassStep) /\ WF_vars(Boot)
  /\ \A a \in Actions : WF_vars(LeaseExpires(a))
  /\ \A a \in Actions, d \in Deadlines : WF_vars(DeadlinePasses(a, d))

FairSpec == Spec /\ Fairness

-----------------------------------------------------------------------------
(* Properties. *)

\* A prompt is submitted at most once: a crash between the terminal and the row does
\* not make the next daemon submit it again.
EnteredOnce == \A a \in Actions : entered[a] <= 1

\* Work is reported by the agent, or counted as submitted, only when it was.
ReportedWasEntered ==
  \A a \in Actions : State(a) \in {"submitted", "completed"} \cup InWork => entered[a] = 1

\* An action that waits for its agent names the run the member has now.
LiveTargets == \A a \in Actions : State(a) \in Unsettled => run.live /\ action[a].gen = run.gen

\* The one outcome that is provisional: stalled, between the two writes that follow a
\* refused commit.
Provisional(a) == pc = "settle" /\ Current = a /\ State(a) = "stalled"

\* No pass, late acknowledgement, commit or boot changes an outcome, but the catch of a
\* refused commit, which corrects the stalled it has just written to settled-unverified.
OutcomeFinal ==
  [][\A a \in Actions : State(a) \in Settled =>
        \/ UNCHANGED action[a]
        \/ Provisional(a) /\ State(a)' = "settled-unverified"]_vars

\* What was withdrawn is not submitted afterwards, whatever the pass was doing.
WithdrawnStays ==
  [][\A a \in Actions : State(a) \in {"cancelled", "expired", "rejected"} =>
        UNCHANGED entered[a]]_vars

\* Every action has an outcome in the end.
EventuallySettled == \A a \in Actions : State(a) \in Unsettled ~> State(a) \in Settled
=============================================================================
