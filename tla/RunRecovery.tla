----------------------------- MODULE RunRecovery -----------------------------
(***************************************************************************)
(* The runs of one member: the rows store.ts keeps for every generation,   *)
(* the operations run-runtime-coordinator.ts serialises over them (start,  *)
(* stop, restart, and the pass that reconciles them with tmux every        *)
(* second), and the panes tmux-runtime.ts creates, inspects and kills.     *)
(*                                                                         *)
(* An operation is a sequence of steps, with `pc' its next one: the daemon *)
(* may crash and the pane may die between any two of them.  Time is        *)
(* abstracted: a cooldown may end, and a confirmation be overdue, at any   *)
(* moment.  A daemon that starts may bring a newer provider snapshot:      *)
(* provider-update-reconciler.ts then replaces the run bound to the older  *)
(* one.  Membership changes are not modelled here.                         *)
(***************************************************************************)
EXTENDS Integers, FiniteSets

CONSTANTS
  Mode,        \* nativeRecovery.mode of the integration
  MaxAttempts, \* recoveryMaxAttempts
  MaxStarts,   \* bound: starts and restarts by the operator
  MaxCrashes,  \* bound: daemon crashes
  MaxFaults,   \* bound: tmux commands that fail although the server is there
  MaxUpdates   \* bound: newer provider snapshots

ASSUME RecoveryAssumption ==
  /\ Mode \in {"restart", "resume-or-restart", "resume-only"}
  /\ MaxAttempts \in Nat /\ MaxStarts \in Nat
  /\ MaxCrashes \in Nat /\ MaxFaults \in Nat /\ MaxUpdates \in Nat

\* Every start may be followed by MaxAttempts automatic replacements; there is room for
\* one more, which only a budget that is not kept would use.
MaxGen == MaxStarts * (MaxAttempts + 1) + 1
Gens == 0..MaxGen

VARIABLES
  run,      \* row of every generation; 0 stands for none
  gens,     \* latest generation
  session,  \* latest native session of the member, and the generation it names
  pane,     \* the pane tagged with each generation
  up,       \* the daemon runs
  pc,       \* next step of the operation in progress
  op,       \* what that operation is about
  missing,  \* #missingConfirmations of the latest generation
  bounds,   \* starts, crashes and faults so far
  index,    \* the active provider snapshot, which the daemon reads when it starts
  built,    \* the snapshot each generation is bound to
  update,   \* the latest transition row of each generation
  intent,   \* history: what the operator asked for last
  autos,    \* history: automatic replacements since the operator's last start
  cut       \* history: generations whose launch a crash interrupted

durable == <<run, gens, session>>
updates == <<index, built, update>>
history == <<intent, autos, cut>>
vars == <<durable, updates, pane, up, pc, op, missing, bounds, history>>

NoRun == [status |-> "none", desired |-> "stopped", phase |-> "idle", attempts |-> 0,
          cooling |-> FALSE, bound |-> FALSE, native |-> FALSE]

Runs == [status : {"none", "starting", "running", "stopping", "stopped", "failed"},
         desired : {"running", "stopped"},
         phase : {"idle", "reconciling", "resuming", "restarting", "recovered", "failed"},
         attempts : 0..MaxAttempts, cooling : BOOLEAN, bound : BOOLEAN, native : BOOLEAN]

Sessions == [state : {"none", "ready", "reserved", "resumed"}, run : Gens]

Steps == {"idle", "relaunch", "prepare", "launch", "bind", "finish", "stop", "recheck", "attempt",
          "replace", "create", "stopOld", "consent"}

\* The operation in progress: an automatic replacement; the second half of a restart; a resume;
\* a provider update, with the consent to the launch still to be asked for or already given.
Ops == [auto : BOOLEAN, again : BOOLEAN, reserved : BOOLEAN, update : {"none", "ask", "asked"}]
NoOp == [auto |-> FALSE, again |-> FALSE, reserved |-> FALSE, update |-> "none"]

Snapshots == 0..MaxUpdates
Unbound == -1

Outcomes == {"none", "restarted", "failed", "retryable", "uncertain", "approval"}
UpdateRows == [state : {"none", "in-progress", "completed"}, outcome : Outcomes,
               replaced : BOOLEAN, to : Snapshots]
NoUpdate == [state |-> "none", outcome |-> "none", replaced |-> FALSE, to |-> 0]

\* The type of every variable.
TypeOK ==
  /\ run \in [Gens -> Runs]
  /\ gens \in Gens
  /\ session \in Sessions
  /\ pane \in [Gens -> {"none", "live", "dead"}]
  /\ up \in BOOLEAN
  /\ pc \in Steps
  /\ op \in Ops
  /\ missing \in 0..1
  /\ bounds \in [starts : 0..MaxStarts, crashes : 0..MaxCrashes, faults : 0..MaxFaults]
  /\ index \in Snapshots
  /\ built \in [Gens -> Snapshots \cup {Unbound}]
  /\ update \in [Gens -> UpdateRows]
  /\ intent \in {"running", "stopped"}
  /\ autos \in Nat
  /\ cut \in SUBSET Gens

Init ==
  /\ run = [g \in Gens |-> NoRun] /\ gens = 0
  /\ session = [state |-> "none", run |-> 0]
  /\ pane = [g \in Gens |-> "none"]
  /\ up = TRUE /\ pc = "idle"
  /\ op = NoOp
  /\ missing = 0
  /\ bounds = [starts |-> 0, crashes |-> 0, faults |-> 0]
  /\ index = 0 /\ built = [g \in Gens |-> Unbound] /\ update = [g \in Gens |-> NoUpdate]
  /\ intent = "stopped" /\ autos = 0 /\ cut = {}

-----------------------------------------------------------------------------
(* Rows. *)

Cur == run[gens]

\* Mutant: a run that is stopping does not count.
ActiveNotStopping == {"starting", "running"}

\* getActiveRun.
Active == {"starting", "running", "stopping"}

\* Mutant: only "stopped" clears the desired state.
WithStatusLate(r, status) ==
  IF status = "stopped"
  THEN [r EXCEPT !.status = status, !.desired = "stopped", !.phase = "idle", !.cooling = FALSE]
  ELSE [r EXCEPT !.status = status]

\* updateRuntimeRunStatus.
WithStatus(r, status) ==
  IF status \in {"stopping", "stopped"} \/ r.desired = "stopped"
  THEN [r EXCEPT !.status = status, !.desired = "stopped", !.phase = "idle", !.cooling = FALSE]
  ELSE [r EXCEPT !.status = status]

\* transitionRunRecovery: the fence on generation and desired state holds for the
\* rows the coordinator asks about, because its operations are serialised.
WithPhase(r, phase) == [r EXCEPT !.phase = phase, !.cooling = @ /\ phase # "recovered"]

SetRun(r) == run' = [run EXCEPT ![gens] = r]

\* The operation goes on with another step; its locals end with it.
Goto(step) == pc' = step /\ op' = IF step = "idle" THEN NoOp ELSE op

\* createRunForMembership: recoveryFrom?.recoveryAttempts ?? 0.
Inherited(r) == r.attempts

\* createRunForMembership, createRun: the next generation.  What is left of the pane of the
\* one before is forgotten once its process is gone: nothing looks at it again.
NewRun(phase, attempts, cooling, native) ==
  /\ Cur.status \notin Active
  /\ gens < MaxGen
  /\ gens' = gens + 1
  /\ run' = [run EXCEPT ![gens + 1] =
       [status |-> "starting", desired |-> "running", phase |-> phase, attempts |-> attempts,
        cooling |-> cooling, bound |-> FALSE, native |-> native]]
  /\ pane' = [pane EXCEPT ![gens] = IF @ = "dead" THEN "none" ELSE @]
  /\ missing' = 0

-----------------------------------------------------------------------------
(* Start, stop, restart. *)

Idle == up /\ pc = "idle"

Operator(what) ==
  /\ intent' = what
  /\ UNCHANGED cut

\* startRun once consent is resolved; also the second half of a restart.
Start ==
  /\ up /\ pc \in {"idle", "relaunch"}
  /\ bounds.starts < MaxStarts
  /\ bounds' = [bounds EXCEPT !.starts = @ + 1]
  /\ NewRun("idle", 0, FALSE, FALSE)
  /\ pc' = "prepare"
  /\ op' = NoOp
  /\ Operator("running") /\ autos' = 0
  /\ UNCHANGED <<updates, session, up>>

\* #launch: the run is bound to the active snapshot before its command line is made of it.
Prepare ==
  /\ pc = "prepare"
  /\ built' = [built EXCEPT ![gens] = index]
  /\ Goto("launch")
  /\ UNCHANGED <<durable, index, update, pane, up, missing, bounds, history>>

\* #launchCommand: new-window, and the tags of the pane.
NewWindow ==
  /\ pc = "launch"
  /\ pane' = [pane EXCEPT ![gens] = "live"]
  /\ Goto("bind")
  /\ UNCHANGED <<durable, updates, up, missing, bounds, history>>

\* complete: the transition of generation g ends.
Complete(g, outcome) ==
  update' = [update EXCEPT ![g].state = "completed", ![g].outcome = outcome]

\* The binding is persisted and the run is running; an update without a native session
\* to wait for is over.
Bind ==
  /\ pc = "bind"
  /\ SetRun([WithStatus(Cur, "running") EXCEPT !.bound = TRUE])
  /\ Goto(IF op.auto /\ op.update = "none" THEN "finish" ELSE "idle")
  /\ IF op.update = "none" \/ op.reserved
     THEN UNCHANGED update ELSE Complete(gens - 1, "restarted")
  /\ UNCHANGED <<gens, index, built, session, pane, up, missing, bounds, history>>

\* #markRunFailed.
MarkedFailed(r) == WithPhase(WithStatus(r, "failed"), "failed")

\* The catch of #recoverMissingRun: give up, or try again later; the one of
\* #reconcileOutdated: give up.
AfterFailure(r) ==
  IF op.update # "none" THEN MarkedFailed(r)
  ELSE WithPhase(r, IF r.attempts >= MaxAttempts THEN "failed" ELSE "reconciling")

\* The transition of generation g after that: an update is tried again while attempts are left.
FailUpdate(g) ==
  IF op.update = "none" THEN UNCHANGED update
  ELSE Complete(g, IF Cur.attempts < MaxAttempts THEN "retryable" ELSE "failed")

\* #launchCreatedRun, #launchCommand: the launch throws, and a pane it made is killed.
LaunchFails ==
  /\ pc \in {"prepare", "launch", "bind"}
  /\ pane' = [pane EXCEPT ![gens] = "none"]
  /\ SetRun(LET failed == WithStatus(Cur, "failed")
            IN IF op.auto THEN AfterFailure(failed) ELSE failed)
  /\ FailUpdate(gens - 1)
  /\ Goto("idle")
  /\ UNCHANGED <<gens, index, built, session, up, missing, bounds, history>>

\* #stopRun: an active run is stopping, one awaiting recovery is no longer desired.
\* restartRun needs an active run and goes on to launch the next one.
Stop(again) ==
  /\ Idle
  /\ \/ /\ Cur.status \in Active
        /\ again => bounds.starts < MaxStarts
        /\ SetRun(WithStatus(Cur, "stopping"))
        /\ pc' = "stop" /\ op' = [NoOp EXCEPT !.again = again]
     \/ /\ Cur.status \notin Active /\ Cur.desired = "running" /\ ~ again
        /\ SetRun([Cur EXCEPT !.desired = "stopped", !.phase = "idle", !.cooling = FALSE])
        /\ Goto("idle")
  /\ Operator(IF again THEN "running" ELSE "stopped")
  /\ UNCHANGED <<updates, gens, session, pane, up, missing, bounds, autos>>

\* A tmux command fails although the server is there.
Fault ==
  /\ bounds.faults < MaxFaults
  /\ bounds' = [bounds EXCEPT !.faults = @ + 1]

Owned == Cur.bound /\ pane[gens] = "live"

\* The stop ends with the row stopped; a restart goes on.
Stopped ==
  /\ SetRun(WithStatus(Cur, "stopped"))
  /\ Goto(IF op.again THEN "relaunch" ELSE "idle")

\* #stopOwnedRun: the owned pane is killed; a pane that is not there, or not owned,
\* and one that cannot be inspected, only end the row; kill-pane may fail, and
\* whatever precedes it may throw.
StopPane ==
  /\ pc = "stop"
  /\ \/ Owned /\ pane' = [pane EXCEPT ![gens] = "none"] /\ Stopped /\ UNCHANGED bounds
     \/ ~ Owned /\ Stopped /\ UNCHANGED <<pane, bounds>>
     \/ Cur.bound /\ Fault /\ Stopped /\ UNCHANGED pane
     \/ Owned /\ Fault /\ SetRun(WithStatus(Cur, "failed")) /\ Goto("idle") /\ UNCHANGED pane
     \/ Fault /\ Goto("idle") /\ UNCHANGED <<run, pane>>
  /\ UNCHANGED <<updates, gens, session, up, missing, history>>

-----------------------------------------------------------------------------
(* The reconciliation pass. *)

\* listDesiredRunningRuns.
Wanted == Idle /\ Cur.desired = "running" /\ Cur.status # "stopping"

\* detectIfBound: a run bound to another snapshot than the active one; the pass leaves it to
\* the provider update.
Outdated == built[gens] \notin {Unbound, index}

Confirmed == Cur.native /\ session = [state |-> "resumed", run |-> gens]

\* The run is a replacement whose update can be concluded.
Replacing ==
  /\ gens > 0 /\ update[gens - 1].state = "in-progress" /\ update[gens - 1].replaced
  /\ update[gens].state = "none" /\ Cur.status = "running"
  /\ Cur.phase = "resuming" => Confirmed

\* Mutant: a live pane whose process cannot be identified is missing.
SeenLoose(g) ==
  IF ~ run[g].bound THEN {"missing"}
  ELSE CASE pane[g] = "none" -> {"missing"}
         [] pane[g] = "dead" -> {"dead"}
         [] pane[g] = "live" -> {"present", "missing"}

\* observeRun: what tmux and the process table say about the pane of a run.
Seen(g) ==
  IF ~ run[g].bound THEN {"missing"}
  ELSE CASE pane[g] = "none" -> {"missing"}
         [] pane[g] = "dead" -> {"dead"}
         [] pane[g] = "live" -> {"present", "indeterminate"}

\* An observation, or a failed list-panes: a spawn error is indeterminate, a
\* non-zero exit is a missing run.
Observe(o) ==
  \/ o \in Seen(gens) /\ UNCHANGED bounds
  \/ Cur.bound /\ o \in {"missing", "indeterminate"} /\ Fault

\* Mutant: a run out of attempts keeps its status and phase.
GivenUpQuietly(force) == Cur

\* #recoverMissingRun, the budget is spent.
GivenUp(force) ==
  LET ended == IF ~ force /\ Cur.status \in {"running", "starting"}
               THEN WithStatus(Cur, "failed") ELSE Cur
  IN WithPhase(ended, "failed")

\* Mutant: one attempt too many.
BudgetLeftOver(r) == r.attempts <= MaxAttempts

BudgetLeft(r) == r.attempts < MaxAttempts

\* #recoverMissingRun up to the reservation of a native session.
Recover(force) ==
  \/ /\ ~ BudgetLeft(Cur)
     /\ SetRun(GivenUp(force))
     /\ Goto("idle") /\ UNCHANGED session
  \/ /\ BudgetLeft(Cur) /\ Cur.cooling
     /\ Goto("idle") /\ UNCHANGED <<run, session>>
  \/ \* consent is required or denied
     /\ BudgetLeft(Cur) /\ ~ Cur.cooling
     /\ SetRun(WithPhase(WithStatus(Cur, "failed"), "failed"))
     /\ Goto("idle") /\ UNCHANGED session
  \/ /\ BudgetLeft(Cur) /\ ~ Cur.cooling
     /\ LET reserve == ~ force /\ Mode # "restart" /\ session.state \in {"ready", "resumed"}
            refuse  == ~ reserve /\ Mode = "resume-only" /\ ~ force
        IN /\ SetRun(WithPhase(Cur, IF refuse THEN "failed" ELSE "reconciling"))
           /\ session' = IF reserve THEN [state |-> "reserved", run |-> gens] ELSE session
           /\ pc' = IF refuse THEN "idle" ELSE "attempt"
           /\ op' = [NoOp EXCEPT !.reserved = reserve]

\* The run's pane and process are there.
Present ==
  /\ missing' = 0
  /\ \/ /\ Cur.phase = "resuming" /\ Confirmed
        /\ SetRun(WithPhase(Cur, "recovered"))
        /\ Goto("idle") /\ UNCHANGED session
     \/ /\ Cur.phase = "resuming" /\ ~ Confirmed
        /\ \/ Goto("idle") /\ UNCHANGED <<run, session>>
           \/ /\ Mode = "resume-only"
              /\ SetRun(WithPhase(Cur, "failed"))
              /\ Goto("idle") /\ UNCHANGED session
           \/ Mode # "resume-only" /\ Recover(TRUE)
     \/ /\ Cur.phase = "recovered"
        /\ Goto("idle") /\ UNCHANGED <<run, session>>
     \/ /\ Cur.phase \notin {"resuming", "recovered"}
        /\ SetRun(WithPhase(Cur, "reconciling"))
        /\ Goto(IF Cur.status = "running" THEN "finish" ELSE "idle")
        /\ UNCHANGED session

\* reconcile looks at a run that should be running; the second pass in a row that
\* misses it looks again before it recovers.
Inspect ==
  /\ Wanted /\ ~ Replacing /\ ~ Outdated
  /\ \/ Observe("present") /\ Present
     \/ Observe("indeterminate") /\ missing' = 0 /\ UNCHANGED <<run, session, pc, op>>
     \/ Observe("dead") /\ missing' = 0 /\ Recover(FALSE)
     \/ /\ Observe("missing") /\ missing' = 1
        /\ Goto(IF missing = 1 THEN "recheck" ELSE "idle")
        /\ UNCHANGED <<run, session>>
  /\ UNCHANGED <<updates, gens, pane, up, history>>

\* finalObservation.
Recheck ==
  /\ pc = "recheck"
  /\ missing' = 0
  /\ \/ Observe("missing") /\ Recover(FALSE)
     \/ Observe("dead") /\ Recover(FALSE)
     \/ /\ Observe("present")
        /\ Goto(IF Cur.status = "running" /\ Cur.phase \notin {"resuming", "recovered"}
                THEN "finish" ELSE "idle")
        /\ UNCHANGED <<run, session>>
     \/ Observe("indeterminate") /\ Goto("idle") /\ UNCHANGED <<run, session>>
  /\ UNCHANGED <<updates, gens, pane, up, history>>

\* Mutant: a stop is finished only for a run with a terminal.
UnfinishedBound == Cur.status = "stopping" /\ Cur.bound

Unfinished == Cur.status = "stopping"

\* reconcile finishes a stop that was interrupted.
ResumeStop ==
  /\ Idle /\ Unfinished
  /\ Goto("stop")
  /\ UNCHANGED <<durable, updates, pane, up, missing, bounds, history>>

\* The attempt is counted before anything is launched.
Attempt ==
  /\ pc = "attempt"
  /\ SetRun([Cur EXCEPT !.phase = IF op.reserved THEN "resuming" ELSE "restarting",
                        !.attempts = @ + 1, !.cooling = TRUE])
  /\ Goto("replace")
  /\ UNCHANGED <<updates, gens, session, pane, up, missing, bounds, history>>

\* recoverRun retires the run: when it is resumed, a pane it still owns is killed.
Replace ==
  /\ pc = "replace"
  /\ LET kills == Cur.phase = "resuming" /\ Cur.status \in {"starting", "running"}
         throws == kills /\ ~ Cur.bound
         retired == SetRun(WithStatus(Cur, "failed")) /\ Goto("create") /\ UNCHANGED update
         fails == SetRun(AfterFailure(Cur)) /\ Goto("idle") /\ FailUpdate(gens)
     IN \/ /\ ~ throws
           /\ retired
           /\ pane' = IF kills /\ Owned THEN [pane EXCEPT ![gens] = "none"] ELSE pane
           /\ UNCHANGED bounds
        \/ kills /\ Cur.bound /\ Fault /\ retired /\ UNCHANGED pane
        \/ throws /\ fails /\ UNCHANGED <<pane, bounds>>
        \/ Fault /\ fails /\ UNCHANGED pane
  /\ UNCHANGED <<gens, index, built, session, up, missing, history>>

\* recoverRun creates the replacement, which an update records on its transition.
Create ==
  /\ pc = "create"
  /\ NewRun(IF op.reserved THEN "resuming" ELSE "restarting", Inherited(Cur), Cur.cooling,
            op.reserved)
  /\ op' = [op EXCEPT !.auto = TRUE]
  /\ update' = [update EXCEPT ![gens].replaced = @ \/ op.update # "none"]
  /\ pc' = "prepare"
  /\ autos' = autos + 1
  /\ UNCHANGED <<index, built, session, up, bounds, intent, cut>>

\* The end of the pass: a run whose view session is ready has recovered.
Finish ==
  /\ pc = "finish"
  /\ \/ UNCHANGED run
     \/ Cur.phase \notin {"resuming", "recovered"} /\ SetRun(WithPhase(Cur, "recovered"))
  /\ Goto("idle")
  /\ UNCHANGED <<updates, gens, session, pane, up, missing, bounds, history>>

-----------------------------------------------------------------------------
(* Provider updates. *)

\* begin: the transition of the latest run to the active snapshot.
Row == IF update[gens].to = index THEN update[gens] ELSE NoUpdate

\* #completeRunningReplacement: the replacement runs; a resumed one has its session.
Conclude ==
  /\ Wanted /\ Replacing
  /\ Complete(gens - 1, IF Cur.phase = "failed" THEN "failed" ELSE "restarted")
  /\ UNCHANGED <<durable, index, built, pane, up, pc, op, missing, bounds, history>>

\* An outdated run is due for its update, or for another attempt at it; the Human may force
\* one whose process could not be identified (#forceIndeterminateFor).
Due(force) ==
  \/ Row.state # "completed" /\ ~ force
  \/ Row.outcome = "approval" /\ ~ force
  \/ Row.outcome = "retryable" /\ ~ force /\ Cur.attempts < MaxAttempts /\ ~ Cur.cooling
  \/ Row.outcome = "uncertain" /\ force

\* #reconcileOutdated up to the inspection of the pane; a run that waited for approval goes
\* on once the request has its answer.
BeginUpdate(force) ==
  /\ Wanted /\ ~ Replacing /\ Outdated
  /\ Due(force)
  /\ update' = [update EXCEPT ![gens] = [state |-> "in-progress", outcome |-> "none",
                                         replaced |-> FALSE, to |-> index]]
  /\ op' = [NoOp EXCEPT !.update = IF Row.outcome = "approval" THEN "asked" ELSE "ask"]
  /\ pc' = "stopOld"
  /\ UNCHANGED <<durable, index, built, pane, up, missing, bounds, history>>

\* #completeFailure and its like: the run is given up, and the transition says why.
GiveUp(outcome) ==
  /\ SetRun(MarkedFailed(Cur)) /\ Complete(gens, outcome)
  /\ Goto("idle")

\* stopProviderUpdatePane, #detachTerminal: the old pane is killed, or is not there; when tmux
\* cannot be asked the process is left alone; any other error leaves the transition open.
StopOld ==
  /\ pc = "stopOld"
  /\ LET killed == IF Owned THEN [pane EXCEPT ![gens] = "none"] ELSE pane
     IN \/ pane' = killed /\ Goto("consent") /\ UNCHANGED <<run, update, bounds>>
        \/ Cur.bound /\ Fault /\ Goto("consent") /\ UNCHANGED <<run, update, pane>>
        \/ Cur.bound /\ Fault /\ GiveUp("uncertain") /\ UNCHANGED pane
        \/ Fault /\ pane' \in {pane, killed} /\ Goto("idle") /\ UNCHANGED <<run, update>>
  /\ UNCHANGED <<gens, session, index, built, up, missing, history>>

\* The answer about the launch, the budget and the native session decide what happens next.
Consent ==
  /\ pc = "consent"
  /\ LET reserve == Mode # "restart" /\ session.state \in {"ready", "resumed"}
         barred  == ~ BudgetLeft(Cur) \/ (~ reserve /\ Mode = "resume-only")
     IN \/ /\ op.update = "ask" /\ GiveUp("approval")
           /\ UNCHANGED session
        \/ GiveUp("failed")
           /\ UNCHANGED session
        \/ /\ ~ barred
           /\ session' = IF reserve THEN [state |-> "reserved", run |-> gens] ELSE session
           /\ op' = [op EXCEPT !.reserved = reserve]
           /\ pc' = "attempt" /\ UNCHANGED <<run, update>>
  /\ UNCHANGED <<gens, index, built, pane, up, missing, bounds, history>>

-----------------------------------------------------------------------------
(* The agents and the machine. *)

\* A process ends; tmux retains its pane, or the pane goes with it.
PaneDies(g) ==
  /\ pane[g] = "live"
  /\ \E left \in {"dead", "none"} : pane' = [pane EXCEPT ![g] = left]
  /\ UNCHANGED <<durable, updates, up, pc, op, missing, bounds, history>>

\* NativeSessionService.observe: the agent of the latest run reports session.ready,
\* for the session it was asked to resume or for a new one.  Nothing looks at the
\* session when the mode never resumes.
SessionReady ==
  /\ Mode # "restart" /\ up /\ Owned /\ Cur.status = "running"
  /\ \/ /\ session.state = "reserved" /\ Cur.native
        /\ session' = [state |-> "resumed", run |-> gens]
     \/ session' = [state |-> "ready", run |-> gens]
  /\ UNCHANGED <<updates, run, gens, pane, up, pc, op, missing, bounds, intent, autos, cut>>

\* A cooldown ends.
Cool ==
  /\ Cur.cooling
  /\ SetRun([Cur EXCEPT !.cooling = FALSE])
  /\ UNCHANGED <<updates, gens, session, pane, up, pc, op, missing, bounds, history>>

Crash ==
  /\ up /\ bounds.crashes < MaxCrashes
  /\ bounds' = [bounds EXCEPT !.crashes = @ + 1]
  /\ up' = FALSE /\ Goto("idle") /\ missing' = 0
  /\ cut' = IF pc = "bind" THEN cut \cup {gens} ELSE cut
  /\ UNCHANGED <<durable, updates, pane, intent, autos>>

\* The daemon starts, after a crash or after it was stopped between two operations, and may
\* bring a newer snapshot; its first pass is like any other.
Boot ==
  /\ \/ ~ up /\ index' \in {index, index + 1}
     \/ Idle /\ index' = index + 1
  /\ index' \in Snapshots
  /\ up' = TRUE /\ missing' = 0
  /\ UNCHANGED <<durable, built, update, pane, pc, op, bounds, history>>

OpStep ==
  \/ Prepare \/ NewWindow \/ Bind \/ LaunchFails \/ StopPane
  \/ Recheck \/ Attempt \/ Replace \/ Create \/ Finish
  \/ StopOld \/ Consent

Pass == Inspect \/ ResumeStop \/ Conclude \/ BeginUpdate(FALSE)

Next ==
  \/ Start \/ \E again \in BOOLEAN : Stop(again)
  \/ OpStep \/ Pass \/ BeginUpdate(TRUE)
  \/ SessionReady \/ Cool \/ Crash \/ Boot
  \/ \E g \in Gens : PaneDies(g)

Spec == Init /\ [][Next]_vars

\* Operations proceed, the timer of the pass fires, cooldowns end and a daemon that
\* crashed is started again.
Fairness == WF_vars(OpStep) /\ WF_vars(Pass) /\ WF_vars(Cool) /\ WF_vars(~ up /\ Boot)

FairSpec == Spec /\ Fairness

-----------------------------------------------------------------------------
(* Properties. *)

\* At most the latest generation is active, over crashes between retiring a run and
\* creating the next and over operations that overtake an unfinished stop.
SupersededEnded == \A g \in Gens : g # gens => run[g].status \in {"none", "stopped", "failed"}

\* No agent process runs without an active run that owns it, except in a pane whose
\* launch a crash interrupted before its binding was stored.
NoUntrackedAgent ==
  \A g \in Gens : pane[g] = "live" /\ g \notin cut => g = gens /\ Cur.status \in Active

\* Automatic replacements between two starts of the operator stay within
\* recoveryMaxAttempts, over generations, failed launches and restarts of the daemon.
BudgetKept == autos <= MaxAttempts

\* After the operator asked for a stop, nothing is launched until the operator asks
\* for a start: neither a crash nor a failed stop makes recovery revive the run.
StoppedStays == [][gens' > gens => intent' = "running"]_vars

\* A lost agent is replaced, given up or no longer wanted.
Lost == Cur.desired = "running" /\ pane[gens] # "live" /\ Cur.phase # "failed"
LossHandled == Lost ~> ~ Lost

\* A stop that began ends, whatever interrupted it.
StopsEnd == Cur.status = "stopping" ~> Cur.status # "stopping"
=============================================================================
