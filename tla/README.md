# Nanasa in TLA+

Nanasa is a daemon that runs coding agents in tmux panes, and lets people,
browsers and the agents themselves talk to them. Its hard part is small and
concerns few facts: which process owns a pane, who may type into it, whether a
text was entered there once, twice or never, and what a row of the database says
about it after a crash. On top of it the Foreman, an agent that directs teams,
hands goals to them; underneath it a release is replaced file by file. This
directory models those parts of `apps/daemon/src`, checks them with TLC on small
instances, and proves the central properties with TLAPS for every value of the
constants.

Paths below are relative to `apps/daemon/src/` unless they start with `docs/`.

## 1. The system

One daemon process per repository (Node.js, one thread) keeps everything in a
SQLite file. Every call of `store.ts` is synchronous and runs in one
transaction; between two `await`s nothing else of the daemon runs. tmux is a
separate server that outlives the daemon: panes, their processes and the text
in their prompts survive a crash. The daemon looks at tmux and changes it with
one command at a time, each of which may fail.

| Component | State it keeps | Operations | Hard behaviour | Correct when |
|---|---|---|---|---|
| Message delivery (`delivery-dispatcher.ts`, `terminal-delivery.ts`, `store.ts`) | messages, deliveries with lease, attempts and owner, idempotency keys | submit, claim a batch, begin, paste, Enter, mark, retry, dead letter, revoke, reject, prune, clear | the row may change while the paste is awaited; a crash leaves a lease and perhaps a text; retention deletes what is queued | outcomes are decided once and only after Enter; each attempt pastes at most once; a live promise owns its row; everything is settled in the end |
| Terminal input arbiter (`terminal/terminal-input-arbiter.ts`) | a queue per run, a count of pending operations | enqueue an automated input, write of a controller | counts raised and lowered in callbacks | a paste and its Enter are not mixed with typing or other automated input; typing works again afterwards |
| Terminal control (`terminal/terminal-control-service.ts`, `terminal/terminal-gateway.ts`) | controller, viewers, leases, attachments of a run | connect, hello, takeover, release, heartbeat, expiry, close, attach | close callbacks run inside a grant; awaits between a role and its attachment; sockets closed before their hello | one controller, writable attachments only for it, fenced writes, dead streams swept |
| Run lifecycle and recovery (`run-runtime-coordinator.ts`, `tmux-runtime.ts`) | run rows per generation: status, desired state, phase, attempts; panes | start, stop, restart, the pass (inspect, resume, replace, give up) | several tmux commands and rows per operation, a crash or a dead pane between any two | one active generation, no lost agent process, a bounded number of replacements, stops that stay and end |
| Native sessions (`native-session-service.ts`) | session rows: ready, reserved, resumed | observe, reserve, confirm, invalidate | confirmation arrives from the agent at any time | a resume counts as recovered only with its confirmation |
| Agent actions (`actions/agent-action-scheduler.ts`, `agent-action-service.ts`) | actions, attempts with a lease | create, cancel, the pass (readiness, attempt, verify, paste, commit, deadlines), acknowledge | the pass works on rows it listed before its awaits; requests arrive in between; crash around Enter | a prompt is submitted at most once and only to the exact run; outcomes are final; each action gets one |
| Open waits (`actions/agent-open-wait-service.ts`) | wait rows: open, replying, answered, ... | open, reply, reset, supersede | reply awaited across a paste; reporter answers in between | a question is answered once |
| Status reporters (`reporter-registry.ts`, `agent-status-reducer.ts`, `store.ts`) | sessions with epoch, sequence, process, lease; derived status | register, bind process, report, refresh, revoke | old reporters report late; the foreground process changes | only the current reporter of the current process changes the status |
| Provider updates (`providers/provider-update-reconciler.ts`) | a binding of each run to a provider snapshot; transition rows: in progress, completed with an outcome | reconcile, force, complete a replacement | stops a pane before its replacement exists; consent and the budget may refuse after the pane is gone | a run that loses its pane to an update is replaced within the budget or given up; a stop stays |
| Foreman inbox and runtime (`foreman-inbox-scheduler.ts`, `foreman-runtime-service.ts`) | inputs: queued, writing, submitted, ambiguous, answered, cancelled; the durable Foreman and its runs | enqueue, dispatch, submit, reply, finish, resolve, requeue; start, stop, restart, recover, interrupt at start | a crash, an edit of the configuration or a replaced run while writing; results sent again to the next run | an input is never submitted twice; one is outstanding at a time; a row never claims or forgets a submission |
| Foreman conversations (`foreman-conversation-service.ts`) | requests: queued, submitted, ambiguous, ended; the action and the inbox row of each | ask, reply, acknowledge, cancel, reconcile, expire, authorize the action | the prompt travels through a durable action while the request is cancelled or either run is replaced | a question is put once and only while it is open; each ends with a row in the inbox |
| Foreman goals (`foreman-goal-service.ts`) | goals with grant and revision, delegations with reserved checkouts, decisions, handoffs | propose, approve, delegate, ask, resolve, report, review, accept, pause, resume, cancel, the pass | the pass works on copies it read before it awaited the launch of members | a team and a checkout have one owner; acceptance waits for every team; a stopped goal holds nothing; a handoff happens once |
| Foreman preparation and cleanup (`foreman-orchestration-service.ts`, `foreman-cleanup-service.ts`) | preparations with intents of stops and starts | prepare, recover, cancel, clean up | a tick of many awaited effects, each with an intent recorded before it | an interrupted effect is inspected, not replayed; budgets hold |
| Event log and stream (`event-log.ts`, `event-stream-session.ts`) | events by sequence; a cursor per socket | subscribe, replay, live, reset, slow consumer | a consumer slower than the events, a cursor older than what is retained | no gap, no repeat, or an explicit reset |
| HTTP idempotency (`store.ts`, `http/control-router.ts`) | keys: in progress, completed | claim, execute, complete, replay | a crash between claim and completion | a mutation runs at most once per key |
| Daemon instance guard (`daemon-instance-guard.ts`) | a lock file | acquire, take over, release, stop | two starters, dead owners, partial files | one daemon per repository |
| Release activation (`release/activation-service.ts`, `server.ts`) | a journal per activation, the active files, the copies kept for a rollback | activate (journal, replace, record, wait), roll back, recover at start | the manager and the daemon are two processes, either dies at any step; systemd restarts the daemon on its own; a rename may fail after its effect; recovery is itself interrupted | a daemon that serves sees all new or all old; a rollback is exact; every activation concludes |
| Generated overlays (`generated-overlay-transaction.ts`) | staged files and a ledger | commit, recover | a crash between a rename and its record | all new or all old after recovery |
| Worktrees, launch consent, topology, extensions, provider platform, MCP, HTTP, CLI, remote access, portal | see `PROJECT.json` | | mostly validation, parsing and I/O | |

How they meet: a conversation request is an agent action and ends as a row of
the Foreman's inbox, a goal hands over and reviews through both. The dispatcher,
the action scheduler, the open waits and the Foreman inbox all paste into panes
through `TerminalInputArbiter` and `TmuxRuntime.pasteToRun`; the gateway holds
typing back while they do. The coordinator creates and ends the runs they name;
ending a run settles actions and waits, removing a member revokes deliveries.
The store publishes events that wake the dispatcher and the streams.

`PROJECT.json` lists every component with its state of modelling, and, under
`hazards`, what can go wrong in this code that a test would hardly reach, each
at its line, with the properties that watch it or the reason none does.

## 2. Modules

| Module | Models |
|---|---|
| `Delivery` | the message queue of a group, the dispatcher and the panes it pastes into |
| `DeliveryLedger` | what the queue promises a reader of outcomes; `Delivery` implements it |
| `TerminalControl` | viewers, controller lease and attachments of one run, and the arbiter |
| `RunRecovery` | the runs of one member: rows, panes, coordinator operations, the recovery pass, provider updates |
| `AgentActions` | the actions of one member: rows, attempts, scheduler pass, acknowledgements |
| `ForemanInbox` | the inputs of the Foreman, the pass that types them, the runtime underneath it |
| `ForemanConversations` | the questions of the Foreman to one member, over runs of both |
| `ForemanGoals` | goals, delegations to teams and the pass over them |
| `Activation` | one release manager and one daemon over a set of files |
| `*_proofs` | theorems about the module they extend |
| `MC*` | instances for TLC |

The variables carry the names of the tables and fields they stand for. A
stretch of code between two awaits is one action; the map in `PROJECT.json`
names the lines each definition stands for. Definitions whose comment starts
with "Mutant:" are variants of the code with a plausible bug (a dropped guard, a
missing reset); no action uses them. Each property is listed with one of them
that breaks it, so that none of them holds whatever the code does.

### Delivery

State: the rows of `messages`, `deliveries` and `idempotency_keys` of one group,
memberships and the latest run of each member, the panes and the text in their
prompts, and the process: its owner number, the promises of `#deliver` in
flight, the arbiter's queues. `Claim` is `claimDeliveries` (one transaction that
selects due rows, leases them and counts the attempt). A promise then goes
through the stages claimed, observing, queued, pasted, entered: `Begin`,
`Enqueue`, `Paste`, `Enter`, `MarkInjected`; `Fail` may follow any stage that
awaits, `Reject` and the removal of the member settle without a paste. `Submit`
includes the pruning that the same transaction performs. A batch keeps the next
one waiting until all of its promises end (`#pending`). `Crash` forgets the
process and keeps rows, panes and prompts.

Simplifications: instants are what is left of them (`lease`, `next`), counted
down by `Tick`. A start does not overlap a stop, because the coordinator
serialises them. `EndRun` trusts the inspection of tmux; `RunRecovery` models
inspections that fail. A batch holds at most one run per recipient; ties between
rows of equal age are broken arbitrarily. Contents, senders and
acknowledgements are left out.

### TerminalControl

State: for each browser its stream (registered, socket closed, role, lease, age,
attachment), the controller, the number of leases granted, and the queue of
automated inputs. `Connect` is the hello handler with its takeover branch,
including the case that the handshake timeout closed the socket before; `Attach`
is what follows the awaited history read. `Takeover`, `Release`, `Heartbeat`,
`Expire` and `Disconnect` are the service's operations; closing a stream runs
its callback at once, as the code does. `Input` is a write of the controller,
refused while the arbiter counts pending inputs. `Interrupt` is the operator's
interrupt of the run (`tmux-runtime.ts:584`), which asks neither the lease nor the
arbiter and comes at any time, also between a paste and its Enter. A client of this
repository sends nothing between hello and welcome, and the model assumes so.

### RunRecovery

State: one row per generation, the member's native session, the pane tagged with
each generation, and the operation in progress with its next step `pc` and its
locals `op`. The operations are queued by the coordinator, so at most one is in
progress. `Start` and `Stop` begin one; `Inspect` is one pass over the latest run
and chooses what follows; `Recheck`, `Attempt`, `Replace`, `Create`, `Prepare`,
`NewWindow`, `Bind`, `Finish` are its steps, each with the error path of the
code. A pane may die and the daemon may crash between any two. `Fault` is a tmux
command that fails although the server is there. Cooldowns and confirmation
timeouts may end at any time. Changes of the team are not modelled.

Provider updates: `index` is the active snapshot, which a daemon reads when it
starts (`Boot` may bring a newer one), `built` the snapshot a generation was bound
to by `Prepare`, `update` the latest transition of each generation. The pass leaves
an outdated run to `BeginUpdate`, `StopOld` and `Consent`, which share the steps
from `Attempt` on with recovery; `Conclude` ends the transition of a replacement
that runs. A transition in state pending is one that was not begun, because no
await separates the two. The outcome "failed" is split by whether its error is
retryable. Dead panes of superseded generations are forgotten, as nothing looks at
them again.

### AgentActions

State: actions with their exact target (generation and reporter), attempts, the
member's run with its reporter, the process in the foreground and the verdict of
`actionReadiness`, and the pass: its place `pc` and the rows it listed and has
still to visit, as they were when listed. `Visit` is `#consider` up to its first
await, `Resume`, `Verify`, `Observe`, `Paste` and `Commit` the stretches of
`#submit`. A commit that is refused after Enter is two transactions: the row becomes
stalled (`MarkRefused`) and then settled-unverified (`SettleCommit`), with nothing
but a crash in between. Requests, acknowledgements and changes of the run are
disabled while `pc` is "visit" or "settle" and the one thread does not yield. A
pass that throws ends the process: nothing handles the rejection, and the service
restarts it. A pass yields after every row it did something about, the last one
included. The
acceptance and completion deadlines are one ("answer"), because each is looked at
in states where the other is not. Revisions and turn identifiers that fence single
acknowledgements are left out: an agent acknowledges in any order or not at all.
Moving a running run to another terminal is not modelled. TLC's instance has one
action; a pass over several is what the theorems `OutcomesStand`,
`WithdrawalsHold` and `SubmittedOnce` are about, which hold for every number of
them.

### ForemanInbox

State: the row of every input (`inbox`: state and target run), the configuration
(`config`), the durable actor with its authority revision (`actor`), its latest
run, the runtime operation in progress (`op`, they are queued by the service), the
pass (`tick`: where it awaits, which input it holds, the run and the authority it
read, whether the agent's status moved since), and for the properties how often
each input was submitted to each run (`entered`). `TickBegin` and `TickChoose` are
`#dispatch` around the observation of the pane, with the requeueing of results of
an ended run and the search for an input that blocks; `TickClaim` is the callback
in the arbiter's turn, `TickPaste`, `TickEnter` and `TickSubmitted` what follows
each await of `pasteToRun`, and `TickFailed` its catch clause, which also an
authority or a status that changed leads to. `Start`, `Stop`, `LaunchDone`,
`LaunchFailed`, `LaunchViewed`, `StopDone`, `ReconcileRun`, `Recover` and
`Reconfigure` are the service; `Restart` is the start of a daemon, which makes
written rows ambiguous. Whatever another handler may do happens between the steps
of a pass. Reporter epoch, status revision and process are one fact, "moved". The
order of several queued inputs is left open; the code takes the oldest, so that
the model allows more.

### ForemanConversations

State: every request (`question`: state, generation of the member, authority of
the Foreman, whether it is overdue), its action as far as the request depends on
it, its row in the inbox, the two runs, and how often the prompt reached the
member. `Ask`, `Reply`, `Cancel` and `Finish` are the calls; `Expire`,
`FollowAction` and `Deliver` are the branches of `#reconcile`; `Submitting`,
`Submit` and `ActionEnds` stand for the action scheduler, with `authorizeAction`
as the guard of the first two. Each is one transaction. All requests go to one
member, which is what its limit counts. Threads and follow-ups are left out.

### ForemanGoals

State: goals with state, revision and used review turns; the latest delegation of
every goal to every team with the checkout it reserved and what is known of its
candidate; the open blocking question of a goal; handoffs without an outcome; the
goals whose review is still in the inbox; the effective checkout of each team.
`Propose`, `Delegate`, `ResolveApproval`, `Ask`, `ResolveQuestion`,
`ReportProgress`, `ReportReview`, `ReportReady`, `Accept`, `Stop`, `Resume` and
`Settle` are the calls, each with the wake-up of the Foreman it makes (`Wake`);
`LimitsChange`, `AssignCheckout`, `Edit` and `ReviewFinished` what happens around
them. The pass is `PassBegin`, `PassGoal`, `PassTeam` and `PassOffer`: it keeps
what it has read in `pass` and lets other calls in only while it awaits the launch
of a member ("launch"; every other action needs `Free`). `pass.delegs[t].current`
remembers that the team still has the delegation the pass read; the handoff
carries its identity and is refused otherwise. Guards that only refuse a call, and
whose state lives elsewhere, are named in the header of the module and left out.
The delegation states accepted, working and blocked are one.

### Activation

State: what each active path holds (the number of the activation the content is
of, or torn), the journal of each activation (state, number of artifacts
recorded as replaced, the pending one, the copies), the step of the release
manager, the step and the work of the daemon's recovery, and what systemd was last
told of the service (`unit`). `Begin` to `Commit` are `activate` and its readiness
hook, with a separate step for every journal write and every file operation.

A candidate is given up in four ways, which the code treats differently.
`InstallFails`: the service stays stopped. `StartFails`: the start is outside the
inner try of the hook (`release/release-manager.ts:182`), nobody stops the unit, and
its `Restart=on-failure` starts the candidate again. `NotReady`: the wait runs out
and the candidate is stopped. `StopFails`: that stop fails too, and its error is
swallowed. `Rollback`, `RestoreOpens`, `RestoreWrites`, `RestoreChecks` and
`RolledBack` are the catch clause of `activate`: a restore truncates the active
file, fills it and compares it. `StartPrevious` is the catch of `upgrade`; it leaves
a unit that is active as it is, or fails (`RestartFails`).

`Start`, `Visit`, `RecoverOpens`, `RecoverWrites`, `RecoverChecks`, `Recovered` and
`Serve` are the start of a daemon (`recoverIncomplete`, then the server). systemd
starts one whenever the unit is active, so that the recovery of a candidate may
interleave with the rollback of the manager. `UnitStarts` is a boot, a login or a
person: nothing else starts a unit that was stopped. `ReplaceFails`, `RestoreFails`
and `RecoverFails` are operations that throw; `ManagerDies` and `DaemonDies` are
deaths at any step, which may leave a file torn. Three history variables mark what
the code does not cover (section 7): `late`, an operation that failed after its
effect; `overlapped`, an activation begun while an interrupted one was not recovered
yet; `contested`, a daemon that ran while the manager rolled back.

## 3. Runs

| Run | Instance | Shows |
|---|---|---|
| `delivery_retry` | 1 recipient, 2 messages, 2 attempts, lease 2 ticks, 2 run generations, 2 daemons | a promise owns its row unless it was revoked or deleted; `terminal_injected` means Enter in that generation; one paste per counted attempt, over crashes |
| `delivery_ledger` | 1 recipient, 2 messages, retention 1, 3 attempts, a key, 2 daemons, fairness | the queue implements the ledger; keys never name a deleted message; every delivery of a live member is settled |
| `terminal_control` | 3 browsers, 2 streams at a time, 2 automated inputs, 3 leases, fairness | one controller; writes fenced; no typing and no other paste inside a paste; dead streams swept; typing comes back |
| `recovery_tracked` | resume-only, 1 attempt, 2 starts, 1 newer snapshot, 1 crash, no failing command | one active generation; no live agent without its run |
| `recovery_converge` | resume-or-restart, 2 attempts, 1 start, 1 newer snapshot, 1 crash, 1 fault, fairness | a stop is final until the next start, losses are handled, stops end |
| `actions_once` | 1 action, 2 generations, 2 reporters, 2 crashes, fairness | submitted at most once; reported work was submitted; withdrawn actions are not submitted; every action gets an outcome |
| `foreman_inbox` | a message, a result and a review, 2 runs of the Foreman, 1 recovery, 1 crash, 1 edit of the configuration | one input is out at a time; none but a stored result is submitted twice, and that once per run; rows tell what happened |
| `conversations_conclude` | 2 questions, a member with room for one, 2 runs of each side, fairness | asked once and only while open; every question ends with a row in the inbox |
| `conversations_announced` (violated) | 1 question | a reply after an acknowledged ambiguous delivery queues nothing |
| `goals_owned` | 2 goals, 2 teams, 2 checkouts, 1 review turn, 3 revisions, 1 change of limits or checkouts | one owner of a team and a checkout; acceptance waits for all teams; stopped goals hold nothing; one handoff per delegation |
| `activation_recover` | 2 artifacts, 2 activations, 2 deaths, 1 failing operation, fairness | in the cases that are covered, a serving daemon sees one whole set and a rollback is exact; every activation concludes, unless the service stays stopped or a daemon serves on beside a rollback |
| `activation_ready` (violated) | 1 activation, no failure | the candidate daemon rolls back the activation that waits for it |

Why these bounds are enough to be interesting. Two messages to one recipient
share a prompt, a batch and the arbiter's queue; two generations let a paste
outlive its run, two daemons let a lease outlive its owner. A lease of two ticks
is longer than the retry delay of one, and both run out while a paste waits.
Three browsers with two streams make a takeover, a third party and a full house;
three leases let an old controller meet a newer one. Two starts with a budget
give every generation a predecessor and a successor; there is room for one
generation more than the budget allows, so that an overrun would show. One newer
snapshot outdates every run before it, and an update that failed is tried again
within a budget of two, with a crash or a fault at any of its steps. One input
of each kind and two runs let a result be requeued while each other kind is out,
and let a crash fall on either side of a replacement. Two questions compete for
the one place at the member. Two goals and two teams let each pair of
delegations share a team, a checkout or a goal; one change is enough to move a
team to a reserved checkout or to end a goal's time while the pass awaits, and
three revisions, over both goals, let one be stopped or resumed under the pass
while the other one runs and takes its team. Two artifacts are one that is not
the pointer, and the pointer; two deaths interrupt a recovery of an interrupted
activation, a failing operation comes before, between or after them, and the
second activation meets what the first one left. More artifacts and more failures
are what the theorems about `Activation` are for. Deadlock
checking is off in the modules whose bounds on messages, generations or crashes
let the system come to rest, and on in `TerminalControl`.

The two violated runs state a sentence of the documentation:

* `docs/guides/foreman.md:440`, "Each correlated member reply queues a durable
  Foreman result notification": the notification key names the request alone
  (`foreman-conversation-service.ts:274`), so that after an ambiguous delivery
  whose notification was acknowledged a reply queues nothing.
* `docs/concepts/state-and-recovery.md:66`, an upgrade "activates the package
  pointer last, and waits for readiness": every daemon recovers unfinished
  activations before it serves (`server.ts:196`), also the candidate, whose own
  activation is unfinished until it is ready. It puts the old artifacts back,
  serves, and the manager commits.

## 4. Fairness

Safety runs use `Spec` without fairness. Liveness runs use `FairSpec` (in
`ForemanConversations`, `Spec` itself), weak fairness only:

* the steps of a running daemon: a timer fires every second, and a
  promise continues once what it awaits answers. The code gives tmux no timeout,
  so this assumes that tmux answers (`Delivery.Fairness`,
  `RunRecovery.Fairness`, `AgentActions.Fairness`);
* `StartDaemon`/`Boot`/`Start`: the systemd unit has `Restart=on-failure` and
  `RestartSec=2s`, below the default limit of starts per interval (a daemon that
  runs need not be restarted, so that newer snapshots are never forced to come);
* time: leases, cooldowns and deadlines run out; questions become overdue and the
  service's reconciliation, every second, expires them (`ForemanConversations`);
* both processes of an upgrade go on, and the readiness wait is bounded
  (`Activation.FairSpec`: the manager's steps, giving up the wait, the daemon's
  start while its unit is active, and its recovery). An upgrade stops the unit
  first, and `Restart=on-failure` does not start a unit that was stopped: when the
  manager dies or fails before it starts the service again, only a boot, a login or
  a person does. `UnitStarts` has no fairness, and `ActivationsConclude` names this
  case (`Stranded`), and the daemon that serves beside a rollback (`Beside`), which
  recovers what is left at its next start only.

`ForemanInbox` and `ForemanGoals` state no liveness: an input whose fate is
unknown waits for a person, and a goal for its teams. No fairness is assumed of
people, browsers, agents or faults. Faults and crashes are bounded in number, as
convergence requires.

## 5. Proofs

All theorems hold for every value of the constants that meets the named
assumption of the module (`ConstantsAssumption`, `ControlAssumption`,
`RecoveryAssumption`, `ActionsAssumption`, `InboxAssumption`,
`ConversationsAssumption`, `GoalsAssumption`, `ActivationAssumption`: bounds are
naturals, kinds of inputs are disjoint, a run has a mode, placeholders are not
members).

| Theorem | States | Argument |
|---|---|---|
| `Delivery_proofs!TypeCorrect` | `Spec => []TypeOK` | one step per action |
| `Delivery_proofs!InjectedIsEntered` | a delivery marked injected was entered in that generation | the marking step relies on its own earlier Enter, so the invariant `EnteredInv` adds: a pasted promise has its turn, its text is still in the prompt of its pane, and an entered promise is recorded |
| `Delivery_proofs!InFlightOwns`, `PastesCounted` | `InFlightOwnsRow`, `PastesPerAttempt` | `OwnershipInv`, stated for one delivery at a time: a promise in flight has the attempts and the lease of its row unless the row was revoked or deleted, no promise outlives its process, and pastes are fewer than attempts while the attempt in hand has not pasted |
| `Delivery_proofs!ReplaysRetained` | `ReplayNamesRetained` | inductive with `TypeOK`: deleting messages invalidates, in the same step, the keys that name them |
| `Delivery_proofs!QueueImplementsLedger` | `ImplementsLedger`, the refinement of `DeliveryLedger` | step simulation: each action maps to posting, entering or deciding deliveries, or to a stutter. It needs `EnteredInv`, `OwnershipInv`, and that a prompt in a pane or a promise stands for a posted delivery (`PromptsPosted`) |
| `TerminalControl_proofs!LeaseHasOneHolder`, `WritesFenced` | `OneController`, `FencedWrites` | `LeaseInv`: role, lease and controller agree; a stream without a socket has no attachment; the controller holds the latest lease, so that a write never goes back in lease order |
| `TerminalControl_proofs!InputSerialised` | `InputNotSplit`: nothing the arbiter admits is written between a paste and its Enter; an interrupt may be | `TurnInv`: only the head of the queue pastes |
| `RunRecovery_proofs!OneGeneration`, `WithinBudget`, `StopFinal` | `SupersededEnded`, `BudgetKept`, `StoppedStays` | `Inv`: what must hold of the row at each step of an operation (`Stage`), replacements are counted on the row (`Counted`), a wanted row was asked for (`Desired`). A provider update counts like any other replacement; its transitions are typed apart (`UpdateTypes`), since nothing else depends on what they say. None of the three is inductive alone: the budget needs that a replacement inherits the count, and a replacement is only created from a row that was retired |
| `RunRecovery_proofs!AgentsTracked`, `NoAgentLost` | no agent process outlives its run: `Faultless => NoUntrackedAgent`, and `NoUntrackedAgent` where `MaxFaults = 0` | `Tracked`: a live agent belongs to the active run, is bound to it from the end of its launch, and is gone before a replacement is made (a launch cut by a crash is left out, as in the property); `PlainRestart`: mode restart never resumes, so that no replacement follows a resume that was given up. Both hypotheses are real limits of the code (section 7): a failing tmux command and a resume given up for a restart each leave an agent behind |
| `AgentActions_proofs!SubmittedOnce`, `NothingInvented` | `EnteredOnce`, `ReportedWasEntered` | `SubmissionInv`: the state of the attempt, of the action and the count of entered prompts agree, and the action in the hand of the pass has an open attempt that nobody else closes |
| `AgentActions_proofs!TargetsLive` | `LiveTargets` | inductive with `TypeOK` |
| `AgentActions_proofs!OutcomesStand` | `OutcomeFinal`: no step changes an outcome, but `SettleCommit` the one `MarkRefused` has just written | every write of an action is guarded by an unsettled state that was read in the same stretch; the provisional outcome is stalled and the pass has not yielded (`ProvisionalInv`) |
| `AgentActions_proofs!WithdrawalsHold` | `WithdrawnStays` | `HandInv`: the action in the hand of the pass is not withdrawn, because a cancellation refuses an attempt in progress and the pass resolves only what it has not begun |
| `ForemanInbox_proofs!OneAtATime`, `NeverReplayed`, `RowsTellTheFate` | `OneOutstanding`, `EnteredOnce`, `FateRecorded` | `InputInv`: from the moment the pass has found nothing outstanding until it claims, no row goes out; the claimed row keeps the run of the pass, and what is queued was never submitted unless it is a result, and then not to the present run. None of the three is inductive alone: that a submission is the first one follows from the row, and what the row says from the place of the pass |
| `ForemanConversations_proofs!AskedOnce` | `AskedWhileOpen` | what has not been submitted was not asked (`AskedIsSubmitted`); authorities do not run ahead of generations (`AuthorityCounted`) |
| `ForemanGoals_proofs!OwnedOnce`, `ReadyTogether`, `StoppedGoalsRelease`, `HandedOver` | `TeamOwnedOnce`, `AwaitingComplete`, `ReleasedWhenStopped`, `HandedOverOnce` | `Inv` joins the first three with `PassOK`: what the pass has read of a delegation is still so, is over, or is known to be of an older delegation. Every action is shown to change a delegation only in ways that keep its checkout or end it (`Holds`), which carries the ownership over the copies |
| `Activation_proofs!ServesWhole`, `RollbackExact` | `ServesWholeSet`, `RolledBackExactly`: both say `Covered => ...` | `Core`: every journal but the latest has ended; the latest one's state says which artifacts may differ from their copies (`JournalTells`: at most those recorded and the pending one), each step of the manager and of the recovery narrows that (`ManagerTells`, `DaemonTells`). The unit is stopped until the candidate is started, and where no daemon ran beside the rollback one runs only while the manager is idle, waits or is done (`TakeTurns`): this follows from the history variable `contested`, it is not imposed on the steps. That the next artifact to restore is among those left rests on the well-foundedness of the naturals (`Largest`) |
| `ForemanGoals_proofs!TypeCorrect` | `TypeOK` | from `Inv`: the pass writes back rows it has copied, so their types need what `PassOK` says of the copies. The turns of a goal stay within its grant; revisions are naturals, since `MaxRevision` only bounds the model |
| `TypeCorrect` of the others | `Spec => []TypeOK` | one step per action, with what places the manager in its list (`ManagerAt`), counts authorities, or names the run of a row |

So every invariant, every action property and the refinement that a passing run
checks is also proved. Checked by TLC only: the liveness properties
(`EventuallySettled` of `Delivery` and of `AgentActions`, `InteractiveAgain`,
`GhostsSwept`, `LossHandled`, `StopsEnd`, `QuestionsConclude`,
`ActivationsConclude`), because liveness under fairness is beyond the prover; and
the two violated runs. The history variables of `Activation` and the hypotheses
of `AgentsTracked` mark where a theorem stops.

Proved and not a property of a run: `BudgetKept`, `LiveTargets`, `OutcomeFinal`, and
`AgentsTracked`, for any number of failing commands.

## 6. Assumptions and limits

* One daemon at a time (`DaemonInstanceGuard`, not modelled); in `Activation` one
  release manager at a time.
* SQLite transactions are atomic and durable; store calls do not interleave.
* tmux answers every command, with a result or an error.
* `claim` and `begin` of a batch run without yielding where the code has no
  await between them.
* Listeners of the store's events do not throw.
* Journal writes of an activation are atomic and succeed; a rename is atomic, a
  restore is not. The `-wal` and `-shm` files of the database, which are deleted with
  it, and artifacts that did not exist before are not told apart from the others.
* Nobody starts the service by hand while a release manager works.
* `ServesWholeSet` and `RolledBackExactly` say nothing of a behaviour once one of
  `late`, `overlapped` and `contested` is set. The third one needs a candidate that
  is started again before the manager has restored its few files (`RestartSec=2s`,
  so a database large enough to copy for that long), or a stop that failed.
* "Entered" means that the Enter key was sent. What the agent makes of it, or of an
  interrupt that came before it, is not modelled.
* A launch that a crash cut short is left out of `NoUntrackedAgent` (section 7).
* `HandedOverOnce` is checked with three revisions, in which no team is delegated
  anew while the pass awaits; for that case there is the theorem `HandedOver`.
* `ForemanGoals.Delegate` of an approved decision leaves out the wake-up at
  `foreman-goal-service.ts:1402`; `ResolveApproval` leads to the same states.
* A conversation result may be sent again to a later run of the Foreman; this is
  what the code means to do, and `EnteredOnce` allows it.
* Clocks move forward; durations are abstracted to "may have passed".

Not modelled, with the reason, is listed in `PROJECT.json`: chiefly parsing and
validation of configuration, provider packages and launch plans, the HTTP, MCP
and CLI surfaces that call the services, terminal bytes, the portal, and remote
access.

## 7. Known divergences

What the code does that a reader of the documentation or of the properties
would not expect. The two that a run shows are in section 3. A property that
would be violated only by one of the others is stated so that it leaves this
case out, and the place is named here.

Foreman:

* `foreman-goal-service.ts:1884`: a goal that is no longer within its limits is saved
  from the copy the pass read before its awaits, and a goal that was cancelled
  or completed meanwhile is open again. `docs/guides/foreman.md:242` limits the
  active goals, and this can exceed it. No property catches that it is open;
  `ReleasedWhenStopped` says what still holds: such a goal has no team, question or
  proposal.
* The wake-up after an await, or inside a report, blocks a goal whose review
  turns are spent, also one that was cancelled or awaits acceptance.
* A blocking question keeps the goal revision it was asked at: after a block and
  a resume it cannot be resolved. A goal can complete with a question pending.
* A delegation in `offered` whose handoff was refused after a pause and resume is
  not offered again.
* `finishReview` ignores a row in `writing`.
* `foreman-inbox-scheduler.ts:101`: one input whose fate is unknown holds back all
  later ones until a person resolves it. This is intended, and the reason why
  `ForemanInbox` has no liveness property.

Activation:

* `release/activation-service.ts:372`: the rollback in the same process restores
  what was recorded as replaced; an artifact whose rename took effect before the
  operation failed stays new, and the journal says rolled-back (history variable
  `late`).
* An upgrade may begin while an interrupted activation is not recovered; its
  copies are of a mixture (history variable `overlapped`). After a death of the
  manager the unit file keeps naming the candidate.
* `release/release-manager.ts:182`, `:187`: a start that fails does not stop the unit,
  and a stop that fails is swallowed. The unit has `ExecStartPost=... service
  wait-ready` and `Restart=on-failure` (`templates/systemd/nanasa.service:11`), so the
  candidate may come back while the manager restores. `docs/development/release.md:52`
  and `docs/concepts/state-and-recovery.md:67` say that the exact state is restored
  before the previous service starts. A candidate that runs beside the rollback
  (history variable `contested`) may serve a set that is torn or mixed; it may die
  inside its own copy after the manager wrote rolled-back, so that a torn file stays
  behind a journal that says nothing is to be done; or it serves on beside a journal
  that says failed, and its next start rolls the artifacts back, the writes made in
  between included. The start of the previous service does nothing while the
  candidate is up.
* `server.ts:184`: the configuration is loaded before `recoverIncomplete` restores
  the file it came from; the daemon that recovers runs on the candidate's
  configuration until its next start. In the model a daemon reads nothing before it
  has recovered.

Runs and terminals:

* `tmux-runtime.ts:584`: the operator's interrupt sends C-c past the arbiter. In the
  500 ms between a paste and its Enter (`:490` to `:495`) it may clear the pasted
  text; Enter then submits nothing, and the delivery, action or input is recorded
  as injected or submitted.
* `tmux-runtime.ts:876`: a crash between `new-window` and the stored binding leaves an
  agent in a pane that no run row names. `recoverRun` does not look for it
  (`:180` to `:197`), and recovery launches another.
* `actions/agent-action-scheduler.ts:366`: a crash between the two writes after a
  refused commit leaves the action stalled instead of settled-unverified.
* `docs/concepts/state-and-recovery.md:24`, "up to three observers":
  `terminal-control-service.ts:156` checks the limit at connect only; a controller
  that releases becomes a fourth observer.
* `docs/concepts/state-and-recovery.md:32`, a failed inspection is no proof of a
  lost process: `tmux-runtime.ts:526` reports the same for both, and a run missing
  in two passes and in the recheck of the second is replaced.
* `docs/concepts/state-and-recovery.md:47`, success requires a session-ready
  report: after the confirmation timeout of a resume
  (`run-runtime-coordinator.ts:532`) the next pass finds the pane and marks the run
  recovered. A session-ready report that arrives before the pass records the
  phase is overwritten by it.
* `providers/provider-update-reconciler.ts:163`: a transition is concluded by the
  run it recorded as its replacement. One whose replacement is itself replaced or
  stopped before that stays in progress for ever; it is not looked at again.
* `run-runtime-coordinator.ts:709`: a forced fresh restart for which consent is
  required or denied marks the run failed while its pane lives; `recovery_tracked`
  is therefore resume-only.
* `agent-actions.test.ts:269`, the ambiguous crash window is settled
  conservatively: when the queue deadline has passed too, the row says expired
  (`agent-action-scheduler.ts:226`).
* `actions/agent-open-wait-service.ts:156`: an answer that was pasted may be
  reported as failed, and as replaced although the reply succeeded.
* `delivery-dispatcher.ts:94`: one tmux command that never answers holds the whole
  batch. `store.ts:3588`: a retry lets a later message overtake.

Storage and start:

* `store.ts:4657`: an HTTP key whose request died stays in progress for ever.
* `store.ts:6639`: a listener that throws after COMMIT makes a stored change look
  failed.
* `daemon-instance-guard.ts:186`: a lock file whose writer died before writing it
  cannot be taken over; `:207`: two starters may both take over a dead owner's.
* `generated-overlay-transaction.ts:262`: an overlay renamed before its ledger
  blocks its revision.
* `git/worktree-service.ts:217`: a removal of a worktree is decided at start from
  the file system.

## 8. Not modelled, and what would come next

In order of what the system's users depend on most:

1. `OpenWaits`: reply, reset, reporter's answer and revocation; a question is
   answered once, and a reply that succeeded is not reported as failed.
2. `ReporterAuthority`: epochs, sequences, process binding and leases, as the
   source of the readiness that `AgentActions` takes as an input; later the two
   composed.
3. `ForemanPreparation`: branches, worktrees, stops and starts with an intent each;
   cleanup has the same shape.
4. `EventStream`: the cursor of a client over reconnects, retention and slow
   consumers; the abstract specification is a client that sees every event once, in
   order, or a reset. The replay of a session is synchronous with its start, so
   that no event comes in between.
5. `InstanceGuard`: two starters and a takeover.
6. The overlay ledger, which has the shape of `Activation` with hashes instead of
   journal entries.
7. Proofs for these modules; and for `RunRecovery` what remains true of agents
   after a failing command or in mode resume-or-restart: which generation a pane
   left behind can have, and that no later launch binds to it.

The rest of the repository (about nine tenths of its lines) is parsing and
validation of configuration, provider packages and launch plans, the HTTP, MCP
and CLI surfaces that call the services, classification of screens, terminal
bytes, the portal and remote access. `PROJECT.json` gives the reason for each
component.

The instances stay small (one member, one run, two of each thing), and each
module has the one or two runs that its questions need.
