----------------------------- MODULE ForemanGoals -----------------------------
(***************************************************************************)
(* Goals of the Foreman and the delegations of them to teams               *)
(* (foreman-goal-service.ts): proposals, approvals, the handoff to the     *)
(* accountable member, reports and reviews of a candidate, acceptance,     *)
(* pause and cancellation, and the pass that runs every second.            *)
(*                                                                         *)
(* Every call is one transaction and one action.  The pass reads the       *)
(* running goals and the delegations of a goal once, and works on those    *)
(* copies although it awaits the launch of members; other calls come in    *)
(* only there, so every other action needs Free.                           *)
(*                                                                         *)
(* Guards that only refuse a call and whose state is kept elsewhere are    *)
(* left out: membership and run identity of the caller, the operator who   *)
(* holds a terminal, readiness of the members, budgets of check-ins, other *)
(* actions of the team that are unsettled, notices of resolved questions.  The delegation states accepted, *)
(* working and blocked are treated alike by every function and are one     *)
(* state, "working".                                                       *)
(***************************************************************************)
EXTENDS Integers, FiniteSets, FiniteSetsExt

CONSTANTS
  Goals, Teams, Checkouts, None,
  MaxActiveGoals,   \* autonomy.maxActiveGoals
  MaxTeamsPerGoal,  \* grant.maxTeamsPerGoal
  MaxTurns,         \* grant.maxForemanTurns
  MaxRevision,      \* bound: changes of all goals
  MaxChanges        \* bound: changes of limits and of assigned checkouts

ASSUME GoalsAssumption ==
  /\ MaxActiveGoals \in Nat /\ MaxTeamsPerGoal \in Nat /\ MaxTurns \in Nat
  /\ MaxRevision \in Nat /\ MaxChanges \in Nat
  /\ None \notin Goals \cup Teams \cup Checkouts

VARIABLES
  goal,       \* state, revision and review turns used
  allowed,    \* goals within their time limit and the policy
  waiting,    \* goals with an unresolved review in the inbox
  deleg,      \* latest delegation of a goal to a team
  question,   \* open blocking question of a goal: goal revision and delegation
  handoff,    \* delegations whose handoff has no outcome yet
  checkout,   \* effective checkout of every team
  changes,    \* changes of the two so far
  pass        \* the pass in progress and its copies

records == <<goal, waiting, deleg, question, handoff>>
surroundings == <<allowed, checkout, changes>>
vars == <<records, surroundings, pass>>

Inactive == {"none", "completed", "cancelled"}
Finished == {"completed", "cancelled"}
GoalStates == {"none", "proposed", "running", "paused", "blocked", "awaiting"} \cup Finished
DelegationStates == {"proposed", "queued", "offered", "working", "ready"} \cup Inactive
GoalRecord == [state : GoalStates, rev : Nat, turns : 0..MaxTurns]

\* A delegation: its reserved checkout, the goal revision of its proposal, and whether the
\* latest independent review and the latest ready report approve and name the present candidate.
Delegation == [state : DelegationStates, checkout : Checkouts \cup {None}, rev : Nat,
               reviewed : BOOLEAN, evidence : BOOLEAN]

\* What is kept of a delegation that is over.
Closed(state) == [state |-> state, checkout |-> None, rev |-> 0,
                  reviewed |-> FALSE, evidence |-> FALSE]

\* What the pass uses of the delegations it has read, and whether the team still has that one.
Copy == [queued : BOOLEAN, checkout : Checkouts, current : BOOLEAN]

\* The type of every variable.
TypeOK ==
  /\ goal \in [Goals -> GoalRecord]
  /\ allowed \subseteq Goals
  /\ waiting \subseteq Goals
  /\ deleg \in [Goals -> [Teams -> Delegation]]
  /\ question \in [Goals -> [open : BOOLEAN, rev : Nat, team : Teams \cup {None}]]
  /\ handoff \subseteq Goals \X Teams
  /\ checkout \in [Teams -> Checkouts] /\ changes \in 0..MaxChanges
  /\ pass.pc \in {"idle", "goals", "teams", "launch"}
  /\ DOMAIN pass.goals \subseteq Goals /\ DOMAIN pass.delegs \subseteq Teams
  /\ \A g \in DOMAIN pass.goals : pass.goals[g] \in GoalRecord
  /\ \A t \in DOMAIN pass.delegs : pass.delegs[t] \in Copy
  /\ pass.goal \in Goals \cup {None} /\ pass.team \in Teams \cup {None}

NoPass == [pc |-> "idle", goals |-> <<>>, goal |-> None, delegs |-> <<>>, team |-> None]

NoQuestion == [open |-> FALSE, rev |-> 0, team |-> None]

Init ==
  /\ goal = [g \in Goals |-> [state |-> "none", rev |-> 0, turns |-> 0]]
  /\ allowed = Goals /\ changes = 0
  /\ waiting = {} /\ handoff = {}
  /\ checkout \in [Teams -> Checkouts]
  /\ deleg = [g \in Goals |-> [t \in Teams |-> Closed("none")]]
  /\ question = [g \in Goals |-> NoQuestion]
  /\ pass = NoPass

-----------------------------------------------------------------------------
(* Shared checks. *)

\* No handler runs while the pass has the thread.
Free == pass.pc \in {"idle", "launch"}

\* #running.
Running(g) == goal[g].state = "running" /\ g \in allowed

Unfinished(g, t) == deleg[g][t].state \notin Inactive

\* Teams of the goal that are not finished.
Delegates(g) == {t \in Teams : Unfinished(g, t)}

\* Handoffs to the team that have no outcome yet; one of a completed goal does not count.
BlockingActions(t) ==
  {g \in Goals : <<g, t>> \in handoff /\ goal[g].state # "completed"}

\* unsettled: all but the handoff of the delegation itself.
Unsettled(g, t) == BlockingActions(t) \ {g}

\* Mutant: compares the checkout the other team has now with the one asked for.
AvailableNow(t) ==
  /\ \A g \in Goals : ~Unfinished(g, t)
  /\ \A g \in Goals, u \in Teams : Unfinished(g, u) => checkout[u] # checkout[t]
  /\ BlockingActions(t) = {}

\* assessTeam: the team and its checkout are not reserved.
Available(t) ==
  /\ \A g \in Goals : ~Unfinished(g, t)
  /\ \A g \in Goals, u \in Teams : Unfinished(g, u) => deleg[g][u].checkout # checkout[t]
  /\ BlockingActions(t) = {}

\* assertAssignment, of a delegation or of a copy of it.
Assigned(t, delegation) == checkout[t] = delegation.checkout

\* A blocking question about the delegation or about the whole goal is open.
Held(g, t) == question[g].open /\ question[g].team \in {t, None}

Advanced(g, state) == [goal[g] EXCEPT !.state = state, !.rev = @ + 1]

\* Mutant: the budget of turns is not looked at.
WakeUnlimited(g, current) ==
  IF g \in waiting
  THEN goal' = [goal EXCEPT ![g] = current] /\ UNCHANGED waiting
  ELSE /\ goal' = [goal EXCEPT ![g] = [current EXCEPT !.turns = @ + 1]]
       /\ waiting' = waiting \cup {g}

\* #wake: one unresolved review at a time; without turns left the goal is blocked.
Wake(g, current) ==
  IF g \in waiting
  THEN goal' = [goal EXCEPT ![g] = current] /\ UNCHANGED waiting
  ELSE IF current.turns >= MaxTurns
  THEN /\ goal' = [goal EXCEPT ![g] = [current EXCEPT !.state = "blocked", !.rev = @ + 1]]
       /\ UNCHANGED waiting
  ELSE /\ goal' = [goal EXCEPT ![g] = [current EXCEPT !.turns = @ + 1]]
       /\ waiting' = waiting \cup {g}

\* The bound on revisions; a report may raise one twice.
Bounded(n) == MapThenSumSet(LAMBDA g : goal[g].rev, Goals) + n <= MaxRevision

-----------------------------------------------------------------------------
(* Goals. *)

\* propose; an autonomous policy approves in the same transaction.
Propose(g, automatic) ==
  /\ Free /\ goal[g].state = "none" /\ Bounded(1)
  /\ Cardinality({h \in Goals : goal[h].state \notin Inactive}) < MaxActiveGoals
  /\ automatic => g \in allowed
  /\ goal' = [goal EXCEPT ![g] = IF automatic THEN Advanced(g, "running")
                                 ELSE [@ EXCEPT !.state = "proposed"]]
  /\ UNCHANGED <<waiting, deleg, question, handoff, surroundings, pass>>

\* control "approve" and "resume".
Resume(g) ==
  /\ Free /\ goal[g].state \in {"proposed", "paused", "blocked"} /\ Bounded(1)
  /\ g \in allowed
  /\ goal' = [goal EXCEPT ![g] = Advanced(g, "running")]
  /\ UNCHANGED <<waiting, deleg, question, handoff, surroundings, pass>>

\* Mutant: a cancelled goal keeps the delegations that were approved.
WithdrawnProposed(g, action) ==
  [t \in Teams |-> IF deleg[g][t].state = "proposed"
                   THEN Closed("cancelled") ELSE deleg[g][t]]

\* Delegations that are withdrawn when a goal is paused or cancelled.
Withdrawn(g, action) ==
  [t \in Teams |-> IF \/ deleg[g][t].state = "proposed"
                      \/ action = "cancelled" /\ deleg[g][t].state # "none"
                   THEN Closed("cancelled") ELSE deleg[g][t]]

\* control "pause" (also for an operator who takes a terminal) and "cancel".
Stop(g, action) ==
  /\ Free /\ Bounded(1)
  /\ goal[g].state \in {"running", "blocked", "awaiting"}
                         \cup (IF action = "cancelled" THEN {"proposed", "paused"} ELSE {})
  /\ goal' = [goal EXCEPT ![g] = Advanced(g, action)]
  /\ question' = [question EXCEPT ![g] = NoQuestion]
  /\ deleg' = [deleg EXCEPT ![g] = Withdrawn(g, action)]
  /\ UNCHANGED <<waiting, handoff, surroundings, pass>>

\* control "accept", by a Human or under the autonomous policy.
Accept(g) ==
  LET delegates == {t \in Teams : deleg[g][t].state \notin {"none", "cancelled"}}
  IN /\ Free /\ goal[g].state = "awaiting" /\ Bounded(1)
     /\ delegates # {}
     /\ \A t \in delegates :
          /\ deleg[g][t].state = "ready" /\ Assigned(t, deleg[g][t]) /\ Unsettled(g, t) = {}
          /\ deleg[g][t].evidence /\ deleg[g][t].reviewed
     /\ goal' = [goal EXCEPT ![g] = Advanced(g, "completed")]
     /\ deleg' = [deleg EXCEPT ![g] =
                    [t \in Teams |-> IF t \in delegates THEN Closed("completed")
                                     ELSE @[t]]]
     /\ UNCHANGED <<waiting, question, handoff, surroundings, pass>>

-----------------------------------------------------------------------------
(* Delegations and decisions. *)

\* delegatePrepared; an approved preparation or an autonomous policy queues it at once.
Delegate(g, t, approved) ==
  /\ Free /\ Running(g) /\ Available(t)
  /\ Cardinality(Delegates(g)) < MaxTeamsPerGoal
  /\ deleg' = [deleg EXCEPT ![g][t] =
                  [Closed(IF approved THEN "queued" ELSE "proposed") EXCEPT
                     !.checkout = checkout[t], !.rev = IF approved THEN 0 ELSE goal[g].rev]]
  /\ question' = [question EXCEPT ![g] = IF @.team = t THEN NoQuestion ELSE @]
  /\ pass' = IF pass.goal = g /\ t \in DOMAIN pass.delegs
             THEN [pass EXCEPT !.delegs[t].current = FALSE] ELSE pass
  /\ UNCHANGED <<goal, waiting, handoff, surroundings>>

\* resolve.
Resolvable(g, rev) == Running(g) /\ rev = goal[g].rev

ResolveApproval(g, t, answer) ==
  /\ Free /\ Resolvable(g, deleg[g][t].rev) /\ Bounded(1)
  /\ deleg[g][t].state = "proposed"
  /\ answer = "queued" => Assigned(t, deleg[g][t]) /\ BlockingActions(t) = {}
  /\ deleg' = [deleg EXCEPT ![g][t] = IF answer = "cancelled" THEN Closed(answer)
                                      ELSE [@ EXCEPT !.state = answer, !.rev = 0]]
  /\ Wake(g, goal[g])
  /\ UNCHANGED <<question, handoff, surroundings, pass>>

\* question, of the Foreman or of a member, about one delegation or the whole goal.
Ask(g, team) ==
  /\ Free /\ Running(g) /\ ~question[g].open
  /\ team # None => deleg[g][team].state # "none"
  /\ question' = [question EXCEPT ![g] = [open |-> TRUE, rev |-> goal[g].rev, team |-> team]]
  /\ UNCHANGED <<goal, waiting, deleg, handoff, surroundings, pass>>

ResolveQuestion(g) ==
  /\ Free /\ question[g].open /\ Resolvable(g, question[g].rev) /\ Bounded(1)
  /\ question' = [question EXCEPT ![g] = NoQuestion]
  /\ Wake(g, goal[g])
  /\ UNCHANGED <<deleg, handoff, surroundings, pass>>

-----------------------------------------------------------------------------
(* Reports of the team. *)

\* Mutant: one team that is ready is enough.
AnyReady(teams) == \E t \in Teams : teams[t].state = "ready"

\* All teams of the goal that are not finished are ready.
AllReady(teams) == \A t \in Teams : teams[t].state \in Inactive \cup {"ready"}

\* The end of every report: acceptance is due when every team is ready.
Reported(g, teams, wakes) ==
  /\ deleg' = [deleg EXCEPT ![g] = teams]
  /\ IF AllReady(teams) THEN Wake(g, Advanced(g, "awaiting"))
     ELSE IF wakes THEN Wake(g, goal[g])
     ELSE UNCHANGED <<goal, waiting>>

Reporting(g, t) ==
  /\ Free /\ Bounded(2) /\ Assigned(t, deleg[g][t]) /\ Running(g)
  /\ deleg[g][t].state \in {"offered", "working", "ready"}

\* A report that is neither ready nor a review; only a blocker wakes the Foreman.
ReportProgress(g, t, lead, blocker) ==
  /\ Reporting(g, t)
  /\ Reported(g, IF lead THEN [deleg[g] EXCEPT ![t].state = "working"] ELSE deleg[g], blocker)
  /\ UNCHANGED <<question, handoff, surroundings, pass>>

\* A review of the present candidate by a member who is not accountable (#assertApprovedReview).
ReportReview(g, t, approved) ==
  /\ Reporting(g, t)
  /\ Reported(g, [deleg[g] EXCEPT ![t].reviewed = approved], TRUE)
  /\ UNCHANGED <<question, handoff, surroundings, pass>>

ReportReady(g, t) ==
  /\ Reporting(g, t) /\ Unsettled(g, t) = {} /\ ~Held(g, t) /\ deleg[g][t].reviewed
  /\ Reported(g, [deleg[g] EXCEPT ![t].state = "ready", ![t].evidence = TRUE], FALSE)
  /\ UNCHANGED <<question, handoff, surroundings, pass>>

-----------------------------------------------------------------------------
(* The handoff. *)

\* authorizeHandoff; the revision of the goal is the present one.
AuthorizedHandoff(g, t) ==
  Running(g) /\ deleg[g][t].state \in {"queued", "offered", "working"} /\ Assigned(t, deleg[g][t])

\* The action has an outcome (module AgentActions), dispatched or refused.
Settle(g, t) ==
  /\ Free /\ <<g, t>> \in handoff
  /\ handoff' = handoff \ {<<g, t>>}
  /\ UNCHANGED <<goal, waiting, deleg, question, surroundings, pass>>

-----------------------------------------------------------------------------
(* The pass. *)

Without(list, i) == [j \in DOMAIN list \ {i} |-> list[j]]

\* Where the pass stands when its lists are p: back at the goals after the last delegation of
\* one, over after the last goal.
Continued(p) ==
  IF p.pc = "teams" /\ DOMAIN p.delegs # {} THEN p
  ELSE IF DOMAIN p.goals # {} THEN [p EXCEPT !.pc = "goals", !.goal = None]
  ELSE NoPass

\* The list of the running goals.
PassBegin ==
  /\ pass.pc = "idle"
  /\ \E g \in Goals : goal[g].state = "running"
  /\ pass' = [NoPass EXCEPT !.pc = "goals",
                 !.goals = [g \in {h \in Goals : goal[h].state = "running"} |-> goal[g]]]
  /\ UNCHANGED <<records, surroundings>>

\* The delegations of a goal as they are read; proposals are passed over.
Copies(g) ==
  [t \in {u \in Delegates(g) : deleg[g][u].state # "proposed"} |->
     [queued |-> deleg[g][t].state = "queued", checkout |-> deleg[g][t].checkout,
      current |-> TRUE]]

\* The next goal of the list: blocked, from the copy, when it is no longer allowed;
\* otherwise its delegations are read.  A goal without any may wake the Foreman.
PassGoal(g) ==
  /\ pass.pc = "goals" /\ g \in DOMAIN pass.goals
  /\ LET rest == [pass EXCEPT !.goals = Without(@, g)]
     IN IF g \in allowed
        THEN /\ pass' = Continued([rest EXCEPT !.pc = "teams", !.goal = g,
                                               !.delegs = Copies(g)])
             /\ \/ Delegates(g) = {} /\ Bounded(1) /\ Wake(g, goal[g])
                \/ UNCHANGED <<goal, waiting>>
        ELSE /\ Bounded(1)
             /\ pass' = Continued(rest)
             /\ goal' = [goal EXCEPT ![g] =
                           [pass.goals[g] EXCEPT !.state = "blocked", !.rev = @ + 1]]
             /\ UNCHANGED waiting
  /\ UNCHANGED <<deleg, question, handoff, surroundings>>

\* The next delegation, from the copy: one that is due may wake the Foreman, a queued one is
\* handed over after the members that never ran are launched, which may await.
PassTeam(t) ==
  /\ pass.pc = "teams" /\ t \in DOMAIN pass.delegs
  /\ IF pass.delegs[t].queued /\ Assigned(t, pass.delegs[t])
     THEN pass' = [pass EXCEPT !.pc = "launch", !.team = t] /\ UNCHANGED <<goal, waiting>>
     ELSE /\ pass' = Continued([pass EXCEPT !.delegs = Without(@, t)])
          /\ \/ UNCHANGED <<goal, waiting>>
             \/ /\ ~pass.delegs[t].queued /\ Assigned(t, pass.delegs[t]) /\ Bounded(1)
                /\ Wake(pass.goal, goal[pass.goal])
  /\ UNCHANGED <<deleg, question, handoff, surroundings>>

\* The delegation written with the handoff, from the copy.
Offered(copy) == [Closed("offered") EXCEPT !.checkout = copy.checkout]

\* Mutant: the pass relies on the copy it has read.
CreatableStale(g, t) == TRUE

\* actions.create refuses a handoff that is no longer authorized, and one of a delegation that
\* is over although the team has a new one.
Creatable(g, t) == AuthorizedHandoff(g, t) /\ pass.delegs[t].current

\* The members are launched: the handoff is created if the accountable one is ready for it.
PassOffer ==
  LET g == pass.goal
      t == pass.team
  IN /\ pass.pc = "launch"
     /\ pass' = Continued([pass EXCEPT !.pc = "teams", !.team = None,
                                       !.delegs = Without(@, t)])
     /\ \/ UNCHANGED <<deleg, handoff>>
        \/ /\ Creatable(g, t)
           /\ handoff' = handoff \cup {<<g, t>>}
           /\ deleg' = [deleg EXCEPT ![g][t] = Offered(pass.delegs[t])]
     /\ UNCHANGED <<goal, waiting, question, surroundings>>

\* The daemon dies: everything but the pass is durable.
Crash ==
  /\ pass.pc = "launch"
  /\ pass' = NoPass
  /\ UNCHANGED <<records, surroundings>>

-----------------------------------------------------------------------------
(* What happens around the goals. *)

\* The inbox has an answer for the review (module ForemanInbox).
ReviewFinished(g) ==
  /\ Free /\ g \in waiting
  /\ waiting' = waiting \ {g}
  /\ UNCHANGED <<goal, deleg, question, handoff, surroundings, pass>>

\* The policy is edited, Foreman is disabled or the time of the goal is over.
LimitsChange(g) ==
  /\ Free /\ changes < MaxChanges
  /\ allowed' = SymDiff(allowed, {g})
  /\ changes' = changes + 1
  /\ UNCHANGED <<records, checkout, pass>>

\* The team gets another checkout.
AssignCheckout(t, c) ==
  /\ Free /\ changes < MaxChanges /\ checkout[t] # c
  /\ checkout' = [checkout EXCEPT ![t] = c]
  /\ changes' = changes + 1
  /\ UNCHANGED <<records, allowed, pass>>

\* Somebody edits the files: reviews and reports name another candidate than the present one.
Edit(c) ==
  /\ Free
  /\ deleg' = [g \in Goals |-> [t \in Teams |->
                 IF deleg[g][t].checkout = c
                 THEN [deleg[g][t] EXCEPT !.reviewed = FALSE, !.evidence = FALSE]
                 ELSE deleg[g][t]]]
  /\ UNCHANGED <<goal, waiting, question, handoff, surroundings, pass>>

-----------------------------------------------------------------------------
GoalSteps(g) ==
  \/ \E automatic \in BOOLEAN : Propose(g, automatic)
  \/ Resume(g) \/ Stop(g, "paused") \/ Stop(g, "cancelled") \/ Accept(g)
  \/ ReviewFinished(g) \/ LimitsChange(g)
  \/ \E team \in Teams \cup {None} : Ask(g, team)
  \/ ResolveQuestion(g)

DelegationSteps(g, t) ==
  \/ \E approved \in BOOLEAN : Delegate(g, t, approved)
  \/ \E answer \in {"queued", "cancelled"} : ResolveApproval(g, t, answer)
  \/ \E lead, blocker \in BOOLEAN : ReportProgress(g, t, lead, blocker)
  \/ \E approved \in BOOLEAN : ReportReview(g, t, approved)
  \/ ReportReady(g, t) \/ Settle(g, t)

Pass ==
  \/ PassBegin \/ PassOffer \/ Crash
  \/ \E g \in Goals : PassGoal(g)
  \/ \E t \in Teams : PassTeam(t)

Next ==
  \/ \E g \in Goals : GoalSteps(g)
  \/ \E g \in Goals, t \in Teams : DelegationSteps(g, t)
  \/ \E t \in Teams, c \in Checkouts : AssignCheckout(t, c)
  \/ \E c \in Checkouts : Edit(c)
  \/ Pass

Spec == Init /\ [][Next]_vars

-----------------------------------------------------------------------------
(* Properties. *)

\* A team and a checkout belong to at most one unfinished delegation, over goals, moves of
\* checkouts, cancellations and the copies of the pass (assessTeam, delegatePrepared).
TeamOwnedOnce ==
  \A g, h \in Goals : \A t, u \in Teams :
    Unfinished(g, t) /\ Unfinished(h, u) /\ <<g, t>> # <<h, u>>
      => t # u /\ deleg[g][t].checkout # deleg[h][u].checkout

\* A goal awaits acceptance only while at least one team owns a part of it and every team
\* that does is ready, whoever of them reported last (report).
AwaitingComplete ==
  \A g \in Goals : goal[g].state = "awaiting" =>
    /\ Delegates(g) # {}
    /\ \A t \in Delegates(g) : deleg[g][t].state = "ready"

\* A finished goal holds no team, and a goal that a Human paused or cancelled leaves no
\* decision to answer and no proposal, whatever the pass had read before (control).
ReleasedWhenStopped ==
  \A g \in Goals :
    /\ goal[g].state \in Finished => Delegates(g) = {}
    /\ goal[g].state \in {"paused", "cancelled"} =>
         ~question[g].open /\ \A t \in Teams : deleg[g][t].state # "proposed"

\* A delegation is handed over once, while it is queued and its goal runs, although the pass
\* read both before it awaited the launch of the members (#reconcile).
HandedOverOnce ==
  [][\A g \in Goals, t \in Teams :
       <<g, t>> \in handoff' \ handoff =>
         /\ deleg[g][t].state = "queued" /\ deleg'[g][t].state = "offered"
         /\ goal[g].state = "running"]_vars

=============================================================================
