-------------------------- MODULE ForemanGoals_proofs --------------------------
(***************************************************************************)
(* Theorems about goals and delegations, for any number of goals, teams    *)
(* and checkouts and any limits: who owns a team, what a goal that awaits  *)
(* acceptance or was stopped holds, and that a delegation is handed over   *)
(* once.  They are proved from one inductive invariant, which says of the  *)
(* pass that what it has read is still so or is over.  The last section    *)
(* adds the types, which rest on that invariant where the pass writes back *)
(* what it has read.                                                       *)
(***************************************************************************)
EXTENDS ForemanGoals, TLAPS

\* A delegation that is not over has a checkout.
DelegationRow == {d \in Delegation : d.state \in Inactive \/ d.checkout \in Checkouts}

QuestionRow == [open : BOOLEAN, rev : Nat, team : Teams \cup {None}]

\* A delegation d of which the pass holds the copy c is over or still what was read.
Matches(d, c) ==
  c.current => \/ d.state \in Inactive
               \/ /\ d.state # "proposed" /\ d.checkout = c.checkout
                  /\ c.queued => d.state = "queued"

\* The lists of the pass p, and what it relies on when ds are the delegations.
PassOK(p, ds) ==
  /\ p = [pc |-> p.pc, goals |-> p.goals, goal |-> p.goal, delegs |-> p.delegs, team |-> p.team]
  /\ p.pc \in {"idle", "goals", "teams", "launch"}
  /\ p.goal \in Goals \cup {None} /\ p.team \in Teams \cup {None}
  /\ DOMAIN p.goals \subseteq Goals /\ \A g \in DOMAIN p.goals : p.goals[g] \in GoalRecord
  /\ DOMAIN p.delegs \subseteq Teams /\ \A t \in DOMAIN p.delegs : p.delegs[t] \in Copy
  /\ p.pc \in {"teams", "launch"} =>
       p.goal \in Goals /\ \A t \in DOMAIN p.delegs : Matches(ds[p.goal][t], p.delegs[t])
  /\ p.pc = "launch" => p.team \in DOMAIN p.delegs /\ p.delegs[p.team].queued

\* Types of what the properties are about.
Typed ==
  /\ goal \in [Goals -> GoalRecord]
  /\ deleg \in [Goals -> [Teams -> DelegationRow]]
  /\ question \in [Goals -> QuestionRow]
  /\ handoff \subseteq Goals \X Teams
  /\ checkout \in [Teams -> Checkouts]

Inv == Typed /\ TeamOwnedOnce /\ AwaitingComplete /\ ReleasedWhenStopped /\ PassOK(pass, deleg)

\* The parts of AwaitingComplete and ReleasedWhenStopped that concern one goal.
GoalOK(g) ==
  /\ goal[g].state = "awaiting" =>
       /\ Delegates(g) # {}
       /\ \A t \in Delegates(g) : deleg[g][t].state = "ready"
  /\ goal[g].state \in Finished => Delegates(g) = {}
  /\ goal[g].state \in {"paused", "cancelled"} =>
       ~question[g].open /\ \A t \in Teams : deleg[g][t].state # "proposed"

\* The delegation e that follows d in the same row is over or holds what d held.
Holds(d, e) == e.state \in Inactive \/ (d.state \notin Inactive /\ e.checkout = d.checkout)

\* The same, and it neither leaves the queue nor becomes a proposal.
Keeps(d, e) ==
  \/ e.state \in Inactive
  \/ /\ Holds(d, e)
     /\ d.state = "queued" => e.state = "queued"
     /\ e.state = "proposed" => d.state = "proposed"

Shrinks == \A g \in Goals, t \in Teams : Keeps(deleg[g][t], deleg'[g][t])

\* A step leaves every goal but g as it is.
Spares(g) ==
  \A h \in Goals \ {g} :
    /\ goal'[h].state = goal[h].state /\ question'[h] = question[h]
    /\ \A t \in Teams : deleg'[h][t].state = deleg[h][t].state

-----------------------------------------------------------------------------
(* What the operators of the module do. *)

LEMMA InitInv == Init => Inv
<1> SUFFICES ASSUME Init PROVE Inv
  OBVIOUS
<1>1. Closed("none") \in DelegationRow
  BY DEF Closed, DelegationRow, Delegation, DelegationStates, Inactive
<1>2. Typed
  BY <1>1, GoalsAssumption
     DEF Init, Typed, GoalRecord, GoalStates, QuestionRow, NoQuestion, GoalsAssumption
<1>3. PassOK(pass, deleg)
  BY DEF Init, NoPass, PassOK
<1>4. \A g \in Goals, t \in Teams : ~Unfinished(g, t)
  BY DEF Init, Closed, Unfinished, Inactive
<1> QED BY <1>2, <1>3, <1>4
        DEF Inv, Init, TeamOwnedOnce, AwaitingComplete, ReleasedWhenStopped, Finished

LEMMA GoalsOK == AwaitingComplete /\ ReleasedWhenStopped <=> \A g \in Goals : GoalOK(g)
BY DEF AwaitingComplete, ReleasedWhenStopped, GoalOK

\* The two ways the code changes the row of a goal.
LEMMA RowUpdates ==
  ASSUME NEW r \in GoalRecord, NEW state \in GoalStates
  PROVE  /\ ~(r.turns >= MaxTurns) => [r EXCEPT !.turns = @ + 1] \in GoalRecord
         /\ [r EXCEPT !.turns = @ + 1].state = r.state
         /\ [r EXCEPT !.state = state, !.rev = @ + 1] \in GoalRecord
         /\ [r EXCEPT !.state = state, !.rev = @ + 1].state = state
<1>1. r.state \in GoalStates /\ r.rev + 1 \in Nat /\ r.turns \in 0..MaxTurns
  BY DEF GoalRecord
<1>2. ASSUME ~(r.turns >= MaxTurns) PROVE [r EXCEPT !.turns = @ + 1] \in GoalRecord
  <2>1. r.turns + 1 \in 0..MaxTurns
    BY <1>1, <1>2, GoalsAssumption DEF GoalsAssumption
  <2> QED BY <2>1 DEF GoalRecord
<1>3. [r EXCEPT !.turns = @ + 1].state = r.state
  BY DEF GoalRecord
<1>4. [r EXCEPT !.state = state, !.rev = @ + 1] \in GoalRecord
  BY <1>1 DEF GoalRecord
<1>5. [r EXCEPT !.state = state, !.rev = @ + 1].state = state
  BY DEF GoalRecord
<1> QED BY <1>2, <1>3, <1>4, <1>5

\* Wake keeps the state it is given or blocks the goal.
LEMMA WakeEffect ==
  ASSUME Typed, NEW g \in Goals, NEW current \in GoalRecord, Wake(g, current)
  PROVE  /\ goal' \in [Goals -> GoalRecord]
         /\ \A h \in Goals \ {g} : goal'[h] = goal[h]
         /\ goal'[g].state \in {current.state, "blocked"}
<1>1. /\ ~(current.turns >= MaxTurns) => [current EXCEPT !.turns = @ + 1] \in GoalRecord
      /\ [current EXCEPT !.turns = @ + 1].state = current.state
      /\ [current EXCEPT !.state = "blocked", !.rev = @ + 1] \in GoalRecord
      /\ [current EXCEPT !.state = "blocked", !.rev = @ + 1].state = "blocked"
  BY RowUpdates DEF GoalStates
<1>2. PICK next \in GoalRecord :
        next.state \in {current.state, "blocked"} /\ goal' = [goal EXCEPT ![g] = next]
  BY <1>1 DEF Wake
<1> QED BY <1>2 DEF Typed

LEMMA AdvancedType ==
  ASSUME Typed, NEW g \in Goals, NEW state \in GoalStates
  PROVE  Advanced(g, state) \in GoalRecord /\ Advanced(g, state).state = state
<1>1. goal[g] \in GoalRecord
  BY DEF Typed
<1> QED BY <1>1, RowUpdates DEF Advanced

LEMMA ClosedType ==
  ASSUME NEW state \in Inactive
  PROVE  /\ Closed(state) \in DelegationRow /\ Closed(state).state = state
         /\ Closed(state).checkout = None
BY DEF Closed, DelegationRow, Delegation, DelegationStates

\* Delegations that hold no more than before collide no more than before.
LEMMA OwnedKept ==
  ASSUME TeamOwnedOnce, \A g \in Goals, t \in Teams : Holds(deleg[g][t], deleg'[g][t])
  PROVE  TeamOwnedOnce'
<1> SUFFICES ASSUME NEW g \in Goals, NEW h \in Goals, NEW t \in Teams, NEW u \in Teams,
                    Unfinished(g, t)', Unfinished(h, u)', <<g, t>> # <<h, u>>
             PROVE  t # u /\ deleg'[g][t].checkout # deleg'[h][u].checkout
  BY DEF TeamOwnedOnce
<1>1. /\ Unfinished(g, t) /\ deleg'[g][t].checkout = deleg[g][t].checkout
      /\ Unfinished(h, u) /\ deleg'[h][u].checkout = deleg[h][u].checkout
  BY DEF Holds, Unfinished
<1> QED BY <1>1 DEF TeamOwnedOnce

\* A copy that matches a delegation matches what follows it.
LEMMA MatchKept ==
  ASSUME Shrinks, NEW g \in Goals, NEW t \in Teams, NEW c, Matches(deleg[g][t], c)
  PROVE  Matches(deleg'[g][t], c)
BY DEF Shrinks, Keeps, Holds, Matches

LEMMA PassKept ==
  ASSUME PassOK(pass, deleg), pass' = pass, Shrinks
  PROVE  PassOK(pass', deleg')
<1>1. pass.pc \in {"teams", "launch"} =>
        \A t \in DOMAIN pass.delegs : Matches(deleg'[pass.goal][t], pass.delegs[t])
  <2> SUFFICES ASSUME pass.pc \in {"teams", "launch"}, NEW t \in DOMAIN pass.delegs
               PROVE  Matches(deleg'[pass.goal][t], pass.delegs[t])
    OBVIOUS
  <2>1. pass.goal \in Goals /\ t \in Teams /\ Matches(deleg[pass.goal][t], pass.delegs[t])
    BY DEF PassOK
  <2> QED BY <2>1, MatchKept
<1> QED BY <1>1 DEF PassOK

LEMMA Same == ASSUME deleg' = deleg PROVE Shrinks
BY DEF Shrinks, Keeps, Holds

\* A goal whose delegations and question are left alone and that is not newly awaiting,
\* stopped or finished.
LEMMA CalmGoal ==
  ASSUME NEW g \in Goals, GoalOK(g),
         goal'[g].state \in {goal[g].state, "running", "proposed", "blocked"},
         question'[g] = question[g],
         \A t \in Teams : deleg'[g][t].state = deleg[g][t].state
  PROVE  GoalOK(g)'
<1>1. Delegates(g)' = Delegates(g)
  BY DEF Delegates, Unfinished
<1> QED BY <1>1 DEF GoalOK, Finished, Delegates

\* A goal that runs or is blocked may hold anything.
LEMMA BusyGoal ==
  ASSUME NEW g \in Goals, goal'[g].state \in {"running", "proposed", "blocked"}
  PROVE  GoalOK(g)'
BY DEF GoalOK, Finished

\* A step that concerns one goal.
LEMMA LocalStep ==
  ASSUME Inv, Typed', NEW g \in Goals, Spares(g), GoalOK(g)', TeamOwnedOnce', PassOK(pass', deleg')
  PROVE  Inv'
<1>1. \A h \in Goals : GoalOK(h)
  BY GoalsOK DEF Inv
<1>2. \A h \in Goals \ {g} : GoalOK(h)'
  BY <1>1, CalmGoal DEF Spares
<1>3. (AwaitingComplete /\ ReleasedWhenStopped)'
  BY <1>2 DEF AwaitingComplete, ReleasedWhenStopped, GoalOK
<1> QED BY <1>3 DEF Inv

\* The same, when the pass stays where it is.
LEMMA GoalStep ==
  ASSUME Inv, Typed', NEW g \in Goals, Spares(g), GoalOK(g)', Shrinks, pass' = pass
  PROVE  Inv'
<1>1. \A h \in Goals, t \in Teams : Holds(deleg[h][t], deleg'[h][t])
  BY DEF Shrinks, Keeps, Holds
<1> QED BY <1>1, LocalStep, OwnedKept, PassKept DEF Inv
-----------------------------------------------------------------------------
(* The calls about a goal. *)

\* Only the row of the goal changes, and not to a state that promises something.
LEMMA RowStep ==
  ASSUME Inv, NEW g \in Goals, goal' \in [Goals -> GoalRecord],
         \A h \in Goals \ {g} : goal'[h] = goal[h],
         goal'[g].state \in {goal[g].state, "running", "proposed", "blocked"},
         UNCHANGED <<deleg, question, handoff, checkout, pass>>
  PROVE  Inv'
<1>1. Typed' /\ Spares(g)
  BY DEF Inv, Typed, Spares
<1>2. GoalOK(g)
  BY GoalsOK DEF Inv
<1>3. GoalOK(g)'
  BY <1>2, CalmGoal
<1> QED BY <1>1, <1>3, Same, GoalStep

LEMMA ProposeStep ==
  ASSUME Inv, NEW g \in Goals, NEW automatic \in BOOLEAN, Propose(g, automatic)
  PROVE  Inv'
<1>1. Typed /\ goal[g] \in GoalRecord
  BY DEF Inv, Typed
<1>2. /\ [goal[g] EXCEPT !.state = "proposed"] \in GoalRecord
      /\ [goal[g] EXCEPT !.state = "proposed"].state = "proposed"
  BY <1>1 DEF GoalRecord, GoalStates
<1>3. Advanced(g, "running") \in GoalRecord /\ Advanced(g, "running").state = "running"
  BY <1>1, AdvancedType DEF GoalStates
<1>4. PICK next \in GoalRecord :
        next.state \in {"running", "proposed"} /\ goal' = [goal EXCEPT ![g] = next]
  BY <1>2, <1>3 DEF Propose
<1>5. /\ goal' \in [Goals -> GoalRecord] /\ \A h \in Goals \ {g} : goal'[h] = goal[h]
      /\ goal'[g].state \in {"running", "proposed"}
  BY <1>1, <1>4 DEF Typed
<1> QED BY <1>5, RowStep DEF Propose, surroundings

LEMMA ResumeStep ==
  ASSUME Inv, NEW g \in Goals, Resume(g)
  PROVE  Inv'
<1>1. Typed /\ Advanced(g, "running") \in GoalRecord /\ Advanced(g, "running").state = "running"
  BY AdvancedType DEF GoalStates, Inv
<1>2. goal' = [goal EXCEPT ![g] = Advanced(g, "running")]
  BY DEF Resume
<1>3. /\ goal' \in [Goals -> GoalRecord] /\ \A h \in Goals \ {g} : goal'[h] = goal[h]
      /\ goal'[g].state = "running"
  BY <1>1, <1>2 DEF Typed
<1> QED BY <1>3, RowStep DEF Resume, surroundings

\* The delegations of one goal are replaced.
LEMMA Rewritten ==
  ASSUME Typed, NEW g \in Goals, NEW teams \in [Teams -> DelegationRow],
         deleg' = [deleg EXCEPT ![g] = teams],
         \A t \in Teams : Keeps(deleg[g][t], teams[t])
  PROVE  /\ deleg' \in [Goals -> [Teams -> DelegationRow]]
         /\ deleg'[g] = teams /\ \A h \in Goals \ {g} : deleg'[h] = deleg[h]
         /\ Shrinks
<1>1. /\ deleg' \in [Goals -> [Teams -> DelegationRow]]
      /\ deleg'[g] = teams /\ \A h \in Goals \ {g} : deleg'[h] = deleg[h]
  BY DEF Typed
<1>2. \A h \in Goals \ {g}, t \in Teams : Keeps(deleg[h][t], deleg'[h][t])
  BY <1>1 DEF Keeps, Holds
<1> QED BY <1>1, <1>2 DEF Shrinks

LEMMA StopStep ==
  ASSUME Inv, NEW g \in Goals, NEW action \in {"paused", "cancelled"}, Stop(g, action)
  PROVE  Inv'
<1>0. Typed /\ goal \in [Goals -> GoalRecord] /\ deleg[g] \in [Teams -> DelegationRow]
  BY DEF Inv, Typed
<1>1. /\ goal' = [goal EXCEPT ![g] = Advanced(g, action)]
      /\ question' = [question EXCEPT ![g] = NoQuestion]
      /\ deleg' = [deleg EXCEPT ![g] = Withdrawn(g, action)]
      /\ UNCHANGED <<handoff, checkout, pass>>
  BY DEF Stop, surroundings
<1>2. Advanced(g, action) \in GoalRecord /\ Advanced(g, action).state = action
  BY <1>0, AdvancedType DEF GoalStates, Finished
<1>3. /\ goal' \in [Goals -> GoalRecord] /\ goal'[g].state = action
      /\ \A h \in Goals \ {g} : goal'[h] = goal[h]
  BY <1>0, <1>1, <1>2
<1>4. /\ question' \in [Goals -> QuestionRow] /\ ~question'[g].open
      /\ \A h \in Goals \ {g} : question'[h] = question[h]
  BY <1>0, <1>1 DEF Typed, QuestionRow, NoQuestion
<1>5. Closed("cancelled") \in DelegationRow /\ Closed("cancelled").state = "cancelled"
  BY ClosedType DEF DelegationStates, Inactive
<1>6. /\ Withdrawn(g, action) \in [Teams -> DelegationRow]
      /\ \A t \in Teams : /\ Keeps(deleg[g][t], Withdrawn(g, action)[t])
                          /\ Withdrawn(g, action)[t].state # "proposed"
                          /\ action = "cancelled" => Withdrawn(g, action)[t].state \in Inactive
  BY <1>0, <1>5 DEF Withdrawn, Keeps, Holds, Inactive
<1>7. /\ deleg' \in [Goals -> [Teams -> DelegationRow]] /\ Shrinks
      /\ deleg'[g] = Withdrawn(g, action) /\ \A h \in Goals \ {g} : deleg'[h] = deleg[h]
  BY <1>0, <1>1, <1>6, Rewritten
<1>8. GoalOK(g)'
  BY <1>3, <1>4, <1>6, <1>7 DEF GoalOK, Finished, Delegates, Unfinished
<1> QED BY <1>0, <1>1, <1>3, <1>4, <1>7, <1>8, GoalStep DEF Typed, Spares

LEMMA AcceptStep ==
  ASSUME Inv, NEW g \in Goals, Accept(g)
  PROVE  Inv'
<1> DEFINE delegates == {t \in Teams : deleg[g][t].state \notin {"none", "cancelled"}}
           teams == [t \in Teams |-> IF t \in delegates THEN Closed("completed") ELSE deleg[g][t]]
<1>0. Typed /\ goal \in [Goals -> GoalRecord] /\ deleg[g] \in [Teams -> DelegationRow]
  BY DEF Inv, Typed
<1>1. /\ goal' = [goal EXCEPT ![g] = Advanced(g, "completed")]
      /\ deleg' = [deleg EXCEPT ![g] = teams]
      /\ UNCHANGED <<question, handoff, checkout, pass>>
  BY DEF Accept, surroundings
<1>2. Advanced(g, "completed") \in GoalRecord /\ Advanced(g, "completed").state = "completed"
  BY <1>0, AdvancedType DEF GoalStates, Finished
<1>3. /\ goal' \in [Goals -> GoalRecord] /\ goal'[g].state = "completed"
      /\ \A h \in Goals \ {g} : goal'[h] = goal[h]
  BY <1>0, <1>1, <1>2
<1>4. Closed("completed") \in DelegationRow /\ Closed("completed").state = "completed"
  BY ClosedType DEF DelegationStates, Inactive
<1>5. /\ teams \in [Teams -> DelegationRow]
      /\ \A t \in Teams : Keeps(deleg[g][t], teams[t]) /\ teams[t].state \in Inactive
  BY <1>0, <1>4 DEF Keeps, Holds, Inactive
<1> HIDE DEF teams
<1>6. /\ deleg' \in [Goals -> [Teams -> DelegationRow]] /\ Shrinks
      /\ deleg'[g] = teams /\ \A h \in Goals \ {g} : deleg'[h] = deleg[h]
  BY <1>0, <1>1, <1>5, Rewritten
<1>7. GoalOK(g)'
  BY <1>3, <1>5, <1>6 DEF GoalOK, Finished, Delegates, Unfinished
<1> QED BY <1>0, <1>1, <1>3, <1>6, <1>7, GoalStep DEF Typed, Spares

-----------------------------------------------------------------------------
(* Delegations, decisions and reports: calls that need a running goal. *)

\* The goal stays running, waits for acceptance of what its teams have, or is blocked; its
\* delegations are replaced.
LEMMA TeamsStep ==
  ASSUME Inv, NEW g \in Goals, NEW teams \in [Teams -> DelegationRow],
         goal' \in [Goals -> GoalRecord], \A h \in Goals \ {g} : goal'[h] = goal[h],
         \/ goal'[g].state \in {"running", "blocked"}
         \/ /\ goal'[g].state = "awaiting"
            /\ \E t \in Teams : teams[t].state \notin Inactive
            /\ AllReady(teams),
         deleg' = [deleg EXCEPT ![g] = teams],
         \A t \in Teams : Keeps(deleg[g][t], teams[t]),
         question' \in [Goals -> QuestionRow],
         \A h \in Goals \ {g} : question'[h] = question[h],
         UNCHANGED <<handoff, checkout, pass>>
  PROVE  Inv'
<1>0. Typed
  BY DEF Inv
<1>1. /\ deleg' \in [Goals -> [Teams -> DelegationRow]] /\ Shrinks
      /\ deleg'[g] = teams /\ \A h \in Goals \ {g} : deleg'[h] = deleg[h]
  BY <1>0, Rewritten
<1>2. CASE goal'[g].state \in {"running", "blocked"}
  <2>1. GoalOK(g)'
    BY <1>2, BusyGoal
  <2> QED BY <1>0, <1>1, <2>1, GoalStep DEF Typed, Spares
<1>3. CASE /\ goal'[g].state = "awaiting"
           /\ \E t \in Teams : teams[t].state \notin Inactive
           /\ AllReady(teams)
  <2>1. GoalOK(g)'
    BY <1>1, <1>3 DEF GoalOK, AllReady, Delegates, Unfinished, Finished, Inactive
  <2> QED BY <1>0, <1>1, <2>1, GoalStep DEF Typed, Spares
<1> QED BY <1>2, <1>3

\* One delegation of the goal is replaced by the row d.
LEMMA OneReplaced ==
  ASSUME Typed, NEW g \in Goals, NEW t \in Teams, NEW d \in DelegationRow, Keeps(deleg[g][t], d)
  PROVE  /\ [deleg[g] EXCEPT ![t] = d] \in [Teams -> DelegationRow]
         /\ [deleg[g] EXCEPT ![t] = d][t] = d
         /\ \A u \in Teams : Keeps(deleg[g][u], [deleg[g] EXCEPT ![t] = d][u])
<1>1. deleg[g] \in [Teams -> DelegationRow]
  BY DEF Typed
<1> QED BY <1>1 DEF Keeps, Holds

LEMMA ResolveApprovalStep ==
  ASSUME Inv, NEW g \in Goals, NEW t \in Teams, NEW answer \in {"queued", "cancelled"},
         ResolveApproval(g, t, answer)
  PROVE  Inv'
<1> DEFINE d == IF answer = "cancelled" THEN Closed(answer)
                ELSE [deleg[g][t] EXCEPT !.state = answer, !.rev = 0]
<1>0. Typed /\ goal[g] \in GoalRecord /\ deleg[g][t] \in DelegationRow
  BY DEF Inv, Typed
<1>1. /\ deleg' = [deleg EXCEPT ![g][t] = d] /\ deleg[g][t].state = "proposed"
      /\ goal[g].state = "running" /\ Wake(g, goal[g])
      /\ UNCHANGED <<question, handoff, checkout, pass>>
  BY DEF ResolveApproval, Resolvable, Running, surroundings
<1>2. d \in DelegationRow /\ Keeps(deleg[g][t], d)
  <2>1. CASE answer = "cancelled"
    BY <2>1, ClosedType DEF DelegationStates, Inactive, Keeps, Holds
  <2>2. CASE answer = "queued"
    BY <1>0, <1>1, <2>2 DEF DelegationRow, Delegation, DelegationStates, Inactive, Keeps, Holds
  <2> QED BY <2>1, <2>2
<1> HIDE DEF d
<1>3. deleg' = [deleg EXCEPT ![g] = [deleg[g] EXCEPT ![t] = d]]
  BY <1>1
<1>4. /\ [deleg[g] EXCEPT ![t] = d] \in [Teams -> DelegationRow]
      /\ \A u \in Teams : Keeps(deleg[g][u], [deleg[g] EXCEPT ![t] = d][u])
  BY <1>0, <1>2, OneReplaced
<1>5. /\ goal' \in [Goals -> GoalRecord] /\ \A h \in Goals \ {g} : goal'[h] = goal[h]
      /\ goal'[g].state \in {"running", "blocked"}
  BY <1>0, <1>1, WakeEffect
<1> QED BY <1>0, <1>1, <1>3, <1>4, <1>5, TeamsStep DEF Typed

LEMMA QuestionStep ==
  ASSUME Inv, NEW g \in Goals,
         ResolveQuestion(g) \/ \E team \in Teams \cup {None} : Ask(g, team)
  PROVE  Inv'
<1>0. Typed /\ goal \in [Goals -> GoalRecord] /\ goal[g] \in GoalRecord
  BY DEF Inv, Typed
<1>1. /\ goal' \in [Goals -> GoalRecord] /\ \A h \in Goals \ {g} : goal'[h] = goal[h]
      /\ goal'[g].state \in {"running", "blocked"}
  <2>1. goal[g].state = "running" /\ (Wake(g, goal[g]) \/ goal' = goal)
    BY DEF ResolveQuestion, Ask, Resolvable, Running
  <2> QED BY <1>0, <2>1, WakeEffect
<1>2. PICK q \in QuestionRow : question' = [question EXCEPT ![g] = q]
  <2>1. CASE ResolveQuestion(g)
    <3>1. NoQuestion \in QuestionRow
      BY DEF NoQuestion, QuestionRow
    <3> QED BY <2>1, <3>1 DEF ResolveQuestion
  <2>2. ASSUME NEW team \in Teams \cup {None}, Ask(g, team)
        PROVE  \E q \in QuestionRow : question' = [question EXCEPT ![g] = q]
    <3>1. [open |-> TRUE, rev |-> goal[g].rev, team |-> team] \in QuestionRow
      BY <1>0 DEF QuestionRow, GoalRecord
    <3> QED BY <2>2, <3>1 DEF Ask
  <2> QED BY <2>1, <2>2
<1>3. /\ question' \in [Goals -> QuestionRow]
      /\ \A h \in Goals \ {g} : question'[h] = question[h]
  BY <1>0, <1>2 DEF Typed
<1>4. UNCHANGED <<deleg, handoff, checkout, pass>>
  BY DEF ResolveQuestion, Ask, surroundings
<1>5. GoalOK(g)'
  BY <1>1, BusyGoal
<1> QED BY <1>0, <1>1, <1>3, <1>4, <1>5, Same, GoalStep DEF Typed, Spares

\* A report leaves the delegation of its team unfinished.
LEMMA ReportedStep ==
  ASSUME Inv, NEW g \in Goals, NEW t \in Teams, NEW d \in DelegationRow, NEW wakes \in BOOLEAN,
         Running(g), Keeps(deleg[g][t], d), d.state \notin Inactive,
         Reported(g, [deleg[g] EXCEPT ![t] = d], wakes),
         UNCHANGED <<question, handoff, surroundings, pass>>
  PROVE  Inv'
<1> DEFINE teams == [deleg[g] EXCEPT ![t] = d]
<1>0. Typed /\ goal \in [Goals -> GoalRecord] /\ goal[g] \in GoalRecord /\ goal[g].state = "running"
  BY DEF Inv, Typed, Running
<1>1. /\ teams \in [Teams -> DelegationRow] /\ teams[t] = d
      /\ \A u \in Teams : Keeps(deleg[g][u], teams[u])
  BY <1>0, OneReplaced
<1> HIDE DEF teams
<1>2. /\ deleg' = [deleg EXCEPT ![g] = teams]
      /\ \/ AllReady(teams) /\ Wake(g, Advanced(g, "awaiting"))
         \/ Wake(g, goal[g])
         \/ goal' = goal
  BY DEF Reported, teams
<1>3. Advanced(g, "awaiting") \in GoalRecord /\ Advanced(g, "awaiting").state = "awaiting"
  BY <1>0, AdvancedType DEF GoalStates
<1>4. /\ goal' \in [Goals -> GoalRecord] /\ \A h \in Goals \ {g} : goal'[h] = goal[h]
      /\ \/ goal'[g].state \in {"running", "blocked"}
         \/ goal'[g].state = "awaiting" /\ AllReady(teams)
  <2>1. CASE AllReady(teams) /\ Wake(g, Advanced(g, "awaiting"))
    BY <1>0, <1>3, <2>1, WakeEffect
  <2>2. CASE Wake(g, goal[g])
    BY <1>0, <2>2, WakeEffect
  <2>3. CASE goal' = goal
    BY <1>0, <2>3
  <2> QED BY <1>2, <2>1, <2>2, <2>3
<1> QED BY <1>0, <1>1, <1>2, <1>4, TeamsStep DEF Typed, surroundings

LEMMA ReportStep ==
  ASSUME Inv, NEW g \in Goals, NEW t \in Teams,
         \/ \E lead, blocker \in BOOLEAN : ReportProgress(g, t, lead, blocker)
         \/ \E approved \in BOOLEAN : ReportReview(g, t, approved)
         \/ ReportReady(g, t)
  PROVE  Inv'
<1> DEFINE d == deleg[g][t]
<1>0. /\ d \in DelegationRow /\ deleg[g] \in [Teams -> DelegationRow]
      /\ Running(g) /\ d.state \in {"offered", "working", "ready"}
      /\ UNCHANGED <<question, handoff, surroundings, pass>>
  BY DEF ReportProgress, ReportReview, ReportReady, Reporting, Inv, Typed
<1>1. ASSUME NEW e \in DelegationRow, NEW wakes \in BOOLEAN, e.checkout = d.checkout,
             e.state \in {"offered", "working", "ready"},
             Reported(g, [deleg[g] EXCEPT ![t] = e], wakes)
      PROVE  Inv'
  <2>1. Keeps(d, e) /\ e.state \notin Inactive
    BY <1>0, <1>1 DEF Keeps, Holds, Inactive
  <2> QED BY <1>0, <1>1, <2>1, ReportedStep
<1>2. ASSUME NEW lead \in BOOLEAN, NEW blocker \in BOOLEAN, ReportProgress(g, t, lead, blocker)
      PROVE  Inv'
  <2>1. CASE lead
    <3> DEFINE e == [d EXCEPT !.state = "working"]
    <3>1. e \in DelegationRow /\ e.checkout = d.checkout /\ e.state = "working"
      BY <1>0 DEF DelegationRow, Delegation, DelegationStates, Inactive
    <3>2. [deleg[g] EXCEPT ![t].state = "working"] = [deleg[g] EXCEPT ![t] = e]
      BY <1>0
    <3> QED BY <1>1, <1>2, <2>1, <3>1, <3>2 DEF ReportProgress
  <2>2. CASE ~lead
    <3>1. deleg[g] = [deleg[g] EXCEPT ![t] = d]
      BY <1>0
    <3> QED BY <1>0, <1>1, <1>2, <2>2, <3>1 DEF ReportProgress
  <2> QED BY <2>1, <2>2
<1>3. ASSUME NEW approved \in BOOLEAN, ReportReview(g, t, approved) PROVE Inv'
  <2> DEFINE e == [d EXCEPT !.reviewed = approved]
  <2>1. e \in DelegationRow /\ e.checkout = d.checkout /\ e.state = d.state
    BY <1>0 DEF DelegationRow, Delegation
  <2>2. [deleg[g] EXCEPT ![t].reviewed = approved] = [deleg[g] EXCEPT ![t] = e]
    BY <1>0
  <2> QED BY <1>0, <1>1, <1>3, <2>1, <2>2 DEF ReportReview
<1>4. CASE ReportReady(g, t)
  <2> DEFINE e == [d EXCEPT !.state = "ready", !.evidence = TRUE]
  <2>1. e \in DelegationRow /\ e.checkout = d.checkout /\ e.state = "ready"
    BY <1>0 DEF DelegationRow, Delegation, DelegationStates, Inactive
  <2>2. [deleg[g] EXCEPT ![t].state = "ready", ![t].evidence = TRUE] = [deleg[g] EXCEPT ![t] = e]
    BY <1>0
  <2> QED BY <1>1, <1>4, <2>1, <2>2 DEF ReportReady
<1> QED BY <1>2, <1>3, <1>4

\* A new delegation takes a team and a checkout that nobody holds; a copy the pass has of an
\* older one is marked.
LEMMA DelegateStep ==
  ASSUME Inv, NEW g \in Goals, NEW t \in Teams, NEW approved \in BOOLEAN,
         Delegate(g, t, approved)
  PROVE  Inv'
<1> DEFINE d == [Closed(IF approved THEN "queued" ELSE "proposed") EXCEPT
                   !.checkout = checkout[t], !.rev = IF approved THEN 0 ELSE goal[g].rev]
<1>0. /\ Typed /\ goal \in [Goals -> GoalRecord] /\ goal[g].state = "running" /\ Available(t)
      /\ checkout[t] \in Checkouts /\ goal[g].rev \in Nat
  BY DEF Inv, Typed, Delegate, Running, GoalRecord
<1>1. d \in DelegationRow /\ d.checkout = checkout[t]
  BY <1>0 DEF Closed, DelegationRow, Delegation, DelegationStates
<1>2. deleg' = [deleg EXCEPT ![g][t] = d] /\ UNCHANGED <<goal, handoff, checkout>>
  BY DEF Delegate, surroundings
<1> HIDE DEF d
<1>3. /\ deleg' \in [Goals -> [Teams -> DelegationRow]] /\ deleg'[g][t] = d
      /\ \A h \in Goals, u \in Teams : <<h, u>> # <<g, t>> => deleg'[h][u] = deleg[h][u]
  BY <1>0, <1>1, <1>2 DEF Typed
<1>4. /\ question' \in [Goals -> QuestionRow]
      /\ \A h \in Goals \ {g} : question'[h] = question[h]
  <2>1. NoQuestion \in QuestionRow
    BY DEF NoQuestion, QuestionRow
  <2> QED BY <1>0, <2>1 DEF Delegate, Typed
<1>5. TeamOwnedOnce'
  <2> SUFFICES ASSUME NEW h \in Goals, NEW k \in Goals, NEW u \in Teams, NEW v \in Teams,
                      Unfinished(h, u)', Unfinished(k, v)', <<h, u>> # <<k, v>>
               PROVE  u # v /\ deleg'[h][u].checkout # deleg'[k][v].checkout
    BY DEF TeamOwnedOnce
  <2>1. CASE <<h, u>> = <<g, t>>
    <3>1. Unfinished(k, v) /\ deleg'[k][v] = deleg[k][v]
      BY <1>3, <2>1 DEF Unfinished
    <3> QED BY <1>0, <1>1, <1>3, <2>1, <3>1 DEF Available
  <2>2. CASE <<k, v>> = <<g, t>>
    <3>1. Unfinished(h, u) /\ deleg'[h][u] = deleg[h][u]
      BY <1>3, <2>2 DEF Unfinished
    <3> QED BY <1>0, <1>1, <1>3, <2>2, <3>1 DEF Available
  <2>3. CASE <<h, u>> # <<g, t>> /\ <<k, v>> # <<g, t>>
    BY <1>3, <2>3 DEF Unfinished, Inv, TeamOwnedOnce
  <2> QED BY <2>1, <2>2, <2>3
<1>6. PassOK(pass', deleg')
  <2>1. CASE ~(pass.goal = g /\ t \in DOMAIN pass.delegs)
    <3>1. pass' = pass
      BY <2>1 DEF Delegate
    <3>2. pass.pc \in {"teams", "launch"} =>
            \A u \in DOMAIN pass.delegs : deleg'[pass.goal][u] = deleg[pass.goal][u]
      BY <1>3, <2>1 DEF Inv, PassOK
    <3> QED BY <3>1, <3>2 DEF Inv, PassOK
  <2>2. CASE pass.goal = g /\ t \in DOMAIN pass.delegs
    <3> DEFINE c == [pass.delegs[t] EXCEPT !.current = FALSE]
    <3>1. c \in Copy /\ c.queued = pass.delegs[t].queued /\ ~c.current
      BY <2>2 DEF Inv, PassOK, Copy
    <3>2. pass' = [pass EXCEPT !.delegs[t].current = FALSE]
      BY <2>2 DEF Delegate
    <3>3. /\ pass' = [pc |-> pass.pc, goals |-> pass.goals, goal |-> pass.goal,
                      delegs |-> [pass.delegs EXCEPT ![t] = c], team |-> pass.team]
      BY <3>2 DEF Inv, PassOK
    <3> HIDE DEF c
    <3>4. /\ DOMAIN pass'.delegs = DOMAIN pass.delegs /\ pass'.delegs[t] = c
          /\ \A u \in DOMAIN pass.delegs \ {t} : pass'.delegs[u] = pass.delegs[u]
      BY <2>2, <3>3
    <3>5. \A u \in DOMAIN pass.delegs :
            pass.pc \in {"teams", "launch"} => Matches(deleg'[g][u], pass'.delegs[u])
      BY <1>3, <2>2, <3>1, <3>4 DEF Inv, PassOK, Matches
    <3>6. /\ pass' = [pc |-> pass'.pc, goals |-> pass'.goals, goal |-> pass'.goal,
                      delegs |-> pass'.delegs, team |-> pass'.team]
          /\ pass'.pc = pass.pc /\ pass'.goals = pass.goals /\ pass'.goal = g
          /\ pass'.team = pass.team
      BY <2>2, <3>3
    <3> QED BY <3>1, <3>4, <3>5, <3>6 DEF Inv, PassOK
  <2> QED BY <2>1, <2>2
<1>7. GoalOK(g)'
  BY <1>0, <1>2, BusyGoal
<1>8. Spares(g)
  BY <1>2, <1>3, <1>4 DEF Spares
<1> QED BY <1>0, <1>2, <1>3, <1>4, <1>5, <1>6, <1>7, <1>8, LocalStep DEF Typed

-----------------------------------------------------------------------------
(* The pass. *)

\* The pass with the copies of another goal.
LEMMA PassReads ==
  ASSUME NEW p, NEW x, NEW y,
         p = [pc |-> p.pc, goals |-> p.goals, goal |-> p.goal, delegs |-> p.delegs,
              team |-> p.team]
  PROVE  [p EXCEPT !.pc = "teams", !.goal = x, !.delegs = y]
           = [pc |-> "teams", goals |-> p.goals, goal |-> x, delegs |-> y, team |-> p.team]
<1> DEFINE q == [p EXCEPT !.delegs = y]
           r == [q EXCEPT !.pc = "teams"]
<1>1. q = [pc |-> p.pc, goals |-> p.goals, goal |-> p.goal, delegs |-> y, team |-> p.team]
  OBVIOUS
<1>2. [p EXCEPT !.pc = "teams", !.goal = x, !.delegs = y] = [r EXCEPT !.goal = x]
  OBVIOUS
<1> HIDE DEF q
<1>3. r = [pc |-> "teams", goals |-> p.goals, goal |-> p.goal, delegs |-> y, team |-> p.team]
  BY <1>1
<1> HIDE DEF r
<1>4. [r EXCEPT !.goal = x]
        = [pc |-> "teams", goals |-> p.goals, goal |-> x, delegs |-> y, team |-> p.team]
  BY <1>3
<1> QED BY <1>2, <1>4

\* The pass with other copies, and another team at hand.
LEMMA PassLeaves ==
  ASSUME NEW p, NEW x, NEW y,
         p = [pc |-> p.pc, goals |-> p.goals, goal |-> p.goal, delegs |-> p.delegs,
              team |-> p.team]
  PROVE  [p EXCEPT !.pc = "teams", !.team = x, !.delegs = y]
           = [pc |-> "teams", goals |-> p.goals, goal |-> p.goal, delegs |-> y, team |-> x]
<1> DEFINE q == [p EXCEPT !.delegs = y]
           r == [q EXCEPT !.pc = "teams"]
<1>1. q = [pc |-> p.pc, goals |-> p.goals, goal |-> p.goal, delegs |-> y, team |-> p.team]
  OBVIOUS
<1>2. [p EXCEPT !.pc = "teams", !.team = x, !.delegs = y] = [r EXCEPT !.team = x]
  OBVIOUS
<1> HIDE DEF q
<1>3. r = [pc |-> "teams", goals |-> p.goals, goal |-> p.goal, delegs |-> y, team |-> p.team]
  BY <1>1
<1> HIDE DEF r
<1>4. [r EXCEPT !.team = x]
        = [pc |-> "teams", goals |-> p.goals, goal |-> p.goal, delegs |-> y, team |-> x]
  BY <1>3
<1> QED BY <1>2, <1>4

\* Where the pass goes on is again a place it may be at.
LEMMA ContinuedOK ==
  ASSUME NEW p, NEW ds, PassOK(p, ds), p.pc \in {"goals", "teams"}
  PROVE  PassOK(Continued(p), ds)
<1>1. CASE p.pc = "teams" /\ DOMAIN p.delegs # {}
  <2>1. Continued(p) = p
    BY <1>1 DEF Continued
  <2> QED BY <2>1
<1>2. CASE ~(p.pc = "teams" /\ DOMAIN p.delegs # {}) /\ DOMAIN p.goals # {}
  <2>1. Continued(p) = [p EXCEPT !.pc = "goals", !.goal = None]
    BY <1>2 DEF Continued
  <2>2. Continued(p) = [pc |-> "goals", goals |-> p.goals, goal |-> None, delegs |-> p.delegs,
                        team |-> p.team]
    BY <2>1 DEF PassOK
  <2> QED BY <2>2 DEF PassOK
<1>3. CASE ~(p.pc = "teams" /\ DOMAIN p.delegs # {}) /\ ~(DOMAIN p.goals # {})
  <2>1. Continued(p) = NoPass
    BY <1>3 DEF Continued
  <2> QED BY <2>1 DEF PassOK, NoPass
<1> QED BY <1>1, <1>2, <1>3

\* A step that changes rows of goals, and those of no goal that promises something.
LEMMA PassMoves ==
  ASSUME Inv, NEW g \in Goals, goal' \in [Goals -> GoalRecord],
         \A h \in Goals \ {g} : goal'[h] = goal[h],
         goal'[g].state \in {goal[g].state, "running", "proposed", "blocked"},
         UNCHANGED <<deleg, question, handoff, surroundings>>,
         PassOK(pass', deleg)
  PROVE  Inv'
<1>1. Typed' /\ Spares(g) /\ TeamOwnedOnce' /\ PassOK(pass', deleg')
  BY DEF Inv, Typed, Spares, surroundings, TeamOwnedOnce, Unfinished
<1>2. GoalOK(g)
  BY GoalsOK DEF Inv
<1>3. GoalOK(g)'
  BY <1>2, CalmGoal
<1> QED BY <1>1, <1>3, LocalStep

\* A step of which nothing but the pass takes notice.
LEMMA PassOnly ==
  ASSUME Inv, UNCHANGED <<goal, deleg, question, handoff, checkout>>, PassOK(pass', deleg)
  PROVE  Inv'
BY DEF Inv, Typed, TeamOwnedOnce, Unfinished, AwaitingComplete, Delegates, ReleasedWhenStopped

LEMMA PassBeginStep == Inv /\ PassBegin => Inv'
<1> SUFFICES ASSUME Inv, PassBegin PROVE Inv'
  OBVIOUS
<1> DEFINE running == [g \in {h \in Goals : goal[h].state = "running"} |-> goal[g]]
<1>1. pass' = [pc |-> "goals", goals |-> running, goal |-> None, delegs |-> <<>>, team |-> None]
  BY DEF PassBegin, NoPass
<1>2. DOMAIN running \subseteq Goals /\ \A g \in DOMAIN running : running[g] \in GoalRecord
  BY DEF Inv, Typed
<1> HIDE DEF running
<1>3. PassOK(pass', deleg)
  BY <1>1, <1>2 DEF PassOK
<1> QED BY <1>3, PassOnly DEF PassBegin, records, surroundings

\* The copies are what is read.
LEMMA CopiesMatch ==
  ASSUME Inv, NEW g \in Goals
  PROVE  /\ DOMAIN Copies(g) \subseteq Teams
         /\ \A t \in DOMAIN Copies(g) :
              Copies(g)[t] \in Copy /\ Matches(deleg[g][t], Copies(g)[t])
<1>1. ASSUME NEW t \in DOMAIN Copies(g)
      PROVE  Copies(g)[t] \in Copy /\ Matches(deleg[g][t], Copies(g)[t])
  <2>1. /\ t \in Teams /\ deleg[g][t].state # "proposed"
        /\ Copies(g)[t] = [queued |-> deleg[g][t].state = "queued",
                           checkout |-> deleg[g][t].checkout, current |-> TRUE]
    BY <1>1 DEF Copies, Delegates
  <2>2. deleg[g][t].checkout \in Checkouts
    <3>1. deleg[g][t].state \notin Inactive
      BY <1>1 DEF Copies, Delegates, Unfinished
    <3> QED BY <2>1, <3>1 DEF Inv, Typed, DelegationRow
  <2>3. Copies(g)[t] \in Copy
    BY <2>1, <2>2 DEF Copy
  <2>4. Matches(deleg[g][t], Copies(g)[t])
    <3>1. /\ Copies(g)[t].checkout = deleg[g][t].checkout
          /\ Copies(g)[t].queued <=> deleg[g][t].state = "queued"
      <4>1. \A a, b : [queued |-> a, checkout |-> b, current |-> TRUE].queued = a
        OBVIOUS
      <4>2. Copies(g)[t].queued = (deleg[g][t].state = "queued")
        BY <2>1, <4>1
      <4>3. Copies(g)[t].checkout = deleg[g][t].checkout
        BY <2>1
      <4> QED BY <4>2, <4>3
    <3> QED BY <2>1, <3>1 DEF Matches
  <2> QED BY <2>3, <2>4
<1> QED BY <1>1 DEF Copies, Delegates

LEMMA PassGoalStep ==
  ASSUME Inv, NEW g \in Goals, PassGoal(g)
  PROVE  Inv'
<1> DEFINE others == Without(pass.goals, g)
           rest == [pass EXCEPT !.goals = others]
           read == [rest EXCEPT !.pc = "teams", !.goal = g, !.delegs = Copies(g)]
<1>0. /\ PassOK(pass, deleg) /\ Typed /\ pass.pc = "goals" /\ g \in DOMAIN pass.goals
      /\ UNCHANGED <<deleg, question, handoff, surroundings>>
  BY DEF Inv, PassGoal
<1>1. DOMAIN others \subseteq Goals /\ \A h \in DOMAIN others : others[h] \in GoalRecord
  BY <1>0 DEF Without, PassOK
<1> HIDE DEF others
<1>2. rest = [pc |-> "goals", goals |-> others, goal |-> pass.goal, delegs |-> pass.delegs,
              team |-> pass.team]
  BY <1>0 DEF PassOK
<1> HIDE DEF rest
<1>3. read = [pc |-> "teams", goals |-> others, goal |-> g, delegs |-> Copies(g),
              team |-> pass.team]
  <2>1. PICK q, c : q = rest /\ c = Copies(g)
    OBVIOUS
  <2>2. q.goals = others /\ q.team = pass.team
    BY <1>2, <2>1
  <2>3. [q EXCEPT !.pc = "teams", !.goal = g, !.delegs = c]
          = [pc |-> "teams", goals |-> q.goals, goal |-> g, delegs |-> c, team |-> q.team]
    <3>1. q = [pc |-> q.pc, goals |-> q.goals, goal |-> q.goal, delegs |-> q.delegs,
               team |-> q.team]
      BY <1>2, <2>1
    <3> HIDE DEF read
    <3> QED BY <3>1, PassReads
  <2>4. read = [q EXCEPT !.pc = "teams", !.goal = g, !.delegs = c]
    BY <2>1
  <2> QED BY <2>2, <2>3, <2>4, <2>1
<1>4. PassOK(rest, deleg)
  BY <1>0, <1>1, <1>2 DEF PassOK
<1>5. PassOK(read, deleg)
  <2>1. pass.team \in Teams \cup {None}
    BY <1>0 DEF PassOK
  <2> QED BY <1>1, <1>3, <2>1, CopiesMatch DEF PassOK
<1>6. CASE g \in allowed
  <2>1. pass' = Continued(read) /\ (Wake(g, goal[g]) \/ UNCHANGED goal)
    BY <1>6 DEF PassGoal, others, rest
  <2>2. PassOK(pass', deleg)
    BY <1>3, <1>5, <2>1, ContinuedOK
  <2>3. /\ goal' \in [Goals -> GoalRecord] /\ \A h \in Goals \ {g} : goal'[h] = goal[h]
        /\ goal'[g].state \in {goal[g].state, "blocked"}
    <3>1. goal \in [Goals -> GoalRecord] /\ goal[g] \in GoalRecord
      BY <1>0 DEF Typed
    <3> QED BY <1>0, <2>1, <3>1, WakeEffect
  <2> QED BY <1>0, <2>2, <2>3, PassMoves
<1>7. CASE g \notin allowed
  <2> DEFINE next == [pass.goals[g] EXCEPT !.state = "blocked", !.rev = @ + 1]
  <2>1. pass' = Continued(rest) /\ goal' = [goal EXCEPT ![g] = next]
    BY <1>7 DEF PassGoal, others, rest
  <2>2. PassOK(pass', deleg)
    BY <1>2, <1>4, <2>1, ContinuedOK
  <2>3. next \in GoalRecord /\ next.state = "blocked"
    BY <1>0, RowUpdates DEF PassOK, GoalStates
  <2> HIDE DEF next
  <2>4. /\ goal' \in [Goals -> GoalRecord] /\ \A h \in Goals \ {g} : goal'[h] = goal[h]
        /\ goal'[g].state = "blocked"
    BY <1>0, <2>1, <2>3 DEF Typed
  <2> QED BY <1>0, <2>2, <2>4, PassMoves
<1> QED BY <1>6, <1>7

\* The pass without one of its copies.
LEMMA WithoutOK ==
  ASSUME PassOK(pass, deleg), pass.pc \in {"teams", "launch"}, NEW t, NEW team \in Teams \cup {None}, NEW ds,
         \A u \in DOMAIN pass.delegs \ {t} :
           Matches(deleg[pass.goal][u], pass.delegs[u]) => Matches(ds[pass.goal][u], pass.delegs[u])
  PROVE  PassOK([pc |-> "teams", goals |-> pass.goals, goal |-> pass.goal,
                 delegs |-> Without(pass.delegs, t), team |-> team], ds)
<1> DEFINE others == Without(pass.delegs, t)
<1>1. /\ DOMAIN others = DOMAIN pass.delegs \ {t}
      /\ \A u \in DOMAIN others : others[u] = pass.delegs[u]
  BY DEF Without
<1> HIDE DEF others
<1>2. /\ DOMAIN others \subseteq Teams /\ \A u \in DOMAIN others : others[u] \in Copy
      /\ \A u \in DOMAIN others : Matches(ds[pass.goal][u], others[u])
      /\ pass.goal \in Goals /\ DOMAIN pass.goals \subseteq Goals
      /\ \A g \in DOMAIN pass.goals : pass.goals[g] \in GoalRecord
  BY <1>1 DEF PassOK
<1> QED BY <1>2 DEF PassOK, others

LEMMA PassTeamStep ==
  ASSUME Inv, NEW t \in Teams, PassTeam(t)
  PROVE  Inv'
<1>0. /\ PassOK(pass, deleg) /\ Typed /\ pass.pc = "teams" /\ t \in DOMAIN pass.delegs
      /\ pass.goal \in Goals /\ UNCHANGED <<deleg, question, handoff, surroundings>>
  BY DEF Inv, PassTeam, PassOK
<1>a. PICK g \in Goals : g = pass.goal
  BY <1>0
<1>1. CASE pass.delegs[t].queued /\ Assigned(t, pass.delegs[t])
  <2>1. pass' = [pass EXCEPT !.pc = "launch", !.team = t] /\ UNCHANGED goal
    BY <1>1 DEF PassTeam
  <2>2. pass' = [pc |-> "launch", goals |-> pass.goals, goal |-> pass.goal,
                 delegs |-> pass.delegs, team |-> t]
    BY <1>0, <2>1 DEF PassOK
  <2>3. PassOK(pass', deleg)
    BY <1>0, <1>1, <2>2 DEF PassOK
  <2> QED BY <1>0, <2>1, <2>3, PassOnly DEF surroundings
<1>2. CASE ~(pass.delegs[t].queued /\ Assigned(t, pass.delegs[t]))
  <2> DEFINE rest == [pass EXCEPT !.delegs = Without(@, t)]
  <2>1. pass' = Continued(rest) /\ (UNCHANGED goal \/ Wake(g, goal[g]))
    BY <1>2, <1>a DEF PassTeam
  <2>2. rest = [pc |-> "teams", goals |-> pass.goals, goal |-> pass.goal,
                delegs |-> Without(pass.delegs, t), team |-> pass.team]
    BY <1>0 DEF PassOK
  <2>3. PassOK(rest, deleg) /\ rest.pc = "teams"
    <3>1. pass.team \in Teams \cup {None}
      BY <1>0 DEF PassOK
    <3> QED BY <1>0, <2>2, <3>1, WithoutOK
  <2>4. PassOK(pass', deleg)
    BY <2>1, <2>3, ContinuedOK
  <2>5. /\ goal' \in [Goals -> GoalRecord] /\ \A h \in Goals \ {g} : goal'[h] = goal[h]
        /\ goal'[g].state \in {goal[g].state, "blocked"}
    <3>1. goal \in [Goals -> GoalRecord] /\ goal[g] \in GoalRecord
      BY <1>0 DEF Typed
    <3> QED BY <1>0, <2>1, <3>1, WakeEffect
  <2> QED BY <1>0, <2>4, <2>5, PassMoves
<1> QED BY <1>1, <1>2

\* What a handoff relies on: the delegation is the one that was read, and still queued.
LEMMA OfferedQueued ==
  ASSUME PassOK(pass, deleg), pass.pc = "launch", Creatable(pass.goal, pass.team)
  PROVE  /\ pass.goal \in Goals /\ pass.team \in Teams /\ goal[pass.goal].state = "running"
         /\ deleg[pass.goal][pass.team].state = "queued"
         /\ deleg[pass.goal][pass.team].checkout = pass.delegs[pass.team].checkout
         /\ pass.delegs[pass.team] \in Copy
BY DEF PassOK, Creatable, AuthorizedHandoff, Running, Matches, Inactive

LEMMA PassOfferStep == Inv /\ PassOffer => Inv'
<1> SUFFICES ASSUME Inv, PassOffer PROVE Inv'
  OBVIOUS
<1>a. PICK g \in Goals : g = pass.goal
  BY DEF Inv, PassOffer, PassOK
<1>b. PICK t : t = pass.team
  OBVIOUS
<1> DEFINE others == Without(pass.delegs, t)
           rest == [pass EXCEPT !.pc = "teams", !.team = None, !.delegs = others]
<1>0. /\ PassOK(pass, deleg) /\ Typed /\ pass.pc = "launch"
      /\ pass' = Continued(rest) /\ UNCHANGED <<goal, question, checkout>>
  BY <1>b DEF Inv, PassOffer, surroundings
<1>1. rest = [pc |-> "teams", goals |-> pass.goals, goal |-> pass.goal,
              delegs |-> Without(pass.delegs, t), team |-> None]
  <2> HIDE DEF others
  <2>1. pass = [pc |-> pass.pc, goals |-> pass.goals, goal |-> pass.goal,
                delegs |-> pass.delegs, team |-> pass.team]
    BY <1>0 DEF PassOK
  <2>2. rest = [pc |-> "teams", goals |-> pass.goals, goal |-> pass.goal,
                delegs |-> others, team |-> None]
    BY <2>1, PassLeaves
  <2> QED BY <2>2 DEF others
<1>2. CASE UNCHANGED <<deleg, handoff>>
  <2>1. PassOK(rest, deleg) /\ rest.pc = "teams"
    BY <1>0, <1>1, WithoutOK
  <2>2. PassOK(pass', deleg)
    BY <1>0, <2>1, ContinuedOK
  <2> QED BY <1>0, <1>2, <2>2, PassOnly
<1>3. CASE /\ Creatable(g, t)
           /\ handoff' = handoff \cup {<<g, t>>}
           /\ deleg' = [deleg EXCEPT ![g][t] = Offered(pass.delegs[t])]
  <2>0. /\ t \in Teams /\ goal[g].state = "running" /\ deleg[g][t].state = "queued"
        /\ deleg[g][t].checkout = pass.delegs[t].checkout /\ pass.delegs[t] \in Copy
    BY <1>0, <1>a, <1>b, <1>3, OfferedQueued
  <2> DEFINE d == Offered(pass.delegs[t])
  <2>1. d \in DelegationRow /\ d.checkout = deleg[g][t].checkout
    BY <2>0 DEF Offered, Closed, Copy, DelegationRow, Delegation, DelegationStates
  <2>2. deleg' = [deleg EXCEPT ![g][t] = d]
    BY <1>3
  <2> HIDE DEF d
  <2>3. /\ deleg' \in [Goals -> [Teams -> DelegationRow]] /\ deleg'[g][t] = d
        /\ \A h \in Goals, u \in Teams : <<h, u>> # <<g, t>> => deleg'[h][u] = deleg[h][u]
    BY <1>0, <2>0, <2>1, <2>2 DEF Typed
  <2>4. \A h \in Goals, u \in Teams : Holds(deleg[h][u], deleg'[h][u])
    BY <2>0, <2>1, <2>3 DEF Holds, Inactive
  <2>5. TeamOwnedOnce'
    BY <2>4, OwnedKept DEF Inv
  <2>6. PassOK(pass', deleg')
    <3>1. \A u \in DOMAIN pass.delegs \ {t} : deleg'[g][u] = deleg[g][u]
      BY <1>0, <2>3 DEF PassOK
    <3>2. PassOK(rest, deleg') /\ rest.pc = "teams"
      BY <1>0, <1>1, <1>a, <3>1, WithoutOK
    <3> QED BY <1>0, <3>2, ContinuedOK
  <2>7. GoalOK(g)'
    BY <1>0, <2>0, BusyGoal
  <2>8. Spares(g)
    BY <1>0, <2>3 DEF Spares
  <2>9. Typed'
    BY <1>0, <1>3, <2>0, <2>3 DEF Typed
  <2> QED BY <1>0, <2>5, <2>6, <2>7, <2>8, <2>9, LocalStep
<1> QED BY <1>2, <1>3, <1>a, <1>b DEF PassOffer

-----------------------------------------------------------------------------
(* What happens around the goals, and the whole. *)

LEMMA EditStep ==
  ASSUME Inv, NEW c \in Checkouts, Edit(c)
  PROVE  Inv'
<1>0. Typed /\ UNCHANGED <<goal, question, handoff, checkout, pass>>
  BY DEF Inv, Edit, surroundings
<1>1. \A g \in Goals, t \in Teams :
        /\ deleg'[g][t] \in DelegationRow
        /\ deleg'[g][t].state = deleg[g][t].state /\ deleg'[g][t].checkout = deleg[g][t].checkout
  <2> SUFFICES ASSUME NEW g \in Goals, NEW t \in Teams
               PROVE  /\ deleg'[g][t] \in DelegationRow
                      /\ deleg'[g][t].state = deleg[g][t].state
                      /\ deleg'[g][t].checkout = deleg[g][t].checkout
    OBVIOUS
  <2>1. deleg[g][t] \in DelegationRow
    BY <1>0 DEF Typed
  <2>2. deleg'[g][t] = IF deleg[g][t].checkout = c
                       THEN [deleg[g][t] EXCEPT !.reviewed = FALSE, !.evidence = FALSE]
                       ELSE deleg[g][t]
    BY DEF Edit
  <2> QED BY <2>1, <2>2 DEF DelegationRow, Delegation
<1>2. deleg' \in [Goals -> [Teams -> DelegationRow]]
  <2>1. deleg' = [g \in Goals |-> [t \in Teams |-> deleg'[g][t]]]
    BY DEF Edit
  <2> QED BY <1>1, <2>1
<1>3. Shrinks
  BY <1>1 DEF Shrinks, Keeps, Holds
<1>4. TeamOwnedOnce' /\ PassOK(pass', deleg')
  <2>1. \A g \in Goals, t \in Teams : Holds(deleg[g][t], deleg'[g][t])
    BY <1>1 DEF Holds
  <2> QED BY <1>0, <1>3, <2>1, OwnedKept, PassKept DEF Inv
<1>5. AwaitingComplete' /\ ReleasedWhenStopped'
  BY <1>0, <1>1 DEF Inv, AwaitingComplete, ReleasedWhenStopped, Delegates, Unfinished
<1> QED BY <1>0, <1>2, <1>4, <1>5 DEF Inv, Typed

\* Steps of the actions, the inbox, the policy and the checkouts, and the death of the pass.
LEMMA QuietStep ==
  ASSUME Inv,
         \/ \E g \in Goals : ReviewFinished(g) \/ LimitsChange(g)
         \/ \E g \in Goals, t \in Teams : Settle(g, t)
         \/ \E t \in Teams, c \in Checkouts : AssignCheckout(t, c)
         \/ Crash
  PROVE  Inv'
<1>1. /\ UNCHANGED <<goal, deleg, question>> /\ handoff' \subseteq handoff
      /\ pass' = pass \/ pass' = NoPass
      /\ checkout' = checkout \/ \E t \in Teams, c \in Checkouts : checkout' = [checkout EXCEPT ![t] = c]
  BY DEF ReviewFinished, LimitsChange, Settle, AssignCheckout, Crash, records, surroundings
<1>2. PassOK(pass', deleg')
  BY <1>1 DEF Inv, PassOK, NoPass
<1>3. Typed'
  BY <1>1 DEF Inv, Typed
<1> QED BY <1>1, <1>2, <1>3
        DEF Inv, TeamOwnedOnce, Unfinished, AwaitingComplete, Delegates, ReleasedWhenStopped

LEMMA NextInv == Inv /\ [Next]_vars => Inv'
<1> SUFFICES ASSUME Inv, [Next]_vars PROVE Inv'
  OBVIOUS
<1>1. CASE UNCHANGED vars
  <2>1. UNCHANGED <<goal, deleg, question, handoff, checkout, pass>>
    BY <1>1 DEF vars, records, surroundings
  <2> QED BY <2>1 DEF Inv, Typed, PassOK, TeamOwnedOnce, Unfinished, AwaitingComplete,
                      Delegates, ReleasedWhenStopped
<1>2. ASSUME NEW g \in Goals, GoalSteps(g) PROVE Inv'
  BY <1>2, ProposeStep, ResumeStep, StopStep, AcceptStep, QuestionStep, QuietStep DEF GoalSteps
<1>3. ASSUME NEW g \in Goals, NEW t \in Teams, DelegationSteps(g, t) PROVE Inv'
  BY <1>3, DelegateStep, ResolveApprovalStep, ReportStep, QuietStep DEF DelegationSteps
<1>4. CASE Pass
  BY <1>4, PassBeginStep, PassOfferStep, PassGoalStep, PassTeamStep, QuietStep DEF Pass
<1>5. ASSUME NEW t \in Teams, NEW c \in Checkouts, AssignCheckout(t, c) PROVE Inv'
  BY <1>5, QuietStep
<1> QED BY <1>1, <1>2, <1>3, <1>4, <1>5, EditStep DEF Next

LEMMA Invariant == Spec => []Inv
BY InitInv, NextInv, PTL DEF Spec

\* The limits and the reviews in the inbox, which the other properties are not about.
Rest == allowed \subseteq Goals /\ waiting \subseteq Goals /\ changes \in 0..MaxChanges

LEMMA NextRest == Inv /\ Rest /\ [Next]_vars => Rest'
<1> SUFFICES ASSUME Inv, Rest, [Next]_vars PROVE Rest'
  OBVIOUS
<1>1. CASE UNCHANGED vars
  BY <1>1 DEF vars, records, surroundings, Rest
<1>2. ASSUME UNCHANGED surroundings,
             UNCHANGED waiting \/ \E g \in Goals : \E current : Wake(g, current)
      PROVE  Rest'
  <2>1. waiting' \subseteq Goals
    BY <1>2 DEF Rest, Wake
  <2> QED BY <1>2, <2>1 DEF surroundings, Rest
<1>3. ASSUME NEW g \in Goals,
             \/ \E automatic \in BOOLEAN : Propose(g, automatic)
             \/ Resume(g) \/ Stop(g, "paused") \/ Stop(g, "cancelled") \/ Accept(g)
             \/ (\E team \in Teams \cup {None} : Ask(g, team)) \/ ResolveQuestion(g)
             \/ PassGoal(g)
      PROVE  Rest'
  BY <1>2, <1>3 DEF Propose, Resume, Stop, Accept, Ask, ResolveQuestion, PassGoal
<1>4. ASSUME NEW g \in Goals, ReviewFinished(g) PROVE Rest'
  BY <1>4 DEF ReviewFinished, Rest, surroundings
<1>5. ASSUME NEW g \in Goals, LimitsChange(g) PROVE Rest'
  <2>1. allowed' \subseteq Goals
    BY <1>5 DEF LimitsChange, Rest, SymDiff
  <2>2. changes' \in 0..MaxChanges /\ UNCHANGED waiting
    BY <1>5, GoalsAssumption DEF LimitsChange, Rest, records, GoalsAssumption
  <2> QED BY <2>1, <2>2 DEF Rest
<1>6. ASSUME NEW t \in Teams, NEW c \in Checkouts, AssignCheckout(t, c) PROVE Rest'
  BY <1>6, GoalsAssumption DEF AssignCheckout, Rest, records, GoalsAssumption
<1>7. ASSUME NEW g \in Goals, NEW t \in Teams, NEW wakes \in BOOLEAN, NEW teams,
             Reported(g, teams, wakes), UNCHANGED surroundings
      PROVE  Rest'
  BY <1>2, <1>7 DEF Reported
<1>8. ASSUME NEW g \in Goals, NEW t \in Teams, DelegationSteps(g, t) PROVE Rest'
  <2>1. CASE \/ \E approved \in BOOLEAN : Delegate(g, t, approved)
             \/ \E answer \in {"queued", "cancelled"} : ResolveApproval(g, t, answer)
             \/ Settle(g, t)
    BY <1>2, <2>1 DEF Delegate, ResolveApproval, Settle
  <2>2. CASE \/ \E lead, blocker \in BOOLEAN : ReportProgress(g, t, lead, blocker)
             \/ \E approved \in BOOLEAN : ReportReview(g, t, approved)
             \/ ReportReady(g, t)
    BY <1>7, <2>2 DEF ReportProgress, ReportReview, ReportReady
  <2> QED BY <1>8, <2>1, <2>2 DEF DelegationSteps
<1>9. ASSUME NEW t \in Teams, PassTeam(t) PROVE Rest'
  <2>1. pass.goal \in Goals
    BY <1>9 DEF PassTeam, Inv, PassOK
  <2> QED BY <1>2, <1>9, <2>1 DEF PassTeam
<1>10. CASE PassBegin \/ PassOffer \/ Crash \/ \E c \in Checkouts : Edit(c)
  BY <1>2, <1>10 DEF PassBegin, PassOffer, Crash, Edit, records
<1> QED BY <1>1, <1>3, <1>4, <1>5, <1>6, <1>8, <1>9, <1>10 DEF Next, GoalSteps, Pass

\* The rows stay typed, with the turns of a goal within its grant (#wake), although the pass
\* writes a row back as it was before it awaited.
THEOREM TypeCorrect == Spec => []TypeOK
<1>1. Init => Rest
  BY GoalsAssumption DEF Init, Rest, GoalsAssumption
<1>2. Inv /\ Rest => TypeOK
  <2> SUFFICES ASSUME Inv, Rest PROVE TypeOK
    OBVIOUS
  <2>1. deleg \in [Goals -> [Teams -> Delegation]]
    BY DEF Inv, Typed, DelegationRow
  <2>2. /\ goal \in [Goals -> GoalRecord] /\ handoff \subseteq Goals \X Teams
        /\ question \in [Goals -> [open : BOOLEAN, rev : Nat, team : Teams \cup {None}]]
        /\ checkout \in [Teams -> Checkouts]
    BY DEF Inv, Typed, QuestionRow
  <2>3. PassOK(pass, deleg) /\ Rest
    BY DEF Inv
  <2> QED BY <2>1, <2>2, <2>3 DEF Rest, PassOK, TypeOK
<1> QED BY <1>1, <1>2, NextRest, Invariant, PTL DEF Spec

\* A team and a checkout belong to at most one unfinished delegation, through moves of
\* checkouts and the copies the pass writes back (assessTeam, delegatePrepared, #reconcile).
THEOREM OwnedOnce == Spec => []TeamOwnedOnce
BY Invariant, PTL DEF Inv

\* A goal awaits acceptance only while some team owns a part of it and all that do are ready.
THEOREM ReadyTogether == Spec => []AwaitingComplete
BY Invariant, PTL DEF Inv

\* A finished goal holds no team; a paused or cancelled one has no question and no proposal.
THEOREM StoppedGoalsRelease == Spec => []ReleasedWhenStopped
BY Invariant, PTL DEF Inv

\* A delegation is handed over from the queue, while its goal runs, although the pass read both
\* before it awaited the launch of the members.
THEOREM HandedOver == Spec => HandedOverOnce
<1>1. Inv /\ [Next]_vars =>
        [\A g \in Goals, t \in Teams :
           <<g, t>> \in handoff' \ handoff =>
             /\ deleg[g][t].state = "queued" /\ deleg'[g][t].state = "offered"
             /\ goal[g].state = "running"]_vars
  <2> SUFFICES ASSUME Inv, Next, NEW g \in Goals, NEW t \in Teams,
                      <<g, t>> \in handoff' \ handoff
               PROVE  /\ deleg[g][t].state = "queued" /\ deleg'[g][t].state = "offered"
                      /\ goal[g].state = "running"
    OBVIOUS
  <2>1. PassOffer
    <3>1. ASSUME NEW h \in Goals, GoalSteps(h) PROVE FALSE
      BY <3>1 DEF GoalSteps, Propose, Resume, Stop, Accept, ReviewFinished, LimitsChange, Ask,
                  ResolveQuestion, records, surroundings
    <3>2. ASSUME NEW h \in Goals, NEW u \in Teams, DelegationSteps(h, u) PROVE FALSE
      BY <3>2 DEF DelegationSteps, Delegate, ResolveApproval, ReportProgress, ReportReview,
                  ReportReady, Settle, records, surroundings
    <3>3. ~ \E u \in Teams, c \in Checkouts : AssignCheckout(u, c)
      BY DEF AssignCheckout, records, surroundings
    <3>4. ~ \E c \in Checkouts : Edit(c)
      BY DEF Edit
    <3>5. ASSUME Pass PROVE PassOffer
      BY <3>5 DEF Pass, PassBegin, Crash, PassGoal, PassTeam, records, surroundings
    <3> QED BY <3>1, <3>2, <3>3, <3>4, <3>5 DEF Next
  <2>2. /\ pass.pc = "launch" /\ Creatable(pass.goal, pass.team) /\ PassOK(pass, deleg)
        /\ g = pass.goal /\ t = pass.team
        /\ deleg' = [deleg EXCEPT ![g][t] = Offered(pass.delegs[t])]
    BY <2>1 DEF PassOffer, Inv
  <2>3. deleg[g][t].state = "queued" /\ goal[g].state = "running"
    BY <2>2, OfferedQueued
  <2>4. deleg'[g][t].state = "offered"
    <3>1. Offered(pass.delegs[t]).state = "offered"
      BY DEF Offered, Closed
    <3>2. deleg \in [Goals -> [Teams -> DelegationRow]]
      BY DEF Inv, Typed
    <3> QED BY <2>2, <3>1, <3>2
  <2> QED BY <2>3, <2>4
<1> QED BY <1>1, InitInv, NextInv, PTL DEF Spec, HandedOverOnce
=============================================================================
