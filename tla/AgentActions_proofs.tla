------------------------- MODULE AgentActions_proofs -------------------------
(***************************************************************************)
(* Proofs about AgentActions, for every number of actions, runs, reporters *)
(* and crashes: the domains of the variables, that a prompt is submitted   *)
(* at most once and reported only when it was, that what is unsettled      *)
(* names the current run, and that an outcome is final.                    *)
(***************************************************************************)
EXTENDS AgentActions, SequenceTheorems, TLAPS

States == {"none"} \cup Unsettled \cup Settled

Row == [state : States, gen : 0..MaxRuns, rep : 0..MaxReporters]

\* Zero is in every range.
LEMMA Ranges == 0 \in 0..MaxRuns /\ 0 \in 0..MaxReporters /\ 0 \in 0..MaxCrashes
BY ActionsAssumption DEF ActionsAssumption

\* What SetState changes.
LEMMA SetStateEffect ==
  ASSUME TypeOK, NEW S \in SUBSET Actions, NEW state \in States, SetState(S, state)
  PROVE  /\ action' \in [Actions -> Row]
         /\ \A a \in Actions : action'[a].gen = action[a].gen /\ action'[a].rep = action[a].rep
         /\ \A a \in S : action'[a].state = state
         /\ \A a \in Actions \ S : action'[a] = action[a]
<1>1. action \in [Actions -> Row]
  BY DEF TypeOK, Row, States
<1>2. ASSUME NEW a \in Actions
      PROVE  /\ [action[a] EXCEPT !.state = state] \in Row
             /\ [action[a] EXCEPT !.state = state].state = state
             /\ [action[a] EXCEPT !.state = state].gen = action[a].gen
             /\ [action[a] EXCEPT !.state = state].rep = action[a].rep
  BY <1>1 DEF Row
<1>3. \A a \in Actions : action'[a] = IF a \in S THEN [action[a] EXCEPT !.state = state] ELSE action[a]
  BY DEF SetState
<1>4. action' = [a \in Actions |-> IF a \in S THEN [action[a] EXCEPT !.state = state] ELSE action[a]]
  BY DEF SetState
<1>5. action' \in [Actions -> Row]
  BY <1>1, <1>2, <1>4
<1> QED BY <1>2, <1>3, <1>5

\* The action the pass is at.
LEMMA CurrentType ==
  ASSUME TypeOK, pc \notin {"idle", "yield"}
  PROVE  Head(list) \in Listed /\ Current \in Actions /\ Current = Head(list).id
<1>1. list \in Seq(Listed) /\ list # <<>>
  BY DEF TypeOK
<1>2. Head(list) \in Listed
  BY <1>1, HeadTailProperties
<1> QED BY <1>2 DEF Current, Listed

\* Advance keeps the list typed, and stops at its end.
LEMMA AdvanceType ==
  ASSUME TypeOK, pc \notin {"idle", "yield"}, NEW how \in {"visit", "yield"}, Advance(how)
  PROVE  /\ list' \in Seq(Listed)
         /\ pc' \in {"idle", "visit", "yield"}
         /\ pc' \notin {"idle", "yield"} => list' # <<>>
         /\ up' \in BOOLEAN
<1>1. list \in Seq(Listed) /\ list # <<>>
  BY DEF TypeOK
<1> DEFINE rest == Tail(list)
           count == Len(list)
<1>2. rest \in Seq(Listed) /\ Len(rest) = count - 1 /\ count \in Nat
  BY <1>1, HeadTailProperties, LenProperties
<1>3. rest = <<>> => Len(rest) = 0
  BY EmptySeq
<1>4. count # 1 => rest # <<>>
  <2> HIDE DEF rest, count
  <2> QED BY <1>2, <1>3
<1> QED BY <1>2, <1>4 DEF Advance, TypeOK

\* The effect of closing an attempt.
LEMMA ClosesEffect ==
  ASSUME TypeOK, pc \notin {"idle", "yield"}, NEW state \in {"failed", "superseded", "stalled"},
         Closes(Current, state)
  PROVE  /\ action' \in [Actions -> Row]
         /\ \A a \in Actions : action'[a].gen = action[a].gen /\ action'[a].rep = action[a].rep
         /\ action'[Current].state \in Settled
         /\ State(Current) \in Settled => action'[Current] = action[Current]
         /\ \A a \in Actions \ {Current} : action'[a] = action[a]
         /\ attempt' = [attempt EXCEPT ![Current] = "closed"]
<1>1. Current \in Actions
  BY CurrentType
<1>2. CASE State(Current) \in Settled
  BY <1>1, <1>2 DEF Closes, TypeOK, Row, States, State
<1>3. CASE State(Current) \notin Settled
  <2>1. SetState({Current}, state)
    BY <1>3 DEF Closes
  <2>2. state \in States /\ state \in Settled /\ {Current} \in SUBSET Actions
    BY <1>1 DEF States, Settled
  <2> QED BY <1>1, <1>3, <2>1, <2>2, SetStateEffect DEF Closes
<1> QED BY <1>2, <1>3

\* The effect of a failed attempt.
LEMMA FailsEffect ==
  ASSUME TypeOK, pc \notin {"idle", "yield"}, NEW state \in {"failed", "superseded", "stalled"},
         Fails(Current, state)
  PROVE  /\ action' \in [Actions -> Row]
         /\ \A a \in Actions : action'[a].gen = action[a].gen /\ action'[a].rep = action[a].rep
         /\ action'[Current].state \in Settled
         /\ State(Current) \in Settled => action'[Current] = action[Current]
         /\ \A a \in Actions \ {Current} : action'[a] = action[a]
         /\ attempt' = [attempt EXCEPT ![Current] = "closed"]
         /\ Advance("yield")
<1>1. Closes(Current, state) /\ Advance("yield")
  BY DEF Fails
<1> QED BY <1>1, ClosesEffect

-----------------------------------------------------------------------------

\* The initial state is well typed.
LEMMA InitType == Init => TypeOK
<1> SUFFICES ASSUME Init PROVE TypeOK
  OBVIOUS
<1>1. list \in Seq(Listed)
  BY EmptySeq DEF Init
<1> QED BY <1>1, Ranges DEF Init, TypeOK, NoRun

\* The rows of the run.
RunRow == [gen : 0..MaxRuns, live : BOOLEAN, rep : 0..MaxReporters, bound : BOOLEAN,
           ready : {"wait", "ready", "refuse"}]

\* Requests keep the variables in their domains.
LEMMA RequestType == TypeOK /\ Request => TypeOK'
<1> SUFFICES ASSUME TypeOK, NEW a \in Actions, Create(a) \/ Cancel(a) \/ Deny(a) PROVE TypeOK'
  BY DEF Request
<1>1. CASE Create(a)
  <2>1. [state |-> "created", gen |-> run.gen, rep |-> run.rep] \in Row
    BY DEF TypeOK, Row, States, Unsettled, Queued
  <2>2. action' \in [Actions -> Row]
    BY <1>1, <2>1 DEF Create, TypeOK, Row, States
  <2> QED BY <1>1, <2>2 DEF Create, TypeOK, clocks, target, daemon, Row, States
<1>2. CASE Cancel(a)
  <2>1. action' \in [Actions -> Row]
    BY <1>2, SetStateEffect DEF Cancel, States, Settled
  <2> QED BY <1>2, <2>1 DEF Cancel, TypeOK, clocks, target, daemon, Row, States
<1>3. CASE Deny(a)
  BY <1>3 DEF Deny, TypeOK, rows, clocks, target, daemon
<1> QED BY <1>1, <1>2, <1>3

\* The list a tick makes is typed.
LEMMA TickType == TypeOK /\ Tick => TypeOK'
<1> SUFFICES ASSUME TypeOK, Tick PROVE TypeOK'
  OBVIOUS
<1>1. action' \in [Actions -> Row] /\ \A a \in Actions : State(a) # "none" => action'[a].state # "none"
  <2>1. Ambiguous \in SUBSET Actions
    BY DEF Ambiguous, TypeOK
  <2>2. "settled-unverified" \in States /\ "settled-unverified" # "none"
    BY DEF States, Settled
  <2>3. SetState(Ambiguous, "settled-unverified")
    BY DEF Tick
  <2>4. action' \in [Actions -> Row]
    BY <2>1, <2>2, <2>3, SetStateEffect
  <2>5. /\ \A a \in Ambiguous : action'[a].state = "settled-unverified"
        /\ \A a \in Actions \ Ambiguous : action'[a] = action[a]
    BY <2>1, <2>2, <2>3, SetStateEffect
  <2>6. ASSUME NEW a \in Actions, State(a) # "none" PROVE action'[a].state # "none"
    BY <2>5, <2>6 DEF State
  <2> QED BY <2>4, <2>6
<1>2. PICK n \in Actions :
        /\ \A a \in Actions : State(a) # "none" <=> a <= n
        /\ list' = [a \in 1..n |-> [id |-> a, state |-> action'[a].state, overdue |-> overdue[a]]]
  BY DEF Tick
<1>3. n \in Nat /\ n # 0 /\ 1..n \subseteq Actions
  BY ActionsAssumption DEF ActionsAssumption, Actions
<1>4. ASSUME NEW a \in 1..n
      PROVE  [id |-> a, state |-> action'[a].state, overdue |-> overdue[a]] \in Listed
  <2>1. a \in Actions /\ a <= n
    BY <1>3
  <2>2. action'[a].state # "none"
    BY <1>1, <1>2, <2>1
  <2>3. action'[a].state \in Unsettled \cup Settled
    BY <1>1, <2>1, <2>2 DEF Row, States
  <2> QED BY <2>1, <2>3 DEF Listed, TypeOK
<1>5. list' \in Seq(Listed) /\ Len(list') = n
  BY <1>2, <1>3, <1>4
<1>6. list' # <<>>
  BY <1>3, <1>5
<1> QED BY <1>1, <1>5, <1>6 DEF Tick, TypeOK, clocks, target, Row, States

\* A transition of the pass.
LEMMA ResolveType ==
  ASSUME TypeOK, pc = "visit", NEW state \in States, NEW how \in {"visit", "yield"},
         Resolve(Head(list), state, how),
         UNCHANGED <<clocks, denied, target, crashes, entered>>
  PROVE  TypeOK'
<1>1. Head(list).id \in Actions
  BY CurrentType DEF Listed
<1>2. CASE AsListed(Head(list))
  <2>1. SetState({Head(list).id}, state) /\ Advance(how) /\ UNCHANGED attempt
    BY <1>2 DEF Resolve
  <2>2. action' \in [Actions -> Row]
    BY <1>1, <2>1, SetStateEffect
  <2>3. /\ list' \in Seq(Listed) /\ pc' \in {"idle", "visit", "yield"}
        /\ pc' \notin {"idle", "yield"} => list' # <<>> /\ up' \in BOOLEAN
    BY <2>1, AdvanceType
  <2>4. up' \in BOOLEAN
    BY <2>1 DEF Advance, TypeOK
  <2> QED BY <2>1, <2>2, <2>3, <2>4 DEF TypeOK, clocks, target, Row, States
<1>3. CASE ~ AsListed(Head(list))
  <2>1. <<>> \in Seq(Listed)
    BY EmptySeq
  <2> QED BY <1>3, <2>1 DEF Resolve, Abort, TypeOK, rows, clocks, target
<1> QED BY <1>2, <1>3

\* An iteration keeps the variables in their domains.
LEMMA VisitType == TypeOK /\ Visit => TypeOK'
<1> SUFFICES ASSUME TypeOK, Visit PROVE TypeOK'
  OBVIOUS
<1>1. pc = "visit" /\ UNCHANGED <<clocks, denied, target, crashes, entered>>
  BY DEF Visit
<1>2. Head(list).id \in Actions
  BY <1>1, CurrentType DEF Listed
<1>3. ASSUME NEW state \in {"cancelled", "expired", "superseded", "deferred", "rejected", "stalled",
                           "timed-out"},
             NEW how \in {"visit", "yield"}, Resolve(Head(list), state, how)
      PROVE  TypeOK'
  <2>1. state \in States
    BY DEF States, Settled, Unsettled, Queued
  <2> QED BY <1>1, <1>3, <2>1, ResolveType
<1>4. ASSUME NEW how \in {"visit", "yield"}, Advance(how), UNCHANGED rows PROVE TypeOK'
  <2>1. /\ list' \in Seq(Listed) /\ pc' \in {"idle", "visit", "yield"} /\ up' \in BOOLEAN
        /\ pc' \notin {"idle", "yield"} => list' # <<>>
    BY <1>1, <1>4, AdvanceType
  <2> QED BY <1>1, <1>4, <2>1 DEF TypeOK, rows, clocks, target
<1>5. CASE Begin(Head(list).id)
  <2>1. CASE Startable(Head(list).id)
    <3>1. /\ attempt' = [attempt EXCEPT ![Head(list).id] = "submitting"]
          /\ pc' = "verify"
          /\ UNCHANGED <<action, up, list>>
      BY <1>5, <2>1 DEF Begin
    <3>2. attempt' \in [Actions -> {"none", "submitting", "submitted", "closed"}]
      BY <1>2, <3>1 DEF TypeOK
    <3>3. list # <<>>
      BY <1>1 DEF TypeOK
    <3> QED BY <1>1, <3>1, <3>2, <3>3 DEF TypeOK, clocks, target
  <2>2. CASE ~ Startable(Head(list).id)
    <3>1. <<>> \in Seq(Listed)
      BY EmptySeq
    <3> QED BY <1>1, <1>5, <2>2, <3>1 DEF Begin, Abort, TypeOK, rows, clocks, target
  <2> QED BY <2>1, <2>2
<1> QED BY <1>3, <1>4, <1>5 DEF Visit

\* The steps of a dispatch keep the variables in their domains.
LEMMA DispatchType ==
  TypeOK /\ (Resume \/ Verify \/ Observe \/ Paste \/ Commit \/ SettleCommit) => TypeOK'
<1> SUFFICES ASSUME TypeOK, Resume \/ Verify \/ Observe \/ Paste \/ Commit \/ SettleCommit PROVE TypeOK'
  OBVIOUS
<1>1. CASE Resume
  BY <1>1 DEF Resume, TypeOK, rows, clocks, target
<1>2. pc \notin {"idle", "yield"} \/ Resume
  BY DEF Verify, Observe, Paste, Commit, SettleCommit
<1>3. ASSUME pc \notin {"idle", "yield"}, NEW state \in {"failed", "superseded", "stalled"},
             Fails(Current, state),
             UNCHANGED <<clocks, denied, target, crashes, entered>>
      PROVE  TypeOK'
  <2>1. /\ action' \in [Actions -> Row] /\ Advance("yield")
        /\ attempt' = [attempt EXCEPT ![Current] = "closed"]
    BY <1>3, FailsEffect
  <2>2. /\ list' \in Seq(Listed) /\ pc' \in {"idle", "visit", "yield"} /\ up' \in BOOLEAN
        /\ pc' \notin {"idle", "yield"} => list' # <<>>
    BY <1>3, <2>1, AdvanceType
  <2>3. attempt' \in [Actions -> {"none", "submitting", "submitted", "closed"}]
    BY <1>3, <2>1, CurrentType DEF TypeOK
  <2>4. /\ leaseDue' = leaseDue /\ overdue' = overdue /\ denied' = denied /\ run' = run
        /\ epochs' = epochs /\ crashes' = crashes /\ entered' = entered
    BY <1>3 DEF clocks, target
  <2>5. action' \in [Actions -> [state : {"none"} \cup Unsettled \cup Settled,
                                 gen : 0..MaxRuns, rep : 0..MaxReporters]]
    BY <2>1 DEF Row, States
  <2>6. pc' \in {"idle", "visit", "yield", "verify", "observe", "paste", "commit"}
    BY <2>2
  <2> QED BY <2>2, <2>3, <2>4, <2>5, <2>6 DEF TypeOK
<1>4. ASSUME pc \notin {"idle", "yield"}, pc' \in {"observe", "paste"},
             UNCHANGED <<rows, clocks, denied, target, up, list, crashes, entered>>
      PROVE  TypeOK'
  BY <1>4 DEF TypeOK, rows, clocks, target
<1>5. CASE Verify \/ Observe
  BY <1>3, <1>4, <1>5 DEF Verify, Observe
<1>6. CASE Paste
  <2>1. CASE Fails(Current, "failed") /\ UNCHANGED entered
    BY <1>3, <1>6, <2>1 DEF Paste
  <2>2. CASE entered' = [entered EXCEPT ![Current] = @ + 1] /\ pc' = "commit"
             /\ UNCHANGED <<rows, up, list>>
    <3>1. Current \in Actions
      BY <1>6, CurrentType DEF Paste
    <3> QED BY <1>6, <2>2, <3>1 DEF Paste, TypeOK, rows, clocks, target
  <2> QED BY <1>6, <2>1, <2>2 DEF Paste
<1>8. CASE SettleCommit
  <2>1. Current \in Actions /\ pc \notin {"idle", "yield"}
    BY <1>8, CurrentType DEF SettleCommit
  <2>2. action' \in [Actions -> Row]
    BY <1>8, <2>1, SetStateEffect DEF SettleCommit, States, Settled
  <2>3. /\ list' \in Seq(Listed) /\ pc' \in {"idle", "visit", "yield"}
        /\ pc' \notin {"idle", "yield"} => list' # <<>> /\ up' \in BOOLEAN
    BY <1>8, <2>1, AdvanceType DEF SettleCommit
  <2> QED BY <1>8, <2>2, <2>3 DEF SettleCommit, TypeOK, clocks, target, Row, States, Advance
<1>7. CASE Commit
  <2>1. CASE Fails(Current, "failed")
    BY <1>3, <1>7, <2>1 DEF Commit
  <2>2. CASE SetState({Current}, "submitted") /\ Advance("yield")
             /\ attempt' = [attempt EXCEPT ![Current] = "submitted"]
    <3>1. Current \in Actions /\ pc \notin {"idle", "yield"}
      BY <1>7, CurrentType DEF Commit
    <3>2. action' \in [Actions -> Row]
      BY <2>2, <3>1, SetStateEffect DEF States, Unsettled
    <3>3. /\ list' \in Seq(Listed) /\ pc' \in {"idle", "visit", "yield"}
          /\ pc' \notin {"idle", "yield"} => list' # <<>> /\ up' \in BOOLEAN
      BY <2>2, <3>1, AdvanceType
    <3> QED BY <1>7, <2>2, <3>2, <3>3 DEF Commit, TypeOK, clocks, target, Row, States, Advance
  <2>3. CASE Fails(Current, "stalled")
    BY <1>3, <1>7, <2>3 DEF Commit
  <2>4. CASE Closes(Current, "stalled") /\ pc' = "settle" /\ UNCHANGED <<up, list>>
    <3>1. Current \in Actions /\ pc \notin {"idle", "yield"}
      BY <1>7, CurrentType DEF Commit
    <3>2. action' \in [Actions -> Row] /\ attempt' = [attempt EXCEPT ![Current] = "closed"]
      BY <2>4, <3>1, ClosesEffect
    <3> QED BY <1>7, <2>4, <3>1, <3>2 DEF Commit, TypeOK, clocks, target, Row, States
  <2> QED BY <1>7, <2>1, <2>2, <2>3, <2>4 DEF Commit, MarkRefused
<1> QED BY <1>1, <1>4, <1>5, <1>6, <1>7, <1>8

\* The agent and its run keep the variables in their domains.
LEMMA AgentType == TypeOK /\ Agent => TypeOK'
<1> SUFFICES ASSUME TypeOK, Agent PROVE TypeOK'
  OBVIOUS
<1> USE DEF Row, States
<1>1. ASSUME NEW a \in Actions, NEW kind \in AckKinds, Acknowledge(a, kind) PROVE TypeOK'
  <2>1. kind \in States
    BY DEF AckKinds, InWork, Unsettled, Settled
  <2>2. action' \in [Actions -> Row]
    BY <1>1, <2>1, SetStateEffect DEF Acknowledge
  <2> QED BY <1>1, <2>2 DEF Acknowledge, TypeOK, clocks, target, daemon
<1>2. CASE RunStarts
  <2>1. action' \in [Actions -> Row]
    <3>1. {a \in Actions : State(a) \in Unsettled} \in SUBSET Actions /\ "superseded" \in States
      BY DEF Settled
    <3> QED BY <1>2, <3>1, SetStateEffect DEF RunStarts
  <2>2. run' \in RunRow
    <3>1. run.gen + 1 \in 0..MaxRuns
      BY <1>2, ActionsAssumption DEF RunStarts, TypeOK, ActionsAssumption
    <3> QED BY <1>2, <3>1, Ranges DEF RunStarts, NoRun, RunRow
  <2> QED BY <1>2, <2>1, <2>2 DEF RunStarts, TypeOK, clocks, daemon, RunRow
<1>3. CASE RunEnds
  <2>1. action' \in [Actions -> Row]
    <3>1. EndedWith \in SUBSET Actions /\ "superseded" \in States /\ "failed" \in States
      BY DEF Settled, EndedWith
    <3> QED BY <1>3, <3>1, SetStateEffect DEF RunEnds
  <2>2. run' \in RunRow
    BY <1>3, Ranges DEF RunEnds, NoRun, RunRow, TypeOK
  <2> QED BY <1>3, <2>1, <2>2 DEF RunEnds, TypeOK, clocks, daemon, RunRow
<1>4. CASE SessionReady
  <2>1. epochs + 1 \in 0..MaxReporters
    BY <1>4, ActionsAssumption DEF SessionReady, TypeOK, ActionsAssumption
  <2>2. run' \in RunRow
    BY <1>4, <2>1 DEF SessionReady, RunRow, TypeOK
  <2> QED BY <1>4, <2>1, <2>2 DEF SessionReady, TypeOK, rows, clocks, daemon, RunRow
<1>5. CASE AuthorityRevoked
  <2>1. run' \in RunRow
    BY <1>5, Ranges DEF AuthorityRevoked, RunRow, TypeOK
  <2> QED BY <1>5, <2>1 DEF AuthorityRevoked, TypeOK, rows, clocks, daemon, RunRow
<1>6. CASE StatusChanges
  <2>1. run' \in RunRow
    BY <1>6 DEF StatusChanges, RunRow, TypeOK
  <2> QED BY <1>6, <2>1 DEF StatusChanges, TypeOK, rows, clocks, daemon, RunRow
<1>7. CASE ProcessReplaced
  <2>1. run' \in RunRow
    BY <1>7 DEF ProcessReplaced, RunRow, TypeOK
  <2> QED BY <1>7, <2>1 DEF ProcessReplaced, TypeOK, rows, clocks, daemon, RunRow
<1> QED BY <1>1, <1>2, <1>3, <1>4, <1>5, <1>6, <1>7 DEF Agent

\* Every step keeps the variables in their domains.
LEMMA NextType == TypeOK /\ [Next]_vars => TypeOK'
<1> SUFFICES ASSUME TypeOK, [Next]_vars PROVE TypeOK'
  OBVIOUS
<1>1. CASE UNCHANGED vars
  BY <1>1 DEF TypeOK, vars, rows, clocks, target, daemon
<1>2. CASE Clock
  <2>1. ASSUME NEW a \in Actions, LeaseExpires(a) PROVE TypeOK'
    BY <2>1 DEF LeaseExpires, TypeOK, rows, target, daemon
  <2>2. ASSUME NEW a \in Actions, NEW d \in Deadlines, DeadlinePasses(a, d) PROVE TypeOK'
    <3>1. overdue' \in [Actions -> SUBSET Deadlines]
      BY <2>2 DEF DeadlinePasses, TypeOK
    <3> QED BY <2>2, <3>1 DEF DeadlinePasses, TypeOK, rows, target, daemon
  <2> QED BY <1>2, <2>1, <2>2 DEF Clock
<1>3. CASE Crash \/ Boot
  <2>1. <<>> \in Seq(Listed)
    BY EmptySeq
  <2>2. crashes < MaxCrashes => crashes + 1 \in 0..MaxCrashes
    BY ActionsAssumption DEF TypeOK, ActionsAssumption
  <2> QED BY <1>3, <2>1, <2>2 DEF Crash, Boot, TypeOK, rows, clocks, target
<1>4. CASE PassStep
  BY <1>4, VisitType, DispatchType DEF PassStep
<1> QED BY <1>1, <1>2, <1>3, <1>4, RequestType, TickType, AgentType DEF Next

\* The variables stay in their domains.
THEOREM TypeCorrect == Spec => []TypeOK
BY InitType, NextType, PTL DEF Spec

-----------------------------------------------------------------------------
(* LiveTargets is inductive. *)

\* A step that moves one action to any state, and leaves the run alone, keeps
\* LiveTargets when that action was unsettled or becomes settled.
LEMMA OneMoved ==
  ASSUME TypeOK, LiveTargets, UNCHANGED run, NEW b \in Actions,
         action' \in [Actions -> Row],
         \A a \in Actions \ {b} : action'[a] = action[a],
         action'[b].gen = action[b].gen,
         action'[b].state \in Settled \/ State(b) \in Unsettled
  PROVE  LiveTargets'
<1>1. Unsettled \cap Settled = {}
  BY DEF Unsettled, Settled, Queued, InWork
<1> QED BY <1>1 DEF LiveTargets, State

\* Every step keeps LiveTargets.
LEMMA NextLive == TypeOK /\ LiveTargets /\ [Next]_vars => LiveTargets'
<1> SUFFICES ASSUME TypeOK, LiveTargets, [Next]_vars PROVE LiveTargets'
  OBVIOUS
<1>1. ASSUME UNCHANGED <<action, run>> PROVE LiveTargets'
  BY <1>1 DEF LiveTargets, State
<1>2. ASSUME NEW b \in Actions, NEW state \in States, SetState({b}, state), UNCHANGED run,
             state \in Settled \/ State(b) \in Unsettled
      PROVE  LiveTargets'
  <2>1. /\ action' \in [Actions -> Row]
        /\ \A a \in Actions : action'[a].gen = action[a].gen
        /\ \A a \in {b} : action'[a].state = state
        /\ \A a \in Actions \ {b} : action'[a] = action[a]
    BY <1>2, SetStateEffect
  <2> QED BY <1>2, <2>1, OneMoved
<1>3. ASSUME NEW state \in {"failed", "superseded", "stalled"}, pc \notin {"idle", "yield"},
             Closes(Current, state), UNCHANGED run
      PROVE  LiveTargets'
  BY <1>3, ClosesEffect, CurrentType, OneMoved
<1>4. ASSUME NEW a \in Actions, Create(a) PROVE LiveTargets'
  BY <1>4 DEF Create, LiveTargets, State, target, TypeOK
<1>5. ASSUME NEW a \in Actions, Cancel(a) PROVE LiveTargets'
  BY <1>2, <1>5 DEF Cancel, target, States, Settled
<1>6. CASE Tick
  <2>1. Ambiguous \in SUBSET Actions /\ "settled-unverified" \in States
    BY DEF Ambiguous, TypeOK, States, Settled
  <2>2. "settled-unverified" \notin Unsettled
    BY DEF Unsettled, Queued, InWork
  <2>3. /\ \A a \in Actions : action'[a].gen = action[a].gen
        /\ \A a \in Ambiguous : action'[a].state = "settled-unverified"
        /\ \A a \in Actions \ Ambiguous : action'[a] = action[a]
    BY <1>6, <2>1, SetStateEffect DEF Tick
  <2>4. run' = run
    BY <1>6 DEF Tick, target
  <2> QED BY <2>2, <2>3, <2>4 DEF LiveTargets, State
<1>7. CASE Visit
  <2>1. pc = "visit" /\ UNCHANGED run /\ Head(list).id \in Actions
    BY <1>7, CurrentType DEF Visit, target, Listed
  <2>2. ASSUME NEW state \in {"cancelled", "expired", "superseded", "rejected", "stalled",
                             "timed-out", "deferred"},
               NEW how \in {"visit", "yield"}, Resolve(Head(list), state, how),
               state \in Settled \/ Head(list).state \in Unsettled
        PROVE  LiveTargets'
    <3>1. state \in States
      BY DEF States, Settled, Unsettled, Queued
    <3>2. CASE AsListed(Head(list))
      BY <1>2, <2>1, <2>2, <3>1, <3>2 DEF Resolve, AsListed
    <3> QED BY <1>1, <2>1, <2>2, <3>2 DEF Resolve, Abort, rows
  <2>3. ASSUME Begin(Head(list).id) PROVE LiveTargets'
    BY <1>1, <2>1, <2>3 DEF Begin, Abort, rows
  <2>4. {"cancelled", "expired", "superseded", "rejected", "stalled", "timed-out"} \subseteq Settled
        /\ Queued \subseteq Unsettled
    BY DEF Settled, Unsettled
  <2> QED BY <1>1, <1>7, <2>1, <2>2, <2>3, <2>4 DEF Visit, rows
<1>8. CASE Verify \/ Observe \/ Paste
  BY <1>1, <1>3, <1>8 DEF Verify, Observe, Paste, Fails, rows, target
<1>17. CASE SettleCommit
  <2>1. Current \in Actions /\ "settled-unverified" \in States \cap Settled
    BY <1>17, CurrentType DEF SettleCommit, States, Settled
  <2> QED BY <1>2, <1>17, <2>1 DEF SettleCommit, target
<1>9. CASE Commit
  <2>1. Current \in Actions
    BY <1>9, CurrentType DEF Commit
  <2>2. CASE Closes(Current, "failed") \/ Closes(Current, "stalled")
    BY <1>3, <1>9, <2>2 DEF Commit, target
  <2>3. CASE Committable(Current) /\ SetState({Current}, "submitted")
    BY <1>2, <1>9, <2>1, <2>3 DEF Commit, Committable, target, States, Unsettled
  <2> QED BY <1>9, <2>2, <2>3 DEF Commit, MarkRefused, Fails
<1>10. ASSUME NEW a \in Actions, NEW kind \in AckKinds, Acknowledge(a, kind) PROVE LiveTargets'
  <2>1. kind \in States
    BY DEF AckKinds, InWork, Unsettled, Settled, States
  <2>2. State(a) \in Unsettled
    BY <1>10 DEF Acknowledge, Acknowledgeable, Unsettled
  <2> QED BY <1>2, <1>10, <2>1, <2>2 DEF Acknowledge, target
<1>11. CASE RunStarts
  <2>1. {a \in Actions : State(a) \in Unsettled} \in SUBSET Actions
        /\ "superseded" \in States /\ "superseded" \notin Unsettled
    BY DEF States, Settled, Unsettled, Queued, InWork
  <2>2. SetState({a \in Actions : State(a) \in Unsettled}, "superseded")
    BY <1>11 DEF RunStarts
  <2>3. /\ \A a \in {b \in Actions : State(b) \in Unsettled} : action'[a].state = "superseded"
        /\ \A a \in Actions \ {b \in Actions : State(b) \in Unsettled} : action'[a] = action[a]
    BY <2>1, <2>2, SetStateEffect
  <2>4. ASSUME NEW a \in Actions PROVE action'[a].state \notin Unsettled
    <3>1. CASE State(a) \in Unsettled
      BY <2>1, <2>3, <3>1
    <3>2. CASE State(a) \notin Unsettled
      BY <2>3, <3>2 DEF State
    <3> QED BY <3>1, <3>2
  <2> QED BY <2>4 DEF LiveTargets, State
<1>12. CASE RunEnds
  <2>1. EndedWith \in SUBSET Actions /\ {"superseded", "failed"} \subseteq States
        /\ {"superseded", "failed"} \cap Unsettled = {}
    BY DEF EndedWith, States, Settled, Unsettled, Queued, InWork
  <2>2. \A a \in Actions : State(a) \in Unsettled => a \in EndedWith
    BY DEF LiveTargets, EndedWith
  <2>3. PICK state \in {"superseded", "failed"} : SetState(EndedWith, state)
    BY <1>12 DEF RunEnds
  <2>4. /\ \A a \in EndedWith : action'[a].state = state
        /\ \A a \in Actions \ EndedWith : action'[a] = action[a]
    BY <2>1, <2>3, SetStateEffect
  <2>5. \A a \in Actions : action'[a].state \notin Unsettled
    BY <2>1, <2>2, <2>4 DEF State
  <2> QED BY <2>5 DEF LiveTargets, State
<1>13. CASE SessionReady \/ AuthorityRevoked \/ StatusChanges \/ ProcessReplaced
  BY <1>13 DEF SessionReady, AuthorityRevoked, StatusChanges, ProcessReplaced, LiveTargets, State,
              rows, TypeOK
<1>14. CASE Clock \/ Crash \/ Boot \/ Resume
  BY <1>1, <1>14 DEF Clock, LeaseExpires, DeadlinePasses, Crash, Boot, Resume, rows, target
<1>15. CASE \E a \in Actions : Deny(a)
  BY <1>1, <1>15 DEF Deny, rows, target
<1>16. CASE UNCHANGED vars
  BY <1>1, <1>16 DEF vars, rows, target
<1> QED BY <1>4, <1>5, <1>6, <1>7, <1>8, <1>9, <1>10, <1>11, <1>12, <1>13, <1>14, <1>15, <1>16, <1>17
        DEF Next, Request, PassStep, Agent

\* What is unsettled names the current run.
THEOREM TargetsLive == Spec => []LiveTargets
<1>1. Init => LiveTargets
  BY DEF Init, LiveTargets, State, Unsettled, Queued, InWork
<1> QED BY <1>1, NextLive, TypeCorrect, PTL DEF Spec

-----------------------------------------------------------------------------
(* Submissions: the inductive invariant, and outcomes. *)

Reported == {"submitted", "completed"} \cup InWork

\* An action has one attempt: it starts when nothing was submitted, the pass holds it
\* until it ends, and an attempt that ended leaves the action out of the queue.
AttemptInv ==
  /\ \A a \in Actions : State(a) = "none" => attempt[a] = "none"
  /\ \A a \in Actions : attempt[a] = "none" => entered[a] = 0
  /\ \A a \in Actions : attempt[a] \in {"submitted", "closed"} => State(a) \notin Queued
  /\ \A a \in Actions : attempt[a] = "submitted" => entered[a] = 1
  /\ \A a \in Actions : State(a) \in Reported => attempt[a] = "submitted"

\* The attempt the pass is busy with.
CurrentInv ==
  /\ pc \in {"verify", "observe", "paste", "commit"} => attempt[Current] = "submitting"
  /\ pc \in {"verify", "observe", "paste"} => entered[Current] = 0
  /\ pc = "commit" => entered[Current] = 1

SubmissionInv == EnteredOnce /\ AttemptInv /\ CurrentInv

\* States that change while attempts and prompts do not.
LEMMA StatesMoved ==
  ASSUME TypeOK, AttemptInv, NEW S \in SUBSET Actions, NEW state \in States \ {"none"},
         SetState(S, state), UNCHANGED <<attempt, entered>>,
         \A a \in S : state \in Queued => State(a) \in Queued,
         \A a \in S : state \in Reported => attempt[a] = "submitted"
  PROVE  AttemptInv'
<1>1. /\ \A a \in S : action'[a].state = state
      /\ \A a \in Actions \ S : action'[a] = action[a]
  BY SetStateEffect
<1>2. ASSUME NEW a \in Actions
      PROVE  /\ action'[a].state = "none" => attempt[a] = "none"
             /\ attempt[a] \in {"submitted", "closed"} => action'[a].state \notin Queued
             /\ action'[a].state \in Reported => attempt[a] = "submitted"
  <2>1. CASE a \in S
    BY <1>1, <2>1 DEF AttemptInv
  <2>2. CASE a \notin S
    BY <1>1, <2>2 DEF AttemptInv, State
  <2> QED BY <2>1, <2>2
<1> QED BY <1>2 DEF AttemptInv, State

\* An attempt that is closed.
LEMMA ClosesSubmission ==
  ASSUME TypeOK, SubmissionInv, pc \in {"verify", "observe", "paste", "commit"},
         NEW state \in {"failed", "superseded", "stalled"}, Closes(Current, state), UNCHANGED entered,
         pc' \notin {"verify", "observe", "paste", "commit"}
  PROVE  SubmissionInv'
<1>1. Current \in Actions /\ attempt[Current] = "submitting"
  BY CurrentType DEF SubmissionInv, CurrentInv
<1>2. /\ action'[Current].state \in Settled
      /\ State(Current) \in Settled => action'[Current] = action[Current]
      /\ \A a \in Actions \ {Current} : action'[a] = action[a]
      /\ attempt' = [attempt EXCEPT ![Current] = "closed"]
  BY ClosesEffect
<1>3. State(Current) \notin Reported
  BY <1>1 DEF SubmissionInv, AttemptInv
<1>4. action'[Current].state \notin Reported
  <2>1. CASE State(Current) \in Settled
    BY <1>2, <1>3, <2>1 DEF State
  <2>2. CASE State(Current) \notin Settled
    <3>1. SetState({Current}, state) /\ state \in States /\ {Current} \in SUBSET Actions
      BY <1>1, <2>2 DEF Closes, States, Settled
    <3>2. action'[Current].state = state
      BY <3>1, SetStateEffect
    <3> QED BY <3>2 DEF Reported, InWork
  <2> QED BY <2>1, <2>2
<1>5. action'[Current].state \notin Queued \cup {"none"}
  BY <1>2 DEF Settled, Queued
<1> DEFINE c == Current
<1>6. /\ \A a \in Actions \ {c} : attempt'[a] = attempt[a]
      /\ attempt'[c] = "closed"
  BY <1>1, <1>2 DEF TypeOK
<1>7. AttemptInv'
  <2> HIDE DEF c
  <2>1. ASSUME NEW a \in Actions
        PROVE  /\ action'[a].state = "none" => attempt'[a] = "none"
               /\ attempt'[a] = "none" => entered[a] = 0
               /\ attempt'[a] \in {"submitted", "closed"} => action'[a].state \notin Queued
               /\ attempt'[a] = "submitted" => entered[a] = 1
               /\ action'[a].state \in Reported => attempt'[a] = "submitted"
    <3>1. CASE a = c
      BY <1>4, <1>5, <1>6, <3>1 DEF c
    <3>2. CASE a # c
      <4>1. action'[a].state = State(a) /\ attempt'[a] = attempt[a]
        BY <1>2, <1>6, <3>2 DEF State, c
      <4> QED BY <4>1 DEF SubmissionInv, AttemptInv
    <3> QED BY <3>1, <3>2
  <2> QED BY <2>1 DEF AttemptInv, State
<1>8. CurrentInv'
  BY DEF CurrentInv
<1> QED BY <1>7, <1>8 DEF SubmissionInv, EnteredOnce

\* An attempt that fails.
LEMMA FailsSubmission ==
  ASSUME TypeOK, SubmissionInv, pc \in {"verify", "observe", "paste", "commit"},
         NEW state \in {"failed", "superseded", "stalled"}, Fails(Current, state), UNCHANGED entered
  PROVE  SubmissionInv'
<1>1. Closes(Current, state) /\ pc' \notin {"verify", "observe", "paste", "commit"}
  BY DEF Fails, Advance
<1> QED BY <1>1, ClosesSubmission

\* Requests, the agent and its run only move states.
LEMMA OutsideSubmission ==
  ASSUME TypeOK, SubmissionInv, Request \/ Agent \/ Clock \/ Crash \/ Boot \/ Resume
  PROVE  SubmissionInv'
<1>1. ASSUME UNCHANGED <<rows, entered>>, UNCHANGED <<pc, list>> \/ pc' \in {"idle", "visit"}
      PROVE  SubmissionInv'
  BY <1>1 DEF SubmissionInv, EnteredOnce, AttemptInv, CurrentInv, State, Current, rows
<1>2. ASSUME NEW S \in SUBSET Actions, NEW state \in States \ {"none"},
             SetState(S, state), UNCHANGED <<attempt, entered, pc, list>>,
             \A a \in S : state \in Queued => State(a) \in Queued,
             \A a \in S : state \in Reported => attempt[a] = "submitted"
      PROVE  SubmissionInv'
  <2>1. AttemptInv'
    BY <1>2, StatesMoved DEF SubmissionInv
  <2> QED BY <1>2, <2>1 DEF SubmissionInv, EnteredOnce, CurrentInv, Current
<1>3. ASSUME NEW a \in Actions, Create(a) PROVE SubmissionInv'
  <2>1. /\ action'[a].state = "created" /\ State(a) = "none"
        /\ \A b \in Actions \ {a} : action'[b] = action[b]
        /\ UNCHANGED <<attempt, entered, pc, list>>
    BY <1>3 DEF Create, TypeOK, daemon
  <2>2. AttemptInv'
    <3>1. ASSUME NEW b \in Actions
          PROVE  /\ action'[b].state = "none" => attempt[b] = "none"
                 /\ attempt[b] \in {"submitted", "closed"} => action'[b].state \notin Queued
                 /\ action'[b].state \in Reported => attempt[b] = "submitted"
      <4>1. CASE b = a
        BY <2>1, <4>1 DEF SubmissionInv, AttemptInv, Reported, InWork
      <4>2. CASE b # a
        <5>1. action'[b].state = State(b)
          BY <2>1, <4>2 DEF State
        <5> QED BY <5>1 DEF SubmissionInv, AttemptInv
      <4> QED BY <4>1, <4>2
    <3> QED BY <2>1, <3>1 DEF SubmissionInv, AttemptInv, State
  <2> QED BY <2>1, <2>2 DEF SubmissionInv, EnteredOnce, CurrentInv, Current
<1>4. {"cancelled", "superseded", "failed"} \subseteq States \ ({"none"} \cup Queued \cup Reported)
  BY DEF States, Settled, Queued, Reported, InWork
<1>5. ASSUME NEW a \in Actions, Cancel(a) PROVE SubmissionInv'
  BY <1>2, <1>4, <1>5 DEF Cancel, daemon
<1>6. ASSUME NEW a \in Actions, NEW kind \in AckKinds, Acknowledge(a, kind) PROVE SubmissionInv'
  <2>1. kind \in States \ {"none"} /\ kind \notin Queued
    BY DEF AckKinds, InWork, Unsettled, Settled, States, Queued
  <2>2. attempt[a] = "submitted"
    BY <1>6 DEF Acknowledge, Acknowledgeable
  <2> QED BY <1>2, <1>6, <2>1, <2>2 DEF Acknowledge, daemon
<1>7. CASE RunStarts
  <2>1. {a \in Actions : State(a) \in Unsettled} \in SUBSET Actions
    OBVIOUS
  <2> QED BY <1>2, <1>4, <1>7, <2>1 DEF RunStarts, daemon
<1>8. CASE RunEnds
  <2>1. PICK state \in {"superseded", "failed"} : SetState(EndedWith, state)
    BY <1>8 DEF RunEnds
  <2>2. EndedWith \in SUBSET Actions
    BY DEF EndedWith
  <2> QED BY <1>2, <1>4, <1>8, <2>1, <2>2 DEF RunEnds, daemon
<1>9. CASE SessionReady \/ AuthorityRevoked \/ StatusChanges \/ ProcessReplaced \/ Resume
           \/ Crash \/ Boot \/ Clock
  BY <1>1, <1>9 DEF SessionReady, AuthorityRevoked, StatusChanges, ProcessReplaced, Resume, Crash,
                    Boot, Clock, LeaseExpires, DeadlinePasses, daemon
<1>10. ASSUME NEW a \in Actions, Deny(a) PROVE SubmissionInv'
  BY <1>1, <1>10 DEF Deny, daemon
<1> QED BY <1>3, <1>5, <1>6, <1>7, <1>8, <1>9, <1>10 DEF Request, Agent

\* An iteration of the pass starts an attempt only for what was never submitted.
LEMMA VisitSubmission == TypeOK /\ SubmissionInv /\ Visit => SubmissionInv'
<1> SUFFICES ASSUME TypeOK, SubmissionInv, Visit PROVE SubmissionInv'
  OBVIOUS
<1> DEFINE e == Head(list)
<1>1. pc = "visit" /\ UNCHANGED entered /\ e.id \in Actions
  BY CurrentType DEF Visit, Listed
<1>2. ASSUME UNCHANGED rows, pc' \in {"idle", "visit", "yield"} PROVE SubmissionInv'
  BY <1>1, <1>2 DEF SubmissionInv, EnteredOnce, AttemptInv, CurrentInv, State, rows
<1>3. ASSUME NEW state \in {"cancelled", "expired", "superseded", "deferred", "rejected", "stalled",
                           "timed-out"},
             NEW how \in {"visit", "yield"}, Resolve(e, state, how),
             state = "deferred" => e.state = "created"
      PROVE  SubmissionInv'
  <2>1. state \in States \ {"none"} /\ state \notin Reported /\ (state \in Queued => state = "deferred")
    BY DEF States, Settled, Unsettled, Queued, Reported, InWork
  <2>2. CASE AsListed(e)
    <3>1. SetState({e.id}, state) /\ Advance(how) /\ UNCHANGED attempt
      BY <1>3, <2>2 DEF Resolve
    <3>2. \A a \in {e.id} : state \in Queued => State(a) \in Queued
      BY <1>3, <2>1, <2>2 DEF AsListed, Queued
    <3>3. AttemptInv'
      <4>1. {e.id} \in SUBSET Actions
        BY <1>1
      <4> HIDE DEF e
      <4> QED BY <1>1, <2>1, <3>1, <3>2, <4>1, StatesMoved DEF SubmissionInv
    <3> QED BY <1>1, <3>1, <3>3 DEF SubmissionInv, EnteredOnce, CurrentInv, Advance
  <2> QED BY <1>2, <1>3, <2>2 DEF Resolve, Abort
<1>4. CASE Begin(e.id)
  <2>1. CASE Startable(e.id)
    <3>1. attempt[e.id] = "none"
      BY <1>1, <2>1 DEF Startable, SubmissionInv, AttemptInv, TypeOK
    <3>2. entered[e.id] = 0
      BY <1>1, <3>1 DEF SubmissionInv, AttemptInv
    <3>3. /\ attempt' = [attempt EXCEPT ![e.id] = "submitting"]
          /\ pc' = "verify" /\ UNCHANGED <<action, list>>
      BY <1>4, <2>1 DEF Begin
    <3>4. State(e.id) \in Queued
      BY <2>1 DEF Startable
    <3>5. AttemptInv'
      <4> HIDE DEF e
      <4> QED BY <1>1, <3>1, <3>2, <3>3, <3>4
              DEF SubmissionInv, AttemptInv, State, TypeOK, Queued, Reported, InWork
    <3>6. CurrentInv'
      BY <1>1, <3>2, <3>3 DEF CurrentInv, Current, TypeOK
    <3> QED BY <1>1, <3>5, <3>6 DEF SubmissionInv, EnteredOnce
  <2> QED BY <1>2, <1>4, <2>1 DEF Begin, Abort
<1> QED BY <1>2, <1>3, <1>4 DEF Visit, Advance

\* Every step keeps the invariant.
LEMMA NextSubmission == TypeOK /\ SubmissionInv /\ [Next]_vars => SubmissionInv'
<1> SUFFICES ASSUME TypeOK, SubmissionInv, [Next]_vars PROVE SubmissionInv'
  OBVIOUS
<1>1. CASE Tick
  <2>1. Ambiguous \in SUBSET Actions
    BY DEF Ambiguous, TypeOK
  <2>2. "settled-unverified" \in States \ {"none"} /\ "settled-unverified" \notin Queued \cup Reported
    BY DEF States, Settled, Queued, Reported, InWork
  <2>3. AttemptInv'
    BY <1>1, <2>1, <2>2, StatesMoved DEF Tick, SubmissionInv
  <2> QED BY <1>1, <2>3 DEF Tick, SubmissionInv, EnteredOnce, CurrentInv
<1>2. ASSUME UNCHANGED <<rows, list, entered>>, pc \in {"verify", "observe"},
             pc' \in {"observe", "paste"}
      PROVE  SubmissionInv'
  BY <1>2 DEF SubmissionInv, EnteredOnce, AttemptInv, CurrentInv, State, Current, rows
<1>3. CASE Verify
  BY <1>2, <1>3, FailsSubmission DEF Verify
<1>4. CASE Observe
  BY <1>2, <1>4, FailsSubmission DEF Observe
<1>5. CASE Paste
  <2>1. CASE Fails(Current, "failed") /\ UNCHANGED entered
    BY <1>5, <2>1, FailsSubmission DEF Paste
  <2>2. CASE entered' = [entered EXCEPT ![Current] = @ + 1] /\ pc' = "commit"
             /\ UNCHANGED <<rows, up, list>>
    <3>1. Current \in Actions /\ attempt[Current] = "submitting" /\ entered[Current] = 0
      BY <1>5, CurrentType DEF Paste, SubmissionInv, CurrentInv
    <3>2. entered'[Current] = 1 /\ Current' = Current /\ UNCHANGED <<action, attempt>>
          /\ \A a \in Actions \ {Current} : entered'[a] = entered[a]
      BY <2>2, <3>1 DEF TypeOK, Current, rows
    <3>3. EnteredOnce'
      BY <3>1, <3>2 DEF SubmissionInv, EnteredOnce
    <3>4. AttemptInv'
      BY <3>1, <3>2 DEF SubmissionInv, AttemptInv, State
    <3>5. CurrentInv'
      BY <2>2, <3>1, <3>2 DEF CurrentInv
    <3> QED BY <3>3, <3>4, <3>5 DEF SubmissionInv
  <2> QED BY <1>5, <2>1, <2>2 DEF Paste
<1>6. CASE Commit
  <2>1. CASE Fails(Current, "failed")
    BY <1>6, <2>1, FailsSubmission DEF Commit
  <2>2. CASE SetState({Current}, "submitted") /\ Advance("yield")
             /\ attempt' = [attempt EXCEPT ![Current] = "submitted"]
    <3>1. Current \in Actions /\ attempt[Current] = "submitting" /\ entered[Current] = 1
      BY <1>6, CurrentType DEF Commit, SubmissionInv, CurrentInv
    <3>2. /\ action'[Current].state = "submitted"
          /\ \A a \in Actions \ {Current} : action'[a] = action[a]
      <4>1. {Current} \in SUBSET Actions /\ "submitted" \in States
        BY <3>1 DEF States, Unsettled
      <4>2. /\ \A a \in {Current} : action'[a].state = "submitted"
            /\ \A a \in Actions \ {Current} : action'[a] = action[a]
        BY <2>2, <4>1, SetStateEffect
      <4> QED BY <4>2
    <3>3. /\ attempt'[Current] = "submitted" /\ UNCHANGED entered
          /\ \A a \in Actions \ {Current} : attempt'[a] = attempt[a]
      BY <1>6, <2>2, <3>1 DEF Commit, TypeOK
    <3>4. AttemptInv'
      BY <3>1, <3>2, <3>3 DEF SubmissionInv, AttemptInv, State, Queued
    <3> QED BY <2>2, <3>3, <3>4 DEF SubmissionInv, EnteredOnce, CurrentInv, Advance
  <2>3. CASE Fails(Current, "stalled")
    BY <1>6, <2>3, FailsSubmission DEF Commit
  <2>4. CASE Closes(Current, "stalled") /\ pc' = "settle"
    BY <1>6, <2>4, ClosesSubmission DEF Commit
  <2> QED BY <1>6, <2>1, <2>2, <2>3, <2>4 DEF Commit, MarkRefused
<1>8. CASE SettleCommit
  <2>1. {Current} \in SUBSET Actions
    BY <1>8, CurrentType DEF SettleCommit
  <2>2. "settled-unverified" \in States \ {"none"} /\ "settled-unverified" \notin Queued \cup Reported
    BY DEF States, Settled, Queued, Reported, InWork
  <2>3. AttemptInv'
    BY <1>8, <2>1, <2>2, StatesMoved DEF SettleCommit, SubmissionInv
  <2> QED BY <1>8, <2>3 DEF SettleCommit, SubmissionInv, EnteredOnce, CurrentInv, Advance
<1>7. CASE UNCHANGED vars
  BY <1>7 DEF vars, rows, daemon, SubmissionInv, EnteredOnce, AttemptInv, CurrentInv, State, Current
<1> QED BY <1>1, <1>3, <1>4, <1>5, <1>6, <1>7, <1>8, VisitSubmission, OutsideSubmission
        DEF Next, PassStep

\* The invariant holds.
LEMMA Submission == Spec => []SubmissionInv
<1>1. Init => SubmissionInv
  BY DEF Init, SubmissionInv, EnteredOnce, AttemptInv, CurrentInv, State, Queued, Reported, InWork
<1> QED BY <1>1, NextSubmission, TypeCorrect, PTL DEF Spec

\* A prompt is submitted at most once.
THEOREM SubmittedOnce == Spec => []EnteredOnce
<1>1. SubmissionInv => EnteredOnce
  BY DEF SubmissionInv
<1> QED BY <1>1, Submission, PTL

\* What is reported was submitted.
THEOREM NothingInvented == Spec => []ReportedWasEntered
<1>1. SubmissionInv => ReportedWasEntered
  BY DEF SubmissionInv, AttemptInv, ReportedWasEntered, Reported
<1> QED BY <1>1, Submission, PTL

\* Between the two writes that follow a refused commit the row is stalled: the pass holds
\* the thread of the daemon.
ProvisionalInv == pc = "settle" => State(Current) = "stalled"

\* Every step keeps it.
LEMMA NextProvisional == TypeOK /\ ProvisionalInv /\ [Next]_vars => ProvisionalInv'
<1> SUFFICES ASSUME TypeOK, ProvisionalInv, [Next]_vars, pc' = "settle" PROVE State(Current)' = "stalled"
  BY DEF ProvisionalInv
<1>1. CASE Commit
  <2>1. State(Current) \notin Settled /\ Closes(Current, "stalled") /\ UNCHANGED list
    BY <1>1 DEF Commit, MarkRefused, Fails, Advance
  <2>2. {Current} \in SUBSET Actions /\ SetState({Current}, "stalled") /\ "stalled" \in States
    BY <1>1, <2>1, CurrentType DEF Commit, Closes, States, Settled
  <2>3. \A a \in {Current} : action'[a].state = "stalled"
    BY <2>2, SetStateEffect
  <2> QED BY <2>1, <2>3 DEF State, Current
<1>2. CASE UNCHANGED vars \/ Clock \/ ProcessReplaced
  BY <1>2 DEF Clock, LeaseExpires, DeadlinePasses, ProcessReplaced, vars, rows, daemon, ProvisionalInv,
              State, Current
<1>3. CASE Request \/ (Agent /\ ~ ProcessReplaced)
  <2>1. pc # "settle" /\ UNCHANGED pc
    BY <1>3 DEF Request, Create, Cancel, Deny, Agent, Acknowledge, RunStarts, RunEnds, SessionReady,
                AuthorityRevoked, StatusChanges, Free, daemon
  <2> QED BY <2>1
<1>4. CASE Boot
  BY <1>4 DEF Boot, ProvisionalInv, rows, State, Current
<1>5. pc' # "settle" \/ ~ (Tick \/ Visit \/ Resume \/ Verify \/ Observe \/ Paste \/ SettleCommit \/ Crash)
  BY DEF Tick, Visit, Resume, Verify, Observe, Paste, SettleCommit, Crash, Resolve, Begin, Abort,
         Advance, Fails
<1> QED BY <1>1, <1>2, <1>3, <1>4, <1>5 DEF Next, PassStep, Agent

\* The outcomes that exist already stay as they are, but the provisional one.
OutcomesKept ==
  \A a \in Actions : State(a) \in Settled =>
    \/ UNCHANGED action[a]
    \/ Provisional(a) /\ State(a)' = "settled-unverified"

\* SetState keeps the outcomes outside of its set.
LEMMA SetStateKeeps ==
  ASSUME TypeOK, NEW S \in SUBSET Actions, NEW state \in States, SetState(S, state),
         \A a \in S : State(a) \notin Settled
  PROVE  OutcomesKept
BY SetStateEffect DEF OutcomesKept

\* No step changes an outcome.
LEMMA NextKeeps == TypeOK /\ ProvisionalInv /\ [Next]_vars => OutcomesKept
<1> SUFFICES ASSUME TypeOK, ProvisionalInv, [Next]_vars PROVE OutcomesKept
  OBVIOUS
<1>0. /\ Unsettled \cap Settled = {} /\ "none" \notin Settled
      /\ Queued \subseteq Unsettled /\ InWork \subseteq Unsettled /\ "submitted" \in Unsettled
      /\ Settled \subseteq States /\ Unsettled \subseteq States
  BY DEF Unsettled, Settled, Queued, InWork, States
<1>1. ASSUME UNCHANGED action PROVE OutcomesKept
  BY <1>1 DEF OutcomesKept
<1>2. ASSUME NEW a \in Actions, NEW state \in States, SetState({a}, state), State(a) \notin Settled
      PROVE  OutcomesKept
  BY <1>2, SetStateKeeps
<1>3. ASSUME NEW state \in {"failed", "superseded", "stalled"}, pc \notin {"idle", "yield"},
             Closes(Current, state)
      PROVE  OutcomesKept
  BY <1>3, ClosesEffect DEF OutcomesKept
<1>4. CASE Request
  <2>1. ASSUME NEW a \in Actions, Create(a) PROVE OutcomesKept
    BY <1>0, <2>1 DEF Create, OutcomesKept, State, TypeOK
  <2>2. ASSUME NEW a \in Actions, Cancel(a) PROVE OutcomesKept
    <3>1. State(a) \notin Settled /\ "cancelled" \in States
      BY <1>0, <2>2 DEF Cancel, Cancellable, Settled
    <3> QED BY <1>2, <2>2, <3>1 DEF Cancel
  <2>3. ASSUME NEW a \in Actions, Deny(a) PROVE OutcomesKept
    BY <1>1, <2>3 DEF Deny, rows
  <2> QED BY <1>4, <2>1, <2>2, <2>3 DEF Request
<1>5. CASE Tick
  <2>1. /\ Ambiguous \in SUBSET Actions /\ \A a \in Ambiguous : State(a) \notin Settled
        /\ "settled-unverified" \in States
    BY <1>0 DEF Ambiguous, Settled, TypeOK
  <2> QED BY <1>5, <2>1, SetStateKeeps DEF Tick
<1>6. CASE Visit
  <2>1. pc \notin {"idle", "yield"}
    BY <1>6 DEF Visit
  <2>2. Head(list).id \in Actions
    BY <2>1, CurrentType DEF Listed
  <2>3. ASSUME NEW state \in {"cancelled", "expired", "superseded", "deferred", "rejected",
                             "stalled", "timed-out"},
               NEW how, Resolve(Head(list), state, how), Head(list).state \in Unsettled
        PROVE  OutcomesKept
    <3>1. state \in States
      BY <1>0 DEF Settled, States, Unsettled, Queued
    <3>2. CASE AsListed(Head(list))
      BY <1>0, <1>2, <2>2, <2>3, <3>1, <3>2 DEF Resolve, AsListed
    <3>3. CASE ~ AsListed(Head(list))
      BY <1>1, <2>3, <3>3 DEF Resolve, Abort, rows
    <3> QED BY <3>2, <3>3
  <2>4. Begin(Head(list).id) => UNCHANGED action
    BY DEF Begin, Abort, rows
  <2> QED BY <1>0, <1>1, <1>6, <2>3, <2>4 DEF Visit, CompletionDue, rows
<1>7. CASE Verify
  BY <1>1, <1>3, <1>7 DEF Verify, Fails, rows
<1>8. CASE Observe
  BY <1>1, <1>3, <1>8 DEF Observe, Fails, rows
<1>9. CASE Paste
  BY <1>1, <1>3, <1>9 DEF Paste, Fails, rows
<1>10. CASE Commit
  <2>1. Current \in Actions
    BY <1>10, CurrentType DEF Commit
  <2>2. Committable(Current) => State(Current) \notin Settled
    BY <1>0 DEF Committable
  <2> QED BY <1>0, <1>2, <1>3, <1>10, <2>1, <2>2 DEF Commit, MarkRefused, Fails
<1>13. CASE SettleCommit
  <2>1. Current \in Actions /\ "settled-unverified" \in States /\ SetState({Current}, "settled-unverified")
    BY <1>13, <1>0, CurrentType DEF SettleCommit, Settled
  <2>2. /\ \A a \in {Current} : action'[a].state = "settled-unverified"
        /\ \A a \in Actions \ {Current} : action'[a] = action[a]
    BY <2>1, SetStateEffect
  <2>3. Provisional(Current)
    BY <1>13 DEF SettleCommit, ProvisionalInv, Provisional
  <2>4. ASSUME NEW a \in Actions, a = Current PROVE Provisional(a) /\ action'[a].state = "settled-unverified"
    BY <2>2, <2>3, <2>4
  <2> QED BY <2>2, <2>4 DEF OutcomesKept, State
<1>11. CASE Agent
  <2>1. ASSUME NEW a \in Actions, NEW kind \in AckKinds, Acknowledge(a, kind) PROVE OutcomesKept
    <3>1. kind \in States /\ State(a) \notin Settled
      BY <1>0, <2>1 DEF AckKinds, Acknowledge, Acknowledgeable, Settled
    <3> QED BY <1>2, <2>1, <3>1 DEF Acknowledge
  <2>2. CASE RunStarts
    <3>1. "superseded" \in States
      BY <1>0 DEF Settled
    <3> QED BY <1>0, <2>2, <3>1, SetStateKeeps DEF RunStarts
  <2>3. CASE RunEnds
    <3>1. {"superseded", "failed"} \subseteq States
      BY <1>0 DEF Settled
    <3> QED BY <1>0, <2>3, <3>1, SetStateKeeps DEF RunEnds, EndedWith
  <2>4. CASE SessionReady \/ AuthorityRevoked \/ StatusChanges \/ ProcessReplaced
    BY <1>1, <2>4 DEF SessionReady, AuthorityRevoked, StatusChanges, ProcessReplaced, rows
  <2> QED BY <1>11, <2>1, <2>2, <2>3, <2>4 DEF Agent
<1>12. CASE Resume \/ Clock \/ Crash \/ Boot \/ UNCHANGED vars
  BY <1>1, <1>12 DEF Resume, Clock, LeaseExpires, DeadlinePasses, Crash, Boot, vars, rows
<1> QED BY <1>4, <1>5, <1>6, <1>7, <1>8, <1>9, <1>10, <1>11, <1>12, <1>13 DEF Next, PassStep

\* No pass, late acknowledgement, commit or boot changes an outcome; what follows a refused
\* commit replaces the stalled it wrote itself (agent-action-scheduler.ts #consider).
THEOREM OutcomesStand == Spec => OutcomeFinal
<1>1. Init => ProvisionalInv
  BY DEF Init, ProvisionalInv
<1>2. TypeOK /\ ProvisionalInv /\ [Next]_vars =>
        [\A a \in Actions : State(a) \in Settled =>
           \/ UNCHANGED action[a]
           \/ Provisional(a) /\ State(a)' = "settled-unverified"]_vars
  BY NextKeeps DEF OutcomesKept
<1> QED BY <1>1, <1>2, NextProvisional, TypeCorrect, PTL DEF Spec, OutcomeFinal

-----------------------------------------------------------------------------
(* Withdrawals. *)

Withdrawn == {"cancelled", "expired", "rejected"}

\* The action in the hand of the pass has not been withdrawn.
HandInv == pc \in {"verify", "observe", "paste"} => State(Current) \notin Withdrawn

\* States that change while the pass waits.
LEMMA HandMoved ==
  ASSUME TypeOK, SubmissionInv, HandInv, NEW S \in SUBSET Actions, NEW state \in States,
         SetState(S, state), UNCHANGED <<pc, list>>,
         state \in Withdrawn => \A a \in S : attempt[a] # "submitting"
  PROVE  HandInv'
<1> SUFFICES ASSUME pc \in {"verify", "observe", "paste"} PROVE State(Current)' \notin Withdrawn
  BY DEF HandInv
<1> DEFINE c == Current
<1>1. c \in Actions
  BY CurrentType
<1>2. attempt[c] = "submitting"
  BY DEF SubmissionInv, CurrentInv
<1>3. State(c) \notin Withdrawn
  BY DEF HandInv
<1>4. Current' = c
  BY DEF Current
<1> HIDE DEF c
<1>5. State(Current)' = action'[c].state
  BY <1>4 DEF State
<1>6. CASE c \in S
  <2>1. action'[c].state = state
    BY <1>6, SetStateEffect
  <2> QED BY <1>2, <1>5, <1>6, <2>1
<1>7. CASE c \notin S
  <2>1. action'[c] = action[c]
    BY <1>1, <1>7, SetStateEffect
  <2> QED BY <1>3, <1>5, <2>1 DEF State
<1> QED BY <1>6, <1>7

\* Nothing withdraws the action in the hand of the pass: a cancellation refuses an attempt in
\* progress, and the pass itself resolves only what it has not begun.
LEMMA NextHand == TypeOK /\ SubmissionInv /\ HandInv /\ [Next]_vars => HandInv'
<1> SUFFICES ASSUME TypeOK, SubmissionInv, HandInv, [Next]_vars PROVE HandInv'
  OBVIOUS
<1>1. ASSUME pc' \notin {"verify", "observe", "paste"} PROVE HandInv'
  BY <1>1 DEF HandInv
<1>2. ASSUME UNCHANGED <<rows, list>>, pc' \in {"verify", "observe", "paste"} =>
                                          pc \in {"verify", "observe", "paste"}
      PROVE  HandInv'
  BY <1>2 DEF HandInv, State, Current, rows
<1>3. ASSUME NEW state \in {"failed", "superseded", "stalled"}, Fails(Current, state) PROVE HandInv'
  BY <1>1, <1>3 DEF Fails, Advance
<1>4. CASE Request
  <2>1. ASSUME NEW a \in Actions, Create(a) PROVE HandInv'
    <3>1. /\ UNCHANGED <<pc, list>> /\ "created" \notin Withdrawn
          /\ \A b \in Actions : action'[b].state = "created" \/ action'[b] = action[b]
      BY <2>1 DEF Create, daemon, Withdrawn, TypeOK
    <3>2. Current' = Current /\ (pc \in {"verify", "observe", "paste"} => Current \in Actions)
      BY <3>1, CurrentType DEF Current
    <3> QED BY <3>1, <3>2 DEF HandInv, State
  <2>2. ASSUME NEW a \in Actions, Cancel(a) PROVE HandInv'
    <3>1. {a} \in SUBSET Actions /\ "cancelled" \in States /\ attempt[a] # "submitting"
      BY <2>2 DEF Cancel, Cancellable, States, Settled
    <3> QED BY <2>2, <3>1, HandMoved DEF Cancel, daemon
  <2>3. ASSUME NEW a \in Actions, Deny(a) PROVE HandInv'
    BY <1>2, <2>3 DEF Deny, daemon
  <2> QED BY <1>4, <2>1, <2>2, <2>3 DEF Request
<1>5. CASE Tick
  BY <1>1, <1>5 DEF Tick
<1>6. CASE Visit
  <2>1. CASE Begin(Head(list).id) /\ Startable(Head(list).id)
    <3>1. State(Current) \in Queued /\ UNCHANGED <<action, list>>
      BY <2>1 DEF Begin, Startable, Current
    <3>2. State(Current)' = State(Current)
      BY <3>1 DEF State, Current
    <3> QED BY <3>1, <3>2 DEF HandInv, Queued, Withdrawn
  <2>2. CASE pc' \in {"idle", "visit", "yield"}
    BY <1>1, <2>2
  <2> QED BY <1>6, <2>1, <2>2 DEF Visit, Resolve, Advance, Abort, Begin
<1>7. CASE Verify
  BY <1>2, <1>3, <1>7 DEF Verify
<1>8. CASE Observe
  BY <1>2, <1>3, <1>8 DEF Observe
<1>9. CASE Paste
  BY <1>1, <1>3, <1>9 DEF Paste
<1>10. CASE Commit
  BY <1>1, <1>3, <1>10 DEF Commit, MarkRefused, Advance
<1>14. CASE SettleCommit
  BY <1>1, <1>14 DEF SettleCommit, Advance
<1>11. CASE Agent
  <2>1. ASSUME NEW a \in Actions, NEW kind \in AckKinds, Acknowledge(a, kind) PROVE HandInv'
    <3>1. {a} \in SUBSET Actions /\ kind \in States /\ attempt[a] # "submitting"
      BY <2>1 DEF AckKinds, Acknowledge, Acknowledgeable, Settled, States, Unsettled
    <3> QED BY <2>1, <3>1, HandMoved DEF Acknowledge, daemon
  <2>2. CASE RunStarts
    <3>1. "superseded" \in States /\ "superseded" \notin Withdrawn
      BY DEF Settled, States, Withdrawn
    <3> QED BY <2>2, <3>1, HandMoved DEF RunStarts, daemon
  <2>3. CASE RunEnds
    <3>1. {"superseded", "failed"} \subseteq States \ Withdrawn
      BY DEF Settled, States, Withdrawn
    <3> QED BY <2>3, <3>1, HandMoved DEF RunEnds, EndedWith, daemon
  <2>4. CASE SessionReady \/ AuthorityRevoked \/ StatusChanges \/ ProcessReplaced
    BY <1>2, <2>4 DEF SessionReady, AuthorityRevoked, StatusChanges, ProcessReplaced, daemon
  <2> QED BY <1>11, <2>1, <2>2, <2>3, <2>4 DEF Agent
<1>12. CASE Clock \/ Boot \/ UNCHANGED vars
  BY <1>2, <1>12 DEF Clock, LeaseExpires, DeadlinePasses, Boot, vars, daemon
<1>13. CASE Resume \/ Crash
  BY <1>1, <1>13 DEF Resume, Crash
<1> QED BY <1>4, <1>5, <1>6, <1>7, <1>8, <1>9, <1>10, <1>11, <1>12, <1>13, <1>14 DEF Next, PassStep

\* Only Paste submits, and only what is in its hand.
LEMMA NextWithdrawn ==
  HandInv /\ TypeOK /\ [Next]_vars
    => \A a \in Actions : State(a) \in Withdrawn => UNCHANGED entered[a]
<1> SUFFICES ASSUME HandInv, TypeOK, [Next]_vars,
                    NEW a \in Actions, State(a) \in Withdrawn
             PROVE  entered'[a] = entered[a]
  OBVIOUS
<1>1. CASE Paste
  <2>1. Current # a
    BY <1>1 DEF Paste, HandInv
  <2>2. UNCHANGED entered \/ entered' = [entered EXCEPT ![Current] = @ + 1]
    BY <1>1 DEF Paste
  <2> QED BY <2>1, <2>2 DEF TypeOK
<1>2. CASE ~ Paste
  <2>1. UNCHANGED entered
    BY <1>2 DEF Next, PassStep, Request, Create, Cancel, Deny, Tick, Visit, Resume, Verify, Observe,
                Commit, SettleCommit, Agent, Acknowledge, RunStarts, RunEnds, SessionReady, AuthorityRevoked,
                StatusChanges, ProcessReplaced, Clock, LeaseExpires, DeadlinePasses, Crash, Boot, vars
  <2> QED BY <2>1
<1> QED BY <1>1, <1>2

\* What was cancelled, expired or rejected is not submitted afterwards, for any number of
\* actions in one pass (agent-action-service.ts cancel, #consider).
THEOREM WithdrawalsHold == Spec => WithdrawnStays
<1>1. Init => HandInv
  BY DEF Init, HandInv
<1>2. Spec => []HandInv
  BY <1>1, NextHand, Submission, TypeCorrect, PTL DEF Spec
<1>3. HandInv /\ TypeOK /\ [Next]_vars =>
        [\A a \in Actions : State(a) \in {"cancelled", "expired", "rejected"} => UNCHANGED entered[a]]_vars
  BY NextWithdrawn DEF Withdrawn
<1> QED BY <1>2, <1>3, TypeCorrect, PTL DEF Spec, WithdrawnStays
=============================================================================
