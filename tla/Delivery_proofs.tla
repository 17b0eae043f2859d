-------------------------- MODULE Delivery_proofs --------------------------
(* Proofs about the message queue of a group, for every value of the        *)
(* constants of module Delivery.                                            *)
EXTENDS Delivery, FiniteSetTheorems, SequenceTheorems, TLAPS

-----------------------------------------------------------------------------
(* Facts about the operators the actions are built from. *)

\* The delay #retry asks for is a legal value of next_attempt_at.
LEMMA RetryDelayType == \A a \in Nat : RetryDelay(a) \in 0..RetryMax
  BY ConstantsAssumption DEF RetryDelay, ConstantsAssumption

\* Deleting messages keeps the rows well formed.
LEMMA DropRowsType ==
  ASSUME NEW rows \in [Deliveries -> Rows], NEW ss
  PROVE  DropRows(rows, ss) \in [Deliveries -> Rows]
  <1>1. NoRow \in Rows
    BY ConstantsAssumption DEF NoRow, Rows, ConstantsAssumption
  <1>2. QED BY <1>1 DEF DropRows

\* Ending the claim on a row keeps it well formed.
LEMMA SettledRowType ==
  ASSUME NEW r \in Rows, NEW status \in Settled \cup Pending, NEW next \in 0..RetryMax
  PROVE  [r EXCEPT !.status = status, !.next = next, !.owner = 0, !.lease = 0] \in Rows
  <1>1. 0 \in 0..MaxOwner /\ 0 \in 0..LeaseMs
    BY ConstantsAssumption DEF ConstantsAssumption
  <1>2. QED BY <1>1 DEF Rows

\* A row stays typed when its attempt ends.
LEMMA EndedRowType ==
  ASSUME NEW r \in Rows, NEW status \in Settled \cup Pending
  PROVE  [r EXCEPT !.status = status, !.owner = 0, !.lease = 0] \in Rows
  <1>1. 0 \in 0..MaxOwner /\ 0 \in 0..LeaseMs
    BY ConstantsAssumption DEF ConstantsAssumption
  <1>2. QED BY <1>1 DEF Rows

\* The compare-and-set that ends a claim keeps the rows well formed.
LEMMA SettleType ==
  ASSUME TypeOK, NEW d \in Deliveries, NEW status \in Settled \cup Pending,
         NEW next \in 0..RetryMax, Settle(d, status, next)
  PROVE  row' \in [Deliveries -> Rows]
  <1>1. row \in [Deliveries -> Rows]
    BY DEF TypeOK, Rows
  <1>2. [row[d] EXCEPT !.status = status, !.next = next, !.owner = 0, !.lease = 0] \in Rows
    BY <1>1, SettledRowType
  <1>3. row' = IF Owned(d)
               THEN [row EXCEPT ![d] = [row[d] EXCEPT !.status = status, !.next = next,
                                                      !.owner = 0, !.lease = 0]]
               ELSE row
    BY <1>1 DEF Settle
  <1>4. QED BY <1>1, <1>2, <1>3

\* The end of a claim keeps claims and queues well formed.
LEMMA ReleaseType ==
  ASSUME TypeOK, NEW d \in Deliveries, Release(d)
  PROVE  /\ claim' \in [Deliveries -> Claims]
         /\ inputQueue' \in [Members -> Seq(Seqs)]
  <1>1. Idle \in Claims
    BY ConstantsAssumption DEF Idle, Claims, ConstantsAssumption
  <1>2. claim' \in [Deliveries -> Claims]
    BY <1>1 DEF TypeOK, Release, Claims
  <1>3. d[2] \in Members
    BY DEF Deliveries
  <1>4. Turn(d) => Tail(inputQueue[d[2]]) \in Seq(Seqs)
    BY <1>3 DEF TypeOK, Turn
  <1>5. QED BY <1>2, <1>3, <1>4 DEF TypeOK, Release

-----------------------------------------------------------------------------
(* Type correctness. *)

\* The empty queue is typed.
LEMMA InitType == Init => TypeOK
  <1> SUFFICES ASSUME Init PROVE TypeOK
    OBVIOUS
  <1>1. NoRow \in Rows /\ Idle \in Claims
    BY ConstantsAssumption DEF NoRow, Idle, Rows, Claims, ConstantsAssumption
  <1>2. row \in [Deliveries -> Rows] /\ claim \in [Deliveries -> Claims]
    BY <1>1 DEF Init
  <1>3. << >> \in Seq(Seqs)
    OBVIOUS
  <1>4. inputQueue \in [Members -> Seq(Seqs)]
    BY <1>3 DEF Init
  <1>5. run \in [Members -> [gen : 0..MaxGen, status : {"none", "running", "stopping"}]]
    BY ConstantsAssumption DEF Init, ConstantsAssumption
  <1>6. idem \in [Keys -> Seqs \cup {0, Expired}] /\ pane \in [Members -> 0..MaxGen]
    BY ConstantsAssumption DEF Init, ConstantsAssumption
  <1>7. /\ entered \in [Deliveries -> SUBSET (0..MaxGen)]
        /\ pastes \in [Deliveries -> Nat]
        /\ prompt \in [Members -> SUBSET Seqs]
    BY DEF Init
  <1>8. seq \in 0..MaxSeq /\ owner \in 0..MaxOwner
    BY ConstantsAssumption DEF Init, ConstantsAssumption
  <1>9. QED BY <1>2, <1>4, <1>5, <1>6, <1>7, <1>8 DEF Init, TypeOK

\* One step of #deliver.
LEMMA StepType ==
  ASSUME TypeOK, NEW d \in Deliveries, Step(d)
  PROVE  TypeOK'
  <1> USE ConstantsAssumption DEF ConstantsAssumption
  <1>0. d[1] \in Seqs /\ d[2] \in Members /\ row[d] \in Rows /\ claim[d] \in Claims
    BY DEF TypeOK, Deliveries
  <1>1. CASE Reject(d)
    <2>1. row[d].next \in 0..RetryMax
      BY <1>0 DEF Rows
    <2>2. row' \in [Deliveries -> Rows]
      BY <1>1, <2>1, SettleType DEF Reject, Settled
    <2>3. QED BY <1>1, <2>2, ReleaseType DEF Reject, TypeOK, runs, history
  <1>2. CASE Begin(d)
    <2>1. [row[d] EXCEPT !.status = "delivering", !.gen = claim[d].gen] \in Rows
      BY <1>0 DEF Rows, Claims, Pending
    <2>2. row' \in [Deliveries -> Rows]
      BY <1>2, <2>1 DEF Begin, TypeOK
    <2>3. [claim[d] EXCEPT !.stage = "observing"] \in Claims /\ Idle \in Claims
      BY <1>0 DEF Claims, Idle
    <2>4. claim' \in [Deliveries -> Claims]
      BY <1>2, <2>3 DEF Begin, TypeOK
    <2>5. QED BY <1>2, <2>2, <2>4 DEF Begin, TypeOK, runs, history
  <1>3. CASE Enqueue(d)
    <2>1. claim' \in [Deliveries -> Claims]
      BY <1>0, <1>3 DEF Enqueue, TypeOK, Claims
    <2>2. inputQueue' \in [Members -> Seq(Seqs)]
      BY <1>0, <1>3 DEF Enqueue, TypeOK
    <2>3. QED BY <1>3, <2>1, <2>2 DEF Enqueue, TypeOK, store, runs, history
  <1>4. CASE Paste(d)
    <2>1. claim' \in [Deliveries -> Claims]
      BY <1>0, <1>4 DEF Paste, TypeOK, Claims
    <2>2. prompt' \in [Members -> SUBSET Seqs]
      BY <1>0, <1>4 DEF Paste, TypeOK
    <2>3. pastes[d] + 1 \in Nat
      BY DEF TypeOK
    <2>4. pastes' \in [Deliveries -> Nat]
      BY <1>4, <2>3 DEF Paste, TypeOK
    <2>5. QED BY <1>4, <2>1, <2>2, <2>4 DEF Paste, TypeOK, store, runs
  <1>5. CASE Enter(d)
    <2>1. claim' \in [Deliveries -> Claims]
      BY <1>0, <1>5 DEF Enter, TypeOK, Claims
    <2>2. claim[d].gen \in 0..MaxGen
      BY <1>0 DEF Claims
    <2>3. entered' \in [Deliveries -> SUBSET (0..MaxGen)]
      BY <1>5, <2>2 DEF Enter, TypeOK
    <2>4. prompt' \in [Members -> SUBSET Seqs]
      BY <1>0, <1>5 DEF Enter, TypeOK
    <2>5. QED BY <1>5, <2>1, <2>3, <2>4 DEF Enter, TypeOK, store, runs
  <1>6. CASE MarkInjected(d)
    <2>1. [row[d] EXCEPT !.status = "terminal_injected", !.owner = 0, !.lease = 0] \in Rows
      BY <1>0, EndedRowType DEF Settled
    <2>2. row' \in [Deliveries -> Rows]
      BY <1>6, <2>1 DEF MarkInjected, TypeOK
    <2>3. QED BY <1>6, <2>2, ReleaseType DEF MarkInjected, TypeOK, runs, history
  <1>7. CASE Fail(d)
    <2>1. RetryDelay(claim[d].attempts) \in 0..RetryMax
      BY <1>0, RetryDelayType DEF Claims
    <2>2. row' \in [Deliveries -> Rows]
      BY <1>7, <2>1, SettleType DEF Fail, Settled, Pending
    <2>3. QED BY <1>7, <2>2, ReleaseType DEF Fail, TypeOK, runs, history
  <1>8. QED BY <1>1, <1>2, <1>3, <1>4, <1>5, <1>6, <1>7 DEF Step

\* Every step keeps the variables in their domains.
LEMMA NextType == TypeOK /\ [Next]_vars => TypeOK'
  <1> SUFFICES ASSUME TypeOK, [Next]_vars PROVE TypeOK'
    OBVIOUS
  <1> USE ConstantsAssumption DEF ConstantsAssumption
  <1>1. ASSUME NEW k \in Keys \cup {NoKey}, NEW r \in SUBSET Members, Submit(k, r)
        PROVE  TypeOK'
    <2> DEFINE s == seq + 1
               kept == messages \cup {s}
               gone == Victims(kept)
               inserted == [d \in Deliveries |->
                 IF d[1] = s /\ d[2] \in r THEN NewRow ELSE row[d]]
               recorded == IF k = NoKey THEN idem ELSE [idem EXCEPT ![k] = s]
    <2>1. s \in Seqs
      BY <1>1 DEF Submit, TypeOK, Seqs
    <2>2. NewRow \in Rows
      BY DEF NewRow, NoRow, Rows, Pending
    <2>3. inserted \in [Deliveries -> Rows]
      BY <2>2 DEF TypeOK
    <2>4. row' \in [Deliveries -> Rows]
      <3>1. row' = DropRows(inserted, gone)
        BY <1>1 DEF Submit
      <3> HIDE DEF inserted, gone
      <3>2. QED BY <3>1, <2>3, DropRowsType
    <2>5. messages' \in SUBSET Seqs
      BY <1>1, <2>1 DEF Submit, TypeOK
    <2>6. recorded \in [Keys -> Seqs \cup {0, Expired}]
      BY <2>1 DEF TypeOK
    <2>7. idem' \in [Keys -> Seqs \cup {0, Expired}]
      <3>1. idem' = Invalidate(recorded, gone)
        BY <1>1 DEF Submit
      <3> HIDE DEF recorded, gone
      <3>2. QED BY <3>1, <2>6 DEF Invalidate
    <2>8. seq' \in 0..MaxSeq
      BY <1>1, <2>1 DEF Submit, Seqs
    <2>9. QED BY <1>1, <2>4, <2>5, <2>7, <2>8 DEF Submit, TypeOK, runs, proc, history
  <1>2. CASE ClearHistory
    <2>1. row' \in [Deliveries -> Rows]
      BY <1>2, DropRowsType DEF ClearHistory, TypeOK
    <2>2. idem' \in [Keys -> Seqs \cup {0, Expired}]
      BY <1>2 DEF ClearHistory, Invalidate, TypeOK
    <2>3. QED BY <1>2, <2>1, <2>2 DEF ClearHistory, TypeOK, runs, proc, history
  <1>3. ASSUME NEW s \in Seqs, Expire(s) PROVE TypeOK'
    BY <1>3 DEF Expire, TypeOK, runs, proc, history
  <1>4. ASSUME NEW m \in Members, AddMember(m) PROVE TypeOK'
    BY <1>4 DEF AddMember, TypeOK, store, proc, history
  <1>5. ASSUME NEW m \in Members, RemoveMember(m) PROVE TypeOK'
    <2>1. ASSUME NEW q \in Rows PROVE Revoked(q) \in Rows
      BY EndedRowType DEF Revoked, Settled
    <2>2. row' \in [Deliveries -> Rows]
      BY <1>5, <2>1 DEF RemoveMember, TypeOK
    <2>3. QED BY <1>5, <2>2 DEF RemoveMember, TypeOK, proc, history
  <1>6. ASSUME NEW m \in Members, StartRun(m) PROVE TypeOK'
    <2>1. run[m].gen + 1 \in 0..MaxGen
      BY <1>6 DEF StartRun, TypeOK
    <2>2. run' \in [Members -> [gen : 0..MaxGen, status : {"none", "running", "stopping"}]]
      BY <1>6, <2>1 DEF StartRun, TypeOK
    <2>3. QED BY <1>6, <2>1, <2>2 DEF StartRun, TypeOK, store, proc
  <1>7. ASSUME NEW m \in Members, StopRun(m) PROVE TypeOK'
    BY <1>7 DEF StopRun, TypeOK, store, proc, history
  <1>8. ASSUME NEW m \in Members, EndRun(m) PROVE TypeOK'
    <2>1. run' \in [Members -> [gen : 0..MaxGen, status : {"none", "running", "stopping"}]]
      BY <1>8 DEF EndRun, TypeOK
    <2>2. pane' \in [Members -> 0..MaxGen]
      BY <1>8 DEF EndRun, NoPane, TypeOK
    <2>3. prompt' \in [Members -> SUBSET Seqs]
      BY <1>8 DEF EndRun, NoPane, TypeOK
    <2>4. QED BY <1>8, <2>1, <2>2, <2>3 DEF EndRun, TypeOK, store, proc
  <1>9. ASSUME NEW m \in Members, PaneDies(m) PROVE TypeOK'
    BY <1>9 DEF PaneDies, NoPane, TypeOK, store, proc
  <1>10. ASSUME NEW b \in SUBSET Deliveries, Claim(b) PROVE TypeOK'
    <2>1. ASSUME NEW q \in Rows PROVE Lease(q) \in Rows
      <3>1. owner \in 0..MaxOwner /\ LeaseMs \in 0..LeaseMs /\ 0 \in 0..RetryMax
        BY DEF TypeOK
      <3>2. q.attempts + 1 \in Nat
        BY DEF Rows
      <3>3. QED BY <3>1, <3>2 DEF Lease, Rows, Pending
    <2>2. row' \in [Deliveries -> Rows]
      BY <1>10, <2>1 DEF Claim, TypeOK
    <2>3. ASSUME NEW d \in Deliveries
          PROVE  [stage |-> "claimed", gen |-> run[d[2]].gen,
                  attempts |-> row[d].attempts + 1] \in Claims
      BY DEF TypeOK, Deliveries, Rows, Claims
    <2>4. claim' \in [Deliveries -> Claims]
      BY <1>10, <2>3 DEF Claim, TypeOK
    <2>5. QED BY <1>10, <2>2, <2>4 DEF Claim, TypeOK, runs, history
  <1>11. ASSUME NEW d \in Deliveries, Step(d) PROVE TypeOK'
    BY <1>11, StepType
  <1>12. CASE StartDaemon
    BY <1>12 DEF StartDaemon, TypeOK, store, runs, history
  <1>13. CASE Crash
    <2>1. Idle \in Claims
      BY DEF Idle, Claims
    <2>2. claim' \in [Deliveries -> Claims]
      BY <1>13, <2>1 DEF Crash
    <2>3. << >> \in Seq(Seqs)
      OBVIOUS
    <2>4. inputQueue' \in [Members -> Seq(Seqs)]
      BY <1>13, <2>3 DEF Crash
    <2>5. QED BY <1>13, <2>2, <2>4 DEF Crash, TypeOK, store, runs
  <1>14. CASE Tick
    <2>1. ASSUME NEW q \in Rows
          PROVE  [q EXCEPT !.lease = IF @ > 0 THEN @ - 1 ELSE 0,
                           !.next = IF @ > 0 THEN @ - 1 ELSE 0] \in Rows
      <3> DEFINE lease == IF q.lease > 0 THEN q.lease - 1 ELSE 0
                 next == IF q.next > 0 THEN q.next - 1 ELSE 0
      <3>1. lease \in 0..LeaseMs /\ next \in 0..RetryMax
        BY DEF Rows
      <3> HIDE DEF lease, next
      <3>2. [q EXCEPT !.lease = lease, !.next = next] \in Rows
        BY <3>1 DEF Rows
      <3>3. QED BY <3>2 DEF lease, next
    <2>2. row' \in [Deliveries -> Rows]
      BY <1>14, <2>1 DEF Tick, TypeOK
    <2>3. QED BY <1>14, <2>2 DEF Tick, TypeOK, runs, proc, history
  <1>15. CASE UNCHANGED vars
    BY <1>15 DEF vars, store, runs, proc, history, TypeOK
  <1>16. QED
    BY <1>1, <1>2, <1>3, <1>4, <1>5, <1>6, <1>7, <1>8, <1>9, <1>10, <1>11,
       <1>12, <1>13, <1>14, <1>15 DEF Next

\* Type correctness of the whole queue: no step of the store, the dispatcher,
\* a run or a crash leaves its domain, the retry delay and the leases included.
THEOREM TypeCorrect == Spec => []TypeOK
  <1>1. QED BY InitType, NextType, PTL DEF Spec

-----------------------------------------------------------------------------
(* A delivery recorded terminal_injected was submitted in its pane. *)

\* Releasing a claim takes no other claim of the same run out of its turn.
LEMMA ReleaseKeepsTurn ==
  ASSUME TypeOK, NEW d \in Deliveries, NEW e \in Deliveries, d # e,
         Release(d), Turn(e)
  PROVE  Turn(e)'
  <1>1. d[2] = e[2] => ~ Turn(d)
    BY DEF Turn, Deliveries
  <1>2. inputQueue'[e[2]] = inputQueue[e[2]]
    BY <1>1 DEF Release, TypeOK, Deliveries
  <1>3. QED BY <1>2 DEF Turn

\* A step of one promise preserves the invariant.
LEMMA StepEntered ==
  ASSUME TypeOK, TypeOK', EnteredInv, NEW d \in Deliveries, Step(d)
  PROVE  EnteredInv'
  <1>0. d[1] \in Seqs /\ d[2] \in Members /\ row[d] \in Rows /\ claim[d] \in Claims
    BY DEF TypeOK, Deliveries
  <1>1. ASSUME Release(d), UNCHANGED <<run, pane, prompt, up, entered>>,
               InjectedWasEntered'
        PROVE  EnteredInv'
    <2>1. \A e \in Deliveries : claim'[e] = IF e = d THEN Idle ELSE claim[e]
      BY <1>1 DEF Release, TypeOK
    <2>2. ASSUME NEW e \in Deliveries, claim'[e].stage \in {"pasted", "entered"}
          PROVE  Turn(e)'
      BY <1>1, <2>1, <2>2, ReleaseKeepsTurn DEF EnteredInv, Idle
    <2>3. QED BY <1>1, <2>1, <2>2 DEF EnteredInv, Idle, InFlight
  <1>2. ASSUME NEW status \in Settled \cup Pending, status # "terminal_injected",
               NEW next, Settle(d, status, next), UNCHANGED entered
        PROVE  InjectedWasEntered'
    BY <1>2 DEF Settle, TypeOK, EnteredInv, InjectedWasEntered
  <1>3. CASE Reject(d)
    <2>1. InjectedWasEntered'
      BY <1>2, <1>3 DEF Reject, Settled, history
    <2>2. QED BY <1>1, <1>3, <2>1 DEF Reject, runs, history
  <1>4. CASE Begin(d)
    <2>1. InjectedWasEntered'
      BY <1>4 DEF Begin, TypeOK, EnteredInv, InjectedWasEntered, history
    <2>2. \A e \in Deliveries : e # d => claim'[e] = claim[e]
      BY <1>4 DEF Begin, TypeOK
    <2>3. claim'[d] = Idle \/ claim'[d] = [claim[d] EXCEPT !.stage = "observing"]
      BY <1>4 DEF Begin, TypeOK
    <2>4. QED BY <1>0, <1>4, <2>1, <2>2, <2>3
             DEF Begin, EnteredInv, InFlight, Idle, Claims, Turn, runs, history
  <1>5. CASE Enqueue(d)
    <2>1. \A e \in Deliveries : e # d => claim'[e] = claim[e]
      BY <1>5 DEF Enqueue, TypeOK
    <2>2. claim'[d] = [claim[d] EXCEPT !.stage = "queued"]
      BY <1>5 DEF Enqueue, TypeOK
    <2>3. ASSUME NEW e \in Deliveries, Turn(e) PROVE Turn(e)'
      <3>1. CASE e[2] = d[2]
        <4>1. inputQueue[e[2]] \in Seq(Seqs) /\ inputQueue[e[2]] # << >>
          BY <2>3 DEF TypeOK, Turn, Deliveries
        <4>2. inputQueue'[e[2]] = Append(inputQueue[e[2]], d[1])
          BY <1>0, <1>5, <3>1 DEF Enqueue, TypeOK
        <4>3. QED BY <1>0, <2>3, <4>1, <4>2 DEF Turn
      <3>2. CASE e[2] # d[2]
        BY <1>0, <1>5, <2>3, <3>2 DEF Enqueue, Turn, TypeOK, Deliveries
      <3>3. QED BY <3>1, <3>2
    <2>4. InjectedWasEntered'
      BY <1>5 DEF Enqueue, EnteredInv, InjectedWasEntered, store, history
    <2>5. QED BY <1>0, <1>5, <2>1, <2>2, <2>3, <2>4
             DEF Enqueue, EnteredInv, InFlight, Claims, runs, history
  <1>6. CASE Paste(d)
    <2>1. \A e \in Deliveries : e # d => claim'[e] = claim[e]
      BY <1>6 DEF Paste, TypeOK
    <2>2. claim'[d] = [claim[d] EXCEPT !.stage = "pasted"]
      BY <1>6 DEF Paste, TypeOK
    <2>3. \A m \in Members : prompt[m] \subseteq prompt'[m]
      BY <1>6 DEF Paste, TypeOK
    <2>4. d[1] \in prompt'[d[2]]
      BY <1>0, <1>6 DEF Paste, TypeOK
    <2>5. InjectedWasEntered'
      BY <1>6 DEF Paste, EnteredInv, InjectedWasEntered, store
    <2>6. QED BY <1>0, <1>6, <2>1, <2>2, <2>3, <2>4, <2>5
             DEF Paste, EnteredInv, InFlight, Claims, Turn, Deliveries, runs
  <1>7. CASE Enter(d)
    <2>1. \A e \in Deliveries : e # d => claim'[e] = claim[e]
      BY <1>7 DEF Enter, TypeOK
    <2>2. claim'[d] = [claim[d] EXCEPT !.stage = "entered"]
      BY <1>7 DEF Enter, TypeOK
    <2>3. Turn(d)
      BY <1>7 DEF Enter, EnteredInv
    <2>4. \A e \in Deliveries : e # d /\ claim[e].stage = "pasted" => e[2] # d[2]
      BY <2>3 DEF EnteredInv, Turn, Deliveries
    <2>5. \A e \in Deliveries : entered[e] \subseteq entered'[e]
      BY <1>7 DEF Enter
    <2>6. claim[d].gen \in entered'[d]
      BY <1>7 DEF Enter, EnteredInv
    <2>7. \A e \in Deliveries : e[2] # d[2] => prompt'[e[2]] = prompt[e[2]]
      BY <1>7 DEF Enter, TypeOK, Deliveries
    <2>8. InjectedWasEntered'
      BY <1>7, <2>5 DEF Enter, EnteredInv, InjectedWasEntered, store
    <2>9. QED BY <1>0, <1>7, <2>1, <2>2, <2>4, <2>5, <2>6, <2>7, <2>8
             DEF Enter, EnteredInv, InFlight, Claims, Turn, runs
  <1>8. CASE MarkInjected(d)
    <2>1. claim[d].gen \in entered[d]
      BY <1>8 DEF MarkInjected, EnteredInv
    <2>2. InjectedWasEntered'
      BY <1>8, <2>1 DEF MarkInjected, TypeOK, EnteredInv, InjectedWasEntered, history
    <2>3. QED BY <1>1, <1>8, <2>2 DEF MarkInjected, runs, history
  <1>9. CASE Fail(d)
    <2>1. InjectedWasEntered'
      BY <1>2, <1>9 DEF Fail, Settled, Pending, history
    <2>2. QED BY <1>1, <1>9, <2>1 DEF Fail, runs, history
  <1>10. QED BY <1>3, <1>4, <1>5, <1>6, <1>7, <1>8, <1>9 DEF Step

\* Every step keeps EnteredInv.
LEMMA NextEntered == TypeOK /\ TypeOK' /\ EnteredInv /\ [Next]_vars => EnteredInv'
  <1> SUFFICES ASSUME TypeOK, TypeOK', EnteredInv, [Next]_vars PROVE EnteredInv'
    OBVIOUS
  \* Steps of the store leave promises and panes alone: only rows change.
  <1>1. ASSUME UNCHANGED <<run, pane, prompt, up, claim, inputQueue, entered>>,
               \A d \in Deliveries : row'[d].status = "terminal_injected" =>
                 row[d].status = "terminal_injected" /\ row'[d].gen = row[d].gen
        PROVE  EnteredInv'
    BY <1>1 DEF EnteredInv, InjectedWasEntered, InFlight, Turn
  <1>2. ASSUME NEW k \in Keys \cup {NoKey}, NEW r \in SUBSET Members, Submit(k, r)
        PROVE  EnteredInv'
    BY <1>1, <1>2 DEF Submit, DropRows, NewRow, NoRow, runs, proc, history
  <1>3. CASE ClearHistory
    BY <1>1, <1>3 DEF ClearHistory, DropRows, NoRow, runs, proc, history
  <1>4. ASSUME NEW s \in Seqs, Expire(s) PROVE EnteredInv'
    BY <1>1, <1>4 DEF Expire, runs, proc, history
  <1>5. ASSUME NEW m \in Members, AddMember(m) PROVE EnteredInv'
    BY <1>1, <1>5 DEF AddMember, store, proc, history
  <1>6. ASSUME NEW m \in Members, RemoveMember(m) PROVE EnteredInv'
    <2>1. ASSUME NEW q \in Rows, Revoked(q).status = "terminal_injected"
          PROVE  Revoked(q) = q
      BY <2>1 DEF Revoked, Rows
    <2>2. \A d \in Deliveries : row[d] \in Rows /\ row'[d] \in {row[d], Revoked(row[d])}
      BY <1>6 DEF RemoveMember, TypeOK
    <2>3. QED BY <1>1, <1>6, <2>1, <2>2 DEF RemoveMember, proc, history
  <1>7. ASSUME NEW m \in Members, StartRun(m) PROVE EnteredInv'
    <2>1. \A n \in Members : run'[n].gen >= run[n].gen /\ run'[n].gen \in Nat
                             /\ (n # m => run'[n] = run[n])
      BY <1>7 DEF StartRun, TypeOK
    <2>2. run'[m].gen >= 1 /\ pane'[m] > run[m].gen
      BY <1>7 DEF StartRun, TypeOK
    <2>3. \A d \in Deliveries : d[2] # m =>
            pane'[d[2]] = pane[d[2]] /\ prompt'[d[2]] = prompt[d[2]]
      BY <1>7 DEF StartRun, TypeOK, Deliveries
    <2>4. UNCHANGED <<row, up, claim, inputQueue, entered>>
      BY <1>7 DEF StartRun, store, proc
    <2>5. \A n \in Members : run'[n].status # "none" => run'[n].gen >= 1
      BY <2>1, <2>2 DEF EnteredInv
    <2>6. ASSUME NEW d \in Deliveries
          PROVE  /\ d[2] \in Members /\ claim[d].gen \in Nat /\ run[d[2]].gen \in Nat
                 /\ InFlight(d) => up /\ 1 <= claim[d].gen /\ claim[d].gen <= run[d[2]].gen
                 /\ claim[d].stage \in {"pasted", "entered"} => InFlight(d) /\ Turn(d)
      <3>1. d[2] \in Members
        BY DEF Deliveries
      <3>2. claim[d].gen \in 0..MaxGen /\ run[d[2]].gen \in 0..MaxGen
        BY <3>1 DEF TypeOK, Claims
      <3>3. InFlight(d) => up /\ 1 <= claim[d].gen /\ claim[d].gen <= run[d[2]].gen
        BY DEF EnteredInv
      <3>4. claim[d].stage \in {"pasted", "entered"} => InFlight(d) /\ Turn(d)
        BY DEF EnteredInv, InFlight
      <3>5. QED BY <3>1, <3>2, <3>3, <3>4
    <2>7. ASSUME NEW d \in Deliveries, claim[d].stage = "pasted", pane'[d[2]] = claim[d].gen
          PROVE  d[1] \in prompt'[d[2]]
      <3>1. CASE d[2] = m
        BY <2>2, <2>6, <2>7, <3>1 DEF TypeOK
      <3>2. CASE d[2] # m
        BY <2>3, <2>7, <3>2 DEF EnteredInv
      <3>3. QED BY <3>1, <3>2
    <2>8. ASSUME NEW d \in Deliveries, InFlight(d) PROVE claim[d].gen <= run'[d[2]].gen
      BY <2>1, <2>6, <2>8
    <2>9. QED BY <2>4, <2>5, <2>6, <2>7, <2>8 DEF EnteredInv, InjectedWasEntered, InFlight, Turn
  <1>8. ASSUME NEW m \in Members, StopRun(m) PROVE EnteredInv'
    <2>1. \A n \in Members : run'[n].gen = run[n].gen
                             /\ (run'[n].status # "none" => run[n].status # "none")
      BY <1>8 DEF StopRun, TypeOK
    <2>2. QED BY <1>8, <2>1 DEF StopRun, EnteredInv, InjectedWasEntered, InFlight,
                               Turn, Deliveries, store, proc, history
  <1>9. ASSUME NEW m \in Members, NoPane(m),
               UNCHANGED <<row, up, claim, inputQueue, entered>>,
               \A n \in Members : run'[n].gen = run[n].gen
                                  /\ (run'[n].status # "none" => run[n].status # "none")
        PROVE  EnteredInv'
    <2>1. \A d \in Deliveries : d[2] # m =>
            pane'[d[2]] = pane[d[2]] /\ prompt'[d[2]] = prompt[d[2]]
      BY <1>9 DEF NoPane, TypeOK, Deliveries
    <2>2. \A d \in Deliveries : d[2] = m /\ InFlight(d) => pane'[d[2]] # claim[d].gen
      BY <1>9 DEF NoPane, TypeOK, Claims, EnteredInv
    <2>3. \A d \in Deliveries : d[2] \in Members
      BY DEF Deliveries
    <2>4. QED BY <1>9, <2>1, <2>2, <2>3 DEF EnteredInv, InjectedWasEntered, InFlight, Turn
  <1>10. ASSUME NEW m \in Members, EndRun(m) PROVE EnteredInv'
    <2>1. \A n \in Members : run'[n].gen = run[n].gen
                             /\ (run'[n].status # "none" => run[n].status # "none")
      BY <1>10 DEF EndRun, TypeOK
    <2>2. QED BY <1>9, <1>10, <2>1 DEF EndRun, store, proc
  <1>11. ASSUME NEW m \in Members, PaneDies(m) PROVE EnteredInv'
    BY <1>9, <1>11 DEF PaneDies, store, proc
  <1>12. ASSUME NEW b \in SUBSET Deliveries, Claim(b) PROVE EnteredInv'
    <2>1. \A d \in b : run[d[2]].status = "running" /\ d[2] \in Members
      BY <1>12 DEF Claim, Batches, Claimable, Deliveries
    <2>2. \A d \in Deliveries :
            \/ claim'[d].stage = "idle"
            \/ claim'[d].stage = "claimed" /\ claim'[d].gen = run[d[2]].gen
               /\ run[d[2]].gen >= 1
      BY <1>12, <2>1 DEF Claim, InFlight, EnteredInv
    <2>3. InjectedWasEntered'
      <3>1. ASSUME NEW q \in Rows PROVE Lease(q).status = "received"
        BY DEF Lease, Rows
      <3>2. \A d \in Deliveries : row'[d] = row[d] \/ row'[d].status = "received"
        BY <1>12, <3>1 DEF Claim, TypeOK
      <3>3. entered' = entered
        BY <1>12 DEF Claim, history
      <3>4. QED BY <3>2, <3>3 DEF EnteredInv, InjectedWasEntered
    <2>4. QED BY <1>12, <2>2, <2>3 DEF Claim, EnteredInv, InFlight, TypeOK, Deliveries, runs
  <1>13. ASSUME NEW d \in Deliveries, Step(d) PROVE EnteredInv'
    BY <1>13, StepEntered
  <1>14. CASE StartDaemon
    BY <1>14 DEF StartDaemon, EnteredInv, InjectedWasEntered, InFlight, Turn,
                store, runs, history
  <1>15. CASE Crash
    BY <1>15 DEF Crash, EnteredInv, InjectedWasEntered, InFlight, Idle, store, runs
  <1>16. CASE Tick
    <2>1. \A d \in Deliveries : row'[d].status = row[d].status /\ row'[d].gen = row[d].gen
      <3>1. \A d \in Deliveries : row[d] \in Rows
        BY DEF TypeOK
      <3> TAKE d \in Deliveries
      <3>2. row'[d] = [row[d] EXCEPT !.lease = IF @ > 0 THEN @ - 1 ELSE 0,
                                     !.next = IF @ > 0 THEN @ - 1 ELSE 0]
        BY <1>16 DEF Tick
      <3>3. QED BY <3>1, <3>2 DEF Rows
    <2>2. QED BY <1>1, <1>16, <2>1 DEF Tick, runs, proc, history
  <1>17. CASE UNCHANGED vars
    BY <1>1, <1>17 DEF vars, store, runs, proc, history
  <1>18. QED
    BY <1>2, <1>3, <1>4, <1>5, <1>6, <1>7, <1>8, <1>10, <1>11, <1>12, <1>13,
       <1>14, <1>15, <1>16, <1>17 DEF Next

\* A delivery is recorded terminal_injected only after its text was submitted in
\* the pane of the run generation it names: it rests on the arbiter letting one
\* paste at a time into a pane, so that no other Enter takes its text.
THEOREM InjectedIsEntered == Spec => []InjectedWasEntered
  <1>1. Init => EnteredInv
    BY DEF Init, EnteredInv, InjectedWasEntered, InFlight, Idle, NoRow
  <1>2. EnteredInv => InjectedWasEntered
    BY DEF EnteredInv
  <1>3. QED BY <1>1, <1>2, NextEntered, TypeCorrect, PTL DEF Spec

-----------------------------------------------------------------------------
(* Who holds a row while its promise is in flight, and how often it pastes. *)

\* What a step may do to a row that is nobody's or not in flight, and to the rest:
\* the parts of OwnershipInv at one delivery.
Ownership(d) ==
  /\ InFlight(d) => up
  /\ d[1] > seq => row[d] = NoRow /\ ~ InFlight(d) /\ pastes[d] = 0
  /\ claim[d].stage \in {"claimed", "observing", "queued"} /\ row[d].status # "none"
       => pastes[d] < row[d].attempts
  /\ InFlight(d) =>
       \/ /\ Owned(d)
          /\ row[d].attempts = claim[d].attempts
          /\ claim[d].stage # "claimed" =>
               row[d].status = "delivering" /\ row[d].gen = claim[d].gen
       \/ row[d].status \in {"revoked", "none"}
  /\ row[d].status # "none" => pastes[d] <= row[d].attempts

\* OwnershipInv holds delivery by delivery.
LEMMA OwnershipAt ==
  OwnershipInv <=> (\A s \in messages : s <= seq) /\ \A d \in Deliveries : Ownership(d)
  BY DEF OwnershipInv, Ownership, InFlightOwnsRow, PastesPerAttempt

LEMMA OwnershipNext ==
  ASSUME (\A s \in messages : s <= seq)', \A d \in Deliveries : Ownership(d)'
  PROVE  OwnershipInv'
  BY DEF OwnershipInv, Ownership, InFlightOwnsRow, PastesPerAttempt

\* A delivery that a step leaves alone, but for the lease and the delay of its
\* row, keeps its part of the invariant.
LEMMA OwnershipKept ==
  ASSUME TypeOK, NEW d \in Deliveries, Ownership(d), seq' \in Nat, seq' >= seq,
         InFlight(d) => up' /\ owner' = owner,
         claim'[d] = claim[d], pastes'[d] = pastes[d],
         row'[d].status = row[d].status, row'[d].attempts = row[d].attempts,
         row'[d].owner = row[d].owner, row'[d].gen = row[d].gen,
         row[d] = NoRow => row'[d] = NoRow
  PROVE  Ownership(d)'
  <1>1. seq \in Nat /\ d[1] \in Nat
    BY DEF TypeOK, Deliveries, Seqs
  <1>2. d[1] > seq' => d[1] > seq
    BY <1>1
  <1>3. InFlight(d)' <=> InFlight(d)
    BY DEF InFlight
  <1>4. InFlight(d) => (Owned(d)' <=> Owned(d))
    BY DEF Owned
  <1>5. QED BY <1>2, <1>3, <1>4 DEF Ownership

\* A row that vanishes with its message asks nothing more of a promise in flight.
LEMMA OwnershipDropped ==
  ASSUME TypeOK, NEW d \in Deliveries, Ownership(d), seq' \in Nat, seq' >= seq,
         UNCHANGED <<up, claim, pastes>>, row'[d] = NoRow
  PROVE  Ownership(d)'
  <1>1. seq \in Nat /\ d[1] \in Nat
    BY DEF TypeOK, Deliveries, Seqs
  <1>2. d[1] > seq' => d[1] > seq
    BY <1>1
  <1>3. row'[d].status = "none"
    BY DEF NoRow
  <1>4. InFlight(d)' <=> InFlight(d)
    BY DEF InFlight
  <1>5. QED BY <1>2, <1>3, <1>4 DEF Ownership

\* A promise that ends releases its row: what remains is what it pasted.
LEMMA OwnershipReleased ==
  ASSUME TypeOK, NEW d \in Deliveries, Ownership(d), InFlight(d), UNCHANGED <<seq, pastes>>,
         claim'[d] = Idle, row'[d].attempts = row[d].attempts,
         row'[d].status # "none" => row[d].status # "none"
  PROVE  Ownership(d)'
  <1>1. ~ InFlight(d)' /\ claim'[d].stage = "idle"
    BY DEF InFlight, Idle
  <1>2. ~ (d[1] > seq)
    BY DEF Ownership
  <1>3. QED BY <1>1, <1>2 DEF Ownership

\* The compare-and-set that ends a claim, and its row.
LEMMA SettleEffect ==
  ASSUME TypeOK, NEW d \in Deliveries, NEW status, NEW next, Settle(d, status, next)
  PROVE  /\ \A e \in Deliveries : e # d => row'[e] = row[e]
         /\ row'[d].attempts = row[d].attempts
         /\ ~ Owned(d) => row'[d] = row[d]
         /\ Owned(d) => row'[d].status = status /\ row[d].status # "none"
  <1>1. row \in [Deliveries -> Rows] /\ row[d] \in Rows
    BY DEF TypeOK
  <1> DEFINE ended == [row[d] EXCEPT !.status = status, !.next = next,
                                     !.owner = 0, !.lease = 0]
  <1>2. ended.attempts = row[d].attempts /\ ended.status = status
    BY <1>1 DEF Rows
  <1>3. row' = IF Owned(d) THEN [row EXCEPT ![d] = ended] ELSE row
    BY <1>1 DEF Settle
  <1> HIDE DEF ended
  <1>4. Owned(d) => row[d].status # "none"
    BY DEF Owned, Leased
  <1>5. QED BY <1>1, <1>2, <1>3, <1>4

\* A step of one promise takes no row from another, and counts its attempt before
\* it pastes.
LEMMA StepOwnership ==
  ASSUME TypeOK, TypeOK', OwnershipInv, NEW d \in Deliveries, Step(d)
  PROVE  OwnershipInv'
  <1>1. /\ UNCHANGED <<seq, messages, up, owner>>
        /\ \A e \in Deliveries : e # d =>
             claim'[e] = claim[e] /\ row'[e] = row[e] /\ pastes'[e] = pastes[e]
    <2>1. CASE Reject(d)
      BY <2>1, SettleEffect DEF Reject, Release, TypeOK, history
    <2>2. CASE Begin(d)
      BY <2>2 DEF Begin, TypeOK, history
    <2>3. CASE Enqueue(d)
      BY <2>3 DEF Enqueue, TypeOK, store, history
    <2>4. CASE Paste(d)
      BY <2>4 DEF Paste, TypeOK, store
    <2>5. CASE Enter(d)
      BY <2>5 DEF Enter, TypeOK, store
    <2>6. CASE MarkInjected(d)
      BY <2>6 DEF MarkInjected, Release, TypeOK, history
    <2>7. CASE Fail(d)
      <3>1. \A e \in Deliveries : e # d => row'[e] = row[e]
        BY <2>7, SettleEffect DEF Fail
      <3>2. \A e \in Deliveries : e # d => claim'[e] = claim[e]
        BY <2>7 DEF Fail, Release, TypeOK
      <3>3. UNCHANGED <<seq, messages, up, owner, pastes>>
        BY <2>7 DEF Fail, Release, history
      <3>4. QED BY <3>1, <3>2, <3>3
    <2>8. QED BY <2>1, <2>2, <2>3, <2>4, <2>5, <2>6, <2>7 DEF Step
  <1>2. /\ \A s \in messages : s <= seq
        /\ \A e \in Deliveries : Ownership(e)
    BY OwnershipAt
  <1>3. seq \in Nat /\ seq' \in Nat /\ seq' >= seq
    BY <1>1 DEF TypeOK
  <1>4. ASSUME NEW e \in Deliveries, e # d PROVE Ownership(e)'
    <2>1. Ownership(e) /\ (InFlight(e) => up' /\ owner' = owner)
      BY <1>1, <1>2 DEF Ownership
    <2>2. QED BY <1>1, <1>3, <1>4, <2>1, OwnershipKept
  <1>5. /\ Ownership(d) /\ ~ (d[1] > seq)' /\ up'
        /\ row[d] \in Rows /\ claim[d] \in Claims /\ pastes[d] \in Nat
    <2>1. InFlight(d) /\ Ownership(d)
      BY <1>2 DEF Step, Reject, Begin, Enqueue, Paste, Enter, MarkInjected, Fail, InFlight
    <2>2. ~ (d[1] > seq) /\ up
      BY <2>1 DEF Ownership
    <2>3. QED BY <1>1, <2>1, <2>2 DEF TypeOK
  <1>6. CASE Reject(d) \/ Fail(d)
    <2>1. Release(d) /\ UNCHANGED pastes /\ InFlight(d)
      BY <1>6 DEF Reject, Fail, InFlight, history
    <2>2. PICK status, next : Settle(d, status, next) /\ status # "none"
      BY <1>6 DEF Reject, Fail
    <2>3. row'[d].attempts = row[d].attempts
          /\ (row'[d].status # "none" => row[d].status # "none")
      BY <2>2, SettleEffect
    <2>4. claim'[d] = Idle
      BY <2>1 DEF Release, TypeOK
    <2>5. Ownership(d)'
      BY <1>1, <1>5, <2>1, <2>3, <2>4, OwnershipReleased
    <2>6. QED BY <1>1, <1>2, <1>4, <2>5, OwnershipNext
  <1>7. CASE MarkInjected(d)
    <2>1. Release(d) /\ UNCHANGED pastes /\ InFlight(d)
      BY <1>7 DEF MarkInjected, InFlight, history
    <2>2. row'[d].attempts = row[d].attempts
          /\ (row'[d].status # "none" => row[d].status # "none")
      <3> DEFINE ended == [row[d] EXCEPT !.status = "terminal_injected", !.owner = 0, !.lease = 0]
      <3>1. ended.attempts = row[d].attempts
        BY <1>5 DEF Rows
      <3> DEFINE won == row[d].status = "delivering" /\ row[d].owner = owner
                        /\ row[d].gen = claim[d].gen
      <3>2. row' = IF won THEN [row EXCEPT ![d] = ended] ELSE row
        BY <1>7 DEF MarkInjected, TypeOK
      <3>3. won => row[d].status # "none"
        OBVIOUS
      <3> HIDE DEF ended, won
      <3>4. row'[d] = IF won THEN ended ELSE row[d]
        BY <3>2 DEF TypeOK
      <3>5. QED BY <3>1, <3>3, <3>4
    <2>3. claim'[d] = Idle
      BY <2>1 DEF Release, TypeOK
    <2>4. Ownership(d)'
      BY <1>1, <1>5, <2>1, <2>2, <2>3, OwnershipReleased
    <2>5. QED BY <1>1, <1>2, <1>4, <2>4, OwnershipNext
  <1>8. CASE Begin(d)
    <2>1. CASE claim'[d] = Idle /\ row' = row
      <3>1. InFlight(d) /\ UNCHANGED pastes
        BY <1>8 DEF Begin, InFlight, history
      <3>2. Ownership(d)'
        BY <1>1, <1>5, <2>1, <3>1, OwnershipReleased
      <3>3. QED BY <1>1, <1>2, <1>4, <3>2, OwnershipNext
    <2>2. CASE /\ row[d].status = "received" /\ row[d].owner = owner
               /\ row' = [row EXCEPT ![d] = [row[d] EXCEPT !.status = "delivering",
                                                           !.gen = claim[d].gen]]
               /\ claim' = [claim EXCEPT ![d] = [claim[d] EXCEPT !.stage = "observing"]]
      <3> DEFINE r == [row[d] EXCEPT !.status = "delivering", !.gen = claim[d].gen]
                 c == [claim[d] EXCEPT !.stage = "observing"]
      <3>1. /\ r.status = "delivering" /\ r.gen = claim[d].gen
            /\ r.attempts = row[d].attempts /\ r.owner = row[d].owner
        BY <1>5 DEF Rows
      <3>2. c.stage = "observing" /\ c.gen = claim[d].gen /\ c.attempts = claim[d].attempts
        BY <1>5 DEF Claims
      <3>3. row'[d] = r /\ claim'[d] = c
        BY <2>2 DEF TypeOK
      <3> HIDE DEF r, c
      <3>4. claim[d].stage = "claimed" /\ UNCHANGED pastes
        BY <1>8 DEF Begin, history
      <3>5. Owned(d)'
        BY <1>1, <2>2, <3>1, <3>3 DEF Owned, Leased
      <3>6. row[d].attempts = claim[d].attempts /\ pastes[d] < row[d].attempts
        BY <1>5, <2>2, <3>4 DEF Ownership, InFlight
      <3>7. pastes'[d] < row'[d].attempts /\ row'[d].attempts = claim'[d].attempts
        BY <3>1, <3>2, <3>3, <3>4, <3>6
      <3>8. pastes'[d] <= row'[d].attempts
        <4>1. pastes'[d] \in Nat /\ row'[d].attempts \in Nat
          BY <1>5, <3>1, <3>3, <3>4 DEF Rows
        <4>2. QED BY <3>7, <4>1
      <3>9. Ownership(d)'
        BY <1>5, <3>1, <3>2, <3>3, <3>5, <3>7, <3>8 DEF Ownership
      <3>10. QED BY <1>1, <1>2, <1>4, <3>9, OwnershipNext
    <2>3. QED BY <1>8, <2>1, <2>2 DEF Begin, TypeOK
  <1>9. ASSUME Enqueue(d) \/ Paste(d) \/ Enter(d) PROVE OwnershipInv'
    <2> DEFINE from == claim[d].stage
               to == claim'[d].stage
    <2>1. /\ row' = row
          /\ from \in {"observing", "queued", "pasted"}
          /\ to \in {"queued", "pasted", "entered"}
          /\ to = "queued" => from = "observing" /\ pastes' = pastes
          /\ pastes' # pastes => from = "queued" /\ pastes'[d] = pastes[d] + 1
          /\ claim'[d].gen = claim[d].gen /\ claim'[d].attempts = claim[d].attempts
      <3>0. ASSUME NEW stage PROVE LET c == [claim[d] EXCEPT !.stage = stage] IN
              c.stage = stage /\ c.gen = claim[d].gen /\ c.attempts = claim[d].attempts
        BY <1>5 DEF Claims
      <3>1. CASE Enqueue(d)
        BY <3>1, <3>0 DEF Enqueue, store, history, TypeOK
      <3>2. CASE Paste(d)
        <4>1. pastes'[d] = pastes[d] + 1
          BY <3>2 DEF Paste, TypeOK
        <4>2. QED BY <3>2, <3>0, <4>1 DEF Paste, store, TypeOK
      <3>3. CASE Enter(d)
        BY <3>3, <3>0 DEF Enter, store, TypeOK
      <3>4. QED BY <1>9, <3>1, <3>2, <3>3
    <2> HIDE DEF from, to
    <2>2. InFlight(d) /\ from # "claimed"
      BY <2>1 DEF InFlight, from
    <2>3. Owned(d)' <=> Owned(d)
      BY <1>1, <2>1 DEF Owned
    <2>4. InFlight(d)' => \/ /\ Owned(d)'
                            /\ row'[d].attempts = claim'[d].attempts
                            /\ row'[d].status = "delivering" /\ row'[d].gen = claim'[d].gen
                         \/ row'[d].status \in {"revoked", "none"}
      BY <1>5, <2>1, <2>2, <2>3 DEF Ownership, from
    <2>5. /\ row[d].status # "none" /\ from \in {"observing", "queued"}
               => pastes[d] < row[d].attempts
          /\ row[d].status # "none" => pastes[d] <= row[d].attempts
      BY <1>5 DEF Ownership, from
    <2>6. row[d].attempts \in Nat
      BY <1>5 DEF Rows
    <2>7. row'[d].status # "none" => pastes'[d] <= row'[d].attempts
      BY <1>5, <2>1, <2>5, <2>6
    <2>8. to \in {"claimed", "observing", "queued"} /\ row'[d].status # "none"
            => pastes'[d] < row'[d].attempts
      BY <2>1, <2>5
    <2>9. Ownership(d)'
      BY <1>5, <2>4, <2>7, <2>8 DEF Ownership, to
    <2>10. QED BY <1>1, <1>2, <1>4, <2>9, OwnershipNext
  <1>10. QED BY <1>6, <1>7, <1>8, <1>9 DEF Step

\* Every step keeps OwnershipInv.
LEMMA NextOwnership == TypeOK /\ TypeOK' /\ OwnershipInv /\ [Next]_vars => OwnershipInv'
  <1> SUFFICES ASSUME TypeOK, TypeOK', OwnershipInv, [Next]_vars PROVE OwnershipInv'
    OBVIOUS
  <1>1. /\ \A s \in messages : s <= seq
        /\ \A d \in Deliveries : Ownership(d)
    BY OwnershipAt
  <1>2. seq \in Nat /\ seq' \in Nat /\ messages \subseteq Nat
    BY DEF TypeOK, Seqs
  <1>3. \A d \in Deliveries : row[d] \in Rows /\ claim[d] \in Claims /\ pastes[d] \in Nat
    BY DEF TypeOK
  \* Steps that do not touch the status, the attempts or the owner of a row.
  <1>4. ASSUME UNCHANGED <<seq, messages, claim, pastes>>,
               \A d \in Deliveries :
                 /\ InFlight(d) => up' /\ owner' = owner
                 /\ row'[d].status = row[d].status /\ row'[d].attempts = row[d].attempts
                 /\ row'[d].owner = row[d].owner /\ row'[d].gen = row[d].gen
                 /\ row[d] = NoRow => row'[d] = NoRow
        PROVE  OwnershipInv'
    <2>1. ASSUME NEW d \in Deliveries PROVE Ownership(d)'
      <3>1. Ownership(d) /\ seq' >= seq
        BY <1>1, <1>2, <1>4
      <3>2. QED BY <1>2, <1>4, <3>1, OwnershipKept
    <2>2. QED BY <1>1, <1>4, <2>1, OwnershipNext
  <1>5. ASSUME UNCHANGED <<seq, messages, row, up, owner, claim, pastes>>
        PROVE  OwnershipInv'
    <2>1. \A d \in Deliveries : InFlight(d) => up' /\ owner' = owner
      BY <1>1, <1>5 DEF Ownership
    <2>2. QED BY <1>4, <1>5, <2>1
  <1>6. ASSUME NEW k \in Keys \cup {NoKey}, NEW r \in SUBSET Members, Submit(k, r)
        PROVE  OwnershipInv'
    <2> DEFINE s == seq + 1
               gone == Victims(messages \cup {s})
               inserted == [d \in Deliveries |->
                 IF d[1] = s /\ d[2] \in r THEN NewRow ELSE row[d]]
    <2>1. /\ seq' = s /\ messages' = (messages \cup {s}) \ gone
          /\ row' = DropRows(inserted, gone)
          /\ UNCHANGED <<up, owner, claim, pastes>>
      BY <1>6 DEF Submit, proc, history
    <2>2. \A t \in messages' : t <= seq'
      BY <1>1, <1>2, <2>1
    <2> HIDE DEF gone
    <2>3. ASSUME NEW d \in Deliveries PROVE Ownership(d)'
      <3>1. Ownership(d) /\ seq' >= seq
        BY <1>1, <1>2, <2>1
      <3>2. CASE d[1] \in gone
        <4>1. row'[d] = NoRow
          BY <2>1, <3>2 DEF DropRows
        <4>2. QED BY <1>2, <2>1, <3>1, <4>1, OwnershipDropped
      <3>3. CASE d[1] \notin gone /\ d[1] = s /\ d[2] \in r
        <4>1. row'[d] = NewRow /\ d[1] > seq /\ ~ (d[1] > seq')
          BY <1>2, <2>1, <3>3 DEF DropRows
        <4>2. ~ InFlight(d) /\ pastes[d] = 0
          BY <3>1, <4>1 DEF Ownership
        <4>3. NewRow.attempts = 0
          BY DEF NewRow, NoRow
        <4>4. ~ InFlight(d)' /\ claim'[d].stage = "idle" /\ pastes'[d] = 0
          BY <2>1, <4>2 DEF InFlight
        <4>5. QED BY <4>1, <4>3, <4>4 DEF Ownership
      <3>4. CASE d[1] \notin gone /\ ~ (d[1] = s /\ d[2] \in r)
        <4>1. row'[d] = row[d]
          BY <2>1, <3>4 DEF DropRows
        <4>2. InFlight(d) => up' /\ owner' = owner
          BY <2>1, <3>1 DEF Ownership
        <4>3. QED BY <1>2, <2>1, <3>1, <4>1, <4>2, OwnershipKept
      <3>5. QED BY <3>2, <3>3, <3>4
    <2>4. QED BY <2>2, <2>3, OwnershipNext
  <1>7. CASE ClearHistory
    <2>1. /\ messages' = {} /\ row' = DropRows(row, messages)
          /\ UNCHANGED <<seq, up, owner, claim, pastes>>
      BY <1>7 DEF ClearHistory, proc, history
    <2>2. ASSUME NEW d \in Deliveries PROVE Ownership(d)'
      <3>1. Ownership(d) /\ seq' >= seq
        BY <1>1, <1>2, <2>1
      <3>2. CASE d[1] \in messages
        <4>1. row'[d] = NoRow
          BY <2>1, <3>2 DEF DropRows
        <4>2. QED BY <1>2, <2>1, <3>1, <4>1, OwnershipDropped
      <3>3. CASE d[1] \notin messages
        <4>1. row'[d] = row[d]
          BY <2>1, <3>3 DEF DropRows
        <4>2. InFlight(d) => up' /\ owner' = owner
          BY <2>1, <3>1 DEF Ownership
        <4>3. QED BY <1>2, <2>1, <3>1, <4>1, <4>2, OwnershipKept
      <3>4. QED BY <3>2, <3>3
    <2>3. QED BY <2>1, <2>2, OwnershipNext
  <1>8. ASSUME NEW s \in Seqs, Expire(s) PROVE OwnershipInv'
    BY <1>5, <1>8 DEF Expire, proc, history
  <1>9. ASSUME NEW m \in Members,
               AddMember(m) \/ StartRun(m) \/ StopRun(m) \/ EndRun(m) \/ PaneDies(m)
        PROVE  OwnershipInv'
    BY <1>5, <1>9 DEF AddMember, StartRun, StopRun, EndRun, PaneDies, store, proc, history
  <1>10. ASSUME NEW m \in Members, RemoveMember(m) PROVE OwnershipInv'
    <2>1. UNCHANGED <<seq, messages, up, owner, claim, pastes>>
      BY <1>10 DEF RemoveMember, proc, history
    <2>2. ASSUME NEW d \in Deliveries PROVE Ownership(d)'
      <3>1. Ownership(d) /\ (InFlight(d) => up' /\ owner' = owner)
        BY <1>1, <2>1 DEF Ownership
      <3>2. CASE row'[d] = row[d]
        BY <1>2, <2>1, <3>1, <3>2, OwnershipKept
      <3>3. CASE row[d].status \in Pending /\ row'[d] = Revoked(row[d])
        <4>1. row'[d].status = "revoked" /\ row'[d].attempts = row[d].attempts
          BY <1>3, <3>3 DEF Revoked, Rows
        <4>2. ~ (d[1] > seq) /\ row[d].status # "none"
          BY <3>1, <3>3 DEF Ownership, NoRow, Pending
        <4>3. InFlight(d)' <=> InFlight(d)
          BY <2>1 DEF InFlight
        <4>4. QED BY <2>1, <3>1, <4>1, <4>2, <4>3 DEF Ownership
      <3>4. QED BY <1>10, <3>2, <3>3 DEF RemoveMember, Revoked
    <2>3. QED BY <1>1, <2>1, <2>2, OwnershipNext
  <1>11. ASSUME NEW b \in SUBSET Deliveries, Claim(b) PROVE OwnershipInv'
    <2>1. /\ up /\ UNCHANGED <<seq, messages, up, owner, pastes>>
          /\ \A d \in Deliveries : ~ InFlight(d)
      BY <1>11 DEF Claim, history
    <2>2. ASSUME NEW d \in Deliveries PROVE Ownership(d)'
      <3>1. Ownership(d)
        BY <1>1
      <3>2. CASE d \notin b
        <4>1. row'[d] = row[d] /\ claim'[d] = claim[d]
          BY <1>11, <3>2 DEF Claim
        <4>2. QED BY <1>2, <2>1, <3>1, <4>1, OwnershipKept
      <3>3. CASE d \in b
        <4>1. row'[d] = Lease(row[d])
              /\ claim'[d] = [stage |-> "claimed", gen |-> run[d[2]].gen,
                              attempts |-> row[d].attempts + 1]
          BY <1>11, <3>3 DEF Claim
        <4>2. /\ row'[d].status = "received" /\ row'[d].owner = owner
              /\ row'[d].attempts = row[d].attempts + 1
          BY <1>3, <4>1 DEF Lease, Rows
        <4>3. claim'[d].stage = "claimed" /\ claim'[d].attempts = row[d].attempts + 1
          BY <4>1
        <4>4. row[d].status \in Pending
          BY <1>11, <3>3 DEF Claim, Batches, Claimable
        <4>5. row[d].status # "none" /\ row[d] # NoRow
          BY <4>4 DEF Pending, NoRow
        <4>6. pastes[d] <= row[d].attempts /\ ~ (d[1] > seq)
          BY <3>1, <4>5 DEF Ownership
        <4>7. row[d].attempts \in Nat
          BY <1>3 DEF Rows
        <4>8. pastes'[d] < row'[d].attempts /\ pastes'[d] <= row'[d].attempts
          BY <1>3, <2>1, <4>2, <4>6, <4>7
        <4>9. Owned(d)' /\ row'[d].attempts = claim'[d].attempts
          BY <2>1, <4>2, <4>3 DEF Owned, Leased
        <4>10. QED BY <2>1, <4>3, <4>6, <4>8, <4>9 DEF Ownership
      <3>4. QED BY <3>2, <3>3
    <2>3. QED BY <1>1, <2>1, <2>2, OwnershipNext
  <1>12. ASSUME NEW d \in Deliveries, Step(d) PROVE OwnershipInv'
    BY <1>12, StepOwnership
  <1>13. CASE StartDaemon
    <2>1. /\ ~ up /\ UNCHANGED <<seq, messages, row, claim, pastes>>
      BY <1>13 DEF StartDaemon, store, history
    <2>2. \A d \in Deliveries : ~ InFlight(d)
      BY <1>1, <2>1 DEF Ownership
    <2>3. QED BY <1>4, <2>1, <2>2
  <1>14. CASE Crash
    <2>1. /\ UNCHANGED <<seq, messages, row, pastes>>
          /\ \A d \in Deliveries : claim'[d] = Idle
      BY <1>14 DEF Crash, store
    <2>2. ASSUME NEW d \in Deliveries PROVE Ownership(d)'
      <3>1. Ownership(d)
        BY <1>1
      <3>2. claim'[d].stage = "idle" /\ ~ InFlight(d)'
        BY <2>1 DEF Idle, InFlight
      <3>3. QED BY <2>1, <3>1, <3>2 DEF Ownership
    <2>3. QED BY <1>1, <2>1, <2>2, OwnershipNext
  <1>15. CASE Tick
    <2>1. UNCHANGED <<seq, messages, up, owner, claim, pastes>>
      BY <1>15 DEF Tick, proc, history
    <2>2. ASSUME NEW d \in Deliveries
          PROVE  /\ row'[d].status = row[d].status /\ row'[d].attempts = row[d].attempts
                 /\ row'[d].owner = row[d].owner /\ row'[d].gen = row[d].gen
                 /\ row[d] = NoRow => row'[d] = NoRow
      <3> DEFINE lease == IF row[d].lease > 0 THEN row[d].lease - 1 ELSE 0
                 next == IF row[d].next > 0 THEN row[d].next - 1 ELSE 0
      <3>1. row'[d] = [row[d] EXCEPT !.lease = lease, !.next = next]
        BY <1>15 DEF Tick
      <3>2. row[d] = NoRow => lease = row[d].lease /\ next = row[d].next
        BY DEF NoRow
      <3> HIDE DEF lease, next
      <3>3. QED BY <1>3, <3>1, <3>2 DEF Rows
    <2>3. \A d \in Deliveries : InFlight(d) => up' /\ owner' = owner
      BY <1>1, <2>1 DEF Ownership
    <2>4. QED BY <1>4, <2>1, <2>2, <2>3
  <1>16. CASE UNCHANGED vars
    BY <1>5, <1>16 DEF vars, store, proc, history
  <1>17. QED
    BY <1>6, <1>7, <1>8, <1>9, <1>10, <1>11, <1>12, <1>13, <1>14, <1>15, <1>16 DEF Next

\* The empty queue satisfies OwnershipInv.
LEMMA InitOwnership == Init => OwnershipInv
  BY DEF Init, OwnershipInv, InFlightOwnsRow, PastesPerAttempt, InFlight, Idle, NoRow

\* A promise of #deliver still holds its row under this process's lease owner, or
\* its recipient was removed or its message deleted: no tick, retry, expiry or
\* earlier process takes a row that is in flight.
THEOREM InFlightOwns == Spec => []InFlightOwnsRow
  <1>1. OwnershipInv => InFlightOwnsRow
    BY DEF OwnershipInv
  <1>2. QED BY <1>1, InitOwnership, NextOwnership, TypeCorrect, PTL DEF Spec

\* The text of a delivery reaches a terminal at most once per attempt the store
\* counted, over every crash, retry and lease that ran out.
THEOREM PastesCounted == Spec => []PastesPerAttempt
  <1>1. OwnershipInv => PastesPerAttempt
    BY DEF OwnershipInv
  <1>2. QED BY <1>1, InitOwnership, NextOwnership, TypeCorrect, PTL DEF Spec

-----------------------------------------------------------------------------
(* A replayed answer names a retained message. *)

\* Every step keeps ReplayNamesRetained.
LEMMA NextReplay == TypeOK /\ ReplayNamesRetained /\ [Next]_vars => ReplayNamesRetained'
  <1> SUFFICES ASSUME TypeOK, ReplayNamesRetained, [Next]_vars PROVE ReplayNamesRetained'
    OBVIOUS
  <1>0. Expired \notin Seqs /\ idem \in [Keys -> Seqs \cup {0, Expired}]
    BY DEF TypeOK, Expired, Seqs
  <1>1. ASSUME NEW k \in Keys \cup {NoKey}, NEW r \in SUBSET Members, Submit(k, r)
        PROVE  ReplayNamesRetained'
    <2> DEFINE s == seq + 1
               gone == Victims(messages \cup {s})
               recorded == IF k = NoKey THEN idem ELSE [idem EXCEPT ![k] = s]
    <2>1. messages' = (messages \cup {s}) \ gone /\ idem' = Invalidate(recorded, gone)
      BY <1>1 DEF Submit
    <2>2. \A j \in Keys : recorded[j] = s \/ recorded[j] = idem[j]
      BY <1>0
    <2> HIDE DEF s, gone, recorded
    <2>3. ASSUME NEW j \in Keys, idem'[j] \in Seqs PROVE idem'[j] \in messages'
      <3>1. idem'[j] = recorded[j] /\ recorded[j] \notin gone
        BY <1>0, <2>1, <2>3 DEF Invalidate
      <3>2. recorded[j] \in messages \cup {s}
        BY <2>2, <2>3, <3>1 DEF ReplayNamesRetained
      <3>3. QED BY <2>1, <3>1, <3>2
    <2>4. QED BY <2>3 DEF ReplayNamesRetained
  <1>2. CASE ClearHistory
    BY <1>0, <1>2 DEF ClearHistory, Invalidate, ReplayNamesRetained
  <1>3. ASSUME UNCHANGED <<messages, idem>> PROVE ReplayNamesRetained'
    BY <1>3 DEF ReplayNamesRetained
  <1>4. ASSUME NEW s \in Seqs, Expire(s) PROVE ReplayNamesRetained'
    BY <1>3, <1>4 DEF Expire
  <1>5. ASSUME NEW m \in Members,
               \/ AddMember(m) \/ RemoveMember(m) \/ StartRun(m)
               \/ StopRun(m) \/ EndRun(m) \/ PaneDies(m)
        PROVE  ReplayNamesRetained'
    BY <1>3, <1>5 DEF AddMember, RemoveMember, StartRun, StopRun, EndRun, PaneDies, store
  <1>6. ASSUME NEW d \in Deliveries, Step(d) PROVE ReplayNamesRetained'
    BY <1>3, <1>6 DEF Step, Reject, Begin, Enqueue, Paste, Enter, MarkInjected, Fail, store
  <1>7. CASE (\E b \in SUBSET Deliveries : Claim(b)) \/ StartDaemon \/ Crash \/ Tick
    BY <1>3, <1>7 DEF Claim, StartDaemon, Crash, Tick, store
  <1>8. CASE UNCHANGED vars
    BY <1>3, <1>8 DEF vars, store
  <1>9. QED BY <1>1, <1>2, <1>4, <1>5, <1>6, <1>7, <1>8 DEF Next

\* A replay of a submission names a message that is still retained: whatever
\* prunes or clears messages expires the answers that name them.
THEOREM ReplaysRetained == Spec => []ReplayNamesRetained
  <1>1. Init => ReplayNamesRetained
    BY DEF Init, ReplayNamesRetained, Seqs
  <1>2. QED BY <1>1, NextReplay, TypeCorrect, PTL DEF Spec

-----------------------------------------------------------------------------
(* The queue implements the ledger of outcomes. *)

\* What a status means in the ledger.
LEMMA OutcomeOf ==
  /\ \A status \in Pending : Outcome(status) = "pending"
  /\ Outcome("terminal_injected") = "injected"
  /\ Outcome("dead-letter") = "dead"
  /\ \A status \in {"none", "revoked", "rejected"} : Outcome(status) = status
  BY DEF Outcome, Pending

\* The texts waiting in a prompt belong to messages that were posted.
PromptsPosted == \A m \in Members : prompt[m] \subseteq 1..seq

\* Every step keeps PromptsPosted.
LEMMA NextPrompts == TypeOK /\ OwnershipInv /\ PromptsPosted /\ [Next]_vars => PromptsPosted'
  <1> SUFFICES ASSUME TypeOK, OwnershipInv, PromptsPosted, [Next]_vars PROVE PromptsPosted'
    OBVIOUS
  <1>0. seq \in Nat /\ prompt \in [Members -> SUBSET Seqs]
    BY DEF TypeOK
  <1>1. ASSUME NEW m \in Members, NoPane(m), seq' = seq PROVE PromptsPosted'
    BY <1>0, <1>1 DEF NoPane, PromptsPosted
  <1>2. ASSUME prompt' = prompt, seq' \in {seq, seq + 1} PROVE PromptsPosted'
    <2>1. 1..seq \subseteq 1..seq'
      BY <1>0, <1>2
    <2>2. QED BY <1>2, <2>1 DEF PromptsPosted
  <1>3. ASSUME NEW k \in Keys \cup {NoKey}, NEW r \in SUBSET Members, Submit(k, r)
        PROVE  PromptsPosted'
    BY <1>2, <1>3 DEF Submit
  <1>4. CASE ClearHistory \/ (\E s \in Seqs : Expire(s)) \/ StartDaemon \/ Crash \/ Tick
    BY <1>2, <1>4 DEF ClearHistory, Expire, StartDaemon, Crash, Tick, store
  <1>5. ASSUME NEW m \in Members,
               \/ AddMember(m) \/ RemoveMember(m) \/ StartRun(m)
               \/ StopRun(m) \/ EndRun(m) \/ PaneDies(m)
        PROVE  PromptsPosted'
    <2>1. CASE AddMember(m) \/ RemoveMember(m) \/ StopRun(m)
      BY <1>2, <2>1 DEF AddMember, RemoveMember, StopRun, store
    <2>2. CASE StartRun(m)
      BY <1>0, <2>2 DEF StartRun, PromptsPosted, store
    <2>3. CASE EndRun(m) \/ PaneDies(m)
      BY <1>1, <2>3 DEF EndRun, PaneDies, store
    <2>4. QED BY <1>5, <2>1, <2>2, <2>3
  <1>6. ASSUME NEW b \in SUBSET Deliveries, Claim(b) PROVE PromptsPosted'
    BY <1>2, <1>6 DEF Claim
  <1>7. ASSUME NEW d \in Deliveries, Step(d) PROVE PromptsPosted'
    <2>0. d[2] \in Members /\ d[1] \in Seqs
      BY DEF Deliveries
    <2>1. CASE Paste(d)
      <3>1. d[1] <= seq
        BY <1>0, <2>0, <2>1, OwnershipAt DEF Paste, Ownership, InFlight, Seqs
      <3>2. prompt' = [prompt EXCEPT ![d[2]] = @ \cup {d[1]}] /\ seq' = seq
        BY <2>1 DEF Paste, store
      <3>3. QED BY <1>0, <2>0, <3>1, <3>2 DEF PromptsPosted, Seqs
    <2>2. CASE Enter(d)
      BY <1>0, <2>2 DEF Enter, PromptsPosted, store
    <2>3. CASE Reject(d) \/ Begin(d) \/ Enqueue(d) \/ MarkInjected(d) \/ Fail(d)
      BY <1>2, <2>3 DEF Reject, Begin, Enqueue, MarkInjected, Fail, store
    <2>4. QED BY <1>7, <2>1, <2>2, <2>3 DEF Step
  <1>8. CASE UNCHANGED vars
    BY <1>2, <1>8 DEF vars, store
  <1>9. QED BY <1>3, <1>4, <1>5, <1>6, <1>7, <1>8 DEF Next

\* A step that changes no outcome, no prompt given and no number of messages is
\* a stutter of the ledger.
LEMMA LedgerStutter ==
  ASSUME UNCHANGED <<seq, entered>>,
         \A d \in Deliveries : Outcome(row'[d].status) = Outcome(row[d].status)
  PROVE  UNCHANGED Ledger!ledger
  BY DEF Ledger!ledger

\* A step that settles one pending row decides its outcome.
LEMMA LedgerDecide ==
  ASSUME UNCHANGED <<seq, entered>>, NEW d \in Deliveries,
         \A e \in Deliveries : e # d => row'[e] = row[e],
         Outcome(row[d].status) = "pending",
         NEW o \in {"injected", "rejected", "dead"}, Outcome(row'[d].status) = o,
         o = "injected" => entered[d] # {}
  PROVE  Ledger!Next
  <1>1. Ledger!Decide(d, o)
    BY DEF Ledger!Decide
  <1>2. o \in Ledger!Decided \ {"revoked"}
    BY DEF Ledger!Decided
  <1>3. d \in Ledger!Deliveries
    BY DEF Ledger!Deliveries, Deliveries, Seqs
  <1>4. QED BY <1>1, <1>2, <1>3 DEF Ledger!Next

\* A row whose status is left alone, or stays pending, keeps its outcome.
LEMMA OutcomeKept ==
  ASSUME NEW before, NEW after,
         after.status = before.status \/ {before.status, after.status} \subseteq Pending
  PROVE  Outcome(after.status) = Outcome(before.status)
  <1>1. CASE after.status = before.status
    BY <1>1
  <1>2. CASE {before.status, after.status} \subseteq Pending
    BY <1>2, OutcomeOf
  <1>3. QED BY <1>1, <1>2

\* The end of one promise is one decision of the ledger, or none.
LEMMA StepLedger ==
  ASSUME TypeOK, EnteredInv, OwnershipInv, PromptsPosted, NEW d \in Deliveries, Step(d)
  PROVE  Ledger!Next \/ UNCHANGED Ledger!ledger
  <1>0. /\ d[2] \in Members /\ row[d] \in Rows /\ claim[d] \in Claims
        /\ Leased \subseteq Pending
    BY DEF TypeOK, Deliveries, Leased, Pending
  <1>1. ASSUME NEW status, NEW next, Settle(d, status, next), UNCHANGED <<seq, entered>>,
               NEW o \in {"rejected", "dead"},
               Outcome(status) = o \/ status \in Pending
        PROVE  Ledger!Next \/ UNCHANGED Ledger!ledger
    <2>1. \A e \in Deliveries : e # d => row'[e] = row[e]
      BY <1>1, SettleEffect
    <2>2. CASE ~ Owned(d)
      BY <1>1, <2>1, <2>2, SettleEffect, LedgerStutter
    <2>3. CASE Owned(d) /\ status \in Pending
      <3>1. {row[d].status, row'[d].status} \subseteq Pending
        BY <1>0, <1>1, <2>3, SettleEffect DEF Owned
      <3>2. Outcome(row'[d].status) = Outcome(row[d].status)
        BY <3>1, OutcomeKept
      <3>3. QED BY <1>1, <2>1, <3>2, LedgerStutter
    <2>4. CASE Owned(d) /\ Outcome(status) = o
      <3>1. row'[d].status = status /\ row[d].status \in Pending
        BY <1>0, <1>1, <2>4, SettleEffect DEF Owned
      <3>2. Outcome(row[d].status) = "pending" /\ Outcome(row'[d].status) = o
        BY <2>4, <3>1, OutcomeOf
      <3>3. QED BY <1>1, <2>1, <3>2, LedgerDecide
    <2>5. QED BY <1>1, <2>2, <2>3, <2>4
  <1>2. CASE Reject(d)
    <2>1. Settle(d, "rejected", row[d].next) /\ UNCHANGED <<seq, entered>>
      BY <1>2 DEF Reject, history
    <2>2. QED BY <1>1, <2>1, OutcomeOf
  <1>3. CASE Fail(d)
    <2>1. UNCHANGED <<seq, entered>>
      BY <1>3 DEF Fail, history
    <2>2. CASE Settle(d, "dead-letter", 0)
      BY <1>1, <2>1, <2>2, OutcomeOf
    <2>3. CASE Settle(d, "retrying", RetryDelay(claim[d].attempts))
      BY <1>1, <2>1, <2>3 DEF Pending
    <2>4. QED BY <1>3, <2>2, <2>3 DEF Fail
  <1>4. CASE Begin(d)
    <2>1. UNCHANGED <<seq, entered>>
      BY <1>4 DEF Begin, history
    <2>2. CASE row' = row
      BY <2>1, <2>2, LedgerStutter
    <2>3. CASE row[d].status = "received"
               /\ row' = [row EXCEPT ![d] = [row[d] EXCEPT !.status = "delivering",
                                                           !.gen = claim[d].gen]]
      <3> DEFINE r == [row[d] EXCEPT !.status = "delivering", !.gen = claim[d].gen]
      <3>1. r.status = "delivering"
        BY <1>0 DEF Rows
      <3> HIDE DEF r
      <3>2. \A e \in Deliveries : row'[e] = IF e = d THEN r ELSE row[e]
        BY <2>3 DEF TypeOK, r
      <3>3. Outcome(r.status) = Outcome(row[d].status)
        BY <2>3, <3>1, OutcomeKept DEF Pending
      <3>4. QED BY <2>1, <3>2, <3>3, LedgerStutter
    <2>4. QED BY <1>4, <2>2, <2>3 DEF Begin, TypeOK
  <1>5. CASE Enqueue(d) \/ Paste(d)
    <2>1. UNCHANGED <<seq, row, entered>>
      BY <1>5 DEF Enqueue, Paste, store, history
    <2>2. QED BY <2>1, LedgerStutter
  <1>6. CASE Enter(d)
    <2> DEFINE m == d[2]
               g == claim[d].gen
    <2>1. /\ UNCHANGED <<seq, row>>
          /\ entered' = [e \in Deliveries |->
               IF e[2] = m /\ e[1] \in prompt[m] THEN entered[e] \cup {g} ELSE entered[e]]
      BY <1>6 DEF Enter, store
    <2>2. prompt[m] \subseteq 1..seq /\ prompt[m] \in SUBSET (1..MaxSeq)
      BY <1>0 DEF PromptsPosted, TypeOK, Seqs
    <2>3. g \in 1..MaxGen
      <3>1. InFlight(d)
        BY <1>6 DEF Enter, InFlight
      <3>2. 1 <= g /\ g \in 0..MaxGen
        BY <1>0, <3>1 DEF EnteredInv, Claims
      <3>3. QED BY <3>2
    <2>4. Ledger!Give(prompt[m], m, g)
      BY <2>1, <2>2 DEF Ledger!Give, Ledger!Deliveries, Deliveries, Seqs
    <2>5. QED BY <1>0, <2>2, <2>3, <2>4 DEF Ledger!Next
  <1>7. CASE MarkInjected(d)
    <2> DEFINE ended == [row[d] EXCEPT !.status = "terminal_injected", !.owner = 0, !.lease = 0]
    <2>1. UNCHANGED <<seq, entered>>
      BY <1>7 DEF MarkInjected, history
    <2>2. CASE row' = row
      BY <2>1, <2>2, LedgerStutter
    <2>3. CASE row[d].status = "delivering" /\ row' = [row EXCEPT ![d] = ended]
      <3>1. ended.status = "terminal_injected"
        BY <1>0 DEF Rows
      <3> HIDE DEF ended
      <3>2. \A e \in Deliveries : row'[e] = IF e = d THEN ended ELSE row[e]
        BY <2>3 DEF TypeOK
      <3>3. Outcome(row[d].status) = "pending" /\ Outcome(row'[d].status) = "injected"
        BY <2>3, <3>1, <3>2, OutcomeOf DEF Pending
      <3>4. claim[d].gen \in entered[d]
        BY <1>7 DEF MarkInjected, EnteredInv
      <3>5. QED BY <2>1, <3>2, <3>3, <3>4, LedgerDecide
    <2>4. QED BY <1>7, <2>2, <2>3 DEF MarkInjected, TypeOK
  <1>8. QED BY <1>2, <1>3, <1>4, <1>5, <1>6, <1>7 DEF Step

\* Every step of the queue is a step of the ledger, or changes nothing in it.
LEMMA NextLedger ==
  TypeOK /\ EnteredInv /\ OwnershipInv /\ PromptsPosted /\ [Next]_vars
    => [Ledger!Next]_(Ledger!ledger)
  <1> SUFFICES ASSUME TypeOK, EnteredInv, OwnershipInv, PromptsPosted, [Next]_vars
               PROVE  Ledger!Next \/ UNCHANGED Ledger!ledger
    OBVIOUS
  <1>1. ASSUME UNCHANGED <<seq, row, entered>> PROVE UNCHANGED Ledger!ledger
    BY <1>1, LedgerStutter
  <1>2. ASSUME NEW k \in Keys \cup {NoKey}, NEW r \in SUBSET Members, Submit(k, r)
        PROVE  Ledger!Next
    <2> DEFINE s == seq + 1
               gone == Victims(messages \cup {s})
               inserted == [d \in Deliveries |->
                 IF d[1] = s /\ d[2] \in r THEN NewRow ELSE row[d]]
    <2>1. /\ seq < MaxSeq /\ seq' = s /\ entered' = entered
          /\ row' = DropRows(inserted, gone)
      BY <1>2 DEF Submit, history
    <2>2. gone \in SUBSET (1..MaxSeq)
      <3>1. messages \cup {s} \subseteq 1..MaxSeq
        BY <2>1, ConstantsAssumption DEF TypeOK, Seqs, ConstantsAssumption
      <3>2. gone \subseteq messages \cup {s}
        BY DEF Victims
      <3>3. QED BY <3>1, <3>2
    <2>3. NewRow.status = "queued" /\ NoRow.status = "none"
      BY DEF NewRow, NoRow
    <2>4. Outcome("queued") = "pending" /\ Outcome("none") = "none"
      BY OutcomeOf DEF Pending
    <2> HIDE DEF gone
    <2>5. \A d \in Deliveries : Outcome(row'[d].status) =
            IF d[1] \in gone THEN "none"
            ELSE IF d[1] = s /\ d[2] \in r THEN "pending" ELSE Outcome(row[d].status)
      BY <2>1, <2>3, <2>4 DEF DropRows
    <2>6. Ledger!Post(r, gone)
      BY <2>1, <2>5 DEF Ledger!Post, Ledger!Without, Ledger!Deliveries, Deliveries, Seqs
    <2>7. QED BY <2>2, <2>6 DEF Ledger!Next
  <1>3. ASSUME ClearHistory PROVE Ledger!Next
    <2>1. UNCHANGED <<seq, entered>> /\ row' = DropRows(row, messages)
      BY <1>3 DEF ClearHistory, history
    <2>2. messages \in SUBSET (1..MaxSeq)
      BY DEF TypeOK, Seqs
    <2>3. \A d \in Deliveries : Outcome(row'[d].status) =
            IF d[1] \in messages THEN "none" ELSE Outcome(row[d].status)
      BY <2>1, OutcomeOf DEF DropRows, NoRow
    <2>4. Ledger!Drop(messages)
      BY <2>1, <2>3 DEF Ledger!Drop, Ledger!Without, Ledger!Deliveries, Deliveries, Seqs
    <2>5. QED BY <2>2, <2>4 DEF Ledger!Next
  <1>4. ASSUME NEW m \in Members, RemoveMember(m) PROVE Ledger!Next
    <2>1. UNCHANGED <<seq, entered>>
      BY <1>4 DEF RemoveMember, history
    <2>2. ASSUME NEW d \in Deliveries
          PROVE  Outcome(row'[d].status) =
                   IF d[2] = m /\ Outcome(row[d].status) = "pending"
                   THEN "revoked" ELSE Outcome(row[d].status)
      <3>1. row[d] \in Rows
        BY DEF TypeOK
      <3>2. Outcome(row[d].status) = "pending" <=> row[d].status \in Pending
        BY <3>1, OutcomeOf DEF Rows, Settled
      <3>3. row[d].status \in Pending => Outcome(Revoked(row[d]).status) = "revoked"
        BY <3>1, OutcomeOf DEF Revoked, Rows
      <3>4. row[d].status \notin Pending => Revoked(row[d]) = row[d]
        BY DEF Revoked
      <3>5. row'[d] = IF d[2] = m THEN Revoked(row[d]) ELSE row[d]
        BY <1>4 DEF RemoveMember
      <3>6. QED BY <3>2, <3>3, <3>4, <3>5
    <2>3. Ledger!RevokeAll(m)
      BY <2>1, <2>2 DEF Ledger!RevokeAll, Ledger!Deliveries, Deliveries, Seqs
    <2>4. QED BY <2>3 DEF Ledger!Next
  <1>5. ASSUME NEW s \in Seqs, Expire(s) PROVE UNCHANGED Ledger!ledger
    BY <1>1, <1>5 DEF Expire, history
  <1>6. ASSUME NEW m \in Members,
               AddMember(m) \/ StartRun(m) \/ StopRun(m) \/ EndRun(m) \/ PaneDies(m)
        PROVE  UNCHANGED Ledger!ledger
    BY <1>1, <1>6 DEF AddMember, StartRun, StopRun, EndRun, PaneDies, store, history
  <1>7. ASSUME NEW b \in SUBSET Deliveries, Claim(b) PROVE UNCHANGED Ledger!ledger
    <2>1. ASSUME NEW d \in b PROVE Outcome(Lease(row[d]).status) = Outcome(row[d].status)
      <3>1. row[d] \in Rows /\ row[d].status \in Pending
        BY <1>7 DEF Claim, Batches, Claimable, TypeOK
      <3>2. Lease(row[d]).status = "received" /\ "received" \in Pending
        BY <3>1 DEF Lease, Rows, Pending
      <3>3. QED BY <3>1, <3>2, OutcomeKept
    <2>2. /\ UNCHANGED <<seq, entered>>
          /\ \A d \in Deliveries : row'[d] = IF d \in b THEN Lease(row[d]) ELSE row[d]
      BY <1>7 DEF Claim, history
    <2>3. QED BY <2>1, <2>2, LedgerStutter
  <1>8. ASSUME NEW d \in Deliveries, Step(d) PROVE Ledger!Next \/ UNCHANGED Ledger!ledger
    BY <1>8, StepLedger
  <1>9. CASE StartDaemon \/ Crash
    BY <1>1, <1>9 DEF StartDaemon, Crash, store, history
  <1>10. CASE Tick
    <2>1. UNCHANGED <<seq, entered>>
      BY <1>10 DEF Tick, history
    <2>2. ASSUME NEW d \in Deliveries PROVE row'[d].status = row[d].status
      <3>1. row[d] \in Rows
        BY DEF TypeOK
      <3>2. \E lease, next : row'[d] = [row[d] EXCEPT !.lease = lease, !.next = next]
        BY <1>10 DEF Tick
      <3>3. QED BY <3>1, <3>2 DEF Rows
    <2>3. QED BY <2>1, <2>2, LedgerStutter
  <1>11. CASE UNCHANGED vars
    BY <1>1, <1>11 DEF vars, store, history
  <1>12. QED
    BY <1>2, <1>3, <1>4, <1>5, <1>6, <1>7, <1>8, <1>9, <1>10, <1>11 DEF Next

\* The empty queue is the empty ledger.
LEMMA InitLedger == Init => Ledger!Init
  <1> SUFFICES ASSUME Init PROVE Ledger!Init
    OBVIOUS
  <1>1. \A d \in Deliveries : Outcome(row[d].status) = "none"
    BY OutcomeOf DEF Init, NoRow
  <1>2. QED BY <1>1 DEF Init, Ledger!Init, Ledger!Deliveries, Deliveries, Seqs

\* The queue implements the ledger: whatever is claimed, leased, retried, crashed
\* or taken over, the outcomes a reader sees are decided once, and "injected" only
\* after the text was submitted.
THEOREM QueueImplementsLedger == Spec => ImplementsLedger
  <1>1. Init => EnteredInv /\ PromptsPosted
    BY DEF Init, EnteredInv, InjectedWasEntered, InFlight, Idle, NoRow, PromptsPosted
  <1>2. Spec => [](TypeOK /\ EnteredInv /\ OwnershipInv /\ PromptsPosted)
    BY <1>1, InitOwnership, NextEntered, NextOwnership, NextPrompts, TypeCorrect, PTL DEF Spec
  <1>3. QED BY <1>2, InitLedger, NextLedger, PTL DEF Spec, ImplementsLedger, Ledger!Spec
=============================================================================
