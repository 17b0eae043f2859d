------------------------------ MODULE Delivery ------------------------------
(***************************************************************************)
(* The durable message queue of one Nanasa group: apps/daemon/src/store.ts *)
(* (messages, deliveries, memberships, runs), the dispatcher that claims   *)
(* deliveries under a lease (delivery-dispatcher.ts), and the paste of a   *)
(* message into the owner pane of a run (terminal-delivery.ts,             *)
(* terminal-input-arbiter.ts, tmux-runtime.ts).                            *)
(*                                                                         *)
(* A delivery is a pair <<s, m>>: the message with group sequence s, to    *)
(* the member m.  SQLite transactions are atomic; the dispatcher gives up  *)
(* the event loop at every await, and each stretch between two awaits is   *)
(* one action.  Instants are modelled by what is left of them: lease and   *)
(* next count down to 0, where the code compares lease_expires_at and      *)
(* next_attempt_at with now.                                               *)
(***************************************************************************)
EXTENDS Integers, Sequences, FiniteSets

CONSTANTS
  Members,      \* members of the group
  Keys,         \* idempotency keys of submissions
  NoKey,        \* a submission without an Idempotency-Key
  Retention,    \* messages.retentionPerGroup
  MaxAttempts,  \* DeliveryDispatcher maxAttempts
  LeaseMs,      \* DeliveryDispatcher leaseMs, in ticks
  BatchSize,    \* DeliveryDispatcher batchSize
  RetryBase,    \* DeliveryDispatcher retryBaseMs, in ticks
  RetryMax,     \* DeliveryDispatcher retryMaxMs, in ticks
  MaxSeq,       \* bound: messages ever submitted
  MaxGen,       \* bound: runs a member is given
  MaxOwner      \* bound: daemon processes, so MaxOwner - 1 crashes

ASSUME ConstantsAssumption ==
  /\ Retention \in Nat \ {0} /\ MaxAttempts \in Nat \ {0}
  /\ LeaseMs \in Nat \ {0} /\ BatchSize \in Nat \ {0}
  /\ RetryBase \in Nat /\ RetryMax \in Nat
  /\ MaxSeq \in Nat /\ MaxGen \in Nat /\ MaxOwner \in Nat \ {0}
  /\ NoKey \notin Keys

VARIABLES
  seq,       \* groups.message_sequence
  messages,  \* the sequences of the retained rows of messages
  row,       \* deliveries, one record per <<s, m>>
  idem,      \* idempotency_keys: 0 unused, s > 0 the message, Expired
  expired,   \* messages whose delivery.expiresAt has passed
  member,    \* memberships.state
  run,       \* latest run of each member: generation and status
  pane,      \* generation whose owner pane is alive in tmux, 0 when none is
  prompt,    \* texts pasted into that pane and not yet submitted
  up,        \* a daemon process is running
  owner,     \* number of the last dispatcher owner (a fresh UUID per process)
  claim,     \* the promises of #deliver: stage, run generation, attempts
  inputQueue,\* TerminalInputArbiter.#queues: deliveries per run, first one active
  entered,   \* history: generations whose pane submitted the delivery's text
  pastes     \* history: times the text was pasted

store == <<seq, messages, row, idem, expired>>
runs == <<member, run, pane>>
proc == <<up, owner, claim, inputQueue>>
history == <<entered, pastes>>
vars == <<store, runs, prompt, proc, history>>

-----------------------------------------------------------------------------
Seqs == 1..MaxSeq
Deliveries == Seqs \X Members
Expired == -1

Pending == {"queued", "retrying", "received", "delivering"}
Leased == {"received", "delivering"}
Settled == {"terminal_injected", "revoked", "rejected", "dead-letter"}

NoRow == [status |-> "none", attempts |-> 0, owner |-> 0, lease |-> 0,
          next |-> 0, gen |-> 0]
NewRow == [NoRow EXCEPT !.status = "queued"]
Idle == [stage |-> "idle", gen |-> 0, attempts |-> 0]

Rows == [status : Pending \cup Settled \cup {"none"}, attempts : Nat,
         owner : 0..MaxOwner, lease : 0..LeaseMs, next : 0..RetryMax,
         gen : 0..MaxGen]
Claims == [stage : {"idle", "claimed", "observing", "queued", "pasted", "entered"},
           gen : 0..MaxGen, attempts : Nat]

\* The type of every variable.
TypeOK ==
  /\ seq \in 0..MaxSeq
  /\ messages \in SUBSET Seqs
  /\ row \in [Deliveries -> Rows]
  /\ idem \in [Keys -> Seqs \cup {0, Expired}]
  /\ expired \in SUBSET Seqs
  /\ member \in [Members -> {"none", "active", "removed"}]
  /\ run \in [Members -> [gen : 0..MaxGen, status : {"none", "running", "stopping"}]]
  /\ pane \in [Members -> 0..MaxGen]
  /\ prompt \in [Members -> SUBSET Seqs]
  /\ up \in BOOLEAN
  /\ owner \in 0..MaxOwner
  /\ claim \in [Deliveries -> Claims]
  /\ inputQueue \in [Members -> Seq(Seqs)]
  /\ entered \in [Deliveries -> SUBSET (0..MaxGen)]
  /\ pastes \in [Deliveries -> Nat]

Init ==
  /\ seq = 0 /\ messages = {}
  /\ row = [d \in Deliveries |-> NoRow]
  /\ idem = [k \in Keys |-> 0]
  /\ expired = {}
  /\ member = [m \in Members |-> "none"]
  /\ run = [m \in Members |-> [gen |-> 0, status |-> "none"]]
  /\ pane = [m \in Members |-> 0]
  /\ prompt = [m \in Members |-> {}]
  /\ up = FALSE /\ owner = 0
  /\ claim = [d \in Deliveries |-> Idle]
  /\ inputQueue = [m \in Members |-> << >>]
  /\ entered = [d \in Deliveries |-> {}]
  /\ pastes = [d \in Deliveries |-> 0]

-----------------------------------------------------------------------------
(* The event loop.  #dispatch claims a batch and calls #deliver on each     *)
(* claim before it first awaits, so no other handler runs while one is      *)
(* still at "claimed".  A crash may happen anywhere.                        *)

InFlight(d) == claim[d].stage /= "idle"
LoopFree == up /\ \A d \in Deliveries : claim[d].stage /= "claimed"

-----------------------------------------------------------------------------
(* Messages. *)

Active == {m \in Members : member[m] = "active"}

\* #assertMessagesDeletable: no row of these messages is under a live lease.
Deletable(ss) ==
  \A s \in ss, m \in Members :
    ~ (row[<<s, m>>].status \in Leased /\ row[<<s, m>>].lease > 0)

\* Rows of the deleted messages disappear with them.
DropRows(rows, ss) ==
  [d \in Deliveries |-> IF d[1] \in ss THEN NoRow ELSE rows[d]]

\* Mutant: a deletion forgets the answers that name the deleted messages.
InvalidateNothing(keys, ss) == keys

\* #invalidateMessageIdempotency: the answer naming a deleted message expires.
Invalidate(keys, ss) ==
  [k \in Keys |-> IF keys[k] \in ss THEN Expired ELSE keys[k]]

\* #pruneGroupMessages: all but the newest Retention messages.
Victims(ms) == {s \in ms : Cardinality({t \in ms : t > s}) >= Retention}

\* submitMessage: one transaction inserts the message, a queued delivery per
\* recipient and the idempotency row, and prunes; a live lease on a victim
\* aborts it.  A used key only replays its answer, so it changes nothing.
Submit(k, recipients) ==
  LET s == seq + 1
      kept == messages \cup {s}
      gone == Victims(kept)
      inserted == [d \in Deliveries |->
        IF d[1] = s /\ d[2] \in recipients THEN NewRow ELSE row[d]]
      recorded == IF k = NoKey THEN idem ELSE [idem EXCEPT ![k] = s]
  IN /\ LoopFree
     /\ seq < MaxSeq
     /\ recipients # {} /\ recipients \subseteq Active
     /\ k # NoKey => idem[k] = 0
     /\ Deletable(gone)
     /\ seq' = s
     /\ messages' = kept \ gone
     /\ row' = DropRows(inserted, gone)
     /\ idem' = Invalidate(recorded, gone)
     /\ UNCHANGED <<expired, runs, prompt, proc, history>>

\* clearMessageHistory.
ClearHistory ==
  /\ LoopFree
  /\ messages # {}
  /\ Deletable(messages)
  /\ messages' = {}
  /\ row' = DropRows(row, messages)
  /\ idem' = Invalidate(idem, messages)
  /\ UNCHANGED <<seq, expired, runs, prompt, proc, history>>

\* delivery.expiresAt of a message passes.
Expire(s) ==
  /\ s \in messages \ expired
  /\ expired' = expired \cup {s}
  /\ UNCHANGED <<seq, messages, row, idem, runs, prompt, proc, history>>

-----------------------------------------------------------------------------
(* Memberships and runs, as far as a delivery depends on them.  The          *)
(* coordinator serialises these operations.                                  *)

\* addMembership: a removed member is reactivated on the same row.
AddMember(m) ==
  /\ LoopFree
  /\ member[m] # "active"
  /\ member' = [member EXCEPT ![m] = "active"]
  /\ UNCHANGED <<store, run, pane, prompt, proc, history>>

\* Mutant: the removal puts the rows back in the queue.
RevokedToQueue(r) == IF r.status \in Pending
                     THEN [r EXCEPT !.status = "queued", !.owner = 0, !.lease = 0]
                     ELSE r

\* Status and lease of a row that the removal of its recipient revokes.
Revoked(r) == IF r.status \in Pending
              THEN [r EXCEPT !.status = "revoked", !.owner = 0, !.lease = 0]
              ELSE r

\* RunRuntimeCoordinator.removeMembership stops the run of the member first;
\* the store then revokes every unsettled delivery of the member.
RemoveMember(m) ==
  /\ LoopFree
  /\ member[m] = "active"
  /\ run[m].status = "none"
  /\ member' = [member EXCEPT ![m] = "removed"]
  /\ row' = [d \in Deliveries |-> IF d[2] = m THEN Revoked(row[d]) ELSE row[d]]
  /\ UNCHANGED <<seq, messages, idem, expired, run, pane, prompt, proc, history>>

\* createRunForMembership and the launch of the run in a fresh pane.
StartRun(m) ==
  /\ LoopFree
  /\ member[m] = "active"
  /\ run[m].status = "none"
  /\ run[m].gen < MaxGen
  /\ run' = [run EXCEPT ![m] = [gen |-> run[m].gen + 1, status |-> "running"]]
  /\ pane' = [pane EXCEPT ![m] = run[m].gen + 1]
  /\ prompt' = [prompt EXCEPT ![m] = {}]
  /\ UNCHANGED <<store, member, proc, entered, pastes>>

\* #stopRun records "stopping" before it awaits the kill of the pane.
StopRun(m) ==
  /\ LoopFree
  /\ run[m].status = "running"
  /\ run' = [run EXCEPT ![m].status = "stopping"]
  /\ UNCHANGED <<store, member, pane, prompt, proc, history>>

NoPane(m) ==
  /\ pane' = [pane EXCEPT ![m] = 0]
  /\ prompt' = [prompt EXCEPT ![m] = {}]

\* The pane is gone and the run is recorded stopped; also a run whose pane was
\* confirmed missing and is recorded failed.
EndRun(m) ==
  /\ LoopFree
  /\ \/ run[m].status = "stopping"
     \/ run[m].status = "running" /\ pane[m] = 0
  /\ run' = [run EXCEPT ![m].status = "none"]
  /\ NoPane(m)
  /\ UNCHANGED <<store, member, proc, entered, pastes>>

\* The agent exits or tmux loses the pane.
PaneDies(m) ==
  /\ pane[m] # 0
  /\ NoPane(m)
  /\ UNCHANGED <<store, member, run, proc, entered, pastes>>

-----------------------------------------------------------------------------
(* The dispatcher. *)

\* Mutant: rows a dead process had leased are not selected again.
ClaimableOnce(d) ==
  /\ d[1] \in messages
  /\ row[d].status \in Pending \ Leased
  /\ row[d].next = 0
  /\ member[d[2]] = "active"
  /\ run[d[2]].status = "running"

\* Mutant: a revoked row of a member that came back is selected.
ClaimableRevoked(d) ==
  /\ d[1] \in messages
  /\ row[d].status \in Pending \cup {"revoked"}
  /\ row[d].next = 0
  /\ row[d].lease = 0
  /\ member[d[2]] = "active"
  /\ run[d[2]].status = "running"

\* The rows claimDeliveries selects.
Claimable(d) ==
  /\ d[1] \in messages
  /\ row[d].status \in Pending
  /\ row[d].next = 0
  /\ row[d].lease = 0
  /\ member[d[2]] = "active"
  /\ run[d[2]].status = "running"

\* The first BatchSize claimable rows by message age.  Rows of one message are
\* ordered by the recipient's random id: any choice among them may come first.
Batches ==
  LET eligible == {d \in Deliveries : Claimable(d)}
  IN {b \in SUBSET eligible :
        /\ b # {}
        /\ Cardinality(b) <= BatchSize
        /\ eligible # b => Cardinality(b) = BatchSize
        /\ \A d \in b, e \in eligible \ b : d[1] <= e[1]}

\* Mutant: taking over the row of a dead process is not counted as an attempt.
LeaseFresh(r) == [r EXCEPT !.status = "received", !.owner = owner, !.lease = LeaseMs,
                           !.attempts = IF r.status \in Leased THEN @ ELSE @ + 1,
                           !.next = 0]

\* The claim of a row restarts its lease and counts an attempt.
Lease(r) == [r EXCEPT !.status = "received", !.owner = owner, !.lease = LeaseMs,
                      !.attempts = @ + 1, !.next = 0]

\* tick and claimDeliveries: no tick starts while #pending is unsettled.
\* Each claim snapshots the attempt count and the active run.
Claim(b) ==
  /\ up
  /\ \A d \in Deliveries : ~ InFlight(d)
  /\ b \in Batches
  /\ row' = [d \in Deliveries |-> IF d \in b THEN Lease(row[d]) ELSE row[d]]
  /\ claim' = [d \in Deliveries |->
       IF d \in b
       THEN [stage |-> "claimed", gen |-> run[d[2]].gen,
             attempts |-> row[d].attempts + 1]
       ELSE claim[d]]
  /\ UNCHANGED <<seq, messages, idem, expired, runs, prompt, up, owner,
                 inputQueue, history>>

\* The row is still leased to this process.
Owned(d) == row[d].status \in Leased /\ row[d].owner = owner

\* completeDeliveryStatus and failDeliveryAttempt: a compare-and-set on the
\* lease owner; when the claim was lost the row is left alone.
Settle(d, status, next) ==
  row' = IF Owned(d)
         THEN [row EXCEPT ![d].status = status, ![d].next = next,
                          ![d].owner = 0, ![d].lease = 0]
         ELSE row

\* Automated input to a run is serialised: only the first in its queue is active.
Turn(d) == inputQueue[d[2]] # << >> /\ Head(inputQueue[d[2]]) = d[1]

\* The promise of #deliver settles, and with it its place in the run's queue.
Release(d) ==
  /\ claim' = [claim EXCEPT ![d] = Idle]
  /\ inputQueue' = IF Turn(d) THEN [inputQueue EXCEPT ![d[2]] = Tail(@)]
                              ELSE inputQueue

\* rejectClaim: the message expired before the claim.
Reject(d) ==
  /\ up
  /\ claim[d].stage = "claimed"
  /\ d[1] \in expired
  /\ Settle(d, "rejected", row[d].next)
  /\ Release(d)
  /\ UNCHANGED <<seq, messages, idem, expired, runs, prompt, up, owner, history>>

\* beginDelivery fixes the run the text will go to, then observeRun is awaited.
Begin(d) ==
  LET m == d[2]
      won == /\ row[d].status = "received" /\ row[d].owner = owner
             /\ member[m] = "active"
             /\ run[m].status = "running" /\ run[m].gen = claim[d].gen
  IN /\ up
     /\ claim[d].stage = "claimed"
     /\ d[1] \notin expired
     /\ row' = IF won THEN [row EXCEPT ![d].status = "delivering",
                                       ![d].gen = claim[d].gen]
                      ELSE row
     /\ claim' = [claim EXCEPT ![d] =
          IF won THEN [@ EXCEPT !.stage = "observing"] ELSE Idle]
     /\ UNCHANGED <<seq, messages, idem, expired, runs, prompt, up, owner,
                    inputQueue, history>>

\* observeRun found the pane; dispatchAutomated joins the queue of the run.
Enqueue(d) ==
  /\ LoopFree
  /\ claim[d].stage = "observing"
  /\ pane[d[2]] = claim[d].gen
  /\ claim' = [claim EXCEPT ![d].stage = "queued"]
  /\ inputQueue' = [inputQueue EXCEPT ![d[2]] = Append(@, d[1])]
  /\ UNCHANGED <<store, runs, prompt, up, owner, history>>

\* pasteToRun pastes the text into the pane it has just verified.
Paste(d) ==
  /\ LoopFree
  /\ claim[d].stage = "queued"
  /\ Turn(d)
  /\ pane[d[2]] = claim[d].gen
  /\ prompt' = [prompt EXCEPT ![d[2]] = @ \cup {d[1]}]
  /\ pastes' = [pastes EXCEPT ![d] = @ + 1]
  /\ claim' = [claim EXCEPT ![d].stage = "pasted"]
  /\ UNCHANGED <<store, runs, up, owner, inputQueue, entered>>

\* 500 ms later the pane is verified again and Enter submits all it holds.
Enter(d) ==
  LET m == d[2]
  IN /\ LoopFree
     /\ claim[d].stage = "pasted"
     /\ pane[m] = claim[d].gen
     /\ entered' = [e \in Deliveries |->
          IF e[2] = m /\ e[1] \in prompt[m]
          THEN entered[e] \cup {claim[d].gen} ELSE entered[e]]
     /\ prompt' = [prompt EXCEPT ![m] = {}]
     /\ claim' = [claim EXCEPT ![d].stage = "entered"]
     /\ UNCHANGED <<store, runs, up, owner, inputQueue, pastes>>

\* Mutant: the row is settled once the text is pasted.
MarkPasted(d) ==
  /\ LoopFree
  /\ claim[d].stage = "pasted"
  /\ row' = IF Owned(d) THEN [row EXCEPT ![d].status = "terminal_injected",
                                         ![d].owner = 0, ![d].lease = 0]
                        ELSE row
  /\ Release(d)
  /\ UNCHANGED <<seq, messages, idem, expired, runs, prompt, up, owner, history>>

\* markDeliveryTerminalInjected.
MarkInjected(d) ==
  /\ LoopFree
  /\ claim[d].stage = "entered"
  /\ row' = IF row[d].status = "delivering" /\ row[d].owner = owner
               /\ row[d].gen = claim[d].gen
            THEN [row EXCEPT ![d].status = "terminal_injected",
                             ![d].owner = 0, ![d].lease = 0]
            ELSE row
  /\ Release(d)
  /\ UNCHANGED <<seq, messages, idem, expired, runs, prompt, up, owner, history>>

\* Mutant: the limit on the delay is forgotten.
RetryDelayUncapped(attempts) == RetryBase * 2^(attempts - 1)

\* The delay before the next attempt doubles up to a limit.
RetryDelay(attempts) ==
  LET delay == RetryBase * 2^(attempts - 1)
  IN IF delay \in 0..RetryMax THEN delay ELSE RetryMax

Exhausted(d) == claim[d].attempts >= MaxAttempts

\* The pane is gone, a tmux command fails, or authorize refuses: #deliver
\* catches and #retry schedules another attempt or dead-letters the row.
\* An error once the operation is queued is thrown in its turn.
Fail(d) ==
  /\ LoopFree
  /\ \/ claim[d].stage = "observing"
     \/ claim[d].stage \in {"queued", "pasted", "entered"} /\ Turn(d)
  /\ IF Exhausted(d)
     THEN Settle(d, "dead-letter", 0)
     ELSE Settle(d, "retrying", RetryDelay(claim[d].attempts))
  /\ Release(d)
  /\ UNCHANGED <<seq, messages, idem, expired, runs, prompt, up, owner, history>>

-----------------------------------------------------------------------------
(* The daemon process and the clock. *)

\* A process starts with a new owner id; what an earlier one leased stays
\* leased until the lease runs out.
StartDaemon ==
  /\ ~ up
  /\ owner < MaxOwner
  /\ up' = TRUE
  /\ owner' = owner + 1
  /\ UNCHANGED <<store, runs, prompt, claim, inputQueue, history>>

\* The daemon dies; tmux and its panes live on.
Crash ==
  /\ up
  /\ owner < MaxOwner
  /\ up' = FALSE
  /\ claim' = [d \in Deliveries |-> Idle]
  /\ inputQueue' = [m \in Members |-> << >>]
  /\ UNCHANGED <<store, runs, prompt, owner, entered, pastes>>

\* One unit of time passes: leases and retry delays run down.
Tick ==
  /\ \E d \in Deliveries : row[d].lease > 0 \/ row[d].next > 0
  /\ row' = [d \in Deliveries |->
       [row[d] EXCEPT !.lease = IF @ > 0 THEN @ - 1 ELSE 0,
                      !.next = IF @ > 0 THEN @ - 1 ELSE 0]]
  /\ UNCHANGED <<seq, messages, idem, expired, runs, prompt, proc, history>>

Step(d) ==
  \/ Reject(d) \/ Begin(d) \/ Enqueue(d) \/ Paste(d)
  \/ Enter(d) \/ MarkInjected(d) \/ Fail(d)

Next ==
  \/ \E k \in Keys \cup {NoKey}, r \in SUBSET Members : Submit(k, r)
  \/ ClearHistory
  \/ \E s \in Seqs : Expire(s)
  \/ \E m \in Members : \/ AddMember(m) \/ RemoveMember(m)
                        \/ StartRun(m) \/ StopRun(m) \/ EndRun(m) \/ PaneDies(m)
  \/ \E b \in SUBSET Deliveries : Claim(b)
  \/ \E d \in Deliveries : Step(d)
  \/ StartDaemon \/ Crash \/ Tick

Spec == Init /\ [][Next]_vars

\* setInterval keeps ticking, every await of the dispatcher settles (tmux
\* answers), the service manager restarts the daemon, and time passes.
Fairness ==
  /\ WF_vars(\E b \in SUBSET Deliveries : Claim(b))
  /\ \A d \in Deliveries : WF_vars(Step(d))
  /\ WF_vars(StartDaemon)
  /\ WF_vars(Tick)

FairSpec == Spec /\ Fairness

-----------------------------------------------------------------------------
(* Properties. *)

\* A promise in flight (claimDeliveries to the end of #deliver) still holds its
\* row under this process's lease owner, or the row was revoked by the removal
\* of its recipient or deleted with its message; nothing else takes it away.
InFlightOwnsRow ==
  \A d \in Deliveries : InFlight(d) =>
    \/ /\ Owned(d)
       /\ row[d].attempts = claim[d].attempts
       /\ claim[d].stage # "claimed" =>
            row[d].status = "delivering" /\ row[d].gen = claim[d].gen
    \/ row[d].status \in {"revoked", "none"}

\* A delivery recorded terminal_injected was submitted with Enter in the pane of
\* the very run generation the row names (markDeliveryTerminalInjected).
InjectedWasEntered ==
  \A d \in Deliveries :
    row[d].status = "terminal_injected" => row[d].gen \in entered[d]

\* No attempt pastes twice: a text reaches a terminal at most once per attempt
\* claimDeliveries counted, whatever crashes and retries happen between.
PastesPerAttempt ==
  \A d \in Deliveries : row[d].status # "none" => pastes[d] <= row[d].attempts

\* A replayed submission answers with a message that is still retained
\* (#invalidateMessageIdempotency in prune and clear).
ReplayNamesRetained ==
  \A k \in Keys : idem[k] \in Seqs => idem[k] \in messages

\* A delivery is eventually settled or deleted while its recipient stays active
\* with a running run: the dispatcher polls, retries and dead-letters it, and a
\* later daemon takes over what a dead one had leased.
Waiting(d) ==
  row[d].status \in Pending /\ member[d[2]] = "active" /\ run[d[2]].status = "running"
EventuallySettled ==
  \A d \in Deliveries : Waiting(d) ~> ~ Waiting(d)

\* The inductive invariant behind InjectedWasEntered: the text of the delivery
\* whose turn it is stays in the prompt of its pane until its own Enter.
EnteredInv ==
  /\ \A m \in Members : run[m].status # "none" => run[m].gen >= 1
  /\ \A d \in Deliveries :
       /\ InFlight(d) => up /\ 1 <= claim[d].gen /\ claim[d].gen <= run[d[2]].gen
       /\ claim[d].stage \in {"pasted", "entered"} => Turn(d)
       /\ claim[d].stage = "pasted" /\ pane[d[2]] = claim[d].gen => d[1] \in prompt[d[2]]
       /\ claim[d].stage = "entered" => claim[d].gen \in entered[d]
  /\ InjectedWasEntered

\* The inductive invariant behind InFlightOwnsRow and PastesPerAttempt: a
\* sequence not yet given out has no row, promise or paste, and an attempt that
\* has not pasted yet is counted already.
OwnershipInv ==
  /\ \A s \in messages : s <= seq
  /\ \A d \in Deliveries :
       /\ InFlight(d) => up
       /\ d[1] > seq => row[d] = NoRow /\ ~ InFlight(d) /\ pastes[d] = 0
       /\ claim[d].stage \in {"claimed", "observing", "queued"} /\ row[d].status # "none"
            => pastes[d] < row[d].attempts
  /\ InFlightOwnsRow
  /\ PastesPerAttempt

\* The delivery outcomes implement the ledger: what a claim, a lease or a retry
\* does to a row is a stutter, every other step is one entry of the ledger.
Outcome(status) ==
  CASE status \in Pending -> "pending"
    [] status = "terminal_injected" -> "injected"
    [] status = "dead-letter" -> "dead"
    [] OTHER -> status

Ledger == INSTANCE DeliveryLedger WITH
  posted <- seq,
  outcome <- [d \in Deliveries |-> Outcome(row[d].status)]

ImplementsLedger == Ledger!Spec
=============================================================================
