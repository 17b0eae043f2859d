--------------------------- MODULE DeliveryLedger ---------------------------
(***************************************************************************)
(* What the message queue promises a reader of the delivery outcomes       *)
(* (NanasaStore.listDeliveries): an outcome is decided once, "injected"    *)
(* only after the text was submitted in a terminal, and it lives as long   *)
(* as its message.  Leases, owners, retries and crashes do not show.       *)
(***************************************************************************)
EXTENDS Integers

CONSTANTS Members, MaxSeq, MaxGen

VARIABLES
  posted,   \* number of messages ever submitted
  outcome,  \* outcome of each delivery <<s, m>>
  entered   \* generations of the recipient's run that were given the text

ledger == <<posted, outcome, entered>>

Deliveries == (1..MaxSeq) \X Members
Decided == {"injected", "revoked", "rejected", "dead"}

Init ==
  /\ posted = 0
  /\ outcome = [d \in Deliveries |-> "none"]
  /\ entered = [d \in Deliveries |-> {}]

\* Without the outcomes of the messages ss.
Without(out, ss) == [d \in Deliveries |-> IF d[1] \in ss THEN "none" ELSE out[d]]

\* A message is posted to its recipients; old ones may be dropped with it.
Post(recipients, ss) ==
  /\ posted < MaxSeq
  /\ posted' = posted + 1
  /\ outcome' = Without([d \in Deliveries |->
       IF d[1] = posted + 1 /\ d[2] \in recipients THEN "pending" ELSE outcome[d]], ss)
  /\ UNCHANGED entered

Drop(ss) ==
  /\ outcome' = Without(outcome, ss)
  /\ UNCHANGED <<posted, entered>>

\* Texts of posted messages are submitted in generation g of m's run.
Give(ss, m, g) ==
  /\ ss \subseteq 1..posted
  /\ entered' = [d \in Deliveries |->
       IF d[2] = m /\ d[1] \in ss THEN entered[d] \cup {g} ELSE entered[d]]
  /\ UNCHANGED <<posted, outcome>>

Decide(d, o) ==
  /\ outcome[d] = "pending"
  /\ o = "injected" => entered[d] # {}
  /\ outcome' = [outcome EXCEPT ![d] = o]
  /\ UNCHANGED <<posted, entered>>

\* The removal of a member decides everything it still had coming.
RevokeAll(m) ==
  /\ outcome' = [d \in Deliveries |->
       IF d[2] = m /\ outcome[d] = "pending" THEN "revoked" ELSE outcome[d]]
  /\ UNCHANGED <<posted, entered>>

Next ==
  \/ \E r \in SUBSET Members, ss \in SUBSET (1..MaxSeq) : Post(r, ss)
  \/ \E ss \in SUBSET (1..MaxSeq) : Drop(ss)
  \/ \E ss \in SUBSET (1..MaxSeq), m \in Members, g \in 1..MaxGen : Give(ss, m, g)
  \/ \E d \in Deliveries, o \in Decided \ {"revoked"} : Decide(d, o)
  \/ \E m \in Members : RevokeAll(m)

Spec == Init /\ [][Next]_ledger
=============================================================================
