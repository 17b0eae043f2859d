--------------------- MODULE ForemanConversations_proofs ---------------------
(***************************************************************************)
(* Theorems about the questions of the Foreman, for any number of          *)
(* questions and any bounds: the types, and that a question is put to the  *)
(* member once and only while its request is open.                         *)
(***************************************************************************)
EXTENDS ForemanConversations, TLAPS

QuestionRow == [state : {"none"} \cup Pending \cup Ended, gen : 0..MaxMembers,
                authority : 0..(2 * MaxForemen), overdue : BOOLEAN]

ActionRow == [state : {"none", "created", "submitting", "submitted", "uncertain", "failed"},
              sender : 0..MaxForemen]

ForemanRow == [gen : 1..MaxForemen, live : BOOLEAN, enabled : BOOLEAN,
               authority : 1..(2 * MaxForemen)]

\* Every start of a run and every end that disables the actor costs one authority at most.
AuthorityCounted ==
  /\ foreman.live => foreman.enabled
  /\ foreman.authority + (IF foreman.enabled THEN 1 ELSE 0) <= 2 * foreman.gen

\* What has not been submitted has not been asked.
AskedIsSubmitted ==
  \A q \in Questions : action[q].state \in {"none", "created", "submitting"} => asked[q] = 0

Typed ==
  /\ question \in [Questions -> QuestionRow]
  /\ action \in [Questions -> ActionRow]
  /\ row \in [Questions -> {"none", "open", "settled"}]
  /\ member \in [gen : 1..MaxMembers, live : BOOLEAN]
  /\ foreman \in ForemanRow
  /\ asked \in [Questions -> Nat]

Inv == Typed /\ AuthorityCounted /\ AskedIsSubmitted

-----------------------------------------------------------------------------

LEMMA TypedIs == TypeOK <=> Typed
BY DEF TypeOK, Typed, QuestionRow, ActionRow, ForemanRow

LEMMA InitInv == Init => Inv
<1> SUFFICES ASSUME Init PROVE Inv
  OBVIOUS
<1>1. MaxMembers \in Nat \ {0} /\ MaxForemen \in Nat \ {0}
  BY ConversationsAssumption DEF ConversationsAssumption
<1>2. foreman \in ForemanRow /\ member \in [gen : 1..MaxMembers, live : BOOLEAN]
  BY <1>1 DEF Init, ForemanRow
<1>3. question \in [Questions -> QuestionRow] /\ action \in [Questions -> ActionRow]
  BY <1>1 DEF Init, QuestionRow, ActionRow
<1> QED BY <1>2, <1>3 DEF Init, Inv, Typed, AuthorityCounted, AskedIsSubmitted

\* A request that ends keeps its types, and so does the row that announces it.
LEMMA EndType ==
  ASSUME Typed, NEW q \in Questions, NEW state \in Pending \cup Ended, End(q, state)
  PROVE  /\ question' \in [Questions -> QuestionRow]
         /\ row' \in [Questions -> {"none", "open", "settled"}]
<1>1. question' = [question EXCEPT ![q].state = state]
  BY DEF End
<1>2. question' \in [Questions -> QuestionRow]
  BY <1>1 DEF Typed, QuestionRow
<1> QED BY <1>2 DEF End, Wake, Typed

\* A step that leaves the actions, the Foreman and the counts alone.
LEMMA Quiet ==
  ASSUME Inv, question' \in [Questions -> QuestionRow],
         row' \in [Questions -> {"none", "open", "settled"}],
         member' = member, foreman' = foreman, asked' = asked, action' = action
  PROVE  Inv'
BY DEF Inv, Typed, AuthorityCounted, AskedIsSubmitted

\* Steps of the requests and of what the Foreman and the member do about them.
LEMMA RequestStep ==
  ASSUME Inv, NEW q \in Questions,
         \/ Ask(q) \/ Expire(q) \/ FollowAction(q) \/ Deliver(q) \/ Cancel(q) \/ Reply(q)
         \/ Finish(q) \/ TimePasses(q)
  PROVE  Inv'
<1>0. /\ MaxMembers \in Nat \ {0} /\ MaxForemen \in Nat \ {0}
      /\ Typed /\ question \in [Questions -> QuestionRow] /\ action \in [Questions -> ActionRow]
      /\ member.gen \in 0..MaxMembers /\ foreman.gen \in 0..MaxForemen
      /\ foreman.authority \in 0..(2 * MaxForemen)
  BY ConversationsAssumption DEF ConversationsAssumption, Inv, Typed, ForemanRow
<1>1. CASE Ask(q)
  <2>1. [state |-> "queued", gen |-> BoundRun, authority |-> foreman.authority,
         overdue |-> FALSE] \in QuestionRow
    BY <1>0 DEF BoundRun, QuestionRow, Pending
  <2>2. question' \in [Questions -> QuestionRow]
    BY <1>0, <1>1, <2>1 DEF Ask
  <2> QED BY <1>0, <1>1, <2>2, Quiet DEF Ask, Typed
<1>2. CASE Expire(q)
  BY <1>0, <1>2, EndType, Quiet DEF Expire, Ended
<1>3. CASE FollowAction(q)
  <2>1. CASE action[q].state = "submitted" /\ question' = [question EXCEPT ![q].state = "submitted"]
             /\ UNCHANGED row
    <3>1. question' \in [Questions -> QuestionRow]
      BY <1>0, <2>1 DEF QuestionRow, Pending
    <3> QED BY <1>0, <1>3, <2>1, <3>1, Quiet DEF FollowAction, Typed
  <2>2. CASE End(q, "closed") \/ End(q, "ambiguous")
    BY <1>0, <1>3, <2>2, EndType, Quiet DEF FollowAction, Ended, Pending
  <2> QED BY <1>3, <2>1, <2>2 DEF FollowAction
<1>4. CASE Deliver(q)
  <2>1. CASE End(q, "closed") /\ UNCHANGED action
    BY <1>0, <1>4, <2>1, EndType, Quiet DEF Deliver, Ended
  <2>2. CASE /\ question' = [question EXCEPT ![q].gen = member.gen]
             /\ action' = [action EXCEPT ![q] = [state |-> "created", sender |-> foreman.gen]]
             /\ UNCHANGED row
    <3>1. question' \in [Questions -> QuestionRow]
      BY <1>0, <2>2 DEF QuestionRow
    <3>2. action' \in [Questions -> ActionRow]
      BY <1>0, <2>2 DEF ActionRow
    <3>3. action[q].state = "none" /\ UNCHANGED <<member, foreman, asked>>
      BY <1>4 DEF Deliver
    <3>4. \A p \in Questions : action'[p].state = action[p].state \/ p = q
      BY <1>0, <2>2
    <3> QED BY <2>2, <3>1, <3>2, <3>3, <3>4 DEF Inv, Typed, AuthorityCounted, AskedIsSubmitted
  <2> QED BY <1>4, <2>1, <2>2 DEF Deliver
<1>5. CASE Cancel(q)
  <2>1. action' \in [Questions -> ActionRow]
    BY <1>0, <1>5 DEF Cancel, ActionRow
  <2>2. \A p \in Questions : action'[p].state = action[p].state \/ action'[p].state = "failed"
    BY <1>0, <1>5 DEF Cancel, ActionRow
  <2>3. /\ question' \in [Questions -> QuestionRow]
        /\ row' \in [Questions -> {"none", "open", "settled"}]
    BY <1>0, <1>5, EndType DEF Cancel, Ended
  <2> QED BY <1>5, <2>1, <2>2, <2>3
          DEF Cancel, Inv, Typed, AuthorityCounted, AskedIsSubmitted
<1>6. CASE Reply(q)
  BY <1>0, <1>6, EndType, Quiet DEF Reply, Ended
<1>7. CASE Finish(q)
  BY <1>0, <1>7, Quiet DEF Finish, Typed
<1>8. CASE TimePasses(q)
  <2>1. question' \in [Questions -> QuestionRow]
    BY <1>0, <1>8 DEF TimePasses, QuestionRow
  <2> QED BY <1>0, <1>8, <2>1, Quiet DEF TimePasses, Typed
<1> QED BY <1>1, <1>2, <1>3, <1>4, <1>5, <1>6, <1>7, <1>8

\* Steps of the actions.
LEMMA ActionStep ==
  ASSUME Inv, NEW q \in Questions,
         \/ Submitting(q) \/ Submit(q)
         \/ \E state \in {"failed", "uncertain"} : ActionEnds(q, state)
  PROVE  Inv'
<1>0. action \in [Questions -> ActionRow] /\ asked \in [Questions -> Nat]
  BY DEF Inv, Typed
<1>1. CASE Submitting(q)
  <2>1. action' \in [Questions -> ActionRow]
    BY <1>0, <1>1 DEF Submitting, ActionRow
  <2>2. /\ action[q].state = "created"
        /\ \A p \in Questions : action'[p].state = action[p].state \/ p = q
    BY <1>0, <1>1 DEF Submitting, ActionRow
  <2> QED BY <1>1, <2>1, <2>2 DEF Submitting, Inv, Typed, AuthorityCounted, AskedIsSubmitted
<1>2. CASE Submit(q)
  <2>1. action' \in [Questions -> ActionRow] /\ asked' \in [Questions -> Nat]
    BY <1>0, <1>2 DEF Submit, ActionRow
  <2>2. /\ action'[q].state = "submitted"
        /\ \A p \in Questions \ {q} : action'[p] = action[p] /\ asked'[p] = asked[p]
    BY <1>0, <1>2 DEF Submit, ActionRow
  <2> QED BY <1>2, <2>1, <2>2 DEF Submit, Inv, Typed, AuthorityCounted, AskedIsSubmitted
<1>3. ASSUME NEW state \in {"failed", "uncertain"}, ActionEnds(q, state) PROVE Inv'
  <2>1. action' \in [Questions -> ActionRow]
    BY <1>0, <1>3 DEF ActionEnds, ActionRow
  <2>2. /\ action'[q].state = state
        /\ \A p \in Questions \ {q} : action'[p] = action[p]
    BY <1>0, <1>3 DEF ActionEnds, ActionRow
  <2> QED BY <1>3, <2>1, <2>2 DEF ActionEnds, Inv, Typed, AuthorityCounted, AskedIsSubmitted
<1> QED BY <1>1, <1>2, <1>3

\* Steps of the runs of both sides.
LEMMA RunStep ==
  ASSUME Inv,
         \/ \E m \in [gen : 1..MaxMembers, live : BOOLEAN] : MemberRuns(m)
         \/ \E enabled \in BOOLEAN : ForemanEnds(enabled)
         \/ ForemanStarts
  PROVE  Inv'
<1>0. /\ action \in [Questions -> ActionRow] /\ foreman \in ForemanRow
      /\ MaxForemen \in Nat \ {0}
  BY ConversationsAssumption DEF ConversationsAssumption, Inv, Typed
<1>1. ASSUME NEW m \in [gen : 1..MaxMembers, live : BOOLEAN], MemberRuns(m) PROVE Inv'
  <2>1. PICK completed \in SUBSET {q \in Questions : action[q].state = "submitted"} :
          action' = [q \in Questions |->
            IF q \notin completed /\ action[q].state \in {"created", "submitting", "submitted"}
            THEN [action[q] EXCEPT !.state = "failed"] ELSE action[q]]
    BY <1>1 DEF MemberRuns
  <2>2. action' \in [Questions -> ActionRow]
    BY <1>0, <2>1 DEF ActionRow
  <2>3. \A q \in Questions : action'[q] = action[q] \/ action'[q].state = "failed"
    BY <1>0, <2>1 DEF ActionRow
  <2> QED BY <1>1, <2>2, <2>3 DEF MemberRuns, Inv, Typed, AuthorityCounted, AskedIsSubmitted
<1>2. ASSUME NEW enabled \in BOOLEAN, ForemanEnds(enabled) PROVE Inv'
  <2>1. foreman' = [gen |-> foreman.gen, live |-> FALSE, enabled |-> enabled,
                    authority |-> IF enabled THEN foreman.authority
                                  ELSE foreman.authority + 1]
    BY <1>0, <1>2 DEF ForemanEnds, ForemanRow
  <2>2. foreman.authority + 1 <= 2 * foreman.gen
    BY <1>2 DEF ForemanEnds, Inv, AuthorityCounted
  <2>3. foreman' \in ForemanRow
    <3>1. foreman.authority + 1 \in 1..(2 * MaxForemen)
      BY <1>0, <2>2 DEF ForemanRow
    <3> QED BY <1>0, <2>1, <3>1 DEF ForemanRow
  <2>4. AuthorityCounted'
    BY <1>0, <2>1, <2>2 DEF AuthorityCounted, ForemanRow
  <2> QED BY <1>2, <2>3, <2>4 DEF ForemanEnds, Inv, Typed, AskedIsSubmitted
<1>3. CASE ForemanStarts
  <2>1. /\ foreman'.gen = foreman.gen + 1 /\ foreman'.live /\ foreman'.enabled
        /\ foreman'.authority = foreman.authority + (IF foreman.enabled THEN 0 ELSE 1)
        /\ foreman' = [gen |-> foreman'.gen, live |-> TRUE,
                       enabled |-> TRUE, authority |-> foreman'.authority]
        /\ foreman.gen < MaxForemen
    BY <1>3 DEF ForemanStarts
  <2>2. foreman.authority + (IF foreman.enabled THEN 1 ELSE 0) <= 2 * foreman.gen
    BY DEF Inv, AuthorityCounted
  <2>3. foreman'.authority + 1 <= 2 * foreman'.gen
    BY <1>0, <2>1, <2>2 DEF ForemanRow
  <2>4. foreman' \in ForemanRow
    <3>1. /\ foreman'.authority \in 1..(2 * MaxForemen)
          /\ foreman'.gen \in 1..MaxForemen
      BY <1>0, <2>1, <2>3 DEF ForemanRow
    <3> QED BY <2>1, <3>1 DEF ForemanRow
  <2>5. AuthorityCounted'
    BY <2>1, <2>3 DEF AuthorityCounted
  <2> QED BY <1>3, <2>4, <2>5 DEF ForemanStarts, Inv, Typed, AskedIsSubmitted
<1> QED BY <1>1, <1>2, <1>3

LEMMA NextInv == Inv /\ [Next]_vars => Inv'
<1> SUFFICES ASSUME Inv, [Next]_vars PROVE Inv'
  OBVIOUS
<1>1. CASE UNCHANGED vars
  BY <1>1 DEF vars, Inv, Typed, AuthorityCounted, AskedIsSubmitted
<1>2. CASE Next
  BY <1>2, RequestStep, ActionStep, RunStep DEF Next, Reconcile
<1> QED BY <1>1, <1>2

\* Every variable keeps its type (ForemanConversations.TypeOK): the rows of requests, actions
\* and the inbox hold the states of foreman-conversation-service.ts, and an authority is used up
\* only by a disabled actor or its next run.
THEOREM TypeCorrect == Spec => []TypeOK
<1>1. Inv => TypeOK
  BY TypedIs DEF Inv
<1> QED BY <1>1, InitInv, NextInv, PTL DEF Spec

\* A question is submitted to the member at most once, and only while its request is queued or
\* submitted, whatever was cancelled, answered, expired or replaced since its action was created.
THEOREM AskedOnce == Spec => AskedWhileOpen
<1>1. Inv /\ [Next]_vars =>
        [\A q \in Questions :
           asked'[q] # asked[q] => asked[q] = 0 /\ State(q) \in {"queued", "submitted"}]_vars
  <2> SUFFICES ASSUME Inv, Next, NEW q \in Questions, asked'[q] # asked[q]
               PROVE  asked[q] = 0 /\ State(q) \in {"queued", "submitted"}
    OBVIOUS
  <2>1. PICK p \in Questions : Submit(p)
    BY DEF Next, Ask, Reconcile, Expire, FollowAction, Deliver, Cancel, Reply, Finish, Submitting,
           TimePasses, ActionEnds, MemberRuns, ForemanEnds, ForemanStarts
  <2>2. p = q
    BY <2>1 DEF Submit, Inv, Typed
  <2> QED BY <2>1, <2>2 DEF Submit, Askable, Available, Inv, AskedIsSubmitted
<1> QED BY <1>1, InitInv, NextInv, PTL DEF Spec, AskedWhileOpen
=============================================================================
