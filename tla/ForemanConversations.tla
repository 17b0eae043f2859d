------------------------- MODULE ForemanConversations -------------------------
(***************************************************************************)
(* Questions the Foreman asks a team member, and their results             *)
(* (foreman-conversation-service.ts).  Every handler is one transaction,   *)
(* so that each is one action and a crash between them loses nothing; the  *)
(* prompt travels as a durable action, of which only the outcome counts    *)
(* here (module AgentActions), and the result as a row of the Foreman's    *)
(* inbox (module ForemanInbox).  Threads and follow-ups are left out.      *)
(***************************************************************************)
EXTENDS Integers, FiniteSets

CONSTANTS
  Questions,    \* conversation requests, all to one member
  MemberLimit,  \* pending requests a member may have (4 in the code)
  MaxMembers,   \* bound: generations of the member
  MaxForemen    \* bound: generations of the Foreman

ASSUME ConversationsAssumption ==
  MemberLimit \in Nat /\ MaxMembers \in Nat \ {0} /\ MaxForemen \in Nat \ {0}

VARIABLES
  question,  \* every request
  action,    \* the action of every request
  row,       \* its row in the inbox of the Foreman
  member,    \* latest run of the member
  foreman,   \* the actor and its latest run
  asked      \* history: times the prompt was submitted to the member

vars == <<question, action, row, member, foreman, asked>>

Pending == {"queued", "submitted", "ambiguous"}

\* A closed request failed, was cancelled or expired.
Ended == {"answered", "closed"}

\* The type of every variable.
TypeOK ==
  /\ question \in [Questions -> [state : {"none"} \cup Pending \cup Ended, gen : 0..MaxMembers,
                                 authority : 0..(2 * MaxForemen), overdue : BOOLEAN]]
  /\ action \in [Questions -> [state : {"none", "created", "submitting", "submitted",
                                        "uncertain", "failed"},
                               sender : 0..MaxForemen]]
  /\ row \in [Questions -> {"none", "open", "settled"}]
  /\ member \in [gen : 1..MaxMembers, live : BOOLEAN]
  /\ foreman \in [gen : 1..MaxForemen, live : BOOLEAN, enabled : BOOLEAN,
                  authority : 1..(2 * MaxForemen)]
  /\ asked \in [Questions -> Nat]

Init ==
  /\ question = [q \in Questions |-> [state |-> "none", gen |-> 0, authority |-> 0,
                                      overdue |-> FALSE]]
  /\ action = [q \in Questions |-> [state |-> "none", sender |-> 0]]
  /\ row = [q \in Questions |-> "none"]
  /\ member = [gen |-> 1, live |-> TRUE]
  /\ foreman = [gen |-> 1, live |-> TRUE, enabled |-> TRUE, authority |-> 1]
  /\ asked = [q \in Questions |-> 0]

State(q) == question[q].state

\* assertForeman: the call comes from the active run of the enabled Foreman.
Authorized(gen) == foreman.enabled /\ foreman.live /\ foreman.gen = gen

\* #wake: the dedupe key is unique, a second insert is ignored.
Wake(q) == row' = [row EXCEPT ![q] = IF @ = "none" THEN "open" ELSE @]

\* Mutant: the end of a request is saved without the row that announces it.
EndSilently(q, state) ==
  /\ question' = [question EXCEPT ![q].state = state]
  /\ UNCHANGED row

\* The end of a request and the row that announces it are one transaction.
End(q, state) ==
  /\ question' = [question EXCEPT ![q].state = state]
  /\ Wake(q)

\* Mutant: the question is bound to the run that follows.
BoundNext == member.gen + 1

\* The run of the member a question is bound to; none when the member does not run.
BoundRun == IF member.live THEN member.gen ELSE 0

\* ask.
Ask(q) ==
  /\ Authorized(foreman.gen) /\ State(q) = "none"
  /\ Cardinality({p \in Questions : State(p) \in Pending /\ ~question[p].overdue}) < MemberLimit
  /\ question' = [question EXCEPT ![q] =
       [state |-> "queued", gen |-> BoundRun,
        authority |-> foreman.authority, overdue |-> FALSE]]
  /\ UNCHANGED <<action, row, member, foreman, asked>>

\* Mutant: an ambiguous request is left to the operator.
ExpirableCertain(q) == State(q) \in {"queued", "submitted"} /\ question[q].overdue

\* The first test of #reconcile.
Expirable(q) == State(q) \in Pending /\ question[q].overdue

Expire(q) ==
  /\ Expirable(q)
  /\ End(q, "closed")
  /\ UNCHANGED <<action, member, foreman, asked>>

\* #reconcile of a request with an action follows the action.
FollowAction(q) ==
  /\ State(q) \in Pending /\ ~question[q].overdue
  /\ \/ action[q].state = "failed" /\ End(q, "closed")
     \/ action[q].state = "uncertain" /\ End(q, "ambiguous")
     \/ /\ action[q].state = "submitted"
        /\ question' = [question EXCEPT ![q].state = "submitted"]
        /\ UNCHANGED row
  /\ UNCHANGED <<action, member, foreman, asked>>

\* #available: the authority of the request and the run it was bound to are the current ones.
Available(q) ==
  /\ State(q) \in {"queued", "submitted"} /\ ~question[q].overdue
  /\ foreman.enabled /\ foreman.authority = question[q].authority
  /\ question[q].gen \in {0, member.gen}

\* #reconcile of a request without an action: closed when it is no longer available, else
\* an action is created for the idle member, which may fail.
Deliver(q) ==
  /\ State(q) \in Pending /\ ~question[q].overdue /\ action[q].state = "none"
  /\ \/ ~Available(q) /\ End(q, "closed") /\ UNCHANGED action
     \/ /\ Available(q) /\ foreman.live /\ member.live
        /\ \/ /\ question' = [question EXCEPT ![q].gen = member.gen]
              /\ action' = [action EXCEPT ![q] = [state |-> "created", sender |-> foreman.gen]]
              /\ UNCHANGED row
           \/ End(q, "closed") /\ UNCHANGED action
  /\ UNCHANGED <<member, foreman, asked>>

\* cancel, of an operator: an action that is not being submitted is cancelled with it.
Cancel(q) ==
  /\ State(q) \in Pending
  /\ End(q, "closed")
  /\ action' = [action EXCEPT ![q].state = IF @ = "created" THEN "failed" ELSE @]
  /\ UNCHANGED <<member, foreman, asked>>

\* reply, of the exact run of the member the question was delivered to.
Reply(q) ==
  /\ State(q) \in Pending /\ ~question[q].overdue
  /\ member.live /\ question[q].gen = member.gen
  /\ action[q].state \notin {"none", "created"}
  /\ End(q, "answered")
  /\ UNCHANGED <<action, member, foreman, asked>>

\* finish: the Foreman acknowledges the result it read; or an operator settles the row.
Finish(q) ==
  /\ row[q] = "open"
  /\ row' = [row EXCEPT ![q] = "settled"]
  /\ UNCHANGED <<question, action, member, foreman, asked>>

\* Mutant: a request that ended since the action was created is not noticed.
AskableStale(q) == foreman.enabled /\ question[q].gen = member.gen /\ Authorized(action[q].sender)

\* authorizeAction, before each native input: the request is open, its authority current
\* and the run that sent it still the Foreman's.
Askable(q) == Available(q) /\ question[q].gen = member.gen /\ Authorized(action[q].sender)

\* The action scheduler starts the attempt, submits the prompt, or gives up.
Submitting(q) ==
  /\ action[q].state = "created" /\ member.live /\ Askable(q)
  /\ action' = [action EXCEPT ![q].state = "submitting"]
  /\ UNCHANGED <<question, row, member, foreman, asked>>

Submit(q) ==
  /\ action[q].state = "submitting" /\ member.live /\ Askable(q)
  /\ action' = [action EXCEPT ![q].state = "submitted"]
  /\ asked' = [asked EXCEPT ![q] = @ + 1]
  /\ UNCHANGED <<question, row, member, foreman>>

ActionEnds(q, state) ==
  /\ action[q].state \in (IF state = "failed" THEN {"created", "submitting"}
                          ELSE {"submitting", "submitted"})
  /\ action' = [action EXCEPT ![q].state = state]
  /\ UNCHANGED <<question, row, member, foreman, asked>>

\* The run of the member ends or is replaced; actions sent to it fail, but for those that
\* were completed.
MemberRuns(m) ==
  /\ \/ m = [member EXCEPT !.live = FALSE] /\ member.live
     \/ m = [gen |-> member.gen + 1, live |-> TRUE]
  /\ member' = m
  /\ \E completed \in SUBSET {q \in Questions : action[q].state = "submitted"} :
       action' = [q \in Questions |->
         IF q \notin completed /\ action[q].state \in {"created", "submitting", "submitted"}
         THEN [action[q] EXCEPT !.state = "failed"] ELSE action[q]]
  /\ UNCHANGED <<question, row, foreman, asked>>

\* The run of the Foreman ends, the actor may be disabled with it.
ForemanEnds(enabled) ==
  /\ foreman.live
  /\ foreman' = [foreman EXCEPT !.live = FALSE, !.enabled = enabled,
                                !.authority = IF enabled THEN @ ELSE @ + 1]
  /\ UNCHANGED <<question, action, row, member, asked>>

\* Another run starts, under the same or a new authority.
ForemanStarts ==
  /\ ~foreman.live /\ foreman.gen < MaxForemen
  /\ foreman' = [gen |-> foreman.gen + 1, live |-> TRUE, enabled |-> TRUE,
                 authority |-> foreman.authority + IF foreman.enabled THEN 0 ELSE 1]
  /\ UNCHANGED <<question, action, row, member, asked>>

\* The clock passes the expiry of the request.
TimePasses(q) ==
  /\ State(q) \in Pending /\ ~question[q].overdue
  /\ question' = [question EXCEPT ![q].overdue = TRUE]
  /\ UNCHANGED <<action, row, member, foreman, asked>>

-----------------------------------------------------------------------------
Reconcile(q) == Expire(q) \/ FollowAction(q) \/ Deliver(q)

Next ==
  \/ \E q \in Questions :
       \/ Ask(q) \/ Reconcile(q) \/ Cancel(q) \/ Reply(q) \/ Finish(q)
       \/ Submitting(q) \/ Submit(q) \/ TimePasses(q)
       \/ \E state \in {"failed", "uncertain"} : ActionEnds(q, state)
  \/ \E m \in [gen : 1..MaxMembers, live : BOOLEAN] : MemberRuns(m)
  \/ \E enabled \in BOOLEAN : ForemanEnds(enabled)
  \/ ForemanStarts

\* The service reconciles every second, and clocks move.
Fairness == \A q \in Questions : WF_vars(Expire(q)) /\ WF_vars(TimePasses(q))

Spec == Init /\ [][Next]_vars /\ Fairness

-----------------------------------------------------------------------------
(* Properties. *)

\* A question is submitted to the member at most once and only while its request is open:
\* when it was cancelled, expired or answered after its action was created, or the run of
\* either side was replaced, the prompt is withheld (authorizeAction).
AskedWhileOpen ==
  [][\A q \in Questions :
       asked'[q] # asked[q] => asked[q] = 0 /\ State(q) \in {"queued", "submitted"}]_vars

\* Every request ends, and its end has a row in the inbox: no lost action, absent Foreman or
\* silent member leaves it pending or ends it unannounced.
QuestionsConclude ==
  \A q \in Questions : State(q) \in Pending ~> State(q) \in Ended /\ row[q] # "none"

\* "Each correlated member reply queues a durable Foreman result notification"
\* (docs/guides/foreman.md): a reply leaves a row that is not already settled.
RepliesAnnounced ==
  [][\A q \in Questions : State(q) # "answered" /\ question'[q].state = "answered"
                            => row'[q] # "settled"]_vars
=============================================================================
