--------------------------- MODULE TerminalControl ---------------------------
(***************************************************************************)
(* Who may write to the terminal of one run: the controller lease and the  *)
(* viewers of terminal-control-service.ts, the WebSocket attachments of    *)
(* terminal-gateway.ts, and the TerminalInputArbiter that keeps automated  *)
(* input (messages, actions, answers, Foreman input) apart from typing.    *)
(* An operator's interrupt (C-c) goes to the pane past all of them.        *)
(*                                                                         *)
(* A viewer is a browser (viewerId); it has at most one stream at a time.  *)
(* An operation is one automated input: a paste, 500 ms, an Enter.         *)
(***************************************************************************)
EXTENDS Integers, Sequences, FiniteSets

CONSTANTS
  Viewers,      \* browsers, by viewerId
  None,         \* no controller
  Ops,          \* automated inputs to this run
  MaxViewers,   \* TERMINAL_LIMITS.maxViewers
  MaxObservers, \* TERMINAL_LIMITS.maxObservers
  LeaseMs,      \* TERMINAL_LIMITS.leaseMs, in ticks
  MaxLease      \* bound: leases ever granted

ASSUME ControlAssumption ==
  /\ None \notin Viewers
  /\ MaxViewers \in Nat /\ MaxObservers \in Nat
  /\ LeaseMs \in Nat \ {0} /\ MaxLease \in Nat

VARIABLES
  registered,  \* the run has an endpoint
  controller,  \* RunControl.controllerStreamId
  conn,        \* the stream of each viewer and its attachment
  leases,      \* number of leases granted
  queue,       \* automated inputs to the run, the first one active
  pasting,     \* automated inputs between their paste and their Enter
  finished,    \* automated inputs that settled
  writer,      \* history: lease of the last interactive write
  split        \* history: the kinds of writes since the paste that awaits its Enter

control == <<registered, controller, conn, leases>>
arbiter == <<queue, pasting, finished>>
vars == <<control, arbiter, writer, split>>

\* A viewer that is not connected.
Off == [on |-> FALSE, closed |-> FALSE, role |-> "observer", lease |-> 0,
        left |-> 0, age |-> 0, init |-> FALSE, pty |-> "none"]

Conns == [on : BOOLEAN, closed : BOOLEAN, role : {"observer", "controller"},
          lease : 0..MaxLease, left : 0..LeaseMs, age : 0..LeaseMs + 1,
          init : BOOLEAN, pty : {"none", "observer", "controller"}]

\* The type of every variable.
TypeOK ==
  /\ registered \in BOOLEAN
  /\ controller \in Viewers \cup {None}
  /\ conn \in [Viewers -> Conns]
  /\ leases \in 0..MaxLease
  /\ queue \in Seq(Ops)
  /\ pasting \in SUBSET Ops
  /\ finished \in SUBSET Ops
  /\ writer \in 0..MaxLease
  /\ split \in SUBSET {"input", "paste", "interrupt"}

Init ==
  /\ registered = FALSE
  /\ controller = None
  /\ conn = [v \in Viewers |-> Off]
  /\ leases = 0
  /\ queue = << >> /\ pasting = {} /\ finished = {}
  /\ writer = 0 /\ split = {}

-----------------------------------------------------------------------------
(* Viewers and the lease. *)

Connected == {v \in Viewers : conn[v].on}
Observers == {v \in Connected : conn[v].role = "observer"}

\* What the callback of a viewer's socket does when the service closes it: the
\* attachment ends and the stream is disconnected, unless the socket was closed
\* before its hello arrived and the callback returns at once.
Closed(c) == IF c.closed THEN c ELSE Off

\* The previous controller loses role and lease, and its socket is closed.
Demoted(c) == Closed([c EXCEPT !.role = "observer", !.lease = 0, !.left = 0])

\* #grant: the lease passes to v, of which this is the stream.
Grant(v, stream) ==
  /\ leases < MaxLease
  /\ leases' = leases + 1
  /\ controller' = v
  /\ conn' = [w \in Viewers |->
       IF w = v
       THEN [stream EXCEPT !.role = "controller", !.lease = leases + 1, !.left = LeaseMs]
       ELSE IF w = controller THEN Demoted(conn[w]) ELSE conn[w]]

\* connect: a hello opens a stream.  A hello may still arrive on a socket that
\* timed out waiting for it (late): the stream is then never attached.
Connect(v, wanted, takeover, late) ==
  LET stream == [Off EXCEPT !.on = TRUE, !.closed = late, !.init = ~ late]
  IN /\ registered
     /\ ~ conn[v].on
     /\ Cardinality(Connected) < MaxViewers
     /\ IF wanted = "controller" /\ (controller = None \/ takeover)
        THEN Grant(v, stream)
        ELSE /\ Cardinality(Observers) < MaxObservers
             /\ conn' = [conn EXCEPT ![v] = stream]
             /\ UNCHANGED <<controller, leases>>
     /\ UNCHANGED <<registered, arbiter, writer, split>>

\* A frame of an open socket whose attachment has been initialised.  The client
\* sends nothing after its hello until the welcome, which a closed socket never gets.
Ready(v) == conn[v].on /\ ~ conn[v].closed /\ ~ conn[v].init

\* initializeTerminalAttachment ends, with history or without.
Attach(v) ==
  /\ conn[v].on /\ conn[v].init
  /\ conn' = [conn EXCEPT ![v].init = FALSE, ![v].pty = conn[v].role]
  /\ UNCHANGED <<registered, controller, leases, arbiter, writer, split>>

\* takeover: any viewer may take the lease; the attachment becomes writable.
Takeover(v) ==
  /\ Ready(v)
  /\ Grant(v, [conn[v] EXCEPT !.pty = "controller"])
  /\ UNCHANGED <<registered, arbiter, writer, split>>

\* Mutant: any connected viewer passes.
AnyViewer(v) == conn[v].on

\* assertController.
IsController(v) ==
  /\ conn[v].on
  /\ controller = v
  /\ conn[v].role = "controller"
  /\ conn[v].left > 0

\* heartbeat: it renews the lease whether or not it has run out.
Heartbeat(v) ==
  /\ conn[v].on /\ ~ conn[v].closed
  /\ conn' = [conn EXCEPT ![v].age = 0,
                          ![v].left = IF conn[v].lease # 0 THEN LeaseMs ELSE 0]
  /\ UNCHANGED <<registered, controller, leases, arbiter, writer, split>>

\* release: the viewer stays, as an observer.
Release(v) ==
  /\ Ready(v)
  /\ IsController(v)
  /\ controller' = None
  /\ conn' = [conn EXCEPT ![v] = [@ EXCEPT !.role = "observer", !.lease = 0,
                                           !.left = 0, !.pty = "observer"]]
  /\ UNCHANGED <<registered, leases, arbiter, writer, split>>

\* Mutant: the controller's id outlives its stream.
DropStreams(vs) ==
  /\ conn' = [v \in Viewers |-> IF v \in vs THEN Off ELSE conn[v]]
  /\ controller' = controller

\* The streams of the viewers vs end; the controller among them leaves no successor.
Drop(vs) ==
  /\ conn' = [v \in Viewers |-> IF v \in vs THEN Off ELSE conn[v]]
  /\ controller' = IF controller \in vs THEN None ELSE controller

\* disconnect: the socket closes, fails, is too slow or breaks the protocol.
Disconnect(v) ==
  /\ conn[v].on /\ ~ conn[v].closed
  /\ Drop({v})
  /\ UNCHANGED <<registered, leases, arbiter, writer, split>>

\* Mutant: only controllers are swept.
OverdueControllers == {v \in Connected : conn[v].age > LeaseMs /\ controller = v}

\* Viewers without a heartbeat for longer than leaseMs.
Overdue == {v \in Connected : conn[v].age > LeaseMs}

\* expire, every heartbeatMs.
Expire ==
  /\ Overdue # {}
  /\ Drop(Overdue)
  /\ UNCHANGED <<registered, leases, arbiter, writer, split>>

\* register: the run is launched, adopted or available again.
Register ==
  /\ ~ registered
  /\ registered' = TRUE
  /\ UNCHANGED <<controller, conn, leases, arbiter, writer, split>>

\* unregister: the run stops or its terminal is unavailable.
Unregister ==
  /\ registered
  /\ registered' = FALSE
  /\ Drop(Viewers)
  /\ UNCHANGED <<leases, arbiter, writer, split>>

\* Mutant: the time left is not checked against zero.
LapseBelowZero(left) == left - 1

Lapse(left) == IF left > 0 THEN left - 1 ELSE 0

\* One unit of time passes.
Tick ==
  /\ \E v \in Connected : conn[v].age <= LeaseMs
  /\ conn' = [v \in Viewers |->
       IF conn[v].on
       THEN [conn[v] EXCEPT !.left = Lapse(@), !.age = IF @ > LeaseMs THEN @ ELSE @ + 1]
       ELSE conn[v]]
  /\ UNCHANGED <<registered, controller, leases, arbiter, writer, split>>

-----------------------------------------------------------------------------
(* Input. *)

\* The kinds of writes since the paste, after one of this kind.
Splitting(kind) == IF pasting = {} THEN split ELSE split \cup {kind}

\* Mutant: the last pending operation is not counted.
AutomatedBehind == Len(queue) > 1

\* inputState is "automated" while an operation is pending.
Automated == queue # << >>

\* dispatch of input or paste: the bytes go to the attachment at once.
Input(v) ==
  /\ Ready(v)
  /\ ~ Automated
  /\ IsController(v)
  /\ writer' = conn[v].lease
  /\ split' = Splitting("input")
  /\ UNCHANGED <<control, arbiter>>

\* interruptRun: the operator's Interrupt sends C-c to the owner pane; neither the
\* lease nor the arbiter is asked.
Interrupt ==
  /\ split' = Splitting("interrupt")
  /\ UNCHANGED <<control, arbiter, writer>>

\* dispatchAutomated joins the queue of the run.
DispatchAutomated(o) ==
  /\ o \notin finished
  /\ \A i \in DOMAIN queue : queue[i] # o
  /\ queue' = Append(queue, o)
  /\ UNCHANGED <<control, pasting, finished, writer, split>>

\* Mutant: an operation starts once queued.
TurnAny(o) == \E i \in DOMAIN queue : queue[i] = o

\* An operation runs when the ones before it have settled.
Turn(o) == queue # << >> /\ Head(queue) = o

PasteOp(o) ==
  /\ Turn(o)
  /\ o \notin pasting
  /\ pasting' = pasting \cup {o}
  /\ split' = Splitting("paste")
  /\ UNCHANGED <<control, queue, finished, writer>>

\* Mutant: the last pending operation is never counted down.
LeaveUnlessLast == IF Len(queue) > 1 THEN Tail(queue) ELSE queue

\* #decrementPending, and the barrier of the queue resolves.
Leave == Tail(queue)

\* The operation settles: after its Enter, or by an error at any point.
SettleOp(o) ==
  /\ Turn(o)
  /\ queue' = Leave
  /\ pasting' = pasting \ {o}
  /\ finished' = finished \cup {o}
  /\ split' = {}
  /\ UNCHANGED <<control, writer>>

Next ==
  \/ \E v \in Viewers, wanted \in {"observer", "controller"}, t, late \in BOOLEAN :
       Connect(v, wanted, t, late)
  \/ \E v \in Viewers : \/ Attach(v) \/ Takeover(v) \/ Heartbeat(v) \/ Release(v)
                        \/ Disconnect(v) \/ Input(v)
  \/ Register \/ Unregister \/ Expire \/ Tick \/ Interrupt
  \/ \E o \in Ops : DispatchAutomated(o) \/ PasteOp(o) \/ SettleOp(o)

Spec == Init /\ [][Next]_vars

\* The expiry timer fires, time passes, and every automated operation settles.
Fairness ==
  /\ WF_vars(Expire)
  /\ WF_vars(Tick)
  /\ \A o \in Ops : WF_vars(PasteOp(o)) /\ WF_vars(SettleOp(o))

FairSpec == Spec /\ Fairness

-----------------------------------------------------------------------------
(* Properties. *)

\* controllerStreamId, role, lease and attachment agree through #grant and the
\* disconnect its close callback runs: the viewer it names is connected and is the
\* only one with the role, a lease or a writable attachment.
OneController ==
  /\ controller # None => conn[controller].on
  /\ \A v \in Viewers :
       /\ conn[v].role = "controller" <=> v = controller
       /\ conn[v].lease # 0 <=> v = controller
       /\ conn[v].pty = "controller" => v = controller

\* A write of a superseded controller never follows a write of a later one:
\* the lease works as a fencing token (assertController).
FencedWrites == [][writer' >= writer]_vars

\* What the steps preserve together (TerminalControl_proofs): a stream without a
\* socket has no attachment, and the controller holds the lease granted last.
LeaseInv ==
  /\ OneController
  /\ \A v \in Viewers : conn[v].closed => ~ conn[v].init /\ conn[v].pty = "none"
  /\ controller # None => conn[controller].lease = leases
  /\ writer <= leases

\* Nothing that the arbiter admits, neither typing nor another automated input,
\* is written to the terminal between an automated paste and its Enter.  Only an
\* interrupt may be: it does not ask the arbiter.
InputNotSplit == split \subseteq {"interrupt"}

\* Only the first automated input of the queue is between its paste and its Enter.
TurnInv == InputNotSplit /\ (pasting # {} => queue # << >> /\ pasting = {Head(queue)})

\* A stream whose socket is closed is swept although nobody disconnects it.
GhostsSwept == \A v \in Viewers : conn[v].on /\ conn[v].closed ~> ~ conn[v].on

\* Automated input ends, and the terminal is interactive again.
InteractiveAgain == Automated ~> ~ Automated
=============================================================================
