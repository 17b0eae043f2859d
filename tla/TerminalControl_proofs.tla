------------------------ MODULE TerminalControl_proofs ------------------------
(***************************************************************************)
(* Proofs about TerminalControl, for every set of browsers and automated   *)
(* inputs: the domains of the variables, that at most one browser holds    *)
(* the lease and a writable attachment, and that the lease fences writes.  *)
(***************************************************************************)
EXTENDS TerminalControl, SequenceTheorems, TLAPS

\* Zero and a full lease are in range.
LEMMA Ranges ==
  /\ 0 \in 0..MaxLease
  /\ 0 \in 0..LeaseMs /\ LeaseMs \in 0..LeaseMs
  /\ 0 \in 0..LeaseMs + 1
BY ControlAssumption DEF ControlAssumption

\* A viewer that is not connected, and a demoted one, are streams.
LEMMA StreamTypes ==
  /\ Off \in Conns
  /\ \A c \in Conns : Demoted(c) \in Conns
<1>1. Off \in Conns
  BY Ranges DEF Off, Conns
<1>2. ASSUME NEW c \in Conns PROVE Demoted(c) \in Conns
  <2>1. [c EXCEPT !.role = "observer", !.lease = 0, !.left = 0] \in Conns
    BY Ranges DEF Conns
  <2> QED BY <1>1, <2>1 DEF Demoted, Closed
<1> QED BY <1>1, <1>2

\* #grant hands a stream the lease.
LEMMA GrantType ==
  ASSUME TypeOK, NEW v \in Viewers, NEW stream \in Conns, Grant(v, stream)
  PROVE  conn' \in [Viewers -> Conns] /\ controller' \in Viewers /\ leases' \in 0..MaxLease
<1>1. leases' \in 0..MaxLease /\ controller' \in Viewers
  BY ControlAssumption DEF TypeOK, Grant
<1>2. [stream EXCEPT !.role = "controller", !.lease = leases + 1, !.left = LeaseMs] \in Conns
  <2>1. leases + 1 \in 0..MaxLease
    BY <1>1 DEF Grant
  <2> QED BY <2>1, Ranges DEF Conns
<1>3. \A w \in Viewers : Demoted(conn[w]) \in Conns /\ conn[w] \in Conns
  BY StreamTypes DEF TypeOK
<1> QED BY <1>1, <1>2, <1>3 DEF Grant

\* A change of one stream keeps the type of conn.
LEMMA OneStream ==
  ASSUME TypeOK, NEW v \in Viewers, NEW c \in Conns
  PROVE  [conn EXCEPT ![v] = c] \in [Viewers -> Conns]
BY DEF TypeOK

\* The initial state is well typed.
LEMMA InitType == Init => TypeOK
<1> SUFFICES ASSUME Init PROVE TypeOK
  OBVIOUS
<1>1. conn \in [Viewers -> Conns]
  BY StreamTypes DEF Init
<1>2. queue \in Seq(Ops)
  BY EmptySeq DEF Init
<1> QED BY <1>1, <1>2, Ranges DEF Init, TypeOK

\* Every step keeps the variables in their domains.
LEMMA NextType == TypeOK /\ [Next]_vars => TypeOK'
<1> SUFFICES ASSUME TypeOK, [Next]_vars PROVE TypeOK'
  OBVIOUS
<1>1. CASE UNCHANGED vars
  BY <1>1 DEF TypeOK, vars, control, arbiter
<1>2. ASSUME NEW v \in Viewers, NEW wanted \in {"observer", "controller"},
             NEW t \in BOOLEAN, NEW late \in BOOLEAN, Connect(v, wanted, t, late)
      PROVE  TypeOK'
  <2> DEFINE stream == [Off EXCEPT !.on = TRUE, !.closed = late, !.init = ~ late]
  <2>1. stream \in Conns
    BY StreamTypes DEF Conns
  <2>2. CASE Grant(v, stream)
    <3> HIDE DEF stream
    <3>1. conn' \in [Viewers -> Conns] /\ controller' \in Viewers /\ leases' \in 0..MaxLease
      BY <2>1, <2>2, GrantType
    <3> QED BY <1>2, <3>1 DEF TypeOK, Connect, arbiter
  <2>3. CASE conn' = [conn EXCEPT ![v] = stream] /\ UNCHANGED <<controller, leases>>
    BY <1>2, <2>1, <2>3 DEF TypeOK, Connect, arbiter
  <2> QED BY <1>2, <2>2, <2>3 DEF Connect
<1>3. ASSUME NEW v \in Viewers, Takeover(v) PROVE TypeOK'
  <2> DEFINE stream == [conn[v] EXCEPT !.pty = "controller"]
  <2>1. stream \in Conns
    BY DEF TypeOK, Conns
  <2>2. Grant(v, stream)
    BY <1>3 DEF Takeover
  <2> HIDE DEF stream
  <2>3. conn' \in [Viewers -> Conns] /\ controller' \in Viewers /\ leases' \in 0..MaxLease
    BY <2>1, <2>2, GrantType
  <2> QED BY <1>3, <2>3 DEF TypeOK, Takeover, arbiter
<1>4. ASSUME NEW v \in Viewers, Attach(v) \/ Heartbeat(v) \/ Release(v) PROVE TypeOK'
  <2>1. conn[v] \in Conns
    BY DEF TypeOK
  <2>2. [conn[v] EXCEPT !.init = FALSE, !.pty = conn[v].role] \in Conns
    BY <2>1 DEF Conns
  <2>3. [conn[v] EXCEPT !.age = 0, !.left = IF conn[v].lease # 0 THEN LeaseMs ELSE 0] \in Conns
    <3>1. (IF conn[v].lease # 0 THEN LeaseMs ELSE 0) \in 0..LeaseMs
      BY Ranges
    <3> QED BY <2>1, <3>1, Ranges DEF Conns
  <2>4. [conn[v] EXCEPT !.role = "observer", !.lease = 0, !.left = 0, !.pty = "observer"] \in Conns
    BY <2>1, Ranges DEF Conns
  <2>5. CASE Attach(v)
    <3>1. conn' = [conn EXCEPT ![v] = [conn[v] EXCEPT !.init = FALSE, !.pty = conn[v].role]]
      BY <2>5 DEF Attach, TypeOK
    <3> QED BY <2>2, <2>5, <3>1 DEF TypeOK, Attach, arbiter
  <2>6. CASE Heartbeat(v)
    <3>1. conn' = [conn EXCEPT ![v] =
             [conn[v] EXCEPT !.age = 0, !.left = IF conn[v].lease # 0 THEN LeaseMs ELSE 0]]
      BY <2>6 DEF Heartbeat, TypeOK
    <3> QED BY <2>3, <2>6, <3>1 DEF TypeOK, Heartbeat, arbiter
  <2>7. CASE Release(v)
    BY <2>4, <2>7 DEF TypeOK, Release, arbiter
  <2> QED BY <1>4, <2>5, <2>6, <2>7
<1>5. ASSUME NEW vs \in SUBSET Viewers, Drop(vs)
      PROVE  conn' \in [Viewers -> Conns] /\ controller' \in Viewers \cup {None}
  BY <1>5, StreamTypes DEF Drop, TypeOK
<1>6. CASE Unregister \/ Expire \/ \E v \in Viewers : Disconnect(v)
  <2>1. Overdue \in SUBSET Viewers /\ Viewers \in SUBSET Viewers
    BY DEF Overdue, Connected
  <2>2. \A v \in Viewers : {v} \in SUBSET Viewers
    OBVIOUS
  <2>3. conn' \in [Viewers -> Conns] /\ controller' \in Viewers \cup {None}
    BY <1>5, <1>6, <2>1, <2>2 DEF Unregister, Expire, Disconnect
  <2> QED BY <1>6, <2>3 DEF TypeOK, Unregister, Expire, Disconnect, arbiter
<1>7. CASE Register
  BY <1>7 DEF TypeOK, Register, arbiter
<1>8. CASE Tick
  <2>1. ASSUME NEW v \in Viewers
        PROVE  [conn[v] EXCEPT !.left = Lapse(@), !.age = IF @ > LeaseMs THEN @ ELSE @ + 1] \in Conns
    <3>1. conn[v] \in Conns /\ conn[v].left \in 0..LeaseMs /\ conn[v].age \in 0..LeaseMs + 1
      BY DEF TypeOK, Conns
    <3>2. Lapse(conn[v].left) \in 0..LeaseMs
      BY <3>1, ControlAssumption DEF Lapse
    <3>3. (IF conn[v].age > LeaseMs THEN conn[v].age ELSE conn[v].age + 1) \in 0..LeaseMs + 1
      BY <3>1, ControlAssumption
    <3> QED BY <3>1, <3>2, <3>3 DEF Conns
  <2>2. conn' \in [Viewers -> Conns]
    BY <1>8, <2>1 DEF Tick, TypeOK
  <2> QED BY <1>8, <2>2 DEF TypeOK, Tick, arbiter
<1>9. ASSUME NEW v \in Viewers, Input(v) PROVE TypeOK'
  <2>1. writer' \in 0..MaxLease
    BY <1>9 DEF Input, TypeOK, Conns
  <2> QED BY <1>9, <2>1 DEF TypeOK, Input, Splitting, control, arbiter
<1>10. ASSUME NEW o \in Ops, DispatchAutomated(o) PROVE TypeOK'
  <2>1. queue' \in Seq(Ops)
    BY <1>10 DEF DispatchAutomated, TypeOK
  <2> QED BY <1>10, <2>1 DEF TypeOK, DispatchAutomated, control
<1>11. ASSUME NEW o \in Ops, PasteOp(o) PROVE TypeOK'
  BY <1>11 DEF TypeOK, PasteOp, Splitting, control
<1>12. ASSUME NEW o \in Ops, SettleOp(o) PROVE TypeOK'
  <2>1. queue' \in Seq(Ops)
    BY <1>12 DEF SettleOp, Turn, Leave, TypeOK
  <2> QED BY <1>12, <2>1 DEF TypeOK, SettleOp, control
<1>13. CASE Interrupt
  BY <1>13 DEF TypeOK, Interrupt, Splitting, control, arbiter
<1> QED
  BY <1>1, <1>2, <1>3, <1>4, <1>6, <1>7, <1>8, <1>9, <1>10, <1>11, <1>12, <1>13 DEF Next

\* No step of a browser, the control service, the gateway or the arbiter leaves
\* the domain of a variable.
THEOREM TypeCorrect == Spec => []TypeOK
BY InitType, NextType, PTL DEF Spec

-----------------------------------------------------------------------------
(* The lease. *)

\* What LeaseInv says of one viewer.
LEMMA LeaseInvAt ==
  ASSUME NEW v \in Viewers, LeaseInv
  PROVE  /\ conn[v].role = "controller" <=> v = controller
         /\ conn[v].lease # 0 <=> v = controller
         /\ conn[v].pty = "controller" => v = controller
         /\ conn[v].closed => ~ conn[v].init /\ conn[v].pty = "none"
BY DEF LeaseInv, OneController

\* A step that hands v the lease keeps LeaseInv, whoever held it.
LEMMA GrantLease ==
  ASSUME TypeOK, LeaseInv, NEW v \in Viewers, NEW stream \in Conns, Grant(v, stream),
         stream.on, stream.closed => ~ stream.init /\ stream.pty = "none", writer' = writer
  PROVE  LeaseInv'
<1>1. conn' \in [Viewers -> Conns] /\ controller' = v /\ leases' = leases + 1 /\ leases \in Nat
  <2>1. conn' \in [Viewers -> Conns]
    BY GrantType
  <2>2. leases \in Nat
    BY DEF TypeOK
  <2> QED BY <2>1, <2>2 DEF Grant
<1>2. controller' # None
  BY <1>1, ControlAssumption DEF ControlAssumption
<1>3. /\ conn'[v].role = "controller" /\ conn'[v].lease = leases + 1
      /\ conn'[v].on = stream.on /\ conn'[v].closed = stream.closed
      /\ conn'[v].init = stream.init /\ conn'[v].pty = stream.pty
  BY DEF Grant, Conns
<1>4. ASSUME NEW w \in Viewers, w # v
      PROVE  /\ conn'[w].role # "controller" /\ conn'[w].lease = 0
             /\ conn'[w].pty # "controller"
             /\ conn'[w].closed => ~ conn'[w].init /\ conn'[w].pty = "none"
  <2>1. CASE w = controller
    <3>1. conn'[w] = Demoted(conn[w])
      BY <1>4, <2>1 DEF Grant
    <3>2. conn[w] \in Conns
      BY DEF TypeOK
    <3> QED BY <3>1, <3>2, LeaseInvAt DEF Demoted, Closed, Off, Conns
  <2>2. CASE w # controller
    <3>1. conn'[w] = conn[w]
      BY <1>4, <2>2 DEF Grant
    <3> QED BY <2>2, <3>1, LeaseInvAt
  <2> QED BY <2>1, <2>2
<1>5. writer' <= leases'
  BY <1>1 DEF LeaseInv, TypeOK
<1> QED BY <1>1, <1>2, <1>3, <1>4, <1>5 DEF LeaseInv, OneController

\* Ending streams keeps LeaseInv.
LEMMA DropLease ==
  ASSUME TypeOK, LeaseInv, NEW vs \in SUBSET Viewers, Drop(vs), UNCHANGED <<writer, leases>>
  PROVE  LeaseInv'
<1>1. \A v \in Viewers : conn'[v] = IF v \in vs THEN Off ELSE conn[v]
  BY DEF Drop
<1>2. controller' = IF controller \in vs THEN None ELSE controller
  BY DEF Drop
<1>3. controller' # None => controller' = controller /\ controller' \in Viewers /\ controller' \notin vs
  BY <1>2 DEF TypeOK
<1>4. ASSUME NEW v \in Viewers
      PROVE  /\ conn'[v].role = "controller" <=> v = controller'
             /\ conn'[v].lease # 0 <=> v = controller'
             /\ conn'[v].pty = "controller" => v = controller'
             /\ conn'[v].closed => ~ conn'[v].init /\ conn'[v].pty = "none"
  <2>1. v # None
    BY ControlAssumption DEF ControlAssumption
  <2>2. CASE v \in vs
    BY <1>1, <1>2, <2>1, <2>2 DEF Off
  <2>3. CASE v \notin vs
    BY <1>1, <1>2, <2>1, <2>3, LeaseInvAt
  <2> QED BY <2>2, <2>3
<1>5. controller' # None => conn'[controller'].on /\ conn'[controller'].lease = leases'
  BY <1>1, <1>3 DEF LeaseInv, OneController
<1> QED BY <1>4, <1>5 DEF LeaseInv, OneController

\* A step that changes one stream, but neither its lease nor who holds it, keeps
\* LeaseInv if the stream still satisfies it.
LEMMA StreamLease ==
  ASSUME TypeOK, LeaseInv, NEW v \in Viewers, NEW c,
         conn' = [conn EXCEPT ![v] = c], UNCHANGED <<controller, leases, writer>>,
         c.role = conn[v].role, c.lease = conn[v].lease, v = controller => c.on,
         c.pty = "controller" => v = controller,
         c.closed => ~ c.init /\ c.pty = "none"
  PROVE  LeaseInv'
<1>1. \A w \in Viewers : conn'[w] = IF w = v THEN c ELSE conn[w]
  BY DEF TypeOK
<1>2. ASSUME NEW w \in Viewers
      PROVE  /\ conn'[w].role = "controller" <=> w = controller
             /\ conn'[w].lease # 0 <=> w = controller
             /\ conn'[w].pty = "controller" => w = controller
             /\ conn'[w].closed => ~ conn'[w].init /\ conn'[w].pty = "none"
  BY <1>1, LeaseInvAt
<1>3. controller # None => conn'[controller].on /\ conn'[controller].lease = leases
  BY <1>1 DEF LeaseInv, OneController, TypeOK
<1> QED BY <1>2, <1>3 DEF LeaseInv, OneController

\* Every step keeps the lease with one viewer, the last it was granted to.
LEMMA NextLease == TypeOK /\ LeaseInv /\ [Next]_vars => LeaseInv'
<1> SUFFICES ASSUME TypeOK, LeaseInv, [Next]_vars PROVE LeaseInv'
  OBVIOUS
<1> USE DEF TypeOK
<1>1. ASSUME UNCHANGED <<control, writer>> PROVE LeaseInv'
  BY <1>1 DEF LeaseInv, OneController, control
<1>12. CASE Interrupt
  BY <1>1, <1>12 DEF Interrupt
<1>2. CASE UNCHANGED vars \/ Register
  BY <1>2 DEF LeaseInv, OneController, vars, control, Register
<1>3. ASSUME NEW o \in Ops, DispatchAutomated(o) \/ PasteOp(o) \/ SettleOp(o) PROVE LeaseInv'
  BY <1>1, <1>3 DEF DispatchAutomated, PasteOp, SettleOp
<1>4. ASSUME NEW v \in Viewers, NEW wanted \in {"observer", "controller"},
             NEW t \in BOOLEAN, NEW late \in BOOLEAN, Connect(v, wanted, t, late)
      PROVE  LeaseInv'
  <2> DEFINE stream == [Off EXCEPT !.on = TRUE, !.closed = late, !.init = ~ late]
  <2>1. stream \in Conns
    BY StreamTypes DEF Conns
  <2>2. /\ stream.on /\ stream.role = "observer" /\ stream.lease = 0 /\ stream.pty = "none"
        /\ stream.closed => ~ stream.init
    BY DEF Off
  <2>3. CASE Grant(v, stream)
    <3> HIDE DEF stream
    <3> QED BY <1>4, <2>1, <2>2, <2>3, GrantLease DEF Connect
  <2>4. CASE conn' = [conn EXCEPT ![v] = stream] /\ UNCHANGED <<controller, leases>>
    <3>1. v # controller
      BY <1>4, ControlAssumption DEF Connect, LeaseInv, OneController, ControlAssumption
    <3>2. conn[v].role = "observer" /\ conn[v].lease = 0
      BY <3>1, LeaseInvAt DEF Conns
    <3> HIDE DEF stream
    <3> QED BY <1>4, <2>2, <2>4, <3>1, <3>2, StreamLease DEF Connect
  <2> QED BY <1>4, <2>3, <2>4 DEF Connect
<1>5. ASSUME NEW v \in Viewers, Takeover(v) PROVE LeaseInv'
  <2> DEFINE stream == [conn[v] EXCEPT !.pty = "controller"]
  <2>0. conn[v] \in Conns /\ conn[v].on /\ ~ conn[v].closed
    BY <1>5 DEF Takeover, Ready
  <2>1. stream \in Conns /\ stream.on /\ ~ stream.closed
    BY <2>0 DEF Conns
  <2>2. Grant(v, stream) /\ writer' = writer
    BY <1>5 DEF Takeover
  <2> HIDE DEF stream
  <2> QED BY <2>1, <2>2, GrantLease
<1>6. ASSUME NEW v \in Viewers, Attach(v) PROVE LeaseInv'
  <2> DEFINE c == [conn[v] EXCEPT !.init = FALSE, !.pty = conn[v].role]
  <2>1. conn' = [conn EXCEPT ![v] = c] /\ UNCHANGED <<controller, leases, writer>>
    BY <1>6 DEF Attach
  <2>2. ~ conn[v].closed
    BY <1>6, LeaseInvAt DEF Attach
  <2>3. /\ c.role = conn[v].role /\ c.lease = conn[v].lease /\ c.on = conn[v].on
        /\ c.pty = conn[v].role /\ ~ c.closed
    BY <2>2 DEF Conns
  <2>4. /\ v = controller => conn[v].on
        /\ conn[v].role = "controller" => v = controller
    BY <1>6, LeaseInvAt DEF Attach
  <2> HIDE DEF c
  <2> QED BY <2>1, <2>3, <2>4, StreamLease
<1>7. ASSUME NEW v \in Viewers, Heartbeat(v) PROVE LeaseInv'
  <2> DEFINE c == [conn[v] EXCEPT !.age = 0,
                                  !.left = IF conn[v].lease # 0 THEN LeaseMs ELSE 0]
  <2>1. conn' = [conn EXCEPT ![v] = c] /\ UNCHANGED <<controller, leases, writer>>
    BY <1>7 DEF Heartbeat
  <2>2. /\ c.role = conn[v].role /\ c.lease = conn[v].lease /\ c.on = conn[v].on
        /\ c.pty = conn[v].pty /\ c.closed = conn[v].closed /\ c.init = conn[v].init
    BY DEF Conns
  <2> HIDE DEF c
  <2>3. conn[v].on
    BY <1>7 DEF Heartbeat
  <2>4. /\ v = controller => c.on
        /\ c.pty = "controller" => v = controller
        /\ c.closed => ~ c.init /\ c.pty = "none"
    BY <2>2, <2>3, LeaseInvAt
  <2> QED BY <2>1, <2>2, <2>4, StreamLease
<1>8. ASSUME NEW v \in Viewers, Release(v) PROVE LeaseInv'
  <2>1. controller = v /\ controller' = None /\ UNCHANGED <<leases, writer>> /\ ~ conn[v].closed
    BY <1>8 DEF Release, IsController, Ready
  <2>2. /\ conn'[v].role = "observer" /\ conn'[v].lease = 0 /\ conn'[v].pty = "observer"
        /\ conn'[v].closed = conn[v].closed
    BY <1>8 DEF Release, Conns
  <2>3. \A w \in Viewers \ {v} : conn'[w] = conn[w]
    BY <1>8 DEF Release
  <2>4. ASSUME NEW w \in Viewers
        PROVE  /\ conn'[w].role # "controller" /\ conn'[w].lease = 0 /\ w # None
               /\ conn'[w].pty # "controller"
               /\ conn'[w].closed => ~ conn'[w].init /\ conn'[w].pty = "none"
    BY <2>1, <2>2, <2>3, LeaseInvAt, ControlAssumption DEF ControlAssumption
  <2> QED BY <2>1, <2>4 DEF LeaseInv, OneController
<1>9. CASE Unregister \/ Expire \/ \E v \in Viewers : Disconnect(v)
  <2>1. Overdue \in SUBSET Viewers /\ Viewers \in SUBSET Viewers
        /\ \A v \in Viewers : {v} \in SUBSET Viewers
    BY DEF Overdue, Connected
  <2> QED BY <1>9, <2>1, DropLease DEF Unregister, Expire, Disconnect
<1>10. CASE Tick
  <2>1. /\ UNCHANGED <<controller, leases, writer>>
        /\ \A v \in Viewers :
             /\ conn'[v].role = conn[v].role /\ conn'[v].lease = conn[v].lease
             /\ conn'[v].on = conn[v].on /\ conn'[v].closed = conn[v].closed
             /\ conn'[v].init = conn[v].init /\ conn'[v].pty = conn[v].pty
    BY <1>10 DEF Tick, Conns
  <2> QED BY <2>1 DEF LeaseInv, OneController
<1>11. ASSUME NEW v \in Viewers, Input(v) PROVE LeaseInv'
  <2>1. /\ UNCHANGED control /\ controller = v /\ writer' = conn[v].lease
    BY <1>11 DEF Input, IsController
  <2>2. conn[v].lease = leases /\ leases \in Nat
    BY <2>1, ControlAssumption DEF LeaseInv, ControlAssumption
  <2> QED BY <2>1, <2>2 DEF LeaseInv, OneController, control
<1> QED
  BY <1>2, <1>3, <1>4, <1>5, <1>6, <1>7, <1>8, <1>9, <1>10, <1>11, <1>12 DEF Next

\* The initial state satisfies it.
LEMMA InitLease == Init => LeaseInv
BY ControlAssumption DEF Init, LeaseInv, OneController, Off, ControlAssumption

\* The lease and the inductive invariant hold along every behaviour.
LEMMA LeaseCorrect == Spec => [](TypeOK /\ LeaseInv)
BY InitType, NextType, InitLease, NextLease, PTL DEF Spec

\* The service names one controller, and it is the only viewer with the role and a
\* lease, through re-entrant closes, takeovers, lapses and sweeps.
THEOREM LeaseHasOneHolder == Spec => []OneController
<1>1. LeaseInv => OneController
  BY DEF LeaseInv
<1> QED BY <1>1, LeaseCorrect, PTL

\* assertController fences: no write of an earlier controller after one of a later.
THEOREM WritesFenced == Spec => FencedWrites
<1>1. TypeOK /\ LeaseInv /\ [Next]_vars => [writer' >= writer]_vars
  <2> SUFFICES ASSUME TypeOK, LeaseInv, [Next]_vars, UNCHANGED writer => FALSE
               PROVE  writer' >= writer
    BY DEF TypeOK
  <2>1. PICK v \in Viewers : Input(v)
    BY DEF Next, vars, Connect, Grant, Attach, Takeover, Heartbeat, Release, Disconnect,
           Register, Unregister, Expire, Tick, Interrupt, DispatchAutomated, PasteOp, SettleOp
  <2>2. writer' = conn[v].lease /\ controller = v
    BY <2>1 DEF Input, IsController
  <2>3. conn[v].lease = leases /\ writer <= leases
    BY <2>2, ControlAssumption DEF LeaseInv, ControlAssumption
  <2> QED BY <2>2, <2>3 DEF TypeOK
<1> QED BY <1>1, LeaseCorrect, PTL DEF Spec, FencedWrites

-----------------------------------------------------------------------------
(* Automated input. *)

\* Every step keeps the input between a paste and its Enter at the head of the queue.
LEMMA NextTurn == TypeOK /\ TurnInv /\ [Next]_vars => TurnInv'
<1> SUFFICES ASSUME TypeOK, TurnInv, [Next]_vars PROVE TurnInv'
  OBVIOUS
<1> USE DEF TurnInv, InputNotSplit
<1>1. CASE UNCHANGED <<arbiter, split>>
  BY <1>1 DEF arbiter
<1>2. ASSUME NEW v \in Viewers, Input(v) PROVE TurnInv'
  BY <1>2 DEF Input, Automated, Splitting, arbiter
<1>3. ASSUME NEW o \in Ops, DispatchAutomated(o) PROVE TurnInv'
  <2>1. queue \in Seq(Ops) /\ queue' = Append(queue, o) /\ UNCHANGED <<pasting, split>>
    BY <1>3 DEF TypeOK, DispatchAutomated
  <2>2. queue # << >> => Head(queue') = Head(queue) /\ queue' # << >>
    BY <2>1
  <2> QED BY <2>1, <2>2
<1>4. ASSUME NEW o \in Ops, PasteOp(o) PROVE TurnInv'
  BY <1>4 DEF PasteOp, Turn, Splitting
<1>5. ASSUME NEW o \in Ops, SettleOp(o) PROVE TurnInv'
  BY <1>5 DEF SettleOp, Turn
<1>6. CASE Interrupt
  BY <1>6 DEF Interrupt, Splitting, arbiter
<1> QED
  BY <1>1, <1>2, <1>3, <1>4, <1>5, <1>6 DEF Next, vars, Connect, Attach, Takeover, Heartbeat,
     Release, Disconnect, Register, Unregister, Expire, Tick

\* Neither typing nor another automated input lands between an automated paste and
\* its Enter: the arbiter's queue serialises what it admits to a run.  What does not
\* pass the arbiter, the operator's interrupt, may land there.
THEOREM InputSerialised == Spec => []InputNotSplit
<1>1. Init => TurnInv
  BY DEF Init, TurnInv, InputNotSplit
<1>2. TurnInv => InputNotSplit
  BY DEF TurnInv
<1> QED BY <1>1, <1>2, NextTurn, TypeCorrect, PTL DEF Spec
=============================================================================
