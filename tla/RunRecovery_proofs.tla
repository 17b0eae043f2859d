-------------------------- MODULE RunRecovery_proofs --------------------------
(***************************************************************************)
(* What the recovery of runs keeps for every mode, budget and number of    *)
(* starts, crashes and faults: its types, one active generation, the       *)
(* recovery budget, the finality of a stop, and that no agent process is   *)
(* left behind.                                                            *)
(*                                                                         *)
(* One inductive invariant carries the first four.  It adds what each stage*)
(* of an operation has established before its next step: an attempt is     *)
(* within the budget before it is counted, it is counted before a          *)
(* replacement is made, and the operator still wants the run.  The         *)
(* transitions of provider updates are typed on their own: nothing of the  *)
(* rest depends on what they say.  The last section joins it with where an *)
(* agent may live at each step of an operation.                            *)
(***************************************************************************)
EXTENDS RunRecovery, TLAPS

\* The variables a step on the latest row may change besides the row.
Rest ==
  /\ session \in Sessions
  /\ pane \in [Gens -> {"none", "live", "dead"}]
  /\ up \in BOOLEAN
  /\ pc \in Steps
  /\ op \in Ops
  /\ missing \in 0..1
  /\ bounds \in [starts : 0..MaxStarts, crashes : 0..MaxCrashes, faults : 0..MaxFaults]
  /\ cut \in SUBSET Gens

\* TypeOK without the transitions, and the transitions.
Types ==
  /\ run \in [Gens -> Runs] /\ gens \in Gens
  /\ Rest
  /\ intent \in {"running", "stopped"}
  /\ autos \in Nat

UpdateTypes ==
  /\ index \in Snapshots
  /\ built \in [Gens -> Snapshots \cup {Unbound}]
  /\ update \in [Gens -> UpdateRows]

\* What has been established when step p is the next one.
Stage(p) ==
  /\ p = "attempt" => Cur.attempts < MaxAttempts
  /\ p \in {"replace", "create"} => autos < Cur.attempts
  /\ p \in {"recheck", "attempt", "replace", "create", "stopOld", "consent"} => intent = "running"

\* Replacements were counted on the latest run, and only a wanted run is replaced.
Counted == autos <= Cur.attempts
Desired == Cur.desired = "running" => intent = "running"

Inv == Types /\ Stage(pc) /\ Counted /\ Desired /\ SupersededEnded

\* The step changes at most the row of the latest run, neither its count nor towards
\* wanting it.
RowOnly ==
  /\ run' \in [Gens -> Runs]
  /\ run'[gens].attempts = run[gens].attempts
  /\ run'[gens].desired = "running" => run[gens].desired = "running"
  /\ \A g \in Gens \ {gens} : run'[g] = run[g]

Phases == {"idle", "reconciling", "resuming", "restarting", "recovered", "failed"}
Statuses == {"none", "starting", "running", "stopping", "stopped", "failed"}

-----------------------------------------------------------------------------
(* Rows. *)

\* The generations are the numbers up to the bound.
LEMMA GenBounds == MaxGen \in Nat /\ 0 \in Gens
<1>1. \A m, n \in Nat : m * n \in Nat
  OBVIOUS
<1>2. MaxStarts \in Nat /\ MaxAttempts + 1 \in Nat
  BY RecoveryAssumption DEF RecoveryAssumption
<1>3. MaxStarts * (MaxAttempts + 1) \in Nat
  BY <1>1, <1>2
<1> QED BY <1>3 DEF MaxGen, Gens

\* updateRuntimeRunStatus keeps a row typed and counted, and never makes it wanted.
LEMMA StatusEffect ==
  ASSUME NEW r \in Runs, NEW status \in Statuses
  PROVE  /\ WithStatus(r, status) \in Runs
         /\ WithStatus(r, status).attempts = r.attempts
         /\ WithStatus(r, status).desired = "running" => r.desired = "running"
         /\ status = "stopping" => WithStatus(r, status).desired = "stopped"
BY DEF Runs, Statuses, WithStatus

\* transitionRunRecovery changes the phase and the cooldown.
LEMMA PhaseEffect ==
  ASSUME NEW r \in Runs, NEW phase \in Phases
  PROVE  /\ WithPhase(r, phase) \in Runs
         /\ WithPhase(r, phase).attempts = r.attempts
         /\ WithPhase(r, phase).desired = r.desired
<1>1. (r.cooling /\ phase # "recovered") \in BOOLEAN
  OBVIOUS
<1> QED BY <1>1 DEF Runs, Phases, WithPhase

\* The row of the latest run.
LEMMA CurType == Types => Cur \in Runs /\ Cur = run[gens] /\ gens \in Gens
BY DEF Types, Rest, Cur

\* SetRun changes one row.
LEMMA SetRunEffect ==
  ASSUME Types, NEW r \in Runs, SetRun(r), r.attempts = Cur.attempts,
         r.desired = "running" => Cur.desired = "running"
  PROVE  RowOnly
BY DEF Types, Rest, SetRun, Cur, RowOnly

\* No row changes.
LEMMA SameRun == ASSUME Types, UNCHANGED run PROVE RowOnly
BY DEF Types, Rest, RowOnly

\* A new status, a new phase, or both.
LEMMA RowSteps ==
  ASSUME Types
  PROVE  /\ \A status \in Statuses : SetRun(WithStatus(Cur, status)) => RowOnly
         /\ \A phase \in Phases : SetRun(WithPhase(Cur, phase)) => RowOnly
         /\ \A status \in Statuses, phase \in Phases :
              SetRun(WithPhase(WithStatus(Cur, status), phase)) => RowOnly
<1>1. Cur \in Runs
  BY CurType
<1>2. ASSUME NEW status \in Statuses, SetRun(WithStatus(Cur, status)) PROVE RowOnly
  BY <1>1, <1>2, StatusEffect, SetRunEffect
<1>3. ASSUME NEW phase \in Phases, SetRun(WithPhase(Cur, phase)) PROVE RowOnly
  BY <1>1, <1>3, PhaseEffect, SetRunEffect
<1>4. ASSUME NEW status \in Statuses, NEW phase \in Phases,
             SetRun(WithPhase(WithStatus(Cur, status), phase))
      PROVE  RowOnly
  <2>1. WithStatus(Cur, status) \in Runs
    BY <1>1, StatusEffect
  <2> QED BY <1>1, <1>4, <2>1, StatusEffect, PhaseEffect, SetRunEffect
<1> QED BY <1>2, <1>3, <1>4

\* A run that is given up, or whose attempt failed.
LEMMA FailedRow ==
  ASSUME Types, SetRun(MarkedFailed(Cur)) \/ SetRun(AfterFailure(Cur))
                \/ SetRun(AfterFailure(WithStatus(Cur, "failed")))
  PROVE  RowOnly
<1>1. {"failed", "reconciling"} \subseteq Phases /\ "failed" \in Statuses
  BY DEF Phases, Statuses
<1>2. Cur \in Runs /\ WithStatus(Cur, "failed") \in Runs
  BY <1>1, CurType, StatusEffect
<1>3. CASE SetRun(MarkedFailed(Cur))
  BY <1>1, <1>3, RowSteps DEF MarkedFailed
<1>4. CASE SetRun(AfterFailure(Cur))
  BY <1>1, <1>4, RowSteps DEF AfterFailure, MarkedFailed
<1>5. CASE SetRun(AfterFailure(WithStatus(Cur, "failed")))
  <2> DEFINE w == WithStatus(Cur, "failed")
  <2>1. WithStatus(w, "failed") \in Runs /\ WithStatus(w, "failed").attempts = Cur.attempts
        /\ (WithStatus(w, "failed").desired = "running" => Cur.desired = "running")
    BY <1>1, <1>2, StatusEffect
  <2>2. \/ SetRun(WithPhase(WithStatus(w, "failed"), "failed"))
        \/ SetRun(WithPhase(w, "failed")) \/ SetRun(WithPhase(w, "reconciling"))
    BY <1>5 DEF AfterFailure, MarkedFailed
  <2>3. CASE SetRun(WithPhase(WithStatus(w, "failed"), "failed"))
    <3> DEFINE v == WithStatus(w, "failed")
    <3> HIDE DEF v, w
    <3> QED BY <1>1, <2>1, <2>3, PhaseEffect, SetRunEffect DEF v
  <2>4. CASE SetRun(WithPhase(w, "failed")) \/ SetRun(WithPhase(w, "reconciling"))
    BY <1>1, <2>4, RowSteps
  <2> QED BY <2>2, <2>3, <2>4
<1> QED BY <1>3, <1>4, <1>5

\* An operation goes to its next step.
LEMMA GotoEffect ==
  ASSUME Types, NEW step \in Steps, Goto(step)
  PROVE  pc' = step /\ op' \in Ops
<1>1. op \in Ops /\ NoOp \in Ops
  BY DEF Types, Rest, Ops, NoOp
<1> QED BY <1>1 DEF Goto

\* A step that only changes the row of the latest run keeps the invariant, if its next
\* stage is established.
LEMMA RowKept ==
  ASSUME Inv, RowOnly, UNCHANGED <<gens, intent, autos>>, Rest', Stage(pc')
  PROVE  Inv'
<1>1. /\ gens \in Gens /\ run \in [Gens -> Runs] /\ autos \in Nat
      /\ intent \in {"running", "stopped"}
  BY DEF Inv, Types, Rest
<1>2. Types'
  BY <1>1 DEF RowOnly, Rest, Types
<1>3. Cur' = run'[gens] /\ Cur'.attempts = Cur.attempts
  BY DEF RowOnly, Cur
<1>4. Stage(pc)' /\ Counted' /\ Desired'
  BY <1>3 DEF Inv, Stage, Counted, Desired, RowOnly, Cur
<1>5. SupersededEnded'
  BY DEF Inv, SupersededEnded, RowOnly
<1> QED BY <1>2, <1>4, <1>5 DEF Inv

-----------------------------------------------------------------------------
(* The reconciliation pass. *)

\* A run that is replaced has attempts left; one that has not is given up.
LEMMA RecoverEffect ==
  ASSUME Inv, NEW force \in BOOLEAN, Recover(force), intent = "running"
  PROVE  RowOnly /\ session' \in Sessions /\ pc' \in Steps /\ op' \in Ops /\ Stage(pc')
<1>1. Types /\ session \in Sessions /\ op \in Ops /\ gens \in Gens
  BY DEF Inv, Types, Rest
<1>2. {"failed", "reconciling"} \subseteq Phases /\ "failed" \in Statuses
  BY DEF Phases, Statuses
<1>3. "idle" \in Steps /\ "attempt" \in Steps /\ Stage("idle")
  BY DEF Steps, Stage
<1>4. CASE SetRun(GivenUp(force)) /\ Goto("idle") /\ UNCHANGED session
  <2>1. RowOnly
    BY <1>1, <1>2, <1>4, RowSteps DEF GivenUp
  <2> QED BY <1>1, <1>3, <1>4, <2>1, GotoEffect
<1>5. CASE Goto("idle") /\ UNCHANGED <<run, session>>
  BY <1>1, <1>3, <1>5, SameRun, GotoEffect
<1>6. CASE SetRun(WithPhase(WithStatus(Cur, "failed"), "failed")) /\ Goto("idle")
           /\ UNCHANGED session
  <2>1. RowOnly
    BY <1>1, <1>2, <1>6, RowSteps
  <2> QED BY <1>1, <1>3, <1>6, <2>1, GotoEffect
<1>7. ASSUME BudgetLeft(Cur), NEW reserve \in BOOLEAN, NEW refuse \in BOOLEAN,
             SetRun(WithPhase(Cur, IF refuse THEN "failed" ELSE "reconciling")),
             session' = IF reserve THEN [state |-> "reserved", run |-> gens] ELSE session,
             pc' = IF refuse THEN "idle" ELSE "attempt",
             op' = [NoOp EXCEPT !.reserved = reserve]
      PROVE  RowOnly /\ session' \in Sessions /\ pc' \in Steps /\ op' \in Ops /\ Stage(pc')
  <2>1. RowOnly
    BY <1>1, <1>2, <1>7, RowSteps
  <2>2. session' \in Sessions
    BY <1>1, <1>7 DEF Sessions
  <2>3. op' \in Ops
    BY <1>1, <1>7 DEF Ops, NoOp
  <2>4. Stage(pc') /\ pc' \in Steps
    BY <1>3, <1>7 DEF Stage, BudgetLeft
  <2> QED BY <2>1, <2>2, <2>3, <2>4
<1>8. CASE /\ BudgetLeft(Cur) /\ ~ Cur.cooling
           /\ LET reserve == ~ force /\ Mode # "restart" /\ session.state \in {"ready", "resumed"}
                  refuse  == ~ reserve /\ Mode = "resume-only" /\ ~ force
              IN /\ SetRun(WithPhase(Cur, IF refuse THEN "failed" ELSE "reconciling"))
                 /\ session' = IF reserve THEN [state |-> "reserved", run |-> gens] ELSE session
                 /\ pc' = IF refuse THEN "idle" ELSE "attempt"
                 /\ op' = [NoOp EXCEPT !.reserved = reserve]
  <2> DEFINE reserve == ~ force /\ Mode # "restart" /\ session.state \in {"ready", "resumed"}
             refuse  == ~ reserve /\ Mode = "resume-only" /\ ~ force
  <2>1. reserve \in BOOLEAN /\ refuse \in BOOLEAN
    OBVIOUS
  <2>2. /\ BudgetLeft(Cur)
        /\ SetRun(WithPhase(Cur, IF refuse THEN "failed" ELSE "reconciling"))
        /\ session' = IF reserve THEN [state |-> "reserved", run |-> gens] ELSE session
        /\ pc' = IF refuse THEN "idle" ELSE "attempt"
        /\ op' = [NoOp EXCEPT !.reserved = reserve]
    BY <1>8
  <2> HIDE DEF reserve, refuse
  <2> QED BY <1>7, <2>1, <2>2
<1> QED BY <1>4, <1>5, <1>6, <1>8 DEF Recover

\* An observation costs at most one fault.
LEMMA ObserveEffect ==
  ASSUME Types, NEW o, Observe(o)
  PROVE  bounds' \in [starts : 0..MaxStarts, crashes : 0..MaxCrashes, faults : 0..MaxFaults]
BY RecoveryAssumption DEF Types, Rest, Observe, Fault, RecoveryAssumption

\* A fault is counted.
LEMMA FaultEffect ==
  ASSUME Types, Fault
  PROVE  bounds' \in [starts : 0..MaxStarts, crashes : 0..MaxCrashes, faults : 0..MaxFaults]
BY RecoveryAssumption DEF Types, Rest, Fault, RecoveryAssumption

\* What a run whose process is there may become.
LEMMA PresentEffect ==
  ASSUME Inv, Present, intent = "running"
  PROVE  RowOnly /\ session' \in Sessions /\ pc' \in Steps /\ op' \in Ops /\ Stage(pc')
<1>1. Types /\ session \in Sessions /\ op \in Ops
  BY DEF Inv, Types, Rest
<1>2. /\ "idle" \in Steps /\ "finish" \in Steps /\ Stage("idle") /\ Stage("finish")
      /\ {"recovered", "failed", "reconciling"} \subseteq Phases
  BY DEF Steps, Stage, Phases
<1>3. CASE Recover(TRUE)
  BY <1>3, RecoverEffect
<1>4. ASSUME NEW phase \in {"recovered", "failed", "reconciling"}, SetRun(WithPhase(Cur, phase)),
             Goto("idle") \/ Goto("finish"), UNCHANGED session
      PROVE  RowOnly /\ session' \in Sessions /\ pc' \in Steps /\ op' \in Ops /\ Stage(pc')
  <2>1. RowOnly
    BY <1>1, <1>2, <1>4, RowSteps
  <2> QED BY <1>1, <1>2, <1>4, <2>1, GotoEffect
<1>5. CASE Goto("idle") /\ UNCHANGED <<run, session>>
  BY <1>1, <1>2, <1>5, SameRun, GotoEffect
<1>6. \/ Recover(TRUE)
      \/ Goto("idle") /\ UNCHANGED <<run, session>>
      \/ \E phase \in {"recovered", "failed", "reconciling"} :
           SetRun(WithPhase(Cur, phase)) /\ (Goto("idle") \/ Goto("finish")) /\ UNCHANGED session
  BY DEF Present
<1> QED BY <1>3, <1>4, <1>5, <1>6

\* A pass looks at the run.
LEMMA InspectKeeps == Inv /\ Inspect => Inv'
<1> SUFFICES ASSUME Inv, Inspect PROVE Inv'
  OBVIOUS
<1>1. intent = "running" /\ Types
  BY DEF Inv, Inspect, Desired, Wanted
<1>2. UNCHANGED <<gens, intent, autos, pane, up, cut>>
  BY DEF Inspect, history
<1>3. bounds' \in [starts : 0..MaxStarts, crashes : 0..MaxCrashes, faults : 0..MaxFaults]
  BY <1>1, ObserveEffect DEF Inspect
<1>4. missing' \in 0..1
  <2>1. missing' = 0 \/ missing' = 1
    BY DEF Inspect, Present
  <2> QED BY <2>1
<1>5. RowOnly /\ session' \in Sessions /\ pc' \in Steps /\ op' \in Ops /\ Stage(pc')
  <2>1. CASE Present
    BY <1>1, <2>1, PresentEffect
  <2>2. CASE Recover(FALSE)
    BY <1>1, <2>2, RecoverEffect
  <2>3. CASE UNCHANGED <<run, session, pc, op>>
    BY <1>1, <2>3, SameRun DEF Inv, Types, Rest
  <2>4. CASE UNCHANGED <<run, session>> /\ (Goto("recheck") \/ Goto("idle"))
    <3>1. "recheck" \in Steps /\ "idle" \in Steps /\ Stage("recheck") /\ Stage("idle")
      BY <1>1 DEF Steps, Stage
    <3>2. session \in Sessions
      BY <1>1 DEF Types, Rest
    <3> QED BY <1>1, <2>4, <3>1, <3>2, SameRun, GotoEffect
  <2>5. \/ Present \/ Recover(FALSE) \/ UNCHANGED <<run, session, pc, op>>
        \/ UNCHANGED <<run, session>> /\ (Goto("recheck") \/ Goto("idle"))
    BY DEF Inspect
  <2> QED BY <2>1, <2>2, <2>3, <2>4, <2>5
<1> QED BY <1>1, <1>2, <1>3, <1>4, <1>5, RowKept DEF Rest, Types, Ops

\* The pass looks again before it recovers.
LEMMA RecheckKeeps == Inv /\ Recheck => Inv'
<1> SUFFICES ASSUME Inv, Recheck PROVE Inv'
  OBVIOUS
<1>1. intent = "running" /\ Types
  BY DEF Inv, Recheck, Stage
<1>2. UNCHANGED <<gens, intent, autos, pane, up, cut>> /\ missing' \in 0..1
  BY DEF Recheck, history
<1>3. bounds' \in [starts : 0..MaxStarts, crashes : 0..MaxCrashes, faults : 0..MaxFaults]
  BY <1>1, ObserveEffect DEF Recheck
<1>4. RowOnly /\ session' \in Sessions /\ pc' \in Steps /\ op' \in Ops /\ Stage(pc')
  <2>1. CASE Recover(FALSE)
    BY <1>1, <2>1, RecoverEffect
  <2>2. CASE UNCHANGED <<run, session>> /\ (Goto("finish") \/ Goto("idle"))
    <3>1. "finish" \in Steps /\ "idle" \in Steps /\ Stage("finish") /\ Stage("idle")
      BY DEF Steps, Stage
    <3>2. session \in Sessions
      BY <1>1 DEF Types, Rest
    <3> QED BY <1>1, <2>2, <3>1, <3>2, SameRun, GotoEffect
  <2> QED BY <2>1, <2>2 DEF Recheck
<1> QED BY <1>1, <1>2, <1>3, <1>4, RowKept DEF Rest, Types, Ops

\* The attempt is counted.
LEMMA AttemptKeeps == Inv /\ Attempt => Inv'
<1> SUFFICES ASSUME Inv, Attempt PROVE Inv'
  OBVIOUS
<1> DEFINE r == [Cur EXCEPT !.phase = IF op.reserved THEN "resuming" ELSE "restarting",
                            !.attempts = @ + 1, !.cooling = TRUE]
<1>1. /\ Cur \in Runs /\ gens \in Gens /\ run \in [Gens -> Runs] /\ autos \in Nat
      /\ Cur.attempts < MaxAttempts /\ intent = "running"
  BY CurType DEF Inv, Types, Rest, Attempt, Stage
<1>2. /\ r \in Runs /\ r.attempts = Cur.attempts + 1 /\ r.desired = Cur.desired
  <2>1. Cur.attempts + 1 \in 0..MaxAttempts
    BY <1>1, RecoveryAssumption DEF Runs, RecoveryAssumption
  <2> QED BY <1>1, <2>1 DEF Runs
<1>3. /\ run' = [run EXCEPT ![gens] = r] /\ pc' = "replace" /\ op' \in Ops
      /\ UNCHANGED <<gens, session, pane, up, missing, bounds, intent, autos, cut>>
  <2>1. "replace" \in Steps
    BY DEF Steps
  <2> QED BY <2>1, GotoEffect DEF Inv, Attempt, SetRun, history
<1> HIDE DEF r
<1>4. run' \in [Gens -> Runs] /\ Cur' = r /\ \A g \in Gens \ {gens} : run'[g] = run[g]
  BY <1>1, <1>2, <1>3 DEF Cur
<1>5. Types'
  BY <1>3, <1>4 DEF Inv, Types, Rest, Steps
<1>6. Stage(pc)' /\ Counted' /\ Desired'
  <2>1. Cur.attempts \in Nat /\ autos <= Cur.attempts
    BY <1>1 DEF Inv, Counted, Runs
  <2> QED BY <1>1, <1>2, <1>3, <1>4, <2>1 DEF Stage, Counted, Desired
<1>7. SupersededEnded'
  BY <1>3, <1>4 DEF Inv, SupersededEnded
<1> QED BY <1>5, <1>6, <1>7 DEF Inv

-----------------------------------------------------------------------------
(* New generations. *)

\* The next generation is the only active one, and carries the count it is given.
LEMMA NewRunEffect ==
  ASSUME Inv, NEW phase \in Phases, NEW attempts \in 0..MaxAttempts, NEW cooling \in BOOLEAN,
         NEW native \in BOOLEAN, NewRun(phase, attempts, cooling, native)
  PROVE  /\ run' \in [Gens -> Runs] /\ gens' \in Gens /\ missing' \in 0..1
         /\ pane' \in [Gens -> {"none", "live", "dead"}]
         /\ Cur'.attempts = attempts
         /\ SupersededEnded'
<1> DEFINE r == [status |-> "starting", desired |-> "running", phase |-> phase,
                 attempts |-> attempts, cooling |-> cooling, bound |-> FALSE, native |-> native]
<1>1. run \in [Gens -> Runs] /\ gens \in Gens /\ MaxGen \in Nat
  BY GenBounds DEF Inv, Types, Rest
<1>2. gens + 1 \in Gens /\ gens' = gens + 1 /\ gens + 1 # gens
  BY <1>1 DEF NewRun, Gens
<1>3. r \in Runs
  BY DEF Runs, Phases
<1>4. run' = [run EXCEPT ![gens + 1] = r] /\ missing' = 0
  BY DEF NewRun
<1>5. r.attempts = attempts
  OBVIOUS
<1> HIDE DEF r
<1>6. /\ run' \in [Gens -> Runs] /\ Cur' = r
      /\ \A g \in Gens \ {gens + 1} : run'[g] = run[g]
  BY <1>1, <1>2, <1>3, <1>4 DEF Cur
<1>7. run[gens].status \in {"none", "stopped", "failed"}
  BY <1>1 DEF NewRun, Cur, Active, Runs
<1>8. SupersededEnded'
  BY <1>2, <1>6, <1>7 DEF Inv, SupersededEnded
<1>9. pane' \in [Gens -> {"none", "live", "dead"}]
  BY DEF NewRun, Inv, Types, Rest
<1> QED BY <1>2, <1>4, <1>5, <1>6, <1>8, <1>9

\* A start begins with a fresh budget.
LEMMA StartKeeps == Inv /\ Start => Inv'
<1> SUFFICES ASSUME Inv, Start PROVE Inv'
  OBVIOUS
<1>1. 0 \in 0..MaxAttempts /\ "idle" \in Phases
  BY RecoveryAssumption DEF RecoveryAssumption, Phases
<1>2. /\ run' \in [Gens -> Runs] /\ gens' \in Gens /\ missing' \in 0..1
      /\ pane' \in [Gens -> {"none", "live", "dead"}]
      /\ Cur'.attempts = 0 /\ SupersededEnded'
  BY <1>1, NewRunEffect DEF Start
<1>3. bounds' \in [starts : 0..MaxStarts, crashes : 0..MaxCrashes, faults : 0..MaxFaults]
  BY RecoveryAssumption DEF Inv, Types, Rest, Start, RecoveryAssumption
<1>4. op' \in Ops
  BY DEF Start, Ops, NoOp
<1>5. /\ pc' = "prepare" /\ autos' = 0 /\ intent' = "running"
      /\ UNCHANGED <<session, up, cut>>
  BY DEF Start, Operator
<1>6. Types'
  BY <1>2, <1>3, <1>4, <1>5 DEF Inv, Types, Rest, Steps
<1> QED BY <1>2, <1>5, <1>6 DEF Inv, Stage, Counted, Desired

\* A replacement inherits the count, which its own attempt has raised.
LEMMA CreateKeeps == Inv /\ Create => Inv'
<1> SUFFICES ASSUME Inv, Create PROVE Inv'
  OBVIOUS
<1>1. /\ Cur \in Runs /\ op \in Ops /\ autos \in Nat
      /\ intent = "running" /\ autos < Cur.attempts
  BY CurType DEF Inv, Types, Rest, Create, Stage
<1>2. /\ Inherited(Cur) \in 0..MaxAttempts /\ Cur.cooling \in BOOLEAN /\ op.reserved \in BOOLEAN
      /\ (IF op.reserved THEN "resuming" ELSE "restarting") \in Phases
  BY <1>1 DEF Runs, Ops, Inherited, Phases
<1>3. /\ run' \in [Gens -> Runs] /\ gens' \in Gens /\ missing' \in 0..1
      /\ pane' \in [Gens -> {"none", "live", "dead"}]
      /\ Cur'.attempts = Cur.attempts /\ SupersededEnded'
  BY <1>2, NewRunEffect DEF Create, Inherited
<1>4. /\ op' \in Ops /\ pc' = "prepare" /\ autos' = autos + 1
      /\ UNCHANGED <<session, up, bounds, intent, cut>>
  BY <1>1 DEF Create, Ops
<1>5. Types'
  BY <1>1, <1>3, <1>4 DEF Inv, Types, Rest, Steps
<1>6. Counted'
  BY <1>1, <1>3, <1>4 DEF Counted, Runs
<1> QED BY <1>1, <1>3, <1>4, <1>5, <1>6 DEF Inv, Stage, Desired

-----------------------------------------------------------------------------
(* Operations on the latest run. *)

\* A stop is wanted by nobody any more.
LEMMA StopKeeps ==
  ASSUME Inv, NEW again \in BOOLEAN, Stop(again)
  PROVE  Inv'
<1>1. Types /\ Cur \in Runs /\ gens \in Gens /\ run \in [Gens -> Runs]
  BY CurType DEF Inv, Types, Rest
<1>2. \E r \in Runs : SetRun(r) /\ r.attempts = Cur.attempts /\ r.desired = "stopped"
  <2>1. CASE SetRun(WithStatus(Cur, "stopping"))
    <3>1. "stopping" \in Statuses
      BY DEF Statuses
    <3> QED BY <1>1, <2>1, <3>1, StatusEffect
  <2>2. CASE SetRun([Cur EXCEPT !.desired = "stopped", !.phase = "idle", !.cooling = FALSE])
    <3> DEFINE r == [Cur EXCEPT !.desired = "stopped", !.phase = "idle", !.cooling = FALSE]
    <3>1. r \in Runs /\ r.attempts = Cur.attempts /\ r.desired = "stopped"
      BY <1>1 DEF Runs
    <3> HIDE DEF r
    <3> QED BY <2>2, <3>1 DEF r
  <2> QED BY <2>1, <2>2 DEF Stop
<1>3. PICK r \in Runs : SetRun(r) /\ r.attempts = Cur.attempts /\ r.desired = "stopped"
  BY <1>2
<1>4. /\ run' \in [Gens -> Runs] /\ run'[gens] = r
      /\ \A g \in Gens \ {gens} : run'[g] = run[g]
  BY <1>1, <1>3 DEF SetRun
<1>5. /\ pc' \in {"idle", "stop"} /\ intent' \in {"running", "stopped"} /\ op' \in Ops
      /\ UNCHANGED <<gens, session, pane, up, missing, bounds, autos, cut>>
  <2>1. NoOp \in Ops /\ [NoOp EXCEPT !.again = again] \in Ops /\ "idle" \in Steps
    BY DEF NoOp, Ops, Steps
  <2>2. /\ intent' \in {"running", "stopped"}
        /\ UNCHANGED <<gens, session, pane, up, missing, bounds, autos, cut>>
    BY DEF Stop, Operator
  <2>3. \/ pc' = "stop" /\ op' = [NoOp EXCEPT !.again = again]
        \/ Goto("idle")
    BY DEF Stop
  <2> QED BY <1>1, <2>1, <2>2, <2>3, GotoEffect
<1>6. Types'
  BY <1>4, <1>5 DEF Inv, Types, Rest, Steps
<1>7. Cur' = r
  BY <1>4, <1>5 DEF Cur
<1>8. Stage(pc)' /\ Counted' /\ Desired'
  BY <1>3, <1>5, <1>7 DEF Inv, Stage, Counted, Desired
<1>9. SupersededEnded'
  BY <1>4, <1>5 DEF Inv, SupersededEnded
<1> QED BY <1>6, <1>8, <1>9 DEF Inv

\* A step of an operation that ends the operation, or leads to a stage that needs
\* nothing, and changes the row, the pane and the bounds only.
LEMMA Simple ==
  ASSUME Inv, RowOnly, pc' \in Steps \ {"recheck", "attempt", "replace", "create", "stopOld", "consent"},
         pane' \in [Gens -> {"none", "live", "dead"}],
         bounds' \in [starts : 0..MaxStarts, crashes : 0..MaxCrashes, faults : 0..MaxFaults],
         op' \in Ops, UNCHANGED <<gens, session, up, missing, history>>
  PROVE  Inv'
<1>1. UNCHANGED <<gens, intent, autos, session, up, missing, cut>> /\ Stage(pc')
  BY DEF history, Stage
<1>2. Rest'
  BY <1>1 DEF Inv, Types, Rest
<1> QED BY <1>1, <1>2, RowKept

\* The step an operation without demands goes to.
LEMMA Onward ==
  ASSUME Types, NEW step \in {"idle", "finish", "relaunch", "stop", "launch", "bind"}, Goto(step)
  PROVE  /\ pc' \in Steps \ {"recheck", "attempt", "replace", "create", "stopOld", "consent"}
         /\ op' \in Ops
<1>1. step \in Steps \ {"recheck", "attempt", "replace", "create", "stopOld", "consent"}
  BY DEF Steps
<1> QED BY <1>1, GotoEffect

\* Launching, stopping and finishing.
LEMMA StepKeeps ==
  ASSUME Inv, Prepare \/ NewWindow \/ Bind \/ LaunchFails \/ StopPane \/ Finish \/ ResumeStop
  PROVE  Inv'
<1>1. /\ Types /\ Cur \in Runs /\ gens \in Gens /\ run \in [Gens -> Runs] /\ op \in Ops
      /\ pane \in [Gens -> {"none", "live", "dead"}]
      /\ bounds \in [starts : 0..MaxStarts, crashes : 0..MaxCrashes, faults : 0..MaxFaults]
  BY CurType DEF Inv, Types, Rest
<1>2. {"running", "stopped", "failed"} \subseteq Statuses /\ {"failed", "reconciling", "recovered"} \subseteq Phases
  BY DEF Statuses, Phases
<1>3. CASE NewWindow
  <2>1. pane' \in [Gens -> {"none", "live", "dead"}]
    BY <1>1, <1>3 DEF NewWindow
  <2> QED BY <1>1, <1>3, <2>1, Onward, Simple, SameRun DEF NewWindow, durable
<1>4. CASE Bind
  <2>1. WithStatus(Cur, "running") \in Runs
    BY <1>1, <1>2, StatusEffect
  <2> DEFINE w == WithStatus(Cur, "running")
  <2>2. w.attempts = Cur.attempts /\ (w.desired = "running" => Cur.desired = "running")
    BY <1>1, <1>2, StatusEffect
  <2>3. SetRun([w EXCEPT !.bound = TRUE])
    BY <1>4 DEF Bind
  <2> HIDE DEF w
  <2>4. /\ [w EXCEPT !.bound = TRUE] \in Runs
        /\ [w EXCEPT !.bound = TRUE].attempts = w.attempts
        /\ [w EXCEPT !.bound = TRUE].desired = w.desired
    BY <2>1 DEF Runs, w
  <2>5. RowOnly
    BY <1>1, <2>2, <2>3, <2>4, SetRunEffect
  <2>6. Goto("finish") \/ Goto("idle")
    BY <1>4 DEF Bind
  <2> QED BY <1>1, <1>4, <2>5, <2>6, Onward, Simple DEF Bind
<1>5. CASE LaunchFails
  <2>1. SetRun(AfterFailure(WithStatus(Cur, "failed"))) \/ SetRun(WithStatus(Cur, "failed"))
    BY <1>5 DEF LaunchFails
  <2>2. RowOnly
    BY <1>1, <1>2, <2>1, RowSteps, FailedRow
  <2>3. pane' \in [Gens -> {"none", "live", "dead"}]
    BY <1>1, <1>5 DEF LaunchFails
  <2> QED BY <1>1, <1>5, <2>2, <2>3, Onward, Simple DEF LaunchFails
<1>6. CASE StopPane
  <2>1. \/ SetRun(WithStatus(Cur, "stopped")) \/ SetRun(WithStatus(Cur, "failed"))
        \/ UNCHANGED run
    BY <1>6 DEF StopPane, Stopped
  <2>2. RowOnly
    BY <1>1, <1>2, <2>1, RowSteps, SameRun
  <2>3. Goto("idle") \/ Goto("relaunch")
    BY <1>6 DEF StopPane, Stopped
  <2>4. bounds' \in [starts : 0..MaxStarts, crashes : 0..MaxCrashes, faults : 0..MaxFaults]
    BY <1>1, <1>6, FaultEffect DEF StopPane
  <2>5. pane' \in [Gens -> {"none", "live", "dead"}]
    BY <1>1, <1>6 DEF StopPane
  <2>6. UNCHANGED <<gens, session, up, missing, history>>
    BY <1>6 DEF StopPane
  <2> QED BY <1>1, <2>2, <2>3, <2>4, <2>5, <2>6, Onward, Simple
<1>7. CASE Finish
  <2>1. RowOnly
    BY <1>1, <1>2, <1>7, RowSteps, SameRun DEF Finish
  <2> QED BY <1>1, <1>7, <2>1, Onward, Simple DEF Finish
<1>8. CASE ResumeStop
  BY <1>1, <1>8, Onward, Simple, SameRun DEF ResumeStop, durable
<1>9. CASE Prepare
  BY <1>1, <1>9, Onward, Simple, SameRun DEF Prepare, durable
<1> QED BY <1>3, <1>4, <1>5, <1>6, <1>7, <1>8, <1>9

\* The run is retired, or the attempt has failed.
LEMMA ReplaceKeeps == Inv /\ Replace => Inv'
<1> SUFFICES ASSUME Inv, Replace PROVE Inv'
  OBVIOUS
<1>1. /\ Types /\ gens \in Gens /\ pane \in [Gens -> {"none", "live", "dead"}]
      /\ bounds \in [starts : 0..MaxStarts, crashes : 0..MaxCrashes, faults : 0..MaxFaults]
  BY DEF Inv, Types, Rest
<1>2. "failed" \in Statuses /\ {"failed", "reconciling"} \subseteq Phases
  BY DEF Statuses, Phases
<1>3. /\ \/ SetRun(WithStatus(Cur, "failed")) \/ SetRun(AfterFailure(Cur))
      /\ Goto("create") \/ Goto("idle")
  BY DEF Replace
<1>4. RowOnly
  BY <1>1, <1>2, <1>3, RowSteps, FailedRow
<1>10. pc' \in {"create", "idle"} /\ pc' \in Steps /\ op' \in Ops
  <2>1. "create" \in Steps /\ "idle" \in Steps
    BY DEF Steps
  <2> QED BY <1>1, <1>3, <2>1, GotoEffect
<1>5. bounds' \in [starts : 0..MaxStarts, crashes : 0..MaxCrashes, faults : 0..MaxFaults]
  BY <1>1, FaultEffect DEF Replace
<1>6. pane' \in [Gens -> {"none", "live", "dead"}]
  BY <1>1 DEF Replace
<1>7. UNCHANGED <<gens, intent, autos, session, up, missing, cut>>
  BY DEF Replace, history
<1>8. Stage(pc')
  BY <1>10 DEF Inv, Replace, Stage
<1>9. Rest'
  BY <1>5, <1>6, <1>7, <1>10 DEF Inv, Types, Rest, Steps
<1> QED BY <1>4, <1>7, <1>8, <1>9, RowKept

\* The agents, the machine and the clock.
LEMMA OutsideKeeps ==
  ASSUME Inv, SessionReady \/ Cool \/ Crash \/ Boot \/ \E g \in Gens : PaneDies(g)
  PROVE  Inv'
<1>1. /\ Types /\ Cur \in Runs /\ gens \in Gens /\ run \in [Gens -> Runs] /\ pc \in Steps
      /\ pane \in [Gens -> {"none", "live", "dead"}] /\ Stage(pc)
  BY CurType DEF Inv, Types, Rest
<1>2. CASE SessionReady
  <2>1. session' \in Sessions
    BY <1>1, <1>2 DEF SessionReady, Sessions, Types, Rest
  <2>2. UNCHANGED <<run, gens, pane, up, pc, op, missing, bounds, intent, autos, cut>>
    BY <1>2 DEF SessionReady
  <2>3. Rest'
    BY <2>1, <2>2 DEF Inv, Types, Rest
  <2> QED BY <1>1, <2>2, <2>3, SameRun, RowKept
<1>3. CASE Cool
  <2> DEFINE r == [Cur EXCEPT !.cooling = FALSE]
  <2>1. r \in Runs /\ r.attempts = Cur.attempts /\ r.desired = Cur.desired
    BY <1>1 DEF Runs
  <2>2. SetRun(r) /\ UNCHANGED <<gens, session, pane, up, pc, op, missing, bounds, intent, autos,
                                 cut>>
    BY <1>3 DEF Cool, history
  <2> HIDE DEF r
  <2>3. RowOnly
    BY <1>1, <2>1, <2>2, SetRunEffect
  <2>4. Rest'
    BY <2>2 DEF Inv, Types, Rest
  <2> QED BY <1>1, <2>2, <2>3, <2>4, RowKept
<1>4. CASE Crash
  <2>1. bounds' \in [starts : 0..MaxStarts, crashes : 0..MaxCrashes, faults : 0..MaxFaults]
    BY <1>1, <1>4, RecoveryAssumption DEF Crash, Types, Rest, RecoveryAssumption
  <2>2. /\ pc' = "idle" /\ op' \in Ops /\ up' = FALSE /\ missing' = 0 /\ cut' \in SUBSET Gens
        /\ UNCHANGED <<run, gens, session, pane, intent, autos>>
    <3>1. "idle" \in Steps
      BY DEF Steps
    <3>2. pc' = "idle" /\ op' \in Ops
      BY <1>1, <1>4, <3>1, GotoEffect DEF Crash
    <3> QED BY <1>1, <1>4, <3>2 DEF Crash, durable, Types, Rest
  <2>3. Rest'
    <3>1. pc' \in Steps /\ missing' \in 0..1
      BY <2>2 DEF Steps
    <3>3. up' \in BOOLEAN
      BY <2>2, Zenon
    <3>2. session' \in Sessions /\ pane' \in [Gens -> {"none", "live", "dead"}] /\ op' \in Ops
          /\ cut' \in SUBSET Gens
      BY <1>1, <2>2 DEF Types, Rest
    <3> QED BY <2>1, <3>1, <3>2, <3>3 DEF Rest, Ops
  <2>4. Stage(pc')
    BY <2>2 DEF Stage
  <2> QED BY <1>1, <2>2, <2>3, <2>4, SameRun, RowKept
<1>5. CASE Boot
  <2>1. /\ up' = TRUE /\ missing' = 0
        /\ UNCHANGED <<run, gens, session, pane, pc, op, bounds, intent, autos, cut>>
    BY <1>5 DEF Boot, durable, history
  <2>2. up' \in BOOLEAN
    BY <2>1, Zenon
  <2>3. Rest'
    BY <2>1, <2>2 DEF Inv, Types, Rest
  <2> QED BY <1>1, <2>1, <2>3, SameRun, RowKept
<1>6. ASSUME NEW g \in Gens, PaneDies(g) PROVE Inv'
  <2>1. /\ pane' \in [Gens -> {"none", "live", "dead"}]
        /\ UNCHANGED <<run, gens, session, up, pc, op, missing, bounds, intent, autos, cut>>
    BY <1>1, <1>6 DEF PaneDies, durable, history
  <2>2. Rest'
    BY <2>1 DEF Inv, Types, Rest
  <2> QED BY <1>1, <2>1, <2>2, SameRun, RowKept
<1> QED BY <1>2, <1>3, <1>4, <1>5, <1>6

-----------------------------------------------------------------------------
(* Provider updates. *)

\* An update starts from a wanted run, spends no budget and starts nothing by itself.
LEMMA UpdateKeeps ==
  ASSUME Inv, Conclude \/ (\E force \in BOOLEAN : BeginUpdate(force)) \/ StopOld \/ Consent
  PROVE  Inv'
<1>1. /\ Types /\ Cur \in Runs /\ gens \in Gens /\ op \in Ops /\ session \in Sessions
      /\ pane \in [Gens -> {"none", "live", "dead"}] /\ pc \in Steps /\ Stage(pc)
      /\ bounds \in [starts : 0..MaxStarts, crashes : 0..MaxCrashes, faults : 0..MaxFaults]
  BY CurType DEF Inv, Types, Rest
<1>2. "idle" \in Steps /\ "consent" \in Steps /\ "stopOld" \in Steps /\ "attempt" \in Steps
  BY DEF Steps
<1>3. CASE Conclude
  <2>1. UNCHANGED <<run, gens, session, pane, up, pc, op, missing, bounds, intent, autos, cut>>
    BY <1>3 DEF Conclude, durable, history
  <2>2. Rest'
    BY <2>1 DEF Inv, Types, Rest
  <2> QED BY <1>1, <2>1, <2>2, SameRun, RowKept
<1>4. ASSUME NEW force \in BOOLEAN, BeginUpdate(force) PROVE Inv'
  <2>1. /\ pc' = "stopOld"
        /\ UNCHANGED <<run, gens, session, pane, up, missing, bounds, intent, autos, cut>>
    BY <1>4 DEF BeginUpdate, durable, history
  <2>2. op' \in Ops
    BY <1>4 DEF BeginUpdate, Ops, NoOp
  <2>3. Stage(pc')
    BY <1>4, <2>1 DEF BeginUpdate, Wanted, Inv, Desired, Stage
  <2>4. Rest'
    BY <1>2, <2>1, <2>2 DEF Inv, Types, Rest
  <2> QED BY <1>1, <2>1, <2>3, <2>4, SameRun, RowKept
<1>5. CASE StopOld
  <2>1. UNCHANGED <<gens, session, up, missing, intent, autos, cut>>
    BY <1>5 DEF StopOld, history
  <2>2. bounds' \in [starts : 0..MaxStarts, crashes : 0..MaxCrashes, faults : 0..MaxFaults]
    BY <1>1, <1>5, FaultEffect DEF StopOld
  <2>3. pane' \in [Gens -> {"none", "live", "dead"}]
    BY <1>1, <1>5 DEF StopOld
  <2>4. (SetRun(MarkedFailed(Cur)) \/ UNCHANGED run) /\ (Goto("consent") \/ Goto("idle"))
    BY <1>5 DEF StopOld, GiveUp
  <2>5. RowOnly
    BY <1>1, <2>4, FailedRow, SameRun
  <2>6. pc' \in {"consent", "idle"} /\ op' \in Ops
    BY <1>1, <1>2, <2>4, GotoEffect
  <2>7. Stage(pc')
    BY <1>1, <1>5, <2>6 DEF StopOld, Stage
  <2>8. Rest'
    BY <1>1, <1>2, <2>1, <2>2, <2>3, <2>6 DEF Inv, Types, Rest
  <2> QED BY <2>1, <2>5, <2>7, <2>8, RowKept
<1>6. CASE Consent
  <2>1. UNCHANGED <<gens, pane, up, missing, bounds, intent, autos, cut>> /\ intent = "running"
    BY <1>1, <1>6 DEF Consent, Stage, history
  <2>2. CASE SetRun(MarkedFailed(Cur)) /\ Goto("idle") /\ UNCHANGED session
    <3>1. RowOnly
      BY <1>1, <2>2, FailedRow
    <3>2. pc' = "idle" /\ op' \in Ops
      BY <1>1, <1>2, <2>2, GotoEffect
    <3>3. Stage(pc')
      BY <3>2 DEF Stage
    <3>4. Rest'
      BY <1>1, <1>2, <2>1, <2>2, <3>2 DEF Inv, Types, Rest
    <3> QED BY <2>1, <3>1, <3>3, <3>4, RowKept
  <2>3. ASSUME BudgetLeft(Cur), NEW reserve \in BOOLEAN,
               session' = IF reserve THEN [state |-> "reserved", run |-> gens] ELSE session,
               op' = [op EXCEPT !.reserved = reserve], pc' = "attempt", UNCHANGED run
        PROVE  Inv'
    <3>1. session' \in Sessions
      BY <1>1, <2>3 DEF Sessions
    <3>2. op' \in Ops
      BY <1>1, <2>3 DEF Ops
    <3>3. Stage(pc')
      BY <2>1, <2>3 DEF Stage, BudgetLeft
    <3>4. Rest'
      BY <1>1, <1>2, <2>1, <2>3, <3>1, <3>2 DEF Inv, Types, Rest
    <3> QED BY <1>1, <2>1, <2>3, <3>3, <3>4, SameRun, RowKept
  <2>4. CASE /\ ~ (SetRun(MarkedFailed(Cur)) /\ Goto("idle") /\ UNCHANGED session)
    <3> DEFINE reserve == Mode # "restart" /\ session.state \in {"ready", "resumed"}
    <3>1. /\ BudgetLeft(Cur) /\ UNCHANGED run /\ pc' = "attempt"
          /\ session' = IF reserve THEN [state |-> "reserved", run |-> gens] ELSE session
          /\ op' = [op EXCEPT !.reserved = reserve]
      BY <1>6, <2>4 DEF Consent, GiveUp
    <3>2. reserve \in BOOLEAN
      OBVIOUS
    <3> HIDE DEF reserve
    <3> QED BY <2>3, <3>1, <3>2
  <2> QED BY <2>2, <2>4
<1> QED BY <1>3, <1>4, <1>5, <1>6

\* complete changes one transition.
LEMMA CompleteEffect ==
  ASSUME UpdateTypes, NEW g, NEW outcome \in Outcomes, Complete(g, outcome)
  PROVE  update' \in [Gens -> UpdateRows]
<1> DEFINE mid == [update EXCEPT ![g].state = "completed"]
<1>1. mid \in [Gens -> UpdateRows]
  BY DEF UpdateTypes, UpdateRows
<1>2. update' = [mid EXCEPT ![g].outcome = outcome]
  BY DEF Complete
<1> HIDE DEF mid
<1> QED BY <1>1, <1>2 DEF UpdateRows

\* The steps that bind a run or write its transition.
LEMMA UpdateStep ==
  ASSUME UpdateTypes, Types,
         \/ Prepare \/ Bind \/ LaunchFails \/ Replace \/ Create \/ Conclude \/ StopOld \/ Consent
         \/ (\E force \in BOOLEAN : BeginUpdate(force)) \/ Boot
  PROVE  UpdateTypes'
<1>1. /\ index \in Snapshots /\ built \in [Gens -> Snapshots \cup {Unbound}]
      /\ update \in [Gens -> UpdateRows] /\ gens \in Gens
  BY DEF UpdateTypes, Types
<1>2. {"restarted", "failed", "retryable", "uncertain", "approval"} \subseteq Outcomes
  BY DEF Outcomes
<1>3. CASE Prepare
  BY <1>1, <1>3 DEF Prepare, UpdateTypes
<1>4. ASSUME UNCHANGED <<index, built>>,
             UNCHANGED update \/ (\E g \in {gens, gens - 1}, outcome \in Outcomes : Complete(g, outcome))
      PROVE  UpdateTypes'
  <2>1. update' \in [Gens -> UpdateRows]
    BY <1>1, <1>4, CompleteEffect
  <2> QED BY <1>1, <1>4, <2>1 DEF UpdateTypes
<1>5. CASE Bind
  BY <1>2, <1>4, <1>5 DEF Bind
<1>6. CASE LaunchFails
  BY <1>2, <1>4, <1>6 DEF LaunchFails, FailUpdate
<1>7. CASE Replace
  BY <1>2, <1>4, <1>7 DEF Replace, FailUpdate
<1>8. CASE Conclude
  BY <1>2, <1>4, <1>8 DEF Conclude
<1>9. CASE StopOld
  BY <1>2, <1>4, <1>9 DEF StopOld, GiveUp
<1>10. CASE Consent
  BY <1>2, <1>4, <1>10 DEF Consent, GiveUp
<1>11. CASE Create
  <2> DEFINE replaced == update[gens].replaced \/ op.update # "none"
  <2>1. update' = [update EXCEPT ![gens].replaced = replaced] /\ UNCHANGED <<index, built>>
    BY <1>11 DEF Create
  <2>2. replaced \in BOOLEAN
    OBVIOUS
  <2> HIDE DEF replaced
  <2>3. update' \in [Gens -> UpdateRows]
    BY <1>1, <2>1, <2>2 DEF UpdateRows
  <2> QED BY <1>1, <2>1, <2>3 DEF UpdateTypes
<1>12. ASSUME NEW force \in BOOLEAN, BeginUpdate(force) PROVE UpdateTypes'
  <2> DEFINE row == [state |-> "in-progress", outcome |-> "none", replaced |-> FALSE, to |-> index]
  <2>1. row \in UpdateRows
    BY <1>1 DEF UpdateRows, Outcomes
  <2>2. update' = [update EXCEPT ![gens] = row] /\ UNCHANGED <<index, built>>
    BY <1>12 DEF BeginUpdate
  <2> HIDE DEF row
  <2> QED BY <1>1, <2>1, <2>2 DEF UpdateTypes
<1>13. CASE Boot
  BY <1>1, <1>13 DEF Boot, UpdateTypes
<1> QED BY <1>3, <1>5, <1>6, <1>7, <1>8, <1>9, <1>10, <1>11, <1>12, <1>13

\* The transitions stay typed in every step.
LEMMA NextUpdateTypes == Inv /\ UpdateTypes /\ [Next]_vars => UpdateTypes'
<1> SUFFICES ASSUME Inv, UpdateTypes, [Next]_vars PROVE UpdateTypes'
  OBVIOUS
<1>1. Types
  BY DEF Inv
<1>2. ASSUME UNCHANGED updates PROVE UpdateTypes'
  BY <1>2 DEF updates, UpdateTypes
<1>3. CASE \/ Start \/ (\E again \in BOOLEAN : Stop(again)) \/ NewWindow \/ StopPane \/ Recheck
           \/ Attempt \/ Finish \/ Inspect \/ ResumeStop \/ SessionReady \/ Cool \/ Crash
           \/ (\E g \in Gens : PaneDies(g)) \/ UNCHANGED vars
  <2>1. UNCHANGED updates
    BY <1>3 DEF Start, Stop, NewWindow, StopPane, Recheck, Attempt, Finish, Inspect, ResumeStop,
                SessionReady, Cool, Crash, PaneDies, vars
  <2> QED BY <1>2, <2>1
<1> QED BY <1>1, <1>3, UpdateStep DEF Next, OpStep, Pass

-----------------------------------------------------------------------------
(* The invariant and what follows from it. *)

\* No run is active and nothing was counted when the repository is new.
LEMMA InitInv == Init => Inv
<1> SUFFICES ASSUME Init PROVE Inv
  OBVIOUS
<1>1. NoRun \in Runs /\ 0 \in Gens
  BY GenBounds, RecoveryAssumption DEF NoRun, Runs, RecoveryAssumption
<1>2. run = [g \in Gens |-> NoRun] /\ gens = 0 /\ autos = 0 /\ intent = "stopped" /\ pc = "idle"
  BY DEF Init
<1>3. Types
  BY <1>1, RecoveryAssumption DEF Init, Types, Rest, Sessions, Steps, Ops, NoOp, RecoveryAssumption
<1>4. Cur = NoRun
  BY <1>1, <1>2 DEF Cur
<1> QED BY <1>1, <1>2, <1>3, <1>4 DEF Inv, Stage, Counted, Desired, SupersededEnded, NoRun

\* Every step keeps the invariant.
LEMMA NextInv == Inv /\ [Next]_vars => Inv'
<1> SUFFICES ASSUME Inv, [Next]_vars PROVE Inv'
  OBVIOUS
<1>1. CASE UNCHANGED vars
  BY <1>1 DEF vars, durable, history, Inv, Types, Rest, Stage, Counted, Desired, SupersededEnded, Cur
<1> QED BY <1>1, StartKeeps, StopKeeps, StepKeeps, RecheckKeeps, AttemptKeeps, ReplaceKeeps,
           CreateKeeps, InspectKeeps, UpdateKeeps, OutsideKeeps DEF Next, OpStep, Pass

\* The invariant holds.
LEMMA Invariance == Spec => []Inv
BY InitInv, NextInv, PTL DEF Spec

\* The transitions stay typed.
LEMMA UpdateTyped == Spec => []UpdateTypes
<1>1. Init => UpdateTypes
  BY RecoveryAssumption
     DEF Init, UpdateTypes, Snapshots, UpdateRows, Outcomes, NoUpdate, RecoveryAssumption
<1> QED BY <1>1, NextUpdateTypes, Invariance, PTL DEF Spec

\* The variables stay in their domains, for every bound.
THEOREM TypeCorrect == Spec => []TypeOK
<1>1. Inv /\ UpdateTypes => TypeOK
  BY DEF Inv, Types, Rest, UpdateTypes, TypeOK
<1> QED BY <1>1, Invariance, UpdateTyped, PTL

\* Only the latest generation of a member is active: getActiveRun has one answer.
THEOREM OneGeneration == Spec => []SupersededEnded
<1>1. Inv => SupersededEnded
  BY DEF Inv
<1> QED BY <1>1, Invariance, PTL

\* recoveryMaxAttempts bounds the replacements between two starts of the operator.
THEOREM WithinBudget == Spec => []BudgetKept
<1>1. Inv => BudgetKept
  BY CurType, RecoveryAssumption
     DEF Inv, Types, Rest, Counted, BudgetKept, Runs, RecoveryAssumption
<1> QED BY <1>1, Invariance, PTL

\* No step launches a generation the operator does not want.
THEOREM StopFinal == Spec => StoppedStays
<1>1. Inv /\ [Next]_vars => [gens' > gens => intent' = "running"]_vars
  <2> SUFFICES ASSUME Inv, Next, gens' > gens PROVE intent' = "running"
    OBVIOUS
  <2>1. gens \in Nat
    BY GenBounds DEF Inv, Types, Rest, Gens
  <2>2. gens' # gens
    BY <2>1
  <2>3. Start \/ Create
    BY <2>2 DEF Next, OpStep, Pass, Prepare, NewWindow, Bind, LaunchFails, StopPane, Recheck,
                Attempt, Replace, Finish, Inspect, ResumeStop, Stop, Conclude, BeginUpdate, StopOld,
                Consent, SessionReady, Cool, Crash, Boot, PaneDies, durable
  <2> QED BY <2>3 DEF Start, Operator, Create, Inv, Stage
<1> QED BY <1>1, Invariance, PTL DEF Spec, StoppedStays

-----------------------------------------------------------------------------
(* Every agent has a run, until a tmux command fails, in a mode that gives a resume that is *)
(* not confirmed up and does not replace it.                                                *)

LaunchSteps == {"prepare", "launch", "bind"}
ReplaceSteps == {"attempt", "replace", "create", "consent"}

\* The pane of generation g holds a live agent that no crash cut off from its binding.
Lives(g) == pane[g] = "live" /\ g \notin cut

\* A live agent is the active run's, and bound to it from the end of its launch; it is gone
\* before the run is replaced.
Tracked ==
  /\ \A g \in Gens : Lives(g) => g = gens /\ Cur.status \in Active /\ (Cur.bound \/ pc = "bind")
  /\ pc \in LaunchSteps => Cur.status \in Active
  /\ pc \in ReplaceSteps => ~ Lives(gens)

\* A mode that never resumes leaves no trace of a resume.
PlainRestart == Mode = "restart" => ~ op.reserved /\ Cur.phase # "resuming"

\* No tmux command has failed yet.
Faultless == bounds.faults = 0

\* A step after which none has is not one in which one does.
LEMMA NoFault == ASSUME Faultless', Types, Fault PROVE FALSE
<1>1. bounds.faults \in Nat /\ bounds'.faults = bounds.faults + 1
  BY DEF Types, Rest, Fault
<1> QED BY <1>1 DEF Faultless

\* A command that failed stays counted.
LEMMA FaultlessBefore == ASSUME Types, [Next]_vars, Faultless' PROVE Faultless
<1>1. /\ bounds \in [starts : 0..MaxStarts, crashes : 0..MaxCrashes, faults : 0..MaxFaults]
  BY DEF Types, Rest
<1>2. CASE UNCHANGED bounds
  BY <1>2 DEF Faultless
<1>3. CASE Start \/ Crash
  <2>1. bounds'.faults = bounds.faults
    BY <1>1, <1>3 DEF Start, Crash
  <2> QED BY <2>1 DEF Faultless
<1>4. CASE Inspect \/ Recheck
  <2>1. UNCHANGED bounds \/ Fault
    BY <1>4 DEF Inspect, Recheck, Observe
  <2> QED BY <1>2, <2>1, NoFault
<1>5. CASE StopPane \/ Replace \/ StopOld
  <2>1. UNCHANGED bounds \/ Fault
    BY <1>5 DEF StopPane, Replace, StopOld
  <2> QED BY <1>2, <2>1, NoFault
<1>6. CASE \/ (\E again \in BOOLEAN : Stop(again)) \/ Prepare \/ NewWindow \/ Bind \/ LaunchFails
           \/ Attempt \/ Create \/ Finish \/ Consent \/ ResumeStop \/ Conclude
           \/ (\E force \in BOOLEAN : BeginUpdate(force)) \/ SessionReady \/ Cool \/ Boot
           \/ (\E g \in Gens : PaneDies(g)) \/ UNCHANGED vars
  <2>1. UNCHANGED bounds
    BY <1>6 DEF Stop, Prepare, NewWindow, Bind, LaunchFails, Attempt, Create, Finish, Consent,
                ResumeStop, Conclude, BeginUpdate, SessionReady, Cool, Boot, PaneDies, vars
  <2> QED BY <1>2, <2>1
<1> QED BY <1>3, <1>4, <1>5, <1>6 DEF Next, OpStep, Pass

\* Without it, an observation tells what is there.
LEMMA Observed == ASSUME Faultless', Types, NEW o, Observe(o) PROVE o \in Seen(gens)
BY NoFault DEF Observe

\* The row after SetRun.
LEMMA RowAfter ==
  ASSUME Types, NEW r, SetRun(r), UNCHANGED gens
  PROVE  Cur' = r
BY DEF Types, SetRun, Cur

\* What updateRuntimeRunStatus and transitionRunRecovery leave alone.
LEMMA StatusFields ==
  ASSUME NEW r \in Runs, NEW status \in Statuses
  PROVE  /\ WithStatus(r, status).status = status
         /\ WithStatus(r, status).bound = r.bound
         /\ WithStatus(r, status).phase \in {r.phase, "idle"}
BY DEF Runs, Statuses, WithStatus

LEMMA PhaseFields ==
  ASSUME NEW r \in Runs, NEW phase \in Phases
  PROVE  /\ WithPhase(r, phase).status = r.status
         /\ WithPhase(r, phase).bound = r.bound
         /\ WithPhase(r, phase).phase = phase
<1>1. (r.cooling /\ phase # "recovered") \in BOOLEAN
  OBVIOUS
<1> QED BY <1>1 DEF Runs, Phases, WithPhase

\* No agent is left, and a run that is being launched is active.
LEMMA NobodyLeft ==
  ASSUME Types, gens' \in Gens, \A g \in Gens : pane'[g] = "live" => g \in cut',
         pc' \in LaunchSteps => Cur'.status \in Active
  PROVE  Tracked'
BY DEF Tracked, Lives

\* Nobody is alive when the latest run's agent is not.
LEMMA Alone ==
  ASSUME Tracked, ~ Lives(gens)
  PROVE  \A g \in Gens : pane[g] = "live" => g \in cut
BY DEF Tracked, Lives

\* An operation that only takes agents away, of a run without one.
LEMMA StaysGone ==
  ASSUME Types, Tracked, ~ Lives(gens), gens' \in Gens, cut \subseteq cut',
         \A g \in Gens : pane'[g] = "live" => pane[g] = "live",
         pc' \in LaunchSteps => Cur'.status \in Active
  PROVE  Tracked'
BY Alone, NobodyLeft

\* The pane of the latest run is gone.
LEMMA Killed ==
  ASSUME Types, Tracked, UNCHANGED <<gens, cut>>, pane' = [pane EXCEPT ![gens] = "none"],
         pc' \notin LaunchSteps
  PROVE  Tracked'
<1>1. \A g \in Gens : pane'[g] = "live" => g # gens /\ pane[g] = "live"
  BY DEF Types, Rest
<1>2. \A g \in Gens : pane'[g] = "live" => g \in cut'
  BY <1>1 DEF Tracked, Lives
<1> QED BY <1>2, NobodyLeft DEF Types

\* The run keeps its agent, which it is bound to.
LEMMA StaysOwned ==
  ASSUME Types, Tracked, pc # "bind", pc' \notin LaunchSteps \cup ReplaceSteps,
         UNCHANGED <<gens, cut>>, \A g \in Gens : pane'[g] = "live" => pane[g] = "live",
         Cur.status \in Active => Cur'.status \in Active,
         Cur.bound => Cur'.bound
  PROVE  Tracked'
<1>1. \A g \in Gens : Lives(g)' => Lives(g)
  BY DEF Lives
<1>2. \A g \in Gens : Lives(g) => g = gens /\ Cur.status \in Active /\ Cur.bound
  BY DEF Tracked
<1>3. \A g \in Gens : Lives(g)' => g = gens' /\ Cur'.status \in Active' /\ Cur'.bound
  BY <1>1, <1>2 DEF Active
<1>4. pc' \notin LaunchSteps /\ pc' \notin ReplaceSteps
  OBVIOUS
<1> QED BY <1>3, <1>4 DEF Tracked

\* Nothing of it changes.
LEMMA SameAgents ==
  ASSUME Types, Tracked, UNCHANGED <<gens, cut, pc>>,
         \A g \in Gens : pane'[g] = "live" => pane[g] = "live",
         Cur.status \in Active => Cur'.status \in Active,
         Cur.bound => Cur'.bound
  PROVE  Tracked'
<1>1. \A g \in Gens : Lives(g)' => Lives(g)
  BY DEF Lives
<1>2. \A g \in Gens :
        Lives(g)' => g = gens' /\ Cur'.status \in Active' /\ (Cur'.bound \/ pc' = "bind")
  BY <1>1 DEF Tracked, Active
<1>3. pc' \in LaunchSteps => Cur'.status \in Active'
  BY DEF Tracked, Active
<1>4. pc' \in ReplaceSteps => ~ Lives(gens)'
  <2>1. gens \in Gens
    BY DEF Types
  <2> QED BY <1>1, <2>1 DEF Tracked
<1> QED BY <1>2, <1>3, <1>4 DEF Tracked

\* A new generation is created when nobody is left.
LEMMA NewRunTracked ==
  ASSUME Types, Tracked, NEW phase, NEW attempts, NEW cooling, NEW native,
         NewRun(phase, attempts, cooling, native), UNCHANGED cut
  PROVE  Tracked'
<1>1. Types /\ gens \in Gens /\ gens + 1 \in Gens /\ gens' = gens + 1
  BY GenBounds DEF Types, Rest, Gens, NewRun
<1>2. ~ Lives(gens)
  BY <1>1 DEF NewRun, Tracked
<1>3. \A g \in Gens : pane'[g] = "live" => pane[g] = "live"
  BY DEF Types, Rest, NewRun
<1>4. Cur'.status = "starting"
  BY <1>1 DEF Types, NewRun, Cur
<1>5. Cur'.status \in Active
  BY <1>4 DEF Active
<1> QED BY <1>1, <1>2, <1>3, <1>5, StaysGone

\* A launch.
LEMMA LaunchTracked ==
  ASSUME Types, Tracked, Prepare \/ NewWindow \/ Bind \/ LaunchFails
  PROVE  Tracked'
<1>1. /\ Cur \in Runs /\ gens \in Gens /\ "running" \in Statuses
      /\ UNCHANGED <<gens, cut>>
  BY CurType DEF Statuses, Prepare, NewWindow, Bind, LaunchFails, durable, history
<1>2. CASE Prepare
  <2>1. pc = "prepare" /\ pc' = "launch" /\ UNCHANGED <<run, pane>>
    BY <1>2 DEF Prepare, Goto, durable
  <2>2. \A g \in Gens : Lives(g)' => g = gens /\ Cur.status \in Active /\ Cur.bound
    BY <1>1, <2>1 DEF Tracked, Lives
  <2>3. Cur.status \in Active /\ Cur' = Cur /\ gens' = gens
    BY <1>1, <2>1 DEF Tracked, LaunchSteps, Cur
  <2> QED BY <2>1, <2>2, <2>3 DEF Tracked, ReplaceSteps, Active
<1>3. CASE NewWindow
  <2>1. pc = "launch" /\ pc' = "bind" /\ UNCHANGED run /\ pane' = [pane EXCEPT ![gens] = "live"]
    BY <1>3 DEF NewWindow, Goto, durable
  <2>2. Cur.status \in Active /\ Cur' = Cur /\ gens' = gens
    BY <1>1, <2>1 DEF Tracked, LaunchSteps, Cur
  <2>3. \A g \in Gens : Lives(g)' => g = gens
    BY <1>1, <2>1 DEF Types, Rest, Tracked, Lives
  <2> QED BY <2>1, <2>2, <2>3 DEF Tracked, ReplaceSteps, Active
<1>4. CASE Bind
  <2> DEFINE w == WithStatus(Cur, "running")
  <2>1. w \in Runs /\ w.status = "running"
    BY <1>1, StatusEffect, StatusFields
  <2>2. SetRun([w EXCEPT !.bound = TRUE])
    BY <1>4 DEF Bind
  <2> HIDE DEF w
  <2>3. [w EXCEPT !.bound = TRUE].status = "running" /\ [w EXCEPT !.bound = TRUE].bound
    BY <2>1 DEF Runs
  <2>4. Cur'.status = "running" /\ Cur'.bound
    BY <1>1, <2>2, <2>3, RowAfter
  <2>5. UNCHANGED pane /\ pc' \notin LaunchSteps \cup ReplaceSteps
    BY <1>4 DEF Bind, Goto, LaunchSteps, ReplaceSteps
  <2>6. \A g \in Gens : Lives(g)' => g = gens'
    BY <1>1, <2>5 DEF Tracked, Lives
  <2> QED BY <2>4, <2>5, <2>6 DEF Tracked, Active
<1>5. CASE LaunchFails
  BY <1>1, <1>5, Killed DEF LaunchFails, Goto, LaunchSteps
<1> QED BY <1>2, <1>3, <1>4, <1>5

\* The operator, and the end of what the operator asked for.
LEMMA StopTracked ==
  ASSUME Faultless', Types, Tracked,
         (\E again \in BOOLEAN : Stop(again)) \/ StopPane \/ ResumeStop \/ Finish
  PROVE  Tracked'
<1>1. /\ Cur \in Runs /\ gens \in Gens /\ "stopping" \in Statuses /\ "recovered" \in Phases
      /\ UNCHANGED <<gens, cut>>
  BY CurType
     DEF Statuses, Phases, Stop, StopPane, ResumeStop, Finish, Operator, durable, history
<1>2. ASSUME NEW again \in BOOLEAN, Stop(again) PROVE Tracked'
  <2>1. UNCHANGED pane /\ pc = "idle" /\ pc' \in {"stop", "idle"}
    BY <1>2 DEF Stop, Goto, Idle
  <2>2. pc' \notin LaunchSteps \cup ReplaceSteps
    BY <2>1 DEF LaunchSteps, ReplaceSteps
  <2>3. CASE SetRun(WithStatus(Cur, "stopping"))
    <3>1. Cur' = WithStatus(Cur, "stopping")
      BY <1>1, <2>3, RowAfter
    <3>2. Cur'.status = "stopping" /\ Cur'.bound = Cur.bound
      BY <1>1, <3>1, StatusFields
    <3>3. Cur'.status \in Active
      BY <3>2 DEF Active
    <3>4. Cur.bound => Cur'.bound
      BY <3>2
    <3> QED BY <1>1, <2>1, <2>2, <3>3, <3>4, StaysOwned
  <2>4. CASE Cur.status \notin Active
    <3>1. ~ Lives(gens)
      BY <1>1, <2>4 DEF Tracked
    <3> QED BY <1>1, <2>1, <2>2, <3>1, StaysGone
  <2> QED BY <1>2, <2>3, <2>4 DEF Stop
<1>3. CASE StopPane
  <2>1. pc = "stop" /\ pc' \in {"idle", "relaunch"}
    BY <1>3 DEF StopPane, Stopped, Goto
  <2>2. pc' \notin LaunchSteps
    BY <2>1 DEF LaunchSteps
  <2>3. CASE pane' = [pane EXCEPT ![gens] = "none"]
    BY <1>1, <2>2, <2>3, Killed
  <2>4. CASE ~ Owned /\ UNCHANGED pane
    <3>1. ~ Lives(gens)
      BY <1>1, <2>1, <2>4 DEF Tracked, Lives, Owned
    <3> QED BY <1>1, <2>2, <2>4, <3>1, StaysGone
  <2> QED BY <1>3, <2>3, <2>4, NoFault DEF StopPane
<1>4. CASE ResumeStop
  <2>1. UNCHANGED <<run, pane>> /\ pc = "idle" /\ pc' \notin LaunchSteps \cup ReplaceSteps
    BY <1>4 DEF ResumeStop, Idle, Goto, durable, LaunchSteps, ReplaceSteps
  <2>2. Cur' = Cur
    BY <1>1, <2>1 DEF Cur
  <2> QED BY <1>1, <2>1, <2>2, StaysOwned DEF Active
<1>5. CASE Finish
  <2>1. UNCHANGED pane /\ pc = "finish" /\ pc' \notin LaunchSteps \cup ReplaceSteps
    BY <1>5 DEF Finish, Goto, LaunchSteps, ReplaceSteps
  <2>2. Cur'.status = Cur.status /\ Cur'.bound = Cur.bound
    <3>1. Cur' = Cur \/ Cur' = WithPhase(Cur, "recovered")
      BY <1>1, <1>5, RowAfter DEF Finish, Cur
    <3> QED BY <1>1, <3>1, PhaseFields
  <2> QED BY <1>1, <2>1, <2>2, StaysOwned DEF Active
<1> QED BY <1>2, <1>3, <1>4, <1>5

\* The replacement of a run whose agent is gone.
LEMMA ReplaceTracked ==
  ASSUME Faultless', Types, Tracked, StopOld \/ Consent \/ Attempt \/ Replace \/ Create
  PROVE  Tracked'
<1>1. /\ gens \in Gens /\ pane \in [Gens -> {"none", "live", "dead"}]
      /\ UNCHANGED cut
  BY DEF Types, Rest, StopOld, Consent, Attempt, Replace, Create, history
<1>2. CASE StopOld
  <2>1. pc = "stopOld" /\ pc' \notin LaunchSteps /\ UNCHANGED gens
    BY <1>2 DEF StopOld, GiveUp, Goto, LaunchSteps
  <2>2. pane' = IF Owned THEN [pane EXCEPT ![gens] = "none"] ELSE pane
    BY <1>2, NoFault DEF StopOld
  <2>3. CASE Owned
    BY <1>1, <2>1, <2>2, <2>3, Killed
  <2>4. CASE ~ Owned
    <3>1. ~ Lives(gens)
      BY <1>1, <2>1, <2>4 DEF Tracked, Lives, Owned
    <3> QED BY <1>1, <2>1, <2>2, <2>4, <3>1, StaysGone
  <2> QED BY <2>3, <2>4
<1>3. CASE Consent \/ Attempt \/ Replace
  <2>1. pc \in ReplaceSteps
    BY <1>3 DEF Consent, Attempt, Replace, ReplaceSteps
  <2>2. pc' \notin LaunchSteps /\ UNCHANGED gens
    BY <1>3 DEF Consent, Attempt, Replace, GiveUp, Goto, LaunchSteps
  <2>3. \A g \in Gens : pane'[g] = "live" => pane[g] = "live"
    BY <1>1, <1>3 DEF Consent, Attempt, Replace
  <2>4. ~ Lives(gens)
    BY <2>1 DEF Tracked
  <2> QED BY <1>1, <2>2, <2>3, <2>4, StaysGone
<1>4. CASE Create
  BY <1>1, <1>4, NewRunTracked DEF Create
<1> QED BY <1>2, <1>3, <1>4

\* A run that is found gone has no agent, unless its launch is not over.
LEMMA FoundGone ==
  ASSUME Faultless', Types, Tracked, pc # "bind", NEW o \in {"missing", "dead"}, Observe(o)
  PROVE  ~ Lives(gens)
<1>1. o \in Seen(gens) /\ gens \in Gens /\ pane[gens] \in {"none", "live", "dead"}
  BY Observed DEF Types, Rest
<1>2. ~ run[gens].bound \/ pane[gens] # "live"
  BY <1>1 DEF Seen
<1> QED BY <1>1, <1>2 DEF Tracked, Lives, Cur

\* It may be replaced.
LEMMA RecoverTracked ==
  ASSUME Faultless', Types, Tracked, pc # "bind", NEW o \in {"missing", "dead"}, Observe(o),
         Recover(FALSE), UNCHANGED <<gens, pane, cut>>
  PROVE  Tracked'
<1>1. ~ Lives(gens) /\ gens \in Gens
  BY FoundGone DEF Types
<1>2. pc' \notin LaunchSteps
  BY DEF Recover, Goto, LaunchSteps
<1> QED BY <1>1, <1>2, StaysGone

\* The pass.
LEMMA PassTracked ==
  ASSUME Faultless', Mode # "resume-or-restart", Types, Tracked, PlainRestart,
         Inspect \/ Recheck \/ Conclude \/ \E force \in BOOLEAN : BeginUpdate(force)
  PROVE  Tracked'
<1>1. /\ Cur \in Runs /\ gens \in Gens
      /\ {"recovered", "failed", "reconciling"} \subseteq Phases
      /\ UNCHANGED <<gens, pane, cut>>
  BY CurType DEF Phases, Inspect, Recheck, Conclude, BeginUpdate, durable, history
<1>2. ASSUME pc # "bind", UNCHANGED run \/ \E phase \in Phases : SetRun(WithPhase(Cur, phase)),
             pc' \notin LaunchSteps \cup ReplaceSteps
      PROVE  Tracked'
  <2>1. Cur'.status = Cur.status /\ Cur'.bound = Cur.bound
    <3>1. Cur' = Cur \/ \E phase \in Phases : Cur' = WithPhase(Cur, phase)
      BY <1>1, <1>2, RowAfter DEF Cur
    <3> QED BY <1>1, <3>1, PhaseFields
  <2> QED BY <1>1, <1>2, <2>1, StaysOwned DEF Active
<1>3. CASE Inspect
  <2>1. pc = "idle"
    BY <1>3 DEF Inspect, Wanted, Idle
  <2>2. CASE Observe("dead") /\ Recover(FALSE)
    BY <1>1, <2>1, <2>2, RecoverTracked
  <2>3. CASE Present
    <3>1. ~ (Cur.phase = "resuming" /\ Mode # "resume-only")
      BY RecoveryAssumption DEF PlainRestart, RecoveryAssumption
    <3>2. UNCHANGED run \/ \E phase \in Phases : SetRun(WithPhase(Cur, phase))
      BY <1>1, <2>3, <3>1 DEF Present
    <3>3. pc' \notin LaunchSteps \cup ReplaceSteps
      BY <2>3, <3>1 DEF Present, Goto, LaunchSteps, ReplaceSteps
    <3> QED BY <1>2, <2>1, <3>2, <3>3
  <2>4. CASE UNCHANGED run /\ (Goto("recheck") \/ Goto("idle") \/ UNCHANGED pc)
    <3>1. pc' \notin LaunchSteps \cup ReplaceSteps
      BY <2>1, <2>4 DEF Goto, LaunchSteps, ReplaceSteps
    <3> QED BY <1>2, <2>1, <2>4, <3>1
  <2> QED BY <1>3, <2>2, <2>3, <2>4 DEF Inspect
<1>4. CASE Recheck
  <2>1. pc = "recheck"
    BY <1>4 DEF Recheck
  <2>2. CASE (Observe("missing") \/ Observe("dead")) /\ Recover(FALSE)
    BY <1>1, <2>1, <2>2, RecoverTracked
  <2>3. CASE UNCHANGED run /\ (Goto("finish") \/ Goto("idle"))
    <3>1. pc' \notin LaunchSteps \cup ReplaceSteps
      BY <2>3 DEF Goto, LaunchSteps, ReplaceSteps
    <3> QED BY <1>2, <2>1, <2>3, <3>1
  <2> QED BY <1>4, <2>2, <2>3 DEF Recheck
<1>5. CASE Conclude \/ \E force \in BOOLEAN : BeginUpdate(force)
  <2>1. UNCHANGED run /\ pc = "idle" /\ pc' \in {"idle", "stopOld"}
    BY <1>5 DEF Conclude, BeginUpdate, Wanted, Idle, durable
  <2>2. pc' \notin LaunchSteps \cup ReplaceSteps
    BY <2>1 DEF LaunchSteps, ReplaceSteps
  <2> QED BY <1>2, <2>1, <2>2
<1> QED BY <1>3, <1>4, <1>5

\* The agents, the machine and the clock.
LEMMA OutsideTracked ==
  ASSUME Types, Tracked, SessionReady \/ Cool \/ Crash \/ Boot \/ \E g \in Gens : PaneDies(g)
  PROVE  Tracked'
<1>1. Cur \in Runs /\ gens \in Gens /\ pane \in [Gens -> {"none", "live", "dead"}] /\ UNCHANGED gens
  BY CurType DEF Types, Rest, SessionReady, Cool, Crash, Boot, PaneDies, durable
<1>2. CASE SessionReady \/ Boot \/ \E g \in Gens : PaneDies(g)
  <2>1. UNCHANGED <<run, pc, cut>> /\ \A g \in Gens : pane'[g] = "live" => pane[g] = "live"
    BY <1>1, <1>2 DEF SessionReady, Boot, PaneDies, durable, history
  <2>2. Cur' = Cur
    BY <1>1, <2>1 DEF Cur
  <2> QED BY <1>1, <2>1, <2>2, SameAgents DEF Active
<1>3. CASE Cool
  <2> DEFINE r == [Cur EXCEPT !.cooling = FALSE]
  <2>1. r.status = Cur.status /\ r.bound = Cur.bound
    BY <1>1 DEF Runs
  <2>2. SetRun(r) /\ UNCHANGED <<pane, pc, cut>>
    BY <1>3 DEF Cool, history
  <2> HIDE DEF r
  <2>3. Cur' = r
    BY <1>1, <2>2, RowAfter
  <2> QED BY <1>1, <2>1, <2>2, <2>3, SameAgents DEF Active
<1>4. CASE Crash
  <2>1. /\ UNCHANGED <<run, pane>> /\ pc' = "idle"
        /\ cut' = IF pc = "bind" THEN cut \cup {gens} ELSE cut
    BY <1>4 DEF Crash, Goto, durable
  <2>2. pc' \notin LaunchSteps \cup ReplaceSteps
    BY <2>1 DEF LaunchSteps, ReplaceSteps
  <2>3. CASE pc = "bind"
    <3>1. \A g \in Gens : pane'[g] = "live" => g \in cut'
      BY <1>1, <2>1, <2>3 DEF Tracked, Lives
    <3> QED BY <1>1, <2>2, <3>1, NobodyLeft
  <2>4. CASE pc # "bind"
    <3>1. Cur' = Cur /\ UNCHANGED <<cut, pane>>
      BY <1>1, <2>1, <2>4 DEF Cur
    <3> QED BY <1>1, <2>2, <2>4, <3>1, StaysOwned DEF Active
  <2> QED BY <2>3, <2>4
<1> QED BY <1>2, <1>3, <1>4

\* No operation is about a resume when the mode is to restart.
LEMMA PlainOp ==
  ASSUME Types, Mode = "restart", ~ op.reserved, [Next]_vars
  PROVE  ~ op'.reserved
<1>1. op \in Ops /\ NoOp \in Ops /\ ~ NoOp.reserved
  BY DEF Types, Rest, Ops, NoOp
<1>2. ASSUME op' \in {op, NoOp} PROVE ~ op'.reserved
  BY <1>1, <1>2
<1>3. ASSUME NEW step, Goto(step) PROVE ~ op'.reserved
  BY <1>2, <1>3 DEF Goto
<1>4. ASSUME NEW force \in BOOLEAN, Recover(force) PROVE ~ op'.reserved
  <2>1. (\E step \in Steps : Goto(step)) \/ op' = [NoOp EXCEPT !.reserved = FALSE]
    BY <1>4 DEF Recover, Steps
  <2>2. ~ [NoOp EXCEPT !.reserved = FALSE].reserved
    BY DEF NoOp
  <2> QED BY <1>3, <2>1, <2>2
<1>5. CASE Consent
  <2>1. (\E step \in Steps : Goto(step)) \/ op' = [op EXCEPT !.reserved = FALSE]
    BY <1>5 DEF Consent, GiveUp, Steps
  <2>2. ~ [op EXCEPT !.reserved = FALSE].reserved
    BY <1>1 DEF Ops
  <2> QED BY <1>3, <2>1, <2>2
<1>6. CASE \/ Prepare \/ NewWindow \/ Bind \/ LaunchFails \/ StopPane \/ Attempt \/ Replace
           \/ Finish \/ StopOld \/ ResumeStop \/ Crash
  <2>1. \E step : Goto(step)
    BY <1>6 DEF Prepare, NewWindow, Bind, LaunchFails, StopPane, Stopped, Attempt, Replace,
                Finish, StopOld, GiveUp, ResumeStop, Crash
  <2> QED BY <1>3, <2>1
<1>7. CASE \/ Start \/ Conclude \/ SessionReady \/ Cool \/ Boot \/ (\E g \in Gens : PaneDies(g))
           \/ UNCHANGED vars
  BY <1>2, <1>7 DEF Start, Conclude, SessionReady, Cool, Boot, PaneDies, vars
<1>8. CASE Recheck
  BY <1>3, <1>4, <1>8 DEF Recheck
<1>9. CASE Inspect
  <2>1. \/ Recover(TRUE) \/ Recover(FALSE) \/ UNCHANGED op \/ \E step : Goto(step)
    BY <1>9 DEF Inspect, Present
  <2> QED BY <1>2, <1>3, <1>4, <2>1
<1>10. CASE Create
  BY <1>1, <1>10 DEF Create, Ops
<1>11. ASSUME NEW again \in BOOLEAN, Stop(again) PROVE ~ op'.reserved
  <2>1. ~ [NoOp EXCEPT !.again = again].reserved
    BY <1>1 DEF NoOp
  <2> QED BY <1>3, <1>11, <2>1 DEF Stop
<1>12. ASSUME NEW force \in BOOLEAN, BeginUpdate(force) PROVE ~ op'.reserved
  BY <1>12 DEF BeginUpdate, NoOp
<1> QED BY <1>4, <1>5, <1>6, <1>7, <1>8, <1>9, <1>10, <1>11, <1>12 DEF Next, OpStep, Pass

\* What the row of a run that fails, or whose attempt did, says of its phase.
LEMMA FailedPhase ==
  ASSUME NEW r \in Runs
  PROVE  MarkedFailed(r).phase = "failed" /\ AfterFailure(r).phase \in {"failed", "reconciling"}
<1>1. {"failed", "reconciling"} \subseteq Phases /\ "failed" \in Statuses
  BY DEF Phases, Statuses
<1>2. WithStatus(r, "failed") \in Runs
  BY <1>1, StatusEffect
<1> QED BY <1>1, <1>2, PhaseFields DEF MarkedFailed, AfterFailure

\* No row is resuming when the mode is to restart.
LEMMA PlainRow ==
  ASSUME Types, Mode = "restart", ~ op.reserved, Cur.phase # "resuming", [Next]_vars
  PROVE  Cur'.phase # "resuming"
<1>1. /\ Cur \in Runs /\ gens \in Gens /\ run \in [Gens -> Runs]
      /\ {"failed", "reconciling", "recovered"} \subseteq Phases
      /\ {"running", "stopped", "stopping", "failed"} \subseteq Statuses
  BY CurType DEF Types, Phases, Statuses
<1>2. ASSUME UNCHANGED <<run, gens>> PROVE Cur'.phase # "resuming"
  BY <1>2 DEF Cur
<1>3. ASSUME NEW r, SetRun(r), r.phase # "resuming", UNCHANGED gens PROVE Cur'.phase # "resuming"
  BY <1>3, RowAfter
<1>4. \A r \in Runs, status \in Statuses :
        r.phase # "resuming" => WithStatus(r, status).phase # "resuming"
  BY StatusFields
<1>5. \A r \in Runs, phase \in {"failed", "reconciling", "recovered"} :
        WithPhase(r, phase).phase # "resuming"
  BY <1>1, PhaseFields
<1>6. \A status \in Statuses : WithStatus(Cur, status) \in Runs
  BY <1>1, StatusEffect
<1>7. ASSUME NEW force \in BOOLEAN, Recover(force), UNCHANGED gens PROVE Cur'.phase # "resuming"
  <2>1. GivenUp(force).phase # "resuming"
    BY <1>1, <1>5, <1>6 DEF GivenUp
  <2>2. \/ SetRun(GivenUp(force)) \/ UNCHANGED run
        \/ SetRun(WithPhase(WithStatus(Cur, "failed"), "failed"))
        \/ \E phase \in {"failed", "reconciling"} : SetRun(WithPhase(Cur, phase))
    BY <1>7 DEF Recover
  <2> QED BY <1>1, <1>2, <1>3, <1>5, <1>6, <1>7, <2>1, <2>2
<1>8. CASE Inspect \/ Recheck
  <2>1. UNCHANGED gens
    BY <1>8 DEF Inspect, Recheck
  <2>2. \/ Recover(TRUE) \/ Recover(FALSE) \/ UNCHANGED run
        \/ \E phase \in {"failed", "reconciling", "recovered"} : SetRun(WithPhase(Cur, phase))
    BY <1>8 DEF Inspect, Present, Recheck
  <2> QED BY <1>1, <1>2, <1>3, <1>5, <1>7, <2>1, <2>2
<1>9. CASE LaunchFails \/ Replace \/ StopOld \/ Consent
  <2>1. UNCHANGED gens
    BY <1>9 DEF LaunchFails, Replace, StopOld, Consent
  <2>2. \/ UNCHANGED run \/ SetRun(WithStatus(Cur, "failed")) \/ SetRun(MarkedFailed(Cur))
        \/ SetRun(AfterFailure(Cur)) \/ SetRun(AfterFailure(WithStatus(Cur, "failed")))
    BY <1>9 DEF LaunchFails, Replace, StopOld, Consent, GiveUp
  <2>3. AfterFailure(WithStatus(Cur, "failed")).phase # "resuming"
    BY <1>1, <1>6, FailedPhase
  <2> QED BY <1>1, <1>2, <1>3, <1>4, <2>1, <2>2, <2>3, FailedPhase
<1>10. CASE Bind
  <2> DEFINE w == WithStatus(Cur, "running")
  <2>1. w \in Runs /\ w.phase # "resuming"
    BY <1>1, <1>4, <1>6
  <2>2. SetRun([w EXCEPT !.bound = TRUE]) /\ UNCHANGED gens
    BY <1>10 DEF Bind
  <2> HIDE DEF w
  <2>3. [w EXCEPT !.bound = TRUE].phase # "resuming"
    BY <2>1 DEF Runs
  <2> QED BY <1>3, <2>2, <2>3
<1>11. CASE StopPane \/ Finish \/ \E again \in BOOLEAN : Stop(again)
  <2> DEFINE r == [Cur EXCEPT !.desired = "stopped", !.phase = "idle", !.cooling = FALSE]
  <2>1. r.phase # "resuming"
    BY <1>1 DEF Runs
  <2>2. UNCHANGED gens
    BY <1>11 DEF StopPane, Finish, Stop
  <2>3. \/ UNCHANGED run \/ (\E status \in Statuses : SetRun(WithStatus(Cur, status)))
        \/ SetRun(WithPhase(Cur, "recovered")) \/ SetRun(r)
    BY <1>1, <1>11 DEF StopPane, Stopped, Finish, Stop
  <2> HIDE DEF r
  <2> QED BY <1>1, <1>2, <1>3, <1>4, <1>5, <2>1, <2>2, <2>3
<1>12. CASE Attempt
  <2> DEFINE r == [Cur EXCEPT !.phase = "restarting", !.attempts = @ + 1, !.cooling = TRUE]
  <2>1. r.phase = "restarting"
    BY <1>1 DEF Runs
  <2>2. SetRun(r) /\ UNCHANGED gens
    BY <1>12 DEF Attempt
  <2> HIDE DEF r
  <2> QED BY <1>3, <2>1, <2>2
<1>13. CASE Cool
  <2> DEFINE r == [Cur EXCEPT !.cooling = FALSE]
  <2>1. r.phase = Cur.phase
    BY <1>1 DEF Runs
  <2>2. SetRun(r) /\ UNCHANGED gens
    BY <1>13 DEF Cool
  <2> HIDE DEF r
  <2> QED BY <1>3, <2>1, <2>2
<1>14. ASSUME NEW phase \in {"idle", "restarting"}, NEW attempts, NEW cooling, NEW native,
              NewRun(phase, attempts, cooling, native)
       PROVE  Cur'.phase # "resuming"
  <2>1. gens + 1 \in Gens /\ gens' = gens + 1
    BY <1>1, <1>14, GenBounds DEF Gens, NewRun
  <2>2. Cur'.phase = phase
    BY <1>1, <1>14, <2>1 DEF NewRun, Cur
  <2> QED BY <2>2
<1>15. CASE Start \/ Create
  BY <1>14, <1>15 DEF Start, Create
<1>16. CASE \/ Prepare \/ NewWindow \/ ResumeStop \/ Conclude \/ SessionReady \/ Crash \/ Boot
            \/ (\E force \in BOOLEAN : BeginUpdate(force)) \/ (\E g \in Gens : PaneDies(g))
            \/ UNCHANGED vars
  BY <1>2, <1>16 DEF Prepare, NewWindow, ResumeStop, Conclude, SessionReady, Crash, Boot,
                     BeginUpdate, PaneDies, vars, durable
<1> QED BY <1>8, <1>9, <1>10, <1>11, <1>12, <1>13, <1>15, <1>16 DEF Next, OpStep, Pass

LEMMA NextPlain == Types /\ PlainRestart /\ [Next]_vars => PlainRestart'
BY PlainOp, PlainRow DEF PlainRestart

\* Every step keeps track of the agents.
LEMMA NextTracked ==
  ASSUME Faultless', Mode # "resume-or-restart", Types, Tracked, PlainRestart, [Next]_vars
  PROVE  Tracked'
<1>1. CASE Start
  BY <1>1, NewRunTracked DEF Start, Operator
<1>2. CASE UNCHANGED vars
  BY <1>2 DEF vars, durable, history, Tracked, Lives, Cur
<1> QED BY <1>1, <1>2, LaunchTracked, StopTracked, ReplaceTracked, PassTracked, OutsideTracked
        DEF Next, OpStep, Pass

\* In the beginning there is no agent.
LEMMA InitTracked == Init => Tracked /\ PlainRestart
<1> SUFFICES ASSUME Init PROVE Tracked /\ PlainRestart
  OBVIOUS
<1>1. pc = "idle" /\ op = NoOp /\ run = [g \in Gens |-> NoRun] /\ gens = 0 /\ 0 \in Gens
  BY GenBounds DEF Init
<1>2. \A g \in Gens : pane[g] # "live"
  BY DEF Init
<1>3. Tracked
  BY <1>1, <1>2 DEF Tracked, Lives, LaunchSteps, ReplaceSteps
<1>4. PlainRestart
  BY <1>1 DEF PlainRestart, Cur, NoOp, NoRun
<1> QED BY <1>3, <1>4

\* Every agent process belongs to an active run, whatever crashes, dies, starts and stops, until
\* a tmux command fails, in a mode that gives an unconfirmed resume up.  A tmux command that
\* fails, or a resume given up for a restart, leaves an agent behind, which the code does not
\* prevent.
THEOREM AgentsTracked ==
  ASSUME Mode # "resume-or-restart"
  PROVE  Spec => [](Faultless => NoUntrackedAgent)
<1> DEFINE I == Types /\ PlainRestart /\ (Faultless => Tracked)
<1>1. Inv => Types
  BY DEF Inv
<1>2. Inv /\ I /\ [Next]_vars /\ Inv' => I'
  <2> SUFFICES ASSUME Inv, I, [Next]_vars, Inv' PROVE I'
    OBVIOUS
  <2>1. PlainRestart' /\ Types'
    BY <1>1, NextPlain DEF Inv
  <2>2. Faultless' => Tracked'
    BY FaultlessBefore, NextTracked
  <2> QED BY <2>1, <2>2
<1>3. I => (Faultless => NoUntrackedAgent)
  BY DEF Tracked, Lives, NoUntrackedAgent
<1>4. Init => I
  BY InitTracked, InitInv DEF Inv
<1> QED BY <1>2, <1>3, <1>4, Invariance, PTL DEF Spec

\* The property as the run checks it, where no tmux command fails.
THEOREM NoAgentLost ==
  ASSUME MaxFaults = 0, Mode # "resume-or-restart"
  PROVE  Spec => []NoUntrackedAgent
<1>1. Inv => Faultless
  BY DEF Inv, Types, Rest, Faultless
<1> QED BY <1>1, AgentsTracked, Invariance, PTL
=============================================================================
