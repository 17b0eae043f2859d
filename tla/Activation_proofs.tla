--------------------------- MODULE Activation_proofs ---------------------------
(***************************************************************************)
(* Theorems about release activation, for any number of artifacts,         *)
(* activations, deaths and failing operations: the types, that a daemon    *)
(* serves one whole set of artifacts, and that a rollback is exact.  The   *)
(* inductive invariant says at every step of the manager and of the        *)
(* recovery which artifacts may differ from what they were when the        *)
(* activation began, and that the journal names them all.                  *)
(***************************************************************************)
EXTENDS Activation, WellFoundedInduction, TLAPS

JournalRow == [state : JournalStates, done : 0..Artifacts, pending : 0..Artifacts,
               saved : [Items -> Contents]]

ManagerRow == [step : ManagerSteps, act : 0..MaxActivations, at : 0..Artifacts, failed : BOOLEAN]

DaemonRow == [step : {"down", "recovering", "copy", "verify", "serving"},
              todo : SUBSET Activations, act : 0..MaxActivations, left : SUBSET Items]

\* Where the manager is in the list of the artifacts.
ManagerAt ==
  /\ manager.step # "idle" => manager.act \in Activations
  /\ manager.step \in {"pending", "replace", "record"} => manager.at > 0 /\ ~manager.failed
  /\ manager.step = "staged" => manager.at = 1 /\ ~manager.failed
  /\ manager.step \in {"start", "await", "commit"} => manager.at = Artifacts /\ ~manager.failed
  /\ manager.step = "rollback" /\ manager.failed => manager.at < Artifacts
  /\ manager.step \in {"copy", "verify"} => manager.at > 0

\* The daemon has artifacts left only while it restores an activation.
DaemonAt ==
  /\ daemon.step \in {"copy", "verify"} => daemon.act # 0 /\ daemon.left # {}
  /\ daemon.step \in {"down", "serving"} => daemon.act = 0
  /\ daemon.act = 0 => daemon.left = {}

Typed ==
  /\ content \in [Items -> Contents]
  /\ journal \in [Activations -> JournalRow]
  /\ manager \in ManagerRow
  /\ daemon \in DaemonRow
  /\ unit \in {"active", "stopped"}
  /\ crashes \in 0..MaxCrashes /\ faults \in 0..MaxFaults
  /\ late \in BOOLEAN /\ overlapped \in BOOLEAN /\ contested \in BOOLEAN
  /\ ManagerAt /\ DaemonAt

-----------------------------------------------------------------------------
(* Types. *)

LEMMA TypedImplies == Typed => TypeOK
BY DEF Typed, TypeOK, JournalRow, ManagerRow, DaemonRow

LEMMA InitTyped == Init => Typed
<1> SUFFICES ASSUME Init PROVE Typed
  OBVIOUS
<1>1. /\ Artifacts \in Nat \ {0} /\ MaxActivations \in Nat
      /\ MaxCrashes \in Nat /\ MaxFaults \in Nat
  BY ActivationAssumption DEF ActivationAssumption
<1>2. 0 \in Contents /\ 0 \in 0..Artifacts /\ 0 \in 0..MaxActivations
  BY <1>1 DEF Contents
<1>3. content \in [Items -> Contents]
  BY <1>2 DEF Init
<1>4. journal \in [Activations -> JournalRow]
  BY <1>2 DEF Init, JournalRow, JournalStates
<1>5. manager \in ManagerRow /\ ManagerAt
  BY <1>2 DEF Init, ManagerRow, ManagerSteps, ManagerAt
<1>6. daemon \in DaemonRow /\ DaemonAt
  BY <1>2 DEF Init, Down, DaemonRow, DaemonAt
<1>7. crashes \in 0..MaxCrashes /\ faults \in 0..MaxFaults
  BY <1>1 DEF Init
<1>8. late \in BOOLEAN /\ overlapped \in BOOLEAN /\ contested \in BOOLEAN
        /\ unit \in {"active", "stopped"}
  BY DEF Init
<1> QED BY <1>3, <1>4, <1>5, <1>6, <1>7, <1>8 DEF Typed

\* Writing a row of the journal.
LEMMA WriteType ==
  ASSUME Typed, NEW n \in Activations, NEW entry \in JournalRow, Write(n, entry)
  PROVE  /\ journal' \in [Activations -> JournalRow] /\ journal'[n] = entry
         /\ \A m \in Activations \ {n} : journal'[m] = journal[m]
BY DEF Typed, Write

\* One artifact gets other contents.
LEMMA ContentType ==
  ASSUME Typed, NEW i, NEW c, i \in Items => c \in Contents
  PROVE  [content EXCEPT ![i] = c] \in [Items -> Contents]
<1>1. CASE i \in Items
  BY <1>1 DEF Typed
<1>2. CASE i \notin Items
  <2>1. [content EXCEPT ![i] = c] = content
    BY <1>2 DEF Typed
  <2> QED BY <2>1 DEF Typed
<1> QED BY <1>1, <1>2

LEMMA TornType ==
  ASSUME Typed, NEW i
  PROVE  [content EXCEPT ![i] = Torn] \in [Items -> Contents]
BY ContentType DEF Contents

\* The fields of a row of the journal that are written.
LEMMA EntryType ==
  ASSUME NEW e \in JournalRow, NEW state \in JournalStates, NEW k \in 0..Artifacts,
         NEW p \in 0..Artifacts
  PROVE  /\ [e EXCEPT !.state = state] \in JournalRow
         /\ [e EXCEPT !.pending = p] \in JournalRow
         /\ [e EXCEPT !.state = state, !.pending = p] \in JournalRow
         /\ [e EXCEPT !.done = k, !.pending = p] \in JournalRow
         /\ [e EXCEPT !.state = state, !.done = k, !.pending = p] \in JournalRow
BY DEF JournalRow

LEMMA UnfinishedType == Unfinished \subseteq JournalStates
BY DEF JournalStates

LEMMA StateType ==
  ASSUME NEW e \in JournalRow, NEW state \in Unfinished
  PROVE  [e EXCEPT !.state = state] \in JournalRow
BY UnfinishedType DEF JournalRow

LEMMA EndType ==
  ASSUME NEW e \in JournalRow
  PROVE  [e EXCEPT !.state = "rolled-back", !.pending = 0] \in JournalRow
<1>1. "rolled-back" \in JournalStates /\ 0 \in 0..Artifacts
  BY ActivationAssumption DEF ActivationAssumption, JournalStates
<1> QED BY <1>1 DEF JournalRow

\* A daemon that is left alone or ended.
LEMMA DaemonStays ==
  ASSUME Typed, daemon' = daemon \/ daemon' = Down
  PROVE  daemon' \in DaemonRow /\ DaemonAt'
<1>1. Down \in DaemonRow
  BY ActivationAssumption DEF ActivationAssumption, Down, DaemonRow
<1>2. CASE daemon' = daemon
  BY <1>2 DEF Typed, DaemonAt
<1>3. CASE daemon' = Down
  BY <1>1, <1>3 DEF Down, DaemonAt
<1> QED BY <1>2, <1>3

\* Where the manager goes when an activation is not made or not ended.
LEMMA Goes ==
  ASSUME Typed, manager.act \in Activations,
         \/ Go("idle") \/ Go("restart") \/ (Go("rollback") /\ manager.step \in {"start", "await"})
  PROVE  manager' \in ManagerRow /\ ManagerAt'
<1>1. PICK step \in {"idle", "restart", "rollback"} :
        /\ manager' = [manager EXCEPT !.step = step]
        /\ step = "rollback" => manager.step \in {"start", "await"}
  BY DEF Go
<1>2. /\ manager' \in ManagerRow /\ manager'.step = step /\ manager'.act = manager.act
      /\ manager'.at = manager.at /\ manager'.failed = manager.failed
  BY <1>1 DEF Typed, ManagerRow, ManagerSteps, RollbackSteps
<1>3. step = "rollback" => ~manager.failed
  BY <1>1 DEF Typed, ManagerAt
<1> QED BY <1>1, <1>2, <1>3 DEF ManagerAt

\* The steps of the manager until the candidate has been started and waited for.
LEMMA ForwardType ==
  ASSUME Typed,
         \/ Activating \/ Pend \/ Replace \/ ReplaceFails \/ Record
         \/ StartCandidate \/ InstallFails \/ Ready \/ StartFails \/ NotReady \/ StopFails
  PROVE  Typed'
<1>0. /\ Artifacts \in Nat \ {0} /\ MaxActivations \in Nat /\ MaxFaults \in Nat
      /\ manager \in ManagerRow /\ manager.at \in 0..Artifacts /\ 0 \in 0..Artifacts
  BY ActivationAssumption DEF ActivationAssumption, Typed, ManagerRow
<1>1. manager.act \in Activations /\ Current \in JournalRow
  BY DEF Activating, Pend, Replace, ReplaceFails, Record, StartCandidate, InstallFails, Ready,
         StartFails, NotReady, StopFails, Typed, ManagerAt, Current
<1>2. daemon' \in DaemonRow /\ DaemonAt'
  <2>1. daemon' = daemon \/ daemon' = Down
    BY DEF Activating, Pend, Replace, ReplaceFails, Record, StartCandidate, InstallFails, Ready,
           StartFails, NotReady, StopFails
  <2> QED BY <2>1, DaemonStays
<1>3. CASE Activating
  <2>1. [Current EXCEPT !.state = "activating"] \in JournalRow
    BY <1>1, StateType DEF Unfinished
  <2>2. manager' \in ManagerRow /\ ManagerAt'
    BY <1>0, <1>3 DEF Activating, Go, ManagerRow, ManagerSteps, RollbackSteps, ManagerAt, Typed
  <2> QED BY <1>1, <1>2, <1>3, <2>1, <2>2, WriteType DEF Activating, Typed, history
<1>4. CASE Pend
  <2>1. [Current EXCEPT !.pending = manager.at] \in JournalRow
    BY <1>0, <1>1, EntryType DEF JournalRow
  <2>2. manager' \in ManagerRow /\ ManagerAt'
    BY <1>0, <1>4 DEF Pend, Go, ManagerRow, ManagerSteps, RollbackSteps, ManagerAt, Typed
  <2> QED BY <1>1, <1>2, <1>4, <2>1, <2>2, WriteType DEF Pend, Typed, history
<1>5. CASE Replace
  <2>1. Replaced \in [Items -> Contents]
    BY <1>0, <1>1, ContentType DEF Replaced, Contents, Activations
  <2>2. manager' \in ManagerRow /\ ManagerAt'
    BY <1>0, <1>5 DEF Replace, Go, ManagerRow, ManagerSteps, RollbackSteps, ManagerAt, Typed
  <2> QED BY <1>2, <1>5, <2>1, <2>2 DEF Replace, Typed, history
<1>6. CASE ReplaceFails
  <2>1. Replaced \in [Items -> Contents]
    BY <1>0, <1>1, ContentType DEF Replaced, Contents, Activations
  <2>2. manager' = [manager EXCEPT !.step = "rollback", !.failed = TRUE, !.at = @ - 1]
        /\ manager.at > 0 /\ manager.act \in Activations
    BY <1>1, <1>6 DEF ReplaceFails, Typed, ManagerAt
  <2>3. manager' \in ManagerRow /\ ManagerAt'
    <3>1. manager.at - 1 \in 0..Artifacts /\ manager.at - 1 < Artifacts
      BY <1>0, <2>2
    <3> QED BY <1>0, <2>2, <3>1 DEF ManagerRow, ManagerSteps, RollbackSteps, ManagerAt
  <2>4. content' \in [Items -> Contents] /\ late' \in BOOLEAN
    BY <1>6, <2>1 DEF ReplaceFails, Typed
  <2>5. faults' \in 0..MaxFaults
    BY <1>0, <1>6 DEF ReplaceFails, Fails, Typed
  <2> QED BY <1>2, <1>6, <2>3, <2>4, <2>5 DEF ReplaceFails, Typed
<1>7. CASE Record
  <2>1. [Current EXCEPT !.done = manager.at, !.pending = 0] \in JournalRow
    BY <1>0, <1>1, EntryType DEF JournalRow
  <2>2. manager' \in ManagerRow /\ ManagerAt'
    <3>1. CASE manager.at = Pointer
      BY <1>0, <1>1, <1>7, <3>1
         DEF Record, ManagerRow, ManagerSteps, RollbackSteps, ManagerAt, Typed, Pointer
    <3>2. CASE manager.at # Pointer
      <4>1. manager' = [manager EXCEPT !.step = "pending", !.at = @ + 1] /\ ~manager.failed
        BY <1>7, <3>2 DEF Record, Typed, ManagerAt
      <4>2. manager.at + 1 \in 0..Artifacts /\ manager.at + 1 > 0
        BY <1>0, <3>2 DEF Pointer
      <4> QED BY <1>0, <1>1, <4>1, <4>2 DEF ManagerRow, ManagerSteps, RollbackSteps, ManagerAt
    <3> QED BY <3>1, <3>2
  <2> QED BY <1>1, <1>2, <1>7, <2>1, <2>2, WriteType DEF Record, Typed, history
<1>8. CASE StartCandidate \/ Ready
  <2>1. manager' \in ManagerRow /\ ManagerAt'
    BY <1>0, <1>8
       DEF StartCandidate, Ready, Go, ManagerRow, ManagerSteps, RollbackSteps, ManagerAt, Typed
  <2> QED BY <1>2, <1>8, <2>1 DEF StartCandidate, Ready, Typed, history
<1>9. CASE StartFails \/ NotReady
  <2>1. manager' \in ManagerRow /\ ManagerAt'
    BY <1>1, <1>9, Goes DEF StartFails, NotReady
  <2> QED BY <1>2, <1>9, <2>1 DEF StartFails, NotReady, Typed, history
<1>10. CASE InstallFails \/ StopFails
  <2>1. manager' \in ManagerRow /\ ManagerAt'
    BY <1>1, <1>10, Goes DEF InstallFails, StopFails
  <2>2. faults' \in 0..MaxFaults
    BY <1>0, <1>10 DEF InstallFails, StopFails, Fails, Typed
  <2>3. contested' \in BOOLEAN
    BY <1>10 DEF InstallFails, StopFails, Typed
  <2> QED BY <1>2, <1>10, <2>1, <2>2, <2>3 DEF InstallFails, StopFails, Typed
<1> QED BY <1>3, <1>4, <1>5, <1>6, <1>7, <1>8, <1>9, <1>10

\* The steps of the manager that end an activation, and its death.
LEMMA BackType ==
  ASSUME Typed,
         \/ Commit \/ Rollback \/ RestoreOpens \/ RestoreWrites \/ RestoreChecks \/ RestoreFails
         \/ RolledBack \/ StartPrevious \/ RestartFails \/ ManagerDies
  PROVE  Typed'
<1>0. /\ Artifacts \in Nat \ {0} /\ MaxActivations \in Nat
      /\ MaxCrashes \in Nat /\ MaxFaults \in Nat
      /\ manager \in ManagerRow /\ manager.at \in 0..Artifacts /\ 0 \in 0..Artifacts
  BY ActivationAssumption DEF ActivationAssumption, Typed, ManagerRow
<1>1. manager.act \in Activations /\ Current \in JournalRow
  BY DEF Commit, Rollback, RestoreOpens, RestoreWrites, RestoreChecks, RestoreFails, RolledBack,
         StartPrevious, RestartFails, ManagerDies, Typed, ManagerAt, Current
<1>2. daemon' \in DaemonRow /\ DaemonAt'
  <2>1. daemon' = daemon
    BY DEF Commit, Rollback, RestoreOpens, RestoreWrites, RestoreChecks, RestoreFails, RolledBack,
           StartPrevious, RestartFails, ManagerDies
  <2> QED BY <2>1, DaemonStays
<1>3. ASSUME NEW state \in JournalStates
      PROVE  manager.step \in {"commit", "rollback"} => Remembered(state) \in JournalRow
  <2>1. manager.step \in {"commit", "rollback"} =>
          (IF manager.failed THEN manager.at + 1 ELSE 0) \in 0..Artifacts
    BY <1>0 DEF Typed, ManagerAt
  <2> QED BY <1>0, <1>1, <2>1, EntryType DEF Remembered
<1>4. [Current EXCEPT !.state = "failed"] \in JournalRow
  BY <1>1, StateType DEF Unfinished
<1>5. CASE Commit
  <2>1. Remembered("ready") \in JournalRow
    BY <1>3, <1>5 DEF Commit, JournalStates
  <2>2. manager' \in ManagerRow /\ ManagerAt'
    BY <1>1, <1>5, Goes DEF Commit
  <2> QED BY <1>1, <1>2, <1>5, <2>1, <2>2, WriteType DEF Commit, Typed, history
<1>6. CASE Rollback
  <2>1. Remembered("rolling-back") \in JournalRow
    BY <1>3, <1>6 DEF Rollback, JournalStates, Unfinished
  <2>2. manager' \in ManagerRow /\ ManagerAt'
    BY <1>0, <1>1, <1>6
       DEF Rollback, FirstRestored, ManagerRow, ManagerSteps, RollbackSteps, ManagerAt, Typed
  <2> QED BY <1>1, <1>2, <1>6, <2>1, <2>2, WriteType DEF Rollback, Typed, history
<1>7. CASE RestoreOpens
  <2>1. manager' \in ManagerRow /\ ManagerAt'
    BY <1>0, <1>1, <1>7
       DEF RestoreOpens, Go, ManagerRow, ManagerSteps, RollbackSteps, ManagerAt
  <2>2. content' \in [Items -> Contents]
    BY <1>7, TornType DEF RestoreOpens
  <2> QED BY <1>2, <1>7, <2>1, <2>2 DEF RestoreOpens, Typed, history
<1>8. CASE RestoreWrites
  <2>1. manager' \in ManagerRow /\ ManagerAt'
    BY <1>0, <1>1, <1>8
       DEF RestoreWrites, Go, ManagerRow, ManagerSteps, RollbackSteps, ManagerAt, Typed
  <2>2. content' \in [Items -> Contents]
    BY <1>1, <1>8, ContentType DEF RestoreWrites, JournalRow
  <2> QED BY <1>2, <1>8, <2>1, <2>2 DEF RestoreWrites, Typed, history
<1>9. CASE RestoreChecks
  <2>1. CASE GiveUp
    <3>1. manager' \in ManagerRow /\ ManagerAt'
      BY <1>1, <2>1, Goes DEF GiveUp
    <3>2. journal' \in [Activations -> JournalRow]
      BY <1>1, <1>4, <2>1, WriteType DEF GiveUp
    <3> QED BY <1>2, <1>9, <3>1, <3>2 DEF RestoreChecks, Typed, history
  <2>2. CASE manager' = [manager EXCEPT !.step = "restore", !.at = @ - 1] /\ UNCHANGED journal
    <3>1. manager.at - 1 \in 0..Artifacts
      BY <1>0, <1>9 DEF RestoreChecks, Typed, ManagerAt
    <3>2. manager' \in ManagerRow /\ ManagerAt'
      BY <1>0, <1>1, <2>2, <3>1 DEF ManagerRow, ManagerSteps, RollbackSteps, ManagerAt
    <3> QED BY <1>2, <1>9, <2>2, <3>2 DEF RestoreChecks, Typed, history
  <2> QED BY <1>9, <2>1, <2>2 DEF RestoreChecks
<1>10. CASE RestoreFails
  <2>1. manager' \in ManagerRow /\ ManagerAt'
    BY <1>1, <1>10, Goes DEF RestoreFails, GiveUp
  <2>2. journal' \in [Activations -> JournalRow]
    BY <1>1, <1>4, <1>10, WriteType DEF RestoreFails, GiveUp
  <2>3. faults' \in 0..MaxFaults
    BY <1>0, <1>10 DEF RestoreFails, Fails, Typed
  <2> QED BY <1>2, <1>10, <2>1, <2>2, <2>3 DEF RestoreFails, Typed
<1>11. CASE RolledBack
  <2>1. [Current EXCEPT !.state = "rolled-back", !.pending = 0] \in JournalRow
    BY <1>1, EndType
  <2>2. manager' \in ManagerRow /\ ManagerAt'
    BY <1>1, <1>11, Goes DEF RolledBack
  <2> QED BY <1>1, <1>2, <1>11, <2>1, <2>2, WriteType DEF RolledBack, Typed, history
<1>12. CASE StartPrevious \/ RestartFails \/ ManagerDies
  <2>1. manager' \in ManagerRow /\ ManagerAt'
    BY <1>1, <1>12, Goes DEF StartPrevious, RestartFails, ManagerDies
  <2>2. crashes' \in 0..MaxCrashes /\ faults' \in 0..MaxFaults
    <3>1. CASE StartPrevious
      BY <3>1 DEF StartPrevious, Typed, history
    <3>2. CASE RestartFails
      BY <1>0, <3>2 DEF RestartFails, Fails, Typed
    <3>3. CASE ManagerDies
      BY <1>0, <3>3 DEF ManagerDies, Typed
    <3> QED BY <1>12, <3>1, <3>2, <3>3
  <2> QED BY <1>2, <1>12, <2>1, <2>2 DEF StartPrevious, RestartFails, ManagerDies, Typed, history
<1> QED BY <1>5, <1>6, <1>7, <1>8, <1>9, <1>10, <1>11, <1>12

LEMMA ManagerType == Typed /\ (ManagerStep \/ ManagerFails \/ ManagerDies) => Typed'
BY ForwardType, BackType DEF ManagerStep, ManagerFails

\* An activation begins.
LEMMA BeginType == Typed /\ Begin => Typed'
<1> SUFFICES ASSUME Typed, Begin PROVE Typed'
  OBVIOUS
<1> DEFINE n == manager.act + 1
           e == [state |-> "staged", done |-> 0, pending |-> 0, saved |-> content]
<1>0. /\ Artifacts \in Nat \ {0} /\ MaxActivations \in Nat /\ n \in Activations
      /\ manager' = [step |-> "staged", act |-> n, at |-> 1, failed |-> FALSE]
      /\ journal' = [journal EXCEPT ![n] = e] /\ daemon' = Down
  BY ActivationAssumption DEF ActivationAssumption, Begin, Write
<1>1. e \in JournalRow
  BY <1>0 DEF JournalRow, JournalStates, Typed
<1>2. journal' \in [Activations -> JournalRow]
  BY <1>0, <1>1 DEF Typed
<1>3. manager' \in ManagerRow /\ ManagerAt'
  BY <1>0 DEF ManagerRow, ManagerSteps, ManagerAt, Activations
<1>4. daemon' \in DaemonRow /\ DaemonAt'
  BY <1>0, DaemonStays
<1>5. overlapped' \in BOOLEAN /\ unit' \in {"active", "stopped"}
  BY DEF Begin, Typed
<1> QED BY <1>2, <1>3, <1>4, <1>5 DEF Begin, Typed

\* The steps of the daemon.
LEMMA DaemonType ==
  ASSUME Typed, UnitStarts \/ DaemonStep \/ RecoverFails \/ DaemonDies
  PROVE  Typed'
<1>0. /\ Artifacts \in Nat \ {0} /\ MaxActivations \in Nat
      /\ MaxCrashes \in Nat /\ MaxFaults \in Nat
      /\ daemon \in DaemonRow /\ daemon.act \in 0..MaxActivations /\ DaemonAt
  BY ActivationAssumption DEF ActivationAssumption, Typed, DaemonRow
<1>a. ManagerAt' /\ manager' \in ManagerRow
  BY DEF UnitStarts, DaemonStep, Start, Visit, RecoverOpens, RecoverWrites, RecoverChecks,
         Recovered, Serve, RecoverFails, DaemonDies, ManagerAt, Typed
<1>1. CASE UnitStarts
  <2>1. daemon' \in DaemonRow /\ DaemonAt'
    BY <1>1, DaemonStays DEF UnitStarts
  <2> QED BY <1>1, <1>a, <2>1 DEF UnitStarts, Typed, history
<1>2. CASE Start
  <2>1. daemon' \in DaemonRow /\ DaemonAt'
    BY <1>0, <1>2 DEF Start, DaemonRow, DaemonAt
  <2> QED BY <1>2, <1>a, <2>1 DEF Start, Typed
<1>3. ASSUME NEW n \in Activations, Visit(n) PROVE Typed'
  <2>1. journal[n] \in JournalRow
    BY DEF Typed
  <2>2. CASE Incomplete(journal[n])
    <3>1. [journal[n] EXCEPT !.state = "rolling-back"] \in JournalRow
      BY <2>1, StateType DEF Unfinished
    <3>2. journal' \in [Activations -> JournalRow]
      BY <1>3, <2>2, <3>1, WriteType DEF Visit
    <3>3. RestoreIds(journal[n]) \subseteq Items
      BY <1>0, <2>1 DEF RestoreIds, JournalRow, Items
    <3>4. daemon' \in DaemonRow /\ DaemonAt'
      <4> DEFINE d1 == [daemon EXCEPT !.todo = @ \ {n}]
                 d2 == [d1 EXCEPT !.act = n]
                 d3 == [d2 EXCEPT !.left = RestoreIds(journal[n])]
      <4>1. d1 \in DaemonRow /\ d1.step = "recovering"
        BY <1>0, <1>3 DEF DaemonRow, Visit
      <4>2. n \in 0..MaxActivations /\ n # 0
        BY <1>0 DEF Activations
      <4> HIDE DEF d1
      <4>3. d2 \in DaemonRow /\ d2.step = "recovering" /\ d2.act = n
        BY <4>1, <4>2 DEF DaemonRow
      <4> HIDE DEF d2
      <4>4. d3 \in DaemonRow /\ d3.step = "recovering" /\ d3.act = n
        BY <3>3, <4>3 DEF DaemonRow
      <4>5. daemon' = d3
        BY <1>0, <1>3, <2>2 DEF Visit, DaemonRow, d1, d2
      <4> HIDE DEF d3
      <4> QED BY <4>2, <4>4, <4>5 DEF DaemonAt
    <3> QED BY <1>3, <1>a, <3>2, <3>4 DEF Visit, Typed, history
  <2>3. CASE ~Incomplete(journal[n])
    <3>1. daemon' \in DaemonRow /\ DaemonAt'
      BY <1>0, <1>3, <2>3 DEF Visit, DaemonRow, DaemonAt
    <3> QED BY <1>3, <1>a, <2>3, <3>1 DEF Visit, Typed, history
  <2> QED BY <2>2, <2>3
<1>4. daemon.act # 0 => daemon.act \in Activations /\ journal[daemon.act] \in JournalRow
  BY <1>0 DEF Activations, Typed
<1>5. daemon.act # 0 => [journal[daemon.act] EXCEPT !.state = "failed"] \in JournalRow
  BY <1>4, StateType DEF Unfinished
<1>6. CASE RecoverOpens
  <2>1. content' \in [Items -> Contents]
    BY <1>6, TornType DEF RecoverOpens
  <2>2. daemon' \in DaemonRow /\ DaemonAt'
    BY <1>0, <1>6 DEF RecoverOpens, DaemonRow, DaemonAt
  <2> QED BY <1>6, <1>a, <2>1, <2>2 DEF RecoverOpens, Typed, history
<1>7. CASE RecoverWrites
  <2>1. content' \in [Items -> Contents]
    BY <1>0, <1>4, <1>7, ContentType DEF RecoverWrites, JournalRow, DaemonAt
  <2>2. daemon' \in DaemonRow /\ DaemonAt'
    BY <1>0, <1>7 DEF RecoverWrites, DaemonRow, DaemonAt
  <2> QED BY <1>7, <1>a, <2>1, <2>2 DEF RecoverWrites, Typed, history
<1>8. CASE RecoverChecks
  <2>1. daemon.act # 0 /\ daemon.left # {}
    BY <1>0, <1>8 DEF RecoverChecks, DaemonAt
  <2>2. CASE RefuseStart
    <3>1. daemon' \in DaemonRow /\ DaemonAt'
      BY <2>2, DaemonStays DEF RefuseStart
    <3>2. journal' \in [Activations -> JournalRow]
      BY <1>4, <1>5, <2>1, <2>2, WriteType DEF RefuseStart
    <3> QED BY <1>8, <1>a, <3>1, <3>2 DEF RecoverChecks, Typed, history
  <2>3. CASE daemon' = [daemon EXCEPT !.step = "recovering", !.left = @ \ {NextRestored}]
             /\ UNCHANGED journal
    <3>1. daemon' \in DaemonRow /\ DaemonAt'
      BY <1>0, <2>1, <2>3 DEF DaemonRow, DaemonAt
    <3> QED BY <1>8, <1>a, <2>3, <3>1 DEF RecoverChecks, Typed, history
  <2> QED BY <1>8, <2>2, <2>3 DEF RecoverChecks
<1>9. CASE RecoverFails
  <2>1. faults' \in 0..MaxFaults
    BY <1>0, <1>9 DEF RecoverFails, Fails, Typed
  <2>2. daemon' \in DaemonRow /\ DaemonAt'
    BY <1>9, DaemonStays DEF RecoverFails, RefuseStart
  <2>3. journal' \in [Activations -> JournalRow]
    BY <1>4, <1>5, <1>9, WriteType DEF RecoverFails, RefuseStart
  <2> QED BY <1>9, <1>a, <2>1, <2>2, <2>3 DEF RecoverFails, Typed
<1>10. CASE Recovered
  <2>1. [journal[daemon.act] EXCEPT !.state = "rolled-back", !.pending = 0] \in JournalRow
    BY <1>4, <1>10, EndType DEF Recovered
  <2>2. daemon' \in DaemonRow /\ DaemonAt'
    BY <1>0, <1>10 DEF Recovered, DaemonRow, DaemonAt
  <2> QED BY <1>4, <1>10, <1>a, <2>1, <2>2, WriteType DEF Recovered, Typed, history
<1>11. CASE Serve
  <2>1. daemon' \in DaemonRow /\ DaemonAt'
    BY <1>0, <1>11 DEF Serve, DaemonRow, DaemonAt
  <2> QED BY <1>11, <1>a, <2>1 DEF Serve, Typed, history
<1>12. CASE DaemonDies
  <2>1. daemon' \in DaemonRow /\ DaemonAt'
    BY <1>12, DaemonStays DEF DaemonDies
  <2>2. crashes' \in 0..MaxCrashes
    BY <1>0, <1>12 DEF DaemonDies, Typed
  <2> QED BY <1>12, <1>a, <2>1, <2>2 DEF DaemonDies, Typed
<1> QED BY <1>1, <1>2, <1>3, <1>6, <1>7, <1>8, <1>9, <1>10, <1>11, <1>12 DEF DaemonStep

LEMMA NextTyped == Typed /\ [Next]_vars => Typed'
<1> SUFFICES ASSUME Typed, [Next]_vars PROVE Typed'
  OBVIOUS
<1>1. CASE UNCHANGED vars
  BY <1>1 DEF vars, Typed, ManagerAt, DaemonAt
<1> QED BY <1>1, BeginType, ManagerType, DaemonType DEF Next

\* Every variable keeps its type (Activation.TypeOK): the journal counts and names artifacts of
\* the activation, and the manager never walks out of their list.
THEOREM TypeCorrect == Spec => []TypeOK
BY InitTyped, NextTyped, TypedImplies, PTL DEF Spec

-----------------------------------------------------------------------------
(* The inductive invariant: c are the artifacts, e the journal of the latest activation, m the *)
(* manager and d the daemon.                                                                   *)

\* All artifacts are of one activation.
IsWhole(c) == \E k \in 0..MaxActivations : \A i \in Items : c[i] = k

\* The artifacts in S are what they were when the activation began.
Kept(c, e, S) == \A i \in S : c[i] = e.saved[i]

\* What the state of the journal says of the artifacts.
JournalTells(c, e) ==
  /\ e.state # "none"
  /\ IsWhole(e.saved)
  /\ e.state \in {"staged", "rolled-back"} => Kept(c, e, Items)
  /\ e.state \in Unfinished => Kept(c, e, Items \ RestoreIds(e))
  /\ e.state = "ready" => IsWhole(c)

\* What the step of the manager says of them.
ManagerTells(c, e, m) ==
  /\ m.step = "staged" => e.state = "staged" /\ e.done = 0 /\ e.pending = 0
  /\ m.step \in {"pending", "replace", "record"} =>
       /\ e.state = "activating" /\ e.done = m.at - 1
       /\ e.pending = IF m.step = "pending" THEN 0 ELSE m.at
  /\ m.step = "replace" => Kept(c, e, m.at..Artifacts)
  /\ m.step \in RollbackSteps => Kept(c, e, (m.at + 1)..Artifacts)
  /\ m.step \in RollbackSteps \ {"rollback"} => e.state = "rolling-back" /\ m.at <= e.done
  /\ m.step = "commit" => IsWhole(c) /\ e.state \notin Unfinished

\* What the recovery of the daemon says of them.
DaemonTells(c, e, m, d) ==
  /\ d.act # 0 =>
       /\ d.act = m.act /\ e.state = "rolling-back"
       /\ d.left \subseteq RestoreIds(e) /\ Kept(c, e, Items \ d.left)
  /\ d.step = "serving" => e.state \notin Unfinished
  /\ d.step = "recovering" /\ e.state \in Unfinished => m.act \in d.todo \/ d.act = m.act

\* Until the candidate is started the unit is stopped.  While no daemon is beside the manager
\* that rolls back, one runs only when the manager is idle, waits for it, or is done with it.
TakeTurns(m, d, u) ==
  /\ m.step \in {"staged", "pending", "replace", "record", "start"} => u = "stopped"
  /\ d.step # "down" => m.step \in {"idle", "await", "commit", "restart"}

\* The activations before the latest have ended, and those after it have not begun.
OthersEnded(j, a) ==
  \A n \in Activations \ {a} : j[n].state \notin Unfinished /\ (n > a => j[n].state = "none")

\* In the cases that are covered.
Core ==
  /\ OthersEnded(journal, manager.act)
  /\ TakeTurns(manager, daemon, unit)
  /\ manager.act = 0 => IsWhole(content) /\ daemon.act = 0 /\ manager.step = "idle"
  /\ manager.act # 0 =>
       /\ JournalTells(content, Current)
       /\ ManagerTells(content, Current, manager)
       /\ DaemonTells(content, Current, manager, daemon)

Inv == Typed /\ (Covered => Core)

LEMMA InitCore == Init => Core
<1> SUFFICES ASSUME Init PROVE Core
  OBVIOUS
<1>1. OthersEnded(journal, manager.act)
  BY DEF Init, OthersEnded, Unfinished
<1>2. TakeTurns(manager, daemon, unit)
  BY DEF Init, TakeTurns, Down
<1>3. IsWhole(content) /\ daemon.act = 0 /\ manager.step = "idle" /\ manager.act = 0
  BY ActivationAssumption DEF ActivationAssumption, Init, IsWhole, Down
<1> QED BY <1>1, <1>2, <1>3 DEF Core

\* The last artifact of a set is in it.
LEMMA Largest ==
  ASSUME NEW S \in SUBSET Items, S # {}
  PROVE  Max(S) \in S
<1> DEFINE T == {Artifacts - x : x \in S}
<1>1. T \subseteq Nat /\ T # {}
  <2>1. \A x \in S : x \in 1..Artifacts
    BY DEF Items
  <2>2. Artifacts \in Nat /\ \A x \in 1..Artifacts : Artifacts - x \in Nat
    BY ActivationAssumption DEF ActivationAssumption
  <2> QED BY <2>1, <2>2
<1>2. PICK d \in T : \A e \in T : ~ (<<e, d>> \in OpToRel(<, Nat))
  BY <1>1, NatLessThanWellFounded, WFMin
<1>3. \A e \in T : ~ (e < d)
  BY <1>1, <1>2 DEF OpToRel
<1>4. PICK x \in S : d = Artifacts - x
  BY <1>2
<1>5. \A y \in S : x >= y
  BY <1>3, <1>4, ActivationAssumption DEF ActivationAssumption, Items
<1> QED BY <1>4, <1>5 DEF Max, Items

LEMMA NextIsLeft == Typed /\ daemon.left # {} => NextRestored \in daemon.left
<1> SUFFICES ASSUME Typed, daemon.left # {} PROVE NextRestored \in daemon.left
  OBVIOUS
<1>1. CASE daemon.left = {Pointer}
  BY <1>1 DEF NextRestored
<1>2. CASE daemon.left # {Pointer}
  <2>1. daemon.left \ {Pointer} # {} /\ daemon.left \ {Pointer} \subseteq Items
    BY <1>2 DEF Typed, DaemonRow
  <2> QED BY <1>2, <2>1, Largest DEF NextRestored
<1> QED BY <1>1, <1>2

\* A step that stays with the latest activation and writes no other journal.
LEMMA SameActivation ==
  ASSUME Core, NEW n \in Activations, manager.act = n, manager'.act = n,
         \A m \in Activations \ {n} : journal'[m] = journal[m],
         TakeTurns(manager', daemon', unit'),
         JournalTells(content', journal'[n]),
         ManagerTells(content', journal'[n], manager'),
         DaemonTells(content', journal'[n], manager', daemon')
  PROVE  Core'
<1>1. OthersEnded(journal', manager'.act)
  BY DEF Core, OthersEnded
<1>2. Current' = journal'[n] /\ n # 0
  BY DEF Current, Activations
<1> QED BY <1>1, <1>2 DEF Core

\* When the latest activation is not unfinished, the artifacts are whole.
LEMMA EndedIsWhole ==
  ASSUME NEW c, NEW e \in JournalRow, JournalTells(c, e), e.state \notin Unfinished
  PROVE  IsWhole(c)
<1>1. e.state \in {"staged", "rolled-back", "ready"}
  BY DEF JournalRow, JournalStates, JournalTells
<1> QED BY <1>1 DEF JournalTells, IsWhole, Kept

\* Outside an activation the manager and the daemon say nothing.
LEMMA IdleTells ==
  ASSUME NEW c, NEW e, NEW m, m.step \in {"idle", "start", "await", "restart"}
  PROVE  ManagerTells(c, e, m)
BY DEF ManagerTells, RollbackSteps

LEMMA DownTells ==
  ASSUME NEW c, NEW e, NEW m, NEW d, d.step = "down", d.act = 0
  PROVE  DaemonTells(c, e, m, d)
BY DEF DaemonTells

\* A step of the manager while the daemon is down, and stays down.
LEMMA WhileDown ==
  ASSUME Typed, Core, NEW n \in Activations, manager.act = n, manager'.act = n,
         \A m \in Activations \ {n} : journal'[m] = journal[m],
         daemon.step = "down", UNCHANGED daemon,
         manager'.step \in {"staged", "pending", "replace", "record", "start"} => unit' = "stopped",
         JournalTells(content', journal'[n]),
         ManagerTells(content', journal'[n], manager')
  PROVE  Core'
<1>1. daemon.act = 0
  BY DEF Typed, DaemonAt
<1>2. TakeTurns(manager', daemon', unit')
  BY DEF TakeTurns
<1>3. DaemonTells(content', journal'[n], manager', daemon')
  BY <1>1, DownTells
<1> QED BY <1>2, <1>3, SameActivation

\* The steps that replace the artifacts.
LEMMA ForwardCore ==
  ASSUME Typed, Core, Activating \/ Pend \/ Replace \/ Record
  PROVE  Core'
<1>0. /\ manager.act \in Activations /\ manager.step \in {"staged", "pending", "replace", "record"}
      /\ unit' = unit
  BY DEF Activating, Pend, Replace, Record, Typed, ManagerAt
<1>9. daemon.step = "down" /\ unit' = "stopped"
  BY <1>0 DEF Core, TakeTurns
<1> PICK n \in Activations : n = manager.act
  BY <1>0
<1> PICK e \in JournalRow : e = journal[n]
  BY DEF Typed
<1> PICK a \in 0..Artifacts : a = manager.at
  BY DEF Typed, ManagerRow
<1>1. JournalTells(content, e) /\ ManagerTells(content, e, manager) /\ Current = e
  BY <1>0 DEF Core, Current, Activations
<1>2. Artifacts \in Nat /\ e.done \in 0..Artifacts /\ e.pending \in 0..Artifacts
  BY ActivationAssumption DEF ActivationAssumption, JournalRow
<1>3. manager \in ManagerRow /\ journal \in [Activations -> JournalRow] /\ content \in [Items -> Contents]
  BY DEF Typed
<1>4. CASE Activating
  <2>1. journal' = [journal EXCEPT ![n] = [e EXCEPT !.state = "activating"]]
        /\ content' = content /\ manager.step = "staged" /\ daemon' = daemon
        /\ manager' = [manager EXCEPT !.step = "pending"]
    BY <1>1, <1>4 DEF Activating, Write, Go
  <2>2. PICK f : f = [e EXCEPT !.state = "activating"]
    OBVIOUS
  <2>3. f.state = "activating" /\ f.done = e.done /\ f.pending = e.pending /\ f.saved = e.saved
    BY <2>2 DEF JournalRow
  <2>4. journal'[n] = f /\ \A m \in Activations \ {n} : journal'[m] = journal[m]
    BY <1>3, <2>1, <2>2
  <2>5. manager'.act = n /\ manager'.at = a /\ manager'.step = "pending" /\ a = 1
    BY <1>3, <1>4, <2>1 DEF ManagerRow, Typed, ManagerAt
  <2>6. e.state = "staged" /\ e.done = 0 /\ e.pending = 0
    BY <1>1, <2>1 DEF ManagerTells, RollbackSteps
  <2>7. JournalTells(content', f)
    BY <1>1, <2>1, <2>3, <2>6 DEF JournalTells, Kept, Unfinished
  <2>8. ManagerTells(content', f, manager')
    BY <2>3, <2>5, <2>6 DEF ManagerTells, RollbackSteps
  <2> QED BY <1>9, <2>1, <2>4, <2>5, <2>7, <2>8, WhileDown
<1>5. CASE Pend
  <2>1. journal' = [journal EXCEPT ![n] = [e EXCEPT !.pending = a]]
        /\ content' = content /\ manager.step = "pending" /\ daemon' = daemon
        /\ manager' = [manager EXCEPT !.step = "replace"]
    BY <1>1, <1>5 DEF Pend, Write, Go
  <2>2. PICK f : f = [e EXCEPT !.pending = a]
    OBVIOUS
  <2>3. f.state = e.state /\ f.done = e.done /\ f.pending = a /\ f.saved = e.saved
    BY <2>2 DEF JournalRow
  <2>4. journal'[n] = f /\ \A m \in Activations \ {n} : journal'[m] = journal[m]
    BY <1>3, <2>1, <2>2
  <2>5. manager'.act = n /\ manager'.at = a /\ manager'.step = "replace"
    BY <1>3, <2>1 DEF ManagerRow
  <2>6. e.state = "activating" /\ e.done = a - 1 /\ e.pending = 0 /\ a > 0
    BY <1>1, <2>1 DEF ManagerTells, Typed, ManagerAt
  <2>7. Kept(content, e, Items \ RestoreIds(e)) /\ a..Artifacts \subseteq Items \ RestoreIds(e)
    BY <1>1, <1>2, <2>6 DEF JournalTells, Unfinished, RestoreIds, Items
  <2>8. Kept(content', f, a..Artifacts)
    BY <2>1, <2>3, <2>7 DEF Kept
  <2>9. JournalTells(content', f)
    BY <1>1, <2>1, <2>3, <2>6, <2>7 DEF JournalTells, Kept, Unfinished, RestoreIds
  <2>10. ManagerTells(content', f, manager')
    BY <2>3, <2>5, <2>6, <2>8 DEF ManagerTells, RollbackSteps
  <2> QED BY <1>9, <2>1, <2>4, <2>5, <2>9, <2>10, WhileDown
<1>6. CASE Replace
  <2>1. content' = [content EXCEPT ![a] = n] /\ journal' = journal /\ daemon' = daemon
        /\ manager' = [manager EXCEPT !.step = "record"] /\ manager.step = "replace"
    BY <1>6 DEF Replace, Replaced, Go
  <2>2. manager'.act = n /\ manager'.at = a /\ manager'.step = "record"
    BY <1>3, <2>1 DEF ManagerRow
  <2>3. e.state = "activating" /\ e.done = a - 1 /\ e.pending = a /\ a > 0
    BY <1>1, <2>1 DEF ManagerTells, Typed, ManagerAt
  <2>4. Kept(content, e, Items \ RestoreIds(e)) /\ a \in RestoreIds(e)
    BY <1>1, <2>3 DEF JournalTells, Unfinished, RestoreIds
  <2>5. Kept(content', e, Items \ RestoreIds(e))
    BY <1>3, <2>1, <2>4 DEF Kept
  <2>6. JournalTells(content', e)
    BY <1>1, <2>3, <2>5 DEF JournalTells
  <2>7. ManagerTells(content', e, manager')
    BY <2>2, <2>3 DEF ManagerTells, RollbackSteps
  <2> QED BY <1>9, <2>1, <2>2, <2>6, <2>7, WhileDown
<1>7. CASE Record
  <2>1. journal' = [journal EXCEPT ![n] = [e EXCEPT !.done = a, !.pending = 0]]
        /\ content' = content /\ manager.step = "record" /\ daemon' = daemon
    BY <1>1, <1>7 DEF Record, Write, Go
  <2>2. PICK f : f = [e EXCEPT !.done = a, !.pending = 0]
    OBVIOUS
  <2>3. f.state = e.state /\ f.done = a /\ f.pending = 0 /\ f.saved = e.saved
    BY <2>2 DEF JournalRow
  <2>4. journal'[n] = f /\ \A m \in Activations \ {n} : journal'[m] = journal[m]
    BY <1>3, <2>1, <2>2
  <2>5. /\ manager'.act = n
       /\ \/ manager'.step = "start"
          \/ manager'.step = "pending" /\ manager'.at = a + 1
    <3>1. CASE a = Pointer
      <4>1. manager' = [manager EXCEPT !.step = "start"]
        BY <1>7, <3>1 DEF Record
      <4> QED BY <1>3, <4>1 DEF ManagerRow
    <3>2. CASE a # Pointer
      <4>1. manager' = [manager EXCEPT !.step = "pending", !.at = @ + 1]
        BY <1>7, <3>2 DEF Record
      <4> QED BY <1>3, <4>1 DEF ManagerRow
    <3> QED BY <3>1, <3>2
  <2>6. e.state = "activating" /\ e.done = a - 1 /\ e.pending = a /\ a > 0
    BY <1>1, <2>1 DEF ManagerTells, Typed, ManagerAt
  <2>7. RestoreIds(f) = RestoreIds(e)
    BY <1>2, <2>3, <2>6 DEF RestoreIds
  <2>8. JournalTells(content', f)
    BY <1>1, <2>1, <2>3, <2>6, <2>7 DEF JournalTells, Kept, Unfinished
  <2>9. ManagerTells(content', f, manager')
    BY <2>3, <2>5, <2>6 DEF ManagerTells, RollbackSteps
  <2> QED BY <1>9, <2>1, <2>4, <2>5, <2>8, <2>9, WhileDown
<1> QED BY <1>4, <1>5, <1>6, <1>7

\* The steps that wait for the candidate.
LEMMA AwaitCore ==
  ASSUME Typed, Core, StartCandidate \/ Ready \/ Commit
  PROVE  Core'
<1>0. manager.act \in Activations
  BY DEF StartCandidate, Ready, Commit, Typed, ManagerAt
<1> PICK n \in Activations : n = manager.act
  BY <1>0
<1> PICK e \in JournalRow : e = journal[n]
  BY DEF Typed
<1>1. /\ JournalTells(content, e) /\ ManagerTells(content, e, manager) /\ Current = e
      /\ DaemonTells(content, e, manager, daemon) /\ TakeTurns(manager, daemon, unit)
  BY <1>0 DEF Core, Current, Activations
<1>2. /\ manager \in ManagerRow /\ journal \in [Activations -> JournalRow]
      /\ content \in [Items -> Contents]
  BY DEF Typed
<1>3. CASE StartCandidate
  <2>1. /\ manager.step = "start" /\ manager' = [manager EXCEPT !.step = "await"]
        /\ daemon' = daemon /\ journal' = journal /\ content' = content
    BY <1>3 DEF StartCandidate, Go
  <2>2. manager'.step = "await" /\ manager'.act = n
    BY <1>2, <2>1 DEF ManagerRow
  <2>3. daemon.step = "down"
    BY <1>1, <2>1 DEF TakeTurns
  <2>4. ManagerTells(content', e, manager')
    BY <2>2, IdleTells
  <2> QED BY <1>1, <2>1, <2>2, <2>3, <2>4, WhileDown
<1>4. CASE Ready
  <2>1. /\ manager.step = "await" /\ daemon.step = "serving" /\ daemon' = daemon
        /\ manager' = [manager EXCEPT !.step = "commit"] /\ journal' = journal /\ content' = content
    BY <1>4 DEF Ready, Go
  <2>2. manager'.step = "commit" /\ manager'.act = n
    BY <1>2, <2>1 DEF ManagerRow
  <2>3. e.state \notin Unfinished
    BY <1>1, <2>1 DEF DaemonTells
  <2>4. IsWhole(content)
    BY <1>1, <2>3, EndedIsWhole
  <2>5. ManagerTells(content', e, manager')
    BY <2>1, <2>2, <2>3, <2>4 DEF ManagerTells, RollbackSteps
  <2>6. TakeTurns(manager', daemon', unit')
    BY <2>2 DEF TakeTurns
  <2>7. DaemonTells(content', e, manager', daemon')
    BY <1>1, <2>1, <2>2 DEF DaemonTells
  <2> QED BY <1>1, <2>1, <2>2, <2>5, <2>6, <2>7, SameActivation
<1>5. CASE Commit
  <2>1. /\ journal' = [journal EXCEPT ![n] = Remembered("ready")] /\ content' = content
        /\ manager' = [manager EXCEPT !.step = "idle"] /\ manager.step = "commit" /\ daemon' = daemon
    BY <1>5 DEF Commit, Write, Go
  <2>2. PICK f : f = Remembered("ready")
    OBVIOUS
  <2>3. f.state = "ready" /\ f.saved = e.saved
    BY <1>1, <2>2 DEF Remembered, JournalRow
  <2>4. journal'[n] = f /\ \A m \in Activations \ {n} : journal'[m] = journal[m]
    BY <1>2, <2>1, <2>2
  <2>5. manager'.step = "idle" /\ manager'.act = n
    BY <1>2, <2>1 DEF ManagerRow
  <2>6. IsWhole(content') /\ e.state \notin Unfinished
    BY <1>1, <2>1 DEF ManagerTells
  <2>7. JournalTells(content', f)
    BY <1>1, <2>3, <2>6 DEF JournalTells, Unfinished
  <2>8. TakeTurns(manager', daemon', unit')
    BY <2>5 DEF TakeTurns
  <2>9. daemon.act = 0
    BY <1>1, <2>6 DEF DaemonTells, Unfinished
  <2>10. DaemonTells(content', f, manager', daemon')
    BY <2>1, <2>3, <2>9 DEF DaemonTells, Unfinished
  <2>11. ManagerTells(content', f, manager')
    BY <2>5, IdleTells
  <2> QED BY <2>4, <2>5, <2>7, <2>8, <2>10, <2>11, SameActivation
<1> QED BY <1>3, <1>4, <1>5

\* The candidate is given up; no daemon is left running.
LEMMA GivenUpCore ==
  ASSUME Typed, Core, Covered', InstallFails \/ StartFails \/ NotReady \/ StopFails
  PROVE  Core'
<1>0. /\ manager.act \in Activations /\ journal' = journal /\ content' = content
      /\ manager.step \in {"start", "await"} /\ manager' = [manager EXCEPT !.step = "rollback"]
  BY DEF InstallFails, StartFails, NotReady, StopFails, Go, Typed, ManagerAt
<1> PICK n \in Activations : n = manager.act
  BY <1>0
<1> PICK e \in JournalRow : e = journal[n]
  BY DEF Typed
<1>1. JournalTells(content, e)
  BY <1>0 DEF Core, Current, Activations
<1>2. manager'.step = "rollback" /\ manager'.act = n /\ manager'.at = Artifacts
  BY <1>0 DEF ManagerRow, Typed, ManagerAt
<1>3. ManagerTells(content', e, manager')
  <2>1. Kept(content', e, (Artifacts + 1)..Artifacts)
    BY ActivationAssumption DEF ActivationAssumption, Kept
  <2> QED BY <1>2, <2>1 DEF ManagerTells, RollbackSteps
<1>4. daemon'.step = "down" /\ daemon'.act = 0
  <2>1. CASE InstallFails
    <3>1. daemon.step = "down" /\ daemon' = daemon
      BY <2>1 DEF InstallFails, Core, TakeTurns
    <3> QED BY <3>1 DEF Typed, DaemonAt
  <2>2. CASE StartFails \/ NotReady
    BY <2>2 DEF StartFails, NotReady, Down
  <2>3. CASE StopFails
    <3>1. daemon.step = "down" /\ daemon' = daemon
      BY <2>3 DEF StopFails, Covered
    <3> QED BY <3>1 DEF Typed, DaemonAt
  <2> QED BY <2>1, <2>2, <2>3
<1>5. TakeTurns(manager', daemon', unit') /\ DaemonTells(content', e, manager', daemon')
  BY <1>2, <1>4, DownTells DEF TakeTurns
<1> QED BY <1>0, <1>1, <1>2, <1>3, <1>5, SameActivation

\* The steps that put the artifacts back.
LEMMA BackCore ==
  ASSUME Typed, Core, Covered',
         \/ Rollback \/ RestoreOpens \/ RestoreWrites \/ RestoreChecks \/ RestoreFails
         \/ RolledBack \/ ReplaceFails
  PROVE  Core'
<1>0. /\ manager.act \in Activations /\ manager.step \in RollbackSteps \cup {"replace"}
      /\ daemon' = daemon
  BY DEF Rollback, RestoreOpens, RestoreWrites, RestoreChecks, RestoreFails, RolledBack,
         ReplaceFails, RollbackSteps, Typed, ManagerAt
<1> PICK n \in Activations : n = manager.act
  BY <1>0
<1> PICK e \in JournalRow : e = journal[n]
  BY DEF Typed
<1> PICK a \in 0..Artifacts : a = manager.at
  BY DEF Typed, ManagerRow
<1>1. JournalTells(content, e) /\ ManagerTells(content, e, manager) /\ Current = e
  BY <1>0 DEF Core, Current, Activations
<1>2. Artifacts \in Nat /\ e.done \in 0..Artifacts /\ e.pending \in 0..Artifacts
  BY ActivationAssumption DEF ActivationAssumption, JournalRow
<1>3. /\ manager \in ManagerRow /\ journal \in [Activations -> JournalRow]
      /\ content \in [Items -> Contents]
  BY DEF Typed
<1>4. daemon.step = "down"
  BY <1>0 DEF Core, TakeTurns, RollbackSteps
<1>5. CASE Rollback
  <2>1. /\ journal' = [journal EXCEPT ![n] = Remembered("rolling-back")] /\ content' = content
        /\ manager' = [manager EXCEPT !.step = "restore", !.at = a] /\ manager.step = "rollback"
    BY <1>5 DEF Rollback, Write, FirstRestored
  <2>2. PICK f : f = Remembered("rolling-back")
    OBVIOUS
  <2>3. f.state = "rolling-back" /\ f.done = a /\ f.saved = e.saved
    BY <1>1, <2>2 DEF Remembered, JournalRow
  <2>4. journal'[n] = f /\ \A m \in Activations \ {n} : journal'[m] = journal[m]
    BY <1>3, <2>1, <2>2
  <2>5. manager'.step = "restore" /\ manager'.act = n /\ manager'.at = a
    BY <1>3, <2>1 DEF ManagerRow
  <2>6. Kept(content', f, (a + 1)..Artifacts)
    BY <1>1, <2>1, <2>3 DEF ManagerTells, RollbackSteps, Kept
  <2>7. Items \ RestoreIds(f) \subseteq (a + 1)..Artifacts
    BY <1>2, <2>3 DEF RestoreIds, Items
  <2>8. JournalTells(content', f)
    BY <1>1, <2>3, <2>6, <2>7 DEF JournalTells, Kept
  <2>9. ManagerTells(content', f, manager')
    BY <2>3, <2>5, <2>6 DEF ManagerTells, RollbackSteps
  <2> QED BY <1>0, <1>4, <2>4, <2>5, <2>8, <2>9, WhileDown
<1>6. ASSUME manager.step \in RollbackSteps \ {"rollback"}
      PROVE  /\ e.state = "rolling-back" /\ a <= e.done
             /\ Kept(content, e, (a + 1)..Artifacts) /\ Kept(content, e, Items \ RestoreIds(e))
  BY <1>1, <1>6 DEF ManagerTells, JournalTells, Unfinished
<1>7. CASE RestoreOpens \/ RestoreWrites
  <2> PICK c : content' = [content EXCEPT ![a] = c]
    BY <1>1, <1>7 DEF RestoreOpens, RestoreWrites
  <2>1. PICK step \in {"copy", "verify"} :
          /\ content' = [content EXCEPT ![a] = c] /\ journal' = journal
          /\ manager' = [manager EXCEPT !.step = step]
          /\ manager.step \in RollbackSteps \ {"rollback"} /\ a > 0
    BY <1>7 DEF RestoreOpens, RestoreWrites, Go, RollbackSteps, Typed, ManagerAt
  <2>2. manager'.step = step /\ manager'.act = n /\ manager'.at = a
    BY <1>3, <2>1 DEF ManagerRow
  <2>3. a \in RestoreIds(e) /\ a \notin (a + 1)..Artifacts
    BY <1>2, <1>6, <2>1 DEF RestoreIds
  <2>4. Kept(content', e, (a + 1)..Artifacts) /\ Kept(content', e, Items \ RestoreIds(e))
    <3>1. \A i \in Items : i # a => content'[i] = content[i]
      BY <1>3, <2>1
    <3>2. (a + 1)..Artifacts \subseteq Items
      BY <1>2 DEF Items
    <3> QED BY <1>6, <2>1, <2>3, <3>1, <3>2 DEF Kept
  <2>5. JournalTells(content', e)
    BY <1>1, <1>6, <2>1, <2>4 DEF JournalTells
  <2>6. ManagerTells(content', e, manager')
    BY <1>6, <2>1, <2>2, <2>4 DEF ManagerTells, RollbackSteps
  <2> QED BY <1>0, <1>4, <2>1, <2>2, <2>5, <2>6, WhileDown
<1>8. ASSUME content' = content, GiveUp, manager.step \in RollbackSteps \ {"rollback"}
      PROVE  Core'
  <2>1. /\ journal' = [journal EXCEPT ![n] = [e EXCEPT !.state = "failed"]]
        /\ manager' = [manager EXCEPT !.step = "restart"]
    BY <1>1, <1>8 DEF GiveUp, Write, Go
  <2>2. PICK f : f = [e EXCEPT !.state = "failed"]
    OBVIOUS
  <2>3. f.state = "failed" /\ f.done = e.done /\ f.pending = e.pending /\ f.saved = e.saved
    BY <2>2 DEF JournalRow
  <2>4. journal'[n] = f /\ \A m \in Activations \ {n} : journal'[m] = journal[m]
    BY <1>3, <2>1, <2>2
  <2>5. manager'.step = "restart" /\ manager'.act = n
    BY <1>3, <2>1 DEF ManagerRow
  <2>6. JournalTells(content', f)
    BY <1>1, <1>6, <1>8, <2>3 DEF JournalTells, Kept, RestoreIds
  <2>7. ManagerTells(content', f, manager')
    BY <2>5, IdleTells
  <2> QED BY <1>0, <1>4, <2>4, <2>5, <2>6, <2>7, WhileDown
<1>9. CASE RestoreChecks
  <2>1. content' = content /\ manager.step = "verify" /\ a > 0
    BY <1>9 DEF RestoreChecks, Typed, ManagerAt
  <2>2. CASE GiveUp
    BY <1>8, <2>1, <2>2 DEF RollbackSteps
  <2>3. CASE /\ content[a] = e.saved[a] /\ journal' = journal
             /\ manager' = [manager EXCEPT !.step = "restore", !.at = @ - 1]
    <3>1. manager'.step = "restore" /\ manager'.act = n /\ manager'.at = a - 1
      BY <1>3, <2>3 DEF ManagerRow
    <3>2. Kept(content', e, a..Artifacts)
      BY <1>2, <1>6, <2>1, <2>3 DEF Kept, RollbackSteps
    <3>3. ManagerTells(content', e, manager')
      <4>1. (a - 1) + 1 = a /\ a - 1 <= e.done
        BY <1>2, <1>6, <2>1 DEF RollbackSteps
      <4> QED BY <1>6, <2>1, <3>1, <3>2, <4>1 DEF ManagerTells, RollbackSteps
    <3> QED BY <1>0, <1>1, <1>4, <2>1, <2>3, <3>1, <3>3, WhileDown
  <2> QED BY <1>1, <1>9, <2>2, <2>3 DEF RestoreChecks
<1>10. CASE RestoreFails
  BY <1>8, <1>10 DEF RestoreFails, RollbackSteps
<1>11. CASE RolledBack
  <2>1. /\ journal' = [journal EXCEPT ![n] = [e EXCEPT !.state = "rolled-back", !.pending = 0]]
        /\ content' = content /\ manager' = [manager EXCEPT !.step = "restart"]
        /\ manager.step = "restore" /\ a = 0
    BY <1>1, <1>11 DEF RolledBack, Write, Go
  <2>2. PICK f : f = [e EXCEPT !.state = "rolled-back", !.pending = 0]
    OBVIOUS
  <2>3. f.state = "rolled-back" /\ f.saved = e.saved
    BY <2>2 DEF JournalRow
  <2>4. journal'[n] = f /\ \A m \in Activations \ {n} : journal'[m] = journal[m]
    BY <1>3, <2>1, <2>2
  <2>5. manager'.step = "restart" /\ manager'.act = n
    BY <1>3, <2>1 DEF ManagerRow
  <2>6. Kept(content', f, Items)
    BY <1>2, <1>6, <2>1, <2>3 DEF Kept, Items, RollbackSteps
  <2>7. JournalTells(content', f)
    BY <1>1, <2>3, <2>6 DEF JournalTells, Unfinished
  <2>8. ManagerTells(content', f, manager')
    BY <2>5, IdleTells
  <2> QED BY <1>0, <1>4, <2>4, <2>5, <2>7, <2>8, WhileDown
<1>12. CASE ReplaceFails
  <2>1. content' = content /\ journal' = journal /\ manager.step = "replace"
        /\ manager' = [manager EXCEPT !.step = "rollback", !.failed = TRUE, !.at = @ - 1]
    BY <1>12 DEF ReplaceFails, Covered
  <2>2. manager'.step = "rollback" /\ manager'.act = n /\ manager'.at = a - 1
    BY <1>3, <2>1 DEF ManagerRow
  <2>3. Kept(content, e, a..Artifacts)
    BY <1>1, <2>1 DEF ManagerTells
  <2>4. ManagerTells(content', e, manager')
    <3>1. (a - 1) + 1 = a
      BY <1>2
    <3> QED BY <2>1, <2>2, <2>3, <3>1 DEF ManagerTells, RollbackSteps
  <2> QED BY <1>0, <1>1, <1>4, <2>1, <2>2, <2>4, WhileDown
<1> QED BY <1>5, <1>7, <1>9, <1>10, <1>11, <1>12

\* The manager starts the previous service, or fails to, or dies.
LEMMA EndsCore ==
  ASSUME Typed, Core, StartPrevious \/ RestartFails \/ ManagerDies
  PROVE  Core'
<1>0. /\ manager.act \in Activations /\ manager' = [manager EXCEPT !.step = "idle"]
      /\ journal' = journal /\ daemon' = daemon /\ content' = content
  BY DEF StartPrevious, RestartFails, ManagerDies, Go, Typed, ManagerAt
<1> PICK n \in Activations : n = manager.act
  BY <1>0
<1>1. JournalTells(content, journal[n]) /\ DaemonTells(content, journal[n], manager, daemon)
  BY <1>0 DEF Core, Current, Activations
<1>2. manager'.step = "idle" /\ manager'.act = n
  BY <1>0 DEF Typed, ManagerRow
<1>3. DaemonTells(content', journal'[n], manager', daemon')
  BY <1>0, <1>1, <1>2 DEF DaemonTells
<1>4. TakeTurns(manager', daemon', unit')
  BY <1>2 DEF TakeTurns
<1>5. ManagerTells(content', journal'[n], manager')
  BY <1>2, IdleTells
<1> QED BY <1>0, <1>1, <1>2, <1>3, <1>4, <1>5, SameActivation

\* An activation begins, when none that was interrupted is left.
LEMMA BeginCore ==
  ASSUME Typed, Core, Begin, Covered'
  PROVE  Core'
<1> PICK a \in 0..MaxActivations : a = manager.act
  BY DEF Typed, ManagerRow
<1> PICK n : n = a + 1
  OBVIOUS
<1> DEFINE e == [state |-> "staged", done |-> 0, pending |-> 0, saved |-> content]
<1>1. /\ n \in Activations /\ daemon' = Down /\ journal' = [journal EXCEPT ![n] = e]
      /\ manager' = [step |-> "staged", act |-> n, at |-> 1, failed |-> FALSE] /\ content' = content
      /\ \A m \in Activations : journal[m].state \notin Unfinished
  BY DEF Begin, Write, Covered, Typed
<1>2. /\ journal \in [Activations -> JournalRow] /\ content \in [Items -> Contents]
      /\ MaxActivations \in Nat
  BY ActivationAssumption DEF ActivationAssumption, Typed
<1>3. journal'[n] = e /\ \A m \in Activations \ {n} : journal'[m] = journal[m]
  BY <1>1, <1>2
<1>4. IsWhole(content)
  <2>1. CASE a = 0
    BY <2>1 DEF Core
  <2>2. CASE a # 0
    <3>1. a \in Activations /\ JournalTells(content, journal[a]) /\ journal[a] \in JournalRow
      BY <1>2, <2>2 DEF Core, Current, Activations
    <3> QED BY <1>1, <3>1, EndedIsWhole
  <2> QED BY <2>1, <2>2
<1>5. OthersEnded(journal', n)
  <2>1. \A m \in Activations \ {n} : m > n => m > a /\ m # a
    BY <1>2 DEF Activations
  <2> QED BY <1>1, <1>3, <2>1 DEF OthersEnded, Core
<1>6. JournalTells(content, e) /\ ManagerTells(content, e, manager')
  BY <1>1, <1>4 DEF JournalTells, ManagerTells, RollbackSteps, Kept, Unfinished
<1>7. TakeTurns(manager', daemon', unit') /\ DaemonTells(content, e, manager', daemon')
  BY <1>1 DEF TakeTurns, DaemonTells, Down, Begin
<1>8. manager'.act = n /\ n # 0 /\ Current' = e
  BY <1>1, <1>3 DEF Current, Activations
<1> QED BY <1>1, <1>5, <1>6, <1>7, <1>8 DEF Core

\* The steps of the daemon outside the restoring of one activation.
LEMMA ServiceCore ==
  ASSUME Typed, Core, Covered', UnitStarts \/ Start \/ Serve \/ DaemonDies
  PROVE  Core'
<1>1. manager' = manager /\ journal' = journal /\ content' = content
  BY DEF UnitStarts, Start, Serve, DaemonDies
<1>2. /\ daemon \in DaemonRow /\ manager \in ManagerRow /\ TakeTurns(manager, daemon, unit)
      /\ DaemonAt
  BY DEF Typed, Core
<1>3. TakeTurns(manager', daemon', unit')
  <2>1. CASE UnitStarts
    BY <1>2, <2>1 DEF UnitStarts, TakeTurns
  <2>2. CASE Start
    <3>1. manager.step \notin RollbackSteps /\ unit = "active" /\ unit' = unit
      BY <2>2 DEF Start, Covered
    <3>2. manager.step \in {"idle", "await", "commit", "restart"}
      BY <1>2, <3>1 DEF TakeTurns, ManagerRow, ManagerSteps
    <3> QED BY <1>1, <3>2 DEF TakeTurns
  <2>3. CASE Serve
    BY <1>1, <1>2, <2>3 DEF Serve, TakeTurns, history
  <2>4. CASE DaemonDies
    BY <1>1, <1>2, <2>4 DEF DaemonDies, Down, TakeTurns
  <2> QED BY <2>1, <2>2, <2>3, <2>4
<1>4. CASE manager.act = 0
  <2>1. IsWhole(content) /\ daemon.act = 0 /\ manager.step = "idle"
    BY <1>4 DEF Core
  <2>2. daemon'.act = 0
    BY <1>2, <2>1 DEF UnitStarts, Start, Serve, DaemonDies, Down, DaemonRow
  <2> QED BY <1>1, <1>3, <1>4, <2>1, <2>2 DEF Core
<1>5. CASE manager.act # 0
  <2> PICK n \in Activations : n = manager.act
    BY <1>2, <1>5 DEF ManagerRow, Activations
  <2> PICK e \in JournalRow : e = journal[n]
    BY DEF Typed
  <2>1. /\ JournalTells(content, e) /\ ManagerTells(content, e, manager)
        /\ DaemonTells(content, e, manager, daemon)
    BY <1>5 DEF Core, Current
  <2>2. DaemonTells(content', e, manager', daemon')
    <3>1. CASE UnitStarts
      BY <1>1, <2>1, <3>1 DEF UnitStarts
    <3>2. CASE Start
      <4>1. daemon' = [step |-> "recovering", todo |-> {m \in Activations : journal[m].state # "none"},
                       act |-> 0, left |-> {}]
        BY <3>2 DEF Start
      <4>2. e.state # "none"
        BY <2>1 DEF JournalTells
      <4> QED BY <1>1, <4>1, <4>2 DEF DaemonTells
    <3>3. CASE Serve
      <4>1. /\ daemon' = [daemon EXCEPT !.step = "serving"]
            /\ daemon.step = "recovering" /\ daemon.act = 0 /\ daemon.todo = {}
        BY <3>3 DEF Serve
      <4>2. daemon'.step = "serving" /\ daemon'.act = 0
        BY <1>2, <4>1 DEF DaemonRow
      <4>3. e.state \notin Unfinished
        BY <2>1, <4>1 DEF DaemonTells, Activations
      <4> QED BY <4>2, <4>3 DEF DaemonTells
    <3>4. CASE DaemonDies
      BY <3>4, DownTells DEF DaemonDies, Down
    <3> QED BY <3>1, <3>2, <3>3, <3>4
  <2> QED BY <1>1, <1>3, <2>1, <2>2, SameActivation
<1> QED BY <1>4, <1>5

\* The daemon looks at an activation.
LEMMA VisitCore ==
  ASSUME Typed, Core, NEW v \in Activations, Visit(v)
  PROVE  Core'
<1>1. /\ daemon \in DaemonRow /\ manager \in ManagerRow /\ TakeTurns(manager, daemon, unit)
      /\ journal \in [Activations -> JournalRow]
  BY DEF Typed, Core
<1>2. /\ manager' = manager /\ content' = content /\ unit' = unit
      /\ daemon.act = 0 /\ daemon.step = "recovering"
  BY DEF Visit
<1>3. CASE ~Incomplete(journal[v])
  <2>1. journal' = journal /\ daemon' = [daemon EXCEPT !.todo = @ \ {v}]
    BY <1>3 DEF Visit
  <2>2. daemon'.act = 0 /\ daemon'.step = "recovering" /\ daemon'.todo = daemon.todo \ {v}
    BY <1>1, <1>2, <2>1 DEF DaemonRow
  <2>3. TakeTurns(manager', daemon', unit')
    BY <1>1, <1>2, <2>2 DEF TakeTurns
  <2>4. CASE manager.act = 0
    BY <1>2, <2>1, <2>2, <2>3, <2>4 DEF Core
  <2>5. CASE manager.act # 0
    <3> PICK n \in Activations : n = manager.act
      BY <1>1, <2>5 DEF ManagerRow, Activations
    <3>1. /\ JournalTells(content, journal[n]) /\ ManagerTells(content, journal[n], manager)
          /\ DaemonTells(content, journal[n], manager, daemon)
      BY <2>5 DEF Core, Current
    <3>2. DaemonTells(content', journal'[n], manager', daemon')
      BY <1>2, <1>3, <2>1, <2>2, <3>1 DEF DaemonTells, Incomplete
    <3> QED BY <1>2, <2>1, <2>3, <3>1, <3>2, SameActivation
  <2> QED BY <2>4, <2>5
<1>4. CASE Incomplete(journal[v])
  <2>1. v = manager.act /\ v # 0
    BY <1>4 DEF Core, OthersEnded, Incomplete, Activations
  <2> PICK e \in JournalRow : e = journal[v]
    BY <1>1
  <2>2. JournalTells(content, e) /\ e.state \in Unfinished /\ ManagerTells(content, e, manager)
    BY <1>4, <2>1 DEF Core, Current, Incomplete
  <2>3. manager.step \in {"idle", "await", "restart"}
    BY <1>1, <1>2, <2>2 DEF TakeTurns, ManagerTells
  <2>4. /\ journal' = [journal EXCEPT ![v] = [e EXCEPT !.state = "rolling-back"]]
        /\ daemon' = [daemon EXCEPT !.todo = @ \ {v}, !.act = v, !.left = RestoreIds(e)]
    BY <1>4 DEF Visit, Write
  <2>5. PICK f : f = [e EXCEPT !.state = "rolling-back"]
    OBVIOUS
  <2>6. f.state = "rolling-back" /\ f.done = e.done /\ f.pending = e.pending /\ f.saved = e.saved
    BY <2>5 DEF JournalRow
  <2>7. journal'[v] = f /\ \A m \in Activations \ {v} : journal'[m] = journal[m]
    BY <1>1, <2>4, <2>5
  <2>8. daemon'.act = v /\ daemon'.step = "recovering" /\ daemon'.left = RestoreIds(e)
    BY <1>1, <1>2, <2>4 DEF DaemonRow
  <2>9. JournalTells(content', f) /\ RestoreIds(f) = RestoreIds(e)
    BY <1>2, <2>2, <2>6 DEF JournalTells, Kept, RestoreIds, Unfinished
  <2>10. Kept(content', f, Items \ daemon'.left)
    BY <2>6, <2>8, <2>9 DEF JournalTells, Unfinished
  <2>11. DaemonTells(content', f, manager', daemon')
    BY <1>2, <2>1, <2>6, <2>8, <2>9, <2>10 DEF DaemonTells
  <2>12. TakeTurns(manager', daemon', unit')
    BY <1>2, <2>3 DEF TakeTurns
  <2>13. ManagerTells(content', f, manager')
    BY <1>2, <2>3, IdleTells
  <2> QED BY <1>2, <2>1, <2>7, <2>9, <2>11, <2>12, <2>13, SameActivation
<1> QED BY <1>3, <1>4

\* The daemon restores an activation.
LEMMA RecoverCore ==
  ASSUME Typed, Core, RecoverOpens \/ RecoverWrites \/ RecoverChecks \/ RecoverFails \/ Recovered
  PROVE  Core'
<1>1. /\ daemon \in DaemonRow /\ manager \in ManagerRow /\ TakeTurns(manager, daemon, unit)
      /\ journal \in [Activations -> JournalRow] /\ content \in [Items -> Contents]
      /\ manager' = manager /\ unit' = unit /\ daemon.act # 0
      /\ daemon.step \in {"recovering", "copy", "verify"}
  BY DEF Typed, Core, RecoverOpens, RecoverWrites, RecoverChecks, RecoverFails, Recovered,
         DaemonRow, DaemonAt
<1>2. daemon.act = manager.act /\ manager.act \in Activations
  BY <1>1 DEF Core, DaemonTells, ManagerRow, Activations
<1> PICK n \in Activations : n = manager.act
  BY <1>2
<1> PICK e \in JournalRow : e = journal[n]
  BY <1>1
<1>3. /\ JournalTells(content, e) /\ e.state = "rolling-back" /\ daemon.left \subseteq RestoreIds(e)
      /\ Kept(content, e, Items \ daemon.left) /\ ManagerTells(content, e, manager)
  BY <1>1, <1>2 DEF Core, Current, DaemonTells, Activations
<1>4. manager.step \in {"idle", "await", "restart"}
  BY <1>1, <1>3 DEF TakeTurns, ManagerTells, Unfinished
<1>5. TakeTurns(manager', daemon', unit')
  BY <1>1, <1>4 DEF TakeTurns
<1>6. ASSUME NEW c, NEW f PROVE ManagerTells(c, f, manager')
  BY <1>1, <1>4, IdleTells
<1>7. CASE RecoverOpens \/ RecoverWrites
  <2> PICK i : i = NextRestored
    OBVIOUS
  <2> PICK c : content' = [content EXCEPT ![i] = c]
    BY <1>7 DEF RecoverOpens, RecoverWrites
  <2>1. PICK step \in {"copy", "verify"} :
          /\ content' = [content EXCEPT ![i] = c] /\ journal' = journal
          /\ daemon' = [daemon EXCEPT !.step = step]
    BY <1>7 DEF RecoverOpens, RecoverWrites
  <2>2. i \in daemon.left
    BY <1>7, NextIsLeft DEF RecoverOpens, RecoverWrites, Typed, DaemonAt
  <2>3. daemon'.act = n /\ daemon'.step = step /\ daemon'.left = daemon.left
    BY <1>1, <1>2, <2>1 DEF DaemonRow
  <2>4. Kept(content', e, Items \ daemon'.left)
    BY <1>1, <1>3, <2>1, <2>2, <2>3 DEF Kept
  <2>5. JournalTells(content', e)
    BY <1>3, <2>3, <2>4 DEF JournalTells, Kept
  <2>6. DaemonTells(content', e, manager', daemon')
    BY <1>1, <1>3, <2>3, <2>4 DEF DaemonTells
  <2> QED BY <1>1, <1>5, <1>6, <2>1, <2>5, <2>6, SameActivation
<1>8. ASSUME content' = content, RefuseStart PROVE Core'
  <2>1. /\ journal' = [journal EXCEPT ![n] = [e EXCEPT !.state = "failed"]] /\ daemon' = Down
    BY <1>2, <1>8 DEF RefuseStart, Write
  <2>2. PICK f : f = [e EXCEPT !.state = "failed"]
    OBVIOUS
  <2>3. f.state = "failed" /\ f.done = e.done /\ f.pending = e.pending /\ f.saved = e.saved
    BY <2>2 DEF JournalRow
  <2>4. journal'[n] = f /\ \A m \in Activations \ {n} : journal'[m] = journal[m]
    BY <1>1, <2>1, <2>2
  <2>5. Kept(content', f, Items \ RestoreIds(f))
    BY <1>3, <1>8, <2>3 DEF JournalTells, Unfinished, Kept, RestoreIds
  <2>6. JournalTells(content', f)
    BY <1>3, <2>3, <2>5 DEF JournalTells
  <2>7. DaemonTells(content', f, manager', daemon')
    BY <2>1, DownTells DEF Down
  <2> QED BY <1>1, <1>5, <1>6, <2>4, <2>6, <2>7, SameActivation
<1>9. CASE RecoverChecks
  <2>1. content' = content
    BY <1>9 DEF RecoverChecks
  <2>2. CASE RefuseStart
    BY <1>8, <2>1, <2>2
  <2>3. CASE ~RefuseStart
    <3> PICK i : i = NextRestored
      OBVIOUS
    <3>1. /\ daemon' = [daemon EXCEPT !.step = "recovering", !.left = @ \ {i}]
          /\ journal' = journal /\ content[i] = e.saved[i]
      BY <1>2, <1>9, <2>3 DEF RecoverChecks
    <3>2. daemon'.act = n /\ daemon'.step = "recovering" /\ daemon'.left = daemon.left \ {i}
      BY <1>1, <1>2, <3>1 DEF DaemonRow
    <3>3. Kept(content', e, Items \ daemon'.left)
      BY <1>3, <2>1, <3>1, <3>2 DEF Kept
    <3>4. DaemonTells(content', e, manager', daemon')
      BY <1>1, <1>3, <3>2, <3>3 DEF DaemonTells
    <3> QED BY <1>1, <1>3, <1>5, <1>6, <2>1, <3>1, <3>4, SameActivation
  <2> QED BY <2>2, <2>3
<1>10. CASE RecoverFails
  BY <1>8, <1>10 DEF RecoverFails
<1>11. CASE Recovered
  <2>1. /\ content' = content /\ daemon' = [daemon EXCEPT !.act = 0] /\ daemon.left = {}
        /\ journal' = [journal EXCEPT ![n] = [e EXCEPT !.state = "rolled-back", !.pending = 0]]
    BY <1>2, <1>11 DEF Recovered, Write
  <2>2. PICK f : f = [e EXCEPT !.state = "rolled-back", !.pending = 0]
    OBVIOUS
  <2>3. f.state = "rolled-back" /\ f.saved = e.saved
    BY <2>2 DEF JournalRow
  <2>4. journal'[n] = f /\ \A m \in Activations \ {n} : journal'[m] = journal[m]
    BY <1>1, <2>1, <2>2
  <2>5. daemon'.act = 0
    BY <1>1, <2>1 DEF DaemonRow
  <2>6. JournalTells(content', f)
    BY <1>3, <2>1, <2>3 DEF JournalTells, Kept, Unfinished
  <2>7. DaemonTells(content', f, manager', daemon')
    BY <2>3, <2>5 DEF DaemonTells, Unfinished
  <2> QED BY <1>1, <1>5, <1>6, <2>4, <2>6, <2>7, SameActivation
<1> QED BY <1>7, <1>9, <1>10, <1>11

-----------------------------------------------------------------------------
(* Theorems. *)

\* What was late, overlapped or contested stays so.
LEMMA CoveredBefore == Typed /\ [Next]_vars /\ Covered' => Covered
<1> SUFFICES ASSUME Typed, [Next]_vars, Covered' PROVE Covered
  OBVIOUS
<1>1. (late => late') /\ (overlapped => overlapped') /\ (contested => contested')
  <2>1. CASE ManagerStep
    BY <2>1 DEF ManagerStep, Activating, Pend, Replace, Record, StartCandidate, Ready, Commit,
         Rollback, RestoreOpens, RestoreWrites, RestoreChecks, RolledBack, StartPrevious, history,
         Typed
  <2>2. CASE ManagerFails \/ ManagerDies
    BY <2>2 DEF ManagerFails, ManagerDies, ReplaceFails, InstallFails, StartFails, NotReady,
         StopFails, RestoreFails, RestartFails, history, Typed
  <2>3. CASE Begin \/ UnitStarts \/ RecoverFails \/ DaemonDies \/ UNCHANGED vars
    BY <2>3 DEF Begin, UnitStarts, RecoverFails, DaemonDies, vars, history, Typed
  <2>4. CASE DaemonStep
    BY <2>4 DEF DaemonStep, Start, Visit, RecoverOpens, RecoverWrites, RecoverChecks, Recovered,
         Serve, history, Typed
  <2> QED BY <2>1, <2>2, <2>3, <2>4 DEF Next
<1> QED BY <1>1 DEF Covered

LEMMA InitInv == Init => Inv
BY InitTyped, InitCore DEF Inv

LEMMA NextInv == Inv /\ [Next]_vars => Inv'
<1> SUFFICES ASSUME Inv, [Next]_vars PROVE Inv'
  OBVIOUS
<1>1. Typed /\ Typed'
  BY NextTyped DEF Inv
<1>2. ASSUME Covered' PROVE Core'
  <2>1. Core
    BY <1>1, <1>2, CoveredBefore DEF Inv
  <2>2. CASE UNCHANGED vars
    <3>1. Current' = Current
      BY <2>2 DEF vars, Current
    <3> QED BY <2>1, <2>2, <3>1 DEF vars, Core
  <2>3. CASE ManagerStep \/ ManagerFails \/ ManagerDies
    BY <1>1, <1>2, <2>1, <2>3, ForwardCore, AwaitCore, GivenUpCore, BackCore, EndsCore
       DEF ManagerStep, ManagerFails
  <2>4. CASE Begin
    BY <1>1, <1>2, <2>1, <2>4, BeginCore
  <2>5. CASE UnitStarts \/ DaemonStep \/ RecoverFails \/ DaemonDies
    BY <1>1, <1>2, <2>1, <2>5, ServiceCore, VisitCore, RecoverCore DEF DaemonStep
  <2> QED BY <2>2, <2>3, <2>4, <2>5 DEF Next
<1> QED BY <1>1, <1>2 DEF Inv

LEMMA Invariant == Spec => []Inv
BY InitInv, NextInv, PTL DEF Spec

\* In the cases that are covered (no operation failed after its effect, no activation began on
\* top of an interrupted one, no daemon ran while the manager rolled back), a daemon that serves
\* sees one whole set of artifacts (Activation.ServesWholeSet), wherever the manager or earlier
\* daemons died, however the candidate was given up and however many restores failed.
THEOREM ServesWhole == Spec => []ServesWholeSet
<1>1. Inv => ServesWholeSet
  <2> SUFFICES ASSUME Typed, Core, daemon.step = "serving" PROVE ServesWholeSet
    BY DEF Inv, ServesWholeSet
  <2>1. IsWhole(content)
    <3>1. CASE manager.act = 0
      BY <3>1 DEF Core
    <3>2. CASE manager.act # 0
      <4>1. Current \in JournalRow
        BY <3>2 DEF Typed, ManagerRow, Current, Activations
      <4>2. JournalTells(content, Current) /\ Current.state \notin Unfinished
        BY <3>2 DEF Core, DaemonTells
      <4> QED BY <4>1, <4>2, EndedIsWhole
    <3> QED BY <3>1, <3>2
  <2>2. PICK k \in 0..MaxActivations : \A i \in Items : content[i] = k
    BY <2>1 DEF IsWhole
  <2>3. content = [i \in Items |-> k]
    BY <2>2 DEF Typed
  <2> QED BY <2>3 DEF ServesWholeSet
<1> QED BY <1>1, Invariant, PTL

\* In the same cases, when the journal of the latest activation says rolled-back, every artifact
\* is exactly what it was (Activation.RolledBackExactly), whoever restored it and however often
\* that was interrupted.
THEOREM RollbackExact == Spec => []RolledBackExactly
<1>1. Inv => RolledBackExactly
  <2> SUFFICES ASSUME Typed, Core, manager.act > 0, Current.state = "rolled-back"
               PROVE  content = Current.saved
    BY DEF Inv, RolledBackExactly
  <2>1. Current \in JournalRow /\ manager.act # 0
    BY DEF Typed, ManagerRow, Current, Activations
  <2>2. \A i \in Items : content[i] = Current.saved[i]
    BY <2>1 DEF Core, JournalTells, Kept
  <2>3. Current.saved \in [Items -> Contents] /\ content \in [Items -> Contents]
    BY <2>1 DEF JournalRow, Typed
  <2> QED BY <2>2, <2>3
<1> QED BY <1>1, Invariant, PTL
=============================================================================
