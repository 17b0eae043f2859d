------------------------------ MODULE Activation ------------------------------
(***************************************************************************)
(* Release activation (release/activation-service.ts): the release manager *)
(* replaces a set of files one by one under a durable journal and waits    *)
(* for the candidate daemon; every daemon that starts rolls back the       *)
(* activations whose journal is not finished, before it serves.            *)
(*                                                                         *)
(* The manager and the daemon are two processes; systemd starts the daemon *)
(* whenever its unit is active.  Either dies at any step, and an operation *)
(* on a file or on systemd fails.  Journal writes are atomic (a rename)    *)
(* and do not fail here; a restore overwrites the file in place.  The      *)
(* content of an artifact is the number of the activation it belongs to.   *)
(* Nobody starts the service by hand while the manager works.              *)
(***************************************************************************)
EXTENDS Integers, FiniteSetsExt

CONSTANTS
  Artifacts,       \* number of artifacts; the last one is the package pointer
  MaxActivations,  \* bound: activations
  MaxCrashes,      \* bound: deaths of a process
  MaxFaults        \* bound: failing operations

ASSUME ActivationAssumption ==
  /\ Artifacts \in Nat \ {0} /\ MaxActivations \in Nat
  /\ MaxCrashes \in Nat /\ MaxFaults \in Nat

VARIABLES
  content,     \* what every active path holds
  journal,     \* of every activation
  manager,     \* step of the release manager, and the artifact it is at
  daemon,      \* step of the daemon and of its recovery
  unit,        \* what systemd has been told: to keep the service up or not
  crashes, faults,
  late,        \* history: an operation has failed after its effect
  overlapped,  \* history: an activation began before an interrupted one was recovered
  contested    \* history: a daemon ran while the manager rolled back

vars == <<content, journal, manager, daemon, unit, crashes, faults, late, overlapped, contested>>

Items == 1..Artifacts
Activations == 1..MaxActivations
Pointer == Artifacts
Torn == -1
Contents == {Torn} \cup 0..MaxActivations

Unfinished == {"activating", "rolling-back", "failed"}
JournalStates == {"none", "staged", "rolled-back", "ready"} \cup Unfinished

\* The steps of activate that roll back; the last three restore one artifact.
RollbackSteps == {"rollback", "restore", "copy", "verify"}
ManagerSteps ==
  {"idle", "staged", "pending", "replace", "record", "start", "await", "commit", "restart"}
    \cup RollbackSteps

\* The type of every variable.
TypeOK ==
  /\ content \in [Items -> Contents]
  /\ \A n \in Activations :
       /\ journal[n].state \in JournalStates
       /\ journal[n].done \in 0..Artifacts /\ journal[n].pending \in 0..Artifacts
       /\ journal[n].saved \in [Items -> Contents]
  /\ DOMAIN journal = Activations
  /\ manager \in [step : ManagerSteps, act : 0..MaxActivations, at : 0..Artifacts, failed : BOOLEAN]
  /\ daemon.step \in {"down", "recovering", "copy", "verify", "serving"}
  /\ daemon.todo \subseteq Activations /\ daemon.act \in 0..MaxActivations
  /\ daemon.left \subseteq Items
  /\ unit \in {"active", "stopped"}
  /\ crashes \in 0..MaxCrashes /\ faults \in 0..MaxFaults
  /\ late \in BOOLEAN /\ overlapped \in BOOLEAN /\ contested \in BOOLEAN

Down == [step |-> "down", todo |-> {}, act |-> 0, left |-> {}]

Init ==
  /\ content = [i \in Items |-> 0]
  /\ journal = [n \in Activations |->
                  [state |-> "none", done |-> 0, pending |-> 0, saved |-> [i \in Items |-> 0]]]
  /\ manager = [step |-> "idle", act |-> 0, at |-> 0, failed |-> FALSE]
  /\ daemon = [Down EXCEPT !.step = "serving"] /\ unit = "active"
  /\ crashes = 0 /\ faults = 0 /\ late = FALSE /\ overlapped = FALSE /\ contested = FALSE

history == <<crashes, faults, late, overlapped, contested>>

\* A fault is counted.
Fails == faults < MaxFaults /\ faults' = faults + 1

\* writeJournal, of the present activation.
Write(n, entry) == journal' = [journal EXCEPT ![n] = entry]

-----------------------------------------------------------------------------
(* The release manager. *)

\* systemctl stop; the active files are copied to the rollback directory, the journal is
\* written.  Nothing looks at journals of earlier activations.
Begin ==
  LET n == manager.act + 1
  IN /\ manager.step = "idle" /\ n \in Activations
     /\ daemon' = Down /\ unit' = "stopped"
     /\ Write(n, [state |-> "staged", done |-> 0, pending |-> 0, saved |-> content])
     /\ manager' = [step |-> "staged", act |-> n, at |-> 1, failed |-> FALSE]
     /\ overlapped' = (overlapped \/ \E m \in Activations : journal[m].state \in Unfinished)
     /\ UNCHANGED <<content, crashes, faults, late, contested>>

Current == journal[manager.act]

\* The manager goes on to a step.
Go(step) == manager' = [manager EXCEPT !.step = step]

Activating ==
  /\ manager.step = "staged"
  /\ Write(manager.act, [Current EXCEPT !.state = "activating"])
  /\ Go("pending")
  /\ UNCHANGED <<content, daemon, unit, history>>

\* The journal names the artifact before it is touched.
Pend ==
  /\ manager.step = "pending"
  /\ Write(manager.act, [Current EXCEPT !.pending = manager.at])
  /\ Go("replace")
  /\ UNCHANGED <<content, daemon, unit, history>>

\* renameSync of the copy (or rmSync), the last one for the pointer.
Replaced == [content EXCEPT ![manager.at] = manager.act]

Replace ==
  /\ manager.step = "replace"
  /\ content' = Replaced
  /\ Go("record")
  /\ UNCHANGED <<journal, daemon, unit, history>>

\* The catch clause is entered: only artifacts recorded as replaced will be restored.
ReplaceFails ==
  /\ manager.step = "replace" /\ Fails
  /\ \/ content' = content /\ UNCHANGED late
     \/ content' = Replaced /\ late' = TRUE
  /\ manager' = [manager EXCEPT !.step = "rollback", !.failed = TRUE, !.at = @ - 1]
  /\ UNCHANGED <<journal, daemon, unit, crashes, overlapped, contested>>

\* The artifact is replaced; after the pointer it is the candidate's turn.
Record ==
  /\ manager.step = "record"
  /\ Write(manager.act, [Current EXCEPT !.done = manager.at, !.pending = 0])
  /\ manager' = IF manager.at = Pointer THEN [manager EXCEPT !.step = "start"]
                ELSE [manager EXCEPT !.step = "pending", !.at = @ + 1]
  /\ UNCHANGED <<content, daemon, unit, history>>

\* The readiness hook: install, and systemctl start, which waits for the unit's ExecStartPost.
StartCandidate ==
  /\ manager.step = "start"
  /\ unit' = "active"
  /\ Go("await")
  /\ UNCHANGED <<content, journal, daemon, history>>

\* install fails, or systemctl start without an effect.
InstallFails ==
  /\ manager.step = "start" /\ Fails
  /\ Go("rollback")
  /\ UNCHANGED <<content, journal, daemon, unit, crashes, late, overlapped, contested>>

\* The candidate answers to wait-ready and to waitReady.
Ready ==
  /\ manager.step = "await" /\ daemon.step = "serving"
  /\ Go("commit")
  /\ UNCHANGED <<content, journal, daemon, unit, history>>

\* systemctl start fails: it is outside the try that stops the candidate.  systemd ends
\* the daemon whose wait-ready failed and starts it again (Restart=on-failure).
StartFails ==
  /\ manager.step = "await"
  /\ daemon' = Down
  /\ Go("rollback")
  /\ UNCHANGED <<content, journal, unit, history>>

\* waitReady gives up, and the candidate is stopped.
NotReady ==
  /\ manager.step = "await"
  /\ daemon' = Down /\ unit' = "stopped"
  /\ Go("rollback")
  /\ UNCHANGED <<content, journal, history>>

\* waitReady gives up, and so does systemctl stop: its error is swallowed.
StopFails ==
  /\ manager.step = "await" /\ Fails
  /\ contested' = (contested \/ daemon.step # "down")
  /\ Go("rollback")
  /\ UNCHANGED <<content, journal, daemon, unit, crashes, late, overlapped>>

\* The journal is written from the memory of the manager.
Remembered(state) ==
  [Current EXCEPT !.state = state, !.done = manager.at,
                  !.pending = IF manager.failed THEN manager.at + 1 ELSE 0]

Commit ==
  /\ manager.step = "commit"
  /\ Write(manager.act, Remembered("ready"))
  /\ Go("idle")
  /\ UNCHANGED <<content, daemon, unit, history>>

\* Mutant: the rollback begins with the artifact before the last one replaced.
FirstRestoredPrevious == IF manager.at = 0 THEN 0 ELSE manager.at - 1

\* Mutant: the rollback begins behind the last artifact replaced.
FirstRestoredNext == manager.at + 1

\* The restore goes back from the last artifact replaced.
FirstRestored == manager.at

Rollback ==
  /\ manager.step = "rollback"
  /\ Write(manager.act, Remembered("rolling-back"))
  /\ manager' = [manager EXCEPT !.step = "restore", !.at = FirstRestored]
  /\ UNCHANGED <<content, daemon, unit, history>>

\* restoreArtifact: the copy truncates the active file, fills it, and is compared.
RestoreOpens ==
  /\ manager.step = "restore" /\ manager.at > 0
  /\ content' = [content EXCEPT ![manager.at] = Torn]
  /\ Go("copy")
  /\ UNCHANGED <<journal, daemon, unit, history>>

RestoreWrites ==
  /\ manager.step = "copy"
  /\ content' = [content EXCEPT ![manager.at] = Current.saved[manager.at]]
  /\ Go("verify")
  /\ UNCHANGED <<journal, daemon, unit, history>>

\* The journal says failed; the manager starts the previous service all the same.
GiveUp == Write(manager.act, [Current EXCEPT !.state = "failed"]) /\ Go("restart")

RestoreChecks ==
  /\ manager.step = "verify"
  /\ IF content[manager.at] = Current.saved[manager.at]
     THEN manager' = [manager EXCEPT !.step = "restore", !.at = @ - 1] /\ UNCHANGED journal
     ELSE GiveUp
  /\ UNCHANGED <<content, daemon, unit, history>>

RestoreFails ==
  /\ manager.step \in {"restore", "copy", "verify"} /\ manager.at > 0 /\ Fails
  /\ GiveUp
  /\ UNCHANGED <<content, daemon, unit, crashes, late, overlapped, contested>>

RolledBack ==
  /\ manager.step = "restore" /\ manager.at = 0
  /\ Write(manager.act, [Current EXCEPT !.state = "rolled-back", !.pending = 0])
  /\ Go("restart")
  /\ UNCHANGED <<content, daemon, unit, history>>

\* The catch of upgrade: the previous service is installed and started; a unit that is
\* active stays as it is.
StartPrevious ==
  /\ manager.step = "restart"
  /\ unit' = "active"
  /\ Go("idle")
  /\ UNCHANGED <<content, journal, daemon, history>>

\* install fails.
RestartFails ==
  /\ manager.step = "restart" /\ Fails
  /\ Go("idle")
  /\ UNCHANGED <<content, journal, daemon, unit, crashes, late, overlapped, contested>>

\* The manager dies; an activation it had begun stays as it is, and so does the unit.
ManagerDies ==
  /\ manager.step # "idle" /\ crashes < MaxCrashes
  /\ crashes' = crashes + 1
  /\ Go("idle")
  /\ UNCHANGED <<content, journal, daemon, unit, faults, late, overlapped, contested>>

-----------------------------------------------------------------------------
(* The daemon: recoverIncomplete, then the service. *)

\* A unit that was stopped starts again at boot, or when a person starts it.
UnitStarts ==
  /\ manager.step = "idle" /\ unit = "stopped"
  /\ unit' = "active"
  /\ UNCHANGED <<content, journal, manager, daemon, history>>

\* systemd starts the daemon, first or again.
Start ==
  /\ daemon.step = "down" /\ unit = "active"
  /\ daemon' = [step |-> "recovering", todo |-> {n \in Activations : journal[n].state # "none"},
                act |-> 0, left |-> {}]
  /\ contested' = (contested \/ manager.step \in RollbackSteps)
  /\ UNCHANGED <<content, journal, manager, unit, crashes, faults, late, overlapped>>

\* Mutant: the artifact that was being replaced is forgotten.
RestoreIdsDone(entry) == 1..entry.done

\* Those replaced and the one that may have been.
RestoreIds(entry) == (1..entry.done) \cup ({entry.pending} \ {0})

\* Mutant: only an activation that was interrupted is rolled back, not a rollback.
IncompleteActivating(entry) == entry.state = "activating"

\* The journals that are rolled back.
Incomplete(entry) == entry.state \in Unfinished

\* The directories are visited in no particular order.
Visit(n) ==
  /\ daemon.step = "recovering" /\ daemon.act = 0 /\ n \in daemon.todo
  /\ IF Incomplete(journal[n])
     THEN /\ Write(n, [journal[n] EXCEPT !.state = "rolling-back"])
          /\ daemon' = [daemon EXCEPT !.todo = @ \ {n}, !.act = n, !.left = RestoreIds(journal[n])]
     ELSE /\ UNCHANGED journal
          /\ daemon' = [daemon EXCEPT !.todo = @ \ {n}]
  /\ UNCHANGED <<content, manager, unit, history>>

\* The journal lists the pointer first and is followed backwards.
NextRestored == IF daemon.left = {Pointer} THEN Pointer ELSE Max(daemon.left \ {Pointer})

\* restoreArtifact again.
RecoverOpens ==
  /\ daemon.step = "recovering" /\ daemon.act # 0 /\ daemon.left # {}
  /\ content' = [content EXCEPT ![NextRestored] = Torn]
  /\ daemon' = [daemon EXCEPT !.step = "copy"]
  /\ UNCHANGED <<journal, manager, unit, history>>

RecoverWrites ==
  /\ daemon.step = "copy"
  /\ content' = [content EXCEPT ![NextRestored] = journal[daemon.act].saved[NextRestored]]
  /\ daemon' = [daemon EXCEPT !.step = "verify"]
  /\ UNCHANGED <<journal, manager, unit, history>>

\* The daemon does not start; systemd starts it again.
RefuseStart ==
  /\ Write(daemon.act, [journal[daemon.act] EXCEPT !.state = "failed"])
  /\ daemon' = Down

RecoverChecks ==
  /\ daemon.step = "verify"
  /\ IF content[NextRestored] = journal[daemon.act].saved[NextRestored]
     THEN /\ daemon' = [daemon EXCEPT !.step = "recovering", !.left = @ \ {NextRestored}]
          /\ UNCHANGED journal
     ELSE RefuseStart
  /\ UNCHANGED <<content, manager, unit, history>>

RecoverFails ==
  /\ daemon.act # 0 /\ daemon.left # {} /\ Fails
  /\ RefuseStart
  /\ UNCHANGED <<content, manager, unit, crashes, late, overlapped, contested>>

Recovered ==
  /\ daemon.act # 0 /\ daemon.left = {}
  /\ Write(daemon.act, [journal[daemon.act] EXCEPT !.state = "rolled-back", !.pending = 0])
  /\ daemon' = [daemon EXCEPT !.act = 0]
  /\ UNCHANGED <<content, manager, unit, history>>

Serve ==
  /\ daemon.step = "recovering" /\ daemon.act = 0 /\ daemon.todo = {}
  /\ daemon' = [daemon EXCEPT !.step = "serving"]
  /\ UNCHANGED <<content, journal, manager, unit, history>>

DaemonDies ==
  /\ daemon.step # "down" /\ crashes < MaxCrashes
  /\ crashes' = crashes + 1
  /\ daemon' = Down
  /\ UNCHANGED <<content, journal, manager, unit, faults, late, overlapped, contested>>

-----------------------------------------------------------------------------
ManagerStep ==
  \/ Activating \/ Pend \/ Replace \/ Record \/ StartCandidate \/ Ready \/ Commit
  \/ Rollback \/ RestoreOpens \/ RestoreWrites \/ RestoreChecks \/ RolledBack \/ StartPrevious

ManagerFails ==
  ReplaceFails \/ InstallFails \/ StartFails \/ NotReady \/ StopFails \/ RestoreFails \/ RestartFails

DaemonStep ==
  \/ Start \/ (\E n \in Activations : Visit(n))
  \/ RecoverOpens \/ RecoverWrites \/ RecoverChecks \/ Recovered \/ Serve

Next ==
  \/ Begin \/ ManagerStep \/ ManagerFails \/ ManagerDies
  \/ UnitStarts \/ DaemonStep \/ RecoverFails \/ DaemonDies

Spec == Init /\ [][Next]_vars

\* Both processes go on; the readiness wait is bounded; systemd restarts the daemon while
\* its unit is active.  Nothing makes a stopped unit start.
FairSpec == Spec /\ WF_vars(ManagerStep) /\ WF_vars(NotReady) /\ WF_vars(DaemonStep)

-----------------------------------------------------------------------------
(* Properties. *)

\* Three cases the code does not cover are told apart: an operation that failed after its
\* effect, an activation begun on top of an interrupted one, and a daemon that ran while
\* the manager rolled back.
Covered == ~late /\ ~overlapped /\ ~contested

\* In the cases that are covered, a daemon that serves sees one whole set of artifacts,
\* wherever the manager or an earlier daemon died or a restore failed (recoverIncomplete).
ServesWholeSet ==
  daemon.step = "serving" /\ Covered
    => \E n \in 0..MaxActivations : content = [i \in Items |-> n]

\* When the journal of the latest activation says rolled-back, every artifact is again exactly
\* what it was, whoever rolled back and however often that was interrupted; in the cases that
\* are covered.
RolledBackExactly ==
  manager.act > 0 /\ Current.state = "rolled-back" /\ Covered => content = Current.saved

\* The service waits for a boot or a person: the manager died, or gave up, before it started it.
Stranded == manager.step = "idle" /\ unit = "stopped"

\* A daemon that ran while the manager rolled back serves on beside what it left.
Beside == contested /\ daemon.step = "serving"

\* An activation that was interrupted or is being rolled back does not stay so: it becomes
\* ready or is rolled back, also after restores that failed, unless the service is stopped
\* and nobody starts it, or a daemon serves already and recovers at its next start only.
ActivationsConclude ==
  \A n \in Activations :
    journal[n].state \in Unfinished
      ~> journal[n].state \in {"rolled-back", "ready"} \/ Stranded \/ Beside

\* An activation that is ready has put every artifact of the candidate in place.
ReadyMeansActivated ==
  manager.act > 0 /\ Current.state = "ready" /\ manager.step = "idle" /\ Covered
    => content = [i \in Items |-> manager.act]
=============================================================================
