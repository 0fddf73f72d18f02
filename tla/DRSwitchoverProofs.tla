------------------------- MODULE DRSwitchoverProofs -------------------------
(* Proofs about DRSwitchover for every setting of the replication and of the *)
(* backup, and any number of requests, changed Secrets and faults.           *)
EXTENDS DRSwitchover, TLAPS

-----------------------------------------------------------------------------
(* The inductive invariant *)

\* Without an event since Get the cycle works on the present resource, and a
\* cycle that announced no switch works on a status that needs none.
Shown ==
    /\ pc # "idle" /\ ~queued => run.spec = spec
    /\ pc = "deferred" => run.switching
    /\ pc \notin {"idle", "switch"} /\ ~run.switching /\ ~lost =>
           status.mode = run.spec.mode /\ status.status # "running"
    /\ VerdictShownAtRest

\* Mirror Maker has the replicas that a mode asks for.
Follows(mode) == mirror.on = (mode \notin MirrorOff)

\* A switch that is not audited in time is a failed one.
Audited ==
    /\ pc = "switch" => ~run.failed /\ ~run.switching
    /\ pc = "audit" => run.switching
    /\ pc = "mirror" /\ run.switching => run.drChecked \/ run.failed

\* A status that says done was reached with Mirror Maker deployed for its mode,
\* or by a cycle whose operator crashed: then the hashes are gone, an event is
\* queued, and the next cycle deploys Mirror Maker whatever the status says.
Followed ==
    /\ inputs # 0
    /\ pc = "idle" /\ status.status = "done" /\ ~lost =>
           Follows(status.mode) \/ (cache.inputs = 0 /\ queued)
    /\ pc = "switch" /\ status.status = "done" /\ ~lost =>
           Follows(status.mode) \/ cache.inputs = 0
    /\ pc = "mirror" /\ ~run.switching /\ ~lost =>
           Follows(run.spec.mode) \/ cache.inputs = 0
    /\ pc \notin {"idle", "switch", "audit", "mirror"}
           /\ ~run.failed /\ ~run.err /\ ~lost => Follows(run.spec.mode)
    /\ ~run.switching => ~run.failed
    /\ pc # "deferred" => ~run.err

\* Only modes that were asked for get into the status, and with a verdict.
Known ==
    /\ spec.mode \in Asked /\ status.mode \in Asked \cup {"none"}
    /\ pc # "idle" => run.spec.mode \in Asked
    /\ status.mode = "none" <=> status.status = "none"
    /\ pc \notin {"idle", "switch"} => status.mode # "none"

IInv == TypeOK /\ Shown /\ Audited /\ Followed /\ Known

-----------------------------------------------------------------------------
(* Types *)

\* A cycle that has started, or not, is a record of Runs.
LEMMA RunTypes ==
    ASSUME TypeOK
    PROVE  /\ NoRun \in Runs
           /\ \A err \in BOOLEAN : [run EXCEPT !.err = err] \in Runs
           /\ [run EXCEPT !.failed = TRUE] \in Runs
           /\ [run EXCEPT !.drChecked = TRUE] \in Runs
           /\ [run EXCEPT !.inputs = inputs] \in Runs
           /\ \A b \in BOOLEAN :
                 [run EXCEPT !.switching = TRUE, !.drChecked = b] \in Runs
           /\ \A b \in BOOLEAN :
                 [NoRun EXCEPT !.spec = spec, !.status = status, !.changed = b]
                     \in Runs
<1>1. NoRun \in Runs
  BY Zenon DEF NoRun, Runs, Specs, Statuses, Modes
<1>2. QED
  BY <1>1, Zenon DEF TypeOK, Runs

\* One more fault is a number of faults.
LEMMA FaultTypes ==
    ASSUME TypeOK, Fault
    PROVE  faults' \in Nat
<1>1. faults \in Nat /\ faults' = faults + 1
  BY Zenon DEF TypeOK, Fault
<1>2. QED
  BY <1>1

\* What is left to show of a step that ends or starts a cycle.
LEMMA CycleTypes ==
    ASSUME TypeOK, pc' \in Points, run' \in Runs, status' \in Statuses,
           cache' \in [spec : Nat, inputs : Nat], queued' \in BOOLEAN,
           faults' \in Nat, cut' \in BOOLEAN, lost' \in BOOLEAN,
           UNCHANGED <<world, mirror, daemon, owed, waived>>
    PROVE  TypeOK'
BY Zenon DEF TypeOK, world

\* The site manager, the backup daemon and the other side keep the types.
LEMMA EnvironmentTypes ==
    ASSUME TypeOK, Environment
    PROVE  TypeOK'
<1> USE DEF world, objects, history
<1>1. CASE Edit
  <2>1. spec' \in Specs
    BY <1>1, SwitchoverAssumption DEF Edit, TypeOK, Specs
  <2>2. QED
    BY <1>1, <2>1 DEF Edit, TypeOK
<1>2. CASE ChangeInputs
  BY <1>2 DEF ChangeInputs, TypeOK
<1>3. CASE Produce \/ Replicate \/ OtherSideBackup
  BY <1>3, ZenonT(40) DEF Produce, Replicate, OtherSideBackup, TypeOK
<1>4. CASE DaemonPod \/ Job
  <2>1. daemon' \in [up : BOOLEAN, inputs : Nat, pod : {"none", "old", "new"},
                     job : {"none", "running", "ok"}]
    BY <1>4, Zenon DEF DaemonPod, Job, TypeOK
  <2>2. QED
    BY <1>4, <2>1 DEF DaemonPod, Job, TypeOK
<1>5. QED
  BY <1>1, <1>2, <1>3, <1>4, Zenon DEF Environment

\* What a cycle does when it returns.
LEMMA ReturnTypes ==
    ASSUME TypeOK, NEW err \in BOOLEAN, Return(err)
    PROVE  pc' \in Points /\ run' \in Runs
BY RunTypes, Zenon DEF Return, Points

\* The handlers of the operator keep the types.
LEMMA OperatorTypes ==
    ASSUME TypeOK, Operator
    PROVE  TypeOK'
<1> USE DEF world, objects, history
<1>1. CASE Get
  <2>1. run' \in Runs
    BY <1>1, RunTypes, Zenon DEF Get
  <2>2. QED
    BY <1>1, <2>1, CycleTypes, Zenon DEF Get, TypeOK, Points
<1>2. CASE Switch
  <2>1. IsCheckNeeded \in BOOLEAN /\ run.spec.noWait \in BOOLEAN
    BY Zenon DEF IsCheckNeeded, TypeOK, Runs, Specs
  <2>2. run' \in Runs
    BY <1>2, <2>1, RunTypes, Zenon DEF Switch
  <2>3. status' \in Statuses
    BY <1>2, Zenon DEF Switch, TypeOK, Runs, Specs, Statuses
  <2>4. owed' \in {"none", "restore", "backup"} /\ waived' \in BOOLEAN
    BY <1>2, <2>1, Zenon DEF Switch, TypeOK, Owed
  <2>5. pc' \in Points
    BY <1>2, Zenon DEF Switch, Points
  <2>6. QED
    BY <1>2, <2>2, <2>3, <2>4, <2>5, Zenon DEF Switch, TypeOK
<1>3. CASE AuditPasses \/ AuditTimeout
  <2>1. run' \in Runs /\ pc' \in Points
    BY <1>3, RunTypes, Zenon DEF AuditPasses, AuditTimeout, Points
  <2>2. QED
    BY <1>3, <2>1, CycleTypes, Zenon DEF AuditPasses, AuditTimeout, TypeOK
<1>4. CASE MirrorMaker
  <2>1. run' \in Runs /\ pc' \in Points
    BY <1>4, RunTypes, Zenon DEF MirrorMaker, Points
  <2>2. mirror' \in [on : BOOLEAN, inputs : Nat]
    <3>1. CASE UNCHANGED mirror
      BY <3>1, Zenon DEF TypeOK
    <3>2. CASE mirror' = [on |-> run.spec.mode \notin MirrorOff,
                          inputs |-> inputs]
      <4>1. (run.spec.mode \notin MirrorOff) \in BOOLEAN /\ inputs \in Nat
        BY Zenon DEF TypeOK
      <4>2. QED
        BY <3>2, <4>1, Zenon
    <3>3. QED
      BY <1>4, <3>1, <3>2, Zenon DEF MirrorMaker
  <2>3. queued' \in BOOLEAN
    BY <1>4, Zenon DEF MirrorMaker, TypeOK
  <2>4. QED
    BY <1>4, <2>1, <2>2, <2>3 DEF MirrorMaker, TypeOK
<1>5. CASE MirrorMakerStatus
  BY <1>5 DEF MirrorMakerStatus, TypeOK, Runs, Points
<1>6. CASE BackupDaemon
  <2>1. pc' \in Points
    BY <1>6, Zenon DEF BackupDaemon, Points
  <2>2. Annotated(inputs) \in [up : BOOLEAN, inputs : Nat,
                               pod : {"none", "old", "new"},
                               job : {"none", "running", "ok"}]
    BY Zenon DEF Annotated, TypeOK
  <2>3. QED
    BY <1>6, <2>1, <2>2 DEF BackupDaemon, TypeOK
<1>7. CASE ScaleUp \/ ScaleDown
  <2>1. daemon' \in [up : BOOLEAN, inputs : Nat, pod : {"none", "old", "new"},
                     job : {"none", "running", "ok"}]
    BY <1>7, Zenon DEF ScaleUp, ScaleDown, Scale, TypeOK
  <2>2. pc' \in Points
    BY <1>7, Zenon DEF ScaleUp, ScaleDown, Scale, Points
  <2>3. QED
    BY <1>7, <2>1, <2>2 DEF ScaleUp, ScaleDown, Scale, TypeOK
<1>8. CASE Scaled
  BY <1>8 DEF Scaled, TypeOK, Points
<1>9. CASE RestoreLastBackup \/ PerformBackup
  BY <1>9 DEF RestoreLastBackup, PerformBackup, StartJob, TypeOK, Points
<1>10. CASE NoBackupToRestore \/ JobSuccessful
  BY <1>10 DEF NoBackupToRestore, JobSuccessful, TypeOK, Points
<1>11. CASE BackupDone
  BY <1>11 DEF BackupDone, TypeOK, Statuses, Points
<1>12. CASE PollFails
  <2>1. pc' \in Points /\ run' \in Runs
    BY <1>12, ReturnTypes, Zenon DEF PollFails, ReturnError
  <2>2. QED
    BY <1>12, <2>1, CycleTypes, Zenon DEF PollFails, ReturnError, TypeOK
<1>13. CASE Verdict
  <2>1. pc' \in Points /\ run' \in Runs
    BY <1>13, ReturnTypes, Zenon DEF Verdict
  <2>2. cache' \in [spec : Nat, inputs : Nat]
    BY <1>13, Zenon DEF Verdict, TypeOK, Runs, Specs
  <2>3. faults' \in Nat
    <3>1. CASE UNCHANGED faults
      BY <3>1, Zenon DEF TypeOK
    <3>2. QED
      BY <1>13, <3>1, FaultTypes, Zenon DEF Verdict
  <2>4. QED
    BY <1>13, <2>1, <2>2, <2>3 DEF Verdict, TypeOK
<1>14. CASE Deferred
  <2>1. status' \in Statuses
    BY <1>14, Zenon DEF Deferred, TypeOK, Runs, Specs, Statuses
  <2>2. QED
    BY <1>14, <2>1, RunTypes, CycleTypes, Zenon DEF Deferred, TypeOK, Points
<1>15. QED
  BY <1>1, <1>2, <1>3, <1>4, <1>5, <1>6, <1>7, <1>8, <1>9, <1>10, <1>11,
     <1>12, <1>13, <1>14, Zenon DEF Operator

\* Failures keep the types.
LEMMA FailureTypes ==
    ASSUME TypeOK, Failure
    PROVE  TypeOK'
<1> USE DEF world, objects, history
<1>1. CASE AuditError
  <2>1. faults' \in Nat /\ run' \in Runs /\ pc' \in Points
    BY <1>1, FaultTypes, RunTypes, Zenon DEF AuditError, Points
  <2>2. QED
    BY <1>1, <2>1, CycleTypes, Zenon DEF AuditError, TypeOK
<1>2. CASE ApiError \/ PollTimeout
  <2>1. faults' \in Nat
    BY <1>2, FaultTypes, Zenon DEF ApiError, PollTimeout
  <2>2. pc' \in Points /\ run' \in Runs
    BY <1>2, ReturnTypes, Zenon DEF ApiError, PollTimeout, ReturnError
  <2>3. QED
    BY <1>2, <2>1, <2>2, CycleTypes, Zenon
    DEF ApiError, PollTimeout, ReturnError, TypeOK
<1>3. CASE DeferredLost
  <2>1. faults' \in Nat /\ run' \in Runs /\ pc' \in Points
    BY <1>3, FaultTypes, RunTypes, Zenon DEF DeferredLost, Points
  <2>2. QED
    BY <1>3, <2>1, CycleTypes, Zenon DEF DeferredLost, TypeOK
<1>4. CASE Crash
  <2>1. faults' \in Nat /\ run' \in Runs /\ pc' \in Points
    BY <1>4, FaultTypes, RunTypes, Zenon DEF Crash, Points
  <2>2. cut' \in BOOLEAN
    BY <1>4, Zenon DEF Crash, TypeOK
  <2>3. cache' \in [spec : Nat, inputs : Nat]
    BY <1>4, Zenon DEF Crash
  <2>4. QED
    BY <1>4, <2>1, <2>2, <2>3, CycleTypes, Zenon DEF Crash, TypeOK
<1>5. CASE AuditBlinded
  <2>1. faults' \in Nat
    BY <1>5, FaultTypes, Zenon DEF AuditBlinded
  <2>2. QED
    BY <1>5, <2>1 DEF AuditBlinded, TypeOK
<1>6. QED
  BY <1>1, <1>2, <1>3, <1>4, <1>5, Zenon DEF Failure

\* Types of the first state and of a step that changes nothing.
LEMMA InitTypes ==
    ASSUME Init
    PROVE  TypeOK
<1>1. PICK mode \in Asked \ {"disable"} :
          /\ spec = [mode |-> mode, noWait |-> TRUE, v |-> 1]
          /\ status = [mode |-> "none", status |-> "none"]
          /\ inputs = 1
          /\ mirror = [on |-> FALSE, inputs |-> 0]
          /\ daemon = [up |-> mode = "active", inputs |-> 0, job |-> "none",
                       pod |-> IF mode = "active" THEN "new" ELSE "none"]
          /\ lag = (mode # "active") /\ vault = FALSE
          /\ cache = [spec |-> 0, inputs |-> 0]
          /\ queued = TRUE /\ pc = "idle"
          /\ run = NoRun
          /\ faults = 0
          /\ owed = "none" /\ waived = FALSE /\ cut = FALSE /\ lost = FALSE
  BY Zenon DEF Init
<1>2. mode \in Modes
  BY SwitchoverAssumption, Zenon
<1>3. spec \in Specs /\ status \in Statuses
  BY <1>1, <1>2, Zenon DEF Specs, Statuses
<1>4. run \in Runs
  BY <1>1, Zenon DEF NoRun, Runs, Specs, Statuses, Modes
<1>5. daemon \in [up : BOOLEAN, inputs : Nat, pod : {"none", "old", "new"},
                  job : {"none", "running", "ok"}]
  BY <1>1, Zenon
<1>6. lag \in BOOLEAN
  BY <1>1, Zenon
<1>7. QED
  BY <1>1, <1>3, <1>4, <1>5, <1>6, Zenon DEF TypeOK, Points

\* A step that changes nothing keeps the types.
LEMMA StutterTypes ==
    ASSUME TypeOK, UNCHANGED vars
    PROVE  TypeOK'
BY DEF TypeOK, vars

-----------------------------------------------------------------------------
(* Steps that keep the invariant *)

Rest == Shown /\ Audited /\ Followed /\ Known

\* Points between the deployment of Mirror Maker and the end of the cycle.
Late == Points \ {"idle", "switch", "audit", "mirror", "deferred"}

\* Steps of clients, of Mirror Maker, of the backup daemon and of the other side
\* touch nothing the invariant speaks of.
LEMMA WorldStep ==
    ASSUME IInv,
           UNCHANGED <<spec, status, inputs, mirror, cache, queued, pc, run, lost>>
    PROVE  Rest'
BY DEF IInv, Rest, Shown, Audited, Followed, Known, Follows,
       VerdictShownAtRest, Quiet

\* An edit of the resource or of its inputs queues an event.
LEMMA EventStep ==
    ASSUME IInv, queued' = TRUE, spec'.mode \in Asked, inputs' # 0,
           UNCHANGED <<status, mirror, cache, pc, run, lost>>
    PROVE  Rest'
<1>1. Shown'
  BY Zenon DEF IInv, Shown, VerdictShownAtRest, Quiet
<1>2. Audited'
  BY Zenon DEF IInv, Audited
<1>3. Followed'
  BY Zenon DEF IInv, Followed, Follows
<1>4. Known'
  BY Zenon DEF IInv, Known
<1>5. QED
  BY <1>1, <1>2, <1>3, <1>4, Zenon DEF Rest

\* A step from one late point to another.
LEMMA LateStep ==
    ASSUME IInv, pc \in Late, pc' \in Late,
           UNCHANGED <<spec, status, inputs, mirror, queued, run, lost>>
    PROVE  Rest'
<1> USE DEF Late
<1>1. Shown'
  BY Zenon DEF IInv, Shown, VerdictShownAtRest, Quiet
<1>2. Audited'
  BY Zenon DEF IInv, Audited
<1>3. Followed'
  BY Zenon DEF IInv, Followed, Follows
<1>4. Known'
  BY Zenon DEF IInv, Known
<1>5. QED
  BY <1>1, <1>2, <1>3, <1>4, Zenon DEF Rest

\* A cycle returns with an error: the queue gets it again.
LEMMA ErrorStep ==
    ASSUME IInv, pc \notin {"idle", "deferred"}, ReturnError
    PROVE  Rest'
<1> USE DEF ReturnError, world, objects, history
<1>1. CASE run.switching
  <2>1. pc' = "deferred" /\ run' = [run EXCEPT !.err = TRUE]
    BY <1>1, Zenon DEF Return
  <2>2. run \in Runs
    BY Zenon DEF IInv, TypeOK
  <2>3. /\ run'.spec = run.spec /\ run'.switching = run.switching
        /\ run'.failed = run.failed /\ run'.err = TRUE
    BY <2>1, <2>2, Zenon DEF Runs
  <2>4. Shown'
    BY <1>1, <2>1, <2>3, Zenon DEF IInv, Shown, VerdictShownAtRest, Quiet
  <2>5. Audited'
    BY <2>1, Zenon DEF Audited
  <2>6. Followed'
    BY <1>1, <2>1, <2>3, Zenon DEF IInv, Followed
  <2>7. Known'
    BY <1>1, <2>1, <2>3, Zenon DEF IInv, Known, Audited
  <2>8. QED
    BY <2>4, <2>5, <2>6, <2>7, Zenon DEF Rest
<1>2. CASE ~run.switching
  <2>1. pc' = "idle" /\ run' = NoRun
    BY <1>2, Zenon DEF Return
  <2>2. Shown'
    BY <2>1, Zenon DEF Shown, VerdictShownAtRest, Quiet
  <2>3. Audited'
    BY <2>1, Zenon DEF Audited
  <2>4. Followed'
    <3>1. ~run.failed /\ ~run.err
      BY <1>2, Zenon DEF IInv, Followed
    <3>2. CASE pc = "switch"
      BY <2>1, <3>2, Zenon DEF IInv, Followed, Follows, NoRun
    <3>3. CASE pc # "switch"
      <4>1. ~lost => status.mode = run.spec.mode
        BY <1>2, <3>3, Zenon DEF IInv, Shown
      <4>2. pc # "audit"
        BY <1>2, Zenon DEF IInv, Audited
      <4>3. ~lost => Follows(run.spec.mode) \/ cache.inputs = 0
        BY <1>2, <3>1, <3>3, <4>2, Zenon DEF IInv, Followed
      <4>4. QED
        BY <2>1, <4>1, <4>3, Zenon DEF IInv, Followed, Follows, NoRun
    <3>4. QED
      BY <3>2, <3>3, Zenon
  <2>5. Known'
    BY <2>1, Zenon DEF IInv, Known
  <2>6. QED
    BY <2>2, <2>3, <2>4, <2>5, Zenon DEF Rest
<1>3. QED
  BY <1>1, <1>2, Zenon

\* Get starts from the resource and its status.
LEMMA GetStep ==
    ASSUME IInv, Get
    PROVE  Rest'
<1> USE DEF world, objects, history
<1>1. /\ run'.spec = spec /\ run'.switching = FALSE
      /\ run'.failed = FALSE /\ run'.err = FALSE
  BY Zenon DEF Get, NoRun
<1>2. pc = "idle" /\ queued /\ pc' \in {"switch", "mirror"}
  BY Zenon DEF Get
<1>3. pc' = "mirror" =>
         status.mode = spec.mode /\ status.status \notin {"running", "failed"}
  BY Zenon DEF Get, SwitchWanted
<1>4. Shown'
  BY <1>1, <1>2, <1>3, Zenon DEF Get, Shown, VerdictShownAtRest, Quiet
<1>5. Audited'
  BY <1>1, <1>2, Zenon DEF Get, Audited
<1>6. pc' = "mirror" => status.mode # "none"
  <2>1. spec.mode \in Asked /\ Asked \subseteq Modes
    BY SwitchoverAssumption, Zenon DEF IInv, Known
  <2>2. QED
    BY <1>3, <2>1, Zenon DEF Modes
<1>7. pc' = "mirror" => status.status = "done"
  <2>1. pc' = "mirror" => status.status # "none"
    BY <1>6, Zenon DEF IInv, Known
  <2>2. status.status \in {"none", "running", "done", "failed"}
    BY Zenon DEF IInv, TypeOK, Statuses
  <2>3. QED
    BY <1>3, <2>1, <2>2, Zenon
<1>8. status.status = "done" /\ ~lost =>
          Follows(status.mode) \/ cache.inputs = 0
  BY <1>2, Zenon DEF IInv, Followed
<1>9. Followed'
  <2>1. UNCHANGED <<inputs, mirror, cache, status, lost>>
    BY Zenon DEF Get
  <2>2. QED
    BY <1>1, <1>2, <1>3, <1>7, <1>8, <2>1, Zenon DEF IInv, Followed, Follows
<1>10. Known'
  <2>1. UNCHANGED <<spec, status>>
    BY Zenon DEF Get
  <2>2. QED
    BY <1>1, <1>2, <1>6, <2>1, Zenon DEF IInv, Known
<1>11. QED
  BY <1>4, <1>5, <1>9, <1>10, Zenon DEF Rest

\* Switch announces the mode and decides on the audit.
LEMMA SwitchStep ==
    ASSUME IInv, Switch
    PROVE  Rest'
<1> USE DEF world
<1>1. run \in Runs /\ pc = "switch"
  BY Zenon DEF IInv, TypeOK, Switch
<1>2. /\ run'.spec = run.spec /\ run'.switching = TRUE
      /\ run'.failed = run.failed /\ run'.err = run.err
      /\ run'.drChecked = ~IsCheckNeeded
  BY <1>1, Zenon DEF Switch, Runs
<1>3. pc' = IF IsCheckNeeded THEN "audit" ELSE "mirror"
  BY Zenon DEF Switch
<1>4. status'.mode = run.spec.mode /\ status'.status = "running"
  BY Zenon DEF Switch
<1>5. UNCHANGED <<spec, inputs, mirror, cache, queued, lost>>
  BY Zenon DEF Switch
<1>6. Shown'
  BY <1>1, <1>2, <1>3, <1>5, Zenon DEF IInv, Shown, VerdictShownAtRest, Quiet
<1>7. Audited'
  BY <1>2, <1>3, Zenon DEF Audited
<1>8. Followed'
  BY <1>1, <1>2, <1>3, <1>5, Zenon DEF IInv, Followed
<1>9. Known'
  <2>1. run.spec.mode \in Asked /\ Asked \subseteq Modes
    BY <1>1, SwitchoverAssumption, Zenon DEF IInv, Known
  <2>2. run.spec.mode # "none"
    BY <2>1, Zenon DEF Modes
  <2>3. QED
    BY <1>1, <1>2, <1>3, <1>4, <1>5, <2>1, <2>2, Zenon DEF IInv, Known
<1>10. QED
  BY <1>6, <1>7, <1>8, <1>9, Zenon DEF Rest

\* An audit either passes or makes the switch a failed one.
LEMMA AuditStep ==
    ASSUME IInv, pc = "audit", pc' = "mirror",
           run' \in {[run EXCEPT !.drChecked = TRUE], [run EXCEPT !.failed = TRUE]},
           UNCHANGED <<spec, status, inputs, mirror, cache, queued, lost>>
    PROVE  Rest'
<1>1. run \in Runs /\ run.switching
  BY Zenon DEF IInv, TypeOK, Audited
<1>2. /\ run'.spec = run.spec /\ run'.switching = run.switching
      /\ run'.drChecked \/ run'.failed
  BY <1>1, Zenon DEF Runs
<1>3. Shown'
  BY <1>1, <1>2, Zenon DEF IInv, Shown, VerdictShownAtRest, Quiet
<1>4. Audited'
  BY <1>2, Zenon DEF Audited
<1>5. run'.err = run.err
  BY <1>1, Zenon DEF Runs
<1>6. Followed'
  BY <1>1, <1>2, <1>5, Zenon DEF IInv, Followed
<1>7. Known'
  BY <1>2, Zenon DEF IInv, Known
<1>8. QED
  BY <1>3, <1>4, <1>6, <1>7, Zenon DEF Rest

\* After ReconcileMirrorMaker the replicas follow the mode of the cycle, unless
\* the switch has failed: without a redeployment they already did.
LEMMA MirrorMakerStep ==
    ASSUME IInv, MirrorMaker
    PROVE  Rest'
<1> USE DEF world, history
<1>1. run \in Runs /\ pc = "mirror" /\ pc' \in {"mirrorStatus", "backup"}
  BY Zenon DEF IInv, TypeOK, MirrorMaker
<1>2. /\ run'.spec = run.spec /\ run'.switching = run.switching
      /\ run'.failed = run.failed /\ run'.err = run.err
  BY <1>1, Zenon DEF MirrorMaker, Runs
<1>3. UNCHANGED <<spec, status, inputs, cache, lost>>
  BY Zenon DEF MirrorMaker
<1>4. ~queued' => ~queued
  BY Zenon DEF MirrorMaker
<1>5. Shown'
  BY <1>1, <1>2, <1>3, <1>4, Zenon DEF IInv, Shown, VerdictShownAtRest, Quiet
<1>6. Audited'
  BY <1>1, Zenon DEF Audited
<1>7. ~run.failed /\ ~lost => mirror'.on = (run.spec.mode \notin MirrorOff)
  <2>1. CASE run.drChecked \/ cache.inputs # inputs
    BY <2>1 DEF MirrorMaker
  <2>2. CASE ~(run.drChecked \/ cache.inputs # inputs)
    <3>1. UNCHANGED mirror
      BY <2>2, Zenon DEF MirrorMaker
    <3>2. cache.inputs # 0
      BY <2>2, Zenon DEF IInv, Followed
    <3>3. run.switching => run.failed
      BY <1>1, <2>2, Zenon DEF IInv, Audited
    <3>4. QED
      BY <1>1, <3>1, <3>2, <3>3, Zenon DEF IInv, Followed, Follows
  <2>3. QED
    BY <2>1, <2>2, Zenon
<1>8. Followed'
  BY <1>1, <1>2, <1>3, <1>7, Zenon DEF IInv, Followed, Follows
<1>9. Known'
  BY <1>1, <1>2, <1>3, Zenon DEF IInv, Known
<1>10. QED
  BY <1>5, <1>6, <1>8, <1>9, Zenon DEF Rest

\* The end of ReconcileBackupDaemon shows the switch as done ahead of the
\* deferred call.
LEMMA BackupDoneStep ==
    ASSUME IInv, BackupDone
    PROVE  Rest'
<1> USE DEF world, history
<1>1. status \in Statuses /\ pc = "backupDone" /\ pc' = "verdict"
  BY Zenon DEF IInv, TypeOK, BackupDone
<1>2. status'.mode = status.mode /\ status'.status = "done"
  BY <1>1, Zenon DEF BackupDone, Statuses
<1>3. UNCHANGED <<spec, inputs, mirror, cache, queued, run, lost>>
  BY Zenon DEF BackupDone
<1>4. Shown'
  BY <1>1, <1>2, <1>3, Zenon DEF IInv, Shown, VerdictShownAtRest, Quiet
<1>5. Audited'
  BY <1>1, Zenon DEF Audited
<1>6. Followed'
  BY <1>1, <1>3, Zenon DEF IInv, Followed, Follows
<1>7. Known'
  BY <1>1, <1>2, <1>3, Zenon DEF IInv, Known
<1>8. QED
  BY <1>4, <1>5, <1>6, <1>7, Zenon DEF Rest

\* The cycle reaches its end.
LEMMA VerdictStep ==
    ASSUME IInv, Verdict
    PROVE  Rest'
<1> USE DEF world, objects, history
<1>1. /\ run \in Runs /\ pc = "verdict"
      /\ \E err \in BOOLEAN : Return(err)
  BY Zenon DEF IInv, TypeOK, Verdict
<1>2. PICK err \in BOOLEAN : Return(err)
  BY <1>1, Zenon
<1>3. UNCHANGED <<spec, status, inputs, mirror, queued, lost>>
  BY Zenon DEF Verdict
<1>4. CASE run.switching
  <2>1. pc' = "deferred" /\ run' = [run EXCEPT !.err = err]
    BY <1>2, <1>4, Zenon DEF Return
  <2>2. /\ run'.spec = run.spec /\ run'.switching = run.switching
        /\ run'.failed = run.failed
    BY <1>1, <2>1, Zenon DEF Runs
  <2>3. Shown'
    BY <1>1, <1>3, <1>4, <2>1, <2>2, Zenon
    DEF IInv, Shown, VerdictShownAtRest, Quiet
  <2>4. Audited'
    BY <2>1, Zenon DEF Audited
  <2>5. Followed'
    BY <1>1, <1>3, <1>4, <2>1, <2>2, Zenon DEF IInv, Followed, Follows
  <2>6. Known'
    BY <1>1, <1>3, <2>1, <2>2, Zenon DEF IInv, Known
  <2>7. QED
    BY <2>3, <2>4, <2>5, <2>6, Zenon DEF Rest
<1>5. CASE ~run.switching
  <2>1. pc' = "idle" /\ run' = NoRun
    BY <1>2, <1>5, Zenon DEF Return
  <2>2. ~lost => status.mode = run.spec.mode /\ status.status # "running"
    BY <1>1, <1>5, Zenon DEF IInv, Shown
  <2>3. ~lost => Follows(run.spec.mode)
    BY <1>1, <1>5, Zenon DEF IInv, Followed
  <2>4. Shown'
    BY <1>1, <1>3, <2>1, <2>2, Zenon DEF IInv, Shown, VerdictShownAtRest, Quiet
  <2>5. Audited'
    BY <2>1, Zenon DEF Audited
  <2>6. Followed'
    BY <1>3, <2>1, <2>2, <2>3, Zenon DEF IInv, Followed, Follows, NoRun
  <2>7. Known'
    BY <1>3, <2>1, Zenon DEF IInv, Known
  <2>8. QED
    BY <2>4, <2>5, <2>6, <2>7, Zenon DEF Rest
<1>6. QED
  BY <1>4, <1>5, Zenon

\* The deferred call writes the verdict of the switch.
LEMMA DeferredStep ==
    ASSUME IInv, Deferred
    PROVE  Rest'
<1> USE DEF world, history
<1>1. pc = "deferred" /\ pc' = "idle" /\ run' = NoRun
  BY Zenon DEF Deferred
<1>2. /\ status'.mode = run.spec.mode /\ status'.status \in {"failed", "done"}
      /\ status'.status = "done" => ~run.failed /\ ~run.err
  BY Zenon DEF Deferred
<1>3. UNCHANGED <<spec, inputs, mirror, cache, queued, lost>>
  BY Zenon DEF Deferred
<1>4. Shown'
  BY <1>1, <1>2, <1>3, Zenon DEF IInv, Shown, VerdictShownAtRest, Quiet
<1>5. Audited'
  BY <1>1, Zenon DEF Audited
<1>6. Followed'
  BY <1>1, <1>2, <1>3, Zenon DEF IInv, Followed, Follows, NoRun
<1>7. Known'
  <2>1. run.spec.mode \in Asked /\ Asked \subseteq Modes
    BY <1>1, SwitchoverAssumption, Zenon DEF IInv, Known
  <2>2. run.spec.mode # "none"
    BY <2>1, Zenon DEF Modes
  <2>3. QED
    BY <1>1, <1>2, <1>3, <2>1, <2>2, Zenon DEF IInv, Known
<1>8. QED
  BY <1>4, <1>5, <1>6, <1>7, Zenon DEF Rest

\* A lost verdict and a crash.
LEMMA LossStep ==
    ASSUME IInv, DeferredLost \/ Crash
    PROVE  Rest'
<1> USE DEF world, objects, history
<1>1. pc' = "idle" /\ run' = NoRun /\ UNCHANGED <<spec, status, inputs>>
  BY Zenon DEF DeferredLost, Crash
<1>2. lost' = TRUE \/ (queued' = TRUE /\ cache'.inputs = 0)
  BY DEF DeferredLost, Crash
<1>3. Shown'
  BY <1>1, <1>2, Zenon DEF Shown, VerdictShownAtRest, Quiet
<1>4. Audited'
  BY <1>1, Zenon DEF Audited
<1>5. Followed'
  BY <1>1, <1>2, Zenon DEF IInv, Followed, NoRun
<1>6. Known'
  BY <1>1, Zenon DEF IInv, Known
<1>7. QED
  BY <1>3, <1>4, <1>5, <1>6, Zenon DEF Rest

-----------------------------------------------------------------------------
(* The invariant, and what follows from it *)

\* A new side satisfies the invariant.
LEMMA InitInvariant ==
    ASSUME Init
    PROVE  IInv
<1>1. /\ pc = "idle" /\ run = NoRun /\ queued = TRUE /\ inputs = 1
      /\ status.mode = "none" /\ status.status = "none" /\ spec.mode \in Asked
  BY DEF Init
<1>2. Shown
  BY <1>1, Zenon DEF Shown, VerdictShownAtRest, Quiet
<1>3. Audited
  BY <1>1, Zenon DEF Audited
<1>4. Followed
  BY <1>1 DEF Followed, NoRun
<1>5. Known
  BY <1>1, Zenon DEF Known
<1>6. QED
  BY <1>2, <1>3, <1>4, <1>5, InitTypes, Zenon DEF IInv

\* No step of the operator, of its surroundings or of a failure breaks it.
LEMMA StepInvariant ==
    ASSUME IInv, [Next]_vars
    PROVE  IInv'
<1>1. TypeOK
  BY Zenon DEF IInv
<1>2. TypeOK'
  BY <1>1, OperatorTypes, EnvironmentTypes, FailureTypes, StutterTypes, Zenon DEF Next
<1>3. SUFFICES Rest'
  BY <1>2, Zenon DEF Rest, IInv
<1>4. CASE Operator
  <2> USE DEF world, objects, history
  <2>1. CASE AuditPasses \/ AuditTimeout
    BY <2>1, AuditStep, Zenon DEF AuditPasses, AuditTimeout
  <2>2. CASE MirrorMakerStatus \/ BackupDaemon
    BY <2>2, LateStep, Zenon DEF MirrorMakerStatus, BackupDaemon, Late, Points
  <2>3. CASE ScaleUp \/ ScaleDown \/ Scaled
    BY <2>3, LateStep, Zenon DEF ScaleUp, ScaleDown, Scale, Scaled, Late, Points
  <2>4. CASE RestoreLastBackup \/ PerformBackup
    BY <2>4, LateStep, Zenon
    DEF RestoreLastBackup, PerformBackup, StartJob, Late, Points
  <2>5. CASE NoBackupToRestore \/ JobSuccessful
    BY <2>5, LateStep, Zenon DEF NoBackupToRestore, JobSuccessful, Late, Points
  <2>6. CASE PollFails
    BY <2>6, ErrorStep, Zenon DEF PollFails, Unanswered
  <2>7. QED
    BY <1>4, <2>1, <2>2, <2>3, <2>4, <2>5, <2>6, GetStep, SwitchStep,
       MirrorMakerStep, BackupDoneStep, VerdictStep, DeferredStep, Zenon DEF Operator
<1>5. CASE Environment
  <2> USE DEF world, objects, history
  <2>1. CASE Edit
    <3>1. spec'.mode \in Asked
      BY <2>1 DEF Edit
    <3>2. QED
      BY <2>1, <3>1, EventStep, Zenon DEF Edit, IInv, Followed
  <2>2. CASE ChangeInputs
    <3>1. inputs \in Nat /\ inputs' = inputs + 1
      BY <1>1, <2>2, Zenon DEF ChangeInputs, TypeOK
    <3>2. inputs' # 0
      BY <3>1
    <3>3. spec.mode \in Asked
      BY Zenon DEF IInv, Known
    <3>4. QED
      BY <2>2, <3>2, <3>3, EventStep, Zenon DEF ChangeInputs
  <2>3. CASE Produce \/ Replicate \/ OtherSideBackup
    BY <2>3, WorldStep, Zenon DEF Produce, Replicate, OtherSideBackup
  <2>4. CASE DaemonPod \/ Job
    BY <2>4, WorldStep, Zenon DEF DaemonPod, Job
  <2>5. QED
    BY <1>5, <2>1, <2>2, <2>3, <2>4, Zenon DEF Environment
<1>6. CASE Failure
  <2> USE DEF world, objects, history
  <2>1. CASE AuditError
    BY <2>1, AuditStep, Zenon DEF AuditError
  <2>2. CASE ApiError \/ PollTimeout
    BY <2>2, ErrorStep, Zenon DEF ApiError, PollTimeout
  <2>3. CASE AuditBlinded
    BY <2>3, WorldStep, Zenon DEF AuditBlinded
  <2>4. QED
    BY <1>6, <2>1, <2>2, <2>3, LossStep, Zenon DEF Failure
<1>7. CASE UNCHANGED vars
  BY <1>7, WorldStep, Zenon DEF vars
<1>8. QED
  BY <1>4, <1>5, <1>6, <1>7, Zenon DEF Next

\* The inductive invariant holds in every reachable state.
LEMMA Invariant == Spec => []IInv
BY InitInvariant, StepInvariant, PTL DEF Spec

\* The variables of a switch keep their types in every sequence of requests,
\* changes and faults that the cycle of KafkaServiceReconciler meets.
THEOREM SwitchoverTypes == Spec => []TypeOK
<1>1. IInv => TypeOK
  BY Zenon DEF IInv
<1>2. QED
  BY <1>1, Invariant, PTL

\* However the cycle returns and whatever is asked for meanwhile, at rest the
\* status of the resource shows the mode that is asked for and no "running".
THEOREM VerdictShown == Spec => []VerdictShownAtRest
<1>1. IInv => VerdictShownAtRest
  BY Zenon DEF IInv, Shown
<1>2. QED
  BY <1>1, Invariant, PTL

\* Where the mode that the code calls "disable" is asked for by that name, a
\* switch that is shown as done has Mirror Maker running on a standby side and
\* on no other, through failed audits, changed Secrets and crashes.
THEOREM MirrorFollows ==
    ASSUME "disabled" \notin Asked
    PROVE  Spec => []MirrorFollowsMode
<1>1. IInv => MirrorFollowsMode
  <2>1. SUFFICES ASSUME IInv, ~lost, Quiet, status.status = "done"
                 PROVE  mirror.on = (status.mode = "standby")
    BY Zenon DEF MirrorFollowsMode
  <2>2. status.mode \in {"active", "standby", "disable"}
    BY <2>1, SwitchoverAssumption, Zenon DEF IInv, Known, Modes
  <2>3. Follows(status.mode)
    BY <2>1, Zenon DEF IInv, Followed, Quiet
  <2>4. QED
    BY <2>2, <2>3, Zenon DEF Follows, MirrorOff
<1>2. QED
  BY <1>1, Invariant, PTL

-----------------------------------------------------------------------------
(* What a switch has audited and what it owes *)

\* A switch is announced before anything is done for it, and a status that says
\* "running" is that of the present cycle, unless a cycle was lost.
Announced ==
    /\ pc = "idle" => ~run.switching
    /\ pc = "switch" =>
           run.status = status /\ SwitchWanted(run.spec, run.status)
    /\ run.switching => status.mode = run.spec.mode
    /\ ~run.switching /\ ~cut /\ ~lost => status.status # "running"
    /\ pc \notin {"idle", "switch"} /\ ~run.switching =>
           status.status # "failed"

\* An active side has all messages, or its switch is not audited yet, has failed
\* or will be shown as failed.
Replicated ==
    ~cut /\ ~lost /\ ~waived /\ Replication /\ status.mode = "active" =>
        \/ ~lag
        \/ status.status = "failed" /\ ~run.switching
        \/ run.switching /\ (pc = "audit" \/ run.failed)

\* Where the cycle of a switch is before it has restored or made a backup.
Before(debt) ==
    {"audit", "mirror", "mirrorStatus", "backup"} \cup
        IF debt = "restore" THEN {"scaleUp", "scaledUp", "restore", "restored"}
        ELSE {"perform", "performed"}

\* What is owed is owed to the mode in the status, by a switch that has failed
\* or that is going to restore or to make a backup, or to fail.
Indebted ==
    ~cut /\ ~lost /\ owed # "none" =>
        /\ TopicsBackup
        /\ status.mode = IF owed = "restore" THEN "active" ELSE "standby"
        /\ \/ status.status = "failed" /\ ~run.switching
           \/ /\ run.switching /\ BackupWanted
              /\ owed = "backup" => run.status.mode # "disable"
              /\ pc \in Before(owed) \/ (pc = "deferred" /\ run.err)

Owing == Announced /\ Replicated /\ Indebted

\* A step of the surroundings: clients write only where no side is active.
LEMMA OwingWorld ==
    ASSUME Owing, lag' => lag \/ status.mode # "active",
           waived => waived',
           UNCHANGED <<status, pc, run, owed, cut, lost>>
    PROVE  Owing'
<1>1. Announced'
  BY Zenon DEF Owing, Announced
<1>2. Replicated'
  BY Zenon DEF Owing, Replicated
<1>3. Indebted'
  BY Zenon DEF Owing, Indebted, BackupWanted
<1>4. QED
  BY <1>1, <1>2, <1>3, Zenon DEF Owing

\* A step within a cycle: an audit that ends passes or makes the switch a failed
\* one, and the cycle comes past the backup only when nothing is owed.
LEMMA OwingInside ==
    ASSUME Owing, pc \notin {"idle", "switch"},
           pc' \notin {"idle", "switch", "audit", "deferred"},
           run'.spec = run.spec, run'.status = run.status,
           run'.switching = run.switching, run.failed => run'.failed,
           pc = "audit" => run'.failed \/ ~lag \/ waived,
           owed' \in {owed, "none"},
           run.switching /\ ~cut /\ ~lost /\ owed' # "none" => pc' \in Before(owed),
           UNCHANGED <<status, lag, waived, cut, lost>>
    PROVE  Owing'
<1>1. Announced'
  BY Zenon DEF Owing, Announced
<1>2. Replicated'
  BY Zenon DEF Owing, Replicated
<1>3. Indebted'
  BY Zenon DEF Owing, Indebted, BackupWanted
<1>4. QED
  BY <1>1, <1>2, <1>3, Zenon DEF Owing

\* A cycle returns: a switch leaves the verdict to the deferred call, any other
\* cycle has changed nothing.
LEMMA OwingReturn ==
    ASSUME IInv, Owing, pc \notin {"idle", "audit", "deferred"},
           NEW err \in BOOLEAN, Return(err),
           err \/ pc = "verdict",
           UNCHANGED <<status, lag, owed, waived, cut, lost>>
    PROVE  Owing'
<1>1. run \in Runs
  BY Zenon DEF IInv, TypeOK
<1>2. CASE run.switching
  <2>1. pc' = "deferred" /\ run' = [run EXCEPT !.err = err]
    BY <1>2, Zenon DEF Return
  <2>2. /\ run'.spec = run.spec /\ run'.status = run.status
        /\ run'.switching = run.switching /\ run'.failed = run.failed
        /\ run'.err = err
    BY <1>1, <2>1, Zenon DEF Runs
  <2>3. Announced'
    BY <1>2, <2>1, <2>2, Zenon DEF Owing, Announced
  <2>4. Replicated'
    BY <1>2, <2>1, <2>2, Zenon DEF Owing, Replicated
  <2>5. ~cut /\ ~lost /\ owed # "none" => err
    BY <1>2, Zenon DEF Owing, Indebted, Before
  <2>6. Indebted'
    BY <1>2, <2>1, <2>2, <2>5, Zenon DEF Owing, Indebted, BackupWanted
  <2>7. QED
    BY <2>3, <2>4, <2>6, Zenon DEF Owing
<1>3. CASE ~run.switching
  <2>1. pc' = "idle" /\ run'.switching = FALSE
    BY <1>3 DEF Return, NoRun
  <2>2. Announced'
    BY <1>3, <2>1, Zenon DEF Owing, Announced
  <2>3. Replicated'
    BY <1>3, <2>1, Zenon DEF Owing, Replicated
  <2>4. Indebted'
    BY <1>3, <2>1, Zenon DEF Owing, Indebted
  <2>5. QED
    BY <2>2, <2>3, <2>4, Zenon DEF Owing
<1>4. QED
  BY <1>2, <1>3, Zenon

\* A switch to a new mode owes what that mode needs; one that is repeated has
\* failed, so that it is audited again and its debt is still paid.
LEMMA OwingSwitch ==
    ASSUME IInv, Owing, Switch
    PROVE  Owing'
<1> USE DEF world
<1>1. run \in Runs /\ pc = "switch" /\ ~run.switching
  BY Zenon DEF IInv, TypeOK, Switch, Audited
<1>2. /\ run'.spec = run.spec /\ run'.status = run.status
      /\ run'.switching = TRUE
  BY <1>1, Zenon DEF Switch, Runs
<1>3. /\ pc' = IF IsCheckNeeded THEN "audit" ELSE "mirror"
      /\ status'.mode = run.spec.mode /\ status'.status = "running"
      /\ UNCHANGED <<lag, cut, lost>>
  BY Zenon DEF Switch
<1>4. run.status = status /\ SwitchWanted(run.spec, run.status)
  BY <1>1, Zenon DEF Owing, Announced
<1>5. ~cut /\ ~lost /\ run.status.mode = run.spec.mode =>
          run.status.status = "failed"
  BY <1>1, <1>4, Zenon DEF Owing, Announced, SwitchWanted
<1>6. Announced'
  BY <1>2, <1>3, Zenon DEF Announced
<1>7. Replicated'
  <2>1. SUFFICES ASSUME ~cut, ~lost, ~waived', Replication,
                        run.spec.mode = "active"
                 PROVE  pc' = "audit"
    BY <1>2, <1>3, Zenon DEF Replicated
  <2>2. ~run.spec.noWait
    BY <2>1, Zenon DEF Switch
  <2>3. IsCheckNeeded
    BY <1>5, <2>1, <2>2, Zenon DEF IsCheckNeeded
  <2>4. QED
    BY <1>3, <2>3, Zenon
<1>8. Indebted'
  <2>1. SUFFICES ASSUME ~cut, ~lost, owed' # "none"
                 PROVE  /\ TopicsBackup
                        /\ run.spec.mode =
                              IF owed' = "restore" THEN "active" ELSE "standby"
                        /\ BackupWanted
                        /\ owed' = "backup" => run.status.mode # "disable"
    BY <1>2, <1>3, Zenon DEF Indebted, BackupWanted, Before
  <2>2. CASE run.status.mode # run.spec.mode
    <3>1. owed' = Owed
      BY <2>2, Zenon DEF Switch
    <3>2. TopicsBackup /\ run.status.mode # "none"
      BY <2>1, <3>1, SwitchoverAssumption, Zenon DEF Owed
    <3>3. CASE run.spec.mode = "active"
      <4>1. owed' = "restore"
        BY <3>1, <3>2, <3>3, Zenon DEF Owed
      <4>2. QED
        BY <2>2, <3>2, <3>3, <4>1, Zenon DEF BackupWanted
    <3>4. CASE run.spec.mode # "active"
      <4>1. CASE run.spec.mode = "standby" /\ run.status.mode = "active"
        <5>1. owed' = "backup"
          BY <3>1, <3>2, <4>1, Zenon DEF Owed
        <5>2. QED
          BY <2>2, <3>2, <4>1, <5>1, Zenon DEF BackupWanted
      <4>2. CASE ~(run.spec.mode = "standby" /\ run.status.mode = "active")
        BY <2>1, <3>1, <3>2, <3>4, <4>2, Zenon DEF Owed
      <4>3. QED
        BY <4>1, <4>2, Zenon
    <3>5. QED
      BY <3>3, <3>4, Zenon
  <2>3. CASE run.status.mode = run.spec.mode
    <3>1. owed' = owed /\ run.status.status = "failed"
      BY <1>5, <2>1, <2>3, Zenon DEF Switch
    <3>2. TopicsBackup /\ status.mode = IF owed = "restore" THEN "active" ELSE "standby"
      BY <2>1, <3>1, Zenon DEF Owing, Indebted
    <3>3. QED
      BY <1>4, <2>3, <3>1, <3>2, Zenon DEF BackupWanted
  <2>4. QED
    BY <2>2, <2>3, Zenon
<1>9. QED
  BY <1>6, <1>7, <1>8, Zenon DEF Owing

\* Get starts a cycle that is no switch yet.
LEMMA OwingGet ==
    ASSUME IInv, Owing, Get
    PROVE  Owing'
<1> USE DEF world, objects, history
<1>1. /\ pc = "idle" /\ ~run.switching
      /\ run'.spec = spec /\ run'.status = status /\ run'.switching = FALSE
  BY Zenon DEF Get, NoRun, Owing, Announced
<1>2. /\ pc' = IF SwitchWanted(spec, status) THEN "switch" ELSE "mirror"
      /\ UNCHANGED <<status, lag, owed, waived, cut, lost>>
  BY Zenon DEF Get
<1>3. Announced'
  BY <1>1, <1>2, Zenon DEF Owing, Announced, SwitchWanted
<1>4. Replicated'
  BY <1>1, <1>2, Zenon DEF Owing, Replicated
<1>5. Indebted'
  BY <1>1, <1>2, Zenon DEF Owing, Indebted
<1>6. QED
  BY <1>3, <1>4, <1>5, Zenon DEF Owing

\* The end of ReconcileBackupDaemon shows a switch as done that owes nothing;
\* a failed audit is still known to the cycle.
LEMMA OwingBackupDone ==
    ASSUME IInv, Owing, BackupDone
    PROVE  Owing'
<1> USE DEF world, history
<1>1. status \in Statuses /\ pc = "backupDone" /\ pc' = "verdict"
  BY Zenon DEF IInv, TypeOK, BackupDone
<1>2. status'.mode = status.mode /\ status'.status = "done"
  BY <1>1, Zenon DEF BackupDone, Statuses
<1>3. UNCHANGED <<run, lag, owed, waived, cut, lost>>
  BY Zenon DEF BackupDone
<1>4. Announced'
  BY <1>1, <1>2, <1>3, Zenon DEF Owing, Announced
<1>5. Replicated'
  BY <1>1, <1>2, <1>3, Zenon DEF Owing, Replicated, Announced
<1>6. Indebted'
  <2>1. ~cut /\ ~lost => owed = "none"
    BY <1>1, Zenon DEF Owing, Indebted, Announced, Before
  <2>2. QED
    BY <1>3, <2>1, Zenon DEF Indebted
<1>7. QED
  BY <1>4, <1>5, <1>6, Zenon DEF Owing

\* The deferred call shows a switch as done only if it has passed its audit and
\* met no error on the way to its backup.
LEMMA OwingDeferred ==
    ASSUME IInv, Owing, Deferred
    PROVE  Owing'
<1> USE DEF world, history
<1>1. pc = "deferred" /\ pc' = "idle" /\ run'.switching = FALSE /\ run.switching
  BY Zenon DEF Deferred, NoRun, IInv, Shown
<1>2. /\ status'.mode = run.spec.mode
      /\ status'.status = IF run.failed \/ run.err THEN "failed" ELSE "done"
      /\ UNCHANGED <<lag, owed, waived, cut, lost>>
  BY Zenon DEF Deferred
<1>3. status.mode = run.spec.mode
  BY <1>1, Zenon DEF Owing, Announced
<1>4. Announced'
  BY <1>1, <1>2, Zenon DEF Announced
<1>5. Replicated'
  BY <1>1, <1>2, <1>3, Zenon DEF Owing, Replicated
<1>6. Indebted'
  BY <1>1, <1>2, <1>3, Zenon DEF Owing, Indebted, Before
<1>7. QED
  BY <1>4, <1>5, <1>6, Zenon DEF Owing

\* A lost verdict or a crash in a switch excuses what follows; a crash in any
\* other cycle changes nothing.
LEMMA OwingLoss ==
    ASSUME IInv, Owing, DeferredLost \/ Crash
    PROVE  Owing'
<1> USE DEF world, objects, history
<1>1. /\ pc' = "idle" /\ run'.switching = FALSE
      /\ UNCHANGED <<status, lag, owed, waived>>
  BY DEF DeferredLost, Crash, NoRun
<1>2. cut \/ lost => cut' \/ lost'
  BY Zenon DEF DeferredLost, Crash
<1>3. run.switching => cut' \/ lost'
  BY Zenon DEF DeferredLost, Crash, Owing, Announced
<1>4. Announced'
  BY <1>1, <1>2, <1>3, Zenon DEF Owing, Announced
<1>5. Replicated'
  BY <1>1, <1>2, <1>3, Zenon DEF Owing, Replicated
<1>6. Indebted'
  BY <1>1, <1>2, <1>3, Zenon DEF Owing, Indebted
<1>7. QED
  BY <1>4, <1>5, <1>6, Zenon DEF Owing

\* The reconcilers of the services pay the debt before they come to the verdict.
LEMMA OwingServices ==
    ASSUME IInv, Owing,
           \/ MirrorMaker \/ MirrorMakerStatus \/ BackupDaemon
           \/ ScaleUp \/ ScaleDown \/ Scaled
           \/ RestoreLastBackup \/ NoBackupToRestore \/ PerformBackup
           \/ JobSuccessful
    PROVE  Owing'
<1> USE DEF world, objects, history
<1>1. run \in Runs
  BY Zenon DEF IInv, TypeOK
<1>2. run.switching /\ ~cut /\ ~lost /\ owed # "none" =>
          /\ run.spec.mode = IF owed = "restore" THEN "active" ELSE "standby"
          /\ BackupWanted
          /\ owed = "backup" => run.status.mode # "disable"
          /\ pc \in Before(owed) \/ pc = "deferred"
  BY Zenon DEF Owing, Indebted, Announced
<1>3. owed \in {"none", "backup", "restore"}
  BY Zenon DEF IInv, TypeOK
<1>4. CASE MirrorMaker
  <2>1. /\ run'.spec = run.spec /\ run'.status = run.status
        /\ run'.switching = run.switching /\ run'.failed = run.failed
    BY <1>1, <1>4, Zenon DEF MirrorMaker, Runs
  <2>2. QED
    BY <1>4, <2>1, OwingInside, Zenon DEF MirrorMaker, Before
<1>5. CASE MirrorMakerStatus
  BY <1>5, OwingInside, Zenon DEF MirrorMakerStatus, Before
<1>6. CASE BackupDaemon
  <2>1. /\ pc' \in {"verdict", "scaleUp", "scaleDown", "perform", "backupDone"}
        /\ BackupWanted /\ run.spec.mode = "active" => pc' = "scaleUp"
        /\ BackupWanted /\ run.spec.mode = "standby"
              /\ run.status.mode # "disable" => pc' = "perform"
    BY <1>6, Zenon DEF BackupDaemon, BackupWanted
  <2>2. run.switching /\ ~cut /\ ~lost /\ owed # "none" => pc' \in Before(owed)
    BY <1>2, <1>3, <2>1, Zenon DEF Before
  <2>3. QED
    BY <1>6, <2>1, <2>2, OwingInside, Zenon DEF BackupDaemon
<1>7. CASE ScaleUp \/ ScaleDown
  BY <1>2, <1>7, OwingInside, Zenon DEF ScaleUp, ScaleDown, Scale, Before
<1>8. CASE Scaled
  BY <1>2, <1>8, OwingInside, Zenon DEF Scaled, Before
<1>9. CASE RestoreLastBackup \/ PerformBackup
  BY <1>2, <1>9, OwingInside, Zenon
  DEF RestoreLastBackup, PerformBackup, StartJob, Before
<1>10. CASE NoBackupToRestore
  BY <1>2, <1>10, OwingInside, Zenon DEF NoBackupToRestore, Before
<1>11. CASE JobSuccessful
  BY <1>11, OwingInside, Zenon DEF JobSuccessful
<1>12. QED
  BY <1>4, <1>5, <1>6, <1>7, <1>8, <1>9, <1>10, <1>11, Zenon

\* The audit passes without a lag that it can see, or makes the switch fail.
LEMMA OwingAudit ==
    ASSUME IInv, Owing, AuditPasses \/ AuditTimeout \/ AuditError
    PROVE  Owing'
<1> USE DEF world, objects, history
<1>1. run \in Runs /\ pc = "audit" /\ pc' = "mirror"
  BY Zenon DEF IInv, TypeOK, AuditPasses, AuditTimeout, AuditError
<1>2. /\ run'.spec = run.spec /\ run'.status = run.status
      /\ run'.switching = run.switching /\ (run.failed => run'.failed)
  BY <1>1, Zenon DEF AuditPasses, AuditTimeout, AuditError, Runs
<1>3. run'.failed \/ ~lag \/ waived
  BY <1>1, Zenon DEF AuditPasses, AuditTimeout, AuditError, Runs, Audit!MayPass
<1>4. QED
  BY <1>1, <1>2, <1>3, OwingInside, Zenon
  DEF AuditPasses, AuditTimeout, AuditError, Before

\* No step of the switchover, the services or the environment forgets a debt.
LEMMA OwingStep ==
    ASSUME IInv, Owing, [Next]_vars
    PROVE  Owing'
<1> USE DEF world, objects, history
<1>1. CASE PollFails \/ PollTimeout \/ ApiError
  BY <1>1, OwingReturn, Zenon
  DEF PollFails, PollTimeout, ApiError, Unanswered, ReturnError
<1>2. CASE Verdict
  BY <1>2, OwingReturn, Zenon DEF Verdict
<1>3. CASE Operator
  BY <1>1, <1>2, <1>3, OwingGet, OwingSwitch, OwingAudit, OwingServices,
     OwingBackupDone, OwingDeferred, Zenon DEF Operator
<1>4. CASE Environment
  BY <1>4, OwingWorld
  DEF Environment, Edit, ChangeInputs, Produce, Replicate, OtherSideBackup,
      DaemonPod, Job
<1>5. CASE AuditBlinded
  BY <1>5, OwingWorld, Zenon DEF AuditBlinded
<1>6. CASE Failure
  BY <1>1, <1>5, <1>6, OwingAudit, OwingLoss, Zenon DEF Failure
<1>7. CASE UNCHANGED vars
  BY <1>7, OwingWorld, Zenon DEF vars
<1>8. QED
  BY <1>3, <1>4, <1>6, <1>7, Zenon DEF Next

\* What is owed is accounted for in every reachable state.
LEMMA OwingInvariant == Spec => []Owing
<1>1. Init => Owing
  BY DEF Init, NoRun, Owing, Announced, Replicated, Indebted
<1>2. IInv /\ Owing /\ [Next]_vars => Owing'
  BY OwingStep, Zenon
<1>3. QED
  BY <1>1, <1>2, Invariant, PTL DEF Spec

\* After any number of switches, failed audits and retries, an active side at
\* rest whose switch is done without noWait lacks no message that the audit
\* could see, unless the operator was restarted in a switch or lost its verdict:
\* for every set of requested modes and every number of changes and faults.
THEOREM ActiveReplicated == Spec => []ActiveMeansReplicatedUnlessCut
<1>1. Owing => ActiveMeansReplicatedUnlessCut
  BY DEF Owing, Announced, Replicated, ActiveMeansReplicatedUnlessCut, Quiet
<1>2. QED
  BY <1>1, OwingInvariant, PTL

\* A switch that is shown as done has had its backup restored or made by
\* ReconcileBackupDaemon, whatever errors and retries came before.
THEOREM NothingOwed == Spec => []NothingOwedWhenDone
<1>1. Owing => NothingOwedWhenDone
  BY Zenon DEF Owing, Announced, Indebted, NothingOwedWhenDone, Quiet
<1>2. QED
  BY <1>1, OwingInvariant, PTL

=============================================================================
