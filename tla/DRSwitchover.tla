---------------------------- MODULE DRSwitchover ----------------------------
(***************************************************************************)
(* Disaster recovery of one side: the cycle of KafkaServiceReconciler with *)
(* the reconcilers of Mirror Maker and of the backup daemon.  A switch of  *)
(* the mode is announced in the status, the replication is audited, Mirror *)
(* Maker is scaled, topics are restored or backed up, and a deferred call  *)
(* writes the verdict when the cycle returns.                              *)
(*                                                                         *)
(* Conditions are written but read only within the cycle that cleared      *)
(* them, so run.failed stands for them.  The monitoring deployments and    *)
(* the content of generated objects are left out.                          *)
(***************************************************************************)
EXTENDS Naturals

CONSTANTS
    Replication,     \* spec.disasterRecovery.mirrorMakerReplication.enabled
    TopicsBackup,    \* spec.disasterRecovery.topicsBackup.enabled
    Asked,           \* modes the chart or a site manager asks for
    MaxEdits, MaxInputs, MaxFaults

\* The code knows "disable", the documents and the chart "disabled".
Modes == {"active", "standby", "disable", "disabled"}

ASSUME SwitchoverAssumption ==
    /\ Asked \subseteq Modes
    /\ Replication \in BOOLEAN /\ TopicsBackup \in BOOLEAN
    /\ MaxEdits \in Nat /\ MaxInputs \in Nat /\ MaxFaults \in Nat

VARIABLES
    spec,        \* the resource: mode, noWait, and a number for its hash
    status,      \* status.disasterRecoveryStatus
    inputs,      \* version of the Secrets and configuration of the services
    mirror,      \* Mirror Maker's deployment has replicas, and its inputs
    daemon,      \* backup daemon: replicas wanted, inputs, pod, its last job
    lag,         \* messages of the other side are not replicated yet
    vault,       \* a full backup of the other region exists
    cache,       \* ResourceHashes and ResourceVersions
    queued, pc, run,
    faults,      \* failed calls, timeouts, crashes and lost verdicts so far
    owed,        \* history: what the present mode still has to restore or save
    waived,      \* history: the present mode was asked for with noWait, or the
                 \* audit could not see all messages
    cut,         \* history: the operator crashed during a switch
    lost         \* history: the verdict of a switch was not written

vars == <<spec, status, inputs, mirror, daemon, lag, vault, cache, queued, pc,
          run, faults, owed, waived, cut, lost>>

Specs == [mode : Modes, noWait : BOOLEAN, v : Nat]

Statuses == [mode : Modes \cup {"none"},
             status : {"none", "running", "done", "failed"}]

Points ==
    {"idle", "switch", "audit", "mirror", "mirrorStatus", "backup", "scaleUp",
     "scaledUp", "restore", "restored", "perform", "performed", "scaleDown",
     "scaledDown", "backupDone", "verdict", "deferred"}

Runs == [spec : Specs, status : Statuses, inputs : Nat, changed : BOOLEAN,
         switching : BOOLEAN, drChecked : BOOLEAN, failed : BOOLEAN,
         err : BOOLEAN]

\* Every variable has the shape of the object it stands for.
TypeOK ==
    /\ spec \in Specs /\ status \in Statuses /\ inputs \in Nat
    /\ mirror \in [on : BOOLEAN, inputs : Nat]
    /\ daemon \in [up : BOOLEAN, inputs : Nat, pod : {"none", "old", "new"},
                   job : {"none", "running", "ok"}]
    /\ lag \in BOOLEAN /\ vault \in BOOLEAN
    /\ cache \in [spec : Nat, inputs : Nat]
    /\ queued \in BOOLEAN /\ pc \in Points /\ run \in Runs
    /\ faults \in Nat
    /\ owed \in {"none", "restore", "backup"}
    /\ waived \in BOOLEAN /\ cut \in BOOLEAN /\ lost \in BOOLEAN

NoRun ==
    [spec |-> [mode |-> "active", noWait |-> FALSE, v |-> 0],
     status |-> [mode |-> "none", status |-> "none"],
     inputs |-> 0, changed |-> FALSE, switching |-> FALSE,
     drChecked |-> FALSE, failed |-> FALSE, err |-> FALSE]

\* A side that was just installed: the chart asks for a mode without a check
\* and has deployed the backup daemon for it, but not Mirror Maker.
Init ==
    \E mode \in Asked \ {"disable"} :
        /\ spec = [mode |-> mode, noWait |-> TRUE, v |-> 1]
        /\ status = [mode |-> "none", status |-> "none"]
        /\ inputs = 1
        /\ mirror = [on |-> FALSE, inputs |-> 0]
        /\ daemon = [up |-> mode = "active", inputs |-> 0, job |-> "none",
                     pod |-> IF mode = "active" THEN "new" ELSE "none"]
        /\ lag = (mode # "active") /\ vault = FALSE
        /\ cache = [spec |-> 0, inputs |-> 0]
        /\ queued = TRUE /\ pc = "idle"
        /\ run = NoRun
        /\ faults = 0
        /\ owed = "none" /\ waived = FALSE /\ cut = FALSE /\ lost = FALSE

-----------------------------------------------------------------------------
(* What the cycle works on *)

objects == <<status, mirror, daemon>>

world == <<spec, inputs, lag, vault>>

history == <<owed, waived, cut, lost>>

\* A failure that may come at any time, but not for ever.
Fault == faults < MaxFaults /\ faults' = faults + 1

\* A site manager asks for a mode.
Edit ==
    /\ spec.v <= MaxEdits
    /\ \E mode \in Asked, noWait \in BOOLEAN :
          /\ <<mode, noWait>> # <<spec.mode, spec.noWait>>
          /\ spec' = [mode |-> mode, noWait |-> noWait, v |-> spec.v + 1]
    /\ queued' = TRUE
    /\ UNCHANGED <<objects, inputs, lag, vault, cache, pc, run, faults,
                   history>>

\* A Secret or the config map of Mirror Maker is edited.
ChangeInputs ==
    /\ inputs <= MaxInputs
    /\ inputs' = inputs + 1 /\ queued' = TRUE
    /\ UNCHANGED <<objects, spec, lag, vault, cache, pc, run, faults, history>>

-----------------------------------------------------------------------------
(* The cycle of KafkaServiceReconciler *)

\* Variant: an announced switch that was not finished is not taken up again.
SwitchWantedNewModeOnly(s, st) == st.mode # s.mode

SwitchWanted(s, st) == st.mode # s.mode \/ st.status \in {"running", "failed"}

Get ==
    /\ pc = "idle" /\ queued
    /\ run' = [NoRun EXCEPT !.spec = spec, !.status = status,
                            !.changed = cache.spec # spec.v]
    /\ pc' = IF SwitchWanted(spec, status) THEN "switch" ELSE "mirror"
    /\ queued' = FALSE
    /\ UNCHANGED <<world, objects, cache, faults, history>>

\* Variant: a retry of a failed switch is not audited.
IsCheckNeededFirstOnly ==
    /\ ~run.spec.noWait /\ Replication /\ run.spec.mode = "active"
    /\ run.status.mode # "active"

\* isCheckNeeded looks at the status from before the switch was announced.
IsCheckNeeded ==
    /\ ~run.spec.noWait /\ Replication /\ run.spec.mode = "active"
    /\ run.status.mode # "active" \/ run.status.status = "failed"

\* What the backup daemon has to do for a mode that is new.
Owed ==
    IF ~TopicsBackup \/ run.status.mode = "none" THEN "none"
    ELSE CASE run.spec.mode = "active" -> "restore"
           [] run.spec.mode = "standby" /\ run.status.mode = "active" -> "backup"
           [] OTHER -> "none"

\* The switch is announced in the status, with the new mode.
Switch ==
    /\ pc = "switch"
    /\ status' = [mode |-> run.spec.mode, status |-> "running"]
    /\ run' = [run EXCEPT !.switching = TRUE, !.drChecked = ~IsCheckNeeded]
    /\ pc' = IF IsCheckNeeded THEN "audit" ELSE "mirror"
    /\ IF run.status.mode # run.spec.mode
       THEN owed' = Owed /\ waived' = run.spec.noWait
       ELSE owed' = owed /\ waived' = (waived \/ run.spec.noWait)
    /\ UNCHANGED <<world, mirror, daemon, cache, queued, faults, cut, lost>>

\* The part of CheckFullReplication that matters here.
Audit == INSTANCE AuditPromise
    WITH excused <- waived,
         verdict <- IF run.failed THEN "failed" ELSE "passed"

\* A count fails and the error is dropped, or the lag is hidden by retention or by
\* messages of the standby side that nobody has copied, or twice.
AuditBlinded ==
    /\ pc = "audit" /\ ~waived /\ Fault
    /\ waived' = TRUE
    /\ UNCHANGED <<world, objects, cache, queued, pc, run, owed, cut, lost>>

\* CheckFullReplication finds every message of the other side ...
AuditPasses ==
    /\ pc = "audit" /\ Audit!MayPass
    /\ run' = [run EXCEPT !.drChecked = TRUE]
    /\ pc' = "mirror"
    /\ UNCHANGED <<world, objects, cache, queued, faults, history>>

\* ... or does not answer in time, which may happen without a lag, too; the
\* reconcilers run all the same.
AuditTimeout ==
    /\ pc = "audit"
    /\ run' = [run EXCEPT !.failed = TRUE]
    /\ pc' = "mirror"
    /\ UNCHANGED <<world, objects, cache, queued, faults, history>>

\* An error of the audit is not returned, it only goes into the verdict.
AuditError ==
    /\ pc = "audit" /\ Fault
    /\ run' = [run EXCEPT !.failed = TRUE]
    /\ pc' = "mirror"
    /\ UNCHANGED <<world, objects, cache, queued, history>>

\* Without replicas of Mirror Maker there is no replication.
MirrorOff == {"active", "disable"}

\* Variant: a checked switch is no reason to redeploy.
MirrorMakerUnchecked ==
    /\ pc = "mirror"
    /\ run' = [run EXCEPT !.inputs = inputs]
    /\ IF cache.inputs # inputs
       THEN /\ mirror' = [on |-> run.spec.mode \notin MirrorOff,
                         inputs |-> inputs]
            /\ queued' = (queued \/ mirror' # mirror)
            /\ pc' = "mirrorStatus"
       ELSE pc' = "backup" /\ UNCHANGED <<mirror, queued>>
    /\ UNCHANGED <<world, status, daemon, cache, faults, history>>

\* ReconcileMirrorMaker redeploys for changed inputs or a checked switch; the
\* replicas follow the mode either way.
MirrorMaker ==
    /\ pc = "mirror"
    /\ run' = [run EXCEPT !.inputs = inputs]
    /\ IF run.drChecked \/ cache.inputs # inputs
       THEN /\ mirror' = [on |-> run.spec.mode \notin MirrorOff,
                         inputs |-> inputs]
            /\ queued' = (queued \/ mirror' # mirror)
            /\ pc' = "mirrorStatus"
       ELSE pc' = "backup" /\ UNCHANGED <<mirror, queued>>
    /\ UNCHANGED <<world, status, daemon, cache, faults, history>>

MirrorMakerStatus ==
    /\ pc = "mirrorStatus"
    /\ cache' = [cache EXCEPT !.inputs = run.inputs]
    /\ pc' = "backup"
    /\ UNCHANGED <<world, objects, queued, run, faults, history>>

-----------------------------------------------------------------------------
(* ReconcileBackupDaemon *)

\* Variant: a failed switch is not repeated.
BackupWantedNewModeOnly ==
    TopicsBackup /\ run.status.mode \notin {"none", run.spec.mode}

\* Decided by the status from before the switch, so a switch that is found
\* "running" is not repeated here.
BackupWanted ==
    /\ TopicsBackup
    /\ \/ run.status.mode \notin {"none", run.spec.mode}
       \/ run.status.status = "failed"

\* A changed Secret goes into the pod template, which replaces the pod.
Annotated(secret) ==
    IF daemon.inputs = secret THEN daemon
    ELSE [daemon EXCEPT !.inputs = secret,
                        !.pod = IF @ = "new" THEN "old" ELSE @]

BackupDaemon ==
    /\ pc = "backup"
    /\ daemon' = Annotated(inputs)
    /\ pc' = CASE ~BackupWanted -> "verdict"
               [] BackupWanted /\ run.spec.mode = "active" -> "scaleUp"
               [] BackupWanted /\ run.spec.mode = "disable" -> "scaleDown"
               [] BackupWanted /\ run.spec.mode = "standby"
                     /\ run.status.mode # "disable" -> "perform"
               [] OTHER -> "backupDone"
    /\ UNCHANGED <<world, status, mirror, cache, queued, run, faults, history>>

Scale(up) ==
    /\ daemon' = [daemon EXCEPT !.up = up]
    /\ pc' = IF up THEN "scaledUp" ELSE "scaledDown"
    /\ UNCHANGED <<world, status, mirror, cache, queued, run, faults, history>>

ScaleUp == pc = "scaleUp" /\ Scale(TRUE)

ScaleDown == pc = "scaleDown" /\ Scale(FALSE)

\* Variant: a deployment without replicas is never ready.
ReadyMeansRunning == daemon.pod = "new"

\* AreDeploymentsReady counts the pods of the present template.
Ready == daemon.up = (daemon.pod = "new")

Scaled ==
    /\ pc \in {"scaledUp", "scaledDown"} /\ Ready
    /\ pc' = IF pc = "scaledUp" THEN "restore" ELSE "backupDone"
    /\ UNCHANGED <<world, objects, cache, queued, run, faults, history>>

\* A request needs a running daemon and starts a job.
StartJob(next) ==
    /\ daemon.pod # "none"
    /\ daemon' = [daemon EXCEPT !.job = "running"]
    /\ pc' = next
    /\ UNCHANGED <<world, status, mirror, cache, queued, run, faults, history>>

RestoreLastBackup == pc = "restore" /\ vault /\ StartJob("restored")

\* Without a backup of the other region the switch goes on only with noWait.
NoBackupToRestore ==
    /\ pc = "restore" /\ daemon.pod # "none" /\ ~vault /\ run.spec.noWait
    /\ pc' = "backupDone"
    /\ owed' = IF owed = "restore" THEN "none" ELSE owed
    /\ UNCHANGED <<world, objects, cache, queued, run, faults, waived, cut, lost>>

PerformBackup == pc = "perform" /\ StartJob("performed")

\* checkRestoreStatus and checkBackupStatus.
JobSuccessful ==
    /\ pc \in {"restored", "performed"} /\ daemon.job = "ok"
    /\ pc' = IF pc = "restored" THEN "backupDone" ELSE "scaleDown"
    /\ owed' = "none"
    /\ UNCHANGED <<world, objects, cache, queued, run, faults, waived, cut, lost>>

BackupDone ==
    /\ pc = "backupDone"
    /\ status' = [status EXCEPT !.status = "done"]
    /\ pc' = "verdict"
    /\ UNCHANGED <<world, mirror, daemon, cache, queued, run, faults, history>>

-----------------------------------------------------------------------------
(* The end of the cycle *)

\* What follows a return of the cycle with or without an error.
Return(err) ==
    IF run.switching
    THEN pc' = "deferred" /\ run' = [run EXCEPT !.err = err]
    ELSE pc' = "idle" /\ run' = NoRun

\* The hashes are stored even if a component is not ready, which is an error
\* for the deferred call and none for the caller.
Verdict ==
    /\ pc = "verdict"
    /\ \/ Return(FALSE) /\ UNCHANGED faults
       \/ /\ run.changed /\ Fault
          /\ Return(TRUE)
    /\ cache' = [cache EXCEPT !.spec = run.spec.v]
    /\ UNCHANGED <<world, objects, queued, history>>

\* The deferred call of Reconcile.
Deferred ==
    /\ pc = "deferred"
    /\ status' = [mode |-> run.spec.mode,
                  status |-> IF run.failed \/ run.err THEN "failed" ELSE "done"]
    /\ pc' = "idle" /\ run' = NoRun
    /\ UNCHANGED <<world, mirror, daemon, cache, queued, faults, history>>

\* Its error is dropped.
DeferredLost ==
    /\ pc = "deferred" /\ Fault
    /\ lost' = TRUE /\ pc' = "idle" /\ run' = NoRun
    /\ UNCHANGED <<world, objects, cache, queued, owed, waived, cut>>

ReturnError ==
    /\ Return(TRUE) /\ queued' = TRUE
    /\ UNCHANGED <<world, objects, cache, history>>

\* Calls to the backup daemon are repeated until their timeout instead.
ApiError ==
    /\ pc \in {"switch", "mirror", "mirrorStatus", "backup", "scaleUp",
               "scaleDown", "backupDone", "verdict"}
    /\ Fault
    /\ ReturnError

\* The backup daemon is scaled down, has nothing to restore or, as a new pod,
\* does not know the job.
Unanswered ==
    \/ pc \in {"restore", "perform"} /\ daemon.pod = "none" /\ ~daemon.up
    \/ pc = "restore" /\ ~vault /\ ~run.spec.noWait
    \/ pc \in {"restored", "performed"} /\ daemon.job = "none"

\* A poll ends because what it waits for does not happen ...
PollFails ==
    /\ Unanswered
    /\ ReturnError /\ UNCHANGED faults

\* ... or takes too long.
PollTimeout ==
    /\ \/ pc \in {"scaledUp", "scaledDown"} /\ ~Ready
       \/ pc \in {"restore", "perform"} /\ daemon.pod = "none" /\ daemon.up
       \/ pc \in {"restored", "performed"} /\ daemon.job = "running"
    /\ Fault
    /\ ReturnError

Crash ==
    /\ Fault
    /\ cache' = [spec |-> 0, inputs |-> 0]
    /\ cut' = (cut \/ (pc # "idle" /\ run.switching))
    /\ pc' = "idle" /\ run' = NoRun /\ queued' = TRUE
    /\ UNCHANGED <<world, objects, owed, waived, lost>>

-----------------------------------------------------------------------------
(* Kafka, Mirror Maker, the backup daemon and the other side *)

\* Clients use the other side while this one neither is nor shall be active.
Produce ==
    /\ spec.mode # "active" /\ status.mode # "active" /\ ~lag
    /\ lag' = TRUE
    /\ UNCHANGED <<objects, spec, inputs, vault, cache, queued, pc, run, faults,
                   history>>

Replicate ==
    /\ lag /\ mirror.on
    /\ lag' = FALSE
    /\ UNCHANGED <<objects, spec, inputs, vault, cache, queued, pc, run, faults,
                   history>>

OtherSideBackup ==
    /\ TopicsBackup /\ ~vault
    /\ vault' = TRUE
    /\ UNCHANGED <<objects, spec, inputs, lag, cache, queued, pc, run, faults,
                   history>>

\* A deployment with the strategy Recreate.
DaemonPod ==
    /\ daemon.pod # IF daemon.up THEN "new" ELSE "none"
    /\ daemon' = [daemon EXCEPT !.pod = IF @ = "none" THEN "new" ELSE "none",
                                !.job = "none"]
    /\ UNCHANGED <<world, status, mirror, cache, queued, pc, run, faults,
                   history>>

Job ==
    /\ daemon.job = "running"
    /\ daemon' = [daemon EXCEPT !.job = "ok"]
    /\ UNCHANGED <<world, status, mirror, cache, queued, pc, run, faults,
                   history>>

-----------------------------------------------------------------------------
Operator ==
    \/ Get \/ Switch \/ AuditPasses \/ AuditTimeout
    \/ MirrorMaker \/ MirrorMakerStatus
    \/ BackupDaemon \/ ScaleUp \/ ScaleDown \/ Scaled
    \/ RestoreLastBackup \/ NoBackupToRestore \/ PerformBackup
    \/ JobSuccessful \/ BackupDone \/ PollFails
    \/ Verdict \/ Deferred

Environment ==
    \/ Edit \/ ChangeInputs
    \/ Produce \/ Replicate \/ OtherSideBackup \/ DaemonPod \/ Job

Failure ==
    \/ AuditBlinded \/ AuditError \/ ApiError \/ PollTimeout \/ DeferredLost \/ Crash

Next == Operator \/ Environment \/ Failure

Spec == Init /\ [][Next]_vars

\* The worker keeps working, and the backup daemon starts, stops and works.
Fairness == WF_vars(Operator) /\ WF_vars(DaemonPod) /\ WF_vars(Job)

FairSpec == Spec /\ Fairness

-----------------------------------------------------------------------------
(* Properties *)

Quiet == pc = "idle" /\ ~queued

\* Reconcile at rest shows the mode that is asked for and how its switch ended:
\* the deferred call replaces "running" on every return.
VerdictShownAtRest ==
    ~lost /\ Quiet => status.mode = spec.mode /\ status.status # "running"

\* A switch to active that is done without noWait has all messages of the other
\* side, as far as the audit can see them, also after failed audits and retries:
\* isCheckNeeded asks for the audit whenever the last switch failed, and its
\* result survives the reconcilers that run after it.  The exception is a restart of the operator in a switch:
\* the mode is in the status by then, and "running" asks for no audit.
ActiveMeansReplicatedUnlessCut ==
    ~cut /\ ~lost /\ Quiet /\ Replication /\ ~waived
        /\ status = [mode |-> "active", status |-> "done"]
    => ~lag

\* Mirror Maker has replicas on a standby side and only there once the switch
\* is done, although ReconcileMirrorMaker skips the redeployment in cycles that
\* are no checked switch, and forgets its hashes at a restart.
MirrorFollowsMode ==
    ~lost /\ Quiet /\ status.status = "done"
    => mirror.on = (status.mode = "standby")

\* A switch that is done has restored the backup of the other region or made
\* its own, also when it failed between these steps and was retried.
NothingOwedWhenDone ==
    ~cut /\ ~lost /\ Quiet /\ status.status = "done" => owed = "none"

\* A site manager that polls the status gets an answer: in the end the mode
\* asked for is shown as done or failed, unless the verdict is lost or every
\* retry meets a backup daemon that cannot answer.
SwitchoverSettles ==
    \/ <>[](status.mode = spec.mode /\ status.status # "running")
    \/ <>lost \/ []<>Unanswered

\* "The DR feature supports retry if operation has not been finished
\* successfully": a switch to standby that is retried for ever is done some day.
RetrySucceeds ==
    []<>(pc = "switch" /\ run.spec.mode = "standby")
        => []<>(status.status = "done")

\* On a disabled side "replication from `active` Kafka is disabled": Mirror
\* Maker's replicas are set from the mode in NewMirrorMakerDeploymentForCR.
DisabledStopsReplication ==
    ~lost /\ Quiet /\ status = [mode |-> "disabled", status |-> "done"]
    => ~mirror.on
=============================================================================
