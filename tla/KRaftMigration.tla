--------------------------- MODULE KRaftMigration ---------------------------
(* The migration from ZooKeeper to KRaft in processKafkaReplicas of          *)
(* operator/controllers/kafka: a temporary controller is created, brokers    *)
(* are moved to migration mode, to a joint quorum with the controller and to *)
(* a quorum of their own, and the controller is removed.  The step reached   *)
(* is kept in status.kraftMigrationStatus, and a cycle that failed starts    *)
(* again from it.                                                            *)
(*                                                                           *)
(* The number of brokers is fixed (BrokerScaling changes it), and the        *)
(* resource asks for the migration from the start.  A panic in a cycle is    *)
(* recovered by controller-runtime and is an error like any other.           *)
EXTENDS Naturals, FiniteSets

CONSTANTS
    N,            \* number of brokers
    MayLose,      \* brokers whose pod may be lost, 0 for the controller
    MaxFailures, MaxTimeouts, MaxCrashes, MaxLost

ASSUME MigrationAssumption ==
    /\ N \in Nat \ {0} /\ MayLose \subseteq 0..N
    /\ MaxFailures \in Nat /\ MaxTimeouts \in Nat
    /\ MaxCrashes \in Nat /\ MaxLost \in Nat

VARIABLES
    status,      \* step in status.kraftMigrationStatus, 0 for any other text
    tmpl,        \* broker -> mode its deployment asks for
    pod,         \* broker -> mode of its pod, and whether that is ready
    ctl,         \* objects of the migration controller, and its log
    migrated,    \* the metadata of ZooKeeper is in KRaft
    done,        \* the hash of the spec is cached
    pc, run,     \* where the cycle is, its step and its broker
    cut,         \* a cycle was interrupted between ZooKeeper and step 4
    faults

vars == <<status, tmpl, pod, ctl, migrated, done, pc, run, cut, faults>>

Brokers == 1..N

MigrationSteps == 0..4

\* Modes of a broker, in the order of the migration: "joint" has the
\* migration controller among the voters, "kraft" has brokers only.
Modes == {"zookeeper", "migration", "joint", "kraft"}

WithZooKeeper == {"zookeeper", "migration"}

WithController == {"migration", "joint"}

Pods == [mode : Modes \cup {"none"}, ready : BOOLEAN]

Controllers == [service : BOOLEAN, claim : BOOLEAN,
                mode : {"none", "zookeeper", "kraft"},
                pod : {"absent", "starting", "ready"}, log : BOOLEAN]

Points == {"idle", "clusterId", "service", "claim", "deployment",
           "controllerReady", "writeStatus", "ensure", "update", "wait",
           "completed", "controller", "removeService", "removeClaim",
           "removeDeployment", "finish"}

Runs == [step : MigrationSteps, broker : Brokers]

Faults == [failures : Nat, timeouts : Nat, crashes : Nat, lost : Nat]

\* Every variable has the shape of the object it stands for.
TypeOK ==
    /\ status \in MigrationSteps
    /\ tmpl \in [Brokers -> Modes] /\ pod \in [Brokers -> Pods]
    /\ ctl \in Controllers
    /\ migrated \in BOOLEAN /\ done \in BOOLEAN /\ cut \in BOOLEAN
    /\ pc \in Points /\ run \in Runs
    /\ faults \in Faults

\* A cluster on ZooKeeper whose resource was just edited to migrate.
Init ==
    /\ status = 0
    /\ tmpl = [b \in Brokers |-> "zookeeper"]
    /\ pod = [b \in Brokers |-> [mode |-> "zookeeper", ready |-> TRUE]]
    /\ ctl = [service |-> FALSE, claim |-> FALSE, mode |-> "none",
              pod |-> "absent", log |-> FALSE]
    /\ migrated = FALSE /\ done = FALSE /\ cut = FALSE
    /\ pc = "idle" /\ run = [step |-> 0, broker |-> 1]
    /\ faults = [failures |-> 0, timeouts |-> 0, crashes |-> 0, lost |-> 0]

-----------------------------------------------------------------------------
(* The cycle *)

cluster == <<status, tmpl, pod, migrated>>

brokerId == run.broker

Up(b) == pod[b].ready /\ pod[b].mode = tmpl[b]

\* What a step starts with.
First(step) ==
    CASE step = 0 -> "service" [] step = 1 -> "ensure" [] OTHER -> "update"

\* The mode a step gives its brokers; rolloutBrokers is step 4.
Mode(step) ==
    CASE step = 1 -> "migration" [] step = 2 -> "joint" [] OTHER -> "kraft"

\* Variant: the text of a finished migration is not recognised.
BeginForgetsFinished ==
    /\ pc = "idle" /\ ~done
    /\ run' = [step |-> status % 4, broker |-> 1]
    /\ pc' = "clusterId"
    /\ UNCHANGED <<cluster, ctl, done, cut, faults>>

\* A cycle starts from the step in the status.
Begin ==
    /\ pc = "idle" /\ ~done
    /\ run' = [step |-> status, broker |-> 1]
    /\ pc' = IF status < 4 THEN "clusterId" ELSE "update"
    /\ UNCHANGED <<cluster, ctl, done, cut, faults>>

\* getZooKeeperClusterID asks one of the pods, in no particular order.
GetClusterID ==
    /\ pc = "clusterId"
    /\ \E b \in Brokers : pod[b].mode \in WithZooKeeper
    /\ pc' = First(run.step)
    /\ UNCHANGED <<cluster, ctl, done, run, cut, faults>>

\* createMigrationControllerEntities.
CreateService ==
    /\ pc = "service"
    /\ ctl' = [ctl EXCEPT !.service = TRUE]
    /\ pc' = "claim"
    /\ UNCHANGED <<cluster, done, run, cut, faults>>

CreateClaim ==
    /\ pc = "claim"
    /\ ctl' = [ctl EXCEPT !.claim = TRUE]
    /\ pc' = "deployment"
    /\ UNCHANGED <<cluster, done, run, cut, faults>>

\* A changed deployment replaces its pod, whose log is lost with it.
DeployController(mode) ==
    /\ ctl' = IF ctl.mode = mode THEN ctl
              ELSE [ctl EXCEPT !.mode = mode, !.pod = "starting",
                               !.log = FALSE]
    /\ pc' = "controllerReady"
    /\ UNCHANGED <<cluster, done, run, cut, faults>>

CreateDeployment == pc = "deployment" /\ DeployController("zookeeper")

ControllerReady ==
    /\ pc = "controllerReady" /\ ctl.pod = "ready"
    /\ pc' = "writeStatus"
    /\ UNCHANGED <<cluster, ctl, done, run, cut, faults>>

\* Variant: step two is not recorded.
WriteStatusForgetsTwo ==
    /\ pc = "writeStatus"
    /\ status' = IF run.step = 1 THEN 1 ELSE run.step + 1
    /\ run' = [step |-> run.step + 1, broker |-> 1]
    /\ pc' = First(run.step + 1)
    /\ UNCHANGED <<tmpl, pod, migrated, ctl, done, cut, faults>>

\* The step is recorded, and the cycle goes on with the next one.
WriteStatus ==
    /\ pc = "writeStatus"
    /\ status' = run.step + 1
    /\ run' = [step |-> run.step + 1, broker |-> 1]
    /\ pc' = First(run.step + 1)
    /\ UNCHANGED <<tmpl, pod, migrated, ctl, done, cut, faults>>

EnsureControllerReady ==
    /\ pc = "ensure" /\ ctl.pod = "ready"
    /\ pc' = "update"
    /\ UNCHANGED <<cluster, ctl, done, run, cut, faults>>

\* Step one waits for each broker before it updates the next, the others
\* update all brokers first.
UpdateBroker ==
    /\ pc = "update"
    /\ tmpl' = [tmpl EXCEPT ![brokerId] = Mode(run.step)]
    /\ IF run.step # 1 /\ brokerId < N
       THEN pc' = "update" /\ run' = [run EXCEPT !.broker = brokerId + 1]
       ELSE /\ pc' = IF run.step = 4 THEN "finish" ELSE "wait"
            /\ run' = IF run.step = 1 THEN run ELSE [run EXCEPT !.broker = 1]
    /\ UNCHANGED <<status, pod, migrated, ctl, done, cut, faults>>

\* Where a step goes when its brokers are ready.
AfterBrokers ==
    CASE run.step = 1 -> "completed"
      [] run.step = 2 -> "controller"
      [] OTHER -> "removeService"

\* Variant: steps three and four wait for the last broker only.
BrokerReadyLastOnly ==
    /\ pc = "wait" /\ Up(IF run.step = 1 THEN brokerId ELSE N)
    /\ IF run.step = 1 /\ brokerId < N
       THEN pc' = "update" /\ run' = [run EXCEPT !.broker = brokerId + 1]
       ELSE pc' = AfterBrokers /\ UNCHANGED run
    /\ UNCHANGED <<cluster, ctl, done, cut, faults>>

\* The broker that is waited for is ready.
BrokerReady ==
    /\ pc = "wait" /\ Up(brokerId)
    /\ IF brokerId < N
       THEN /\ pc' = IF run.step = 1 THEN "update" ELSE "wait"
            /\ run' = [run EXCEPT !.broker = brokerId + 1]
       ELSE pc' = AfterBrokers /\ UNCHANGED run
    /\ UNCHANGED <<cluster, ctl, done, cut, faults>>

\* Variant: a ready controller is taken for a finished migration.
MigrationCompletedUnchecked ==
    /\ pc = "completed" /\ ctl.pod = "ready"
    /\ pc' = "writeStatus"
    /\ UNCHANGED <<cluster, ctl, done, run, cut, faults>>

\* getMigrationStatus looks for a line in the log of the controller's pod.
MigrationCompleted ==
    /\ pc = "completed" /\ ctl.log
    /\ pc' = "writeStatus"
    /\ UNCHANGED <<cluster, ctl, done, run, cut, faults>>

UpdateController == pc = "controller" /\ DeployController("kraft")

\* removeMigrationControllerEntities.
RemoveService ==
    /\ pc = "removeService"
    /\ ctl' = [ctl EXCEPT !.service = FALSE]
    /\ pc' = "removeClaim"
    /\ UNCHANGED <<cluster, done, run, cut, faults>>

RemoveClaim ==
    /\ pc = "removeClaim"
    /\ ctl' = [ctl EXCEPT !.claim = FALSE]
    /\ pc' = "removeDeployment"
    /\ UNCHANGED <<cluster, done, run, cut, faults>>

RemoveDeployment ==
    /\ pc = "removeDeployment"
    /\ ctl' = [ctl EXCEPT !.mode = "none", !.pod = "absent", !.log = FALSE]
    /\ pc' = "writeStatus"
    /\ UNCHANGED <<cluster, done, run, cut, faults>>

Finish ==
    /\ pc = "finish"
    /\ done' = TRUE /\ pc' = "idle"
    /\ UNCHANGED <<cluster, ctl, run, cut, faults>>

-----------------------------------------------------------------------------
(* Errors, timeouts and crashes *)

\* Brokers have left ZooKeeper and the migration is not recorded as finished.
BetweenModes == status < 4 /\ \E b \in Brokers : tmpl[b] \notin WithZooKeeper

\* The cycle ends, and is started again later.
Interrupt ==
    /\ pc # "idle" /\ pc' = "idle"
    /\ cut' = (cut \/ BetweenModes)
    /\ UNCHANGED <<cluster, ctl, run>>

\* A pod without ZooKeeper, or one that is still starting, has no answer.
NoClusterID ==
    /\ pc = "clusterId"
    /\ \/ \A b \in Brokers : pod[b].mode = "none"
       \/ \E b \in Brokers : \/ pod[b].mode \in Modes \ WithZooKeeper
                             \/ pod[b].mode # "none" /\ ~pod[b].ready
    /\ Interrupt /\ UNCHANGED <<done, faults>>

ControllerNotReady ==
    /\ pc = "ensure" /\ ctl.pod # "ready"
    /\ Interrupt /\ UNCHANGED <<done, faults>>

\* getMigrationStatus indexes an empty list while the controller has no pod.
NoControllerPod ==
    /\ pc = "completed" /\ ctl.pod = "starting"
    /\ Interrupt /\ UNCHANGED <<done, faults>>

WaitTimeout ==
    /\ \/ pc = "wait" /\ ~Up(brokerId)
       \/ pc = "controllerReady" /\ ctl.pod # "ready"
       \/ pc = "completed" /\ ~ctl.log
    /\ faults.timeouts < MaxTimeouts
    /\ faults' = [faults EXCEPT !.timeouts = @ + 1]
    /\ Interrupt /\ UNCHANGED done

ApiError ==
    /\ pc \notin {"wait", "controllerReady", "completed"}
    /\ faults.failures < MaxFailures
    /\ faults' = [faults EXCEPT !.failures = @ + 1]
    /\ Interrupt /\ UNCHANGED done

\* The operator restarts and has lost the hash of the spec.
Crash ==
    /\ faults.crashes < MaxCrashes
    /\ faults' = [faults EXCEPT !.crashes = @ + 1]
    /\ done' = FALSE /\ pc' = "idle"
    /\ cut' = (cut \/ (pc # "idle" /\ BetweenModes))
    /\ UNCHANGED <<cluster, ctl, run>>

-----------------------------------------------------------------------------
(* Pods, and what Kafka does *)

\* A pod of another mode is stopped before its successor is created.
Pod(b) ==
    /\ \/ /\ pod[b].mode \notin {"none", tmpl[b]}
          /\ pod' = [pod EXCEPT ![b] = [mode |-> "none", ready |-> FALSE]]
       \/ /\ pod[b].mode = "none"
          /\ pod' = [pod EXCEPT ![b] = [mode |-> tmpl[b], ready |-> FALSE]]
       \/ /\ pod[b].mode = tmpl[b] /\ ~pod[b].ready
          /\ pod' = [pod EXCEPT ![b].ready = TRUE]
    /\ UNCHANGED <<status, tmpl, migrated, ctl, done, pc, run, cut, faults>>

ControllerPod ==
    /\ ctl.pod = "starting"
    /\ ctl' = [ctl EXCEPT !.pod = "ready"]
    /\ UNCHANGED <<cluster, done, pc, run, cut, faults>>

\* The controller copies the metadata once all brokers are in migration mode,
\* and logs it once.
MigrateMetadata ==
    /\ ~migrated /\ ctl.pod = "ready" /\ ctl.mode = "zookeeper"
    /\ ctl.service
    /\ \A b \in Brokers : pod[b] = [mode |-> "migration", ready |-> TRUE]
    /\ migrated' = TRUE
    /\ ctl' = [ctl EXCEPT !.log = TRUE]
    /\ UNCHANGED <<status, tmpl, pod, done, pc, run, cut, faults>>

\* A pod is lost and started again, without its log.
PodLost ==
    /\ faults.lost < MaxLost
    /\ faults' = [faults EXCEPT !.lost = @ + 1]
    /\ \/ \E b \in MayLose \ {0} :
             /\ pod' = [pod EXCEPT ![b] = [mode |-> "none", ready |-> FALSE]]
             /\ UNCHANGED ctl
       \/ /\ 0 \in MayLose /\ ctl.pod # "absent"
          /\ ctl' = [ctl EXCEPT !.pod = "starting", !.log = FALSE]
          /\ UNCHANGED pod
    /\ UNCHANGED <<status, tmpl, migrated, done, pc, run, cut>>

-----------------------------------------------------------------------------
Operator ==
    \/ Begin \/ GetClusterID \/ CreateService \/ CreateClaim
    \/ CreateDeployment \/ ControllerReady \/ WriteStatus
    \/ EnsureControllerReady \/ UpdateBroker \/ BrokerReady
    \/ MigrationCompleted \/ UpdateController \/ RemoveService
    \/ RemoveClaim \/ RemoveDeployment \/ Finish
    \/ NoClusterID \/ ControllerNotReady \/ NoControllerPod

Environment ==
    \/ ControllerPod \/ MigrateMetadata \/ \E b \in Brokers : Pod(b)

Next ==
    \/ Operator \/ Environment
    \/ WaitTimeout \/ ApiError \/ Crash \/ PodLost

Spec == Init /\ [][Next]_vars

\* The worker keeps working, pods start and the controller migrates.
Fairness ==
    /\ WF_vars(Operator) /\ WF_vars(ControllerPod) /\ WF_vars(MigrateMetadata)
    /\ \A b \in Brokers : WF_vars(Pod(b))

FairSpec == Spec /\ Fairness

-----------------------------------------------------------------------------
(* Properties *)

\* No broker is cut off from ZooKeeper before its metadata is in KRaft, from
\* whatever step a cycle is resumed.
ZooKeeperKeptUntilMigrated ==
    migrated \/ \A b \in Brokers : tmpl[b] \in WithZooKeeper

\* The controller keeps its ZooKeeper connection, and with it the writes of
\* metadata to both sides, while a broker still runs with ZooKeeper.
ControllerWritesToBoth ==
    ctl.mode = "kraft" =>
        \A b \in Brokers : pod[b].mode \notin WithZooKeeper

\* The objects of the controller stay as long as a running broker has it among
\* its voters, although they are removed one by one and each call may fail.
ControllerKeptWhileVoter ==
    (\E b \in Brokers : pod[b].mode \in WithController) =>
        ctl.service /\ ctl.claim /\ ctl.mode # "none"

\* A migration that is recorded as finished has left nothing behind.
FinishedMeansMigrated ==
    status = 4 =>
        /\ \A b \in Brokers : tmpl[b] = "kraft"
        /\ ~ctl.service /\ ~ctl.claim /\ ctl.mode = "none"

\* The temporary controller serves both sides as long as a running broker needs
\* it, and is gone when the migration is recorded as finished.
ControllerLifetime ==
    ControllerWritesToBoth /\ ControllerKeptWhileVoter /\ FinishedMeansMigrated

Rank(mode) ==
    CASE mode = "zookeeper" -> 0 [] mode = "migration" -> 1
      [] mode = "joint" -> 2 [] OTHER -> 3

\* A retry never takes a broker back to an earlier mode.
BrokersNeverGoBack ==
    [][\A b \in Brokers : Rank(tmpl[b]) <= Rank(tmpl'[b])]_vars

\* The only line that tells the end of the copy went with the controller's pod.
LogLost == migrated /\ ~ctl.log /\ status < 2

\* The migration ends, unless a cycle is interrupted after the first broker
\* was told to leave ZooKeeper and before step 4 is recorded, or the line that
\* getMigrationStatus looks for is lost.
MigrationFinishesUnlessCut == <>[](done /\ status = 4) \/ <>(cut \/ LogLost)

\* The migration ends, whatever cycle was interrupted.
MigrationFinishes == <>(done /\ status = 4)

=============================================================================
