------------------------ MODULE KRaftMigrationProofs ------------------------
(* Proofs about KRaftMigration for any number of brokers and any number of   *)
(* errors, timeouts, crashes and lost pods.                                  *)
EXTENDS KRaftMigration, TLAPS

-----------------------------------------------------------------------------
(* The inductive invariant *)

\* A running cycle works on the step in the status, at a point of that step.
Flow ==
    /\ pc # "idle" => run.step = status
    /\ pc \in {"service", "claim", "deployment"} => run.step = 0
    /\ pc = "controllerReady" => run.step \in {0, 2}
    /\ pc \in {"ensure", "completed"} => run.step = 1
    /\ pc = "controller" => run.step = 2
    /\ pc \in {"removeService", "removeClaim", "removeDeployment"} =>
           run.step = 3
    /\ pc = "update" => run.step # 0
    /\ pc = "wait" => run.step \in {1, 2, 3}
    /\ pc \in {"clusterId", "writeStatus"} => run.step # 4

\* The modes brokers can have once a step is recorded.
Stage(s) ==
    IF s = 0 THEN {"zookeeper"}
    ELSE IF s = 1 THEN {"zookeeper", "migration"}
    ELSE IF s = 2 THEN {"migration", "joint"}
    ELSE IF s = 3 THEN {"joint", "kraft"}
    ELSE {"kraft"}

Staged ==
    \A b \in Brokers : /\ tmpl[b] \in Stage(status)
                       /\ pod[b].mode \in Stage(status) \cup {"none"}

\* The deployment of b asks for the mode, and b runs in no other.
Settled(b, mode) == tmpl[b] = mode /\ pod[b].mode \in {"none", mode}

AllSettled(mode) == \A b \in Brokers : Settled(b, mode)

\* The loops over the brokers have dealt with those before the current one.
Loops ==
    /\ pc \in {"clusterId", "ensure"} => run.broker = 1
    /\ pc = "update" => \A b \in 1..(run.broker - 1) :
           IF run.step = 1 THEN Settled(b, Mode(run.step))
           ELSE tmpl[b] = Mode(run.step)
    /\ pc = "wait" => \A b \in 1..(run.broker - 1) : Settled(b, Mode(run.step))
    /\ pc = "wait" => tmpl[run.broker] = Mode(run.step)
    /\ pc = "wait" /\ run.step # 1 =>
           \A b \in Brokers : tmpl[b] = Mode(run.step)

\* Points of a step at which all its brokers have been seen ready.
AllSeen ==
    \/ pc \in {"completed", "controller", "removeService", "removeClaim",
               "removeDeployment"}
    \/ pc \in {"writeStatus", "controllerReady"} /\ run.step # 0

Seen == AllSeen => AllSettled(Mode(run.step))

\* Nothing but the line in the log makes a cycle go past step one.
Copied ==
    /\ ctl.log => migrated
    /\ status >= 2 => migrated
    /\ pc = "writeStatus" /\ run.step = 1 => migrated

Complete == ctl.service /\ ctl.claim /\ ctl.mode # "none"

\* The objects of the controller in each step.
Controller ==
    /\ pc \in {"claim", "deployment"} => ctl.service
    /\ pc = "deployment" => ctl.claim
    /\ pc \in {"controllerReady", "writeStatus"} /\ run.step = 0 => Complete
    /\ status \in {1, 2} => Complete
    /\ status \in {0, 1} => ctl.mode # "kraft"
    /\ status = 2 /\ ctl.mode = "kraft" => AllSettled("joint")
    /\ status = 3 /\ ~Complete => AllSettled("kraft")
    /\ pc \in {"removeClaim", "removeDeployment"} => ~ctl.service
    /\ pc = "removeDeployment" => ~ctl.claim
    /\ pc = "writeStatus" /\ run.step = 3 =>
           ~ctl.service /\ ~ctl.claim /\ ctl.mode = "none"
    /\ status = 4 => ~ctl.service /\ ~ctl.claim /\ ctl.mode = "none"

IInv ==
    TypeOK /\ Flow /\ Staged /\ Loops /\ Seen /\ Copied /\ Controller

-----------------------------------------------------------------------------
(* Types *)

\* The operators that choose the next point and mode stay in their sets.
LEMMA PointTypes ==
    /\ \A s \in MigrationSteps : First(s) \in Points /\ Mode(s) \in Modes
    /\ AfterBrokers \in Points
BY Zenon DEF First, Mode, AfterBrokers, Points, Modes, MigrationSteps

\* Numbers of brokers and steps: what the loops need of arithmetic.
LEMMA Numbers ==
    /\ N \in Nat /\ 1 \in Brokers
    /\ \A b \in Brokers : b \in Nat /\ b >= 1 /\ b <= N
    /\ \A b \in Brokers : b < N => b + 1 \in Brokers
    /\ \A b \in Brokers : ~(b < N) => b = N
BY MigrationAssumption DEF Brokers

\* A record that stands for a cycle.
LEMMA RunTypes ==
    ASSUME TypeOK
    PROVE  /\ run.step \in MigrationSteps /\ run.broker \in Brokers
           /\ \A b \in Brokers : [run EXCEPT !.broker = b] \in Runs
           /\ \A s \in MigrationSteps, b \in Brokers :
                 [step |-> s, broker |-> b] \in Runs
BY Zenon DEF TypeOK, Runs

\* The handlers of the operator keep the types.
LEMMA OperatorTypes ==
    ASSUME TypeOK, Flow, Operator
    PROVE  TypeOK'
<1> USE DEF cluster
<1>1. CASE Begin
  BY <1>1, Numbers, RunTypes, Zenon DEF Begin, TypeOK, Points
<1>2. CASE GetClusterID
  BY <1>2, PointTypes, RunTypes, Zenon DEF GetClusterID, TypeOK
<1>3. CASE CreateService \/ CreateClaim
  BY <1>3, Zenon DEF CreateService, CreateClaim, TypeOK, Points, Controllers
<1>4. CASE CreateDeployment \/ UpdateController
  <2>1. PICK mode \in {"zookeeper", "kraft"} : DeployController(mode)
    BY <1>4, Zenon DEF CreateDeployment, UpdateController
  <2>2. ctl' \in Controllers
    BY <2>1, Zenon DEF DeployController, TypeOK, Controllers
  <2> QED
    BY <2>1, <2>2, Zenon DEF DeployController, TypeOK, Points
<1>5. CASE ControllerReady \/ EnsureControllerReady \/ MigrationCompleted
  BY <1>5, Zenon DEF ControllerReady, EnsureControllerReady, MigrationCompleted,
              TypeOK, Points
<1>6. CASE WriteStatus
  <2>1. run.step + 1 \in MigrationSteps
    BY <1>6, RunTypes DEF WriteStatus, Flow, MigrationSteps
  <2> QED
    BY <1>6, <2>1, PointTypes, RunTypes, Numbers, Zenon DEF WriteStatus, TypeOK
<1>7. CASE UpdateBroker
  <2>1. tmpl' \in [Brokers -> Modes]
    BY <1>7, PointTypes, RunTypes, Zenon DEF UpdateBroker, TypeOK
  <2>2. run' \in Runs
    BY <1>7, RunTypes, Numbers, Zenon DEF UpdateBroker, TypeOK, brokerId
  <2>3. pc' \in Points
    BY <1>7, Zenon DEF UpdateBroker, Points
  <2> QED
    BY <1>7, <2>1, <2>2, <2>3, Zenon DEF UpdateBroker, TypeOK
<1>8. CASE BrokerReady
  <2>1. run' \in Runs
    BY <1>8, RunTypes, Numbers, Zenon DEF BrokerReady, TypeOK, brokerId
  <2>2. pc' \in Points
    BY <1>8, PointTypes, Zenon DEF BrokerReady, Points
  <2> QED
    BY <1>8, <2>1, <2>2, Zenon DEF BrokerReady, TypeOK
<1>9. CASE RemoveService \/ RemoveClaim \/ RemoveDeployment
  BY <1>9, Zenon DEF RemoveService, RemoveClaim, RemoveDeployment, TypeOK, Points,
              Controllers
<1>10. CASE Finish
  BY <1>10, Zenon DEF Finish, TypeOK, Points
<1>11. CASE NoClusterID \/ ControllerNotReady \/ NoControllerPod
  BY <1>11, Zenon DEF NoClusterID, ControllerNotReady, NoControllerPod, Interrupt,
               TypeOK, Points
<1> QED
  BY <1>1, <1>2, <1>3, <1>4, <1>5, <1>6, <1>7, <1>8, <1>9, <1>10, <1>11, Zenon
     DEF Operator

\* Pods, the migration by Kafka and faults keep the types.
LEMMA EnvironmentTypes ==
    ASSUME TypeOK, Environment \/ WaitTimeout \/ ApiError \/ Crash \/ PodLost
    PROVE  TypeOK'
<1> USE DEF cluster
<1>1. CASE ControllerPod \/ MigrateMetadata
  BY <1>1, Zenon DEF ControllerPod, MigrateMetadata, TypeOK, Controllers
<1>2. ASSUME NEW b \in Brokers, Pod(b) PROVE TypeOK'
  <2>1. pod' \in [Brokers -> Pods]
    <3>1. /\ [mode |-> "none", ready |-> FALSE] \in Pods
          /\ [mode |-> tmpl[b], ready |-> FALSE] \in Pods
          /\ [pod[b] EXCEPT !.ready = TRUE] \in Pods
      BY Zenon DEF TypeOK, Pods
    <3> QED
      BY <1>2, <3>1, Zenon DEF Pod, TypeOK
  <2> QED
    BY <1>2, <2>1, Zenon DEF Pod, TypeOK
<1>3. CASE WaitTimeout \/ ApiError \/ Crash
  <2>1. faults' \in Faults
    BY <1>3 DEF WaitTimeout, ApiError, Crash, TypeOK, Faults
  <2> QED
    BY <1>3, <2>1, Zenon DEF WaitTimeout, ApiError, Crash, Interrupt, TypeOK, Points
<1>4. CASE PodLost
  <2>1. faults' \in Faults
    BY <1>4 DEF PodLost, TypeOK, Faults
  <2>2. pod' \in [Brokers -> Pods] /\ ctl' \in Controllers
    <3>1. [mode |-> "none", ready |-> FALSE] \in Pods
      BY Zenon DEF Pods
    <3> QED
      BY <1>4, <3>1, ZenonT(40) DEF PodLost, TypeOK, Controllers
  <2> QED
    BY <1>4, <2>1, <2>2, Zenon DEF PodLost, TypeOK
<1> QED
  BY <1>1, <1>2, <1>3, <1>4, Zenon DEF Environment

-----------------------------------------------------------------------------
(* The steps of the invariant *)

Inner == Flow /\ Staged /\ Loops /\ Seen /\ Copied /\ Controller

\* The modes of the steps, and the stage that follows a step.
LEMMA Stages ==
    /\ Mode(1) = "migration" /\ Mode(2) = "joint"
    /\ Mode(3) = "kraft" /\ Mode(4) = "kraft"
    /\ First(0) = "service" /\ First(1) = "ensure" /\ First(2) = "update"
    /\ First(3) = "update" /\ First(4) = "update"
    /\ Stage(0) = {"zookeeper"} /\ Stage(1) = {"zookeeper", "migration"}
    /\ Stage(2) = {"migration", "joint"} /\ Stage(3) = {"joint", "kraft"}
    /\ Stage(4) = {"kraft"}
BY DEF Mode, First, Stage

\* A cycle that ends, in whatever way, leaves the invariant to the next one.
LEMMA EndStep ==
    ASSUME Inner, UNCHANGED <<status, tmpl, pod, migrated, ctl, run>>,
           pc' = "idle"
    PROVE  Inner'
BY Zenon DEF Inner, Flow, Staged, Loops, Seen, AllSeen, AllSettled, Settled, Copied,
       Controller, Complete

\* A new cycle starts from the recorded step.
LEMMA BeginStep ==
    ASSUME TypeOK, Inner, Begin \/ GetClusterID
    PROVE  Inner'
<1>1. CASE Begin
  <2>1. /\ UNCHANGED <<status, tmpl, pod, migrated, ctl>>
        /\ run'.step = status /\ run'.broker = 1
        /\ pc' = IF status < 4 THEN "clusterId" ELSE "update"
    BY <1>1, Zenon DEF Begin, cluster
  <2>2. Flow'
    BY <2>1 DEF Flow, TypeOK, MigrationSteps
  <2>3. Staged' /\ Copied' /\ Controller'
    BY <2>1, Zenon DEF Inner, Staged, Copied, Controller, Complete, AllSettled,
                Settled
  <2>4. Loops' /\ Seen'
    BY <2>1 DEF Loops, Seen, AllSeen
  <2> QED
    BY <2>2, <2>3, <2>4, Zenon DEF Inner
<1>2. CASE GetClusterID
  <2>1. /\ UNCHANGED <<status, tmpl, pod, migrated, ctl, run>>
        /\ pc = "clusterId" /\ pc' = First(run.step)
    BY <1>2, Zenon DEF GetClusterID, cluster
  <2>2. run.step \in 0..3 /\ run.step = status
    BY <2>1, RunTypes DEF Inner, Flow, MigrationSteps
  <2>3. pc' \in {"service", "ensure", "update"}
    BY <2>1, Zenon DEF First
  <2>4. Flow'
    BY <2>1, <2>2, Zenon DEF First, Flow
  <2>5. Staged' /\ Copied' /\ Controller'
    BY <2>1, <2>3, Zenon DEF Inner, Staged, Copied, Controller, Complete,
                      AllSettled, Settled
  <2>6. Loops' /\ Seen'
    <3>1. run'.broker = 1
      BY <2>1, Zenon DEF Inner, Loops
    <3> QED
      BY <2>1, <2>3, <3>1 DEF Loops, Seen, AllSeen
  <2> QED
    BY <2>4, <2>5, <2>6, Zenon DEF Inner
<1> QED
  BY <1>1, <1>2, Zenon

\* The entities of the controller are created before step one is recorded.
LEMMA CreateStep ==
    ASSUME TypeOK, Inner, CreateService \/ CreateClaim \/ CreateDeployment
    PROVE  Inner'
<1>1. /\ UNCHANGED <<status, tmpl, pod, migrated, run>>
      /\ run.step = 0 /\ status = 0
      /\ pc \in {"service", "claim", "deployment"}
      /\ pc' \in {"claim", "deployment", "controllerReady"}
  BY Zenon DEF CreateService, CreateClaim, CreateDeployment, DeployController,
         cluster, Inner, Flow
<1>2. Flow' /\ Staged' /\ Loops' /\ Seen'
  BY <1>1, Zenon DEF Inner, Flow, Staged, Loops, Seen, AllSeen
<1>3. ctl'.log => ctl.log
  BY Zenon DEF CreateService, CreateClaim, CreateDeployment, DeployController,
         TypeOK, Controllers
<1>4. Copied'
  BY <1>1, <1>3, Zenon DEF Inner, Copied
<1>5. ctl'.mode # "kraft"
  <2>1. ctl.mode # "kraft"
    BY <1>1, Zenon DEF Inner, Controller
  <2>2. ctl'.mode \in {ctl.mode, "zookeeper"}
    BY Zenon DEF CreateService, CreateClaim, CreateDeployment, DeployController,
           TypeOK, Controllers
  <2> QED
    BY <2>1, <2>2, Zenon
<1>6. /\ pc' = "claim" => ctl'.service
      /\ pc' = "deployment" => ctl'.service /\ ctl'.claim
      /\ pc' = "controllerReady" =>
             ctl'.service /\ ctl'.claim /\ ctl'.mode # "none"
  BY Zenon DEF CreateService, CreateClaim, CreateDeployment, DeployController,
         TypeOK, Controllers, Inner, Controller
<1>7. Controller'
  BY <1>1, <1>5, <1>6 DEF Controller, Complete
<1> QED
  BY <1>2, <1>4, <1>7, Zenon DEF Inner

\* Readiness of the controller and the line in its log move a step on.
LEMMA ReadyStep ==
    ASSUME TypeOK, Inner,
           ControllerReady \/ EnsureControllerReady \/ MigrationCompleted
    PROVE  Inner'
<1>1. UNCHANGED <<status, tmpl, pod, migrated, ctl, run>>
  BY Zenon DEF ControllerReady, EnsureControllerReady, MigrationCompleted, cluster
<1>2. CASE ControllerReady
  <2>1. /\ pc = "controllerReady" /\ pc' = "writeStatus"
        /\ run.step \in {0, 2} /\ run.step = status
    BY <1>2, Zenon DEF ControllerReady, Inner, Flow
  <2>2. Flow' /\ Staged' /\ Loops' /\ Copied'
    BY <1>1, <2>1 DEF Inner, Flow, Staged, Loops, Copied
  <2>3. Seen'
    BY <1>1, <2>1, Zenon DEF Inner, Seen, AllSeen, AllSettled, Settled
  <2>4. Controller'
    BY <1>1, <2>1 DEF Inner, Controller, Complete, AllSettled, Settled
  <2> QED
    BY <2>2, <2>3, <2>4, Zenon DEF Inner
<1>3. CASE EnsureControllerReady
  <2>1. /\ pc = "ensure" /\ pc' = "update" /\ run.broker = 1
        /\ run.step = 1 /\ run.step = status
    BY <1>3, Zenon DEF EnsureControllerReady, Inner, Flow, Loops
  <2>2. Flow' /\ Staged' /\ Copied'
    BY <1>1, <2>1 DEF Inner, Flow, Staged, Copied
  <2>3. Loops' /\ Seen'
    BY <1>1, <2>1 DEF Loops, Seen, AllSeen
  <2>4. Controller'
    BY <1>1, <2>1, Zenon DEF Inner, Controller, Complete, AllSettled, Settled
  <2> QED
    BY <2>2, <2>3, <2>4, Zenon DEF Inner
<1>4. CASE MigrationCompleted
  <2>1. /\ pc = "completed" /\ pc' = "writeStatus" /\ ctl.log
        /\ run.step = 1 /\ run.step = status
    BY <1>4, Zenon DEF MigrationCompleted, Inner, Flow
  <2>2. Flow' /\ Staged' /\ Loops' /\ Copied'
    BY <1>1, <2>1 DEF Inner, Flow, Staged, Loops, Copied
  <2>3. Seen'
    BY <1>1, <2>1, Zenon DEF Inner, Seen, AllSeen, AllSettled, Settled
  <2>4. Controller'
    BY <1>1, <2>1 DEF Inner, Controller, Complete, AllSettled, Settled
  <2> QED
    BY <2>2, <2>3, <2>4, Zenon DEF Inner
<1> QED
  BY <1>2, <1>3, <1>4, Zenon

\* A step is recorded when all its brokers have its mode.
LEMMA WriteStep ==
    ASSUME TypeOK, Inner, WriteStatus
    PROVE  Inner'
<1>1. /\ UNCHANGED <<tmpl, pod, migrated, ctl>>
      /\ pc = "writeStatus" /\ status' = run.step + 1
      /\ run'.step = run.step + 1 /\ run'.broker = 1
      /\ pc' = First(run.step + 1)
  BY Zenon DEF WriteStatus
<1>2. run.step \in 0..3 /\ run.step = status
  BY <1>1, RunTypes DEF Inner, Flow, MigrationSteps
<1>3. pc' \in {"ensure", "update"} /\ (pc' = "ensure" <=> run.step = 0)
  BY <1>1, <1>2 DEF First
<1>4. Flow'
  BY <1>1, <1>2, <1>3 DEF Flow
<1>5. Loops' /\ Seen'
  BY <1>1, <1>3 DEF Loops, Seen, AllSeen
<1>6. Staged'
  <2>1. CASE run.step = 0
    <3>1. status = 0 /\ status' = 1
      BY <1>1, <1>2, <2>1
    <3> QED
      BY <1>1, <3>1, Stages, Zenon DEF Inner, Staged
  <2>2. CASE run.step # 0
    <3>1. AllSettled(Mode(run.step))
      BY <1>1, <2>2, Zenon DEF Inner, Seen, AllSeen
    <3>2. Mode(run.step) \in Stage(status')
      BY <1>1, <1>2, <2>2 DEF Mode, Stage
    <3> QED
      BY <1>1, <3>1, <3>2, Zenon DEF Staged, AllSettled, Settled
  <2> QED
    BY <2>1, <2>2, Zenon
<1>7. Copied'
  BY <1>1, <1>2, <1>3 DEF Inner, Copied
<1>8. Controller'
  <2>1. CASE run.step = 0
    <3>1. Complete /\ ctl.mode # "kraft" /\ status' = 1
      BY <1>1, <1>2, <2>1 DEF Inner, Controller
    <3> QED
      BY <1>1, <1>3, <3>1 DEF Controller, Complete
  <2>2. CASE run.step = 1
    <3>1. Complete /\ ctl.mode # "kraft" /\ status' = 2
      BY <1>1, <1>2, <2>2 DEF Inner, Controller
    <3> QED
      BY <1>1, <1>3, <3>1 DEF Controller, Complete
  <2>3. CASE run.step = 2
    <3>1. Complete /\ status' = 3
      BY <1>1, <1>2, <2>3 DEF Inner, Controller
    <3> QED
      BY <1>1, <1>3, <3>1 DEF Controller, Complete
  <2>4. CASE run.step = 3
    <3>1. /\ ~ctl.service /\ ~ctl.claim /\ ctl.mode = "none"
          /\ status' = 4
      BY <1>1, <1>2, <2>4 DEF Inner, Controller
    <3> QED
      BY <1>1, <1>3, <3>1 DEF Controller, Complete
  <2> QED
    BY <1>2, <2>1, <2>2, <2>3, <2>4
<1> QED
  BY <1>4, <1>5, <1>6, <1>7, <1>8, Zenon DEF Inner

\* A new deployment keeps brokers that have the mode of the step already.
LEMMA UpdateSettled ==
    ASSUME TypeOK, Inner, UpdateBroker, NEW mode, AllSettled(mode),
           mode = Mode(run.step)
    PROVE  AllSettled(mode)'
<1>1. tmpl' = [tmpl EXCEPT ![run.broker] = mode] /\ pod' = pod
  BY Zenon DEF UpdateBroker, brokerId
<1>2. ASSUME NEW b \in Brokers PROVE Settled(b, mode)'
  BY <1>1, <1>2, Zenon DEF AllSettled, Settled, TypeOK
<1> QED
  BY <1>2, Zenon DEF AllSettled

\* The loop gives one more broker the mode of the step.
LEMMA UpdateStep ==
    ASSUME TypeOK, Inner, UpdateBroker
    PROVE  Inner'
<1>1. /\ UNCHANGED <<status, pod, migrated, ctl>> /\ pc = "update"
      /\ tmpl' = [tmpl EXCEPT ![run.broker] = Mode(run.step)]
  BY Zenon DEF UpdateBroker, brokerId
<1>2. /\ run.step \in 1..4 /\ run.step = status
      /\ run.broker \in Brokers
  BY <1>1, RunTypes DEF Inner, Flow, MigrationSteps
<1>3. /\ run'.step = run.step
      /\ \/ /\ pc' = "update" /\ run.step # 1 /\ run.broker < N
            /\ run'.broker = run.broker + 1
         \/ /\ pc' = "wait" /\ run.step = 1 /\ run'.broker = run.broker
         \/ /\ pc' = "wait" /\ run.step \in {2, 3} /\ run.broker = N
            /\ run'.broker = 1
         \/ /\ pc' = "finish" /\ run.step = 4
  BY <1>2, Numbers DEF UpdateBroker, brokerId, TypeOK, Runs
<1>4. Flow'
  BY <1>1, <1>2, <1>3 DEF Flow
<1>5. Staged'
  <2>1. Mode(run.step) \in Stage(status)
    BY <1>2, Stages
  <2>2. ASSUME NEW b \in Brokers PROVE tmpl'[b] \in Stage(status)
    BY <1>1, <2>1, <2>2, Zenon DEF Inner, Staged, TypeOK
  <2> QED
    BY <1>1, <2>2, Zenon DEF Inner, Staged
<1>6. \A b \in Brokers : tmpl'[b] = IF b = run.broker THEN Mode(run.step)
                                    ELSE tmpl[b]
  BY <1>1, Zenon DEF TypeOK
<1>7. \A b \in 1..(run.broker - 1) :
          b \in Brokers /\ b # run.broker /\ tmpl[b] = Mode(run.step)
  <2>1. \A b \in 1..(run.broker - 1) : b \in Brokers /\ b # run.broker
    BY <1>2, Numbers DEF Brokers
  <2>2. \A b \in 1..(run.broker - 1) : tmpl[b] = Mode(run.step)
    BY <1>1, Zenon DEF Inner, Loops, Settled
  <2> QED
    BY <2>1, <2>2, Zenon
<1>8. \A b \in 1..run.broker : tmpl'[b] = Mode(run.step)
  <2>1. \A b \in 1..run.broker : b = run.broker \/ b \in 1..(run.broker - 1)
    BY <1>2, Numbers
  <2> QED
    BY <1>2, <1>6, <1>7, <2>1, Zenon
<1>9. Loops'
  <2>1. CASE pc' = "update"
    <3>1. run'.broker - 1 = run.broker /\ run'.step = run.step /\ run.step # 1
      BY <1>2, <1>3, <2>1, Numbers
    <3> QED
      BY <1>8, <2>1, <3>1, Zenon DEF Loops, Mode
  <2>2. CASE pc' = "wait" /\ run.step = 1
    <3>1. \A b \in 1..(run.broker - 1) : Settled(b, Mode(run.step))
      BY <1>1, <2>2, Zenon DEF Inner, Loops
    <3>2. \A b \in 1..(run.broker - 1) : Settled(b, Mode(run.step))'
      BY <1>1, <1>3, <1>6, <1>7, <3>1 DEF Settled, Mode
    <3>3. run'.broker = run.broker /\ run'.step = run.step
      BY <1>3, <2>2
    <3>4. tmpl'[run.broker] = Mode(run.step)
      BY <1>2, <1>6, Zenon
    <3> QED
      BY <2>2, <3>2, <3>3, <3>4, Zenon DEF Loops, Mode
  <2>3. CASE pc' = "wait" /\ run.step # 1
    <3>1. run.broker = N /\ run'.broker = 1 /\ run'.step = run.step
      BY <1>3, <2>3, Zenon
    <3>2. \A b \in Brokers : tmpl'[b] = Mode(run.step)
      BY <1>8, <3>1, Zenon DEF Brokers
    <3> QED
      BY <2>3, <3>1, <3>2, Numbers DEF Loops, Mode
  <2>4. CASE pc' = "finish"
    BY <2>4, Zenon DEF Loops
  <2> QED
    BY <1>3, <2>1, <2>2, <2>3, <2>4, Zenon
<1>10. Seen' /\ Copied'
  BY <1>1, <1>3, Zenon DEF Inner, Seen, AllSeen, Copied
<1>11. Controller'
  <2>1. ASSUME status = 2, ctl.mode = "kraft" PROVE AllSettled("joint")'
    BY <1>2, <2>1, UpdateSettled, Stages, Zenon DEF Inner, Controller
  <2>2. ASSUME status = 3, ~Complete PROVE AllSettled("kraft")'
    BY <1>2, <2>2, UpdateSettled, Stages, Zenon DEF Inner, Controller
  <2>3. pc' \in {"update", "wait", "finish"}
    BY <1>3, Zenon
  <2> QED
    BY <1>1, <2>1, <2>2, <2>3, Zenon DEF Inner, Controller, Complete
<1> QED
  BY <1>4, <1>5, <1>9, <1>10, <1>11, Zenon DEF Inner

\* A broker that is ready runs in the mode of the step, and so do all of
\* them after the last.
LEMMA BrokerReadyStep ==
    ASSUME TypeOK, Inner, BrokerReady
    PROVE  Inner'
<1>1. /\ UNCHANGED <<status, tmpl, pod, migrated, ctl>> /\ pc = "wait"
      /\ pod[run.broker].mode = tmpl[run.broker]
  BY Zenon DEF BrokerReady, cluster, Up, brokerId
<1>2. /\ run.step \in 1..3 /\ run.step = status
      /\ run.broker \in Brokers
  BY <1>1, RunTypes DEF Inner, Flow
<1>3. /\ run'.step = run.step
      /\ \/ /\ run.broker < N /\ run'.broker = run.broker + 1
            /\ pc' = IF run.step = 1 THEN "update" ELSE "wait"
         \/ /\ run.broker = N /\ pc' = AfterBrokers
  BY <1>2, Numbers, Zenon DEF BrokerReady, brokerId, TypeOK, Runs
<1>4. \A b \in 1..run.broker : Settled(b, Mode(run.step))
  <2>1. \A b \in 1..run.broker : b = run.broker \/ b \in 1..(run.broker - 1)
    BY <1>2, Numbers
  <2>2. Settled(run.broker, Mode(run.step))
    BY <1>1, Zenon DEF Inner, Loops, Settled
  <2>3. \A b \in 1..(run.broker - 1) : Settled(b, Mode(run.step))
    BY <1>1, Zenon DEF Inner, Loops
  <2> QED
    BY <2>1, <2>2, <2>3, Zenon
<1>5. \A b \in 1..run.broker : Settled(b, Mode(run.step))'
  BY <1>1, <1>3, <1>4, Zenon DEF Settled, Mode
<1>6. CASE run.broker < N
  <2>1. /\ pc' \in {"update", "wait"} /\ (pc' = "update" <=> run.step = 1)
        /\ run'.broker = run.broker + 1 /\ run'.broker \in Brokers
        /\ run'.broker - 1 = run.broker
    BY <1>2, <1>3, <1>6, Numbers
  <2>2. Flow'
    BY <1>1, <1>2, <1>3, <2>1 DEF Flow
  <2>3. Loops'
    <3>1. pc' = "update" => \A b \in 1..(run'.broker - 1) :
              Settled(b, Mode(run.step))'
      BY <1>5, <2>1, Zenon
    <3>2. pc' = "wait" => \A b \in 1..(run'.broker - 1) :
              Settled(b, Mode(run.step))'
      BY <1>5, <2>1, Zenon
    <3>3. pc' = "wait" => \A b \in Brokers : tmpl'[b] = Mode(run'.step)
      BY <1>1, <1>3, <2>1, Zenon DEF Inner, Loops, Mode
    <3> QED
      BY <1>3, <2>1, <3>1, <3>2, <3>3, Zenon DEF Loops, Mode
  <2>4. Staged' /\ Seen' /\ Copied'
    BY <1>1, <2>1, Zenon DEF Inner, Staged, Seen, AllSeen, Copied
  <2>5. Controller'
    BY <1>1, <2>1, Zenon DEF Inner, Controller, Complete, AllSettled, Settled
  <2> QED
    BY <2>2, <2>3, <2>4, <2>5, Zenon DEF Inner
<1>7. CASE run.broker = N
  <2>1. /\ pc' = AfterBrokers
        /\ pc' \in {"completed", "controller", "removeService"}
    BY <1>2, <1>3, <1>7, Numbers DEF AfterBrokers
  <2>2. Flow'
    BY <1>1, <1>2, <1>3, <2>1 DEF Flow, AfterBrokers
  <2>3. Loops' /\ Staged' /\ Copied'
    BY <1>1, <2>1, Zenon DEF Inner, Loops, Staged, Copied
  <2>4. Seen'
    BY <1>5, <1>7, Zenon DEF Seen, AllSettled, Brokers
  <2>5. Controller'
    BY <1>1, <2>1, Zenon DEF Inner, Controller, Complete, AllSettled, Settled
  <2> QED
    BY <2>2, <2>3, <2>4, <2>5, Zenon DEF Inner
<1> QED
  BY <1>3, <1>6, <1>7, Zenon

\* The controller loses ZooKeeper, and then its objects, when all brokers
\* have been seen in the mode that allows it.
LEMMA ControllerStep ==
    ASSUME TypeOK, Inner,
           UpdateController \/ RemoveService \/ RemoveClaim \/ RemoveDeployment
    PROVE  Inner'
<1>1. UNCHANGED <<status, tmpl, pod, migrated, run>>
  BY Zenon DEF UpdateController, DeployController, RemoveService, RemoveClaim,
         RemoveDeployment, cluster
<1>2. /\ pc \in {"controller", "removeService", "removeClaim",
                 "removeDeployment"}
      /\ pc' \in {"controllerReady", "removeClaim", "removeDeployment",
                  "writeStatus"}
      /\ pc = "controller" <=> pc' = "controllerReady"
      /\ pc = "removeService" <=> pc' = "removeClaim"
      /\ pc = "removeClaim" <=> pc' = "removeDeployment"
  BY Zenon DEF UpdateController, DeployController, RemoveService, RemoveClaim,
         RemoveDeployment
<1>3. /\ run.step = status
      /\ run.step = IF pc = "controller" THEN 2 ELSE 3
  BY <1>2, Zenon DEF Inner, Flow
<1>4. AllSettled(Mode(run.step)) /\ AllSettled(Mode(run.step))'
  BY <1>1, <1>2, Zenon DEF Inner, Seen, AllSeen, AllSettled, Settled, Mode
<1>5. Flow' /\ Staged' /\ Loops'
  BY <1>1, <1>2, <1>3 DEF Inner, Flow, Staged, Loops
<1>6. Seen'
  BY <1>4, Zenon DEF Seen
<1>7. ctl'.log => ctl.log
  BY Zenon DEF UpdateController, DeployController, RemoveService, RemoveClaim,
         RemoveDeployment, TypeOK, Controllers
<1>8. Copied'
  BY <1>1, <1>3, <1>7 DEF Inner, Copied
<1>9. Controller'
  <2>1. CASE UpdateController
    <3>1. ctl'.service = ctl.service /\ ctl'.claim = ctl.claim
          /\ ctl'.mode = "kraft" /\ pc' = "controllerReady" /\ pc = "controller"
      BY <2>1, Zenon DEF UpdateController, DeployController, TypeOK, Controllers
    <3>2. /\ status = 2 /\ run.step = 2
          /\ AllSettled("joint") /\ AllSettled("joint")'
      BY <1>1, <1>3, <1>4, <3>1, Stages DEF AllSettled, Settled
    <3> QED
      BY <1>1, <3>1, <3>2, Zenon DEF Inner, Controller, Complete
  <2>2. CASE RemoveService \/ RemoveClaim \/ RemoveDeployment
    <3>1. status = 3 /\ run.step = 3 /\ AllSettled("kraft")'
      BY <1>3, <1>4, <2>2, Stages DEF RemoveService, RemoveClaim,
         RemoveDeployment, Mode
    <3>2. pc' \in {"removeClaim", "removeDeployment", "writeStatus"}
      BY <2>2, Zenon DEF RemoveService, RemoveClaim, RemoveDeployment
    <3>3. /\ pc \in {"removeClaim", "removeDeployment"} => ~ctl.service
          /\ pc = "removeDeployment" => ~ctl.claim
      BY Zenon DEF Inner, Controller
    <3>4. /\ ~ctl'.service
          /\ pc' \in {"removeDeployment", "writeStatus"} => ~ctl'.claim
          /\ pc' = "writeStatus" => ctl'.mode = "none"
      <4>1. CASE RemoveService
        BY <4>1, Zenon DEF RemoveService, TypeOK, Controllers
      <4>2. CASE RemoveClaim
        BY <3>3, <4>2, Zenon DEF RemoveClaim, TypeOK, Controllers
      <4>3. CASE RemoveDeployment
        BY <3>3, <4>3, Zenon DEF RemoveDeployment, TypeOK, Controllers
      <4> QED
        BY <2>2, <4>1, <4>2, <4>3, Zenon
    <3> QED
      BY <1>1, <3>1, <3>2, <3>4 DEF Controller, Complete
  <2> QED
    BY <2>1, <2>2, Zenon
<1> QED
  BY <1>5, <1>6, <1>8, <1>9, Zenon DEF Inner

\* A change of one pod to none or to the mode its deployment asks for.
LEMMA PodStep ==
    ASSUME TypeOK, Inner, NEW b \in Brokers,
           UNCHANGED <<status, tmpl, migrated, pc, run>>,
           /\ ctl'.service = ctl.service /\ ctl'.claim = ctl.claim
           /\ ctl'.mode = ctl.mode /\ (ctl'.log => ctl.log),
           \A c \in Brokers : c # b => pod'[c] = pod[c],
           pod'[b].mode \in {"none", tmpl[b]}
    PROVE  Inner'
<1>1. ASSUME NEW c \in Brokers, NEW mode, Settled(c, mode)
      PROVE  Settled(c, mode)'
  BY <1>1, Zenon DEF Settled
<1>2. ASSUME NEW mode, AllSettled(mode) PROVE AllSettled(mode)'
  BY <1>1, <1>2, Zenon DEF AllSettled
<1>3. Flow' /\ Copied'
  BY Zenon DEF Inner, Flow, Copied
<1>4. Staged'
  BY Zenon DEF Inner, Staged
<1>5. Seen'
  <2>1. ASSUME AllSeen' PROVE AllSettled(Mode(run.step))'
    BY <1>2, <2>1, Zenon DEF Inner, Seen, AllSeen
  <2> QED
    BY <2>1, Zenon DEF Seen, AllSettled, Settled, Mode
<1>6. Loops'
  <2>1. \A c \in 1..(run.broker - 1) : c \in Brokers
    BY RunTypes, Numbers DEF Brokers
  <2>2. Mode(run'.step) = Mode(run.step)
    BY Zenon DEF Mode
  <2>3. ASSUME NEW c \in 1..(run.broker - 1), Settled(c, Mode(run.step))
        PROVE  tmpl'[c] = Mode(run'.step)
               /\ pod'[c].mode \in {"none", Mode(run'.step)}
    BY <2>1, <2>2, <2>3, Zenon DEF Settled
  <2> QED
    BY <2>2, <2>3, Zenon DEF Inner, Loops, Settled
<1>7. Controller'
  <2>1. Complete' <=> Complete
    BY Zenon DEF Complete
  <2> QED
    BY <1>2, <2>1, Zenon DEF Inner, Controller
<1> QED
  BY <1>3, <1>4, <1>5, <1>6, <1>7, Zenon DEF Inner

\* A change of nothing but the pod and the log of the controller, and of the
\* metadata.
LEMMA KeepStep ==
    ASSUME Inner, UNCHANGED <<status, tmpl, pod, pc, run>>,
           /\ ctl'.service = ctl.service /\ ctl'.claim = ctl.claim
           /\ ctl'.mode = ctl.mode,
           migrated => migrated', ctl'.log => ctl.log \/ migrated'
    PROVE  Inner'
<1>1. Flow' /\ Staged'
  BY Zenon DEF Inner, Flow, Staged
<1>2. Loops'
  BY DEF Inner, Loops, Settled, Mode
<1>3. Seen'
  BY Zenon DEF Inner, Seen, AllSeen, AllSettled, Settled, Mode
<1>4. Copied'
  BY Zenon DEF Inner, Copied
<1>5. Controller'
  BY Zenon DEF Inner, Controller, Complete, AllSettled, Settled
<1> QED
  BY <1>1, <1>2, <1>3, <1>4, <1>5, Zenon DEF Inner

\* What Kubernetes and Kafka do leaves the invariant alone.
LEMMA EnvironmentStep ==
    ASSUME TypeOK, Inner, Environment \/ PodLost
    PROVE  Inner'
<1> USE DEF cluster
<1>1. CASE ControllerPod
  <2>1. /\ UNCHANGED <<status, tmpl, pod, migrated, pc, run>>
        /\ ctl'.service = ctl.service /\ ctl'.claim = ctl.claim
        /\ ctl'.mode = ctl.mode /\ ctl'.log = ctl.log
    BY <1>1, Zenon DEF ControllerPod, TypeOK, Controllers
  <2> QED
    BY <2>1, KeepStep, Zenon
<1>2. CASE MigrateMetadata
  <2>1. /\ UNCHANGED <<status, tmpl, pod, pc, run>> /\ migrated'
        /\ ctl'.service = ctl.service /\ ctl'.claim = ctl.claim
        /\ ctl'.mode = ctl.mode
    BY <1>2, Zenon DEF MigrateMetadata, TypeOK, Controllers
  <2> QED
    BY <2>1, KeepStep, Zenon
<1>3. ASSUME NEW b \in Brokers, Pod(b) PROVE Inner'
  <2>1. /\ UNCHANGED <<status, tmpl, migrated, pc, run, ctl>>
        /\ \A c \in Brokers : c # b => pod'[c] = pod[c]
    BY <1>3, Zenon DEF Pod, TypeOK
  <2>2. pod'[b].mode \in {"none", tmpl[b]}
    BY <1>3 DEF Pod, TypeOK, Pods
  <2> QED
    BY <2>1, <2>2, PodStep, Zenon
<1>4. CASE PodLost
  <2>1. UNCHANGED <<status, tmpl, migrated, pc, run>>
    BY <1>4, Zenon DEF PodLost
  <2>2. ASSUME NEW b \in MayLose \ {0}, UNCHANGED ctl,
               pod' = [pod EXCEPT ![b] = [mode |-> "none", ready |-> FALSE]]
        PROVE  Inner'
    <3>1. b \in Brokers
      BY <2>2, MigrationAssumption DEF Brokers
    <3>2. /\ \A c \in Brokers : c # b => pod'[c] = pod[c]
          /\ pod'[b].mode = "none"
      BY <2>2, <3>1, Zenon DEF TypeOK
    <3> QED
      BY <2>1, <2>2, <3>1, <3>2, PodStep, Zenon
  <2>3. ASSUME ctl' = [ctl EXCEPT !.pod = "starting", !.log = FALSE],
               UNCHANGED pod
        PROVE  Inner'
    <3>1. /\ ctl'.service = ctl.service /\ ctl'.claim = ctl.claim
          /\ ctl'.mode = ctl.mode /\ ~ctl'.log
      BY <2>3, Zenon DEF TypeOK, Controllers
    <3> QED
      BY <2>1, <2>3, <3>1, KeepStep, Zenon
  <2> QED
    BY <1>4, <2>2, <2>3, Zenon DEF PodLost
<1> QED
  BY <1>1, <1>2, <1>3, <1>4, Zenon DEF Environment

\* The invariant is kept by every step.
LEMMA InvariantStep ==
    IInv /\ [Next]_vars => IInv'
<1> SUFFICES ASSUME TypeOK, Inner, [Next]_vars PROVE TypeOK' /\ Inner'
  BY Zenon DEF IInv, Inner
<1>1. CASE UNCHANGED vars
  <2>1. TypeOK'
    BY <1>1, Zenon DEF vars, TypeOK
  <2>2. Inner'
    BY <1>1, KeepStep, Zenon DEF vars
  <2> QED
    BY <2>1, <2>2, Zenon
<1>2. CASE Operator
  <2>1. TypeOK'
    BY <1>2, OperatorTypes, Zenon DEF Inner
  <2>2. CASE Finish \/ NoClusterID \/ ControllerNotReady \/ NoControllerPod
    <3>1. UNCHANGED <<status, tmpl, pod, migrated, ctl, run>> /\ pc' = "idle"
      BY <2>2, Zenon DEF Finish, NoClusterID, ControllerNotReady, NoControllerPod,
                  Interrupt, cluster
    <3> QED
      BY <2>1, <3>1, EndStep, Zenon
  <2> QED
    BY <1>2, <2>1, <2>2, BeginStep, CreateStep, ReadyStep, WriteStep,
       UpdateStep, BrokerReadyStep, ControllerStep, Zenon DEF Operator
<1>3. CASE Environment \/ PodLost
  BY <1>3, EnvironmentTypes, EnvironmentStep, Zenon
<1>4. CASE WaitTimeout \/ ApiError \/ Crash
  BY <1>4, EnvironmentTypes, EndStep, Zenon DEF WaitTimeout, ApiError, Crash,
                                         Interrupt, cluster
<1> QED
  BY <1>1, <1>2, <1>3, <1>4, Zenon DEF Next

\* The invariant holds of a cluster on ZooKeeper.
LEMMA InvariantInit ==
    Init => IInv
<1> SUFFICES ASSUME Init PROVE IInv
  BY Zenon
<1>1. /\ status = 0 /\ pc = "idle"
      /\ migrated = FALSE /\ done = FALSE /\ cut = FALSE
      /\ run = [step |-> 0, broker |-> 1]
      /\ ctl.mode = "none" /\ ~ctl.log
      /\ \A b \in Brokers : tmpl[b] = "zookeeper"
      /\ \A b \in Brokers : pod[b].mode = "zookeeper"
  BY Zenon DEF Init
<1>2. tmpl \in [Brokers -> Modes]
  BY Zenon DEF Init, Modes
<1>3. pod \in [Brokers -> Pods]
  BY Zenon DEF Init, Pods, Modes
<1>4. ctl \in Controllers
  BY Zenon DEF Init, Controllers
<1>5. faults \in Faults
  BY Zenon DEF Init, Faults
<1>6. run \in Runs
  BY <1>1, Numbers DEF Runs, MigrationSteps
<1>7. TypeOK
  <2>1. status \in MigrationSteps /\ pc \in Points
    BY <1>1 DEF MigrationSteps, Points
  <2>2. migrated \in BOOLEAN /\ done \in BOOLEAN /\ cut \in BOOLEAN
    BY <1>1, Zenon
  <2> QED
    BY <2>1, <2>2, <1>2, <1>3, <1>4, <1>5, <1>6, Zenon DEF TypeOK
<1>8. Flow /\ Loops /\ Seen
  BY <1>1, Zenon DEF Flow, Loops, Seen, AllSeen
<1>9. Staged
  BY <1>1, Stages, Zenon DEF Staged
<1>10. Copied /\ Controller
  BY <1>1 DEF Copied, Controller
<1> QED
  BY <1>7, <1>8, <1>9, <1>10, Zenon DEF IInv

\* The invariant holds in every reachable state.
LEMMA Invariant ==
    Spec => []IInv
BY InvariantInit, InvariantStep, PTL DEF Spec

-----------------------------------------------------------------------------
(* Theorems *)

\* Every variable keeps its type: the loops over brokers stay in range and
\* no step is recorded beyond the last.
THEOREM MigrationTypes ==
    Spec => []TypeOK
<1>1. IInv => TypeOK
  BY Zenon DEF IInv
<1> QED
  BY <1>1, Invariant, PTL

\* Brokers leave ZooKeeper only after its metadata was copied, however often
\* the steps of the migration are repeated.
THEOREM MigrationSafe ==
    Spec => []ZooKeeperKeptUntilMigrated
<1>1. ASSUME IInv
      PROVE  ZooKeeperKeptUntilMigrated
  <2>1. status \in 0..4 /\ Staged /\ Copied
    BY <1>1, Zenon DEF IInv, TypeOK, MigrationSteps
  <2>2. CASE status \in {0, 1}
    BY <2>1, <2>2, Stages, Zenon DEF Staged, ZooKeeperKeptUntilMigrated, WithZooKeeper
  <2>3. CASE status \in {2, 3, 4}
    BY <2>1, <2>3 DEF Copied, ZooKeeperKeptUntilMigrated
  <2> QED
    BY <2>1, <2>2, <2>3
<1> QED
  BY <1>1, Invariant, PTL

\* The controller keeps ZooKeeper while a broker runs with it and exists while
\* a running broker has it among its voters, and a finished migration is
\* complete.
THEOREM ControllerOutlives ==
    Spec => []ControllerLifetime
<1>1. ASSUME IInv
      PROVE  ControllerLifetime
  <2>1. /\ status \in 0..4 /\ Staged /\ Copied /\ Controller
        /\ ctl.mode \in {"none", "zookeeper", "kraft"}
    BY <1>1, Zenon DEF IInv, TypeOK, MigrationSteps, Controllers
  <2>2. ControllerWritesToBoth
    <3> SUFFICES ASSUME ctl.mode = "kraft", NEW b \in Brokers
                 PROVE  pod[b].mode \notin WithZooKeeper
      BY Zenon DEF ControllerWritesToBoth
    <3>1. CASE status = 2
      BY <2>1, <3>1, Zenon DEF Controller, AllSettled, Settled, WithZooKeeper
    <3>2. CASE status = 3
      BY <2>1, <3>2, Stages, Zenon DEF Staged, WithZooKeeper
    <3> QED
      BY <2>1, <3>1, <3>2 DEF Controller
  <2>3. ControllerKeptWhileVoter
    <3> SUFFICES ASSUME NEW b \in Brokers, pod[b].mode \in WithController
                 PROVE  Complete
      BY Zenon DEF ControllerKeptWhileVoter, Complete
    <3>1. CASE status \in {0, 4}
      BY <2>1, <3>1, Stages, Zenon DEF Staged, WithController
    <3>2. CASE status \in {1, 2}
      BY <2>1, <3>2, Zenon DEF Controller
    <3>3. CASE status = 3
      BY <2>1, <3>3, Zenon DEF Controller, AllSettled, Settled, WithController
    <3> QED
      BY <2>1, <3>1, <3>2, <3>3
  <2>4. FinishedMeansMigrated
    BY <2>1, Stages, Zenon DEF FinishedMeansMigrated, Staged, Controller
  <2> QED
    BY <2>2, <2>3, <2>4, Zenon DEF ControllerLifetime
<1> QED
  BY <1>1, Invariant, PTL

\* No retry, from whatever step, takes a broker back to an earlier mode.
THEOREM MigrationForward ==
    Spec => BrokersNeverGoBack
<1>1. ASSUME IInv, [Next]_vars
      PROVE  [\A b \in Brokers : Rank(tmpl[b]) <= Rank(tmpl'[b])]_vars
  <2>1. \A mode : Rank(mode) \in 0..3
    BY DEF Rank
  <2>2. CASE UNCHANGED tmpl
    BY <2>1, <2>2
  <2>3. CASE UpdateBroker
    <3>1. /\ run.step \in 1..4 /\ run.step = status
      BY <1>1, <2>3, RunTypes DEF UpdateBroker, IInv, Flow, MigrationSteps
    <3>2. ASSUME NEW b \in Brokers PROVE Rank(tmpl[b]) <= Rank(tmpl'[b])
      <4>1. tmpl'[b] \in {tmpl[b], Mode(run.step)}
        BY <1>1, <2>3, Zenon DEF UpdateBroker, IInv, TypeOK
      <4>2. tmpl[b] \in Stage(run.step)
        BY <1>1, <3>1, Zenon DEF IInv, Staged
      <4>3. Rank(tmpl[b]) <= Rank(Mode(run.step))
        BY <3>1, <4>2, Stages DEF Rank
      <4> QED
        BY <2>1, <4>1, <4>3
    <3> QED
      BY <3>2, Zenon
  <2>4. UNCHANGED tmpl \/ UpdateBroker
    BY <1>1, Zenon DEF Next, Operator, Environment, vars, cluster, Begin,
       GetClusterID, CreateService, CreateClaim, CreateDeployment,
       DeployController, ControllerReady, WriteStatus, EnsureControllerReady,
       BrokerReady, MigrationCompleted, UpdateController, RemoveService,
       RemoveClaim, RemoveDeployment, Finish, NoClusterID,
       ControllerNotReady, NoControllerPod, Interrupt, ControllerPod,
       MigrateMetadata, Pod, WaitTimeout, ApiError, Crash, PodLost
  <2> QED
    BY <2>2, <2>3, <2>4, Zenon
<1> QED
  BY <1>1, Invariant, PTL DEF Spec, BrokersNeverGoBack

=============================================================================
