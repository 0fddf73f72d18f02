---------------------------- MODULE BrokerScaling ----------------------------
(* processKafkaReplicas of operator/controllers/kafka: the brokers of the    *)
(* spec are created or updated one after the other, a volume that has to     *)
(* grow takes its broker down and up again, partitions are reassigned and    *)
(* excess brokers are scaled to zero.                                        *)
(*                                                                           *)
(* Module KafkaReconcile has the cycle around it (conditions, Secret,        *)
(* annotations); of that cycle only the cached hash of the spec is kept      *)
(* here.  Edits of the spec are numbered and the number stands for the hash: *)
(* no edit brings back an earlier spec.                                      *)
EXTENDS Naturals, FiniteSets

CONSTANTS
    MaxBrokers,            \* brokers are 1..MaxBrokers
    MaxSize,               \* volume sizes are 1..MaxSize
    Initial,               \* replicas of the installed cluster
    ReassignPartitions,    \* scaling.reassignPartitions, "unset" for nil
    ScaleInEnabled,        \* scaling.brokerDeploymentScaleInEnabled
    RollingUpdate,         \* spec.rollingUpdate
    OnlineResize,          \* the storage grows a volume that is in use
    MaxEdits, MaxFailures, MaxCrashes

ASSUME ScalingAssumption ==
    /\ MaxBrokers \in Nat \ {0} /\ MaxSize \in Nat \ {0}
    /\ Initial \in 1..MaxBrokers
    /\ ReassignPartitions \in {"unset", "true", "false"}
    /\ ScaleInEnabled \in BOOLEAN /\ RollingUpdate \in BOOLEAN
    /\ OnlineResize \in BOOLEAN
    /\ MaxEdits \in Nat /\ MaxFailures \in Nat /\ MaxCrashes \in Nat

VARIABLES
    spec,      \* replicas, volume size and number of the current spec
    status,    \* status.partitionsReassignmentStatus
    up,        \* brokers whose deployment has one replica
    tmpl,      \* broker -> spec its deployment was written for, 0 for none
    pod,       \* broker -> state of its pod
    vol,       \* broker -> its persistent volume claim
    holds,     \* brokers that hold partitions
    cache,     \* number of the spec whose hash is cached, 0 for none
    pc, run,   \* where processKafkaReplicas is, and its local variables
    queued,    \* the work queue holds a request
    faults     \* failed calls and crashes so far

vars == <<spec, status, up, tmpl, pod, vol, holds, cache, pc, run, queued,
          faults>>

cluster == <<up, tmpl, pod, vol, holds>>

Brokers == 1..MaxBrokers

Sizes == 1..MaxSize

Specs == [replicas : Brokers, size : Sizes, v : Nat]

Statuses == {"", "Disabled", "In Progress", "Finished", "Failed"}

PodStates == {"absent", "starting", "ready", "stopping"}

\* The requested and the actual size are 0 while there is no claim, or no
\* volume bound to it.
Volumes == [request : Sizes \cup {0}, capacity : Sizes \cup {0},
            pending : BOOLEAN]

Steps == {"idle", "count", "claim", "deploy", "resize", "resizeState", "down",
          "deleted", "up", "capacity", "resized", "wait", "reassign",
          "brokersUp", "reassigned", "scaleIn", "finish"}

Counts == 0..MaxBrokers

\* The values of a broker loop variable, past the end included.
BrokerIds == 1..(MaxBrokers + 1)

Runs == [spec : Specs, status : Statuses, current : Counts,
         broker : BrokerIds]

Faults == [failures : Nat, crashes : Nat]

\* Every variable has the shape of the object it stands for.
TypeOK ==
    /\ spec \in Specs /\ status \in Statuses
    /\ up \in SUBSET Brokers /\ tmpl \in [Brokers -> Nat]
    /\ pod \in [Brokers -> PodStates]
    /\ vol \in [Brokers -> Volumes]
    /\ holds \in SUBSET Brokers
    /\ cache \in Nat
    /\ pc \in Steps /\ run \in Runs
    /\ queued \in BOOLEAN
    /\ faults \in Faults

\* An installed cluster, all of whose brokers hold partitions, and an operator
\* that starts: it has cached nothing, and the resource is its first event.
Init ==
    /\ spec = [replicas |-> Initial, size |-> 1, v |-> 1]
    /\ status = IF ReassignPartitions = "true" THEN "Finished" ELSE "Disabled"
    /\ up = 1..Initial /\ holds = up
    /\ tmpl = [b \in Brokers |-> IF b \in up THEN 1 ELSE 0]
    /\ pod = [b \in Brokers |-> IF b \in up THEN "ready" ELSE "absent"]
    /\ vol = [b \in Brokers |->
                LET s == IF b \in up THEN 1 ELSE 0
                IN  [request |-> s, capacity |-> s, pending |-> FALSE]]
    /\ cache = 0 /\ pc = "idle"
    /\ run = [spec |-> spec, status |-> status, current |-> 0, broker |-> 1]
    /\ queued = TRUE
    /\ faults = [failures |-> 0, crashes |-> 0]

-----------------------------------------------------------------------------
Edit ==
    /\ spec.v < MaxEdits + 1
    /\ \E r \in Brokers, s \in Sizes :
          /\ <<r, s>> # <<spec.replicas, spec.size>>
          /\ spec' = [replicas |-> r, size |-> s, v |-> spec.v + 1]
    /\ queued' = TRUE
    /\ UNCHANGED <<status, cluster, cache, pc, run, faults>>

\* A status write that changes something is itself an event.
SetStatus(s) ==
    /\ status' = s
    /\ queued' = (queued \/ s # status)

\* Variant: the hash is stored when the cycle starts.
GetStoresHash ==
    /\ pc = "idle" /\ queued
    /\ queued' = FALSE /\ cache' = spec.v
    /\ IF cache = spec.v
       THEN UNCHANGED <<pc, run>>
       ELSE /\ pc' = "count"
            /\ run' = [spec |-> spec, status |-> status, current |-> 0,
                       broker |-> 1]
    /\ UNCHANGED <<spec, status, cluster, faults>>

\* A cycle starts with a copy of the resource, its status included, and does
\* nothing when the hash of the spec is the cached one.
Get ==
    /\ pc = "idle" /\ queued
    /\ queued' = FALSE
    /\ IF cache = spec.v
       THEN UNCHANGED <<pc, run>>
       ELSE /\ pc' = "count"
            /\ run' = [spec |-> spec, status |-> status, current |-> 0,
                       broker |-> 1]
    /\ UNCHANGED <<spec, status, cluster, cache, faults>>

\* getCurrentDeploymentsCount.
CountBrokers ==
    /\ pc = "count"
    /\ run' = [run EXCEPT !.current = Cardinality(up)]
    /\ pc' = "claim"
    /\ UNCHANGED <<spec, status, cluster, cache, queued, faults>>

-----------------------------------------------------------------------------
(* rolloutBrokers: one broker after the other *)

brokerId == run.broker

Desired == run.spec.size

\* The next broker, or on to the reassignment.
NextBroker ==
    /\ run' = [run EXCEPT !.broker = brokerId + 1]
    /\ pc' = IF brokerId < run.spec.replicas THEN "claim" ELSE "reassign"

\* CreatePersistentVolumeClaim: the claim is created or grows; shrinking is an
\* error (ShrinkForbidden), and an update the storage refuses is skipped.
ClaimVolume ==
    /\ pc = "claim"
    /\ vol[brokerId].request <= Desired
    /\ vol' = [vol EXCEPT ![brokerId].request = Desired]
    /\ pc' = "deploy"
    /\ UNCHANGED <<spec, status, up, tmpl, pod, holds, cache, run, queued,
                   faults>>

ClaimRefused ==
    /\ pc = "claim"
    /\ vol[brokerId].request \in 1..Desired
    /\ faults.failures < MaxFailures
    /\ faults' = [faults EXCEPT !.failures = @ + 1]
    /\ pc' = "deploy"
    /\ UNCHANGED <<spec, status, cluster, cache, run, queued>>

\* The deployment is created or updated with one replica; its pod may be
\* replaced when it was written for another spec.
DeployBroker ==
    /\ pc = "deploy"
    /\ up' = up \cup {brokerId}
    /\ tmpl' = [tmpl EXCEPT ![brokerId] = run.spec.v]
    /\ \/ UNCHANGED pod
       \/ /\ tmpl[brokerId] # run.spec.v /\ pod[brokerId] = "ready"
          /\ pod' = [pod EXCEPT ![brokerId] = "starting"]
    /\ pc' = "resize"
    /\ UNCHANGED <<spec, status, vol, holds, cache, run, queued, faults>>

WaitForEachBroker == RollingUpdate /\ run.current >= 3

\* What follows the volume of a broker.
AfterVolume ==
    IF WaitForEachBroker THEN pc' = "wait" /\ UNCHANGED run ELSE NextBroker

Resized == vol[brokerId].capacity >= Desired

\* restartBrokerAfterPVCResize.
CheckVolume ==
    /\ pc = "resize"
    /\ IF Resized THEN AfterVolume ELSE pc' = "resizeState" /\ UNCHANGED run
    /\ UNCHANGED <<spec, status, cluster, cache, queued, faults>>

\* waitForBrokerPVCResizeState: grown meanwhile, or pending.
VolumeGrown ==
    /\ pc = "resizeState" /\ Resized
    /\ AfterVolume
    /\ UNCHANGED <<spec, status, cluster, cache, queued, faults>>

\* Variant: a pending resize is waited for with the broker running.
VolumePendingIgnored ==
    /\ pc = "resizeState" /\ ~Resized /\ vol[brokerId].pending
    /\ pc' = "idle" /\ queued' = TRUE
    /\ UNCHANGED <<spec, status, cluster, cache, run, faults>>

VolumePending ==
    /\ pc = "resizeState" /\ ~Resized /\ vol[brokerId].pending
    /\ pc' = "down"
    /\ UNCHANGED <<spec, status, cluster, cache, run, queued, faults>>

\* ScaleDeployment to zero: the pod stops, and a stop is not taken back.
ScaleToZero(c) ==
    /\ up' = up \ {c}
    /\ pod' = IF pod[c] = "absent" THEN pod
              ELSE [pod EXCEPT ![c] = "stopping"]

\* scaleBrokerForPVCResize: down, wait for the pod to go, up, and once more
\* when the volume has not grown in 30 seconds.
ScaleDown ==
    /\ pc = "down"
    /\ ScaleToZero(brokerId)
    /\ pc' = "deleted"
    /\ UNCHANGED <<spec, status, tmpl, vol, holds, cache, run, queued,
                   faults>>

\* Variant: the broker is left down for the time of the resize.
PodsDeletedLeavesDown ==
    /\ pc = "deleted" /\ pod[brokerId] = "absent"
    /\ NextBroker
    /\ UNCHANGED <<spec, status, cluster, cache, queued, faults>>

PodsDeleted ==
    /\ pc = "deleted" /\ pod[brokerId] = "absent"
    /\ pc' = "up"
    /\ UNCHANGED <<spec, status, cluster, cache, run, queued, faults>>

ScaleUp ==
    /\ pc = "up"
    /\ up' = up \cup {brokerId}
    /\ pc' = "capacity"
    /\ UNCHANGED <<spec, status, tmpl, pod, vol, holds, cache, run, queued,
                   faults>>

CheckCapacity ==
    /\ pc = "capacity"
    /\ pc' = IF Resized THEN "resized" ELSE "down"
    /\ UNCHANGED <<spec, status, cluster, cache, run, queued, faults>>

BrokerReadyAfterResize ==
    /\ pc = "resized" /\ pod[brokerId] = "ready"
    /\ AfterVolume
    /\ UNCHANGED <<spec, status, cluster, cache, queued, faults>>

BrokerReady ==
    /\ pc = "wait" /\ pod[brokerId] = "ready"
    /\ NextBroker
    /\ UNCHANGED <<spec, status, cluster, cache, queued, faults>>

-----------------------------------------------------------------------------
(* Reassignment of the partitions and scale-in *)

ClusterScaling == run.current > 0 /\ run.current < run.spec.replicas

IsReassignPartitionsEnabled ==
    IF ReassignPartitions = "unset" THEN ClusterScaling
    ELSE ReassignPartitions = "true"

AfterReassign ==
    IF /\ ~ClusterScaling /\ run.current > run.spec.replicas
       /\ ScaleInEnabled
    THEN /\ pc' = "scaleIn"
         /\ run' = [run EXCEPT !.broker = run.spec.replicas + 1]
    ELSE pc' = "finish" /\ UNCHANGED run

\* reassignPartitions decides by the status it read when the cycle started.
Reassign ==
    /\ pc = "reassign"
    /\ \/ /\ ~IsReassignPartitionsEnabled
          /\ SetStatus("Disabled") /\ AfterReassign
       \/ /\ IsReassignPartitionsEnabled
          /\ ClusterScaling \/ run.status # "Finished"
          /\ SetStatus("In Progress")
          /\ pc' = "brokersUp" /\ UNCHANGED run
       \/ /\ IsReassignPartitionsEnabled
          /\ ~ClusterScaling /\ run.status = "Finished"
          /\ AfterReassign /\ UNCHANGED <<status, queued>>
    /\ UNCHANGED <<spec, cluster, cache, faults>>

AllBrokersUp ==
    Cardinality({c \in Brokers : pod[c] = "ready"}) >= run.spec.replicas

\* KafkaClient.ReassignPartitions spreads partitions over brokers
\* 1..newBrokersCount; it never takes one off a broker beyond them.  That the
\* reassignment of a topic fails is only logged.
MovePartitions ==
    /\ pc = "brokersUp" /\ AllBrokersUp
    /\ \/ holds' = holds \cup 1..run.spec.replicas /\ UNCHANGED faults
       \/ /\ faults.failures < MaxFailures
          /\ faults' = [faults EXCEPT !.failures = @ + 1]
          /\ \E moved \in SUBSET (1..run.spec.replicas) : holds' = holds \cup moved
    /\ pc' = "reassigned"
    /\ UNCHANGED <<spec, status, up, tmpl, pod, vol, cache, run, queued>>

ReassignFinished ==
    /\ pc = "reassigned"
    /\ SetStatus("Finished") /\ AfterReassign
    /\ UNCHANGED <<spec, cluster, cache, faults>>

\* Variant: the loop goes one broker too far.
ScaleInBrokerTooFar ==
    /\ pc = "scaleIn"
    /\ ScaleToZero(brokerId)
    /\ run' = [run EXCEPT !.broker = brokerId + 1]
    /\ pc' = IF brokerId <= run.current THEN "scaleIn" ELSE "finish"
    /\ UNCHANGED <<spec, status, tmpl, vol, holds, cache, queued,
                   faults>>

\* Variant: the loop stops one broker too early.
ScaleInBrokerTooShort ==
    /\ pc = "scaleIn"
    /\ ScaleToZero(brokerId)
    /\ run' = [run EXCEPT !.broker = brokerId + 1]
    /\ pc' = IF brokerId + 1 < run.current THEN "scaleIn" ELSE "finish"
    /\ UNCHANGED <<spec, status, tmpl, vol, holds, cache, queued, faults>>

\* performBrokerScalingIn takes brokers replicas+1..currentReplicas for the
\* ones to scale to zero.
ScaleInBroker ==
    /\ pc = "scaleIn"
    /\ ScaleToZero(brokerId)
    /\ run' = [run EXCEPT !.broker = brokerId + 1]
    /\ pc' = IF brokerId < run.current THEN "scaleIn" ELSE "finish"
    /\ UNCHANGED <<spec, status, tmpl, vol, holds, cache, queued,
                   faults>>

Finish ==
    /\ pc = "finish"
    /\ cache' = run.spec.v
    /\ pc' = "idle"
    /\ UNCHANGED <<spec, status, cluster, run, queued, faults>>

-----------------------------------------------------------------------------
(* Errors, timeouts and crashes *)

Reassigning == pc \in {"reassign", "brokersUp", "reassigned"}

\* The error is returned and the request queued again.  An error of the
\* reassignment is written to the status first, if that write succeeds.
ReturnError ==
    /\ status' \in {status} \cup (IF Reassigning THEN {"Failed"} ELSE {})
    /\ pc' = "idle" /\ queued' = TRUE
    /\ UNCHANGED <<spec, cluster, cache, run>>

\* A call fails; the readiness polls treat that as "not ready yet".
ApiError ==
    /\ pc \notin {"idle", "wait", "resized"}
    /\ faults.failures < MaxFailures
    /\ faults' = [faults EXCEPT !.failures = @ + 1]
    /\ ReturnError

ShrinkForbidden ==
    /\ pc = "claim" /\ vol[brokerId].request > Desired
    /\ ReturnError /\ UNCHANGED faults

WaitTimeout ==
    /\ \/ pc = "resizeState" /\ ~Resized /\ ~vol[brokerId].pending
       \/ pc = "deleted" /\ pod[brokerId] # "absent"
       \/ pc = "capacity" /\ ~Resized
       \/ pc \in {"resized", "wait"} /\ pod[brokerId] # "ready"
       \/ pc = "brokersUp" /\ ~AllBrokersUp
    /\ ReturnError /\ UNCHANGED faults

Crash ==
    /\ faults.crashes < MaxCrashes
    /\ faults' = [faults EXCEPT !.crashes = @ + 1]
    /\ cache' = 0 /\ pc' = "idle" /\ queued' = TRUE
    /\ UNCHANGED <<spec, status, cluster, run>>

-----------------------------------------------------------------------------
(* Kubernetes: the pod of a deployment and the volume of a claim *)

Pod(c) ==
    /\ \/ pod[c] = "absent" /\ c \in up /\ pod' = [pod EXCEPT ![c] = "starting"]
       \/ pod[c] = "starting" /\ pod' = [pod EXCEPT ![c] = "ready"]
       \/ pod[c] = "stopping" /\ pod' = [pod EXCEPT ![c] = "absent"]
    /\ UNCHANGED <<spec, status, up, tmpl, vol, holds, cache, pc, run,
                   queued, faults>>

\* A claim is bound; a resize is announced ...
Volume(c) ==
    /\ \/ /\ vol[c].capacity = 0 /\ vol[c].request > 0
          /\ vol' = [vol EXCEPT ![c].capacity = vol[c].request]
       \/ /\ vol[c].capacity \in 1..(vol[c].request - 1) /\ ~vol[c].pending
          /\ vol' = [vol EXCEPT ![c].pending = TRUE]
    /\ UNCHANGED <<spec, status, up, tmpl, pod, holds, cache, pc, run,
                   queued, faults>>

\* ... and done, for storage that cannot resize a volume in use while the
\* broker is not running.
VolumeResize(c) ==
    /\ vol[c].pending
    /\ OnlineResize \/ pod[c] # "ready"
    /\ vol' = [vol EXCEPT ![c].capacity = vol[c].request,
                          ![c].pending = FALSE]
    /\ UNCHANGED <<spec, status, up, tmpl, pod, holds, cache, pc, run,
                   queued, faults>>

-----------------------------------------------------------------------------
Operator ==
    \/ Get \/ CountBrokers \/ ClaimVolume \/ DeployBroker
    \/ CheckVolume \/ VolumeGrown \/ VolumePending
    \/ ScaleDown \/ PodsDeleted \/ ScaleUp \/ CheckCapacity
    \/ BrokerReadyAfterResize \/ BrokerReady
    \/ Reassign \/ MovePartitions \/ ReassignFinished \/ ScaleInBroker
    \/ Finish \/ ShrinkForbidden \/ WaitTimeout

Kubernetes == \E c \in Brokers : Pod(c) \/ Volume(c) \/ VolumeResize(c)

Next == Edit \/ Operator \/ Kubernetes \/ ClaimRefused \/ ApiError \/ Crash

Spec == Init /\ [][Next]_vars

\* The worker keeps working; pods start and stop; a resize that is possible
\* again and again is done.
Fairness ==
    /\ WF_vars(Operator)
    /\ \A c \in Brokers : /\ WF_vars(Pod(c)) /\ WF_vars(Volume(c))
                          /\ SF_vars(VolumeResize(c))

FairSpec == Spec /\ Fairness

-----------------------------------------------------------------------------
(* Properties *)

Quiet == pc = "idle" /\ ~queued

Wanted(s) == 1..s.replicas

\* When the operator is at rest every broker of the spec has its replica and a
\* volume of its size: neither an interrupted resize nor an interrupted scale-in
\* leaves one down, also if the storage refused an update that was skipped.
WantedBrokersUp ==
    Quiet => \A c \in Wanted(spec) : c \in up /\ vol[c].capacity >= spec.size

\* A resize takes a broker down only when those before it are up again and
\* have their size, and partitions are reassigned only when all are and do.
ResizeOneByOne ==
    /\ pc \in {"down", "deleted", "up"} =>
          \A c \in 1..(brokerId - 1) :
              c \in up /\ vol[c].capacity >= Desired
    /\ pc = "reassign" =>
          \A c \in Wanted(run.spec) : c \in up /\ vol[c].capacity >= Desired

\* Scale-in only addresses deployments that exist, although it derives their
\* names from a count: a missing one would fail every cycle from then on.
ScaleInTargetsExist == pc = "scaleIn" => tmpl[brokerId] # 0

\* When the operator is at rest no broker beyond the replicas is running.
ExcessBrokersDown == Quiet /\ ScaleInEnabled => up \subseteq Wanted(spec)

\* Without failed calls, crashes and resizes scale-in leaves no broker beyond
\* the replicas, although it works from a count of the running ones, timeouts
\* start cycles again and edits come at any time.
ScaleInComplete ==
    /\ faults = [failures |-> 0, crashes |-> 0]
    /\ \A c \in Brokers : vol[c].request <= 1
    => ExcessBrokersDown

\* When the operator is at rest and reassignment is not switched off, every
\* broker of the spec has taken part in one.
PartitionsReassigned ==
    Quiet /\ ReassignPartitions # "false" => Wanted(spec) \subseteq holds

\* The operator comes to rest, unless the spec asks for a smaller volume.
EventuallySettled ==
    <>[](Quiet \/ \E c \in Wanted(spec) : vol[c].request > spec.size)

=============================================================================
