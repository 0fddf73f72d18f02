------------------------ MODULE BrokerScalingProofs ------------------------
(* Proofs about module BrokerScaling, for every number of brokers, every     *)
(* range of sizes and every bound on edits and faults.                       *)
EXTENDS BrokerScaling, FiniteSetTheorems, TLAPS

Running == pc # "idle"

\* The broker has its replica and a volume of the size of spec s.
Done(c, s) == c \in up /\ vol[c].capacity >= s.size

LoopSteps == {"claim", "deploy", "resize", "resizeState", "down", "deleted",
              "up", "capacity", "resized", "wait"}

\* The steps of the loop at which the broker has its replica.
UpSteps == {"resize", "resizeState", "down", "capacity", "resized", "wait"}

TailSteps == {"reassign", "brokersUp", "reassigned", "scaleIn", "finish"}

\* Where the two loops are.
LoopIndex ==
    /\ pc = "count" => run.broker = 1
    /\ pc \in LoopSteps => run.broker <= run.spec.replicas
    /\ pc = "scaleIn" => /\ run.spec.replicas < run.broker
                         /\ run.broker <= run.current

\* What the broker loop has done so far.
Progress ==
    /\ pc \in LoopSteps =>
          \A c \in Brokers : c < run.broker => Done(c, run.spec)
    /\ pc \in UpSteps => run.broker \in up
    /\ pc \in {"resized", "wait"} => vol[run.broker].capacity >= run.spec.size
    /\ pc \in TailSteps =>
          \A c \in Brokers : c <= run.spec.replicas => Done(c, run.spec)

\* The numbers of the specs only grow, and a number stands for one spec.
Order ==
    /\ cache <= spec.v /\ run.spec.v <= spec.v
    /\ run.spec.v = spec.v => run.spec = spec
    /\ Running => cache < run.spec.v

\* A volume never exceeds what was requested for it.
Bounded == \A c \in Brokers : vol[c].capacity <= vol[c].request

\* A cached hash stands for a spec that is in place, and an edit that was not
\* read yet is queued.
Known ==
    /\ cache = spec.v =>
          \A c \in Brokers : c <= spec.replicas => Done(c, spec)
    /\ Running /\ ~queued => run.spec.v = spec.v
    /\ Quiet => cache = spec.v

Core == Progress /\ Order /\ Bounded /\ Known

IInv == TypeOK /\ LoopIndex /\ Core

-----------------------------------------------------------------------------
(* Typing *)

\* The brokers of a spec are the first ones of the cluster.
LEMMA FirstBrokers ==
  ASSUME NEW n \in Brokers
  PROVE  1..n \subseteq Brokers
BY ScalingAssumption DEF Brokers

\* The numbers behind the types.
LEMMA Numbers ==
  ASSUME TypeOK
  PROVE  /\ spec.v \in Nat /\ spec.replicas \in Brokers /\ spec.size \in Nat
         /\ run.spec.v \in Nat /\ run.spec.replicas \in Brokers
         /\ run.spec.size \in Nat /\ run.broker \in Nat /\ run.current \in Nat
         /\ cache \in Nat
         /\ \A c \in Brokers : vol[c].capacity \in Nat /\ vol[c].request \in Nat
BY ScalingAssumption
DEF TypeOK, Specs, Sizes, Runs, BrokerIds, Counts, Volumes

\* The step of a broker loop to the next broker stays within BrokerIds.
LEMMA NextId ==
  ASSUME TypeOK, LoopIndex, pc \in LoopSteps
  PROVE  run.broker \in Brokers /\ run.broker + 1 \in BrokerIds
<1>1. run.broker \in BrokerIds /\ run.spec.replicas \in Brokers
  BY Zenon DEF TypeOK, Runs, Specs
<1>2. run.broker <= run.spec.replicas
  BY Zenon DEF LoopIndex
<1>3. QED
  BY <1>1, <1>2, ScalingAssumption DEF BrokerIds, Brokers

\* NextBroker keeps the types and the index.
LEMMA NextBrokerTypes ==
  ASSUME TypeOK, LoopIndex, pc \in LoopSteps, NextBroker
  PROVE  /\ run' \in Runs /\ pc' \in {"claim", "reassign"}
         /\ run'.spec = run.spec /\ run'.broker = run.broker + 1
         /\ pc' = "claim" <=> run.broker < run.spec.replicas
<1>1. run.broker + 1 \in BrokerIds
  BY NextId, Zenon
<1>2. run' = [run EXCEPT !.broker = run.broker + 1]
  BY Zenon DEF NextBroker, brokerId
<1>3. run' \in Runs /\ run'.spec = run.spec /\ run'.broker = run.broker + 1
  BY <1>1, <1>2, Zenon DEF TypeOK, Runs
<1>4. pc' = IF run.broker < run.spec.replicas THEN "claim" ELSE "reassign"
  BY Zenon DEF NextBroker, brokerId
<1>5. QED
  BY <1>3, <1>4, Zenon

\* AfterVolume waits for the broker or goes to the next one.
LEMMA AfterVolumeTypes ==
  ASSUME TypeOK, LoopIndex, pc \in LoopSteps, AfterVolume
  PROVE  /\ run' \in Runs /\ pc' \in {"wait", "claim", "reassign"}
         /\ run'.spec = run.spec
         /\ pc' = "wait" => run' = run
         /\ pc' # "wait" => NextBroker
<1>1. CASE WaitForEachBroker
  BY <1>1, Zenon DEF AfterVolume, TypeOK
<1>2. CASE ~WaitForEachBroker
  BY <1>2, NextBrokerTypes, Zenon DEF AfterVolume
<1>3. QED
  BY <1>1, <1>2, Zenon

\* AfterReassign starts the scale-in loop within its range, or ends.
LEMMA AfterReassignTypes ==
  ASSUME TypeOK, AfterReassign
  PROVE  /\ run' \in Runs /\ pc' \in {"scaleIn", "finish"}
         /\ run'.spec = run.spec
         /\ pc' = "scaleIn" => /\ run'.broker = run.spec.replicas + 1
                               /\ run.spec.replicas < run.current
                               /\ run'.current = run.current
<1>1. run \in Runs /\ run.spec.replicas \in Brokers
  BY Zenon DEF TypeOK, Runs, Specs
<1>2. run.spec.replicas + 1 \in BrokerIds
  BY <1>1, ScalingAssumption DEF Brokers, BrokerIds
<1>3. CASE pc' = "finish"
  BY <1>1, <1>3, Zenon DEF AfterReassign
<1>4. CASE pc' # "finish"
  <2>1. /\ run' = [run EXCEPT !.broker = run.spec.replicas + 1]
        /\ pc' = "scaleIn" /\ run.current > run.spec.replicas
    BY <1>4, Zenon DEF AfterReassign
  <2>2. run' \in Runs /\ run'.spec = run.spec
        /\ run'.broker = run.spec.replicas + 1 /\ run'.current = run.current
    BY <1>1, <1>2, <2>1, Zenon DEF Runs
  <2>3. run.spec.replicas < run.current
    BY <2>1, Numbers, <1>1, ScalingAssumption, Zenon DEF Brokers
  <2>4. QED
    BY <2>1, <2>2, <2>3, Zenon
<1>5. QED
  BY <1>3, <1>4, Zenon

\* getCurrentDeploymentsCount returns a count of brokers.
LEMMA CountType ==
  ASSUME TypeOK
  PROVE  Cardinality(up) \in Counts
<1>1. IsFiniteSet(Brokers) /\ Cardinality(Brokers) = MaxBrokers
  BY FS_Interval, ScalingAssumption DEF Brokers
<1>2. up \subseteq Brokers
  BY Zenon DEF TypeOK
<1>3. IsFiniteSet(up) /\ Cardinality(up) <= Cardinality(Brokers)
  BY <1>1, <1>2, FS_Subset, Zenon
<1>4. Cardinality(up) \in Nat
  BY <1>3, FS_CardinalityType, Zenon
<1>5. QED
  BY <1>1, <1>3, <1>4, ScalingAssumption DEF Counts


\* ReturnError keeps the types and leaves both loops.
LEMMA ReturnErrorTypes ==
  ASSUME TypeOK, ReturnError, faults' \in Faults
  PROVE  TypeOK' /\ LoopIndex'
<1>1. status' \in Statuses
  BY Zenon DEF ReturnError, TypeOK, Statuses
<1>2. pc' = "idle"
  BY Zenon DEF ReturnError
<1>3. TypeOK'
  BY <1>1, <1>2, Zenon DEF ReturnError, TypeOK, cluster, Steps
<1>4. QED
  BY <1>2, <1>3, Zenon DEF LoopIndex, LoopSteps

\* A failure is counted within the type.
LEMMA FaultTypes ==
  ASSUME TypeOK
  PROVE  /\ [faults EXCEPT !.failures = @ + 1] \in Faults
         /\ [faults EXCEPT !.crashes = @ + 1] \in Faults
BY DEF TypeOK, Faults

\* Scaling a deployment to zero keeps the types.
LEMMA ScaleToZeroTypes ==
  ASSUME TypeOK, NEW c \in Brokers, ScaleToZero(c)
  PROVE  up' \in SUBSET Brokers /\ pod' \in [Brokers -> PodStates]
<1>1. up' \in SUBSET Brokers
  BY Zenon DEF TypeOK, ScaleToZero
<1>2. pod' \in [Brokers -> PodStates]
  BY Zenon DEF TypeOK, ScaleToZero, PodStates
<1>3. QED
  BY <1>1, <1>2, Zenon

\* The broker loop keeps the types and its index.
LEMMA LoopTypes ==
  ASSUME TypeOK, LoopIndex,
         \/ CountBrokers \/ ClaimVolume \/ ClaimRefused \/ DeployBroker
         \/ CheckVolume \/ VolumeGrown \/ VolumePending \/ ScaleDown
         \/ PodsDeleted \/ ScaleUp \/ CheckCapacity
         \/ BrokerReadyAfterResize \/ BrokerReady
  PROVE  TypeOK' /\ LoopIndex'
<1>1. CASE CountBrokers
  <2>1. run' = [run EXCEPT !.current = Cardinality(up)] /\ pc' = "claim"
        /\ pc = "count"
    BY <1>1, Zenon DEF CountBrokers
  <2>2. run' \in Runs /\ run'.broker = run.broker /\ run'.spec = run.spec
    BY <2>1, CountType, Zenon DEF TypeOK, Runs
  <2>3. TypeOK'
    BY <1>1, <2>1, <2>2, Zenon DEF CountBrokers, TypeOK, cluster, Steps
  <2>4. 1 <= run.spec.replicas
    BY ScalingAssumption DEF TypeOK, Runs, Specs, Brokers
  <2>5. LoopIndex'
    BY <2>1, <2>2, <2>4, Zenon DEF LoopIndex
  <2>6. QED
    BY <2>3, <2>5, Zenon
<1>2. CASE ClaimVolume
  <2>1. pc = "claim" /\ pc' = "deploy" /\ run' = run
    BY <1>2, Zenon DEF ClaimVolume
  <2>2. run.broker \in Brokers /\ run.spec.size \in Sizes
    BY <2>1, NextId, Zenon DEF LoopSteps, TypeOK, Runs, Specs
  <2>3. vol' \in [Brokers -> Volumes]
    BY <1>2, <2>2, Zenon DEF ClaimVolume, TypeOK, Volumes, brokerId, Desired
  <2>4. TypeOK'
    BY <1>2, <2>1, <2>3, Zenon DEF ClaimVolume, TypeOK, Steps
  <2>5. LoopIndex'
    BY <2>1, Zenon DEF LoopIndex, LoopSteps
  <2>6. QED
    BY <2>4, <2>5, Zenon
<1>3. CASE ClaimRefused
  <2>1. pc = "claim" /\ pc' = "deploy" /\ run' = run /\ faults' \in Faults
    BY <1>3, FaultTypes, Zenon DEF ClaimRefused
  <2>2. TypeOK'
    BY <1>3, <2>1, Zenon DEF ClaimRefused, TypeOK, cluster, Steps
  <2>3. LoopIndex'
    BY <2>1, Zenon DEF LoopIndex, LoopSteps
  <2>4. QED
    BY <2>2, <2>3, Zenon
<1>4. CASE DeployBroker
  <2>1. pc = "deploy" /\ pc' = "resize" /\ run' = run
    BY <1>4, Zenon DEF DeployBroker
  <2>2. run.broker \in Brokers /\ run.spec.v \in Nat
    BY <2>1, NextId, Numbers, Zenon DEF LoopSteps
  <2>3. up' \in SUBSET Brokers /\ tmpl' \in [Brokers -> Nat]
    BY <1>4, <2>2, Zenon DEF DeployBroker, TypeOK, brokerId
  <2>4. pod' \in [Brokers -> PodStates]
    BY <1>4, <2>2, Zenon DEF DeployBroker, TypeOK, PodStates, brokerId
  <2>5. TypeOK'
    BY <1>4, <2>1, <2>3, <2>4, Zenon DEF DeployBroker, TypeOK, Steps
  <2>6. LoopIndex'
    BY <2>1, Zenon DEF LoopIndex, LoopSteps
  <2>7. QED
    BY <2>5, <2>6, Zenon
<1>5. CASE AfterVolume /\ pc \in LoopSteps
           /\ UNCHANGED <<spec, status, cluster, cache, queued, faults>>
  <2>1. /\ run' \in Runs /\ pc' \in {"wait", "claim", "reassign"}
        /\ pc' = "wait" => run' = run
        /\ pc' # "wait" => NextBroker
    BY <1>5, AfterVolumeTypes, Zenon
  <2>2. TypeOK'
    BY <1>5, <2>1, Zenon DEF TypeOK, cluster, Steps
  <2>3. CASE pc' = "wait"
    BY <1>5, <2>1, <2>2, <2>3, Zenon DEF LoopIndex, LoopSteps
  <2>4. CASE pc' # "wait"
    <3>1. /\ run'.spec = run.spec /\ run'.broker = run.broker + 1
          /\ pc' = "claim" <=> run.broker < run.spec.replicas
      BY <1>5, <2>1, <2>4, NextBrokerTypes, Zenon
    <3>2. pc' = "claim" => run'.broker <= run'.spec.replicas
      BY <3>1, Numbers, ScalingAssumption DEF Brokers
    <3>3. QED
      BY <2>1, <2>2, <2>4, <3>2, Zenon DEF LoopIndex, LoopSteps
  <2>5. QED
    BY <2>2, <2>3, <2>4, Zenon
<1>6. CASE CheckVolume
  <2>1. CASE Resized
    BY <1>5, <1>6, <2>1, Zenon DEF CheckVolume, LoopSteps
  <2>2. CASE ~Resized
    <3>1. pc = "resize" /\ pc' = "resizeState" /\ run' = run
      BY <1>6, <2>2, Zenon DEF CheckVolume
    <3>2. TypeOK'
      BY <1>6, <3>1, Zenon DEF CheckVolume, TypeOK, cluster, Steps
    <3>3. QED
      BY <3>1, <3>2, Zenon DEF LoopIndex, LoopSteps
  <2>3. QED
    BY <2>1, <2>2, Zenon
<1>7. CASE VolumeGrown
  BY <1>5, <1>7, Zenon DEF VolumeGrown, LoopSteps
<1>8. CASE BrokerReadyAfterResize
  BY <1>5, <1>8, Zenon DEF BrokerReadyAfterResize, LoopSteps
<1>9. CASE BrokerReady
  <2>1. /\ pc = "wait" /\ NextBroker
        /\ UNCHANGED <<spec, status, cluster, cache, queued, faults>>
    BY <1>9, Zenon DEF BrokerReady
  <2>2. /\ run' \in Runs /\ pc' \in {"claim", "reassign"}
        /\ run'.spec = run.spec /\ run'.broker = run.broker + 1
        /\ pc' = "claim" <=> run.broker < run.spec.replicas
    BY <2>1, NextBrokerTypes, Zenon DEF LoopSteps
  <2>3. pc' = "claim" => run'.broker <= run'.spec.replicas
    BY <2>2, Numbers, ScalingAssumption DEF Brokers
  <2>4. TypeOK'
    BY <2>1, <2>2, Zenon DEF TypeOK, cluster, Steps
  <2>5. QED
    BY <2>2, <2>3, <2>4, Zenon DEF LoopIndex, LoopSteps
<1>10. CASE VolumePending \/ PodsDeleted \/ CheckCapacity
  <2>1. /\ pc \in LoopSteps /\ pc' \in LoopSteps /\ run' = run
        /\ UNCHANGED <<spec, status, cluster, cache, queued, faults>>
    BY <1>10, Zenon DEF VolumePending, PodsDeleted, CheckCapacity, LoopSteps
  <2>2. TypeOK'
    BY <2>1, Zenon DEF TypeOK, cluster, Steps, LoopSteps
  <2>3. QED
    BY <2>1, <2>2, Zenon DEF LoopIndex, LoopSteps
<1>11. CASE ScaleDown
  <2>1. /\ pc = "down" /\ pc' = "deleted" /\ run' = run /\ ScaleToZero(run.broker)
        /\ UNCHANGED <<spec, status, tmpl, vol, holds, cache, queued, faults>>
    BY <1>11, Zenon DEF ScaleDown, brokerId
  <2>2. up' \in SUBSET Brokers /\ pod' \in [Brokers -> PodStates]
    BY <2>1, NextId, ScaleToZeroTypes, Zenon DEF LoopSteps
  <2>3. TypeOK'
    BY <2>1, <2>2, Zenon DEF TypeOK, Steps
  <2>4. QED
    BY <2>1, <2>3, Zenon DEF LoopIndex, LoopSteps
<1>12. CASE ScaleUp
  <2>1. /\ pc = "up" /\ pc' = "capacity" /\ run' = run
        /\ up' = up \cup {run.broker} /\ run.broker \in Brokers
        /\ UNCHANGED <<spec, status, tmpl, pod, vol, holds, cache, queued,
                       faults>>
    BY <1>12, NextId, Zenon DEF ScaleUp, brokerId, LoopSteps
  <2>2. TypeOK'
    BY <2>1, Zenon DEF TypeOK, Steps
  <2>3. QED
    BY <2>1, <2>2, Zenon DEF LoopIndex, LoopSteps
<1>13. QED
  BY <1>1, <1>2, <1>3, <1>4, <1>6, <1>7, <1>8, <1>9, <1>10, <1>11, <1>12, Zenon

\* Reassignment and scale-in keep the types and the index.
LEMMA TailTypes ==
  ASSUME TypeOK, LoopIndex,
         Reassign \/ MovePartitions \/ ReassignFinished \/ ScaleInBroker
         \/ Finish
  PROVE  TypeOK' /\ LoopIndex'
<1>1. ASSUME AfterReassign, status' \in Statuses, queued' \in BOOLEAN,
             UNCHANGED <<spec, cluster, cache, faults>>
      PROVE  TypeOK' /\ LoopIndex'
  <2>1. /\ run' \in Runs /\ pc' \in {"scaleIn", "finish"}
        /\ run'.spec = run.spec
        /\ pc' = "scaleIn" => /\ run'.broker = run.spec.replicas + 1
                              /\ run.spec.replicas < run.current
                              /\ run'.current = run.current
    BY <1>1, AfterReassignTypes, Zenon
  <2>2. TypeOK'
    BY <1>1, <2>1, Zenon DEF TypeOK, cluster, Steps
  <2>3. pc' = "scaleIn" => /\ run'.spec.replicas < run'.broker
                           /\ run'.broker <= run'.current
    BY <2>1, Numbers, ScalingAssumption DEF Brokers
  <2>4. QED
    BY <2>1, <2>2, <2>3, Zenon DEF LoopIndex, LoopSteps
<1>2. CASE Reassign
  <2>1. status' \in Statuses /\ queued' \in BOOLEAN
        /\ UNCHANGED <<spec, cluster, cache, faults>>
    BY <1>2, Zenon DEF Reassign, SetStatus, TypeOK, Statuses
  <2>2. CASE AfterReassign
    BY <1>1, <2>1, <2>2, Zenon
  <2>3. CASE ~AfterReassign
    <3>1. pc' = "brokersUp" /\ run' = run
      BY <1>2, <2>3, Zenon DEF Reassign
    <3>2. TypeOK'
      BY <2>1, <3>1, Zenon DEF TypeOK, cluster, Steps
    <3>3. QED
      BY <3>1, <3>2, Zenon DEF LoopIndex, LoopSteps
  <2>4. QED
    BY <2>2, <2>3, Zenon
<1>3. CASE MovePartitions
  <2>1. pc' = "reassigned" /\ run' = run /\ run.spec.replicas \in Brokers
    BY <1>3, Numbers, Zenon DEF MovePartitions
  <2>2. holds' \in SUBSET Brokers
    <3>1. 1..run.spec.replicas \subseteq Brokers
      BY <2>1, FirstBrokers, Zenon
    <3>2. QED
      BY <1>3, <3>1, Zenon DEF MovePartitions, TypeOK
  <2>3. faults' \in Faults
    <3>1. faults.failures + 1 \in Nat
      BY DEF TypeOK, Faults
    <3>2. QED
      BY <1>3, <3>1, Zenon DEF MovePartitions, TypeOK, Faults
  <2>4. TypeOK'
    BY <1>3, <2>1, <2>2, <2>3, Zenon DEF MovePartitions, TypeOK, Steps
  <2>5. QED
    BY <2>1, <2>4, Zenon DEF LoopIndex, LoopSteps
<1>4. CASE ReassignFinished
  <2>1. status' \in Statuses /\ queued' \in BOOLEAN /\ AfterReassign
        /\ UNCHANGED <<spec, cluster, cache, faults>>
    BY <1>4, Zenon DEF ReassignFinished, SetStatus, TypeOK, Statuses
  <2>2. QED
    BY <1>1, <2>1, Zenon
<1>5. CASE ScaleInBroker
  <2>1. /\ pc = "scaleIn" /\ ScaleToZero(run.broker)
        /\ run' = [run EXCEPT !.broker = run.broker + 1]
        /\ pc' = IF run.broker < run.current THEN "scaleIn" ELSE "finish"
        /\ UNCHANGED <<spec, status, tmpl, vol, holds, cache, queued, faults>>
    BY <1>5, Zenon DEF ScaleInBroker, brokerId
  <2>2. run.spec.replicas < run.broker /\ run.broker <= run.current
        /\ run.spec.replicas \in Brokers
        /\ run.broker \in BrokerIds /\ run.current \in Counts
    BY <2>1, Zenon DEF LoopIndex, TypeOK, Runs, Specs
  <2>3. run.broker \in Brokers /\ run.broker + 1 \in BrokerIds
    BY <2>2, ScalingAssumption DEF Brokers, BrokerIds, Counts
  <2>4. run' \in Runs /\ run'.spec = run.spec /\ run'.broker = run.broker + 1
        /\ run'.current = run.current
    BY <2>1, <2>3, Zenon DEF TypeOK, Runs
  <2>5. up' \in SUBSET Brokers /\ pod' \in [Brokers -> PodStates]
    BY <2>1, <2>3, ScaleToZeroTypes, Zenon
  <2>6. TypeOK'
    BY <2>1, <2>4, <2>5, Zenon DEF TypeOK, Steps
  <2>7. pc' = "scaleIn" => /\ run'.spec.replicas < run'.broker
                           /\ run'.broker <= run'.current
    BY <2>1, <2>2, <2>4, ScalingAssumption DEF Brokers, BrokerIds, Counts
  <2>8. QED
    BY <2>1, <2>6, <2>7, Zenon DEF LoopIndex, LoopSteps
<1>6. CASE Finish
  <2>1. pc' = "idle" /\ cache' \in Nat
    BY <1>6, Numbers, Zenon DEF Finish
  <2>2. TypeOK'
    BY <1>6, <2>1, Zenon DEF Finish, TypeOK, cluster, Steps
  <2>3. QED
    BY <2>1, <2>2, Zenon DEF LoopIndex, LoopSteps
<1>7. QED
  BY <1>2, <1>3, <1>4, <1>5, <1>6, Zenon

\* Kubernetes keeps the types and touches no local variable of the operator.
LEMMA KubernetesTypes ==
  ASSUME TypeOK, LoopIndex, Kubernetes
  PROVE  TypeOK' /\ LoopIndex'
<1>1. PICK c \in Brokers : Pod(c) \/ Volume(c) \/ VolumeResize(c)
  BY Zenon DEF Kubernetes
<1>2. CASE Pod(c)
  <2>1. pod' \in [Brokers -> PodStates]
    BY <1>2, Zenon DEF Pod, TypeOK, PodStates
  <2>2. TypeOK'
    BY <1>2, <2>1, Zenon DEF Pod, TypeOK
  <2>3. QED
    BY <1>2, <2>2, Zenon DEF Pod, LoopIndex
<1>3. CASE Volume(c) \/ VolumeResize(c)
  <2>1. vol' \in [Brokers -> Volumes]
    <3>1. vol[c].request \in Sizes \cup {0} /\ vol[c] \in Volumes
      BY Zenon DEF TypeOK, Volumes
    <3>2. /\ [vol[c] EXCEPT !.capacity = vol[c].request] \in Volumes
          /\ [vol[c] EXCEPT !.pending = TRUE] \in Volumes
          /\ [vol[c] EXCEPT !.capacity = vol[c].request,
                            !.pending = FALSE] \in Volumes
      BY <3>1, Zenon DEF Volumes
    <3>3. PICK w \in Volumes : vol' = [vol EXCEPT ![c] = w]
      <4>1. CASE Volume(c)
        BY <3>2, <4>1, Zenon DEF Volume
      <4>2. CASE VolumeResize(c)
        BY <3>2, <4>2, Zenon DEF VolumeResize
      <4>3. QED
        BY <1>3, <4>1, <4>2, Zenon
    <3>4. QED
      BY <3>3, Zenon DEF TypeOK
  <2>2. TypeOK'
    BY <1>3, <2>1, Zenon DEF Volume, VolumeResize, TypeOK
  <2>3. QED
    BY <1>3, <2>2, Zenon DEF Volume, VolumeResize, LoopIndex
<1>4. QED
  BY <1>1, <1>2, <1>3, Zenon

\* Every step keeps the types and the index.
LEMMA TypeStep ==
  ASSUME TypeOK, LoopIndex, [Next]_vars
  PROVE  TypeOK' /\ LoopIndex'
<1>1. CASE Edit
  <2>1. PICK r \in Brokers, z \in Sizes :
          spec' = [replicas |-> r, size |-> z, v |-> spec.v + 1]
    BY <1>1, Zenon DEF Edit
  <2>2. spec' \in Specs
    BY <2>1, Numbers DEF Specs
  <2>3. TypeOK'
    BY <1>1, <2>2, Zenon DEF Edit, TypeOK, cluster
  <2>4. QED
    BY <1>1, <2>3, Zenon DEF Edit, LoopIndex
<1>2. CASE Get
  <2>1. CASE cache = spec.v
    <3>1. TypeOK'
      BY <1>2, <2>1, Zenon DEF Get, TypeOK, cluster
    <3>2. QED
      BY <1>2, <2>1, <3>1, Zenon DEF Get, LoopIndex
  <2>2. CASE cache # spec.v
    <3>1. pc' = "count" /\ run' = [spec |-> spec, status |-> status,
                                   current |-> 0, broker |-> 1]
      BY <1>2, <2>2, Zenon DEF Get
    <3>2. 0 \in Counts /\ 1 \in BrokerIds
      BY ScalingAssumption DEF Counts, BrokerIds
    <3>3. run' \in Runs /\ run'.broker = 1
      BY <3>1, <3>2, Zenon DEF Runs, TypeOK
    <3>4. TypeOK'
      BY <1>2, <3>1, <3>3, Zenon DEF Get, TypeOK, cluster, Steps
    <3>5. QED
      BY <3>1, <3>3, <3>4, Zenon DEF LoopIndex, LoopSteps
  <2>3. QED
    BY <2>1, <2>2, Zenon
<1>3. CASE ShrinkForbidden \/ WaitTimeout
  <2>1. ReturnError /\ faults' = faults
    BY <1>3, Zenon DEF ShrinkForbidden, WaitTimeout
  <2>2. faults' \in Faults
    BY <2>1, Zenon DEF TypeOK
  <2>3. QED
    BY <2>1, <2>2, ReturnErrorTypes, Zenon
<1>4. CASE ApiError
  <2>1. ReturnError /\ faults' \in Faults
    BY <1>4, FaultTypes, Zenon DEF ApiError
  <2>2. QED
    BY <2>1, ReturnErrorTypes, Zenon
<1>5. CASE Crash
  <2>1. pc' = "idle" /\ cache' \in Nat /\ faults' \in Faults
    BY <1>5, FaultTypes, Zenon DEF Crash
  <2>2. TypeOK'
    BY <1>5, <2>1, Zenon DEF Crash, TypeOK, cluster, Steps
  <2>3. QED
    BY <2>1, <2>2, Zenon DEF LoopIndex, LoopSteps
<1>6. CASE UNCHANGED vars
  <2>1. TypeOK'
    BY <1>6, Zenon DEF vars, TypeOK
  <2>2. QED
    BY <1>6, <2>1, Zenon DEF vars, LoopIndex
<1>7. QED
  BY <1>1, <1>2, <1>3, <1>4, <1>5, <1>6, LoopTypes, TailTypes, KubernetesTypes, Zenon
  DEF Next, Operator

-----------------------------------------------------------------------------
(* The core of the invariant *)

\* A volume that grows within its request disturbs nothing.
LEMMA GrowStep ==
  ASSUME TypeOK, TypeOK', Core, UNCHANGED <<spec, up, cache, pc, run, queued>>,
         \A c \in Brokers : /\ vol[c].capacity <= vol'[c].capacity
                            /\ vol'[c].capacity <= vol'[c].request
  PROVE  Core'
<1>1. \A c \in Brokers : vol'[c].capacity \in Nat
  BY ScalingAssumption DEF TypeOK, Volumes, Sizes
<1>2. ASSUME NEW s \in {spec, run.spec}, NEW c \in Brokers,
             c \in up, vol[c].capacity >= s.size
      PROVE  vol'[c].capacity >= s.size
  BY <1>1, <1>2, Numbers
<1>3. ASSUME pc \in {"resized", "wait"}
      PROVE  vol'[run.broker].capacity >= run.spec.size
  <2>1. run.broker \in up /\ vol[run.broker].capacity >= run.spec.size
    BY <1>3, Zenon DEF Core, Progress, UpSteps
  <2>2. QED
    BY <1>2, <2>1, Zenon DEF TypeOK
<1>4. Progress'
  BY <1>2, <1>3, Zenon DEF Core, Progress, Done
<1>5. Known'
  BY <1>2, Zenon DEF Core, Known, Done, Running, Quiet
<1>6. QED
  BY <1>4, <1>5, Zenon DEF Core, Order, Bounded, Running

\* Leaving the cycle with a queued request, the hash kept or lost.
LEMMA LeaveStep ==
  ASSUME TypeOK, Core, pc' = "idle", queued', UNCHANGED <<spec, up, vol, run>>,
         cache' \in {cache, 0}
  PROVE  Core'
<1>1. Progress'
  BY Zenon DEF Progress, LoopSteps, UpSteps, TailSteps
<1>2. Order' /\ Bounded'
  BY Numbers DEF Core, Order, Bounded, Running
<1>3. cache' = spec'.v => cache = spec.v
  BY Numbers DEF Core, Order
<1>4. Known'
  BY <1>3, Zenon DEF Core, Known, Done, Running, Quiet
<1>5. QED
  BY <1>1, <1>2, <1>4, Zenon DEF Core

\* While a cycle runs the cached hash is an older one, so that all a step of
\* the cycle can disturb is its own progress.
LEMMA WorkStep ==
  ASSUME TypeOK, Core, Running, pc' # "idle", UNCHANGED <<spec, cache>>,
         run'.spec = run.spec, ~queued' => ~queued, Progress', Bounded'
  PROVE  Core'
<1>1. Order'
  BY Zenon DEF Core, Order, Running
<1>2. cache # spec.v
  BY Numbers DEF Core, Order
<1>3. Known'
  BY <1>2, Zenon DEF Core, Known, Running, Quiet
<1>4. QED
  BY <1>1, <1>3, Zenon DEF Core

\* The loop goes on once the broker it is at is done.
LEMMA NextBrokerStep ==
  ASSUME TypeOK, LoopIndex, Core, pc \in LoopSteps, NextBroker,
         UNCHANGED <<up, vol>>, Done(run.broker, run.spec)
  PROVE  Progress'
<1>1. /\ pc' \in {"claim", "reassign"}
      /\ run'.spec = run.spec /\ run'.broker = run.broker + 1
      /\ pc' = "claim" <=> run.broker < run.spec.replicas
  BY NextBrokerTypes, Zenon
<1>2. \A c \in Brokers : c < run.broker => Done(c, run.spec)
  BY Zenon DEF Core, Progress
<1>3. \A c \in Brokers : c <= run.broker => Done(c, run.spec)
  BY <1>2, Numbers, ScalingAssumption DEF Brokers
<1>4. \A c \in Brokers : c <= run.broker => Done(c, run.spec)'
  BY <1>1, <1>3, Zenon DEF Done
<1>5. CASE pc' = "claim"
  <2>1. \A c \in Brokers : c < run'.broker => c <= run.broker
    BY <1>1, Numbers, ScalingAssumption DEF Brokers
  <2>2. QED
    BY <1>4, <1>5, <2>1, Zenon DEF Progress, LoopSteps, UpSteps, TailSteps
<1>6. CASE pc' = "reassign"
  <2>1. ~(run.broker < run.spec.replicas)
    BY <1>1, <1>6, Zenon
  <2>2. \A c \in Brokers : c <= run'.spec.replicas => c <= run.broker
    BY <1>1, <2>1, Numbers, ScalingAssumption DEF Brokers
  <2>3. QED
    BY <1>4, <1>6, <2>2, Zenon DEF Progress, LoopSteps, UpSteps, TailSteps
<1>7. QED
  BY <1>1, <1>5, <1>6, Zenon

\* So does the wait for the broker.
LEMMA AfterVolumeStep ==
  ASSUME TypeOK, LoopIndex, Core, pc \in LoopSteps, AfterVolume,
         UNCHANGED <<up, vol>>, Done(run.broker, run.spec)
  PROVE  Progress'
<1>1. /\ pc' = "wait" => run' = run
      /\ pc' # "wait" => NextBroker
  BY AfterVolumeTypes, Zenon
<1>2. CASE pc' = "wait"
  BY <1>1, <1>2, Zenon DEF Core, Progress, Done, LoopSteps, UpSteps, TailSteps
<1>3. CASE pc' # "wait"
  BY <1>1, <1>3, NextBrokerStep, Zenon
<1>4. QED
  BY <1>2, <1>3, Zenon

\* The broker loop.
LEMMA LoopStep ==
  ASSUME TypeOK, LoopIndex, Core,
         \/ CountBrokers \/ ClaimVolume \/ ClaimRefused \/ DeployBroker
         \/ CheckVolume \/ VolumeGrown \/ VolumePending \/ ScaleDown
         \/ PodsDeleted \/ ScaleUp \/ CheckCapacity
         \/ BrokerReadyAfterResize \/ BrokerReady
  PROVE  Core'
<1>a. ASSUME UNCHANGED vol PROVE Bounded'
  BY <1>a, Zenon DEF Core, Bounded
<1>b. ASSUME pc \in LoopSteps, pc' \in LoopSteps, run' = run,
             UNCHANGED <<spec, vol, cache, queued>>,
             up \subseteq up',
             pc' \in UpSteps => run.broker \in up',
             pc' \in {"resized", "wait"} =>
                vol[run.broker].capacity >= run.spec.size
      PROVE  Core'
  <2>1. Progress'
    BY <1>b, Zenon DEF Core, Progress, Done, LoopSteps, TailSteps
  <2>2. Running /\ pc' # "idle"
    BY <1>b, Zenon DEF Running, LoopSteps
  <2>3. QED
    BY <1>a, <1>b, <2>1, <2>2, WorkStep, Zenon
<1>c. ASSUME AfterVolume, UNCHANGED <<spec, up, vol, cache, queued>>,
             pc \in UpSteps, vol[run.broker].capacity >= run.spec.size
      PROVE  Core'
  <2>1. pc \in LoopSteps /\ Running
    BY <1>c, Zenon DEF UpSteps, LoopSteps, Running
  <2>2. Done(run.broker, run.spec)
    BY <1>c, Zenon DEF Core, Progress, Done
  <2>3. Progress'
    BY <1>c, <2>1, <2>2, AfterVolumeStep, Zenon
  <2>4. run'.spec = run.spec /\ pc' # "idle"
    BY <1>c, <2>1, AfterVolumeTypes, Zenon
  <2>5. QED
    BY <1>a, <1>c, <2>1, <2>3, <2>4, WorkStep, Zenon
<1>1. CASE CountBrokers
  <2>1. /\ pc = "count" /\ pc' = "claim"
        /\ run' = [run EXCEPT !.current = Cardinality(up)]
        /\ UNCHANGED <<spec, up, vol, cache, queued>>
    BY <1>1, Zenon DEF CountBrokers, cluster
  <2>2. run'.spec = run.spec /\ run'.broker = run.broker
    BY <2>1, Zenon DEF TypeOK, Runs
  <2>3. run'.broker = 1
    BY <2>1, <2>2, Zenon DEF LoopIndex
  <2>4. \A c \in Brokers : ~(c < run'.broker)
    BY <2>3, ScalingAssumption DEF Brokers
  <2>5. Progress'
    BY <2>1, <2>4, Zenon DEF Progress, LoopSteps, UpSteps, TailSteps
  <2>6. QED
    BY <1>a, <2>1, <2>2, <2>5, WorkStep, Zenon DEF Running
<1>2. CASE ClaimVolume
  <2>1. /\ pc = "claim" /\ pc' = "deploy"
        /\ vol[run.broker].request <= run.spec.size
        /\ vol' = [vol EXCEPT ![run.broker].request = run.spec.size]
        /\ UNCHANGED <<spec, up, cache, run, queued>>
    BY <1>2, Zenon DEF ClaimVolume, brokerId, Desired
  <2>2. \A c \in Brokers : /\ vol'[c].capacity = vol[c].capacity
                           /\ vol'[c].request = IF c = run.broker
                                                THEN run.spec.size
                                                ELSE vol[c].request
    BY <2>1, Zenon DEF TypeOK, Volumes
  <2>3. Bounded'
    BY <2>1, <2>2, Numbers DEF Core, Bounded
  <2>4. Progress'
    BY <2>1, <2>2, Zenon DEF Core, Progress, Done, LoopSteps, UpSteps, TailSteps
  <2>5. QED
    BY <2>1, <2>3, <2>4, WorkStep, Zenon DEF Running
<1>3. CASE ClaimRefused
  <2>1. /\ pc = "claim" /\ pc' = "deploy" /\ run' = run
        /\ UNCHANGED <<spec, up, vol, cache, queued>>
    BY <1>3, Zenon DEF ClaimRefused, cluster
  <2>2. QED
    BY <1>b, <2>1, Zenon DEF LoopSteps, UpSteps
<1>4. CASE DeployBroker
  <2>1. /\ pc = "deploy" /\ pc' = "resize" /\ run' = run
        /\ up' = up \cup {run.broker}
        /\ UNCHANGED <<spec, vol, cache, queued>>
    BY <1>4, Zenon DEF DeployBroker, brokerId
  <2>2. QED
    BY <1>b, <2>1, Zenon DEF LoopSteps, UpSteps
<1>5. CASE CheckVolume
  <2>1. pc = "resize" /\ UNCHANGED <<spec, up, vol, cache, queued>>
    BY <1>5, Zenon DEF CheckVolume, cluster
  <2>2. CASE Resized
    <3>1. AfterVolume /\ vol[run.broker].capacity >= run.spec.size
      BY <1>5, <2>2, Zenon DEF CheckVolume, Resized, brokerId, Desired
    <3>2. QED
      BY <1>c, <2>1, <3>1, Zenon DEF UpSteps
  <2>3. CASE ~Resized
    <3>1. pc' = "resizeState" /\ run' = run
      BY <1>5, <2>3, Zenon DEF CheckVolume
    <3>2. run.broker \in up
      BY <2>1, Zenon DEF Core, Progress, UpSteps
    <3>3. QED
      BY <1>b, <2>1, <3>1, <3>2, Zenon DEF LoopSteps
  <2>4. QED
    BY <2>2, <2>3, Zenon
<1>6. CASE VolumeGrown
  <2>1. /\ pc = "resizeState" /\ UNCHANGED <<spec, up, vol, cache, queued>>
        /\ AfterVolume /\ vol[run.broker].capacity >= run.spec.size
    BY <1>6, Zenon DEF VolumeGrown, cluster, Resized, brokerId, Desired
  <2>2. QED
    BY <1>c, <2>1, Zenon DEF UpSteps
<1>7. CASE VolumePending
  <2>1. /\ pc = "resizeState" /\ pc' = "down" /\ run' = run
        /\ UNCHANGED <<spec, up, vol, cache, queued>>
    BY <1>7, Zenon DEF VolumePending, cluster
  <2>2. run.broker \in up
    BY <2>1, Zenon DEF Core, Progress, UpSteps
  <2>3. QED
    BY <1>b, <2>1, <2>2, Zenon DEF LoopSteps
<1>8. CASE ScaleDown
  <2>1. /\ pc = "down" /\ pc' = "deleted" /\ run' = run
        /\ up' = up \ {run.broker}
        /\ UNCHANGED <<spec, vol, cache, queued>>
    BY <1>8, Zenon DEF ScaleDown, ScaleToZero, brokerId
  <2>2. \A c \in Brokers : c < run.broker => c # run.broker
    BY Numbers, ScalingAssumption DEF Brokers
  <2>3. Progress'
    BY <2>1, <2>2, Zenon DEF Core, Progress, Done, LoopSteps, UpSteps, TailSteps
  <2>4. QED
    BY <1>a, <2>1, <2>3, WorkStep, Zenon DEF Running
<1>9. CASE PodsDeleted
  <2>1. /\ pc = "deleted" /\ pc' = "up" /\ run' = run
        /\ UNCHANGED <<spec, up, vol, cache, queued>>
    BY <1>9, Zenon DEF PodsDeleted, cluster
  <2>2. QED
    BY <1>b, <2>1, Zenon DEF LoopSteps, UpSteps
<1>10. CASE ScaleUp
  <2>1. /\ pc = "up" /\ pc' = "capacity" /\ run' = run
        /\ up' = up \cup {run.broker}
        /\ UNCHANGED <<spec, vol, cache, queued>>
    BY <1>10, Zenon DEF ScaleUp, brokerId
  <2>2. QED
    BY <1>b, <2>1, Zenon DEF LoopSteps
<1>11. CASE CheckCapacity
  <2>1. /\ pc = "capacity" /\ pc' \in {"resized", "down"} /\ run' = run
        /\ UNCHANGED <<spec, up, vol, cache, queued>>
        /\ pc' = "resized" => vol[run.broker].capacity >= run.spec.size
    BY <1>11, Zenon DEF CheckCapacity, cluster, Resized, brokerId, Desired
  <2>2. run.broker \in up
    BY <2>1, Zenon DEF Core, Progress, UpSteps
  <2>3. QED
    BY <1>b, <2>1, <2>2, Zenon DEF LoopSteps
<1>12. CASE BrokerReadyAfterResize
  <2>1. /\ pc = "resized" /\ AfterVolume
        /\ UNCHANGED <<spec, up, vol, cache, queued>>
    BY <1>12, Zenon DEF BrokerReadyAfterResize, cluster
  <2>2. vol[run.broker].capacity >= run.spec.size
    BY <2>1, Zenon DEF Core, Progress
  <2>3. QED
    BY <1>c, <2>1, <2>2, Zenon DEF UpSteps
<1>13. CASE BrokerReady
  <2>1. /\ pc = "wait" /\ NextBroker
        /\ UNCHANGED <<spec, up, vol, cache, queued>>
    BY <1>13, Zenon DEF BrokerReady, cluster
  <2>2. Done(run.broker, run.spec)
    BY <2>1, Zenon DEF Core, Progress, Done, UpSteps
  <2>3. Progress' /\ run'.spec = run.spec /\ pc' # "idle"
    BY <2>1, <2>2, NextBrokerStep, NextBrokerTypes, Zenon DEF LoopSteps
  <2>4. QED
    BY <1>a, <2>1, <2>3, WorkStep, Zenon DEF Running
<1>14. QED
  BY <1>1, <1>2, <1>3, <1>4, <1>5, <1>6, <1>7, <1>8, <1>9, <1>10, <1>11,
     <1>12, <1>13, Zenon

\* Reassignment and scale-in: the brokers of the spec stay as they are.
LEMMA TailStep ==
  ASSUME TypeOK, LoopIndex, Core,
         Reassign \/ MovePartitions \/ ReassignFinished \/ ScaleInBroker
         \/ Finish
  PROVE  Core'
<1>a. ASSUME pc \in TailSteps, pc' \in TailSteps, run'.spec = run.spec,
             UNCHANGED <<spec, vol, cache>>, ~queued' => ~queued,
             \A c \in up : c <= run.spec.replicas => c \in up'
      PROVE  Core'
  <2>1. Progress'
    BY <1>a, Zenon DEF Core, Progress, Done, LoopSteps, UpSteps, TailSteps
  <2>2. Bounded' /\ Running /\ pc' # "idle"
    BY <1>a, Zenon DEF Core, Bounded, Running, TailSteps
  <2>3. QED
    BY <1>a, <2>1, <2>2, WorkStep, Zenon
<1>1. CASE Reassign
  <2>1. /\ pc = "reassign" /\ UNCHANGED <<spec, up, vol, cache>>
        /\ AfterReassign \/ (pc' = "brokersUp" /\ UNCHANGED run)
    <3>1. pc = "reassign" /\ UNCHANGED <<spec, up, vol, cache>>
      BY <1>1, Zenon DEF Reassign, cluster
    <3>2. AfterReassign \/ (pc' = "brokersUp" /\ UNCHANGED run)
      BY <1>1, Zenon DEF Reassign
    <3>3. QED
      BY <3>1, <3>2, Zenon
  <2>2. ~queued' => ~queued
    BY <1>1, Zenon DEF Reassign, SetStatus, TypeOK
  <2>3. pc' \in TailSteps /\ run'.spec = run.spec
    BY <2>1, AfterReassignTypes, Zenon DEF TailSteps
  <2>4. QED
    BY <1>a, <2>1, <2>2, <2>3, Zenon DEF TailSteps
<1>2. CASE MovePartitions
  <2>1. /\ pc = "brokersUp" /\ pc' = "reassigned"
        /\ UNCHANGED <<spec, up, vol, cache, run, queued>>
    BY <1>2, Zenon DEF MovePartitions
  <2>2. QED
    BY <1>a, <2>1, Zenon DEF TailSteps
<1>3. CASE ReassignFinished
  <2>1. /\ pc = "reassigned" /\ UNCHANGED <<spec, up, vol, cache>>
        /\ AfterReassign
    BY <1>3, Zenon DEF ReassignFinished, cluster
  <2>2. ~queued' => ~queued
    BY <1>3, Zenon DEF ReassignFinished, SetStatus, TypeOK
  <2>3. pc' \in TailSteps /\ run'.spec = run.spec
    BY <2>1, AfterReassignTypes, Zenon DEF TailSteps
  <2>4. QED
    BY <1>a, <2>1, <2>2, <2>3, Zenon DEF TailSteps
<1>4. CASE ScaleInBroker
  <2>1. /\ pc = "scaleIn" /\ up' = up \ {run.broker}
        /\ run' = [run EXCEPT !.broker = run.broker + 1]
        /\ pc' \in {"scaleIn", "finish"}
        /\ UNCHANGED <<spec, vol, cache, queued>>
    BY <1>4, Zenon DEF ScaleInBroker, ScaleToZero, brokerId
  <2>2. run.spec.replicas < run.broker
    BY <2>1, Zenon DEF LoopIndex
  <2>3. \A c \in up : c <= run.spec.replicas => c # run.broker
    <3>1. \A c \in Brokers : c <= run.spec.replicas => c # run.broker
      BY <2>2, Numbers, ScalingAssumption DEF Brokers
    <3>2. up \subseteq Brokers
      BY Zenon DEF TypeOK
    <3>3. QED
      BY <3>1, <3>2, Zenon
  <2>4. run'.spec = run.spec
    BY <2>1, Zenon DEF TypeOK, Runs
  <2>5. QED
    BY <1>a, <2>1, <2>3, <2>4, Zenon DEF TailSteps
<1>5. CASE Finish
  <2>1. /\ pc = "finish" /\ pc' = "idle" /\ cache' = run.spec.v
        /\ UNCHANGED <<spec, up, vol, run, queued>>
    BY <1>5, Zenon DEF Finish, cluster
  <2>2. Progress'
    BY <2>1, Zenon DEF Progress, LoopSteps, UpSteps, TailSteps
  <2>3. Order' /\ Bounded'
    BY <2>1, Zenon DEF Core, Order, Bounded, Running
  <2>4. \A c \in Brokers : c <= run.spec.replicas => Done(c, run.spec)
    BY <2>1, Zenon DEF Core, Progress, TailSteps
  <2>5. Known'
    BY <2>1, <2>4, Zenon DEF Core, Order, Known, Done, Running, Quiet
  <2>6. QED
    BY <2>2, <2>3, <2>5, Zenon DEF Core
<1>6. QED
  BY <1>1, <1>2, <1>3, <1>4, <1>5, Zenon

\* Kubernetes only grows volumes, and not beyond their requests.
LEMMA KubernetesStep ==
  ASSUME TypeOK, TypeOK', Core, Kubernetes
  PROVE  Core'
<1>1. PICK c \in Brokers : Pod(c) \/ Volume(c) \/ VolumeResize(c)
  BY Zenon DEF Kubernetes
<1>2. UNCHANGED <<spec, up, cache, pc, run, queued>>
  BY <1>1, Zenon DEF Pod, Volume, VolumeResize
<1>3. \A d \in Brokers : vol[d].capacity <= vol[d].request
  BY Zenon DEF Core, Bounded
<1>4. ASSUME NEW d \in Brokers
      PROVE  /\ vol[d].capacity <= vol'[d].capacity
             /\ vol'[d].capacity <= vol'[d].request
  <2>1. vol'[d].request = vol[d].request
    BY <1>1 DEF Pod, Volume, VolumeResize, TypeOK, Volumes
  <2>2. vol'[d].capacity \in {vol[d].capacity, vol[d].request}
    BY <1>1 DEF Pod, Volume, VolumeResize, TypeOK, Volumes
  <2>3. QED
    BY <1>3, <2>1, <2>2, Numbers
<1>5. QED
  BY <1>2, <1>4, GrowStep, Zenon

\* Every step keeps the invariant.
LEMMA InvariantStep ==
  ASSUME IInv, [Next]_vars
  PROVE  IInv'
<1> USE DEF IInv
<1>1. TypeOK' /\ LoopIndex'
  BY TypeStep, Zenon
<1>2. CASE Edit
  <2>1. PICK r \in Brokers, z \in Sizes :
          spec' = [replicas |-> r, size |-> z, v |-> spec.v + 1]
    BY <1>2, Zenon DEF Edit
  <2>2. spec'.v = spec.v + 1 /\ queued' /\ UNCHANGED <<up, vol, cache, pc, run>>
    BY <1>2, <2>1, Zenon DEF Edit, cluster
  <2>3. cache' # spec'.v /\ run'.spec.v # spec'.v /\ Order'
    BY <2>2, Numbers DEF Core, Order, Running
  <2>4. Known'
    BY <2>2, <2>3, Zenon DEF Known, Quiet
  <2>5. Progress' /\ Bounded'
    BY <2>2, Zenon DEF Core, Progress, Bounded, Done
  <2>6. QED
    BY <1>1, <2>3, <2>4, <2>5, Zenon DEF Core
<1>3. CASE Get
  <2>1. pc = "idle" /\ UNCHANGED <<spec, up, vol, cache>>
    BY <1>3, Zenon DEF Get, cluster
  <2>2. CASE cache = spec.v
    <3>1. UNCHANGED <<pc, run>>
      BY <1>3, <2>2, Zenon DEF Get
    <3>2. Progress' /\ Order' /\ Bounded'
      BY <2>1, <3>1, Zenon DEF Core, Progress, Order, Bounded, Done, Running
    <3>3. Known'
      BY <2>1, <2>2, <3>1, Zenon DEF Core, Known, Done, Running, Quiet
    <3>4. QED
      BY <1>1, <3>2, <3>3, Zenon DEF Core
  <2>3. CASE cache # spec.v
    <3>1. pc' = "count" /\ run'.spec = spec
      BY <1>3, <2>3 DEF Get
    <3>2. Progress'
      BY <3>1, Zenon DEF Progress, LoopSteps, UpSteps, TailSteps
    <3>3. cache < spec.v
      BY <2>3, Numbers DEF Core, Order
    <3>4. Order' /\ Bounded'
      BY <2>1, <3>1, <3>3, Numbers DEF Core, Order, Bounded, Running
    <3>5. Known'
      BY <2>1, <2>3, <3>1, Zenon DEF Known, Running, Quiet
    <3>6. QED
      BY <1>1, <3>2, <3>4, <3>5, Zenon DEF Core
  <2>4. QED
    BY <2>2, <2>3, Zenon
<1>4. CASE ShrinkForbidden \/ WaitTimeout \/ ApiError
  <2>1. pc' = "idle" /\ queued' /\ UNCHANGED <<spec, up, vol, cache, run>>
    BY <1>4, Zenon DEF ShrinkForbidden, WaitTimeout, ApiError, ReturnError, cluster
  <2>2. QED
    BY <1>1, <2>1, LeaveStep, Zenon
<1>5. CASE Crash
  <2>1. /\ pc' = "idle" /\ queued' /\ cache' = 0
        /\ UNCHANGED <<spec, up, vol, run>>
    BY <1>5, Zenon DEF Crash, cluster
  <2>2. QED
    BY <1>1, <2>1, LeaveStep, Zenon
<1>6. CASE UNCHANGED vars
  <2>1. UNCHANGED <<spec, up, vol, cache, pc, run, queued>>
    BY <1>6, Zenon DEF vars
  <2>2. Progress' /\ Order' /\ Bounded' /\ Known'
    BY <2>1, Zenon DEF Core, Progress, Order, Bounded, Known, Done, Running, Quiet
  <2>3. QED
    BY <1>1, <2>2, Zenon DEF Core
<1>7. QED
  BY <1>1, <1>2, <1>3, <1>4, <1>5, <1>6, LoopStep, TailStep, KubernetesStep, Zenon
  DEF Next, Operator

\* The facts about the installed cluster that the invariants rest on.
LEMMA InitFacts ==
  ASSUME Init
  PROVE  /\ spec.v = 1 /\ spec.replicas = Initial /\ spec.size = 1
         /\ run.spec = spec /\ cache = 0 /\ pc = "idle" /\ queued
         /\ up = 1..Initial
         /\ \A c \in Brokers : tmpl[c] = IF c \in up THEN 1 ELSE 0
         /\ \A c \in Brokers : /\ vol[c].capacity = IF c \in up THEN 1 ELSE 0
                               /\ vol[c].request = IF c \in up THEN 1 ELSE 0
<1>1. /\ spec = [replicas |-> Initial, size |-> 1, v |-> 1]
      /\ cache = 0 /\ pc = "idle" /\ up = 1..Initial
  BY Zenon DEF Init
<1>2. run = [spec |-> spec, status |-> status, current |-> 0, broker |-> 1]
  BY Zenon DEF Init
<1>3. tmpl = [b \in Brokers |-> IF b \in up THEN 1 ELSE 0]
  BY Zenon DEF Init
<1>4. vol = [b \in Brokers |->
               LET s == IF b \in up THEN 1 ELSE 0
               IN  [request |-> s, capacity |-> s, pending |-> FALSE]]
  BY Zenon DEF Init
<1>5. \A c \in Brokers : /\ vol[c].capacity = IF c \in up THEN 1 ELSE 0
                         /\ vol[c].request = IF c \in up THEN 1 ELSE 0
  BY <1>4, Zenon
<1>6. \A c \in Brokers : tmpl[c] = IF c \in up THEN 1 ELSE 0
  BY <1>3, Zenon
<1>7. queued
  BY DEF Init
<1>8. QED
  BY <1>1, <1>2, <1>5, <1>6, <1>7, Zenon

\* The invariant holds of the installed cluster.
LEMMA InvariantInit ==
  ASSUME Init
  PROVE  IInv
<1>1. /\ Initial \in Brokers /\ 1 \in Sizes /\ 0 \in Counts /\ 1 \in BrokerIds
      /\ 1..Initial \subseteq Brokers
  BY ScalingAssumption DEF Brokers, Sizes, Counts, BrokerIds
<1>2. spec \in Specs /\ status \in Statuses /\ up \subseteq Brokers
      /\ holds \subseteq Brokers
  BY <1>1, Zenon DEF Init, Specs, Statuses
<1>3. tmpl \in [Brokers -> Nat] /\ pod \in [Brokers -> PodStates]
  BY Zenon DEF Init, PodStates
<1>4. vol \in [Brokers -> Volumes]
  BY <1>1, Zenon DEF Init, Volumes
<1>5. pc \in Steps /\ run \in Runs /\ faults \in Faults
  BY <1>1, <1>2, Zenon DEF Init, Steps, Runs, Faults
<1>6. TypeOK
  BY <1>2, <1>3, <1>4, <1>5, Zenon DEF TypeOK, Init
<1>7. LoopIndex /\ Progress
  BY InitFacts, Zenon DEF LoopIndex, Progress, LoopSteps, UpSteps, TailSteps
<1>8. Order
  BY InitFacts DEF Order, Running
<1>9. Bounded
  BY InitFacts DEF Bounded
<1>10. cache # spec.v
  BY InitFacts
<1>11. Known
  BY <1>10, InitFacts, Zenon DEF Known, Running, Quiet
<1>12. QED
  BY <1>6, <1>7, <1>8, <1>9, <1>11, Zenon DEF IInv, Core

-----------------------------------------------------------------------------
(* The deployments a count can name *)

\* Deployments exist for a prefix of the brokers, so that every broker up to
\* a count of deployments has one.
Named ==
    /\ spec.v > 0 /\ run.spec.v > 0
    /\ \A c \in up : tmpl[c] # 0
    /\ \A c, d \in Brokers : d < c /\ tmpl[c] # 0 => tmpl[d] # 0
    /\ pc \in LoopSteps =>
          \A c \in Brokers : c < run.broker => tmpl[c] # 0
    /\ pc \in LoopSteps \ {"claim", "deploy"} => tmpl[run.broker] # 0
    /\ pc \notin {"idle", "count"} =>
          \A c \in Brokers : c <= run.current => tmpl[c] # 0

\* A count of the running brokers names no broker without a deployment.
LEMMA CountNamed ==
  ASSUME TypeOK, Named, NEW c \in Brokers, c <= Cardinality(up)
  PROVE  tmpl[c] # 0
<1>1. SUFFICES ASSUME tmpl[c] = 0 PROVE FALSE
  BY Zenon
<1>2. c \in Nat /\ c > 0 /\ c - 1 \in Nat
  BY ScalingAssumption DEF Brokers
<1>3. ASSUME NEW d \in up PROVE d \in 1..(c - 1)
  <2>1. d \in Brokers /\ tmpl[d] # 0
    BY <1>3, Zenon DEF TypeOK, Named
  <2>2. d # c /\ ~(c < d)
    BY <1>1, <2>1, Zenon DEF Named
  <2>3. QED
    BY <1>2, <2>1, <2>2, ScalingAssumption DEF Brokers
<1>4. IsFiniteSet(1..(c - 1)) /\ Cardinality(1..(c - 1)) = c - 1
  BY <1>2, FS_Interval
<1>5. up \in SUBSET (1..(c - 1))
  BY <1>3, Zenon
<1>6. IsFiniteSet(up) /\ Cardinality(up) <= c - 1
  BY <1>4, <1>5, FS_Subset, Zenon
<1>7. Cardinality(up) \in Nat
  BY <1>6, FS_CardinalityType, Zenon
<1>8. QED
  BY <1>2, <1>6, <1>7

\* A step that keeps deployments and counts, and goes no further in the loop.
LEMMA KeepNamed ==
  ASSUME TypeOK, Named, UNCHANGED <<tmpl, run>>, spec'.v > 0,
         \A c \in up' : c \in up \/ tmpl[c] # 0,
         pc' \in LoopSteps => pc \in LoopSteps,
         pc' \in LoopSteps \ {"claim", "deploy"} => tmpl[run.broker] # 0,
         pc' \notin {"idle", "count"} => pc \notin {"idle", "count"}
  PROVE  Named'
BY Zenon DEF Named

\* The step to the next broker of the loop, or to the steps after it.
LEMMA MoveNamed ==
  ASSUME TypeOK, Named, UNCHANGED <<tmpl, up, spec>>,
         pc \notin {"idle", "count"},
         pc' \in {"claim", "reassign", "scaleIn", "finish"},
         run'.spec = run.spec, run'.current = run.current,
         pc' = "claim" => /\ pc \in LoopSteps /\ tmpl[run.broker] # 0
                          /\ run'.broker = run.broker + 1
  PROVE  Named'
<1>1. pc' \in LoopSteps => \A c \in Brokers : c < run'.broker => tmpl'[c] # 0
  <2>1. SUFFICES ASSUME pc' = "claim", NEW c \in Brokers, c < run'.broker
                 PROVE  tmpl[c] # 0
    BY Zenon DEF LoopSteps
  <2>2. c < run.broker \/ c = run.broker
    BY <2>1, Numbers, ScalingAssumption DEF Brokers
  <2>3. QED
    BY <2>1, <2>2, Zenon DEF Named
<1>2. QED
  BY <1>1, Zenon DEF Named, LoopSteps

\* NextBroker and AfterReassign leave the count alone.
LEMMA CurrentKept ==
  ASSUME TypeOK, NextBroker \/ AfterReassign
  PROVE  run'.current = run.current
<1>1. run \in Runs
  BY Zenon DEF TypeOK
<1>2. CASE NextBroker
  BY <1>1, <1>2, Zenon DEF NextBroker, Runs
<1>3. CASE AfterReassign
  BY <1>1, <1>3, Zenon DEF AfterReassign, Runs
<1>4. QED
  BY <1>2, <1>3, Zenon

\* AfterVolume, at a broker that has its deployment.
LEMMA AfterVolumeNamed ==
  ASSUME TypeOK, LoopIndex, Named, AfterVolume,
         pc \in LoopSteps \ {"claim", "deploy"}, UNCHANGED <<tmpl, up, spec>>
  PROVE  Named'
<1>1. /\ pc' \in {"wait", "claim", "reassign"} /\ run'.spec = run.spec
      /\ pc' = "wait" => run' = run
      /\ pc' # "wait" => NextBroker
  BY AfterVolumeTypes, Zenon
<1>2. tmpl[run.broker] # 0
  BY Zenon DEF Named
<1>3. CASE pc' = "wait"
  BY <1>1, <1>2, <1>3, KeepNamed, Zenon DEF Named, LoopSteps
<1>4. CASE pc' # "wait"
  <2>1. run'.broker = run.broker + 1 /\ run'.current = run.current
    BY <1>1, <1>4, NextBrokerTypes, CurrentKept, Zenon
  <2>2. QED
    BY <1>1, <1>2, <1>4, <2>1, MoveNamed, Zenon DEF LoopSteps
<1>5. QED
  BY <1>3, <1>4, Zenon

\* Every step keeps Named.
LEMMA NamedStep ==
  ASSUME TypeOK, LoopIndex, Named, [Next]_vars
  PROVE  Named'
<1>1. CASE Edit
  <2>1. spec'.v = spec.v + 1 /\ UNCHANGED <<tmpl, run, up, pc>>
    BY <1>1 DEF Edit, cluster
  <2>2. spec'.v > 0
    BY <2>1, Numbers
  <2>3. QED
    BY <2>1, <2>2, KeepNamed, Zenon DEF Named
<1>2. CASE Get
  <2>1. pc = "idle" /\ UNCHANGED <<tmpl, spec, up>>
    BY <1>2, Zenon DEF Get, cluster
  <2>2. (pc' = "idle" /\ run' = run) \/ (pc' = "count" /\ run'.spec = spec)
    BY <1>2 DEF Get
  <2>3. QED
    BY <2>1, <2>2, Zenon DEF Named, LoopSteps
<1>3. CASE CountBrokers
  <2>1. /\ pc = "count" /\ pc' = "claim" /\ UNCHANGED <<tmpl, spec, up>>
        /\ run' = [run EXCEPT !.current = Cardinality(up)]
    BY <1>3, Zenon DEF CountBrokers, cluster
  <2>2. run'.spec = run.spec /\ run'.broker = 1 /\ run'.current = Cardinality(up)
    BY <2>1, Zenon DEF TypeOK, Runs, LoopIndex
  <2>3. \A c \in Brokers : c <= run'.current => tmpl'[c] # 0
    BY <2>1, <2>2, CountNamed, Zenon
  <2>4. \A c \in Brokers : ~(c < run'.broker)
    BY <2>2, ScalingAssumption DEF Brokers
  <2>5. QED
    BY <2>1, <2>2, <2>3, <2>4, Zenon DEF Named
<1>4. CASE ClaimVolume \/ ClaimRefused
  <2>1. pc = "claim" /\ pc' = "deploy" /\ UNCHANGED <<tmpl, run, spec, up>>
    BY <1>4, Zenon DEF ClaimVolume, ClaimRefused, cluster
  <2>2. QED
    BY <2>1, KeepNamed, Zenon DEF Named, LoopSteps
<1>5. CASE DeployBroker
  <2>1. /\ pc = "deploy" /\ pc' = "resize" /\ UNCHANGED <<run, spec>>
        /\ up' = up \cup {run.broker}
        /\ tmpl' = [tmpl EXCEPT ![run.broker] = run.spec.v]
    BY <1>5, Zenon DEF DeployBroker, brokerId
  <2>2. run.broker \in Brokers /\ run.spec.v # 0 /\ up \subseteq Brokers
    <3>1. run.broker \in Brokers
      BY <2>1, NextId, Zenon DEF LoopSteps
    <3>2. run.spec.v # 0
      BY Numbers DEF Named
    <3>3. up \subseteq Brokers
      BY Zenon DEF TypeOK
    <3>4. QED
      BY <3>1, <3>2, <3>3, Zenon
  <2>3. /\ tmpl'[run.broker] # 0
        /\ \A c \in Brokers : c # run.broker => tmpl'[c] = tmpl[c]
        /\ \A c \in Brokers : tmpl[c] # 0 => tmpl'[c] # 0
    BY <2>1, <2>2, Zenon DEF TypeOK
  <2>4. \A c \in Brokers : c < run.broker => tmpl'[c] # 0
    BY <2>1, <2>3, Zenon DEF Named, LoopSteps
  <2>5. \A c, d \in Brokers : d < c /\ tmpl'[c] # 0 => tmpl'[d] # 0
    BY <2>2, <2>3, <2>4, Zenon DEF Named
  <2>6. \A c \in up' : tmpl'[c] # 0
    BY <2>1, <2>2, <2>3, Zenon DEF Named
  <2>7. \A c \in Brokers : c <= run.current => tmpl'[c] # 0
    BY <2>1, <2>3, Zenon DEF Named
  <2>8. QED
    BY <2>1, <2>3, <2>4, <2>5, <2>6, <2>7, Zenon DEF Named
<1>6. CASE CheckVolume
  <2>1. pc = "resize" /\ UNCHANGED <<tmpl, up, spec>>
    BY <1>6, Zenon DEF CheckVolume, cluster
  <2>2. CASE Resized
    BY <1>6, <2>1, <2>2, AfterVolumeNamed, Zenon DEF CheckVolume, LoopSteps
  <2>3. CASE ~Resized
    <3>1. pc' = "resizeState" /\ run' = run
      BY <1>6, <2>3, Zenon DEF CheckVolume
    <3>2. QED
      BY <2>1, <3>1, KeepNamed, Zenon DEF Named, LoopSteps
  <2>4. QED
    BY <2>2, <2>3, Zenon
<1>7. CASE VolumeGrown \/ BrokerReadyAfterResize
  <2>1. /\ pc \in {"resizeState", "resized"} /\ AfterVolume
        /\ UNCHANGED <<tmpl, up, spec>>
    BY <1>7, Zenon DEF VolumeGrown, BrokerReadyAfterResize, cluster
  <2>2. QED
    BY <2>1, AfterVolumeNamed, Zenon DEF LoopSteps
<1>8. CASE BrokerReady
  <2>1. pc = "wait" /\ NextBroker /\ UNCHANGED <<tmpl, up, spec>>
    BY <1>8, Zenon DEF BrokerReady, cluster
  <2>2. /\ pc' \in {"claim", "reassign"} /\ run'.spec = run.spec
        /\ run'.broker = run.broker + 1 /\ run'.current = run.current
    BY <2>1, NextBrokerTypes, CurrentKept, Zenon DEF LoopSteps
  <2>3. QED
    BY <2>1, <2>2, MoveNamed, Zenon DEF Named, LoopSteps
<1>9. CASE VolumePending \/ PodsDeleted \/ CheckCapacity \/ ScaleDown
  <2>1. /\ pc \in LoopSteps \ {"claim", "deploy"}
        /\ UNCHANGED <<tmpl, run, spec>> /\ up' \subseteq up
    BY <1>9, Zenon DEF VolumePending, PodsDeleted, CheckCapacity, ScaleDown,
                ScaleToZero, cluster, LoopSteps
  <2>2. QED
    BY <2>1, KeepNamed, Zenon DEF Named, LoopSteps
<1>10. CASE ScaleUp
  <2>1. /\ pc = "up" /\ pc' = "capacity" /\ UNCHANGED <<tmpl, run, spec>>
        /\ up' = up \cup {run.broker}
    BY <1>10, Zenon DEF ScaleUp, brokerId
  <2>2. QED
    BY <2>1, KeepNamed, Zenon DEF Named, LoopSteps
<1>11. CASE Reassign \/ ReassignFinished
  <2>1. pc \in {"reassign", "reassigned"} /\ UNCHANGED <<tmpl, up, spec>>
    BY <1>11, Zenon DEF Reassign, ReassignFinished, cluster
  <2>2. AfterReassign \/ (pc' = "brokersUp" /\ run' = run)
    BY <1>11, Zenon DEF Reassign, ReassignFinished
  <2>3. CASE AfterReassign
    <3>1. /\ pc' \in {"scaleIn", "finish"} /\ run'.spec = run.spec
          /\ run'.current = run.current
      BY <2>3, AfterReassignTypes, CurrentKept, Zenon
    <3>2. QED
      BY <2>1, <3>1, MoveNamed, Zenon
  <2>4. CASE pc' = "brokersUp" /\ run' = run
    BY <2>1, <2>4, KeepNamed, Zenon DEF Named, LoopSteps
  <2>5. QED
    BY <2>2, <2>3, <2>4, Zenon
<1>12. CASE MovePartitions
  <2>1. /\ pc = "brokersUp" /\ pc' = "reassigned"
        /\ UNCHANGED <<tmpl, run, spec, up>>
    BY <1>12, Zenon DEF MovePartitions
  <2>2. QED
    BY <2>1, KeepNamed, Zenon DEF Named, LoopSteps
<1>13. CASE ScaleInBroker
  <2>1. /\ pc = "scaleIn" /\ pc' \in {"scaleIn", "finish"}
        /\ UNCHANGED <<tmpl, spec>> /\ up' \subseteq up
        /\ run' = [run EXCEPT !.broker = run.broker + 1]
    BY <1>13, Zenon DEF ScaleInBroker, ScaleToZero, brokerId
  <2>2. run'.spec = run.spec /\ run'.current = run.current
    BY <2>1, Zenon DEF TypeOK, Runs
  <2>3. QED
    BY <2>1, <2>2, Zenon DEF Named, LoopSteps
<1>14. CASE Finish \/ ShrinkForbidden \/ WaitTimeout \/ ApiError \/ Crash
  <2>1. pc' = "idle" /\ UNCHANGED <<tmpl, run, spec, up>>
    BY <1>14, Zenon DEF Finish, ShrinkForbidden, WaitTimeout, ApiError, Crash,
                 ReturnError, cluster
  <2>2. QED
    BY <2>1, KeepNamed, Zenon DEF Named, LoopSteps
<1>15. CASE Kubernetes
  <2>1. UNCHANGED <<tmpl, run, spec, up, pc>>
    BY <1>15, Zenon DEF Kubernetes, Pod, Volume, VolumeResize
  <2>2. QED
    BY <2>1, KeepNamed, Zenon DEF Named
<1>16. CASE UNCHANGED vars
  BY <1>16, KeepNamed, Zenon DEF vars, Named
<1>17. QED
  BY <1>1, <1>2, <1>3, <1>4, <1>5, <1>6, <1>7, <1>8, <1>9, <1>10, <1>11,
     <1>12, <1>13, <1>14, <1>15, <1>16, Zenon DEF Next, Operator

-----------------------------------------------------------------------------
(* Theorems *)

\* Both invariants hold throughout.
LEMMA Invariant == Spec => [](IInv /\ Named)
<1>1. Init => IInv /\ Named
  <2>1. ASSUME Init PROVE Named
    <3>1. \A c \in Brokers : c \in up <=> c <= Initial
      BY <2>1, InitFacts, ScalingAssumption DEF Brokers
    <3>2. \A c \in Brokers : tmpl[c] # 0 <=> c \in up
      BY <2>1, InitFacts
    <3>3. \A c, d \in Brokers : d < c /\ tmpl[c] # 0 => tmpl[d] # 0
      BY <3>1, <3>2, ScalingAssumption DEF Brokers
    <3>4. \A c \in up : c \in Brokers
      BY <2>1, InvariantInit, Zenon DEF IInv, TypeOK
    <3>5. \A c \in up : tmpl[c] # 0
      BY <3>2, <3>4, Zenon
    <3>6. spec.v = 1 /\ run.spec.v = 1 /\ pc = "idle"
      BY <2>1, InitFacts, Zenon
    <3>7. QED
      BY <3>3, <3>5, <3>6 DEF Named, LoopSteps
  <2>2. QED
    BY <2>1, InvariantInit, Zenon
<1>2. IInv /\ Named /\ [Next]_vars => (IInv /\ Named)'
  BY InvariantStep, NamedStep, Zenon DEF IInv
<1>3. QED
  BY <1>1, <1>2, PTL DEF Spec

\* The state of processKafkaReplicas keeps its shape: its broker loops never
\* leave the range of the brokers, whatever errors and crashes interrupt them.
THEOREM ScalingTypes == Spec => []TypeOK
<1>1. IInv => TypeOK
  BY Zenon DEF IInv
<1>2. QED
  BY <1>1, Invariant, PTL

\* At rest, every broker of the spec has its replica and a volume of its size,
\* for every sequence of edits, refused resizes, failed calls and crashes.
THEOREM ScalingCorrect == Spec => []WantedBrokersUp
<1>1. IInv => WantedBrokersUp
  <2>1. SUFFICES ASSUME IInv, Quiet
                 PROVE  \A c \in Wanted(spec) : Done(c, spec)
    BY Zenon DEF WantedBrokersUp, Done
  <2>2. \A c \in Brokers : c <= spec.replicas => Done(c, spec)
    BY <2>1, Zenon DEF IInv, Core, Known
  <2>3. \A c \in Wanted(spec) : c \in Brokers /\ c <= spec.replicas
    BY <2>1, Numbers, ScalingAssumption DEF IInv, Wanted, Brokers
  <2>4. QED
    BY <2>2, <2>3, Zenon
<1>2. QED
  BY <1>1, Invariant, PTL

\* A resize takes a broker down only when all brokers before it are up with
\* volumes of the new size: at most one broker is down for a resize, and none
\* when partitions are reassigned.
THEOREM ResizeCorrect == Spec => []ResizeOneByOne
<1>1. IInv => ResizeOneByOne
  <2>1. ASSUME IInv, pc \in {"down", "deleted", "up"},
               NEW c \in 1..(run.broker - 1)
        PROVE  Done(c, run.spec)
    <3>1. pc \in LoopSteps /\ run.broker \in Brokers
      BY <2>1, NextId, Zenon DEF IInv, LoopSteps
    <3>2. c \in Brokers /\ c < run.broker
      BY <2>1, <3>1, ScalingAssumption DEF Brokers
    <3>3. QED
      BY <2>1, <3>1, <3>2, Zenon DEF IInv, Core, Progress
  <2>2. ASSUME IInv, pc = "reassign", NEW c \in Wanted(run.spec)
        PROVE  Done(c, run.spec)
    <3>1. run.spec.replicas \in Brokers
      BY <2>2, Zenon DEF IInv, Core, TypeOK, Runs, Specs
    <3>2. c \in Brokers /\ c <= run.spec.replicas
      BY <2>2, <3>1, ScalingAssumption DEF Brokers, Wanted
    <3>3. pc \in TailSteps
      BY <2>2, Zenon DEF TailSteps
    <3>4. QED
      BY <2>2, <3>2, <3>3, Zenon DEF IInv, Core, Progress
  <2>3. QED
    BY <2>1, <2>2, Zenon DEF ResizeOneByOne, Done, brokerId, Desired
<1>2. QED
  BY <1>1, Invariant, PTL

\* Scale-in, which derives names of deployments from a count of the running
\* ones, never addresses a deployment that does not exist.
THEOREM ScaleInCorrect == Spec => []ScaleInTargetsExist
<1>1. IInv /\ Named => ScaleInTargetsExist
  <2>1. SUFFICES ASSUME TypeOK, LoopIndex, Named, pc = "scaleIn"
                 PROVE  tmpl[run.broker] # 0
    BY Zenon DEF IInv, ScaleInTargetsExist, brokerId
  <2>2. /\ run.broker <= run.current
        /\ run.broker \in BrokerIds /\ run.current \in Counts
    BY <2>1, Zenon DEF LoopIndex, TypeOK, Runs
  <2>3. run.broker \in Brokers
    BY <2>2, ScalingAssumption DEF BrokerIds, Counts, Brokers
  <2>4. QED
    BY <2>1, <2>2, <2>3, Zenon DEF Named
<1>2. QED
  BY <1>1, Invariant, PTL

-----------------------------------------------------------------------------
(* A scale-in that nothing disturbs *)

\* No call failed, the operator was not restarted, no volume was resized.
Undisturbed ==
    /\ faults = [failures |-> 0, crashes |-> 0]
    /\ \A c \in Brokers : vol[c].request <= 1

\* The running brokers are the first ones, so that their number is their names.
NoGap == \E n \in Counts : up = 1..n

Beyond(n) == {c \in up : c > n}

\* Where a count of the running brokers is in use.
CountedSteps == LoopSteps \cup {"reassign", "brokersUp", "reassigned"}

\* The count misses no broker that has to go, the scale-in passes every one,
\* and afterwards the numbers have no gap for the next count.
Exact ==
    /\ \A c \in Brokers : ~vol[c].pending
    /\ pc \notin {"down", "deleted", "up", "capacity", "resized"}
    /\ pc # "scaleIn" => NoGap
    /\ pc \in CountedSteps =>
          \A c \in Beyond(run.spec.replicas) : c <= run.current
    /\ pc = "scaleIn" =>
          \A c \in Beyond(run.spec.replicas) :
              run.broker <= c /\ c <= run.current
    /\ pc = "finish" /\ ScaleInEnabled => Beyond(run.spec.replicas) = {}
    /\ cache = spec.v /\ ScaleInEnabled => Beyond(spec.replicas) = {}

ExactCount == Undisturbed => Exact

\* A claim only grows, and a volume that is not to be resized has no resize
\* pending.
LEMMA VolumesGrow ==
  ASSUME IInv, [Next]_vars
  PROVE  \A c \in Brokers :
            /\ vol[c].request <= vol'[c].request
            /\ vol'[c].pending => vol[c].pending \/ vol[c].request > 1
<1>1. vol \in [Brokers -> Volumes]
  BY Zenon DEF IInv, TypeOK
<1>2. \A c \in Brokers : vol[c].request \in Nat /\ vol[c].capacity \in Nat
  BY Numbers, Zenon DEF IInv
<1>3. CASE ClaimVolume
  <2>1. /\ vol' = [vol EXCEPT ![run.broker].request = run.spec.size]
        /\ vol[run.broker].request <= run.spec.size /\ pc = "claim"
    BY <1>3, Zenon DEF ClaimVolume, brokerId, Desired
  <2>2. run.broker \in Brokers
    BY <2>1, NextId, Zenon DEF IInv, LoopSteps
  <2>3. /\ vol'[run.broker].request = run.spec.size
        /\ vol'[run.broker].pending = vol[run.broker].pending
        /\ \A c \in Brokers : c # run.broker => vol'[c] = vol[c]
    BY <1>1, <2>1, <2>2, Zenon DEF Volumes
  <2>4. QED
    BY <1>2, <2>1, <2>3
<1>4. CASE Kubernetes
  <2>1. PICK b \in Brokers : Pod(b) \/ Volume(b) \/ VolumeResize(b)
    BY <1>4, Zenon DEF Kubernetes
  <2>2. CASE Pod(b)
    BY <1>2, <2>2 DEF Pod
  <2>3. CASE Volume(b)
    <3>1. \/ vol' = [vol EXCEPT ![b].capacity = vol[b].request]
          \/ /\ vol' = [vol EXCEPT ![b].pending = TRUE]
             /\ vol[b].capacity \in 1..(vol[b].request - 1)
      BY <2>3, Zenon DEF Volume
    <3>2. /\ vol'[b].request = vol[b].request
          /\ \A c \in Brokers : c # b => vol'[c] = vol[c]
          /\ vol'[b].pending => vol[b].pending \/ vol[b].request > 1
      <4>1. CASE vol' = [vol EXCEPT ![b].capacity = vol[b].request]
        BY <1>1, <4>1, Zenon DEF Volumes
      <4>2. CASE /\ vol' = [vol EXCEPT ![b].pending = TRUE]
                 /\ vol[b].capacity \in 1..(vol[b].request - 1)
        <5>1. vol[b].request > 1
          BY <1>2, <4>2
        <5>2. QED
          BY <1>1, <4>2, <5>1, Zenon DEF Volumes
      <4>3. QED
        BY <3>1, <4>1, <4>2, Zenon
    <3>3. QED
      BY <1>2, <3>2
  <2>4. CASE VolumeResize(b)
    <3>1. vol' = [vol EXCEPT ![b].capacity = vol[b].request,
                             ![b].pending = FALSE]
      BY <2>4, Zenon DEF VolumeResize
    <3>2. /\ vol'[b].request = vol[b].request /\ vol'[b].pending = FALSE
          /\ \A c \in Brokers : c # b => vol'[c] = vol[c]
      BY <1>1, <3>1, Zenon DEF Volumes
    <3>3. QED
      BY <1>2, <3>2
  <2>5. QED
    BY <2>1, <2>2, <2>3, <2>4, Zenon
<1>5. CASE UNCHANGED vol
  BY <1>2, <1>5
<1>6. UNCHANGED vol \/ ClaimVolume \/ Kubernetes
  <2> USE DEF cluster
  <2>1. CASE Edit \/ ClaimRefused \/ ApiError \/ Crash
    BY <2>1, Zenon DEF Edit, ClaimRefused, ApiError, ReturnError, Crash
  <2>2. CASE Operator
    BY <2>2, Zenon DEF Operator, Get, CountBrokers, DeployBroker, CheckVolume,
       VolumeGrown, VolumePending, ScaleDown, PodsDeleted, ScaleUp,
       CheckCapacity, BrokerReadyAfterResize, BrokerReady, Reassign,
       MovePartitions, ReassignFinished, ScaleInBroker, Finish,
       ShrinkForbidden, WaitTimeout, ReturnError
  <2>3. CASE UNCHANGED vars
    BY <2>3, Zenon DEF vars
  <2>4. QED
    BY <2>1, <2>2, <2>3, Zenon DEF Next
<1>7. QED
  BY <1>3, <1>4, <1>5, <1>6, Zenon

\* What was undisturbed until now is so without a failed call or a crash in
\* this step.
LEMMA UndisturbedBefore ==
  ASSUME IInv, [Next]_vars, Undisturbed'
  PROVE  Undisturbed /\ ~ClaimRefused /\ ~ApiError /\ ~Crash
<1>1. \A c \in Brokers : vol[c].request <= 1
  <2>1. \A c \in Brokers : vol'[c].request <= 1
    BY Zenon DEF Undisturbed
  <2>2. \A c \in Brokers : vol[c].request \in Nat /\ vol'[c].request \in Nat
    <3>1. TypeOK'
      BY InvariantStep, Zenon DEF IInv
    <3>2. \A c \in Brokers : vol'[c] \in Volumes
      BY <3>1, Zenon DEF TypeOK
    <3>3. QED
      BY <3>2, Numbers, ScalingAssumption DEF IInv, Volumes, Sizes
  <2>3. QED
    BY <2>1, <2>2, VolumesGrow
<1>2. faults \in Faults /\ faults' = [failures |-> 0, crashes |-> 0]
  BY Zenon DEF IInv, TypeOK, Undisturbed
<1>3. /\ faults' # [faults EXCEPT !.failures = @ + 1]
      /\ faults' # [faults EXCEPT !.crashes = @ + 1]
  BY <1>2 DEF Faults
<1>4. ~ClaimRefused /\ ~ApiError /\ ~Crash
  BY <1>3, Zenon DEF ClaimRefused, ApiError, Crash
<1>5. UNCHANGED faults
  <2>1. CASE Edit
    BY <2>1, Zenon DEF Edit
  <2>2. CASE Kubernetes
    BY <2>2, Zenon DEF Kubernetes, Pod, Volume, VolumeResize
  <2>3. CASE Operator
    BY <1>3, <2>3, Zenon DEF Operator, Get, CountBrokers, ClaimVolume, DeployBroker,
       CheckVolume, VolumeGrown, VolumePending, ScaleDown, PodsDeleted,
       ScaleUp, CheckCapacity, BrokerReadyAfterResize, BrokerReady, Reassign,
       MovePartitions, ReassignFinished, ScaleInBroker, Finish,
       ShrinkForbidden, WaitTimeout
  <2>4. CASE UNCHANGED vars
    BY <2>4, Zenon DEF vars
  <2>5. QED
    BY <1>4, <2>1, <2>2, <2>3, <2>4, Zenon DEF Next
<1>6. QED
  BY <1>1, <1>2, <1>4, <1>5, Zenon DEF Undisturbed

\* A count of brokers without a gap is the last of them.
LEMMA CountExact ==
  ASSUME NoGap
  PROVE  \A c \in up : c <= Cardinality(up)
<1>1. PICK n \in Counts : up = 1..n
  BY Zenon DEF NoGap
<1>2. Cardinality(1..n) = n
  BY <1>1, FS_Interval, ScalingAssumption DEF Counts
<1>3. QED
  BY <1>1, <1>2, ScalingAssumption DEF Counts

\* A step that leaves the deployments and the count alone.
LEMMA KeepExact ==
  ASSUME Exact, pc # "scaleIn", UNCHANGED <<up, spec, cache>>,
         \A c \in Brokers : ~vol'[c].pending,
         pc' \notin {"down", "deleted", "up", "capacity", "resized"},
         pc' \notin {"scaleIn", "finish"},
         pc' \in CountedSteps =>
             /\ pc \in CountedSteps
             /\ run'.spec = run.spec /\ run'.current = run.current
  PROVE  Exact'
BY Zenon DEF Exact, NoGap, Beyond

\* AfterVolume keeps what the cycle knows of the brokers.
LEMMA VolumeExact ==
  ASSUME IInv, Exact, pc \in {"resize", "resizeState", "wait"},
         AfterVolume \/ NextBroker, UNCHANGED <<up, spec, cache>>,
         \A c \in Brokers : ~vol'[c].pending
  PROVE  Exact'
<1>1. pc \in LoopSteps /\ pc \in CountedSteps
  BY Zenon DEF LoopSteps, CountedSteps
<1>2. /\ pc' \in {"wait", "claim", "reassign"} /\ run'.spec = run.spec
      /\ run' = run \/ NextBroker
  BY <1>1, AfterVolumeTypes, NextBrokerTypes, Zenon DEF IInv
<1>3. run'.current = run.current
  BY <1>2, CurrentKept, Zenon DEF IInv
<1>4. QED
  BY <1>1, <1>2, <1>3, KeepExact, Zenon

\* After the reassignment the brokers that have to go are passed one by one, or
\* there are none.
LEMMA ReassignExact ==
  ASSUME IInv, Exact, pc \in {"reassign", "reassigned"}, AfterReassign,
         UNCHANGED <<up, spec, cache>>,
         \A c \in Brokers : ~vol'[c].pending
  PROVE  Exact'
<1>1. /\ pc' \in {"scaleIn", "finish"} /\ run'.spec = run.spec
      /\ pc' = "scaleIn" => run'.broker = run.spec.replicas + 1
  BY AfterReassignTypes, Zenon DEF IInv
<1>2. run'.current = run.current
  BY CurrentKept, Zenon DEF IInv
<1>3. \A c \in Beyond(run.spec.replicas) : c <= run.current
  BY Zenon DEF Exact, CountedSteps
<1>4. /\ run.spec.replicas \in Nat /\ run.current \in Nat
      /\ \A c \in up : c \in Nat
  <2>1. run.spec.replicas \in Brokers /\ run.current \in Nat /\ up \subseteq Brokers
    BY Numbers, Zenon DEF IInv, TypeOK
  <2>2. QED
    BY <2>1, ScalingAssumption DEF Brokers
<1>5. CASE pc' = "scaleIn"
  <2>1. \A c \in Beyond(run.spec.replicas) : run'.broker <= c
    BY <1>1, <1>4, <1>5 DEF Beyond
  <2>2. QED
    BY <1>1, <1>2, <1>3, <1>5, <2>1, Zenon
    DEF Exact, Beyond, CountedSteps, LoopSteps
<1>6. CASE pc' = "finish"
  <2>1. ScaleInEnabled => ~(run.current > run.spec.replicas)
    BY <1>4, <1>6 DEF AfterReassign, ClusterScaling
  <2>2. ScaleInEnabled => Beyond(run.spec.replicas) = {}
    BY <1>3, <1>4, <2>1 DEF Beyond
  <2>3. QED
    BY <1>1, <1>6, <2>2, Zenon DEF Exact, NoGap, Beyond, CountedSteps, LoopSteps
<1>7. QED
  BY <1>1, <1>5, <1>6, Zenon

\* A broker that gets its deployment closes no gap and opens none: those
\* before it are running.
LEMMA DeployExact ==
  ASSUME IInv, Exact, DeployBroker, \A c \in Brokers : ~vol'[c].pending
  PROVE  Exact'
<1>1. /\ pc = "deploy" /\ pc' = "resize" /\ up' = up \cup {run.broker}
      /\ UNCHANGED <<run, spec, cache>>
  BY Zenon DEF DeployBroker, brokerId
<1>2. run.broker \in Brokers /\ run.broker <= run.spec.replicas
  BY <1>1, NextId, Zenon DEF IInv, LoopIndex, LoopSteps
<1>3. \A c \in Brokers : c < run.broker => c \in up
  BY <1>1, Zenon DEF IInv, Core, Progress, LoopSteps, Done
<1>4. PICK n \in Counts : up = 1..n
  BY <1>1, Zenon DEF Exact, NoGap
<1>5. NoGap'
  <2>1. CASE run.broker <= n
    <3>1. up' = 1..n
      BY <1>1, <1>2, <1>4, <2>1, ScalingAssumption DEF Counts, Brokers
    <3>2. QED
      BY <1>4, <3>1, Zenon DEF NoGap
  <2>2. CASE run.broker > n
    <3>1. up' = 1..run.broker
      <4>1. n \in Nat /\ run.broker \in Nat /\ run.broker <= MaxBrokers /\ MaxBrokers \in Nat
        BY <1>2, <1>4, ScalingAssumption DEF Counts, Brokers
      <4>2. n + 1 < run.broker => n + 1 \in Brokers /\ n + 1 \notin 1..n
        BY <4>1 DEF Brokers
      <4>3. run.broker = n + 1
        BY <1>3, <1>4, <2>2, <4>1, <4>2
      <4>4. QED
        BY <1>1, <1>4, <4>1, <4>3
    <3>2. run.broker \in Counts
      BY <1>2, ScalingAssumption DEF Counts, Brokers
    <3>3. QED
      BY <3>1, <3>2, Zenon DEF NoGap
  <2>3. QED
    BY <1>2, <1>4, <2>1, <2>2, ScalingAssumption DEF Counts, Brokers
<1>6. Beyond(run.spec.replicas)' = Beyond(run.spec.replicas)
  BY <1>1, <1>2, Numbers, ScalingAssumption DEF IInv, Beyond, Brokers
<1>7. cache < spec.v
  BY <1>1, Numbers DEF IInv, Core, Order, Running
<1>8. QED
  BY <1>1, <1>5, <1>6, <1>7, Numbers DEF IInv, Exact, CountedSteps, LoopSteps

\* The last broker of the scale-in leaves the ones of the spec.
LEMMA ScaleInExact ==
  ASSUME IInv, Exact, ScaleInBroker, \A c \in Brokers : ~vol'[c].pending
  PROVE  Exact'
<1>1. /\ pc = "scaleIn" /\ up' = up \ {run.broker}
      /\ run' = [run EXCEPT !.broker = run.broker + 1]
      /\ pc' = IF run.broker < run.current THEN "scaleIn" ELSE "finish"
      /\ UNCHANGED <<spec, cache>>
  BY Zenon DEF ScaleInBroker, ScaleToZero, brokerId
<1>2. /\ run'.spec = run.spec /\ run'.current = run.current
      /\ run'.broker = run.broker + 1
  BY <1>1, Zenon DEF IInv, TypeOK, Runs
<1>3. /\ run.spec.replicas \in Brokers /\ run.current \in Nat
      /\ run.broker \in Nat /\ \A c \in up : c \in Brokers
      /\ run.spec.replicas < run.broker
  BY <1>1, Numbers, Zenon DEF IInv, TypeOK, LoopIndex
<1>4. \A c \in up' : c > run.spec.replicas =>
          run.broker + 1 <= c /\ c <= run.current
  BY <1>1, <1>3, ScalingAssumption DEF Exact, Beyond, Brokers
<1>5. cache # spec.v
  BY <1>1, Numbers DEF IInv, Core, Order, Running
<1>6. CASE run.broker < run.current
  BY <1>1, <1>2, <1>4, <1>5, <1>6, Zenon DEF Exact, Beyond, CountedSteps, LoopSteps
<1>7. CASE ~(run.broker < run.current)
  <2>1. pc' = "finish" /\ \A c \in up' : ~(c > run.spec.replicas)
    BY <1>1, <1>3, <1>4, <1>7, ScalingAssumption DEF Brokers
  <2>2. \A c \in Brokers : c <= run.spec.replicas => c \in up'
    <3>1. \A c \in Brokers : c <= run.spec.replicas => c \in up
      BY <1>1, Zenon DEF IInv, Core, Progress, TailSteps, Done
    <3>2. QED
      BY <1>1, <1>3, <3>1, ScalingAssumption DEF Brokers
  <2>3. up' = 1..run.spec.replicas
    BY <1>1, <1>3, <2>1, <2>2, ScalingAssumption DEF Brokers
  <2>4. NoGap'
    BY <1>3, <2>3, ScalingAssumption DEF NoGap, Counts, Brokers
  <2>5. QED
    BY <1>1, <1>2, <1>5, <2>1, <2>4, Zenon DEF Exact, Beyond, CountedSteps, LoopSteps
<1>8. QED
  BY <1>6, <1>7, Zenon

\* Every step keeps ExactCount.
LEMMA ExactStep ==
  ASSUME IInv, ExactCount, [Next]_vars
  PROVE  ExactCount'
<1>1. SUFFICES ASSUME Undisturbed' PROVE Exact'
  BY Zenon DEF ExactCount
<1>2. Undisturbed /\ Exact /\ ~ClaimRefused /\ ~ApiError /\ ~Crash
  BY <1>1, UndisturbedBefore, Zenon DEF ExactCount
<1>3. \A c \in Brokers : ~vol'[c].pending
  <2>1. \A c \in Brokers : ~vol[c].pending /\ ~(vol[c].request > 1)
    BY <1>2, Numbers DEF IInv, Undisturbed, Exact
  <2>2. QED
    BY <2>1, VolumesGrow, Zenon
<1>4. CASE Edit
  <2>1. spec'.v = spec.v + 1 /\ UNCHANGED <<up, pc, run, cache>>
    BY <1>4 DEF Edit, cluster
  <2>2. cache' # spec'.v
    BY <2>1, Numbers DEF IInv, Core, Order
  <2>3. QED
    BY <1>2, <1>3, <2>1, <2>2, Zenon DEF Exact, NoGap, Beyond
<1>5. CASE Get
  <2>1. /\ pc = "idle" /\ pc' \in {"idle", "count"}
        /\ UNCHANGED <<up, spec, cache>>
    BY <1>5, Zenon DEF Get, cluster
  <2>2. QED
    BY <1>2, <1>3, <2>1, KeepExact, Zenon DEF CountedSteps, LoopSteps
<1>6. CASE CountBrokers
  <2>1. /\ pc = "count" /\ pc' = "claim" /\ UNCHANGED <<up, spec, cache>>
        /\ run' = [run EXCEPT !.current = Cardinality(up)]
    BY <1>6, Zenon DEF CountBrokers, cluster
  <2>2. run'.spec = run.spec /\ run'.current = Cardinality(up)
    BY <2>1, Zenon DEF IInv, TypeOK, Runs
  <2>3. \A c \in up : c <= run'.current
    BY <1>2, <2>1, <2>2, CountExact, Zenon DEF Exact
  <2>4. QED
    BY <1>2, <1>3, <2>1, <2>2, <2>3, Zenon DEF Exact, NoGap, Beyond
<1>7. CASE ClaimVolume \/ MovePartitions
  <2>1. /\ pc \in {"claim", "brokersUp"} /\ pc' \in {"deploy", "reassigned"}
        /\ UNCHANGED <<up, spec, cache, run>>
    BY <1>7, Zenon DEF ClaimVolume, MovePartitions
  <2>2. QED
    BY <1>2, <1>3, <2>1, KeepExact, Zenon DEF CountedSteps, LoopSteps
<1>8. CASE CheckVolume \/ VolumeGrown \/ BrokerReady
  <2>1. /\ pc \in {"resize", "resizeState", "wait"}
        /\ UNCHANGED <<up, spec, cache>>
        /\ \/ AfterVolume \/ NextBroker
           \/ pc' = "resizeState" /\ run' = run
    BY <1>8, Zenon DEF CheckVolume, VolumeGrown, BrokerReady, cluster
  <2>2. CASE AfterVolume \/ NextBroker
    BY <1>2, <1>3, <2>1, <2>2, VolumeExact, Zenon
  <2>3. CASE pc' = "resizeState" /\ run' = run
    BY <1>2, <1>3, <2>1, <2>3, KeepExact, Zenon DEF CountedSteps, LoopSteps
  <2>4. QED
    BY <2>1, <2>2, <2>3, Zenon
<1>9. CASE \/ VolumePending \/ ScaleDown \/ PodsDeleted \/ ScaleUp
           \/ CheckCapacity \/ BrokerReadyAfterResize
  <2>1. ~VolumePending
    <3>1. pc = "resizeState" => run.broker \in Brokers
      BY NextId, Zenon DEF IInv, LoopSteps
    <3>2. QED
      BY <1>2, <3>1, Zenon DEF VolumePending, Exact, brokerId
  <2>2. QED
    BY <1>2, <1>9, <2>1, Zenon
    DEF Exact, ScaleDown, PodsDeleted, ScaleUp, CheckCapacity,
        BrokerReadyAfterResize
<1>10. CASE Reassign \/ ReassignFinished
  <2>1. /\ pc \in {"reassign", "reassigned"} /\ UNCHANGED <<up, spec, cache>>
        /\ AfterReassign \/ (pc' = "brokersUp" /\ run' = run)
    BY <1>10, Zenon DEF Reassign, ReassignFinished, cluster
  <2>2. CASE AfterReassign
    BY <1>2, <1>3, <2>1, <2>2, ReassignExact, Zenon
  <2>3. CASE pc' = "brokersUp" /\ run' = run
    BY <1>2, <1>3, <2>1, <2>3, KeepExact, Zenon DEF CountedSteps
  <2>4. QED
    BY <2>1, <2>2, <2>3, Zenon
<1>11. CASE Finish
  <2>1. /\ pc = "finish" /\ pc' = "idle" /\ UNCHANGED <<up, spec, run>>
        /\ cache' = run.spec.v
    BY <1>11, Zenon DEF Finish, cluster
  <2>2. cache' = spec'.v => run.spec = spec
    BY <2>1, Zenon DEF IInv, Core, Order
  <2>3. QED
    BY <1>2, <1>3, <2>1, <2>2, Zenon DEF Exact, NoGap, Beyond, CountedSteps, LoopSteps
<1>12. CASE ShrinkForbidden \/ WaitTimeout
  <2>1. pc # "scaleIn" /\ pc' = "idle" /\ UNCHANGED <<up, spec, cache>>
    BY <1>12, Zenon DEF ShrinkForbidden, WaitTimeout, ReturnError, cluster
  <2>2. QED
    BY <1>2, <1>3, <2>1, KeepExact, Zenon DEF CountedSteps, LoopSteps
<1>13. CASE Kubernetes \/ UNCHANGED vars
  <2>1. UNCHANGED <<up, spec, cache, pc, run>>
    BY <1>13, Zenon DEF Kubernetes, Pod, Volume, VolumeResize, vars
  <2>2. /\ NoGap' = NoGap /\ (Beyond(run.spec.replicas))' = Beyond(run.spec.replicas)
        /\ (Beyond(spec.replicas))' = Beyond(spec.replicas)
    BY <2>1, Zenon DEF NoGap, Beyond
  <2>3. QED
    BY <1>2, <1>3, <2>1, <2>2, Zenon DEF Exact
<1>14. QED
  BY <1>2, <1>3, <1>4, <1>5, <1>6, <1>7, <1>8, <1>9, <1>10, <1>11, <1>12,
     <1>13, DeployExact, ScaleInExact, Zenon DEF Next, Operator

\* The count of deployments is exact in every reachable state that is undisturbed.
LEMMA ExactInvariant == Spec => []ExactCount
<1>1. ASSUME Init PROVE Exact
  <2>1. \A c \in Brokers : vol[c].pending = FALSE
    BY <1>1, Zenon DEF Init
  <2>2. /\ up = 1..Initial /\ spec.replicas = Initial /\ pc = "idle"
    BY <1>1, InitFacts, Zenon
  <2>3. NoGap /\ Beyond(spec.replicas) = {}
    BY <2>2, ScalingAssumption DEF NoGap, Beyond, Counts
  <2>4. QED
    BY <2>1, <2>2, <2>3, Zenon DEF Exact, CountedSteps, LoopSteps
<1>2. Init => ExactCount
  BY <1>1, Zenon DEF ExactCount
<1>3. IInv /\ ExactCount /\ [Next]_vars => ExactCount'
  BY ExactStep, Zenon
<1>4. QED
  BY <1>2, <1>3, Invariant, PTL DEF Spec

\* As long as no call fails, the operator is not restarted and no volume is
\* resized, performBrokerScalingIn leaves no broker beyond the replicas running
\* at rest, although it takes a count for the names of the brokers: for every
\* number of brokers and edits, with timeouts and edits at any time.
THEOREM ScaleInCompleteThm == Spec => []ScaleInComplete
<1>1. IInv /\ ExactCount => ScaleInComplete
  <2>1. SUFFICES ASSUME IInv, ExactCount, Undisturbed, Quiet, ScaleInEnabled
                 PROVE  up \subseteq Wanted(spec)
    BY Zenon DEF ScaleInComplete, ExcessBrokersDown, Undisturbed
  <2>2. cache = spec.v
    BY <2>1, Zenon DEF IInv, Core, Known
  <2>3. Beyond(spec.replicas) = {}
    BY <2>1, <2>2, Zenon DEF ExactCount, Exact
  <2>4. up \subseteq Brokers /\ spec.replicas \in Nat
    <3>1. up \subseteq Brokers /\ spec.replicas \in Brokers
      BY <2>1, Numbers, Zenon DEF IInv, TypeOK
    <3>2. QED
      BY <3>1, ScalingAssumption DEF Brokers
  <2>5. ASSUME NEW c \in up PROVE c \in Wanted(spec)
    <3>1. c \in Brokers /\ ~(c > spec.replicas)
      BY <2>3, <2>4, Zenon DEF Beyond
    <3>2. QED
      BY <2>4, <3>1, ScalingAssumption DEF Wanted, Brokers
  <2>6. QED
    BY <2>5, Zenon
<1>2. QED
  BY <1>1, Invariant, ExactInvariant, PTL

=============================================================================
