----------------------- MODULE KafkaReconcileProofs -----------------------
(* Proofs about module KafkaReconcile, for every number of brokers and every *)
(* bound on edits and faults.                                                *)
EXTENDS KafkaReconcile, TLAPS

(* The inductive invariant.  Without reverts the specs only move forward, so *)
(* "stale" and "current" are comparisons of version numbers.                 *)

Running == pc # "idle"

\* The steps of a cycle whose outer part has cleared the conditions.
InCycle == Steps \ {"idle", "clear"}

\* The steps after the rollout, or after the decision that none is needed.
RolledOut == {"waitAll", "kstatus", "services", "pvc", "checking", "health",
              "poll", "verdict"}

\* The broker loop is at a broker of the spec while it runs.
LoopIndex ==
    /\ pc \in {"rollout", "wait"} => run.broker \in Brokers
    /\ pc \in {"clear", "begin", "watch", "sync", "exec"} => run.broker = 1

\* Nothing was generated from a spec newer than the one last read ...
SpecOrder ==
    /\ run.spec <= spec
    /\ \A b \in Brokers : /\ deploy[b].spec <= spec
                          /\ Running => deploy[b].spec <= run.spec

\* ... and no deployment is older than the spec whose hash is cached.
CacheOrder ==
    /\ Running => cache.spec <= run.spec
    /\ \A b \in Brokers : cache.spec <= deploy[b].spec

\* How far the broker loop of the current cycle has come.
Progress ==
    /\ LoopIndex
    /\ pc \in {"rollout", "wait"} =>
          \A b \in Brokers : b < run.broker => deploy[b].spec = run.spec
    /\ pc = "wait" => deploy[run.broker].spec = run.spec
    /\ pc \in RolledOut => \A b \in Brokers : deploy[b].spec = run.spec

\* A cycle that the outer Reconcile takes for unchanged runs on the cached
\* spec; one that it takes for changed has withdrawn Successful.
ChangedFlag ==
    /\ Running /\ ~run.changed => cache.spec = run.spec
    /\ pc \in InCycle /\ run.changed => cond["cycle"] # "Successful"

\* An edit that the current cycle has not read is waiting in the queue.
NotMissed == Running /\ ~queued => run.spec = spec

Core ==
    /\ SpecOrder /\ CacheOrder /\ Progress /\ ChangedFlag /\ NotMissed
    /\ SuccessMeansUniform /\ BrokersFollowSpec

IInv == TypeOK /\ Core

-----------------------------------------------------------------------------
(* Typing *)

\* Every step of Reconcile, of the user and of the pods keeps the types.
LEMMA Typing ==
  ASSUME TypeOK, LoopIndex, Next
  PROVE  TypeOK'
<1> USE NAssumption, BoundAssumption DEF TypeOK
<1>1. CASE EditSpec
  BY <1>1 DEF EditSpec
<1>2. CASE EditAnnotations
  BY <1>2 DEF EditAnnotations
<1>3. ASSUME NEW us \in SUBSET Users, EditSecret(us) PROVE TypeOK'
  BY <1>3 DEF EditSecret, Secrets
<1>4. CASE Get
  <2>1. 1 \in BrokerIds
    BY <1>4 DEF BrokerIds
  <2>2. NoRun \in Runs
    BY <1>4, <2>1, Zenon DEF NoRun, Runs, Secrets
  <2>3. run' \in Runs
    BY <1>4, <2>2, Zenon DEF Get, Runs
  <2>4. QED
    BY <1>4, <2>3, Zenon DEF Get, Steps
<1>5. CASE ClearAllConditions
  BY <1>5, Zenon DEF ClearAllConditions, SetConditions, Steps, Reasons, Types
<1>6. CASE BeginCycle
  BY <1>6, Zenon DEF BeginCycle, SetCondition, SetConditions, Steps, Reasons, Types
<1>7. CASE WatchSecret
  BY <1>7, Zenon DEF WatchSecret, Unnoticed, Steps, Runs
<1>8. ASSUME NEW b \in Brokers, PickPod(b) PROVE TypeOK'
  <2>1. {u \in Users : Changed(u)} \in SUBSET Users
    BY <1>8, Zenon
  <2>2. run' \in Runs
    BY <1>8, <2>1, Zenon DEF PickPod, Runs
  <2>3. QED
    BY <1>8, <2>2, Zenon DEF PickPod, Steps
<1>9. CASE SkipSync
  BY <1>9, Zenon DEF SkipSync, Steps
<1>10. CASE Exec
  BY <1>10, Zenon DEF Exec, NextUser, Steps, Users, Runs, Secrets
<1>11. CASE ExecRejected
  BY <1>11, Zenon DEF ExecRejected, ReturnError, Steps, Reasons, Types
<1>12. CASE RolloutBroker
  <2>1. Template \in Templates
    BY <1>12, Zenon DEF Template, Templates, Runs, Secrets
  <2>2. run.broker \in Brokers
    BY <1>12, Zenon DEF RolloutBroker, LoopIndex
  <2>3. run.broker + 1 \in BrokerIds
    BY <1>12, <2>2 DEF Brokers, BrokerIds
  <2>4. run' \in Runs
    BY <1>12, <2>3, Zenon DEF RolloutBroker, Runs
  <2>5. pc' \in Steps
    BY <1>12, Zenon DEF RolloutBroker, AfterBroker, Steps
  <2>6. deploy' \in [Brokers -> Templates]
    BY <1>12, <2>1, Zenon DEF RolloutBroker
  <2>7. pod' \in [Brokers -> Pods]
    BY <1>12, <2>2, Zenon DEF RolloutBroker, Pods
  <2>8. QED
    BY <1>12, <2>4, <2>5, <2>6, <2>7, Zenon DEF RolloutBroker
<1>13. CASE BrokerReady
  <2>1. run.broker \in Brokers
    BY <1>13, Zenon DEF BrokerReady, LoopIndex
  <2>2. run.broker + 1 \in BrokerIds
    BY <1>13, <2>1 DEF Brokers, BrokerIds
  <2>3. run' \in Runs
    BY <1>13, <2>2, Zenon DEF BrokerReady, Runs
  <2>4. QED
    BY <1>13, <2>3, Zenon DEF BrokerReady, AfterBroker, Steps
<1>14. CASE AllBrokersReady
  BY <1>14, Zenon DEF AllBrokersReady, Steps
<1>15. CASE WaitTimeout
  BY <1>15, Zenon DEF WaitTimeout, ReturnError, Steps, Reasons, Types
<1>16. CASE UpdateKafkaStatus
  BY <1>16, Zenon DEF UpdateKafkaStatus, Steps
<1>17. CASE FinishKafka
  BY <1>17, Zenon DEF FinishKafka, Steps, Runs, Secrets, Caches
<1>18. CASE UpdatePvcStatus
  BY <1>18, Zenon DEF UpdatePvcStatus, Steps, Runs, Caches
<1>19. CASE CheckReadiness
  BY <1>19, Zenon DEF CheckReadiness, SetCondition, SetConditions, Steps, Reasons, Types
<1>20. CASE StartHealthCheck
  BY <1>20, Zenon DEF StartHealthCheck, SetCondition, SetConditions, Steps, Reasons, Types
<1>21. CASE PollPods
  BY <1>21, Zenon DEF PollPods, SetCondition, SetConditions, Steps, Reasons, Types
<1>22. CASE Verdict
  BY <1>22, Zenon DEF Verdict, SetCondition, SetConditions, Steps, Runs, Caches, Reasons, Types
<1>23. CASE ApiError
  BY <1>23 DEF ApiError, ReturnError, Steps, Faults, Reasons, Types
<1>24. CASE ExecErrorAfterEffect
  BY <1>24 DEF ExecErrorAfterEffect, ReturnError, NextUser, Steps, Users, Runs, Secrets, Faults, Reasons, Types
<1>25. CASE Crash
  <2>1. 1 \in BrokerIds
    BY <1>25 DEF BrokerIds
  <2>2. NoRun \in Runs
    BY <1>25, <2>1, Zenon DEF NoRun, Runs, Secrets
  <2>3. EmptyCache \in Caches
    BY <1>25, Zenon DEF EmptyCache, Caches
  <2>4. QED
    BY <1>25, <2>2, <2>3 DEF Crash, Steps, Faults
<1>26. ASSUME NEW b \in Brokers, PodLost(b) PROVE TypeOK'
  <2>1. run' \in Runs
    BY <1>26, Zenon DEF PodLost, Runs
  <2>2. pod' \in [Brokers -> Pods]
    BY <1>26, Zenon DEF PodLost, Pods
  <2>3. QED
    BY <1>26, <2>1, <2>2 DEF PodLost, Faults
<1>27. ASSUME NEW b \in Brokers, PodStart(b) PROVE TypeOK'
  BY <1>27, Zenon DEF PodStart, Secrets, Users, Pods
<1>28. ASSUME NEW b \in Brokers, PodReady(b) PROVE TypeOK'
  BY <1>28, Zenon DEF PodReady, Pods
<1>29. ASSUME NEW b \in Brokers, ProbeFails(b) PROVE TypeOK'
  BY <1>29, Zenon DEF ProbeFails, Pods
<1>30. QED
  BY <1>1, <1>2, <1>3, <1>4, <1>5, <1>6, <1>7, <1>8, <1>9, <1>10, <1>11,
     <1>12, <1>13, <1>14, <1>15, <1>16, <1>17, <1>18, <1>19, <1>20, <1>21,
     <1>22, <1>23, <1>24, <1>25, <1>26, <1>27, <1>28, <1>29, Zenon
  DEF Next, User, Operator, Fault, Kubelet

-----------------------------------------------------------------------------
(* The inductive step *)

\* Core does not depend on the other variables, and holds with one more
\* request in the queue.
LEMMA Frame ==
  ASSUME Core, UNCHANGED <<spec, cond, deploy, cache, pc>>, ~queued' => ~queued,
         run'.spec = run.spec, run'.changed = run.changed,
         run'.broker = run.broker
  PROVE  Core'
BY DEF Core, SpecOrder, CacheOrder, Progress, LoopIndex, ChangedFlag, NotMissed,
     SuccessMeansUniform, BrokersFollowSpec, Quiet, Running, InCycle,
     RolledOut

\* A cycle may end with an error at any of its steps.
LEMMA Errors ==
  ASSUME TypeOK, Core, ReturnError, UNCHANGED <<spec, deploy, cache, run>>
  PROVE  Core'
<1>1. cond'["cycle"] \in {cond["cycle"], "Failed"}
  BY Zenon DEF ReturnError, TypeOK, Reasons
<1>2. pc' = "idle" /\ queued'
  BY Zenon DEF ReturnError
<1>3. QED
  BY <1>1, <1>2, Zenon DEF Core, SpecOrder, CacheOrder, Progress, LoopIndex, ChangedFlag, NotMissed,
     SuccessMeansUniform, BrokersFollowSpec, Quiet, Running, InCycle,
     RolledOut

\* What the step lemmas need of the types.
LEMMA Numbers ==
  ASSUME TypeOK
  PROVE  /\ spec \in Nat /\ run.spec \in Nat /\ cache.spec \in Nat
         /\ run.broker \in Nat /\ run.changed \in BOOLEAN
         /\ \A b \in Brokers : deploy[b].spec \in Nat
BY NAssumption DEF TypeOK, Runs, Caches, Templates, BrokerIds

\* An edit of the spec queues a request, so the cycle that runs may end.
LEMMA EditStep ==
  ASSUME ~Reverts, TypeOK, Core, EditSpec
  PROVE  Core'
<1>1. /\ spec' = spec + 1 /\ queued'
      /\ UNCHANGED <<cond, deploy, cache, pc, run>>
  BY Zenon DEF EditSpec
<1>2. SpecOrder'
  BY <1>1, Numbers DEF Core, SpecOrder, Running
<1>3. QED
  BY <1>1, <1>2, Zenon
  DEF Core, CacheOrder, Progress, LoopIndex, ChangedFlag, NotMissed, InCycle,
      SuccessMeansUniform, BrokersFollowSpec, Quiet, Running, RolledOut

\* clearAllConditions withdraws Successful before a broker is touched.
LEMMA ClearStep ==
  ASSUME TypeOK, Core, ClearAllConditions
  PROVE  Core'
<1>1. cond'["cycle"] = "none"
  BY Zenon DEF ClearAllConditions, SetConditions, Reasons
<1>2. /\ pc = "clear" /\ pc' = "begin"
      /\ UNCHANGED <<spec, deploy, cache, run>>
  BY Zenon DEF ClearAllConditions
<1>3. ~queued' => ~queued
  BY Zenon DEF ClearAllConditions, SetConditions
<1>4. ChangedFlag'
  BY <1>1, <1>2, Zenon DEF Core, ChangedFlag, Running
<1>5. SuccessMeansUniform'
  BY <1>1, Zenon DEF SuccessMeansUniform
<1>6. QED
  BY <1>2, <1>3, <1>4, <1>5, Zenon
  DEF Core, SpecOrder, CacheOrder, Progress, LoopIndex, NotMissed, BrokersFollowSpec,
      Quiet, Running, RolledOut

\* After broker b the loop is at b + 1, or all brokers are done.
LEMMA LoopStep ==
  ASSUME NEW b \in Brokers, pc' = AfterBroker(b), run'.broker = b + 1,
         run'.spec = run.spec,
         \A c \in Brokers : c < b + 1 => deploy'[c].spec = run.spec
  PROVE  Progress' /\ pc' \in {"rollout", "waitAll", "kstatus"}
<1>1. CASE b < N
  <2>1. pc' = "rollout" /\ b + 1 \in Brokers
    BY <1>1, NAssumption DEF AfterBroker, Brokers
  <2>2. QED
    BY <2>1, Zenon DEF Progress, LoopIndex, RolledOut
<1>2. CASE ~(b < N)
  <2>1. /\ pc' \in {"waitAll", "kstatus"}
        /\ \A c \in Brokers : c < b + 1
    BY <1>2, NAssumption DEF AfterBroker, Brokers
  <2>2. QED
    BY <2>1, Zenon DEF Progress, LoopIndex, RolledOut
<1>3. QED
  BY <1>1, <1>2, Zenon

\* rolloutBroker brings one more deployment to the spec the cycle read.
LEMMA RolloutStep ==
  ASSUME TypeOK, Core, RolloutBroker
  PROVE  Core'
<1> DEFINE b == run.broker
<1>1. /\ pc = "rollout" /\ b \in Brokers
      /\ UNCHANGED <<spec, cond, cache, queued>>
      /\ deploy' = [deploy EXCEPT ![b] = Template]
  BY Zenon DEF RolloutBroker, Core, Progress, LoopIndex
<1>2. /\ deploy'[b].spec = run.spec
      /\ \A c \in Brokers : c # b => deploy'[c].spec = deploy[c].spec
  BY <1>1, Zenon DEF Template, TypeOK
<1>3. \/ pc' = "wait" /\ run' = run
      \/ pc' = AfterBroker(b) /\ run' = [run EXCEPT !.broker = b + 1]
  BY Zenon DEF RolloutBroker
<1>4. /\ run'.spec = run.spec /\ run'.changed = run.changed
      /\ pc' = AfterBroker(b) => run'.broker = b + 1
  BY <1>3, Zenon DEF TypeOK, Runs, AfterBroker
<1>5. \A c \in Brokers : c < b + 1 => deploy'[c].spec = run.spec
  BY <1>1, <1>2, Numbers DEF Core, Progress, LoopIndex, Brokers
<1>6. Progress' /\ pc' \in {"wait", "rollout", "waitAll", "kstatus"}
  <2>1. CASE pc' = "wait" /\ run' = run
    BY <1>1, <1>2, <2>1, Zenon DEF Core, Progress, LoopIndex, RolledOut
  <2>2. CASE pc' = AfterBroker(b) /\ run' = [run EXCEPT !.broker = b + 1]
    BY <1>1, <1>4, <1>5, <2>2, LoopStep, Zenon
  <2>3. QED
    BY <1>3, <2>1, <2>2, Zenon
<1>7. SpecOrder'
  BY <1>1, <1>2, <1>4, <1>6, Numbers DEF Core, SpecOrder, Running
<1>8. CacheOrder'
  BY <1>1, <1>2, <1>4, <1>6, Numbers, Zenon DEF Core, CacheOrder, Running
<1>9. ChangedFlag' /\ NotMissed' /\ BrokersFollowSpec'
  BY <1>1, <1>4, <1>6, Zenon
  DEF Core, ChangedFlag, NotMissed, BrokersFollowSpec, Quiet, Running,
      InCycle, Steps
<1>10. SuccessMeansUniform'
  <2>1. CASE run.changed
    BY <1>1, <2>1, Zenon DEF Core, ChangedFlag, InCycle, Steps, SuccessMeansUniform
  <2>2. CASE ~run.changed
    <3>1. cache.spec = run.spec
      BY <1>1, <2>2, Zenon DEF Core, ChangedFlag, Running
    <3>2. \A c \in Brokers : deploy[c].spec = run.spec
      BY <1>1, <3>1, Numbers DEF Core, SpecOrder, CacheOrder, Running
    <3>3. \A c \in Brokers : deploy'[c].spec = run.spec
      BY <1>2, <3>2, Zenon
    <3>4. QED
      BY <3>3, Zenon DEF SuccessMeansUniform
  <2>3. QED
    BY <2>1, <2>2, Numbers, Zenon
<1>11. QED
  BY <1>6, <1>7, <1>8, <1>9, <1>10, Zenon DEF Core

\* waitUntilBrokerIsReady moves the loop to the next broker.
LEMMA ReadyStep ==
  ASSUME TypeOK, Core, BrokerReady
  PROVE  Core'
<1> DEFINE b == run.broker
<1>1. /\ pc = "wait" /\ b \in Brokers /\ pc' = AfterBroker(b)
      /\ UNCHANGED <<spec, cond, deploy, cache, queued>>
  BY Zenon DEF BrokerReady, Core, Progress, LoopIndex
<1>2. /\ run'.spec = run.spec /\ run'.changed = run.changed
      /\ run'.broker = b + 1
  BY Zenon DEF BrokerReady, TypeOK, Runs
<1>3. \A c \in Brokers : c < b + 1 => deploy'[c].spec = run.spec
  BY <1>1, Numbers DEF Core, Progress, LoopIndex, Brokers
<1>4. Progress' /\ pc' \in {"rollout", "waitAll", "kstatus"}
  BY <1>1, <1>2, <1>3, LoopStep, Zenon
<1>5. QED
  BY <1>1, <1>2, <1>4, Zenon
  DEF Core, SpecOrder, CacheOrder, ChangedFlag, NotMissed, InCycle, Steps,
      SuccessMeansUniform, BrokersFollowSpec, Quiet, Running

\* The steps before the rollout hand the spec they read to the next one.
LEMMA AdvanceStep ==
  ASSUME Core, UNCHANGED <<spec, cond, deploy, cache, queued>>,
         run'.spec = run.spec, run'.changed = run.changed,
         run'.broker = run.broker,
         pc \in {"watch", "sync", "exec"}, pc' \in {"sync", "exec", "rollout"}
  PROVE  Core'
<1>1. run.broker = 1
  BY Zenon DEF Core, Progress, LoopIndex
<1>2. Progress'
  <2>1. LoopIndex'
    BY <1>1, NAssumption DEF LoopIndex, Brokers
  <2>2. \A b \in Brokers : ~(b < 1)
    BY NAssumption DEF Brokers
  <2>3. QED
    BY <1>1, <2>1, <2>2, Zenon DEF Progress, RolledOut
<1>3. ChangedFlag' /\ NotMissed'
  BY Zenon DEF Core, ChangedFlag, NotMissed, Running, InCycle, Steps
<1>4. SpecOrder' /\ CacheOrder'
  BY Zenon DEF Core, SpecOrder, CacheOrder, Running
<1>5. SuccessMeansUniform' /\ BrokersFollowSpec'
  BY Zenon DEF Core, SuccessMeansUniform, BrokersFollowSpec, Quiet
<1>6. QED
  BY <1>2, <1>3, <1>4, <1>5, Zenon DEF Core

\* A cycle whose configuration did not change goes on behind the rollout.
LEMMA SkipStep ==
  ASSUME TypeOK, Core, UNCHANGED <<spec, cond, deploy, cache, queued>>,
         run'.spec = run.spec, run'.changed = run.changed,
         pc = "watch", pc' = "services", cache.spec = run.spec
  PROVE  Core'
<1>1. \A b \in Brokers : deploy[b].spec = run.spec
  BY Numbers DEF Core, SpecOrder, CacheOrder, Running
<1>2. Progress'
  BY <1>1, Zenon DEF Progress, LoopIndex
<1>3. ChangedFlag' /\ NotMissed'
  BY Zenon DEF Core, ChangedFlag, NotMissed, Running, InCycle, Steps
<1>4. SpecOrder' /\ CacheOrder'
  BY Zenon DEF Core, SpecOrder, CacheOrder, Running
<1>5. SuccessMeansUniform' /\ BrokersFollowSpec'
  BY Zenon DEF Core, SuccessMeansUniform, BrokersFollowSpec, Quiet
<1>6. QED
  BY <1>2, <1>3, <1>4, <1>5, Zenon DEF Core

\* Get starts a cycle with the spec and the hashes it finds.
LEMMA GetStep ==
  ASSUME TypeOK, Core, Get
  PROVE  Core'
<1>1. /\ run'.spec = spec /\ run'.broker = 1
      /\ run'.changed = (cache.spec # spec \/ cache.ann # ann)
  BY Zenon DEF Get, NoRun
<1>2. pc' = IF run'.changed THEN "clear" ELSE "watch"
  BY <1>1, Zenon DEF Get
<1>3. pc = "idle" /\ UNCHANGED <<spec, cond, deploy, cache>>
  BY Zenon DEF Get
<1>4. SpecOrder'
  BY <1>1, <1>3, Numbers DEF Core, SpecOrder
<1>5. CacheOrder'
  <2>1. 1 \in Brokers
    BY NAssumption DEF Brokers
  <2>2. cache.spec <= spec
    BY <2>1, Numbers DEF Core, SpecOrder, CacheOrder
  <2>3. QED
    BY <1>1, <1>3, <2>2, Zenon DEF Core, CacheOrder
<1>6. Progress'
  BY <1>1, <1>2, Zenon DEF Progress, LoopIndex, RolledOut
<1>7. ChangedFlag'
  <2>1. CASE run'.changed
    BY <1>2, <2>1, Zenon DEF ChangedFlag, InCycle
  <2>2. CASE ~run'.changed
    BY <1>1, <1>3, <2>2, Zenon DEF ChangedFlag
  <2>3. QED
    BY <2>1, <2>2, Zenon
<1>8. NotMissed'
  BY <1>1, <1>3, Zenon DEF NotMissed
<1>9. SuccessMeansUniform' /\ BrokersFollowSpec'
  BY <1>2, <1>3, Zenon DEF Core, SuccessMeansUniform, BrokersFollowSpec, Quiet
<1>10. QED
  BY <1>4, <1>5, <1>6, <1>7, <1>8, <1>9, Zenon DEF Core

\* The steps behind the rollout keep what it did; none of them but the last
\* shows Successful.
LEMMA TailStep ==
  ASSUME TypeOK, Core, UNCHANGED <<spec, deploy, run>>, ~queued' => ~queued,
         pc \in RolledOut, pc' \in RolledOut,
         cache'.spec \in {cache.spec, run.spec},
         cond'["cycle"] \in {cond["cycle"], "InProgress"}
  PROVE  Core'
<1>1. \A b \in Brokers : deploy[b].spec = run.spec
  BY Zenon DEF Core, Progress
<1>2. Progress'
  BY <1>1, Zenon DEF Progress, LoopIndex, RolledOut
<1>3. ChangedFlag' /\ NotMissed'
  BY Zenon DEF Core, ChangedFlag, NotMissed, Running, InCycle, Steps, RolledOut
<1>4. SpecOrder'
  BY Zenon DEF Core, SpecOrder, Running, RolledOut
<1>5. CacheOrder'
  BY <1>1, Numbers DEF Core, CacheOrder, Running, RolledOut
<1>6. SuccessMeansUniform' /\ BrokersFollowSpec'
  BY <1>1, Zenon DEF SuccessMeansUniform, BrokersFollowSpec, Quiet, RolledOut
<1>7. QED
  BY <1>2, <1>3, <1>4, <1>5, <1>6, Zenon DEF Core

\* A cycle that ends without an error has rolled out the spec it remembers.
LEMMA EndStep ==
  ASSUME TypeOK, Core, UNCHANGED <<spec, deploy, run>>, ~queued' => ~queued,
         pc \in RolledOut, pc' = "idle", cache'.spec = run.spec
  PROVE  Core'
<1>1. \A b \in Brokers : deploy[b].spec = run.spec
  BY Zenon DEF Core, Progress
<1>2. Progress' /\ ChangedFlag' /\ NotMissed'
  BY Zenon DEF Progress, LoopIndex, RolledOut, ChangedFlag, NotMissed, Running,
         InCycle
<1>3. SpecOrder' /\ CacheOrder'
  BY <1>1, Numbers DEF Core, SpecOrder, CacheOrder, Running
<1>4. SuccessMeansUniform'
  BY <1>1, Zenon DEF SuccessMeansUniform
<1>5. BrokersFollowSpec'
  BY <1>1, Zenon DEF Core, NotMissed, Running, RolledOut, BrokersFollowSpec, Quiet
<1>6. QED
  BY <1>2, <1>3, <1>4, <1>5, Zenon DEF Core

\* BeginCycle publishes the cycle it starts as in progress.
LEMMA BeginStep ==
  ASSUME TypeOK, Core, BeginCycle
  PROVE  Core'
<1>1. cond'["cycle"] = "InProgress"
  BY Zenon DEF BeginCycle, SetCondition, SetConditions, TypeOK, Reasons
<1>2. /\ pc = "begin" /\ pc' = "watch"
      /\ ~queued' => ~queued
      /\ UNCHANGED <<spec, deploy, cache, run>>
  BY Zenon DEF BeginCycle, SetCondition, SetConditions
<1>3. ChangedFlag' /\ NotMissed' /\ SuccessMeansUniform'
  BY <1>1, <1>2, Zenon DEF Core, ChangedFlag, NotMissed, SuccessMeansUniform, Running
<1>4. SpecOrder' /\ CacheOrder'
  BY <1>2, Zenon DEF Core, SpecOrder, CacheOrder, Running
<1>5. Progress' /\ BrokersFollowSpec'
  BY <1>2, Zenon DEF Core, Progress, LoopIndex, RolledOut, BrokersFollowSpec, Quiet
<1>6. QED
  BY <1>3, <1>4, <1>5, Zenon DEF Core

\* A crash forgets the caches and leaves the deployments as they are.
LEMMA CrashStep ==
  ASSUME TypeOK, Core, Crash
  PROVE  Core'
<1>1. /\ UNCHANGED <<spec, cond, deploy>>
      /\ pc' = "idle" /\ queued' /\ cache'.spec = 0 /\ run'.spec = 0
  BY Zenon DEF Crash, EmptyCache, NoRun
<1>2. SpecOrder' /\ CacheOrder'
  BY <1>1, Numbers DEF Core, SpecOrder, CacheOrder, Running
<1>3. Progress' /\ ChangedFlag' /\ NotMissed'
  BY <1>1, Zenon DEF Progress, LoopIndex, RolledOut, ChangedFlag, NotMissed, Running,
              InCycle
<1>4. SuccessMeansUniform' /\ BrokersFollowSpec'
  BY <1>1, Zenon DEF Core, SuccessMeansUniform, BrokersFollowSpec, Quiet
<1>5. QED
  BY <1>2, <1>3, <1>4, Zenon DEF Core

\* Every step keeps the inductive invariant when no edit is a revert.
LEMMA Step ==
  ASSUME ~Reverts, TypeOK, TypeOK', Core, Next
  PROVE  Core'
<1>1. CASE EditSpec
  BY <1>1, EditStep, Zenon
<1>2. CASE EditAnnotations
  BY <1>2, Frame, Zenon DEF EditAnnotations
<1>3. ASSUME NEW us \in SUBSET Users, EditSecret(us) PROVE Core'
  BY <1>3, Frame, Zenon DEF EditSecret
<1>4. CASE Get
  BY <1>4, GetStep, Zenon
<1>5. CASE ClearAllConditions
  BY <1>5, ClearStep, Zenon
<1>6. CASE BeginCycle
  BY <1>6, BeginStep, Zenon
<1>7. CASE WatchSecret
  <2>1. /\ run'.spec = run.spec /\ run'.changed = run.changed
        /\ run'.broker = run.broker
    BY <1>7 DEF WatchSecret
  <2>2. CASE pc' = "services"
    BY <1>7, <2>1, <2>2, SkipStep, Zenon DEF WatchSecret
  <2>3. CASE pc' # "services"
    BY <1>7, <2>1, <2>3, AdvanceStep, Zenon DEF WatchSecret
  <2>4. QED
    BY <2>2, <2>3, Zenon
<1>8. ASSUME NEW b \in Brokers, PickPod(b) PROVE Core'
  <2>1. /\ run'.spec = run.spec /\ run'.changed = run.changed
        /\ run'.broker = run.broker
    BY <1>8 DEF PickPod
  <2>2. QED
    BY <1>8, <2>1, AdvanceStep, Zenon DEF PickPod
<1>9. CASE SkipSync
  <2>1. /\ run'.spec = run.spec /\ run'.changed = run.changed
        /\ run'.broker = run.broker
    BY <1>9 DEF SkipSync
  <2>2. QED
    BY <1>9, <2>1, AdvanceStep, Zenon DEF SkipSync
<1>10. CASE Exec
  <2>1. /\ run'.spec = run.spec /\ run'.changed = run.changed
        /\ run'.broker = run.broker
    BY <1>10 DEF Exec
  <2>2. QED
    BY <1>10, <2>1, AdvanceStep, Zenon DEF Exec
<1>11. CASE ExecRejected
  BY <1>11, Errors, Zenon DEF ExecRejected
<1>12. CASE RolloutBroker
  BY <1>12, RolloutStep, Zenon
<1>13. CASE BrokerReady
  BY <1>13, ReadyStep, Zenon
<1>14. CASE AllBrokersReady
  BY <1>14, TailStep, Zenon DEF AllBrokersReady, RolledOut
<1>15. CASE WaitTimeout
  BY <1>15, Errors, Zenon DEF WaitTimeout
<1>16. CASE UpdateKafkaStatus
  <2>1. ~queued' => ~queued
    BY <1>16, Zenon DEF UpdateKafkaStatus, TypeOK
  <2>2. QED
    BY <1>16, <2>1, TailStep, Zenon DEF UpdateKafkaStatus, RolledOut
<1>17. CASE FinishKafka
  <2>1. cache'.spec = run.spec
    BY <1>17, Zenon DEF FinishKafka, TypeOK, Caches
  <2>2. QED
    BY <1>17, <2>1, TailStep, Zenon DEF FinishKafka, RolledOut
<1>18. CASE UpdatePvcStatus
  <2>1. CASE run.changed
    BY <1>18, <2>1, TailStep, Zenon DEF UpdatePvcStatus, RolledOut
  <2>2. CASE ~run.changed
    <3>1. cache'.spec = run.spec
      BY <1>18, <2>2, Zenon DEF UpdatePvcStatus, TypeOK, Caches
    <3>2. QED
      BY <1>18, <2>2, <3>1, EndStep, Zenon DEF UpdatePvcStatus, RolledOut
  <2>3. QED
    BY <2>1, <2>2, Zenon
<1>19. CASE CheckReadiness
  <2>1. cond'["cycle"] \in {cond["cycle"], "InProgress"}
    BY <1>19, Zenon DEF CheckReadiness, SetCondition, SetConditions, TypeOK, Reasons
  <2>2. QED
    BY <1>19, <2>1, TailStep, Zenon
    DEF CheckReadiness, SetCondition, SetConditions, RolledOut
<1>20. CASE StartHealthCheck
  <2>1. cond'["cycle"] \in {cond["cycle"], "InProgress"}
    BY <1>20, Zenon DEF StartHealthCheck, SetCondition, SetConditions, TypeOK, Reasons
  <2>2. QED
    BY <1>20, <2>1, TailStep, Zenon
    DEF StartHealthCheck, SetCondition, SetConditions, RolledOut
<1>21. CASE PollPods
  <2>1. cond'["cycle"] \in {cond["cycle"], "InProgress"}
    BY <1>21, Zenon DEF PollPods, SetCondition, SetConditions, TypeOK, Reasons
  <2>2. QED
    BY <1>21, <2>1, TailStep, Zenon
    DEF PollPods, SetCondition, SetConditions, RolledOut
<1>22. CASE Verdict
  <2>1. cache'.spec = run.spec
    BY <1>22, Zenon DEF Verdict, TypeOK, Caches
  <2>2. QED
    BY <1>22, <2>1, EndStep, Zenon
    DEF Verdict, SetCondition, SetConditions, RolledOut
<1>23. CASE ApiError
  BY <1>23, Errors, Zenon DEF ApiError
<1>24. CASE ExecErrorAfterEffect
  BY <1>24, Errors, Zenon DEF ExecErrorAfterEffect
<1>25. CASE Crash
  BY <1>25, CrashStep, Zenon
<1>26. ASSUME NEW b \in Brokers, PodLost(b) PROVE Core'
  <2>1. /\ run'.spec = run.spec /\ run'.changed = run.changed
        /\ run'.broker = run.broker
    BY <1>26 DEF PodLost
  <2>2. UNCHANGED <<spec, cond, deploy, cache, pc, queued>>
    BY <1>26, Zenon DEF PodLost
  <2>3. QED
    BY <2>1, <2>2, Frame, Zenon
<1>27. ASSUME NEW b \in Brokers, PodStart(b) PROVE Core'
  BY <1>27, Frame, Zenon DEF PodStart
<1>28. ASSUME NEW b \in Brokers, PodReady(b) PROVE Core'
  BY <1>28, Frame, Zenon DEF PodReady
<1>29. ASSUME NEW b \in Brokers, ProbeFails(b) PROVE Core'
  BY <1>29, Frame, Zenon DEF ProbeFails
<1>30. QED
  BY <1>1, <1>2, <1>3, <1>4, <1>5, <1>6, <1>7, <1>8, <1>9, <1>10, <1>11,
     <1>12, <1>13, <1>14, <1>15, <1>16, <1>17, <1>18, <1>19, <1>20, <1>21,
     <1>22, <1>23, <1>24, <1>25, <1>26, <1>27, <1>28, <1>29, Zenon
  DEF Next, User, Operator, Fault, Kubelet

-----------------------------------------------------------------------------
(* The theorems *)

\* The broker loop keeps within the replicas of the spec.
LEMMA LoopIndexStep ==
  ASSUME TypeOK, LoopIndex, Next
  PROVE  LoopIndex'
<1> USE NAssumption DEF TypeOK, Runs, LoopIndex, Brokers, Steps
<1>1. CASE User
  BY <1>1, Zenon DEF User, EditSpec, EditAnnotations, EditSecret
<1>2. CASE Get
  BY <1>2, Zenon DEF Get, NoRun
<1>3. CASE ClearAllConditions \/ BeginCycle
  BY <1>3, Zenon DEF ClearAllConditions, BeginCycle
<1>4. CASE WatchSecret \/ SkipSync
  BY <1>4 DEF WatchSecret, SkipSync
<1>5. ASSUME NEW b \in Brokers, PickPod(b) PROVE LoopIndex'
  BY <1>5, Zenon DEF PickPod
<1>6. CASE Exec
  BY <1>6 DEF Exec
<1>7. CASE RolloutBroker
  <2>1. \/ pc' = "wait" /\ run' = run
        \/ /\ pc' = AfterBroker(run.broker)
           /\ run' = [run EXCEPT !.broker = run.broker + 1]
    BY <1>7, Zenon DEF RolloutBroker
  <2>2. pc = "rollout"
    BY <1>7, Zenon DEF RolloutBroker
  <2>3. QED
    BY <2>1, <2>2 DEF AfterBroker
<1>8. CASE BrokerReady
  BY <1>8 DEF BrokerReady, AfterBroker
<1>9. CASE AllBrokersReady \/ UpdateKafkaStatus \/ FinishKafka
  BY <1>9, Zenon DEF AllBrokersReady, UpdateKafkaStatus, FinishKafka
<1>10. CASE UpdatePvcStatus \/ CheckReadiness \/ StartHealthCheck \/ PollPods
            \/ Verdict
  BY <1>10, Zenon DEF UpdatePvcStatus, CheckReadiness, StartHealthCheck, PollPods,
               Verdict
<1>11. CASE ExecRejected \/ WaitTimeout \/ ApiError \/ ExecErrorAfterEffect
  BY <1>11, Zenon DEF ExecRejected, WaitTimeout, ApiError, ExecErrorAfterEffect,
               ReturnError
<1>12. CASE Crash
  BY <1>12, Zenon DEF Crash
<1>13. ASSUME NEW b \in Brokers, PodLost(b) PROVE LoopIndex'
  BY <1>13, Zenon DEF PodLost
<1>14. ASSUME NEW b \in Brokers, Kubelet(b) PROVE LoopIndex'
  BY <1>14, Zenon DEF Kubelet, PodStart, PodReady, ProbeFails
<1>15. QED
  BY <1>1, <1>2, <1>3, <1>4, <1>5, <1>6, <1>7, <1>8, <1>9, <1>10, <1>11,
     <1>12, <1>13, <1>14, Zenon
  DEF Next, Operator, Fault

\* An installed cluster has the types of the model.
LEMMA InitTypes == Init => TypeOK /\ LoopIndex
<1> SUFFICES ASSUME Init PROVE TypeOK /\ LoopIndex
  BY Zenon
<1>1. 1 \in BrokerIds
  BY NAssumption DEF BrokerIds
<1>2. NoRun \in Runs
  BY <1>1, Zenon DEF NoRun, Runs, Secrets
<1>3. run \in Runs /\ pc \in Steps /\ cond \in [Reasons -> Types]
  BY <1>2, Zenon DEF Init, Steps, Reasons, Types
<1>4. deploy \in [Brokers -> Templates] /\ pod \in [Brokers -> Pods]
  BY Zenon DEF Init, Templates, Pods
<1>5. /\ secret \in Secrets /\ cache \in Caches /\ faults \in Faults
      /\ scram \in [Users -> Nat]
  BY Zenon DEF Init, Secrets, Caches, Faults
<1>6. LoopIndex
  BY Zenon DEF Init, LoopIndex
<1>7. spec \in Nat /\ ann \in Nat
  BY Zenon DEF Init
<1>8. services \in Nat
  BY DEF Init
<1>9. queued \in BOOLEAN
  BY Zenon DEF Init
<1>10. unsynced \subseteq Users
  BY Zenon DEF Init
<1>11. QED
  BY <1>3, <1>4, <1>5, <1>6, <1>7, <1>8, <1>9, <1>10, Zenon DEF TypeOK

\* Types are kept by every behaviour of the loop: in particular the broker
\* loop of rolloutBrokers never leaves 1..N+1, whatever fails in it.
THEOREM TypeCorrect == Spec => []TypeOK
<1>1. Init => TypeOK /\ LoopIndex
  BY InitTypes, Zenon
<1>2. TypeOK /\ LoopIndex /\ [Next]_vars => (TypeOK /\ LoopIndex)'
  <2> SUFFICES ASSUME TypeOK, LoopIndex, [Next]_vars
               PROVE  (TypeOK /\ LoopIndex)'
    BY Zenon
  <2>1. CASE Next
    BY <2>1, Typing, LoopIndexStep, Zenon
  <2>2. CASE UNCHANGED vars
    BY <2>2, Zenon DEF vars, TypeOK, LoopIndex
  <2>3. QED
    BY <2>1, <2>2, Zenon
<1>3. QED
  BY <1>1, <1>2, PTL DEF Spec

\* When no edit brings back an earlier spec, the invariant holds in every
\* reachable state.
LEMMA RolloutInvariant ==
  ASSUME ~Reverts
  PROVE  Spec => []IInv
<1>1. Init => IInv
  <2> SUFFICES ASSUME Init PROVE IInv
    BY Zenon
  <2>1. TypeOK /\ LoopIndex
    BY InitTypes, Zenon
  <2>2. /\ spec = 1 /\ pc = "idle" /\ cache.spec = 1 /\ run.spec = 0
        /\ \A b \in Brokers : deploy[b].spec = 1
    BY Zenon DEF Init, NoRun
  <2>3. SpecOrder /\ CacheOrder
    BY <2>2 DEF SpecOrder, CacheOrder, Running
  <2>4. Progress /\ ChangedFlag /\ NotMissed
    BY <2>1, <2>2, Zenon DEF Progress, ChangedFlag, NotMissed, Running, InCycle,
                      RolledOut
  <2>5. SuccessMeansUniform /\ BrokersFollowSpec
    BY <2>2, Zenon DEF SuccessMeansUniform, BrokersFollowSpec
  <2>6. QED
    BY <2>1, <2>3, <2>4, <2>5, Zenon DEF IInv, Core
<1>2. IInv /\ [Next]_vars => IInv'
  <2> SUFFICES ASSUME IInv, [Next]_vars PROVE IInv'
    BY Zenon
  <2>1. CASE Next
    <3>1. TypeOK'
      BY <2>1, Typing, Zenon DEF IInv, Core, Progress
    <3>2. Core'
      BY <2>1, <3>1, Step, Zenon DEF IInv
    <3>3. QED
      BY <3>1, <3>2, Zenon DEF IInv
  <2>2. CASE UNCHANGED vars
    BY <2>2, Frame, Zenon DEF vars, IInv, TypeOK
  <2>3. QED
    BY <2>1, <2>2, Zenon
<1>3. QED
  BY <1>1, <1>2, PTL DEF Spec

\* When no edit brings back an earlier spec, the cached hash is safe: when
\* Reconcile is at rest every deployment is of the current spec.
THEOREM RolloutCorrect ==
  ASSUME ~Reverts
  PROVE  Spec => []BrokersFollowSpec
<1>1. IInv => BrokersFollowSpec
  BY Zenon DEF IInv, Core
<1>2. QED
  BY <1>1, RolloutInvariant, PTL

\* When no edit brings back an earlier spec, UpdateStatusCondition never
\* writes Successful over a half-finished rollout, in the middle of the next
\* one included.
THEOREM SuccessUniform ==
  ASSUME ~Reverts
  PROVE  Spec => []SuccessMeansUniform
<1>1. IInv => SuccessMeansUniform
  BY Zenon DEF IInv, Core
<1>2. QED
  BY <1>1, RolloutInvariant, PTL

-----------------------------------------------------------------------------
(* The credentials *)

\* The steps at which the cycle has read the Secret.
SecretRead == Steps \ {"idle", "clear", "begin", "watch"}

\* A version of the Secret stands for one content, and nothing the operator
\* remembers is newer than the Secret.
Versions ==
    /\ 1 <= secret.rv /\ cache.rv <= secret.rv
    /\ cache.rv = secret.rv => cache.client = secret.client
    /\ pc \in SecretRead =>
          /\ 1 <= run.secret.rv /\ run.secret.rv <= secret.rv
          /\ run.secret.rv = secret.rv => run.secret.client = secret.client
          /\ cache.rv = run.secret.rv => cache.client = run.secret.client
          /\ ~queued => run.secret.rv = secret.rv

\* The services Secret is as recent as the version in the cache.
ServicesKnown ==
    /\ cache.rv # 0 => services \in {0, cache.client}
    /\ pc \in {"pvc", "checking", "health", "poll", "verdict"} =>
          services \in {0, run.secret.client}

Services == Versions /\ ServicesKnown /\ ServicesFollowSecret

\* Every step keeps the relation of the Secret to the services Secret.
LEMMA ServicesStep ==
  ASSUME TypeOK, Services, Next
  PROVE  Services'
<1> USE NAssumption
    DEF Services, Versions, ServicesKnown, ServicesFollowSecret, Quiet,
        SecretRead, Steps, TypeOK, Runs, Caches, Secrets
<1>1. CASE EditSpec
  BY <1>1, Zenon DEF EditSpec
<1>2. CASE EditAnnotations
  BY <1>2, Zenon DEF EditAnnotations
<1>3. ASSUME NEW us \in SUBSET Users, EditSecret(us) PROVE Services'
  BY <1>3 DEF EditSecret
<1>4. CASE Get
  BY <1>4, Zenon DEF Get, NoRun
<1>5. CASE ClearAllConditions
  BY <1>5, Zenon DEF ClearAllConditions, SetConditions
<1>6. CASE BeginCycle
  BY <1>6, Zenon DEF BeginCycle, SetCondition, SetConditions
<1>7. CASE WatchSecret
  BY <1>7 DEF WatchSecret
<1>8. ASSUME NEW b \in Brokers, PickPod(b) PROVE Services'
  BY <1>8, Zenon DEF PickPod
<1>9. CASE SkipSync
  BY <1>9, Zenon DEF SkipSync
<1>10. CASE Exec
  BY <1>10, Zenon DEF Exec, NextUser
<1>11. CASE ExecRejected
  BY <1>11, Zenon DEF ExecRejected, ReturnError
<1>12. CASE RolloutBroker
  BY <1>12, Zenon DEF RolloutBroker, Template, AfterBroker
<1>13. CASE BrokerReady
  BY <1>13, Zenon DEF BrokerReady, AfterBroker
<1>14. CASE AllBrokersReady
  BY <1>14, Zenon DEF AllBrokersReady
<1>15. CASE WaitTimeout
  BY <1>15, Zenon DEF WaitTimeout, ReturnError
<1>16. CASE UpdateKafkaStatus
  BY <1>16, Zenon DEF UpdateKafkaStatus
<1>17. CASE FinishKafka
  BY <1>17 DEF FinishKafka
<1>18. CASE UpdatePvcStatus
  BY <1>18, Zenon DEF UpdatePvcStatus
<1>19. CASE CheckReadiness
  BY <1>19, Zenon DEF CheckReadiness, SetCondition, SetConditions
<1>20. CASE StartHealthCheck
  BY <1>20, Zenon DEF StartHealthCheck, SetCondition, SetConditions
<1>21. CASE PollPods
  BY <1>21, Zenon DEF PollPods, SetCondition, SetConditions
<1>22. CASE Verdict
  BY <1>22, Zenon DEF Verdict, SetCondition, SetConditions
<1>23. CASE ApiError
  BY <1>23, Zenon DEF ApiError, ReturnError
<1>24. CASE ExecErrorAfterEffect
  BY <1>24, Zenon DEF ExecErrorAfterEffect, ReturnError, NextUser
<1>25. CASE Crash
  BY <1>25 DEF Crash, EmptyCache, NoRun
<1>26. ASSUME NEW b \in Brokers, PodLost(b) PROVE Services'
  BY <1>26, Zenon DEF PodLost
<1>27. ASSUME NEW b \in Brokers, PodStart(b) PROVE Services'
  BY <1>27, Zenon DEF PodStart
<1>28. ASSUME NEW b \in Brokers, PodReady(b) PROVE Services'
  BY <1>28, Zenon DEF PodReady
<1>29. ASSUME NEW b \in Brokers, ProbeFails(b) PROVE Services'
  BY <1>29, Zenon DEF ProbeFails
<1>30. QED
  BY <1>1, <1>2, <1>3, <1>4, <1>5, <1>6, <1>7, <1>8, <1>9, <1>10, <1>11,
     <1>12, <1>13, <1>14, <1>15, <1>16, <1>17, <1>18, <1>19, <1>20, <1>21,
     <1>22, <1>23, <1>24, <1>25, <1>26, <1>27, <1>28, <1>29, Zenon
  DEF Next, User, Operator, Fault, Kubelet

\* The passwords of a user grow with the versions of the Secret, and neither
\* the operator nor Kafka is ahead of the Secret a cycle has read.
Passwords(u) ==
    /\ secret[u] <= secret.rv /\ cache[u] <= secret[u] /\ scram[u] <= secret[u]
    /\ cache.rv = secret.rv => cache[u] = secret[u]
    /\ pc \in SecretRead =>
          /\ run.secret[u] <= secret[u]
          /\ run.secret.rv = secret.rv => run.secret[u] = secret[u]
          /\ cache[u] <= run.secret[u] /\ scram[u] <= run.secret[u]

\* The cycle has found the password changed and has still to set it in Kafka.
Due(u) == (pc = "sync" /\ Changed(u)) \/ (pc = "exec" /\ u \in run.todo)

\* Kafka has at least the password the operator remembers, and from the read
\* of the Secret on the one of the Secret, unless it is still to be set.
Synced(u) ==
    u \notin unsynced =>
        /\ cache[u] <= scram[u]
        /\ pc \in SecretRead /\ ~Due(u) => scram[u] = run.secret[u]

Sync == Kraft => \A u \in Users : Passwords(u) /\ Synced(u)

\* The numbers that Sync is about.
LEMMA SyncNumbers ==
  ASSUME TypeOK
  PROVE  /\ secret.rv \in Nat /\ cache.rv \in Nat /\ run.secret.rv \in Nat
         /\ \A u \in Users : /\ secret[u] \in Nat /\ cache[u] \in Nat
                             /\ scram[u] \in Nat /\ run.secret[u] \in Nat
BY DEF TypeOK, Runs, Caches, Secrets, Users

\* A step that touches no password keeps Sync, if it stays where it is, leaves
\* the part of the cycle that has read the Secret, or has set what was due.
LEMMA SyncFrame ==
  ASSUME Sync, UNCHANGED <<secret, cache, scram, unsynced>>,
         run'.secret = run.secret,
         \/ pc' \notin SecretRead
         \/ pc' = pc /\ run'.todo = run.todo
         \/ {pc, pc'} \subseteq SecretRead \ {"sync", "exec"}
  PROVE  Sync'
BY Zenon DEF Sync, Passwords, Synced, Due, Changed, Differs

\* A cycle that ends, well or not, leaves Kafka and the cache as they are.
LEMMA SyncEnd ==
  ASSUME Sync, UNCHANGED <<secret, cache, scram, unsynced>>, pc' = "idle"
  PROVE  Sync'
BY Zenon DEF Sync, Passwords, Synced, SecretRead

\* A new version of the Secret is newer than anything remembered.
LEMMA SyncEdit ==
  ASSUME TypeOK, Versions, Sync, NEW us \in SUBSET Users, EditSecret(us)
  PROVE  Sync'
<1> SUFFICES ASSUME Kraft, NEW u \in Users PROVE (Passwords(u) /\ Synced(u))'
  BY Zenon DEF Sync
<1>1. /\ secret'.rv = secret.rv + 1
      /\ secret'[u] \in {secret[u], secret.rv + 1}
      /\ UNCHANGED <<scram, cache, pc, run, unsynced>>
  BY SyncNumbers DEF EditSecret, Users
<1>2. Passwords(u) /\ Synced(u)
  BY Zenon DEF Sync
<1>3. /\ cache.rv < secret'.rv
      /\ pc \in SecretRead => run.secret.rv < secret'.rv
  BY <1>1, SyncNumbers DEF Versions
<1>4. Passwords(u)'
  BY <1>1, <1>2, <1>3, SyncNumbers DEF Passwords
<1>5. Synced(u)'
  BY <1>1, <1>2, Zenon DEF Synced, Due, Changed, Differs
<1>6. QED
  BY <1>4, <1>5, Zenon

\* WatchSecret: what does not count as changed is in Kafka, or nobody noticed.
LEMMA SyncRead ==
  ASSUME TypeOK, Sync, WatchSecret
  PROVE  Sync'
<1> SUFFICES ASSUME Kraft, NEW u \in Users PROVE (Passwords(u) /\ Synced(u))'
  BY Zenon DEF Sync
<1>1. /\ run'.secret = secret /\ pc' \in {"services", "sync", "rollout"}
      /\ UNCHANGED <<secret, scram, cache>>
  BY Zenon DEF WatchSecret, TypeOK, Runs
<1>2. Passwords(u) /\ Synced(u)
  BY Zenon DEF Sync
<1>3. Passwords(u)'
  BY <1>1, <1>2, SyncNumbers DEF Passwords
<1>4. u \notin unsynced' => u \notin unsynced /\ (cache[u] = 0 => scram[u] = secret[u])
  BY Zenon DEF WatchSecret, Unnoticed
<1>5. CASE cache.rv = secret.rv
  <2>1. cache[u] = secret[u]
    BY <1>2, <1>5, Zenon DEF Passwords
  <2>2. u \notin unsynced' => scram[u] = secret[u] /\ cache[u] <= scram[u]
    BY <1>2, <1>4, <2>1, SyncNumbers DEF Passwords, Synced
  <2>3. QED
    BY <1>1, <1>3, <2>2, Zenon DEF Synced
<1>6. CASE cache.rv # secret.rv /\ ~Differs(u, secret)
  <2>1. u \notin unsynced' => scram[u] = secret[u] /\ cache[u] <= scram[u]
    BY <1>2, <1>4, <1>6, SyncNumbers DEF Passwords, Synced, Differs
  <2>2. QED
    BY <1>1, <1>3, <2>1, Zenon DEF Synced
<1>7. CASE cache.rv # secret.rv /\ Differs(u, secret)
  <2>1. pc' = "sync"
    BY <1>7, Zenon DEF WatchSecret
  <2>2. Due(u)'
    BY <1>1, <1>7, <2>1, Zenon DEF Due, Changed, Differs
  <2>3. QED
    BY <1>1, <1>2, <1>3, <1>4, <2>2, Zenon DEF Synced
<1>8. QED
  BY <1>5, <1>6, <1>7, Zenon

\* updateScramUserInPod sets one of the passwords that are due.
LEMMA SyncExec ==
  ASSUME TypeOK, Sync, pc = "exec",
         scram' = [scram EXCEPT ![NextUser] = run.secret[NextUser]],
         unsynced' = unsynced \ {NextUser}, UNCHANGED <<secret, cache>>,
         \/ pc' = "idle"
         \/ /\ pc' \in {"exec", "rollout"}
            /\ run' = [run EXCEPT !.todo = @ \ {NextUser}]
            /\ pc' = "rollout" => run.todo \subseteq {NextUser}
  PROVE  Sync'
<1> SUFFICES ASSUME Kraft, NEW u \in Users PROVE (Passwords(u) /\ Synced(u))'
  BY Zenon DEF Sync
<1>1. Passwords(u) /\ Synced(u)
  BY Zenon DEF Sync
<1>2. /\ u = NextUser => scram'[u] = run.secret[u]
      /\ u # NextUser => scram'[u] = scram[u] /\ (u \notin unsynced' => u \notin unsynced)
  BY Zenon DEF TypeOK
<1>3. pc \in SecretRead
  BY DEF SecretRead, Steps
<1>4. /\ secret[u] <= secret.rv /\ cache[u] <= secret[u] /\ scram'[u] <= secret[u]
      /\ cache.rv = secret.rv => cache[u] = secret[u]
      /\ run.secret[u] <= secret[u]
      /\ run.secret.rv = secret.rv => run.secret[u] = secret[u]
      /\ cache[u] <= run.secret[u] /\ scram'[u] <= run.secret[u]
      /\ u \notin unsynced' => cache[u] <= scram'[u]
  BY <1>1, <1>2, <1>3, SyncNumbers DEF Passwords, Synced
<1>5. CASE pc' = "idle"
  BY <1>4, <1>5, Zenon DEF Passwords, Synced, SecretRead
<1>6. CASE /\ pc' \in {"exec", "rollout"}
           /\ run' = [run EXCEPT !.todo = @ \ {NextUser}]
           /\ pc' = "rollout" => run.todo \subseteq {NextUser}
  <2>1. run'.secret = run.secret /\ run'.todo = run.todo \ {NextUser}
    BY <1>6, Zenon DEF TypeOK, Runs
  <2>2. Passwords(u)'
    BY <1>4, <2>1, Zenon DEF Passwords
  <2>3. ASSUME u \notin unsynced', ~Due(u)' PROVE scram'[u] = run.secret[u]
    <3>1. CASE u = NextUser
      BY <1>2, <3>1, Zenon
    <3>2. CASE u # NextUser
      <4>1. u \notin run.todo
        BY <1>6, <2>1, <2>3, <3>2, Zenon DEF Due
      <4>2. ~Due(u)
        BY <4>1, Zenon DEF Due
      <4>3. QED
        BY <1>1, <1>2, <1>3, <2>3, <3>2, <4>2, Zenon DEF Synced
    <3>3. QED
      BY <3>1, <3>2, Zenon
  <2>4. QED
    BY <1>4, <2>1, <2>2, <2>3, Zenon DEF Synced
<1>7. QED
  BY <1>5, <1>6, Zenon

\* FinishKafka remembers a password that is in Kafka.
LEMMA SyncFinish ==
  ASSUME TypeOK, Sync, FinishKafka
  PROVE  Sync'
<1> SUFFICES ASSUME Kraft, NEW u \in Users PROVE (Passwords(u) /\ Synced(u))'
  BY Zenon DEF Sync
<1>1. Passwords(u) /\ Synced(u)
  BY Zenon DEF Sync
<1>2. /\ pc = "services" /\ pc' = "pvc"
      /\ UNCHANGED <<secret, scram, run, unsynced>>
  BY Zenon DEF FinishKafka
<1>3. cache'.rv = run.secret.rv /\ cache'[u] = run.secret[u]
  BY DEF FinishKafka, TypeOK, Caches, Users
<1>4. {pc, pc'} \subseteq SecretRead \ {"sync", "exec"}
  BY <1>2 DEF SecretRead, Steps
<1>5. Passwords(u)'
  BY <1>1, <1>2, <1>3, <1>4, SyncNumbers DEF Passwords
<1>6. u \notin unsynced => scram[u] = run.secret[u]
  BY <1>1, <1>4, Zenon DEF Synced, Due
<1>7. Synced(u)'
  BY <1>2, <1>3, <1>6, SyncNumbers DEF Synced
<1>8. QED
  BY <1>5, <1>7, Zenon

\* Every step keeps what syncScramCredentials established.
LEMMA SyncStep ==
  ASSUME TypeOK, Versions, Sync, Next
  PROVE  Sync'
<1> USE DEF SecretRead, Steps
<1>1. CASE EditSpec \/ EditAnnotations
  BY <1>1, SyncFrame, Zenon DEF EditSpec, EditAnnotations
<1>2. ASSUME NEW us \in SUBSET Users, EditSecret(us) PROVE Sync'
  BY <1>2, SyncEdit, Zenon
<1>3. CASE Get \/ ClearAllConditions \/ BeginCycle
  <2>1. pc' \in {"idle", "clear", "begin", "watch"}
    BY <1>3, Zenon DEF Get, ClearAllConditions, BeginCycle
  <2>2. UNCHANGED <<secret, cache, scram, unsynced>>
    BY <1>3, Zenon DEF Get, ClearAllConditions, BeginCycle
  <2>3. QED
    BY <2>1, <2>2, Zenon DEF Sync, Passwords, Synced
<1>4. CASE WatchSecret
  BY <1>4, SyncRead, Zenon
<1>5. ASSUME NEW b \in Brokers, PickPod(b) PROVE Sync'
  <2>1. /\ pc = "sync" /\ pc' = "exec" /\ run'.secret = run.secret
        /\ run'.todo = {u \in Users : Changed(u)}
        /\ UNCHANGED <<secret, cache, scram, unsynced>>
    BY <1>5, Zenon DEF PickPod, TypeOK, Runs
  <2>2. \A u \in Users : Due(u)' <=> Due(u)
    BY <2>1, Zenon DEF Due
  <2>3. QED
    BY <2>1, <2>2, Zenon DEF Sync, Passwords, Synced
<1>6. CASE SkipSync
  <2>1. /\ pc = "sync" /\ pc' = "rollout"
        /\ UNCHANGED <<secret, cache, scram, run>>
        /\ \A u \in Users : u \notin unsynced' =>
              u \notin unsynced /\ (Changed(u) => scram[u] = run.secret[u])
    BY <1>6, Zenon DEF SkipSync
  <2>2. QED
    BY <2>1, Zenon DEF Sync, Passwords, Synced, Due
<1>7. CASE Exec
  BY <1>7, SyncExec, Zenon DEF Exec
<1>8. CASE RolloutBroker \/ BrokerReady
  <2>1. /\ {pc, pc'} \subseteq {"rollout", "wait", "waitAll", "kstatus"}
        /\ UNCHANGED <<secret, cache, scram, unsynced>>
    BY <1>8, Zenon DEF RolloutBroker, BrokerReady, AfterBroker
  <2>2. run'.secret = run.secret
    BY <1>8, Zenon DEF RolloutBroker, BrokerReady, TypeOK, Runs
  <2>3. QED
    BY <2>1, <2>2, SyncFrame, Zenon
<1>9. CASE AllBrokersReady \/ UpdateKafkaStatus
  BY <1>9, SyncFrame, Zenon DEF AllBrokersReady, UpdateKafkaStatus
<1>10. CASE FinishKafka
  BY <1>10, SyncFinish, Zenon
<1>11. CASE UpdatePvcStatus
  <2>1. CASE run.changed
    BY <1>11, <2>1, SyncFrame, Zenon DEF UpdatePvcStatus
  <2>2. CASE ~run.changed
    <3>1. /\ pc' = "idle" /\ UNCHANGED <<secret, scram, unsynced>>
          /\ cache' = [cache EXCEPT !.spec = run.spec, !.ann = run.ann]
      BY <1>11, <2>2, Zenon DEF UpdatePvcStatus
    <3>2. cache'.rv = cache.rv /\ \A u \in Users : cache'[u] = cache[u]
      BY <3>1 DEF TypeOK, Caches, Users
    <3>3. QED
      BY <3>1, <3>2, Zenon DEF Sync, Passwords, Synced
  <2>3. QED
    BY <2>1, <2>2, Zenon
<1>12. CASE CheckReadiness \/ StartHealthCheck \/ PollPods
  BY <1>12, SyncFrame, Zenon DEF CheckReadiness, StartHealthCheck, PollPods
<1>13. CASE Verdict
  <2>1. /\ pc' = "idle" /\ UNCHANGED <<secret, scram, unsynced>>
        /\ cache' = [cache EXCEPT !.spec = run.spec, !.ann = run.ann]
    BY <1>13, Zenon DEF Verdict
  <2>2. cache'.rv = cache.rv /\ \A u \in Users : cache'[u] = cache[u]
    BY <2>1 DEF TypeOK, Caches, Users
  <2>3. QED
    BY <2>1, <2>2, Zenon DEF Sync, Passwords, Synced
<1>14. CASE ExecRejected \/ WaitTimeout \/ ApiError
  BY <1>14, SyncEnd, Zenon DEF ExecRejected, WaitTimeout, ApiError, ReturnError
<1>15. CASE ExecErrorAfterEffect
  BY <1>15, SyncExec, Zenon DEF ExecErrorAfterEffect, ReturnError
<1>16. CASE Crash
  <2>1. pc' = "idle" /\ UNCHANGED <<secret, scram, unsynced>>
    BY <1>16, Zenon DEF Crash
  <2>2. cache'.rv = 0 /\ \A u \in Users : cache'[u] = 0
    BY <1>16 DEF Crash, EmptyCache, Users
  <2>3. secret.rv # 0
    BY SyncNumbers DEF Versions
  <2>4. \A u \in Users : cache'[u] <= secret[u] /\ cache'[u] <= scram[u]
    BY <2>2, SyncNumbers
  <2>5. QED
    BY <2>1, <2>2, <2>3, <2>4, Zenon DEF Sync, Passwords, Synced
<1>17. ASSUME NEW b \in Brokers, PodLost(b) PROVE Sync'
  <2>1. run'.secret = run.secret /\ run'.todo = run.todo
    BY <1>17, Zenon DEF PodLost, TypeOK, Runs
  <2>2. QED
    BY <1>17, <2>1, SyncFrame, Zenon DEF PodLost
<1>18. ASSUME NEW b \in Brokers, PodStart(b) PROVE Sync'
  <2>1. CASE Kraft
    BY <1>18, <2>1, SyncFrame, Zenon DEF PodStart
  <2>2. CASE ~Kraft
    BY <2>2, Zenon DEF Sync
  <2>3. QED
    BY <2>1, <2>2, Zenon
<1>19. ASSUME NEW b \in Brokers, PodReady(b) \/ ProbeFails(b) PROVE Sync'
  BY <1>19, SyncFrame, Zenon DEF PodReady, ProbeFails
<1>20. QED
  BY <1>1, <1>2, <1>3, <1>4, <1>5, <1>6, <1>7, <1>8, <1>9, <1>10, <1>11,
     <1>12, <1>13, <1>14, <1>15, <1>16, <1>17, <1>18, <1>19, Zenon
  DEF Next, User, Operator, Fault, Kubelet

\* The services Secret is as recent as what the operator remembers, in every
\* reachable state.
LEMMA ServicesInvariant == Spec => []Services
<1>1. Init => Services
  <2> SUFFICES ASSUME Init PROVE Services
    BY Zenon
  <2>1. Versions /\ ServicesKnown
    BY DEF Init, Versions, ServicesKnown, SecretRead, Steps
  <2>2. ServicesFollowSecret
    BY Zenon DEF Init, ServicesFollowSecret
  <2>3. QED
    BY <2>1, <2>2, Zenon DEF Services
<1>2. TypeOK /\ Services /\ [Next]_vars => Services'
  <2> SUFFICES ASSUME TypeOK, Services, [Next]_vars PROVE Services'
    BY Zenon
  <2>1. CASE Next
    BY <2>1, ServicesStep, Zenon
  <2>2. CASE UNCHANGED vars
    BY <2>2, Zenon DEF vars, Services, Versions, ServicesKnown,
                ServicesFollowSecret, Quiet
  <2>3. QED
    BY <2>1, <2>2, Zenon
<1>3. QED
  BY <1>1, <1>2, TypeCorrect, PTL DEF Spec

\* Whatever calls fail and whenever the operator crashes, the services Secret
\* follows the client password of the Kafka Secret by the time Reconcile is
\* at rest: the version is remembered only after the update.
THEOREM ServicesCorrect == Spec => []ServicesFollowSecret
<1>1. Services => ServicesFollowSecret
  BY Zenon DEF Services
<1>2. QED
  BY <1>1, ServicesInvariant, PTL

\* syncScramCredentials and rolloutBrokers in KRaft mode: brokers restart with
\* the passwords of the Secret in Kafka, also after an attempt that was cut
\* short between two users or a restart of the operator, except for a password
\* that the operator never saw change or found no pod to set it with.
THEOREM SyncCorrect == Spec => []SyncedBeforeRestart
<1>1. Init => Sync
  <2>1. ASSUME Init PROVE \A u \in Users : /\ secret[u] = 1 /\ cache[u] = 1
                                           /\ scram[u] = 1
    BY <2>1 DEF Init, Users
  <2>2. ASSUME Init PROVE pc \notin SecretRead /\ secret.rv = 1
    BY <2>2, Zenon DEF Init, SecretRead
  <2>3. 1 <= 1
    OBVIOUS
  <2>4. QED
    BY <2>1, <2>2, <2>3, Zenon DEF Sync, Passwords, Synced
<1>2. TypeOK /\ Services /\ Sync /\ [Next]_vars => Sync'
  <2> SUFFICES ASSUME TypeOK, Services, Sync, [Next]_vars PROVE Sync'
    BY Zenon
  <2>1. CASE Next
    BY <2>1, SyncStep, Zenon DEF Services
  <2>2. CASE UNCHANGED vars
    BY <2>2, SyncFrame, Zenon DEF vars
  <2>3. QED
    BY <2>1, <2>2, Zenon
<1>3. Sync => SyncedBeforeRestart
  <2>1. {"rollout", "wait", "waitAll", "kstatus"} \subseteq SecretRead \ {"sync", "exec"}
    BY DEF SecretRead, Steps
  <2>2. QED
    BY <2>1, Zenon DEF Sync, Synced, Due, SyncedBeforeRestart
<1>4. QED
  BY <1>1, <1>2, <1>3, TypeCorrect, ServicesInvariant, PTL DEF Spec

=============================================================================
