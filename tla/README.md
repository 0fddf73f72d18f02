# TLA+ models of the Kafka operator

The repository builds the container images and the Kubernetes operator of a
Kafka service. These modules model the operator, whose correctness depends on
orders of events no unit test produces: cycles that fail half way and start
again, restarts that lose what the operator remembered, several writers of one
object, goroutines that wait for each other.

## The system

| Part | Source | Module |
|---|---|---|
| Kafka controller: brokers, services, Secrets, status, rotation of credentials | `operator/controllers/kafka` | `KafkaReconcile` |
| Scaling, volumes and reassignment of partitions | `kafka_reconciler.go`, `reconciler.go`, `kafka_client.go` | `BrokerScaling` |
| Migration from ZooKeeper to KRaft | `kafka_reconciler.go` | `KRaftMigration` |
| KafkaService controller with Mirror Maker and backup daemon: disaster recovery | `operator/controllers/kafkaservice` | `DRSwitchover` |
| Replication auditor | `kafka_replication_auditor.go`, `kmm_dr_config.go` and its handler | `ReplicationAuditor`, `AuditPromise` |
| KafkaUser controller: users and access control lists (ACLs) | `operator/controllers/kafkauser` | `KafkaUser` |
| KmmConfig controller and Mirror Maker reconciler: configuration of Mirror Maker | `operator/controllers/kmmconfig`, `mirror_maker_reconciler.go` | `MirrorMakerConfig` |
| AkhqConfig controller and AKHQ reconciler: topic mapping of AKHQ | `operator/controllers/akhqconfig`, `akhqprotobuf`, `akhq_reconciler.go` | `AkhqConfig` |
| Worker pool: one controller manager per job | `operator/workers`, `operator/main.go`, `operator/cfg` | `WorkerPool`, `JobSupervisor` |
| Providers, API types | `operator/controllers/provider`, `operator/api` | in the modules that use them |
| Kafka image | `docker-kafka` | what `KafkaReconcile` needs of it |
| Other images and scripts | `backup-daemon`, `crd-init`, `mirror-maker`, `monitoring`, `lag-exporter`, ... | not modelled |

The controllers meet in Kubernetes objects: the Kafka controller writes the
services Secret that the KafkaService controller watches, KmmConfig and
KafkaService both write the config map of Mirror Maker, AkhqConfig and
KafkaService both write the mapping of AKHQ, and all of them depend on brokers
that the Kafka controller restarts. controller-runtime runs one `Reconcile` of a
resource at a time, repeats it after an error, recovers a panic as an error and
merges events that arrive during a cycle into one request. The worker pool
starts a manager for each kind of resource and, for some, a second one for
another API group, so that two reconcilers of the same kind run concurrently in
one process. `PROJECT.json` lists the parts with what is modelled of each, the
source lines of every definition, and the hazards.

## Modules

A model of a reconciler has a variable `pc`, the next call that the running
cycle makes, and `run`, its local variables. Users, pods, other controllers and
crashes interleave between two calls. A step that makes a call can fail instead,
which ends the cycle and queues it again; `Crash` ends the cycle and empties what
the operator keeps in memory. Contents that the code only hashes or compares
(spec, annotations, Secret) are version numbers.

**KafkaReconcile** models `KafkaReconciler.Reconcile`, the
`ReconcileKafka.Reconcile` it calls and both caches of hashes: reading the
resource, clearing conditions, the Secret and the SCRAM synchronisation by
commands in a broker pod, the loop that writes one deployment per broker with or
without waits, the services Secret, the readiness poll and the verdict. The user
edits spec, annotations and Secret at any time.

**BrokerScaling** models `processKafkaReplicas` around that loop: the count of
running deployments, claims and their growth (scale down, wait, scale up), the
wait for brokers, the reassignment of partitions with its status, and scale-in.
Pods and storage are actions of their own; storage may refuse an update, and may
be unable to grow a volume in use.

**KRaftMigration** models the migration branch of `processKafkaReplicas`: the
temporary controller, the three changes of mode of the brokers, the poll for
completion, the removal of the controller and the status write after each step.
A cycle starts from the recorded step, after asking a broker pod for the cluster
ID. The ghost variable `cut` records that a cycle was interrupted while brokers
had left ZooKeeper and step four was not yet recorded.

**DRSwitchover** models one side of a disaster recovery pair:
`KafkaServiceReconciler.Reconcile` with the announcement of a switch in the
status, the audit of the replication, the redeployment of Mirror Maker, every
request, poll and scaling of `ReconcileBackupDaemon`, and the deferred call that
writes the verdict however the cycle returns. A site manager asks for modes and
Secrets change at any time; clients, Mirror Maker, the other side and the pod and
jobs of the backup daemon are external actions. The audit is the `Answer` of
**AuditPromise**, with whatever verdict that specification allows, so that the
model composes with any auditor that keeps the promise. The mode that switches a
side off is "disable" in the code and "disabled" in the documents and the chart,
so both are values of `Modes` and the constant `Asked` tells which ones are used.
Ghost variables: `owed` is what the present mode still has to restore or save,
`waived` that it was asked for with `noWait` or that the audit could not see a
lag, `cut` that the operator crashed during a switch, `lost` that the deferred
write failed, whose error the code drops.

**ReplicationAuditor** models one call of `CheckFullReplication`: the caller with
its ticker, the goroutine of `checkFullReplication`, the two goroutines that
count messages, the wait group that learns of a goroutine only when it runs, the
unbuffered channels, the loop that recounts what is missing, and the choice of
the replicated topics from the configuration of Mirror Maker (`KmmDrConfig`).
Latest and earliest offsets are read by two requests; clients write, Mirror Maker
copies and retention deletes between any two. The ghost variable `must` is what
the audit saw on the active side, `excused` that it could not see all.
`AuditPromise`, its abstract specification, has the lag and one answer.

**WorkerPool** models `main`, the pool and its jobs: which jobs the options
enable, the goroutine of each with build, run, backoff and restart, the count of
failures with its window, the cancelled context, and leases when leader election
is on. Each of the four jobs has its own definitions of when it is enabled, how
it is built, how its managers end and which lease they need. **JobSupervisor** is
its abstract specification: jobs are down, up or ended, and one that stops is
started again unless the operator stops.

**KafkaUser** models the cycle of one resource call by call: cached hashes,
finalizer, generated or given Secret, the user and the ACLs in Kafka, the recorded
version of the Secret and the status. The resource is created, edited, moved to
another Kafka (whose operator has the same finalizer), deleted and created
again; nobody watches the Secret. An answer of the API server may be lost after
the call was done. Specifications differ in what the code tells apart: with a
given Secret, a generated one, one in a namespace without rights, an unwatched
one, none at all, or a role that `createACLs` does not know.

**MirrorMakerConfig** models the config map of Mirror Maker with its writers: two
KmmConfig workers that read it, merge the topics and transformations of their
resource into the flows it names and update it under the version they read, and
the KafkaService worker that creates or replaces it and rolls the deployments
when its version changes. Users edit the map and delete it. Data centre names are
compared as the code does, with and without `ToLower`.

**AkhqConfig** models the topic mapping of AKHQ, the descriptor maps and their
writers: two AkhqConfig workers with finalizer, merge, the two temporary files
through which descriptors are compressed (one name for all reconcilers of the
process), and deletion; and the KafkaService worker, which labels and owns the
mapping, finds the descriptors and deploys AKHQ when the version changes. The
variable `current` is the set of those who hold the current version, which keeps
the state finite although `applyConfig` and the KafkaService cycle rewrite the
labels of the mapping in turn.

Modules whose name ends in **Proofs** hold the theorems about the module they
extend. `OperatorProofs` extends two, `WorkerPool` and `MirrorMakerConfig`; for that
reason the specification of the pool is called `PoolSpec` and its state
`poolVars`.

Definitions whose comment starts with "Variant" are mistakes one could make in
the code. They are used by nothing; putting one in the place of the definition it
varies must make a property fail, which shows that the property sees that code.

## Runs

| Run | Properties | Shows |
|---|---|---|
| `kafka_safety` | `BrokersFollowSpec`, `ServicesFollowSecret`, `SuccessMeansUniform`, `SyncedBeforeRestart` | Brokers follow the spec, the services Secret follows the password, "Successful" is only shown over a uniform rollout, a restart follows a complete synchronisation; with one API error, one crash, one lost pod |
| `kafka_live` | `EventuallyHealthy` | Three brokers, rotation and edit with one API error: the loop comes to rest although each status write queues it again, brokers serve clients in the end, and the status tells a result unless a call failed |
| `scaling_safety` | `WantedBrokersUp`, `ResizeOneByOne`, `ScaleInTargetsExist`, `ScaleInComplete` | At rest all wanted brokers run with volumes of their size; resizes go one by one and are over before partitions are reassigned; scale-in only addresses existing deployments and, without faults and resizes, leaves no excess broker |
| `scaling_live` | `EventuallySettled` | Scaling and resizing come to rest |
| `scaling_reassign` | `PartitionsReassigned` | *Violation:* a scale-out that times out is retried without reassignment |
| `migration` | `ZooKeeperKeptUntilMigrated`, `ControllerLifetime`, `BrokersNeverGoBack`, `MigrationFinishesUnlessCut` | ZooKeeper is kept until the metadata is copied, the controller is kept while it is needed, brokers never go back, and the migration survives faults and ends, unless it is interrupted after brokers left ZooKeeper or loses the log that tells the copy is complete |
| `dr_switchover` | `VerdictShownAtRest`, `ActiveMeansReplicatedUnlessCut`, `MirrorFollowsMode`, `NothingOwedWhenDone`, `SwitchoverSettles` | At rest the status shows how the switch ended; a switch that is done without `noWait` has all messages (unless the operator crashed in it), Mirror Maker runs on a standby side only, nothing is left to back up or restore, and every switch gets a verdict unless the backup daemon can never answer |
| `replication_audit` | `PassMeansCopied`, `AuditKeepsPromise`, `StopsPolling` | An audit that passes has seen everything copied, however the counts of the two sides interleave with writes, mirroring and retention; it answers in any case, and what it leaves behind after its timeout stops asking Kafka |
| `worker_pool` | `StopsAtTheLimit`, `JobsSupervised`, `GroupsServed` | The pool implements `JobSupervisor`, gives up exactly at the limit of failures, and every manager that stays up gets its lease |
| `kafka_user` | `RecordNotAhead`, `SuccessMeansApplied`, `NoOrphan`, `EventuallyApplied` | Whatever fails while a resource is edited, moved, deleted and created again, it leaves nothing in Kafka, a recorded version of the Secret is never ahead of the password, a resource at rest is a "success" and the success is true, deletions complete and what can be applied is |
| `mirror_maker_config` | `ProcessedMeansMerged`, `RolledOutAtRest`, `NothingTaken`, `DeploymentsFollow`, `ConfigsProcessed` | Three writers of one map lose nothing of each other, every resource that can be merged is merged once the map exists, none is forgotten, and Mirror Maker is deployed with the last version whenever the worker rests, which it does in the end |
| `akhq_config` | `ProcessedMeansMapped`, `NoEntryWithoutResource`, `DeployedWithDescriptors`, `OthersKept`, `ResourcesSettle`, `AkhqFollows` | At rest every resource is processed, rejected or gone; the mapping has what processed ones ask for and nothing of deleted ones, no cycle changes what another resource has there, and AKHQ runs with the descriptors of all entries of the last mapping |

`cd tla; tlc -config KafkaSafety.cfg KafkaReconcile` repeats a run; `PROJECT.json`
names module and configuration of each.

### What the properties leave out

Some properties have exceptions, which are ghost variables or conditions of their
own, each for something the code does:

- `cut` (`KRaftMigration`): see MigrationCut below. `cut` (`DRSwitchover`): a crash
  in a switch forgets that the audit failed, and the backup daemon's reconciler may
  report "done".
- `lost` (`DRSwitchover`): the error of the deferred status write is dropped.
- `excused` (`ReplicationAuditor`): replication is off, an error of a count of the
  active side was dropped (`messagesCount, _ :=`), or retention had deleted
  messages; numbers of messages, not offsets, are compared.
- `kept` (`KafkaUser`): the hashes are forgotten after the answer to the removal
  of the finalizer; when that answer is lost they stay in memory, and a resource
  created again with the same contents is taken for unchanged. `moved`: both operators use the same finalizer, so
  what a resource left in the first Kafka is not removed by the second.
- `touched` (`MirrorMakerConfig`): a flow was edited by hand or went with a deleted
  map; merged resources are not merged again by themselves.
- `mixed` (`AkhqConfig`): two reconcilers of one process use the temporary file of
  `compressBytes` at a time. `lost`: the mapping was deleted. `Collision`: a cycle
  is about to write a mapping that somebody changed; the workers can keep each
  other busy, because `applyConfig` removes the labels that the KafkaService cycle
  puts back.

### Bounds

Two or three brokers: two tell "this one" from "another one", three give loops a
middle, and scale-in needs four to have one excess broker done and two left. Two
versions of the spec and of the Secret make one old and one new, three a further
edit during a cycle. One failure, crash and lost pod each, in any place and
combination: every cycle starts from the state the previous one left, so a second
failure meets nothing new that the first could not have left, and the theorems
cover any number. A switchover has one fault of any kind, two requests and one
change of Secrets: enough for a switch that fails, is retried and is overtaken by
another one, there and back.

An audit has two topics, one of them perhaps excluded or not there, and a service
topic, with one message and one purge each and one failed request: a count can be
right, stale, short or missing for one topic while the other is good, which is all
the comparison tells apart. The pool has a limit of two failures (one below it,
one at it), one passing hour to reset the window, and five sets of options that
between them enable every kind of job, with one or two API groups, with and
without leader election. A KafkaUser has three edits (create, move or delete,
create again), two versions of the Secret and two faults, so that the recovery of
a fault can fail too. The maps of Mirror Maker and
AKHQ have two resources, the fewest that can conflict, next to the KafkaService
worker. Data centres are called "DC1" and "dc2", because the code compares names
with and without `ToLower`. One AkhqConfig resource was applied before the start, so
that the run spends its two events on what comes after.

`CHECK_DEADLOCK FALSE` is set because the operator rests when there is nothing to
do.

### Fairness

Weak fairness of the worker of each controller: it keeps running as long as the
queue has a request, and controller-runtime queues a failed request again. Weak
fairness of pods and of binding a volume: Kubernetes starts what a deployment
asks for. Strong fairness of growing a volume: storage that can only grow a
detached volume gets its chance only while the broker is down. The backup daemon
ends the jobs it starts; that the other side makes a backup and that Mirror Maker
catches up is not assumed. Every goroutine of an audit and of the pool is
scheduled as long as it is not blocked, and timers fire, which the Go runtime
guarantees; a manager need not end, except when its context is cancelled. Leases
expire and are taken. The operator of the other Kafka works on resources that are
moved to it. Users, API errors, crashes, lost pods, edits of maps, messages, copies
and retention have no fairness; a liveness property must hold when they never
come.

## Where code and documents disagree

`scaling_reassign` is a run that must fail: a comment at the reassignment says that
scaling always reassigns, but a scale-out whose broker is not ready in time has
its deployments by the time of the retry, which is then no scaling any more.
`PROJECT.json` quotes the comment under `findings`.

These configurations fail as well and reproduce other cases that the models
brought up; the passing runs exclude them as said above.

| Configuration | Module | Fails because |
|---|---|---|
| `KafkaRevert.cfg` | `KafkaReconcile` | a spec reverted after a failed cycle has the cached hash and is taken for unchanged (`BrokersFollowSpec`) |
| `ScalingExcess.cfg` | `BrokerScaling` | a failed call in a scale-in leaves the last excess broker running: the retry counts one deployment less (`ExcessBrokersDown`) |
| `MigrationCut.cfg` | `KRaftMigration` | after an interruption while brokers had left ZooKeeper no retry gets past the question for the cluster ID (`MigrationFinishes`) |
| `DRRetry.cfg` | `DRSwitchover` | a failed switch to standby is retried for ever, each time asking for a backup of a daemon that is scaled down (`RetrySucceeds`) |
| `DRDisabled.cfg` | `DRSwitchover` | Mirror Maker runs on a side in the documented mode "disabled" (`DisabledStopsReplication`) |
| `WorkerGroups.cfg` | `WorkerPool` | the AkhqConfig managers of both API groups have one LeaderElectionID, so under leader election one of them never works (`GroupsServed`) |

## Proofs

All theorems hold for every value of the constants (brokers, topics, resources,
options, and every bound on edits, errors, timeouts and crashes) from the named
assumptions only, which say that bounds are natural numbers, flags are Booleans
and choices are subsets of what the code knows. Each module has a theorem that
its types are right and one per safety property listed below. The argument is
always the same: an inductive invariant `IInv`, `Init => IInv`, one lemma per
group of actions for `IInv /\ [Next]_vars => IInv'`, and `IInv => Inv`. Leaves that
need no arithmetic name Zenon; the others are left to the SMT solver.

That something happens in the end is out of the prover's reach, but the other half
of it is not: that a worker with nothing left to do leaves nothing undone. The
invariants about loops and workers at rest (`BrokersFollowSpec`, `WantedBrokersUp`,
`VerdictShownAtRest`, `SuccessMeansApplied`, `ProcessedMeansMerged`,
`RolledOutAtRest`, `ProcessedMeansMapped`, `DeployedWithDescriptors`) state it and are
proved; what TLC adds under fairness is that the workers come to rest.

**KafkaReconcile.** `RolloutCorrect`, `SuccessUniform`, `ServicesCorrect` and `SyncCorrect` state the
invariants of `kafka_safety`. `BrokersFollowSpec` is about a loop at rest and says
nothing about a running cycle, so the inductive invariant adds what the cycle has
done so far (`Progress`: brokers before the loop variable have the spec of the
cycle), that cached, read and written specs are ordered (`SpecOrder`,
`CacheOrder`), what the decision "changed" is worth (`ChangedFlag`), and that an
edit that was not read is queued (`NotMissed`). `RolloutCorrect` and
`SuccessUniform` assume that no edit reverts a spec; `KafkaRevert.cfg` shows that
the first needs it. The second does too: with reverts, when a rollout is stopped
in the middle by an error and the next cycle finds the old spec with a new
annotation, it skips the brokers and shows Successful over two kinds of them. The services Secret and
the synchronisation have invariants of their own over the versions of the Secret
(`ServicesKnown`, `Sync`).

**BrokerScaling.** `ScalingCorrect`, `ResizeCorrect` and `ScaleInCorrect`. The
invariant is `Progress` over the broker loop, `Order` of the spec numbers, `Bounded`
(no volume exceeds its request, so a refused update cannot go unnoticed) and
`Known` (a cached number stands for a spec in place). `ScaleInCorrect` adds `Named`:
deployments, once created, form an initial segment of the broker numbers, so a
count of running ones never exceeds the highest name; it uses cardinality facts
of the library. `ScaleInCompleteThm` is the other side of that count: `Exact` says
that the running brokers have no gap (`NoGap`), so that their number is the last
name, that the count taken at the start of the cycle still covers every broker
beyond the replicas, and that the loop has passed those before its variable. It
holds as long as the run is `Undisturbed`: a failed call, a restart or a resize
may stop a broker in the middle, and then the count is smaller than a name.

**KRaftMigration.** `MigrationSafe`, `ControllerOutlives` and `MigrationForward`. The invariant ties the
recorded step to the modes brokers can have (`Staged`), follows the two loops of
each step (`Loops`), says where all brokers have been seen in the new mode
(`Seen`), that nothing but the line in the log leads past step two (`Copied`), and
which objects of the controller exist at each point (`Controller`). The conjunct
that carries the retries is that a controller that has lost ZooKeeper, or one of
its objects, implies that all brokers are settled in a mode that allows it, so
that repeating the step changes nothing.

**DRSwitchover.** `VerdictShown`, `MirrorFollows`, `ActiveReplicated` and
`NothingOwed`. `VerdictShownAtRest` needs
that a cycle without events since `Get` works on the present resource, and one
that announced no switch on a status that needs none (`Shown`). For Mirror Maker,
`Audited` says that a switch without a passed audit is a failed one, and `Followed`
that a status "done" was reached with the replicas of its mode, or by a cycle
whose operator crashed. In that case the reconciler of the backup daemon may have
written "done" over a switch whose audit failed; the crash emptied the hashes and
queued an event, so the next cycle deploys Mirror Maker whatever the status says.
`Known` keeps modes in the status to those asked for; `MirrorFollows` assumes that
"disabled" is none of them, and `DRDisabled.cfg` shows that this is needed.
The last two theorems rest on `Owing`, an invariant over the ghosts `lag`, `owed`,
`cut` and `lost`. `Announced` says that a status "running" is that of the present
cycle; `Replicated` that an active side has all messages, or its switch is before
the audit, has failed or will be shown as failed; `Indebted` that a debt belongs
to the mode in the status and to a cycle that is still before the call that
settles it, or that is going to fail. A switch that failed keeps its debt until
the retry, which is why both need to know which cycle wrote the status.

**ReplicationAuditor.** `PassMeansCopiedThm` and `PromiseThm`. The verdict is drawn
from counts of different ages, so the invariant bounds each of them: the standby
side, and any count of it however old, has no more than was copied (`Copies`,
`CountedCopies`); counts of the active side are what the audit saw, unless excused
(`CountedActive`), and do not change once taken (`Final`); a partition dropped from
`missing` is copied (`NotMissing`); the comparison starts with both counts
(`Ready`). `PromiseThm` maps every step to a step or a stutter of `AuditPromise`; the
clusters may change the lag as they like there, so all that takes an argument is
that an answer is given once and that "passed" is allowed. `DRSwitchover` uses the same `AuditPromise!Answer`, which is what
composes the two.

**WorkerPool** (in `OperatorProofs`). `StopsAtTheLimitThm` and `SupervisedThm`. `Counted` relates the
counter of the code to the errors of a window: they differ by the end without an
error that may have started it, and a goroutine that goes on is below the limit.
`SupervisedThm` maps every step to one of `JobSupervisor`; it needs `Exited`, that the
process is over only when all goroutines are.

**KafkaUser.** `NoOrphanThm`, `RecordNotAheadThm` and `SuccessMeansAppliedThm`.
`Guarded` says that what Kafka has is guarded by the finalizer, also while a cycle
works on a copy of the resource that is out of date; `Emptied` and `Doomed` that the
finalizer is removed only over an empty Kafka and by a cycle of a deletion.
`Versions` orders the versions of the Secret that status, cycle, password and
Secret have. "Success" rests on `Hashes` (a cached hash stands for a specification
that is applied), `Progress` of the running cycle and `Latest` (an edit that was not
read is queued). That a resource at rest is a success at all, of its present
generation and not half deleted, is `Reported`: a cycle that nothing follows works
for the present generation and ends with that report, because every other end
queues the resource again.

**MirrorMakerConfig** (in `OperatorProofs`). `MirrorTypes`,
`ProcessedMeansMergedThm`, `RolledOutAtRestThm` and `NothingTakenThm`. The map is written whole, from a
copy that may be old, so the invariant `MInv` says what a copy is worth: no version
that anybody remembers is newer than the map (`Versions`), so a cycle whose version
is that of the map holds the map as it is, with its own resource merged in
(`Prepared`); any other is refused by the API server. `Generations` does the same for
the resource: a cycle whose generation is current works for the present
specification. `Writers` says that who finds no map, or replaces it, destroys
nothing of a resource. From these every step is shown to keep what the others
have in the map (`Kept`) and to leave versions growing (`Moved`), and `InMap`, what
"processed" promises, follows for each resource by itself. The lemma `MergedFlows`
states what the merge does to one flow. `Settled` says that no resource is forgotten:
when its cycle has ended and no other is to come, it is processed without a
problem. `Rollout` does the same for Mirror Maker: without an event to come
the deployments the cycle is past have the version of the map, which is the one
the cycle has read. `MapQueues` and `OthersQueue` are the reason: a write that gives
the map another version is an event. The type invariant carries more than types (no
list names an undefined transformation, no remembered version is one the map has
not had), so it is a theorem here although no run spends time on it.

**AkhqConfig.** `NoEntryWithoutResourceThm`, `DeployedWithDescriptorsThm`,
`OthersKeptThm` and `ProcessedMeansMappedThm`. `Guarded` and `Finalized` say that a resource with entries, or with
a cycle about to write some, has the finalizer and so cannot go; `Described` that
the descriptor of an entry is there before the entry; `Read` that a cycle which
holds the current version has the entries of all others as they are, which is
what the conflict check of the API server gives; `Found` that the maps the
KafkaService cycle collected belong to the mapping whose version it read.
What "processed" promises has an invariant of its own, also called `MInv`: a cycle
without news works for the present specification (`Fresh`), it has written the
descriptors of what it no longer has to do (`Worked`), and until two compressions
overlap one cycle at most is between storing and reading the files, and they hold
its content (`Files`). `Answered` adds that no resource is forgotten: without another
cycle to come it is not being deleted, unless a deletion is under way, and has an
answer once the cycle ends. `Followed` is its counterpart for AKHQ: a mapping with an
owner cannot change without an event, so without one the cycle holds the current
version, and the version it stores is the one AKHQ was deployed for.

Only model-checked: liveness, which rests on fairness and is out of the prover's
reach (with it the fairness parts of `AuditKeepsPromise` and `JobsSupervised`).
Every invariant of the passing runs, and every property of steps, has a theorem.

## Not modelled

The content of generated objects (images, resources, affinity, environment other
than the mode), logging and metrics. Reads are of the current state: the informer
cache of controller-runtime may lag behind by the time a watch event takes. The
cluster ID as a value. The text of the yaml and properties files; the models have
their entries. What the Kafka image does beyond reading credentials at start and
answering the probe.

The choice of replicas in a reassignment (`kafka_client.go`) is an algorithm over
maps in random order within one call; nothing happens concurrently to it, and what
it computes for every input is an induction over data that neither tool does
here. Monitoring, lag exporter and integration test reconcilers repeat the
pattern of `KafkaReconcile` with one deployment and no state of their own.
Exporters, templates, message filters and sequential scripts (`backup-daemon`,
`crd-init`) have nothing to interleave with.
