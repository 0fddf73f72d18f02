--------------------------- MODULE KafkaReconcile ---------------------------
(* The reconcile loop of the Kafka custom resource                           *)
(* (operator/controllers/kafka): the outer KafkaReconciler.Reconcile, the    *)
(* ReconcileKafka.Reconcile it calls, the hash and version caches both keep  *)
(* in the memory of the operator, the conditions both publish in the status  *)
(* of the resource, and the rotation of the Kafka credentials.               *)
(*                                                                           *)
(* controller-runtime runs one Reconcile of a resource at a time.  "pc" is   *)
(* the next call that Reconcile makes to the Kubernetes API or to Kafka; the *)
(* user, the kubelet and a crash of the operator interleave between calls.   *)
(* Contents are version numbers: spec, annotations and Secret are numbered   *)
(* by edit, and 0 is the empty string of a map entry that is not there.      *)
(* The number of brokers, the annotations of their volumes and the way their *)
(* partitions are assigned are fixed here; module BrokerScaling changes them *)
(* and models what processKafkaReplicas does around the broker loop.         *)
EXTENDS Naturals

CONSTANTS
    N,                 \* spec.replicas
    Kraft,             \* spec.kraft.enabled: TRUE in KRaft mode
    RollingUpdate,     \* spec.rollingUpdate
    WaitForPodsReady,  \* spec.waitForPodsReady
    AutoRestart,       \* the Secret carries the auto-restart annotation
    Reverts,           \* an edit may bring back an earlier spec
    MaxSpec, MaxAnn, MaxSecret,          \* bounds on the edits of the user
    MaxFailures, MaxCrashes, MaxLosses   \* bounds on API errors, operator
                                         \* crashes and lost pods

ASSUME NAssumption == N \in Nat \ {0}

ASSUME FlagAssumption ==
    /\ Kraft \in BOOLEAN /\ RollingUpdate \in BOOLEAN
    /\ WaitForPodsReady \in BOOLEAN /\ AutoRestart \in BOOLEAN
    /\ Reverts \in BOOLEAN

ASSUME BoundAssumption ==
    /\ MaxSpec \in Nat /\ MaxAnn \in Nat /\ MaxSecret \in Nat
    /\ MaxFailures \in Nat /\ MaxCrashes \in Nat /\ MaxLosses \in Nat

VARIABLES
    spec, ann, secret,  \* the custom resource and the Kafka Secret
    cond,               \* status.conditions: condition reason -> type
    services,           \* client password in the services Secret
    deploy,             \* broker -> pod template of its deployment
    pod,                \* broker -> its pod
    scram,              \* SCRAM credentials stored in Kafka
    cache,              \* ResourceHashes and ResourceVersions
    pc, run,            \* where Reconcile is, and its local variables
    queued,             \* the work queue holds a request
    faults,             \* failures, crashes and lost pods so far
    unsynced            \* history: users whose password in Kafka a cycle left
                        \* behind the Secret it read

vars == <<spec, ann, secret, cond, services, deploy, pod, scram, cache, pc,
          run, queued, faults, unsynced>>

Brokers == 1..N

Users == {"admin", "client"}

Reasons == {"cycle", "readiness"}

Types == {"none", "InProgress", "Failed", "Ready", "Successful"}

Secrets == [rv : Nat, admin : Nat, client : Nat]

Steps == {"idle", "clear", "begin", "watch", "sync", "exec", "rollout",
          "wait", "waitAll", "kstatus", "services", "pvc", "checking",
          "health", "poll", "verdict"}

\* Steps whose error makes the controller write a Failed condition before it
\* returns the error; the other steps just return it.
WritesFailed == {"watch", "sync", "exec", "rollout", "wait", "waitAll",
                 "kstatus", "services", "health", "poll", "verdict"}

EmptyCache == [spec |-> 0, ann |-> 0, rv |-> 0, admin |-> 0, client |-> 0]

NoRun == [spec |-> 0, ann |-> 0, changed |-> FALSE,
          secret |-> [rv |-> 0, admin |-> 0, client |-> 0],
          broker |-> 1, todo |-> {}, pod |-> 0]

Templates == [spec : Nat, rv : Nat]

Pods == [state : {"down", "starting", "ready", "failing"}, client : Nat]

Caches == [spec : Nat, ann : Nat, rv : Nat, admin : Nat, client : Nat]

\* The values of the loop variable brokerId, past the end included.
BrokerIds == 1..(N + 1)

Runs == [spec : Nat, ann : Nat, changed : BOOLEAN,
         secret : Secrets, broker : BrokerIds, todo : SUBSET Users,
         pod : Brokers \cup {0}]

Faults == [failures : Nat, crashes : Nat, losses : Nat]

\* Every variable has the shape of the object it stands for, and the broker
\* loop stays within the replicas of the spec.
TypeOK ==
    /\ spec \in Nat /\ ann \in Nat /\ secret \in Secrets
    /\ cond \in [Reasons -> Types]
    /\ services \in Nat
    /\ deploy \in [Brokers -> Templates]
    /\ pod \in [Brokers -> Pods]
    /\ scram \in [Users -> Nat]
    /\ cache \in Caches
    /\ pc \in Steps /\ run \in Runs
    /\ queued \in BOOLEAN
    /\ faults \in Faults
    /\ unsynced \subseteq Users

\* An installed cluster whose last cycle succeeded.
Init ==
    /\ spec = 1 /\ ann = 1
    /\ secret = [rv |-> 1, admin |-> 1, client |-> 1]
    /\ cond = [r \in Reasons |-> IF r = "cycle" THEN "Successful"
                                 ELSE IF WaitForPodsReady THEN "Ready"
                                 ELSE "none"]
    /\ services \in {0, 1}
    /\ deploy = [b \in Brokers |-> [spec |-> 1,
                                    rv |-> IF AutoRestart THEN 1 ELSE 0]]
    /\ pod = [b \in Brokers |-> [state |-> "ready", client |-> 1]]
    /\ scram = [u \in Users |-> 1]
    /\ cache = [spec |-> 1, ann |-> 1, rv |-> 1, admin |-> 1, client |-> 1]
    /\ pc = "idle" /\ run = NoRun
    /\ queued = FALSE
    /\ faults = [failures |-> 0, crashes |-> 0, losses |-> 0]
    /\ unsynced = {}

-----------------------------------------------------------------------------
(* The user *)

\* Every watched change (of the resource, of its status, of the Secret)
\* reaches the work queue, which keeps at most one request per resource.
EditSpec ==
    /\ \E s \in 1..MaxSpec :
          /\ s # spec
          /\ Reverts \/ s = spec + 1
          /\ spec' = s
    /\ queued' = TRUE
    /\ UNCHANGED <<ann, secret, cond, services, deploy, pod, scram, cache, pc,
                   run, faults, unsynced>>

EditAnnotations ==
    /\ ann < MaxAnn
    /\ ann' = ann + 1
    /\ queued' = TRUE
    /\ UNCHANGED <<spec, secret, cond, services, deploy, pod, scram, cache, pc,
                   run, faults, unsynced>>

\* New passwords for some of the users; none when other keys are edited.
EditSecret(users) ==
    /\ secret.rv < MaxSecret
    /\ LET v == secret.rv + 1
       IN  secret' = [rv |-> v,
                      admin |-> IF "admin" \in users THEN v
                                ELSE secret.admin,
                      client |-> IF "client" \in users THEN v
                                 ELSE secret.client]
    /\ queued' = TRUE
    /\ UNCHANGED <<spec, ann, cond, services, deploy, pod, scram, cache, pc,
                   run, faults, unsynced>>

-----------------------------------------------------------------------------
(* The outer Reconcile: before the component reconcilers *)

\* updateConditions: a status write that changes something is itself an event.
SetConditions(c) ==
    /\ cond' = c
    /\ queued' = (queued \/ c # cond)

SetCondition(reason, type) == SetConditions([cond EXCEPT ![reason] = type])

\* Read the resource and compare its hashes with the cached ones.
Get ==
    /\ pc = "idle" /\ queued
    /\ queued' = FALSE
    /\ LET changed == cache.spec # spec \/ cache.ann # ann
       IN  /\ run' = [NoRun EXCEPT !.spec = spec, !.ann = ann,
                                   !.changed = changed]
           /\ pc' = IF changed THEN "clear" ELSE "watch"
    /\ UNCHANGED <<spec, ann, secret, cond, services, deploy, pod, scram,
                   cache, faults, unsynced>>

ClearAllConditions ==
    /\ pc = "clear"
    /\ SetConditions([r \in Reasons |-> "none"])
    /\ pc' = "begin"
    /\ UNCHANGED <<spec, ann, secret, services, deploy, pod, scram, cache, run,
                   faults, unsynced>>

BeginCycle ==
    /\ pc = "begin"
    /\ SetCondition("cycle", "InProgress")
    /\ pc' = "watch"
    /\ UNCHANGED <<spec, ann, secret, services, deploy, pod, scram, cache, run,
                   faults, unsynced>>

-----------------------------------------------------------------------------
(* ReconcileKafka.Reconcile *)

\* adminChanged and clientChanged: the hash of an earlier cycle is known and
\* is not the hash of the Secret this cycle read.
Differs(user, s) == cache[user] # 0 /\ cache[user] # s[user]

Changed(user) == Differs(user, run.secret)

\* Without a known hash, after a restart of the operator, no password counts as
\* changed, also one that is not the one in Kafka.
Unnoticed(s) == {u \in Users : cache[u] = 0 /\ scram[u] # s[u]}

\* Variant: the hash of the spec is stored before the rollout.
WatchSecretStoresHash ==
    /\ pc = "watch"
    /\ run' = [run EXCEPT !.secret = secret]
    /\ unsynced' = unsynced \cup Unnoticed(secret)
    /\ pc' = IF cache.spec = run.spec /\ cache.rv = secret.rv
             THEN "services"
             ELSE IF \E u \in Users : Differs(u, secret) THEN "sync"
             ELSE "rollout"
    /\ cache' = [cache EXCEPT !.spec = run.spec]
    /\ UNCHANGED <<spec, ann, secret, cond, services, deploy, pod, scram,
                   queued, faults>>

\* Variant: changed credentials are rolled out without the SCRAM sync.
WatchSecretNoSync ==
    /\ pc = "watch"
    /\ run' = [run EXCEPT !.secret = secret]
    /\ unsynced' = unsynced \cup Unnoticed(secret)
    /\ pc' = IF cache.spec = run.spec /\ cache.rv = secret.rv
             THEN "services" ELSE "rollout"
    /\ UNCHANGED <<spec, ann, secret, cond, services, deploy, pod, scram,
                   cache, queued, faults>>

WatchSecret ==
    /\ pc = "watch"
    /\ run' = [run EXCEPT !.secret = secret]
    /\ unsynced' = unsynced \cup Unnoticed(secret)
    /\ pc' = IF cache.spec = run.spec /\ cache.rv = secret.rv
             THEN "services"
             ELSE IF \E u \in Users : Differs(u, secret) THEN "sync"
             ELSE "rollout"
    /\ UNCHANGED <<spec, ann, secret, cond, services, deploy, pod, scram,
                   cache, queued, faults>>

\* syncScramCredentials: pick a ready pod, or go on without one.
PickPod(b) ==
    /\ pc = "sync"
    /\ pod[b].state = "ready"
    /\ run' = [run EXCEPT !.pod = b, !.todo = {u \in Users : Changed(u)}]
    /\ pc' = "exec"
    /\ UNCHANGED <<spec, ann, secret, cond, services, deploy, pod, scram,
                   cache, queued, faults, unsynced>>

SkipSync ==
    /\ pc = "sync"
    /\ \A b \in Brokers : pod[b].state # "ready"
    /\ unsynced' = unsynced \cup {u \in Users : /\ Changed(u)
                                             /\ scram[u] # run.secret[u]}
    /\ pc' = "rollout"
    /\ UNCHANGED <<spec, ann, secret, cond, services, deploy, pod, scram,
                   cache, run, queued, faults>>

\* kafka-configs.sh authenticates as the client user, with the password the
\* pod loaded when it started (its adminclient.properties).
CanExec ==
    /\ run.pod \in Brokers
    /\ pod[run.pod].client = scram["client"]

NextUser == IF "admin" \in run.todo THEN "admin" ELSE "client"

\* Variant: only the first changed user is updated.
ExecFirstUserOnly ==
    /\ pc = "exec" /\ CanExec
    /\ scram' = [scram EXCEPT ![NextUser] = run.secret[NextUser]]
    /\ unsynced' = unsynced \ {NextUser}
    /\ run' = [run EXCEPT !.todo = {}]
    /\ pc' = "rollout"
    /\ UNCHANGED <<spec, ann, secret, cond, services, deploy, pod, cache,
                   queued, faults>>

\* updateScramUserInPod.
Exec ==
    /\ pc = "exec" /\ CanExec
    /\ scram' = [scram EXCEPT ![NextUser] = run.secret[NextUser]]
    /\ unsynced' = unsynced \ {NextUser}
    /\ run' = [run EXCEPT !.todo = @ \ {NextUser}]
    /\ pc' = IF run.todo \subseteq {NextUser} THEN "rollout" ELSE "exec"
    /\ UNCHANGED <<spec, ann, secret, cond, services, deploy, pod, cache,
                   queued, faults>>

\* The template rolloutBroker generates: the version of the Secret is an
\* annotation of it only if the credentials changed or auto-restart is on.
Template ==
    [spec |-> run.spec,
     rv |-> IF Changed("admin") \/ Changed("client") \/ AutoRestart
            THEN run.secret.rv ELSE 0]

WaitForEachBroker == RollingUpdate /\ N >= 3 /\ ~Changed("admin")

\* Where rolloutBrokers goes after broker b.
AfterBroker(b) ==
    IF b < N THEN "rollout"
    ELSE IF Changed("admin") THEN "waitAll" ELSE "kstatus"

\* rolloutBroker: a template that changed makes Kubernetes recreate the pod.
RolloutBroker ==
    /\ pc = "rollout"
    /\ LET b == run.broker
       IN  /\ deploy' = [deploy EXCEPT ![b] = Template]
           /\ pod' = IF deploy[b] = Template THEN pod
                     ELSE [pod EXCEPT ![b].state = "down"]
           /\ IF WaitForEachBroker
              THEN pc' = "wait" /\ UNCHANGED run
              ELSE /\ pc' = AfterBroker(b)
                   /\ run' = [run EXCEPT !.broker = b + 1]
    /\ UNCHANGED <<spec, ann, secret, cond, services, scram, cache, queued,
                   faults, unsynced>>

\* waitUntilBrokerIsReady.
BrokerReady ==
    /\ pc = "wait"
    /\ pod[run.broker].state = "ready"
    /\ pc' = AfterBroker(run.broker)
    /\ run' = [run EXCEPT !.broker = @ + 1]
    /\ UNCHANGED <<spec, ann, secret, cond, services, deploy, pod, scram,
                   cache, queued, faults, unsynced>>

\* waitUntilAllBrokersReady.
AllBrokersReady ==
    /\ pc = "waitAll"
    /\ \A b \in Brokers : pod[b].state = "ready"
    /\ pc' = "kstatus"
    /\ UNCHANGED <<spec, ann, secret, cond, services, deploy, pod, scram,
                   cache, run, queued, faults, unsynced>>

\* updateKafkaStatus writes the names of the pods, which nothing reads; when
\* they changed, the write is an event.
UpdateKafkaStatus ==
    /\ pc = "kstatus"
    /\ pc' = "services"
    /\ queued' \in {queued, TRUE}
    /\ UNCHANGED <<spec, ann, secret, cond, services, deploy, pod, scram,
                   cache, run, faults, unsynced>>

\* Variant: the version of the Secret is stored before it is compared.
FinishKafkaStoresFirst ==
    /\ pc = "services"
    /\ cache' = [cache EXCEPT !.spec = run.spec,
                              !.rv = run.secret.rv,
                              !.admin = run.secret.admin,
                              !.client = run.secret.client]
    /\ pc' = "pvc"
    /\ UNCHANGED <<spec, ann, secret, cond, services, deploy, pod, scram, run,
                   queued, faults, unsynced>>

\* The services Secret follows the client password if it exists; then the
\* cycle's hashes and the version of the Secret are remembered.
FinishKafka ==
    /\ pc = "services"
    /\ services' = IF services = 0 \/ cache.rv = run.secret.rv
                   THEN services ELSE run.secret.client
    /\ cache' = [cache EXCEPT !.spec = run.spec,
                              !.rv = run.secret.rv,
                              !.admin = run.secret.admin,
                              !.client = run.secret.client]
    /\ pc' = "pvc"
    /\ UNCHANGED <<spec, ann, secret, cond, deploy, pod, scram, run, queued,
                   faults, unsynced>>

-----------------------------------------------------------------------------
(* The outer Reconcile: after the component reconcilers *)

\* updatePvcStatus, which has nothing to write while the annotations of the
\* volumes are the same.  An unchanged resource then ends the cycle, which
\* stores the hashes it started with.
UpdatePvcStatus ==
    /\ pc = "pvc"
    /\ IF run.changed
       THEN /\ pc' = IF WaitForPodsReady THEN "checking" ELSE "verdict"
            /\ UNCHANGED cache
       ELSE /\ pc' = "idle"
            /\ cache' = [cache EXCEPT !.spec = run.spec, !.ann = run.ann]
    /\ UNCHANGED <<spec, ann, secret, cond, services, deploy, pod, scram, run,
                   queued, faults, unsynced>>

CheckReadiness ==
    /\ pc = "checking"
    /\ SetCondition("cycle", "InProgress")
    /\ pc' = "health"
    /\ UNCHANGED <<spec, ann, secret, services, deploy, pod, scram, cache, run,
                   faults, unsynced>>

\* ReconcileKafka.Status: in progress, then the result of the poll.  A poll
\* that times out is a Failed condition, not an error.
StartHealthCheck ==
    /\ pc = "health"
    /\ SetCondition("readiness", "InProgress")
    /\ pc' = "poll"
    /\ UNCHANGED <<spec, ann, secret, services, deploy, pod, scram, cache, run,
                   faults, unsynced>>

PollPods ==
    /\ pc = "poll"
    /\ SetCondition("readiness",
                    IF \A b \in Brokers : pod[b].state = "ready"
                    THEN "Ready" ELSE "Failed")
    /\ pc' = "verdict"
    /\ UNCHANGED <<spec, ann, secret, services, deploy, pod, scram, cache, run,
                   faults, unsynced>>

HasFailedConditions == \E r \in Reasons : cond[r] = "Failed"

\* Variant: the hash stored is the one of the spec as it is by now.
VerdictRereadsSpec ==
    /\ pc = "verdict"
    /\ SetCondition("cycle", IF HasFailedConditions THEN "Failed"
                             ELSE "Successful")
    /\ cache' = [cache EXCEPT !.spec = spec, !.ann = run.ann]
    /\ pc' = "idle"
    /\ UNCHANGED <<spec, ann, secret, services, deploy, pod, scram, run,
                   faults, unsynced>>

Verdict ==
    /\ pc = "verdict"
    /\ SetCondition("cycle", IF HasFailedConditions THEN "Failed"
                             ELSE "Successful")
    /\ cache' = [cache EXCEPT !.spec = run.spec, !.ann = run.ann]
    /\ pc' = "idle"
    /\ UNCHANGED <<spec, ann, secret, services, deploy, pod, scram, run,
                   faults, unsynced>>

-----------------------------------------------------------------------------
(* Errors and crashes *)

\* Reconcile returns an error and its request is queued again.  The write of
\* the Failed condition may fail as well, which is only logged.
ReturnError ==
    /\ \/ pc \in WritesFailed /\ cond' = [cond EXCEPT !["cycle"] = "Failed"]
       \/ UNCHANGED cond
    /\ pc' = "idle"
    /\ queued' = TRUE

\* A call to the Kubernetes API fails.  The readiness polls treat an error as
\* "not ready yet".
ApiError ==
    /\ pc \notin {"idle", "wait", "waitAll"}
    /\ faults.failures < MaxFailures
    /\ faults' = [faults EXCEPT !.failures = @ + 1]
    /\ ReturnError
    /\ UNCHANGED <<spec, ann, secret, services, deploy, pod, scram, cache, run,
                   unsynced>>

\* The command ran, but the exec stream broke or the tool wrote to stderr.
ExecErrorAfterEffect ==
    /\ pc = "exec" /\ CanExec
    /\ faults.failures < MaxFailures
    /\ faults' = [faults EXCEPT !.failures = @ + 1]
    /\ scram' = [scram EXCEPT ![NextUser] = run.secret[NextUser]]
    /\ unsynced' = unsynced \ {NextUser}
    /\ ReturnError
    /\ UNCHANGED <<spec, ann, secret, services, deploy, pod, cache, run>>

\* The pod is gone, or Kafka does not accept the password it loaded.
ExecRejected ==
    /\ pc = "exec" /\ ~CanExec
    /\ ReturnError
    /\ UNCHANGED <<spec, ann, secret, services, deploy, pod, scram, cache, run,
                   faults, unsynced>>

WaitTimeout ==
    /\ \/ pc = "wait" /\ pod[run.broker].state # "ready"
       \/ pc = "waitAll" /\ \E b \in Brokers : pod[b].state # "ready"
    /\ ReturnError
    /\ UNCHANGED <<spec, ann, secret, services, deploy, pod, scram, cache, run,
                   faults, unsynced>>

\* The operator restarts with empty caches; the informer lists the resource.
Crash ==
    /\ faults.crashes < MaxCrashes
    /\ faults' = [faults EXCEPT !.crashes = @ + 1]
    /\ cache' = EmptyCache
    /\ pc' = "idle" /\ run' = NoRun
    /\ queued' = TRUE
    /\ UNCHANGED <<spec, ann, secret, cond, services, deploy, pod, scram,
                   unsynced>>

-----------------------------------------------------------------------------
(* The broker pods *)

\* A pod reads the Secret when it starts.  In ZooKeeper mode its entrypoint
\* also stores what it read as the SCRAM credentials (create_user).
PodStart(b) ==
    /\ pod[b].state = "down"
    /\ pod' = [pod EXCEPT ![b] = [state |-> "starting",
                                  client |-> secret.client]]
    /\ scram' = IF Kraft THEN scram ELSE [u \in Users |-> secret[u]]
    /\ UNCHANGED <<spec, ann, secret, cond, services, deploy, cache, pc, run,
                   queued, faults, unsynced>>

\* The readiness probe logs in as the client user.
PodReady(b) ==
    /\ pod[b].state \in {"starting", "failing"}
    /\ pod[b].client = scram["client"]
    /\ pod' = [pod EXCEPT ![b].state = "ready"]
    /\ UNCHANGED <<spec, ann, secret, cond, services, deploy, scram, cache, pc,
                   run, queued, faults, unsynced>>

ProbeFails(b) ==
    /\ pod[b].state = "ready"
    /\ pod[b].client # scram["client"]
    /\ pod' = [pod EXCEPT ![b].state = "failing"]
    /\ UNCHANGED <<spec, ann, secret, cond, services, deploy, scram, cache, pc,
                   run, queued, faults, unsynced>>

\* A pod is lost; an exec aimed at it has nowhere to go.
PodLost(b) ==
    /\ pod[b].state # "down"
    /\ faults.losses < MaxLosses
    /\ faults' = [faults EXCEPT !.losses = @ + 1]
    /\ pod' = [pod EXCEPT ![b].state = "down"]
    /\ run' = IF run.pod = b THEN [run EXCEPT !.pod = 0] ELSE run
    /\ UNCHANGED <<spec, ann, secret, cond, services, deploy, scram, cache, pc,
                   queued, unsynced>>

-----------------------------------------------------------------------------
User == EditSpec \/ EditAnnotations \/ \E us \in SUBSET Users : EditSecret(us)

Operator ==
    \/ Get \/ ClearAllConditions \/ BeginCycle
    \/ WatchSecret
    \/ \E b \in Brokers : PickPod(b)
    \/ SkipSync \/ Exec \/ ExecRejected
    \/ RolloutBroker \/ BrokerReady \/ AllBrokersReady \/ WaitTimeout
    \/ UpdateKafkaStatus \/ FinishKafka
    \/ UpdatePvcStatus
    \/ CheckReadiness \/ StartHealthCheck \/ PollPods \/ Verdict

Kubelet(b) == PodStart(b) \/ PodReady(b) \/ ProbeFails(b)

Fault ==
    \/ ApiError \/ ExecErrorAfterEffect
    \/ Crash
    \/ \E b \in Brokers : PodLost(b)

Next == User \/ Operator \/ Fault \/ \E b \in Brokers : Kubelet(b)

Spec == Init /\ [][Next]_vars

\* The single worker keeps taking requests and every call of Reconcile
\* returns; kubelets start pods and run their probes.
Fairness ==
    /\ WF_vars(Operator)
    /\ \A b \in Brokers : /\ WF_vars(PodStart(b))
                           /\ WF_vars(PodReady(b))
                           /\ WF_vars(ProbeFails(b))

FairSpec == Spec /\ Fairness

-----------------------------------------------------------------------------
(* Properties *)

Quiet == pc = "idle" /\ ~queued

\* When the operator has nothing left to do, every broker deployment has been
\* generated from the spec the resource has now: the cached hash never makes
\* Reconcile skip a spec that is not rolled out.
BrokersFollowSpec == Quiet => \A b \in Brokers : deploy[b].spec = spec

\* When the operator has nothing left to do, the services Secret holds the
\* client password of the Kafka Secret, whatever calls failed on the way.
ServicesFollowSecret == Quiet => services \in {0, secret.client}

\* The status never says Successful over brokers of which some run an older
\* spec than others.
SuccessMeansUniform ==
    cond["cycle"] = "Successful" =>
        \A b, c \in Brokers : deploy[b].spec = deploy[c].spec

\* While brokers are being restarted in KRaft mode, Kafka already holds the
\* passwords of the Secret that the cycle read, whatever call failed and
\* wherever the operator stopped before: a broker that loads them can log in.
\* A password that the first cycle after a restart of the operator found
\* changed, or that changed while no pod was ready, is not synchronised
\* (unsynced); it is again from its next change on.
SyncedBeforeRestart ==
    Kraft /\ pc \in {"rollout", "wait", "waitAll", "kstatus"} =>
        \A u \in Users \ unsynced : scram[u] = run.secret[u]

\* A broker runs with a client password that is not the one in Kafka.
LockedOut == \E b \in Brokers : pod[b].client # scram["client"]

\* A password that the rollout left behind: it was not synchronised, or the
\* operator restarted and forgot, without auto-restart, which brokers still
\* have to be restarted for it.
LeftBehind == "client" \in unsynced \/ (~AutoRestart /\ faults.crashes > 0)

Healthy ==
    /\ Quiet
    /\ \A b \in Brokers : pod[b].state = "ready"
    /\ faults.failures = 0 => cond["cycle"] \in {"Successful", "Failed"}

\* After the last edit, crash and error the operator comes to rest, although
\* every write of the status queues another cycle; every broker then serves
\* clients, although it takes its credentials at start only; and the status
\* tells the result of the cycle, unless a call failed after the conditions
\* were cleared.  The one exception is a client password that was left behind
\* and with which a broker is locked out for good.
EventuallyHealthy == <>[]Healthy \/ (<>LeftBehind /\ []<>LockedOut)

\* Every broker serves clients in the end.
BrokersServe == <>[](\A b \in Brokers : pod[b].state = "ready")

\* The Secret is in Kafka before any broker restarts.
AlwaysSyncedBeforeRestart ==
    Kraft /\ pc \in {"rollout", "wait", "waitAll", "kstatus"} =>
        \A u \in Users : scram[u] = run.secret[u]

=============================================================================
