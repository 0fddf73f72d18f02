------------------------- MODULE MirrorMakerConfig --------------------------
(***************************************************************************)
(* The configuration map of Kafka Mirror Maker and its writers: the        *)
(* KmmConfig reconcilers, which merge the topics and transformations of    *)
(* their resources into it, and the reconciler of Mirror Maker in the      *)
(* KafkaService cycle, which creates it and rolls the deployments when its *)
(* version changes.  Every writer reads, computes and updates under the    *)
(* version it has read.                                                    *)
(*                                                                         *)
(* The map is its replication flows, pairs of a source and a target; lists *)
(* of topics and names are sets; the other properties are left out.  Each  *)
(* KmmConfig has a worker of its own, as two of different API groups do.   *)
(***************************************************************************)
EXTENDS Naturals

CONSTANTS
    Configs,     \* KmmConfig resources
    Clusters,    \* names of the clusters, as the KafkaService has them
    Regions,     \* values of RegionName, "" if it is not set
    Asked,       \* specifications clients ask for
    FlowEnabled, \* ReplicationFlowEnabled of the KafkaService
    MaxEdits,
    MaxUpsets    \* bound of failures, crashes and changes of the map by hand

Kinds == {"every", "first", "second", "unknown"}

ASSUME ConfigAssumption ==
    /\ Asked \subseteq Kinds
    /\ FlowEnabled \in BOOLEAN /\ MaxEdits \in Nat /\ MaxUpsets \in Nat

VARIABLES
    service,   \* RegionName and ConfiguratorEnabled of the KafkaService
    cm,        \* the configuration map: whether it exists, version, flows
    kmm,       \* the KmmConfig resources
    queued, pc, run,           \* the workers of the KmmConfig reconcilers
    mqueued, mpc, mrun, mseen, \* the KafkaService worker; ResourceVersions
    deployed,  \* version of the map each deployment has
    edits, upsets,
    touched    \* history: flows the map lost, or that were edited by hand

kmmVars == <<kmm, queued, pc, run>>

mirrorVars == <<mqueued, mpc, mrun, mseen, deployed>>

vars == <<service, cm, kmmVars, mirrorVars, edits, upsets, touched>>

-----------------------------------------------------------------------------
(* Names and specifications *)

ToLower(name) ==
    CASE name = "DC1" -> "dc1" [] name = "DC2" -> "dc2" [] OTHER -> name

ClusterNames == {ToLower(c) : c \in Clusters}

Flows ==
    {p \in ClusterNames \X (ClusterNames \union Regions) :
        p[1] # p[2] /\ p[2] # ""}

\* The fields of kmmTopics; an empty set for one that is not given.
Topics(kind) == IF kind = "second" THEN {"t2"} ELSE {"t1"}

SourceDc(kind) == CASE kind = "unknown" -> {"dc3"} [] kind = "first" -> {"dc2"} [] OTHER -> {}

TargetDc(kind) == IF kind = "first" THEN {"dc1"} ELSE {}

\* 0 for none
Transformation(kind) == CASE kind = "every" -> 1 [] kind = "first" -> 2 [] OTHER -> 0

NoFlow ==
    [enabled |-> "absent", topics |-> {}, blacklist |-> FALSE,
     names |-> {}, defs |-> [k \in Configs |-> 0]]

createReplicationFlowConfig(targets) ==
    [p \in Flows |->
        IF p[2] \in targets
        THEN [NoFlow EXCEPT !.enabled = IF FlowEnabled THEN "true" ELSE "false"]
        ELSE NoFlow]

GetMirrorMakerProperties ==
    createReplicationFlowConfig(
        IF service.region = "" THEN ClusterNames ELSE {ToLower(service.region)})

-----------------------------------------------------------------------------
(* What a KmmConfig makes of the map *)

\* target.dc has the name of the region as it is written in the KafkaService.
TargetDcCM == IF service.region = "" THEN {} ELSE {service.region}

checkTargetDc(targets) ==
    targets \subseteq IF TargetDcCM = {} THEN ClusterNames ELSE TargetDcCM

\* An error, or the targets and the sources.
recognizeTargetAndSourceDc(kind) ==
    LET targets == IF TargetDc(kind) # {} THEN TargetDc(kind) ELSE TargetDcCM
    IN  [error |-> ~(checkTargetDc(TargetDc(kind)) /\ targets # {}
                     /\ SourceDc(kind) \subseteq ClusterNames),
         targets |-> targets,
         sources |-> IF SourceDc(kind) # {} THEN SourceDc(kind)
                     ELSE ClusterNames \ targets]

getDcPairs(dc) == {p \in dc.sources \X dc.targets : p[1] # p[2]}

\* getUpdatedContent and setUpdatedContent for one flow.  Lines are found by
\* their prefix: the black list of a flow that has topics is lost.
mergeTopics(flow, kind) ==
    [flow EXCEPT
        !.enabled = IF @ \in {"absent", "false"} THEN "true" ELSE @,
        !.topics = @ \union Topics(kind),
        !.blacklist = @ /\ flow.topics = {}]

\* Variant: the list of names is written anew.
UpdateTransformationPropertiesAnew(flow, k, kind) ==
    IF Transformation(kind) = 0 THEN flow
    ELSE [flow EXCEPT !.names = {k}, !.defs[k] = Transformation(kind)]

\* What is under the prefix of the resource is replaced, after the line that
\* enables the flow; a line that is not written as expected is not found, and
\* the list of names is gone.
UpdateTransformationProperties(flow, k, kind) ==
    CASE Transformation(kind) = 0 -> flow
      [] Transformation(kind) # 0 /\ flow.enabled = "true" ->
            [flow EXCEPT !.names = @ \union {k}, !.defs[k] = Transformation(kind)]
      [] OTHER -> [flow EXCEPT !.names = {}, !.defs[k] = 0]

Merged(flows, k, kind) ==
    LET pairs == getDcPairs(recognizeTargetAndSourceDc(kind))
    IN  [p \in Flows |->
            IF p \in pairs
            THEN UpdateTransformationProperties(mergeTopics(flows[p], kind), k, kind)
            ELSE flows[p]]

-----------------------------------------------------------------------------
(* Clients *)

NoConfig == [there |-> FALSE, spec |-> "every", generation |-> 0,
             processed |-> FALSE, problem |-> FALSE]

\* An update that changes nothing leaves the version; owned maps are watched.
Put(flows) ==
    IF cm.there /\ cm.flows = flows THEN UNCHANGED <<cm, mqueued>>
    ELSE /\ cm' = [there |-> TRUE, version |-> cm.version + 1, flows |-> flows]
         /\ mqueued' = TRUE

\* Without the configurator the resource is not defined.
EditConfig(k) ==
    /\ service.configurator /\ edits < MaxEdits /\ edits' = edits + 1
    /\ \E spec \in Asked :
          /\ ~kmm[k].there \/ kmm[k].spec # spec
          /\ kmm' = [kmm EXCEPT ![k].there = TRUE, ![k].spec = spec,
                                ![k].generation = edits + 1]
    /\ queued' = [queued EXCEPT ![k] = TRUE]
    /\ UNCHANGED <<service, cm, pc, run, mirrorVars, upsets, touched>>

\* There is no finalizer: what was merged stays.
DeleteConfig(k) ==
    /\ kmm[k].there /\ edits < MaxEdits /\ edits' = edits + 1
    /\ kmm' = [kmm EXCEPT ![k] = NoConfig]
    /\ queued' = [queued EXCEPT ![k] = TRUE]
    /\ UNCHANGED <<service, cm, pc, run, mirrorVars, upsets, touched>>

Upset == upsets < MaxUpsets /\ upsets' = upsets + 1

DeleteMap ==
    /\ cm.there /\ Upset
    /\ cm' = [cm EXCEPT !.there = FALSE, !.flows = [p \in Flows |-> NoFlow]]
    /\ mqueued' = TRUE /\ touched' = Flows
    /\ UNCHANGED <<service, kmmVars, mpc, mrun, mseen, deployed, edits>>

\* Replication is stopped or enabled in another notation, or gets a black list.
EditMap ==
    /\ cm.there /\ Upset
    /\ \E p \in Flows :
          /\ cm.flows[p] # NoFlow
          /\ \/ Put([cm.flows EXCEPT ![p].enabled = "false"])
             \/ Put([cm.flows EXCEPT ![p].enabled = "handmade"])
             \/ Put([cm.flows EXCEPT ![p].blacklist = TRUE])
          /\ touched' = touched \union {p}
    /\ UNCHANGED <<service, kmmVars, mpc, mrun, mseen, deployed, edits>>

-----------------------------------------------------------------------------
(* The KmmConfig reconciler of resource k *)

NoRun == [generation |-> 0, version |-> 0, problem |-> FALSE,
          flows |-> [p \in Flows |-> NoFlow]]

Step(k, from, to) == pc[k] = from /\ pc' = [pc EXCEPT ![k] = to]

\* UpdateKmmConfigMap returns an error, which is then put into the status.
Failed(k, from) ==
    Step(k, from, "status") /\ run' = [run EXCEPT ![k].problem = TRUE]

\* The resource is read, then the map: what happens between the two commutes
\* with the one or the other.
Get(k) ==
    /\ queued[k] /\ queued' = [queued EXCEPT ![k] = FALSE]
    /\ IF kmm[k].there
       THEN LET failed == ~cm.there \/ recognizeTargetAndSourceDc(kmm[k].spec).error
            IN  /\ Step(k, "idle", IF failed THEN "status" ELSE "update")
                /\ run' = [run EXCEPT ![k] =
                      [generation |-> kmm[k].generation, version |-> cm.version,
                       problem |-> failed,
                       flows |-> IF failed THEN NoRun.flows
                                 ELSE Merged(cm.flows, k, kmm[k].spec)]]
       ELSE Step(k, "idle", "idle") /\ UNCHANGED run
    /\ UNCHANGED <<service, cm, kmm, mirrorVars, edits, upsets, touched>>

\* Variant: the map is replaced whatever its version.
UpdateKmmConfigMapAnyway(k) ==
    /\ IF cm.there
       THEN Step(k, "update", "status") /\ Put(run[k].flows) /\ UNCHANGED run
       ELSE Failed(k, "update") /\ UNCHANGED <<cm, mqueued>>
    /\ UNCHANGED <<service, kmm, queued, mpc, mrun, mseen, deployed, edits, upsets,
                   touched>>

UpdateKmmConfigMap(k) ==
    /\ IF cm.there /\ cm.version = run[k].version
       THEN Step(k, "update", "status") /\ Put(run[k].flows) /\ UNCHANGED run
       ELSE Failed(k, "update") /\ UNCHANGED <<cm, mqueued>>
    /\ UNCHANGED <<service, kmm, queued, mpc, mrun, mseen, deployed, edits, upsets,
                   touched>>

\* Variant: an error is reported and the resource is done.
updateCrStatusOnce(k) ==
    LET written == kmm[k].there /\ kmm[k].generation = run[k].generation
    IN  /\ Step(k, "status", "idle") /\ run' = [run EXCEPT ![k] = NoRun]
        /\ kmm' = IF written
                  THEN [kmm EXCEPT ![k].processed = TRUE, ![k].problem = run[k].problem]
                  ELSE kmm
        /\ UNCHANGED <<service, queued, cm, mirrorVars, edits, upsets, touched>>

\* The status of a resource that has changed is not written.  After an error
\* there is another cycle.
updateCrStatus(k) ==
    LET written == kmm[k].there /\ kmm[k].generation = run[k].generation
    IN  /\ Step(k, "status", "idle") /\ run' = [run EXCEPT ![k] = NoRun]
        /\ kmm' = IF written
                  THEN [kmm EXCEPT ![k].processed = TRUE, ![k].problem = run[k].problem]
                  ELSE kmm
        /\ queued' = [queued EXCEPT ![k] = @ \/ run[k].problem \/ ~written]
        /\ UNCHANGED <<service, cm, mirrorVars, edits, upsets, touched>>

-----------------------------------------------------------------------------
(* ReconcileMirrorMaker, in the cycle of the KafkaService *)

NoMirrorRun == [version |-> 0, pending |-> {}]

MStep(from, to) == mpc = from /\ mpc' = to

mrest == <<service, kmmVars, edits, upsets, touched>>

Deployments ==
    IF service.region = "" THEN Clusters ELSE {c \in Clusters : c = service.region}

\* Variant: the version is stored before the deployments have it.
CompareVersionsAndStore(from, version) ==
    /\ IF mseen # version
       THEN MStep(from, "deploy") /\ mrun' = [version |-> version, pending |-> Deployments]
       ELSE MStep(from, "idle") /\ mrun' = NoMirrorRun
    /\ mseen' = version

\* The deployments are updated if the version is not the one of the last cycle.
CompareVersions(from, version) ==
    /\ IF mseen # version
       THEN MStep(from, "deploy") /\ mrun' = [version |-> version, pending |-> Deployments]
       ELSE MStep(from, "idle") /\ mrun' = NoMirrorRun
    /\ mseen' = mseen

FindConfigMap ==
    /\ mqueued /\ mqueued' = FALSE
    /\ IF cm.there /\ service.configurator
       THEN CompareVersions("idle", cm.version)
       ELSE /\ MStep("idle", IF cm.there THEN "replace" ELSE "create")
            /\ mrun' = [version |-> cm.version, pending |-> {}]
            /\ UNCHANGED mseen
    /\ UNCHANGED <<cm, deployed>> /\ UNCHANGED mrest

CreateConfigMap ==
    /\ mpc = "create" /\ Put(GetMirrorMakerProperties)
    /\ CompareVersions("create", cm'.version)
    /\ UNCHANGED deployed /\ UNCHANGED mrest

\* Without the configurator the map is written as a whole, under the version
\* that was found.
ReplaceConfigMap ==
    /\ mpc = "replace"
    /\ IF cm.there /\ cm.version = mrun.version
       THEN Put(GetMirrorMakerProperties) /\ CompareVersions("replace", cm'.version)
       ELSE MStep("replace", "idle") /\ mqueued' = TRUE /\ mrun' = NoMirrorRun
            /\ UNCHANGED <<cm, mseen>>
    /\ UNCHANGED deployed /\ UNCHANGED mrest

createDeployment ==
    /\ \E c \in mrun.pending :
          /\ MStep("deploy", "deploy")
          /\ mrun' = [mrun EXCEPT !.pending = @ \ {c}]
          /\ deployed' = [deployed EXCEPT ![c] = mrun.version]
    /\ UNCHANGED <<cm, mqueued, mseen>> /\ UNCHANGED mrest

\* The version is stored in ResourceVersions.
StoreVersion ==
    /\ mrun.pending = {} /\ MStep("deploy", "idle")
    /\ mseen' = mrun.version /\ mrun' = NoMirrorRun
    /\ UNCHANGED <<cm, mqueued, deployed>> /\ UNCHANGED mrest

-----------------------------------------------------------------------------
(* Faults *)

\* A call of a KmmConfig cycle fails.
KmmFails(k) ==
    /\ Upset
    /\ \/ Failed(k, "update") /\ UNCHANGED queued
       \/ /\ Step(k, "status", "idle") /\ run' = [run EXCEPT ![k] = NoRun]
          /\ queued' = [queued EXCEPT ![k] = TRUE]
    /\ UNCHANGED <<service, cm, kmm, mirrorVars, edits, touched>>

\* A call of the KafkaService cycle fails.
MirrorFails ==
    /\ mpc \in {"create", "replace", "deploy"} /\ Upset
    /\ mpc' = "idle" /\ mqueued' = TRUE /\ mrun' = NoMirrorRun
    /\ UNCHANGED <<service, cm, kmmVars, mseen, deployed, edits, touched>>

\* A new process lists every resource.
Crash ==
    /\ mpc # "idle" \/ \E k \in Configs : pc[k] # "idle"
    /\ Upset
    /\ pc' = [k \in Configs |-> "idle"] /\ run' = [k \in Configs |-> NoRun]
    /\ queued' = [k \in Configs |-> kmm[k].there]
    /\ mpc' = "idle" /\ mqueued' = TRUE /\ mrun' = NoMirrorRun
    /\ mseen' = 0
    /\ UNCHANGED <<service, cm, kmm, deployed, edits, touched>>

-----------------------------------------------------------------------------
Init ==
    /\ service \in [region : Regions, configurator : BOOLEAN]
    /\ cm = [there |-> FALSE, version |-> 0, flows |-> [p \in Flows |-> NoFlow]]
    /\ kmm = [k \in Configs |-> NoConfig]
    /\ queued = [k \in Configs |-> FALSE]
    /\ pc = [k \in Configs |-> "idle"] /\ run = [k \in Configs |-> NoRun]
    /\ mqueued = TRUE /\ mpc = "idle" /\ mrun = NoMirrorRun
    /\ mseen = 0 /\ deployed = [c \in Clusters |-> 0]
    /\ edits = 0 /\ upsets = 0 /\ touched = {}

Clients ==
    \/ \E k \in Configs : EditConfig(k) \/ DeleteConfig(k)
    \/ DeleteMap \/ EditMap

KmmReconcile(k) == Get(k) \/ UpdateKmmConfigMap(k) \/ updateCrStatus(k)

MirrorReconcile ==
    \/ FindConfigMap \/ CreateConfigMap \/ ReplaceConfigMap
    \/ createDeployment \/ StoreVersion

Next ==
    \/ Clients
    \/ \E k \in Configs : KmmReconcile(k) \/ KmmFails(k)
    \/ MirrorReconcile \/ MirrorFails \/ Crash

Spec == Init /\ [][Next]_vars

\* The workers of the controllers go on.
FairSpec ==
    /\ Spec /\ WF_vars(MirrorReconcile)
    /\ \A k \in Configs : WF_vars(KmmReconcile(k))

-----------------------------------------------------------------------------
FlowSet ==
    {f \in [enabled : {"absent", "false", "true", "handmade"},
            topics : SUBSET {"t1", "t2"}, blacklist : BOOLEAN,
            names : SUBSET Configs, defs : [Configs -> 0..2]] :
        \A k \in f.names : f.defs[k] # 0}

\* Types; every transformation in a list is defined, and nothing was deployed,
\* seen or read that the map has not been.
TypeOK ==
    /\ service \in [region : Regions, configurator : BOOLEAN]
    /\ cm.there \in BOOLEAN /\ cm.version \in Nat
    /\ \A p \in Flows : cm.flows[p] \in FlowSet
    /\ \A k \in Configs :
          /\ kmm[k] \in [there : BOOLEAN, spec : Kinds, generation : 0..MaxEdits,
                         processed : BOOLEAN, problem : BOOLEAN]
          /\ pc[k] \in {"idle", "update", "status"}
          /\ run[k].version \in 0..cm.version
          /\ \A p \in Flows : run[k].flows[p] \in FlowSet
    /\ queued \in [Configs -> BOOLEAN] /\ mqueued \in BOOLEAN
    /\ mpc \in {"idle", "create", "replace", "deploy"}
    /\ mrun \in [version : 0..cm.version, pending : SUBSET Clusters]
    /\ mseen \in 0..cm.version /\ deployed \in [Clusters -> 0..cm.version]
    /\ edits \in 0..MaxEdits /\ upsets \in 0..MaxUpsets
    /\ touched \subseteq Flows

FlowsOf(k) == getDcPairs(recognizeTargetAndSourceDc(kmm[k].spec))

\* A resource that no worker has to look at was processed without a problem,
\* and what it says is in the map, with whatever the other resources say, in
\* every flow that nobody has touched: no change of a resource is missed, and
\* the writers of the map lose nothing of each other.
ProcessedMeansMerged ==
    \A k \in Configs :
        kmm[k].there /\ ~queued[k] /\ pc[k] = "idle"
        => /\ kmm[k].processed /\ ~kmm[k].problem
           /\ \A p \in FlowsOf(k) \ touched :
                 /\ cm.flows[p].enabled = "true"
                 /\ Topics(kmm[k].spec) \subseteq cm.flows[p].topics
                 /\ Transformation(kmm[k].spec) # 0
                    => /\ k \in cm.flows[p].names
                       /\ cm.flows[p].defs[k] = Transformation(kmm[k].spec)

\* When the KafkaService worker has nothing to do, the map is there and every
\* deployment of Mirror Maker has its version: ReconcileMirrorMaker misses no
\* change of the map, whoever made it and whatever failed meanwhile.
RolledOutAtRest ==
    mpc = "idle" /\ ~mqueued =>
        cm.there /\ \A c \in Deployments : deployed[c] = cm.version

\* While the map exists and is written by the operator only, no step takes a
\* topic from a flow or a transformation from a resource that is not being
\* processed.
NothingTaken ==
    [][\A p \in Flows \ touched' : \A k \in Configs :
          /\ cm.flows[p].topics \subseteq cm'.flows[p].topics
          /\ pc[k] = "idle"
             => /\ cm'.flows[p].defs[k] = cm.flows[p].defs[k]
                /\ k \in cm.flows[p].names => k \in cm'.flows[p].names]_vars

\* The deployments have the version of the map in the end: Mirror Maker is
\* restarted after all changes of the map (kmmConfigurator.md:131).
DeploymentsFollow ==
    <>[](cm.there /\ \A c \in Deployments : deployed[c] = cm.version)

\* A resource that names known clusters is processed without a problem in the
\* end, also when the map had to be created first or others wrote it.
ConfigsProcessed ==
    \A k \in Configs :
        <>[](kmm[k].there /\ ~recognizeTargetAndSourceDc(kmm[k].spec).error)
        => <>[](kmm[k].processed /\ ~kmm[k].problem)
=============================================================================
