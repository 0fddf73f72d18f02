----------------------------- MODULE AkhqConfig -----------------------------
(***************************************************************************)
(* The topic mapping of AKHQ, a configuration map, and its writers: the    *)
(* AkhqConfig reconcilers, which keep the entries of their resources and a *)
(* map with the descriptor of every entry, and the reconciler of AKHQ in   *)
(* the KafkaService cycle, which labels and owns the mapping and deploys   *)
(* AKHQ when its version changes.                                          *)
(*                                                                         *)
(* Each AkhqConfig has a worker of its own, as two of different API groups *)
(* do.  It is known by its full name, name and namespace, which is the key *)
(* of its entries and descriptors: resources of two API groups that have   *)
(* the same full name, and so write over each other, are left out.         *)
(* Versions of the mapping grow without end, so the model has the set of   *)
(* those who hold the current one.  A descriptor and its message types are *)
(* a number; its content is that number and the resource it is from.       *)
(***************************************************************************)
EXTENDS Naturals

CONSTANTS
    Configs,   \* full names of AkhqConfig resources
    Applied,   \* those which an earlier process of the operator has applied
    Regexes,   \* topic expressions, as they are in the mapping
    MaxValue,  \* descriptors and message types
    MaxEvents  \* edits and faults

ASSUME AkhqAssumption ==
    /\ Configs \intersect {"cycle", "seen", "deployed"} = {}
    /\ Applied \subseteq Configs /\ Regexes # {}
    /\ MaxValue \in Nat \ {0} /\ MaxEvents \in Nat

VARIABLES
    akhq,     \* the AkhqConfig resources
    cm,       \* the mapping: whether it exists, its labels, owner and entries
    current,  \* who holds its current version
    desc,     \* content of the descriptor maps
    tmp, gz,  \* the files in which contents are compressed
    queued, pc, run,          \* the workers of the AkhqConfig reconcilers
    squeued, spc, found,      \* the KafkaService worker and the maps it has found
    referenced,               \* controllerReferenceSet
    mounted,                  \* the descriptor maps that AKHQ is deployed with
    events,   \* edits and faults so far
    lost,     \* history: the mapping was deleted
    mixed     \* history: two compressions overlapped

configVars == <<akhq, desc, tmp, gz, queued, pc, run, mixed>>

serviceVars == <<spc, found, referenced, mounted>>

vars == <<configVars, cm, current, squeued, serviceVars, events, lost>>

\* The entries under a full name; 0 for an expression it does not have.
Entries == [Regexes -> 0..MaxValue]

NoEntries == [r \in Regexes |-> 0]

NoContent == <<>>

\* Descriptors of expressions that were removed are emptied.
Contents == {NoContent} \union (Configs \X (0..MaxValue))

NoMapping == [there |-> FALSE, labelled |-> FALSE, owned |-> FALSE,
              entries |-> [c \in Configs |-> NoEntries]]

NoResource == [there |-> FALSE, spec |-> NoEntries, valid |-> TRUE,
               deleting |-> FALSE, finalizer |-> FALSE, status |-> "none"]

NoRegex == CHOOSE r \in Regexes : TRUE

\* What a cycle has read: the specification and (until the finalizer is there)
\* whether it is still the current one, the entries to write, and the
\* expressions whose descriptors are still to be written.
NoRun == [spec |-> NoEntries, unchanged |-> FALSE, entries |-> NoMapping.entries,
          todo |-> {}, regex |-> NoRegex]

-----------------------------------------------------------------------------
(* The current version is held by the cycles, under the names of their
   resources, by the cycle of the KafkaService ("cycle"), its ResourceVersions
   ("seen") and the deployment of AKHQ ("deployed"). *)

\* An update that changes nothing leaves the version.
Kept(mapping) == IF mapping = cm THEN current ELSE {}

\* Changes of a mapping with an owner are events for the KafkaService.
Notifies(mapping) == mapping # cm /\ (cm.owned \/ mapping.owned)

Write(mapping) == cm' = mapping /\ squeued' = (squeued \/ Notifies(mapping))

-----------------------------------------------------------------------------
(* Clients *)

Event == events < MaxEvents /\ events' = events + 1

\* The resource has another version than the one its cycle has read.
Changed(c) ==
    /\ run' = [run EXCEPT ![c].unchanged = FALSE] /\ queued' = [queued EXCEPT ![c] = TRUE]

EditResource(c) ==
    /\ ~akhq[c].deleting /\ Event
    /\ \E spec \in Entries, valid \in BOOLEAN :
          /\ ~akhq[c].there \/ akhq[c].spec # spec \/ akhq[c].valid # valid
          /\ valid \/ spec = NoEntries
          /\ akhq' = [akhq EXCEPT ![c].there = TRUE, ![c].spec = spec,
                                  ![c].valid = valid]
    /\ Changed(c)
    /\ UNCHANGED <<cm, current, desc, tmp, gz, pc, squeued, serviceVars, lost,
                   mixed>>

DeleteResource(c) ==
    /\ akhq[c].there /\ ~akhq[c].deleting /\ Event
    /\ akhq' = [akhq EXCEPT ![c] =
                   IF @.finalizer THEN [@ EXCEPT !.deleting = TRUE] ELSE NoResource]
    /\ Changed(c)
    /\ UNCHANGED <<cm, current, desc, tmp, gz, pc, squeued, serviceVars, lost,
                   mixed>>

DeleteMapping ==
    /\ cm.there /\ Event
    /\ Write(NoMapping) /\ current' = {} /\ lost' = TRUE
    /\ UNCHANGED <<configVars, serviceVars>>

\* Any other event of the KafkaService.
Touch ==
    /\ ~squeued /\ Event /\ squeued' = TRUE
    /\ UNCHANGED <<configVars, cm, current, serviceVars, lost>>

-----------------------------------------------------------------------------
(* The AkhqConfig reconciler of resource c *)

rest == <<events, lost>>

Step(c, from, to) == pc[c] = from /\ pc' = [pc EXCEPT ![c] = to]

\* updateCrStatus.  Only the cycle reads or writes the status, so it is
\* written in the step that decides on it.
updateCrStatus(c, status) ==
    akhq' = IF akhq[c].there THEN [akhq EXCEPT ![c].status = status] ELSE akhq

Ends(c, requeue) ==
    /\ pc' = [pc EXCEPT ![c] = "idle"] /\ run' = [run EXCEPT ![c] = NoRun]
    /\ queued' = [queued EXCEPT ![c] = @ \/ requeue]

\* The cycle ends with an error and there is another one.
Requeue(c) == Ends(c, TRUE) /\ UNCHANGED akhq

\* Variant: the error of applyConfig is only written to the status.
FailedForGood(c) == Ends(c, FALSE) /\ updateCrStatus(c, "problem")

\* applyConfig fails, which is also written to the status.
Failed(c) == Ends(c, TRUE) /\ updateCrStatus(c, "problem")

Processed(c) == Ends(c, ~akhq[c].there) /\ updateCrStatus(c, "processed")

Get(c) ==
    /\ pc[c] = "idle" /\ queued[c] /\ queued' = [queued EXCEPT ![c] = FALSE]
    /\ LET cr == akhq[c]
           To(label) == pc' = [pc EXCEPT ![c] = label] /\ UNCHANGED akhq
       IN  \/ ~cr.there /\ UNCHANGED <<akhq, pc, run>>
           \/ cr.deleting /\ To("delete") /\ UNCHANGED run
           \/ /\ cr.there /\ ~cr.deleting /\ ~cr.valid
              /\ updateCrStatus(c, "invalid") /\ UNCHANGED <<pc, run>>
           \/ /\ cr.there /\ ~cr.deleting /\ cr.valid
              /\ To(IF cr.finalizer THEN "apply" ELSE "finalizer")
              /\ run' = [run EXCEPT ![c].spec = cr.spec, ![c].unchanged = ~cr.finalizer]
    /\ UNCHANGED <<cm, current, desc, tmp, gz, squeued, serviceVars, mixed>>
    /\ UNCHANGED rest

\* Variant: the finalizer is left to the end.
AddFinalizerLater(c) ==
    /\ Step(c, "finalizer", "apply")
    /\ UNCHANGED <<akhq, run, queued, cm, current, desc, tmp, gz, squeued, serviceVars, mixed>>
    /\ UNCHANGED rest

\* The resource is written under the version that was read.
AddFinalizer(c) ==
    /\ pc[c] = "finalizer"
    /\ IF run[c].unchanged
       THEN /\ akhq' = [akhq EXCEPT ![c].finalizer = TRUE]
            /\ Step(c, "finalizer", "apply") /\ UNCHANGED queued
            /\ run' = [run EXCEPT ![c].unchanged = FALSE]
       ELSE Requeue(c)
    /\ UNCHANGED <<cm, current, desc, tmp, gz, squeued, serviceVars, mixed>>
    /\ UNCHANGED rest

\* Variant: entries of expressions that were removed stay.
fullUpdateDeserializationConfigMerged(entries, c, spec) ==
    [entries EXCEPT ![c] = [r \in Regexes |-> IF spec[r] = 0 THEN @[r] ELSE spec[r]]]

fullUpdateDeserializationConfig(entries, c, spec) == [entries EXCEPT ![c] = spec]

\* The mapping that a caller of CreateProtobufConfigMapIfNotExist gets.
ProtobufConfigMap(labelled, controller) ==
    [cm EXCEPT !.there = TRUE, !.labelled = labelled, !.owned = @ \/ controller]

\* CreateProtobufConfigMapIfNotExist, after the mapping was read by holder h: it
\* is created or updated, unless somebody else has written it since.
CreateProtobufConfigMapIfNotExist(h, mapping) ==
    h \in current /\ Write(mapping) /\ current' = Kept(mapping) \union {h}

\* The mapping is read, and the new entries are made.
applyConfig(c) ==
    /\ Step(c, "apply", "create")
    /\ current' = current \union {c}
    /\ LET spec == run[c].spec
       IN  run' = [run EXCEPT
              ![c].entries = fullUpdateDeserializationConfig(cm.entries, c, spec),
              ![c].todo = {r \in Regexes : spec[r] # 0 \/ cm.entries[c][r] # 0}]
    /\ UNCHANGED <<akhq, queued, cm, squeued, desc, tmp, gz, serviceVars, mixed>>
    /\ UNCHANGED rest

\* It is written at once, also if its labels are gone already: no labels are not
\* equal to an empty map of labels.
CreateMapping(c) ==
    /\ pc[c] = "create"
    /\ \/ /\ CreateProtobufConfigMapIfNotExist(c, ProtobufConfigMap(FALSE, FALSE))
          /\ Step(c, "create", "binary") /\ UNCHANGED <<akhq, queued, run>>
       \/ c \notin current /\ Failed(c) /\ UNCHANGED <<cm, current, squeued>>
    /\ UNCHANGED <<desc, tmp, gz, serviceVars, mixed>> /\ UNCHANGED rest

\* compressBytes: the content is stored in one file, ...
storeBytesToTmpFile(c) ==
    /\ Step(c, "binary", "gzip")
    /\ \E r \in run[c].todo :
          /\ tmp' = <<c, run[c].spec[r]>>
          /\ run' = [run EXCEPT ![c].regex = r]
    /\ mixed' = (mixed \/ tmp # NoContent \/ gz # NoContent)
    /\ UNCHANGED <<akhq, queued, cm, current, desc, gz, squeued, serviceVars>>
    /\ UNCHANGED rest

\* ... compressed to another, ...
compressBytesFromTmpFile(c) ==
    /\ pc[c] = "gzip"
    /\ IF tmp = NoContent
       THEN Failed(c) /\ UNCHANGED gz
       ELSE Step(c, "gzip", "read") /\ gz' = tmp /\ UNCHANGED <<akhq, run, queued>>
    /\ UNCHANGED <<cm, current, desc, tmp, squeued, serviceVars, mixed>>
    /\ UNCHANGED rest

\* ... read from there, and both are removed; then the map is created or updated.
applyBinaryConfigMap(c) ==
    /\ pc[c] = "read"
    /\ IF gz = NoContent
       THEN Failed(c) /\ UNCHANGED desc
       ELSE /\ desc' = [desc EXCEPT ![c][run[c].regex] = gz]
            /\ Step(c, "read", "binary")
            /\ run' = [run EXCEPT ![c].todo = @ \ {run[c].regex},
                                  ![c].regex = NoRegex]
            /\ UNCHANGED <<akhq, queued>>
    /\ tmp' = NoContent /\ gz' = NoContent
    /\ UNCHANGED <<cm, current, squeued, serviceVars, mixed>> /\ UNCHANGED rest

WriteEntries(c) ==
    LET mapping == [cm EXCEPT !.entries = run[c].entries]
    IN  Write(mapping) /\ current' = Kept(mapping) \ {c}

\* Variant: the mapping is written under whatever version it has.
UpdateMappingAnyway(c) ==
    /\ pc[c] = "binary" /\ run[c].todo = {}
    /\ WriteEntries(c)
    /\ Processed(c) /\ UNCHANGED <<desc, tmp, gz, serviceVars, mixed>> /\ UNCHANGED rest

\* updateDeserializationConfigMap, under the version the entries were read from.
UpdateMapping(c) ==
    /\ pc[c] = "binary" /\ run[c].todo = {}
    /\ IF c \in current
       THEN /\ WriteEntries(c)
            /\ Processed(c)
       ELSE Failed(c) /\ UNCHANGED <<cm, current, squeued>>
    /\ UNCHANGED <<desc, tmp, gz, serviceVars, mixed>> /\ UNCHANGED rest

\* deleteConfig: without the mapping there is an error.
deleteConfig(c) ==
    /\ pc[c] = "delete"
    /\ IF cm.there
       THEN /\ Step(c, "delete", "unbinary") /\ UNCHANGED <<akhq, queued>>
            /\ run' = [run EXCEPT ![c].entries = [cm.entries EXCEPT ![c] = NoEntries],
                                  ![c].todo = {r \in Regexes : cm.entries[c][r] # 0}]
            /\ current' = current \union {c}
       ELSE Requeue(c) /\ UNCHANGED current
    /\ UNCHANGED <<cm, desc, tmp, gz, squeued, serviceVars, mixed>>
    /\ UNCHANGED rest

deleteBinaryConfigMap(c) ==
    /\ pc[c] = "unbinary"
    /\ \E r \in run[c].todo :
          /\ desc' = [desc EXCEPT ![c][r] = NoContent]
          /\ run' = [run EXCEPT ![c].todo = @ \ {r}]
    /\ UNCHANGED <<akhq, queued, pc, cm, current, tmp, gz, squeued, serviceVars, mixed>>
    /\ UNCHANGED rest

DeleteEntries(c) ==
    /\ pc[c] = "unbinary" /\ run[c].todo = {}
    /\ IF c \in current
       THEN /\ WriteEntries(c)
            /\ Step(c, "unbinary", "unfinalize") /\ UNCHANGED <<akhq, run, queued>>
       ELSE Requeue(c) /\ UNCHANGED <<cm, current, squeued>>
    /\ UNCHANGED <<desc, tmp, gz, serviceVars, mixed>> /\ UNCHANGED rest

RemoveFinalizer(c) ==
    /\ Step(c, "unfinalize", "idle") /\ run' = [run EXCEPT ![c] = NoRun]
    /\ akhq' = [akhq EXCEPT ![c] = NoResource]
    /\ queued' = [queued EXCEPT ![c] = TRUE]
    /\ UNCHANGED <<cm, current, desc, tmp, gz, squeued, serviceVars, mixed>>
    /\ UNCHANGED rest

-----------------------------------------------------------------------------
(* The reconciler of AKHQ in the KafkaService cycle *)

\* The mapping with the labels of AKHQ, and with an owner in the first cycle.
getProtobufConfigMap == ProtobufConfigMap(TRUE, ~referenced)

\* An owner is written even if it is there already.
Writes == ~referenced \/ getProtobufConfigMap # cm

Deployed == ~Writes /\ "seen" \in current

\* Variant: the version is stored when it is compared.
ServiceStartsAndStores ==
    /\ spc = "idle" /\ squeued /\ squeued' = FALSE
    /\ spc' = IF Writes THEN "write" ELSE IF Deployed THEN "idle" ELSE "find"
    /\ current' = current \union (IF Deployed THEN {} ELSE {"cycle", "seen"})
    /\ UNCHANGED <<configVars, cm, found, referenced, mounted>> /\ UNCHANGED rest

\* The mapping is read.  AKHQ is deployed again only for another version of it.
ServiceStarts ==
    /\ spc = "idle" /\ squeued /\ squeued' = FALSE
    /\ spc' = IF Writes THEN "write" ELSE IF Deployed THEN "idle" ELSE "find"
    /\ current' = current \union (IF Deployed THEN {} ELSE {"cycle"})
    /\ UNCHANGED <<configVars, cm, found, referenced, mounted>> /\ UNCHANGED rest

WriteProtobufConfigMap ==
    /\ spc = "write"
    /\ \/ /\ CreateProtobufConfigMapIfNotExist("cycle", getProtobufConfigMap)
          /\ spc' = "find" /\ referenced' = TRUE
       \/ /\ "cycle" \notin current /\ spc' = "idle" /\ squeued' = TRUE
          /\ UNCHANGED <<cm, current, referenced>>
    /\ UNCHANGED <<configVars, found, mounted>> /\ UNCHANGED rest

findDeserializationConfigMaps ==
    /\ spc = "find" /\ spc' = "deploy"
    /\ found' = {d \in Configs \X Regexes : desc[d[1]][d[2]] # NoContent}
    /\ UNCHANGED <<configVars, cm, current, squeued, referenced, mounted>>
    /\ UNCHANGED rest

\* What the cycle has read is now also the version of holder h.
Passed(h) == IF "cycle" \in current THEN current \union {h} ELSE current \ {h}

\* Variant: the deployment gets the version that the mapping has by now.
NewAkhqDeploymentLatest ==
    /\ spc = "deploy" /\ spc' = "store"
    /\ mounted' = found /\ found' = {} /\ current' = current \union {"deployed"}
    /\ UNCHANGED <<configVars, cm, squeued, referenced>> /\ UNCHANGED rest

NewAkhqDeployment ==
    /\ spc = "deploy" /\ spc' = "store"
    /\ mounted' = found /\ found' = {} /\ current' = Passed("deployed")
    /\ UNCHANGED <<configVars, cm, squeued, referenced>> /\ UNCHANGED rest

StoreVersion ==
    /\ spc = "store" /\ spc' = "idle"
    /\ current' = Passed("seen") \ {"cycle"}
    /\ UNCHANGED <<configVars, cm, squeued, found, referenced, mounted>>
    /\ UNCHANGED rest

-----------------------------------------------------------------------------
(* Faults *)

ConfigFails(c) ==
    /\ pc[c] \notin {"idle", "gzip", "read"} /\ Event
    /\ IF pc[c] \in {"apply", "create", "binary"} THEN Failed(c) ELSE Requeue(c)
    /\ UNCHANGED <<cm, current, desc, tmp, gz, squeued, serviceVars, lost, mixed>>

ServiceFails ==
    /\ spc # "idle" /\ Event
    /\ spc' = "idle" /\ squeued' = TRUE /\ found' = {} /\ current' = current \ {"cycle"}
    /\ UNCHANGED <<configVars, cm, referenced, mounted, lost>>

\* The operator starts again: its files and what it remembers are lost.
Crash ==
    /\ Event
    /\ queued' = [c \in Configs |-> akhq[c].there] /\ pc' = [c \in Configs |-> "idle"]
    /\ run' = [c \in Configs |-> NoRun] /\ tmp' = NoContent /\ gz' = NoContent
    /\ squeued' = TRUE /\ spc' = "idle" /\ found' = {} /\ referenced' = FALSE
    /\ current' = current \intersect {"deployed"}
    /\ UNCHANGED <<akhq, cm, desc, mounted, lost, mixed>>

-----------------------------------------------------------------------------
First(c) == [r \in Regexes |-> IF c \in Applied THEN 1 ELSE 0]

\* The operator starts, for the first time or with what was applied before.
Init ==
    /\ akhq = [c \in Configs |->
                 IF c \in Applied
                 THEN [NoResource EXCEPT !.there = TRUE, !.spec = First(c),
                                         !.finalizer = TRUE, !.status = "processed"]
                 ELSE NoResource]
    /\ cm = IF Applied = {} THEN NoMapping
            ELSE [there |-> TRUE, labelled |-> TRUE, owned |-> TRUE,
                  entries |-> [c \in Configs |-> First(c)]]
    /\ current = IF Applied = {} THEN {} ELSE {"deployed"}
    /\ desc = [c \in Configs |->
                 [r \in Regexes |-> IF c \in Applied THEN <<c, 1>> ELSE NoContent]]
    /\ tmp = NoContent /\ gz = NoContent
    /\ queued = [c \in Configs |-> c \in Applied] /\ pc = [c \in Configs |-> "idle"]
    /\ run = [c \in Configs |-> NoRun]
    /\ squeued = TRUE /\ spc = "idle" /\ found = {} /\ referenced = FALSE
    /\ mounted = Applied \X Regexes
    /\ events = 0 /\ lost = FALSE /\ mixed = FALSE

Clients ==
    \/ \E c \in Configs : EditResource(c) \/ DeleteResource(c)
    \/ DeleteMapping \/ Touch

Apply(c) ==
    \/ AddFinalizer(c) \/ applyConfig(c) \/ CreateMapping(c)
    \/ storeBytesToTmpFile(c) \/ compressBytesFromTmpFile(c) \/ applyBinaryConfigMap(c)
    \/ UpdateMapping(c)

Remove(c) ==
    \/ deleteConfig(c) \/ deleteBinaryConfigMap(c) \/ DeleteEntries(c)
    \/ RemoveFinalizer(c)

Reconcile(c) == Get(c) \/ Apply(c) \/ Remove(c)

Service ==
    \/ ServiceStarts \/ WriteProtobufConfigMap \/ findDeserializationConfigMaps
    \/ NewAkhqDeployment \/ StoreVersion

Next ==
    \/ Clients \/ Service \/ \E c \in Configs : Reconcile(c)
    \/ (\E c \in Configs : ConfigFails(c)) \/ ServiceFails \/ Crash

Spec == Init /\ [][Next]_vars

\* The workers take what is in their queues, and their cycles go on.
FairSpec ==
    Spec /\ WF_vars(Service) /\ \A c \in Configs : WF_vars(Reconcile(c))

-----------------------------------------------------------------------------
(* Properties *)

Statuses == {"none", "invalid", "processed", "problem"}

Resources ==
    [there : BOOLEAN, spec : Entries, valid : BOOLEAN,
     deleting : BOOLEAN, finalizer : BOOLEAN, status : Statuses]

Runs == [spec : Entries, unchanged : BOOLEAN, entries : [Configs -> Entries],
         todo : SUBSET Regexes, regex : Regexes]

Mappings == [there : BOOLEAN, labelled : BOOLEAN, owned : BOOLEAN,
             entries : [Configs -> Entries]]

Labels == {"idle", "finalizer", "apply", "create", "binary", "gzip", "read", "delete",
           "unbinary", "unfinalize"}

\* Types of the objects, and of the cycles that write them.
TypeOK ==
    /\ akhq \in [Configs -> Resources] /\ cm \in Mappings
    /\ desc \in [Configs -> [Regexes -> Contents]] /\ tmp \in Contents /\ gz \in Contents
    /\ pc \in [Configs -> Labels] /\ run \in [Configs -> Runs]

Idle(c) == pc[c] = "idle" /\ ~queued[c]

\* Processed, rejected or gone.
Settled(c) ==
    /\ Idle(c) /\ ~akhq[c].deleting
    /\ akhq[c].there => akhq[c].status \in {"invalid", "processed"}

\* A resource that no worker has to look at is settled.  If its status says that
\* it is processed, the mapping has the entries it asks for, whatever the other
\* writers did to the mapping meanwhile and however often the cycle failed.
\* Its descriptor maps have its own descriptors, unless two reconcilers have
\* used the two temporary files of compressBytes at a time.
ProcessedMeansMapped ==
    \A c \in Configs : Idle(c) =>
        /\ Settled(c)
        /\ akhq[c].status = "processed" /\ ~lost =>
              /\ cm.entries[c] = akhq[c].spec
              /\ ~mixed => \A r \in Regexes :
                    akhq[c].spec[r] # 0 => desc[c][r] = <<c, akhq[c].spec[r]>>

\* No entry outlives its resource: the finalizer is there before the first
\* entry is written and goes after the last one is removed.
NoEntryWithoutResource ==
    \A c \in Configs : ~akhq[c].there => cm.entries[c] = NoEntries

\* AKHQ deployed for the current mapping has the descriptor maps of all its
\* entries mounted, except those of a resource that is being deleted: the
\* descriptors are written before the mapping, and read after it.
Mounted ==
    "deployed" \in current =>
        \A c \in Configs, r \in Regexes :
            (cm.entries[c][r] # 0 /\ ~akhq[c].deleting) => <<c, r>> \in mounted

\* When the KafkaService worker has nothing to do and the mapping has an owner,
\* AKHQ is deployed for the current mapping, with its descriptors: no change of
\* the mapping is missed.
DeployedWithDescriptors ==
    /\ spc = "idle" /\ ~squeued /\ cm.owned =>
          cm.there /\ cm.labelled /\ "deployed" \in current
    /\ Mounted

\* Only the cycle of a resource changes its entries: the cycle of another one,
\* which writes the whole mapping, never takes back what it did not read.
OthersKept ==
    [][\A c \in Configs : cm'.entries[c] # cm.entries[c] => pc'[c] # pc[c] \/ ~cm'.there]_vars

\* A cycle is about to write the mapping, which somebody else has changed.
Collision ==
    \/ \E c \in Configs :
          /\ c \notin current
          /\ \/ pc[c] = "create"
             \/ pc[c] \in {"binary", "unbinary"} /\ run[c].todo = {}
    \/ spc = "write" /\ "cycle" \notin current

\* Every resource is processed, rejected or deleted in the end, unless the
\* mapping is gone for good, or writes collide again and again: applyConfig
\* removes the labels, so that the KafkaService cycle changes the mapping again,
\* perhaps before applyConfig writes it.
ResourcesSettle ==
    \/ []<>Collision \/ <>[]~cm.there
    \/ <>[](\A c \in Configs : Settled(c))

\* AKHQ is deployed for the last version of the mapping in the end, unless the
\* mapping has no owner (which it gets only in the first cycle of a process, so
\* that one created again stays without it), or writes collide for ever.
AkhqFollows ==
    []<>Collision \/ <>[]~cm.owned \/ <>[]("deployed" \in current)

=============================================================================
