------------------------- MODULE ReplicationAuditor -------------------------
(***************************************************************************)
(* One call of KafkaReplicationAuditor.CheckFullReplication: the caller,   *)
(* the goroutine of checkFullReplication ("checker") and the two of        *)
(* getMessagesCountWrapped ("active", "standby"), with the wait group and  *)
(* the unbuffered channels between them; the configuration of Kafka Mirror *)
(* Maker it reads; and the two Kafka clusters, of which Mirror Maker       *)
(* copies one to the other meanwhile, and clients may write to both.  A    *)
(* topic has one partition.                                                *)
(***************************************************************************)
EXTENDS Integers
LOCAL INSTANCE Functions

CONSTANTS
    Topics,        \* topics of the active side
    ServiceTopics, \* those that start with "__", and heartbeats
    Absent,        \* what is not there: a property, a topic
    MaxMessages,   \* bound on the messages of the active side
    MaxOther,      \* bound on the deletions by retention and the messages of the
                   \* standby side that are no new copies, together
    MaxFaults      \* bound on failing calls

ASSUME AuditAssumption ==
    /\ ServiceTopics \subseteq Topics
    /\ Absent \notin Topics /\ Absent \notin Int
    /\ MaxMessages \in Nat /\ MaxOther \in Nat /\ MaxFaults \in Nat

VARIABLES
    config,   \* config map of Mirror Maker
    first,    \* earliest offsets of either side
    last,     \* latest offsets of either side
    pos,      \* offset on the active side up to which Mirror Maker copied
    checker,  \* where checkFullReplication is
    counter,  \* the calls of getMessagesCount
    wg,       \* counter of the wait group
    missing,  \* notReplicatedPartitions
    verdict,  \* result of CheckFullReplication, "none" while it waits
    faults, purges,
    extra,    \* history: messages that came to a standby topic, but were there
              \* before, copied a second time or written by a client
    must,     \* history: latest offsets the audit saw on the active side
    excused   \* history: why the audit may have overlooked something

clusters == <<first, last, pos, purges, extra>>
history == <<must, excused>>
vars == <<config, clusters, checker, counter, wg, missing, verdict, faults,
          history>>

Sides == {"active", "standby"}
Calls == Sides \cup {"again"}

Fault == faults < MaxFaults /\ faults' = faults + 1

-----------------------------------------------------------------------------
(* KmmDrConfig *)

\* The properties of the config map that the audit reads: global ones and
\* those of the flow source->target.  Patterns stand for the topics they match.
Properties == {"enabled", "topics", "topics.blacklist"}

Names == {"a", "b"}

NoLocal == [k \in Properties |-> Absent]

ConfigMaps ==
    LET one(c, t, s, g, l) == [clusters |-> c, target |-> t, servers |-> s,
                               global |-> g, local |-> l]
        ok(g, l) == one(<<"a", "b">>, "a", Names, g, l)
        topic == CHOOSE t \in Topics : t \notin ServiceTopics
        only == [NoLocal EXCEPT !["topics"] = {topic}]
        but == [NoLocal EXCEPT !["topics.blacklist"] = {topic}]
        off == [NoLocal EXCEPT !["enabled"] = FALSE]
        on == [only EXCEPT !["enabled"] = TRUE]
    IN  {ok(NoLocal, NoLocal), ok(off, on), ok(only, but),
         ok(on, off), one(<<"a", "a">>, "a", Names, on, NoLocal),
         one(<<"a", "b">>, Absent, Names, on, NoLocal),
         one(<<"a", "b">>, "a", {"a"}, on, NoLocal)}

validateClusters(c) ==
    /\ DOMAIN c.clusters = {1, 2}
    /\ c.clusters[1] # c.clusters[2]
    /\ c.target # Absent

TargetCluster(c) == c.target

SourceCluster(c) ==
    IF c.clusters[2] # c.target THEN c.clusters[2] ELSE c.clusters[1]

resolveBootstrapServers(c) ==
    {TargetCluster(c), SourceCluster(c)} \subseteq c.servers

NewKmmDrConfig(c) == validateClusters(c) /\ resolveBootstrapServers(c)

resolveGlobalLocalValue(c, key) ==
    IF c.local[key] # Absent THEN c.local[key] ELSE c.global[key]

ReplicationEnabled(c) == resolveGlobalLocalValue(c, "enabled") # FALSE

getAllowRegExps(c) == resolveGlobalLocalValue(c, "topics")

getBlockRegExps(c) == resolveGlobalLocalValue(c, "topics.blacklist")

mustBeTopicReplicated(topic, c) ==
    /\ topic \notin ServiceTopics
    /\ getBlockRegExps(c) = Absent \/ topic \notin getBlockRegExps(c)
    /\ getAllowRegExps(c) = Absent \/ topic \in getAllowRegExps(c)

ReplicatedTopics == {t \in Topics : mustBeTopicReplicated(t, config)}

-----------------------------------------------------------------------------
(* getMessagesCount *)

\* A map from partitions to numbers of messages.
NoCount == [t \in Topics |-> Absent]

Partitions(count) == {t \in Topics : count[t] # Absent}

\* One call: its state, the topics to count, the counts and, between the two
\* requests for a topic, that topic and its latest offset.
NoCall == [at |-> "idle", topics |-> {}, count |-> NoCount, topic |-> Absent,
           latest |-> 0]

Counting(topics) == [NoCall EXCEPT !.at = "count", !.topics = topics]

calculateMessagesCount(latestOffset, earliestOffset) ==
    IF earliestOffset > latestOffset THEN 0 ELSE latestOffset - earliestOffset

SideOf(c) == IF c = "active" THEN "active" ELSE "standby"

\* client.Partitions and the latest offset of a topic ...
CountLatest(c) ==
    /\ counter[c].at = "count" /\ counter[c].topic = Absent
    /\ \E t \in counter[c].topics \ Partitions(counter[c].count) :
        /\ last[SideOf(c)][t] # Absent
        /\ counter' = [counter EXCEPT ![c].topic = t,
                                      ![c].latest = last[SideOf(c)][t]]
        /\ must' = IF c = "active" THEN [must EXCEPT ![t] = last[c][t]]
                   ELSE must
    /\ UNCHANGED <<config, clusters, checker, wg, missing, verdict, faults,
                   excused>>

\* ... and its earliest one, which retention may have moved.
CountEarliest(c) ==
    LET t == counter[c].topic
    IN  /\ counter[c].at = "count" /\ t # Absent
        /\ counter' = [counter EXCEPT
               ![c].topic = Absent,
               ![c].count[t] = calculateMessagesCount(counter[c].latest,
                                                      first[SideOf(c)][t])]
        /\ excused' = (excused \/ (c = "active" /\ first[c][t] > 0))
        /\ UNCHANGED <<config, clusters, checker, wg, missing, verdict, faults,
                       must>>

Counted(c) ==
    /\ counter[c].at = "count" /\ counter[c].topic = Absent
    /\ counter[c].topics \subseteq Partitions(counter[c].count)

\* A topic that the standby side does not have yet is an error as well.
CountError(c) ==
    /\ counter[c].at = "count"
    /\ \/ /\ counter[c].topic = Absent
          /\ \E t \in counter[c].topics \ Partitions(counter[c].count) :
                last[SideOf(c)][t] = Absent
          /\ UNCHANGED faults
       \/ ~Counted(c) /\ Fault

\* getMessagesCountWrapped: the wait group learns of the goroutine only when
\* it runs, and that it is over only when its counts are taken.
WrappedBegin(c) ==
    /\ counter[c].at = "begin"
    /\ wg' = wg + 1
    /\ counter' = [counter EXCEPT ![c] = Counting(ReplicatedTopics)]
    /\ UNCHANGED <<config, clusters, checker, missing, verdict, faults, history>>

WrappedCounted(c) ==
    /\ c \in Sides /\ Counted(c)
    /\ counter' = [counter EXCEPT ![c].at = "send"]
    /\ UNCHANGED <<config, clusters, checker, wg, missing, verdict, faults,
                   history>>

\* The error is dropped, the counts so far are sent.
WrappedError(c) ==
    /\ c \in Sides /\ CountError(c)
    /\ counter' = [counter EXCEPT ![c].at = "send"]
    /\ excused' = (excused \/ c = "active")
    /\ UNCHANGED <<config, clusters, checker, wg, missing, verdict, must>>

WrappedDone(c) ==
    /\ counter[c].at = "taken"
    /\ wg' = wg - 1
    /\ counter' = [counter EXCEPT ![c].at = "idle"]
    /\ UNCHANGED <<config, clusters, checker, missing, verdict, faults, history>>

-----------------------------------------------------------------------------
(* checkFullReplication *)

\* Variant: a partition the standby side has not reported is let through.
flushOutKnown(activePartitions, standByPartitions) ==
    [t \in Topics |->
        IF /\ t \in Partitions(activePartitions) \cap Partitions(standByPartitions)
           /\ activePartitions[t] > standByPartitions[t]
        THEN activePartitions[t] ELSE Absent]

flushOut(activePartitions, standByPartitions) ==
    [t \in Topics |->
        IF /\ t \in Partitions(activePartitions)
           /\ t \in Partitions(standByPartitions)
                => activePartitions[t] > standByPartitions[t]
        THEN activePartitions[t] ELSE Absent]

CheckerGoes(to) ==
    /\ checker' = to
    /\ UNCHANGED <<config, clusters, counter, wg, missing, must>>

\* NewKmmConfigHandler swallows that the config map cannot be read or is
\* invalid, and IsReplicationEnabled dereferences the missing configuration.
KmmConfigPanics ==
    /\ checker = "config"
    /\ (NewKmmDrConfig(config) /\ Fault)
          \/ (~NewKmmDrConfig(config) /\ UNCHANGED faults)
    /\ verdict' = IF verdict = "none" THEN "crashed" ELSE verdict
    /\ CheckerGoes("panic") /\ UNCHANGED excused

KmmConfig ==
    /\ checker = "config" /\ NewKmmDrConfig(config)
    /\ CheckerGoes(IF ReplicationEnabled(config) THEN "clients" ELSE "ok")
    /\ excused' = (excused \/ ~ReplicationEnabled(config))
    /\ UNCHANGED <<verdict, faults>>

\* No credentials for Kafka, no client, no list of topics.
CheckerError ==
    /\ \/ checker \in {"config", "clients"} /\ NewKmmDrConfig(config) /\ Fault
       \/ checker = "recount" /\ CountError("again")
    /\ CheckerGoes("err")
    /\ UNCHANGED <<verdict, excused>>

\* The clients are there, and the two goroutines are started.
Clients ==
    /\ checker = "clients"
    /\ checker' = "wait"
    /\ counter' = [c \in Calls |-> IF c \in Sides THEN [NoCall EXCEPT !.at = "begin"]
                                  ELSE NoCall]
    /\ UNCHANGED <<config, clusters, wg, missing, verdict, faults, history>>

\* Passes only if neither goroutine has come to wg.Add: wg.Done follows a send
\* that is received below.
Wait ==
    /\ checker = "wait" /\ wg = 0
    /\ CheckerGoes("takeActive") /\ UNCHANGED <<verdict, faults, excused>>

TakeActive ==
    /\ checker = "takeActive" /\ counter["active"].at = "send"
    /\ counter' = [counter EXCEPT !["active"].at = "taken"]
    /\ checker' = "takeStandby"
    /\ UNCHANGED <<config, clusters, wg, missing, verdict, faults, history>>

TakeStandby ==
    /\ checker = "takeStandby" /\ counter["standby"].at = "send"
    /\ counter' = [counter EXCEPT !["standby"].at = "taken"]
    /\ missing' = flushOut(counter["active"].count, counter["standby"].count)
    /\ checker' = IF Partitions(missing') = {} THEN "ok" ELSE "loop"
    /\ UNCHANGED <<config, clusters, wg, verdict, faults, history>>

-----------------------------------------------------------------------------
(* waitUntilActiveMessagesFlushOut and CheckFullReplication *)

\* stopAudit is closed when CheckFullReplication returns.
isChannelOpen == verdict = "none"

\* Variant: nobody looks at the channel.
FlushOutNeverStops ==
    /\ checker = "loop"
    /\ counter' = [counter EXCEPT !["again"] = Counting(Partitions(missing))]
    /\ checker' = "recount"
    /\ UNCHANGED <<config, clusters, wg, missing, verdict, faults, history>>

FlushOut ==
    /\ checker = "loop"
    /\ IF isChannelOpen
       THEN /\ counter' = [counter EXCEPT !["again"] = Counting(Partitions(missing))]
            /\ checker' = "recount"
       ELSE checker' = "ok" /\ UNCHANGED counter
    /\ UNCHANGED <<config, clusters, wg, missing, verdict, faults, history>>

Recounted ==
    /\ checker = "recount" /\ Counted("again")
    /\ missing' = flushOut(missing, counter["again"].count)
    /\ counter' = [counter EXCEPT !["again"] = NoCall]
    /\ checker' = IF Partitions(missing') = {} THEN "ok" ELSE "loop"
    /\ UNCHANGED <<config, clusters, wg, verdict, faults, history>>

\* The result is taken by the select; after a timeout nobody takes it and the
\* goroutine stays where it is.
ReplicationDone ==
    /\ checker \in {"ok", "err"} /\ verdict = "none"
    /\ verdict' = IF checker = "ok" THEN "passed" ELSE "failed"
    /\ CheckerGoes("done") /\ UNCHANGED <<faults, excused>>

\* Variant: no ticker.
NoTimeout == FALSE /\ UNCHANGED vars

Timeout ==
    /\ verdict = "none"
    /\ verdict' = "timeout"
    /\ UNCHANGED <<config, clusters, checker, counter, wg, missing, faults,
                   history>>

-----------------------------------------------------------------------------
(* The clusters and Mirror Maker *)

Audit == <<config, checker, counter, wg, missing, verdict, faults, history>>

Produce(t) ==
    /\ SumFunction(last["active"]) < MaxMessages
    /\ last' = [last EXCEPT !["active"][t] = @ + 1]
    /\ UNCHANGED <<first, pos, purges, extra, Audit>>

Other == purges + SumFunction(extra) < MaxOther

\* A message comes to the standby side; the first makes the topic.
Append(t) == last' = [last EXCEPT !["standby"][t] = IF @ = Absent THEN 1 ELSE @ + 1]

AppendExtra(t) ==
    /\ Other /\ extra' = [extra EXCEPT ![t] = @ + 1]
    /\ Append(t)

\* Copies the next message that is still there; or, if it resumes from an
\* offset it had committed earlier, a message it has copied before.
Mirror(t) ==
    LET next == IF pos[t] < first["active"][t] THEN first["active"][t] ELSE pos[t]
    IN  /\ \/ /\ next < last["active"][t]
              /\ pos' = [pos EXCEPT ![t] = next + 1]
              /\ Append(t) /\ UNCHANGED extra
           \/ first["active"][t] < pos[t] /\ AppendExtra(t) /\ UNCHANGED pos
        /\ UNCHANGED <<first, purges, Audit>>

\* The standby side accepts what clients write as well.
WriteStandby(t) ==
    /\ AppendExtra(t)
    /\ UNCHANGED <<first, pos, purges, Audit>>

Purge(side, t) ==
    /\ Other /\ purges' = purges + 1
    /\ last[side][t] # Absent /\ first[side][t] < last[side][t]
    /\ first' = [first EXCEPT ![side][t] = @ + 1]
    /\ UNCHANGED <<last, pos, extra, Audit>>

-----------------------------------------------------------------------------
\* A standby topic may hold messages of an earlier time, when this side was the
\* active one or was restored from a backup; topics that are not replicated are
\* not looked at.
Init ==
    /\ config \in ConfigMaps
    /\ first = [s \in Sides |-> [t \in Topics |-> 0]]
    /\ extra \in [Topics -> 0..MaxOther] /\ SumFunction(extra) <= MaxOther
    /\ \A t \in Topics \ ReplicatedTopics : extra[t] = 0
    /\ last = [s \in Sides |-> [t \in Topics |-> IF s = "active" THEN 0
                                                ELSE IF extra[t] = 0 THEN Absent
                                                ELSE extra[t]]]
    /\ pos = [t \in Topics |-> 0]
    /\ checker = "config" /\ counter = [c \in Calls |-> NoCall]
    /\ wg = 0 /\ missing = NoCount /\ verdict = "none"
    /\ faults = 0 /\ purges = 0
    /\ must = [t \in Topics |-> 0] /\ excused = FALSE

Counter(c) ==
    \/ CountLatest(c) \/ CountEarliest(c)
    \/ WrappedBegin(c) \/ WrappedCounted(c) \/ WrappedError(c) \/ WrappedDone(c)

Checker ==
    \/ KmmConfigPanics \/ KmmConfig \/ CheckerError \/ Clients \/ Wait
    \/ TakeActive \/ TakeStandby \/ FlushOut \/ Recounted \/ ReplicationDone

\* What happens to other topics and after the answer changes nothing.
Clusters ==
    /\ verdict = "none"
    /\ \E t \in ReplicatedTopics :
          \/ Produce(t) \/ Mirror(t) \/ WriteStandby(t)
          \/ \E side \in Sides : Purge(side, t)

\* A panic ends all goroutines of the operator.
Next ==
    /\ checker # "panic"
    /\ Checker \/ (\E c \in Calls : Counter(c)) \/ Timeout \/ Clusters

Spec == Init /\ [][Next]_vars

\* The runtime schedules the goroutine of checkFullReplication, which counts
\* again by itself, and the ticker fires; the other two need not be scheduled.
Fairness == WF_vars(Checker \/ Counter("again")) /\ WF_vars(Timeout)

FairSpec == Spec /\ Fairness

-----------------------------------------------------------------------------
(* Properties *)

Offsets == [Topics -> Nat \cup {Absent}]

CallSet ==
    [at : {"idle", "begin", "count", "send", "taken"}, topics : SUBSET Topics,
     count : Offsets, topic : Topics \cup {Absent}, latest : Nat]

Places ==
    {"config", "clients", "wait", "takeActive", "takeStandby", "loop", "recount",
     "ok", "err", "done", "panic"}

Verdicts == {"none", "passed", "failed", "timeout", "crashed"}

\* Types of the clusters, the goroutines and the answer.
TypeOK ==
    /\ first \in [Sides -> [Topics -> Nat]]
    /\ last \in [Sides -> Offsets] /\ last["active"] \in [Topics -> Nat]
    /\ pos \in [Topics -> Nat] /\ must \in [Topics -> Nat]
    /\ extra \in [Topics -> Nat]
    /\ counter \in [Calls -> CallSet]
    /\ missing \in Offsets /\ checker \in Places /\ verdict \in Verdicts
    /\ excused \in BOOLEAN

Copied == \A t \in Topics : must[t] <= pos[t]

Covered == \A t \in Topics : must[t] <= pos[t] + extra[t]

\* CheckFullReplication reports success only if Mirror Maker has copied the
\* messages the audit saw on the active side, but for as many as the standby
\* topic got otherwise: although both sides are counted at different times,
\* messages are written, copied and deleted meanwhile, and partitions are
\* dropped from the comparison one by one.  It is excused if replication is off,
\* if a count of the active side failed and the error was dropped, or if
\* retention had deleted messages there: counts, not offsets, are compared.
PassMeansCopied == verdict = "passed" /\ ~excused => Covered

\* A pass means that everything the audit saw is copied, unless it is excused.
PassMeansAllCopied == verdict = "passed" /\ ~excused => Copied

\* What keeps the audit from seeing a lag: numbers of messages tell nothing of
\* what is not copied if the standby side has messages that are no copies.
Overlooked == excused \/ \E t \in Topics : extra[t] # 0

\* The promise of an audit; there is a lag as long as something is not copied.
Promise == INSTANCE AuditPromise WITH lag <- ~Copied, excused <- Overlooked

\* CheckFullReplication keeps the promise a switchover is built on; in
\* particular it answers even if the wait group and the channels deadlock.
AuditKeepsPromise == Promise!Spec

\* Once CheckFullReplication has returned, the goroutine it leaves behind stops
\* asking Kafka for offsets.
StopsPolling ==
    <>[](verdict # "none" => checker \notin {"loop", "recount"})
=============================================================================
