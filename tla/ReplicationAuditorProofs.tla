---------------------- MODULE ReplicationAuditorProofs ----------------------
(* Proofs about ReplicationAuditor for all sets of topics, any numbers of    *)
(* messages, deletions and faults, and all configurations of Mirror Maker.   *)
EXTENDS ReplicationAuditor, TLAPS

\* The standby side has no more messages than were copied or came otherwise ...
Copies ==
    \A t \in Topics : last["standby"][t] # Absent => last["standby"][t] <= pos[t] + extra[t]

\* ... and so has none of its counts, however old.
CountedCopies(c) ==
    /\ counter[c].topic # Absent =>
          counter[c].latest <= pos[counter[c].topic] + extra[counter[c].topic]
    /\ \A t \in Topics :
          counter[c].count[t] # Absent => counter[c].count[t] <= pos[t] + extra[t]

\* The counts of the active side are the offsets that the audit saw, unless it
\* is excused: no error was dropped and nothing had been deleted.
CountedActive ==
    LET a == counter["active"]
    IN  /\ checker \in {"config", "clients"} => a.at = "idle"
        /\ a.at = "begin" \/ checker \in {"config", "clients"} =>
              a.count = NoCount /\ a.topic = Absent
        /\ a.topic # Absent => a.count[a.topic] = Absent
        /\ ~excused =>
              /\ a.topic # Absent => a.at = "count" /\ a.latest = must[a.topic]
              /\ \A t \in Topics :
                    /\ a.count[t] # Absent => a.count[t] = must[t]
                    /\ a.count[t] = Absent /\ must[t] # 0 => a.topic = t

\* The counts of the active side are final when they have been taken.
Final ==
    checker \in {"takeStandby", "loop", "recount", "ok", "err", "done", "panic"}
        => counter["active"].at \in {"taken", "idle"}

\* What is not missing any more is copied, or made up for.
NotMissing ==
    checker \in {"loop", "recount"} /\ ~excused =>
        \A t \in Topics : /\ missing[t] = Absent => must[t] <= pos[t] + extra[t]
                          /\ missing[t] # Absent => missing[t] = must[t]

Ready == checker = "ok" /\ verdict = "none" /\ ~excused => Covered

Settled == verdict = "passed" => checker = "done"

IInv ==
    /\ TypeOK /\ Copies /\ CountedCopies("standby") /\ CountedCopies("again")
    /\ CountedActive /\ Final /\ NotMissing /\ Ready /\ Settled /\ PassMeansCopied

-----------------------------------------------------------------------------
\* A message that comes to a standby topic is a copy or another one.
LEMMA AppendCopies ==
    ASSUME TypeOK, Copies, NEW t \in Topics, Append(t),
           pos' \in [Topics -> Nat], extra' \in [Topics -> Nat],
           \A u \in Topics : pos[u] <= pos'[u] /\ extra[u] <= extra'[u],
           pos[t] + extra[t] < pos'[t] + extra'[t]
    PROVE  /\ last' \in [Sides -> Offsets] /\ last'["active"] = last["active"]
           /\ Copies'
<1> DEFINE s == last["standby"][t]
           new == IF s = Absent THEN 1 ELSE s + 1
<1>1. /\ last \in [Sides -> Offsets] /\ pos \in [Topics -> Nat] /\ extra \in [Topics -> Nat]
      /\ "standby" \in Sides /\ "active" \in Sides
  BY Zenon DEF TypeOK, Sides
<1>2. new \in Nat /\ new <= pos'[t] + extra'[t]
  BY <1>1 DEF Offsets, Copies
<1>3. last' = [last EXCEPT !["standby"][t] = new]
  BY Zenon DEF Append
<1> HIDE DEF s, new
<1>4. /\ last' \in [Sides -> Offsets] /\ last'["active"] = last["active"]
      /\ last'["standby"][t] = new
      /\ \A u \in Topics \ {t} : last'["standby"][u] = last["standby"][u]
  BY <1>1, <1>2, <1>3, Zenon DEF Offsets
<1>5. ASSUME NEW u \in Topics \ {t}, last["standby"][u] # Absent
      PROVE  last["standby"][u] <= pos'[u] + extra'[u]
  BY <1>1, <1>5 DEF Copies, Offsets
<1>6. QED
  BY <1>2, <1>4, <1>5, Zenon DEF Copies

\* The clusters change, and what came to the standby side only grows.
LEMMA ClustersKeeps ==
    ASSUME IInv, Clusters
    PROVE  IInv'
<1>1. PICK t \in Topics :
          Produce(t) \/ Mirror(t) \/ WriteStandby(t) \/ (\E side \in Sides : Purge(side, t))
  BY Zenon DEF Clusters, ReplicatedTopics
<1>2. UNCHANGED Audit
  BY <1>1, Zenon DEF Produce, Mirror, WriteStandby, Purge
<1>3. /\ first' \in [Sides -> [Topics -> Nat]]
      /\ last' \in [Sides -> Offsets] /\ last'["active"] \in [Topics -> Nat]
      /\ pos' \in [Topics -> Nat] /\ extra' \in [Topics -> Nat]
      /\ \A u \in Topics : pos[u] <= pos'[u] /\ extra[u] <= extra'[u]
      /\ Copies'
  <2>1. /\ first \in [Sides -> [Topics -> Nat]]
        /\ last \in [Sides -> Offsets] /\ last["active"] \in [Topics -> Nat]
        /\ pos \in [Topics -> Nat] /\ extra \in [Topics -> Nat]
        /\ TypeOK /\ Copies
    BY Zenon DEF IInv, TypeOK
  <2>2. CASE Produce(t)
    BY <2>1, <2>2 DEF Produce, Copies, Offsets, Sides
  <2>3. CASE extra' = [extra EXCEPT ![t] = @ + 1] /\ Append(t) /\ UNCHANGED <<first, pos>>
    <3>1. /\ extra' \in [Topics -> Nat] /\ extra[t] < extra'[t]
          /\ \A u \in Topics : pos[u] <= pos'[u] /\ extra[u] <= extra'[u]
      BY <2>1, <2>3
    <3>2. pos[t] + extra[t] < pos'[t] + extra'[t]
      BY <2>1, <2>3, <3>1
    <3>3. QED
      BY <2>1, <2>3, <3>1, <3>2, AppendCopies, Zenon
  <2>4. CASE Mirror(t) /\ UNCHANGED extra
    <3> DEFINE next == IF pos[t] < first["active"][t] THEN first["active"][t] ELSE pos[t]
    <3>1. pos' = [pos EXCEPT ![t] = next + 1] /\ UNCHANGED <<first, extra>> /\ Append(t)
      <4>1. extra' # [extra EXCEPT ![t] = @ + 1]
        BY <2>1, <2>4
      <4>2. QED
        BY <2>4, <4>1, Zenon DEF Mirror, AppendExtra
    <3>2. next \in Nat /\ pos[t] <= next
      BY <2>1 DEF Sides
    <3> HIDE DEF next
    <3>3. pos' \in [Topics -> Nat] /\ \A u \in Topics : pos[u] <= pos'[u]
      BY <2>1, <3>1, <3>2
    <3>4. pos[t] + extra[t] < pos'[t] + extra'[t] /\ \A u \in Topics : extra[u] <= extra'[u]
      BY <2>1, <3>1, <3>2
    <3>5. QED
      BY <2>1, <3>1, <3>3, <3>4, AppendCopies, Zenon
  <2>5. CASE \E side \in Sides : Purge(side, t)
    BY <2>1, <2>5 DEF Purge, Copies, Sides
  <2>6. QED
    BY <1>1, <2>2, <2>3, <2>4, <2>5, Zenon DEF Mirror, WriteStandby, AppendExtra
<1>4. TypeOK'
  BY <1>2, <1>3, Zenon DEF IInv, TypeOK, Audit, history
<1>5. \A c \in {"standby", "again"} : CountedCopies(c)'
  BY <1>2, <1>3 DEF IInv, TypeOK, CountedCopies, Audit, history, CallSet, Offsets, Calls, Sides
<1>6. CountedActive' /\ Final' /\ Settled'
  BY <1>2, Zenon DEF IInv, CountedActive, Final, Settled, Audit, history
<1>7. (Covered => Covered') /\ NotMissing'
  BY <1>2, <1>3 DEF IInv, TypeOK, Covered, NotMissing, Audit, history
<1>8. Ready' /\ PassMeansCopied'
  BY <1>2, <1>7, Zenon DEF IInv, Ready, PassMeansCopied, Audit, history
<1>9. QED
  BY <1>3, <1>4, <1>5, <1>6, <1>7, <1>8, Zenon DEF IInv

-----------------------------------------------------------------------------
\* What a step of a call of getMessagesCount leaves.
CallFrame(c) ==
    /\ counter' \in [Calls -> CallSet]
    /\ \A k \in Calls \ {c} : counter'[k] = counter[k]
    /\ UNCHANGED <<first, last, pos, extra, checker, missing, verdict>>
    /\ must' \in [Topics -> Nat]
    /\ excused' \in BOOLEAN /\ (excused => excused')

\* A count of the standby side.
LEMMA StandbyKeeps ==
    ASSUME IInv, NEW c \in {"standby", "again"}, CallFrame(c), must' = must, CountedCopies(c)'
    PROVE  IInv'
<1>1. TypeOK'
  BY Zenon DEF IInv, TypeOK, CallFrame
<1>2. Copies' /\ Settled'
  BY Zenon DEF IInv, Copies, Settled, CallFrame
<1>3. CountedCopies("standby")' /\ CountedCopies("again")'
  BY Zenon DEF IInv, CountedCopies, CallFrame, Calls, Sides
<1>4. counter'["active"] = counter["active"]
  BY Zenon DEF CallFrame, Calls, Sides
<1>5. CountedActive' /\ Final'
  BY <1>4, Zenon DEF IInv, CountedActive, Final, CallFrame
<1>6. NotMissing' /\ Ready' /\ PassMeansCopied'
  BY Zenon DEF IInv, NotMissing, Ready, PassMeansCopied, Covered, CallFrame
<1>7. QED
  BY <1>1, <1>2, <1>3, <1>5, <1>6, Zenon DEF IInv

\* A count of the active side: what the audit saw changes only while it counts.
LEMMA ActiveKeeps ==
    ASSUME IInv, CallFrame("active"), must' = must \/ counter["active"].at = "count",
           counter["active"].at \notin {"taken", "idle"} \/ counter'["active"].at \in {"taken", "idle"},
           CountedActive'
    PROVE  IInv'
<1>1. TypeOK'
  BY Zenon DEF IInv, TypeOK, CallFrame
<1>2. Copies' /\ Settled'
  BY Zenon DEF IInv, Copies, Settled, CallFrame
<1>3. CountedCopies("standby")' /\ CountedCopies("again")'
  BY Zenon DEF IInv, CountedCopies, CallFrame, Calls, Sides
<1>4. Final'
  BY Zenon DEF IInv, Final, CallFrame
<1>5. checker \in {"loop", "recount", "ok", "done"} => must' = must
  BY Zenon DEF IInv, Final
<1>6. NotMissing' /\ Ready' /\ PassMeansCopied'
  BY <1>5, Zenon DEF IInv, NotMissing, Ready, PassMeansCopied, Settled, Covered, CallFrame
<1>7. QED
  BY <1>1, <1>2, <1>3, <1>4, <1>6, Zenon DEF IInv

\* The latest offset of a topic: that of the standby side was copied.
LEMMA CountLatestKeeps ==
    ASSUME IInv, NEW c \in Calls, CountLatest(c)
    PROVE  IInv'
<1>1. PICK t \in counter[c].topics \ Partitions(counter[c].count) :
        /\ last[SideOf(c)][t] # Absent
        /\ counter' = [counter EXCEPT ![c].topic = t, ![c].latest = last[SideOf(c)][t]]
        /\ must' = IF c = "active" THEN [must EXCEPT ![t] = last[c][t]] ELSE must
  BY Zenon DEF CountLatest
<1>2. /\ counter[c].at = "count" /\ counter[c].topic = Absent
      /\ UNCHANGED <<first, last, pos, extra, checker, missing, verdict, excused>>
  BY Zenon DEF CountLatest, clusters
<1>3. /\ counter \in [Calls -> CallSet] /\ last \in [Sides -> Offsets]
      /\ last["active"] \in [Topics -> Nat]
      /\ excused \in BOOLEAN /\ must \in [Topics -> Nat]
  BY Zenon DEF IInv, TypeOK
<1>4. counter[c] \in CallSet /\ t \in Topics /\ counter[c].count[t] = Absent
  BY <1>1, <1>3, Zenon DEF CallSet, Partitions
<1>5. last[SideOf(c)][t] \in Nat
  BY <1>1, <1>3, <1>4, Zenon DEF SideOf, Sides, Offsets
<1>6. /\ counter' \in [Calls -> CallSet]
      /\ counter'[c].at = "count" /\ counter'[c].topic = t
      /\ counter'[c].latest = last[SideOf(c)][t] /\ counter'[c].count = counter[c].count
      /\ \A k \in Calls \ {c} : counter'[k] = counter[k]
  BY <1>1, <1>2, <1>3, <1>4, <1>5, Zenon DEF CallSet
<1>7. CASE c = "active"
  <2>1. must' = [must EXCEPT ![t] = last["active"][t]] /\ last["active"][t] \in Nat
    BY <1>1, <1>3, <1>4, <1>7, Zenon
  <2>2. must' \in [Topics -> Nat] /\ must'[t] = last["active"][t]
    BY <1>3, <1>4, <2>1, Zenon
  <2>3. \A u \in Topics \ {t} : must'[u] = must[u]
    BY <1>3, <2>1, Zenon
  <2>4. CallFrame("active")
    BY <1>2, <1>3, <1>6, <1>7, <2>2, Zenon DEF CallFrame
  <2>5. CountedActive'
    <3>1. checker \notin {"config", "clients"}
      BY <1>2, <1>7, Zenon DEF IInv, CountedActive
    <3>2. t # Absent
      BY <1>4, AuditAssumption, Zenon
    <3>3. ~excused => \A u \in Topics :
             /\ counter["active"].count[u] # Absent => counter["active"].count[u] = must'[u]
             /\ counter["active"].count[u] = Absent /\ must'[u] # 0 => u = t
      BY <1>2, <1>4, <1>7, <2>2, <2>3, AuditAssumption DEF IInv, CountedActive
    <3>4. QED
      BY <1>2, <1>4, <1>6, <1>7, <2>2, <3>1, <3>2, <3>3 DEF CountedActive, SideOf
  <2>6. QED
    BY <1>2, <1>6, <1>7, <2>4, <2>5, ActiveKeeps, Zenon
<1>8. CASE c # "active"
  <2>1. c \in {"standby", "again"} /\ SideOf(c) = "standby" /\ must' = must
    BY <1>1, <1>8, Zenon DEF Calls, Sides, SideOf
  <2>2. CallFrame(c)
    BY <1>2, <1>3, <1>6, <2>1, Zenon DEF CallFrame
  <2>3. last["standby"][t] <= pos[t] + extra[t]
    BY <1>1, <1>4, <2>1, Zenon DEF IInv, Copies
  <2>4. CountedCopies(c)
    BY <2>1, Zenon DEF IInv
  <2>5. CountedCopies(c)'
    BY <1>2, <1>6, <2>1, <2>3, <2>4, Zenon DEF CountedCopies
  <2>6. QED
    BY <2>1, <2>2, <2>5, StandbyKeeps, Zenon
<1>9. QED
  BY <1>7, <1>8, Zenon

\* A count is not more than the latest offset, and the latest offset itself
\* where nothing was deleted.
LEMMA CalculateFact ==
    ASSUME NEW latest \in Nat, NEW earliest \in Nat
    PROVE  /\ calculateMessagesCount(latest, earliest) \in Nat
           /\ calculateMessagesCount(latest, earliest) <= latest
           /\ earliest = 0 => calculateMessagesCount(latest, earliest) = latest
BY DEF calculateMessagesCount

\* The earliest offset completes the count of a topic.
LEMMA CountEarliestKeeps ==
    ASSUME IInv, NEW c \in Calls, CountEarliest(c)
    PROVE  IInv'
<1> DEFINE t == counter[c].topic
           n == calculateMessagesCount(counter[c].latest, first[SideOf(c)][t])
<1>1. /\ counter[c].at = "count" /\ t # Absent
      /\ counter' = [counter EXCEPT ![c].topic = Absent, ![c].count[t] = n]
      /\ excused' = (excused \/ (c = "active" /\ first[c][t] > 0))
      /\ UNCHANGED <<first, last, pos, extra, checker, missing, verdict, must>>
  BY Zenon DEF CountEarliest, clusters
<1>2. /\ counter \in [Calls -> CallSet] /\ first \in [Sides -> [Topics -> Nat]]
      /\ excused \in BOOLEAN /\ must \in [Topics -> Nat]
      /\ pos \in [Topics -> Nat] /\ extra \in [Topics -> Nat]
  BY Zenon DEF IInv, TypeOK
<1>3. counter[c] \in CallSet /\ t \in Topics
  BY <1>1, <1>2, Zenon DEF CallSet
<1>4. first[SideOf(c)][t] \in Nat /\ counter[c].latest \in Nat
  BY <1>2, <1>3, Zenon DEF SideOf, Sides, CallSet
<1>5. n \in Nat /\ n <= counter[c].latest /\ (first[SideOf(c)][t] = 0 => n = counter[c].latest)
  BY <1>4, CalculateFact, Zenon
<1> HIDE DEF n, t
<1>6. /\ counter' \in [Calls -> CallSet]
      /\ counter'[c].at = "count" /\ counter'[c].topic = Absent
      /\ counter'[c].count[t] = n
      /\ \A u \in Topics \ {t} : counter'[c].count[u] = counter[c].count[u]
      /\ \A k \in Calls \ {c} : counter'[k] = counter[k]
  <2> DEFINE new == [counter[c] EXCEPT !.topic = Absent, !.count[t] = n]
  <2>1. counter[c].count \in Offsets /\ [counter[c].count EXCEPT ![t] = n] \in Offsets
    BY <1>3, <1>5, Zenon DEF CallSet, Offsets
  <2>2. new \in CallSet
    BY <1>3, <2>1, Zenon DEF CallSet
  <2>3. /\ new.at = "count" /\ new.topic = Absent /\ new.count[t] = n
        /\ \A u \in Topics \ {t} : new.count[u] = counter[c].count[u]
    BY <1>1, <1>3, <2>1, Zenon DEF CallSet, Offsets
  <2>4. counter' = [counter EXCEPT ![c] = new]
    BY <1>1, Zenon
  <2> HIDE DEF new
  <2>5. QED
    BY <1>2, <2>2, <2>3, <2>4, Zenon
<1>7. excused' \in BOOLEAN /\ (excused => excused')
  BY <1>1, <1>2, Zenon
<1>8. CallFrame(c)
  BY <1>1, <1>2, <1>6, <1>7, Zenon DEF CallFrame
<1>9. CASE c = "active"
  <2>1. ~excused' => ~excused /\ n = must[t]
    <3>1. SUFFICES ASSUME ~excused' PROVE ~excused /\ n = must[t]
      BY Zenon
    <3>2. ~excused /\ ~(first[c][t] > 0)
      BY <1>1, <1>9, <3>1, Zenon
    <3>3. first[SideOf(c)][t] = 0
      BY <1>4, <1>9, <3>2 DEF SideOf
    <3>4. counter[c].latest = must[t]
      BY <1>1, <1>9, <3>2, Zenon DEF IInv, CountedActive, t
    <3>5. QED
      BY <1>5, <3>2, <3>3, <3>4, Zenon
  <2>2. checker \notin {"config", "clients"}
    BY <1>1, <1>9, Zenon DEF IInv, CountedActive
  <2>3. ~excused => \A u \in Topics \ {t} :
           /\ counter["active"].count[u] # Absent => counter["active"].count[u] = must[u]
           /\ counter["active"].count[u] = Absent => must[u] = 0
    BY <1>9, Zenon DEF IInv, CountedActive, t
  <2>4. n # Absent
    BY <1>5, AuditAssumption
  <2>5. CountedActive'
    BY <1>1, <1>3, <1>6, <1>9, <2>1, <2>2, <2>3, <2>4 DEF CountedActive
  <2>6. QED
    BY <1>1, <1>8, <1>9, <2>5, ActiveKeeps, Zenon
<1>10. CASE c # "active"
  <2>1. c \in {"standby", "again"}
    BY <1>10, Zenon DEF Calls, Sides
  <2>2. CountedCopies(c)
    BY <2>1, Zenon DEF IInv
  <2>3. n <= pos[t] + extra[t]
    BY <1>1, <1>2, <1>3, <1>4, <1>5, <2>2 DEF CountedCopies, t
  <2>4. CountedCopies(c)'
    BY <1>1, <1>3, <1>6, <2>2, <2>3 DEF CountedCopies
  <2>5. QED
    BY <1>1, <1>8, <2>1, <2>4, StandbyKeeps, Zenon
<1>11. QED
  BY <1>9, <1>10, Zenon

\* getMessagesCountWrapped: the goroutine starts with nothing, and what it has
\* counted stays when it sends it; an error that it drops is an excuse.
LEMMA WrappedKeeps ==
    ASSUME IInv, NEW c \in Calls,
           WrappedBegin(c) \/ WrappedCounted(c) \/ WrappedError(c) \/ WrappedDone(c)
    PROVE  IInv'
<1>1. /\ counter \in [Calls -> CallSet] /\ counter[c] \in CallSet
      /\ excused \in BOOLEAN /\ must \in [Topics -> Nat]
  BY Zenon DEF IInv, TypeOK
<1>2. UNCHANGED <<first, last, pos, extra, checker, missing, verdict, must>>
  BY Zenon DEF WrappedBegin, WrappedCounted, WrappedError, WrappedDone, clusters, history
<1>3. excused' \in BOOLEAN /\ (excused => excused')
  BY <1>1, Zenon DEF WrappedBegin, WrappedCounted, WrappedError, WrappedDone, history
<1>4. CASE WrappedBegin(c)
  <2> DEFINE new == Counting(ReplicatedTopics)
  <2>1. /\ new \in CallSet /\ new.at = "count" /\ new.topic = Absent
        /\ new.count = NoCount
    BY Zenon DEF Counting, NoCall, NoCount, CallSet, Offsets, ReplicatedTopics
  <2>2. counter[c].at = "begin" /\ counter' = [counter EXCEPT ![c] = new] /\ excused' = excused
    BY <1>4, Zenon DEF WrappedBegin, history
  <2> HIDE DEF new
  <2>3. /\ counter' \in [Calls -> CallSet] /\ counter'[c] = new
        /\ \A k \in Calls \ {c} : counter'[k] = counter[k]
    BY <1>1, <2>1, <2>2, Zenon
  <2>4. CallFrame(c)
    BY <1>1, <1>2, <1>3, <2>3, Zenon DEF CallFrame
  <2>5. CASE c = "active"
    <3>1. CountedActive'
      BY <1>2, <2>1, <2>2, <2>3, <2>5, AuditAssumption DEF IInv, CountedActive, NoCount
    <3>2. QED
      BY <1>2, <2>2, <2>4, <2>5, <3>1, ActiveKeeps, Zenon
  <2>6. CASE c # "active"
    <3>1. CountedCopies(c)' /\ c \in {"standby", "again"}
      BY <2>1, <2>3, <2>6, Zenon DEF CountedCopies, NoCount, Calls, Sides
    <3>2. QED
      BY <1>2, <2>4, <3>1, StandbyKeeps, Zenon
  <2>7. QED
    BY <2>5, <2>6, Zenon
<1>5. CASE WrappedCounted(c) \/ WrappedError(c) \/ WrappedDone(c)
  <2>1. PICK to \in {"send", "idle"} : counter' = [counter EXCEPT ![c].at = to]
    BY <1>5, Zenon DEF WrappedCounted, WrappedError, WrappedDone
  <2>2. /\ counter' \in [Calls -> CallSet] /\ counter'[c].at = to
        /\ counter'[c].topic = counter[c].topic /\ counter'[c].count = counter[c].count
        /\ counter'[c].latest = counter[c].latest
        /\ \A k \in Calls \ {c} : counter'[k] = counter[k]
    BY <1>1, <2>1, Zenon DEF CallSet
  <2>3. CallFrame(c)
    BY <1>1, <1>2, <1>3, <2>2, Zenon DEF CallFrame
  <2>4. CASE c = "active"
    <3>1. \/ counter[c].at = "count" /\ (counter[c].topic = Absent \/ excused')
          \/ counter[c].at = "taken" /\ to = "idle"
      <4>1. CASE WrappedCounted(c)
        BY <4>1, Zenon DEF WrappedCounted, Counted
      <4>2. CASE WrappedError(c)
        BY <2>4, <4>2, Zenon DEF WrappedError, CountError
      <4>3. CASE WrappedDone(c)
        BY <1>1, <2>1, <2>2, <4>3 DEF WrappedDone, CallSet
      <4>4. QED
        BY <1>5, <4>1, <4>2, <4>3, Zenon
    <3>2. CountedActive'
      BY <1>2, <1>3, <2>2, <2>4, <3>1, Zenon DEF IInv, CountedActive
    <3>3. QED
      BY <1>2, <2>2, <2>3, <2>4, <3>1, <3>2, ActiveKeeps, Zenon
  <2>5. CASE c # "active"
    <3>1. c \in {"standby", "again"}
      BY <2>5, Zenon DEF Calls, Sides
    <3>2. CountedCopies(c)'
      BY <1>2, <2>2, <3>1, Zenon DEF IInv, CountedCopies
    <3>3. QED
      BY <1>2, <2>3, <3>1, <3>2, StandbyKeeps, Zenon
  <2>6. QED
    BY <2>4, <2>5, Zenon
<1>6. QED
  BY <1>4, <1>5, Zenon

-----------------------------------------------------------------------------
\* A step of checkFullReplication that only goes on, and the ticker.
LEMMA GoesKeeps ==
    ASSUME IInv, UNCHANGED <<first, last, pos, extra, counter, missing, must>>,
           checker' \in Places, verdict' \in Verdicts, excused' \in BOOLEAN, excused => excused',
           checker' \in {"config", "clients"} => checker \in {"config", "clients"},
           checker' # checker => checker' \notin {"loop", "takeStandby"},
           checker' = "recount" => checker \in {"loop", "recount"},
           checker' \in {"ok", "err", "done", "panic"} =>
               counter["active"].at \in {"taken", "idle"},
           checker' = "ok" => checker = "ok" \/ excused' \/ verdict' # "none",
           verdict # "none" => verdict' = verdict,
           verdict' # verdict /\ verdict' = "passed" => checker = "ok" /\ checker' = "done",
           verdict = "passed" => checker' = checker
    PROVE  IInv'
<1>1. TypeOK'
  BY Zenon DEF IInv, TypeOK
<1>2. Copies' /\ CountedCopies("standby")' /\ CountedCopies("again")'
  BY Zenon DEF IInv, Copies, CountedCopies
<1>3. CountedActive'
  BY Zenon DEF IInv, CountedActive
<1>4. Final'
  BY Zenon DEF IInv, Final, TypeOK, Places
<1>5. NotMissing'
  BY Zenon DEF IInv, NotMissing, TypeOK
<1>6. Settled'
  BY Zenon DEF IInv, Settled, TypeOK
<1>7. Ready' /\ PassMeansCopied'
  BY Zenon DEF IInv, Ready, PassMeansCopied, Covered, TypeOK, Verdicts
<1>8. QED
  BY <1>1, <1>2, <1>3, <1>4, <1>5, <1>6, <1>7, Zenon DEF IInv

\* The configuration, errors, the wait group, the result and the ticker.
LEMMA CheckerGoesKeeps ==
    ASSUME IInv, KmmConfigPanics \/ KmmConfig \/ CheckerError \/ Wait \/ ReplicationDone \/ Timeout
    PROVE  IInv'
<1>1. /\ verdict \in Verdicts /\ excused \in BOOLEAN /\ checker \in Places
      /\ checker \in {"config", "clients"} => counter["active"].at = "idle"
      /\ checker \in {"recount", "ok", "err", "done", "panic"} =>
            counter["active"].at \in {"taken", "idle"}
      /\ verdict = "passed" => checker = "done"
  BY Zenon DEF IInv, TypeOK, CountedActive, Final, Settled
<1>2. CASE KmmConfigPanics
  BY <1>1, <1>2, GoesKeeps, Zenon DEF KmmConfigPanics, CheckerGoes, clusters, Places, Verdicts
<1>3. CASE KmmConfig
  <2>1. /\ checker = "config" /\ UNCHANGED <<first, last, pos, extra, counter, missing, must, verdict>>
        /\ checker' \in {"clients", "ok"} /\ (checker' = "ok" => ~ReplicationEnabled(config))
    BY <1>3, Zenon DEF KmmConfig, CheckerGoes, clusters
  <2>2. excused' \in BOOLEAN /\ (excused => excused') /\ (~ReplicationEnabled(config) => excused')
    BY <1>1, <1>3, Zenon DEF KmmConfig
  <2>3. QED
    BY <1>1, <2>1, <2>2, GoesKeeps, Zenon DEF Places
<1>4. CASE CheckerError
  BY <1>1, <1>4, GoesKeeps, Zenon DEF CheckerError, CheckerGoes, clusters, Places
<1>5. CASE Wait
  BY <1>1, <1>5, GoesKeeps, Zenon DEF Wait, CheckerGoes, clusters, Places
<1>6. CASE ReplicationDone
  BY <1>1, <1>6, GoesKeeps, Zenon DEF ReplicationDone, CheckerGoes, clusters, Places, Verdicts
<1>7. CASE Timeout
  BY <1>1, <1>7, GoesKeeps, Zenon DEF Timeout, clusters, history, Places, Verdicts
<1>8. QED
  BY <1>2, <1>3, <1>4, <1>5, <1>6, <1>7, Zenon

\* The goroutines are started, with nothing counted.
LEMMA ClientsKeeps ==
    ASSUME IInv, Clients
    PROVE  IInv'
<1>1. /\ checker = "clients" /\ checker' = "wait"
      /\ UNCHANGED <<first, last, pos, extra, missing, verdict, must, excused>>
      /\ counter' = [c \in Calls |-> IF c \in Sides THEN [NoCall EXCEPT !.at = "begin"] ELSE NoCall]
  BY Zenon DEF Clients, clusters, history
<1>2. NoCall \in CallSet /\ [NoCall EXCEPT !.at = "begin"] \in CallSet
  BY Zenon DEF NoCall, NoCount, CallSet, Offsets
<1>3. /\ counter' \in [Calls -> CallSet]
      /\ \A c \in Calls : counter'[c].count = NoCount /\ counter'[c].topic = Absent
      /\ counter'["active"].at = "begin"
  BY <1>1, <1>2, Zenon DEF NoCall, Calls, Sides
<1>4. TypeOK'
  BY <1>1, <1>3, Zenon DEF IInv, TypeOK, Places
<1>5. Copies' /\ CountedCopies("standby")' /\ CountedCopies("again")'
  BY <1>1, <1>3 DEF IInv, Copies, CountedCopies, NoCount, Calls, Sides
<1>6. CountedActive'
  BY <1>1, <1>3, AuditAssumption DEF IInv, CountedActive, NoCount, Calls, Sides
<1>7. QED
  BY <1>1, <1>4, <1>5, <1>6, Zenon DEF IInv, Final, NotMissing, Ready, Settled, PassMeansCopied

\* The counts of the active side are taken.
LEMMA TakeActiveKeeps ==
    ASSUME IInv, TakeActive
    PROVE  IInv'
<1>1. /\ checker = "takeActive" /\ checker' = "takeStandby"
      /\ counter["active"].at = "send" /\ counter' = [counter EXCEPT !["active"].at = "taken"]
      /\ UNCHANGED <<first, last, pos, extra, missing, verdict, must, excused>>
  BY Zenon DEF TakeActive, clusters, history
<1>2. /\ counter' \in [Calls -> CallSet] /\ counter'["active"].at = "taken"
      /\ counter'["active"].topic = counter["active"].topic
      /\ counter'["active"].count = counter["active"].count
      /\ counter'["active"].latest = counter["active"].latest
      /\ \A k \in Calls \ {"active"} : counter'[k] = counter[k]
  BY <1>1 DEF IInv, TypeOK, CallSet, Calls, Sides
<1>3. TypeOK'
  BY <1>1, <1>2, Zenon DEF IInv, TypeOK, Places
<1>4. Copies' /\ CountedCopies("standby")' /\ CountedCopies("again")'
  BY <1>1, <1>2, Zenon DEF IInv, Copies, CountedCopies, Calls, Sides
<1>5. CountedActive'
  BY <1>1, <1>2, Zenon DEF IInv, CountedActive
<1>6. QED
  BY <1>1, <1>2, <1>3, <1>4, <1>5, Zenon DEF IInv, Final, NotMissing, Ready, Settled, PassMeansCopied

\* What flushOut drops is copied if its first argument is what the audit saw
\* and its second argument was copied.
LEMMA FlushOutFact ==
    ASSUME NEW seen \in Offsets, NEW counted \in Offsets,
           pos \in [Topics -> Nat], extra \in [Topics -> Nat], must \in [Topics -> Nat],
           \A t \in Topics : seen[t] # Absent => seen[t] = must[t],
           \A t \in Topics : seen[t] = Absent => must[t] <= pos[t] + extra[t],
           \A t \in Topics : counted[t] # Absent => counted[t] <= pos[t] + extra[t]
    PROVE  \A t \in Topics : /\ flushOut(seen, counted)[t] = Absent => must[t] <= pos[t] + extra[t]
                             /\ flushOut(seen, counted)[t] # Absent =>
                                   flushOut(seen, counted)[t] = must[t]
<1> SUFFICES ASSUME NEW t \in Topics
             PROVE  /\ flushOut(seen, counted)[t] = Absent => must[t] <= pos[t] + extra[t]
                    /\ flushOut(seen, counted)[t] # Absent => flushOut(seen, counted)[t] = must[t]
  BY Zenon
<1>1. CASE seen[t] = Absent
  BY <1>1, Zenon DEF flushOut, Partitions
<1>2. CASE seen[t] # Absent /\ counted[t] = Absent
  BY <1>2, Zenon DEF flushOut, Partitions
<1>3. CASE seen[t] # Absent /\ counted[t] # Absent
  <2>1. seen[t] \in Nat /\ counted[t] \in Nat /\ seen[t] = must[t] /\ counted[t] <= pos[t] + extra[t]
    BY <1>3, Zenon DEF Offsets
  <2>2. flushOut(seen, counted)[t] = IF seen[t] > counted[t] THEN seen[t] ELSE Absent
    BY <1>3, Zenon DEF flushOut, Partitions
  <2>3. QED
    BY <1>3, <2>1, <2>2
<1>4. QED
  BY <1>1, <1>2, <1>3, Zenon

\* Comparing the counts: what is left missing is what was seen and not copied.
LEMMA ComparedKeeps ==
    ASSUME IInv, NEW c \in {"standby", "again"}, NEW seen \in Offsets,
           missing' = flushOut(seen, counter[c].count),
           checker' = IF Partitions(missing') = {} THEN "ok" ELSE "loop",
           counter' \in [Calls -> CallSet],
           \A k \in Calls \ {c} : counter'[k] = counter[k],
           CountedCopies(c)',
           checker \in {"takeStandby", "recount"},
           UNCHANGED <<first, last, pos, extra, verdict, must, excused>>,
           ~excused => \A t \in Topics : /\ seen[t] # Absent => seen[t] = must[t]
                                         /\ seen[t] = Absent => must[t] <= pos[t] + extra[t]
    PROVE  IInv'
<1>1. /\ counter[c] \in CallSet
      /\ pos \in [Topics -> Nat] /\ extra \in [Topics -> Nat] /\ must \in [Topics -> Nat]
      /\ verdict # "passed"
  BY Zenon DEF IInv, TypeOK, Calls, Sides, Settled
<1>2. CountedCopies(c) /\ counter[c].count \in Offsets
  BY <1>1, Zenon DEF IInv, CallSet
<1>3. ~excused => \A t \in Topics : /\ missing'[t] = Absent => must[t] <= pos[t] + extra[t]
                                    /\ missing'[t] # Absent => missing'[t] = must[t]
  BY <1>1, <1>2, FlushOutFact, Zenon DEF CountedCopies
<1>4. missing' \in Offsets
  BY Zenon DEF flushOut, Partitions, Offsets
<1>5. checker' = "ok" => \A t \in Topics : missing'[t] = Absent
  BY Zenon DEF Partitions
<1>6. checker' \in {"ok", "loop"} /\ counter'["active"] = counter["active"]
  BY Zenon DEF Calls, Sides
<1>7. TypeOK'
  BY <1>4, <1>6, Zenon DEF IInv, TypeOK, Places
<1>8. Copies' /\ CountedCopies("standby")' /\ CountedCopies("again")'
  BY Zenon DEF IInv, Copies, CountedCopies, Calls, Sides
<1>9. CountedActive' /\ Final'
  BY <1>6, Zenon DEF IInv, CountedActive, Final
<1>10. NotMissing'
  BY <1>3, Zenon DEF NotMissing
<1>11. Ready'
  BY <1>3, <1>5, Zenon DEF Ready, Covered
<1>12. Settled' /\ PassMeansCopied'
  BY <1>1, Zenon DEF Settled, PassMeansCopied
<1>13. QED
  BY <1>7, <1>8, <1>9, <1>10, <1>11, <1>12, Zenon DEF IInv

\* The counts of the standby side are taken and compared.
LEMMA TakeStandbyKeeps ==
    ASSUME IInv, TakeStandby
    PROVE  IInv'
<1> DEFINE seen == counter["active"].count
<1>1. /\ checker = "takeStandby" /\ counter' = [counter EXCEPT !["standby"].at = "taken"]
      /\ missing' = flushOut(seen, counter["standby"].count)
      /\ checker' = IF Partitions(missing') = {} THEN "ok" ELSE "loop"
      /\ UNCHANGED <<first, last, pos, extra, verdict, must, excused>>
  BY Zenon DEF TakeStandby, clusters, history
<1>2. /\ counter' \in [Calls -> CallSet]
      /\ counter'["standby"].topic = counter["standby"].topic
      /\ counter'["standby"].count = counter["standby"].count
      /\ counter'["standby"].latest = counter["standby"].latest
      /\ \A k \in Calls \ {"standby"} : counter'[k] = counter[k]
  BY <1>1 DEF IInv, TypeOK, CallSet, Calls, Sides
<1>3. CountedCopies("standby")'
  BY <1>1, <1>2, Zenon DEF IInv, CountedCopies
<1>4. /\ seen \in Offsets /\ pos \in [Topics -> Nat] /\ extra \in [Topics -> Nat]
      /\ must \in [Topics -> Nat]
  BY Zenon DEF IInv, TypeOK, CallSet, Calls, Sides
<1>5. ~excused => \A t \in Topics : /\ seen[t] # Absent => seen[t] = must[t]
                                    /\ seen[t] = Absent => must[t] <= pos[t] + extra[t]
  <2>1. counter["active"].at # "count"
    BY <1>1, Zenon DEF IInv, Final
  <2>2. ~excused => counter["active"].topic = Absent
    BY <2>1, Zenon DEF IInv, CountedActive
  <2>3. ~excused => \A t \in Topics : /\ seen[t] # Absent => seen[t] = must[t]
                                      /\ seen[t] = Absent => must[t] = 0
    BY <2>2, AuditAssumption, Zenon DEF IInv, CountedActive
  <2>4. \A t \in Topics : must[t] = 0 => must[t] <= pos[t] + extra[t]
    BY <1>4
  <2>5. QED
    BY <2>3, <2>4, Zenon
<1> HIDE DEF seen
<1>6. QED
  BY <1>1, <1>2, <1>3, <1>4, <1>5, ComparedKeeps, Zenon

\* The topics that are missing are counted again, and compared again.
LEMMA RecountedKeeps ==
    ASSUME IInv, Recounted
    PROVE  IInv'
<1>1. /\ checker = "recount" /\ counter' = [counter EXCEPT !["again"] = NoCall]
      /\ missing' = flushOut(missing, counter["again"].count)
      /\ checker' = IF Partitions(missing') = {} THEN "ok" ELSE "loop"
      /\ UNCHANGED <<first, last, pos, extra, verdict, must, excused>>
  BY Zenon DEF Recounted, clusters, history
<1>2. NoCall \in CallSet
  BY Zenon DEF NoCall, NoCount, CallSet, Offsets
<1>3. /\ counter' \in [Calls -> CallSet] /\ counter'["again"] = NoCall
      /\ \A k \in Calls \ {"again"} : counter'[k] = counter[k]
  BY <1>1, <1>2, Zenon DEF IInv, TypeOK, Calls
<1>4. CountedCopies("again")'
  BY <1>3 DEF CountedCopies, NoCall, NoCount
<1>5. missing \in Offsets
  BY Zenon DEF IInv, TypeOK
<1>6. ~excused => \A t \in Topics : /\ missing[t] # Absent => missing[t] = must[t]
                                    /\ missing[t] = Absent => must[t] <= pos[t] + extra[t]
  BY <1>1, Zenon DEF IInv, NotMissing
<1>7. QED
  BY <1>1, <1>3, <1>4, <1>5, <1>6, ComparedKeeps, Zenon

\* The loop goes on as long as somebody waits for the result.
LEMMA FlushOutKeeps ==
    ASSUME IInv, FlushOut
    PROVE  IInv'
<1>1. /\ checker = "loop" /\ UNCHANGED <<first, last, pos, extra, missing, verdict, must, excused>>
      /\ counter["active"].at \in {"taken", "idle"} /\ excused \in BOOLEAN /\ verdict \in Verdicts
      /\ verdict # "passed"
  BY Zenon DEF FlushOut, clusters, history, IInv, Final, TypeOK, Settled
<1>2. CASE isChannelOpen
  <2> DEFINE new == Counting(Partitions(missing))
  <2>1. /\ counter' = [counter EXCEPT !["again"] = new] /\ checker' = "recount"
    BY <1>2, Zenon DEF FlushOut
  <2>2. new \in CallSet /\ new.topic = Absent /\ new.count = NoCount
    BY Zenon DEF Counting, NoCall, NoCount, CallSet, Offsets, Partitions
  <2> HIDE DEF new
  <2>3. /\ counter' \in [Calls -> CallSet] /\ counter'["again"] = new
        /\ counter'["active"] = counter["active"] /\ counter'["standby"] = counter["standby"]
    BY <2>1, <2>2, Zenon DEF IInv, TypeOK, Calls, Sides
  <2>4. TypeOK'
    BY <1>1, <2>1, <2>3, Zenon DEF IInv, TypeOK, Places
  <2>5. Copies' /\ CountedCopies("standby")' /\ CountedCopies("again")'
    BY <1>1, <2>2, <2>3, Zenon DEF IInv, Copies, CountedCopies, NoCount
  <2>6. CountedActive' /\ Final' /\ NotMissing'
    BY <1>1, <2>1, <2>3, Zenon DEF IInv, CountedActive, Final, NotMissing
  <2>7. QED
    BY <1>1, <2>1, <2>4, <2>5, <2>6, Zenon DEF IInv, Ready, Settled, PassMeansCopied
<1>3. CASE ~isChannelOpen
  <2>1. checker' = "ok" /\ counter' = counter /\ verdict # "none"
    BY <1>3, Zenon DEF FlushOut, isChannelOpen
  <2>2. QED
    BY <1>1, <2>1, GoesKeeps, Zenon DEF Places
<1>4. QED
  BY <1>2, <1>3, Zenon

-----------------------------------------------------------------------------
\* Nothing is counted at the start.
LEMMA InitIInv ==
    Init => IInv
<1> SUFFICES ASSUME Init PROVE IInv
  BY Zenon
<1>1. NoCall \in CallSet /\ NoCount \in Offsets
  BY Zenon DEF NoCall, NoCount, CallSet, Offsets
<1>2. TypeOK
  <2>1. extra \in [Topics -> Nat] /\ 0 \in Nat
    BY AuditAssumption DEF Init
  <2>2. last \in [Sides -> Offsets] /\ last["active"] \in [Topics -> Nat]
    BY <2>1, Zenon DEF Init, Offsets, Sides
  <2>3. QED
    BY <1>1, <2>1, <2>2, Zenon DEF Init, TypeOK, Places, Verdicts
<1>3. Copies
  BY DEF Init, Copies, Sides
<1>4. \A c \in Calls : counter[c].count = NoCount /\ counter[c].topic = Absent
                        /\ counter[c].at = "idle"
  BY Zenon DEF Init, NoCall
<1>5. CountedCopies("standby") /\ CountedCopies("again") /\ CountedActive
  BY <1>4, Zenon DEF Init, CountedCopies, CountedActive, NoCount, Calls, Sides
<1>6. QED
  BY <1>2, <1>3, <1>5, Zenon DEF Init, IInv, Final, NotMissing, Ready, Settled, PassMeansCopied

\* The invariant is inductive.
LEMMA NextIInv ==
    IInv /\ [Next]_vars => IInv'
<1> SUFFICES ASSUME IInv, [Next]_vars PROVE IInv'
  BY Zenon
<1>1. CASE UNCHANGED vars
  <2>1. UNCHANGED <<first, last, pos, extra, counter, missing, must, checker, verdict, excused>>
    BY <1>1, Zenon DEF vars, clusters, history
  <2>2. QED
    BY <2>1, Zenon DEF IInv, TypeOK, Copies, CountedCopies, CountedActive, Final, NotMissing, Ready,
                Settled, PassMeansCopied, Covered
<1>2. ASSUME NEW c \in Calls, Counter(c) PROVE IInv'
  BY <1>2, CountLatestKeeps, CountEarliestKeeps, WrappedKeeps, Zenon DEF Counter
<1>3. CASE Checker \/ Timeout
  BY <1>3, CheckerGoesKeeps, ClientsKeeps, TakeActiveKeeps, TakeStandbyKeeps, RecountedKeeps,
     FlushOutKeeps, Zenon DEF Checker
<1>4. QED
  BY <1>1, <1>2, <1>3, ClustersKeeps, Zenon DEF Next

\* The inductive invariant holds in every reachable state.
THEOREM Invariance ==
    Spec => []IInv
BY InitIInv, NextIInv, PTL DEF Spec

\* Offsets, counts and the states of the goroutines keep their types.
THEOREM TypeCorrect ==
    Spec => []TypeOK
<1>1. IInv => TypeOK
  BY Zenon DEF IInv
<1>2. QED
  BY <1>1, Invariance, PTL

\* A result of CheckFullReplication that says that everything is replicated is
\* right but for as many messages as the standby topics got otherwise, unless an
\* excuse is known, whatever the order of the goroutines.
THEOREM PassMeansCopiedThm ==
    Spec => []PassMeansCopied
<1>1. IInv => PassMeansCopied
  BY Zenon DEF IInv
<1>2. QED
  BY <1>1, Invariance, PTL

-----------------------------------------------------------------------------
\* A step of the audit is a step of AuditPromise.
LEMMA StepPromised ==
    ASSUME IInv, [Next]_vars
    PROVE  [Promise!Next]_(Promise!promise)
<1>1. CASE verdict' = verdict
  <2>1. excused' \in BOOLEAN /\ (excused => excused')
    BY Zenon DEF IInv, TypeOK, Next, vars, history, Checker, Counter, Clusters, KmmConfigPanics,
            KmmConfig, CheckerError, Clients, Wait, TakeActive, TakeStandby, FlushOut,
            Recounted, ReplicationDone, Timeout, CountLatest, CountEarliest, WrappedBegin,
            WrappedCounted, WrappedError, WrappedDone, Produce, Mirror, WriteStandby, Purge, Audit
  <2>2. \A t \in Topics : extra[t] # 0 => extra'[t] # 0
    <3>1. CASE UNCHANGED extra
      BY <3>1, Zenon
    <3>2. CASE \E t \in Topics : AppendExtra(t)
      BY <3>2 DEF AppendExtra, IInv, TypeOK
    <3>3. QED
      BY <3>1, <3>2, Zenon DEF Next, vars, clusters, Checker, Counter, Clusters, ReplicatedTopics,
            KmmConfigPanics, KmmConfig, CheckerError, CheckerGoes, Clients, Wait, TakeActive,
            TakeStandby, FlushOut, Recounted, ReplicationDone, Timeout, CountLatest,
            CountEarliest, WrappedBegin, WrappedCounted, WrappedError, WrappedDone, Produce,
            Mirror, WriteStandby, Purge
  <2>3. Overlooked' \in BOOLEAN /\ (Overlooked => Overlooked')
    BY <2>1, <2>2, Zenon DEF Overlooked
  <2>4. QED
    BY <1>1, <2>3, Zenon DEF Promise!Next, Promise!World
<1>2. CASE verdict' # verdict
  <2>1. KmmConfigPanics \/ ReplicationDone \/ Timeout
    BY <1>2, Zenon DEF Next, vars, Checker, Counter, Clusters, KmmConfigPanics, KmmConfig,
            CheckerError, Clients, Wait, TakeActive, TakeStandby, FlushOut, Recounted,
            ReplicationDone, Timeout, CountLatest, CountEarliest, WrappedBegin, WrappedCounted,
            WrappedError, WrappedDone, Produce, Mirror, WriteStandby, Purge, Audit
  <2>2. /\ verdict = "none" /\ UNCHANGED <<must, pos, extra, excused>>
        /\ verdict' \in {"passed", "failed", "timeout", "crashed"}
        /\ verdict' = "passed" => checker = "ok"
    BY <1>2, <2>1, Zenon DEF KmmConfigPanics, ReplicationDone, Timeout, CheckerGoes, clusters, history
  <2>3. verdict' = "passed" => (~Copied => Overlooked)
    <3>1. Covered /\ ~Overlooked => Copied
      BY DEF Covered, Overlooked, Copied, IInv, TypeOK
    <3>2. QED
      BY <2>2, <3>1, Zenon DEF IInv, Ready, Overlooked
  <2>4. (~Copied)' = ~Copied /\ Overlooked' = Overlooked
    BY <2>2, Zenon DEF Copied, Overlooked
  <2>5. QED
    BY <2>2, <2>3, <2>4, Zenon DEF Promise!Next, Promise!Answer, Promise!Answers, Promise!MayPass
<1>3. QED
  BY <1>1, <1>2, Zenon

\* There is no answer at the start.
LEMMA InitPromised ==
    Init => Promise!Init
BY Zenon DEF Init, Promise!Init, Overlooked

\* The audit keeps the promise DRSwitchover is built on, for all topics and
\* configurations: the part of AuditKeepsPromise that is about safety.
THEOREM PromiseThm ==
    Spec => Promise!Init /\ [][Promise!Next]_(Promise!promise)
BY InitPromised, StepPromised, Invariance, PTL DEF Spec
=============================================================================
