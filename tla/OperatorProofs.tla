--------------------------- MODULE OperatorProofs ---------------------------
(***************************************************************************)
(* Proofs about the process of the operator and the map that two of its    *)
(* jobs write together: WorkerPool, for every limit of failures, all       *)
(* options and any number of times that restartResetAfter passes; and      *)
(* MirrorMakerConfig, for all sets of resources, clusters and regions and  *)
(* any numbers of edits and faults.                                        *)
(***************************************************************************)
EXTENDS WorkerPool, MirrorMakerConfig, TLAPS

-----------------------------------------------------------------------------
(* The pool: counted failures *)

Active(l) == at[l] \in {"build", "run", "sleep"}

\* The counter of failures has every error of the window, and perhaps the end
\* without an error that started the window.  A goroutine that goes on is below
\* the limit.
Counted(l) ==
    /\ errors[l] <= consecFails[l] /\ consecFails[l] <= errors[l] + 1
    /\ Active(l) => consecFails[l] < MaxConsecutiveRestarts

\* The process is over when all its goroutines are.
Exited == main = "exited" => \A l \in Launches : at[l] \in {"off", "ended"}

PoolInv == PoolTypeOK /\ StopsForAReason /\ Exited /\ \A l \in Launches : Counted(l)

-----------------------------------------------------------------------------
\* A goroutine that moves without counting a failure.
LEMMA MoveKeeps ==
    ASSUME PoolInv, NEW l \in Launches, NEW to \in Places \ {"off"}, at[l] \notin {"off", "ended"},
           Go(l, to), UNCHANGED <<fails, stopped, signalled, main>>, broken' \subseteq Launches
    PROVE  PoolInv'
<1>1. /\ at' \in [Launches -> Places] /\ at'[l] = to
      /\ \A k \in Launches \ {l} : at'[k] = at[k]
  BY Zenon DEF PoolInv, PoolTypeOK, Go
<1>2. PoolTypeOK'
  BY <1>1, Zenon DEF PoolInv, PoolTypeOK, fails
<1>3. StopsForAReason'
  BY <1>1, Zenon DEF PoolInv, StopsForAReason, fails
<1>4. Exited'
  BY Zenon DEF PoolInv, Exited
<1>5. \A k \in Launches : Counted(k)'
  <2> SUFFICES ASSUME NEW k \in Launches PROVE Counted(k)'
    BY Zenon
  <2>1. Active(k)' => Active(k)
    BY <1>1, Zenon DEF Active, PoolInv, PoolTypeOK, Places
  <2>2. QED
    BY <2>1, Zenon DEF PoolInv, Counted, fails
<1>6. QED
  BY <1>2, <1>3, <1>4, <1>5, Zenon DEF PoolInv

\* A step that leaves the goroutines and their counters.
LEMMA OutsideKeeps ==
    ASSUME PoolInv, at' = at, consecFails' = consecFails, errors' = errors, broken' = broken,
           aged' \in [Launches -> BOOLEAN],
           \/ stopped' = stopped /\ signalled' = signalled
           \/ stopped' = TRUE /\ signalled' = TRUE,
           \/ main' = main
           \/ main' = "exited" /\ Over
    PROVE  PoolInv'
<1>1. PoolTypeOK'
  BY Zenon DEF PoolInv, PoolTypeOK
<1>2. StopsForAReason'
  BY Zenon DEF PoolInv, StopsForAReason
<1>3. Exited'
  BY Zenon DEF PoolInv, Exited, Over
<1>4. \A k \in Launches : Counted(k)'
  BY Zenon DEF PoolInv, Counted, Active
<1>5. QED
  BY <1>1, <1>2, <1>3, <1>4, Zenon DEF PoolInv

\* The end of a manager counts an error, or starts a window; the goroutine that
\* reaches the limit stops all.
LEMMA RunEndsKeeps ==
    ASSUME PoolInv, NEW l \in Launches, NEW err \in {"error", "none"}, RunEnds(l, err)
    PROVE  PoolInv'
<1> DEFINE new == IF err = "error" THEN 1 ELSE 0
           n == IF aged[l] THEN 1 ELSE consecFails[l] + new
           m == IF aged[l] THEN new ELSE errors[l] + new
<1>1. /\ at[l] = "run" /\ ~stopped
      /\ consecFails' = [consecFails EXCEPT ![l] = n]
      /\ aged' = [aged EXCEPT ![l] = FALSE] /\ errors' = [errors EXCEPT ![l] = m]
      /\ \/ n >= MaxConsecutiveRestarts /\ Go(l, "ended") /\ stopped' = TRUE
         \/ ~(n >= MaxConsecutiveRestarts) /\ Go(l, "sleep") /\ stopped' = stopped
      /\ main' = main /\ signalled' = signalled /\ broken' = broken
  BY Zenon DEF RunEnds, RunEndsBy, ending
<1>2. /\ at \in [Launches -> Places] /\ consecFails \in [Launches -> Nat]
      /\ errors \in [Launches -> Nat] /\ aged \in [Launches -> BOOLEAN]
  BY Zenon DEF PoolInv, PoolTypeOK
<1>3. errors[l] <= consecFails[l] /\ consecFails[l] <= errors[l] + 1
  BY Zenon DEF PoolInv, Counted
<1>4. n \in Nat /\ m \in Nat /\ m <= n /\ n <= m + 1
  BY <1>2, <1>3
<1>5. /\ consecFails' \in [Launches -> Nat] /\ consecFails'[l] = n
      /\ errors' \in [Launches -> Nat] /\ errors'[l] = m
      /\ aged' \in [Launches -> BOOLEAN]
      /\ \A k \in Launches \ {l} :
            consecFails'[k] = consecFails[k] /\ errors'[k] = errors[k]
  BY <1>1, <1>2, <1>4, Zenon
<1>6. /\ at' \in [Launches -> Places] /\ at'[l] \in {"ended", "sleep"}
      /\ \A k \in Launches \ {l} : at'[k] = at[k]
  BY <1>1, <1>2, Zenon DEF Go, Places
<1> HIDE DEF n, m, new
<1>7. PoolTypeOK'
  BY <1>1, <1>5, <1>6, Zenon DEF PoolInv, PoolTypeOK
<1>8. Counted(l)'
  <2>1. Active(l)' => ~(n >= MaxConsecutiveRestarts)
    BY <1>1, <1>2, Zenon DEF Active, Go
  <2>2. QED
    BY <1>4, <1>5, <2>1, PoolAssumption DEF Counted
<1>9. \A k \in Launches \ {l} : Counted(k)'
  BY <1>5, <1>6, Zenon DEF PoolInv, Counted, Active
<1>10. StopsForAReason'
  <2>1. CASE n >= MaxConsecutiveRestarts
    <3>1. at'[l] = "ended" /\ errors'[l] + 1 >= MaxConsecutiveRestarts
      BY <1>1, <1>2, <1>4, <1>5, <2>1, PoolAssumption DEF Go
    <3>2. QED
      BY <3>1, Zenon DEF StopsForAReason
  <2>2. CASE ~(n >= MaxConsecutiveRestarts)
    BY <1>1, <2>2, Zenon DEF StopsForAReason
  <2>3. QED
    BY <2>1, <2>2, Zenon
<1>11. Exited'
  BY <1>1, Zenon DEF PoolInv, Exited
<1>12. QED
  BY <1>7, <1>8, <1>9, <1>10, <1>11, Zenon DEF PoolInv

-----------------------------------------------------------------------------
\* Nothing has failed at the start.
LEMMA PoolInvInit ==
    PoolInit => PoolInv
<1> SUFFICES ASSUME PoolInit PROVE PoolInv
  BY Zenon
<1>1. PoolTypeOK
  BY Zenon DEF PoolInit, PoolTypeOK, Places
<1>2. \A l \in Launches : Counted(l)
  BY PoolAssumption DEF PoolInit, Counted
<1>3. QED
  BY <1>1, <1>2, Zenon DEF PoolInv, PoolInit, StopsForAReason, Exited

\* The invariant is inductive.
LEMMA PoolInvNext ==
    PoolInv /\ [PoolNext]_poolVars => PoolInv'
<1> SUFFICES ASSUME PoolInv, [PoolNext]_poolVars PROVE PoolInv'
  BY Zenon
<1>1. ASSUME NEW l \in Launches, Goroutine(l) PROVE PoolInv'
  <2>1. PICK to \in {"build", "run", "ended"} : Go(l, to)
    BY <1>1, Zenon DEF Goroutine, Build, RunCancelled, Sleep, BuildOf, KafkaBuild, AkhqBuild, KmmBuild,
             KafkaUserBuild
  <2>2. at[l] \notin {"off", "ended"} /\ UNCHANGED <<fails, stopped, signalled, main>>
    BY <1>1, Zenon DEF Goroutine, Build, RunCancelled, Sleep, rest, ending
  <2>3. broken' \subseteq Launches
    BY <1>1, Zenon DEF Goroutine, Build, RunCancelled, Sleep, ending, PoolInv, PoolTypeOK
  <2>4. to \in Places \ {"off"}
    BY Zenon DEF Places
  <2>5. QED
    BY <2>1, <2>2, <2>3, <2>4, MoveKeeps, Zenon
<1>2. ASSUME NEW l \in Launches, HourPasses(l) PROVE PoolInv'
  BY <1>2, OutsideKeeps, Zenon DEF HourPasses, PoolInv, PoolTypeOK
<1>3. CASE (\E l \in Launches : Acquire(l)) \/ (\E e \in Launches : Expire(e)) \/ Main \/ Signal
  BY <1>3, OutsideKeeps, Zenon DEF Acquire, Expire, Main, Signal, PoolInv, PoolTypeOK, fails, ending
<1>4. ASSUME NEW l \in Launches, NEW err \in {"error", "none"}, RunEnds(l, err) PROVE PoolInv'
  BY <1>4, RunEndsKeeps, Zenon
<1>5. CASE UNCHANGED poolVars
  BY <1>5, OutsideKeeps, Zenon DEF poolVars, PoolInv, PoolTypeOK
<1>6. QED
  BY <1>1, <1>2, <1>3, <1>4, <1>5, Zenon DEF PoolNext

\* The inductive invariant holds in every reachable state.
THEOREM PoolInvariance ==
    PoolSpec => []PoolInv
BY PoolInvInit, PoolInvNext, PTL DEF PoolSpec

\* The goroutines and their counters keep their types.
THEOREM PoolTypes ==
    PoolSpec => []PoolTypeOK
<1>1. PoolInv => PoolTypeOK
  BY Zenon DEF PoolInv
<1>2. QED
  BY <1>1, PoolInvariance, PTL

\* launchJob cancels the context of all jobs only for one that failed often
\* enough in a window, or one time less if the window began without an error;
\* and it starts no manager again that has failed maxConsecutiveRestarts times
\* in a window.
THEOREM StopsAtTheLimitThm ==
    PoolSpec => []StopsAtTheLimit
<1>1. ASSUME PoolInv, NEW l \in Launches, at[l] \in {"build", "run", "sleep"}
      PROVE  errors[l] < MaxConsecutiveRestarts
  <2>1. /\ errors[l] <= consecFails[l] /\ consecFails[l] < MaxConsecutiveRestarts
        /\ errors[l] \in Nat /\ consecFails[l] \in Nat
    BY <1>1, Zenon DEF PoolInv, Counted, Active, PoolTypeOK
  <2>2. QED
    BY <2>1, PoolAssumption
<1>2. PoolInv => StopsAtTheLimit
  BY <1>1, Zenon DEF PoolInv, StopsAtTheLimit, NoRunAfterTooManyErrors
<1>3. QED
  BY <1>2, PoolInvariance, PTL

-----------------------------------------------------------------------------
\* What JobSupervisor sees of a goroutine.
Seen(a) == CASE a \in {"off", "ended"} -> a [] a = "run" -> "up" [] OTHER -> "down"

Job == [l \in Launches |-> Seen(at[l])]

\* A goroutine that moves is a job that changes.
LEMMA GoSeen ==
    ASSUME PoolInv, NEW l \in Launches, NEW to \in Places, Go(l, to)
    PROVE  /\ Job[l] = Seen(at[l])
           /\ Job' = [Job EXCEPT ![l] = Seen(to)]
<1>1. at \in [Launches -> Places]
  BY Zenon DEF PoolInv, PoolTypeOK
<1>2. /\ at'[l] = to
      /\ \A k \in Launches \ {l} : at'[k] = at[k]
  BY <1>1, Zenon DEF Go
<1>3. Job' = [k \in Launches |-> Seen(at'[k])]
  BY Zenon DEF Job, Seen
<1>4. QED
  BY <1>2, <1>3, Zenon DEF Job

\* A step of the pool is a step of JobSupervisor or none.
LEMMA StepSupervised ==
    ASSUME PoolInv, [PoolNext]_poolVars
    PROVE  [Supervisor!Next]_(Supervisor!supervised)
<1> DEFINE exited == main = "exited"
           Down(l) == /\ Job[l] = "up" /\ ~stopped /\ Job' = [Job EXCEPT ![l] = "down"]
                      /\ broken' = broken /\ stopped' = stopped /\ exited' = exited
           Up(l) == /\ Job[l] = "down" /\ Job' = [Job EXCEPT ![l] = "up"]
                    /\ broken' = broken /\ stopped' = stopped /\ exited' = exited
           End(l) == /\ stopped /\ Job[l] \in {"down", "up"}
                     /\ Job' = [Job EXCEPT ![l] = "ended"]
                     /\ broken' = broken /\ stopped' = stopped /\ exited' = exited
           Break(l) == /\ ~stopped /\ Job[l] = "down" /\ Job' = [Job EXCEPT ![l] = "ended"]
                       /\ broken' = broken \union {l} /\ stopped' = stopped /\ exited' = exited
           GiveUp(l) == /\ Job[l] = "up" /\ ~stopped /\ Job' = [Job EXCEPT ![l] = "ended"]
                        /\ broken' = broken /\ stopped' = TRUE /\ exited' = exited
           Stop == /\ ~exited /\ stopped' = TRUE
                   /\ Job' = Job /\ broken' = broken /\ exited' = exited
           Exit == /\ \A l \in Launches : Job[l] \in {"off", "ended"}
                   /\ exited' = TRUE /\ Job' = Job /\ broken' = broken /\ stopped' = stopped
           Same == Job' = Job /\ broken' = broken /\ stopped' = stopped /\ exited' = exited
           Abstract == \/ \E l \in Launches : Up(l) \/ Down(l) \/ End(l) \/ Break(l) \/ GiveUp(l)
                       \/ Stop \/ Exit \/ Same
<1>1. Abstract => [Supervisor!Next]_(Supervisor!supervised)
  BY Zenon DEF Supervisor!Next, Supervisor!Up, Supervisor!Down, Supervisor!End, Supervisor!Break,
         Supervisor!GiveUp, Supervisor!Stop, Supervisor!Exit, Supervisor!supervised, Job, Seen
<1> SUFFICES Abstract
  BY <1>1, Zenon
<1>2. ASSUME at' = at, broken' = broken, stopped' = stopped, main' = main PROVE Same
  BY <1>2, Zenon DEF Job, Seen
<1>3. ASSUME NEW l \in Launches, Goroutine(l) PROVE Abstract
  <2>1. stopped' = stopped /\ exited' = exited
    BY <1>3, Zenon DEF Goroutine, Build, RunCancelled, Sleep, rest, ending
  <2>2. CASE RunCancelled(l)
    <3>1. at[l] = "run" /\ Go(l, "ended") /\ stopped /\ broken' = broken
      BY <2>2, Zenon DEF RunCancelled, ending
    <3>2. End(l)
      BY <2>1, <3>1, GoSeen, Zenon DEF Seen, Places
    <3>3. QED
      BY <3>2, Zenon
  <2>3. CASE Sleep(l)
    <3>1. at[l] = "sleep" /\ broken' = broken
      BY <2>3, Zenon DEF Sleep
    <3>2. CASE stopped
      <4>1. Job[l] = "down" /\ Job' = [Job EXCEPT ![l] = "ended"]
        BY <2>3, <3>1, <3>2, GoSeen, Zenon DEF Sleep, Seen, Places
      <4>2. QED
        BY <2>1, <3>1, <3>2, <4>1, Zenon
    <3>3. CASE ~stopped
      <4>1. Job[l] = "down" /\ Job' = [Job EXCEPT ![l] = "down"]
        BY <2>3, <3>1, <3>3, GoSeen, Zenon DEF Sleep, Seen, Places
      <4>2. Job = [k \in Launches |-> Job[k]]
        BY Zenon DEF Job
      <4>3. Same
        BY <2>1, <3>1, <4>1, <4>2, Zenon
      <4>4. QED
        BY <4>3, Zenon
    <3>4. QED
      BY <3>2, <3>3, Zenon
  <2>4. CASE Build(l)
    <3>1. at[l] = "build"
      BY <2>4, Zenon DEF Build
    <3>2. CASE stopped
      <4>1. Go(l, "ended") /\ broken' = broken
        BY <2>4, <3>2, Zenon DEF Build
      <4>2. Job[l] = "down" /\ Job' = [Job EXCEPT ![l] = "ended"]
        BY <3>1, <4>1, GoSeen, Zenon DEF Seen, Places
      <4>3. QED
        BY <2>1, <3>2, <4>1, <4>2, Zenon
    <3>3. CASE ~stopped
      <4>1. PICK to \in {"run", "ended"} :
                Go(l, to) /\ broken' = IF to = "ended" THEN broken \union {l} ELSE broken
        BY <2>4, <3>3, Zenon DEF Build, BuildOf, KafkaBuild, AkhqBuild, KmmBuild, KafkaUserBuild
      <4>2. Job[l] = "down" /\ Job' = [Job EXCEPT ![l] = Seen(to)]
        BY <3>1, <4>1, GoSeen DEF Seen, Places
      <4>3. Up(l) \/ Break(l)
        BY <2>1, <3>3, <4>1, <4>2, Zenon DEF Seen
      <4>4. QED
        BY <4>3, Zenon
    <3>4. QED
      BY <3>2, <3>3, Zenon
  <2>5. QED
    BY <1>3, <2>2, <2>3, <2>4, Zenon DEF Goroutine
<1>4. ASSUME NEW l \in Launches, NEW err \in {"error", "none"}, RunEnds(l, err)
      PROVE  Abstract
  <2>1. /\ at[l] = "run" /\ ~stopped /\ exited' = exited /\ broken' = broken
        /\ \/ Go(l, "ended") /\ stopped' = TRUE
           \/ Go(l, "sleep") /\ stopped' = stopped
    BY <1>4, Zenon DEF RunEnds, RunEndsBy, ending
  <2>2. GiveUp(l) \/ Down(l)
    BY <2>1, GoSeen, Zenon DEF Seen, Places
  <2>3. QED
    BY <2>2, Zenon
<1>5. CASE Main
  <2>1. Over /\ main' = "exited" /\ at' = at /\ broken' = broken /\ stopped' = stopped
    BY <1>5, Zenon DEF Main
  <2>2. Exit
    BY <2>1, Zenon DEF Over, Job, Seen
  <2>3. QED
    BY <2>2, Zenon
<1>6. CASE Signal
  <2>1. main = "wait" /\ stopped' = TRUE /\ at' = at /\ broken' = broken /\ main' = main
    BY <1>6, Zenon DEF Signal
  <2>2. Stop
    BY <2>1, Zenon DEF Job, Seen
  <2>3. QED
    BY <2>2, Zenon
<1>7. CASE \/ \E l \in Launches : HourPasses(l) \/ Acquire(l)
           \/ \E e \in Launches : Expire(e)
           \/ UNCHANGED poolVars
  BY <1>2, <1>7, Zenon DEF HourPasses, Acquire, Expire, poolVars, ending
<1> HIDE DEF Abstract
<1>8. QED
  BY <1>3, <1>4, <1>5, <1>6, <1>7, Zenon DEF PoolNext

\* The managers are down or disabled at the start.
LEMMA InitSupervised ==
    PoolInit => Supervisor!Init
BY Zenon DEF PoolInit, Supervisor!Init

\* The pool supervises the managers as JobSupervisor allows, for every choice
\* of options: the part of JobsSupervised that is about safety.  In an operator
\* that is not stopping, launchJob ends only a job whose Build returned an error.
THEOREM SupervisedThm ==
    PoolSpec => Supervisor!Init /\ [][Supervisor!Next]_(Supervisor!supervised)
BY InitSupervised, StepSupervised, PoolInvariance, PTL DEF PoolSpec

-----------------------------------------------------------------------------
(* The map of Mirror Maker: what its writers know *)

Maps == [there : BOOLEAN, version : Nat, flows : [Flows -> FlowSet]]

Resources ==
    [there : BOOLEAN, spec : Kinds, generation : 0..MaxEdits, processed : BOOLEAN,
     problem : BOOLEAN]

Cycles ==
    [generation : 0..MaxEdits, version : Nat, problem : BOOLEAN, flows : [Flows -> FlowSet]]

\* The types of everything, shapes of the records included; no version that
\* somebody remembers is newer than the map.
Typed ==
    /\ service \in [region : Regions, configurator : BOOLEAN]
    /\ cm \in Maps /\ kmm \in [Configs -> Resources] /\ run \in [Configs -> Cycles]
    /\ queued \in [Configs -> BOOLEAN]
    /\ pc \in [Configs -> {"idle", "update", "status"}]
    /\ mqueued \in BOOLEAN /\ mpc \in {"idle", "create", "replace", "deploy"}
    /\ mrun \in [version : Nat, pending : SUBSET Clusters]
    /\ mseen \in Nat /\ deployed \in [Clusters -> Nat]
    /\ edits \in 0..MaxEdits /\ upsets \in 0..MaxUpsets
    /\ touched \subseteq Flows

Versions ==
    /\ \A k \in Configs : run[k].version <= cm.version
    /\ mrun.version <= cm.version /\ mseen <= cm.version
    /\ \A c \in Clusters : deployed[c] <= cm.version

\* Generations come from the counter of edits.
Generations ==
    \A k \in Configs : kmm[k].generation <= edits /\ run[k].generation <= edits

\* Somebody who finds no map, or has no configurator, has nothing to lose.
Writers ==
    /\ \A p \in Flows \ touched : cm.flows[p].enabled # "handmade"
    /\ ~cm.there => cm.flows = [p \in Flows |-> NoFlow]
    /\ mpc = "create" => ~cm.there
    /\ mpc = "replace" => ~service.configurator
    /\ ~service.configurator =>
          /\ \A k \in Configs : ~kmm[k].there /\ pc[k] = "idle"
          /\ \A p \in Flows :
                /\ cm.flows[p].topics = {} /\ cm.flows[p].names = {}
                /\ \A k \in Configs : cm.flows[p].defs[k] = 0

\* The resource is still the one that the cycle has read.
Current(k) == kmm[k].there /\ kmm[k].generation = run[k].generation

\* A cycle whose map is current is about to write what it makes of that map.
Prepared(k) ==
    pc[k] = "update" /\ cm.there /\ cm.version = run[k].version =>
        \E kind \in Kinds :
            /\ ~recognizeTargetAndSourceDc(kind).error
            /\ run[k].flows = Merged(cm.flows, k, kind)
            /\ Current(k) => kind = kmm[k].spec

Has(flow, k, kind) ==
    /\ flow.enabled = "true" /\ Topics(kind) \subseteq flow.topics
    /\ Transformation(kind) # 0 =>
          k \in flow.names /\ flow.defs[k] = Transformation(kind)

\* The map has what the resource says: it was reported, or is going to be.
Done(k) ==
    \/ /\ kmm[k].there /\ kmm[k].processed /\ ~kmm[k].problem
       /\ ~queued[k] /\ pc[k] = "idle"
    \/ pc[k] = "status" /\ ~run[k].problem /\ Current(k)

InMap(k) ==
    Done(k) =>
        /\ ~recognizeTargetAndSourceDc(kmm[k].spec).error
        /\ \A p \in FlowsOf(k) \ touched : Has(cm.flows[p], k, kmm[k].spec)

Mine(k) == Prepared(k) /\ InMap(k)

MInv == Typed /\ Versions /\ Generations /\ Writers /\ \A k \in Configs : Mine(k)

-----------------------------------------------------------------------------
(* What the merge does to a flow *)

\* A flow that is not there is a flow.
LEMMA NoFlowIsFlow ==
    /\ NoFlow \in FlowSet
    /\ \A b \in BOOLEAN :
          [NoFlow EXCEPT !.enabled = IF b THEN "true" ELSE "false"] \in FlowSet
<1>1. [k \in Configs |-> 0] \in [Configs -> 0..2]
  OBVIOUS
<1>2. NoFlow \in FlowSet
  BY <1>1, Zenon DEF NoFlow, FlowSet
<1>3. ASSUME NEW e \in {"true", "false"} PROVE [NoFlow EXCEPT !.enabled = e] \in FlowSet
  BY <1>2, Zenon DEF FlowSet
<1>4. QED
  BY <1>2, <1>3, Zenon

Transformed(flow, k, ns, d) == [flow EXCEPT !.names = ns, !.defs[k] = d]

\* A flow with other transformations is a flow if its names are defined.
LEMMA OtherTransformations ==
    ASSUME NEW flow \in FlowSet, NEW k \in Configs, NEW ns \in SUBSET Configs,
           NEW d \in 0..2, \A j \in ns \ {k} : j \in flow.names, k \in ns => d # 0
    PROVE  LET new == Transformed(flow, k, ns, d)
           IN  /\ new \in FlowSet /\ new.topics = flow.topics /\ new.enabled = flow.enabled
               /\ new.names = ns /\ new.defs[k] = d
               /\ \A j \in Configs \ {k} : new.defs[j] = flow.defs[j]
<1> DEFINE ds == [flow.defs EXCEPT ![k] = d]
           new == [flow EXCEPT !.names = ns, !.defs = ds]
<1>1. flow.defs \in [Configs -> 0..2] /\ \A j \in flow.names : flow.defs[j] # 0
  BY Zenon DEF FlowSet
<1>2. /\ ds \in [Configs -> 0..2] /\ ds[k] = d
      /\ \A j \in Configs \ {k} : ds[j] = flow.defs[j]
  BY <1>1, Zenon
<1> HIDE DEF ds
<1>3. \A j \in ns : ds[j] # 0
  BY <1>1, <1>2, Zenon
<1>4. /\ new \in FlowSet /\ new.topics = flow.topics /\ new.enabled = flow.enabled
      /\ new.names = ns /\ new.defs = ds
  BY <1>2, <1>3, Zenon DEF FlowSet
<1>5. Transformed(flow, k, ns, d) = new
  BY Zenon DEF ds, FlowSet, Transformed
<1> HIDE DEF new
<1>6. QED
  BY <1>2, <1>4, <1>5, Zenon

\* mergeTopics enables the flow unless it is enabled in another notation, adds
\* the topics and leaves the transformations.
LEMMA TopicsMerged ==
    ASSUME NEW flow \in FlowSet, NEW kind \in Kinds
    PROVE  LET new == mergeTopics(flow, kind)
           IN  /\ new \in FlowSet /\ new.names = flow.names /\ new.defs = flow.defs
               /\ new.topics = flow.topics \union Topics(kind)
               /\ flow.enabled # "handmade" => new.enabled = "true"
<1>1. Topics(kind) \subseteq {"t1", "t2"}
  BY Zenon DEF Topics
<1>2. QED
  BY <1>1, Zenon DEF mergeTopics, FlowSet

\* UpdateTransformationProperties puts the transformation into the list, if the
\* flow is enabled as expected, and leaves those of the other resources.
LEMMA TransformationMerged ==
    ASSUME NEW flow \in FlowSet, NEW k \in Configs, NEW kind \in Kinds
    PROVE  LET new == UpdateTransformationProperties(flow, k, kind)
           IN  /\ new \in FlowSet /\ new.topics = flow.topics /\ new.enabled = flow.enabled
               /\ \A j \in Configs \ {k} : new.defs[j] = flow.defs[j]
               /\ flow.enabled = "true" =>
                     /\ flow.names \subseteq new.names
                     /\ Transformation(kind) # 0 =>
                           k \in new.names /\ new.defs[k] = Transformation(kind)
<1>1. Transformation(kind) \in {0, 1, 2}
  BY Zenon DEF Transformation
<1>2. CASE Transformation(kind) = 0
  BY <1>2, Zenon DEF UpdateTransformationProperties
<1>3. CASE Transformation(kind) # 0 /\ flow.enabled = "true"
  <2>1. UpdateTransformationProperties(flow, k, kind) =
            [flow EXCEPT !.names = @ \union {k}, !.defs[k] = Transformation(kind)]
    BY <1>3, Zenon DEF UpdateTransformationProperties
  <2>2. flow.names \union {k} \in SUBSET Configs
    BY Zenon DEF FlowSet
  <2>3. UpdateTransformationProperties(flow, k, kind) =
            Transformed(flow, k, flow.names \union {k}, Transformation(kind))
    BY <2>1, Zenon DEF Transformed
  <2>4. QED
    BY <1>1, <1>3, <2>2, <2>3, OtherTransformations
<1>4. CASE Transformation(kind) # 0 /\ flow.enabled # "true"
  <2>1. UpdateTransformationProperties(flow, k, kind) =
            Transformed(flow, k, {}, 0)
    BY <1>4, Zenon DEF UpdateTransformationProperties, Transformed
  <2>2. QED
    BY <1>4, <2>1, OtherTransformations
<1>5. QED
  BY <1>2, <1>3, <1>4, Zenon

\* The pairs of a specification without an error are flows of the map.
LEMMA PairsAreFlows ==
    ASSUME service.region \in Regions, NEW kind \in Kinds,
           ~recognizeTargetAndSourceDc(kind).error
    PROVE  getDcPairs(recognizeTargetAndSourceDc(kind)) \subseteq Flows
<1> DEFINE dc == recognizeTargetAndSourceDc(kind)
<1>1. dc.sources \subseteq ClusterNames
  BY Zenon DEF recognizeTargetAndSourceDc
<1>2. dc.targets \subseteq (ClusterNames \union Regions) \ {""}
  <2>1. CASE TargetDc(kind) # {}
    BY <2>1, Zenon DEF recognizeTargetAndSourceDc, checkTargetDc, TargetDc, TargetDcCM
  <2>2. CASE TargetDc(kind) = {}
    BY <2>2, Zenon DEF recognizeTargetAndSourceDc, TargetDcCM
  <2>3. QED
    BY <2>1, <2>2, Zenon
<1> HIDE DEF dc
<1>3. \A p \in dc.sources \X dc.targets : p[1] # p[2] => p \in Flows
  BY <1>1, <1>2, Zenon DEF Flows
<1>4. getDcPairs(dc) \subseteq Flows
  BY <1>3, Zenon DEF getDcPairs
<1>5. QED
  BY <1>4, Zenon DEF dc

\* The flow new has all that old has of the resources other than k.
Adds(old, new, k) ==
    /\ old.topics \subseteq new.topics
    /\ \A j \in Configs \ {k} : new.defs[j] = old.defs[j]
    /\ old.enabled # "handmade" =>
          /\ old.names \subseteq new.names /\ new.enabled # "handmade"
          /\ old.enabled = "true" => new.enabled = "true"

\* What a resource makes of the map: nothing is taken from another resource,
\* and where the map is written as expected, what the resource says is there.
LEMMA MergedFlows ==
    ASSUME NEW flows \in [Flows -> FlowSet], NEW k \in Configs, NEW kind \in Kinds
    PROVE  /\ Merged(flows, k, kind) \in [Flows -> FlowSet]
           /\ \A p \in Flows : Adds(flows[p], Merged(flows, k, kind)[p], k)
           /\ \A p \in Flows \cap getDcPairs(recognizeTargetAndSourceDc(kind)) :
                 flows[p].enabled # "handmade" => Has(Merged(flows, k, kind)[p], k, kind)
<1> DEFINE pairs == getDcPairs(recognizeTargetAndSourceDc(kind))
           merge(flow) == UpdateTransformationProperties(mergeTopics(flow, kind), k, kind)
           all == Merged(flows, k, kind)
<1>1. all = [p \in Flows |-> IF p \in pairs THEN merge(flows[p]) ELSE flows[p]]
  BY Zenon DEF Merged
<1>2. ASSUME NEW flow \in FlowSet
      PROVE  /\ merge(flow) \in FlowSet /\ Adds(flow, merge(flow), k)
             /\ flow.enabled # "handmade" => Has(merge(flow), k, kind)
  <2> DEFINE middle == mergeTopics(flow, kind)
  <2>1. /\ middle \in FlowSet /\ middle.names = flow.names /\ middle.defs = flow.defs
        /\ middle.topics = flow.topics \union Topics(kind)
        /\ flow.enabled # "handmade" => middle.enabled = "true"
    BY <1>2, TopicsMerged, Zenon
  <2> HIDE DEF middle
  <2>2. QED
    <3> DEFINE new == merge(flow)
    <3>1. /\ new \in FlowSet /\ new.topics = flow.topics \union Topics(kind)
          /\ \A j \in Configs \ {k} : new.defs[j] = flow.defs[j]
          /\ flow.enabled # "handmade" =>
                /\ flow.names \subseteq new.names /\ new.enabled = "true"
                /\ Has(new, k, kind)
      BY <2>1, TransformationMerged DEF Has, middle
    <3> HIDE DEF new
    <3>2. new \in FlowSet /\ Adds(flow, new, k) /\ (flow.enabled # "handmade" => Has(new, k, kind))
      BY <3>1, Zenon DEF Adds
    <3>3. QED
      BY <3>2, Zenon DEF new
<1> HIDE DEF pairs, merge, all
<1>3. ASSUME NEW p \in Flows PROVE all[p] = IF p \in pairs THEN merge(flows[p]) ELSE flows[p]
  BY <1>1, Zenon
<1>4. ASSUME NEW p \in Flows
      PROVE  /\ all[p] \in FlowSet /\ Adds(flows[p], all[p], k)
             /\ p \in pairs /\ flows[p].enabled # "handmade" => Has(all[p], k, kind)
  <2>1. CASE p \in pairs
    BY <1>2, <1>3, <2>1, Zenon
  <2>2. CASE p \notin pairs
    <3>1. Adds(flows[p], flows[p], k)
      BY Zenon DEF Adds
    <3>2. QED
      BY <1>3, <2>2, <3>1, Zenon
  <2>3. QED
    BY <2>1, <2>2, Zenon
<1>5. all \in [Flows -> FlowSet]
  BY <1>1, <1>3, <1>4, Zenon
<1>6. QED
  BY <1>4, <1>5, Zenon DEF all, pairs

-----------------------------------------------------------------------------
(* Types *)

\* The fields of the map and of the KafkaService.
LEMMA Fields ==
    ASSUME Typed
    PROVE  /\ cm \in Maps /\ cm.there \in BOOLEAN /\ cm.version \in Nat
           /\ cm.flows \in [Flows -> FlowSet]
           /\ mrun.version \in Nat /\ mrun.pending \subseteq Clusters
           /\ service.region \in Regions /\ service.configurator \in BOOLEAN
BY Zenon DEF Typed, Maps

\* The fields of a resource and of its cycle.
LEMMA FieldsOf ==
    ASSUME Typed, NEW k \in Configs
    PROVE  /\ kmm[k] \in Resources /\ kmm[k].there \in BOOLEAN /\ kmm[k].spec \in Kinds
           /\ kmm[k].generation \in Nat /\ kmm[k].generation <= MaxEdits
           /\ kmm[k].processed \in BOOLEAN /\ kmm[k].problem \in BOOLEAN
           /\ run[k] \in Cycles /\ run[k].generation \in Nat
           /\ run[k].version \in Nat /\ run[k].problem \in BOOLEAN
           /\ run[k].flows \in [Flows -> FlowSet]
<1>1. kmm[k] \in Resources /\ run[k] \in Cycles /\ MaxEdits \in Nat
  BY ConfigAssumption, Zenon DEF Typed
<1>2. QED
  BY <1>1 DEF Resources, Cycles

\* The versions and generations are numbers.
LEMMA Numbers ==
    ASSUME Typed
    PROVE  /\ cm.version \in Nat /\ mrun.version \in Nat /\ mseen \in Nat /\ edits \in Nat
           /\ \A c \in Clusters : deployed[c] \in Nat
           /\ \A j \in Configs : /\ run[j].version \in Nat /\ run[j].generation \in Nat
                                 /\ kmm[j].generation \in Nat
<1>1. cm.version \in Nat /\ mrun.version \in Nat
  BY Fields, Zenon
<1>2. ASSUME NEW j \in Configs
      PROVE  run[j].version \in Nat /\ run[j].generation \in Nat /\ kmm[j].generation \in Nat
  BY FieldsOf, Zenon
<1>3. mseen \in Nat /\ edits \in Nat /\ \A c \in Clusters : deployed[c] \in Nat
  BY ConfigAssumption DEF Typed
<1>4. QED
  BY <1>1, <1>2, <1>3, Zenon

Edited(k, spec, g) ==
    [kmm EXCEPT ![k].there = TRUE, ![k].spec = spec, ![k].generation = g]

\* What the edit of a resource changes.
LEMMA ResourceEdited ==
    ASSUME kmm \in [Configs -> Resources], NEW k \in Configs, NEW spec \in Kinds,
           NEW g \in 0..MaxEdits, kmm' = Edited(k, spec, g)
    PROVE  /\ kmm' \in [Configs -> Resources]
           /\ \A j \in Configs \ {k} : kmm'[j] = kmm[j]
           /\ kmm'[k].there /\ kmm'[k].generation = g /\ kmm'[k].spec = spec
<1> DEFINE e == [kmm[k] EXCEPT !.there = TRUE, !.spec = spec, !.generation = g]
<1>1. e \in Resources /\ e.there /\ e.generation = g /\ e.spec = spec
  BY Zenon DEF Resources
<1>2. Edited(k, spec, g) = [kmm EXCEPT ![k] = e]
  BY Zenon DEF Resources, Edited
<1> HIDE DEF e
<1>3. QED
  BY <1>1, <1>2, Zenon

Written(k, b) == [kmm EXCEPT ![k].processed = TRUE, ![k].problem = b]

\* What a write of the status changes.
LEMMA StatusWritten ==
    ASSUME kmm \in [Configs -> Resources], NEW k \in Configs, NEW b \in BOOLEAN,
           kmm' = Written(k, b)
    PROVE  /\ kmm' \in [Configs -> Resources]
           /\ \A j \in Configs :
                 /\ kmm'[j].there = kmm[j].there /\ kmm'[j].spec = kmm[j].spec
                 /\ kmm'[j].generation = kmm[j].generation
           /\ kmm'[k].processed /\ kmm'[k].problem = b
<1> DEFINE w == [kmm[k] EXCEPT !.processed = TRUE, !.problem = b]
<1>1. /\ w \in Resources /\ w.there = kmm[k].there /\ w.spec = kmm[k].spec
      /\ w.generation = kmm[k].generation /\ w.processed /\ w.problem = b
  BY Zenon DEF Resources
<1>2. Written(k, b) = [kmm EXCEPT ![k] = w]
  BY Zenon DEF Resources, Written
<1> HIDE DEF w
<1>3. kmm'[k] = w /\ \A j \in Configs \ {k} : kmm'[j] = kmm[j]
  BY <1>2, Zenon
<1>4. kmm' \in [Configs -> Resources]
  BY <1>1, <1>2, Zenon
<1>5. QED
  BY <1>1, <1>3, <1>4, Zenon

Troubled(k) == [run EXCEPT ![k].problem = TRUE]

\* What a problem changes of a cycle.
LEMMA CycleFails ==
    ASSUME run \in [Configs -> Cycles], NEW k \in Configs, run' = Troubled(k)
    PROVE  /\ run' \in [Configs -> Cycles]
           /\ \A j \in Configs \ {k} : run'[j] = run[j]
           /\ run'[k].problem
           /\ \A j \in Configs :
                 run'[j].version = run[j].version /\ run'[j].generation = run[j].generation
<1> DEFINE f == [run[k] EXCEPT !.problem = TRUE]
<1>1. /\ f \in Cycles /\ f.problem /\ f.version = run[k].version
      /\ f.generation = run[k].generation
  BY Zenon DEF Cycles
<1>2. Troubled(k) = [run EXCEPT ![k] = f]
  BY Zenon DEF Cycles, Troubled
<1> HIDE DEF f
<1>3. run'[k] = f /\ \A j \in Configs \ {k} : run'[j] = run[j]
  BY <1>2, Zenon
<1>4. run' \in [Configs -> Cycles]
  BY <1>1, <1>2, Zenon
<1>5. QED
  BY <1>1, <1>3, <1>4, Zenon

\* An update of the map leaves the flows that were given, and has a new version
\* if it changes anything.
LEMMA PutMap ==
    ASSUME cm \in Maps, mqueued \in BOOLEAN, NEW flows \in [Flows -> FlowSet], Put(flows)
    PROVE  /\ cm' \in Maps /\ mqueued' \in BOOLEAN
           /\ cm'.there /\ cm'.flows = flows
           /\ cm' = cm \/ cm'.version = cm.version + 1
           /\ cm.version <= cm'.version
           /\ (cm' = cm /\ mqueued' = mqueued) \/ mqueued' = TRUE
<1>1. CASE cm.there /\ cm.flows = flows
  BY <1>1 DEF Put, Maps
<1>2. CASE ~(cm.there /\ cm.flows = flows)
  <2>1. cm' = [there |-> TRUE, version |-> cm.version + 1, flows |-> flows] /\ mqueued' = TRUE
    BY <1>2, Zenon DEF Put
  <2>2. cm.version \in Nat
    BY Zenon DEF Maps
  <2>3. QED
    BY <2>1, <2>2 DEF Maps
<1>3. QED
  BY <1>1, <1>2, Zenon

\* The map of a new installation has flows.
LEMMA PropertiesAreFlows ==
    /\ GetMirrorMakerProperties \in [Flows -> FlowSet]
    /\ \A p \in Flows :
          /\ GetMirrorMakerProperties[p].enabled # "handmade"
          /\ GetMirrorMakerProperties[p].topics = {}
          /\ GetMirrorMakerProperties[p].names = {}
          /\ \A k \in Configs : GetMirrorMakerProperties[p].defs[k] = 0
<1> DEFINE targets == IF service.region = "" THEN ClusterNames ELSE {ToLower(service.region)}
           flow == [NoFlow EXCEPT !.enabled = IF FlowEnabled THEN "true" ELSE "false"]
<1>1. flow \in FlowSet /\ NoFlow \in FlowSet
  BY NoFlowIsFlow, ConfigAssumption, Zenon
<1>2. ASSUME NEW f \in {flow, NoFlow}
      PROVE  /\ f.enabled # "handmade" /\ f.topics = {} /\ f.names = {}
             /\ \A k \in Configs : f.defs[k] = 0
  BY <1>2 DEF NoFlow
<1> HIDE DEF flow
<1>3. GetMirrorMakerProperties = [p \in Flows |-> IF p[2] \in targets THEN flow ELSE NoFlow]
  BY Zenon DEF GetMirrorMakerProperties, createReplicationFlowConfig, flow
<1> HIDE DEF targets
<1>4. QED
  BY <1>1, <1>2, <1>3, Zenon

\* What an administrator edits by hand in a flow is neither its topics nor its
\* transformations.
LEMMA FlowEdited ==
    ASSUME NEW flow \in FlowSet
    PROVE  /\ \A e \in {"false", "handmade"} :
                 LET new == [flow EXCEPT !.enabled = e]
                 IN  /\ new \in FlowSet /\ new.topics = flow.topics
                     /\ new.names = flow.names /\ new.defs = flow.defs
           /\ LET new == [flow EXCEPT !.blacklist = TRUE]
              IN  /\ new \in FlowSet /\ new.topics = flow.topics
                  /\ new.names = flow.names /\ new.defs = flow.defs
BY Zenon DEF FlowSet

\* Clients keep the types.
LEMMA ClientsTyped ==
    ASSUME Typed, Versions, Clients
    PROVE  Typed' /\ Versions'
<1> USE ConfigAssumption
<1>1. ASSUME NEW k \in Configs, EditConfig(k) PROVE Typed' /\ Versions'
  <2>1. PICK spec \in Asked : kmm' = Edited(k, spec, edits + 1)
    BY <1>1, Zenon DEF EditConfig, Edited
  <2>2. edits + 1 \in 0..MaxEdits /\ edits' = edits + 1 /\ spec \in Kinds
    BY <1>1 DEF EditConfig, Typed
  <2>3. kmm' \in [Configs -> Resources]
    BY <2>1, <2>2, ResourceEdited, Zenon DEF Typed
  <2>4. QED
    BY <1>1, <2>2, <2>3, Zenon DEF EditConfig, Typed, Versions, mirrorVars
<1>2. ASSUME NEW k \in Configs, DeleteConfig(k) PROVE Typed' /\ Versions'
  <2>1. NoConfig \in Resources
    BY DEF NoConfig, Resources, Kinds
  <2>2. QED
    BY <1>2, <2>1 DEF DeleteConfig, Typed, Versions, mirrorVars
<1>3. CASE DeleteMap
  <2>1. [p \in Flows |-> NoFlow] \in [Flows -> FlowSet]
    BY NoFlowIsFlow, Zenon
  <2>2. cm' \in Maps /\ cm'.version = cm.version
    BY <1>3, <2>1, Zenon DEF DeleteMap, Typed, Maps
  <2>3. QED
    BY <1>3, <2>2 DEF DeleteMap, Upset, Typed, Versions, kmmVars, Maps
<1>4. CASE EditMap
  <2>1. PICK p \in Flows, flows \in [Flows -> FlowSet] :
            /\ Put(flows) /\ touched' = touched \union {p}
    <3>1. PICK p \in Flows :
              /\ \/ Put([cm.flows EXCEPT ![p].enabled = "false"])
                 \/ Put([cm.flows EXCEPT ![p].enabled = "handmade"])
                 \/ Put([cm.flows EXCEPT ![p].blacklist = TRUE])
              /\ touched' = touched \union {p}
      BY <1>4, Zenon DEF EditMap
    <3>2. cm.flows \in [Flows -> FlowSet]
      BY Fields, Zenon
    <3>3. /\ [cm.flows[p] EXCEPT !.enabled = "false"] \in FlowSet
          /\ [cm.flows[p] EXCEPT !.enabled = "handmade"] \in FlowSet
          /\ [cm.flows[p] EXCEPT !.blacklist = TRUE] \in FlowSet
      <4>1. cm.flows[p] \in FlowSet
        BY <3>2, Zenon
      <4>2. QED
        BY <4>1, FlowEdited, Zenon
    <3>4. /\ [cm.flows EXCEPT ![p].enabled = "false"] \in [Flows -> FlowSet]
          /\ [cm.flows EXCEPT ![p].enabled = "handmade"] \in [Flows -> FlowSet]
          /\ [cm.flows EXCEPT ![p].blacklist = TRUE] \in [Flows -> FlowSet]
      BY <3>2, <3>3, Zenon
    <3>5. QED
      BY <3>1, <3>4, Zenon
  <2>2. /\ cm' \in Maps /\ mqueued' \in BOOLEAN /\ cm.version <= cm'.version
        /\ touched' \subseteq Flows
    BY <2>1, PutMap DEF Typed, Maps
  <2>3. QED
    <3>1. cm'.version \in Nat
      BY <2>2, Zenon DEF Maps
    <3>2. Versions'
      BY <1>4, <2>2, <3>1, Numbers DEF EditMap, Versions, kmmVars
    <3>3. QED
      BY <1>4, <2>2, <3>2 DEF EditMap, Upset, Typed, kmmVars
<1>5. QED
  BY <1>1, <1>2, <1>3, <1>4, Zenon DEF Clients

\* The reconciler of a KmmConfig keeps the types.
LEMMA KmmTyped ==
    ASSUME Typed, Versions, NEW k \in Configs, KmmReconcile(k) \/ KmmFails(k)
    PROVE  Typed' /\ Versions'
<1> USE ConfigAssumption
<1>1. CASE Get(k)
  <2>1. ASSUME NEW kind \in Kinds
        PROVE  Merged(cm.flows, k, kind) \in [Flows -> FlowSet]
    <3>1. cm.flows \in [Flows -> FlowSet]
      BY Fields, Zenon
    <3>2. QED
      BY <3>1, MergedFlows, Zenon
  <2>2. NoRun.flows \in [Flows -> FlowSet]
    BY NoFlowIsFlow, Zenon DEF NoRun
  <2>3. /\ run' \in [Configs -> Cycles]
        /\ \A j \in Configs : run'[j].version <= cm.version
    <3>1. CASE UNCHANGED run
      BY <3>1, Zenon DEF Typed, Versions
    <3>2. ASSUME NEW failed \in BOOLEAN,
                 run' = [run EXCEPT ![k] =
                      [generation |-> kmm[k].generation, version |-> cm.version,
                       problem |-> failed,
                       flows |-> IF failed THEN NoRun.flows
                                 ELSE Merged(cm.flows, k, kmm[k].spec)]]
          PROVE  <2>3!1 /\ <2>3!2
      <4>1. (IF failed THEN NoRun.flows ELSE Merged(cm.flows, k, kmm[k].spec))
                \in [Flows -> FlowSet]
        BY <2>1, <2>2, FieldsOf, Zenon
      <4>2. [generation |-> kmm[k].generation, version |-> cm.version, problem |-> failed,
             flows |-> IF failed THEN NoRun.flows ELSE Merged(cm.flows, k, kmm[k].spec)]
                \in Cycles
        <5>1. kmm[k].generation \in 0..MaxEdits /\ cm.version \in Nat
          BY FieldsOf, Fields
        <5>2. QED
          BY <4>1, <5>1, Zenon DEF Cycles
      <4>3. run' \in [Configs -> Cycles] /\ run'[k].version = cm.version
            /\ \A j \in Configs \ {k} : run'[j] = run[j]
        BY <3>2, <4>2, Zenon DEF Typed
      <4>4. QED
        BY <4>3, Numbers DEF Versions
    <3>3. QED
      BY <1>1, <3>1, <3>2, Zenon DEF Get
  <2>4. pc' \in [Configs -> {"idle", "update", "status"}] /\ queued' \in [Configs -> BOOLEAN]
    BY <1>1, Zenon DEF Get, Step, Typed
  <2>5. QED
    BY <1>1, <2>3, <2>4, Zenon DEF Get, Typed, Versions, mirrorVars
<1>2. CASE UpdateKmmConfigMap(k)
  <2>1. /\ cm' \in Maps /\ mqueued' \in BOOLEAN /\ cm.version <= cm'.version
    <3>1. run[k].flows \in [Flows -> FlowSet] /\ cm \in Maps /\ mqueued \in BOOLEAN
          /\ cm.version \in Nat
      BY Fields, FieldsOf, Zenon DEF Typed
    <3>2. Put(run[k].flows) \/ UNCHANGED <<cm, mqueued>>
      BY <1>2, Zenon DEF UpdateKmmConfigMap
    <3>3. CASE Put(run[k].flows)
      BY <3>1, <3>3, PutMap, Zenon
    <3>4. CASE UNCHANGED <<cm, mqueued>>
      BY <3>1, <3>4
    <3>5. QED
      BY <3>2, <3>3, <3>4, Zenon
  <2>2. /\ pc' \in [Configs -> {"idle", "update", "status"}]
        /\ run' \in [Configs -> Cycles]
        /\ \A j \in Configs : run'[j].version = run[j].version
    <3>1. run' = run \/ run' = Troubled(k)
      BY <1>2, Zenon DEF UpdateKmmConfigMap, Failed, Troubled
    <3>2. pc' = [pc EXCEPT ![k] = "status"]
      BY <1>2, Zenon DEF UpdateKmmConfigMap, Failed, Step
    <3>3. run \in [Configs -> Cycles] /\ pc \in [Configs -> {"idle", "update", "status"}]
      BY Zenon DEF Typed
    <3>4. run' \in [Configs -> Cycles] /\ \A j \in Configs : run'[j].version = run[j].version
      BY <3>1, <3>3, CycleFails, Zenon
    <3>5. QED
      BY <3>2, <3>3, <3>4, Zenon
  <2>3. QED
    <3>1. Versions'
      <4>1. /\ mrun' = mrun /\ mseen' = mseen /\ deployed' = deployed
            /\ cm'.version \in Nat
        BY <1>2, <2>1, Zenon DEF UpdateKmmConfigMap, Maps
      <4>2. QED
        BY <2>1, <2>2, <4>1, Numbers DEF Versions
    <3>2. QED
      BY <1>2, <2>1, <2>2, <3>1, Zenon DEF UpdateKmmConfigMap, Typed
<1>3. CASE updateCrStatus(k) \/ KmmFails(k)
  <2>1. NoRun \in Cycles /\ NoRun.version = 0
    BY NoFlowIsFlow DEF NoRun, Cycles
  <2>2. /\ pc' \in [Configs -> {"idle", "update", "status"}]
        /\ run' \in [Configs -> Cycles]
        /\ \A j \in Configs : run'[j].version <= cm.version
    <3>1. \/ run' = [run EXCEPT ![k] = NoRun]
          \/ run' = Troubled(k)
      BY <1>3, Zenon DEF updateCrStatus, KmmFails, Failed, Troubled
    <3>2. \/ pc' = [pc EXCEPT ![k] = "idle"]
          \/ pc' = [pc EXCEPT ![k] = "status"]
      BY <1>3, Zenon DEF updateCrStatus, KmmFails, Failed, Step
    <3>3. /\ cm.version \in Nat /\ pc \in [Configs -> {"idle", "update", "status"}]
          /\ run \in [Configs -> Cycles] /\ \A j \in Configs : run[j].version <= cm.version
      BY Fields, Zenon DEF Typed, Versions
    <3>4. CASE run' = [run EXCEPT ![k] = NoRun]
      BY <2>1, <3>2, <3>3, <3>4
    <3>5. CASE run' = Troubled(k)
      <4>1. /\ run' \in [Configs -> Cycles]
            /\ \A j \in Configs : run'[j].version = run[j].version
        BY <3>3, <3>5, CycleFails, Zenon
      <4>2. QED
        BY <3>2, <3>3, <4>1, Zenon
    <3>6. QED
      BY <3>1, <3>4, <3>5, Zenon
  <2>3. kmm' \in [Configs -> Resources]
    <3>1. kmm' = kmm \/ kmm' = Written(k, run[k].problem)
      BY <1>3, Zenon DEF updateCrStatus, KmmFails, Written
    <3>2. run[k].problem \in BOOLEAN /\ kmm \in [Configs -> Resources]
      BY FieldsOf, Zenon DEF Typed
    <3>3. QED
      BY <3>1, <3>2, StatusWritten, Zenon
  <2>4. queued' \in [Configs -> BOOLEAN]
    BY <1>3, Zenon DEF updateCrStatus, KmmFails, Typed
  <2>5. QED
    BY <1>3, <2>2, <2>3, <2>4
    DEF updateCrStatus, KmmFails, Upset, Typed, Versions, mirrorVars
<1>4. QED
  BY <1>1, <1>2, <1>3, Zenon DEF KmmReconcile

\* Every step of ReconcileMirrorMaker that compares versions remembers one that
\* the map has, and the deployments there are.
LEMMA ComparedTyped ==
    ASSUME Typed, NEW from, NEW version \in Nat, CompareVersions(from, version)
    PROVE  /\ mpc' \in {"idle", "deploy"}
           /\ mrun' \in [version : Nat, pending : SUBSET Clusters]
           /\ mrun'.version \in {0, version} /\ mseen' = mseen
<1>1. Deployments \subseteq Clusters
  BY Zenon DEF Deployments
<1>2. NoMirrorRun \in [version : Nat, pending : SUBSET Clusters] /\ NoMirrorRun.version = 0
  BY Zenon DEF NoMirrorRun
<1>3. [version |-> version, pending |-> Deployments]
          \in [version : Nat, pending : SUBSET Clusters]
  BY <1>1, Zenon
<1>4. QED
  BY <1>2, <1>3 DEF CompareVersions, MStep

\* ReconcileMirrorMaker keeps the types.
LEMMA MirrorTyped ==
    ASSUME Typed, Versions, MirrorReconcile \/ MirrorFails
    PROVE  Typed' /\ Versions'
<1> DEFINE Runs == [version : Nat, pending : SUBSET Clusters]
<1>1. /\ cm.version \in Nat /\ mrun.version \in Nat /\ mseen \in Nat
      /\ \A c \in Clusters : deployed[c] \in Nat
      /\ \A j \in Configs : run[j].version \in Nat
  BY Numbers, Zenon
<1>2. ASSUME /\ mpc' \in {"idle", "create", "replace", "deploy"}
             /\ mrun' \in Runs /\ mqueued' \in BOOLEAN /\ cm' \in Maps
             /\ cm.version <= cm'.version /\ mrun'.version <= cm'.version,
             mseen' = mseen \/ mseen' = mrun.version,
             /\ deployed' \in [Clusters -> Nat]
             /\ \A c \in Clusters : deployed'[c] \in {deployed[c], mrun.version},
             UNCHANGED <<service, kmmVars, edits, touched>>, upsets' \in 0..MaxUpsets
      PROVE  Typed' /\ Versions'
  <2>1. mseen' \in Nat /\ mseen' <= cm'.version /\ cm'.version \in Nat
    BY <1>1, <1>2 DEF Versions, Maps
  <2>2. Typed'
    BY <1>2, <2>1, Zenon DEF Typed, kmmVars
  <2>3. Versions'
    BY <1>1, <1>2, <2>1 DEF Versions, kmmVars
  <2>4. QED
    BY <2>2, <2>3, Zenon
<1> HIDE DEF Runs
<1>3. NoMirrorRun \in Runs /\ NoMirrorRun.version = 0
  BY Zenon DEF NoMirrorRun, Runs
<1>4. ASSUME mrest' = mrest
      PROVE  UNCHANGED <<service, kmmVars, edits, touched>> /\ upsets' \in 0..MaxUpsets
  BY <1>4, Zenon DEF mrest, kmmVars, Typed
<1>5. CASE FindConfigMap
  <2>1. [version |-> cm.version, pending |-> {}] \in Runs
    BY <1>1, Zenon DEF Runs
  <2>2. /\ mpc' \in {"idle", "create", "replace", "deploy"}
        /\ mrun' \in Runs /\ mrun'.version \in {0, cm.version} /\ mseen' = mseen
    BY <1>1, <1>5, <2>1, ComparedTyped DEF FindConfigMap, MStep, Runs
  <2>3. mqueued' = FALSE /\ cm' = cm /\ mrest' = mrest /\ deployed' = deployed
    BY <1>5, Zenon DEF FindConfigMap
  <2>4. cm \in Maps /\ deployed \in [Clusters -> Nat]
    BY Zenon DEF Typed
  <2>5. mrun'.version <= cm'.version /\ cm.version <= cm'.version
    BY <1>1, <2>2, <2>3
  <2>6. QED
    BY <1>2, <1>4, <2>2, <2>3, <2>4, <2>5, Zenon
<1>6. CASE CreateConfigMap \/ ReplaceConfigMap
  <2>1. CASE Put(GetMirrorMakerProperties) /\ \E from : CompareVersions(from, cm'.version)
    <3>1. cm' \in Maps /\ mqueued' \in BOOLEAN /\ cm.version <= cm'.version
      BY <2>1, PutMap, PropertiesAreFlows, Zenon DEF Typed
    <3>2. cm'.version \in Nat
      BY <3>1, Zenon DEF Maps
    <3>3. /\ mpc' \in {"idle", "deploy"} /\ mrun' \in Runs
          /\ mrun'.version \in {0, cm'.version} /\ mseen' = mseen
      BY <2>1, <3>2, ComparedTyped, Zenon DEF Runs
    <3>4. deployed' = deployed /\ mrest' = mrest
      BY <1>6, Zenon DEF CreateConfigMap, ReplaceConfigMap
    <3>5. QED
      BY <1>2, <1>4, <3>1, <3>2, <3>3, <3>4 DEF Typed
  <2>2. CASE mpc' = "idle" /\ mqueued' = TRUE /\ mrun' = NoMirrorRun /\ UNCHANGED <<cm, mseen>>
    BY <1>1, <1>2, <1>3, <1>4, <1>6, <2>2 DEF CreateConfigMap, ReplaceConfigMap, Typed
  <2>3. QED
    BY <1>6, <2>1, <2>2, Zenon DEF CreateConfigMap, ReplaceConfigMap, MStep
<1>7. CASE createDeployment
  <2>1. PICK c \in mrun.pending :
            /\ mpc' = "deploy" /\ mrun' = [mrun EXCEPT !.pending = @ \ {c}]
            /\ deployed' = [deployed EXCEPT ![c] = mrun.version]
    BY <1>7, Zenon DEF createDeployment, MStep
  <2>2. mrun' \in Runs /\ mrun'.version = mrun.version
    BY <2>1, Zenon DEF Typed, Runs
  <2>3. /\ deployed' \in [Clusters -> Nat]
        /\ \A d \in Clusters : deployed'[d] \in {deployed[d], mrun.version}
    BY <1>1, <2>1, Fields, Zenon DEF Typed
  <2>4. QED
    BY <1>1, <1>2, <1>4, <1>7, <2>1, <2>2, <2>3 DEF createDeployment, Typed, Versions
<1>8. CASE StoreVersion
  BY <1>1, <1>2, <1>3, <1>4, <1>8 DEF StoreVersion, MStep, Typed
<1>9. CASE MirrorFails
  <2>1. upsets' \in 0..MaxUpsets
    BY <1>9, ConfigAssumption DEF MirrorFails, Upset, Typed
  <2>2. QED
    BY <1>1, <1>2, <1>3, <1>9, <2>1 DEF MirrorFails, Typed
<1>10. QED
  BY <1>5, <1>6, <1>7, <1>8, <1>9, Zenon DEF MirrorReconcile

\* A crash keeps the types.
LEMMA CrashTyped ==
    ASSUME Typed, Versions, Crash
    PROVE  Typed' /\ Versions'
<1>1. NoRun \in Cycles /\ NoRun.version = 0
  BY NoFlowIsFlow, ConfigAssumption DEF NoRun, Cycles
<1>2. NoMirrorRun \in [version : Nat, pending : SUBSET Clusters] /\ NoMirrorRun.version = 0
  BY Zenon DEF NoMirrorRun
<1>3. upsets' \in 0..MaxUpsets
  BY ConfigAssumption DEF Crash, Upset, Typed
<1>4. run' \in [Configs -> Cycles] /\ \A k \in Configs : run'[k].version = 0
  BY <1>1, Zenon DEF Crash
<1>5. queued' \in [Configs -> BOOLEAN]
  <2>1. queued' = [k \in Configs |-> kmm[k].there]
    BY Zenon DEF Crash
  <2>2. QED
    BY <2>1, FieldsOf, Zenon
<1>6. Typed'
  BY <1>2, <1>3, <1>4, <1>5, Zenon DEF Crash, Typed
<1>7. Versions'
  BY <1>2, <1>4, Fields DEF Crash, Versions
<1>8. QED
  BY <1>6, <1>7, Zenon

\* No step leaves the types.
LEMMA TypedStep ==
    ASSUME Typed, Versions, [Next]_vars
    PROVE  Typed' /\ Versions'
<1>1. CASE UNCHANGED vars
  BY <1>1, Zenon DEF vars, kmmVars, mirrorVars, Typed, Versions
<1>2. QED
  BY <1>1, ClientsTyped, KmmTyped, MirrorTyped, CrashTyped, Zenon DEF Next

-----------------------------------------------------------------------------
(* The writers of the map *)

\* What a step leaves in the flows that nobody has touched: topics, names and
\* definitions of the resources that are not about to write.
Kept ==
    \A p \in Flows \ touched' :
        /\ cm.flows[p].topics \subseteq cm'.flows[p].topics
        /\ service.configurator /\ cm.flows[p].enabled = "true" => cm'.flows[p].enabled = "true"
        /\ \A k \in Configs :
              pc[k] # "update" =>
                 /\ cm'.flows[p].defs[k] = cm.flows[p].defs[k]
                 /\ k \in cm.flows[p].names => k \in cm'.flows[p].names

\* A map that changes is gone or has a new version.
Moved ==
    /\ cm' = cm \/ ~cm'.there \/ cm'.version = cm.version + 1
    /\ touched \subseteq touched' /\ service' = service

\* Without the configurator nothing is merged.
Unconfigured ==
    ~service.configurator => \A k \in Configs : ~kmm[k].there /\ pc[k] = "idle"

\* A step that leaves the map leaves the flows, if KafkaService finds it still.
LEMMA MapLeft ==
    ASSUME Writers, UNCHANGED <<service, cm, touched>>, Unconfigured',
           mpc' = "create" => ~cm.there, mpc' = "replace" => ~service.configurator
    PROVE  Writers' /\ Kept /\ Moved
<1>1. Kept /\ Moved
  BY Zenon DEF Kept, Moved
<1>2. Writers'
  BY Zenon DEF Writers, Unconfigured
<1>3. QED
  BY <1>1, <1>2, Zenon

\* Clients.
LEMMA ClientsWrite ==
    ASSUME Typed, Writers, Clients
    PROVE  Writers' /\ Kept /\ Moved
<1>1. ASSUME NEW k \in Configs, EditConfig(k) PROVE Writers' /\ Kept /\ Moved
  <2>1. service.configurator
    BY <1>1, Zenon DEF EditConfig
  <2>2. QED
    BY <1>1, <2>1, MapLeft, Zenon DEF EditConfig, Writers, Unconfigured, mirrorVars
<1>2. ASSUME NEW k \in Configs, DeleteConfig(k) PROVE Writers' /\ Kept /\ Moved
  <2>1. \A j \in Configs : kmm'[j].there => kmm[j].there
    BY <1>2, Zenon DEF DeleteConfig, NoConfig, Typed
  <2>2. Unconfigured'
    BY <1>2, <2>1, Zenon DEF DeleteConfig, Writers, Unconfigured
  <2>3. QED
    BY <1>2, <2>2, MapLeft, Zenon DEF DeleteConfig, Writers, mirrorVars
<1>3. CASE DeleteMap
  <2>1. /\ ~cm'.there /\ cm'.flows = [p \in Flows |-> NoFlow] /\ touched' = Flows
        /\ UNCHANGED <<service, kmm, pc, mpc>>
    BY <1>3, Zenon DEF DeleteMap, Typed, Maps, kmmVars
  <2>2. Kept /\ Moved
    BY <2>1, Zenon DEF Kept, Moved, Typed
  <2>3. \A p \in Flows : /\ cm'.flows[p].topics = {} /\ cm'.flows[p].names = {}
                         /\ \A k \in Configs : cm'.flows[p].defs[k] = 0
    BY <2>1 DEF NoFlow
  <2>4. Writers'
    BY <2>1, <2>3, Zenon DEF Writers
  <2>5. QED
    BY <2>2, <2>4, Zenon
<1>4. CASE EditMap
  <2>1. PICK p \in Flows :
            /\ \/ Put([cm.flows EXCEPT ![p].enabled = "false"])
               \/ Put([cm.flows EXCEPT ![p].enabled = "handmade"])
               \/ Put([cm.flows EXCEPT ![p].blacklist = TRUE])
            /\ touched' = touched \union {p}
    BY <1>4, Zenon DEF EditMap
  <2>2. PICK flow \in FlowSet :
            /\ Put([cm.flows EXCEPT ![p] = flow])
            /\ flow.topics = cm.flows[p].topics /\ flow.names = cm.flows[p].names
            /\ flow.defs = cm.flows[p].defs
    <3>1. cm.flows[p] \in FlowSet /\ cm.flows \in [Flows -> FlowSet]
      BY Fields, Zenon
    <3>2. ASSUME NEW flow \in {[cm.flows[p] EXCEPT !.enabled = "false"],
                               [cm.flows[p] EXCEPT !.enabled = "handmade"],
                               [cm.flows[p] EXCEPT !.blacklist = TRUE]}
          PROVE  /\ flow \in FlowSet
                 /\ flow.topics = cm.flows[p].topics /\ flow.names = cm.flows[p].names
                 /\ flow.defs = cm.flows[p].defs
      <4>1. CASE flow = [cm.flows[p] EXCEPT !.blacklist = TRUE]
        BY <3>1, <4>1, FlowEdited, Zenon
      <4>2. CASE flow = [cm.flows[p] EXCEPT !.enabled = "false"]
        BY <3>1, <4>2, FlowEdited, Zenon
      <4>3. CASE flow = [cm.flows[p] EXCEPT !.enabled = "handmade"]
        BY <3>1, <4>3, FlowEdited, Zenon
      <4>4. QED
        BY <3>2, <4>1, <4>2, <4>3, Zenon
    <3>3. \E flow \in {[cm.flows[p] EXCEPT !.enabled = "false"],
                       [cm.flows[p] EXCEPT !.enabled = "handmade"],
                       [cm.flows[p] EXCEPT !.blacklist = TRUE]} :
              Put([cm.flows EXCEPT ![p] = flow])
      BY <2>1, Zenon
    <3>4. QED
      BY <3>2, <3>3, Zenon
  <2>3. [cm.flows EXCEPT ![p] = flow] \in [Flows -> FlowSet]
    BY Fields, Zenon
  <2>4. /\ cm'.there /\ cm'.flows = [cm.flows EXCEPT ![p] = flow]
        /\ cm' = cm \/ cm'.version = cm.version + 1
    BY <2>2, <2>3, PutMap, Zenon DEF Typed
  <2>5. /\ cm'.flows[p] = flow
        /\ \A q \in Flows \ {p} : cm'.flows[q] = cm.flows[q]
    BY <2>4, Fields, Zenon
  <2>6. UNCHANGED <<service, kmm, pc, mpc>> /\ cm.there
    BY <1>4, Zenon DEF EditMap, kmmVars
  <2>7. Kept /\ Moved
    BY <2>1, <2>4, <2>5, <2>6, Zenon DEF Kept, Moved
  <2>8. Writers'
    <3>1. \A q \in Flows \ touched' : cm'.flows[q].enabled # "handmade"
      BY <2>1, <2>5, Zenon DEF Writers
    <3>2. \A q \in Flows : /\ cm'.flows[q].topics = cm.flows[q].topics
                           /\ cm'.flows[q].names = cm.flows[q].names
                           /\ cm'.flows[q].defs = cm.flows[q].defs
      BY <2>2, <2>5, Zenon
    <3>3. QED
      BY <2>4, <2>6, <3>1, <3>2 DEF Writers
  <2>9. QED
    BY <2>7, <2>8, Zenon
<1>5. QED
  BY <1>1, <1>2, <1>3, <1>4, Zenon DEF Clients

\* UpdateKmmConfigMap writes what the cycle made of the map as it still is: the
\* other resources lose nothing.
LEMMA UpdateWrites ==
    ASSUME Typed, Writers, NEW k \in Configs, Prepared(k), UpdateKmmConfigMap(k)
    PROVE  Writers' /\ Kept /\ Moved
<1>1. /\ pc[k] = "update" /\ pc' = [pc EXCEPT ![k] = "status"]
      /\ UNCHANGED <<service, touched, kmm, mpc>>
  BY Zenon DEF UpdateKmmConfigMap, Step, Failed
<1>2. service.configurator
  BY <1>1, Zenon DEF Writers
<1>3. CASE UNCHANGED cm
  BY <1>1, <1>2, <1>3, MapLeft, Zenon DEF Writers, Unconfigured
<1>4. CASE cm.there /\ cm.version = run[k].version /\ Put(run[k].flows)
  <2>1. PICK kind \in Kinds : run[k].flows = Merged(cm.flows, k, kind)
    BY <1>1, <1>4, Zenon DEF Prepared
  <2>2. /\ cm'.there /\ cm'.flows = run[k].flows
        /\ cm' = cm \/ cm'.version = cm.version + 1
    <3>1. run[k].flows \in [Flows -> FlowSet] /\ cm \in Maps /\ mqueued \in BOOLEAN
      BY FieldsOf, Zenon DEF Typed
    <3>2. QED
      BY <1>4, <3>1, PutMap, Zenon
  <2>3. cm.flows \in [Flows -> FlowSet]
    BY Fields, Zenon
  <2>4. ASSUME NEW p \in Flows
        PROVE  /\ cm.flows[p].topics \subseteq cm'.flows[p].topics
               /\ \A j \in Configs \ {k} : cm'.flows[p].defs[j] = cm.flows[p].defs[j]
               /\ cm.flows[p].enabled # "handmade" =>
                     /\ cm.flows[p].names \subseteq cm'.flows[p].names
                     /\ cm'.flows[p].enabled # "handmade"
                     /\ cm.flows[p].enabled = "true" => cm'.flows[p].enabled = "true"
    <3>1. Adds(cm.flows[p], Merged(cm.flows, k, kind)[p], k)
      BY <2>3, MergedFlows, Zenon
    <3>2. cm'.flows = Merged(cm.flows, k, kind)
      BY <2>1, <2>2, Zenon
    <3>3. Adds(cm.flows[p], cm'.flows[p], k)
      BY <3>1, <3>2, Zenon
    <3>4. QED
      BY <3>3, Zenon DEF Adds
  <2>5. \A p \in Flows \ touched : cm.flows[p].enabled # "handmade"
    BY Zenon DEF Writers
  <2>6. Kept /\ Moved
    BY <1>1, <2>2, <2>4, <2>5, ZenonT(40) DEF Kept, Moved
  <2>7. Writers'
    BY <1>1, <1>2, <1>4, <2>2, <2>4, <2>5, Zenon DEF Writers
  <2>8. QED
    BY <2>6, <2>7, Zenon
<1>5. QED
  BY <1>3, <1>4, Zenon DEF UpdateKmmConfigMap

\* The other steps of a KmmConfig do not write the map.
LEMMA KmmWrites ==
    ASSUME Typed, Writers, NEW k \in Configs, Prepared(k), KmmReconcile(k) \/ KmmFails(k)
    PROVE  Writers' /\ Kept /\ Moved
<1>1. CASE Get(k) \/ updateCrStatus(k) \/ KmmFails(k)
  <2>1. UNCHANGED <<service, cm, touched, mpc>>
    BY <1>1, Zenon DEF Get, updateCrStatus, KmmFails, mirrorVars
  <2>2. \A j \in Configs : kmm'[j].there = kmm[j].there
    <3>1. CASE Get(k) \/ KmmFails(k)
      BY <3>1, Zenon DEF Get, KmmFails
    <3>2. CASE updateCrStatus(k)
      <4>1. kmm' = kmm \/ kmm' = Written(k, run[k].problem)
        BY <3>2, Zenon DEF updateCrStatus, Written
      <4>2. run[k].problem \in BOOLEAN /\ kmm \in [Configs -> Resources]
        BY FieldsOf, Zenon DEF Typed
      <4>3. QED
        BY <4>1, <4>2, StatusWritten, Zenon
    <3>3. QED
      BY <1>1, <3>1, <3>2, Zenon
  <2>3. Unconfigured'
    <3>1. SUFFICES ASSUME ~service.configurator, NEW j \in Configs
                   PROVE  pc'[j] = "idle" /\ ~kmm'[j].there
      BY <2>1, Zenon DEF Unconfigured
    <3>2. \A i \in Configs : ~kmm[i].there /\ pc[i] = "idle"
      BY <3>1, Zenon DEF Writers
    <3>3. QED
      BY <1>1, <2>2, <3>2, Zenon DEF Get, updateCrStatus, KmmFails, Step, Failed, Typed
  <2>4. QED
    BY <2>1, <2>3, MapLeft, Zenon DEF Writers
<1>2. QED
  BY <1>1, UpdateWrites, Zenon DEF KmmReconcile

\* ReconcileMirrorMaker creates the map where there is none, and replaces one
\* that has nothing of a KmmConfig.
LEMMA MirrorWrites ==
    ASSUME Typed, Writers, MirrorReconcile \/ MirrorFails
    PROVE  Writers' /\ Kept /\ Moved
<1>1. UNCHANGED <<service, kmm, pc, touched>>
  BY Zenon DEF MirrorReconcile, FindConfigMap, CreateConfigMap, ReplaceConfigMap, createDeployment,
         StoreVersion, MirrorFails, mrest, kmmVars
<1>2. Unconfigured'
  BY <1>1, Zenon DEF Writers, Unconfigured
<1>3. CASE FindConfigMap
  <2>1. cm' = cm /\ (mpc' = "create" => ~cm.there)
        /\ (mpc' = "replace" => ~service.configurator)
    BY <1>3, Zenon DEF FindConfigMap, CompareVersions, MStep
  <2>2. QED
    BY <1>1, <1>2, <2>1, MapLeft, Zenon
<1>4. CASE createDeployment \/ StoreVersion \/ MirrorFails
  <2>1. cm' = cm /\ mpc' \in {"deploy", "idle"}
    BY <1>4, Zenon DEF createDeployment, StoreVersion, MirrorFails, MStep
  <2>2. QED
    BY <1>1, <1>2, <2>1, MapLeft, Zenon
<1>5. CASE CreateConfigMap \/ ReplaceConfigMap
  <2>1. mpc' \in {"deploy", "idle"}
    BY <1>5, Zenon DEF CreateConfigMap, ReplaceConfigMap, CompareVersions, MStep
  <2>2. CASE UNCHANGED cm
    BY <1>1, <1>2, <2>1, <2>2, MapLeft, Zenon
  <2>3. CASE Put(GetMirrorMakerProperties)
    <3> DEFINE new == GetMirrorMakerProperties
    <3>1. /\ cm'.there /\ cm'.flows = new
          /\ cm' = cm \/ cm'.version = cm.version + 1
      BY <2>3, PutMap, PropertiesAreFlows, Zenon DEF Typed
    <3>2. \A p \in Flows :
              /\ cm'.flows[p].enabled # "handmade"
              /\ cm'.flows[p].topics = {} /\ cm'.flows[p].names = {}
              /\ \A k \in Configs : cm'.flows[p].defs[k] = 0
      BY <3>1, PropertiesAreFlows, Zenon
    <3> HIDE DEF new
    <3>3. \A p \in Flows :
              /\ cm.flows[p].topics = {} /\ cm.flows[p].names = {}
              /\ \A k \in Configs : cm.flows[p].defs[k] = 0
              /\ service.configurator => cm.flows[p].enabled # "true"
      <4>1. CASE CreateConfigMap
        <5>1. cm.flows = [p \in Flows |-> NoFlow]
          BY <4>1, Zenon DEF CreateConfigMap, Writers
        <5>2. QED
          BY <5>1 DEF NoFlow
      <4>2. CASE ReplaceConfigMap
        <5>1. ~service.configurator
          BY <4>2, Zenon DEF ReplaceConfigMap, Writers
        <5>2. QED
          BY <5>1, Zenon DEF Writers
      <4>3. QED
        BY <1>5, <4>1, <4>2, Zenon
    <3>4. Kept /\ Moved
      BY <1>1, <3>1, <3>2, <3>3 DEF Kept, Moved
    <3>5. Writers'
      BY <1>1, <1>2, <2>1, <3>1, <3>2, Zenon DEF Writers, Unconfigured
    <3>6. QED
      BY <3>4, <3>5, Zenon
  <2>4. QED
    BY <1>5, <2>2, <2>3, Zenon DEF CreateConfigMap, ReplaceConfigMap
<1>6. QED
  BY <1>3, <1>4, <1>5, Zenon DEF MirrorReconcile

\* No step takes anything from a flow that nobody has touched.
LEMMA WritersStep ==
    ASSUME Typed, Writers, \A k \in Configs : Prepared(k), [Next]_vars
    PROVE  Writers' /\ Kept /\ Moved
<1>1. CASE Crash
  <2>1. /\ UNCHANGED <<service, cm, touched, kmm>> /\ mpc' = "idle"
        /\ pc' = [k \in Configs |-> "idle"]
    BY <1>1, Zenon DEF Crash
  <2>2. QED
    BY <2>1, MapLeft, Zenon DEF Writers, Unconfigured
<1>2. CASE UNCHANGED vars
  BY <1>2, MapLeft, Zenon DEF vars, kmmVars, mirrorVars, Writers, Unconfigured
<1>3. QED
  BY <1>1, <1>2, ClientsWrite, KmmWrites, MirrorWrites, Zenon DEF Next

-----------------------------------------------------------------------------
(* The resources *)

\* The region of the KafkaService decides what a specification means.
LEMMA SameMeaning ==
    ASSUME service' = service, NEW k \in Configs, NEW kind \in Kinds
    PROVE  /\ (recognizeTargetAndSourceDc(kind))' = recognizeTargetAndSourceDc(kind)
           /\ (Merged(cm.flows, k, kind))' = Merged(cm'.flows, k, kind)
BY Zenon DEF Merged, recognizeTargetAndSourceDc, checkTargetDc, TargetDcCM, getDcPairs

\* A resource whose worker does nothing keeps what it has in the map.
LEMMA Elsewhere ==
    ASSUME Typed, Versions, Writers, Kept, Moved, NEW k \in Configs, Mine(k),
           kmm'[k] = kmm[k], run'[k] = run[k], pc'[k] = pc[k], queued'[k] = queued[k]
    PROVE  Mine(k)'
<1>1. service' = service /\ touched \subseteq touched'
  BY Zenon DEF Moved
<1>2. kmm[k].spec \in Kinds /\ service.region \in Regions
  BY Fields, FieldsOf, Zenon
<1>3. Current(k)' = Current(k) /\ Done(k)' = Done(k)
  BY Zenon DEF Current, Done
<1>4. Prepared(k)'
  <2>1. CASE cm' = cm
    BY <1>1, <1>3, <2>1, SameMeaning, Zenon DEF Mine, Prepared
  <2>2. CASE ~cm'.there
    BY <2>2, Zenon DEF Prepared
  <2>3. CASE cm'.version = cm.version + 1
    <3>1. run[k].version <= cm.version /\ run[k].version \in Nat /\ cm.version \in Nat
      BY Numbers, Zenon DEF Versions
    <3>2. cm'.version # run[k].version
      BY <2>3, <3>1
    <3>3. QED
      BY <3>2, Zenon DEF Prepared
  <2>4. QED
    BY <2>1, <2>2, <2>3, Zenon DEF Moved
<1>5. InMap(k)'
  <2> SUFFICES ASSUME Done(k)' PROVE InMap(k)'
    BY Zenon DEF InMap
  <2> DEFINE kind == kmm[k].spec
             pairs == getDcPairs(recognizeTargetAndSourceDc(kind))
  <2>1. /\ ~recognizeTargetAndSourceDc(kind).error
        /\ \A p \in pairs \ touched : Has(cm.flows[p], k, kind)
    BY <1>3, Zenon DEF Mine, InMap, FlowsOf
  <2>2. pairs \subseteq Flows
    BY <1>2, <2>1, PairsAreFlows, Zenon
  <2>3. pc[k] # "update" /\ service.configurator
    BY <1>3, Zenon DEF Done, Current, Writers
  <2>4. ASSUME NEW p \in pairs \ touched' PROVE Has(cm'.flows[p], k, kind)
    <3>1. p \in Flows \ touched' /\ Has(cm.flows[p], k, kind)
      BY <1>1, <2>1, <2>2, Zenon
    <3>2. QED
      BY <2>3, <3>1, Zenon DEF Kept, Has
  <2>5. (recognizeTargetAndSourceDc(kmm[k].spec))' = recognizeTargetAndSourceDc(kind)
    BY <1>1, Zenon DEF recognizeTargetAndSourceDc, checkTargetDc, TargetDcCM
  <2>6. (FlowsOf(k))' = pairs
    BY <2>5, Zenon DEF FlowsOf, getDcPairs
  <2>7. ~(recognizeTargetAndSourceDc(kmm[k].spec).error)'
    BY <2>1, <2>5, Zenon
  <2>8. \A p \in (FlowsOf(k))' \ touched' : Has(cm'.flows[p], k, kind)
    BY <2>4, <2>6, Zenon
  <2>9. QED
    BY <2>7, <2>8, Zenon DEF InMap, Has
<1>6. QED
  BY <1>4, <1>5, Zenon DEF Mine

\* A resource that the worker has yet to look at again promises nothing.
LEMMA Unfinished ==
    ASSUME NEW k \in Configs, pc'[k] # "update", ~(Done(k))'
    PROVE  Mine(k)'
BY Zenon DEF Mine, Prepared, InMap

\* An edit or a deletion makes the cycle of the resource obsolete and queues
\* another one.
LEMMA ConfigEdited ==
    ASSUME Typed, Generations, NEW k \in Configs, Mine(k), EditConfig(k) \/ DeleteConfig(k)
    PROVE  Mine(k)' /\ Generations'
<1>1. /\ UNCHANGED <<service, cm, pc, run, touched>> /\ edits' = edits + 1
      /\ edits < MaxEdits /\ edits \in Nat /\ MaxEdits \in Nat
  <2>1. edits \in 0..MaxEdits /\ MaxEdits \in Nat
    BY ConfigAssumption, Zenon DEF Typed
  <2>2. edits < MaxEdits /\ edits' = edits + 1
    BY Zenon DEF EditConfig, DeleteConfig
  <2>3. UNCHANGED <<service, cm, pc, run, touched>>
    BY Zenon DEF EditConfig, DeleteConfig
  <2>4. QED
    BY <2>1, <2>2, <2>3
<1>2. queued'[k] = TRUE
  <2>1. queued' = [queued EXCEPT ![k] = TRUE]
    BY Zenon DEF EditConfig, DeleteConfig
  <2>2. queued \in [Configs -> BOOLEAN]
    BY Zenon DEF Typed
  <2>3. QED
    BY <2>1, <2>2, Zenon
<1>3. run[k].generation \in Nat /\ kmm \in [Configs -> Resources]
      /\ \A j \in Configs : run[j].generation \in Nat /\ kmm[j].generation \in Nat
  BY Numbers, Zenon DEF Typed
<1>4. /\ \A j \in Configs \ {k} : kmm'[j] = kmm[j]
      /\ (~kmm'[k].there /\ kmm'[k].generation = 0) \/ kmm'[k].generation = edits + 1
  <2>1. CASE EditConfig(k)
    <3>1. PICK spec \in Asked : kmm' = Edited(k, spec, edits + 1)
      BY <2>1, Zenon DEF EditConfig, Edited
    <3>2. edits + 1 \in 0..MaxEdits /\ spec \in Kinds
      BY <1>1, ConfigAssumption
    <3>3. QED
      BY <1>3, <3>1, <3>2, ResourceEdited, Zenon
  <2>2. CASE DeleteConfig(k)
    BY <1>3, <2>2, Zenon DEF DeleteConfig, NoConfig
  <2>3. QED
    BY <2>1, <2>2, Zenon
<1>5. ~(Current(k))'
  <2>1. run[k].generation <= edits
    BY Zenon DEF Generations
  <2>2. CASE ~kmm'[k].there
    BY <2>2, Zenon DEF Current
  <2>3. CASE kmm'[k].generation = edits + 1
    <3>1. run'[k].generation = run[k].generation
      BY <1>1, Zenon
    <3>2. kmm'[k].generation # run'[k].generation
      BY <1>1, <1>3, <2>1, <2>3, <3>1
    <3>3. QED
      BY <3>2, Zenon DEF Current
  <2>4. QED
    BY <1>4, <2>2, <2>3, Zenon
<1>6. ~(Done(k))'
  BY <1>2, <1>5, Zenon DEF Done
<1>7. Prepared(k)'
  BY <1>1, <1>5, SameMeaning, Zenon DEF Mine, Prepared
<1>8. Mine(k)'
  BY <1>6, <1>7, Zenon DEF Mine, InMap
<1>9. Generations'
  BY <1>1, <1>3, <1>4 DEF Generations
<1>10. QED
  BY <1>8, <1>9, Zenon

\* The cycle that has read resource and map knows what to write.
LEMMA GetPrepares ==
    ASSUME Typed, Generations, NEW k \in Configs, Mine(k), Get(k)
    PROVE  Mine(k)' /\ Generations'
<1>1. UNCHANGED <<service, cm, kmm, touched, edits>>
  BY Zenon DEF Get
<1>2. run \in [Configs -> Cycles] /\ pc \in [Configs -> {"idle", "update", "status"}]
      /\ kmm[k].spec \in Kinds
  BY FieldsOf, Zenon DEF Typed
<1>3. CASE ~kmm[k].there
  <2>1. pc' = [pc EXCEPT ![k] = "idle"] /\ run' = run
    BY <1>3, Zenon DEF Get, Step
  <2>2. Mine(k)'
    BY <1>1, <1>2, <1>3, <2>1, Unfinished, Zenon DEF Done
  <2>3. QED
    BY <1>1, <2>1, <2>2, Zenon DEF Generations
<1>4. CASE kmm[k].there
  <2> DEFINE failed == ~cm.there \/ recognizeTargetAndSourceDc(kmm[k].spec).error
             cycle == [generation |-> kmm[k].generation, version |-> cm.version,
                       problem |-> failed,
                       flows |-> IF failed THEN NoRun.flows
                                 ELSE Merged(cm.flows, k, kmm[k].spec)]
  <2>1. /\ pc' = [pc EXCEPT ![k] = IF failed THEN "status" ELSE "update"]
        /\ run' = [run EXCEPT ![k] = cycle]
    BY <1>4, Zenon DEF Get, Step
  <2> HIDE DEF failed, cycle
  <2>2. /\ pc'[k] = IF failed THEN "status" ELSE "update"
        /\ run'[k] = cycle /\ \A j \in Configs \ {k} : run'[j] = run[j]
    BY <1>2, <2>1, Zenon
  <2>3. Generations'
    <3>1. cycle.generation = kmm[k].generation
      BY Zenon DEF cycle
    <3>2. QED
      BY <1>1, <2>2, <3>1, Zenon DEF Generations
  <2>4. CASE failed
    <3>1. pc'[k] = "status" /\ run'[k].problem = TRUE
      <4>1. cycle.problem = TRUE
        <5>1. cycle.problem = failed
          BY Zenon DEF cycle
        <5>2. failed = TRUE
          BY <2>4, Zenon DEF failed
        <5>3. QED
          BY <5>1, <5>2, Zenon
      <4>2. QED
        BY <2>2, <2>4, <4>1, Zenon
    <3>2. QED
      BY <2>3, <3>1, Unfinished, Zenon DEF Done
  <2>5. CASE ~failed
    <3>1. pc'[k] = "update" /\ run'[k].flows = Merged(cm.flows, k, kmm[k].spec)
      <4>1. cycle.flows = Merged(cm.flows, k, kmm[k].spec)
        BY <2>5, Zenon DEF cycle
      <4>2. QED
        BY <2>2, <2>5, <4>1, Zenon
    <3>2. /\ ~recognizeTargetAndSourceDc(kmm[k].spec).error
          /\ kmm'[k].spec = kmm[k].spec
      BY <1>1, <2>5, Zenon DEF failed
    <3>3. Prepared(k)'
      BY <1>1, <1>2, <3>1, <3>2, SameMeaning, Zenon DEF Prepared
    <3>4. InMap(k)'
      BY <3>1, Zenon DEF InMap, Done
    <3>5. QED
      BY <2>3, <3>3, <3>4, Zenon DEF Mine
  <2>6. QED
    BY <2>4, <2>5, Zenon
<1>5. QED
  BY <1>3, <1>4, Zenon

\* After the update the map has what the resource says, if that is still what
\* the cycle has read.
LEMMA UpdateMerges ==
    ASSUME Typed, Writers, Generations, NEW k \in Configs, Mine(k), UpdateKmmConfigMap(k)
    PROVE  Mine(k)' /\ Generations'
<1>1. /\ pc[k] = "update" /\ pc' = [pc EXCEPT ![k] = "status"]
      /\ UNCHANGED <<service, touched, kmm, edits>>
  BY Zenon DEF UpdateKmmConfigMap, Step, Failed
<1>2. run \in [Configs -> Cycles] /\ pc'[k] = "status" /\ kmm[k].spec \in Kinds
      /\ cm.flows \in [Flows -> FlowSet] /\ run[k].flows \in [Flows -> FlowSet]
      /\ service.region \in Regions
  <2>1. run \in [Configs -> Cycles] /\ pc \in [Configs -> {"idle", "update", "status"}]
    BY Zenon DEF Typed
  <2>2. QED
    BY <1>1, <2>1, Fields, FieldsOf, Zenon
<1>3. CASE run' = Troubled(k)
  <2>1. /\ run'[k].problem /\ run'[k].generation = run[k].generation
        /\ \A j \in Configs \ {k} : run'[j] = run[j]
    BY <1>2, <1>3, CycleFails, Zenon
  <2>2. Mine(k)'
    BY <1>2, <2>1, Unfinished, Zenon DEF Done
  <2>3. QED
    BY <1>1, <2>1, <2>2, Zenon DEF Generations
<1>4. CASE cm.there /\ cm.version = run[k].version /\ Put(run[k].flows) /\ run' = run
  <2>1. Generations'
    BY <1>1, <1>4, Zenon DEF Generations
  <2>2. PICK kind \in Kinds :
            /\ ~recognizeTargetAndSourceDc(kind).error
            /\ run[k].flows = Merged(cm.flows, k, kind)
            /\ Current(k) => kind = kmm[k].spec
    BY <1>1, <1>4, Zenon DEF Mine, Prepared
  <2>3. cm'.flows = Merged(cm.flows, k, kind)
    BY <1>2, <1>4, <2>2, PutMap, Zenon DEF Typed
  <2>4. CASE ~Current(k)
    BY <1>1, <1>2, <1>4, <2>1, <2>4, Unfinished, Zenon DEF Done, Current
  <2>5. CASE Current(k)
    <3> DEFINE pairs == getDcPairs(recognizeTargetAndSourceDc(kind))
    <3>1. pairs \subseteq Flows
      BY <1>2, <2>2, PairsAreFlows, Zenon
    <3>2. ASSUME NEW p \in pairs \ touched PROVE Has(cm'.flows[p], k, kind)
      <4>1. p \in Flows /\ cm.flows[p].enabled # "handmade"
        BY <3>1, Zenon DEF Writers
      <4>2. QED
        <5>1. Has(Merged(cm.flows, k, kind)[p], k, kind)
          BY <1>2, <4>1, MergedFlows, Zenon
        <5>2. QED
          BY <2>3, <5>1, Zenon
    <3>3. /\ (recognizeTargetAndSourceDc(kmm[k].spec))' = recognizeTargetAndSourceDc(kind)
          /\ kmm'[k].spec = kind
      BY <1>1, <2>2, <2>5, Zenon DEF recognizeTargetAndSourceDc, checkTargetDc, TargetDcCM
    <3>4. (FlowsOf(k))' = pairs
      BY <3>3, Zenon DEF FlowsOf, getDcPairs
    <3>5. ~(recognizeTargetAndSourceDc(kmm[k].spec).error)'
      BY <2>2, <3>3, Zenon
    <3>6. \A p \in (FlowsOf(k))' \ touched' : Has(cm'.flows[p], k, kmm'[k].spec)
      BY <1>1, <3>2, <3>3, <3>4, Zenon
    <3>7. InMap(k)'
      BY <3>5, <3>6, Zenon DEF InMap, Has
    <3>8. QED
      BY <1>2, <2>1, <3>7, Zenon DEF Mine, Prepared
  <2>6. QED
    BY <2>4, <2>5, Zenon
<1>5. QED
  BY <1>3, <1>4, Zenon DEF UpdateKmmConfigMap, Failed, Troubled

\* The status says that a resource is processed only if it is in the map, or
\* there is another cycle.
LEMMA StatusTrue ==
    ASSUME Typed, Generations, NEW k \in Configs, Mine(k), updateCrStatus(k)
    PROVE  Mine(k)' /\ Generations'
<1>1. /\ pc[k] = "status" /\ pc' = [pc EXCEPT ![k] = "idle"]
      /\ run' = [run EXCEPT ![k] = NoRun]
      /\ UNCHANGED <<service, cm, touched, edits>>
  BY Zenon DEF updateCrStatus, Step
<1>2. /\ pc'[k] = "idle" /\ run'[k] = NoRun /\ NoRun.generation = 0
      /\ \A j \in Configs \ {k} : run'[j] = run[j]
  <2>1. run \in [Configs -> Cycles] /\ pc \in [Configs -> {"idle", "update", "status"}]
    BY Zenon DEF Typed
  <2>2. NoRun.generation = 0
    BY Zenon DEF NoRun
  <2>3. QED
    BY <1>1, <2>1, <2>2, Zenon
<1>3. kmm \in [Configs -> Resources] /\ run[k].problem \in BOOLEAN /\ edits \in Nat
  BY FieldsOf, Numbers, Zenon DEF Typed
<1>4. /\ kmm'[k].there = kmm[k].there /\ kmm'[k].spec = kmm[k].spec
      /\ \A j \in Configs : kmm'[j].generation = kmm[j].generation
  <2>1. kmm' = kmm \/ kmm' = Written(k, run[k].problem)
    BY Zenon DEF updateCrStatus, Written
  <2>2. QED
    BY <1>3, <2>1, StatusWritten, Zenon
<1>5. Generations'
  BY <1>1, <1>2, <1>3, <1>4 DEF Generations
<1>6. ASSUME (Done(k))' PROVE Done(k)
  <2>1. kmm'[k].there /\ ~queued'[k]
    BY <1>2, <1>6, Zenon DEF Done
  <2>2. ~run[k].problem /\ kmm[k].there /\ kmm[k].generation = run[k].generation
    <3> DEFINE written == kmm[k].there /\ kmm[k].generation = run[k].generation
    <3>1. queued' = [queued EXCEPT ![k] = queued[k] \/ run[k].problem \/ ~written]
      BY Zenon DEF updateCrStatus
    <3>2. queued \in [Configs -> BOOLEAN]
      BY Zenon DEF Typed
    <3>3. ~(queued[k] \/ run[k].problem \/ ~written)
      BY <2>1, <3>1, <3>2, Zenon
    <3>4. QED
      BY <3>3, Zenon
  <2>3. QED
    BY <1>1, <2>2, Zenon DEF Done, Current
<1>7. InMap(k)'
  <2> SUFFICES ASSUME (Done(k))' PROVE InMap(k)'
    BY Zenon DEF InMap
  <2>1. /\ ~recognizeTargetAndSourceDc(kmm[k].spec).error
        /\ \A p \in FlowsOf(k) \ touched : Has(cm.flows[p], k, kmm[k].spec)
    BY <1>6, Zenon DEF Mine, InMap
  <2>2. (recognizeTargetAndSourceDc(kmm[k].spec))' = recognizeTargetAndSourceDc(kmm[k].spec)
    BY <1>1, <1>4, Zenon DEF recognizeTargetAndSourceDc, checkTargetDc, TargetDcCM
  <2>3. (FlowsOf(k))' = FlowsOf(k)
    BY <2>2, Zenon DEF FlowsOf, getDcPairs
  <2>4. ~(recognizeTargetAndSourceDc(kmm[k].spec).error)'
    BY <2>1, <2>2, Zenon
  <2>5. \A p \in (FlowsOf(k))' \ touched' : Has(cm'.flows[p], k, kmm'[k].spec)
    BY <1>1, <1>4, <2>1, <2>3, Zenon
  <2>6. QED
    BY <2>4, <2>5, Zenon DEF InMap, Has
<1>8. QED
  BY <1>2, <1>5, <1>7, Zenon DEF Mine, Prepared

\* After a failure there is another cycle.
LEMMA FailureQueues ==
    ASSUME Typed, Generations, NEW k \in Configs, Mine(k), KmmFails(k)
    PROVE  Mine(k)' /\ Generations'
<1>1. /\ UNCHANGED <<kmm, edits>> /\ edits \in Nat
      /\ run \in [Configs -> Cycles] /\ pc \in [Configs -> {"idle", "update", "status"}]
  BY ConfigAssumption DEF KmmFails, Typed
<1>2. CASE Failed(k, "update")
  <2>1. /\ pc'[k] = "status" /\ run'[k].problem /\ run'[k].generation = run[k].generation
        /\ \A j \in Configs \ {k} : run'[j] = run[j]
    <3>1. run' = Troubled(k) /\ pc' = [pc EXCEPT ![k] = "status"]
      BY <1>2, Zenon DEF Failed, Step, Troubled
    <3>2. QED
      BY <1>1, <3>1, CycleFails, Zenon
  <2>2. Mine(k)'
    BY <2>1, Unfinished, Zenon DEF Done
  <2>3. QED
    BY <1>1, <2>1, <2>2, Zenon DEF Generations
<1>3. CASE /\ Step(k, "status", "idle") /\ run' = [run EXCEPT ![k] = NoRun]
           /\ queued' = [queued EXCEPT ![k] = TRUE]
  <2>1. /\ pc'[k] = "idle" /\ queued'[k] = TRUE /\ run'[k].generation = 0
        /\ \A j \in Configs \ {k} : run'[j] = run[j]
    BY <1>1, <1>3, Zenon DEF Step, NoRun, Typed
  <2>2. Mine(k)'
    BY <2>1, Unfinished, Zenon DEF Done
  <2>3. QED
    BY <1>1, <2>1, <2>2 DEF Generations
<1>4. QED
  BY <1>2, <1>3, Zenon DEF KmmFails

\* A new process looks at every resource again.
LEMMA CrashQueues ==
    ASSUME Typed, Generations, Crash
    PROVE  Generations' /\ \A k \in Configs : Mine(k)'
<1>1. UNCHANGED <<kmm, edits>> /\ edits \in Nat
  BY ConfigAssumption DEF Crash, Typed
<1>2. ASSUME NEW k \in Configs
      PROVE  /\ pc'[k] = "idle" /\ queued'[k] = kmm[k].there /\ run'[k].generation = 0
  BY Zenon DEF Crash, NoRun
<1>3. ASSUME NEW k \in Configs PROVE Mine(k)'
  BY <1>1, <1>2, Unfinished, Zenon DEF Done
<1>4. Generations'
  BY <1>1, <1>2 DEF Generations
<1>5. QED
  BY <1>3, <1>4, Zenon

\* The other resources and workers of a step of one resource.
LEMMA OnlyOne ==
    ASSUME Typed, NEW k \in Configs, NEW j \in Configs \ {k},
           EditConfig(k) \/ DeleteConfig(k) \/ KmmReconcile(k) \/ KmmFails(k)
    PROVE  kmm'[j] = kmm[j] /\ run'[j] = run[j] /\ pc'[j] = pc[j] /\ queued'[j] = queued[j]
<1>1. CASE EditConfig(k) \/ DeleteConfig(k)
  BY <1>1, ZenonT(40) DEF EditConfig, DeleteConfig, Typed
<1>2. CASE Get(k) \/ UpdateKmmConfigMap(k)
  BY <1>2, Zenon DEF Get, UpdateKmmConfigMap, Step, Failed, Typed
<1>3. CASE updateCrStatus(k) \/ KmmFails(k)
  BY <1>3 DEF updateCrStatus, KmmFails, Step, Failed, Typed
<1>4. QED
  BY <1>1, <1>2, <1>3, Zenon DEF KmmReconcile

\* ReconcileMirrorMaker, the clients of the map and a step of nobody leave the
\* resources and their workers.
LEMMA NoResource ==
    ASSUME DeleteMap \/ EditMap \/ MirrorReconcile \/ MirrorFails \/ UNCHANGED vars
    PROVE  UNCHANGED <<kmm, run, pc, queued, edits>>
BY Zenon DEF DeleteMap, EditMap, MirrorReconcile, FindConfigMap, CreateConfigMap, ReplaceConfigMap,
       createDeployment, StoreVersion, MirrorFails, vars, mrest, kmmVars

\* The map is created by nobody but KafkaService, so nothing is prepared yet.
LEMMA InitMInv ==
    Init => MInv
<1> SUFFICES ASSUME Init PROVE MInv
  BY Zenon
<1>1. NoConfig \in Resources /\ ~NoConfig.there /\ NoConfig.generation = 0
  BY ConfigAssumption DEF NoConfig, Resources, Kinds
<1>2. NoRun \in Cycles /\ NoRun.version = 0 /\ NoRun.generation = 0
  BY NoFlowIsFlow, ConfigAssumption DEF NoRun, Cycles
<1>3. NoMirrorRun \in [version : Nat, pending : SUBSET Clusters] /\ NoMirrorRun.version = 0
  BY Zenon DEF NoMirrorRun
<1>4. /\ cm \in Maps /\ cm.version = 0 /\ ~cm.there /\ cm.flows = [p \in Flows |-> NoFlow]
  BY NoFlowIsFlow, Zenon DEF Init, Maps
<1>5. Typed
  BY <1>1, <1>2, <1>3, <1>4, ConfigAssumption DEF Init, Typed
<1>6. Versions /\ Generations
  BY <1>1, <1>2, <1>3, <1>4 DEF Init, Versions, Generations
<1>7. \A p \in Flows : /\ cm.flows[p].enabled # "handmade" /\ cm.flows[p].topics = {}
                       /\ cm.flows[p].names = {}
                       /\ \A k \in Configs : cm.flows[p].defs[k] = 0
  BY <1>4 DEF NoFlow
<1>8. Writers
  BY <1>1, <1>4, <1>7, Zenon DEF Init, Writers
<1>9. \A k \in Configs : Mine(k)
  BY <1>1, Zenon DEF Init, Mine, Prepared, InMap, Done
<1>10. QED
  BY <1>5, <1>6, <1>8, <1>9, Zenon DEF MInv

\* The invariant is inductive.
LEMMA NextMInv ==
    MInv /\ [Next]_vars => MInv'
<1> SUFFICES ASSUME MInv, [Next]_vars PROVE MInv'
  BY Zenon
<1>1. Typed /\ Versions /\ Generations /\ Writers /\ \A k \in Configs : Mine(k)
  BY Zenon DEF MInv
<1>2. Typed' /\ Versions'
  BY <1>1, TypedStep, Zenon
<1>3. Writers' /\ Kept /\ Moved
  BY <1>1, WritersStep, Zenon DEF Mine
<1>4. ASSUME NEW k \in Configs,
             EditConfig(k) \/ DeleteConfig(k) \/ KmmReconcile(k) \/ KmmFails(k)
      PROVE  Generations' /\ \A j \in Configs : Mine(j)'
  <2>1. Mine(k)' /\ Generations'
    BY <1>1, <1>4, ConfigEdited, GetPrepares, UpdateMerges, StatusTrue, FailureQueues, Zenon
    DEF KmmReconcile
  <2>2. ASSUME NEW j \in Configs \ {k} PROVE Mine(j)'
    <3>1. kmm'[j] = kmm[j] /\ run'[j] = run[j] /\ pc'[j] = pc[j] /\ queued'[j] = queued[j]
      BY <1>1, <1>4, OnlyOne, Zenon
    <3>2. QED
      BY <1>1, <1>3, <3>1, Elsewhere, Zenon
  <2>3. QED
    BY <2>1, <2>2, Zenon
<1>5. CASE DeleteMap \/ EditMap \/ MirrorReconcile \/ MirrorFails \/ UNCHANGED vars
  <2>1. UNCHANGED <<kmm, run, pc, queued, edits>>
    BY <1>5, NoResource, Zenon
  <2>2. Generations'
    BY <1>1, <2>1, Zenon DEF Generations
  <2>3. ASSUME NEW j \in Configs PROVE Mine(j)'
    BY <1>1, <1>3, <2>1, Elsewhere, Zenon
  <2>4. QED
    BY <1>2, <1>3, <2>2, <2>3, Zenon DEF MInv
<1>6. CASE Crash
  BY <1>1, <1>2, <1>3, <1>6, CrashQueues, Zenon DEF MInv
<1>7. QED
  BY <1>2, <1>3, <1>4, <1>5, <1>6, Zenon DEF Next, Clients, MInv

\* The inductive invariant holds in every reachable state.
LEMMA MirrorInvariant ==
    Spec => []MInv
BY InitMInv, NextMInv, PTL DEF Spec

-----------------------------------------------------------------------------
(* Workers at rest *)

\* A resource that no worker has to look at was processed without a problem.
Settled(k) ==
    kmm[k].there /\ ~queued[k] /\ pc[k] = "idle" => kmm[k].processed /\ ~kmm[k].problem

AllSettled == \A k \in Configs : Settled(k)

\* Whatever happens to a resource in its cycle, it is queued again unless its
\* status could be written without a problem.
LEMMA SettledStep ==
    ASSUME Typed, NEW k \in Configs, Settled(k),
           EditConfig(k) \/ DeleteConfig(k) \/ KmmReconcile(k) \/ KmmFails(k)
    PROVE  Settled(k)'
<1>1. /\ queued \in [Configs -> BOOLEAN] /\ pc \in [Configs -> {"idle", "update", "status"}]
      /\ kmm \in [Configs -> Resources] /\ run[k].problem \in BOOLEAN
  BY FieldsOf, Zenon DEF Typed
<1>2. CASE EditConfig(k) \/ DeleteConfig(k)
  <2>1. queued' = [queued EXCEPT ![k] = TRUE]
    BY <1>2, Zenon DEF EditConfig, DeleteConfig
  <2>2. QED
    BY <1>1, <2>1, Zenon DEF Settled
<1>3. CASE Get(k)
  <2>1. CASE kmm[k].there
    <3>1. pc' = [pc EXCEPT ![k] = "status"] \/ pc' = [pc EXCEPT ![k] = "update"]
      BY <1>3, <2>1, Zenon DEF Get, Step
    <3>2. QED
      BY <1>1, <3>1, Zenon DEF Settled
  <2>2. CASE ~kmm[k].there
    BY <1>3, <2>2, Zenon DEF Get, Settled
  <2>3. QED
    BY <2>1, <2>2, Zenon
<1>4. CASE UpdateKmmConfigMap(k)
  <2>1. pc' = [pc EXCEPT ![k] = "status"]
    BY <1>4, Zenon DEF UpdateKmmConfigMap, Step, Failed
  <2>2. QED
    BY <1>1, <2>1, Zenon DEF Settled
<1>5. CASE updateCrStatus(k)
  <2> DEFINE written == kmm[k].there /\ kmm[k].generation = run[k].generation
  <2>1. /\ queued' = [queued EXCEPT ![k] = queued[k] \/ run[k].problem \/ ~written]
        /\ kmm' = IF written THEN Written(k, run[k].problem) ELSE kmm
    BY <1>5, Zenon DEF updateCrStatus, Written
  <2>2. CASE queued[k] \/ run[k].problem \/ ~written
    BY <1>1, <2>1, <2>2, Zenon DEF Settled
  <2>3. CASE ~(queued[k] \/ run[k].problem \/ ~written)
    <3>1. kmm' = Written(k, run[k].problem) /\ ~run[k].problem
      BY <2>1, <2>3, Zenon
    <3>2. QED
      BY <1>1, <3>1, StatusWritten, Zenon DEF Settled
  <2>4. QED
    BY <2>2, <2>3, Zenon
<1>6. CASE KmmFails(k)
  <2>1. pc' = [pc EXCEPT ![k] = "status"] \/ queued' = [queued EXCEPT ![k] = TRUE]
    BY <1>6, Zenon DEF KmmFails, Step, Failed
  <2>2. QED
    BY <1>1, <2>1, Zenon DEF Settled
<1>7. QED
  BY <1>2, <1>3, <1>4, <1>5, <1>6, Zenon DEF KmmReconcile

\* No resource is forgotten.
LEMMA NobodyForgotten ==
    Spec => []AllSettled
<1>1. Init => AllSettled
  <2>1. NoConfig.there = FALSE
    BY Zenon DEF NoConfig
  <2>2. QED
    BY <2>1, Zenon DEF Init, AllSettled, Settled
<1>2. MInv /\ AllSettled /\ [Next]_vars => AllSettled'
  <2> SUFFICES ASSUME MInv, AllSettled, [Next]_vars
               PROVE  \A k \in Configs : Settled(k)'
    BY Zenon DEF AllSettled
  <2>1. ASSUME NEW k \in Configs,
               EditConfig(k) \/ DeleteConfig(k) \/ KmmReconcile(k) \/ KmmFails(k),
               NEW j \in Configs
        PROVE  Settled(j)'
    <3>1. CASE j = k
      BY <2>1, <3>1, SettledStep, Zenon DEF MInv, AllSettled
    <3>2. CASE j # k
      BY <2>1, <3>2, OnlyOne, Zenon DEF MInv, AllSettled, Settled
    <3>3. QED
      BY <3>1, <3>2, Zenon
  <2>2. CASE DeleteMap \/ EditMap \/ MirrorReconcile \/ MirrorFails \/ UNCHANGED vars
    BY <2>2, NoResource, Zenon DEF AllSettled, Settled
  <2>3. CASE Crash
    BY <2>3, Zenon DEF Crash, Settled
  <2>4. QED
    BY <2>1, <2>2, <2>3, Zenon DEF Next, Clients
<1>3. QED
  BY <1>1, <1>2, MirrorInvariant, PTL DEF Spec

\* What the versions are worth: the one that is stored was deployed everywhere,
\* the one being deployed is newer, and the current one is stored, being
\* deployed or going to be read.
Rollout ==
    /\ mseen = cm.version => \A c \in Deployments : deployed[c] = cm.version
    /\ mpc = "deploy" =>
          /\ mseen < mrun.version
          /\ \A c \in Deployments \ mrun.pending : deployed[c] = mrun.version
          /\ ~mqueued => cm.there /\ mrun.version = cm.version
    /\ mpc = "idle" /\ ~mqueued => cm.there /\ mseen = cm.version

\* Who changes the map queues the KafkaService.
MapQueues ==
    /\ UNCHANGED <<service, mpc, mrun, mseen, deployed>>
    /\ \/ cm' = cm /\ mqueued' = mqueued
       \/ mqueued' = TRUE /\ (cm'.version = cm.version \/ cm'.version = cm.version + 1)

\* An update of the map does so.
LEMMA PutQueues ==
    ASSUME NEW flows, Put(flows)
    PROVE  \/ cm' = cm /\ mqueued' = mqueued
           \/ mqueued' = TRUE /\ cm'.version = cm.version + 1
<1>1. CASE cm.there /\ cm.flows = flows
  BY <1>1, Zenon DEF Put
<1>2. CASE ~(cm.there /\ cm.flows = flows)
  <2>1. cm' = [there |-> TRUE, version |-> cm.version + 1, flows |-> flows] /\ mqueued' = TRUE
    BY <1>2, Zenon DEF Put
  <2>2. cm'.version = cm.version + 1
    BY <2>1, Zenon
  <2>3. QED
    BY <2>1, <2>2, Zenon
<1>3. QED
  BY <1>1, <1>2, Zenon

\* The resources, their workers and the clients of the map change it at most so.
LEMMA OthersQueue ==
    ASSUME Typed, Writers,
           \/ \E k \in Configs : EditConfig(k) \/ DeleteConfig(k) \/ KmmReconcile(k) \/ KmmFails(k)
           \/ DeleteMap \/ EditMap \/ UNCHANGED vars
    PROVE  MapQueues
<1>1. ASSUME NEW k \in Configs, EditConfig(k) \/ DeleteConfig(k) \/ KmmFails(k)
      PROVE  MapQueues
  BY <1>1, Zenon DEF EditConfig, DeleteConfig, KmmFails, mirrorVars, MapQueues
<1>2. ASSUME NEW k \in Configs, KmmReconcile(k) PROVE MapQueues
  <2>1. CASE Get(k) \/ updateCrStatus(k)
    BY <2>1, Zenon DEF Get, updateCrStatus, mirrorVars, MapQueues
  <2>2. CASE UpdateKmmConfigMap(k)
    <3>1. /\ UNCHANGED <<service, mpc, mrun, mseen, deployed>>
          /\ Put(run[k].flows) \/ UNCHANGED <<cm, mqueued>>
      BY <2>2, Zenon DEF UpdateKmmConfigMap
    <3>2. QED
      BY <3>1, PutQueues, Zenon DEF MapQueues
  <2>3. QED
    BY <1>2, <2>1, <2>2, Zenon DEF KmmReconcile
<1>3. CASE DeleteMap
  <2>1. cm'.version = cm.version
    <3>1. cm \in Maps
      BY Fields, Zenon
    <3>2. QED
      BY <1>3, <3>1, Zenon DEF DeleteMap, Maps
  <2>2. QED
    BY <1>3, <2>1, Zenon DEF DeleteMap, MapQueues
<1>4. CASE EditMap
  <2>1. PICK flows : Put(flows)
    BY <1>4, Zenon DEF EditMap
  <2>2. UNCHANGED <<service, mpc, mrun, mseen, deployed>>
    BY <1>4, Zenon DEF EditMap
  <2>3. QED
    BY <2>1, <2>2, PutQueues, Zenon DEF MapQueues
<1>5. CASE UNCHANGED vars
  BY <1>5, Zenon DEF vars, mirrorVars, MapQueues
<1>6. QED
  BY <1>1, <1>2, <1>3, <1>4, <1>5, Zenon

\* After such a change the KafkaService has something to do.
LEMMA MapQueuesRollout ==
    ASSUME Typed, Versions, Rollout, MapQueues
    PROVE  Rollout'
<1>1. cm.version \in Nat /\ mseen \in Nat /\ mseen <= cm.version
  BY Numbers, Zenon DEF Versions
<1>2. Deployments' = Deployments
  BY Zenon DEF Deployments, MapQueues
<1>3. CASE cm' = cm /\ mqueued' = mqueued
  BY <1>2, <1>3, Zenon DEF Rollout, MapQueues
<1>4. CASE mqueued' = TRUE /\ cm'.version = cm.version
  BY <1>2, <1>4, Zenon DEF Rollout, MapQueues
<1>5. CASE mqueued' = TRUE /\ cm'.version = cm.version + 1
  <2>1. mseen # cm'.version
    BY <1>1, <1>5
  <2>2. QED
    BY <1>2, <1>5, <2>1, Zenon DEF Rollout, MapQueues
<1>6. QED
  BY <1>3, <1>4, <1>5, Zenon DEF MapQueues

\* CompareVersions after the current version was found or written.
LEMMA CompareRollout ==
    ASSUME Typed, Versions, NEW from, CompareVersions(from, cm'.version),
           cm'.there, UNCHANGED <<service, deployed>>, cm'.version \in Nat,
           cm.version <= cm'.version,
           cm'.version = cm.version => (mseen = cm.version => \A c \in Deployments : deployed[c] = cm.version)
    PROVE  Rollout'
<1>1. cm.version \in Nat /\ mseen \in Nat /\ mseen <= cm.version /\ mseen' = mseen
  BY Numbers, Zenon DEF Versions, CompareVersions
<1>2. Deployments' = Deployments
  BY Zenon DEF Deployments
<1>3. CASE mseen # cm'.version
  <2>1. /\ mpc' = "deploy" /\ mrun' = [version |-> cm'.version, pending |-> Deployments]
    BY <1>3, Zenon DEF CompareVersions, MStep
  <2>2. mrun'.version = cm'.version /\ mrun'.pending = Deployments
    BY <2>1, Zenon
  <2>3. mseen < cm'.version
    BY <1>1, <1>3
  <2>4. QED
    BY <1>1, <1>2, <1>3, <2>1, <2>2, <2>3, Zenon DEF Rollout
<1>4. CASE mseen = cm'.version
  <2>1. mpc' = "idle" /\ cm'.version = cm.version
    <3>1. mpc' = "idle"
      BY <1>4, Zenon DEF CompareVersions, MStep
    <3>2. cm'.version = cm.version
      BY <1>1, <1>4
    <3>3. QED
      BY <3>1, <3>2, Zenon
  <2>2. QED
    BY <1>1, <1>2, <1>4, <2>1, Zenon DEF Rollout
<1>5. QED
  BY <1>3, <1>4, Zenon

\* ReconcileMirrorMaker stores a version when all deployments have it, and
\* compares the version that the map has when it is read or written.
LEMMA MirrorRollout ==
    ASSUME Typed, Versions, Writers, Rollout, MirrorReconcile
    PROVE  Rollout'
<1>1. /\ UNCHANGED service /\ Deployments' = Deployments
      /\ cm \in Maps /\ cm.version \in Nat /\ mqueued \in BOOLEAN
      /\ mrun \in [version : Nat, pending : SUBSET Clusters]
      /\ deployed \in [Clusters -> Nat] /\ Deployments \subseteq Clusters
  <2>1. UNCHANGED service
    BY Zenon DEF MirrorReconcile, FindConfigMap, CreateConfigMap, ReplaceConfigMap,
          createDeployment, StoreVersion, mrest
  <2>2. Deployments' = Deployments /\ Deployments \subseteq Clusters
    BY <2>1, Zenon DEF Deployments
  <2>3. QED
    BY <2>1, <2>2, Fields, Zenon DEF Typed
<1>2. ASSUME NEW from, CompareVersions(from, cm'.version), Put(GetMirrorMakerProperties),
             UNCHANGED deployed
      PROVE  Rollout'
  <2>1. /\ cm' \in Maps /\ cm'.there /\ cm.version <= cm'.version
    BY <1>1, <1>2, PutMap, PropertiesAreFlows, Zenon
  <2>2. cm'.version \in Nat
    BY <2>1, Zenon DEF Maps
  <2>3. QED
    BY <1>1, <1>2, <2>1, <2>2, CompareRollout, Zenon DEF Rollout
<1>3. CASE FindConfigMap
  <2>1. CASE cm.there /\ service.configurator
    <3>1. CompareVersions("idle", cm'.version) /\ cm' = cm /\ UNCHANGED deployed
      BY <1>3, <2>1, Zenon DEF FindConfigMap
    <3>2. cm.version <= cm'.version
      BY <1>1, <3>1
    <3>3. QED
      BY <1>1, <2>1, <3>1, <3>2, CompareRollout, Zenon DEF Rollout
  <2>2. CASE ~(cm.there /\ service.configurator)
    BY <1>1, <1>3, <2>2, Zenon DEF FindConfigMap, MStep, Rollout
  <2>3. QED
    BY <2>1, <2>2, Zenon
<1>4. CASE CreateConfigMap
  BY <1>2, <1>4, Zenon DEF CreateConfigMap
<1>5. CASE ReplaceConfigMap
  <2>1. CASE mpc' = "idle" /\ mqueued' = TRUE /\ UNCHANGED <<cm, mseen, deployed>>
    BY <1>1, <2>1, Zenon DEF Rollout
  <2>2. CASE ~(mpc' = "idle" /\ mqueued' = TRUE /\ UNCHANGED <<cm, mseen, deployed>>)
    BY <1>2, <1>5, <2>2, Zenon DEF ReplaceConfigMap, MStep
  <2>3. QED
    BY <2>1, <2>2, Zenon
<1>6. CASE createDeployment
  <2>1. PICK c \in mrun.pending :
            /\ mpc = "deploy" /\ mpc' = "deploy"
            /\ mrun' = [mrun EXCEPT !.pending = @ \ {c}]
            /\ deployed' = [deployed EXCEPT ![c] = mrun.version]
    BY <1>6, Zenon DEF createDeployment, MStep
  <2>2. UNCHANGED <<cm, mqueued, mseen>>
    BY <1>6, Zenon DEF createDeployment
  <2>3. mrun'.version = mrun.version /\ mrun'.pending = mrun.pending \ {c} /\ c \in Clusters
    BY <1>1, <2>1, Zenon
  <2>4. /\ deployed'[c] = mrun.version
        /\ \A d \in Clusters \ {c} : deployed'[d] = deployed[d]
    BY <1>1, <2>1, <2>3, Zenon
  <2>5. mseen # cm.version
    <3>1. mseen < mrun.version /\ mrun.version <= cm.version
      BY <2>1, Zenon DEF Rollout, Versions
    <3>2. QED
      BY <3>1, Numbers
  <2>6. \A d \in Deployments \ mrun'.pending : deployed'[d] = mrun'.version
    BY <1>1, <2>1, <2>3, <2>4, Zenon DEF Rollout
  <2>7. QED
    BY <1>1, <2>1, <2>2, <2>3, <2>5, <2>6, Zenon DEF Rollout
<1>7. CASE StoreVersion
  <2>1. /\ mpc = "deploy" /\ mpc' = "idle" /\ mrun.pending = {}
        /\ mseen' = mrun.version /\ UNCHANGED <<cm, mqueued, deployed>>
    BY <1>7, Zenon DEF StoreVersion, MStep
  <2>2. QED
    BY <1>1, <2>1, Zenon DEF Rollout
<1>8. QED
  BY <1>3, <1>4, <1>5, <1>6, <1>7, Zenon DEF MirrorReconcile

\* The versions keep their worth in every reachable state.
LEMMA RolloutInvariant ==
    Spec => []Rollout
<1>1. Init => Rollout
  <2> SUFFICES ASSUME Init PROVE Rollout
    BY Zenon
  <2>1. cm.version = 0
    BY Zenon DEF Init
  <2>2. Deployments \subseteq Clusters
    BY Zenon DEF Deployments
  <2>3. QED
    BY <2>1, <2>2, Zenon DEF Init, Rollout
<1>2. MInv /\ Rollout /\ [Next]_vars => Rollout'
  <2> SUFFICES ASSUME MInv, Rollout, [Next]_vars PROVE Rollout'
    BY Zenon
  <2>1. Typed /\ Versions /\ Writers
    BY Zenon DEF MInv
  <2>2. CASE \/ \E k \in Configs :
                   EditConfig(k) \/ DeleteConfig(k) \/ KmmReconcile(k) \/ KmmFails(k)
             \/ DeleteMap \/ EditMap \/ UNCHANGED vars
    BY <2>1, <2>2, OthersQueue, MapQueuesRollout, Zenon
  <2>3. CASE MirrorReconcile
    BY <2>1, <2>3, MirrorRollout, Zenon
  <2>4. CASE MirrorFails
    <3>1. Deployments' = Deployments
      BY <2>4, Zenon DEF MirrorFails, Deployments
    <3>2. QED
      BY <2>4, <3>1, Zenon DEF MirrorFails, Rollout
  <2>5. CASE Crash
    <3>1. Deployments' = Deployments /\ Deployments \subseteq Clusters
      BY <2>5, Zenon DEF Crash, Deployments
    <3>2. /\ mpc' = "idle" /\ mqueued' = TRUE /\ mseen' = 0
          /\ UNCHANGED <<cm, deployed>>
      BY <2>5, Zenon DEF Crash
    <3>3. cm.version = 0 => \A c \in Clusters : deployed[c] = 0
      BY <2>1, Numbers DEF Versions
    <3>4. QED
      BY <3>1, <3>2, <3>3, Zenon DEF Rollout
  <2>6. QED
    BY <2>2, <2>3, <2>4, <2>5, Zenon DEF Next, Clients
<1>3. QED
  BY <1>1, <1>2, MirrorInvariant, PTL DEF Spec

\* Whenever the KafkaService worker rests, the map is there and all deployments
\* of Mirror Maker have its version: ReconcileMirrorMaker misses no change, by
\* any writer, in any order and with any number of failures and crashes.
THEOREM RolledOutAtRestThm ==
    Spec => []RolledOutAtRest
<1>1. Rollout => RolledOutAtRest
  BY Zenon DEF Rollout, RolledOutAtRest
<1>2. QED
  BY <1>1, RolloutInvariant, PTL

\* Every variable keeps its type, every transformation in a list is defined, and
\* no version was deployed, seen or read that the map has not had.
THEOREM MirrorTypes ==
    Spec => []TypeOK
<1>1. ASSUME MInv PROVE TypeOK
  <2>1. Typed /\ Versions
    BY <1>1, Zenon DEF MInv
  <2>2. /\ mrun.version \in 0..cm.version /\ mseen \in 0..cm.version
        /\ \A c \in Clusters : deployed[c] \in 0..cm.version
        /\ \A k \in Configs : run[k].version \in 0..cm.version
    BY <2>1, Numbers DEF Versions
  <2>3. mrun \in [version : 0..cm.version, pending : SUBSET Clusters]
    BY <2>1, <2>2, Zenon DEF Typed
  <2>4. deployed \in [Clusters -> 0..cm.version]
    BY <2>1, <2>2, Zenon DEF Typed
  <2>5. \A p \in Flows : cm.flows[p] \in FlowSet
    BY <2>1, Fields, Zenon
  <2>6. \A k \in Configs :
            /\ kmm[k] \in [there : BOOLEAN, spec : Kinds, generation : 0..MaxEdits,
                           processed : BOOLEAN, problem : BOOLEAN]
            /\ pc[k] \in {"idle", "update", "status"}
            /\ \A p \in Flows : run[k].flows[p] \in FlowSet
    <3>1. ASSUME NEW k \in Configs PROVE kmm[k] \in Resources /\ run[k].flows \in [Flows -> FlowSet]
      BY <2>1, FieldsOf, Zenon
    <3>2. ASSUME NEW k \in Configs PROVE pc[k] \in {"idle", "update", "status"}
      BY <2>1, Zenon DEF Typed
    <3>3. ASSUME NEW k \in Configs, NEW p \in Flows PROVE run[k].flows[p] \in FlowSet
      BY <3>1, Zenon
    <3>4. QED
      BY <3>1, <3>2, <3>3, Zenon DEF Resources
  <2>7. QED
    BY <2>1, <2>2, <2>3, <2>4, <2>5, <2>6, Fields, Zenon DEF TypeOK, Typed
<1>2. QED
  BY <1>1, MirrorInvariant, PTL

\* A KmmConfig that is not queued was reported as processed by updateCrStatus,
\* and what it says is in the map, in every flow that nobody has touched,
\* whatever the other KmmConfigs and the KafkaService have written since.
THEOREM ProcessedMeansMergedThm ==
    Spec => []ProcessedMeansMerged
<1>1. MInv /\ AllSettled => ProcessedMeansMerged
  BY Zenon DEF MInv, Mine, InMap, Done, Has, AllSettled, Settled, ProcessedMeansMerged
<1>2. QED
  BY <1>1, MirrorInvariant, NobodyForgotten, PTL

\* No step of any writer takes a topic from a flow that nobody has touched, or a
\* transformation from a resource that is not being processed.
THEOREM NothingTakenThm ==
    Spec => NothingTaken
<1>1. ASSUME MInv, [Next]_vars
      PROVE  [\A p \in Flows \ touched' : \A k \in Configs :
                /\ cm.flows[p].topics \subseteq cm'.flows[p].topics
                /\ pc[k] = "idle"
                   => /\ cm'.flows[p].defs[k] = cm.flows[p].defs[k]
                      /\ k \in cm.flows[p].names => k \in cm'.flows[p].names]_vars
  <2>1. Kept
    BY <1>1, WritersStep, Zenon DEF MInv, Mine
  <2>2. QED
    BY <2>1, Zenon DEF Kept
<1>2. QED
  BY <1>1, MirrorInvariant, PTL DEF Spec, NothingTaken

=============================================================================
