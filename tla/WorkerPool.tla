----------------------------- MODULE WorkerPool -----------------------------
(***************************************************************************)
(* The process of the operator: main starts a goroutine for every enabled  *)
(* job and API group, which builds a manager, runs it and restarts it when *)
(* it ends; too many failures of one job stop all.  With leader election a *)
(* manager works only while it holds its lease.                            *)
(*                                                                         *)
(* Time is abstracted to whether restartResetAfter has passed since the    *)
(* counting of failures began; the length of the backoff is left out.      *)
(***************************************************************************)
EXTENDS Naturals

CONSTANTS
    MaxConsecutiveRestarts,  \* maxConsecutiveRestarts, 5 in NewPool
    Chosen,                  \* sets of options the chart sets
    MaxHours                 \* bound on the times restartResetAfter passes

Options == {"kafkaMode", "kafkaserviceMode", "watchAkhqCollectNamespace",
            "kmmEnabled", "watchKafkaUsersCollectNamespace",
            "secondaryApiGroup", "leaderElect"}

ASSUME PoolAssumption ==
    /\ MaxConsecutiveRestarts \in Nat \ {0}
    /\ Chosen \subseteq SUBSET Options
    /\ MaxHours \in Nat

VARIABLES
    opts,         \* cfg.Cfg: the options that are set
    at,           \* where the goroutine of a launch is
    consecFails,  \* its failures
    aged,         \* restartResetAfter has passed since its lastFail
    stopped,      \* the context is cancelled
    main,         \* where main is
    lease,        \* holder of every lease
    hours,
    signalled,    \* history: a signal was received
    errors,       \* history: errors of a job since its lastFail
    broken        \* history: the launches whose manager could not be built

poolVars == <<opts, at, consecFails, aged, stopped, main, lease, hours, signalled,
              errors, broken>>

-----------------------------------------------------------------------------
(* Jobs *)

Jobs == {"kafka", "akhq", "kmm", "kafkaUser"}

Groups == {"main", "secondary"}

KafkaEnabled(o) == o \cap {"kafkaMode", "kafkaserviceMode"} # {}

AkhqEnabled(o) == {"kafkaserviceMode", "watchAkhqCollectNamespace"} \subseteq o

KmmEnabled(o) == {"kafkaserviceMode", "kmmEnabled"} \subseteq o

KafkaUserEnabled(o) ==
    {"kafkaserviceMode", "watchKafkaUsersCollectNamespace"} \subseteq o

Enabled(j, o) ==
    CASE j = "kafka" -> KafkaEnabled(o) [] j = "akhq" -> AkhqEnabled(o)
      [] j = "kmm" -> KmmEnabled(o) [] OTHER -> KafkaUserEnabled(o)

\* What Start launches: only the manager of KafkaService is not duplicated.
Launched(o) ==
    {l \in Jobs \X Groups :
        /\ Enabled(l[1], o)
        /\ l[2] = "secondary" => "secondaryApiGroup" \in o /\ l[1] # "kafka"}

Launches == UNION {Launched(o) : o \in Chosen}

\* Build makes a manager with its controller and its probes; each of the calls
\* may fail, in the first attempt or in a later one.  KafkaService has no manager
\* for another group.
KafkaBuild(g) == IF g = "main" THEN {"run", "ended"} ELSE {"ended"}

AkhqBuild(g) == {"run", "ended"}

KmmBuild(g) == {"run", "ended"}

KafkaUserBuild(g) == {"run", "ended"}

BuildOf(l) ==
    CASE l[1] = "kafka" -> KafkaBuild(l[2]) [] l[1] = "akhq" -> AkhqBuild(l[2])
      [] l[1] = "kmm" -> KmmBuild(l[2]) [] OTHER -> KafkaUserBuild(l[2])

\* How the managers of a job end without being told to: with an error, or
\* without one.  The manager of KafkaService makes an error of the latter.
KafkaExec == {"error"}

AkhqExec == {"error", "none"}

KmmExec == {"error", "none"}

KafkaUserExec == {"error", "none"}

Exec(j) ==
    CASE j = "kafka" -> KafkaExec [] j = "akhq" -> AkhqExec
      [] j = "kmm" -> KmmExec [] OTHER -> KafkaUserExec

\* LeaderElectionID: the managers of AkhqConfig share one.
KafkaElection(g) == <<"kafka", g>>

AkhqElection(g) == <<"akhq", "main">>

KmmElection(g) == <<"kmm", g>>

KafkaUserElection(g) == <<"kafkaUser", g>>

Election(l) ==
    CASE l[1] = "kafka" -> KafkaElection(l[2])
      [] l[1] = "akhq" -> AkhqElection(l[2])
      [] l[1] = "kmm" -> KmmElection(l[2])
      [] OTHER -> KafkaUserElection(l[2])

\* States of a lease that nobody holds.
Free == <<>>

Expiring == <<"expiring">>

Leads(l) == at[l] = "run" /\ ("leaderElect" \in opts => lease[Election(l)] = l)

-----------------------------------------------------------------------------
(* launchJob *)

rest == <<opts, stopped, main, lease, hours, signalled>>

ending == <<opts, main, hours, signalled, broken>>

fails == <<consecFails, aged, errors>>

Go(l, to) == at' = [at EXCEPT ![l] = to]

\* The goroutine ends when the context has, else it builds the manager.  One
\* that cannot be built ends the goroutine, not the operator.
Build(l) ==
    /\ at[l] = "build"
    /\ IF stopped
       THEN Go(l, "ended") /\ UNCHANGED broken
       ELSE \E to \in BuildOf(l) :
               /\ Go(l, to)
               /\ broken' = IF to = "ended" THEN broken \union {l} ELSE broken
    /\ UNCHANGED <<rest, fails>>

\* The lease of a manager that ends is not released, it expires.
Leave(l) ==
    lease' = [e \in Launches |-> IF lease[e] = l THEN Expiring ELSE lease[e]]

\* A manager ends with an error or without.  After restartResetAfter a new
\* window begins, in which this end is the first failure, error or not.
RunEndsBy(l, err, count, reset, limit) ==
    LET sum == consecFails[l] + count
        n == IF aged[l] THEN reset ELSE sum
        new == IF err = "error" THEN 1 ELSE 0
    IN  /\ at[l] = "run" /\ err \in Exec(l[1]) /\ ~stopped
        /\ Leave(l)
        /\ consecFails' = [consecFails EXCEPT ![l] = n]
        /\ aged' = [aged EXCEPT ![l] = FALSE]
        /\ errors' = [errors EXCEPT ![l] = IF aged[l] THEN new ELSE @ + new]
        /\ IF n >= limit THEN Go(l, "ended") /\ stopped' = TRUE
           ELSE Go(l, "sleep") /\ UNCHANGED stopped
        /\ UNCHANGED ending

\* Variant: a new window starts with nothing.
RunEndsFromZero(l, err) ==
    RunEndsBy(l, err, IF err = "error" THEN 1 ELSE 0, 0, MaxConsecutiveRestarts)

\* An end without an error is not counted.
RunEnds(l, err) ==
    RunEndsBy(l, err, IF err = "error" THEN 1 ELSE 0, 1, MaxConsecutiveRestarts)

\* A manager ends because the context has.
RunCancelled(l) ==
    /\ at[l] = "run" /\ stopped
    /\ Go(l, "ended") /\ Leave(l)
    /\ UNCHANGED <<ending, fails, stopped>>

\* Variant: the goroutine ends with its manager.
SleepForGood(l) ==
    /\ at[l] = "sleep"
    /\ Go(l, "ended")
    /\ UNCHANGED <<rest, fails, broken>>

\* The backoff is over, or the context is.
Sleep(l) ==
    /\ at[l] = "sleep"
    /\ Go(l, IF stopped THEN "ended" ELSE "build")
    /\ UNCHANGED <<rest, fails, broken>>

Goroutine(l) ==
    Build(l) \/ RunCancelled(l) \/ Sleep(l)

-----------------------------------------------------------------------------
(* main, and what surrounds it *)

Over == \A l \in Launches : at[l] \in {"off", "ended"}

\* main waits for the context or for the pool, then for the pool in any case.
Main ==
    /\ main = "wait" /\ Over
    /\ main' = "exited"
    /\ UNCHANGED <<opts, at, fails, stopped, lease, hours, signalled, broken>>

Signal ==
    /\ ~stopped /\ main = "wait"
    /\ stopped' = TRUE /\ signalled' = TRUE
    /\ UNCHANGED <<opts, at, fails, main, lease, hours, broken>>

HourPasses(l) ==
    /\ hours < MaxHours /\ hours' = hours + 1
    /\ at[l] \notin {"off", "ended"} /\ ~stopped /\ ~aged[l]
    /\ aged' = [aged EXCEPT ![l] = TRUE]
    /\ UNCHANGED <<opts, at, consecFails, stopped, main, lease, signalled, errors,
                   broken>>

Acquire(l) ==
    /\ "leaderElect" \in opts /\ at[l] = "run" /\ ~stopped
    /\ lease[Election(l)] = Free
    /\ lease' = [lease EXCEPT ![Election(l)] = l]
    /\ UNCHANGED <<ending, at, fails, stopped>>

Expire(e) ==
    /\ lease[e] = Expiring /\ ~stopped
    /\ lease' = [lease EXCEPT ![e] = Free]
    /\ UNCHANGED <<ending, at, fails, stopped>>

PoolInit ==
    /\ opts \in Chosen
    /\ at = [l \in Launches |-> IF l \in Launched(opts) THEN "build" ELSE "off"]
    /\ consecFails = [l \in Launches |-> 0] /\ errors = [l \in Launches |-> 0]
    /\ aged = [l \in Launches |-> FALSE]
    /\ stopped = FALSE /\ main = "wait" /\ hours = 0 /\ signalled = FALSE
    /\ lease = [e \in Launches |-> Free] /\ broken = {}

PoolNext ==
    \/ \E l \in Launches :
          \/ Goroutine(l) \/ HourPasses(l) \/ Acquire(l)
          \/ \E err \in {"error", "none"} : RunEnds(l, err)
    \/ \E e \in Launches : Expire(e)
    \/ Main \/ Signal

PoolSpec == PoolInit /\ [][PoolNext]_poolVars

\* Goroutines and managers go on, leases expire and are taken.  That a manager
\* ends is no matter of course before the context does.
Fairness ==
    /\ \A l \in Launches :
          WF_poolVars(Goroutine(l)) /\ WF_poolVars(Acquire(l) \/ Expire(Election(l)))
    /\ WF_poolVars(Main)

PoolFairSpec == PoolSpec /\ Fairness

-----------------------------------------------------------------------------
(* Properties *)

Places == {"off", "build", "run", "sleep", "ended"}

\* Types of the goroutines, their counters and the flags of the process.
PoolTypeOK ==
    /\ at \in [Launches -> Places] /\ consecFails \in [Launches -> Nat]
    /\ errors \in [Launches -> Nat] /\ aged \in [Launches -> BOOLEAN]
    /\ stopped \in BOOLEAN /\ signalled \in BOOLEAN /\ main \in {"wait", "exited"}
    /\ broken \subseteq Launches

\* The pool stops the operator only for a job that failed often enough in one
\* window, whatever other jobs did and however ends without an error, the reset
\* after restartResetAfter and signals come in between.  One failure fewer is
\* enough after a window that an end without an error has started.
StopsForAReason ==
    stopped /\ ~signalled =>
        \E l \in Launches :
            at[l] = "ended" /\ errors[l] + 1 >= MaxConsecutiveRestarts

\* A manager is not started again once it has failed maxConsecutiveRestarts
\* times in one window.
NoRunAfterTooManyErrors ==
    \A l \in Launches :
        at[l] \in {"build", "run", "sleep"}
            => errors[l] < MaxConsecutiveRestarts

\* The limit of failures is exact: the operator stops for it, for nothing less,
\* and no job goes on beyond it.
StopsAtTheLimit == StopsForAReason /\ NoRunAfterTooManyErrors

\* A manager that runs is up, one that is built or waits for it is down.
Supervisor == INSTANCE JobSupervisor
    WITH job <- [l \in Launches |->
                    CASE at[l] \in {"off", "ended"} -> at[l]
                      [] at[l] = "run" -> "up"
                      [] OTHER -> "down"],
         stopping <- stopped,
         exited <- main = "exited"

\* The goroutines of the pool supervise their managers as JobSupervisor says:
\* one that ends is built and run again, however it ended, unless the context is
\* cancelled, it failed too often or Build returns an error.
JobsSupervised == Supervisor!Spec

\* A manager that is enabled is run again and again as long as the operator is.
NoneLeftOut ==
    \A l \in Launches :
        []<>(at[l] \in {"off", "run"} \/ stopped \/ main = "exited")

\* "The `secondaryApiGroup` parameter was added to enable listening to several
\* API groups with the same CR type": a manager that stays up gets to work,
\* with leader election as without.
GroupsServed ==
    \A l \in Launches : <>[](at[l] = "run") => <>Leads(l)
=============================================================================
