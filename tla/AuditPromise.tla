---------------------------- MODULE AuditPromise ----------------------------
(***************************************************************************)
(* What a switchover may expect of the replication audit                   *)
(* (KafkaReplicationAuditor.CheckFullReplication), whatever its goroutines *)
(* do.  ReplicationAuditor implements it, DRSwitchover is built on it.     *)
(***************************************************************************)
VARIABLES
    lag,      \* the standby side lacks messages that the active side had
    excused,  \* the audit could not see the lag
    verdict   \* its answer

promise == <<lag, excused, verdict>>

\* A timeout is the answer (false, nil); a panic takes the operator down.
Answers == {"passed", "failed", "timeout", "crashed"}

\* A lag stops the audit from passing, unless it could not be seen.
MayPass == lag => excused

Init == lag \in BOOLEAN /\ excused \in BOOLEAN /\ verdict = "none"

\* Mirror Maker catches up, clients write, retention deletes.
World ==
    /\ lag' \in BOOLEAN
    /\ excused' \in BOOLEAN /\ (excused => excused')
    /\ UNCHANGED verdict

\* There is one answer, and it is not revised.
Answer ==
    /\ verdict = "none"
    /\ verdict' \in Answers
    /\ verdict' = "passed" => MayPass
    /\ UNCHANGED <<lag, excused>>

Next == World \/ Answer

\* The ticker of CheckFullReplication sees to it that there is an answer.
Spec == Init /\ [][Next]_promise /\ WF_promise(Answer)
=============================================================================
