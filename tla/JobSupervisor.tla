--------------------------- MODULE JobSupervisor ----------------------------
(***************************************************************************)
(* What the operator promises about its managers, each of which is run as  *)
(* a job: one that stops is started again unless the operator is stopping, *)
(* the job fails too often, which stops the operator, or it breaks, which  *)
(* is remembered; and an operator that stops comes to an end.  WorkerPool  *)
(* implements it.                                                          *)
(***************************************************************************)
CONSTANT Launches   \* the jobs, one for each API group they may serve

VARIABLES
    job,       \* "off" (not enabled), "down", "up" or "ended"
    broken,    \* the jobs that could not be built
    stopping,  \* the operator was told to stop
    exited     \* the process is over

supervised == <<job, broken, stopping, exited>>

Init ==
    /\ job \in [Launches -> {"off", "down"}]
    /\ broken = {} /\ stopping = FALSE /\ exited = FALSE

Up(l) ==
    /\ job[l] = "down"
    /\ job' = [job EXCEPT ![l] = "up"]
    /\ UNCHANGED <<broken, stopping, exited>>

Down(l) ==
    /\ job[l] = "up" /\ ~stopping
    /\ job' = [job EXCEPT ![l] = "down"]
    /\ UNCHANGED <<broken, stopping, exited>>

\* A job ends with the operator,
End(l) ==
    /\ stopping /\ job[l] \in {"down", "up"}
    /\ job' = [job EXCEPT ![l] = "ended"]
    /\ UNCHANGED <<broken, stopping, exited>>

\* or because it cannot be built,
Break(l) ==
    /\ ~stopping /\ job[l] = "down"
    /\ job' = [job EXCEPT ![l] = "ended"]
    /\ broken' = broken \union {l}
    /\ UNCHANGED <<stopping, exited>>

\* or it is given up, and everything with it.
GiveUp(l) ==
    /\ job[l] = "up" /\ ~stopping
    /\ job' = [job EXCEPT ![l] = "ended"]
    /\ stopping' = TRUE
    /\ UNCHANGED <<broken, exited>>

Stop ==
    /\ ~exited
    /\ stopping' = TRUE
    /\ UNCHANGED <<job, broken, exited>>

Exit ==
    /\ \A l \in Launches : job[l] \in {"off", "ended"}
    /\ exited' = TRUE
    /\ UNCHANGED <<job, broken, stopping>>

Next ==
    \/ \E l \in Launches : Up(l) \/ Down(l) \/ End(l) \/ Break(l) \/ GiveUp(l)
    \/ Stop \/ Exit

\* No job stays down, none stays up in an operator that stops.
Fairness ==
    /\ \A l \in Launches :
          WF_supervised(job[l] = "down" /\ (Up(l) \/ Break(l))) /\ WF_supervised(End(l))
    /\ WF_supervised(Exit)

Spec == Init /\ [][Next]_supervised /\ Fairness
=============================================================================
