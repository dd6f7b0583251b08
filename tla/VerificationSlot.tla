---------------------------- MODULE VerificationSlot --------------------------
(* What the dashboard promises its clients about verification jobs, without its  *)
(* threads, its lock and its bookkeeping: one slot, taken by one job at a time   *)
(* until the job ends; a bounded memory of the jobs that ended last; and a slot  *)
(* that closes for good.  JobManager implements it.                              *)
EXTENDS Naturals, FiniteSets

CONSTANTS Jobs,   \* the jobs, numbered in the order in which they are started
          Limit   \* how many ended jobs are remembered

VARIABLES view,    \* [Jobs -> what a client can learn of the job]
          closed,  \* no further job is started
          stopped  \* the slot is closed and empty, for good

slotVars == <<view, closed, stopped>>

Ended == {"COMPLETED", "FAILED"}
Running == {j \in Jobs : view[j] = "RUNNING"}
Remembered == {j \in Jobs : view[j] \in Ended}

Init == view = [j \in Jobs |-> "NEW"] /\ closed = FALSE /\ stopped = FALSE

\* The slot is free and a job later than all others takes it.
Start(j) ==
  /\ ~closed
  /\ Running = {}
  /\ view[j] = "NEW"
  /\ \A k \in Jobs : k > j => view[k] = "NEW"
  /\ view' = [view EXCEPT ![j] = "RUNNING"]
  /\ UNCHANGED <<closed, stopped>>

\* The job ends and frees the slot in one step.  No more than Limit are remembered,
\* and only a job after which Limit others have ended is forgotten.
End(j) ==
  /\ view[j] = "RUNNING"
  /\ \E status \in Ended, forgotten \in SUBSET Remembered :
       /\ Cardinality(Remembered \ forgotten) < Limit
       /\ \A f \in forgotten :
            Cardinality({k \in Remembered \cup {j} : k > f}) >= Limit
       /\ view' = [k \in Jobs |-> IF k = j THEN status
                                  ELSE IF k \in forgotten THEN "GONE" ELSE view[k]]
  /\ UNCHANGED <<closed, stopped>>

Close ==
  /\ ~closed
  /\ closed' = TRUE
  /\ stopped' \in {FALSE, Running = {}}
  /\ UNCHANGED view

Stop ==
  /\ closed /\ ~stopped
  /\ Running = {}
  /\ stopped' = TRUE
  /\ UNCHANGED <<view, closed>>

Next == Close \/ Stop \/ \E j \in Jobs : Start(j) \/ End(j)

Safety == Init /\ [][Next]_slotVars

\* A job does not hold the slot for ever.
Spec == Safety /\ \A j \in Jobs : WF_slotVars(End(j))
===============================================================================
