--------------------------- MODULE JobManagerProofs ---------------------------
(***************************************************************************)
(* Proofs about JobManager, for every history limit and every number of    *)
(* jobs.                                                                   *)
(***************************************************************************)
EXTENDS JobManager, FiniteSetTheorems, TLAPS

\* The constants of the records and of the program counters.
LEMMA NoneIsNoJobId == None \notin JobIds /\ None \notin Outcomes
  BY JobConstants DEF JobIds

-------------------------------------------------------------------------------
(* What one assignment to a thread's locals does. *)

\* A thread that raised is at its handler with its code, and keeps its outcome.
LEMMA FailWithEffect ==
  ASSUME TypeOK, NEW j \in JobIds, NEW c \in ErrorCodes, FailWith(j, c)
  PROVE  /\ thread' \in [JobIds -> Threads]
         /\ thread'[j].pc = "fail" /\ thread'[j].code = c
         /\ thread'[j].outcome = thread[j].outcome
         /\ \A k \in JobIds \ {j} : thread'[k] = thread[k]
<1> DEFINE t == [thread[j] EXCEPT !.pc = "fail", !.code = c]
<1>1. thread[j] \in Threads /\ thread \in [JobIds -> Threads]
  BY DEF TypeOK
<1>2. t \in Threads /\ t.pc = "fail" /\ t.code = c /\ t.outcome = thread[j].outcome
  BY <1>1 DEF Threads, Live
<1>3. thread' = [thread EXCEPT ![j] = t]
  BY DEF FailWith
<1> HIDE DEF t
<1> QED
  BY <1>1, <1>2, <1>3

\* A thread that got a bundle goes on to register it.
LEMMA GotBundleEffect ==
  ASSUME TypeOK, NEW j \in JobIds, NEW o \in Outcomes,
         thread' = [thread EXCEPT ![j] = [@ EXCEPT !.pc = "register", !.outcome = o]]
  PROVE  /\ thread' \in [JobIds -> Threads]
         /\ thread'[j].pc = "register" /\ thread'[j].outcome = o
         /\ \A k \in JobIds \ {j} : thread'[k] = thread[k]
<1> DEFINE t == [thread[j] EXCEPT !.pc = "register", !.outcome = o]
<1>1. thread[j] \in Threads /\ thread \in [JobIds -> Threads]
  BY DEF TypeOK
<1>2. t \in Threads /\ t.pc = "register" /\ t.outcome = o
  BY <1>1 DEF Threads, Live
<1>3. thread' = [thread EXCEPT ![j] = t]
  OBVIOUS
<1> HIDE DEF t
<1> QED
  BY <1>1, <1>2, <1>3

\* A step of the thread that only moves its program counter.
LEMMA GotoEffect ==
  ASSUME TypeOK, NEW j \in JobIds, NEW pc \in Live, Goto(j, pc)
  PROVE  /\ thread' \in [JobIds -> Threads]
         /\ thread'[j].pc = pc /\ thread'[j].outcome = thread[j].outcome
         /\ \A k \in JobIds \ {j} : thread'[k] = thread[k]
  BY DEF TypeOK, Threads, Goto

-------------------------------------------------------------------------------
(* The inductive core: types, the one active job, and the thread locals. *)

Core == TypeOK /\ OneActiveJob /\ ThreadsAgree

\* A finished job's thread has ended, and it is not the active job.
LEMMA FinishedHasExited ==
  ASSUME Core, NEW j \in JobIds, jobs[j].status \in Finished
  PROVE  thread[j].pc = "exited" /\ active # j
<1>1. jobs[j] # NoJob /\ jobs[j].status # "RUNNING"
  BY DEF NoJob, Finished
<1>2. thread[j].pc # "none" /\ thread[j].pc \notin Live /\ active # j
  BY <1>1 DEF Core, ThreadsAgree, OneActiveJob
<1> QED
  BY <1>2 DEF Core, TypeOK, Threads

\* The steps of _run_job before its last locked block leave the dict alone.
RunningStep(j) == Orchestrate(j) \/ RegisterLive(j) \/ PresentBundle(j)

LEMMA RunningStepEffect ==
  ASSUME Core, NEW j \in JobIds, RunningStep(j)
  PROVE  /\ active = j /\ UNCHANGED <<jobs, drawn, active, worker, shutting_down, shutdown,
                                       joined, seen>>
         /\ thread[j].pc \in Live /\ thread'[j].pc \in Live
         /\ \A k \in JobIds \ {j} : thread'[k] = thread[k] /\ registry'[k] = registry[k]
<1> USE DEF Core
<1>1. thread[j].pc \in Live /\ RestUnchanged
  BY DEF RunningStep, Orchestrate, RegisterLive, PresentBundle, Live
<1>2. active = j
  BY <1>1 DEF OneActiveJob
<1>3. \A k \in JobIds \ {j} : registry'[k] = registry[k]
  BY DEF RunningStep, Orchestrate, RegisterLive, PresentBundle, TypeOK
<1>4. /\ thread'[j].pc \in Live
      /\ \A k \in JobIds \ {j} : thread'[k] = thread[k]
  <2>1. CASE Orchestrate(j)
    BY <2>1, GotBundleEffect, FailWithEffect DEF Orchestrate, Live
  <2>2. CASE RegisterLive(j)
    BY <2>2, GotoEffect, FailWithEffect DEF RegisterLive, Live, ErrorCodes
  <2>3. CASE PresentBundle(j)
    BY <2>3, GotoEffect, FailWithEffect DEF PresentBundle, Live
  <2> QED
    BY <2>1, <2>2, <2>3 DEF RunningStep
<1> QED
  BY <1>1, <1>2, <1>3, <1>4 DEF RestUnchanged

\* The last locked block: the record is final, and the history is trimmed.
LEMMA FinishEffect ==
  ASSUME Core, NEW j \in JobIds, FinishCompleted(j) \/ finish_failed(j)
  PROVE  \E record \in Records :
           /\ record.status \in Finished
           /\ record.status = "COMPLETED" => registry[j] # None /\ record.result = registry[j]
           /\ jobs' = trim_finished([jobs EXCEPT ![j] = record])
           /\ thread[j].pc \in Live /\ active = j /\ active' = None /\ worker' = None
           /\ thread' = [thread EXCEPT ![j] = EndedThread]
           /\ UNCHANGED <<drawn, shutting_down, registry, shutdown, joined, seen>>
<1> USE NoneIsNoJobId DEF Core
<1>1. CASE FinishCompleted(j)
  <2> DEFINE record == [status |-> "COMPLETED", result |-> thread[j].outcome, error |-> None]
  <2>1. Finish(j, "complete", record)
    BY <1>1 DEF FinishCompleted
  <2>2. record \in Records /\ record.status \in Finished
    BY <2>1 DEF Finish, ThreadsAgree, Records, Finished
  <2>3. registry[j] # None /\ record.result = registry[j]
    BY <2>1 DEF Finish, ThreadsAgree
  <2>4. thread[j].pc \in Live /\ active = j
    BY <2>1 DEF Finish, OneActiveJob, Live
  <2> HIDE DEF record
  <2> QED
    BY <2>1, <2>2, <2>3, <2>4 DEF Finish
<1>2. CASE finish_failed(j)
  <2> DEFINE record == [status |-> "FAILED", result |-> None, error |-> thread[j].code]
  <2>1. Finish(j, "fail", record)
    BY <1>2 DEF finish_failed
  <2>2. record \in Records /\ record.status = "FAILED" /\ record.status \in Finished
    BY <2>1 DEF Finish, ThreadsAgree, Records, Finished
  <2>3. thread[j].pc \in Live /\ active = j
    BY <2>1 DEF Finish, OneActiveJob, Live
  <2> HIDE DEF record
  <2> QED
    BY <2>1, <2>2, <2>3 DEF Finish
<1> QED
  BY <1>1, <1>2
-------------------------------------------------------------------------------
(* The core holds. *)

LEMMA CoreInit == Init => Core
<1> SUFFICES ASSUME Init PROVE Core
  OBVIOUS
<1> USE NoneIsNoJobId, JobConstants
<1>1. TypeOK
  <2>1. jobs \in [JobIds -> Records]
    BY DEF Init, Records
  <2>2. thread \in [JobIds -> Threads]
    BY DEF Init, Threads, NoThread
  <2>3. seen \in [JobIds -> {"nothing", "404", "RUNNING"} \cup Finished]
    BY DEF Init
  <2>4. registry \in [JobIds -> Outcomes \cup {None}]
    BY DEF Init
  <2>5. drawn \in 0 .. MaxJobs
    BY DEF Init
  <2>6. shutting_down \in BOOLEAN
    BY DEF Init
  <2> QED
    BY <2>1, <2>2, <2>3, <2>4, <2>5, <2>6 DEF Init, TypeOK
<1>2. OneActiveJob
  BY DEF Init, OneActiveJob, NoThread, NoJob, Live
<1>3. ThreadsAgree
  BY DEF Init, ThreadsAgree, NoThread, NoJob
<1> QED
  BY <1>1, <1>2, <1>3 DEF Core

LEMMA CoreNext == Core /\ [Next]_vars => Core'
<1> SUFFICES ASSUME Core, [Next]_vars PROVE Core'
  OBVIOUS
<1> USE NoneIsNoJobId, JobConstants DEF Core
<1>1. CASE start_job
  <2>1. TypeOK'
    <3>1. jobs' \in [JobIds -> Records]
      BY <1>1 DEF start_job, TypeOK, Records
    <3>2. thread' \in [JobIds -> Threads]
      BY <1>1 DEF start_job, TypeOK, Threads, Live
    <3> QED
      BY <1>1, <3>1, <3>2 DEF start_job, TypeOK, JobIds
  <2>2. OneActiveJob'
    BY <1>1 DEF start_job, TypeOK, OneActiveJob, ThreadsAgree, NoJob, RunningJob, JobIds, Live
  <2>3. ThreadsAgree'
    BY <1>1 DEF start_job, TypeOK, OneActiveJob, ThreadsAgree, NoJob, RunningJob, JobIds, Live
  <2> QED
    BY <2>1, <2>2, <2>3
<1>2. CASE StartThreadFails
  <2>1. TypeOK'
    BY <1>2 DEF StartThreadFails, TypeOK, Records, NoJob, RunningJob, JobIds
  <2>2. OneActiveJob'
    BY <1>2 DEF StartThreadFails, TypeOK, OneActiveJob, ThreadsAgree, NoJob, RunningJob,
              JobIds, Live
  <2>3. ThreadsAgree'
    BY <1>2 DEF StartThreadFails, TypeOK, OneActiveJob, ThreadsAgree, NoJob, RunningJob,
              JobIds, Live
  <2> QED
    BY <2>1, <2>2, <2>3
<1>3. CASE \E j \in JobIds : get_job(j)
  <2> PICK j \in JobIds : get_job(j)
    BY <1>3
  <2>1. TypeOK'
    <3>1. seen' \in [JobIds -> {"nothing", "404", "RUNNING"} \cup Finished]
      BY DEF get_job, TypeOK, Records, NoJob, RunningJob, Finished
    <3> QED
      BY <3>1 DEF get_job, TypeOK
  <2> QED
    BY <2>1 DEF get_job, OneActiveJob, ThreadsAgree
<1>4. CASE \E j \in JobIds : Orchestrate(j)
  <2> PICK j \in JobIds : Orchestrate(j)
    BY <1>4
  <2>1. /\ thread' \in [JobIds -> Threads]
        /\ thread'[j].pc \in {"register", "fail"}
        /\ thread'[j].pc = "register" => thread'[j].outcome \in Outcomes
        /\ thread'[j].pc = "fail" => thread'[j].code \in ErrorCodes
        /\ \A k \in JobIds \ {j} : thread'[k] = thread[k]
    BY FailWithEffect, GotBundleEffect DEF Orchestrate
  <2>2. TypeOK'
    BY <2>1 DEF Orchestrate, RestUnchanged, TypeOK
  <2>3. OneActiveJob'
    BY <2>1 DEF Orchestrate, RestUnchanged, OneActiveJob, Live
  <2>4. ThreadsAgree'
    BY <2>1 DEF Orchestrate, RestUnchanged, ThreadsAgree, Live
  <2> QED
    BY <2>2, <2>3, <2>4
<1>5. CASE \E j \in JobIds : RegisterLive(j)
  <2> PICK j \in JobIds : RegisterLive(j)
    BY <1>5
  <2>1. /\ thread' \in [JobIds -> Threads]
        /\ registry' \in [JobIds -> Outcomes \cup {None}]
        /\ thread'[j].pc \in {"present", "fail"}
        /\ thread'[j].outcome = thread[j].outcome
        /\ thread'[j].pc = "present" => registry'[j] = thread[j].outcome
        /\ thread'[j].pc = "fail" => thread'[j].code \in ErrorCodes
        /\ \A k \in JobIds \ {j} : thread'[k] = thread[k] /\ registry'[k] = registry[k]
    <3>1. CASE FailWith(j, "VERIFICATION_START_FAILED") /\ UNCHANGED registry
      BY <3>1, FailWithEffect DEF TypeOK, ErrorCodes
    <3>2. CASE registry' = [registry EXCEPT ![j] = thread[j].outcome] /\ Goto(j, "present")
      BY <3>2, GotoEffect DEF TypeOK, Threads, Live
    <3> QED
      BY <3>1, <3>2 DEF RegisterLive
  <2>2. TypeOK'
    BY <2>1 DEF RegisterLive, RestUnchanged, TypeOK
  <2>3. OneActiveJob'
    BY <2>1 DEF RegisterLive, RestUnchanged, OneActiveJob, Live
  <2>4. ThreadsAgree'
    BY <2>1 DEF RegisterLive, RestUnchanged, ThreadsAgree, Live
  <2> QED
    BY <2>2, <2>3, <2>4
<1>6. CASE \E j \in JobIds : PresentBundle(j)
  <2> PICK j \in JobIds : PresentBundle(j)
    BY <1>6
  <2>1. /\ thread' \in [JobIds -> Threads]
        /\ thread'[j].pc \in {"complete", "fail"}
        /\ thread'[j].outcome = thread[j].outcome
        /\ thread'[j].pc = "fail" => thread'[j].code \in ErrorCodes
        /\ \A k \in JobIds \ {j} : thread'[k] = thread[k]
    BY FailWithEffect, GotoEffect DEF PresentBundle, Live
  <2>2. TypeOK'
    BY <2>1 DEF PresentBundle, RestUnchanged, TypeOK
  <2>3. OneActiveJob'
    BY <2>1 DEF PresentBundle, RestUnchanged, OneActiveJob, Live
  <2>4. ThreadsAgree'
    BY <2>1 DEF PresentBundle, RestUnchanged, ThreadsAgree, Live
  <2> QED
    BY <2>2, <2>3, <2>4
<1>7. CASE \E j \in JobIds : FinishCompleted(j) \/ finish_failed(j)
  <2> PICK j \in JobIds : FinishCompleted(j) \/ finish_failed(j)
    BY <1>7
  <2>1. PICK record \in Records :
           /\ record.status \in Finished
           /\ jobs' = trim_finished([jobs EXCEPT ![j] = record])
           /\ thread[j].pc \in Live /\ active = j /\ active' = None /\ worker' = None
           /\ thread' = [thread EXCEPT ![j] = EndedThread]
           /\ UNCHANGED <<drawn, shutting_down, registry, shutdown, joined, seen>>
    BY FinishEffect
  <2>2. /\ jobs' \in [JobIds -> Records]
        /\ jobs'[j] \in {NoJob, record}
        /\ \A k \in JobIds \ {j} : jobs'[k] \in {NoJob, jobs[k]}
    BY <2>1 DEF trim_finished, TypeOK, Records
  <2>3. /\ thread' \in [JobIds -> Threads]
        /\ thread'[j] = EndedThread
        /\ \A k \in JobIds \ {j} : thread'[k] = thread[k]
    BY <2>1 DEF EndedThread, TypeOK, Threads
  <2>4. TypeOK'
    BY <2>1, <2>2, <2>3 DEF TypeOK
  <2>5. OneActiveJob'
    <3>1. NoJob.status # "RUNNING" /\ record.status # "RUNNING"
      BY <2>1 DEF NoJob, Finished
    <3>2. ASSUME NEW k \in JobIds PROVE jobs'[k].status # "RUNNING"
      BY <2>1, <2>2, <3>1 DEF OneActiveJob
    <3>3. ASSUME NEW k \in JobIds PROVE thread'[k].pc \notin Live
      BY <2>1, <2>3 DEF OneActiveJob, EndedThread, Live
    <3> QED
      BY <2>1, <3>2, <3>3 DEF OneActiveJob
  <2>6. ThreadsAgree'
    BY <2>1, <2>2, <2>3 DEF ThreadsAgree, EndedThread, Live
  <2> QED
    BY <2>4, <2>5, <2>6
<1>8. CASE BeginShutdown \/ JoinReturns
  BY <1>8 DEF BeginShutdown, JoinReturns, TypeOK, OneActiveJob, ThreadsAgree
<1>9. CASE UNCHANGED vars
  BY <1>9 DEF vars, TypeOK, OneActiveJob, ThreadsAgree
<1> QED
  BY <1>1, <1>2, <1>3, <1>4, <1>5, <1>6, <1>7, <1>8, <1>9 DEF Next, run_job

LEMMA CoreAlways == Spec => []Core
  BY CoreInit, CoreNext, PTL DEF Spec

\* _JobRecord, the dict and the threads stay well typed, for any history limit.
THEOREM TypeCorrect == Spec => []TypeOK
  BY CoreAlways, PTL DEF Core

\* start_job, the rollback of a thread that did not start, and the two locked blocks
\* that finish a job keep exactly one orchestrator running, and known as active.
THEOREM OneActiveJobAlways == Spec => []OneActiveJob
  BY CoreAlways, PTL DEF Core

-------------------------------------------------------------------------------
(* The steps by their effect on one job, for the invariants built on the core. *)

\* Every step either leaves a job's record, thread and registered bundle as they
\* are, or starts the job, or moves its running thread, or finishes or drops it.
LEMMA StepOnJob ==
  ASSUME Core, Next, NEW j \in JobIds
  PROVE  \/ jobs'[j] = jobs[j] /\ thread'[j] = thread[j] /\ registry'[j] = registry[j]
         \/ /\ thread[j].pc = "none" /\ thread'[j].pc \notin {"none", "exited"}
            /\ jobs'[j] = RunningJob
         \/ /\ thread[j].pc \in Live /\ thread'[j].pc \in Live /\ jobs'[j] = jobs[j]
         \/ /\ thread[j].pc \in Live /\ thread'[j].pc = "exited"
            /\ registry'[j] = registry[j]
            /\ jobs'[j].status = "COMPLETED" =>
                 registry[j] # None /\ jobs'[j].result = registry[j]
         \/ /\ thread[j].pc = "exited" /\ thread'[j] = thread[j]
            /\ jobs'[j] = NoJob /\ registry'[j] = registry[j]
<1> USE NoneIsNoJobId, JobConstants DEF Core
<1>1. CASE start_job
  BY <1>1 DEF start_job, TypeOK, OneActiveJob, ThreadsAgree, JobIds, Threads, Live
<1>2. CASE StartThreadFails
  <2>1. jobs'[j] = jobs[j]
    BY <1>2 DEF StartThreadFails, TypeOK, ThreadsAgree, Threads, JobIds
  <2> QED
    BY <1>2, <2>1 DEF StartThreadFails
<1>3. CASE \E i \in JobIds : get_job(i)
  BY <1>3 DEF get_job
<1>4. CASE \E i \in JobIds : RunningStep(i)
  <2> PICK i \in JobIds : RunningStep(i)
    BY <1>4
  <2> QED
    BY RunningStepEffect
<1>5. CASE \E i \in JobIds : FinishCompleted(i) \/ finish_failed(i)
  <2> PICK i \in JobIds : FinishCompleted(i) \/ finish_failed(i)
    BY <1>5
  <2>1. PICK record \in Records :
           /\ record.status \in Finished
           /\ record.status = "COMPLETED" => registry[i] # None /\ record.result = registry[i]
           /\ jobs' = trim_finished([jobs EXCEPT ![i] = record])
           /\ thread[i].pc \in Live /\ active = i /\ active' = None /\ worker' = None
           /\ thread' = [thread EXCEPT ![i] = EndedThread]
           /\ UNCHANGED <<drawn, shutting_down, registry, shutdown, joined, seen>>
    BY FinishEffect
  <2>2. CASE i = j
    <3>1. jobs'[j] \in {NoJob, record}
      BY <2>1, <2>2 DEF trim_finished, TypeOK
    <3>2. NoJob.status # "COMPLETED"
      BY DEF NoJob
    <3>3. thread'[j].pc = "exited"
      BY <2>1, <2>2 DEF TypeOK, EndedThread
    <3> QED
      BY <2>1, <2>2, <3>1, <3>2, <3>3
  <2>3. CASE i # j
    <3>1. thread'[j] = thread[j] /\ registry'[j] = registry[j]
      BY <2>1, <2>3 DEF TypeOK
    <3>2. jobs'[j] = jobs[j] \/ (jobs'[j] = NoJob /\ jobs[j].status \in Finished)
      BY <2>1, <2>3 DEF trim_finished, FinishedIn, TypeOK
    <3> QED
      BY <3>1, <3>2, FinishedHasExited
  <2> QED
    BY <2>2, <2>3
<1>6. CASE BeginShutdown \/ JoinReturns
  BY <1>6 DEF BeginShutdown, JoinReturns
<1> QED
  BY <1>1, <1>2, <1>3, <1>4, <1>5, <1>6 DEF Next, run_job, RunningStep

-------------------------------------------------------------------------------
(* A completed job is registered. *)

LEMMA CompletedInit == Init => CompletedIsRegistered
  BY DEF Init, CompletedIsRegistered, NoJob

LEMMA CompletedNext ==
  CompletedIsRegistered /\ Core /\ [Next]_vars => CompletedIsRegistered'
<1> SUFFICES ASSUME CompletedIsRegistered, Core, [Next]_vars,
                    NEW j \in JobIds, jobs'[j].status = "COMPLETED"
             PROVE  registry'[j] # None /\ jobs'[j].result = registry'[j]
  BY DEF CompletedIsRegistered
<1>1. CASE UNCHANGED vars
  BY <1>1 DEF vars, CompletedIsRegistered
<1>2. CASE Next
  <2>1. NoJob.status # "COMPLETED" /\ RunningJob.status # "COMPLETED"
    BY DEF NoJob, RunningJob
  <2>2. thread[j].pc \in Live => jobs[j].status = "RUNNING"
    BY DEF Core, OneActiveJob
  <2> QED
    BY <1>2, <2>1, <2>2, StepOnJob DEF CompletedIsRegistered
<1> QED
  BY <1>1, <1>2

\* A job is COMPLETED only with the bundle served under its id: register_live comes
\* before the record is published, and nothing replaces the registered bundle.
THEOREM CompletedIsRegisteredAlways == Spec => []CompletedIsRegistered
  BY CompletedInit, CompletedNext, CoreAlways, PTL DEF Spec

-------------------------------------------------------------------------------
(* Shutdown. *)

LEMMA ShutdownInit == Init => ShutdownAgrees
  BY DEF Init, ShutdownAgrees

LEMMA ShutdownNext == ShutdownAgrees /\ Core /\ [Next]_vars => ShutdownAgrees'
<1> SUFFICES ASSUME ShutdownAgrees, Core, [Next]_vars PROVE ShutdownAgrees'
  OBVIOUS
<1> USE NoneIsNoJobId DEF ShutdownAgrees
<1>1. CASE start_job \/ StartThreadFails
  BY <1>1 DEF start_job, StartThreadFails
<1>2. CASE \E j \in JobIds : get_job(j)
  BY <1>2 DEF get_job
<1>3. CASE \E j \in JobIds : RunningStep(j)
  BY <1>3, RunningStepEffect
<1>4. CASE \E j \in JobIds : FinishCompleted(j) \/ finish_failed(j)
  BY <1>4, FinishEffect
<1>5. CASE BeginShutdown
  BY <1>5 DEF BeginShutdown, Core, TypeOK, OneActiveJob
<1>6. CASE JoinReturns
  BY <1>6 DEF JoinReturns, Core, OneActiveJob, Live
<1>7. CASE UNCHANGED vars
  BY <1>7 DEF vars
<1> QED
  BY <1>1, <1>2, <1>3, <1>4, <1>5, <1>6, <1>7 DEF Next, run_job, RunningStep

\* When shutdown() has returned no verification runs and none can start, whatever
\* start_job and the finishing thread did around it.
THEOREM ShutdownIsFinalAlways == Spec => []ShutdownIsFinal
<1>1. Core /\ ShutdownAgrees => ShutdownIsFinal
  BY NoneIsNoJobId DEF Core, OneActiveJob, ShutdownAgrees, ShutdownIsFinal
<1> QED
  BY <1>1, ShutdownInit, ShutdownNext, CoreAlways, PTL DEF Spec

-------------------------------------------------------------------------------
(* Polling. *)

LEMMA SeenInit == Init => SeenAgrees
  BY DEF Init, SeenAgrees, Finished

LEMMA SeenNext == SeenAgrees /\ Core /\ [Next]_vars => SeenAgrees'
<1> SUFFICES ASSUME SeenAgrees, Core, [Next]_vars, NEW j \in JobIds
             PROVE  /\ seen'[j] \in Finished \cup {"404"} => thread'[j].pc = "exited"
                    /\ seen'[j] \in Finished => jobs'[j] = NoJob \/ jobs'[j].status = seen'[j]
                    /\ seen'[j] = "404" => jobs'[j] = NoJob
  BY DEF SeenAgrees
<1>1. CASE UNCHANGED vars
  BY <1>1 DEF vars, SeenAgrees
<1>2. CASE get_job(j)
  <2>1. UNCHANGED <<jobs, thread>> /\ seen'[j] = IF jobs[j] = NoJob THEN "404" ELSE jobs[j].status
    BY <1>2 DEF get_job, Core, TypeOK
  <2>2. jobs[j] = NoJob => thread[j].pc = "exited"
    <3>1. NoJob.status # "RUNNING"
      BY DEF NoJob
    <3> QED
      BY <1>2, <3>1 DEF get_job, Core, TypeOK, OneActiveJob, Threads
  <2>3. jobs[j] # NoJob => jobs[j].status # "404"
    BY DEF Core, TypeOK, Records, RunningJob
  <2>4. "404" \notin Finished
    BY DEF Finished
  <2> QED
    BY <2>1, <2>2, <2>3, <2>4, FinishedHasExited
<1>3. CASE Next /\ ~get_job(j)
  <2>1. seen'[j] = seen[j]
    BY <1>3, RunningStepEffect, FinishEffect
       DEF Next, run_job, RunningStep, start_job, StartThreadFails, get_job, BeginShutdown,
           JoinReturns, Core, TypeOK
  <2>2. "exited" \notin Live
    BY DEF Live
  <2> QED
    BY <1>3, <2>1, <2>2, StepOnJob DEF SeenAgrees
<1> QED
  BY <1>1, <1>2, <1>3

\* A final answer of verification_status stays final until the job is dropped, and a
\* dropped job is never found again.
THEOREM PollsNeverGoBackAlways == Spec => PollsNeverGoBack
<1> DEFINE NeverBack == \A j \in JobIds :
                          /\ seen[j] \in Finished => seen'[j] \in {seen[j], "404"}
                          /\ seen[j] = "404" => seen'[j] = "404"
<1>1. SeenAgrees /\ Core /\ [Next]_vars => [NeverBack]_vars
  <2> SUFFICES ASSUME SeenAgrees, Core, Next, NEW j \in JobIds
               PROVE  /\ seen[j] \in Finished => seen'[j] \in {seen[j], "404"}
                      /\ seen[j] = "404" => seen'[j] = "404"
    OBVIOUS
  <2>1. CASE get_job(j)
    BY <2>1 DEF get_job, Core, TypeOK, SeenAgrees
  <2>2. CASE ~get_job(j)
    BY <2>2, RunningStepEffect, FinishEffect
       DEF Next, run_job, RunningStep, start_job, StartThreadFails, get_job, BeginShutdown,
           JoinReturns, Core, TypeOK
  <2> QED
    BY <2>1, <2>2
<1> QED
  BY <1>1, SeenInit, SeenNext, CoreAlways, PTL DEF Spec, PollsNeverGoBack

-------------------------------------------------------------------------------
(* The bounded history. *)

Newer(F, j) == {k \in F : k > j}

LEMMA JobIdsFinite == IsFiniteSet(JobIds) /\ JobIds \subseteq Nat
  BY FS_Interval, JobConstants DEF JobIds

\* In a finite set of numbers at most m elements have fewer than m larger ones.
LEMMA KeptBound ==
  ASSUME NEW F \in SUBSET Nat, IsFiniteSet(F), NEW m \in Nat \ {0}
  PROVE  Cardinality({j \in F : Cardinality(Newer(F, j)) < m}) <= m
<1> DEFINE kept == {j \in F : Cardinality(Newer(F, j)) < m}
           rank == [j \in kept |-> Cardinality(Newer(F, j))]
<1>1. ASSUME NEW j \in F
      PROVE  IsFiniteSet(Newer(F, j)) /\ Cardinality(Newer(F, j)) \in Nat
  <2>1. Newer(F, j) \in SUBSET F
    BY DEF Newer
  <2> QED
    BY <2>1, FS_Subset, FS_CardinalityType
<1>2. ASSUME NEW x \in F, NEW y \in F, x < y
      PROVE  Cardinality(Newer(F, x)) # Cardinality(Newer(F, y))
  <2>1. ASSUME NEW k \in F, k > y PROVE k > x
    <3>1. k \in Nat /\ x \in Nat /\ y \in Nat
      OBVIOUS
    <3> QED
      BY <1>2, <2>1, <3>1
  <2>2. Newer(F, y) \in SUBSET Newer(F, x)
    BY <2>1 DEF Newer
  <2>3. y \in Newer(F, x) /\ y \notin Newer(F, y)
    BY <1>2 DEF Newer
  <2> QED
    BY <1>1, <2>2, <2>3, FS_Subset
<1>3. rank \in [kept -> 0 .. (m - 1)]
  <2>1. ASSUME NEW j \in kept PROVE Cardinality(Newer(F, j)) \in 0 .. (m - 1)
    <3>1. Cardinality(Newer(F, j)) \in Nat /\ Cardinality(Newer(F, j)) < m
      BY <1>1
    <3> QED
      BY <3>1
  <2> HIDE DEF kept
  <2> QED
    BY <2>1
<1>4. IsFiniteSet(kept) /\ Cardinality(kept) \in Nat
  <2>1. kept \in SUBSET F
    OBVIOUS
  <2> QED
    BY <2>1, FS_Subset, FS_CardinalityType
<1>5. IsFiniteSet(0 .. (m - 1)) /\ Cardinality(0 .. (m - 1)) = m
  BY FS_Interval
<1>6. ~(m < Cardinality(kept))
  <2> SUFFICES ASSUME m < Cardinality(kept) PROVE FALSE
    OBVIOUS
  <2> HIDE DEF kept, rank
  <2>1. PICK x, y \in kept : x # y /\ rank[x] = rank[y]
    BY <1>3, <1>4, <1>5, FS_PigeonHole
  <2> USE DEF kept, rank
  <2>2. x \in Nat /\ y \in Nat /\ Cardinality(Newer(F, x)) = Cardinality(Newer(F, y))
    BY <2>1
  <2> QED
    BY <1>2, <2>1, <2>2
<1> QED
  BY <1>4, <1>6

\* _trim_finished_locked: what is left is bounded, what is dropped is older than what
\* is left and has the whole limit's worth of newer finished jobs, and nothing else
\* of the dict changes.
LEMMA TrimEffect ==
  ASSUME NEW f \in [JobIds -> Records]
  PROVE  LET F == FinishedIn(f)
             g == trim_finished(f)
         IN  /\ Cardinality(FinishedIn(g)) <= MAX_FINISHED_JOBS
             /\ FinishedIn(g) \subseteq F
             /\ \A j \in JobIds \ F : g[j] = f[j]
             /\ \A j \in F : g[j] = f[j] \/ g[j] = NoJob
             /\ \A j \in F : g[j] = NoJob =>
                   /\ Cardinality(Newer(F, j)) >= MAX_FINISHED_JOBS
                   /\ \A k \in FinishedIn(g) : j < k
<1> DEFINE F == FinishedIn(f)
           g == trim_finished(f)
           m == MAX_FINISHED_JOBS
           kept == {j \in F : Cardinality(Newer(F, j)) < m}
<1>1. F \in SUBSET JobIds /\ F \in SUBSET Nat /\ IsFiniteSet(F)
  BY JobIdsFinite, FS_Subset DEF FinishedIn
<1>2. \A j \in F : Cardinality(Newer(F, j)) \in Nat /\ IsFiniteSet(Newer(F, j))
  <2> TAKE j \in F
  <2>1. Newer(F, j) \in SUBSET F
    BY DEF Newer
  <2> QED
    BY <1>1, <2>1, FS_Subset, FS_CardinalityType
<1>3. \A j \in JobIds : g[j] = IF j \in F \ kept THEN NoJob ELSE f[j]
  BY <1>2, JobConstants DEF trim_finished, Newer
<1>4. DOMAIN g = JobIds
  BY DEF trim_finished
<1>5. \A j \in F : f[j].status \in Finished /\ f[j] # NoJob
  BY DEF FinishedIn, NoJob, Finished
<1>6. FinishedIn(g) = kept
  <2>1. NoJob.status \notin Finished
    BY DEF NoJob, Finished
  <2>2. FinishedIn(g) = {j \in JobIds : g[j].status \in Finished}
    BY <1>4 DEF FinishedIn
  <2>3. F = {j \in JobIds : f[j].status \in Finished}
    BY DEF FinishedIn
  <2> HIDE DEF F, g
  <2> QED
    BY <1>1, <1>3, <2>1, <2>2, <2>3
<1>7. Cardinality(kept) <= m
  BY <1>1, KeptBound, JobConstants
<1>8. ASSUME NEW j \in F, g[j] = NoJob
      PROVE  /\ Cardinality(Newer(F, j)) >= m
             /\ \A k \in kept : j < k
  <2>1. j \notin kept
    BY <1>1, <1>3, <1>5, <1>8
  <2>2. Cardinality(Newer(F, j)) >= m
    BY <1>2, <2>1, JobConstants
  <2>3. ASSUME NEW k \in kept, ~(j < k) PROVE FALSE
    <3>1. j \in Nat /\ k \in Nat /\ k \in F
      BY <1>1
    <3>2. Newer(F, j) \in SUBSET Newer(F, k)
      BY <1>1, <2>3, <3>1 DEF Newer
    <3>3. Cardinality(Newer(F, j)) <= Cardinality(Newer(F, k))
      BY <1>2, <3>1, <3>2, FS_Subset
    <3> QED
      BY <1>2, <2>2, <3>1, <3>3, JobConstants
  <2> QED
    BY <2>2, <2>3
<1> QED
  BY <1>1, <1>3, <1>6, <1>7, <1>8

HistoryInvariant == BoundedHistory /\ RecentJobIsKnown

LEMMA HistoryInit == Init => HistoryInvariant
<1> SUFFICES ASSUME Init PROVE HistoryInvariant
  OBVIOUS
<1>1. FinishedIn(jobs) = {}
  BY DEF Init, FinishedIn, NoJob, Finished
<1>2. Cardinality(FinishedIn(jobs)) <= MAX_FINISHED_JOBS
  BY <1>1, FS_EmptySet, JobConstants
<1>3. \A j \in JobIds : thread[j].pc = "none"
  BY DEF Init, NoThread
<1> QED
  BY <1>2, <1>3 DEF HistoryInvariant, BoundedHistory, RecentJobIsKnown

Exited == {k \in JobIds : thread[k].pc = "exited"}

\* A step that finishes no job: the finished records and the ended threads stay the
\* same, and a job that is absent either was so before or was never started.
LEMMA OtherSteps ==
  ASSUME Core, Next, ~\E i \in JobIds : FinishCompleted(i) \/ finish_failed(i)
  PROVE  /\ FinishedIn(jobs') = FinishedIn(jobs)
         /\ Exited' = Exited
         /\ \A j \in JobIds : jobs'[j] = NoJob /\ thread'[j].pc # "none" =>
              jobs[j] = NoJob /\ thread[j].pc # "none"
<1>1. DOMAIN jobs = JobIds /\ DOMAIN jobs' = JobIds
  BY CoreNext DEF Core, TypeOK
<1>2. /\ RunningJob.status \notin Finished /\ NoJob.status \notin Finished
      /\ RunningJob # NoJob
  BY DEF RunningJob, NoJob, Finished
<1>3. ASSUME NEW j \in JobIds
      PROVE  /\ jobs'[j].status \in Finished <=> jobs[j].status \in Finished
             /\ thread'[j].pc = "exited" <=> thread[j].pc = "exited"
             /\ jobs'[j] = NoJob /\ thread'[j].pc # "none" =>
                  jobs[j] = NoJob /\ thread[j].pc # "none"
  <2> USE NoneIsNoJobId, JobConstants DEF Core
  <2>1. CASE start_job
    BY <1>2, <2>1 DEF start_job, TypeOK, ThreadsAgree, JobIds, Threads
  <2>2. CASE StartThreadFails
    <3>1. jobs'[j] = jobs[j]
      BY <2>2 DEF StartThreadFails, TypeOK, ThreadsAgree, Threads, JobIds
    <3> QED
      BY <2>2, <3>1 DEF StartThreadFails
  <2>3. CASE \E i \in JobIds : get_job(i)
    BY <2>3 DEF get_job
  <2>4. CASE \E i \in JobIds : RunningStep(i)
    BY <2>4, RunningStepEffect DEF Live
  <2>5. CASE BeginShutdown \/ JoinReturns
    BY <2>5 DEF BeginShutdown, JoinReturns
  <2> QED
    BY <2>1, <2>2, <2>3, <2>4, <2>5 DEF Next, run_job, RunningStep
<1> QED
  BY <1>1, <1>3 DEF FinishedIn, Exited

LEMMA HistoryNext == HistoryInvariant /\ Core /\ [Next]_vars => HistoryInvariant'
<1> SUFFICES ASSUME HistoryInvariant, Core, [Next]_vars PROVE HistoryInvariant'
  OBVIOUS
<1>1. CASE UNCHANGED vars
  BY <1>1 DEF vars, HistoryInvariant, BoundedHistory, RecentJobIsKnown, FinishedIn
<1>2. CASE Next /\ ~\E i \in JobIds : FinishCompleted(i) \/ finish_failed(i)
  <2>1. /\ FinishedIn(jobs') = FinishedIn(jobs)
        /\ Exited' = Exited
        /\ \A j \in JobIds : jobs'[j] = NoJob /\ thread'[j].pc # "none" =>
             jobs[j] = NoJob /\ thread[j].pc # "none"
    BY <1>2, OtherSteps
  <2>2. \A j \in JobIds : thread'[j].pc = "exited" <=> thread[j].pc = "exited"
    BY <2>1 DEF Exited
  <2>3. BoundedHistory'
    BY <2>1, <2>2 DEF HistoryInvariant, BoundedHistory
  <2>4. RecentJobIsKnown'
    <3> SUFFICES ASSUME NEW j \in JobIds, thread'[j].pc # "none", jobs'[j] = NoJob,
                        Cardinality({k \in JobIds : k > j /\ thread'[k].pc = "exited"})
                          < MAX_FINISHED_JOBS
                 PROVE  FALSE
      BY DEF RecentJobIsKnown
    <3>1. {k \in JobIds : k > j /\ thread'[k].pc = "exited"}
            = {k \in JobIds : k > j /\ thread[k].pc = "exited"}
      BY <2>2
    <3> QED
      BY <2>1, <3>1 DEF HistoryInvariant, RecentJobIsKnown
  <2> QED
    BY <2>3, <2>4 DEF HistoryInvariant
<1>3. CASE \E i \in JobIds : FinishCompleted(i) \/ finish_failed(i)
  <2> PICK i \in JobIds : FinishCompleted(i) \/ finish_failed(i)
    BY <1>3
  <2>1. PICK record \in Records :
           /\ record.status \in Finished
           /\ jobs' = trim_finished([jobs EXCEPT ![i] = record])
           /\ thread[i].pc \in Live /\ active = i
           /\ thread' = [thread EXCEPT ![i] = EndedThread]
    BY FinishEffect
  <2> DEFINE f == [jobs EXCEPT ![i] = record]
             F == FinishedIn(f)
  <2>2. f \in [JobIds -> Records] /\ F = FinishedIn(jobs) \cup {i} /\ f[i] # NoJob
    <3>1. f \in [JobIds -> Records]
      BY DEF Core, TypeOK
    <3>2. F = FinishedIn(jobs) \cup {i}
      BY <2>1 DEF FinishedIn, Core, TypeOK
    <3>3. f[i] # NoJob
      BY <2>1 DEF NoJob, Finished, Core, TypeOK
    <3> QED
      BY <3>1, <3>2, <3>3
  <2>3. /\ Cardinality(FinishedIn(jobs')) <= MAX_FINISHED_JOBS
        /\ FinishedIn(jobs') \subseteq F
        /\ \A j \in JobIds \ F : jobs'[j] = f[j]
        /\ \A j \in F : jobs'[j] = NoJob =>
             /\ Cardinality(Newer(F, j)) >= MAX_FINISHED_JOBS
             /\ \A k \in FinishedIn(jobs') : j < k
    <3> HIDE DEF f
    <3> QED
      BY <2>1, <2>2, TrimEffect DEF f
  <2>4. /\ thread'[i].pc = "exited"
        /\ \A j \in JobIds \ {i} : thread'[j] = thread[j]
    BY <2>1 DEF EndedThread, Core, TypeOK
  <2>5. F \subseteq {k \in JobIds : thread'[k].pc = "exited"}
    BY <2>2, <2>4, FinishedHasExited DEF FinishedIn, Core, TypeOK
  <2>6. \A j \in JobIds \ F : jobs'[j] = jobs[j] /\ j # i
    BY <2>2, <2>3 DEF Core, TypeOK
  <2>7. BoundedHistory'
    <3> SUFFICES ASSUME NEW j \in JobIds, thread'[j].pc = "exited", jobs'[j] = NoJob,
                        NEW k \in FinishedIn(jobs')
                 PROVE  j < k
      BY <2>3 DEF BoundedHistory
    <3>1. CASE j \in F
      BY <2>3, <3>1
    <3>2. CASE j \notin F
      <4>1. jobs[j] = NoJob /\ thread[j].pc = "exited" /\ j # i
        BY <2>4, <2>6, <3>2
      <4>2. CASE k = i
        BY <2>1, <4>1, <4>2, JobConstants DEF Core, TypeOK, ThreadsAgree, JobIds
      <4>3. CASE k \in FinishedIn(jobs)
        BY <4>1, <4>3 DEF HistoryInvariant, BoundedHistory
      <4> QED
        BY <2>2, <2>3, <4>2, <4>3
    <3> QED
      BY <3>1, <3>2
  <2>8. RecentJobIsKnown'
    <3> DEFINE ended(j) == {k \in JobIds : k > j /\ thread'[k].pc = "exited"}
    <3> SUFFICES ASSUME NEW j \in JobIds, thread'[j].pc # "none", jobs'[j] = NoJob,
                        Cardinality(ended(j)) < MAX_FINISHED_JOBS
                 PROVE  FALSE
      BY DEF RecentJobIsKnown
    <3>1. IsFiniteSet(ended(j)) /\ Cardinality(ended(j)) \in Nat
      BY JobIdsFinite, FS_Subset, FS_CardinalityType
    <3>2. CASE j \in F
      <4>1. Newer(F, j) \in SUBSET ended(j)
        BY <2>5 DEF Newer
      <4>2. Cardinality(Newer(F, j)) <= Cardinality(ended(j))
        BY <3>1, <4>1, FS_Subset
      <4>3. Cardinality(Newer(F, j)) \in Nat
        BY <3>1, <4>1, FS_Subset, FS_CardinalityType
      <4> HIDE DEF ended, F
      <4> QED
        BY <2>3, <3>1, <3>2, <4>2, <4>3, JobConstants
    <3>3. CASE j \notin F
      <4> DEFINE old == {k \in JobIds : k > j /\ thread[k].pc = "exited"}
      <4>1. jobs[j] = NoJob /\ thread[j].pc # "none"
        BY <2>4, <2>6, <3>3
      <4>2. old \in SUBSET ended(j)
        BY <2>4
      <4>3. Cardinality(old) <= Cardinality(ended(j)) /\ Cardinality(old) \in Nat
        BY <3>1, <4>2, FS_Subset, FS_CardinalityType
      <4>4. ~(Cardinality(old) < MAX_FINISHED_JOBS)
        BY <4>1 DEF HistoryInvariant, RecentJobIsKnown
      <4> HIDE DEF ended, old
      <4> QED
        BY <3>1, <4>3, <4>4, JobConstants
    <3> QED
      BY <3>2, <3>3
  <2> QED
    BY <2>7, <2>8 DEF HistoryInvariant
<1> QED
  BY <1>1, <1>2, <1>3

\* However many jobs are run, _trim_finished_locked keeps at most MAX_FINISHED_JOBS
\* finished ones, and always the most recent.
THEOREM BoundedHistoryAlways == Spec => []BoundedHistory
  BY HistoryInit, HistoryNext, CoreAlways, PTL DEF Spec, HistoryInvariant

\* A job is found by get_job from its start until MAX_FINISHED_JOBS later jobs have
\* finished.
THEOREM RecentJobIsKnownAlways == Spec => []RecentJobIsKnown
  BY HistoryInit, HistoryNext, CoreAlways, PTL DEF Spec, HistoryInvariant

-------------------------------------------------------------------------------
(* The refinement of VerificationSlot. *)

\* The abstract slot counts as the manager does.
LEMMA SlotCounts == \A S : Slot!Cardinality(S) = Cardinality(S)
  BY DEF Slot!Cardinality, Cardinality

\* What the abstract slot knows, in terms of the manager: the running job is the
\* active one, and the remembered jobs are the finished ones of the dict.
LEMMA SlotSets ==
  ASSUME Core
  PROVE  /\ Slot!Running = {j \in JobIds : active = j}
         /\ Slot!Remembered = FinishedIn(jobs)
         /\ \A j \in JobIds : thread[j].pc = "none" <=> View[j] = "NEW"
<1> USE DEF Core
<1>1. /\ NoJob.status \notin Finished /\ NoJob.status # "RUNNING"
      /\ "NEW" \notin Finished /\ "GONE" \notin Finished
  BY DEF NoJob, Finished
<1>2. ASSUME NEW j \in JobIds PROVE jobs[j].status \in {"RUNNING"} \cup Finished \/ jobs[j] = NoJob
  BY DEF TypeOK, Records, RunningJob, Finished
<1>3. ASSUME NEW j \in JobIds
      PROVE  /\ View[j] = "RUNNING" <=> active = j
             /\ View[j] \in Finished <=> jobs[j].status \in Finished
             /\ thread[j].pc = "none" <=> View[j] = "NEW"
  BY <1>1, <1>2 DEF View, OneActiveJob, ThreadsAgree, Finished
<1>4. DOMAIN jobs = JobIds
  BY DEF TypeOK
<1> QED
  BY <1>3, <1>4 DEF Slot!Running, Slot!Remembered, Slot!Ended, FinishedIn, Finished

\* The initial states of the manager are initial states of the slot.
LEMMA SlotInit == Init => Slot!Init
  BY DEF Init, Slot!Init, View, NoThread

\* start_job takes the free slot.
LEMMA StartRefines == ASSUME Core, ShutdownAgrees, start_job PROVE Slot!Next
<1> DEFINE j == drawn + 1
<1> USE NoneIsNoJobId, JobConstants DEF Core
<1>1. j \in JobIds /\ active = None /\ ~shutting_down /\ Slot!Running = {}
  BY SlotSets DEF start_job
<1>2. \A k \in JobIds : k >= j => thread[k].pc = "none"
  BY DEF ThreadsAgree, TypeOK, JobIds
<1>3. View[j] = "NEW" /\ \A k \in JobIds : k > j => View[k] = "NEW"
  BY <1>1, <1>2, SlotSets DEF JobIds
<1>4. View' = [View EXCEPT ![j] = "RUNNING"]
  <2>1. RunningJob # NoJob /\ RunningJob.status = "RUNNING"
    BY DEF RunningJob, NoJob
  <2>2. /\ jobs'[j] = RunningJob
        /\ \A k \in JobIds \ {j} : jobs'[k] = jobs[k] /\ thread'[k] = thread[k]
    BY <1>1 DEF start_job, TypeOK
  <2> HIDE DEF j
  <2> QED
    BY <1>1, <2>1, <2>2 DEF View
<1>5. UNCHANGED <<shutting_down, shutdown>>
  BY DEF start_job
<1>6. Slot!Start(j)
  BY <1>1, <1>3, <1>4, <1>5 DEF Slot!Start
<1> HIDE DEF j
<1> QED
  BY <1>1, <1>6 DEF Slot!Next

\* The last locked block of the thread frees the slot, records the final status and
\* forgets what _trim_finished_locked drops, in one step.
LEMMA FinishRefines ==
  ASSUME Core, NEW i \in JobIds, FinishCompleted(i) \/ finish_failed(i)
  PROVE  Slot!Next
<1> USE NoneIsNoJobId, JobConstants
<1>1. PICK record \in Records :
           /\ record.status \in Finished
           /\ jobs' = trim_finished([jobs EXCEPT ![i] = record])
           /\ thread[i].pc \in Live /\ active = i
           /\ thread' = [thread EXCEPT ![i] = EndedThread]
           /\ UNCHANGED <<shutting_down, shutdown>>
  BY FinishEffect
<1> DEFINE f == [jobs EXCEPT ![i] = record]
           old == FinishedIn(jobs)
           F == old \cup {i}
           forgotten == {k \in old : jobs'[k] = NoJob}
<1>2. /\ f \in [JobIds -> Records] /\ FinishedIn(f) = F
      /\ f[i] = record /\ \A k \in JobIds \ {i} : f[k] = jobs[k]
  <2>1. f \in [JobIds -> Records]
    BY DEF Core, TypeOK
  <2>2. FinishedIn(f) = F
    BY <1>1 DEF FinishedIn, Core, TypeOK
  <2> QED
    BY <2>1, <2>2 DEF Core, TypeOK
<1>3. /\ Cardinality(FinishedIn(jobs')) <= MAX_FINISHED_JOBS
      /\ \A j \in JobIds \ F : jobs'[j] = f[j]
      /\ \A j \in F : jobs'[j] = f[j] \/ jobs'[j] = NoJob
      /\ \A j \in F : jobs'[j] = NoJob => Cardinality(Newer(F, j)) >= MAX_FINISHED_JOBS
  <2> HIDE DEF f, F
  <2> QED
    BY <1>1, <1>2, TrimEffect DEF f
<1>4. old \subseteq JobIds /\ IsFiniteSet(old) /\ i \notin old
  <2>1. old \in SUBSET JobIds
    BY DEF FinishedIn, Core, TypeOK
  <2>2. i \notin old
    BY <1>1, FinishedHasExited DEF FinishedIn, Core, TypeOK
  <2> QED
    BY <2>1, <2>2, JobIdsFinite, FS_Subset
\* The job that ends is the newest of all and is kept.
<1>5. Newer(F, i) = {}
  <2>1. i = drawn
    BY <1>1 DEF Core, ThreadsAgree
  <2>2. \A k \in old : k <= drawn
    BY FinishedHasExited DEF FinishedIn, Core, TypeOK, ThreadsAgree
  <2>3. ASSUME NEW k \in F, k > i PROVE FALSE
    <3>1. k \in Nat /\ i \in Nat
      BY <1>4, JobIdsFinite
    <3>2. k \in old
      BY <2>3, <3>1
    <3> HIDE DEF old
    <3> QED
      BY <2>1, <2>2, <2>3, <3>1, <3>2
  <2> QED
    BY <2>3 DEF Newer
<1>6. jobs'[i] = record
  <2>1. Cardinality(Newer(F, i)) = 0
    BY <1>5, FS_EmptySet
  <2> QED
    BY <1>2, <1>3, <2>1
<1>7. FinishedIn(jobs') = (old \ forgotten) \cup {i}
  <2>1. DOMAIN jobs' = JobIds /\ DOMAIN jobs = JobIds
    BY CoreNext DEF Core, TypeOK, Next, run_job
  <2>2. NoJob.status \notin Finished
    BY DEF NoJob, Finished
  <2>3. \A k \in JobIds \ {i} : jobs'[k] = jobs[k] \/ (k \in old /\ jobs'[k] = NoJob)
    BY <1>2, <1>3
  <2> QED
    BY <1>1, <1>4, <1>6, <2>1, <2>2, <2>3 DEF FinishedIn
<1>8. Cardinality(old \ forgotten) < MAX_FINISHED_JOBS
  <2>1. IsFiniteSet(old \ forgotten) /\ i \notin old \ forgotten
    BY <1>4, FS_Subset
  <2>2. Cardinality((old \ forgotten) \cup {i}) = Cardinality(old \ forgotten) + 1
    BY <2>1, FS_AddElement
  <2>3. Cardinality(old \ forgotten) \in Nat
    BY <2>1, FS_CardinalityType
  <2> QED
    BY <1>3, <1>7, <2>2, <2>3
<1>9. \A k \in forgotten : Cardinality({n \in F : n > k}) >= MAX_FINISHED_JOBS
  BY <1>3 DEF Newer
<1>10. View' = [k \in JobIds |-> IF k = i THEN record.status
                                 ELSE IF k \in forgotten THEN "GONE" ELSE View[k]]
  <2>1. record # NoJob
    BY <1>1 DEF NoJob, Finished
  <2>2. \A k \in JobIds \ {i} : thread'[k] = thread[k]
    BY <1>1 DEF Core, TypeOK
  <2>3. \A k \in JobIds \ {i} : k \in forgotten \/ jobs'[k] = jobs[k]
    BY <1>2, <1>3
  <2>4. \A k \in forgotten : jobs'[k] = NoJob /\ thread[k].pc # "none"
    BY <1>4, FinishedHasExited DEF FinishedIn
  <2> HIDE DEF forgotten
  <2> QED
    BY <1>6, <2>1, <2>2, <2>3, <2>4 DEF View
<1>11. View[i] = "RUNNING" /\ Slot!Remembered = old
  BY <1>1, SlotSets DEF Slot!Running
<1>12. Slot!End(i)
  <2>1. record.status \in Slot!Ended /\ forgotten \in SUBSET Slot!Remembered
    BY <1>1, <1>11 DEF Slot!Ended, Finished
  <2> HIDE DEF forgotten, old
  <2>2. /\ Slot!Cardinality(Slot!Remembered \ forgotten) < MAX_FINISHED_JOBS
        /\ \A k \in forgotten :
             Slot!Cardinality({n \in Slot!Remembered \cup {i} : n > k}) >= MAX_FINISHED_JOBS
    BY <1>8, <1>9, <1>11, SlotCounts
  <2>3. \E status \in Slot!Ended, gone \in SUBSET Slot!Remembered :
          /\ Slot!Cardinality(Slot!Remembered \ gone) < MAX_FINISHED_JOBS
          /\ \A k \in gone :
               Slot!Cardinality({n \in Slot!Remembered \cup {i} : n > k}) >= MAX_FINISHED_JOBS
          /\ View' = [k \in JobIds |-> IF k = i THEN status
                                      ELSE IF k \in gone THEN "GONE" ELSE View[k]]
    BY <1>10, <2>1, <2>2
  <2>4. UNCHANGED <<shutting_down, shutdown = "returned">>
    BY <1>1
  <2> QED
    BY <1>11, <2>3, <2>4, Zenon DEF Slot!End
<1> QED
  BY <1>12 DEF Slot!Next

\* The lifespan's exit closes the slot, and stops it once no job runs.
LEMMA ShutdownRefines ==
  ASSUME Core, ShutdownAgrees, BeginShutdown \/ JoinReturns
  PROVE  Slot!Next
<1> USE NoneIsNoJobId
<1>1. View' = View
  BY DEF BeginShutdown, JoinReturns, View
<1>2. CASE BeginShutdown
  <2>1. worker = None => Slot!Running = {}
    BY SlotSets DEF Core, OneActiveJob
  <2>2. ~shutting_down /\ shutting_down' = TRUE
    BY <1>2 DEF BeginShutdown, ShutdownAgrees
  <2>3. (shutdown' = "returned") \in {FALSE, Slot!Running = {}}
    BY <1>2, <2>1 DEF BeginShutdown
  <2>4. Slot!Close
    BY <1>1, <2>2, <2>3 DEF Slot!Close
  <2> QED
    BY <2>4 DEF Slot!Next
<1>3. CASE JoinReturns
  <2>1. active = None
    BY <1>3 DEF JoinReturns, ShutdownAgrees, Core, OneActiveJob, Live
  <2>2. Slot!Running = {}
    BY <2>1, SlotSets
  <2>3. Slot!Stop
    BY <1>1, <1>3, <2>2 DEF JoinReturns, ShutdownAgrees, Slot!Stop
  <2> QED
    BY <2>3 DEF Slot!Next
<1> QED
  BY <1>2, <1>3

\* Every step of the manager is a step of the slot or changes nothing a client can learn.
LEMMA SlotNext ==
  Core /\ ShutdownAgrees /\ [Next]_vars => [Slot!Next]_(Slot!slotVars)
<1> SUFFICES ASSUME Core, ShutdownAgrees, [Next]_vars
             PROVE  Slot!Next \/ UNCHANGED Slot!slotVars
  OBVIOUS
<1> USE NoneIsNoJobId, JobConstants DEF Core
<1>1. CASE start_job
  BY <1>1, StartRefines
<1>2. CASE StartThreadFails
  <2>1. jobs' = jobs /\ thread' = thread
    BY <1>2 DEF StartThreadFails, TypeOK, ThreadsAgree, Threads, JobIds
  <2> QED
    BY <1>2, <2>1 DEF StartThreadFails, Slot!slotVars, View
<1>3. CASE \E j \in JobIds : get_job(j)
  BY <1>3 DEF get_job, Slot!slotVars, View
<1>4. CASE \E j \in JobIds : RunningStep(j)
  <2> PICK j \in JobIds : RunningStep(j)
    BY <1>4
  <2>1. /\ UNCHANGED <<jobs, shutting_down, shutdown>>
        /\ \A k \in JobIds : thread'[k].pc = "none" <=> thread[k].pc = "none"
    BY RunningStepEffect DEF Live
  <2> QED
    BY <2>1 DEF Slot!slotVars, View
<1>5. CASE \E j \in JobIds : FinishCompleted(j) \/ finish_failed(j)
  BY <1>5, FinishRefines
<1>6. CASE BeginShutdown \/ JoinReturns
  BY <1>6, ShutdownRefines
<1>7. CASE UNCHANGED vars
  BY <1>7 DEF vars, Slot!slotVars, View
<1> QED
  BY <1>1, <1>2, <1>3, <1>4, <1>5, <1>6, <1>7 DEF Next, run_job, RunningStep

\* VerificationJobManager keeps the promise of VerificationSlot: its threads, its dict,
\* its trimming and its shutdown do to what a client can learn only what the slot does.
THEOREM ImplementsSlotSafety == Spec => Slot!Safety
  BY SlotInit, SlotNext, ShutdownInit, ShutdownNext, CoreAlways, PTL DEF Spec, Slot!Safety
===============================================================================
