------------------------------ MODULE JobManager ------------------------------
(***************************************************************************)
(* VerificationJobManager of app/jobs.py with the HTTP handlers of         *)
(* app/main.py that drive it.                                              *)
(*                                                                         *)
(* The handlers run one at a time on the event loop; each job has a worker *)
(* thread of its own; the lifespan's shutdown joins the worker outside the *)
(* lock.  Every block under the manager's lock is one step.  Job ids are   *)
(* numbered in the order they are drawn, which is the insertion order of   *)
(* the dict; the random ids are taken to be distinct.                      *)
(***************************************************************************)
EXTENDS Naturals, FiniteSets

CONSTANTS Outcomes,           \* the verification outcomes a bundle may carry
          MAX_FINISHED_JOBS,  \* how many finished jobs are retained
          MaxJobs,            \* bound: how many job ids are drawn
          None                \* Python's None

ASSUME JobConstants ==
  /\ MAX_FINISHED_JOBS \in Nat \ {0}
  /\ MaxJobs \in Nat
  /\ None \notin 1 .. MaxJobs /\ None \notin Outcomes

VARIABLES jobs,          \* _jobs: one record per id, NoJob when the dict has none
          drawn,         \* how many ids were drawn
          active,        \* _active_job_id
          worker,        \* _worker, as the id of its job
          shutting_down, \* _shutting_down
          thread,        \* the program counter of each job's thread
          registry,      \* BundleRegistry: the bundle of each live id, known by its outcome
          shutdown,      \* the lifespan: "serving", "joining" a thread, or "returned"
          joined,        \* the thread shutdown() waits for
          seen           \* what a client polling the job last saw

vars == <<jobs, drawn, active, worker, shutting_down, thread, registry, shutdown,
          joined, seen>>

JobIds == 1 .. MaxJobs
Finished == {"COMPLETED", "FAILED"}
ErrorCodes == {"VERIFICATION_START_FAILED", "INTERNAL_ERROR"}
Live == {"run", "register", "present", "complete", "fail"}

NoJob == [status |-> "ABSENT", result |-> None, error |-> None]
RunningJob == [status |-> "RUNNING", result |-> None, error |-> None]
NoThread == [pc |-> "none", outcome |-> None, code |-> None]
EndedThread == [pc |-> "exited", outcome |-> None, code |-> None]

Init ==
  /\ jobs = [j \in JobIds |-> NoJob]
  /\ drawn = 0
  /\ active = None /\ worker = None /\ shutting_down = FALSE
  /\ thread = [j \in JobIds |-> NoThread]
  /\ registry = [j \in JobIds |-> None]
  /\ shutdown = "serving" /\ joined = None
  /\ seen = [j \in JobIds |-> "nothing"]

-------------------------------------------------------------------------------
(* The handlers, while the dashboard serves requests. *)

\* A start that is refused (400 for a malformed request, 503 when shutting down,
\* 409 when a job is active) changes nothing and is no step.

\* Slip: a start that comes while shutdown joins the worker is accepted.
StartWhileShuttingDown ==
  LET j == drawn + 1
  IN  /\ shutdown # "returned"
      /\ active = None
      /\ j \in JobIds
      /\ drawn' = j
      /\ jobs' = [jobs EXCEPT ![j] = RunningJob]
      /\ active' = j
      /\ worker' = j
      /\ thread' = [thread EXCEPT ![j].pc = "run"]
      /\ UNCHANGED <<shutting_down, registry, shutdown, joined, seen>>

\* A fresh id is drawn; the record, the active id and the thread are in place
\* before the thread starts.
start_job ==
  LET j == drawn + 1
  IN  /\ shutdown # "returned"
      /\ ~shutting_down
      /\ active = None
      /\ j \in JobIds
      /\ drawn' = j
      /\ jobs' = [jobs EXCEPT ![j] = RunningJob]
      /\ active' = j
      /\ worker' = j
      /\ thread' = [thread EXCEPT ![j].pc = "run"]
      /\ UNCHANGED <<shutting_down, registry, shutdown, joined, seen>>

\* Slip: the rollback of a thread that did not start forgets the active id.
RollbackKeepsActive ==
  /\ shutdown # "returned"
  /\ ~shutting_down
  /\ active = None
  /\ drawn + 1 \in JobIds
  /\ drawn' = drawn + 1
  /\ active' = drawn + 1
  /\ worker' = None
  /\ UNCHANGED <<jobs, shutting_down, thread, registry, shutdown, joined, seen>>

\* worker.start() raises RuntimeError: everything but the drawn id is undone.
StartThreadFails ==
  /\ shutdown # "returned"
  /\ ~shutting_down
  /\ active = None
  /\ drawn + 1 \in JobIds
  /\ drawn' = drawn + 1
  /\ jobs' = [jobs EXCEPT ![drawn + 1] = NoJob]
  /\ active' = None
  /\ worker' = None
  /\ UNCHANGED <<shutting_down, thread, registry, shutdown, joined, seen>>

\* Slip: an id the dict does not hold is taken for one that is still running.
PollAssumesRunning(j) ==
  /\ shutdown # "returned"
  /\ thread[j].pc # "none"
  /\ seen' = [seen EXCEPT ![j] = IF jobs[j] = NoJob THEN "RUNNING" ELSE jobs[j].status]
  /\ UNCHANGED <<jobs, drawn, active, worker, shutting_down, thread, registry, shutdown,
                 joined>>

\* verification_status: a client polls a job id it was given.
get_job(j) ==
  /\ shutdown # "returned"
  /\ thread[j].pc # "none"
  /\ seen' = [seen EXCEPT ![j] = IF jobs[j] = NoJob THEN "404" ELSE jobs[j].status]
  /\ UNCHANGED <<jobs, drawn, active, worker, shutting_down, thread, registry, shutdown,
                 joined>>

-------------------------------------------------------------------------------
(* The worker thread: _run_job. *)

Goto(j, pc) == thread' = [thread EXCEPT ![j].pc = pc]
FailWith(j, c) == thread' = [thread EXCEPT ![j] = [@ EXCEPT !.pc = "fail", !.code = c]]
RestUnchanged == UNCHANGED <<jobs, drawn, active, worker, shutting_down, shutdown, joined,
                             seen>>

\* orchestrator.run() returns a bundle or raises a known or unknown exception.
Orchestrate(j) ==
  /\ thread[j].pc = "run"
  /\ \/ \E o \in Outcomes :
          thread' = [thread EXCEPT ![j] = [@ EXCEPT !.pc = "register", !.outcome = o]]
     \/ \E c \in ErrorCodes : FailWith(j, c)
  /\ RestUnchanged /\ UNCHANGED registry

\* Slip: a path the registry refuses is ignored.
RefusalIgnored(j) ==
  /\ thread[j].pc = "register"
  /\ \/ registry' = [registry EXCEPT ![j] = thread[j].outcome]
     \/ UNCHANGED registry
  /\ Goto(j, "present")
  /\ RestUnchanged

\* register_live puts the bundle in the registry or refuses its path.
RegisterLive(j) ==
  /\ thread[j].pc = "register"
  /\ \/ registry' = [registry EXCEPT ![j] = thread[j].outcome] /\ Goto(j, "present")
     \/ FailWith(j, "VERIFICATION_START_FAILED") /\ UNCHANGED registry
  /\ RestUnchanged

\* Slip: an exception of present_bundle escapes _run_job and ends the thread.
PresentEscapes(j) ==
  /\ thread[j].pc = "present"
  /\ Goto(j, "complete") \/ Goto(j, "exited")
  /\ RestUnchanged /\ UNCHANGED registry

\* present_bundle verifies the published bundle again.
PresentBundle(j) ==
  /\ thread[j].pc = "present"
  /\ \/ Goto(j, "complete")
     \/ \E c \in ErrorCodes : FailWith(j, c)
  /\ RestUnchanged /\ UNCHANGED registry

FinishedIn(f) == {j \in DOMAIN f : f[j].status \in Finished}

\* Slip: finished.pop() instead of finished.pop(0).
TrimNewest(f) ==
  [j \in DOMAIN f |->
     IF /\ j \in FinishedIn(f)
        /\ Cardinality({k \in FinishedIn(f) : k < j}) >= MAX_FINISHED_JOBS
     THEN NoJob ELSE f[j]]

\* Slip: >= instead of > in the loop's condition.
TrimOneTooMany(f) ==
  [j \in DOMAIN f |->
     IF /\ j \in FinishedIn(f)
        /\ Cardinality({k \in FinishedIn(f) : k > j}) + 1 >= MAX_FINISHED_JOBS
     THEN NoJob ELSE f[j]]

\* _trim_finished_locked: the oldest finished records are dropped until at most
\* MAX_FINISHED_JOBS are left.
trim_finished(f) ==
  [j \in DOMAIN f |->
     IF /\ j \in FinishedIn(f)
        /\ Cardinality({k \in FinishedIn(f) : k > j}) >= MAX_FINISHED_JOBS
     THEN NoJob ELSE f[j]]

\* Slip: shutdown joins the worker while it holds the lock.
FinishNeedsFreeLock(j, pc, record) ==
  /\ shutdown # "joining"
  /\ thread[j].pc = pc
  /\ jobs' = trim_finished([jobs EXCEPT ![j] = record])
  /\ active' = None
  /\ worker' = None
  /\ thread' = [thread EXCEPT ![j] = EndedThread]
  /\ UNCHANGED <<drawn, shutting_down, registry, shutdown, joined, seen>>

\* The last locked block of the thread: jobs[j] is looked up (a KeyError if it
\* were gone), updated, and the history trimmed; then the thread ends.
Finish(j, pc, record) ==
  /\ thread[j].pc = pc
  /\ jobs[j] # NoJob
  /\ jobs' = trim_finished([jobs EXCEPT ![j] = record])
  /\ active' = None
  /\ worker' = None
  /\ thread' = [thread EXCEPT ![j] = EndedThread]
  /\ UNCHANGED <<drawn, shutting_down, registry, shutdown, joined, seen>>

\* Slip: the presentation is not stored in the record.
FinishWithoutResult(j) ==
  Finish(j, "complete", [status |-> "COMPLETED", result |-> None, error |-> None])

FinishCompleted(j) ==
  Finish(j, "complete",
         [status |-> "COMPLETED", result |-> thread[j].outcome, error |-> None])

finish_failed(j) ==
  Finish(j, "fail", [status |-> "FAILED", result |-> None, error |-> thread[j].code])

run_job(j) ==
  Orchestrate(j) \/ RegisterLive(j) \/ PresentBundle(j) \/ FinishCompleted(j) \/ finish_failed(j)

-------------------------------------------------------------------------------
(* The lifespan's exit: shutdown(wait=True). *)

\* Slip: shutdown does not wait for the worker.
ShutdownWithoutJoin ==
  /\ shutdown = "serving"
  /\ shutting_down' = TRUE
  /\ joined' = worker
  /\ shutdown' = "returned"
  /\ UNCHANGED <<jobs, drawn, active, worker, thread, registry, seen>>

BeginShutdown ==
  /\ shutdown = "serving"
  /\ shutting_down' = TRUE
  /\ joined' = worker
  /\ shutdown' = IF worker = None THEN "returned" ELSE "joining"
  /\ UNCHANGED <<jobs, drawn, active, worker, thread, registry, seen>>

JoinReturns ==
  /\ shutdown = "joining"
  /\ thread[joined].pc = "exited"
  /\ shutdown' = "returned"
  /\ UNCHANGED <<jobs, drawn, active, worker, shutting_down, thread, registry, joined, seen>>

Next ==
  \/ start_job \/ StartThreadFails
  \/ \E j \in JobIds : get_job(j) \/ run_job(j)
  \/ BeginShutdown \/ JoinReturns

\* A thread that can run does; orchestrator.run() ends, see VerificationRun!RunTerminates.
Spec ==
  /\ Init /\ [][Next]_vars
  /\ \A j \in JobIds : WF_vars(run_job(j))
  /\ WF_vars(JoinReturns)

-------------------------------------------------------------------------------
(* Properties. *)

Records ==
  {NoJob, RunningJob}
    \cup [status : {"COMPLETED"}, result : Outcomes, error : {None}]
    \cup [status : {"FAILED"}, result : {None}, error : ErrorCodes]

Threads ==
  [pc : Live \cup {"none", "exited"}, outcome : Outcomes \cup {None},
   code : ErrorCodes \cup {None}]

\* Every variable has the type its Python counterpart has.
TypeOK ==
  /\ jobs \in [JobIds -> Records]
  /\ drawn \in 0 .. MaxJobs
  /\ active \in JobIds \cup {None}
  /\ worker \in JobIds \cup {None}
  /\ shutting_down \in BOOLEAN
  /\ thread \in [JobIds -> Threads]
  /\ registry \in [JobIds -> Outcomes \cup {None}]
  /\ shutdown \in {"serving", "joining", "returned"}
  /\ joined \in JobIds \cup {None}
  /\ seen \in [JobIds -> {"nothing", "404", "RUNNING"} \cup Finished]

\* One orchestrator at a time, and the manager knows it: a thread that is still
\* running its job is the active one, and its record is in the dict as RUNNING
\* until it finishes; without such a thread the next start is accepted.
OneActiveJob ==
  /\ \A j \in JobIds : thread[j].pc \in Live <=> active = j
  /\ \A j \in JobIds : jobs[j].status = "RUNNING" <=> active = j
  /\ worker = active

\* The history is bounded, and what is retained is the most recent: a dropped job
\* is older than every finished job that is still there.
BoundedHistory ==
  /\ Cardinality(FinishedIn(jobs)) <= MAX_FINISHED_JOBS
  /\ \A j \in JobIds : thread[j].pc = "exited" /\ jobs[j] = NoJob =>
       \A k \in FinishedIn(jobs) : j < k

\* The job a client started last is never dropped under it: polling it cannot
\* answer 404 before MAX_FINISHED_JOBS further jobs have finished.
RecentJobIsKnown ==
  \A j \in JobIds :
    /\ thread[j].pc # "none"
    /\ Cardinality({k \in JobIds : k > j /\ thread[k].pc = "exited"}) < MAX_FINISHED_JOBS
    => jobs[j] # NoJob

\* A job is reported COMPLETED only after its bundle was registered, with the
\* outcome of the bundle that is served under its id.
CompletedIsRegistered ==
  \A j \in JobIds : jobs[j].status = "COMPLETED" =>
    registry[j] # None /\ jobs[j].result = registry[j]

\* When shutdown has returned no verification is running and none can start, however
\* the call interleaved with a start and with the end of a job.
ShutdownIsFinal ==
  shutdown = "returned" => active = None /\ \A j \in JobIds : thread[j].pc \notin Live

\* What holds between the locals of the threads, the dict, the registry and the
\* caller of shutdown: the facts that make the invariants above inductive.
ThreadsAgree ==
  \A j \in JobIds :
    /\ thread[j].pc # "none" => j <= drawn
    /\ active = j => j = drawn
    /\ thread[j].pc = "none" => jobs[j] = NoJob
    /\ thread[j].pc \in {"register", "present", "complete"} => thread[j].outcome \in Outcomes
    /\ thread[j].pc \in {"present", "complete"} => registry[j] = thread[j].outcome
    /\ thread[j].pc = "fail" => thread[j].code \in ErrorCodes

SeenAgrees ==
  \A j \in JobIds :
    /\ seen[j] \in Finished \cup {"404"} => thread[j].pc = "exited"
    /\ seen[j] \in Finished => jobs[j] = NoJob \/ jobs[j].status = seen[j]
    /\ seen[j] = "404" => jobs[j] = NoJob

ShutdownAgrees ==
  /\ shutting_down <=> shutdown # "serving"
  /\ shutdown = "joining" => joined \in JobIds /\ active \in {joined, None}
  /\ shutdown = "returned" => active = None

\* A polling client never sees a job go back: a final status stays until the job
\* is dropped, and a dropped job does not come back.
PollsNeverGoBack ==
  [][\A j \in JobIds :
       /\ seen[j] \in Finished => seen'[j] \in {seen[j], "404"}
       /\ seen[j] = "404" => seen'[j] = "404"]_vars

\* Every job that was started ends with a final status.
EveryJobFinishes ==
  \A j \in JobIds : (thread[j].pc = "run") ~> (thread[j].pc = "exited" /\ active # j)

\* Shutdown does not hang: the thread it joins ends.
ShutdownReturns == (shutdown = "joining") ~> (shutdown = "returned")

-------------------------------------------------------------------------------
(* What a client can learn of a job, and the promise that is kept. *)

View ==
  [j \in JobIds |->
     IF jobs[j] # NoJob THEN jobs[j].status
     ELSE IF thread[j].pc = "none" THEN "NEW" ELSE "GONE"]

Slot == INSTANCE VerificationSlot
          WITH Jobs <- JobIds, Limit <- MAX_FINISHED_JOBS, view <- View,
               closed <- shutting_down, stopped <- (shutdown = "returned")

\* The threads, the lock, the dict and the trimming of VerificationJobManager
\* together are one slot: each of their steps is a step of VerificationSlot or
\* changes nothing a client can learn, and every job frees the slot.
ImplementsSlot == Slot!Spec
===============================================================================
