-------------------------------- MODULE Browser -------------------------------
(* The dashboard page, app/static/app.js, against the routes of app/main.py.    *)
(* The page runs two asynchronous functions, loadDemo and runVerification, each *)
(* at most once at a time because it disables its own button; between two       *)
(* awaits of one the other may go on, and both write the same elements.  The    *)
(* server is what a page can tell of it: the status of each job (JobManager).   *)
CONSTANTS
  JobIds,   \* the jobs that may be started, which bounds their number
  None

ASSUME BrowserConstants == /\ {"placeholder", "unavailable", "demo"} \cap JobIds = {}
                           /\ None \notin JobIds \cup {"RUNNING", "COMPLETED", "FAILED"}

VARIABLES
  shown,       \* the result on the page: "placeholder", "unavailable", "demo" or a job
  hasValid,    \* hasValidResult
  running,     \* the is-running class of the status line
  error,       \* the error message is visible
  demo,        \* loadDemo: "none" or "fetch"; its button is disabled with it
  run,         \* runVerification: "none", "post" or "poll"
  disabled,    \* the disabled buttons
  activeJobId,
  jobs,        \* [job -> its status on the server, or None if not started]
  asked        \* what the user asked for last, of those that were answered or are under way

pageVars == <<shown, hasValid, running, error, demo, run, disabled, activeJobId, asked>>
vars == <<pageVars, jobs>>

Results == {"demo"} \cup JobIds

\* A page just loaded has called loadDemo(false).
LoadPage ==
  [shown |-> "placeholder", hasValid |-> FALSE, running |-> TRUE, error |-> FALSE,
   demo |-> "fetch", run |-> "none", disabled |-> {"load-demo"}, activeJobId |-> None,
   asked |-> "nothing"]

Init ==
  /\ shown = LoadPage.shown /\ hasValid = LoadPage.hasValid
  /\ running = LoadPage.running /\ error = LoadPage.error
  /\ demo = LoadPage.demo /\ run = LoadPage.run
  /\ disabled = LoadPage.disabled /\ activeJobId = LoadPage.activeJobId
  /\ asked = LoadPage.asked
  /\ jobs = [j \in JobIds |-> None]

setStatus(isRunning) == running' = isRunning
showError == error' = TRUE
clearError == error' = FALSE

\* Slip: the page does not remember that it has a result.
RenderWithoutFlag(result) == shown' = result /\ UNCHANGED hasValid

renderPresentation(result) == shown' = result /\ hasValid' = TRUE

Active == {j \in JobIds : jobs[j] = "RUNNING"}
Unused == {j \in JobIds : jobs[j] = None}

-------------------------------------------------------------------------------
(* loadDemo. *)

loadDemo ==
  /\ "load-demo" \notin disabled
  /\ clearError
  /\ disabled' = disabled \cup {"load-demo"}
  /\ setStatus(TRUE)
  /\ demo' = "fetch"
  /\ asked' = "demo"
  /\ UNCHANGED <<shown, hasValid, run, activeJobId, jobs>>

DemoFinally == demo' = "none" /\ disabled' = disabled \ {"load-demo"}

DemoAnswered ==
  /\ demo = "fetch"
  /\ renderPresentation("demo")
  /\ setStatus(FALSE)
  /\ DemoFinally
  /\ UNCHANGED <<error, run, activeJobId, asked, jobs>>

\* Slip: the failure is shown in place of the result.
DemoFailureReplacesResult ==
  /\ demo = "fetch"
  /\ showError
  /\ shown' = "unavailable"
  /\ hasValid' = FALSE
  /\ setStatus(FALSE)
  /\ DemoFinally
  /\ UNCHANGED <<run, activeJobId, asked, jobs>>

\* Slip: the button is enabled again only after a success.
DemoFailureKeepsButton ==
  /\ demo = "fetch"
  /\ showError
  /\ shown' = IF hasValid THEN shown ELSE "unavailable"
  /\ setStatus(FALSE)
  /\ demo' = "none"
  /\ UNCHANGED <<hasValid, run, disabled, activeJobId, asked, jobs>>

\* The request fails, the bundle is unavailable, or the answer does not validate.
DemoFails ==
  /\ demo = "fetch"
  /\ showError
  /\ shown' = IF hasValid THEN shown ELSE "unavailable"
  /\ setStatus(FALSE)
  /\ DemoFinally
  /\ UNCHANGED <<hasValid, run, activeJobId, asked, jobs>>

-------------------------------------------------------------------------------
(* runVerification and pollJob. *)

runVerification ==
  /\ "run-verification" \notin disabled
  /\ clearError
  /\ disabled' = disabled \cup {"run-verification"}
  /\ setStatus(TRUE)
  /\ run' = "post"
  /\ asked' = "live"
  /\ UNCHANGED <<shown, hasValid, demo, activeJobId, jobs>>

RunFinally ==
  /\ run' = "none"
  /\ activeJobId' = None
  /\ disabled' = disabled \ {"run-verification"}

RunCatch == showError /\ setStatus(FALSE) /\ RunFinally

start_verification(j) ==
  /\ Active = {}
  /\ j \in Unused
  /\ jobs' = [jobs EXCEPT ![j] = "RUNNING"]

StartAnswered(j) ==
  /\ run = "post"
  /\ start_verification(j)
  /\ activeJobId' = j
  /\ setStatus(TRUE)
  /\ run' = "poll"
  /\ UNCHANGED <<shown, hasValid, error, demo, disabled, asked>>

\* The job is started, but its answer does not reach the page.
StartAnswerLost(j) ==
  /\ run = "post"
  /\ start_verification(j)
  /\ RunCatch
  /\ UNCHANGED <<shown, hasValid, demo, asked>>

\* 409, 503, 500 or no server.
StartRefused ==
  /\ run = "post"
  /\ RunCatch
  /\ UNCHANGED <<shown, hasValid, demo, asked, jobs>>

\* Slip: every known status is taken for the end of the job.
PollRendersAnyStatus ==
  /\ run = "poll"
  /\ renderPresentation(activeJobId)
  /\ setStatus(FALSE)
  /\ RunFinally
  /\ UNCHANGED <<error, demo, asked, jobs>>

PollCompleted ==
  /\ run = "poll"
  /\ jobs[activeJobId] = "COMPLETED"
  /\ renderPresentation(activeJobId)
  /\ setStatus(FALSE)
  /\ RunFinally
  /\ UNCHANGED <<error, demo, asked, jobs>>

PollRunning ==
  /\ run = "poll"
  /\ jobs[activeJobId] = "RUNNING"
  /\ setStatus(TRUE)
  /\ UNCHANGED <<shown, hasValid, error, demo, run, disabled, activeJobId, asked, jobs>>

\* Slip: the page polls as long as the job runs.
PollWithoutDeadline ==
  /\ run = "poll"
  /\ jobs[activeJobId] # "RUNNING"
  /\ RunCatch
  /\ UNCHANGED <<shown, hasValid, demo, asked, jobs>>

\* FAILED, a job the server does not know any more, an answer that is not valid, a
\* request that fails, or the 120 s deadline.
PollFails ==
  /\ run = "poll"
  /\ RunCatch
  /\ UNCHANGED <<shown, hasValid, demo, asked, jobs>>

-------------------------------------------------------------------------------
(* The server, and the user's reload. *)

FinishJob(j, status) ==
  /\ jobs[j] = "RUNNING"
  /\ jobs' = [jobs EXCEPT ![j] = status]
  /\ UNCHANGED pageVars

\* Somebody else's page starts a job.
OtherStarts(j) == start_verification(j) /\ UNCHANGED pageVars

Reload ==
  /\ shown' = LoadPage.shown /\ hasValid' = LoadPage.hasValid
  /\ running' = LoadPage.running /\ error' = LoadPage.error
  /\ demo' = LoadPage.demo /\ run' = LoadPage.run
  /\ disabled' = LoadPage.disabled /\ activeJobId' = LoadPage.activeJobId
  /\ asked' = LoadPage.asked
  /\ UNCHANGED jobs

DemoTask == DemoAnswered \/ DemoFails

RunTask ==
  \/ \E j \in JobIds : StartAnswered(j) \/ StartAnswerLost(j)
  \/ StartRefused \/ PollCompleted \/ PollFails

Server == \E j \in JobIds :
            OtherStarts(j) \/ FinishJob(j, "COMPLETED") \/ FinishJob(j, "FAILED")

Next == loadDemo \/ runVerification \/ DemoTask \/ RunTask \/ PollRunning \/ Server \/ Reload

\* A fetch settles, and the deadline of pollJob passes; the user and the server are
\* free.
Spec == Init /\ [][Next]_vars /\ WF_vars(DemoTask) /\ WF_vars(RunTask)

-------------------------------------------------------------------------------
(* Properties. *)

\* Every element of the page has its type; the flag that protects a result is set
\* exactly while one is shown, and a job id is kept exactly while it is polled.
TypeOK ==
  /\ shown \in {"placeholder", "unavailable"} \cup Results
  /\ hasValid \in BOOLEAN /\ (hasValid <=> shown \in Results)
  /\ running \in BOOLEAN /\ error \in BOOLEAN
  /\ demo \in {"none", "fetch"}
  /\ run \in {"none", "post", "poll"}
  /\ disabled \subseteq {"load-demo", "run-verification"}
  /\ (activeJobId # None <=> run = "poll")
  /\ jobs \in [JobIds -> {None, "RUNNING", "COMPLETED", "FAILED"}]
  /\ asked \in {"nothing", "demo", "live"}

\* A button is disabled exactly while its own function is under way, and the job that
\* is polled is one the server knows: the facts that make the invariants inductive.
ButtonsAgree ==
  /\ "load-demo" \in disabled <=> demo = "fetch"
  /\ "run-verification" \in disabled <=> run # "none"
  /\ run = "poll" => activeJobId \in JobIds

\* A failure of either function never takes away a verified result that the page
\* shows, whichever of them had shown it and in whatever order they end; only a
\* reload does (the catch clauses of loadDemo and runVerification).
FailureKeepsResult == [][(shown \in Results) => shown' \in Results \/ Reload]_vars

\* A live result on the page is that of a job which has COMPLETED: never of one that
\* runs, has failed, or that the server refused to start.
LiveResultIsCompleted == shown \in JobIds => jobs[shown] = "COMPLETED"

\* A page with nothing under way does not claim to be running and can be used again.
IdlePageIsUsable == demo = "none" /\ run = "none" => ~running /\ disabled = {}

\* However long the job runs on the server, the page gives up on it.
LiveRunEnds == run # "none" ~> run = "none"

\* docs/DEMO_FLOW.md:12: the completed live run replaces the demo.  As long as the
\* user asks for nothing else, it stays.
LiveReplacesDemo ==
  [][(shown \in JobIds /\ asked = "live") => shown' \in JobIds \/ Reload]_vars
===============================================================================
