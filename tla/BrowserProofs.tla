----------------------------- MODULE BrowserProofs ----------------------------
(* Proofs about Browser, for any set of jobs: whatever the order in which the   *)
(* two functions of the page, the server and the user's reloads take turns.     *)
EXTENDS Browser, TLAPS

PageInvariant == TypeOK /\ ButtonsAgree /\ LiveResultIsCompleted /\ IdlePageIsUsable

\* The page as the browser loads it.
LEMMA PageInit == Init => PageInvariant
<1> SUFFICES ASSUME Init PROVE PageInvariant
  OBVIOUS
<1> USE BrowserConstants DEF Init, LoadPage
<1>1. TypeOK
  BY DEF TypeOK, Results
<1>2. ButtonsAgree /\ LiveResultIsCompleted /\ IdlePageIsUsable
  BY DEF ButtonsAgree, LiveResultIsCompleted, IdlePageIsUsable
<1> QED
  BY <1>1, <1>2 DEF PageInvariant

\* Every step of loadDemo, of runVerification, of the server and of the user keeps it.
LEMMA PageNext == PageInvariant /\ [Next]_vars => PageInvariant'
<1> SUFFICES ASSUME PageInvariant, [Next]_vars PROVE PageInvariant'
  OBVIOUS
<1> USE BrowserConstants
    DEF PageInvariant, TypeOK, ButtonsAgree, LiveResultIsCompleted, IdlePageIsUsable
<1>1. CASE loadDemo
  BY <1>1 DEF loadDemo, clearError, setStatus
<1>2. CASE runVerification
  BY <1>2 DEF runVerification, clearError, setStatus
<1>3. CASE DemoAnswered
  BY <1>3 DEF DemoAnswered, renderPresentation, setStatus, DemoFinally, Results
<1>4. CASE DemoFails
  BY <1>4 DEF DemoFails, showError, setStatus, DemoFinally, Results
<1>5. CASE \E j \in JobIds : StartAnswered(j)
  BY <1>5 DEF StartAnswered, start_verification, Unused, setStatus
<1>6. CASE \E j \in JobIds : StartAnswerLost(j)
  <2>1. /\ jobs' \in [JobIds -> {None, "RUNNING", "COMPLETED", "FAILED"}]
        /\ \A j \in JobIds : jobs[j] = "COMPLETED" => jobs'[j] = "COMPLETED"
    BY <1>6 DEF StartAnswerLost, start_verification, Unused
  <2>2. RunCatch /\ UNCHANGED <<shown, hasValid, demo, asked>>
    BY <1>6 DEF StartAnswerLost
  <2> QED
    BY <2>1, <2>2 DEF RunCatch, RunFinally, showError, setStatus
<1>7. CASE StartRefused \/ PollFails
  <2>1. RunCatch /\ UNCHANGED <<shown, hasValid, demo, asked, jobs>>
    BY <1>7 DEF StartRefused, PollFails
  <2> QED
    BY <2>1 DEF RunCatch, RunFinally, showError, setStatus
<1>8. CASE PollCompleted
  <2>1. /\ activeJobId \in JobIds /\ jobs[activeJobId] = "COMPLETED"
        /\ shown' = activeJobId /\ shown' \in Results /\ hasValid' = TRUE
    BY <1>8 DEF PollCompleted, renderPresentation, Results
  <2> QED
    BY <1>8, <2>1 DEF PollCompleted, RunFinally, setStatus
<1>9. CASE PollRunning
  BY <1>9 DEF PollRunning, setStatus
<1>10. CASE Server
  <2>1. UNCHANGED pageVars
    BY <1>10 DEF Server, OtherStarts, FinishJob
  <2>2. /\ jobs' \in [JobIds -> {None, "RUNNING", "COMPLETED", "FAILED"}]
        /\ \A j \in JobIds : jobs[j] = "COMPLETED" => jobs'[j] = "COMPLETED"
    BY <1>10 DEF Server, OtherStarts, FinishJob, start_verification, Unused
  <2> QED
    BY <2>1, <2>2 DEF pageVars
<1>11. CASE Reload
  <2>1. /\ shown' = "placeholder" /\ hasValid' = FALSE /\ running' = TRUE /\ error' = FALSE
        /\ demo' = "fetch" /\ run' = "none" /\ disabled' = {"load-demo"}
        /\ activeJobId' = None /\ asked' = "nothing" /\ jobs' = jobs
    BY <1>11 DEF Reload, LoadPage
  <2>2. "placeholder" \notin Results /\ "placeholder" \notin JobIds
    BY DEF Results
  <2>3. TypeOK'
    BY <2>1, <2>2
  <2>4. ButtonsAgree' /\ LiveResultIsCompleted' /\ IdlePageIsUsable'
    BY <2>1, <2>2
  <2> QED
    BY <2>3, <2>4
<1>12. CASE UNCHANGED vars
  BY <1>12 DEF vars, pageVars
<1> QED
  BY <1>1, <1>2, <1>3, <1>4, <1>5, <1>6, <1>7, <1>8, <1>9, <1>10, <1>11, <1>12
     DEF Next, DemoTask, RunTask

LEMMA PageAlways == Spec => []PageInvariant
  BY PageInit, PageNext, PTL DEF Spec

\* The elements of the page keep their types; hasValidResult is set exactly while a
\* result is shown, and activeJobId exactly while pollJob runs.
THEOREM TypeCorrect == Spec => []TypeOK
  BY PageAlways, PTL DEF PageInvariant

\* renderPresentation is reached by pollJob only for a job that has COMPLETED, and such a
\* job stays so, whoever starts and ends jobs on the server meanwhile.
THEOREM LiveResultIsCompletedAlways == Spec => []LiveResultIsCompleted
  BY PageAlways, PTL DEF PageInvariant

\* The finally clauses of loadDemo and runVerification together leave an idle page with
\* both buttons enabled and no running mark, in whatever order the two end.
THEOREM IdlePageIsUsableAlways == Spec => []IdlePageIsUsable
  BY PageAlways, PTL DEF PageInvariant

\* The catch clauses of loadDemo and runVerification leave a verified result on the page.
THEOREM FailureKeepsResultAlways == Spec => FailureKeepsResult
<1> DEFINE Kept == shown \in Results => shown' \in Results \/ Reload
<1>1. PageInvariant /\ [Next]_vars => [Kept]_vars
  <2> SUFFICES ASSUME PageInvariant, Next, shown \in Results, ~Reload
               PROVE  shown' \in Results
    OBVIOUS
  <2>1. hasValid
    BY DEF PageInvariant, TypeOK
  <2>2. CASE DemoTask
    BY <2>1, <2>2 DEF DemoTask, DemoAnswered, DemoFails, renderPresentation, Results
  <2>3. CASE RunTask
    BY <2>3 DEF RunTask, StartAnswered, StartAnswerLost, StartRefused, PollCompleted, PollFails,
                renderPresentation, PageInvariant, ButtonsAgree, Results
  <2>4. CASE loadDemo \/ runVerification \/ PollRunning \/ Server
    BY <2>4 DEF loadDemo, runVerification, PollRunning, Server, OtherStarts, FinishJob, pageVars
  <2> QED
    BY <2>2, <2>3, <2>4 DEF Next
<1> QED
  BY <1>1, PageAlways, PTL DEF Spec, FailureKeepsResult
===============================================================================
