---------------------------- MODULE ServicesProofs ----------------------------
(* Proofs about Services, for any number of concurrent runs and of scenarios.   *)
EXTENDS Services, FiniteSetTheorems, TLAPS

Pcs == {"idle", "check", "spawn", "health", "assert", "scenario", "terminate", "wait", "done"}
Steps == 0 .. Scenarios + Len(Specifications) + 1
ChildStates == Alive \cup {"none", "exited"}
Results == {"none", "ok", "VerificationError", "OSError", "TimeoutExpired", "killed"}

\* TypeOK without the count of listeners, which follows from OneListener.
Types ==
  /\ pc \in [Runs -> Pcs]
  /\ step \in [Runs -> Steps]
  /\ child \in [Runs -> [Ports -> ChildStates]]
  /\ result \in [Runs -> Results]
  /\ used \in [Runs -> SUBSET Runs]
  /\ overlap \in SUBSET Runs

OneListener == \A p \in Ports : \A r, q \in Listeners(p) : r = q

OrphanFree(r) ==
  pc[r] = "done" /\ result[r] \in {"ok", "VerificationError"} => LiveChildren(r) = {}

LifecycleInvariant == Types /\ ChildrenAgree /\ NoOrphan

\* The three services have one port each.
LEMMA SpecificationFacts ==
  /\ Len(Specifications) = 3 /\ DOMAIN Specifications = 1 .. 3
  /\ \A i \in 1 .. 3 : Specifications[i] \in Ports
  /\ \A p \in Ports : \E i \in 1 .. 3 : p = Specifications[i]
  /\ \A i, k \in 1 .. 3 : Specifications[i] = Specifications[k] => i = k
  BY DEF Specifications, Ports

\* What one assignment to the position of a run does.
LEMMA GotoEffect ==
  ASSUME Types, NEW r \in Runs, NEW to \in Pcs, NEW n \in Steps, Goto(r, to, n)
  PROVE  /\ pc' \in [Runs -> Pcs] /\ step' \in [Runs -> Steps]
         /\ pc'[r] = to /\ step'[r] = n
         /\ \A q \in Runs \ {r} : pc'[q] = pc[q] /\ step'[q] = step[q]
  BY DEF Types, Goto

\* A step that leaves the children alone leaves the live ones alone.
LEMMA SameLiveChildren ==
  ASSUME NEW r \in Runs, child'[r] = child[r]
  PROVE  LiveChildren(r)' = LiveChildren(r)
  BY DEF LiveChildren

\* What any step of run() in run r, and its death, may do: it moves r alone, and it
\* makes no child listen.
OwnStep(r) ==
  /\ Types'
  /\ \A q \in Runs \ {r} : /\ pc'[q] = pc[q] /\ step'[q] = step[q] /\ child'[q] = child[q]
                           /\ result'[q] = result[q] /\ used'[q] = used[q]
  /\ \A p \in Ports : child'[r][p] = "listening" => child[r][p] = "listening"
  /\ ChildrenAgreeOf(r)'
  /\ OrphanFree(r)'

\* Nearly all steps of run() only move it and may set its result.
LEMMA MoveEffect ==
  ASSUME Types, NEW r \in Runs, NEW to \in Pcs, NEW n \in Steps, Goto(r, to, n),
         \/ UNCHANGED result
         \/ \E v \in Results : result' = [result EXCEPT ![r] = v],
         UNCHANGED <<child, used>>,
         overlap' \in SUBSET Runs,
         ChildrenAgreeOf(r)', OrphanFree(r)'
  PROVE  OwnStep(r)
<1>1. Types'
  <2>1. result' \in [Runs -> Results]
    <3>1. ASSUME NEW v \in Results, result' = [result EXCEPT ![r] = v]
          PROVE  result' \in [Runs -> Results]
      BY <3>1 DEF Types
    <3>2. CASE UNCHANGED result
      BY <3>2 DEF Types
    <3> QED
      BY <3>1, <3>2
  <2>2. pc' \in [Runs -> Pcs] /\ step' \in [Runs -> Steps]
    BY GotoEffect DEF Types
  <2> QED
    BY <2>1, <2>2 DEF Types
<1>2. \A q \in Runs \ {r} : result'[q] = result[q]
  <2>1. ASSUME NEW v \in Results, result' = [result EXCEPT ![r] = v], NEW q \in Runs \ {r}
        PROVE  result'[q] = result[q]
    BY <2>1 DEF Types
  <2>2. CASE UNCHANGED result
    BY <2>2
  <2> QED
    BY <2>1, <2>2
<1> QED
  BY <1>1, <1>2, GotoEffect DEF OwnStep

\* run() up to its first scenario: the probe of the ports, and start_services with
\* each way in which it can fail.
LEMMA StartSteps ==
  ASSUME LifecycleInvariant, NEW r \in Runs, BeginRun(r) \/ start_services(r)
  PROVE  OwnStep(r)
<1> USE SpecificationFacts, ScenariosAssumption DEF LifecycleInvariant
<1>0. /\ \A n \in 0 .. 3 : n \in Steps
      /\ ChildrenAgreeOf(r)
  BY DEF Steps, ChildrenAgree
<1>1. CASE BeginRun(r)
  <2>1. /\ Goto(r, "check", 0) /\ UNCHANGED <<child, result, used>>
        /\ overlap' \in SUBSET Runs /\ LiveChildren(r) = {}
    BY <1>0, <1>1 DEF BeginRun, UnderWay, Types, ChildrenAgreeOf
  <2>2. pc'[r] = "check" /\ LiveChildren(r)' = {}
    BY <1>0, <2>1, GotoEffect, SameLiveChildren DEF Pcs
  <2>3. ChildrenAgreeOf(r)' /\ OrphanFree(r)'
    BY <2>2 DEF ChildrenAgreeOf, OrphanFree
  <2> QED
    BY <1>0, <2>1, <2>3, MoveEffect DEF Pcs
<1>2. CASE assert_ports_available(r)
  <2>1. /\ UNCHANGED <<child, used, overlap>> /\ LiveChildren(r)' = {}
        /\ overlap' \in SUBSET Runs
    BY <1>0, <1>2, SameLiveChildren DEF assert_ports_available, ChildrenAgreeOf, Types
  <2>2. CASE Goto(r, "done", 0) /\ result' = [result EXCEPT ![r] = "VerificationError"]
    <3>1. pc'[r] = "done"
      BY <1>0, <2>2, GotoEffect DEF Pcs
    <3>2. ChildrenAgreeOf(r)' /\ OrphanFree(r)'
      BY <2>1, <3>1 DEF ChildrenAgreeOf, OrphanFree
    <3>3. \E v \in Results : result' = [result EXCEPT ![r] = v]
      BY <2>2 DEF Results
    <3>4. 0 \in Steps /\ "done" \in Pcs
      BY <1>0 DEF Pcs
    <3> QED
      BY <2>1, <2>2, <3>2, <3>3, <3>4, MoveEffect
  <2>3. CASE Goto(r, "spawn", 1) /\ UNCHANGED result
    <3>1. pc'[r] = "spawn" /\ step'[r] = 1
      BY <1>0, <2>3, GotoEffect DEF Pcs
    <3>2. ChildrenAgreeOf(r)' /\ OrphanFree(r)'
      BY <2>1, <3>1 DEF ChildrenAgreeOf, OrphanFree
    <3> QED
      BY <1>0, <2>1, <2>3, <3>2, MoveEffect DEF Pcs
  <2> QED
    BY <1>2, <2>2, <2>3 DEF assert_ports_available
<1>3. CASE start_service(r)
  <2> DEFINE s == step[r]
             p == Specifications[s]
  <2>1. /\ pc[r] = "spawn" /\ s \in 1 .. 3 /\ p \in Ports
        /\ child' = [child EXCEPT ![r][p] = "starting"]
        /\ Goto(r, "health", s) /\ UNCHANGED <<result, used, overlap>>
    BY <1>0, <1>3 DEF start_service, ChildrenAgreeOf
  <2>2. /\ pc' \in [Runs -> Pcs] /\ step' \in [Runs -> Steps]
        /\ pc'[r] = "health" /\ step'[r] = s
        /\ \A q \in Runs \ {r} : pc'[q] = pc[q] /\ step'[q] = step[q]
    BY <1>0, <2>1, GotoEffect DEF Pcs
  <2>3. /\ child' \in [Runs -> [Ports -> ChildStates]]
        /\ child'[r][p] = "starting"
        /\ \A x \in Ports \ {p} : child'[r][x] = child[r][x]
        /\ \A q \in Runs \ {r} : child'[q] = child[q]
    BY <2>1 DEF Types, ChildStates, Alive
  <2>4. Types'
    BY <2>1, <2>2, <2>3 DEF Types
  <2>5. ChildrenAgreeOf(r)'
    BY <1>0, <2>1, <2>2, <2>3 DEF ChildrenAgreeOf, LiveChildren
  <2> QED
    BY <2>1, <2>2, <2>3, <2>4, <2>5 DEF OwnStep, OrphanFree
<1>4. CASE SpawnFails(r)
  <2>1. /\ step[r] \in 1 .. 3 /\ step[r] - 1 \in 0 .. 3 /\ pc[r] = "spawn"
        /\ Goto(r, "terminate", step[r] - 1) /\ UNCHANGED <<child, used, overlap>>
        /\ result' = [result EXCEPT ![r] = "VerificationError"]
    BY <1>0, <1>4 DEF SpawnFails, StopAfter, ChildrenAgreeOf
  <2>2. /\ pc'[r] = "terminate" /\ step'[r] = step[r] - 1
        /\ LiveChildren(r)' = LiveChildren(r)
    BY <1>0, <2>1, GotoEffect, SameLiveChildren DEF Pcs
  <2>3. ChildrenAgreeOf(r)' /\ OrphanFree(r)'
    BY <1>0, <2>1, <2>2 DEF ChildrenAgreeOf, OrphanFree
  <2> QED
    BY <1>0, <2>1, <2>3, MoveEffect DEF Pcs, Results, Types
<1>5. CASE LogOpenFails(r)
  <2>1. pc'[r] = "done" /\ result'[r] = "OSError"
    BY <1>0, <1>5, GotoEffect DEF LogOpenFails, Pcs, Types
  <2>2. ChildrenAgreeOf(r)' /\ OrphanFree(r)'
    BY <2>1 DEF ChildrenAgreeOf, OrphanFree
  <2>3. \E v \in Results : result' = [result EXCEPT ![r] = v]
    BY <1>5 DEF LogOpenFails, Results
  <2>4. 0 \in Steps /\ "done" \in Pcs
    BY <1>0 DEF Pcs
  <2> QED
    BY <1>5, <2>2, <2>3, <2>4, MoveEffect DEF LogOpenFails, Types
<1>6. CASE Healthy(r)
  <2>1. /\ pc[r] = "health" /\ step[r] \in 1 .. 3 /\ UNCHANGED <<child, result, used, overlap>>
        /\ \/ Goto(r, "assert", 1)
           \/ step[r] # 3 /\ Goto(r, "spawn", step[r] + 1)
        /\ LiveChildren(r)' = LiveChildren(r)
    BY <1>0, <1>6, SameLiveChildren DEF Healthy, ChildrenAgreeOf
  <2>2. CASE Goto(r, "assert", 1)
    <3>1. pc'[r] = "assert" /\ step'[r] = 1
      BY <1>0, <2>2, GotoEffect DEF Pcs
    <3>2. ChildrenAgreeOf(r)' /\ OrphanFree(r)'
      BY <3>1 DEF ChildrenAgreeOf, OrphanFree
    <3> QED
      BY <1>0, <2>1, <2>2, <3>2, MoveEffect DEF Pcs, Types
  <2>3. CASE step[r] # 3 /\ Goto(r, "spawn", step[r] + 1)
    <3>1. pc'[r] = "spawn" /\ step'[r] = step[r] + 1 /\ step[r] + 1 \in 1 .. 3
      BY <1>0, <2>1, <2>3, GotoEffect DEF Pcs
    <3>2. ChildrenAgreeOf(r)' /\ OrphanFree(r)'
      BY <1>0, <2>1, <3>1 DEF ChildrenAgreeOf, OrphanFree
    <3> QED
      BY <1>0, <2>1, <2>3, <3>1, <3>2, MoveEffect DEF Pcs, Types
  <2> QED
    BY <2>1, <2>2, <2>3
<1>7. CASE Unhealthy(r)
  <2>1. /\ pc[r] = "health" /\ step[r] \in 1 .. 3
        /\ Goto(r, "terminate", step[r]) /\ UNCHANGED <<child, used, overlap>>
        /\ result' = [result EXCEPT ![r] = "VerificationError"]
    BY <1>0, <1>7 DEF Unhealthy, StopAfter, ChildrenAgreeOf
  <2>2. /\ pc'[r] = "terminate" /\ step'[r] = step[r]
        /\ LiveChildren(r)' = LiveChildren(r)
    BY <1>0, <2>1, GotoEffect, SameLiveChildren DEF Pcs
  <2>3. ChildrenAgreeOf(r)' /\ OrphanFree(r)'
    BY <1>0, <2>1, <2>2 DEF ChildrenAgreeOf, OrphanFree
  <2> QED
    BY <1>0, <2>1, <2>3, MoveEffect DEF Pcs, Results, Types
<1> QED
  BY <1>1, <1>2, <1>3, <1>4, <1>5, <1>6, <1>7 DEF start_services

\* The scenarios, and the check of the services before each of them.
LEMMA ScenarioSteps ==
  ASSUME LifecycleInvariant, NEW r \in Runs,
         assert_services_running(r) \/ execute_scenario(r) \/ ScenarioFails(r)
  PROVE  OwnStep(r)
<1> USE SpecificationFacts, ScenariosAssumption DEF LifecycleInvariant
<1>0. 3 \in Steps /\ ChildrenAgreeOf(r)
  BY DEF Steps, ChildrenAgree
<1>1. CASE StopAfter(r, 3) /\ UNCHANGED <<child, used, overlap>>
  <2>1. pc'[r] = "terminate" /\ step'[r] = 3
    BY <1>0, <1>1, GotoEffect DEF StopAfter, Pcs
  <2>2. ChildrenAgreeOf(r)' /\ OrphanFree(r)'
    BY <2>1 DEF ChildrenAgreeOf, OrphanFree
  <2>3. \E v \in Results : result' = [result EXCEPT ![r] = v]
    BY <1>1 DEF StopAfter, Results
  <2> QED
    BY <1>0, <1>1, <2>2, <2>3, MoveEffect DEF StopAfter, Pcs, Types
<1>2. CASE /\ assert_services_running(r) /\ step[r] <= Scenarios
           /\ Goto(r, "scenario", step[r]) /\ UNCHANGED <<result, child, used, overlap>>
  <2>1. step[r] \in 1 .. Scenarios /\ step[r] \in Steps
    BY <1>0, <1>2 DEF assert_services_running, ChildrenAgreeOf, Types
  <2>2. pc'[r] = "scenario" /\ step'[r] = step[r]
    BY <1>2, <2>1, GotoEffect DEF Pcs
  <2>3. ChildrenAgreeOf(r)' /\ OrphanFree(r)'
    BY <2>1, <2>2 DEF ChildrenAgreeOf, OrphanFree
  <2> QED
    BY <1>2, <2>1, <2>3, MoveEffect DEF Pcs, Types
<1>3. CASE Goto(r, "terminate", 3) /\ UNCHANGED <<result, child, used, overlap>>
  <2>1. pc'[r] = "terminate" /\ step'[r] = 3
    BY <1>0, <1>3, GotoEffect DEF Pcs
  <2>2. ChildrenAgreeOf(r)' /\ OrphanFree(r)'
    BY <2>1 DEF ChildrenAgreeOf, OrphanFree
  <2> QED
    BY <1>0, <1>3, <2>2, MoveEffect DEF Pcs, Types
<1>4. CASE execute_scenario(r)
  <2>1. /\ step[r] \in 1 .. Scenarios /\ step[r] + 1 \in Steps
        /\ Goto(r, "assert", step[r] + 1) /\ UNCHANGED <<child, result, overlap>>
    BY <1>0, <1>4 DEF execute_scenario, ChildrenAgreeOf, Steps
  <2>2. /\ pc' \in [Runs -> Pcs] /\ step' \in [Runs -> Steps]
        /\ pc'[r] = "assert" /\ step'[r] = step[r] + 1
        /\ \A q \in Runs \ {r} : pc'[q] = pc[q] /\ step'[q] = step[q]
    BY <2>1, GotoEffect DEF Pcs
  <2>3. ChildrenAgreeOf(r)' /\ OrphanFree(r)'
    BY <2>1, <2>2 DEF ChildrenAgreeOf, OrphanFree
  <2>4. /\ used' \in [Runs -> SUBSET Runs]
        /\ \A q \in Runs \ {r} : used'[q] = used[q]
    <3> DEFINE more == UNION {Listeners(p) : p \in Ports}
    <3>1. more \in SUBSET Runs
      BY DEF Listeners
    <3>2. used' = [used EXCEPT ![r] = @ \cup more]
      BY <1>4 DEF execute_scenario
    <3> HIDE DEF more
    <3> QED
      BY <3>1, <3>2 DEF Types
  <2>5. Types'
    BY <2>1, <2>2, <2>4 DEF Types
  <2> QED
    BY <2>1, <2>2, <2>3, <2>4, <2>5 DEF OwnStep
<1> QED
  BY <1>1, <1>2, <1>3, <1>4 DEF assert_services_running, ScenarioFails

\* stop_services, with the children it gives up on, and the death of the process.
LEMMA StopSteps ==
  ASSUME LifecycleInvariant, NEW r \in Runs, stop_services(r) \/ Killed(r)
  PROVE  OwnStep(r)
<1> USE SpecificationFacts, ScenariosAssumption DEF LifecycleInvariant
<1>0. /\ \A n \in 0 .. 3 : n \in Steps
      /\ 0 \in Steps /\ "done" \in Pcs /\ "wait" \in Pcs
      /\ ChildrenAgreeOf(r)
  BY DEF Steps, ChildrenAgree, Pcs
<1>1. CASE TerminateAll(r)
  <2> DEFINE held == {Specifications[i] : i \in 1 .. step[r]}
             kids == [p \in Ports |-> IF p \in held /\ child[r][p] = "starting"
                                      THEN "signalled" ELSE child[r][p]]
  <2>1. /\ pc[r] = "terminate" /\ step[r] \in 0 .. 3
        /\ child' = [child EXCEPT ![r] = kids]
        /\ Goto(r, "wait", step[r]) /\ UNCHANGED <<result, used, overlap>>
    BY <1>0, <1>1 DEF TerminateAll, ChildrenAgreeOf
  <2>2. /\ pc' \in [Runs -> Pcs] /\ step' \in [Runs -> Steps]
        /\ pc'[r] = "wait" /\ step'[r] = step[r]
        /\ \A q \in Runs \ {r} : pc'[q] = pc[q] /\ step'[q] = step[q]
    BY <1>0, <2>1, GotoEffect
  <2>3. /\ kids \in [Ports -> ChildStates]
        /\ \A p \in Ports : kids[p] \in Alive <=> child[r][p] \in Alive
        /\ \A p \in Ports : kids[p] = "listening" => child[r][p] = "listening"
    BY DEF Types, ChildStates, Alive
  <2> HIDE DEF kids
  <2>4. /\ child' \in [Runs -> [Ports -> ChildStates]]
        /\ child'[r] = kids
        /\ \A q \in Runs \ {r} : child'[q] = child[q]
    BY <2>1, <2>3 DEF Types
  <2>5. Types'
    BY <2>1, <2>2, <2>4 DEF Types
  <2>6. LiveChildren(r)' = LiveChildren(r)
    BY <2>3, <2>4 DEF LiveChildren
  <2>7. ChildrenAgreeOf(r)' /\ OrphanFree(r)'
    BY <1>0, <2>1, <2>2, <2>6 DEF ChildrenAgreeOf, OrphanFree
  <2> QED
    BY <2>1, <2>2, <2>3, <2>4, <2>5, <2>7 DEF OwnStep
<1>2. CASE ChildReaped(r)
  <2>1. /\ pc[r] = "wait" /\ step[r] \in 1 .. 3 /\ step[r] - 1 \in 0 .. 3
        /\ Specifications[step[r]] \notin LiveChildren(r)
        /\ Goto(r, "wait", step[r] - 1) /\ UNCHANGED <<child, result, used, overlap>>
    BY <1>0, <1>2 DEF ChildReaped, ChildrenAgreeOf, LiveChildren
  <2>2. /\ pc'[r] = "wait" /\ step'[r] = step[r] - 1
        /\ LiveChildren(r)' = LiveChildren(r)
    BY <1>0, <2>1, GotoEffect, SameLiveChildren
  <2>3. ChildrenAgreeOf(r)' /\ OrphanFree(r)'
    BY <1>0, <2>1, <2>2 DEF ChildrenAgreeOf, OrphanFree
  <2> QED
    BY <1>0, <2>1, <2>3, MoveEffect DEF Types
<1>3. CASE WaitTimesOut(r)
  <2>1. /\ Goto(r, "done", 0) /\ result' = [result EXCEPT ![r] = "TimeoutExpired"]
        /\ UNCHANGED <<child, used, overlap>>
    BY <1>3 DEF WaitTimesOut
  <2>2. pc'[r] = "done" /\ result'[r] = "TimeoutExpired"
    BY <1>0, <2>1, GotoEffect DEF Types
  <2>3. ChildrenAgreeOf(r)' /\ OrphanFree(r)'
    BY <2>2 DEF ChildrenAgreeOf, OrphanFree
  <2>4. \E v \in Results : result' = [result EXCEPT ![r] = v]
    BY <2>1 DEF Results
  <2> QED
    BY <1>0, <2>1, <2>3, <2>4, MoveEffect DEF Types
<1>4. CASE wait_for_ports_closed(r)
  <2>1. /\ pc[r] = "wait" /\ step[r] = 0
        /\ Goto(r, "done", 0) /\ UNCHANGED <<child, used, overlap>>
    BY <1>4 DEF wait_for_ports_closed
  <2>2. LiveChildren(r) = {}
    BY <1>0, <2>1 DEF ChildrenAgreeOf, LiveChildren
  <2>3. pc'[r] = "done" /\ LiveChildren(r)' = {}
    BY <1>0, <2>1, <2>2, GotoEffect, SameLiveChildren
  <2>4. ChildrenAgreeOf(r)' /\ OrphanFree(r)'
    BY <2>3 DEF ChildrenAgreeOf, OrphanFree
  <2>5. \E v \in Results : result' = [result EXCEPT ![r] = v]
    <3>1. result[r] \in Results /\ "ok" \in Results /\ "VerificationError" \in Results
      BY DEF Types, Results
    <3> QED
      BY <1>4, <3>1 DEF wait_for_ports_closed
  <2> QED
    BY <1>0, <2>1, <2>4, <2>5, MoveEffect DEF Types
<1>5. CASE Killed(r)
  <2>1. /\ Goto(r, "done", 0) /\ result' = [result EXCEPT ![r] = "killed"]
        /\ UNCHANGED <<child, used, overlap>>
    BY <1>5 DEF Killed
  <2>2. pc'[r] = "done" /\ result'[r] = "killed"
    BY <1>0, <2>1, GotoEffect DEF Types
  <2>3. ChildrenAgreeOf(r)' /\ OrphanFree(r)'
    BY <2>2 DEF ChildrenAgreeOf, OrphanFree
  <2>4. \E v \in Results : result' = [result EXCEPT ![r] = v]
    BY <2>1 DEF Results
  <2> QED
    BY <1>0, <2>1, <2>3, <2>4, MoveEffect DEF Types
<1> QED
  BY <1>1, <1>2, <1>3, <1>4, <1>5 DEF stop_services

\* Every step of a run moves that run alone.
LEMMA RunStep ==
  ASSUME LifecycleInvariant, NEW r \in Runs, BeginRun(r) \/ Orchestrator(r) \/ Killed(r)
  PROVE  OwnStep(r)
  BY StartSteps, ScenarioSteps, StopSteps DEF Orchestrator

\* A child that binds its port was starting and finds the port free; a child that is
\* not alive stays so.
LEMMA ChildStep ==
  ASSUME LifecycleInvariant, NEW r \in Runs, Child(r)
  PROVE  /\ UNCHANGED <<pc, step, result, used, overlap>>
         /\ child' \in [Runs -> [Ports -> ChildStates]]
         /\ \A q \in Runs \ {r} : child'[q] = child[q]
         /\ \A p \in Ports :
              /\ child'[r][p] \in Alive => child[r][p] \in Alive
              /\ child'[r][p] = "starting" => child[r][p] = "starting"
              /\ child'[r][p] = "listening" =>
                   \/ child[r][p] = "listening"
                   \/ child[r][p] = "starting" /\ Listeners(p) = {}
<1> PICK x \in Ports : ChildBinds(r, x) \/ ChildExits(r, x)
  BY DEF Child
<1>1. PICK s \in {"listening", "exited"} :
        /\ child' = [child EXCEPT ![r][x] = s]
        /\ child[r][x] \in Alive
        /\ s = "listening" => child[r][x] = "starting" /\ Listeners(x) = {}
        /\ UNCHANGED <<pc, step, result, used, overlap>>
  BY DEF ChildBinds, ChildExits, port_accepts_connections, Alive
<1>2. /\ child' \in [Runs -> [Ports -> ChildStates]]
      /\ child'[r][x] = s
      /\ \A p \in Ports \ {x} : child'[r][p] = child[r][p]
      /\ \A q \in Runs \ {r} : child'[q] = child[q]
  BY <1>1 DEF LifecycleInvariant, Types, ChildStates, Alive
<1> QED
  BY <1>1, <1>2

-------------------------------------------------------------------------------
(* No orphans. *)

LEMMA LifecycleInit == Init => LifecycleInvariant
<1> SUFFICES ASSUME Init PROVE LifecycleInvariant
  OBVIOUS
<1> USE SpecificationFacts, ScenariosAssumption
<1>1. Types
  <2>1. 0 \in Steps /\ "idle" \in Pcs /\ "none" \in ChildStates /\ "none" \in Results
    BY DEF Steps, Pcs, ChildStates, Results
  <2> QED
    BY <2>1 DEF Init, Types
<1>2. \A r \in Runs : pc[r] = "idle" /\ LiveChildren(r) = {}
  BY DEF Init, LiveChildren, Alive
<1> QED
  BY <1>1, <1>2 DEF LifecycleInvariant, ChildrenAgree, ChildrenAgreeOf, NoOrphan

LEMMA LifecycleNext == LifecycleInvariant /\ [Next]_vars => LifecycleInvariant'
<1> SUFFICES ASSUME LifecycleInvariant, [Next]_vars PROVE LifecycleInvariant'
  OBVIOUS
<1>0. \A q \in Runs : ChildrenAgreeOf(q) /\ OrphanFree(q)
  BY DEF LifecycleInvariant, ChildrenAgree, NoOrphan, OrphanFree
<1>1. ASSUME NEW r \in Runs, BeginRun(r) \/ Orchestrator(r) \/ Killed(r)
      PROVE  LifecycleInvariant'
  <2>1. OwnStep(r)
    BY <1>1, RunStep
  <2>2. ASSUME NEW q \in Runs \ {r} PROVE ChildrenAgreeOf(q)' /\ OrphanFree(q)'
    <3>1. pc'[q] = pc[q] /\ step'[q] = step[q] /\ result'[q] = result[q] /\ child'[q] = child[q]
      BY <2>1 DEF OwnStep
    <3>2. LiveChildren(q)' = LiveChildren(q)
      BY <3>1, SameLiveChildren
    <3> QED
      BY <1>0, <3>1, <3>2 DEF ChildrenAgreeOf, OrphanFree
  <2> QED
    BY <2>1, <2>2 DEF OwnStep, LifecycleInvariant, ChildrenAgree, NoOrphan, OrphanFree
<1>2. ASSUME NEW r \in Runs, Child(r) PROVE LifecycleInvariant'
  <2>1. UNCHANGED <<pc, step, result, used, overlap>> /\ Types'
    BY <1>2, ChildStep DEF LifecycleInvariant, Types
  <2>2. \A q \in Runs : LiveChildren(q)' \subseteq LiveChildren(q)
    BY <1>2, ChildStep DEF LiveChildren
  <2>3. \A q \in Runs : ChildrenAgreeOf(q)' /\ OrphanFree(q)'
    BY <1>0, <2>1, <2>2 DEF ChildrenAgreeOf, OrphanFree
  <2> QED
    BY <2>1, <2>3 DEF LifecycleInvariant, ChildrenAgree, NoOrphan, OrphanFree
<1>3. CASE UNCHANGED vars
  BY <1>3 DEF vars, LifecycleInvariant, Types, ChildrenAgree, ChildrenAgreeOf, NoOrphan,
              LiveChildren
<1> QED
  BY <1>1, <1>2, <1>3 DEF Next

LEMMA LifecycleAlways == Spec => []LifecycleInvariant
  BY LifecycleInit, LifecycleNext, PTL DEF Spec

\* Wherever start_services, a scenario or a check fails, run() has reaped every child it
\* started before it returns or raises VerificationError.
THEOREM NoOrphanAlways == Spec => []NoOrphan
  BY LifecycleAlways, PTL DEF LifecycleInvariant

-------------------------------------------------------------------------------
(* One listener per port. *)

LEMMA OneListenerInit == Init => OneListener
  BY DEF Init, OneListener, Listeners

LEMMA OneListenerNext == OneListener /\ LifecycleInvariant /\ [Next]_vars => OneListener'
<1> SUFFICES ASSUME OneListener, LifecycleInvariant, [Next]_vars, NEW p \in Ports
             PROVE  \A a, b \in Listeners(p)' : a = b
  BY DEF OneListener
<1>1. ASSUME NEW r \in Runs, BeginRun(r) \/ Orchestrator(r) \/ Killed(r)
      PROVE  Listeners(p)' \subseteq Listeners(p)
  BY <1>1, RunStep DEF OwnStep, Listeners
<1>2. ASSUME NEW r \in Runs, Child(r)
      PROVE  Listeners(p)' \subseteq Listeners(p) \/ Listeners(p)' \subseteq {r}
  BY <1>2, ChildStep DEF Listeners
<1>3. UNCHANGED vars => Listeners(p)' = Listeners(p)
  BY DEF vars, Listeners
<1> QED
  BY <1>1, <1>2, <1>3 DEF OneListener, Next

\* Every variable of the lifecycle keeps its type, and no port is taken twice, however
\* many runs race for the three fixed ports.
THEOREM TypeCorrect == Spec => []TypeOK
<1>1. LifecycleInvariant /\ OneListener => TypeOK
  <2> SUFFICES ASSUME LifecycleInvariant, OneListener PROVE TypeOK
    OBVIOUS
  <2>1. ASSUME NEW p \in Ports PROVE Cardinality(Listeners(p)) <= 1
    <3>1. CASE Listeners(p) = {}
      BY <3>1, FS_EmptySet
    <3>2. ASSUME NEW r, Listeners(p) = {r} PROVE Cardinality(Listeners(p)) <= 1
      <4>1. Cardinality({r}) = 1
        BY FS_Singleton
      <4> QED
        BY <3>2, <4>1
    <3>3. Listeners(p) = {} \/ \E r : Listeners(p) = {r}
      BY DEF OneListener
    <3> QED
      BY <3>1, <3>2, <3>3
  <2> QED
    BY <2>1 DEF LifecycleInvariant, Types, TypeOK, Pcs, Steps, ChildStates, Results
<1> QED
  BY <1>1, LifecycleAlways, OneListenerInit, OneListenerNext, PTL DEF Spec

-------------------------------------------------------------------------------
(* Runs that do not overlap. *)

SeparationInvariant == SeparateAgrees /\ SeparateRunsAreServedByTheirOwn

LEMMA SeparationInit == Init => SeparationInvariant
  BY DEF Init, SeparationInvariant, SeparateAgrees, SeparateRunsAreServedByTheirOwn, UnderWay

\* A run comes under way only when it begins; if it does so alone, nothing else is.
LEMMA UnderWayStep ==
  ASSUME LifecycleInvariant, Next, overlap' = {}
  PROVE  /\ overlap = {}
         /\ \/ UnderWay' \subseteq UnderWay
            \/ \E r \in Runs : UnderWay = {} /\ UnderWay' \subseteq {r}
<1>1. ASSUME NEW r \in Runs, BeginRun(r)
      PROVE  overlap = {} /\ UnderWay = {} /\ UnderWay' \subseteq {r}
  <2>1. overlap = {} /\ UnderWay = {}
    BY <1>1 DEF BeginRun
  <2>2. \A q \in Runs \ {r} : pc'[q] = pc[q] /\ child'[q] = child[q]
    BY <1>1, RunStep DEF OwnStep
  <2> QED
    BY <2>1, <2>2 DEF UnderWay
<1>2. ASSUME NEW r \in Runs, Orchestrator(r) \/ Killed(r)
      PROVE  overlap' = overlap /\ r \in UnderWay /\ UnderWay' \subseteq UnderWay
  <2>1. pc[r] \notin {"idle", "done"} /\ overlap' = overlap
    BY <1>2 DEF Orchestrator, Killed, start_services, stop_services, assert_ports_available,
                start_service, SpawnFails, LogOpenFails, Healthy, Unhealthy,
                assert_services_running, execute_scenario, ScenarioFails, TerminateAll,
                ChildReaped, WaitTimesOut, wait_for_ports_closed
  <2>2. \A q \in Runs \ {r} : pc'[q] = pc[q] /\ child'[q] = child[q]
    BY <1>2, RunStep DEF OwnStep
  <2> QED
    BY <2>1, <2>2 DEF UnderWay
<1>3. ASSUME NEW r \in Runs, Child(r)
      PROVE  overlap' = overlap /\ UnderWay' \subseteq UnderWay
  BY <1>3, ChildStep DEF UnderWay
<1> QED
  BY <1>1, <1>2, <1>3 DEF Next

LEMMA SeparationNext ==
  SeparationInvariant /\ LifecycleInvariant /\ [Next]_vars => SeparationInvariant'
<1> DEFINE Serving == {"spawn", "health", "assert", "scenario"}
<1> SUFFICES ASSUME SeparationInvariant, LifecycleInvariant, [Next]_vars, overlap' = {}
             PROVE  /\ \A r, q \in UnderWay' : r = q
                    /\ \A r \in Runs : pc'[r] \in Serving =>
                         \A p \in Ports : Listeners(p)' \subseteq {r}
                    /\ \A r \in Runs : used'[r] \subseteq {r}
  BY DEF SeparationInvariant, SeparateAgrees, SeparateRunsAreServedByTheirOwn
<1>1. CASE UNCHANGED vars
  BY <1>1 DEF vars, SeparationInvariant, SeparateAgrees, SeparateRunsAreServedByTheirOwn,
              UnderWay, Listeners
<1>2. CASE Next
  <2>1. /\ overlap = {}
        /\ \A r, q \in UnderWay : r = q
        /\ \A r \in Runs : pc[r] \in Serving => \A p \in Ports : Listeners(p) \subseteq {r}
        /\ \A r \in Runs : used[r] \subseteq {r}
    BY <1>2, UnderWayStep
       DEF SeparationInvariant, SeparateAgrees, SeparateRunsAreServedByTheirOwn
  <2>2. \A r, q \in UnderWay' : r = q
    BY <1>2, <2>1, UnderWayStep
  <2>3. ASSUME NEW r \in Runs, BeginRun(r) \/ Orchestrator(r) \/ Killed(r)
        PROVE  /\ \A q \in Runs : pc'[q] \in Serving =>
                    \A p \in Ports : Listeners(p)' \subseteq {q}
               /\ \A q \in Runs : used'[q] \subseteq {q}
    <3>1. OwnStep(r)
      BY <2>3, RunStep
    <3>2. \A p \in Ports : Listeners(p)' \subseteq Listeners(p)
      BY <3>1 DEF OwnStep, Listeners
    <3>3. pc'[r] \in Serving => pc[r] \in Serving \/ \A p \in Ports : Listeners(p) = {}
      <4> USE DEF LifecycleInvariant, Types, Goto
      <4>1. CASE BeginRun(r) \/ Killed(r)
        BY <4>1 DEF BeginRun, Killed
      <4>2. CASE stop_services(r)
        BY <4>2 DEF stop_services, TerminateAll, ChildReaped, WaitTimesOut,
                    wait_for_ports_closed
      <4>3. CASE assert_ports_available(r)
        BY <4>3 DEF assert_ports_available, port_accepts_connections
      <4>4. CASE Orchestrator(r) /\ ~stop_services(r) /\ ~assert_ports_available(r)
        BY <4>4 DEF Orchestrator, start_services, start_service, SpawnFails, LogOpenFails,
                    Healthy, Unhealthy, assert_services_running, execute_scenario,
                    ScenarioFails
      <4> QED
        BY <2>3, <4>1, <4>2, <4>3, <4>4
    <3>4. used'[r] \subseteq {r}
      <4>1. CASE execute_scenario(r)
        <5>1. \A p \in Ports : Listeners(p) \subseteq {r}
          BY <2>1, <4>1 DEF execute_scenario
        <5>2. UNION {Listeners(p) : p \in Ports} \subseteq {r}
          BY <5>1
        <5> QED
          BY <2>1, <4>1, <5>2 DEF execute_scenario, LifecycleInvariant, Types
      <4>2. CASE ~execute_scenario(r)
        <5>1. used' = used
          BY <2>3, <4>2
             DEF BeginRun, Killed, Orchestrator, start_services, stop_services,
                 assert_ports_available, start_service, SpawnFails, LogOpenFails, Healthy,
                 Unhealthy, assert_services_running, ScenarioFails, TerminateAll,
                 ChildReaped, WaitTimesOut, wait_for_ports_closed
        <5> QED
          BY <2>1, <5>1
      <4> QED
        BY <4>1, <4>2
    <3> QED
      BY <2>1, <3>1, <3>2, <3>3, <3>4 DEF OwnStep
  <2>4. ASSUME NEW r \in Runs, Child(r)
        PROVE  /\ \A q \in Runs : pc'[q] \in Serving =>
                    \A p \in Ports : Listeners(p)' \subseteq {q}
               /\ \A q \in Runs : used'[q] \subseteq {q}
    <3>1. UNCHANGED <<pc, used>>
      BY <2>4, ChildStep
    <3>2. ASSUME NEW q \in Runs, pc[q] \in Serving, NEW p \in Ports
          PROVE  Listeners(p)' \subseteq {q}
      <4>1. q \in UnderWay
        BY <3>2 DEF UnderWay
      <4>2. Listeners(p)' \subseteq Listeners(p) \/ (r \in UnderWay /\ Listeners(p)' \subseteq {r})
        BY <2>4, ChildStep DEF Listeners, UnderWay
      <4> QED
        BY <2>1, <3>2, <4>1, <4>2
    <3> QED
      BY <2>1, <3>1, <3>2
  <2> QED
    BY <1>2, <2>2, <2>3, <2>4 DEF Next
<1> QED
  BY <1>1, <1>2

\* A run that starts when no other is under way is served by its own children only,
\* whatever earlier runs were killed or gave up on: the probe of assert_ports_available
\* is enough.
THEOREM SeparateRunsAreServedByTheirOwnAlways == Spec => []SeparateRunsAreServedByTheirOwn
  BY SeparationInit, SeparationNext, LifecycleAlways, PTL DEF Spec, SeparationInvariant
===============================================================================
