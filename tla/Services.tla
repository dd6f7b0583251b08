------------------------------- MODULE Services -------------------------------
(* The lifecycle of the three lab services: verifier/processes.py and the       *)
(* try/finally of VerificationOrchestrator.run around it.  Orchestrators of     *)
(* different processes (the dashboard's worker, the command line) share nothing *)
(* but the three fixed localhost ports, which nobody reserves.  A service and   *)
(* its port are one name.  A child goes from none over starting (no socket yet) *)
(* to listening, and exits at any time; one signalled before it listens runs on *)
(* without ever listening.  An orchestrator's process may be killed, as the     *)
(* smoke test kills a dashboard that does not stop; its children live on.       *)
EXTENDS Naturals, Sequences, FiniteSets

CONSTANTS
  Runs,       \* calls of VerificationOrchestrator.run
  Scenarios   \* the number of scenarios of a run

ASSUME ScenariosAssumption == Scenarios \in Nat

VARIABLES
  pc,      \* [Runs -> where the call is]
  step,    \* [Runs -> the service being started, or the next scenario, or the
           \*          number of children still to be waited for]
  child,   \* [Runs -> [Ports -> the state of the process it spawned]]
  result,  \* [Runs -> how the call ended, or will end once it has stopped its children]
  used,    \* [Runs -> the runs whose services answered its scenarios]
  overlap  \* the runs that were under way together with another one

vars == <<pc, step, child, result, used, overlap>>

\* The order in which start_services spawns them.
Specifications == <<"device", "vulnerable-gateway", "patched-gateway">>
Ports == {Specifications[i] : i \in DOMAIN Specifications}

Alive == {"starting", "listening", "signalled"}
Listeners(p) == {r \in Runs : child[r][p] = "listening"}
port_accepts_connections(p) == Listeners(p) # {}

Init ==
  /\ pc = [r \in Runs |-> "idle"]
  /\ step = [r \in Runs |-> 0]
  /\ child = [r \in Runs |-> [p \in Ports |-> "none"]]
  /\ result = [r \in Runs |-> "none"]
  /\ used = [r \in Runs |-> {}]
  /\ overlap = {}

Goto(r, to, n) ==
  /\ pc' = [pc EXCEPT ![r] = to]
  /\ step' = [step EXCEPT ![r] = n]

-------------------------------------------------------------------------------
(* Starting. *)

\* A run is over when no child of it is going to take a port any more.
UnderWay ==
  {r \in Runs : pc[r] \notin {"idle", "done"} \/ \E p \in Ports : child[r][p] = "starting"}

BeginRun(r) ==
  /\ pc[r] = "idle"
  /\ Goto(r, "check", 0)
  /\ overlap' = IF UnderWay = {} THEN overlap ELSE overlap \cup UnderWay \cup {r}
  /\ UNCHANGED <<child, result, used>>

\* Slip: the ports are not probed before the services are started.
PortsAssumedFree(r) ==
  /\ pc[r] = "check"
  /\ Goto(r, "spawn", 1)
  /\ UNCHANGED <<child, result, used, overlap>>

\* Nothing was started yet, so there is nothing to stop.
assert_ports_available(r) ==
  /\ pc[r] = "check"
  /\ IF \E p \in Ports : port_accepts_connections(p)
     THEN Goto(r, "done", 0) /\ result' = [result EXCEPT ![r] = "VerificationError"]
     ELSE Goto(r, "spawn", 1) /\ UNCHANGED result
  /\ UNCHANGED <<child, used, overlap>>

start_service(r) ==
  /\ pc[r] = "spawn"
  /\ child' = [child EXCEPT ![r][Specifications[step[r]]] = "starting"]
  /\ Goto(r, "health", step[r])
  /\ UNCHANGED <<result, used, overlap>>

\* Slip: run() lets the ProcessError escape to its callers, which do not expect it.
ProcessErrorEscapes(r, n) ==
  /\ Goto(r, "terminate", n)
  /\ result' = [result EXCEPT ![r] = "ProcessError"]

\* A ProcessError reaches run() as a VerificationError, after the children that
\* start_services or run() holds have been stopped: the first n of Specifications.
StopAfter(r, n) ==
  /\ Goto(r, "terminate", n)
  /\ result' = [result EXCEPT ![r] = "VerificationError"]

SpawnFails(r) ==
  /\ pc[r] = "spawn"
  /\ StopAfter(r, step[r] - 1)
  /\ UNCHANGED <<child, used, overlap>>

\* The log file is opened before the try: an OSError is not a ProcessError, so it
\* leaves start_services without stopping what was started before, and run() has
\* no handles yet.
LogOpenFails(r) ==
  /\ pc[r] = "spawn"
  /\ Goto(r, "done", 0)
  /\ result' = [result EXCEPT ![r] = "OSError"]
  /\ UNCHANGED <<child, used, overlap>>

\* The child is alive and somebody answers on its port, with the right build: two
\* runs start the same builds on the same ports.
Healthy(r) ==
  LET p == Specifications[step[r]]
  IN  /\ pc[r] = "health"
      /\ child[r][p] \in Alive
      /\ port_accepts_connections(p)
      /\ IF step[r] = Len(Specifications) THEN Goto(r, "assert", 1)
                                          ELSE Goto(r, "spawn", step[r] + 1)
      /\ UNCHANGED <<child, result, used, overlap>>

\* Slip: the service joins the list only once it is healthy.
UnhealthyNotHeld(r) ==
  /\ pc[r] = "health"
  /\ StopAfter(r, step[r] - 1)
  /\ UNCHANGED <<child, used, overlap>>

\* Slip: a service that does not answer is waited for as long as it runs.
UnhealthyWithoutDeadline(r) ==
  /\ pc[r] = "health"
  /\ child[r][Specifications[step[r]]] \notin Alive
  /\ StopAfter(r, step[r])
  /\ UNCHANGED <<child, used, overlap>>

\* The child exited, or the deadline passed; the child is in the list already.
Unhealthy(r) ==
  /\ pc[r] = "health"
  /\ StopAfter(r, step[r])
  /\ UNCHANGED <<child, used, overlap>>

-------------------------------------------------------------------------------
(* The scenarios. *)

assert_services_running(r) ==
  /\ pc[r] = "assert"
  /\ IF \E p \in Ports : child[r][p] \notin Alive
     THEN StopAfter(r, Len(Specifications))
     ELSE /\ IF step[r] <= Scenarios THEN Goto(r, "scenario", step[r])
                                     ELSE Goto(r, "terminate", Len(Specifications))
          /\ UNCHANGED result
  /\ UNCHANGED <<child, used, overlap>>

\* Its requests go to whoever listens.
execute_scenario(r) ==
  /\ pc[r] = "scenario"
  /\ used' = [used EXCEPT ![r] = @ \cup UNION {Listeners(p) : p \in Ports}]
  /\ Goto(r, "assert", step[r] + 1)
  /\ UNCHANGED <<child, result, overlap>>

ScenarioFails(r) ==
  /\ pc[r] = "scenario"
  /\ StopAfter(r, Len(Specifications))
  /\ UNCHANGED <<child, used, overlap>>

-------------------------------------------------------------------------------
(* stop_services. *)

\* terminate() is sent to all, then each is waited for, last started first; the
\* waits are bounded by 5 s, kill() and 5 s more.
TerminateAll(r) ==
  LET held == {Specifications[i] : i \in 1 .. step[r]}
  IN  /\ pc[r] = "terminate"
      /\ child' = [child EXCEPT ![r] = [p \in Ports |->
                     IF p \in held /\ @[p] = "starting" THEN "signalled" ELSE @[p]]]
      /\ Goto(r, "wait", step[r])
      /\ UNCHANGED <<result, used, overlap>>

ChildReaped(r) ==
  /\ pc[r] = "wait"
  /\ step[r] > 0
  /\ child[r][Specifications[step[r]]] \notin Alive
  /\ Goto(r, "wait", step[r] - 1)
  /\ UNCHANGED <<child, result, used, overlap>>

\* Not even kill() ended it in time: TimeoutExpired leaves stop_services, and the
\* remaining children are not waited for.
WaitTimesOut(r) ==
  /\ pc[r] = "wait"
  /\ step[r] > 0
  /\ child[r][Specifications[step[r]]] \in Alive
  /\ Goto(r, "done", 0)
  /\ result' = [result EXCEPT ![r] = "TimeoutExpired"]
  /\ UNCHANGED <<child, used, overlap>>

\* The last look at the ports sees other runs' services too.
wait_for_ports_closed(r) ==
  /\ pc[r] = "wait"
  /\ step[r] = 0
  /\ Goto(r, "done", 0)
  /\ \/ /\ \A p \in Ports : ~port_accepts_connections(p)
        /\ result' = [result EXCEPT ![r] = IF @ = "none" THEN "ok" ELSE @]
     \/ /\ \E p \in Ports : port_accepts_connections(p)
        /\ result' = [result EXCEPT ![r] = "VerificationError"]
  /\ UNCHANGED <<child, used, overlap>>

-------------------------------------------------------------------------------
(* The children, external: uvicorn binds its port or exits, and may die. *)

ChildBinds(r, p) ==
  /\ child[r][p] = "starting"
  /\ ~port_accepts_connections(p)
  /\ child' = [child EXCEPT ![r][p] = "listening"]
  /\ UNCHANGED <<pc, step, result, used, overlap>>

ChildExits(r, p) ==
  /\ child[r][p] \in Alive
  /\ child' = [child EXCEPT ![r][p] = "exited"]
  /\ UNCHANGED <<pc, step, result, used, overlap>>

start_services(r) ==
  \/ assert_ports_available(r) \/ start_service(r) \/ SpawnFails(r) \/ LogOpenFails(r)
  \/ Healthy(r) \/ Unhealthy(r)

stop_services(r) ==
  TerminateAll(r) \/ ChildReaped(r) \/ WaitTimesOut(r) \/ wait_for_ports_closed(r)

Orchestrator(r) ==
  \/ start_services(r)
  \/ assert_services_running(r) \/ execute_scenario(r) \/ ScenarioFails(r)
  \/ stop_services(r)

Child(r) == \E p \in Ports : ChildBinds(r, p) \/ ChildExits(r, p)

\* The process of the run is killed; nobody stops its children.
Killed(r) ==
  /\ pc[r] \notin {"idle", "done"}
  /\ Goto(r, "done", 0)
  /\ result' = [result EXCEPT ![r] = "killed"]
  /\ UNCHANGED <<child, used, overlap>>

Next == \E r \in Runs : BeginRun(r) \/ Orchestrator(r) \/ Child(r) \/ Killed(r)

\* Every wait of an orchestrator has a deadline; nothing is assumed of a child.
Spec == Init /\ [][Next]_vars /\ \A r \in Runs : WF_vars(Orchestrator(r))

-------------------------------------------------------------------------------
(* Properties. *)

\* Every variable of the lifecycle has its type, and a port has one listener.
TypeOK ==
  /\ pc \in [Runs -> {"idle", "check", "spawn", "health", "assert", "scenario",
                      "terminate", "wait", "done"}]
  /\ step \in [Runs -> 0 .. Scenarios + Len(Specifications) + 1]
  /\ child \in [Runs -> [Ports -> Alive \cup {"none", "exited"}]]
  /\ result \in [Runs -> {"none", "ok", "VerificationError", "OSError", "TimeoutExpired",
                       "killed"}]
  /\ used \in [Runs -> SUBSET Runs]
  /\ overlap \subseteq Runs
  /\ \A p \in Ports : Cardinality(Listeners(p)) <= 1

LiveChildren(r) == {p \in Ports : child[r][p] \in Alive}

\* A run that ends with success or with the error it reports for a failed service
\* has no child left, at whichever point of starting, running or stopping it failed
\* (start_services' except clause and run's finally clause).
NoOrphan ==
  \A r \in Runs :
    pc[r] = "done" /\ result[r] \in {"ok", "VerificationError"} => LiveChildren(r) = {}

\* As long as runs do not overlap, each is served by its own services only, even if
\* an earlier one was killed or has left its children behind in another way, listening
\* or surviving their signals: the probe of assert_ports_available keeps it so.
SeparateRunsAreServedByTheirOwn ==
  overlap = {} => \A r \in Runs : used[r] \subseteq {r}

\* What the position of a run says of its children: the ones it has not started yet,
\* or has waited for, are not alive.  It makes NoOrphan inductive.
ChildrenAgreeOf(r) ==
  /\ pc[r] \in {"spawn", "health"} => step[r] \in 1 .. Len(Specifications)
  /\ pc[r] \in {"terminate", "wait"} => step[r] \in 0 .. Len(Specifications)
  /\ pc[r] = "assert" => step[r] \in 1 .. Scenarios + 1
  /\ pc[r] = "scenario" => step[r] \in 1 .. Scenarios
  /\ pc[r] \in {"idle", "check"} => LiveChildren(r) = {}
  /\ \A i \in DOMAIN Specifications :
       \/ pc[r] = "spawn" /\ i >= step[r]
       \/ pc[r] \in {"health", "terminate", "wait"} /\ i > step[r]
       => Specifications[i] \notin LiveChildren(r)

ChildrenAgree == \A r \in Runs : ChildrenAgreeOf(r)

\* Without overlap one run at a time is under way, and from its probe of the ports to
\* its last scenario nobody else listens: what makes the separation inductive.
SeparateAgrees ==
  overlap = {} =>
    /\ \A r, q \in UnderWay : r = q
    /\ \A r \in Runs : pc[r] \in {"spawn", "health", "assert", "scenario"} =>
         \A p \in Ports : Listeners(p) \subseteq {r}

\* Every run that was started ends, whatever its children do.
RunsEnd == \A r \in Runs : pc[r] = "check" ~> pc[r] = "done"

\* docs/VERIFICATION_LOGIC.md:44: the orchestrator stops the child processes it
\* started.  Asked of every ending except a child that survives kill() and a killed run.
ChildrenStopped ==
  \A r \in Runs :
    pc[r] = "done" /\ result[r] \notin {"TimeoutExpired", "killed"} => LiveChildren(r) = {}
===============================================================================
