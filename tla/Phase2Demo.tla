------------------------------ MODULE Phase2Demo ------------------------------
(* scripts/run_phase2_demo.py against the lab of Gateway: a client that starts   *)
(* the three services itself, repeats a contract of three scenarios, and         *)
(* believes what the gateways answer; unlike the orchestrator it never looks at  *)
(* the device.  The gateways and the device take their own steps meanwhile, a    *)
(* service may exit, and .runtime, with the trusted key in it, may be written by *)
(* another call of generate_demo_artifacts.                                      *)
EXTENDS Gateway

CONSTANT Repeat   \* --repeat

Labels == {"A", "B", "C"}

ASSUME DemoConstants ==
  /\ Repeat \in Nat \ {0}
  /\ Requests = (1 .. Repeat) \X Labels
  /\ Packages = {UntrustedPackage, TrustedPackage}
  /\ None \notin {"pass", "fail", "TimeoutExpired"}

VARIABLES dpc,       \* where run_demo is
          held,      \* how many of Children are in its list of services
          rep,       \* the repetition
          scenario,  \* the index of the scenario in Contract
          failure,   \* a DemoFailure was recorded
          exit       \* None, "pass" (code 0), "fail" (code 1), or the exception that escaped

demoVars == <<dpc, held, rep, scenario, failure, exit>>
vars == <<gatewayVars, demoVars>>

Children == <<"device", "VULNERABLE", "PATCHED">>

AppliedOnce(package) ==
  [firmware_version |-> package.manifest.firmware_version, update_counter |-> 1,
   last_payload_sha256 |-> package.manifest.payload_sha256]

\* The ScenarioExpectation tuple.
Contract ==
  <<[label |-> "A", gateway |-> "VULNERABLE", package |-> UntrustedPackage, status |-> 200,
     decision |-> "ACCEPTED", reason_code |-> "CHECKSUM_ONLY_ACCEPTED",
     after |-> AppliedOnce(UntrustedPackage)],
    [label |-> "B", gateway |-> "PATCHED", package |-> UntrustedPackage, status |-> 403,
     decision |-> "REJECTED", reason_code |-> "UNTRUSTED_SIGNER", after |-> InitialState],
    [label |-> "C", gateway |-> "PATCHED", package |-> TrustedPackage, status |-> 200,
     decision |-> "ACCEPTED", reason_code |-> "TRUSTED_SIGNATURE_ACCEPTED",
     after |-> AppliedOnce(TrustedPackage)]>>

Init ==
  /\ device = InitialState
  /\ up = {}
  /\ keyfile \in KeyFiles
  /\ build \in PatchedBuilds
  /\ req = [r \in Requests |-> IdleRequest]
  /\ log = <<>>
  /\ dpc = "ports" /\ held = 0 /\ rep = 1 /\ scenario = 1
  /\ failure = FALSE /\ exit = None

-------------------------------------------------------------------------------
(* Starting. *)

Goto(to) == dpc' = to /\ UNCHANGED <<held, rep, scenario, failure, exit>>

\* A DemoFailure or OSError inside the try block; the finally clause stops the services.
Fail ==
  /\ dpc' = "terminate"
  /\ failure' = TRUE
  /\ UNCHANGED <<held, rep, scenario, exit>>

\* Whether others listen on the ports is up to them.
assert_ports_available ==
  /\ dpc = "ports"
  /\ Goto("artifacts") \/ Fail
  /\ UNCHANGED gatewayVars

\* An OSError comes before or after the key is written.
generate_demo_artifacts ==
  /\ dpc = "artifacts"
  /\ \/ Goto("spawn") /\ keyfile' = TrustedKey
     \/ Fail /\ keyfile' \in {keyfile, TrustedKey}
  /\ UNCHANGED <<device, up, build, req, log>>

\* The log file is opened and the process spawned; either may raise OSError.
start_service ==
  /\ dpc = "spawn"
  /\ \/ /\ dpc' = "health"
        /\ held' = held + 1
        /\ up' = up \cup {Children[held + 1]}
        /\ UNCHANGED <<rep, scenario, failure, exit>>
     \/ Fail /\ UNCHANGED up
  /\ UNCHANGED <<device, keyfile, build, req, log>>

\* It answers, or it has exited or does not answer before the deadline.
wait_for_health ==
  /\ dpc = "health"
  /\ \/ /\ Children[held] \in up
        /\ Goto(IF held = Len(Children) THEN "assert" ELSE "spawn")
     \/ Fail
  /\ UNCHANGED gatewayVars

-------------------------------------------------------------------------------
(* The repetitions. *)

\* Before the first scenario of a repetition and after the last.
assert_services_running ==
  /\ dpc = "assert"
  /\ IF up # Services THEN Fail
     ELSE IF scenario = 1 THEN Goto("reset")
     ELSE IF rep = Repeat THEN Goto("terminate")
     ELSE /\ rep' = rep + 1
          /\ scenario' = 1
          /\ UNCHANGED <<dpc, held, failure, exit>>
  /\ UNCHANGED gatewayVars

\* The device resets; its answer arrives or is lost.
reset_device ==
  /\ dpc = "reset"
  /\ "device" \in up
  /\ DeviceReset
  /\ Goto("submit") \/ Fail
  /\ UNCHANGED <<up, keyfile, build, req>>

expected == Contract[scenario]
request == <<rep, expected.label>>

submit_package ==
  /\ dpc = "submit"
  /\ submit_update(request, expected.gateway, expected.package)
  /\ Goto("await")

\* Slip: whichever way the gateway decides will do.
AnyDecisionWillDo(answer) ==
  /\ answer.http_status \in {200, 403}
  /\ answer.device_state_before = InitialState

AsExpected(answer) ==
  /\ answer.http_status = expected.status
  /\ answer.decision = expected.decision
  /\ answer.reason_code = expected.reason_code
  /\ answer.device_state_before = InitialState
  /\ answer.device_state_after = expected.after

NextScenario ==
  /\ scenario' = scenario + 1
  /\ dpc' = IF scenario = Len(Contract) THEN "assert" ELSE "reset"
  /\ UNCHANGED <<held, rep, failure, exit>>

\* An answer of the lab is a JSON object or the framework's plain text for a 500, which
\* fails the demo; a foreign listener's other JSON, which body.get does not survive, is not
\* modelled.
GatewayAnswers ==
  /\ dpc = "await"
  /\ req[request].pc = "answered"
  /\ IF AsExpected(req[request].answer) THEN NextScenario ELSE Fail
  /\ UNCHANGED gatewayVars

\* Slip: the requests have no timeout.
RequestsWaitForever ==
  /\ dpc \in {"reset", "submit"}
  /\ Fail
  /\ UNCHANGED gatewayVars

\* httpx.RequestError: refused, broken or timed out.
RequestFails ==
  /\ dpc \in {"reset", "submit", "await"}
  /\ Fail
  /\ UNCHANGED gatewayVars

-------------------------------------------------------------------------------
(* Stopping, in the finally clause. *)

\* terminate() is sent to all children that still run.
Terminate == dpc = "terminate" /\ Goto("wait") /\ UNCHANGED gatewayVars

ChildEnds(s) ==
  /\ dpc = "wait"
  /\ ServiceExits(s)
  /\ UNCHANGED demoVars

\* wait(): the child last started is the first to be waited for.
ChildReaped ==
  /\ dpc = "wait"
  /\ held > 0
  /\ Children[held] \notin up
  /\ held' = held - 1
  /\ UNCHANGED <<gatewayVars, dpc, rep, scenario, failure, exit>>

\* The child survives kill() as well; the exception leaves run_demo.
WaitTimesOut ==
  /\ dpc = "wait"
  /\ held > 0
  /\ Children[held] \in up
  /\ dpc' = "done"
  /\ exit' = "TimeoutExpired"
  /\ UNCHANGED <<gatewayVars, held, rep, scenario, failure>>

\* A port that is still open, whosever it is, turns success into failure.
wait_for_ports_closed ==
  /\ dpc = "wait"
  /\ held = 0
  /\ dpc' = "done"
  /\ \E occupied \in BOOLEAN : exit' = IF failure \/ occupied THEN "fail" ELSE "pass"
  /\ UNCHANGED <<gatewayVars, held, rep, scenario, failure>>

stop_services == Terminate \/ ChildReaped \/ WaitTimesOut \/ wait_for_ports_closed

run_demo ==
  \/ assert_ports_available \/ generate_demo_artifacts \/ start_service \/ wait_for_health
  \/ assert_services_running \/ reset_device \/ submit_package \/ GatewayAnswers
  \/ RequestFails \/ stop_services

Lab == LabStep /\ UNCHANGED demoVars

Next == run_demo \/ Lab \/ \E s \in Services : ChildEnds(s)

\* Every wait of the demo has a timeout; nothing is assumed of the lab.
Spec == Init /\ [][Next]_vars /\ WF_vars(run_demo)

-------------------------------------------------------------------------------
(* Properties. *)

\* What the device does in one repetition of the contract.
ContractLog(n) ==
  LET reset    == [op |-> "reset", by |-> None]
      apply(l) == [op |-> "apply", by |-> <<n, l>>]
  IN  <<reset, apply("A"), reset, reset, apply("C")>>

\* The exit code can be relied on: "pass" (PHASE2_CONTRACT_PASS) only if in every
\* repetition the device did exactly what the contract says, with the patched build in
\* place, although the demo only has the gateways' word for it, calls may be lost or
\* late and the key file may change; and with either code none of its services is left.
ExitTellsTheTruth ==
  /\ exit = "pass" =>
       /\ build = "signer_trust"
       /\ Len(log) = 5 * Repeat
       /\ \A n \in 1 .. Repeat : SubSeq(log, 5 * n - 4, 5 * n) = ContractLog(n)
  /\ exit \in {"pass", "fail"} => up = {}

\* The demo ends, whatever its services do.
DemoEnds == <>(dpc = "done")

-------------------------------------------------------------------------------
(* What makes ExitTellsTheTruth inductive. *)

\* Only the children that run_demo still holds can be up.
OnlyHeldAreUp == up \subseteq {Children[i] : i \in 1 .. held}

\* Where run_demo is.
PlaceAgrees ==
  /\ dpc \in {"ports", "artifacts", "spawn", "health", "assert", "reset", "submit", "await",
              "terminate", "wait", "done"}
  /\ held \in 0 .. Len(Children) /\ rep \in 1 .. Repeat /\ scenario \in 1 .. Len(Contract) + 1
  /\ failure \in BOOLEAN /\ exit \in {None, "pass", "fail", "TimeoutExpired"}
  /\ OnlyHeldAreUp
  /\ dpc \in {"ports", "artifacts", "spawn"} => held < Len(Children)
  /\ dpc \in {"ports", "artifacts", "spawn", "health"} => rep = 1 /\ scenario = 1
  /\ dpc = "assert" => scenario \in {1, 4}
  /\ dpc \in {"reset", "submit", "await"} => scenario <= Len(Contract)
  /\ dpc \in {"terminate", "wait", "done"} /\ ~failure => rep = Repeat /\ scenario = 4
  /\ dpc # "done" => exit = None
  /\ exit = "pass" => ~failure
  /\ exit \in {"pass", "fail"} => held = 0

Labelled(n, i) == <<n, Contract[i].label>>
Before(n, i) == n < rep \/ (n = rep /\ i < scenario)

\* Requests go out in the order of the contract, and one that was answered as expected
\* has nothing left to do at the device.
RequestsFollow ==
  ~failure => \A n \in 1 .. Repeat, i \in 1 .. Len(Contract) :
    LET r == Labelled(n, i)
        current == n = rep /\ i = scenario /\ dpc = "await"
    IN  /\ Before(n, i) => req[r].pc = "answered" /\ req[r].call # "sent"
        /\ current => /\ req[r].pc # "idle"
                      /\ req[r].gateway = Contract[i].gateway
                      /\ req[r].package = Contract[i].package
        /\ ~Before(n, i) /\ ~current => req[r].pc = "idle"

\* How much of the contract's history there is, without the call of the current request.
Followed ==
  5 * (rep - 1)
    + (CASE scenario = 1 -> 0 [] scenario = 2 -> 2 [] scenario = 3 -> 3 [] OTHER -> 5)
    + (IF dpc \in {"submit", "await"} THEN 1 ELSE 0)

Executed == dpc = "await" /\ req[request].call = "done"

HistoryFollows ==
  ~failure =>
    /\ Len(log) = Followed + (IF Executed THEN 1 ELSE 0)
    /\ \A n \in 1 .. Repeat, j \in 1 .. 5 :
         5 * (n - 1) + j <= Followed => log[5 * (n - 1) + j] = ContractLog(n)[j]
    /\ Executed => log[Followed + 1] = [op |-> "apply", by |-> request]

\* Only the fix refuses the untrusted package.
BuildFollows == ~failure /\ (rep > 1 \/ scenario > 2) => build = "signer_trust"

DemoAgrees == PlaceAgrees /\ RequestsFollow /\ HistoryFollows /\ BuildFollows
===============================================================================
