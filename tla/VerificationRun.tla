--------------------------- MODULE VerificationRun ----------------------------
(***************************************************************************)
(* One run of VerificationOrchestrator.run against the lab of Gateway: the *)
(* services are started, the three scenarios are executed one after the    *)
(* other over HTTP, the services are stopped, and a bundle is staged,      *)
(* verified and published.  Between any two HTTP exchanges of the          *)
(* orchestrator the gateways and the device take their own steps: a        *)
(* service may exit, an apply call may time out at the gateway and be      *)
(* executed by the device later, even in the next scenario.                *)
(***************************************************************************)
EXTENDS Gateway, Bundle

VARIABLES opc,       \* where the orchestrator is
          scenario,  \* index in Definitions of the scenario being executed
          before,    \* the state the device answered the scenario's reset with
          captures,  \* the finished scenarios, in order
          error,     \* the exception run() will raise, or None
          published  \* the files this run has put at its destination

orchestratorVars == <<opc, scenario, before, captures, error, published>>
vars == <<gatewayVars, orchestratorVars>>

\* The ScenarioDefinition tuple; each request is named by its role.
Definitions == <<"VULNERABLE", "PATCHED", "POSITIVE_CONTROL">>
GatewayOf(role) == IF role = "VULNERABLE" THEN "VULNERABLE" ELSE "PATCHED"
PackageOf(role) == IF role = "POSITIVE_CONTROL" THEN TrustedPackage ELSE UntrustedPackage

Exceptions == {"VerificationError", "BundleError", "OSError", "TimeoutExpired", "ValueError"}

ASSUME RunConstants ==
  /\ Requests = ExecutionRole
  /\ Packages = {UntrustedPackage, TrustedPackage}
  /\ None \notin Exceptions

role == Definitions[scenario]

Init ==
  /\ GatewayInit
  /\ opc = "start" /\ scenario = 1 /\ before = None /\ captures = <<>>
  /\ error = None /\ published = <<>>

\* An exception inside the try block: the finally clause stops the services.
Raise(exception) ==
  /\ opc' = "stop"
  /\ error' = exception
  /\ UNCHANGED <<scenario, before, captures, published>>

start_services ==
  /\ opc = "start"
  /\ opc' = "assert"
  /\ UNCHANGED <<gatewayVars, scenario, before, captures, error, published>>

\* The output directory is refused or a file operation fails before anything is
\* started, or start_services raises: after it stopped what it had started, unless it was
\* an OSError or a child survived that stop (Services has the children).
StartFails ==
  /\ opc = "start"
  /\ opc' = "done"
  /\ error' \in {"BundleError", "OSError", "VerificationError", "TimeoutExpired"}
  /\ up' \in SUBSET up
  /\ error' \in {"BundleError", "VerificationError"} => up' = {}
  /\ UNCHANGED <<device, keyfile, build, req, log, scenario, before, captures, published>>

\* Before each scenario and once more after the last.
assert_services_running ==
  /\ opc = "assert"
  /\ IF up # Services THEN Raise("VerificationError")
     ELSE /\ opc' = IF scenario <= Len(Definitions) THEN "reset" ELSE "stop"
          /\ UNCHANGED <<scenario, before, captures, error, published>>
  /\ UNCHANGED gatewayVars

reset_device ==
  /\ opc = "reset"
  /\ "device" \in up
  /\ DeviceReset
  /\ before' = device'
  /\ opc' = "post"
  /\ UNCHANGED <<up, keyfile, build, req, scenario, captures, error, published>>

post_package ==
  /\ opc = "post"
  /\ submit_update(role, GatewayOf(role), PackageOf(role))
  /\ opc' = "await"
  /\ UNCHANGED <<scenario, before, captures, error, published>>

GatewayAnswers ==
  /\ opc = "await"
  /\ req[role].pc = "answered"
  /\ opc' = "observe"
  /\ UNCHANGED <<gatewayVars, scenario, before, captures, error, published>>

\* Slip: the request to the gateway has no timeout.
AwaitForever ==
  /\ opc \in {"reset", "post", "observe"}
  /\ Raise("VerificationError")
  /\ UNCHANGED gatewayVars

\* httpx.RequestError of any of the three exchanges: refused, reset or timed out.
RequestFails ==
  /\ opc \in {"reset", "post", "await", "observe"}
  /\ Raise("VerificationError")
  /\ UNCHANGED gatewayVars

\* The decision recorded: what the gateway said, unless it was not understood or
\* contradicts what the orchestrator itself saw of the device.
Conflicting(answer, after) ==
  \/ answer.device_state_before # None /\ answer.device_state_before # before
  \/ answer.device_state_after # None /\ answer.device_state_after # after

RecordedResponse(answer, after) ==
  CASE Conflicting(answer, after) ->
         [http_status |-> answer.http_status, decision |-> "ERROR",
          reason_code |-> "CONFLICTING_OBSERVATION"]
    [] answer.malformed /\ ~Conflicting(answer, after) ->
         [http_status |-> answer.http_status, decision |-> "ERROR",
          reason_code |-> "MALFORMED_RESPONSE"]
    [] OTHER ->
         [http_status |-> answer.http_status, decision |-> answer.decision,
          reason_code |-> answer.reason_code]

ScenarioCapture(r, response, gateway_response, from, after) ==
  [role                |-> r,
   execution_id        |-> r,
   package             |-> PackageOf(r),
   reset_confirmed     |-> from = InitialState,
   request             |-> [body_sha256 |-> sha256(PackageOf(r))],
   response            |-> response,
   gateway_response    |-> gateway_response,
   device_state_before |-> from,
   device_state_after  |-> after]

_execute_scenario(answer, after) ==
  ScenarioCapture(role, RecordedResponse(answer, after),
                  [decision |-> answer.decision, reason_code |-> answer.reason_code],
                  before, after)

\* Slip: a scenario whose answer was not understood is left out of the captures.
MalformedSkipped ==
  /\ opc = "observe"
  /\ "device" \in up
  /\ captures' = IF req[role].answer.malformed THEN captures
                 ELSE Append(captures, _execute_scenario(req[role].answer, device))
  /\ scenario' = scenario + 1
  /\ opc' = "assert"
  /\ UNCHANGED <<gatewayVars, before, error, published>>

read_device_state ==
  /\ opc = "observe"
  /\ "device" \in up
  /\ captures' = Append(captures, _execute_scenario(req[role].answer, device))
  /\ scenario' = scenario + 1
  /\ opc' = "assert"
  /\ UNCHANGED <<gatewayVars, before, error, published>>

\* The finally clause.  Nothing of the lab runs after it.
stop_services ==
  /\ opc = "stop"
  /\ up' = {}
  /\ opc' = IF error = None THEN "publish" ELSE "done"
  /\ UNCHANGED <<device, keyfile, build, req, log, scenario, before, captures, error, published>>

\* A port stays open though every child has exited, or a child survives even kill() for
\* 5 s, and those after it in the loop may too: whatever the run had observed or raised
\* before, it ends with this exception.
StopFails ==
  /\ opc = "stop"
  /\ opc' = "done"
  /\ \/ error' = "VerificationError" /\ up' = {}
     \/ error' = "TimeoutExpired" /\ up # {} /\ UNCHANGED up
  /\ UNCHANGED <<device, keyfile, build, req, log, scenario, before, captures, published>>

\* The trusted key is read again for the bundle; one that is gone is an OSError, one
\* that does not load makes the staged bundle invalid.
TrustFile == IF keyfile = NoKey THEN Garbage ELSE keyfile

\* Slip: the bundle is published before it is verified.
PublishThenVerify ==
  /\ opc = "publish"
  /\ opc' = "check"
  /\ published' = StagedBundle(captures, TrustFile)
  /\ UNCHANGED <<gatewayVars, scenario, before, captures, error>>

\* The staged bundle is verified, and only then moved to the destination.
publish_bundle ==
  LET staged == StagedBundle(captures, TrustFile)
      valid  == verify_bundle(staged)
  IN  /\ opc = "publish"
      /\ UNCHANGED <<gatewayVars, scenario, before, captures>>
      /\ \/ opc' = "check" /\ UNCHANGED error /\ valid /\ published' = staged
         \/ opc' = "done" /\ UNCHANGED published /\ ~valid /\ error' = "BundleError"

\* Staging fails (a collision, a file operation, a schema that refuses evidence.json), or
\* publish_directory does before the bundle is in place: the destination exists by now or
\* is a symlink, or a rename fails.
PublishFails ==
  /\ opc = "publish"
  /\ opc' = "done"
  /\ error' \in {"OSError", "BundleError", "ValueError"}
  /\ UNCHANGED <<gatewayVars, scenario, before, captures, published>>

\* The published bundle is read back once more.
verify_published ==
  /\ opc = "check"
  /\ opc' = "done"
  /\ IF verify_bundle(published) THEN UNCHANGED error ELSE error' = "BundleError"
  /\ UNCHANGED <<gatewayVars, scenario, before, captures, published>>

\* With the bundle in place, the backup of its predecessor cannot be removed, or what is
\* read back is refused or has another digest: someone else has touched the destination
\* (Publish has the publishers that do).  The bundle is not taken away again.
PublishedThenFails ==
  /\ opc = "check"
  /\ opc' = "done"
  /\ error' \in {"OSError", "BundleError"}
  /\ UNCHANGED <<gatewayVars, scenario, before, captures, published>>

Orchestrator ==
  \/ start_services \/ StartFails \/ assert_services_running
  \/ reset_device \/ post_package \/ GatewayAnswers \/ RequestFails \/ read_device_state
  \/ stop_services \/ StopFails
  \/ PublishFails \/ publish_bundle \/ PublishedThenFails \/ verify_published

\* The lab's own steps happen while its services run and until the key file is read for
\* the bundle: what it does later is in nobody's evidence.
Lab == /\ opc \notin {"start", "check", "done"}
       /\ LabStep
       /\ UNCHANGED orchestratorVars

Next == Orchestrator \/ Lab

\* Every wait of the orchestrator has a timeout; nothing is assumed of the lab.
Spec == Init /\ [][Next]_vars /\ WF_vars(Orchestrator)

-------------------------------------------------------------------------------
(* Properties. *)

Outcome == published["evidence.json"].verification_outcome
Published == DOMAIN published # {}
Conclusive == Published /\ Outcome \in {"PATCH_VERIFIED", "PATCH_NOT_VERIFIED"}

\* Every variable of the run has the type its Python counterpart has.
TypeOK ==
  /\ GatewayTypeOK
  /\ opc \in {"start", "assert", "reset", "post", "await", "observe", "stop", "publish",
              "check", "done"}
  /\ scenario \in 1 .. Len(Definitions) + 1
  /\ before \in DeviceStates \cup {None}
  /\ Len(captures) = scenario - 1
  /\ error \in {None} \cup Exceptions

\* The device history that the recorded decisions claim: each scenario resets the
\* device once, and then exactly the accepted packages reach it.
ClaimedLog ==
  LET claim(i) ==
        <<[op |-> "reset", by |-> None]>> \o
        (IF captures[i].response.decision = "ACCEPTED"
         THEN <<[op |-> "apply", by |-> Definitions[i]]>> ELSE <<>>)
  IN  claim(1) \o claim(2) \o claim(3)

\* A conclusive bundle rests on what the device really did: no apply was late,
\* lost, repeated, or executed in another scenario than the one that sent it
\* (_execute_scenario and calculate_verification_outcome under every fault).
ConclusiveIsObserved == Conclusive => log = ClaimedLog

RightKeyLoaded ==
  build = "signer_trust" => \A r \in {"PATCHED", "POSITIVE_CONTROL"} : req[r].key = TrustedKey

\* No fault turns into a wrong conclusion: a published conclusion is right about
\* the build in the patched slot, and a run in which every scenario got a decision
\* reaches a conclusion.
OutcomeMatchesBuild ==
  Published /\ RightKeyLoaded =>
    /\ Outcome = "PATCH_VERIFIED" => build = "signer_trust"
    /\ Outcome = "PATCH_NOT_VERIFIED" => build = "checksum_only"
    /\ Outcome = "INCONCLUSIVE" =>
         \E i \in DOMAIN captures : captures[i].response.decision = "ERROR"

\* PATCH_VERIFIED means that the trusted package was accepted under the key the bundle
\* itself carries, although the gateway and the orchestrator read the key file separately
\* and it may change in between, and that the untrusted one was refused under some key
\* that is not its signer's.  It need not be the bundled one: the bundle does not say
\* which key that was.
VerifiedUnderBundledKey ==
  Published /\ Outcome = "PATCH_VERIFIED" /\ build = "signer_trust" =>
    /\ req["POSITIVE_CONTROL"].key = published[TrustPath]
    /\ req["PATCHED"].key \notin {None, NoKey, UntrustedKey}

\* The destination never gets a bundle that verify_bundle refuses, nor one of a run that
\* failed while it executed or stopped its services; a run may raise although its bundle
\* is in place, but it returns only if it is (the end of run() and publish_directory).
PublishedIsVerified ==
  /\ Published => verify_bundle(published) /\ error \notin {"VerificationError", "TimeoutExpired"}
  /\ opc = "done" /\ error = None => Published

\* Every run ends, with a bundle or with an exception.
RunTerminates == <>(opc = "done")

UpdatedState(package) ==
  [firmware_version |-> package.manifest.firmware_version, update_counter |-> 1,
   last_payload_sha256 |-> package.manifest.payload_sha256]

Decided(i) == captures[i].response.decision # "ERROR"

\* What the device executed in a captured scenario, by its decision, and up to scenario n.
Reset == <<[op |-> "reset", by |-> None]>>
AppliedIf(happened, r) == IF happened THEN <<[op |-> "apply", by |-> r]>> ELSE <<>>
Claim(i) == Reset \o AppliedIf(captures[i].response.decision = "ACCEPTED", Definitions[i])
PastLog ==
  CASE scenario = 1 -> <<>>
    [] scenario = 2 -> Claim(1)
    [] scenario = 3 -> Claim(1) \o Claim(2)
    [] OTHER        -> Claim(1) \o Claim(2) \o Claim(3)

StateIf(happened, r) == IF happened THEN UpdatedState(PackageOf(r)) ELSE InitialState

\* Nothing was raised before the bundle was in place, so every scenario was executed.
Undisturbed == error = None \/ Published

\* The orchestrator's place in its run.
PlaceAgrees ==
  /\ opc = "start" => scenario = 1
  /\ opc \in {"reset", "post", "await", "observe"} => scenario <= 3
  /\ opc \notin {"stop", "done"} => error = None
  /\ Undisturbed /\ opc \in {"stop", "publish", "check", "done"} => scenario = 4
  /\ opc \in {"post", "await", "observe"} => before = InitialState
  /\ opc = "await" => req[role].pc # "idle"
  /\ opc = "observe" => req[role].pc = "answered"

\* A request is submitted in its scenario, and as its definition says.
SubmittedAsDefined ==
  \A i \in 1 .. 3 :
    LET r == Definitions[i]
    IN  /\ i > scenario => req[r].pc = "idle"
        /\ i = scenario /\ opc \in {"start", "assert", "reset", "post"} => req[r].pc = "idle"
        /\ req[r].pc # "idle" => req[r].gateway = GatewayOf(r) /\ req[r].package = PackageOf(r)

\* A capture whose scenario was decided holds the policy's decision, and that request has
\* nothing left to do at the device.
CaptureAgrees(i) ==
  LET c == captures[i]
      r == Definitions[i]
  IN  /\ c = ScenarioCapture(r, c.response, c.gateway_response, InitialState,
                               c.device_state_after)
      /\ req[r].pc = "answered"
      /\ Decided(i) =>
           /\ c.response = [http_status |-> http_status_for(Policy(r)),
                            decision    |-> Policy(r).decision,
                            reason_code |-> Policy(r).reason_code]
           /\ c.response.decision \in {"ACCEPTED", "REJECTED"}
           /\ c.gateway_response.decision = c.response.decision
           /\ req[r].call = IF c.response.decision = "ACCEPTED" THEN "done" ELSE "none"
      /\ (\A j \in 1 .. i : Decided(j)) =>
           c.device_state_after = StateIf(c.response.decision = "ACCEPTED", r)

CapturesAgree ==
  /\ captures = [i \in 1 .. scenario - 1 |-> captures[i]]
  /\ \A i \in 1 .. scenario - 1 : CaptureAgrees(i)

\* While every scenario so far was decided, the device's history is the claimed one.
HistoryAgrees ==
  Undisturbed /\ (\A i \in 1 .. scenario - 1 : Decided(i)) =>
    CASE opc = "post" -> log = PastLog \o Reset /\ device = InitialState
      [] opc \in {"await", "observe"} ->
           LET happened == req[role].call = "done"
           IN  /\ log = PastLog \o Reset \o AppliedIf(happened, role)
               /\ device = StateIf(happened, role)
      [] OTHER -> log = PastLog

PublicationAgrees ==
  /\ opc = "check" \/ (opc = "done" /\ error = None) => Published
  /\ Published =>
       /\ opc \in {"check", "done"} /\ error \in {None, "OSError", "BundleError"}
       /\ verify_bundle(published)
       /\ \E key \in KeyFiles \cup {TrustedKey, Garbage} : published = StagedBundle(captures, key)

\* What makes the invariants inductive: decided scenarios leave nothing behind.
RunAgrees ==
  /\ PlaceAgrees /\ SubmittedAsDefined /\ CapturesAgree /\ HistoryAgrees /\ PublicationAgrees

\* docs/VERIFICATION_LOGIC.md:38: INCONCLUSIVE covers a malformed response and
\* conflicting state: the bundle staged by a run that recorded one says so, and is accepted.
BadObservationIsInconclusive ==
  /\ opc = "publish" /\ TrustFile = TrustedKey
  /\ \E i \in 1..3 :
       captures[i].response.reason_code \in {"MALFORMED_RESPONSE", "CONFLICTING_OBSERVATION"}
  => LET staged == StagedBundle(captures, TrustFile)
     IN  /\ staged["evidence.json"].verification_outcome = "INCONCLUSIVE"
         /\ verify_bundle(staged)
===============================================================================
