------------------------------- MODULE Gateway --------------------------------
(***************************************************************************)
(* The virtual device and the two OTA gateways in front of it.             *)
(*                                                                         *)
(* A gateway is an asyncio server: process_gateway_update is split at its  *)
(* two awaits (the device state read and the device apply call), and       *)
(* several requests, to either gateway, may be between them at once.  The  *)
(* device executes each call atomically under its lock.  An apply call may *)
(* be executed after its caller gave up on it (timeout), or executed with  *)
(* its reply lost; a service process may exit; the trusted key file, which *)
(* the patched gateway reads again for every request, may change.          *)
(***************************************************************************)
EXTENDS OtaPackage, Sequences, FiniteSets

CONSTANTS
  EmptyDoc,       \* the empty dict a gateway reports when it could not read the device
  Requests,       \* identities of the update requests
  Packages,       \* the package envelopes that may be submitted
  PatchedBuilds,  \* what may run in the patched slot, of {"signer_trust", "checksum_only"}
  KeyFiles,       \* what the trusted key file may hold, of keys and NoKey
  Exiting,        \* the service processes that may exit by themselves
  MaxLog          \* bound: no reset is asked for once the history is this long

ASSUME GatewayConstants ==
  /\ MaxLog \in Nat
  /\ Exiting \subseteq {"VULNERABLE", "PATCHED", "device"}
  /\ PatchedBuilds \subseteq {"signer_trust", "checksum_only"}
  /\ None # EmptyDoc /\ None \notin KeyFiles \cup {TrustedKey, NoKey}
  /\ None \notin {"ACCEPTED", "REJECTED"}

VARIABLES device,  \* VirtualDevice: firmware_version, update_counter, last_payload_sha256
          up,      \* the service processes that are running
          keyfile, \* what FIXREPRO_TRUSTED_PUBLIC_KEY leads to
          build,   \* what runs in the patched slot; fixed
          req,     \* one record per update request
          log      \* history: the resets and applies the device executed, in order

gatewayVars == <<device, up, keyfile, build, req, log>>

Gateways == {"VULNERABLE", "PATCHED"}
Services == Gateways \cup {"device"}

InitialState ==
  [firmware_version |-> INITIAL_VERSION, update_counter |-> 0, last_payload_sha256 |-> None]

IdleRequest ==
  [pc |-> "idle", gateway |-> None, package |-> None, key |-> None,
   result |-> None, before |-> None, call |-> "none", after |-> None, answer |-> None]

GatewayInit ==
  /\ device = InitialState
  /\ up = Services
  /\ keyfile = TrustedKey
  /\ build \in PatchedBuilds
  /\ req = [r \in Requests |-> IdleRequest]
  /\ log = <<>>

-------------------------------------------------------------------------------
(* The device. *)

\* POST /api/v1/reset
DeviceReset ==
  /\ device' = InitialState
  /\ log' = Append(log, [op |-> "reset", by |-> None])

\* VirtualDevice.apply: the new state, which is also the reply.
AppliedState(result) ==
  [firmware_version    |-> result.firmware_version,
   update_counter      |-> device.update_counter + 1,
   last_payload_sha256 |-> result.payload_sha256]

\* Slip: the new state is computed from the one the gateway read earlier.
AppliesOnStaleState(r) ==
  LET stale == [AppliedState(req[r].result)
                  EXCEPT !.update_counter = req[r].before.update_counter + 1]
  IN  /\ "device" \in up
      /\ req[r].call = "sent"
      /\ device' = stale
      /\ req' = [req EXCEPT ![r].call = "done", ![r].after = stale]
      /\ log' = Append(log, [op |-> "apply", by |-> r])
      /\ UNCHANGED <<up, keyfile, build>>

\* POST /api/v1/apply, at any time after the gateway sent it, even if the
\* gateway has stopped waiting for the reply.
DeviceApply(r) ==
  /\ "device" \in up
  /\ req[r].call = "sent"
  /\ device' = AppliedState(req[r].result)
  /\ req' = [req EXCEPT ![r].call = "done", ![r].after = AppliedState(req[r].result)]
  /\ log' = Append(log, [op |-> "apply", by |-> r])
  /\ UNCHANGED <<up, keyfile, build>>

-------------------------------------------------------------------------------
(* The gateways. *)

\* The policy the handler of submit_update passes on.
Policy(r) ==
  CASE req[r].key = None  -> evaluate_vulnerable_policy(req[r].package)
    [] req[r].key = NoKey -> PolicyResult("ERROR", "TRUST_CONFIGURATION_ERROR")
    [] OTHER              -> evaluate_patched_policy(req[r].package, req[r].key)

GatewayResponse(result, before, after) ==
  [http_status |-> http_status_for(result), malformed |-> FALSE,
   decision |-> result.decision, reason_code |-> result.reason_code,
   device_state_before |-> before, device_state_after |-> after]

\* Starlette's plain-text answer to an unhandled exception.
InternalServerError ==
  [http_status |-> 500, malformed |-> TRUE, decision |-> None, reason_code |-> None,
   device_state_before |-> None, device_state_after |-> None]

\* Slip: a handler that ends without its answer.
AnsweredWithoutBody(record, answer) == [record EXCEPT !.pc = "answered"]

Answered(record, answer) == [record EXCEPT !.pc = "answered", !.answer = answer]

DeviceError(reason) == PolicyResult("ERROR", reason)

LoadsKey(g) == g = "PATCHED" /\ build = "signer_trust"

\* The body is read and, in the patched gateway, the trusted key is loaded.
submit_update(r, g, p) ==
  /\ g \in up
  /\ req[r].pc = "idle"
  /\ req' = [req EXCEPT ![r] = [IdleRequest EXCEPT !.pc = "get_state", !.gateway = g,
                                                   !.package = p,
                                                   !.key = IF LoadsKey(g) THEN keyfile ELSE None]]
  /\ UNCHANGED <<device, up, keyfile, build, log>>

Serving(r, pc) == req[r].pc = pc /\ req[r].gateway \in up

\* get_device_state returns; the policy decides; an accepted package is sent on.
ReadState(r) ==
  LET result == Policy(r)
      read   == [req[r] EXCEPT !.before = device, !.result = result]
  IN  /\ Serving(r, "get_state")
      /\ "device" \in up
      /\ req' = [req EXCEPT ![r] =
                   IF result.decision = "ACCEPTED"
                   THEN [read EXCEPT !.pc = "apply", !.call = "sent"]
                   ELSE Answered(read, GatewayResponse(result, device, device))]
      /\ UNCHANGED <<device, up, keyfile, build, log>>

ReadStateUnavailable(r) ==
  /\ Serving(r, "get_state")
  /\ req' = [req EXCEPT ![r] = Answered(@,
               GatewayResponse(DeviceError("DEVICE_UNAVAILABLE"), EmptyDoc, EmptyDoc))]
  /\ UNCHANGED <<device, up, keyfile, build, log>>

\* apply_device_update returns the state the device replied with.
ApplyReturns(r) ==
  /\ Serving(r, "apply")
  /\ req[r].call = "done"
  /\ req' = [req EXCEPT ![r] = Answered(@,
               GatewayResponse(req[r].result, req[r].before, req[r].after))]
  /\ UNCHANGED <<device, up, keyfile, build, log>>

\* Slip: a call that timed out is answered as if it had been executed.
ApplyAssumed(r) ==
  /\ Serving(r, "apply")
  /\ req' = [req EXCEPT ![r] = Answered(@,
               GatewayResponse(req[r].result, req[r].before, AppliedState(req[r].result)))]
  /\ UNCHANGED <<device, up, keyfile, build, log>>

\* Connection failure or timeout: the call may have been, or may yet be, executed.
ApplyUnavailable(r) ==
  /\ Serving(r, "apply")
  /\ req' = [req EXCEPT ![r] = Answered(@,
               GatewayResponse(DeviceError("DEVICE_UNAVAILABLE"), req[r].before, req[r].before))]
  /\ UNCHANGED <<device, up, keyfile, build, log>>

\* The device answers the apply call with an error status and does not execute it, or it
\* has executed the call and its reply is an error status or an invalid document.
ApplyFailed(r) ==
  /\ Serving(r, "apply")
  /\ \/ req[r].call = "sent" /\ "device" \in up
     \/ req[r].call = "done"
  /\ req' = [req EXCEPT ![r] = [Answered(@,
               GatewayResponse(DeviceError("DEVICE_APPLY_FAILED"), req[r].before, req[r].before))
               EXCEPT !.call = IF req[r].call = "sent" THEN "refused" ELSE "done"]]
  /\ UNCHANGED <<device, up, keyfile, build, log>>

\* An exception the gateway does not handle.
GatewayFails(r) ==
  /\ Serving(r, "get_state") \/ Serving(r, "apply")
  /\ req' = [req EXCEPT ![r] = Answered(@, InternalServerError)]
  /\ UNCHANGED <<device, up, keyfile, build, log>>

ServiceExits(s) ==
  /\ s \in up
  /\ up' = up \ {s}
  /\ UNCHANGED <<device, keyfile, build, req, log>>

KeyFileChanges(k) ==
  /\ k # keyfile
  /\ keyfile' = k
  /\ UNCHANGED <<device, up, build, req, log>>

\* Slip: the device client has no timeout and its errors are not handled.
StepWithoutTimeout(r) == ReadState(r) \/ ApplyReturns(r) \/ ApplyFailed(r)

GatewayStep(r) ==
  \/ ReadState(r) \/ ReadStateUnavailable(r)
  \/ ApplyReturns(r) \/ ApplyUnavailable(r) \/ ApplyFailed(r) \/ GatewayFails(r)

LabFaults ==
  \/ \E s \in Exiting : ServiceExits(s)
  \/ \E k \in KeyFiles : KeyFileChanges(k)

LabStep == LabFaults \/ \E r \in Requests : GatewayStep(r) \/ DeviceApply(r)

-------------------------------------------------------------------------------
(* The lab on its own: any client may reset the device and submit any package *)
(* to either gateway.                                                         *)

ClientReset ==
  /\ "device" \in up
  /\ Len(log) < MaxLog
  /\ DeviceReset
  /\ UNCHANGED <<up, keyfile, build, req>>

ClientSubmits ==
  \E r \in Requests, g \in Gateways, p \in Packages : submit_update(r, g, p)

GatewayNext == LabStep \/ ClientReset \/ ClientSubmits

\* A running gateway finishes its handlers: every await ends with a reply or
\* with the 3 s timeout of device_client.
GatewaySpec ==
  /\ GatewayInit
  /\ [][GatewayNext]_gatewayVars
  /\ \A r \in Requests : WF_gatewayVars(GatewayStep(r))

-------------------------------------------------------------------------------
(* Properties. *)

DeviceStates ==
  [firmware_version : {INITIAL_VERSION} \cup {p.manifest.firmware_version : p \in Packages},
   update_counter : Nat,
   last_payload_sha256 : {None} \cup {p.manifest.payload_sha256 : p \in Packages}]

Decisions == {"ACCEPTED", "REJECTED", "ERROR"}

ReasonCodes ==
  {"CHECKSUM_ONLY_ACCEPTED", "TRUSTED_SIGNATURE_ACCEPTED", "UNTRUSTED_SIGNER",
   "PAYLOAD_HASH_MISMATCH", "PAYLOAD_SIZE_MISMATCH", "SIGNER_FINGERPRINT_MISMATCH",
   "INVALID_SIGNATURE", "MALFORMED_PACKAGE", "DEVICE_UNAVAILABLE", "DEVICE_APPLY_FAILED",
   "TRUST_CONFIGURATION_ERROR"}

Answers ==
  [http_status : {200, 400, 403, 500, 502}, malformed : {FALSE}, decision : Decisions,
   reason_code : ReasonCodes, device_state_before : DeviceStates \cup {EmptyDoc},
   device_state_after : DeviceStates \cup {EmptyDoc}]
  \cup {InternalServerError}

Entries == {[op |-> "reset", by |-> None]} \cup [op : {"apply"}, by : Requests]

UpdateRequests(r) ==
  [pc : {"idle", "get_state", "apply", "answered"}, gateway : Gateways \cup {None},
   package : Packages \cup {None}, key : KeyFiles \cup {TrustedKey, None},
   result : IF req[r].pc = "idle" THEN {None} ELSE {None, Policy(r)},
   before : DeviceStates \cup {None}, call : {"none", "sent", "done", "refused"},
   after : DeviceStates \cup {None}, answer : Answers \cup {None}]

\* Every variable of the lab has the type its Python counterpart has, and a request has
\* its inputs once it was submitted and its answer once it was answered.
GatewayTypeOK ==
  /\ device \in DeviceStates
  /\ up \subseteq Services
  /\ keyfile \in KeyFiles \cup {TrustedKey}
  /\ build \in PatchedBuilds
  /\ log \in Seq(Entries)
  /\ req = [r \in Requests |-> req[r]]
  /\ \A r \in Requests :
       /\ req[r] \in UpdateRequests(r)
       /\ req[r].pc # "idle" => /\ req[r].gateway \in Gateways
                                /\ req[r].package \in Packages
                                /\ req[r].key \in KeyFiles \cup {TrustedKey, None}
       /\ req[r].pc = "answered" => req[r].answer \in Answers

AppliesBy(r) == {i \in DOMAIN log : log[i] = [op |-> "apply", by |-> r]}

AppliesSinceReset ==
  {i \in DOMAIN log : /\ log[i].op = "apply"
                      /\ \A j \in DOMAIN log : j > i => log[j].op = "apply"}

\* No update is lost between concurrent requests: the device's counter is the
\* number of applies it executed since its last reset, and its firmware is that
\* of the last of them (VirtualDevice.apply under its lock, although the gateways
\* act on a state they read earlier).
NoLostUpdate ==
  /\ device.update_counter = Cardinality(AppliesSinceReset)
  /\ AppliesSinceReset # {} =>
       LET last == req[log[Len(log)].by].package.manifest
       IN  /\ device.firmware_version = last.firmware_version
           /\ device.last_payload_sha256 = last.payload_sha256

\* What a gateway answers is what happened: ACCEPTED only after the device
\* executed this package exactly once and with the state that execution produced,
\* REJECTED only for a package that never reaches the device, and no request is
\* ever executed twice, even one whose caller gave up.
AnswerTellsTheTruth ==
  \A r \in Requests :
    /\ Cardinality(AppliesBy(r)) <= 1
    /\ req[r].pc = "answered" =>
         /\ req[r].answer.decision = "ACCEPTED" =>
              /\ AppliesBy(r) # {}
              /\ req[r].answer.device_state_after.last_payload_sha256
                   = req[r].package.manifest.payload_sha256
              /\ req[r].answer.device_state_after.update_counter > 0
         /\ req[r].answer.decision = "REJECTED" =>
              /\ AppliesBy(r) = {}
              /\ req[r].call = "none"

\* The signer-trust property of docs/VERIFICATION_LOGIC.md: payload integrity is
\* valid and the signature verifies under the configured trusted key.
Authentic(package, key) ==
  /\ package.parsable
  /\ package.payload.size = package.manifest.payload_size
  /\ sha256(package.payload.bytes) = package.manifest.payload_sha256
  /\ package.signature = sign_manifest(key, package.manifest)

\* Whatever is in flight, the device only ever executes a package of the patched
\* gateway that is authentic under the key loaded for that request; and a package
\* authentic under that key, with its own key and fingerprint, is never rejected.
PatchedAppliesOnlyAuthentic ==
  build = "signer_trust" =>
    \A r \in Requests : req[r].gateway = "PATCHED" =>
      /\ AppliesBy(r) # {} => Authentic(req[r].package, req[r].key)
      /\ /\ req[r].pc = "answered"
         /\ req[r].answer.decision = "REJECTED"
         /\ Authentic(req[r].package, req[r].key)
         => \/ req[r].package.signer_public_key # req[r].key
            \/ req[r].package.signer_fingerprint # sha256(req[r].package.signer_public_key)

\* How far a request's call to the device has come, against what the policy decided,
\* what the device executed and what was answered: what makes the invariants inductive.
RequestAgrees(r) ==
  /\ req[r].pc \in {"idle", "get_state"} => req[r].call = "none"
  /\ req[r].pc = "apply" => req[r].call \in {"sent", "done"} /\ req[r].before \in DeviceStates
  /\ req[r].pc # "idle" => (req[r].key # None <=> LoadsKey(req[r].gateway))
  /\ req[r].call # "none" => req[r].result = Policy(r) /\ Policy(r).decision = "ACCEPTED"
  /\ req[r].call = "done" <=> AppliesBy(r) # {}
  /\ \A i, j \in AppliesBy(r) : i = j
  /\ req[r].call = "done" =>
       /\ req[r].after \in DeviceStates
       /\ req[r].after.last_payload_sha256 = req[r].package.manifest.payload_sha256
       /\ req[r].after.update_counter > 0
  /\ req[r].pc = "answered" =>
       /\ req[r].answer.decision = "ACCEPTED" =>
            req[r].call = "done" /\ req[r].answer.device_state_after = req[r].after
       /\ req[r].answer.decision = "REJECTED" =>
            req[r].call = "none" /\ Policy(r).decision = "REJECTED"
       /\ req[r].answer.decision \in {"ACCEPTED", "REJECTED"} =>
            /\ req[r].answer.reason_code = Policy(r).reason_code
            /\ req[r].answer.http_status = http_status_for(Policy(r))

RequestsAgree == \A r \in Requests : RequestAgrees(r)

\* Every request to a gateway that keeps running is answered, although the device
\* may be gone, slow, or have executed the call without the reply arriving.
EveryRequestAnswered ==
  \A r \in Requests :
    req[r].pc \in {"get_state", "apply"} ~>
      (req[r].pc = "answered" \/ req[r].gateway \notin up)
===============================================================================
