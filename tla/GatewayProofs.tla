----------------------------- MODULE GatewayProofs ----------------------------
(* Proofs about Gateway, for any packages, any number of concurrent requests    *)
(* and any length of the device's history.                                      *)
EXTENDS Gateway, FiniteSetTheorems, SequenceTheorems, TLAPS

-------------------------------------------------------------------------------
(* The policies. *)

\* What a result is worth: its codes are known ones, and an accepted one carries the
\* fields of the package.
GoodResult(result, package) ==
  /\ result.decision \in Decisions
  /\ result.reason_code \in ReasonCodes
  /\ result.decision = "ACCEPTED" =>
       /\ result.firmware_version = package.manifest.firmware_version
       /\ result.payload_sha256 = package.manifest.payload_sha256

\* A rejection for a known reason is a good result.
LEMMA RejectedForIsGood ==
  ASSUME NEW package, NEW reason \in ReasonCodes
  PROVE  GoodResult(RejectedFor(reason, package), package)
         /\ RejectedFor(reason, package).decision = "REJECTED"
  BY DEF GoodResult, RejectedFor, WithPackageFields, PolicyResult, Decisions

\* The exceptions of verify_payload_integrity, and when there is none.
LEMMA IntegrityReasons ==
  ASSUME NEW package
  PROVE  /\ verify_payload_integrity(package)
              \in {"", "PAYLOAD_SIZE_MISMATCH", "PAYLOAD_HASH_MISMATCH"}
         /\ verify_payload_integrity(package) = "" <=>
              /\ package.payload.size = package.manifest.payload_size
              /\ sha256(package.payload.bytes) = package.manifest.payload_sha256
  BY DEF verify_payload_integrity

LEMMA VulnerablePolicyIsGood ==
  ASSUME NEW package
  PROVE  GoodResult(evaluate_vulnerable_policy(package), package)
<1>1. CASE ~package.parsable
  BY <1>1 DEF evaluate_vulnerable_policy, GoodResult, PolicyResult, Decisions, ReasonCodes
<1>2. CASE package.parsable /\ verify_payload_integrity(package) # ""
  BY <1>2, IntegrityReasons, RejectedForIsGood DEF evaluate_vulnerable_policy, ReasonCodes
<1>3. CASE package.parsable /\ verify_payload_integrity(package) = ""
  BY <1>3 DEF evaluate_vulnerable_policy, GoodResult, WithPackageFields, PolicyResult,
              Decisions, ReasonCodes
<1> QED
  BY <1>1, <1>2, <1>3

\* evaluate_patched_policy accepts exactly the packages that are authentic under the
\* trusted key and name it, with its fingerprint, as their signer's.
LEMMA PatchedPolicyIsSound ==
  ASSUME NEW package, NEW key
  PROVE  LET result == evaluate_patched_policy(package, key)
         IN  /\ GoodResult(result, package)
             /\ result.decision \in {"ACCEPTED", "REJECTED"}
             /\ result.decision = "ACCEPTED" <=>
                  /\ Authentic(package, key)
                  /\ package.signer_public_key = key
                  /\ package.signer_fingerprint = sha256(key)
<1> DEFINE result == evaluate_patched_policy(package, key)
           intact == verify_payload_integrity(package) = ""
           own == sha256(package.signer_public_key) = package.signer_fingerprint
           trusted == package.signer_public_key = key
           signed == verify_manifest_signature(package.signer_public_key, package.manifest,
                                               package.signature)
<1>1. CASE ~package.parsable
  BY <1>1 DEF evaluate_patched_policy, GoodResult, PolicyResult, Decisions, ReasonCodes,
              Authentic
<1>2. ASSUME package.parsable, ~intact \/ ~own \/ ~trusted \/ ~signed
      PROVE  GoodResult(result, package) /\ result.decision = "REJECTED"
  <2>1. \E reason \in ReasonCodes : result = RejectedFor(reason, package)
    BY <1>2, IntegrityReasons DEF evaluate_patched_policy, ReasonCodes
  <2> QED
    BY <2>1, RejectedForIsGood
<1>3. ASSUME package.parsable, intact, own, trusted, signed
      PROVE  GoodResult(result, package) /\ result.decision = "ACCEPTED"
  BY <1>3 DEF evaluate_patched_policy, GoodResult, WithPackageFields, PolicyResult, Decisions,
              ReasonCodes
<1>4. package.parsable =>
        (intact /\ own /\ trusted /\ signed <=>
           /\ Authentic(package, key)
           /\ package.signer_public_key = key
           /\ package.signer_fingerprint = sha256(key))
  BY IntegrityReasons DEF Authentic, verify_manifest_signature
<1> HIDE DEF result, intact, own, trusted, signed
<1> QED
  BY <1>1, <1>2, <1>3, <1>4 DEF result

\* Whatever the policy of a submitted request says, it is a good result.
LEMMA PolicyIsGood ==
  ASSUME NEW r \in Requests
  PROVE  GoodResult(Policy(r), req[r].package)
<1>1. CASE req[r].key = None
  BY <1>1, VulnerablePolicyIsGood, GatewayConstants DEF Policy
<1>2. CASE req[r].key # None /\ req[r].key = NoKey
  <2>1. Policy(r) = PolicyResult("ERROR", "TRUST_CONFIGURATION_ERROR")
    BY <1>2 DEF Policy
  <2>2. GoodResult(PolicyResult("ERROR", "TRUST_CONFIGURATION_ERROR"), req[r].package)
    BY DEF GoodResult, PolicyResult, Decisions, ReasonCodes
  <2> QED
    BY <2>1, <2>2
<1>3. CASE req[r].key # None /\ req[r].key # NoKey
  BY <1>3, PatchedPolicyIsSound DEF Policy
<1> QED
  BY <1>1, <1>2, <1>3

\* The two packages of the lab are intact and signed by the key they name.
LEMMA LabPackages ==
  ASSUME NEW p \in {UntrustedPackage, TrustedPackage}
  PROVE  /\ p.parsable /\ verify_payload_integrity(p) = ""
         /\ p.signer_fingerprint = sha256(p.signer_public_key)
         /\ Authentic(p, p.signer_public_key)
         /\ p.signer_public_key = IF p = TrustedPackage THEN TrustedKey ELSE UntrustedKey
         /\ p.manifest.firmware_version =
              IF p = TrustedPackage THEN TRUSTED_VERSION ELSE UNTRUSTED_VERSION
<1>1. TRUSTED_VERSION # UNTRUSTED_VERSION
  BY DEF TRUSTED_VERSION, UNTRUSTED_VERSION
<1>2. ASSUME NEW key, NEW version, NEW payload, p = CreatePackage(key, version, payload)
      PROVE  /\ p.parsable /\ p.signer_public_key = key
             /\ p.signer_fingerprint = sha256(key)
             /\ p.signature = sign_manifest(key, p.manifest)
             /\ p.manifest.firmware_version = version
             /\ p.manifest.payload_size = p.payload.size
             /\ p.manifest.payload_sha256 = sha256(p.payload.bytes)
  <2>1. p.manifest = Manifest(version, payload) /\ p.payload = payload
    BY <1>2 DEF CreatePackage
  <2>2. /\ p.parsable /\ p.signer_public_key = key /\ p.signer_fingerprint = sha256(key)
        /\ p.signature = sign_manifest(key, p.manifest)
    BY <1>2 DEF CreatePackage
  <2>3. /\ p.manifest.firmware_version = version
        /\ p.manifest.payload_size = p.payload.size
        /\ p.manifest.payload_sha256 = sha256(p.payload.bytes)
    BY <2>1 DEF Manifest
  <2> QED
    BY <2>2, <2>3
<1>3. CASE p = TrustedPackage
  BY <1>2, <1>3 DEF TrustedPackage, verify_payload_integrity, Authentic
<1>4. CASE p = UntrustedPackage
  <2>1. /\ p.parsable /\ p.signer_public_key = UntrustedKey
        /\ p.signer_fingerprint = sha256(UntrustedKey)
        /\ p.signature = sign_manifest(UntrustedKey, p.manifest)
        /\ p.manifest.firmware_version = UNTRUSTED_VERSION
        /\ p.manifest.payload_size = p.payload.size
        /\ p.manifest.payload_sha256 = sha256(p.payload.bytes)
    BY <1>2, <1>4 DEF UntrustedPackage
  <2>2. TrustedPackage.signer_public_key = TrustedKey
    BY DEF TrustedPackage, CreatePackage
  <2>3. p # TrustedPackage
    BY <2>1, <2>2, KeysAssumption
  <2> QED
    BY <2>1, <2>3 DEF verify_payload_integrity, Authentic
<1> QED
  BY <1>3, <1>4

\* What each build decides of them: the vulnerable policy accepts both, the patched one
\* those of the key it loaded, and there is no decision without a key.
LEMMA PolicyOfLab ==
  ASSUME NEW r \in Requests, req[r].package \in {UntrustedPackage, TrustedPackage}
  PROVE  LET result == Policy(r)
             key    == req[r].key
             signer == req[r].package.signer_public_key
         IN  /\ key = None => /\ result.decision = "ACCEPTED"
                              /\ result.reason_code = "CHECKSUM_ONLY_ACCEPTED"
             /\ key # None /\ key = NoKey => result.decision = "ERROR"
             /\ key # None /\ key # NoKey /\ key = signer =>
                  /\ result.decision = "ACCEPTED"
                  /\ result.reason_code = "TRUSTED_SIGNATURE_ACCEPTED"
             /\ key # None /\ key # NoKey /\ key # signer =>
                  /\ result.decision = "REJECTED"
                  /\ result.reason_code = "UNTRUSTED_SIGNER"
<1> DEFINE p == req[r].package
           key == req[r].key
<1>1. /\ p.parsable /\ verify_payload_integrity(p) = ""
      /\ p.signer_fingerprint = sha256(p.signer_public_key)
      /\ Authentic(p, p.signer_public_key)
  BY LabPackages
<1>2. ASSUME key = None
      PROVE  /\ Policy(r).decision = "ACCEPTED"
             /\ Policy(r).reason_code = "CHECKSUM_ONLY_ACCEPTED"
  <2>1. Policy(r) = evaluate_vulnerable_policy(p)
    BY <1>2, GatewayConstants DEF Policy
  <2> QED
    BY <1>1, <2>1 DEF evaluate_vulnerable_policy, WithPackageFields, PolicyResult
<1>3. ASSUME key # None, key = NoKey PROVE Policy(r).decision = "ERROR"
  BY <1>3 DEF Policy, PolicyResult
<1>4. ASSUME key # None, key # NoKey
      PROVE  IF key = p.signer_public_key
             THEN /\ Policy(r).decision = "ACCEPTED"
                  /\ Policy(r).reason_code = "TRUSTED_SIGNATURE_ACCEPTED"
             ELSE /\ Policy(r).decision = "REJECTED"
                  /\ Policy(r).reason_code = "UNTRUSTED_SIGNER"
  <2>1. Policy(r) = evaluate_patched_policy(p, key)
    BY <1>4 DEF Policy
  <2>2. CASE key = p.signer_public_key
    BY <1>1, <2>1, <2>2
       DEF evaluate_patched_policy, Authentic, verify_manifest_signature, WithPackageFields,
           PolicyResult
  <2>3. CASE key # p.signer_public_key
    BY <1>1, <2>1, <2>3
       DEF evaluate_patched_policy, RejectedFor, WithPackageFields, PolicyResult
  <2> QED
    BY <2>2, <2>3
<1> HIDE DEF p, key
<1> QED
  BY <1>2, <1>3, <1>4 DEF p, key

-------------------------------------------------------------------------------
(* The steps of one request. *)

RequestType(r) ==
  /\ req[r] \in UpdateRequests(r)
  /\ req[r].pc # "idle" => /\ req[r].gateway \in Gateways
                           /\ req[r].package \in Packages
                           /\ req[r].key \in KeyFiles \cup {TrustedKey, None}
  /\ req[r].pc = "answered" => req[r].answer \in Answers

LabInvariant == GatewayTypeOK /\ RequestsAgree

LEMMA OneRequest ==
  ASSUME LabInvariant, NEW r \in Requests
  PROVE  RequestType(r) /\ RequestAgrees(r)
  BY DEF LabInvariant, GatewayTypeOK, RequestType, RequestsAgree

\* What a gateway's step for request r may do: it leaves the device, its history and
\* the other requests alone, and never changes what was submitted.
RequestStep(r) ==
  /\ UNCHANGED <<device, up, keyfile, build, log>>
  /\ req' = [s \in Requests |-> req'[s]]
  /\ \A s \in Requests \ {r} : req'[s] = req[s]
  /\ req'[r].pc # "idle"
  /\ req[r].pc # "idle" => /\ req'[r].package = req[r].package
                           /\ req'[r].gateway = req[r].gateway
                           /\ req'[r].key = req[r].key
  /\ RequestType(r)'
  /\ RequestAgrees(r)'

\* Replacing the record of one request.
LEMMA ReplaceRequest ==
  ASSUME GatewayTypeOK, NEW r \in Requests, NEW q, req' = [req EXCEPT ![r] = q]
  PROVE  /\ req' = [s \in Requests |-> req'[s]]
         /\ req'[r] = q
         /\ \A s \in Requests \ {r} : req'[s] = req[s]
  BY DEF GatewayTypeOK

\* Every body a gateway builds is well formed.
LEMMA ResponseIsAnswer ==
  ASSUME NEW result, result.decision \in Decisions, result.reason_code \in ReasonCodes,
         NEW b \in DeviceStates \cup {EmptyDoc}, NEW a \in DeviceStates \cup {EmptyDoc}
  PROVE  /\ GatewayResponse(result, b, a) \in Answers
         /\ GatewayResponse(result, b, a).decision = result.decision
         /\ GatewayResponse(result, b, a).reason_code = result.reason_code
         /\ GatewayResponse(result, b, a).http_status = http_status_for(result)
         /\ GatewayResponse(result, b, a).device_state_after = a
<1>1. http_status_for(result) \in {200, 400, 403, 500, 502}
  BY DEF http_status_for
<1> QED
  BY <1>1 DEF GatewayResponse, Answers

\* An error of the device client is answered as such.
LEMMA DeviceErrorIsAnswer ==
  ASSUME NEW reason \in {"DEVICE_UNAVAILABLE", "DEVICE_APPLY_FAILED"},
         NEW b \in DeviceStates \cup {EmptyDoc}
  PROVE  /\ GatewayResponse(DeviceError(reason), b, b) \in Answers
         /\ GatewayResponse(DeviceError(reason), b, b).decision = "ERROR"
<1>1. /\ DeviceError(reason).decision = "ERROR" /\ DeviceError(reason).decision \in Decisions
      /\ DeviceError(reason).reason_code \in ReasonCodes
  BY DEF DeviceError, PolicyResult, Decisions, ReasonCodes
<1> QED
  BY <1>1, ResponseIsAnswer

\* A handler that ends: the record of its request gets the answer and nothing else.
LEMMA AnsweredEffect ==
  ASSUME NEW r \in Requests, RequestType(r), req[r].pc # "idle", NEW answer \in Answers,
         req'[r] = Answered(req[r], answer)
  PROVE  /\ req'[r].pc = "answered" /\ req'[r].answer = answer
         /\ req'[r].gateway = req[r].gateway /\ req'[r].package = req[r].package
         /\ req'[r].key = req[r].key /\ req'[r].result = req[r].result
         /\ req'[r].before = req[r].before /\ req'[r].call = req[r].call
         /\ req'[r].after = req[r].after
         /\ Policy(r)' = Policy(r)
         /\ RequestType(r)'
<1>1. /\ req'[r].pc = "answered" /\ req'[r].answer = answer
      /\ req'[r].gateway = req[r].gateway /\ req'[r].package = req[r].package
      /\ req'[r].key = req[r].key /\ req'[r].result = req[r].result
      /\ req'[r].before = req[r].before /\ req'[r].call = req[r].call
      /\ req'[r].after = req[r].after
  BY DEF RequestType, UpdateRequests, Answered
<1>2. Policy(r)' = Policy(r)
  BY <1>1 DEF Policy
<1>3. req'[r] \in UpdateRequests(r)'
  <2> HIDE DEF Policy
  <2> QED
    BY <1>1, <1>2 DEF RequestType, UpdateRequests, Answered
<1> QED
  BY <1>1, <1>2, <1>3 DEF RequestType

\* submit_update: a request of its own, not seen by the device yet.
LEMMA SubmitStep ==
  ASSUME LabInvariant, NEW r \in Requests, NEW g \in Gateways, NEW p \in Packages,
         submit_update(r, g, p)
  PROVE  RequestStep(r)
<1> DEFINE k == IF LoadsKey(g) THEN keyfile ELSE None
           q == [IdleRequest EXCEPT !.pc = "get_state", !.gateway = g, !.package = p, !.key = k]
<1>1. /\ req[r].pc = "idle" /\ req' = [req EXCEPT ![r] = q]
      /\ UNCHANGED <<device, up, keyfile, build, log>>
  BY DEF submit_update
<1>2. k \in KeyFiles \cup {TrustedKey, None} /\ (k # None <=> LoadsKey(g))
  BY GatewayConstants DEF LabInvariant, GatewayTypeOK
<1> HIDE DEF k
<1>3. q \in [pc : {"get_state"}, gateway : {g}, package : {p}, key : {k}, result : {None},
             before : {None}, call : {"none"}, after : {None}, answer : {None}]
  BY DEF IdleRequest
<1> HIDE DEF q
<1>4. /\ req' = [s \in Requests |-> req'[s]] /\ req'[r] = q
      /\ \A s \in Requests \ {r} : req'[s] = req[s]
  BY <1>1, ReplaceRequest DEF LabInvariant
<1>5. RequestType(r)'
  BY <1>2, <1>3, <1>4 DEF RequestType, UpdateRequests
<1>6. AppliesBy(r)' = {}
  <2>1. AppliesBy(r) = {}
    BY <1>1, OneRequest DEF RequestAgrees
  <2> QED
    BY <1>1, <2>1 DEF AppliesBy
<1>7. RequestAgrees(r)'
  BY <1>1, <1>2, <1>3, <1>4, <1>6 DEF RequestAgrees, LoadsKey
<1>8. req'[r].pc # "idle"
  BY <1>3, <1>4
<1> QED
  BY <1>1, <1>4, <1>5, <1>7, <1>8 DEF RequestStep

\* ReadState: the package is judged against the state just read; only an accepted one
\* is sent to the device.
LEMMA ReadStep ==
  ASSUME LabInvariant, NEW r \in Requests, ReadState(r)
  PROVE  RequestStep(r)
<1> DEFINE result == Policy(r)
           read == [req[r] EXCEPT !.before = device, !.result = result]
           sent == [read EXCEPT !.pc = "apply", !.call = "sent"]
           answer == GatewayResponse(result, device, device)
           rejected == Answered(read, answer)
<1>1. /\ req[r].pc = "get_state" /\ UNCHANGED <<device, up, keyfile, build, log>>
      /\ req' = [req EXCEPT ![r] = IF result.decision = "ACCEPTED" THEN sent ELSE rejected]
  BY DEF ReadState, Serving
<1>2. RequestType(r) /\ RequestAgrees(r) /\ GoodResult(result, req[r].package)
  BY OneRequest, PolicyIsGood
<1>3. device \in DeviceStates
  BY DEF LabInvariant, GatewayTypeOK
<1>4. /\ answer \in Answers /\ answer.decision = result.decision
      /\ answer.reason_code = result.reason_code
      /\ answer.http_status = http_status_for(result)
  BY <1>2, <1>3, ResponseIsAnswer DEF GoodResult
<1>5. /\ req' = [s \in Requests |-> req'[s]]
      /\ req'[r] = IF result.decision = "ACCEPTED" THEN sent ELSE rejected
      /\ \A s \in Requests \ {r} : req'[s] = req[s]
  BY <1>1, ReplaceRequest DEF LabInvariant
<1> HIDE DEF result, answer
<1>6. /\ req'[r].gateway = req[r].gateway /\ req'[r].package = req[r].package
      /\ req'[r].key = req[r].key /\ req'[r].after = req[r].after
      /\ req'[r].before = device /\ req'[r].result = result
      /\ result.decision = "ACCEPTED" => req'[r].pc = "apply" /\ req'[r].call = "sent"
      /\ result.decision # "ACCEPTED" =>
           req'[r].pc = "answered" /\ req'[r].call = req[r].call /\ req'[r].answer = answer
  BY <1>2, <1>5 DEF RequestType, UpdateRequests, Answered
<1>7. Policy(r)' = result
  BY <1>6 DEF Policy, result
<1>8. RequestType(r)'
  <2> DEFINE before == DeviceStates \cup {None}
             others == Answers \cup {None}
             T == [pc : {"idle", "get_state", "apply", "answered"},
                   gateway : Gateways \cup {None}, package : Packages \cup {None},
                   key : KeyFiles \cup {TrustedKey, None}, result : {None, result},
                   before : before, call : {"none", "sent", "done", "refused"},
                   after : before, answer : others]
  <2>1. UpdateRequests(r)' = T
    BY <1>6, <1>7 DEF UpdateRequests
  <2>2. req[r] \in T
    BY <1>1, <1>2 DEF RequestType, UpdateRequests, result
  <2>3. device \in before /\ answer \in others
    BY <1>3, <1>4
  <2> HIDE DEF before, others
  <2>4. sent \in T
    BY <2>2, <2>3
  <2>5. rejected \in T
    BY <2>2, <2>3 DEF Answered
  <2>6. req'[r] \in UpdateRequests(r)'
    BY <1>5, <2>1, <2>4, <2>5
  <2> QED
    BY <1>1, <1>2, <1>4, <1>6, <2>6 DEF RequestType
<1>9. AppliesBy(r)' = AppliesBy(r) /\ req[r].call = "none"
  BY <1>1, <1>2 DEF AppliesBy, RequestAgrees
<1>10. RequestAgrees(r)'
  BY <1>1, <1>2, <1>3, <1>4, <1>6, <1>7, <1>9 DEF RequestAgrees, LoadsKey, GoodResult, Decisions
<1> QED
  BY <1>1, <1>5, <1>6, <1>8, <1>10 DEF RequestStep

\* The ends of process_gateway_update after an await: the reply of the device, its
\* silence, and an exception nobody handles.
LEMMA AnswerStep ==
  ASSUME LabInvariant, NEW r \in Requests,
         ReadStateUnavailable(r) \/ ApplyReturns(r) \/ ApplyUnavailable(r) \/ GatewayFails(r)
  PROVE  RequestStep(r)
<1>1. RequestType(r) /\ RequestAgrees(r) /\ AppliesBy(r)' = AppliesBy(r)
  BY OneRequest
     DEF ReadStateUnavailable, ApplyReturns, ApplyUnavailable, GatewayFails, AppliesBy
<1>2. PICK answer \in Answers :
        /\ req[r].pc \in {"get_state", "apply"}
        /\ req' = [req EXCEPT ![r] = Answered(req[r], answer)]
        /\ UNCHANGED <<device, up, keyfile, build, log>>
        /\ answer.decision # "REJECTED"
        /\ answer.decision = "ACCEPTED" =>
             /\ req[r].call = "done" /\ answer.device_state_after = req[r].after
             /\ answer.reason_code = Policy(r).reason_code
             /\ answer.http_status = http_status_for(Policy(r))
  <2>1. CASE ReadStateUnavailable(r)
    <3> DEFINE a == GatewayResponse(DeviceError("DEVICE_UNAVAILABLE"), EmptyDoc, EmptyDoc)
    <3>1. a \in Answers /\ a.decision = "ERROR"
      BY DeviceErrorIsAnswer
    <3>2. /\ req[r].pc = "get_state" /\ req' = [req EXCEPT ![r] = Answered(req[r], a)]
          /\ UNCHANGED <<device, up, keyfile, build, log>>
      BY <2>1 DEF ReadStateUnavailable, Serving
    <3> HIDE DEF a
    <3> QED
      BY <3>1, <3>2
  <2>2. CASE ApplyReturns(r)
    <3> DEFINE a == GatewayResponse(req[r].result, req[r].before, req[r].after)
    <3>1. /\ req[r].pc = "apply" /\ req[r].call = "done"
          /\ req' = [req EXCEPT ![r] = Answered(req[r], a)]
          /\ UNCHANGED <<device, up, keyfile, build, log>>
      BY <2>2 DEF ApplyReturns, Serving
    <3>2. /\ req[r].result = Policy(r) /\ Policy(r).decision = "ACCEPTED"
          /\ req[r].before \in DeviceStates /\ req[r].after \in DeviceStates
      BY <1>1, <3>1 DEF RequestAgrees
    <3>3. req[r].result.decision \in Decisions /\ req[r].result.reason_code \in ReasonCodes
      BY <3>2, PolicyIsGood DEF GoodResult
    <3>4. /\ a \in Answers /\ a.decision = "ACCEPTED" /\ a.device_state_after = req[r].after
          /\ a.reason_code = Policy(r).reason_code
          /\ a.http_status = http_status_for(Policy(r))
      BY <3>2, <3>3, ResponseIsAnswer
    <3> HIDE DEF a
    <3> QED
      BY <3>1, <3>4
  <2>3. CASE ApplyUnavailable(r)
    <3> DEFINE a == GatewayResponse(DeviceError("DEVICE_UNAVAILABLE"), req[r].before, req[r].before)
    <3>1. /\ req[r].pc = "apply" /\ req' = [req EXCEPT ![r] = Answered(req[r], a)]
          /\ UNCHANGED <<device, up, keyfile, build, log>>
      BY <2>3 DEF ApplyUnavailable, Serving
    <3>2. a \in Answers /\ a.decision = "ERROR"
      BY <1>1, <3>1, DeviceErrorIsAnswer DEF RequestAgrees
    <3> HIDE DEF a
    <3> QED
      BY <3>1, <3>2
  <2>4. CASE GatewayFails(r)
    <3>1. /\ InternalServerError \in Answers
          /\ InternalServerError.decision \notin {"ACCEPTED", "REJECTED"}
      BY GatewayConstants DEF Answers, InternalServerError
    <3> QED
      BY <2>4, <3>1 DEF GatewayFails, Serving
  <2> QED
    BY <2>1, <2>2, <2>3, <2>4
<1>3. /\ req' = [s \in Requests |-> req'[s]] /\ req'[r] = Answered(req[r], answer)
      /\ \A s \in Requests \ {r} : req'[s] = req[s]
  BY <1>2, ReplaceRequest DEF LabInvariant
<1>4. /\ req'[r].pc = "answered" /\ req'[r].answer = answer
      /\ req'[r].gateway = req[r].gateway /\ req'[r].package = req[r].package
      /\ req'[r].key = req[r].key /\ req'[r].result = req[r].result
      /\ req'[r].before = req[r].before /\ req'[r].call = req[r].call
      /\ req'[r].after = req[r].after
      /\ Policy(r)' = Policy(r)
      /\ RequestType(r)'
  BY <1>1, <1>2, <1>3, AnsweredEffect
<1>5. RequestAgrees(r)'
  BY <1>1, <1>2, <1>4 DEF RequestAgrees, LoadsKey
<1> QED
  BY <1>2, <1>3, <1>4, <1>5 DEF RequestStep

\* The device refuses the call and will not execute it, or has and its reply is no good.
LEMMA FailedStep ==
  ASSUME LabInvariant, NEW r \in Requests, ApplyFailed(r)
  PROVE  RequestStep(r)
<1> DEFINE a == GatewayResponse(DeviceError("DEVICE_APPLY_FAILED"), req[r].before, req[r].before)
           call == IF req[r].call = "sent" THEN "refused" ELSE "done"
           q == [Answered(req[r], a) EXCEPT !.call = call]
<1>1. /\ req[r].pc = "apply" /\ req[r].call \in {"sent", "done"} /\ req' = [req EXCEPT ![r] = q]
      /\ UNCHANGED <<device, up, keyfile, build, log>>
  BY DEF ApplyFailed, Serving
<1>0. call \in {"refused", "done"} /\ (call = "done" <=> req[r].call = "done")
  BY <1>1
<1>2. RequestType(r) /\ RequestAgrees(r) /\ AppliesBy(r)' = AppliesBy(r)
  BY <1>1, OneRequest DEF AppliesBy
<1>3. a \in Answers /\ a.decision = "ERROR"
  BY <1>1, <1>2, DeviceErrorIsAnswer DEF RequestAgrees
<1>4. /\ req' = [s \in Requests |-> req'[s]] /\ req'[r] = q
      /\ \A s \in Requests \ {r} : req'[s] = req[s]
  BY <1>1, ReplaceRequest DEF LabInvariant
<1> HIDE DEF a, call
<1>5. /\ req'[r].pc = "answered" /\ req'[r].answer = a /\ req'[r].call = call
      /\ req'[r].gateway = req[r].gateway /\ req'[r].package = req[r].package
      /\ req'[r].key = req[r].key /\ req'[r].result = req[r].result
      /\ req'[r].before = req[r].before /\ req'[r].after = req[r].after
  BY <1>2, <1>4 DEF RequestType, UpdateRequests, Answered
<1>6. Policy(r)' = Policy(r)
  BY <1>5 DEF Policy
<1>7. RequestType(r)'
  <2>1. req'[r] \in UpdateRequests(r)'
    BY <1>0, <1>1, <1>2, <1>3, <1>4, <1>5, <1>6 DEF RequestType, UpdateRequests, Answered
  <2> QED
    BY <1>1, <1>2, <1>3, <1>5, <2>1 DEF RequestType
<1>8. RequestAgrees(r)'
  BY <1>0, <1>1, <1>2, <1>3, <1>5, <1>6 DEF RequestAgrees, LoadsKey
<1> QED
  BY <1>1, <1>4, <1>5, <1>7, <1>8 DEF RequestStep

\* A request that nothing happens to.
LEMMA OtherRequest ==
  ASSUME NEW s \in Requests, RequestType(s), RequestAgrees(s), req'[s] = req[s],
         build' = build, AppliesBy(s)' = AppliesBy(s)
  PROVE  RequestType(s)' /\ RequestAgrees(s)'
<1>1. Policy(s)' = Policy(s)
  BY DEF Policy
<1> QED
  BY <1>1 DEF RequestType, UpdateRequests, RequestAgrees, LoadsKey

-------------------------------------------------------------------------------
(* The device's history. *)

\* The history grows at its end.
LEMMA AppendEntry ==
  ASSUME log \in Seq(Entries), NEW e \in Entries, log' = Append(log, e)
  PROVE  /\ log' \in Seq(Entries) /\ Len(log) \in Nat
         /\ DOMAIN log = 1 .. Len(log) /\ DOMAIN log' = 1 .. Len(log) + 1
         /\ Len(log') = Len(log) + 1
         /\ log'[Len(log) + 1] = e
         /\ \A i \in 1 .. Len(log) : log'[i] = log[i]
  BY AppendProperties DEF Entries

\* Only an entry of its own adds to what was executed for a request.
LEMMA AppendApplies ==
  ASSUME log \in Seq(Entries), NEW e \in Entries, log' = Append(log, e), NEW r \in Requests
  PROVE  AppliesBy(r)' = AppliesBy(r) \cup
           (IF e = [op |-> "apply", by |-> r] THEN {Len(log) + 1} ELSE {})
<1> DEFINE mine == [op |-> "apply", by |-> r]
<1>1. /\ Len(log) \in Nat
      /\ DOMAIN log = 1 .. Len(log) /\ DOMAIN log' = 1 .. Len(log) + 1
      /\ log'[Len(log) + 1] = e /\ \A i \in 1 .. Len(log) : log'[i] = log[i]
  BY AppendEntry
<1>2. AppliesBy(r) = {i \in 1 .. Len(log) : log[i] = mine}
  BY <1>1 DEF AppliesBy
<1>3. AppliesBy(r)' = {i \in 1 .. Len(log) + 1 : log'[i] = mine}
  BY <1>1 DEF AppliesBy
<1> HIDE DEF mine
<1> QED
  BY <1>1, <1>2, <1>3 DEF mine

\* The entries since the last reset, when an apply and when a reset is added.
LEMMA AppendSinceReset ==
  ASSUME log \in Seq(Entries), NEW e \in Entries, log' = Append(log, e)
  PROVE  /\ e.op = "apply" => AppliesSinceReset' = AppliesSinceReset \cup {Len(log) + 1}
         /\ e.op = "reset" => AppliesSinceReset' = {}
         /\ Len(log) + 1 \notin AppliesSinceReset
         /\ IsFiniteSet(AppliesSinceReset)
<1>1. /\ Len(log) \in Nat
      /\ DOMAIN log = 1 .. Len(log) /\ DOMAIN log' = 1 .. Len(log) + 1
      /\ log'[Len(log) + 1] = e /\ \A i \in 1 .. Len(log) : log'[i] = log[i]
  BY AppendEntry
<1>2. AppliesSinceReset \subseteq 1 .. Len(log)
  BY <1>1 DEF AppliesSinceReset
<1>3. IsFiniteSet(AppliesSinceReset)
  <2>1. IsFiniteSet(1 .. Len(log))
    BY <1>1, FS_Interval
  <2> QED
    BY <1>2, <2>1, FS_Subset
<1>4. ASSUME e.op = "apply"
      PROVE  AppliesSinceReset' = AppliesSinceReset \cup {Len(log) + 1}
  BY <1>1, <1>4 DEF AppliesSinceReset
<1>5. ASSUME e.op = "reset" PROVE AppliesSinceReset' = {}
  BY <1>1, <1>5 DEF AppliesSinceReset
<1> QED
  BY <1>1, <1>2, <1>3, <1>4, <1>5

-------------------------------------------------------------------------------
(* The steps of the device. *)

\* VirtualDevice.apply, whenever the call reaches it: the request is executed for the
\* first time, and the state it leaves is the one it replies with.
LEMMA ApplyStep ==
  ASSUME LabInvariant, NEW r \in Requests, DeviceApply(r)
  PROVE  /\ LabInvariant'
         /\ \A s \in Requests : req'[s].pc = req[s].pc /\ req'[s].package = req[s].package
                                /\ req'[s].gateway = req[s].gateway /\ req'[s].key = req[s].key
         /\ device'.update_counter = device.update_counter + 1
         /\ device'.firmware_version = req[r].package.manifest.firmware_version
         /\ device'.last_payload_sha256 = req[r].package.manifest.payload_sha256
<1> DEFINE after == AppliedState(req[r].result)
           q == [req[r] EXCEPT !.call = "done", !.after = after]
           e == [op |-> "apply", by |-> r]
<1>1. /\ req[r].call = "sent" /\ device' = after /\ log' = Append(log, e)
      /\ req' = [req EXCEPT ![r] = q] /\ UNCHANGED <<up, keyfile, build>>
  BY DEF DeviceApply, LabInvariant, GatewayTypeOK
<1>2. /\ RequestType(r) /\ RequestAgrees(r) /\ req[r].pc # "idle"
      /\ req[r].result = Policy(r) /\ Policy(r).decision = "ACCEPTED" /\ AppliesBy(r) = {}
  BY <1>1, OneRequest DEF RequestAgrees
<1>3. /\ req[r].result.firmware_version = req[r].package.manifest.firmware_version
      /\ req[r].result.payload_sha256 = req[r].package.manifest.payload_sha256
      /\ req[r].package \in Packages
  BY <1>2, PolicyIsGood DEF GoodResult, RequestType
<1>4. device \in DeviceStates
  BY DEF LabInvariant, GatewayTypeOK
<1>5. /\ after \in DeviceStates /\ after.update_counter = device.update_counter + 1
      /\ after.firmware_version = req[r].package.manifest.firmware_version
      /\ after.last_payload_sha256 = req[r].package.manifest.payload_sha256
      /\ after.update_counter > 0
  BY <1>3, <1>4 DEF AppliedState, DeviceStates
<1> HIDE DEF after
<1>6. /\ req' = [s \in Requests |-> req'[s]] /\ req'[r] = q
      /\ \A s \in Requests \ {r} : req'[s] = req[s]
  BY <1>1, ReplaceRequest DEF LabInvariant
<1>7. /\ req'[r].pc = req[r].pc /\ req'[r].answer = req[r].answer /\ req'[r].call = "done"
      /\ req'[r].gateway = req[r].gateway /\ req'[r].package = req[r].package
      /\ req'[r].key = req[r].key /\ req'[r].result = req[r].result
      /\ req'[r].before = req[r].before /\ req'[r].after = after
  BY <1>2, <1>6 DEF RequestType, UpdateRequests
<1>8. Policy(r)' = Policy(r)
  BY <1>7 DEF Policy
<1>9. RequestType(r)'
  <2>1. req'[r] \in UpdateRequests(r)'
    BY <1>2, <1>5, <1>6, <1>7, <1>8 DEF RequestType, UpdateRequests
  <2> QED
    BY <1>2, <1>7, <2>1 DEF RequestType
<1>10. /\ log \in Seq(Entries) /\ e \in Entries
       /\ log' \in Seq(Entries) /\ Len(log) \in Nat
  BY <1>1, AppendEntry DEF LabInvariant, GatewayTypeOK, Entries
<1>11. AppliesBy(r)' = {Len(log) + 1}
  BY <1>1, <1>2, <1>10, AppendApplies
<1>12. RequestAgrees(r)'
  BY <1>1, <1>2, <1>5, <1>7, <1>8, <1>11 DEF RequestAgrees, LoadsKey
<1>13. ASSUME NEW s \in Requests \ {r} PROVE RequestType(s)' /\ RequestAgrees(s)'
  <2>1. e # [op |-> "apply", by |-> s]
    OBVIOUS
  <2> HIDE DEF e
  <2>2. AppliesBy(s)' =
          AppliesBy(s) \cup (IF e = [op |-> "apply", by |-> s] THEN {Len(log) + 1} ELSE {})
    BY <1>1, <1>10, AppendApplies
  <2>3. AppliesBy(s)' = AppliesBy(s)
    BY <2>1, <2>2
  <2> QED
    BY <1>1, <1>6, <2>3, OneRequest, OtherRequest
<1>14. GatewayTypeOK'
  BY <1>1, <1>5, <1>6, <1>9, <1>10, <1>13 DEF LabInvariant, GatewayTypeOK, RequestType, Entries
<1> QED
  BY <1>1, <1>5, <1>6, <1>7, <1>12, <1>13, <1>14 DEF LabInvariant, RequestsAgree

\* A reset of the device executes nothing for anybody.
LEMMA ResetStep ==
  ASSUME LabInvariant, DeviceReset, UNCHANGED <<up, keyfile, build, req>>
  PROVE  LabInvariant'
<1> DEFINE e == [op |-> "reset", by |-> None]
<1>1. /\ log \in Seq(Entries) /\ e \in Entries /\ log' = Append(log, e) /\ device' = InitialState
  BY DEF DeviceReset, LabInvariant, GatewayTypeOK, Entries
<1>2. log' \in Seq(Entries)
  BY <1>1, AppendEntry
<1>3. ASSUME NEW s \in Requests PROVE RequestType(s)' /\ RequestAgrees(s)'
  <2>1. AppliesBy(s)' = AppliesBy(s)
    BY <1>1, AppendApplies
  <2> QED
    BY <2>1, OneRequest, OtherRequest
<1>4. device' \in DeviceStates
  BY <1>1 DEF InitialState, DeviceStates
<1> QED
  BY <1>2, <1>3, <1>4 DEF LabInvariant, GatewayTypeOK, RequestsAgree, RequestType, Entries

\* A step of one request keeps the invariant of all.
LEMMA RequestStepKeeps ==
  ASSUME LabInvariant, NEW r \in Requests, RequestStep(r)
  PROVE  LabInvariant'
<1>1. ASSUME NEW s \in Requests \ {r} PROVE RequestType(s)' /\ RequestAgrees(s)'
  <2>1. AppliesBy(s)' = AppliesBy(s)
    BY DEF RequestStep, AppliesBy
  <2> QED
    BY <2>1, OneRequest, OtherRequest DEF RequestStep
<1> QED
  BY <1>1 DEF RequestStep, LabInvariant, GatewayTypeOK, RequestsAgree, RequestType

\* Services that come and go and a key file that changes touch no request.
LEMMA LabKept ==
  ASSUME LabInvariant, UNCHANGED <<device, build, req, log>>, up' \subseteq Services,
         keyfile' \in KeyFiles \cup {TrustedKey}
  PROVE  LabInvariant'
<1>1. ASSUME NEW s \in Requests PROVE RequestType(s)' /\ RequestAgrees(s)'
  <2>1. AppliesBy(s)' = AppliesBy(s)
    BY DEF AppliesBy
  <2> QED
    BY <2>1, OneRequest, OtherRequest
<1> QED
  BY <1>1 DEF LabInvariant, GatewayTypeOK, RequestsAgree, RequestType, Entries

LEMMA FaultStep ==
  ASSUME LabInvariant, LabFaults
  PROVE  LabInvariant' /\ UNCHANGED <<device, req, log, build>> /\ up' \subseteq up
<1>1. UNCHANGED <<device, req, log, build>> /\ up' \subseteq up
  BY DEF LabFaults, ServiceExits, KeyFileChanges
<1>2. up' \subseteq Services /\ keyfile' \in KeyFiles \cup {TrustedKey}
  BY DEF LabFaults, ServiceExits, KeyFileChanges, LabInvariant, GatewayTypeOK
<1> QED
  BY <1>1, <1>2, LabKept

-------------------------------------------------------------------------------
(* The invariant of the lab. *)

\* Before anything is asked of it, whatever is up and in the key file.
LEMMA LabStarts ==
  ASSUME device = InitialState, up \subseteq Services, keyfile \in KeyFiles \cup {TrustedKey},
         build \in PatchedBuilds, req = [r \in Requests |-> IdleRequest], log = <<>>
  PROVE  LabInvariant /\ NoLostUpdate
<1>1. \A r \in Requests : req[r] = IdleRequest /\ AppliesBy(r) = {}
  BY DEF AppliesBy
<1>2. IdleRequest \in
        [pc : {"idle"}, gateway : {None}, package : {None}, key : {None}, result : {None},
         before : {None}, call : {"none"}, after : {None}, answer : {None}]
  BY DEF IdleRequest
<1>3. \A r \in Requests : RequestType(r) /\ RequestAgrees(r)
  BY <1>1, <1>2 DEF RequestType, UpdateRequests, RequestAgrees
<1>4. device \in DeviceStates /\ device.update_counter = 0
  BY DEF InitialState, DeviceStates
<1>5. GatewayTypeOK
  BY <1>3, <1>4 DEF GatewayTypeOK, RequestType
<1>6. AppliesSinceReset = {}
  BY DEF AppliesSinceReset
<1>7. NoLostUpdate
  BY <1>4, <1>6, FS_EmptySet DEF NoLostUpdate
<1> QED
  BY <1>3, <1>5, <1>7 DEF LabInvariant, RequestsAgree

LEMMA LabInit == GatewayInit => LabInvariant /\ NoLostUpdate
  BY LabStarts DEF GatewayInit

\* The steps of the gateways, by whoever submitted the request.
LEMMA GatewaySteps ==
  ASSUME LabInvariant, NEW r \in Requests, GatewayStep(r)
  PROVE  RequestStep(r)
  BY ReadStep, AnswerStep, FailedStep DEF GatewayStep

\* The request whose apply came last was submitted, so its package stays what it is.
LEMMA LastApply ==
  ASSUME LabInvariant, AppliesSinceReset # {}
  PROVE  LET r == log[Len(log)].by
         IN  r \in Requests /\ req[r].pc # "idle"
<1> DEFINE last == log[Len(log)]
           r == last.by
<1>1. log \in Seq(Entries) /\ Len(log) \in Nat /\ DOMAIN log = 1 .. Len(log)
  BY DEF LabInvariant, GatewayTypeOK, Entries
<1>2. Len(log) \in DOMAIN log /\ last.op = "apply" /\ last \in Entries
  BY <1>1 DEF AppliesSinceReset
<1>3. r \in Requests /\ last = [op |-> "apply", by |-> r]
  BY <1>2 DEF Entries
<1>4. Len(log) \in AppliesBy(r)
  BY <1>2, <1>3 DEF AppliesBy
<1> QED
  BY <1>3, <1>4, OneRequest DEF RequestAgrees

\* The record of a request that was just submitted.
LEMMA SubmitEffect ==
  ASSUME LabInvariant, NEW r \in Requests, NEW g, NEW p, submit_update(r, g, p)
  PROVE  /\ req'[r].pc = "get_state" /\ req'[r].gateway = g /\ req'[r].package = p
         /\ req'[r].call = "none"
         /\ \A s \in Requests \ {r} : req'[s] = req[s]
<1> DEFINE k == IF LoadsKey(g) THEN keyfile ELSE None
           q == [IdleRequest EXCEPT !.pc = "get_state", !.gateway = g, !.package = p, !.key = k]
<1>1. req' = [req EXCEPT ![r] = q]
  BY DEF submit_update
<1>2. req'[r] = q /\ \A s \in Requests \ {r} : req'[s] = req[s]
  BY <1>1, ReplaceRequest DEF LabInvariant
<1> HIDE DEF k
<1>3. q.pc = "get_state" /\ q.gateway = g /\ q.package = p /\ q.call = "none"
  BY DEF IdleRequest
<1> QED
  BY <1>2, <1>3

\* A request the device has executed stays so, and no other becomes one, in a gateway's step.
LEMMA ExecutedKept ==
  ASSUME LabInvariant, NEW r \in Requests, RequestStep(r), NEW s \in Requests
  PROVE  req'[s].call = "done" <=> req[s].call = "done"
<1>1. CASE s # r
  BY <1>1 DEF RequestStep
<1>2. CASE s = r
  <2>1. AppliesBy(r)' = AppliesBy(r)
    BY DEF RequestStep, AppliesBy
  <2> QED
    BY <1>2, <2>1, OneRequest DEF RequestStep, RequestAgrees
<1> QED
  BY <1>1, <1>2

\* Requests go on, and the device and its history stay: no update is lost.
LEMMA HistoryKept ==
  ASSUME LabInvariant, NoLostUpdate, UNCHANGED <<device, log>>,
         \A r \in Requests : req[r].pc # "idle" => req'[r].package = req[r].package
  PROVE  NoLostUpdate'
<1>1. AppliesSinceReset' = AppliesSinceReset
  BY DEF AppliesSinceReset
<1>2. AppliesSinceReset # {} => req'[log[Len(log)].by].package = req[log[Len(log)].by].package
  BY LastApply
<1> QED
  BY <1>1, <1>2 DEF NoLostUpdate

\* The device counts what it executes, and its firmware is that of the last.
LEMMA ApplyIsCounted ==
  ASSUME LabInvariant, NoLostUpdate, NEW r \in Requests, DeviceApply(r)
  PROVE  NoLostUpdate'
<1> DEFINE e == [op |-> "apply", by |-> r]
<1>1. /\ log \in Seq(Entries) /\ e \in Entries /\ log' = Append(log, e)
      /\ e.op = "apply" /\ e.by = r
  BY DEF DeviceApply, LabInvariant, GatewayTypeOK, Entries
<1> HIDE DEF e
<1>2. /\ AppliesSinceReset' = AppliesSinceReset \cup {Len(log) + 1}
      /\ Len(log) + 1 \notin AppliesSinceReset
      /\ IsFiniteSet(AppliesSinceReset)
  BY <1>1, AppendSinceReset
<1>3. Cardinality(AppliesSinceReset') = Cardinality(AppliesSinceReset) + 1
  BY <1>2, FS_AddElement
<1>4. log'[Len(log')] = e
  BY <1>1, AppendEntry
<1>5. /\ req'[r].package = req[r].package
      /\ device'.update_counter = device.update_counter + 1
      /\ device'.firmware_version = req[r].package.manifest.firmware_version
      /\ device'.last_payload_sha256 = req[r].package.manifest.payload_sha256
  BY ApplyStep
<1> QED
  BY <1>1, <1>3, <1>4, <1>5 DEF NoLostUpdate

\* Every step of the lab keeps the invariant, and with it the count of the device.
LEMMA LabNext ==
  ASSUME LabInvariant, NoLostUpdate, [GatewayNext]_gatewayVars
  PROVE  LabInvariant' /\ NoLostUpdate'
<1>1. CASE LabFaults
  BY <1>1, FaultStep, HistoryKept
<1>2. ASSUME NEW r \in Requests, RequestStep(r) PROVE LabInvariant' /\ NoLostUpdate'
  BY <1>2, RequestStepKeeps, HistoryKept DEF RequestStep
<1>3. ASSUME NEW r \in Requests, DeviceApply(r) PROVE LabInvariant' /\ NoLostUpdate'
  BY <1>3, ApplyStep, ApplyIsCounted
<1>4. CASE ClientReset
  <2>1. DeviceReset /\ UNCHANGED <<up, keyfile, build, req>>
    BY <1>4 DEF ClientReset
  <2> DEFINE e == [op |-> "reset", by |-> None]
  <2>2. log \in Seq(Entries) /\ e \in Entries /\ log' = Append(log, e) /\ e.op = "reset"
    BY <2>1 DEF DeviceReset, LabInvariant, GatewayTypeOK, Entries
  <2> HIDE DEF e
  <2>3. AppliesSinceReset' = {}
    BY <2>2, AppendSinceReset
  <2>4. device'.update_counter = 0
    BY <2>1 DEF DeviceReset, InitialState
  <2>5. NoLostUpdate'
    BY <2>3, <2>4, FS_EmptySet DEF NoLostUpdate
  <2> QED
    BY <2>1, <2>5, ResetStep
<1>5. CASE ClientSubmits
  BY <1>2, <1>5, SubmitStep DEF ClientSubmits
<1>6. CASE UNCHANGED gatewayVars
  <2>1. UNCHANGED <<device, up, keyfile, build, req, log>>
    BY <1>6 DEF gatewayVars
  <2> QED
    BY <2>1, LabKept, HistoryKept DEF LabInvariant, GatewayTypeOK
<1> QED
  BY <1>1, <1>2, <1>3, <1>4, <1>5, <1>6, GatewaySteps DEF GatewayNext, LabStep

LEMMA LabAlways == GatewaySpec => [](LabInvariant /\ NoLostUpdate)
  BY LabInit, LabNext, PTL DEF GatewaySpec

-------------------------------------------------------------------------------
(* The theorems. *)

\* GatewayTypeOK for any number of requests: every request of process_gateway_update has
\* its inputs once submitted and a well-formed answer once answered, and the device's
\* state is always one that some package, or the reset, leaves.
THEOREM GatewayTypeCorrect == GatewaySpec => []GatewayTypeOK
<1>1. LabInvariant => GatewayTypeOK
  BY DEF LabInvariant
<1> QED
  BY <1>1, LabAlways, PTL

\* However many requests are between their state read and their apply, at either
\* gateway: VirtualDevice.apply loses no update, and the firmware is the last one's.
THEOREM NoLostUpdateAlways == GatewaySpec => []NoLostUpdate
  BY LabAlways, PTL

\* The answer of process_gateway_update is what happened at the device, and no request
\* is executed twice, whatever timeouts, lost replies and late executions there were.
THEOREM AnswerTellsTheTruthAlways == GatewaySpec => []AnswerTellsTheTruth
<1>1. LabInvariant => AnswerTellsTheTruth
  <2> SUFFICES ASSUME LabInvariant, NEW r \in Requests
               PROVE  /\ Cardinality(AppliesBy(r)) <= 1
                      /\ req[r].pc = "answered" =>
                           /\ req[r].answer.decision = "ACCEPTED" =>
                                /\ AppliesBy(r) # {}
                                /\ req[r].answer.device_state_after.last_payload_sha256
                                     = req[r].package.manifest.payload_sha256
                                /\ req[r].answer.device_state_after.update_counter > 0
                           /\ req[r].answer.decision = "REJECTED" =>
                                /\ AppliesBy(r) = {}
                                /\ req[r].call = "none"
    BY DEF AnswerTellsTheTruth
  <2>1. RequestAgrees(r)
    BY OneRequest
  <2>2. Cardinality(AppliesBy(r)) <= 1
    <3>1. CASE AppliesBy(r) = {}
      BY <3>1, FS_EmptySet
    <3>2. ASSUME NEW i \in AppliesBy(r) PROVE Cardinality(AppliesBy(r)) <= 1
      <4>1. AppliesBy(r) = {i}
        BY <2>1, <3>2 DEF RequestAgrees
      <4>2. Cardinality({i}) = 1
        BY FS_Singleton
      <4> QED
        BY <4>1, <4>2
    <3> QED
      BY <3>1, <3>2
  <2> QED
    BY <2>1, <2>2 DEF RequestAgrees
<1> QED
  BY <1>1, LabAlways, PTL

\* evaluate_patched_policy, applied to the key its handler loaded and to whatever arrives,
\* is what stands between a package and the device: nothing it would refuse is executed,
\* and nothing authentic that names its own signer is refused.
THEOREM PatchedAppliesOnlyAuthenticAlways == GatewaySpec => []PatchedAppliesOnlyAuthentic
<1>1. LabInvariant => PatchedAppliesOnlyAuthentic
  <2> SUFFICES ASSUME LabInvariant, build = "signer_trust", NEW r \in Requests,
                      req[r].gateway = "PATCHED"
               PROVE  /\ AppliesBy(r) # {} => Authentic(req[r].package, req[r].key)
                      /\ /\ req[r].pc = "answered"
                         /\ req[r].answer.decision = "REJECTED"
                         /\ Authentic(req[r].package, req[r].key)
                         => \/ req[r].package.signer_public_key # req[r].key
                            \/ req[r].package.signer_fingerprint
                                 # sha256(req[r].package.signer_public_key)
    BY DEF PatchedAppliesOnlyAuthentic
  <2>1. RequestAgrees(r)
    BY OneRequest
  <2>2. ASSUME req[r].pc # "idle", Policy(r).decision \in {"ACCEPTED", "REJECTED"}
        PROVE  Policy(r).decision = "ACCEPTED" <=>
                 /\ Authentic(req[r].package, req[r].key)
                 /\ req[r].package.signer_public_key = req[r].key
                 /\ req[r].package.signer_fingerprint = sha256(req[r].key)
    <3>1. req[r].key # None
      BY <2>1, <2>2 DEF RequestAgrees, LoadsKey
    <3>2. req[r].key # NoKey
      <4>1. PolicyResult("ERROR", "TRUST_CONFIGURATION_ERROR").decision = "ERROR"
        BY DEF PolicyResult
      <4> QED
        BY <2>2, <3>1, <4>1 DEF Policy
    <3>3. Policy(r) = evaluate_patched_policy(req[r].package, req[r].key)
      BY <3>1, <3>2 DEF Policy
    <3> QED
      BY <3>3, PatchedPolicyIsSound
  <2>3. ASSUME AppliesBy(r) # {} PROVE Authentic(req[r].package, req[r].key)
    BY <2>1, <2>2, <2>3 DEF RequestAgrees
  <2>4. ASSUME req[r].pc = "answered", req[r].answer.decision = "REJECTED",
               Authentic(req[r].package, req[r].key)
        PROVE  \/ req[r].package.signer_public_key # req[r].key
               \/ req[r].package.signer_fingerprint # sha256(req[r].package.signer_public_key)
    <3>1. Policy(r).decision = "REJECTED"
      BY <2>1, <2>4 DEF RequestAgrees
    <3>2. ~(/\ req[r].package.signer_public_key = req[r].key
            /\ req[r].package.signer_fingerprint = sha256(req[r].key))
      BY <2>2, <2>4, <3>1
    <3> QED
      BY <3>2
  <2> QED
    BY <2>3, <2>4
<1> QED
  BY <1>1, LabAlways, PTL
===============================================================================
