-------------------------------- MODULE Bundle --------------------------------
(***************************************************************************)
(* The evidence bundle: a directory, as a function from the paths of its   *)
(* files to their contents, the functions that fill it and verify_bundle.  *)
(* Contents are abstract: a JSON document is the record it decodes to, and *)
(* Garbage is any content that its strict parser or model refuses.         *)
(* Timestamps, media types and sizes are left out (a content with another  *)
(* size has another digest); paths are the fixed ones of the program.      *)
(***************************************************************************)
EXTENDS Verdicts

CONSTANT Garbage   \* a file content that does not parse

MANIFEST_NAME == "manifest.json"
MANIFEST_DIGEST_NAME == "manifest.sha256"

raw_path(role) ==
  [VULNERABLE       |-> "raw/vulnerable.json",
   PATCHED          |-> "raw/patched.json",
   POSITIVE_CONTROL |-> "raw/positive-control.json"][role]

PackagePath(role) == IF role = "POSITIVE_CONTROL" THEN "packages/trusted-update.json"
                                                  ELSE "packages/untrusted-update.json"

SignerTrust(role) == IF role = "POSITIVE_CONTROL" THEN "TRUSTED" ELSE "UNTRUSTED"

TrustPath == "trust/trusted-public-key.pem"

EXPECTED_EVIDENCE_ARTIFACTS ==
  {"packages/untrusted-update.json", "packages/trusted-update.json", TrustPath, "run.log"}
    \cup {raw_path(role) : role \in ExecutionRole}

-------------------------------------------------------------------------------
(* Writing a bundle.  A capture is what the orchestrator recorded of one      *)
(* scenario (ScenarioCapture).                                                *)

\* _write_raw_capture
RawScenarioRecord(capture) ==
  [execution_id        |-> capture.execution_id,
   role                |-> capture.role,
   reset_confirmed     |-> capture.reset_confirmed,
   request             |-> capture.request,
   gateway_response    |-> capture.gateway_response,
   device_state_before |-> capture.device_state_before,
   device_state_after  |-> capture.device_state_after]

\* _execution_from_capture
ExecutionFromCapture(capture) ==
  LET initial ==
        [execution_id        |-> capture.execution_id,
         role                |-> capture.role,
         package             |-> [filename           |-> PackagePath(capture.role),
                                  sha256             |-> capture.package.manifest.payload_sha256,
                                  envelope_sha256    |-> sha256(capture.package),
                                  signer_fingerprint |-> capture.package.signer_fingerprint,
                                  signer_trust       |-> SignerTrust(capture.role)],
         request             |-> capture.request,
         response            |-> capture.response,
         device_state_before |-> capture.device_state_before,
         device_state_after  |-> capture.device_state_after,
         secure_expected_decision |-> secure_expected_decision(capture.role),
         observed_decision   |-> capture.response.decision,
         security_verdict    |-> "INCONCLUSIVE",
         raw_sha256          |-> sha256(RawScenarioRecord(capture))]
  IN  [initial EXCEPT !.security_verdict = calculate_individual_verdict(initial)]

Digests(files, paths) == [p \in paths |-> sha256(files[p])]

EvidenceDocument(files, executions) ==
  [executions           |-> executions,
   verification_outcome |-> calculate_verification_outcome(executions),
   bundle_files         |-> Digests(files, EXPECTED_EVIDENCE_ARTIFACTS)]

\* atomic_write_bytes
WriteFile(files, path, content) ==
  [p \in DOMAIN files \cup {path} |-> IF p = path THEN content ELSE files[p]]

write_manifest(files) ==
  LET manifest == Digests(files, DOMAIN files \ {MANIFEST_NAME, MANIFEST_DIGEST_NAME})
  IN  WriteFile(WriteFile(files, MANIFEST_NAME, manifest),
                MANIFEST_DIGEST_NAME, sha256(manifest))

\* What run() writes before it knows the outcome.
CollectedArtifacts(captures, trusted_public_key) ==
  LET capture(role) == ByRole(captures, role)
      raw(role) == RawScenarioRecord(capture(role))
  IN  [p \in EXPECTED_EVIDENCE_ARTIFACTS |->
         CASE p = PackagePath("VULNERABLE")       -> capture("VULNERABLE").package
           [] p = PackagePath("POSITIVE_CONTROL") -> capture("POSITIVE_CONTROL").package
           [] p = TrustPath                       -> trusted_public_key
           [] p = "run.log"                       -> "run log"
           [] p = raw_path("VULNERABLE")          -> raw("VULNERABLE")
           [] p = raw_path("PATCHED")             -> raw("PATCHED")
           [] p = raw_path("POSITIVE_CONTROL")    -> raw("POSITIVE_CONTROL")]

Executions(captures) ==
  <<ExecutionFromCapture(captures[1]), ExecutionFromCapture(captures[2]),
    ExecutionFromCapture(captures[3])>>

\* The staging directory that run() fills from the captures.
StagedBundle(captures, trusted_public_key) ==
  LET collected == CollectedArtifacts(captures, trusted_public_key)
      evidence  == EvidenceDocument(collected, Executions(captures))
  IN  write_manifest(WriteFile(WriteFile(collected, "evidence.json", evidence),
                               "report.html", [report |-> evidence]))

-------------------------------------------------------------------------------
(* verify_bundle: each conjunct is the absence of one kind of failure.        *)

Has(files, path) == path \in DOMAIN files
Readable(files, path) == path \in DOMAIN files /\ files[path] # Garbage

manifest_ok(files) ==
  /\ Has(files, MANIFEST_DIGEST_NAME)
  /\ Readable(files, MANIFEST_NAME)
  /\ files[MANIFEST_DIGEST_NAME] = sha256(files[MANIFEST_NAME])
  /\ LET manifest == files[MANIFEST_NAME]
     IN  /\ {MANIFEST_NAME, MANIFEST_DIGEST_NAME} \cap DOMAIN manifest = {}
         /\ \A p \in DOMAIN manifest : Has(files, p) /\ manifest[p] = sha256(files[p])
         /\ DOMAIN files = DOMAIN manifest \cup {MANIFEST_NAME, MANIFEST_DIGEST_NAME}
         /\ "report.html" \in DOMAIN manifest

\* _record_failures of one path and its recorded digest
record_ok(files, path, digest) ==
  /\ path \in DOMAIN files[MANIFEST_NAME]
  /\ Has(files, path)
  /\ sha256(files[path]) = digest

\* _package_record_failures
package_record_ok(files, x) ==
  /\ x.package.filename \in DOMAIN files[MANIFEST_NAME]
  /\ Has(files, x.package.filename)
  /\ sha256(files[x.package.filename]) = x.package.envelope_sha256
  /\ Readable(files, x.package.filename)
  /\ LET package == files[x.package.filename]
     IN  /\ package.parsable
         /\ verify_payload_integrity(package) = ""
         /\ package.manifest.payload_sha256 = x.package.sha256
         /\ sha256(package.signer_public_key) = x.package.signer_fingerprint
         /\ verify_manifest_signature(package.signer_public_key, package.manifest,
                                      package.signature)

\* Slip: the raw records are parsed, but not compared with evidence.json.
RawNotCompared(files, x) == Readable(files, raw_path(x.role))

\* _raw_record_failures
raw_record_ok(files, x) ==
  /\ Readable(files, raw_path(x.role))
  /\ LET record == files[raw_path(x.role)]
     IN  /\ record.execution_id = x.execution_id
         /\ record.role = x.role
         /\ record.request = x.request
         /\ record.device_state_before = x.device_state_before
         /\ record.device_state_after = x.device_state_after
         /\ record.reset_confirmed
         /\ record.gateway_response.decision = x.observed_decision
         /\ record.gateway_response.reason_code = x.response.reason_code

\* Slip: the bundled key is not compared with the signers of the packages.
TrustNotCompared(files, executions) ==
  /\ \A i \in DOMAIN executions :
       executions[i].package.signer_trust = SignerTrust(executions[i].role)
  /\ Readable(files, TrustPath)

trust_ok(files, executions) ==
  /\ \A i \in DOMAIN executions :
       executions[i].package.signer_trust = SignerTrust(executions[i].role)
  /\ Readable(files, TrustPath)
  /\ Readable(files, "packages/trusted-update.json")
  /\ Readable(files, "packages/untrusted-update.json")
  /\ files["packages/trusted-update.json"].parsable
  /\ files["packages/untrusted-update.json"].parsable
  /\ files["packages/trusted-update.json"].signer_public_key = files[TrustPath]
  /\ files["packages/untrusted-update.json"].signer_public_key # files[TrustPath]

evidence_ok(files) ==
  /\ Readable(files, "evidence.json")
  /\ LET evidence   == files["evidence.json"]
         executions == evidence.executions
     IN  /\ OneExecutionPerRole(executions)
         /\ LET vulnerable == ByRole(executions, "VULNERABLE")
                patched    == ByRole(executions, "PATCHED")
            IN  /\ vulnerable.package.envelope_sha256 = patched.package.envelope_sha256
                /\ vulnerable.request.body_sha256 = patched.request.body_sha256
         /\ evidence_consistent(executions)
         /\ evidence.verification_outcome = calculate_verification_outcome(executions)
         /\ DOMAIN evidence.bundle_files = EXPECTED_EVIDENCE_ARTIFACTS
         /\ \A p \in EXPECTED_EVIDENCE_ARTIFACTS : record_ok(files, p, evidence.bundle_files[p])
         /\ \A i \in DOMAIN executions :
              /\ package_record_ok(files, executions[i])
              /\ raw_record_ok(files, executions[i])
              /\ record_ok(files, raw_path(executions[i].role), executions[i].raw_sha256)
         /\ trust_ok(files, executions)

verify_bundle(files) == manifest_ok(files) /\ evidence_ok(files)

-------------------------------------------------------------------------------
(* What the raw records of a bundle say by themselves, without evidence.json.   *)

StartsInitial(record) ==
  LET before == record.device_state_before
  IN  /\ before.firmware_version = INITIAL_VERSION
      /\ before.update_counter = 0
      /\ before.last_payload_sha256 = None

ShowsUpdate(record, package) ==
  LET after == record.device_state_after
  IN  /\ record.gateway_response.decision = "ACCEPTED"
      /\ StartsInitial(record)
      /\ after.firmware_version = package.manifest.firmware_version
      /\ after.update_counter = 1
      /\ after.last_payload_sha256 = package.manifest.payload_sha256

ShowsNoUpdate(record) ==
  /\ record.gateway_response.decision = "REJECTED"
  /\ StartsInitial(record)
  /\ record.device_state_after = record.device_state_before

ShowsRefusal(record) ==
  ShowsNoUpdate(record) /\ record.gateway_response.reason_code = "UNTRUSTED_SIGNER"

\* What a patched build must have done.  A raw record has no HTTP status: that of the
\* refusal is the one evidence.json gives.
ShowsPatch(files) ==
  LET control == files[raw_path("POSITIVE_CONTROL")]
  IN  /\ ShowsRefusal(files[raw_path("PATCHED")])
      /\ ByRole(files["evidence.json"].executions, "PATCHED").response.http_status = 403
      /\ ShowsUpdate(control, files[PackagePath("POSITIVE_CONTROL")])
      /\ control.gateway_response.reason_code = "TRUSTED_SIGNATURE_ACCEPTED"

\* The stated outcome follows from the raw records, the packages and the key: a conclusion
\* needs three scenarios that each show their decision, the baseline among them, and says
\* that the patch is verified exactly if they show it.  INCONCLUSIVE claims nothing.
Supported(files) ==
  LET outcome    == files["evidence.json"].verification_outcome
      raw(r)     == files[raw_path(r)]
      package(r) == files[PackagePath(r)]
  IN  /\ outcome # "INCONCLUSIVE" =>
           /\ \A r \in ExecutionRole :
                /\ raw(r).reset_confirmed
                /\ raw(r).request.body_sha256 = sha256(package(r))
                /\ ShowsUpdate(raw(r), package(r)) \/ ShowsNoUpdate(raw(r))
           /\ ShowsUpdate(raw("VULNERABLE"), package("VULNERABLE"))
           /\ outcome = "PATCH_VERIFIED" <=> ShowsPatch(files)
      /\ outcome = "PATCH_VERIFIED" =>
           /\ package("POSITIVE_CONTROL").signature
                = sign_manifest(files[TrustPath], package("POSITIVE_CONTROL").manifest)
           /\ package("PATCHED").signer_public_key # files[TrustPath]

\* The files come from runs of this program, if not all from the same one:
\* evidence.json names the packages by the paths _execution_from_capture gives them, and
\* these carry the versions generate_demo_artifacts signs.  verify_bundle compares
\* neither.
FromRuns(files) ==
  /\ Readable(files, "evidence.json") =>
       \A i \in DOMAIN files["evidence.json"].executions :
         LET x == files["evidence.json"].executions[i]
         IN  x.package.filename = PackagePath(x.role)
  /\ \A r \in ExecutionRole :
       Readable(files, PackagePath(r)) =>
         files[PackagePath(r)].manifest.firmware_version
           = IF r = "POSITIVE_CONTROL" THEN TRUSTED_VERSION ELSE UNTRUSTED_VERSION
===============================================================================
