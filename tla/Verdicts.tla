------------------------------- MODULE Verdicts -------------------------------
(***************************************************************************)
(* The deterministic verdict functions of verifier/verdicts.py, over       *)
(* execution records with the fields of ExecutionEvidence that they read.  *)
(***************************************************************************)
EXTENDS OtaPackage, Sequences, FiniteSets

ExecutionRole == {"VULNERABLE", "PATCHED", "POSITIVE_CONTROL"}
ObservedDecision == {"ACCEPTED", "REJECTED", "ERROR"}
SecurityVerdict == {"PASS", "FAIL", "INCONCLUSIVE"}
VerificationOutcome == {"PATCH_VERIFIED", "PATCH_NOT_VERIFIED", "INCONCLUSIVE"}

is_initial(x) ==
  /\ x.device_state_before.firmware_version = INITIAL_VERSION
  /\ x.device_state_before.update_counter = 0
  /\ x.device_state_before.last_payload_sha256 = None

is_unchanged(x) == x.device_state_after = x.device_state_before

is_applied(x, version) ==
  /\ is_initial(x)
  /\ x.device_state_after.firmware_version = version
  /\ x.device_state_after.update_counter = x.device_state_before.update_counter + 1
  /\ x.device_state_after.last_payload_sha256 = x.package.sha256

response_is_coherent(x) ==
  /\ x.observed_decision = x.response.decision
  /\ x.package.envelope_sha256 = x.request.body_sha256
  /\ \/ /\ x.response.decision = "ACCEPTED"
        /\ x.response.http_status = 200
        /\ x.device_state_after.update_counter = x.device_state_before.update_counter + 1
     \/ /\ x.response.decision = "REJECTED"
        /\ x.response.http_status \in {400, 403}
        /\ is_unchanged(x)

Accepted(x, version) == x.observed_decision = "ACCEPTED" /\ is_applied(x, version)
Rejected(x) == x.observed_decision = "REJECTED" /\ is_unchanged(x)

calculate_individual_verdict(x) ==
  IF \/ x.observed_decision = "ERROR"
     \/ ~is_initial(x)
     \/ ~response_is_coherent(x)
  THEN "INCONCLUSIVE"
  ELSE CASE x.role = "VULNERABLE" /\ Accepted(x, UNTRUSTED_VERSION)     -> "FAIL"
         [] x.role = "VULNERABLE" /\ Rejected(x)                        -> "PASS"
         [] x.role = "PATCHED" /\ Rejected(x)                           -> "PASS"
         [] x.role = "PATCHED" /\ Accepted(x, UNTRUSTED_VERSION)        -> "FAIL"
         [] x.role = "POSITIVE_CONTROL" /\ Accepted(x, TRUSTED_VERSION) -> "PASS"
         [] x.role = "POSITIVE_CONTROL" /\ Rejected(x)                  -> "FAIL"
         [] OTHER -> "INCONCLUSIVE"

baseline_reproduced(x) ==
  /\ calculate_individual_verdict(x) = "FAIL"
  /\ x.response.http_status = 200
  /\ x.observed_decision = "ACCEPTED"
  /\ x.response.reason_code = "CHECKSUM_ONLY_ACCEPTED"
  /\ is_applied(x, UNTRUSTED_VERSION)

patched_rejected(x) ==
  /\ calculate_individual_verdict(x) = "PASS"
  /\ x.response.http_status = 403
  /\ x.observed_decision = "REJECTED"
  /\ x.response.reason_code = "UNTRUSTED_SIGNER"
  /\ is_initial(x)
  /\ is_unchanged(x)

positive_control_passed(x) ==
  /\ calculate_individual_verdict(x) = "PASS"
  /\ x.response.http_status = 200
  /\ x.observed_decision = "ACCEPTED"
  /\ x.response.reason_code = "TRUSTED_SIGNATURE_ACCEPTED"
  /\ is_applied(x, TRUSTED_VERSION)

OneExecutionPerRole(executions) ==
  /\ Len(executions) = 3
  /\ \A role \in ExecutionRole :
       Cardinality({i \in DOMAIN executions : executions[i].role = role}) = 1

ByRole(executions, role) ==
  executions[CHOOSE i \in DOMAIN executions : executions[i].role = role]

SameInput(vulnerable, patched) ==
  /\ vulnerable.package.envelope_sha256 = patched.package.envelope_sha256
  /\ vulnerable.request.body_sha256 = patched.request.body_sha256
  /\ vulnerable.package.envelope_sha256 = vulnerable.request.body_sha256
  /\ patched.package.envelope_sha256 = patched.request.body_sha256

\* Slip: an execution without a decision counts as a failed one.
ErrorsAreFailures(executions) ==
  LET vulnerable == ByRole(executions, "VULNERABLE")
      patched    == ByRole(executions, "PATCHED")
      positive   == ByRole(executions, "POSITIVE_CONTROL")
  IN  IF ~SameInput(vulnerable, patched) \/ ~baseline_reproduced(vulnerable)
      THEN "INCONCLUSIVE"
      ELSE IF patched_rejected(patched) /\ positive_control_passed(positive)
      THEN "PATCH_VERIFIED"
      ELSE "PATCH_NOT_VERIFIED"

calculate_verification_outcome(executions) ==
  LET vulnerable == ByRole(executions, "VULNERABLE")
      patched    == ByRole(executions, "PATCHED")
      positive   == ByRole(executions, "POSITIVE_CONTROL")
  IN  IF \/ ~OneExecutionPerRole(executions)
         \/ \E i \in DOMAIN executions :
              \/ executions[i].observed_decision = "ERROR"
              \/ calculate_individual_verdict(executions[i]) = "INCONCLUSIVE"
         \/ ~SameInput(vulnerable, patched)
         \/ ~baseline_reproduced(vulnerable)
      THEN "INCONCLUSIVE"
      ELSE IF patched_rejected(patched) /\ positive_control_passed(positive)
      THEN "PATCH_VERIFIED"
      ELSE IF ~response_is_coherent(patched) \/ ~response_is_coherent(positive)
      THEN "INCONCLUSIVE"
      ELSE "PATCH_NOT_VERIFIED"

secure_expected_decision(role) == IF role = "POSITIVE_CONTROL" THEN "ACCEPTED" ELSE "REJECTED"

\* evidence_consistency_failures returns no failure.
evidence_consistent(executions) ==
  \A i \in DOMAIN executions :
    LET x == executions[i]
    IN  /\ x.security_verdict = calculate_individual_verdict(x)
        /\ x.secure_expected_decision = secure_expected_decision(x.role)
        /\ x.observed_decision = x.response.decision
===============================================================================
