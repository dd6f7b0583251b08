------------------------------- MODULE MCWitness ------------------------------
(* Bundles of three scenarios that were each decided in one of a few ways, as   *)
(* published, with a damaged evidence.json, with an edited one whose labels      *)
(* claim success, or with files of two runs.                                    *)
EXTENDS Witness

Initial == [firmware_version |-> INITIAL_VERSION, update_counter |-> 0,
            last_payload_sha256 |-> None]

Updated(package) == [firmware_version |-> package.manifest.firmware_version,
                     update_counter |-> 1,
                     last_payload_sha256 |-> package.manifest.payload_sha256]

\* A scenario's http status, decision, reason and whether the device was updated.
Observed(status, decision, reason, updated) ==
  [http_status |-> status, decision |-> decision, reason_code |-> reason, updated |-> updated]

Capture(r, o) ==
  LET package == IF r = "POSITIVE_CONTROL" THEN TrustedPackage ELSE UntrustedPackage
  IN  [role |-> r, execution_id |-> r, package |-> package, reset_confirmed |-> TRUE,
       request |-> [body_sha256 |-> sha256(package)],
       response |-> [http_status |-> o.http_status, decision |-> o.decision,
                     reason_code |-> o.reason_code],
       gateway_response |-> [decision |-> o.decision, reason_code |-> o.reason_code],
       device_state_before |-> Initial,
       device_state_after |-> IF o.updated THEN Updated(package) ELSE Initial]

ChecksumAccepted == Observed(200, "ACCEPTED", "CHECKSUM_ONLY_ACCEPTED", TRUE)
Untrusted == Observed(403, "REJECTED", "UNTRUSTED_SIGNER", FALSE)
TrustedAccepted == Observed(200, "ACCEPTED", "TRUSTED_SIGNATURE_ACCEPTED", TRUE)
Unavailable == Observed(502, "ERROR", "DEVICE_UNAVAILABLE", FALSE)

Published ==
  {StagedBundle(<<Capture("VULNERABLE", v), Capture("PATCHED", p), Capture("POSITIVE_CONTROL", c)>>,
                TrustedKey) :
     v \in {ChecksumAccepted, Unavailable}, p \in {Untrusted, ChecksumAccepted},
     c \in {TrustedAccepted, Untrusted}}

\* The labels of a success, whatever was observed.
Relabelled(document) ==
  LET decision(r) == IF r = "PATCHED" THEN "REJECTED" ELSE "ACCEPTED"
      verdict(r) == IF r = "VULNERABLE" THEN "FAIL" ELSE "PASS"
      label(x) == [x EXCEPT !.observed_decision = decision(x.role),
                            !.security_verdict = verdict(x.role)]
  IN  [document EXCEPT !.verification_outcome = "PATCH_VERIFIED",
                       !.executions = [i \in DOMAIN @ |-> label(@[i])]]

\* The directory with the manifest written anew.
Refreshed(b) ==
  write_manifest([p \in DOMAIN b \ {MANIFEST_NAME, MANIFEST_DIGEST_NAME} |-> b[p]])

\* The digests inside evidence.json brought in line with the directory's files, too.
RefreshedEvidence(b) ==
  LET document == b["evidence.json"]
      digest(x) == [x EXCEPT !.raw_sha256 = sha256(b[raw_path(x.role)])]
  IN  Refreshed([b EXCEPT !["evidence.json"] =
        [document EXCEPT !.bundle_files = Digests(b, EXPECTED_EVIDENCE_ARTIFACTS),
                         !.executions = [i \in DOMAIN @ |-> digest(@[i])]]])

Outcome(b) == b["evidence.json"].verification_outcome

\* Conclusive evidence of one run, or the raw record of its patched
\* scenario, in the directory of another.
Mixed ==
  {[b EXCEPT ![p] = other[p]] :
     b \in Published, other \in {f \in Published : Outcome(f) = "PATCH_VERIFIED"},
     p \in {"evidence.json", "raw/patched.json"}}

MCBundles ==
  Published
    \cup {Refreshed(b) : b \in Mixed}
    \cup {RefreshedEvidence(b) : b \in Mixed}
    \cup {[b EXCEPT !["evidence.json"] = Garbage] : b \in Published}
    \cup {[b EXCEPT !["evidence.json"] = Relabelled(@)] : b \in Published}
===============================================================================
