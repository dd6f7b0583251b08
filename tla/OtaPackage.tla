------------------------------ MODULE OtaPackage ------------------------------
(***************************************************************************)
(* The OTA update package and the two gateway policies of fixrepro_core.   *)
(* Bytes are abstract: a payload has an identity and a length, a digest    *)
(* and a signature are the (injective) function of what they cover, so two *)
(* digests are equal exactly when the bytes are.  Packages the gateways    *)
(* cannot parse (bad UTF-8, JSON, base64, key or signature length) are one *)
(* value, Unparsable.                                                      *)
(***************************************************************************)
EXTENDS Naturals

CONSTANTS TrustedKey,     \* the Ed25519 key generated for the trusted signer
          UntrustedKey,   \* the Ed25519 key generated for the untrusted signer
          NoKey,          \* FIXREPRO_TRUSTED_PUBLIC_KEY is unset or unreadable
          None            \* Python's None

ASSUME KeysAssumption ==
  /\ TrustedKey # UntrustedKey
  /\ NoKey \notin {TrustedKey, UntrustedKey}

INITIAL_VERSION == "1.0.0"
UNTRUSTED_VERSION == "9.9.0-test"
TRUSTED_VERSION == "1.1.0"

\* sha256 of a payload, of a public key and of a whole envelope.
sha256(bytes) == [sha256 |-> bytes]

Manifest(version, payload) ==
  [firmware_version |-> version,
   payload_sha256   |-> sha256(payload.bytes),
   payload_size     |-> payload.size]

sign_manifest(key, manifest) == [key |-> key, over |-> manifest]

verify_manifest_signature(key, manifest, signature) ==
  signature = sign_manifest(key, manifest)

CreatePackage(key, version, payload) ==
  LET manifest == Manifest(version, payload)
  IN  [parsable           |-> TRUE,
       manifest           |-> manifest,
       payload            |-> payload,
       signer_public_key  |-> key,
       signer_fingerprint |-> sha256(key),
       signature          |-> sign_manifest(key, manifest)]

UntrustedPayload == [bytes |-> "untrusted payload", size |-> 68]
TrustedPayload == [bytes |-> "trusted payload", size |-> 67]

UntrustedPackage == CreatePackage(UntrustedKey, UNTRUSTED_VERSION, UntrustedPayload)
TrustedPackage == CreatePackage(TrustedKey, TRUSTED_VERSION, TrustedPayload)

Unparsable == [UntrustedPackage EXCEPT !.parsable = FALSE]

-------------------------------------------------------------------------------
(* The policies.  A result carries the package fields only when the package *)
(* was parsed; rejection before that leaves them empty.                     *)

PolicyResult(decision, reason) ==
  [decision |-> decision, reason_code |-> reason,
   firmware_version |-> "", payload_sha256 |-> ""]

WithPackageFields(result, package) ==
  [result EXCEPT !.firmware_version = package.manifest.firmware_version,
                 !.payload_sha256 = package.manifest.payload_sha256]

\* "" when the payload matches the manifest, else the reason of the exception.
verify_payload_integrity(package) ==
  CASE package.payload.size # package.manifest.payload_size -> "PAYLOAD_SIZE_MISMATCH"
    [] /\ package.payload.size = package.manifest.payload_size
       /\ sha256(package.payload.bytes) # package.manifest.payload_sha256
         -> "PAYLOAD_HASH_MISMATCH"
    [] OTHER -> ""

RejectedFor(reason, package) ==
  WithPackageFields(PolicyResult("REJECTED", reason), package)

evaluate_vulnerable_policy(package) ==
  IF ~package.parsable THEN PolicyResult("REJECTED", "MALFORMED_PACKAGE")
  ELSE IF verify_payload_integrity(package) # ""
  THEN RejectedFor(verify_payload_integrity(package), package)
  ELSE WithPackageFields(PolicyResult("ACCEPTED", "CHECKSUM_ONLY_ACCEPTED"), package)

\* Slip: the trusted key is recognised and its signature is not verified.
SignatureNotVerified(package, trusted_public_key) ==
  IF package.parsable /\ package.signer_public_key = trusted_public_key
  THEN evaluate_vulnerable_policy(package)
  ELSE RejectedFor("UNTRUSTED_SIGNER", package)

evaluate_patched_policy(package, trusted_public_key) ==
  IF ~package.parsable THEN PolicyResult("REJECTED", "MALFORMED_PACKAGE")
  ELSE IF verify_payload_integrity(package) # ""
  THEN RejectedFor(verify_payload_integrity(package), package)
  ELSE IF sha256(package.signer_public_key) # package.signer_fingerprint
  THEN RejectedFor("SIGNER_FINGERPRINT_MISMATCH", package)
  ELSE IF package.signer_public_key # trusted_public_key
  THEN RejectedFor("UNTRUSTED_SIGNER", package)
  ELSE IF ~verify_manifest_signature(package.signer_public_key, package.manifest,
                                     package.signature)
  THEN RejectedFor("INVALID_SIGNATURE", package)
  ELSE WithPackageFields(PolicyResult("ACCEPTED", "TRUSTED_SIGNATURE_ACCEPTED"), package)

\* Slip: a rejection for trust has no status of its own.
StatusWithoutForbidden(result) ==
  CASE result.decision = "ACCEPTED" -> 200
    [] result.reason_code \in {"DEVICE_UNAVAILABLE", "DEVICE_APPLY_FAILED"} -> 502
    [] OTHER -> 400

http_status_for(result) ==
  CASE result.decision = "ACCEPTED" -> 200
    [] result.decision # "ACCEPTED" /\ result.reason_code = "UNTRUSTED_SIGNER" -> 403
    [] result.reason_code \in {"DEVICE_UNAVAILABLE", "DEVICE_APPLY_FAILED"} -> 502
    [] result.reason_code = "TRUST_CONFIGURATION_ERROR" -> 500
    [] OTHER -> 400
===============================================================================
