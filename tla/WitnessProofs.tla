----------------------------- MODULE WitnessProofs ----------------------------
(* Proofs about verify_bundle and the physical-output witness: for any set of   *)
(* directories made of the files of runs, any cooldown and any length of time.  *)
EXTENDS Witness, FiniteSetTheorems, SequenceTheorems, TLAPS

-------------------------------------------------------------------------------
(* The outcome and verify_bundle. *)

\* ByRole finds one of the executions, of that role.
LEMMA ByRoleFinds ==
  ASSUME NEW executions, OneExecutionPerRole(executions), NEW r \in ExecutionRole
  PROVE  \E i \in DOMAIN executions :
           ByRole(executions, r) = executions[i] /\ executions[i].role = r
<1> DEFINE found == {i \in DOMAIN executions : executions[i].role = r}
<1>1. Cardinality(found) = 1
  BY DEF OneExecutionPerRole
<1>2. found # {}
  BY <1>1, FS_EmptySet
<1>3. \E i \in DOMAIN executions : executions[i].role = r
  BY <1>2
<1> QED
  BY <1>3 DEF ByRole

\* What calculate_verification_outcome requires of a conclusion, and of a verified patch.
LEMMA OutcomeMeans ==
  ASSUME NEW executions
  PROVE  LET outcome    == calculate_verification_outcome(executions)
             vulnerable == ByRole(executions, "VULNERABLE")
             patched    == ByRole(executions, "PATCHED")
         IN  outcome # "INCONCLUSIVE" =>
               /\ OneExecutionPerRole(executions)
               /\ \A r \in ExecutionRole :
                    calculate_individual_verdict(ByRole(executions, r)) # "INCONCLUSIVE"
               /\ SameInput(vulnerable, patched)
               /\ baseline_reproduced(vulnerable)
               /\ outcome = "PATCH_VERIFIED" <=>
                    /\ patched_rejected(patched)
                    /\ positive_control_passed(ByRole(executions, "POSITIVE_CONTROL"))
<1> DEFINE outcome == calculate_verification_outcome(executions)
<1>1. outcome # "INCONCLUSIVE" =>
        /\ OneExecutionPerRole(executions)
        /\ \A i \in DOMAIN executions :
             calculate_individual_verdict(executions[i]) # "INCONCLUSIVE"
        /\ SameInput(ByRole(executions, "VULNERABLE"), ByRole(executions, "PATCHED"))
        /\ baseline_reproduced(ByRole(executions, "VULNERABLE"))
        /\ outcome = "PATCH_VERIFIED" <=>
             /\ patched_rejected(ByRole(executions, "PATCHED"))
             /\ positive_control_passed(ByRole(executions, "POSITIVE_CONTROL"))
  BY DEF calculate_verification_outcome
<1> HIDE DEF outcome
<1>2. ASSUME outcome # "INCONCLUSIVE", NEW r \in ExecutionRole
      PROVE  calculate_individual_verdict(ByRole(executions, r)) # "INCONCLUSIVE"
  <2>1. PICK i \in DOMAIN executions : ByRole(executions, r) = executions[i]
    BY <1>1, <1>2, ByRoleFinds
  <2> QED
    BY <1>1, <1>2, <2>1
<1> QED
  BY <1>1, <1>2 DEF outcome

\* What an individual verdict rests on: the version of the role's package, an update or
\* none.
LEMMA VerdictMeans ==
  ASSUME NEW x, NEW r \in ExecutionRole, x.role = r,
         calculate_individual_verdict(x) # "INCONCLUSIVE"
  PROVE  LET version == IF r = "POSITIVE_CONTROL" THEN TRUSTED_VERSION ELSE UNTRUSTED_VERSION
         IN  /\ is_initial(x) /\ response_is_coherent(x)
             /\ Accepted(x, version) \/ Rejected(x)
             /\ r = "PATCHED" /\ Rejected(x) => calculate_individual_verdict(x) = "PASS"
             /\ r = "POSITIVE_CONTROL" /\ Accepted(x, version) =>
                  calculate_individual_verdict(x) = "PASS"
<1>1. is_initial(x) /\ response_is_coherent(x) /\ x.observed_decision # "ERROR"
  BY DEF calculate_individual_verdict
<1>2. CASE r = "VULNERABLE"
  BY <1>1, <1>2 DEF calculate_individual_verdict
<1>3. CASE r = "PATCHED"
  <2>1. Accepted(x, UNTRUSTED_VERSION) => ~Rejected(x)
    BY DEF Accepted, Rejected
  <2> QED
    BY <1>1, <1>3, <2>1 DEF calculate_individual_verdict
<1>4. CASE r = "POSITIVE_CONTROL"
  <2>1. Accepted(x, TRUSTED_VERSION) => ~Rejected(x)
    BY DEF Accepted, Rejected
  <2> QED
    BY <1>1, <1>4, <2>1 DEF calculate_individual_verdict
<1> QED
  BY <1>2, <1>3, <1>4 DEF ExecutionRole

\* The checks of verify_bundle on the execution of one role: its raw record and its
\* package, found under the paths of that role, say the same as evidence.json.
LEMMA RecordOfRole ==
  ASSUME NEW b, FromRuns(b), evidence_ok(b), NEW r \in ExecutionRole
  PROVE  LET x       == ByRole(b["evidence.json"].executions, r)
             record  == b[raw_path(r)]
             package == b[PackagePath(r)]
         IN  /\ x.role = r
             /\ record.request = x.request
             /\ record.device_state_before = x.device_state_before
             /\ record.device_state_after = x.device_state_after
             /\ record.reset_confirmed
             /\ record.gateway_response.decision = x.observed_decision
             /\ record.gateway_response.reason_code = x.response.reason_code
             /\ sha256(package) = x.package.envelope_sha256
             /\ package.manifest.payload_sha256 = x.package.sha256
             /\ package.signature = sign_manifest(package.signer_public_key, package.manifest)
             /\ package.manifest.firmware_version =
                  IF r = "POSITIVE_CONTROL" THEN TRUSTED_VERSION ELSE UNTRUSTED_VERSION
<1> DEFINE executions == b["evidence.json"].executions
<1>1. /\ Readable(b, "evidence.json") /\ OneExecutionPerRole(executions)
      /\ \A i \in DOMAIN executions :
           package_record_ok(b, executions[i]) /\ raw_record_ok(b, executions[i])
  BY DEF evidence_ok
<1>2. PICK i \in DOMAIN executions :
        ByRole(executions, r) = executions[i] /\ executions[i].role = r
  BY <1>1, ByRoleFinds
<1> DEFINE x == executions[i]
<1>3. x.package.filename = PackagePath(r)
  BY <1>1, <1>2 DEF FromRuns
<1> HIDE DEF executions, x
<1>4. raw_record_ok(b, x) /\ package_record_ok(b, x) /\ x.role = r
  BY <1>1, <1>2 DEF x
<1>5. Readable(b, PackagePath(r))
  BY <1>3, <1>4 DEF package_record_ok
<1>6. /\ sha256(b[PackagePath(r)]) = x.package.envelope_sha256
      /\ b[PackagePath(r)].manifest.payload_sha256 = x.package.sha256
      /\ b[PackagePath(r)].signature =
           sign_manifest(b[PackagePath(r)].signer_public_key, b[PackagePath(r)].manifest)
  BY <1>3, <1>4 DEF package_record_ok, verify_manifest_signature
<1>7. b[PackagePath(r)].manifest.firmware_version =
        IF r = "POSITIVE_CONTROL" THEN TRUSTED_VERSION ELSE UNTRUSTED_VERSION
  BY <1>5 DEF FromRuns
<1>8. LET record == b[raw_path(r)]
      IN  /\ record.request = x.request
          /\ record.device_state_before = x.device_state_before
          /\ record.device_state_after = x.device_state_after
          /\ record.reset_confirmed
          /\ record.gateway_response.decision = x.observed_decision
          /\ record.gateway_response.reason_code = x.response.reason_code
  BY <1>4 DEF raw_record_ok
<1> QED
  BY <1>2, <1>4, <1>6, <1>7, <1>8 DEF executions, x

\* An execution that is_applied holds for shows the update in its raw record.
LEMMA AppliedShowsUpdate ==
  ASSUME NEW record, NEW package, NEW x,
         record.device_state_before = x.device_state_before,
         record.device_state_after = x.device_state_after,
         record.gateway_response.decision = x.observed_decision,
         package.manifest.payload_sha256 = x.package.sha256,
         x.observed_decision = "ACCEPTED",
         is_applied(x, package.manifest.firmware_version)
  PROVE  ShowsUpdate(record, package)
  BY DEF ShowsUpdate, StartsInitial, is_applied, is_initial

\* verify_bundle: a directory made of the files of runs, whether of one or of several and
\* with whatever digests, is accepted only if its raw records, its packages and its key
\* by themselves show the outcome that evidence.json states.
THEOREM VerifiedBundleIsSupported ==
  ASSUME NEW b, FromRuns(b), verify_bundle(b)
  PROVE  Supported(b)
<1> DEFINE executions == b["evidence.json"].executions
           outcome == b["evidence.json"].verification_outcome
           X(r) == ByRole(executions, r)
           raw(r) == b[raw_path(r)]
           package(r) == b[PackagePath(r)]
<1>1. /\ evidence_ok(b) /\ trust_ok(b, executions)
      /\ outcome = calculate_verification_outcome(executions)
  BY DEF verify_bundle, evidence_ok
<1>2. \A r \in ExecutionRole :
        /\ X(r).role = r
        /\ raw(r).request = X(r).request
        /\ raw(r).device_state_before = X(r).device_state_before
        /\ raw(r).device_state_after = X(r).device_state_after
        /\ raw(r).reset_confirmed
        /\ raw(r).gateway_response.decision = X(r).observed_decision
        /\ raw(r).gateway_response.reason_code = X(r).response.reason_code
        /\ sha256(package(r)) = X(r).package.envelope_sha256
        /\ package(r).manifest.payload_sha256 = X(r).package.sha256
        /\ package(r).signature =
             sign_manifest(package(r).signer_public_key, package(r).manifest)
        /\ package(r).manifest.firmware_version =
             IF r = "POSITIVE_CONTROL" THEN TRUSTED_VERSION ELSE UNTRUSTED_VERSION
  BY <1>1, RecordOfRole
<1>3. /\ package("POSITIVE_CONTROL").signer_public_key = b[TrustPath]
      /\ package("PATCHED").signer_public_key # b[TrustPath]
  BY <1>1 DEF trust_ok, PackagePath
<1>4. outcome # "INCONCLUSIVE" =>
        /\ \A r \in ExecutionRole : calculate_individual_verdict(X(r)) # "INCONCLUSIVE"
        /\ baseline_reproduced(X("VULNERABLE"))
        /\ outcome = "PATCH_VERIFIED" <=>
             patched_rejected(X("PATCHED")) /\ positive_control_passed(X("POSITIVE_CONTROL"))
  BY <1>1, OutcomeMeans
<1> DEFINE status == X("PATCHED").response.http_status
<1>5. ShowsPatch(b) <=>
        /\ ShowsRefusal(raw("PATCHED")) /\ status = 403
        /\ ShowsUpdate(raw("POSITIVE_CONTROL"), package("POSITIVE_CONTROL"))
        /\ raw("POSITIVE_CONTROL").gateway_response.reason_code = "TRUSTED_SIGNATURE_ACCEPTED"
  BY DEF ShowsPatch
<1> DEFINE version(r) == package(r).manifest.firmware_version
<1> HIDE DEF executions, outcome, X, raw, package
<1>6. ASSUME outcome # "INCONCLUSIVE", NEW r \in ExecutionRole
      PROVE  /\ is_initial(X(r)) /\ response_is_coherent(X(r))
             /\ Accepted(X(r), version(r)) \/ Rejected(X(r))
             /\ r = "PATCHED" /\ Rejected(X(r)) =>
                  calculate_individual_verdict(X(r)) = "PASS"
             /\ r = "POSITIVE_CONTROL" /\ Accepted(X(r), version(r)) =>
                  calculate_individual_verdict(X(r)) = "PASS"
  BY <1>2, <1>4, <1>6, VerdictMeans
<1>7. ASSUME NEW r \in ExecutionRole
      PROVE  Accepted(X(r), version(r)) => ShowsUpdate(raw(r), package(r))
  BY <1>2, AppliedShowsUpdate DEF Accepted
<1>8. ASSUME outcome # "INCONCLUSIVE", NEW r \in ExecutionRole
      PROVE  ShowsNoUpdate(raw(r)) <=> Rejected(X(r))
  BY <1>2, <1>6, <1>8 DEF ShowsNoUpdate, StartsInitial, Rejected, is_initial, is_unchanged
<1>9. ASSUME outcome # "INCONCLUSIVE", NEW r \in ExecutionRole
      PROVE  ShowsUpdate(raw(r), package(r)) <=> Accepted(X(r), version(r))
  <2>1. X(r).observed_decision = "ACCEPTED" => ~Rejected(X(r))
    BY DEF Rejected
  <2>2. ShowsUpdate(raw(r), package(r)) => X(r).observed_decision = "ACCEPTED"
    BY <1>2 DEF ShowsUpdate
  <2> QED
    BY <1>6, <1>7, <1>9, <2>1, <2>2
<1>10. ASSUME outcome # "INCONCLUSIVE"
       PROVE  /\ \A r \in ExecutionRole :
                   /\ raw(r).reset_confirmed
                   /\ raw(r).request.body_sha256 = sha256(package(r))
                   /\ ShowsUpdate(raw(r), package(r)) \/ ShowsNoUpdate(raw(r))
              /\ ShowsUpdate(raw("VULNERABLE"), package("VULNERABLE"))
  <2>1. ASSUME NEW r \in ExecutionRole
        PROVE  raw(r).request.body_sha256 = sha256(package(r))
    BY <1>2, <1>6, <1>10 DEF response_is_coherent
  <2>2. X("VULNERABLE").observed_decision = "ACCEPTED"
    BY <1>4, <1>10 DEF baseline_reproduced
  <2>3. Accepted(X("VULNERABLE"), version("VULNERABLE"))
    BY <1>6, <1>10, <2>2 DEF Rejected, ExecutionRole
  <2> QED
    BY <1>2, <1>6, <1>8, <1>9, <1>10, <2>1, <2>3 DEF ExecutionRole
<1>11. ASSUME outcome # "INCONCLUSIVE"
       PROVE  outcome = "PATCH_VERIFIED" <=> ShowsPatch(b)
  <2>1. patched_rejected(X("PATCHED")) <=> ShowsRefusal(raw("PATCHED")) /\ status = 403
    <3>1. "PATCHED" \in ExecutionRole
      BY DEF ExecutionRole
    <3>2. patched_rejected(X("PATCHED")) =>
            Rejected(X("PATCHED")) /\ status = 403
              /\ X("PATCHED").response.reason_code = "UNTRUSTED_SIGNER"
      BY DEF patched_rejected, Rejected
    <3>3. /\ Rejected(X("PATCHED")) /\ status = 403
          /\ X("PATCHED").response.reason_code = "UNTRUSTED_SIGNER"
          => patched_rejected(X("PATCHED"))
      BY <1>6, <1>11, <3>1 DEF patched_rejected, Rejected
    <3> QED
      BY <1>2, <1>8, <1>11, <3>1, <3>2, <3>3 DEF ShowsRefusal
  <2>2. positive_control_passed(X("POSITIVE_CONTROL")) <=>
          /\ ShowsUpdate(raw("POSITIVE_CONTROL"), package("POSITIVE_CONTROL"))
          /\ raw("POSITIVE_CONTROL").gateway_response.reason_code
               = "TRUSTED_SIGNATURE_ACCEPTED"
    <3> DEFINE x == X("POSITIVE_CONTROL")
    <3>1. "POSITIVE_CONTROL" \in ExecutionRole /\ version("POSITIVE_CONTROL") = TRUSTED_VERSION
      BY <1>2 DEF ExecutionRole
    <3>2. positive_control_passed(x) =>
            /\ Accepted(x, TRUSTED_VERSION)
            /\ x.response.reason_code = "TRUSTED_SIGNATURE_ACCEPTED"
      BY DEF positive_control_passed, Accepted
    <3>3. Accepted(x, TRUSTED_VERSION) => x.response.http_status = 200
      BY <1>6, <1>11, <3>1 DEF Accepted, response_is_coherent
    <3>4. /\ Accepted(x, TRUSTED_VERSION)
          /\ x.response.reason_code = "TRUSTED_SIGNATURE_ACCEPTED"
          => positive_control_passed(x)
      BY <1>6, <1>11, <3>1, <3>3 DEF positive_control_passed, Accepted
    <3> HIDE DEF version, x
    <3>5. raw("POSITIVE_CONTROL").gateway_response.reason_code = x.response.reason_code
      BY <1>2, <3>1 DEF x
    <3>6. ShowsUpdate(raw("POSITIVE_CONTROL"), package("POSITIVE_CONTROL"))
            <=> Accepted(x, TRUSTED_VERSION)
      BY <1>9, <1>11, <3>1 DEF x
    <3> QED
      BY <3>2, <3>4, <3>5, <3>6 DEF x
  <2> QED
    BY <1>4, <1>5, <1>11, <2>1, <2>2
<1>12. package("POSITIVE_CONTROL").signature
         = sign_manifest(b[TrustPath], package("POSITIVE_CONTROL").manifest)
  BY <1>2, <1>3 DEF ExecutionRole
<1> HIDE DEF status, version
<1> QED
  BY <1>3, <1>10, <1>11, <1>12 DEF Supported, outcome, raw, package

-------------------------------------------------------------------------------
(* The plan. *)

\* What remains of the plan after each scenario.
LEMMA PlanTails ==
  /\ WitnessPlan # <<>> /\ Len(WitnessPlan) = 3
  /\ Head(WitnessPlan) = Signal("VULNERABLE")
  /\ Tail(WitnessPlan) = <<NoCommand("PATCHED"), Signal("POSITIVE_CONTROL")>>
  /\ Tail(WitnessPlan) # <<>> /\ Len(Tail(WitnessPlan)) = 2
  /\ Head(Tail(WitnessPlan)) = NoCommand("PATCHED")
  /\ Tail(Tail(WitnessPlan)) = <<Signal("POSITIVE_CONTROL")>>
  /\ Tail(Tail(WitnessPlan)) # <<>> /\ Len(Tail(Tail(WitnessPlan))) = 1
  /\ Head(Tail(Tail(WitnessPlan))) = Signal("POSITIVE_CONTROL")
  /\ Tail(Tail(Tail(WitnessPlan))) = <<>> /\ Len(<<>>) = 0
<1>1. WitnessPlan = <<Signal("VULNERABLE"), NoCommand("PATCHED"), Signal("POSITIVE_CONTROL")>>
  BY DEF WitnessPlan
<1> HIDE DEF Signal, NoCommand
<1> QED
  BY <1>1

\* A plan with a signal in it is the whole plan, of eligible evidence.
LEMMA SignalsMeanEligible ==
  ASSUME NEW document
  PROVE  /\ Len(plan_physical_witness(document)) = 3
         /\ signal_count(plan_physical_witness(document)) # 0 =>
              eligible(document) /\ plan_physical_witness(document) = WitnessPlan
<1>1. CASE eligible(document)
  BY <1>1, PlanTails DEF plan_physical_witness
<1>2. CASE ~eligible(document)
  <2> DEFINE p == [i \in 1 .. 3 |-> NoCommand(WitnessPlan[i].role)]
  <2>1. plan_physical_witness(document) = p
    BY <1>2 DEF plan_physical_witness
  <2>2. {i \in DOMAIN p : p[i].action = "SIGNAL"} = {}
    BY DEF NoCommand
  <2>3. Len(p) = 3
    OBVIOUS
  <2> QED
    BY <2>1, <2>2, <2>3, FS_EmptySet DEF signal_count
<1> QED
  BY <1>1, <1>2

\* plan_physical_witness recomputes the outcome: eligible evidence shows both updates and
\* the refusal.
LEMMA EligibleIsWarranted ==
  ASSUME NEW document, eligible(document)
  PROVE  /\ is_applied(ByRole(document.executions, "VULNERABLE"), UNTRUSTED_VERSION)
         /\ is_unchanged(ByRole(document.executions, "PATCHED"))
         /\ is_applied(ByRole(document.executions, "POSITIVE_CONTROL"), TRUSTED_VERSION)
<1>1. calculate_verification_outcome(document.executions) = "PATCH_VERIFIED"
  BY DEF eligible
<1> QED
  BY <1>1, OutcomeMeans DEF baseline_reproduced, patched_rejected, positive_control_passed

-------------------------------------------------------------------------------
(* The invariant. *)

WitnessInvariant == TypeOK /\ PlanAgrees

\* What is in signals at each stage of the loop.
LEMMA SignalLengths ==
  /\ signals = <<>> => Len(signals) = 0
  /\ OneSent => Len(signals) = 1 /\ signals # <<>>
  /\ BothSent => Len(signals) = 2 /\ signals # <<>>
  BY DEF OneSent, BothSent

LEMMA WitnessInit == Init => WitnessInvariant
  BY CooldownAssumption, SignalLengths
     DEF Init, WitnessInvariant, TypeOK, PlanAgrees, LoopAgrees

\* The steps before the loop send nothing.
LEMMA StartStep ==
  ASSUME WitnessInvariant,
         \/ VerifyBundle \/ ReadEvidence \/ ChooseMode
         \/ load_local_witness_config \/ ConfigurationFails \/ BundleReplaced
  PROVE  WitnessInvariant'
<1> USE CooldownAssumption
<1>1. CASE VerifyBundle
  BY <1>1 DEF VerifyBundle, Exit, WitnessInvariant, TypeOK, PlanAgrees, LoopAgrees
<1>2. CASE ReadEvidence
  <2>1. CASE Readable(files, "evidence.json")
    <3>1. /\ plan' = plan_physical_witness(evidence') /\ wpc' = "mode"
          /\ UNCHANGED <<files, mode, sent, last_signal_at, now, signals, exit>>
      BY <1>2, <2>1 DEF ReadEvidence
    <3>2. Len(plan') = 3
      BY <3>1, SignalsMeanEligible
    <3> HIDE DEF plan_physical_witness
    <3>3. TypeOK'
      BY <1>2, <3>1, <3>2 DEF ReadEvidence, WitnessInvariant, TypeOK, PlanAgrees
    <3>4. PlanAgrees'
      BY <1>2, <3>1 DEF ReadEvidence, WitnessInvariant, PlanAgrees, LoopAgrees
    <3> QED
      BY <3>3, <3>4 DEF WitnessInvariant
  <2>2. CASE ~Readable(files, "evidence.json")
    BY <1>2, <2>2 DEF ReadEvidence, Exit, WitnessInvariant, TypeOK, PlanAgrees, LoopAgrees
  <2> QED
    BY <2>1, <2>2
<1>3. CASE ChooseMode
  <2>1. signal_count(plan) # 0 => eligible(evidence) /\ plan = WitnessPlan
    BY <1>3, SignalsMeanEligible DEF ChooseMode, WitnessInvariant, PlanAgrees
  <2>2. /\ signals = <<>> /\ sent = 0 /\ last_signal_at = None
        /\ UNCHANGED <<files, mode, evidence, plan, sent, last_signal_at, now, signals>>
    BY <1>3 DEF ChooseMode, WitnessInvariant, PlanAgrees
  <2>3. \/ wpc' = "done" /\ exit' \in {0, 1, 2} /\ (exit' = 0 => mode # "live")
        \/ wpc' = "config" /\ exit' = exit /\ exit = None /\ mode = "live"
             /\ signal_count(plan) # 0
    <3>1. mode \in {"dry-run", "live", "unconfirmed"} /\ exit = None
      BY <1>3 DEF ChooseMode, WitnessInvariant, TypeOK, PlanAgrees
    <3>2. CASE mode = "dry-run"
      <4>1. Exit(IF signal_count(plan) = 0 THEN 2 ELSE 0)
        BY <1>3, <3>2 DEF ChooseMode
      <4> QED
        BY <3>2, <4>1 DEF Exit
    <3>3. CASE mode = "unconfirmed"
      <4>1. Exit(1)
        BY <1>3, <3>3 DEF ChooseMode
      <4> QED
        BY <4>1 DEF Exit
    <3>4. CASE mode = "live"
      <4>1. IF signal_count(plan) = 0 THEN Exit(2) ELSE wpc' = "config" /\ UNCHANGED exit
        BY <1>3, <3>4 DEF ChooseMode
      <4> QED
        BY <3>1, <3>4, <4>1 DEF Exit
    <3> QED
      BY <3>1, <3>2, <3>3, <3>4
  <2>4. TypeOK'
    BY <2>2, <2>3 DEF WitnessInvariant, TypeOK
  <2>5. PlanAgrees'
    BY <2>1, <2>2, <2>3 DEF PlanAgrees, LoopAgrees
  <2> QED
    BY <2>4, <2>5 DEF WitnessInvariant
<1>4. CASE load_local_witness_config
  BY <1>4 DEF load_local_witness_config, WitnessInvariant, TypeOK, PlanAgrees, LoopAgrees,
              Unsignalled
<1>5. CASE ConfigurationFails
  BY <1>5 DEF ConfigurationFails, Exit, WitnessInvariant, TypeOK, PlanAgrees, LoopAgrees
<1>6. CASE BundleReplaced
  BY <1>6 DEF BundleReplaced, WitnessInvariant, TypeOK, PlanAgrees, LoopAgrees
<1> QED
  BY <1>1, <1>2, <1>3, <1>4, <1>5, <1>6

\* Time passes and what was sent stays sent.
LEMMA SentKept ==
  ASSUME now \in Nat, now' \in Nat, now <= now', signals' = signals
  PROVE  (OneSent => OneSent') /\ (BothSent => BothSent')
  BY DEF OneSent, BothSent

\* Which scenario the loop is at, by what it says to do.
LEMMA NextScenario ==
  ASSUME WitnessInvariant, wpc = "loop", plan # <<>>
  PROVE  \/ /\ Unsignalled /\ signals = <<>>
            /\ Head(plan).action = "SIGNAL" /\ Head(plan).role = "VULNERABLE"
         \/ /\ Signalled /\ OneSent /\ plan = Tail(WitnessPlan)
            /\ Head(plan).action = "NO_COMMAND"
         \/ /\ Signalled /\ OneSent /\ plan = Tail(Tail(WitnessPlan))
            /\ Head(plan).action = "SIGNAL" /\ Head(plan).role = "POSITIVE_CONTROL"
<1>1. \A r : /\ Signal(r).action = "SIGNAL" /\ Signal(r).role = r
             /\ NoCommand(r).action = "NO_COMMAND"
  BY DEF Signal, NoCommand
<1>2. \/ Unsignalled /\ signals = <<>>
      \/ Signalled /\ OneSent
      \/ Finished
  BY DEF WitnessInvariant, PlanAgrees, LoopAgrees
<1>3. CASE Unsignalled /\ signals = <<>>
  BY <1>1, <1>3, PlanTails DEF Unsignalled
<1>4. CASE Signalled /\ OneSent
  <2>1. plan = Tail(WitnessPlan) \/ plan = Tail(Tail(WitnessPlan))
    BY <1>4 DEF Signalled
  <2>2. CASE plan = Tail(WitnessPlan)
    BY <1>1, <1>4, <2>2, PlanTails
  <2>3. CASE plan = Tail(Tail(WitnessPlan))
    BY <1>1, <1>4, <2>3, PlanTails
  <2> QED
    BY <2>1, <2>2, <2>3
<1> QED
  BY <1>2, <1>3, <1>4 DEF Finished

\* SkipScenario, Cooldown: the loop goes on to the next signal.
LEMMA LoopStep ==
  ASSUME WitnessInvariant, SkipScenario \/ Cooldown
  PROVE  WitnessInvariant'
<1> USE CooldownAssumption
<1>1. /\ wpc = "loop" /\ plan # <<>>
      /\ UNCHANGED <<files, mode, evidence, sent, last_signal_at, now, signals, exit>>
  BY DEF SkipScenario, Cooldown
<1>2. now \in Nat /\ now \in 0 .. MaxTime /\ exit = None
  BY <1>1 DEF WitnessInvariant, TypeOK, PlanAgrees
<1>3. (OneSent => OneSent') /\ (BothSent => BothSent')
  BY <1>1, <1>2, SentKept
<1>4. CASE SkipScenario
  <2>1. /\ Signalled /\ OneSent /\ plan = Tail(WitnessPlan)
        /\ plan' = Tail(Tail(WitnessPlan)) /\ wpc' = wpc
    BY <1>1, <1>4, NextScenario DEF SkipScenario
  <2>2. TypeOK'
    BY <1>1, <1>4, <2>1, PlanTails DEF WitnessInvariant, TypeOK
  <2>3. Signalled'
    BY <1>1, <2>1 DEF Signalled
  <2>4. PlanAgrees'
    BY <1>1, <1>2, <1>3, <2>1, <2>3 DEF WitnessInvariant, PlanAgrees, LoopAgrees
  <2> QED
    BY <2>2, <2>4 DEF WitnessInvariant
<1>5. CASE Cooldown
  <2>1. /\ wpc' = "locate" /\ plan' = plan
        /\ \/ Unsignalled /\ signals = <<>>
           \/ /\ Signalled /\ OneSent /\ plan = Tail(Tail(WitnessPlan))
              /\ now - last_signal_at >= COOLDOWN_SECONDS
    <3>1. /\ wpc' = "locate" /\ plan' = plan /\ Head(plan).action = "SIGNAL"
          /\ last_signal_at # None => now - last_signal_at >= COOLDOWN_SECONDS
      BY <1>5 DEF Cooldown
    <3>2. Signalled /\ OneSent => last_signal_at # None
      BY DEF Signalled, OneSent
    <3> QED
      BY <1>1, <3>1, <3>2, NextScenario
  <2>2. TypeOK'
    BY <1>1, <2>1 DEF WitnessInvariant, TypeOK
  <2>3. (Unsignalled => Unsignalled') /\ (plan = Tail(Tail(WitnessPlan)) /\ Signalled => Signalled')
    BY <1>1, <2>1 DEF Unsignalled, Signalled
  <2>4. PlanAgrees'
    BY <1>1, <1>2, <1>3, <2>1, <2>3 DEF WitnessInvariant, PlanAgrees, LoopAgrees
  <2> QED
    BY <2>2, <2>4 DEF WitnessInvariant
<1> QED
  BY <1>4, <1>5

LEMMA AppendSecond ==
  ASSUME NEW first, NEW second
  PROVE  Append(<<first>>, second) = <<first, second>>
<1> DEFINE S == {first, second}
           s == Append(<<first>>, second)
           t == <<first, second>>
<1>1. <<first>> \in Seq(S) /\ Len(<<first>>) = 1 /\ <<first>>[1] = first
  OBVIOUS
<1>2. s \in Seq(S) /\ Len(s) = 2 /\ s[1] = first /\ s[2] = second
  BY <1>1, AppendProperties
<1>3. t \in Seq(S) /\ Len(t) = 2 /\ t[1] = first /\ t[2] = second
  OBVIOUS
<1> HIDE DEF s, t, S
<1>4. \A i \in 1 .. Len(s) : s[i] = t[i]
  BY <1>2, <1>3
<1>5. s = t
  BY <1>2, <1>3, <1>4, SeqEqual
<1> QED
  BY <1>5 DEF s, t

\* execute_locate: the first signal is for the vulnerable scenario, the second, after the
\* cooldown, for the positive control.
LEMMA LocateStep ==
  ASSUME WitnessInvariant, execute_locate
  PROVE  WitnessInvariant'
<1> USE CooldownAssumption
<1>1. /\ wpc = "locate" /\ wpc' = "published" /\ mode = "live" /\ eligible(evidence)
      /\ signals' = Append(signals, [role |-> Head(plan).role, at |-> now])
      /\ UNCHANGED <<files, mode, evidence, plan, sent, last_signal_at, now, exit>>
      /\ now \in 0 .. MaxTime /\ exit = None
  BY DEF execute_locate, WitnessInvariant, TypeOK, PlanAgrees
<1>2. \A r : Signal(r).role = r
  BY DEF Signal
<1>3. \/ Unsignalled /\ signals = <<>>
      \/ Signalled /\ OneSent /\ now - last_signal_at >= COOLDOWN_SECONDS
  <2>1. LoopAgrees
    BY DEF WitnessInvariant, PlanAgrees
  <2>2. \/ Unsignalled /\ signals = <<>>
        \/ Signalled /\ OneSent /\ (wpc = "locate" => now - last_signal_at >= COOLDOWN_SECONDS)
        \/ Finished /\ BothSent /\ wpc = "loop"
    BY <1>1, <2>1 DEF LoopAgrees
  <2> QED
    BY <1>1, <2>2
<1>4. CASE Unsignalled /\ signals = <<>>
  <2>1. signals' = <<[role |-> "VULNERABLE", at |-> now]>>
    <3>1. Head(plan).role = "VULNERABLE" /\ signals = <<>>
      BY <1>2, <1>4, PlanTails DEF Unsignalled
    <3> QED
      BY <1>1, <3>1
  <2>2. OneSent'
    <3>1. signals'[1].at = now
      BY <2>1
    <3>2. signals' = <<[role |-> "VULNERABLE", at |-> signals'[1].at]>>
      BY <2>1, <3>1
    <3>3. signals'[1].at \in 0 .. now'
      BY <1>1, <3>1
    <3> QED
      BY <3>2, <3>3 DEF OneSent
  <2>3. Unsignalled' /\ Len(signals') = 1
    BY <1>1, <1>4, <2>1 DEF Unsignalled
  <2>4. TypeOK'
    BY <1>1, <1>4, <2>3 DEF WitnessInvariant, TypeOK, Unsignalled
  <2>5. PlanAgrees'
    BY <1>1, <2>1, <2>2, <2>3 DEF WitnessInvariant, PlanAgrees, LoopAgrees
  <2> QED
    BY <2>4, <2>5 DEF WitnessInvariant
<1>5. CASE Signalled /\ OneSent /\ now - last_signal_at >= COOLDOWN_SECONDS
  <2> DEFINE a == signals[1].at
  <2>1. /\ signals = <<[role |-> "VULNERABLE", at |-> a]>> /\ a \in 0 .. now
        /\ last_signal_at \in a .. now /\ plan = Tail(Tail(WitnessPlan))
    BY <1>1, <1>5 DEF OneSent, Signalled
  <2> HIDE DEF a
  <2>2. signals' = <<[role |-> "VULNERABLE", at |-> a],
                     [role |-> "POSITIVE_CONTROL", at |-> now]>>
    <3>1. Head(plan).role = "POSITIVE_CONTROL"
      BY <1>2, <2>1, PlanTails
    <3> QED
      BY <1>1, <2>1, <3>1, AppendSecond
  <2>3. signals'[1].at = a /\ signals'[2].at = now /\ Len(signals') = 2
    BY <2>2
  <2>4. now - a >= COOLDOWN_SECONDS
    BY <1>1, <1>5, <2>1
  <2>5. BothSent'
    <3>1. signals' = <<[role |-> "VULNERABLE", at |-> signals'[1].at],
                       [role |-> "POSITIVE_CONTROL", at |-> signals'[2].at]>>
      BY <2>2, <2>3
    <3>2. /\ signals'[1].at \in 0 .. now' /\ signals'[2].at \in 0 .. now'
          /\ signals'[2].at - signals'[1].at >= COOLDOWN_SECONDS
      BY <1>1, <2>1, <2>3, <2>4
    <3> QED
      BY <3>1, <3>2 DEF BothSent
  <2>6. Signalled'
    BY <1>1, <1>5, <2>1, <2>3 DEF Signalled
  <2>7. TypeOK'
    BY <1>1, <1>5, <2>3 DEF WitnessInvariant, TypeOK, Signalled
  <2>8. PlanAgrees'
    BY <1>1, <2>5, <2>6 DEF WitnessInvariant, PlanAgrees, LoopAgrees
  <2> QED
    BY <2>7, <2>8 DEF WitnessInvariant
<1> QED
  BY <1>3, <1>4, <1>5

\* execute_locate returns: the loop counts the signal.
LEMMA ReturnStep ==
  ASSUME WitnessInvariant, LocateReturns
  PROVE  WitnessInvariant'
<1> USE CooldownAssumption
<1>1. /\ wpc = "published" /\ wpc' = "loop" /\ mode = "live" /\ eligible(evidence)
      /\ sent' = sent + 1 /\ last_signal_at' = now /\ plan' = Tail(plan)
      /\ UNCHANGED <<files, mode, evidence, now, signals, exit>>
      /\ now \in 0 .. MaxTime /\ now \in Nat /\ exit = None
  BY DEF LocateReturns, WitnessInvariant, TypeOK, PlanAgrees
<1>2. (OneSent => OneSent') /\ (BothSent => BothSent')
  BY <1>1, SentKept
<1>3. (Unsignalled /\ OneSent) \/ (Signalled /\ BothSent)
  BY <1>1 DEF WitnessInvariant, PlanAgrees, LoopAgrees
<1>4. CASE Unsignalled /\ OneSent
  <2>1. sent' = 1 /\ plan' = Tail(WitnessPlan) /\ Len(plan') = 2 /\ Len(signals) = 1
    BY <1>1, <1>4, PlanTails, SignalLengths DEF Unsignalled
  <2>2. Signalled'
    BY <1>1, <1>4, <2>1 DEF Signalled, OneSent
  <2>3. TypeOK'
    <3>1. sent' \in 0 .. 2 /\ sent' <= Len(signals') /\ Len(signals') <= sent' + 1
      BY <1>1, <2>1
    <3>2. last_signal_at' \in 0 .. MaxTime
      BY <1>1
    <3>3. Len(plan') <= 3
      BY <2>1
    <3>4. /\ files' \in Bundles /\ mode' \in {"dry-run", "live", "unconfirmed"}
          /\ wpc' = "loop" /\ now' \in 0 .. MaxTime /\ exit' = None
      BY <1>1 DEF WitnessInvariant, TypeOK
    <3> QED
      BY <3>1, <3>2, <3>3, <3>4 DEF TypeOK
  <2>4. PlanAgrees'
    BY <1>1, <1>2, <1>4, <2>2 DEF WitnessInvariant, PlanAgrees, LoopAgrees
  <2> QED
    BY <2>3, <2>4 DEF WitnessInvariant
<1>5. CASE Signalled /\ BothSent
  <2>1. sent' = 2 /\ plan' = <<>> /\ Len(plan') = 0 /\ Len(signals) = 2
    BY <1>1, <1>5, PlanTails, SignalLengths DEF Signalled
  <2>2. Finished'
    BY <1>1, <2>1 DEF Finished
  <2>3. TypeOK'
    <3>1. sent' \in 0 .. 2 /\ sent' <= Len(signals') /\ Len(signals') <= sent' + 1
      BY <1>1, <2>1
    <3>2. last_signal_at' \in 0 .. MaxTime
      BY <1>1
    <3>3. Len(plan') <= 3
      BY <2>1
    <3>4. /\ files' \in Bundles /\ mode' \in {"dry-run", "live", "unconfirmed"}
          /\ wpc' = "loop" /\ now' \in 0 .. MaxTime /\ exit' = None
      BY <1>1 DEF WitnessInvariant, TypeOK
    <3> QED
      BY <3>1, <3>2, <3>3, <3>4 DEF TypeOK
  <2>4. PlanAgrees'
    BY <1>1, <1>2, <1>5, <2>2 DEF WitnessInvariant, PlanAgrees, LoopAgrees
  <2> QED
    BY <2>3, <2>4 DEF WitnessInvariant
<1> QED
  BY <1>3, <1>4, <1>5

\* The command ends: with an error, or after the last scenario.
LEMMA EndStep ==
  ASSUME WitnessInvariant, LocateFails \/ LivePass
  PROVE  WitnessInvariant'
<1> USE CooldownAssumption
<1>1. /\ wpc \in {"loop", "locate", "published"} /\ wpc' = "done" /\ exit' \in {0, 1}
      /\ exit' = 0 => wpc = "loop" /\ plan = <<>>
      /\ UNCHANGED <<files, mode, evidence, plan, sent, last_signal_at, now, signals>>
      /\ now \in Nat
  BY DEF LocateFails, LivePass, Exit, WitnessInvariant, TypeOK
<1>2. (OneSent => OneSent') /\ (BothSent => BothSent')
  BY <1>1, SentKept
<1>3. exit' = 0 => BothSent
  BY <1>1, PlanTails
     DEF WitnessInvariant, PlanAgrees, LoopAgrees, Unsignalled, Signalled
<1>4. TypeOK'
  BY <1>1 DEF WitnessInvariant, TypeOK
<1>5. PlanAgrees'
  BY <1>1, <1>2, <1>3 DEF WitnessInvariant, PlanAgrees, LoopAgrees
<1> QED
  BY <1>4, <1>5 DEF WitnessInvariant

LEMMA TickStep ==
  ASSUME WitnessInvariant, Tick
  PROVE  WitnessInvariant'
<1> USE CooldownAssumption
<1>1. /\ wpc \in {"loop", "locate", "published"} /\ now \in 0 .. MaxTime /\ now' = now + 1
      /\ now' \in 0 .. MaxTime /\ exit = None
      /\ UNCHANGED <<files, mode, wpc, evidence, plan, sent, last_signal_at, signals, exit>>
  BY DEF Tick, WitnessInvariant, TypeOK, PlanAgrees
<1>2. (OneSent => OneSent') /\ (BothSent => BothSent')
  BY <1>1, SentKept
<1>3. /\ Unsignalled => Unsignalled'
      /\ (OneSent \/ BothSent) /\ Signalled =>
           /\ Signalled'
           /\ now - last_signal_at >= COOLDOWN_SECONDS =>
                now' - last_signal_at' >= COOLDOWN_SECONDS
      /\ Finished => Finished'
  <2>1. (Unsignalled => Unsignalled') /\ (Finished => Finished')
    BY <1>1 DEF Unsignalled, Finished
  <2>2. ASSUME OneSent \/ BothSent, Signalled
        PROVE  /\ Signalled'
               /\ now - last_signal_at >= COOLDOWN_SECONDS =>
                    now' - last_signal_at' >= COOLDOWN_SECONDS
    <3>1. signals[1].at \in 0 .. now /\ last_signal_at \in signals[1].at .. now
      BY <2>2 DEF OneSent, BothSent, Signalled
    <3>2. last_signal_at' \in signals'[1].at .. now'
      BY <1>1, <3>1
    <3>3. Signalled'
      BY <1>1, <2>2, <3>2 DEF Signalled
    <3>4. /\ signals[1].at \in Nat /\ last_signal_at \in Nat /\ now \in Nat
          /\ last_signal_at' = last_signal_at
      BY <1>1, <3>1
    <3> QED
      BY <1>1, <3>3, <3>4
  <2> QED
    BY <2>1, <2>2
<1>4. TypeOK'
  BY <1>1 DEF WitnessInvariant, TypeOK
<1>5. PlanAgrees'
  BY <1>1, <1>2, <1>3 DEF WitnessInvariant, PlanAgrees, LoopAgrees
<1> QED
  BY <1>4, <1>5 DEF WitnessInvariant

LEMMA WitnessNext == WitnessInvariant /\ [Next]_vars => WitnessInvariant'
<1> SUFFICES ASSUME WitnessInvariant, [Next]_vars PROVE WitnessInvariant'
  OBVIOUS
<1>1. CASE UNCHANGED vars
  <2>1. /\ UNCHANGED <<files, mode, wpc, evidence, plan, sent, last_signal_at, now, signals, exit>>
        /\ now \in Nat
    BY <1>1 DEF vars, WitnessInvariant, TypeOK
  <2>2. TypeOK'
    BY <2>1 DEF WitnessInvariant, TypeOK
  <2>3. (OneSent => OneSent') /\ (BothSent => BothSent')
    BY <2>1, SentKept
  <2>4. /\ Unsignalled => Unsignalled'
        /\ Signalled => Signalled'
        /\ Finished => Finished'
    BY <2>1 DEF Unsignalled, Signalled, Finished
  <2>5. PlanAgrees'
    BY <2>1, <2>3, <2>4 DEF WitnessInvariant, PlanAgrees, LoopAgrees
  <2> QED
    BY <2>2, <2>5 DEF WitnessInvariant
<1> QED
  BY <1>1, StartStep, LoopStep, LocateStep, ReturnStep, EndStep, TickStep
     DEF Next, execute_live_plan

LEMMA WitnessAlways == Spec => []WitnessInvariant
  BY WitnessInit, WitnessNext, PTL DEF Spec

-------------------------------------------------------------------------------
(* The theorems. *)

\* TypeOK for any cooldown and any length of time: the loop's counter never differs from
\* the number of signals sent by more than the one that is going out.
THEOREM TypeCorrect == Spec => []TypeOK
<1>1. WitnessInvariant => TypeOK
  BY DEF WitnessInvariant
<1> QED
  BY <1>1, WitnessAlways, PTL

\* _execute_live_plan, whatever delays, lost answers and failures execute_locate meets: at
\* most the two signals of the plan, in order, a cooldown apart, and success only with both.
THEOREM SignalsAreBoundedAlways == Spec => []SignalsAreBounded
<1>1. WitnessInvariant => SignalsAreBounded
  <2> SUFFICES ASSUME WitnessInvariant PROVE SignalsAreBounded
    OBVIOUS
  <2>1. /\ signals = <<>> \/ OneSent \/ BothSent
        /\ signals # <<>> => mode = "live"
        /\ exit = 0 /\ mode = "live" => BothSent
    BY DEF WitnessInvariant, PlanAgrees
  <2>2. CASE signals = <<>>
    <3>1. SignalledRoles = <<>> /\ Len(signals) = 0
      BY <2>2 DEF SignalledRoles
    <3> QED
      BY <2>1, <2>2, <3>1, SignalLengths DEF SignalsAreBounded
  <2>3. CASE OneSent
    <3>1. /\ DOMAIN signals = 1 .. 1 /\ Len(signals) = 1
          /\ signals[1].role = "VULNERABLE"
      BY <2>3 DEF OneSent
    <3>2. SignalledRoles = <<"VULNERABLE">>
      BY <3>1 DEF SignalledRoles
    <3> QED
      BY <2>1, <2>3, <3>1, <3>2, SignalLengths DEF SignalsAreBounded
  <2>4. CASE BothSent
    <3>1. /\ DOMAIN signals = 1 .. 2 /\ Len(signals) = 2
          /\ signals[1].role = "VULNERABLE" /\ signals[2].role = "POSITIVE_CONTROL"
          /\ signals[2].at - signals[1].at >= COOLDOWN_SECONDS
      BY <2>4 DEF BothSent
    <3>2. SignalledRoles = <<"VULNERABLE", "POSITIVE_CONTROL">>
      BY <3>1 DEF SignalledRoles
    <3> QED
      BY <2>1, <2>4, <3>1, <3>2, SignalLengths DEF SignalsAreBounded
  <2> QED
    BY <2>1, <2>2, <2>3, <2>4
<1> QED
  BY <1>1, WitnessAlways, PTL

\* _load_verified_plan reads evidence.json again after verify_bundle, so anything may have
\* taken its place: plan_physical_witness alone makes every signal a warranted one.
THEOREM SignalsAreWarrantedAlways == Spec => []SignalsAreWarranted
<1>1. WitnessInvariant => SignalsAreWarranted
  BY EligibleIsWarranted DEF WitnessInvariant, PlanAgrees, SignalsAreWarranted
<1> QED
  BY <1>1, WitnessAlways, PTL

\* At every moment, with the directory replaced while the command reads it, verify_bundle
\* accepts only what supports its outcome.
THEOREM AcceptedIsSupportedAlways == Spec => []AcceptedIsSupported
<1>1. WitnessInvariant => AcceptedIsSupported
  BY BundlesAssumption, VerifiedBundleIsSupported
     DEF WitnessInvariant, TypeOK, AcceptedIsSupported
<1> QED
  BY <1>1, WitnessAlways, PTL
===============================================================================
