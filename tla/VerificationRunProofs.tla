------------------------- MODULE VerificationRunProofs ------------------------
(* Proofs about one verification run, whatever the lab does meanwhile: any key   *)
(* files, any services that exit, either build in the patched slot.              *)
EXTENDS VerificationRun, GatewayProofs

RunInvariant == LabInvariant /\ TypeOK /\ RunAgrees

-------------------------------------------------------------------------------
(* Sequences. *)

\* One more element after a concatenation.
LEMMA AppendConcat ==
  ASSUME NEW S, NEW s \in Seq(S), NEW t \in Seq(S), NEW e \in S
  PROVE  Append(s \o t, e) = s \o Append(t, e)
<1>1. /\ s \o t \in Seq(S) /\ Append(s \o t, e) = (s \o t) \o <<e>>
      /\ Append(t, e) = t \o <<e>> /\ <<e>> \in Seq(S)
  BY ConcatProperties, AppendIsConcat
<1> QED
  BY <1>1, ConcatAssociative

\* One more capture.
LEMMA AppendCapture ==
  ASSUME NEW s, NEW n \in Nat, s = [i \in 1 .. n |-> s[i]], NEW c
  PROVE  /\ Append(s, c) = [i \in 1 .. n + 1 |-> Append(s, c)[i]]
         /\ Len(s) = n /\ Len(Append(s, c)) = n + 1
         /\ Append(s, c)[n + 1] = c
         /\ \A i \in 1 .. n : Append(s, c)[i] = s[i]
<1> DEFINE S == {s[i] : i \in 1 .. n} \cup {c}
<1>1. s \in [1 .. n -> S]
  OBVIOUS
<1>2. s \in Seq(S)
  BY <1>1, SeqDef
<1>3. Len(s) = n
  BY <1>1, <1>2, LenProperties
<1>4. c \in S
  OBVIOUS
<1> HIDE DEF S
<1> QED
  BY <1>2, <1>3, <1>4, AppendProperties, LenProperties

\* What the decided scenarios claim of the device is a history of it.
LEMMA ClaimIsHistory ==
  /\ Reset \in Seq(Entries) /\ Reset = Append(<<>>, [op |-> "reset", by |-> None])
  /\ \A happened \in BOOLEAN, r \in Requests : AppliedIf(happened, r) \in Seq(Entries)
  /\ \A i \in 1 .. 3 : Claim(i) \in Seq(Entries)
  /\ PastLog \in Seq(Entries)
<1>1. Reset \in Seq(Entries) /\ Reset = Append(<<>>, [op |-> "reset", by |-> None])
  BY DEF Reset, Entries
<1>2. ASSUME NEW happened \in BOOLEAN, NEW r \in Requests
      PROVE  AppliedIf(happened, r) \in Seq(Entries)
  <2>1. [op |-> "apply", by |-> r] \in Entries
    BY DEF Entries
  <2>2. <<[op |-> "apply", by |-> r]>> \in Seq(Entries) /\ <<>> \in Seq(Entries)
    BY <2>1
  <2> QED
    BY <2>2 DEF AppliedIf
<1>3. \A i \in 1 .. 3 : Definitions[i] \in Requests
  BY RunConstants DEF Definitions, ExecutionRole
<1>4. ASSUME NEW i \in 1 .. 3 PROVE Claim(i) \in Seq(Entries)
  <2>1. AppliedIf(captures[i].response.decision = "ACCEPTED", Definitions[i]) \in Seq(Entries)
    BY <1>2, <1>3
  <2> QED
    BY <1>1, <2>1, ConcatProperties DEF Claim
<1>5. Claim(1) \in Seq(Entries) /\ Claim(2) \in Seq(Entries) /\ Claim(3) \in Seq(Entries)
  BY <1>4
<1>6. /\ Claim(1) \o Claim(2) \in Seq(Entries)
      /\ Claim(1) \o Claim(2) \o Claim(3) \in Seq(Entries)
  BY <1>5, ConcatProperties
<1>7. PastLog \in Seq(Entries)
  BY <1>5, <1>6 DEF PastLog
<1> QED
  BY <1>1, <1>2, <1>4, <1>7

-------------------------------------------------------------------------------
(* The parts of the invariant that a step leaves alone. *)

LEMMA RolesDiffer ==
  /\ \A i, j \in 1 .. 3 : Definitions[i] = Definitions[j] => i = j
  /\ \A i \in 1 .. 3 : Definitions[i] \in Requests
  /\ \A r \in Requests : \E i \in 1 .. 3 : r = Definitions[i]
  /\ \A r \in Requests : GatewayOf(r) \in Gateways /\ PackageOf(r) \in Packages
  BY RunConstants DEF Definitions, ExecutionRole, GatewayOf, PackageOf, Gateways

\* A request that keeps its key and its package keeps its policy.
LEMMA PolicyKept ==
  ASSUME NEW r \in Requests, req'[r].key = req[r].key, req'[r].package = req[r].package
  PROVE  Policy(r)' = Policy(r)
  BY DEF Policy

\* The captures stay true as long as their requests stay what they are.
LEMMA CapturesKept ==
  ASSUME TypeOK, CapturesAgree, UNCHANGED <<captures, scenario>>,
         \A i \in 1 .. scenario - 1 :
           /\ req'[Definitions[i]].pc = "answered"
           /\ Policy(Definitions[i])' = Policy(Definitions[i])
           /\ Decided(i) => req'[Definitions[i]].call = req[Definitions[i]].call
  PROVE  CapturesAgree'
<1>1. ASSUME NEW i \in 1 .. scenario - 1 PROVE CaptureAgrees(i)'
  <2>1. CaptureAgrees(i)
    BY DEF CapturesAgree
  <2>2. Decided(i)' = Decided(i) /\ \A j \in 1 .. i : Decided(j)' = Decided(j)
    BY DEF Decided
  <2> QED
    BY <2>1, <2>2 DEF CaptureAgrees
<1> QED
  BY <1>1 DEF CapturesAgree

\* The claimed history depends on the captures only.
LEMMA PastLogKept ==
  ASSUME UNCHANGED <<captures, scenario>>
  PROVE  PastLog' = PastLog /\ \A i : Decided(i)' = Decided(i)
  BY DEF PastLog, Claim, Decided

\* A step in which neither the requests nor the device move: the orchestrator's own
\* bookkeeping, and the faults of the lab.
LEMMA RequestsKept ==
  ASSUME RunInvariant, UNCHANGED <<req, captures, scenario>>
  PROVE  CapturesAgree' /\ (SubmittedAsDefined /\ opc' = opc => SubmittedAsDefined')
<1>1. \A r : Policy(r)' = Policy(r)
  BY DEF Policy
<1>2. CapturesAgree'
  BY <1>1, CapturesKept DEF RunInvariant, RunAgrees, CapturesAgree, CaptureAgrees
<1> QED
  BY <1>2 DEF SubmittedAsDefined

\* Until the bundle is installed there is none.
LEMMA NothingPublished ==
  ASSUME RunInvariant, opc \notin {"check", "done"}
  PROVE  ~Published
  BY DEF RunInvariant, RunAgrees, PublicationAgrees

\* TypeOK without the lab.
LEMMA RunType ==
  ASSUME TypeOK
  PROVE  /\ scenario \in 1 .. 4 /\ scenario \in Nat
         /\ before \in DeviceStates \cup {None}
         /\ error \in {None} \cup Exceptions
  BY DEF TypeOK, Definitions

-------------------------------------------------------------------------------
(* The bundle a run stages. *)

LEMMA WriteFileEffect ==
  ASSUME NEW files, NEW path, NEW content
  PROVE  /\ WriteFile(files, path, content)[path] = content
         /\ \A p \in DOMAIN files \ {path} :
              /\ p \in DOMAIN WriteFile(files, path, content)
              /\ WriteFile(files, path, content)[p] = files[p]
         /\ path \in DOMAIN WriteFile(files, path, content)
  BY DEF WriteFile

\* What is read back of the files that run() wrote.
LEMMA StagedFiles ==
  ASSUME NEW c, NEW k
  PROVE  LET b == StagedBundle(c, k)
         IN  /\ "evidence.json" \in DOMAIN b
             /\ b["evidence.json"].executions = Executions(c)
             /\ b["evidence.json"].verification_outcome
                  = calculate_verification_outcome(Executions(c))
             /\ b["packages/trusted-update.json"] = ByRole(c, "POSITIVE_CONTROL").package
<1> DEFINE collected == CollectedArtifacts(c, k)
           evidence == EvidenceDocument(collected, Executions(c))
           b1 == WriteFile(collected, "evidence.json", evidence)
           report == [report |-> evidence]
           b2 == WriteFile(b1, "report.html", report)
           manifest == Digests(b2, DOMAIN b2 \ {MANIFEST_NAME, MANIFEST_DIGEST_NAME})
           b3 == WriteFile(b2, MANIFEST_NAME, manifest)
           digest == sha256(manifest)
           b4 == WriteFile(b3, MANIFEST_DIGEST_NAME, digest)
           trusted == "packages/trusted-update.json"
<1>1. StagedBundle(c, k) = b4
  BY DEF StagedBundle, write_manifest
<1>2. trusted \in DOMAIN collected /\ collected[trusted] = ByRole(c, "POSITIVE_CONTROL").package
  <2>1. trusted \in EXPECTED_EVIDENCE_ARTIFACTS
    BY DEF EXPECTED_EVIDENCE_ARTIFACTS
  <2>2. trusted # PackagePath("VULNERABLE") /\ trusted = PackagePath("POSITIVE_CONTROL")
    BY DEF PackagePath
  <2>3. trusted # TrustPath /\ trusted # "run.log"
    BY DEF TrustPath
  <2>4. trusted \notin {raw_path("VULNERABLE"), raw_path("PATCHED"), raw_path("POSITIVE_CONTROL")}
    BY DEF raw_path
  <2> QED
    BY <2>1, <2>2, <2>3, <2>4 DEF CollectedArtifacts
<1>3. /\ evidence.executions = Executions(c)
      /\ evidence.verification_outcome = calculate_verification_outcome(Executions(c))
  BY DEF EvidenceDocument
<1>4. /\ "evidence.json" \notin {"report.html", MANIFEST_NAME, MANIFEST_DIGEST_NAME}
      /\ trusted \notin {"evidence.json", "report.html", MANIFEST_NAME, MANIFEST_DIGEST_NAME}
  BY DEF MANIFEST_NAME, MANIFEST_DIGEST_NAME
<1> HIDE DEF collected, evidence, report, manifest, digest, trusted
<1>5. /\ b1["evidence.json"] = evidence /\ b1[trusted] = collected[trusted]
      /\ "evidence.json" \in DOMAIN b1 /\ trusted \in DOMAIN b1
  BY <1>2, <1>4, WriteFileEffect
<1> HIDE DEF b1
<1>6. /\ b2["evidence.json"] = evidence /\ b2[trusted] = collected[trusted]
      /\ "evidence.json" \in DOMAIN b2 /\ trusted \in DOMAIN b2
  <2>1. "evidence.json" \in DOMAIN b1 \ {"report.html"} /\ trusted \in DOMAIN b1 \ {"report.html"}
    BY <1>4, <1>5
  <2> QED
    BY <1>5, <2>1, WriteFileEffect
<1> HIDE DEF b2
<1>7. /\ b3["evidence.json"] = evidence /\ b3[trusted] = collected[trusted]
      /\ "evidence.json" \in DOMAIN b3 /\ trusted \in DOMAIN b3
  <2>1. "evidence.json" \in DOMAIN b2 \ {MANIFEST_NAME} /\ trusted \in DOMAIN b2 \ {MANIFEST_NAME}
    BY <1>4, <1>6
  <2> QED
    BY <1>6, <2>1, WriteFileEffect
<1> HIDE DEF b3
<1>8. /\ "evidence.json" \in DOMAIN b4
      /\ b4["evidence.json"] = evidence /\ b4[trusted] = collected[trusted]
  <2>1. /\ "evidence.json" \in DOMAIN b3 \ {MANIFEST_DIGEST_NAME}
        /\ trusted \in DOMAIN b3 \ {MANIFEST_DIGEST_NAME}
    BY <1>4, <1>7
  <2> QED
    BY <1>7, <2>1, WriteFileEffect
<1> QED
  BY <1>1, <1>2, <1>3, <1>8 DEF trusted

-------------------------------------------------------------------------------
(* The steps of the lab. *)

\* While services exit and the key file changes, the run is where it was.
LEMMA FaultsDuringRun ==
  ASSUME RunInvariant, LabInvariant', UNCHANGED <<device, req, log, orchestratorVars>>
  PROVE  RunInvariant'
<1>1. UNCHANGED <<device, req, log, opc, scenario, before, captures, error, published>>
  BY DEF orchestratorVars
<1>2. CapturesAgree' /\ SubmittedAsDefined'
  BY <1>1, RequestsKept DEF RunInvariant, RunAgrees
<1>3. PlaceAgrees'
  BY <1>1 DEF RunInvariant, RunAgrees, PlaceAgrees, role, Undisturbed, Published
<1>4. HistoryAgrees'
  BY <1>1, PastLogKept DEF RunInvariant, RunAgrees, HistoryAgrees, role, Undisturbed, Published
<1>5. PublicationAgrees'
  BY <1>1 DEF RunInvariant, RunAgrees, PublicationAgrees, Published
<1>6. TypeOK'
  BY <1>1 DEF RunInvariant, LabInvariant, TypeOK
<1> QED
  BY <1>2, <1>3, <1>4, <1>5, <1>6 DEF RunInvariant, RunAgrees

\* The step of a gateway: a captured request is answered, so it is another one's.
LEMMA GatewayDuringRun ==
  ASSUME RunInvariant, NEW r \in Requests, GatewayStep(r), UNCHANGED orchestratorVars
  PROVE  RunInvariant'
<1>1. /\ UNCHANGED <<opc, scenario, before, captures, error, published>>
      /\ RequestStep(r) /\ LabInvariant'
  BY GatewaySteps, RequestStepKeeps DEF orchestratorVars, RunInvariant
<1>2. /\ req[r].pc \notin {"idle", "answered"}
      /\ UNCHANGED <<device, log>>
      /\ \A s \in Requests \ {r} : req'[s] = req[s]
      /\ req'[r].pc # "idle" /\ req'[r].package = req[r].package
      /\ req'[r].gateway = req[r].gateway /\ req'[r].key = req[r].key
  BY <1>1 DEF RequestStep, GatewayStep, ReadState, ReadStateUnavailable, ApplyReturns,
              ApplyUnavailable, ApplyFailed, GatewayFails, Serving
<1>3. CapturesAgree'
  <2>1. ASSUME NEW i \in 1 .. scenario - 1
        PROVE  /\ req'[Definitions[i]].pc = "answered"
               /\ Policy(Definitions[i])' = Policy(Definitions[i])
               /\ req'[Definitions[i]].call = req[Definitions[i]].call
    <3>1. i \in 1 .. 3 /\ Definitions[i] \in Requests
      BY RunType, RolesDiffer DEF RunInvariant
    <3>2. req[Definitions[i]].pc = "answered"
      BY DEF RunInvariant, RunAgrees, CapturesAgree, CaptureAgrees
    <3>3. req'[Definitions[i]] = req[Definitions[i]]
      BY <1>2, <3>1, <3>2
    <3> QED
      BY <3>1, <3>2, <3>3, PolicyKept
  <2> QED
    BY <1>1, <2>1, CapturesKept DEF RunInvariant, RunAgrees
<1>4. SubmittedAsDefined'
  <2> SUFFICES ASSUME NEW i \in 1 .. 3
               PROVE  LET s == Definitions[i]
                      IN  /\ i > scenario' => req'[s].pc = "idle"
                          /\ i = scenario' /\ opc' \in {"start", "assert", "reset", "post"}
                               => req'[s].pc = "idle"
                          /\ req'[s].pc # "idle" =>
                               req'[s].gateway = GatewayOf(s) /\ req'[s].package = PackageOf(s)
    BY DEF SubmittedAsDefined
  <2>1. Definitions[i] \in Requests
    BY RolesDiffer
  <2> QED
    BY <1>1, <1>2, <2>1 DEF RunInvariant, RunAgrees, SubmittedAsDefined
<1>5. role' = role /\ (opc \in {"await", "observe"} => role \in Requests)
  BY <1>1, RunType, RolesDiffer DEF role, RunInvariant, RunAgrees, PlaceAgrees
<1>6. PlaceAgrees'
  BY <1>1, <1>2, <1>5 DEF RunInvariant, RunAgrees, PlaceAgrees, Undisturbed, Published
<1>7. HistoryAgrees'
  <2>1. opc \in {"await", "observe"} => (req'[role].call = "done" <=> req[role].call = "done")
    BY <1>1, <1>5, ExecutedKept DEF RunInvariant
  <2> QED
    BY <1>1, <1>2, <1>5, <2>1, PastLogKept
       DEF RunInvariant, RunAgrees, HistoryAgrees, AppliedIf, StateIf, Undisturbed, Published
<1>8. PublicationAgrees' /\ TypeOK'
  BY <1>1 DEF RunInvariant, LabInvariant, RunAgrees, PublicationAgrees, TypeOK, Published
<1> QED
  BY <1>1, <1>3, <1>4, <1>6, <1>7, <1>8 DEF RunInvariant, RunAgrees

\* While all is decided, the only request the device may still execute is the one the
\* orchestrator is waiting for.
LEMMA OnlyCurrentIsSent ==
  ASSUME RunInvariant, NEW r \in Requests, req[r].call = "sent", Undisturbed,
         \A i \in 1 .. scenario - 1 : Decided(i)
  PROVE  opc \in {"await", "observe"} /\ r = role
<1>1. PICK i \in 1 .. 3 : r = Definitions[i]
  BY RolesDiffer
<1>2. req[r].pc # "idle"
  BY OneRequest DEF RunInvariant, RequestAgrees
<1>3. ~(i <= scenario - 1)
  <2> SUFFICES ASSUME i <= scenario - 1 PROVE FALSE
    OBVIOUS
  <2>1. i \in 1 .. scenario - 1
    BY RunType DEF RunInvariant
  <2>2. CaptureAgrees(i) /\ Decided(i)
    BY <2>1 DEF RunInvariant, RunAgrees, CapturesAgree
  <2>3. req[r].call \in {"done", "none"}
    BY <1>1, <2>2 DEF CaptureAgrees
  <2> QED
    BY <2>3
<1>4. i = scenario /\ opc \notin {"start", "assert", "reset", "post"}
  BY <1>1, <1>2, <1>3, RunType DEF RunInvariant, RunAgrees, SubmittedAsDefined
<1>5. opc \in {"await", "observe"}
  BY <1>1, <1>4 DEF RunInvariant, RunAgrees, PlaceAgrees, TypeOK
<1> QED
  BY <1>1, <1>4, <1>5 DEF role

\* An apply call reaches the device: it is the current request's, or some scenario was not
\* decided.
LEMMA ApplyDuringRun ==
  ASSUME RunInvariant, NEW r \in Requests, DeviceApply(r), UNCHANGED orchestratorVars
  PROVE  RunInvariant'
<1>1. /\ UNCHANGED <<opc, scenario, before, captures, error, published>>
      /\ LabInvariant' /\ LabInvariant
      /\ \A s \in Requests : req'[s].pc = req[s].pc /\ req'[s].package = req[s].package
                             /\ req'[s].gateway = req[s].gateway /\ req'[s].key = req[s].key
      /\ device'.update_counter = device.update_counter + 1
      /\ device'.firmware_version = req[r].package.manifest.firmware_version
      /\ device'.last_payload_sha256 = req[r].package.manifest.payload_sha256
  BY ApplyStep DEF orchestratorVars, RunInvariant
<1>2. /\ req[r].call = "sent" /\ req'[r].call = "done"
      /\ \A s \in Requests \ {r} : req'[s] = req[s]
      /\ log' = Append(log, [op |-> "apply", by |-> r])
  <2> DEFINE q == [req[r] EXCEPT !.call = "done", !.after = AppliedState(req[r].result)]
  <2>1. /\ req[r].call = "sent" /\ req' = [req EXCEPT ![r] = q]
        /\ log' = Append(log, [op |-> "apply", by |-> r])
    BY DEF DeviceApply
  <2>2. req'[r] = q /\ \A s \in Requests \ {r} : req'[s] = req[s]
    BY <1>1, <2>1, ReplaceRequest DEF LabInvariant
  <2>3. req[r] \in UpdateRequests(r)
    BY <1>1, OneRequest DEF RequestType
  <2>4. q.call = "done"
    BY <2>3 DEF UpdateRequests
  <2> QED
    BY <2>1, <2>2, <2>4
<1>3. CapturesAgree'
  <2>1. ASSUME NEW i \in 1 .. scenario - 1
        PROVE  /\ req'[Definitions[i]].pc = "answered"
               /\ Policy(Definitions[i])' = Policy(Definitions[i])
               /\ Decided(i) => req'[Definitions[i]].call = req[Definitions[i]].call
    <3>1. i \in 1 .. 3 /\ Definitions[i] \in Requests
      BY RunType, RolesDiffer DEF RunInvariant
    <3>2. /\ req[Definitions[i]].pc = "answered"
          /\ Decided(i) => req[Definitions[i]].call # "sent"
      BY DEF RunInvariant, RunAgrees, CapturesAgree, CaptureAgrees
    <3> QED
      BY <1>1, <1>2, <3>1, <3>2, PolicyKept
  <2> QED
    BY <1>1, <2>1, CapturesKept DEF RunInvariant, RunAgrees
<1>4. SubmittedAsDefined'
  BY <1>1, RolesDiffer DEF RunInvariant, RunAgrees, SubmittedAsDefined
<1>5. role' = role /\ (opc \in {"await", "observe"} => role \in Requests)
  BY <1>1, RunType, RolesDiffer DEF role, RunInvariant, RunAgrees, PlaceAgrees
<1>6. PlaceAgrees'
  BY <1>1, <1>5 DEF RunInvariant, RunAgrees, PlaceAgrees, Undisturbed, Published
<1>7. HistoryAgrees'
  <2> SUFFICES ASSUME Undisturbed, \A i \in 1 .. scenario - 1 : Decided(i)
               PROVE  HistoryAgrees'
    BY <1>1, PastLogKept DEF HistoryAgrees, Undisturbed, Published
  <2>1. opc \in {"await", "observe"} /\ r = role
    BY <1>2, OnlyCurrentIsSent
  <2>2. log = PastLog \o Reset \o AppliedIf(FALSE, r) /\ device = StateIf(FALSE, r)
    BY <1>2, <2>1 DEF RunInvariant, RunAgrees, HistoryAgrees, AppliedIf, StateIf
  <2>3. log = PastLog \o Reset /\ PastLog \o Reset \in Seq(Entries)
    BY <2>2, ClaimIsHistory, ConcatProperties, ConcatEmptySeq DEF AppliedIf
  <2>4. [op |-> "apply", by |-> r] \in Entries
    BY DEF Entries
  <2>5. log' = PastLog \o Reset \o AppliedIf(TRUE, r)
    BY <1>2, <2>3, <2>4, AppendIsConcat DEF AppliedIf
  <2>6. device' = StateIf(TRUE, r)
    <3>1. device = InitialState
      BY <2>2 DEF StateIf
    <3>2. device'.update_counter = 1
      BY <1>1, <3>1 DEF InitialState
    <3>3. req[r].package = PackageOf(r)
      BY <1>2, OneRequest, RolesDiffer
         DEF RunInvariant, RunAgrees, SubmittedAsDefined, RequestAgrees
    <3>4. device' \in DeviceStates'
      BY <1>1 DEF LabInvariant, GatewayTypeOK
    <3> QED
      BY <1>1, <3>2, <3>3, <3>4 DEF StateIf, UpdatedState, DeviceStates
  <2>7. req'[role'].call = "done"
    BY <1>2, <1>5, <2>1
  <2> QED
    BY <1>1, <1>5, <2>1, <2>5, <2>6, <2>7, PastLogKept DEF HistoryAgrees, AppliedIf, StateIf
<1>8. PublicationAgrees' /\ TypeOK'
  BY <1>1 DEF RunInvariant, LabInvariant, RunAgrees, PublicationAgrees, TypeOK, Published
<1> QED
  BY <1>1, <1>3, <1>4, <1>6, <1>7, <1>8 DEF RunInvariant, RunAgrees

-------------------------------------------------------------------------------
(* The steps of the orchestrator. *)

\* Nothing at all moves in the lab, or its services exit with the run that started them.
LEMMA LabUntouched ==
  ASSUME LabInvariant,
         \/ UNCHANGED gatewayVars
         \/ up' \subseteq up /\ UNCHANGED <<device, keyfile, build, req, log>>
  PROVE  LabInvariant'
  BY LabKept DEF gatewayVars, LabInvariant, GatewayTypeOK

\* Where the orchestrator may go without touching the lab's requests or its own captures:
\* on, or out with an exception.
MovesOn ==
  \/ opc = "start" /\ opc' = "assert" /\ error' = error
  \/ opc = "assert" /\ opc' = "reset" /\ error' = error /\ scenario <= 3
  \/ opc = "assert" /\ opc' = "stop" /\ error' = error /\ scenario = 4
  \/ opc = "await" /\ opc' = "observe" /\ error' = error /\ req[role].pc = "answered"
  \/ opc = "stop" /\ opc' = "publish" /\ error' = error /\ error = None
  \/ opc \notin {"check", "done"} /\ opc' \in {"stop", "done"} /\ error' \in Exceptions
  \/ opc = "stop" /\ opc' = "done" /\ error' = error /\ error # None

LEMMA MoveStep ==
  ASSUME RunInvariant, LabInvariant', MovesOn,
         UNCHANGED <<device, req, log, scenario, before, captures, published>>
  PROVE  RunInvariant'
<1>1. CapturesAgree'
  BY RequestsKept
<1>2. role' = role /\ scenario \in 1 .. 4
  BY RunType DEF role, RunInvariant
<1>3. ~Published /\ ~Published'
  BY NothingPublished DEF MovesOn, Published
<1>4. PlaceAgrees'
  BY <1>2, <1>3, RunConstants
     DEF MovesOn, RunInvariant, RunAgrees, PlaceAgrees, Undisturbed
<1>5. SubmittedAsDefined'
  BY <1>2 DEF MovesOn, RunInvariant, RunAgrees, SubmittedAsDefined
<1>6. HistoryAgrees'
  BY <1>2, <1>3, PastLogKept, RunConstants
     DEF MovesOn, RunInvariant, RunAgrees, HistoryAgrees, PlaceAgrees, Undisturbed
<1>7. PublicationAgrees'
  BY <1>3, RunConstants DEF MovesOn, PublicationAgrees
<1>8. TypeOK'
  <2>1. error' \in {None} \cup Exceptions
    BY DEF MovesOn, RunInvariant, TypeOK
  <2>2. before \in DeviceStates' \cup {None}
    BY DEF RunInvariant, TypeOK, DeviceStates
  <2> QED
    BY <2>1, <2>2 DEF MovesOn, RunInvariant, LabInvariant, TypeOK
<1> QED
  BY <1>1, <1>4, <1>5, <1>6, <1>7, <1>8 DEF RunInvariant, RunAgrees

\* Everything the orchestrator does between the HTTP exchanges, and every way it fails.
LEMMA PassiveStep ==
  ASSUME RunInvariant,
         \/ start_services \/ StartFails \/ assert_services_running \/ GatewayAnswers
         \/ RequestFails \/ stop_services \/ StopFails \/ PublishFails
  PROVE  RunInvariant'
<1>1. LabInvariant'
  BY LabUntouched
     DEF start_services, StartFails, assert_services_running, GatewayAnswers, RequestFails,
         stop_services, StopFails, PublishFails, RunInvariant
<1>2. UNCHANGED <<device, req, log, scenario, before, captures, published>>
  BY DEF start_services, StartFails, assert_services_running, GatewayAnswers, RequestFails,
         stop_services, StopFails, PublishFails, Raise, gatewayVars
<1>3. scenario \in 1 .. 4 /\ Len(Definitions) = 3
  BY RunType DEF RunInvariant, Definitions
<1>4. MovesOn
  BY <1>3 DEF start_services, StartFails, assert_services_running, GatewayAnswers,
              RequestFails, stop_services, StopFails, PublishFails, Raise, MovesOn,
              Exceptions
<1> QED
  BY <1>1, <1>2, <1>4, MoveStep

\* _reset_device: the scenario starts from the initial state.
LEMMA ResetDuringRun ==
  ASSUME RunInvariant, reset_device
  PROVE  RunInvariant'
<1>1. /\ opc = "reset" /\ opc' = "post" /\ DeviceReset /\ before' = InitialState
      /\ device' = InitialState /\ log' = Append(log, [op |-> "reset", by |-> None])
      /\ UNCHANGED <<up, keyfile, build, req, scenario, captures, error, published>>
  BY DEF reset_device, DeviceReset
<1>2. LabInvariant'
  BY <1>1, ResetStep DEF RunInvariant
<1>3. CapturesAgree'
  BY <1>1, RequestsKept
<1>4. role' = role
  BY <1>1 DEF role
<1>5. PlaceAgrees'
  BY <1>1, <1>4 DEF RunInvariant, RunAgrees, PlaceAgrees
<1>6. SubmittedAsDefined'
  BY <1>1 DEF RunInvariant, RunAgrees, SubmittedAsDefined
<1>7. HistoryAgrees'
  <2> SUFFICES ASSUME Undisturbed, \A i \in 1 .. scenario - 1 : Decided(i)
               PROVE  log' = PastLog \o Reset
    BY <1>1, PastLogKept DEF HistoryAgrees, Undisturbed, Published
  <2>1. log = PastLog
    BY <1>1 DEF RunInvariant, RunAgrees, HistoryAgrees
  <2>2. [op |-> "reset", by |-> None] \in Entries
    BY DEF Entries
  <2> QED
    BY <1>1, <2>1, <2>2, ClaimIsHistory, AppendIsConcat DEF Reset
<1>8. PublicationAgrees' /\ TypeOK'
  <2>1. ~Published /\ error = None
    BY <1>1, NothingPublished DEF RunInvariant, RunAgrees, PlaceAgrees
  <2>2. before' \in DeviceStates'
    BY <1>1, <1>2 DEF LabInvariant, GatewayTypeOK
  <2> QED
    BY <1>1, <1>2, <2>1, <2>2
       DEF RunInvariant, LabInvariant, PublicationAgrees, TypeOK, Published
<1> QED
  BY <1>2, <1>3, <1>5, <1>6, <1>7, <1>8 DEF RunInvariant, RunAgrees

\* _execute_scenario posts the package of its definition.
LEMMA PostDuringRun ==
  ASSUME RunInvariant, post_package
  PROVE  RunInvariant'
<1>1. /\ opc = "post" /\ opc' = "await" /\ submit_update(role, GatewayOf(role), PackageOf(role))
      /\ UNCHANGED <<scenario, before, captures, error, published>>
      /\ UNCHANGED <<device, log>>
  BY DEF post_package, submit_update
<1>2. /\ scenario \in 1 .. 3 /\ role \in Requests /\ role' = role
      /\ GatewayOf(role) \in Gateways /\ PackageOf(role) \in Packages
      /\ role = Definitions[scenario]
  BY <1>1, RunType, RolesDiffer DEF RunInvariant, RunAgrees, PlaceAgrees, role
<1>3. LabInvariant'
  BY <1>1, <1>2, SubmitStep, RequestStepKeeps DEF RunInvariant
<1>4. /\ req'[role].pc = "get_state" /\ req'[role].gateway = GatewayOf(role)
      /\ req'[role].package = PackageOf(role) /\ req'[role].call = "none"
      /\ \A s \in Requests \ {role} : req'[s] = req[s]
  BY <1>1, <1>2, SubmitEffect DEF RunInvariant
<1>5. CapturesAgree'
  <2>1. ASSUME NEW i \in 1 .. scenario - 1
        PROVE  /\ req'[Definitions[i]].pc = "answered"
               /\ Policy(Definitions[i])' = Policy(Definitions[i])
               /\ req'[Definitions[i]].call = req[Definitions[i]].call
    <3>1. i \in 1 .. 3 /\ Definitions[i] \in Requests /\ Definitions[i] # role
      BY <1>2, RolesDiffer
    <3>2. req[Definitions[i]].pc = "answered"
      BY DEF RunInvariant, RunAgrees, CapturesAgree, CaptureAgrees
    <3>3. req'[Definitions[i]] = req[Definitions[i]]
      BY <1>4, <3>1
    <3> QED
      BY <3>1, <3>2, <3>3, PolicyKept
  <2> QED
    BY <1>1, <2>1, CapturesKept DEF RunInvariant, RunAgrees
<1>6. SubmittedAsDefined'
  <2> SUFFICES ASSUME NEW i \in 1 .. 3
               PROVE  LET s == Definitions[i]
                      IN  /\ i > scenario => req'[s].pc = "idle"
                          /\ req'[s].pc # "idle" =>
                               req'[s].gateway = GatewayOf(s) /\ req'[s].package = PackageOf(s)
    BY <1>1 DEF SubmittedAsDefined
  <2>1. CASE i = scenario
    BY <1>2, <1>4, <2>1
  <2>2. CASE i # scenario
    <3>1. req'[Definitions[i]] = req[Definitions[i]]
      BY <1>2, <1>4, <2>2, RolesDiffer
    <3> QED
      BY <3>1 DEF RunInvariant, RunAgrees, SubmittedAsDefined
  <2> QED
    BY <2>1, <2>2
<1>7. PlaceAgrees'
  BY <1>1, <1>2, <1>4 DEF RunInvariant, RunAgrees, PlaceAgrees
<1>8. HistoryAgrees'
  <2> SUFFICES ASSUME Undisturbed, \A i \in 1 .. scenario - 1 : Decided(i)
               PROVE  /\ log' = PastLog \o Reset \o AppliedIf(FALSE, role)
                      /\ device' = StateIf(FALSE, role)
    BY <1>1, <1>2, <1>4, PastLogKept
       DEF HistoryAgrees, AppliedIf, StateIf, Undisturbed, Published
  <2>1. log = PastLog \o Reset /\ device = InitialState
    BY <1>1 DEF RunInvariant, RunAgrees, HistoryAgrees
  <2>2. PastLog \o Reset \in Seq(Entries)
    BY ClaimIsHistory, ConcatProperties
  <2> QED
    BY <1>1, <2>1, <2>2, ConcatEmptySeq DEF AppliedIf, StateIf
<1>9. PublicationAgrees' /\ TypeOK'
  <2>1. ~Published /\ error = None
    BY <1>1, NothingPublished DEF RunInvariant, RunAgrees, PlaceAgrees
  <2>2. before' \in DeviceStates' \cup {None}
    BY <1>1 DEF RunInvariant, TypeOK, DeviceStates
  <2> QED
    BY <1>1, <1>3, <2>1, <2>2
       DEF RunInvariant, LabInvariant, PublicationAgrees, TypeOK, Published
<1> QED
  BY <1>3, <1>5, <1>6, <1>7, <1>8, <1>9 DEF RunInvariant, RunAgrees

\* run() publishes only what verify_bundle accepts.
LEMMA PublishDuringRun ==
  ASSUME RunInvariant, publish_bundle
  PROVE  RunInvariant'
<1> DEFINE staged == StagedBundle(captures, TrustFile)
<1>1. /\ opc = "publish" /\ UNCHANGED gatewayVars
      /\ UNCHANGED <<scenario, before, captures>>
      /\ \/ /\ opc' = "check" /\ verify_bundle(staged) /\ published' = staged
            /\ error' = error
         \/ opc' = "done" /\ error' = "BundleError" /\ published' = published
  BY DEF publish_bundle
<1>2. UNCHANGED <<device, up, keyfile, build, req, log>>
  BY <1>1 DEF gatewayVars
<1>3. TrustFile \in KeyFiles \cup {TrustedKey, Garbage}
  BY DEF TrustFile, RunInvariant, LabInvariant, GatewayTypeOK
<1> HIDE DEF staged
<1>4. LabInvariant'
  BY <1>1, LabUntouched DEF RunInvariant
<1>5. CapturesAgree'
  BY <1>1, <1>2, RequestsKept
<1>6. /\ role' = role /\ error = None /\ scenario = 4 /\ ~Published
      /\ error' \in {None, "BundleError"} /\ Undisturbed
  BY <1>1, NothingPublished DEF role, RunInvariant, RunAgrees, PlaceAgrees, Undisturbed
<1>7. PlaceAgrees' /\ SubmittedAsDefined'
  BY <1>1, <1>2, <1>6, RunConstants
     DEF RunInvariant, RunAgrees, PlaceAgrees, SubmittedAsDefined
<1>8. HistoryAgrees'
  BY <1>1, <1>2, <1>6, PastLogKept DEF RunInvariant, RunAgrees, HistoryAgrees
<1>9. PublicationAgrees'
  <2>1. CASE opc' = "done"
    BY <1>1, <1>6, <2>1, RunConstants DEF PublicationAgrees, Published, Exceptions
  <2>2. CASE opc' = "check"
    <3>1. Published'
      BY <1>1, <2>2, StagedFiles DEF staged, Published
    <3>2. verify_bundle(published')
      BY <1>1, <2>2
    <3>3. \E key \in KeyFiles \cup {TrustedKey, Garbage} : published' = StagedBundle(captures', key)
      BY <1>1, <1>3, <2>2 DEF staged
    <3> QED
      BY <1>1, <1>6, <2>2, <3>1, <3>2, <3>3, RunConstants DEF PublicationAgrees, Exceptions
  <2> QED
    BY <1>1, <2>1, <2>2
<1>10. TypeOK'
  <2>1. before' \in DeviceStates' \cup {None}
    BY <1>1 DEF RunInvariant, TypeOK, DeviceStates
  <2>2. error' \in {None} \cup Exceptions
    BY <1>6 DEF Exceptions
  <2> QED
    BY <1>1, <1>4, <2>1, <2>2 DEF RunInvariant, LabInvariant, TypeOK
<1> QED
  BY <1>4, <1>5, <1>7, <1>8, <1>9, <1>10 DEF RunInvariant, RunAgrees

\* Whatever the last look at the published bundle says, the bundle stays.
LEMMA CheckDuringRun ==
  ASSUME RunInvariant, verify_published \/ PublishedThenFails
  PROVE  RunInvariant'
<1>1. /\ opc = "check" /\ opc' = "done" /\ UNCHANGED gatewayVars
      /\ UNCHANGED <<scenario, before, captures, published>>
      /\ error' \in {error, "OSError", "BundleError"}
  BY DEF verify_published, PublishedThenFails
<1>2. UNCHANGED <<device, up, keyfile, build, req, log>>
  BY <1>1 DEF gatewayVars
<1>3. LabInvariant'
  BY <1>1, LabUntouched DEF RunInvariant
<1>4. CapturesAgree'
  BY <1>1, <1>2, RequestsKept
<1>5. /\ error = None /\ Published /\ Published' /\ Undisturbed /\ Undisturbed'
      /\ scenario = 4 /\ error' \in {None, "OSError", "BundleError"}
  BY <1>1 DEF RunInvariant, RunAgrees, PlaceAgrees, PublicationAgrees, Undisturbed, Published
<1>6. PlaceAgrees' /\ SubmittedAsDefined'
  BY <1>1, <1>2, <1>5 DEF RunInvariant, RunAgrees, PlaceAgrees, SubmittedAsDefined
<1>7. HistoryAgrees'
  BY <1>1, <1>2, <1>5, PastLogKept DEF RunInvariant, RunAgrees, HistoryAgrees
<1>8. PublicationAgrees'
  BY <1>1, <1>5 DEF RunInvariant, RunAgrees, PublicationAgrees
<1>9. TypeOK'
  <2>1. before' \in DeviceStates' \cup {None}
    BY <1>1 DEF RunInvariant, TypeOK, DeviceStates
  <2>2. error' \in {None} \cup Exceptions
    BY <1>5 DEF Exceptions
  <2> QED
    BY <1>1, <1>3, <2>1, <2>2 DEF RunInvariant, LabInvariant, TypeOK
<1> QED
  BY <1>3, <1>4, <1>6, <1>7, <1>8, <1>9 DEF RunInvariant, RunAgrees

\* A recorded decision is the gateway's own, of a body that was understood.
LEMMA DecidedResponse ==
  ASSUME NEW answer \in Answers, NEW after,
         RecordedResponse(answer, after).decision # "ERROR"
  PROVE  /\ RecordedResponse(answer, after) =
              [http_status |-> answer.http_status, decision |-> answer.decision,
               reason_code |-> answer.reason_code]
         /\ answer.decision \in {"ACCEPTED", "REJECTED"}
<1>1. answer.malformed \in BOOLEAN /\ (~answer.malformed => answer.decision \in Decisions)
  <2>1. CASE answer = InternalServerError
    <3>1. answer.malformed = TRUE
      BY <2>1 DEF InternalServerError
    <3> QED
      BY <3>1
  <2>2. CASE answer # InternalServerError
    <3> DEFINE states == DeviceStates \cup {EmptyDoc}
               codes == {200, 400, 403, 500, 502}
               bodies == [http_status : codes, malformed : {FALSE}, decision : Decisions,
                          reason_code : ReasonCodes, device_state_before : states,
                          device_state_after : states]
    <3>1. answer \in bodies
      BY <2>2, Zenon DEF Answers
    <3> HIDE DEF states, codes
    <3>2. answer.malformed \in {FALSE} /\ answer.decision \in Decisions
      BY <3>1
    <3> QED
      BY <3>2
  <2> QED
    BY <2>1, <2>2
<1>2. ~Conflicting(answer, after) /\ ~answer.malformed
  <2>1. CASE Conflicting(answer, after)
    BY <2>1 DEF RecordedResponse
  <2>2. CASE answer.malformed /\ ~Conflicting(answer, after)
    BY <2>2 DEF RecordedResponse
  <2> QED
    BY <1>1, <2>1, <2>2
<1>3. RecordedResponse(answer, after) =
        [http_status |-> answer.http_status, decision |-> answer.decision,
         reason_code |-> answer.reason_code]
  BY <1>2 DEF RecordedResponse
<1> QED
  BY <1>1, <1>2, <1>3 DEF Decisions

\* One more decided scenario: the claimed history grows by its reset and its apply.
LEMMA PastLogGrows ==
  ASSUME NEW n \in 1 .. 3, scenario = n, scenario' = n + 1,
         \A i \in 1 .. n - 1 : captures'[i] = captures[i]
  PROVE  PastLog' = PastLog \o Reset \o
                    AppliedIf(captures'[n].response.decision = "ACCEPTED", Definitions[n])
<1>1. \A i \in 1 .. n - 1 : Claim(i)' = Claim(i)
  BY DEF Claim
<1>2. Claim(n)' = Reset \o AppliedIf(captures'[n].response.decision = "ACCEPTED", Definitions[n])
  BY DEF Claim
<1>3. Reset \in Seq(Entries) /\ PastLog \in Seq(Entries)
  BY ClaimIsHistory
<1> DEFINE applied == AppliedIf(captures'[n].response.decision = "ACCEPTED", Definitions[n])
<1>4. applied \in Seq(Entries)
  BY ClaimIsHistory, RolesDiffer
<1> HIDE DEF applied
<1>5. PastLog \o Claim(n)' = PastLog \o Reset \o applied
  <2>1. PastLog \o Reset \o applied = PastLog \o (Reset \o applied)
    BY <1>3, <1>4, ConcatAssociative
  <2> QED
    BY <1>2, <2>1 DEF applied
<1>6. Claim(n)' \in Seq(Entries)
  BY <1>2, <1>3, <1>4, ConcatProperties DEF applied
<1>7. PastLog' = PastLog \o Claim(n)'
  <2>1. CASE n = 1
    <3>1. PastLog = <<>> /\ PastLog' = Claim(1)'
      BY <2>1 DEF PastLog
    <3> QED
      BY <2>1, <3>1, <1>6, ConcatEmptySeq
  <2>2. CASE n = 2
    <3>1. PastLog = Claim(1) /\ PastLog' = Claim(1)' \o Claim(2)'
      BY <2>2 DEF PastLog
    <3> QED
      BY <1>1, <2>2, <3>1
  <2>3. CASE n = 3
    <3>1. PastLog = Claim(1) \o Claim(2) /\ PastLog' = Claim(1)' \o Claim(2)' \o Claim(3)'
      BY <2>3 DEF PastLog
    <3> QED
      BY <1>1, <2>3, <3>1
  <2> QED
    BY <2>1, <2>2, <2>3
<1> QED
  BY <1>5, <1>7 DEF applied

\* The end of _execute_scenario: what the device says now, beside what the gateway said.
LEMMA CaptureDuringRun ==
  ASSUME RunInvariant, read_device_state
  PROVE  RunInvariant'
<1>1. PICK n \in 1 .. 3 : scenario = n
  BY RunType DEF read_device_state, RunInvariant, RunAgrees, PlaceAgrees
<1> DEFINE r == Definitions[n]
           answer == req[r].answer
           c == _execute_scenario(answer, device)
<1>2. /\ opc = "observe" /\ opc' = "assert" /\ scenario' = n + 1
      /\ captures' = Append(captures, c)
      /\ UNCHANGED gatewayVars /\ UNCHANGED <<before, error, published>>
  BY <1>1 DEF read_device_state, role
<1>3. UNCHANGED <<device, up, keyfile, build, req, log>>
  BY <1>2 DEF gatewayVars
<1>4. /\ r \in Requests /\ role = r /\ before = InitialState /\ error = None
      /\ req[r].pc = "answered" /\ ~Published
  BY <1>1, <1>2, RolesDiffer, NothingPublished DEF role, RunInvariant, RunAgrees, PlaceAgrees
<1>5. answer \in Answers /\ RequestAgrees(r)
  BY <1>4, OneRequest DEF RunInvariant, RequestType
<1>6. /\ c.response = RecordedResponse(answer, device)
      /\ c.gateway_response.decision = answer.decision
      /\ c.device_state_after = device
      /\ c = ScenarioCapture(r, c.response, c.gateway_response, InitialState,
                             c.device_state_after)
  BY <1>4 DEF _execute_scenario, ScenarioCapture
<1>7. /\ captures' = [i \in 1 .. n |-> captures'[i]] /\ Len(captures') = n
      /\ captures'[n] = c /\ \A i \in 1 .. n - 1 : captures'[i] = captures[i]
  <2>1. captures = [i \in 1 .. n - 1 |-> captures[i]] /\ n - 1 \in Nat /\ n - 1 + 1 = n
    BY <1>1 DEF RunInvariant, RunAgrees, CapturesAgree
  <2> HIDE DEF c
  <2> QED
    BY <1>2, <2>1, AppendCapture
<1>8. ASSUME c.response.decision # "ERROR"
      PROVE  /\ c.response = [http_status |-> http_status_for(Policy(r)),
                              decision    |-> Policy(r).decision,
                              reason_code |-> Policy(r).reason_code]
             /\ c.response.decision \in {"ACCEPTED", "REJECTED"}
             /\ c.gateway_response.decision = c.response.decision
             /\ req[r].call = IF c.response.decision = "ACCEPTED" THEN "done" ELSE "none"
  <2> HIDE DEF c, answer
  <2>1. /\ c.response = [http_status |-> answer.http_status, decision |-> answer.decision,
                         reason_code |-> answer.reason_code]
        /\ answer.decision \in {"ACCEPTED", "REJECTED"}
    BY <1>5, <1>6, <1>8, DecidedResponse
  <2>2. c.response.decision = answer.decision
    BY <2>1
  <2>3. /\ answer.reason_code = Policy(r).reason_code
        /\ answer.http_status = http_status_for(Policy(r))
        /\ answer.decision = Policy(r).decision
        /\ req[r].call = IF answer.decision = "ACCEPTED" THEN "done" ELSE "none"
    BY <1>4, <1>5, <2>1 DEF RequestAgrees, answer
  <2> QED
    BY <1>6, <2>1, <2>2, <2>3
<1>9. ASSUME c.response.decision # "ERROR", \A i \in 1 .. n - 1 : Decided(i)
      PROVE  LET happened == c.response.decision = "ACCEPTED"
             IN  /\ log = PastLog \o Reset \o AppliedIf(happened, r)
                 /\ device = StateIf(happened, r)
  <2>1. LET happened == req[r].call = "done"
        IN  log = PastLog \o Reset \o AppliedIf(happened, r) /\ device = StateIf(happened, r)
    BY <1>1, <1>2, <1>4, <1>9 DEF RunInvariant, RunAgrees, HistoryAgrees, Undisturbed
  <2>2. c.response.decision = "ACCEPTED" <=> req[r].call = "done"
    BY <1>8, <1>9
  <2> QED
    BY <2>1, <2>2 DEF AppliedIf, StateIf
<1> HIDE DEF c, answer
<1>10. Decided(n)' <=> c.response.decision # "ERROR"
  BY <1>7 DEF Decided
<1>11. \A i \in 1 .. n - 1 : Decided(i)' <=> Decided(i)
  BY <1>7 DEF Decided
<1>12. CaptureAgrees(n)'
  <2>1. (\A j \in 1 .. n : Decided(j)') =>
          c.device_state_after = StateIf(c.response.decision = "ACCEPTED", r)
    BY <1>6, <1>9, <1>10, <1>11
  <2>2. Policy(r)' = Policy(r)
    BY <1>3 DEF Policy
  <2> QED
    BY <1>3, <1>4, <1>6, <1>7, <1>8, <1>10, <2>1, <2>2 DEF CaptureAgrees
<1>13. ASSUME NEW i \in 1 .. n - 1 PROVE CaptureAgrees(i)'
  <2>1. CaptureAgrees(i)
    BY <1>1 DEF RunInvariant, RunAgrees, CapturesAgree
  <2>2. Policy(Definitions[i])' = Policy(Definitions[i])
    BY <1>3 DEF Policy
  <2>3. (Decided(i)' <=> Decided(i)) /\ \A j \in 1 .. i : Decided(j)' <=> Decided(j)
    BY <1>11
  <2> QED
    BY <1>3, <1>7, <2>1, <2>2, <2>3 DEF CaptureAgrees
<1>14. CapturesAgree'
  <2>1. scenario' - 1 = n
    BY <1>2
  <2> QED
    BY <1>7, <1>12, <1>13, <2>1 DEF CapturesAgree
<1>15. PlaceAgrees'
  BY <1>2, <1>4 DEF PlaceAgrees
<1>16. SubmittedAsDefined'
  BY <1>1, <1>2, <1>3 DEF RunInvariant, RunAgrees, SubmittedAsDefined
<1>17. HistoryAgrees'
  <2> SUFFICES ASSUME \A i \in 1 .. n : Decided(i)' PROVE log' = PastLog'
    BY <1>2 DEF HistoryAgrees
  <2>1. log = PastLog \o Reset \o AppliedIf(c.response.decision = "ACCEPTED", r)
    BY <1>9, <1>10, <1>11
  <2> QED
    BY <1>1, <1>2, <1>3, <1>7, <2>1, PastLogGrows
<1>18. PublicationAgrees' /\ TypeOK'
  <2>1. LabInvariant'
    BY <1>2, LabUntouched DEF RunInvariant
  <2>2. before' \in DeviceStates' \cup {None} /\ ~Published' /\ error' = None
    BY <1>2, <1>3, <1>4 DEF RunInvariant, TypeOK, DeviceStates, Published
  <2>3. scenario' \in 1 .. Len(Definitions) + 1 /\ Len(captures') = scenario' - 1
    BY <1>2, <1>7 DEF Definitions
  <2> QED
    BY <1>2, <2>1, <2>2, <2>3 DEF LabInvariant, PublicationAgrees, TypeOK, Published
<1>19. LabInvariant'
  BY <1>2, LabUntouched DEF RunInvariant
<1> QED
  BY <1>14, <1>15, <1>16, <1>17, <1>18, <1>19 DEF RunInvariant, RunAgrees

-------------------------------------------------------------------------------
(* The invariant. *)

LEMMA RunInit == Init => RunInvariant
<1> SUFFICES ASSUME Init PROVE RunInvariant
  OBVIOUS
<1>1. GatewayInit /\ opc = "start" /\ scenario = 1 /\ before = None /\ captures = <<>>
      /\ error = None /\ published = <<>>
  BY DEF Init
<1>2. LabInvariant
  BY <1>1, LabInit
<1>3. TypeOK /\ ~Published
  BY <1>1, <1>2 DEF LabInvariant, TypeOK, Published, Definitions
<1>4. CapturesAgree
  <2>1. 1 .. scenario - 1 = {}
    BY <1>1
  <2> QED
    BY <1>1, <2>1 DEF CapturesAgree
<1>5. SubmittedAsDefined
  <2>1. \A i \in 1 .. 3 : req[Definitions[i]].pc = "idle"
    BY <1>1, RolesDiffer DEF GatewayInit, IdleRequest
  <2> QED
    BY <2>1 DEF SubmittedAsDefined
<1>6. HistoryAgrees
  BY <1>1 DEF HistoryAgrees, PastLog, GatewayInit
<1> QED
  BY <1>1, <1>2, <1>3, <1>4, <1>5, <1>6
     DEF RunInvariant, RunAgrees, PlaceAgrees, PublicationAgrees

LEMMA RunNext == RunInvariant /\ [Next]_vars => RunInvariant'
<1> SUFFICES ASSUME RunInvariant, [Next]_vars PROVE RunInvariant'
  OBVIOUS
<1>1. CASE Orchestrator
  <2>1. CASE reset_device
    BY <2>1, ResetDuringRun
  <2>2. CASE post_package
    BY <2>2, PostDuringRun
  <2>3. CASE read_device_state
    BY <2>3, CaptureDuringRun
  <2>4. CASE publish_bundle
    BY <2>4, PublishDuringRun
  <2>5. CASE verify_published \/ PublishedThenFails
    BY <2>5, CheckDuringRun
  <2> QED
    BY <1>1, <2>1, <2>2, <2>3, <2>4, <2>5, PassiveStep DEF Orchestrator
<1>2. CASE Lab
  <2>1. CASE LabFaults
    BY <1>2, <2>1, FaultStep, FaultsDuringRun DEF Lab, RunInvariant
  <2>2. ASSUME NEW r \in Requests, GatewayStep(r) \/ DeviceApply(r) PROVE RunInvariant'
    BY <1>2, <2>2, GatewayDuringRun, ApplyDuringRun DEF Lab
  <2> QED
    BY <1>2, <2>1, <2>2 DEF Lab, LabStep
<1>3. CASE UNCHANGED vars
  <2>1. UNCHANGED gatewayVars /\ UNCHANGED orchestratorVars
    BY <1>3 DEF vars
  <2> QED
    BY <2>1, LabUntouched, FaultsDuringRun DEF RunInvariant, gatewayVars
<1> QED
  BY <1>1, <1>2, <1>3 DEF Next

LEMMA RunAlways == Spec => []RunInvariant
  BY RunInit, RunNext, PTL DEF Spec

-------------------------------------------------------------------------------
(* The theorems. *)

\* TypeOK for any key files and packages: whatever fails, the run's variables keep their
\* types, and it never loses count of the scenarios it has captured.
THEOREM TypeCorrect == Spec => []TypeOK
<1>1. RunInvariant => TypeOK
  BY DEF RunInvariant
<1> QED
  BY <1>1, RunAlways, PTL

\* The end of run() and publish_directory: the destination only ever gets a bundle that
\* verify_bundle accepts, from a run that executed and stopped without a failure, and a run
\* returns only if its bundle is there, although it may raise when it is.
THEOREM PublishedIsVerifiedAlways == Spec => []PublishedIsVerified
<1>1. RunInvariant => PublishedIsVerified
  BY RunConstants
     DEF RunInvariant, RunAgrees, PublicationAgrees, PublishedIsVerified, Exceptions
<1> QED
  BY <1>1, RunAlways, PTL

-------------------------------------------------------------------------------
(* The evidence of a run. *)

\* _execution_from_capture copies what the verdicts read.
LEMMA ExecutionFields ==
  ASSUME NEW c
  PROVE  LET x == ExecutionFromCapture(c)
         IN  /\ x.role = c.role
             /\ x.package.sha256 = c.package.manifest.payload_sha256
             /\ x.package.envelope_sha256 = sha256(c.package)
             /\ x.request = c.request
             /\ x.response = c.response
             /\ x.device_state_before = c.device_state_before
             /\ x.device_state_after = c.device_state_after
             /\ x.observed_decision = c.response.decision
  BY DEF ExecutionFromCapture

\* The captures of a finished run, by their role.
LEMMA RoleIsFound ==
  ASSUME NEW s, DOMAIN s = 1 .. 3, \A i \in 1 .. 3 : s[i].role = Definitions[i]
  PROVE  /\ \A i \in 1 .. 3 : ByRole(s, Definitions[i]) = s[i]
         /\ \A i \in 1 .. 3 : {j \in DOMAIN s : s[j].role = Definitions[i]} = {i}
<1>1. ASSUME NEW i \in 1 .. 3
      PROVE  /\ ByRole(s, Definitions[i]) = s[i]
             /\ {j \in DOMAIN s : s[j].role = Definitions[i]} = {i}
  <2>1. \A j \in DOMAIN s : s[j].role = Definitions[i] <=> j = i
    BY RolesDiffer
  <2>2. (CHOOSE j \in DOMAIN s : s[j].role = Definitions[i]) = i
    BY <2>1
  <2> QED
    BY <2>1, <2>2 DEF ByRole
<1> QED
  BY <1>1

-------------------------------------------------------------------------------
(* The decisions of a run. *)

\* The statuses of the decisions on the two packages.
LEMMA StatusOfRun ==
  ASSUME NEW result
  PROVE  /\ /\ result.decision = "ACCEPTED"
            /\ result.reason_code \in {"CHECKSUM_ONLY_ACCEPTED", "TRUSTED_SIGNATURE_ACCEPTED"}
            => http_status_for(result) = 200
         /\ result.decision = "REJECTED" /\ result.reason_code = "UNTRUSTED_SIGNER" =>
              http_status_for(result) = 403
  BY DEF http_status_for

-------------------------------------------------------------------------------
(* A finished run. *)

\* The evidence of scenario i.
Execution(i) == ExecutionFromCapture(captures[i])

\* A run whose bundle is in place has captured its three scenarios.
LEMMA FinishedRun ==
  ASSUME RunInvariant, Published
  PROVE  /\ scenario = 4 /\ Undisturbed /\ opc \in {"check", "done"}
         /\ DOMAIN captures = 1 .. 3
         /\ DOMAIN Executions(captures) = 1 .. 3 /\ Len(Executions(captures)) = 3
         /\ \A i \in 1 .. 3 :
              /\ CaptureAgrees(i) /\ captures[i].role = Definitions[i]
              /\ Executions(captures)[i] = Execution(i) /\ Execution(i).role = Definitions[i]
<1>1. scenario = 4 /\ Undisturbed /\ opc \in {"check", "done"}
  BY DEF RunInvariant, RunAgrees, PlaceAgrees, PublicationAgrees, Undisturbed
<1>2. scenario - 1 = 3
  BY <1>1
<1>3. \A i \in 1 .. 3 : CaptureAgrees(i)
  BY <1>2 DEF RunInvariant, RunAgrees, CapturesAgree
<1>4. captures = [i \in 1 .. 3 |-> captures[i]]
  BY <1>2 DEF RunInvariant, RunAgrees, CapturesAgree
<1>5. ASSUME NEW i \in 1 .. 3 PROVE captures[i].role = Definitions[i]
  <2>1. captures[i] = ScenarioCapture(Definitions[i], captures[i].response,
                        captures[i].gateway_response, InitialState,
                        captures[i].device_state_after)
    BY <1>3 DEF CaptureAgrees
  <2> QED
    BY <2>1 DEF ScenarioCapture
<1>6. \A i \in 1 .. 3 : Execution(i).role = Definitions[i]
  BY <1>5, ExecutionFields DEF Execution
<1>7. Executions(captures) = <<Execution(1), Execution(2), Execution(3)>>
  BY DEF Executions, Execution
<1> QED
  BY <1>1, <1>3, <1>4, <1>5, <1>6, <1>7

\* What the evidence of a scenario says, and what its request was.
LEMMA ExecutionOfScenario ==
  ASSUME RunInvariant, Published, NEW i \in 1 .. 3
  PROVE  LET x == Execution(i)
             r == Definitions[i]
         IN  /\ x.device_state_before = InitialState
             /\ x.package.sha256 = PackageOf(r).manifest.payload_sha256
             /\ x.package.envelope_sha256 = sha256(PackageOf(r))
             /\ x.request.body_sha256 = sha256(PackageOf(r))
             /\ x.observed_decision = x.response.decision
             /\ Decided(i) <=> x.observed_decision # "ERROR"
             /\ req[r].package = PackageOf(r)
             /\ req[r].key # None <=> r # "VULNERABLE" /\ build = "signer_trust"
             /\ Decided(i) => /\ x.response.decision \in {"ACCEPTED", "REJECTED"}
                              /\ x.response.decision = Policy(r).decision
                              /\ x.response.reason_code = Policy(r).reason_code
                              /\ x.response.http_status = http_status_for(Policy(r))
             /\ (\A j \in 1 .. 3 : Decided(j)) =>
                  x.device_state_after = StateIf(x.response.decision = "ACCEPTED", r)
<1> DEFINE c == captures[i]
           r == Definitions[i]
           x == Execution(i)
<1>1. CaptureAgrees(i) /\ r \in Requests /\ r \in {"VULNERABLE", "PATCHED", "POSITIVE_CONTROL"}
  BY FinishedRun, RolesDiffer DEF Definitions
<1>2. /\ c = ScenarioCapture(r, c.response, c.gateway_response, InitialState,
                             c.device_state_after)
      /\ req[r].pc = "answered"
  BY <1>1 DEF CaptureAgrees
<1> DEFINE response == c.response
           gateway_response == c.gateway_response
           after == c.device_state_after
           capture == ScenarioCapture(r, response, gateway_response, InitialState, after)
<1> HIDE DEF response, gateway_response, after
<1>3. /\ capture.package = PackageOf(r)
      /\ capture.request.body_sha256 = sha256(PackageOf(r))
      /\ capture.device_state_before = InitialState
  BY DEF ScenarioCapture
<1> HIDE DEF capture
<1>4. c = capture
  BY <1>2 DEF capture, response, gateway_response, after
<1>5. /\ x.package.sha256 = PackageOf(r).manifest.payload_sha256
      /\ x.package.envelope_sha256 = sha256(PackageOf(r))
      /\ x.request.body_sha256 = sha256(PackageOf(r))
      /\ x.device_state_before = InitialState
      /\ x.response = c.response /\ x.device_state_after = c.device_state_after
      /\ x.observed_decision = x.response.decision
  BY <1>3, <1>4, ExecutionFields DEF Execution
<1>6. req[r].package = PackageOf(r) /\ req[r].gateway = GatewayOf(r)
  BY <1>2 DEF RunInvariant, RunAgrees, SubmittedAsDefined
<1>7. req[r].key # None <=> r # "VULNERABLE" /\ build = "signer_trust"
  <2>1. RequestAgrees(r)
    BY <1>1, OneRequest DEF RunInvariant
  <2> QED
    BY <1>1, <1>2, <1>6, <2>1 DEF RequestAgrees, LoadsKey, GatewayOf
<1> HIDE DEF c, x
<1>8. Decided(i) <=> x.observed_decision # "ERROR"
  BY <1>5 DEF Decided, c
<1>9. ASSUME Decided(i)
      PROVE  /\ x.response.decision \in {"ACCEPTED", "REJECTED"}
             /\ x.response.decision = Policy(r).decision
             /\ x.response.reason_code = Policy(r).reason_code
             /\ x.response.http_status = http_status_for(Policy(r))
  BY <1>1, <1>5, <1>9 DEF CaptureAgrees, c
<1>10. ASSUME \A j \in 1 .. 3 : Decided(j)
       PROVE  x.device_state_after = StateIf(x.response.decision = "ACCEPTED", r)
  BY <1>1, <1>5, <1>10 DEF CaptureAgrees, c
<1> QED
  BY <1>5, <1>6, <1>7, <1>8, <1>9, <1>10 DEF x

\* When every scenario was decided, each execution is coherent and has the verdict of its
\* decision.
LEMMA VerdictOfScenario ==
  ASSUME RunInvariant, Published, \A j \in 1 .. 3 : Decided(j),
         NEW i \in 1 .. 3
  PROVE  LET x == Execution(i)
             r == Definitions[i]
         IN  /\ is_initial(x) /\ response_is_coherent(x)
             /\ x.observed_decision = "ACCEPTED" =>
                  is_applied(x, PackageOf(r).manifest.firmware_version)
             /\ x.observed_decision = "REJECTED" => is_unchanged(x)
             /\ calculate_individual_verdict(x) =
                  IF (x.observed_decision = "ACCEPTED") = (r = "POSITIVE_CONTROL")
                  THEN "PASS" ELSE "FAIL"
<1> DEFINE x == Execution(i)
           r == Definitions[i]
           version == PackageOf(r).manifest.firmware_version
<1>1. /\ x.device_state_before = InitialState
      /\ x.package.sha256 = PackageOf(r).manifest.payload_sha256
      /\ x.package.envelope_sha256 = x.request.body_sha256
      /\ x.observed_decision = x.response.decision
      /\ x.observed_decision \in {"ACCEPTED", "REJECTED"}
      /\ x.device_state_after = StateIf(x.response.decision = "ACCEPTED", r)
  BY ExecutionOfScenario
<1>2. x.response.http_status = IF x.response.decision = "ACCEPTED" THEN 200 ELSE 403
  <2>1. req[r].package \in {UntrustedPackage, TrustedPackage} /\ r \in Requests
    BY ExecutionOfScenario, RolesDiffer DEF PackageOf
  <2>2. /\ Policy(r).decision = x.response.decision
        /\ x.response.http_status = http_status_for(Policy(r))
    BY ExecutionOfScenario
  <2>3. IF Policy(r).decision = "ACCEPTED"
        THEN Policy(r).reason_code \in {"CHECKSUM_ONLY_ACCEPTED", "TRUSTED_SIGNATURE_ACCEPTED"}
        ELSE Policy(r).decision = "REJECTED" /\ Policy(r).reason_code = "UNTRUSTED_SIGNER"
    BY <1>1, <2>1, <2>2, PolicyOfLab
  <2> QED
    BY <2>2, <2>3, StatusOfRun
<1>3. r \in {"VULNERABLE", "PATCHED", "POSITIVE_CONTROL"} /\ x.role = r
      /\ version = IF r = "POSITIVE_CONTROL" THEN TRUSTED_VERSION ELSE UNTRUSTED_VERSION
  <2>1. UntrustedPackage # TrustedPackage
    <3>1. /\ UntrustedPackage.signer_public_key = UntrustedKey
          /\ TrustedPackage.signer_public_key = TrustedKey
      BY DEF UntrustedPackage, TrustedPackage, CreatePackage
    <3> QED
      BY <3>1, KeysAssumption
  <2>2. x.role = r
    BY FinishedRun
  <2>3. r \in {"VULNERABLE", "PATCHED", "POSITIVE_CONTROL"}
    BY DEF Definitions
  <2>4. /\ TrustedPackage.manifest.firmware_version = TRUSTED_VERSION
        /\ UntrustedPackage.manifest.firmware_version = UNTRUSTED_VERSION
    BY <2>1, LabPackages
  <2> HIDE DEF x, r
  <2> QED
    BY <2>2, <2>3, <2>4 DEF PackageOf
<1> HIDE DEF x, r
<1>4. is_initial(x)
  BY <1>1 DEF is_initial, InitialState
<1>5. ASSUME x.observed_decision = "ACCEPTED"
      PROVE  is_applied(x, version) /\ response_is_coherent(x)
  <2>1. x.device_state_after = UpdatedState(PackageOf(r))
    BY <1>1, <1>5 DEF StateIf
  <2>2. /\ x.device_state_after.firmware_version = version
        /\ x.device_state_after.update_counter = 1
        /\ x.device_state_after.last_payload_sha256 = x.package.sha256
    BY <1>1, <2>1 DEF UpdatedState
  <2>3. x.device_state_before.update_counter + 1 = 1
    BY <1>4 DEF is_initial
  <2> QED
    BY <1>1, <1>2, <1>4, <1>5, <2>2, <2>3 DEF is_applied, response_is_coherent
<1>6. ASSUME x.observed_decision = "REJECTED"
      PROVE  is_unchanged(x) /\ response_is_coherent(x)
  <2>1. is_unchanged(x)
    BY <1>1, <1>6 DEF StateIf, is_unchanged
  <2> QED
    BY <1>1, <1>2, <1>6, <2>1 DEF response_is_coherent
<1> HIDE DEF version
<1>7. CASE x.observed_decision = "ACCEPTED"
  <2>1. response_is_coherent(x) /\ Accepted(x, version) /\ ~Rejected(x)
    BY <1>5, <1>7 DEF Accepted, Rejected
  <2>2. calculate_individual_verdict(x) = IF r = "POSITIVE_CONTROL" THEN "PASS" ELSE "FAIL"
    BY <1>3, <1>4, <1>7, <2>1 DEF calculate_individual_verdict
  <2> QED
    BY <1>4, <1>5, <1>7, <2>2 DEF x, r, version
<1>8. CASE x.observed_decision = "REJECTED"
  <2>1. response_is_coherent(x) /\ Rejected(x) /\ \A v : ~Accepted(x, v)
    BY <1>6, <1>8 DEF Accepted, Rejected
  <2>2. calculate_individual_verdict(x) = IF r = "POSITIVE_CONTROL" THEN "FAIL" ELSE "PASS"
    BY <1>3, <1>4, <1>8, <2>1 DEF calculate_individual_verdict
  <2>3. ~(x.observed_decision = "ACCEPTED")
    BY <1>8
  <2> QED
    BY <1>4, <1>6, <1>8, <2>2, <2>3 DEF x, r
<1> QED
  BY <1>1, <1>7, <1>8 DEF x, r

\* The old build gets its conclusion: with every scenario decided the baseline is reproduced.
LEMMA BaselineOfRun ==
  ASSUME RunInvariant, Published, \A j \in 1 .. 3 : Decided(j)
  PROVE  baseline_reproduced(Execution(1)) /\ SameInput(Execution(1), Execution(2))
<1>1. Definitions[1] = "VULNERABLE" /\ Definitions[2] = "PATCHED" /\ Definitions[1] \in Requests
  BY RolesDiffer DEF Definitions
<1>2. PackageOf("VULNERABLE") = UntrustedPackage /\ PackageOf("PATCHED") = UntrustedPackage
  BY DEF PackageOf
<1>3. SameInput(Execution(1), Execution(2))
  BY <1>1, <1>2, ExecutionOfScenario DEF SameInput
<1>4. /\ req["VULNERABLE"].key = None /\ req["VULNERABLE"].package = UntrustedPackage
      /\ Execution(1).observed_decision = Policy("VULNERABLE").decision
      /\ Execution(1).response.reason_code = Policy("VULNERABLE").reason_code
      /\ Execution(1).response.http_status = http_status_for(Policy("VULNERABLE"))
  BY <1>1, <1>2, ExecutionOfScenario
<1>5. /\ Execution(1).observed_decision = "ACCEPTED"
      /\ Execution(1).response.reason_code = "CHECKSUM_ONLY_ACCEPTED"
      /\ Execution(1).response.http_status = 200
  BY <1>1, <1>4, PolicyOfLab, StatusOfRun
<1>6. UntrustedPackage.manifest.firmware_version = UNTRUSTED_VERSION
  BY DEF UntrustedPackage, CreatePackage, Manifest
<1>7. /\ is_applied(Execution(1), UNTRUSTED_VERSION)
      /\ calculate_individual_verdict(Execution(1)) = "FAIL"
  BY <1>1, <1>2, <1>5, <1>6, VerdictOfScenario
<1> QED
  BY <1>3, <1>5, <1>7 DEF baseline_reproduced

\* calculate_verification_outcome on a finished run.
LEMMA OutcomeOfRun ==
  ASSUME RunInvariant, Published
  PROVE  LET outcome == calculate_verification_outcome(Executions(captures))
         IN  /\ outcome # "INCONCLUSIVE" <=> \A j \in 1 .. 3 : Decided(j)
             /\ outcome # "INCONCLUSIVE" =>
                  (outcome = "PATCH_VERIFIED" <=>
                     patched_rejected(Execution(2)) /\ positive_control_passed(Execution(3)))
<1> DEFINE e == Executions(captures)
           outcome == calculate_verification_outcome(e)
<1>1. /\ DOMAIN e = 1 .. 3 /\ Len(e) = 3
      /\ \A i \in 1 .. 3 : e[i] = Execution(i) /\ e[i].role = Definitions[i]
  BY FinishedRun
<1>2. /\ Definitions[1] = "VULNERABLE" /\ Definitions[2] = "PATCHED"
      /\ Definitions[3] = "POSITIVE_CONTROL"
  BY DEF Definitions
<1>3. ByRole(e, "VULNERABLE") = Execution(1) /\ ByRole(e, "PATCHED") = Execution(2)
      /\ ByRole(e, "POSITIVE_CONTROL") = Execution(3)
  <2> HIDE DEF e
  <2>1. \A i \in 1 .. 3 : ByRole(e, Definitions[i]) = e[i]
    BY <1>1, RoleIsFound
  <2> QED
    BY <1>1, <1>2, <2>1
<1>4. OneExecutionPerRole(e)
  <2> HIDE DEF e
  <2>1. ASSUME NEW r \in ExecutionRole
        PROVE  Cardinality({i \in DOMAIN e : e[i].role = r}) = 1
    <3>1. PICK j \in 1 .. 3 : r = Definitions[j]
      BY <1>2 DEF ExecutionRole
    <3>2. {i \in DOMAIN e : e[i].role = r} = {j}
      BY <1>1, <3>1, RoleIsFound
    <3> QED
      BY <3>2, FS_Singleton
  <2> QED
    BY <1>1, <2>1 DEF OneExecutionPerRole
<1> HIDE DEF e
<1>5. ASSUME outcome # "INCONCLUSIVE" PROVE \A j \in 1 .. 3 : Decided(j)
  <2>1. \A j \in 1 .. 3 : e[j].observed_decision # "ERROR"
    BY <1>1, <1>5 DEF calculate_verification_outcome
  <2> QED
    BY <1>1, <2>1, ExecutionOfScenario
<1>6. ASSUME \A j \in 1 .. 3 : Decided(j) PROVE outcome # "INCONCLUSIVE"
  <2>1. baseline_reproduced(Execution(1)) /\ SameInput(Execution(1), Execution(2))
    BY <1>6, BaselineOfRun
  <2>2. \A j \in 1 .. 3 : /\ Execution(j).observed_decision # "ERROR"
                          /\ calculate_individual_verdict(Execution(j)) # "INCONCLUSIVE"
                          /\ response_is_coherent(Execution(j))
    BY <1>6, ExecutionOfScenario, VerdictOfScenario
  <2> QED
    BY <1>1, <1>3, <1>4, <2>1, <2>2 DEF calculate_verification_outcome
<1>7. ASSUME outcome # "INCONCLUSIVE"
      PROVE  outcome = "PATCH_VERIFIED" <=>
               patched_rejected(Execution(2)) /\ positive_control_passed(Execution(3))
  BY <1>3, <1>7 DEF calculate_verification_outcome
<1> HIDE DEF outcome
<1>8. outcome # "INCONCLUSIVE" <=> \A j \in 1 .. 3 : Decided(j)
  BY <1>5, <1>6
<1> QED
  BY <1>7, <1>8 DEF outcome, e

\* What a published bundle is.
LEMMA PublishedRun ==
  ASSUME RunInvariant, Published
  PROVE  /\ verify_bundle(published)
         /\ Outcome = calculate_verification_outcome(Executions(captures))
         /\ published["packages/trusted-update.json"] = TrustedPackage
<1>1. verify_bundle(published)
  BY DEF RunInvariant, RunAgrees, PublicationAgrees
<1>2. PICK key : published = StagedBundle(captures, key)
  BY DEF RunInvariant, RunAgrees, PublicationAgrees
<1>3. /\ Outcome = calculate_verification_outcome(Executions(captures))
      /\ published["packages/trusted-update.json"] = ByRole(captures, "POSITIVE_CONTROL").package
  BY <1>2, StagedFiles DEF Outcome
<1>4. /\ DOMAIN captures = 1 .. 3 /\ \A i \in 1 .. 3 : captures[i].role = Definitions[i]
      /\ Definitions[3] = "POSITIVE_CONTROL" /\ CaptureAgrees(3)
  BY FinishedRun DEF Definitions
<1>5. ByRole(captures, "POSITIVE_CONTROL") = captures[3]
  <2>1. \A i \in 1 .. 3 : ByRole(captures, Definitions[i]) = captures[i]
    BY <1>4, RoleIsFound
  <2> QED
    BY <1>4, <2>1
<1>6. captures[3].package = TrustedPackage
  <2>1. captures[3] = ScenarioCapture("POSITIVE_CONTROL", captures[3].response,
                        captures[3].gateway_response, InitialState,
                        captures[3].device_state_after)
    BY <1>4 DEF CaptureAgrees
  <2> QED
    BY <2>1 DEF ScenarioCapture, PackageOf
<1> QED
  BY <1>1, <1>3, <1>5, <1>6

\* The patched slot decides by the build that is in it and by the key it loaded.
LEMMA PatchedSlotDecides ==
  ASSUME RunInvariant, Published, NEW i \in {2, 3}, Decided(i)
  PROVE  LET x      == Execution(i)
             key    == req[Definitions[i]].key
             signer == IF i = 3 THEN TrustedKey ELSE UntrustedKey
         IN  /\ build = "checksum_only" => x.observed_decision = "ACCEPTED"
             /\ build = "signer_trust" =>
                  /\ key \notin {None, NoKey}
                  /\ IF key = signer
                     THEN /\ x.observed_decision = "ACCEPTED" /\ x.response.http_status = 200
                          /\ x.response.reason_code = "TRUSTED_SIGNATURE_ACCEPTED"
                     ELSE /\ x.observed_decision = "REJECTED" /\ x.response.http_status = 403
                          /\ x.response.reason_code = "UNTRUSTED_SIGNER"
<1> DEFINE r == Definitions[i]
           key == req[r].key
<1>1. /\ r \in Requests /\ r = IF i = 3 THEN "POSITIVE_CONTROL" ELSE "PATCHED"
      /\ PackageOf(r) = IF i = 3 THEN TrustedPackage ELSE UntrustedPackage
  BY RolesDiffer DEF Definitions, PackageOf
<1>2. /\ req[r].package = PackageOf(r) /\ (key # None <=> build = "signer_trust")
      /\ Execution(i).observed_decision = Policy(r).decision
      /\ Execution(i).observed_decision \in {"ACCEPTED", "REJECTED"}
      /\ Execution(i).response.reason_code = Policy(r).reason_code
      /\ Execution(i).response.http_status = http_status_for(Policy(r))
  BY <1>1, ExecutionOfScenario
<1>3. PackageOf(r).signer_public_key = IF i = 3 THEN TrustedKey ELSE UntrustedKey
  BY <1>1 DEF TrustedPackage, UntrustedPackage, CreatePackage
<1>4. req[r].package \in {UntrustedPackage, TrustedPackage}
  BY <1>1, <1>2
<1> HIDE DEF r
<1> QED
  BY <1>1, <1>2, <1>3, <1>4, PolicyOfLab, StatusOfRun DEF r

\* _execute_scenario and calculate_verification_outcome under every fault of the lab: a
\* conclusion is drawn only from a device history that is the recorded decisions', with no
\* apply late, lost, repeated, or executed in another scenario than its own.
THEOREM ConclusiveIsObservedAlways == Spec => []ConclusiveIsObserved
<1>1. RunInvariant => ConclusiveIsObserved
  <2> SUFFICES ASSUME RunInvariant, Conclusive PROVE log = ClaimedLog
    BY DEF ConclusiveIsObserved
  <2>1. Published /\ Outcome # "INCONCLUSIVE"
    BY DEF Conclusive
  <2>2. \A j \in 1 .. 3 : Decided(j)
    BY <2>1, PublishedRun, OutcomeOfRun
  <2>3. opc \in {"check", "done"} /\ Undisturbed /\ scenario = 4 /\ scenario - 1 = 3
    BY <2>1, FinishedRun
  <2>4. log = PastLog
    BY <2>2, <2>3 DEF RunInvariant, RunAgrees, HistoryAgrees
  <2>5. PastLog = Claim(1) \o Claim(2) \o Claim(3)
    BY <2>3 DEF PastLog
  <2> QED
    BY <2>4, <2>5 DEF ClaimedLog, Claim, Reset, AppliedIf
<1> QED
  BY <1>1, RunAlways, PTL

\* calculate_verification_outcome is right about the build in the patched slot, whatever
\* failed on the way, as long as that gateway loaded the trusted key; and a run whose
\* scenarios were all decided is conclusive.
THEOREM OutcomeMatchesBuildAlways == Spec => []OutcomeMatchesBuild
<1>1. RunInvariant => OutcomeMatchesBuild
  <2> SUFFICES ASSUME RunInvariant, Published, RightKeyLoaded
               PROVE  /\ Outcome = "PATCH_VERIFIED" => build = "signer_trust"
                      /\ Outcome = "PATCH_NOT_VERIFIED" => build = "checksum_only"
                      /\ Outcome = "INCONCLUSIVE" =>
                           \E i \in DOMAIN captures : captures[i].response.decision = "ERROR"
    BY DEF OutcomeMatchesBuild
  <2>1. /\ Outcome = calculate_verification_outcome(Executions(captures))
        /\ DOMAIN captures = 1 .. 3
    BY PublishedRun, FinishedRun
  <2>2. build \in {"signer_trust", "checksum_only"}
    BY GatewayConstants DEF RunInvariant, LabInvariant, GatewayTypeOK
  <2>3. ASSUME Outcome = "PATCH_VERIFIED" PROVE build = "signer_trust"
    <3>1. Decided(2) /\ patched_rejected(Execution(2))
      BY <2>1, <2>3, OutcomeOfRun
    <3>2. Execution(2).observed_decision = "REJECTED"
      BY <3>1 DEF patched_rejected
    <3> QED
      BY <2>1, <2>2, <3>1, <3>2, PatchedSlotDecides
  <2>4. ASSUME Outcome = "PATCH_NOT_VERIFIED", build = "signer_trust" PROVE FALSE
    <3>1. \A j \in 1 .. 3 : Decided(j)
      BY <2>1, <2>4, OutcomeOfRun
    <3>2. Definitions[2] = "PATCHED" /\ Definitions[3] = "POSITIVE_CONTROL"
      BY DEF Definitions
    <3>3. /\ Execution(2).observed_decision = "REJECTED" /\ Execution(2).response.http_status = 403
          /\ Execution(2).response.reason_code = "UNTRUSTED_SIGNER"
      BY <2>1, <2>4, <3>1, <3>2, PatchedSlotDecides, KeysAssumption DEF RightKeyLoaded
    <3>4. /\ Execution(3).observed_decision = "ACCEPTED" /\ Execution(3).response.http_status = 200
          /\ Execution(3).response.reason_code = "TRUSTED_SIGNATURE_ACCEPTED"
      BY <2>1, <2>4, <3>1, <3>2, PatchedSlotDecides DEF RightKeyLoaded
    <3>5. patched_rejected(Execution(2))
      BY <2>1, <3>1, <3>2, <3>3, VerdictOfScenario DEF patched_rejected
    <3>6. PackageOf(Definitions[3]).manifest.firmware_version = TRUSTED_VERSION
      BY <3>2 DEF PackageOf, TrustedPackage, CreatePackage, Manifest
    <3>7. positive_control_passed(Execution(3))
      BY <2>1, <3>1, <3>2, <3>4, <3>6, VerdictOfScenario DEF positive_control_passed
    <3> QED
      BY <2>1, <2>4, <3>5, <3>7, OutcomeOfRun
  <2>5. ASSUME Outcome = "INCONCLUSIVE"
        PROVE  \E i \in DOMAIN captures : captures[i].response.decision = "ERROR"
    BY <2>1, <2>5, OutcomeOfRun DEF Decided
  <2> QED
    BY <2>2, <2>3, <2>4, <2>5
<1> QED
  BY <1>1, RunAlways, PTL

\* Although the gateway and the orchestrator read the key file at different times: a
\* verified patch accepted the trusted package under the very key the bundle carries, and
\* refused the other under a key that is not its signer's.
THEOREM VerifiedUnderBundledKeyAlways == Spec => []VerifiedUnderBundledKey
<1>1. RunInvariant => VerifiedUnderBundledKey
  <2> SUFFICES ASSUME RunInvariant, Published, Outcome = "PATCH_VERIFIED",
                      build = "signer_trust"
               PROVE  /\ req["POSITIVE_CONTROL"].key = published[TrustPath]
                      /\ req["PATCHED"].key \notin {None, NoKey, UntrustedKey}
    BY DEF VerifiedUnderBundledKey
  <2>1. /\ verify_bundle(published)
        /\ Outcome = calculate_verification_outcome(Executions(captures))
        /\ published["packages/trusted-update.json"] = TrustedPackage
    BY PublishedRun
  <2>2. /\ Decided(2) /\ Decided(3)
        /\ patched_rejected(Execution(2)) /\ positive_control_passed(Execution(3))
    BY <2>1, OutcomeOfRun
  <2>3. Execution(2).observed_decision = "REJECTED" /\ Execution(3).observed_decision = "ACCEPTED"
    BY <2>2 DEF patched_rejected, positive_control_passed
  <2>4. Definitions[2] = "PATCHED" /\ Definitions[3] = "POSITIVE_CONTROL"
    BY DEF Definitions
  <2>5. req["POSITIVE_CONTROL"].key = TrustedKey
    BY <2>1, <2>2, <2>3, <2>4, PatchedSlotDecides
  <2>6. req["PATCHED"].key \notin {None, NoKey, UntrustedKey}
    BY <2>1, <2>2, <2>3, <2>4, PatchedSlotDecides
  <2>7. published[TrustPath] = TrustedPackage.signer_public_key
    BY <2>1 DEF verify_bundle, evidence_ok, trust_ok
  <2>8. TrustedPackage.signer_public_key = TrustedKey
    BY DEF TrustedPackage, CreatePackage
  <2> QED
    BY <2>5, <2>6, <2>7, <2>8
<1> QED
  BY <1>1, RunAlways, PTL
===============================================================================
