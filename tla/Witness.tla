-------------------------------- MODULE Witness -------------------------------
(* The optional physical-output witness: one call of scripts/roomba_witness.py, *)
(* the policy of physical_witness/policy.py and the Locate transport of         *)
(* physical_witness/roomba.py.  The robot is the sequence of Locate signals     *)
(* sent to it: with QoS 0 it may get one later or never.  Time is counted in    *)
(* units of which COOLDOWN_SECONDS is a multiple.  The bundle's directory may   *)
(* be replaced while the command reads it.                                      *)
EXTENDS Bundle

CONSTANTS
  Bundles,           \* the bundles that may be found at the given path
  COOLDOWN_SECONDS,
  MaxTime            \* bound on the clock

ASSUME CooldownAssumption == COOLDOWN_SECONDS \in Nat /\ MaxTime \in Nat /\ None \notin Nat

ASSUME BundlesAssumption == \A b \in Bundles : FromRuns(b)

VARIABLES
  files,           \* the bundle at the path
  mode,            \* "dry-run", "live", or "unconfirmed" for --live without the phrase
  wpc,             \* where main() is
  evidence,        \* the document that was planned from, or None
  plan,            \* the plan's scenarios still to be executed, or None
  sent,
  last_signal_at,
  now,             \* monotonic()
  signals,         \* what was published to the robot: [role, at]
  exit             \* the exit code, or None

vars == <<files, mode, wpc, evidence, plan, sent, last_signal_at, now, signals, exit>>

-------------------------------------------------------------------------------
(* The policy. *)

Signal(role) == [role |-> role, action |-> "SIGNAL"]
NoCommand(role) == [role |-> role, action |-> "NO_COMMAND"]

WitnessPlan == <<Signal("VULNERABLE"), NoCommand("PATCHED"), Signal("POSITIVE_CONTROL")>>

\* Slip: the stored outcome and decisions are believed.
PlanFromStoredLabels(document) ==
  LET x(role) == ByRole(document.executions, role)
  IN  /\ document.verification_outcome = "PATCH_VERIFIED"
      /\ x("VULNERABLE").observed_decision = "ACCEPTED"
      /\ x("PATCHED").observed_decision = "REJECTED"
      /\ x("POSITIVE_CONTROL").observed_decision = "ACCEPTED"

\* plan_physical_witness(...).eligible
eligible(document) ==
  LET x(role) == ByRole(document.executions, role)
  IN  /\ document.verification_outcome = "PATCH_VERIFIED"
      /\ calculate_verification_outcome(document.executions) = "PATCH_VERIFIED"
      /\ x("VULNERABLE").package.envelope_sha256 = x("PATCHED").package.envelope_sha256
      /\ x("VULNERABLE").request.body_sha256 = x("PATCHED").request.body_sha256
      /\ x("VULNERABLE").observed_decision = "ACCEPTED"
      /\ x("VULNERABLE").security_verdict = "FAIL"
      /\ x("PATCHED").observed_decision = "REJECTED"
      /\ x("PATCHED").security_verdict = "PASS"
      /\ x("POSITIVE_CONTROL").observed_decision = "ACCEPTED"
      /\ x("POSITIVE_CONTROL").security_verdict = "PASS"

plan_physical_witness(document) ==
  IF eligible(document) THEN WitnessPlan
                        ELSE [i \in 1 .. 3 |-> NoCommand(WitnessPlan[i].role)]

signal_count(p) == Cardinality({i \in DOMAIN p : p[i].action = "SIGNAL"})

-------------------------------------------------------------------------------
(* main. *)

Init ==
  /\ files \in Bundles
  /\ mode \in {"dry-run", "live", "unconfirmed"}
  /\ wpc = "verify"
  /\ evidence = None
  /\ plan = None
  /\ sent = 0
  /\ last_signal_at = None
  /\ now = 0
  /\ signals = <<>>
  /\ exit = None

Exit(code) == wpc' = "done" /\ exit' = code

\* _load_verified_plan verifies the directory ...
VerifyBundle ==
  /\ wpc = "verify"
  /\ IF verify_bundle(files) THEN wpc' = "plan" /\ UNCHANGED exit ELSE Exit(1)
  /\ UNCHANGED <<files, mode, evidence, plan, sent, last_signal_at, now, signals>>

\* ... and then opens evidence.json again.
ReadEvidence ==
  /\ wpc = "plan"
  /\ IF Readable(files, "evidence.json")
     THEN /\ evidence' = files["evidence.json"]
          /\ plan' = plan_physical_witness(evidence')
          /\ wpc' = "mode"
          /\ UNCHANGED exit
     ELSE Exit(1) /\ UNCHANGED <<evidence, plan>>
  /\ UNCHANGED <<files, mode, sent, last_signal_at, now, signals>>

\* Without a signal in it, a plan was not eligible.
ChooseMode ==
  /\ wpc = "mode"
  /\ CASE mode = "dry-run"     -> Exit(IF signal_count(plan) = 0 THEN 2 ELSE 0)
       [] mode = "unconfirmed" -> Exit(1)
       [] mode = "live"        -> IF signal_count(plan) = 0 THEN Exit(2)
                                  ELSE wpc' = "config" /\ UNCHANGED exit
  /\ UNCHANGED <<files, mode, evidence, plan, sent, last_signal_at, now, signals>>

load_local_witness_config ==
  /\ wpc = "config"
  /\ wpc' = "loop"
  /\ UNCHANGED <<files, mode, evidence, plan, sent, last_signal_at, now, signals, exit>>

\* The credentials or the address are missing, unreadable or not acceptable.
ConfigurationFails ==
  /\ wpc = "config"
  /\ Exit(1)
  /\ UNCHANGED <<files, mode, evidence, plan, sent, last_signal_at, now, signals>>

-------------------------------------------------------------------------------
(* _execute_live_plan. *)

SkipScenario ==
  /\ wpc = "loop"
  /\ plan # <<>>
  /\ Head(plan).action = "NO_COMMAND"
  /\ plan' = Tail(plan)
  /\ UNCHANGED <<files, mode, wpc, evidence, sent, last_signal_at, now, signals, exit>>

\* Slip: the pause is taken from the start of the command.
CooldownFromStart ==
  /\ wpc = "loop"
  /\ plan # <<>>
  /\ Head(plan).action = "SIGNAL"
  /\ sent < 2
  /\ last_signal_at # None => now >= COOLDOWN_SECONDS
  /\ wpc' = "locate"
  /\ UNCHANGED <<files, mode, evidence, plan, sent, last_signal_at, now, signals, exit>>

\* The sleep ends when the cooldown is over, or later.
Cooldown ==
  /\ wpc = "loop"
  /\ plan # <<>>
  /\ Head(plan).action = "SIGNAL"
  /\ sent < 2
  /\ last_signal_at # None => now - last_signal_at >= COOLDOWN_SECONDS
  /\ wpc' = "locate"
  /\ UNCHANGED <<files, mode, evidence, plan, sent, last_signal_at, now, signals, exit>>

\* execute_locate connects and publishes, once and with QoS 0: nobody learns whether the
\* robot got it, and the robot may act on it before the call returns.
execute_locate ==
  /\ wpc = "locate"
  /\ signals' = Append(signals, [role |-> Head(plan).role, at |-> now])
  /\ wpc' = "published"
  /\ UNCHANGED <<files, mode, evidence, plan, sent, last_signal_at, now, exit>>

LocateReturns ==
  /\ wpc = "published"
  /\ sent' = sent + 1
  /\ last_signal_at' = now
  /\ plan' = Tail(plan)
  /\ wpc' = "loop"
  /\ UNCHANGED <<files, mode, evidence, now, signals, exit>>

\* Slip: an error is taken for a signal that was not sent, and the scenario is
\* tried again.
LocateRetries ==
  /\ wpc \in {"locate", "published"}
  /\ wpc' = "loop"
  /\ UNCHANGED <<files, mode, evidence, plan, sent, last_signal_at, now, signals, exit>>

\* No connection, a refusal, a timeout, or an error after the signal has gone out.
LocateFails ==
  /\ wpc \in {"locate", "published"}
  /\ Exit(1)
  /\ UNCHANGED <<files, mode, evidence, plan, sent, last_signal_at, now, signals>>

LivePass ==
  /\ wpc = "loop"
  /\ plan = <<>>
  /\ Exit(0)
  /\ UNCHANGED <<files, mode, evidence, plan, sent, last_signal_at, now, signals>>

execute_live_plan ==
  \/ SkipScenario \/ Cooldown \/ execute_locate \/ LocateReturns \/ LocateFails \/ LivePass

\* Another process publishes to the path, or somebody changes the files.
BundleReplaced ==
  /\ wpc \in {"verify", "plan"}
  /\ files' \in Bundles
  /\ UNCHANGED <<mode, wpc, evidence, plan, sent, last_signal_at, now, signals, exit>>

Tick ==
  /\ wpc \in {"loop", "locate", "published"}
  /\ now < MaxTime
  /\ now' = now + 1
  /\ UNCHANGED <<files, mode, wpc, evidence, plan, sent, last_signal_at, signals, exit>>

Next ==
  \/ VerifyBundle \/ ReadEvidence \/ ChooseMode
  \/ load_local_witness_config \/ ConfigurationFails
  \/ execute_live_plan \/ BundleReplaced \/ Tick

Spec == Init /\ [][Next]_vars

-------------------------------------------------------------------------------
(* Properties. *)

\* Every variable has its type, and the counter counts the signals whose sending
\* has returned.
TypeOK ==
  /\ files \in Bundles
  /\ mode \in {"dry-run", "live", "unconfirmed"}
  /\ wpc \in {"verify", "plan", "mode", "config", "loop", "locate", "published", "done"}
  /\ plan # None => Len(plan) <= 3
  /\ sent \in 0 .. 2
  /\ last_signal_at \in 0 .. MaxTime \cup {None}
  /\ now \in 0 .. MaxTime
  /\ exit \in {None, 0, 1, 2}
  /\ sent <= Len(signals) /\ Len(signals) <= sent + 1

SignalledRoles == [i \in DOMAIN signals |-> signals[i].role]

\* docs/PHYSICAL_WITNESS.md:21, of the signals sent, through every delay and failure of the
\* transport: each at most once and in order, never one for the patched scenario, at
\* least the cooldown between two, and success is reported only if both were sent.
SignalsAreBounded ==
  /\ SignalledRoles \in {<<>>, <<"VULNERABLE">>, <<"VULNERABLE", "POSITIVE_CONTROL">>}
  /\ Len(signals) = 2 => signals[2].at - signals[1].at >= COOLDOWN_SECONDS
  /\ signals # <<>> => mode = "live"
  /\ exit = 0 /\ mode = "live" => Len(signals) = 2

\* A signal is only sent on evidence in which the device was updated in both
\* signalled scenarios and left alone in the patched one, even if the directory was
\* replaced by a damaged or edited one after its verification (plan_physical_witness
\* recomputes the outcome).
SignalsAreWarranted ==
  signals # <<>> =>
    /\ is_applied(ByRole(evidence.executions, "VULNERABLE"), UNTRUSTED_VERSION)
    /\ is_unchanged(ByRole(evidence.executions, "PATCHED"))
    /\ is_applied(ByRole(evidence.executions, "POSITIVE_CONTROL"), TRUSTED_VERSION)

\* Of all the directories that may be found at the path, also those put together from
\* the files of different runs and given fresh digests, verify_bundle accepts only
\* ones whose raw records, packages and key support the outcome (_raw_record_failures,
\* _package_record_failures and the recomputed verdicts together).
AcceptedIsSupported == verify_bundle(files) => Supported(files)

OneSent ==
  /\ signals = <<[role |-> "VULNERABLE", at |-> signals[1].at]>>
  /\ signals[1].at \in 0 .. now

BothSent ==
  /\ signals = <<[role |-> "VULNERABLE", at |-> signals[1].at],
                 [role |-> "POSITIVE_CONTROL", at |-> signals[2].at]>>
  /\ signals[1].at \in 0 .. now /\ signals[2].at \in 0 .. now
  /\ signals[2].at - signals[1].at >= COOLDOWN_SECONDS

\* How far _execute_live_plan has come, against the signals sent.
Unsignalled == plan = WitnessPlan /\ sent = 0 /\ last_signal_at = None
Signalled ==
  /\ plan = Tail(WitnessPlan) \/ plan = Tail(Tail(WitnessPlan))
  /\ sent = 1 /\ last_signal_at \in signals[1].at .. now
  /\ wpc # "loop" => plan = Tail(Tail(WitnessPlan))
Finished == plan = <<>> /\ sent = 2 /\ last_signal_at \in 0 .. now

LoopAgrees ==
  /\ wpc \in {"loop", "locate"} =>
       \/ Unsignalled /\ signals = <<>>
       \/ Signalled /\ OneSent /\ (wpc = "locate" => now - last_signal_at >= COOLDOWN_SECONDS)
       \/ Finished /\ BothSent /\ wpc = "loop"
  /\ wpc = "published" => \/ Unsignalled /\ OneSent
                          \/ Signalled /\ BothSent

\* What makes the invariants inductive: the plan is the one for the evidence, and it
\* and the signals sent advance together.
PlanAgrees ==
  /\ wpc \in {"verify", "plan"} => plan = None
  /\ wpc = "mode" => plan = plan_physical_witness(evidence)
  /\ wpc = "config" => plan = WitnessPlan
  /\ wpc \in {"verify", "plan", "mode", "config"} =>
       signals = <<>> /\ sent = 0 /\ last_signal_at = None
  /\ wpc \in {"config", "loop", "locate", "published"} => mode = "live" /\ eligible(evidence)
  /\ LoopAgrees
  /\ signals = <<>> \/ OneSent \/ BothSent
  /\ signals # <<>> => mode = "live" /\ eligible(evidence)
  /\ wpc # "done" => exit = None
  /\ exit = 0 /\ mode = "live" => BothSent
===============================================================================
