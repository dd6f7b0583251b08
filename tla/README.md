# A verification of FixRepro in TLA+

FixRepro runs one fixed laboratory: a virtual device, an update gateway that only
checks a payload's checksum and one that requires a trusted signer.  An orchestrator
drives three scenarios through it, records what it sees, computes a verdict with
deterministic functions, and publishes an evidence bundle.  A local dashboard starts
such runs, presents bundles, and an optional command turns a bundle into two signals
of a robot.  The program is small, but almost every part of it talks to another
process, and what it promises (a verdict that can be believed) is a promise about
orders of events.

This directory holds TLA+ modules for those parts, TLC configurations, and proofs
checked by TLAPS.  `PROJECT.json` maps each definition to the lines it models and
lists runs, hazards, findings and theorems.

## The system: inventory

| component | state | operations | talks to | module |
|---|---|---|---|---|
| OTA package and policies (`fixrepro_core`) | none | create, parse, sign and verify a package; two policies; HTTP status of a result | called by gateways and by artifact generation | `OtaPackage` |
| virtual device (`device/`) | version, counter, last payload digest, under a lock | reset, apply, read | HTTP from gateways and orchestrator | `Gateway` |
| gateways (`targets/`, `fixrepro_core/gateway.py`) | none across requests; a trusted key file read per request | `process_gateway_update` with two awaits | HTTP to the device, 3 s timeouts | `Gateway` |
| verdict functions (`verifier/verdicts.py`) | none | individual verdict, overall outcome | called by orchestrator, bundle verifier, witness | `Verdicts` |
| evidence bundle (`verifier/bundle.py`, `evidence.py`) | a directory | write raw records, evidence, report, manifest and its digest; `verify_bundle` | read by dashboard and witness | `Bundle` |
| orchestrator (`verifier/orchestrator.py`) | captures, exception under way | `run`, `_execute_scenario` | all services, bundle | `VerificationRun` |
| service lifecycle (`verifier/processes.py`) | child processes, three fixed ports | probe, spawn, wait for health, check, terminate, kill | operating system | `Services` |
| publication and presentation (`publish_directory`, `app/presentation.py`) | destination, staging and backup directories | rename, rename back, remove; verify and read files | shared file system | `Publish` |
| dashboard job manager (`app/jobs.py`, `app/main.py`) | dict of jobs, active id, worker thread, shutdown flag, bundle registry | start, poll, run, finish, trim, shut down | event loop and worker threads; runs the orchestrator | `JobManager`, promise in `VerificationSlot` |
| dashboard page (`app/static/app.js`) | what is shown, two flags, two buttons, job id | load demo, run and poll | HTTP to the dashboard | `Browser` |
| physical-output witness (`physical_witness/`, `scripts/roomba_witness.py`) | plan, counters, time of last signal | plan, confirm, cool down, signal | bundle directory, robot over MQTT | `Witness` |
| phase 2 demo (`scripts/run_phase2_demo.py`) | its three child processes, the failure recorded | start, repeat the three scenarios, stop, exit code | gateways and device over HTTP | `Phase2Demo` |
| HTTP hardening, response models | none | headers, origin check, shapes | | not modelled |
| command line tools | none | argument parsing around the operations above | | not modelled |
| validators, smoke test, screenshots | none | checks of the repository itself | | not modelled, but for the kill of a dashboard (`Services`) |

### What is hard about it

* **Interleavings.**  Gateways are asyncio servers: two requests may both have read
  the device before either applies.  Job threads, HTTP handlers and shutdown share the
  job manager.  Two asynchronous functions write the same elements of the page.
  Orchestrators of different processes share three ports and one output directory,
  and lock neither.
* **Lost and late calls.**  A gateway's apply call times out although the device
  executes it, possibly during the next scenario; a reply is lost after execution.
* **State read twice.**  The key file (once per request and once for the bundle), the
  destination directory (twice in `publish_directory`, again after verification by
  the dashboard and by the witness), the device (before and after the policy).
* **Partial failure.**  The second of three services does not start; the second of
  two renames fails; the process is killed between them, or while its services run; the worker thread cannot be
  started; the bundle is registered and cannot be presented, or is in place and the call
  that put it there raises; the signal has gone out and the transport then fails.
* **Progress.**  Every run, request, job, shutdown and page interaction has to end
  although services, children and jobs may hang.

`hazards` in `PROJECT.json` gives each of these its line and the properties that
would notice it going wrong.

## Modules

```
OtaPackage --> Gateway --> Phase2Demo
    \             \-----------------------> VerificationRun
     \-------> Verdicts --> Bundle ------------^
                              \--> Witness
VerificationSlot ..> JobManager
Services     Publish     Browser
```

(`-->` is EXTENDS, `..>` the abstract specification that is implemented.)  The proofs
about a module `M` are in `MProofs`, which extends it; `VerificationRunProofs` and
`Phase2DemoProofs` also extend `GatewayProofs` and use its lemmas about the lab.

Definitions keep the names of the functions they model.  Definitions whose comment
begins with "Slip:" are plausible errors of the code; no specification uses them.
Replacing the correct definition by its slip makes one property fail, which shows that
the property depends on that line of code.  `PROJECT.json` lists the pairs as `mutants`.

**OtaPackage.**  Payloads, keys and manifests are values; a digest or a signature is
an injective function of what it covers.  `evaluate_vulnerable_policy` and
`evaluate_patched_policy` follow their Python branch by branch; everything a parser refuses is `Unparsable`.

**Gateway.**  `device`, the services that are `up`, the key file, the build in the
patched slot, one record per update request, and a history `log` of what the device
executed.  A request goes through `get_state`, `apply`, `answered`, cut at the two
awaits.  The apply call has a life of its own (`call`): `DeviceApply` may execute it
while the caller waits or after it gave up; `ApplyUnavailable` may give up on an
executed one, and the reply to one may be an error or not parse (`ApplyFailed`).
`DeviceApply` is one step because the device holds its lock for the whole of it.  `log`
is a history variable the code does not have.

**Verdicts** and **Bundle** are functions.  A bundle maps paths to contents; a JSON
file is the record it decodes to, or `Garbage`.  `verify_bundle` keeps every check
that the contents can fail: manifest digest, artifact set and digests, evidence and
raw records, recomputed verdicts.  `Supported` reads the outcome off the raw records,
packages and key without the verdict functions: a conclusion needs three scenarios that
each show their decision, the baseline among them, and is `PATCH_VERIFIED` exactly if
they show a patch.  Of `evidence.json` it takes only the HTTP status of the refusal, which
no raw record has.

**VerificationRun** extends Gateway and Bundle with `VerificationOrchestrator.run`,
one action for each exchange with a service: assert, reset, post, await, observe;
then stop; stage, verify and publish; and read back what was published (`opc` "check").
Exceptions go the way of the code's `try` and `finally`, and out of the code after it:
`PublishFails` raises before the bundle is in place, `PublishedThenFails` after it (the
backup cannot be removed, or what is read back is not what was put there); `published`
keeps the bundle then.  Starting and stopping the services is one step here, failing or
not; a failure leaves children up where the code does.  `Services` has the detail.

**Services.**  Several calls of `run`, each with three children going from none over
starting to listening.  A child may exit at any time, fail to bind because another
listens, or survive its signals.  The process of a run may be killed anywhere
(`Killed`); then nobody stops its children, and one that has not bound its port yet
still may.  `used` and `overlap` are history variables.

**Publish.**  Several publishers take the two looks and the three file operations of
`publish_directory` one by one; each may fail there with `OSError`, and a publisher
may be killed anywhere.  A dashboard request reads the manifest, verifies and reads
again as separate steps.  A bundle is one value with an outcome and whether
`verify_bundle` accepts it.

**JobManager.**  Each block under the manager's lock is a step, and each step of a
worker thread between two of them.  `seen` is what a polling client saw last.  The
registry holds the bundle of each id, known by its outcome.

**VerificationSlot** is what a client is promised of all this: one slot, one job in it
at a time, in the order of their ids; a memory of at most `Limit` ended jobs, out of
which only a job with `Limit` later ones is forgotten; a slot that closes for good; and
no job that keeps it for ever.  `JobManager` instantiates it with `View` (what polling
an id would answer), `shutting_down` and whether shutdown has returned.  The worker's
steps up to its last locked block, a rolled back start and the polls are stuttering
steps; finishing and trimming together are the single step `End`.

**Phase2Demo** extends Gateway with `run_demo`, which starts the services itself,
repeats the three scenarios and, unlike the orchestrator, never reads the device: it
only compares what the gateways answer.  Whether a port is taken by others, and when a
child ends after its signal, is left open.

**Browser.**  `loadDemo` and `runVerification` cut at their awaits, against a server
reduced to the status of each job.  Answers, error answers, lost answers and reloads
are actions.

**Witness.**  One call of the command with a clock; the bundle directory may be
replaced between its verification and the second read, and sending a signal takes
time and may fail before or after it has gone out.  `signals` is what was sent: it is
published with QoS 0, so the robot may get one later or never.

## Runs

| run | instance | distinct states | checks |
|---|---|---|---|
| `gateway` | 2 requests, 7 packages, 2 key files | 525 thousand | no lost update, honest answers, authentic updates only, every request answered |
| `verification_run` | one run, both builds, 4 key files | 1.4 million | conclusions rest on what happened, match the build and the bundled key; what is published is verified; termination |
| `bad_observation` | one run, no exits | | violation, see findings |
| `job_manager` | 3 jobs, history of 2 | 80 thousand | one active job, history, registry, shutdown, polling, liveness, refinement of `VerificationSlot` |
| `services` | 2 orchestrators, 3 scenarios | 581 thousand | no orphan, own services, termination |
| `children_stopped` | 1 orchestrator | | violation, see findings |
| `publish` | 3 publishers (symmetric), 2 outcomes | 3.1 million | survival, restoration, only verified bundles served |
| `unflagged_replace` | 3 publishers | | violation, see findings |
| `browser` | 3 jobs | 5 thousand | results kept and true, page usable, page gives up |
| `stale_demo` | 3 jobs | | violation, see findings |
| `witness` | 45 bundles, cooldown 3, clock to 8 | 16.5 thousand | signals bounded, spaced and warranted; accepted bundles support their outcome |
| `phase2_demo` | 2 repetitions, both builds, 3 key files | 13.7 thousand | the exit code is true, the demo ends |

### What they show

* `NoLostUpdate`: the device's counter equals the number of applies since its last
  reset and its firmware is that of the last one, whatever stale states the gateways
  acted on.  `AnswerTellsTheTruth`: ACCEPTED means executed exactly once, REJECTED
  means it never left the gateway.  `PatchedAppliesOnlyAuthentic`: under key changes
  in mid-request, the signer-trust gateway lets only packages through that verify
  under the key loaded for that request, and rejects none that do and name that key
  and its fingerprint as their signer's.
* `ConclusiveIsObserved`: when a conclusive bundle is published, the device's whole
  history is the one its three decisions claim.  Late and lost applies always surface
  as an error, a conflicting observation or a failed run.  `OutcomeMatchesBuild`: a conclusion is
  right about the build.  `VerifiedUnderBundledKey`: in a verified patch the
  trusted package was accepted under the key the bundle carries, and the untrusted one
  refused under a key that is not its signer's.  That key need not be the bundled one:
  the key file may change between the two scenarios, and the bundle does not say under
  which key a package was refused.  `PublishedIsVerified`: the destination never gets a
  bundle that `verify_bundle` refuses, nor one of a run that failed to execute or to stop
  its services.  A run may raise although its bundle is in place; it returns only if it is.
* `OneActiveJob`, `RecentJobIsKnown`, `BoundedHistory`, `CompletedIsRegistered`,
  `ShutdownIsFinal`, `PollsNeverGoBack`: the job manager's bookkeeping agrees with its
  threads and clients at every moment.  `ImplementsSlot`: taken together they are the
  one slot of `VerificationSlot`, liveness included; a start that slips in while
  shutdown joins the previous worker would show here.
* `NoOrphan`: whichever service fails at whichever point, a reported
  `VerificationError` leaves no child behind.  `SeparateRunsAreServedByTheirOwn`:
  runs that do not overlap never mix their services, even if one was killed or left
  children in another way.  A killed run counts as under way until none of its children
  is still starting: one that binds its port later can answer the next run's health
  check and scenarios, and nothing in the code notices while that run's own child lives.
* `BundleSurvives`, `DestinationRestored`, `ServedIsVerified`: see the proofs below.
* `FailureKeepsResult`, `LiveResultIsCompleted`, `IdlePageIsUsable`: no order of
  answers takes a result away, shows one that is not completed, or leaves the page
  stuck.
* `SignalsAreBounded`, `SignalsAreWarranted`: at most the two planned signals are sent,
  in order and spaced, on evidence whose device states support them, also when the
  directory is replaced by an edited one whose labels claim success.
* `AcceptedIsSupported`: a directory that `verify_bundle` accepts states `PATCH_VERIFIED`
  exactly if its own raw records, packages and key show it, and `PATCH_NOT_VERIFIED` only
  on a baseline and three decided scenarios (`INCONCLUSIVE` claims nothing), also when `evidence.json` or a raw record
  comes from another run and the manifest, or all digests, are written anew.  Ids and
  times, which would give most such mixtures away at once, are equal in the model.
* `ExitTellsTheTruth`: the demo's exit code 0 means that in each repetition the device
  did exactly what the contract says, with the fix in place, though the demo only has
  the gateways' word and their calls may be lost or late; and after exit code 0 or 1
  none of its services is left.

### Bounds

* Two requests in `gateway` are the least that interleave, and the device treats any
  pair alike.  The packages are one for each branch of the policies.  `MaxLog` only
  stops further resets; every apply of both requests still fits.
* In `verification_run` the three requests are the run's own.  The key file may hold
  the trusted key, the untrusted signer's, none, or one that a later call of
  `generate_demo_artifacts` made.  `MaxLog`
  bounds only the resets of the free clients of `gateway` and plays no part here.  The
  process that may exit is the patched gateway, whose absence falls in the middle of
  the run; the device's exit is in `gateway`, and the device or either gateway not
  answering in time is possible everywhere.
* Three jobs exceed a history of two by one, the first time a record is dropped.  The
  proofs lift both numbers.
* Two orchestrators are the least that share ports.  Each starts once.
* Two repetitions of the demo let a call of the first be executed in the second.  As in
  `verification_run` the process that exits by itself is the patched gateway.
* The bundles of `witness` are eight published ones (each scenario decided well or
  badly), each also damaged, relabelled, or mixed with the files of a verified run.
* Three publishers allow one to be killed while two others race.  The proof lifts it.
* Three jobs let the page lose one answer, be refused, and complete another.
* The clock's bound of 8 admits both signals with delays on either side of a
  cooldown of 3.

### Fairness

Only what the code itself bounds in time is assumed to go on.  A gateway's request:
its HTTP client has a timeout of 3 s, so one of answer, failure and timeout comes.
The orchestrator: each request has such a timeout, health checks end after 15 s,
waiting for a child after 5 s and again 5 s; the phase 2 demo has the same limits.  A job's thread: it is scheduled, and
`run` returns, which `RunTerminates` and `RunsEnd` show.  The join of a thread that
has exited.  The page: a fetch settles, and `pollJob` has a deadline of 120 s.
Nothing is assumed of the device, of gateways toward the orchestrator, of children,
of the server toward the page, or of the user.  `Publish` and `Witness` have no
fairness and claim no liveness.

Deadlock checking is off where the system may stop: all requests are answered, the run
is over, the ids are used up.  The page never stops and is checked for deadlock.

## Findings

1. **`bad_observation`** (documentation and code disagree).  A malformed gateway
   response or one that conflicts with the observed device is recorded as ERROR in
   `evidence.json`, while the raw record keeps the gateway's own words;
   `verify_bundle` compares the two and refuses the staged bundle, so the run ends in
   `BundleError`.  `docs/VERIFICATION_LOGIC.md:38` says such a run is `INCONCLUSIVE`,
   which is what the refused `evidence.json` states.
   The code errs on the safe side: nothing wrong is published.
2. **`children_stopped`** (documentation and code disagree).  An `OSError` from
   opening the second or third log file is not a `ProcessError`; `start_services`
   leaves the services it started running and `run` has no handles yet.
   `docs/VERIFICATION_LOGIC.md:44` says the orchestrator stops the children it
   started.
3. **`unflagged_replace`** (code).  `publish_directory` looks at the destination
   twice.  A bundle that appears between the looks is replaced without `--replace`.
4. **`stale_demo`** (documentation and code disagree).  The page's own initial demo
   request may be answered after a live run has completed, and then replaces its
   result.  `docs/DEMO_FLOW.md:12` says the live result replaces the demo.

## Proofs

Every safety property of the passing runs, and every action property, is also a theorem
(`PROJECT.json` lists them): it holds for all values of the constants that the named
`ASSUME`s allow, and TLC evaluates these on the instances.  Each proof has the same
shape.  The properties are seldom inductive; the conjuncts that make them so are
defined beside the properties (`RequestAgrees`, `RunAgrees`, `DemoAgrees`, `PlanAgrees`,
`ChildrenAgree` and so on) or in the proof module, and were checked by TLC on the
instance before they were proved.  There is a lemma per action, or per group of actions
that do the same to the invariant, a lemma `...Next` that puts them together, and one
`...Always` which the theorems cite.  `None` is assumed to differ from the values it is
an alternative to, as it does in Python.

### `GatewayProofs`: any requests, packages and key files

`GatewayConstants` says where processes exit and that `None` is no key.  `LabInvariant`
is `GatewayTypeOK` and, for each request, `RequestAgrees`: how far its call has come,
against what the policy decided, what the history holds of it and what was answered.
Without it, that an answer is true depends on facts a type does not have (an executed
call was sent because the policy accepted; it is in the history once).  The proof rests on

* lemmas about the policies: every result is one of the known ones
  (`PolicyIsGood`), and the patched policy accepts exactly what is authentic under the
  trusted key and names it (`PatchedPolicyIsSound`);
* `RequestStep`, what every gateway action does to its own request and leaves alone of
  the others; it is all that the modules built on this one need to know of them;
* lemmas about a history that grows (`AppendApplies`, `AppendSinceReset`), by which
  `NoLostUpdateAlways` counts applies without induction.

Theorems: `GatewayTypeCorrect`, `NoLostUpdateAlways`, `AnswerTellsTheTruthAlways`,
`PatchedAppliesOnlyAuthenticAlways`.

### `VerificationRunProofs`: a run against any lab

`RunConstants` fixes the three requests and the two packages of the run.  Key files, the services that
exit and the builds are arbitrary.  `RunInvariant` is `LabInvariant`, `TypeOK` and `RunAgrees`.
The core of the latter is `HistoryAgrees`: as long as every scenario so far got a
decision, the device's history is the one the decisions claim, up to the request under
way; one that did not promises nothing, for its late call may be executed in any later
scenario.  `CaptureAgrees` says what a decided capture holds and that its request is
through at the device, `PublicationAgrees` that a published bundle is the staged one and
was verified, whether the run returns or raises after it.
From the last state on, the argument is about data: what `StagedBundle` holds
(`StagedFiles`), which verdict each execution gets (`VerdictOfScenario`), and so which
decisions an outcome stands for (`OutcomeOfRun`).

Theorems: `TypeCorrect`, `ConclusiveIsObservedAlways`, `OutcomeMatchesBuildAlways`,
`VerifiedUnderBundledKeyAlways`, `PublishedIsVerifiedAlways`.

### `Phase2DemoProofs`: any number of repetitions

`DemoConstants` ties the requests to repetitions and scenarios.  The demo looks at
answers only, so the invariant has to follow the device for it.
`RequestsFollow`: requests go out in the order of the contract and one that was answered
as expected has no call on its way any more; that is where `LabInvariant` is needed.
`HistoryFollows`: the history is a prefix of the contract's, `Followed` entries long, and
one more once the current request was executed.  `BuildFollows`: after scenario B the
fix is in place, since no other build refuses.  `OnlyHeldAreUp` gives the second half
of `ExitTellsTheTruthAlways`.

### `JobManagerProofs`: for every history limit and number of jobs

Assumption `JobConstants`: the limit is a positive number, the number of jobs a
number, and `None` is neither an id nor an outcome.

The type invariant is not inductive alone: that a finishing thread stores a proper
record depends on its locals, and these on how far it has come.  `Core` is `TypeOK`,
`OneActiveJob` and `ThreadsAgree` (ids are drawn in order and the active one is the
latest; a thread that has a bundle has its outcome; one about to complete has
registered it).  One lemma per action shows `Core` preserved.  On it rest

* `TypeCorrect`, `OneActiveJobAlways`, `CompletedIsRegisteredAlways`;
* `ShutdownIsFinalAlways`, with `ShutdownAgrees`: while shutdown joins a thread, the
  active job is that thread's or none, for no start is accepted any more;
* `PollsNeverGoBackAlways`, with `SeenAgrees`, which relates a client's last answer
  to the dict as it is now;
* `BoundedHistoryAlways` and `RecentJobIsKnownAlways`.  `TrimEffect` says what the
  trim after finishing keeps; `KeptBound` counts it, by induction-free reasoning on
  cardinalities (`FiniteSetTheorems`);
* `ImplementsSlotSafety`: `Spec => Slot!Safety`, the refinement of `VerificationSlot`
  without its fairness.  Starting a job refines `Start`; finishing one, with the trim
  after it, refines `End`, which needs `TrimEffect` and the history bound; beginning
  shutdown and returning from it refine `Close` and `Stop`; all else stutters.

### `PublishProofs`: for any number of publishers

Assumptions `PublishConstants` and `NoneIsNoBundle` keep `None` and the tracked
bundle's owner apart from the other values.

`BundleSurvives` is not inductive: a backup that holds the last bundle might be the
one about to be removed.  `Kept` says that a bundle survives outside the backups in
the step before `rmtree`.  `Restorable` says who is responsible while the destination
is empty.  `DamagedIsUntouched` says that nobody past the first check has met a
damaged bundle, which gives `ReaderIsSafe` and so `ServedIsVerified`.  The theorems
are `TypeCorrect`, `BundleSurvivesAlways`, `DestinationRestoredAlways` and
`ServedIsVerifiedAlways`.

### `ServicesProofs`: for any number of orchestrators and scenarios

`ChildrenAgree` says which children a run at some place cannot have alive: those it has
not started yet or has waited for.  That gives `NoOrphanAlways`.  `OneListener`, of
which the count in `TypeOK` follows, is `TypeCorrect`.  `SeparateAgrees` says that
without overlap one run is under way, and from its probe of the ports to its last
scenario nobody else listens; `SeparateRunsAreServedByTheirOwnAlways` rests on it and on
the definition of being under way, which includes a killed run with a child still starting.

### `BrowserProofs`: for any number of jobs

`ButtonsAgree` ties the two buttons to the functions that disabled them, and the polled
job to one the server knows.  Theorems: `TypeCorrect`, `LiveResultIsCompletedAlways`,
`IdlePageIsUsableAlways`, `FailureKeepsResultAlways`.

### `WitnessProofs`: for any bundles and any cooldown

`VerifiedBundleIsSupported` is about `verify_bundle` alone, for every directory: it
follows the recomputed verdicts through the digests back to the raw records.  Its
hypothesis `FromRuns` is that packages have the names and versions that every run gives
them.  `verify_bundle` compares neither, so a directory signed with the same keys for
other versions is not covered; the witness's `BundlesAssumption` is the same hypothesis.
For the process, `PlanAgrees` says that the rest of the plan, the counter, the time of
the last signal and the signals sent advance together, and that whoever sends has a
plan made for evidence that was `eligible`.  Theorems besides: `TypeCorrect`,
`SignalsAreBoundedAlways`, `SignalsAreWarrantedAlways`, `AcceptedIsSupportedAlways`.

### Only model-checked

Liveness (`EveryRequestAnswered`, `RunTerminates`, `EveryJobFinishes`,
`ShutdownReturns`, `RunsEnd`, `LiveRunEnds`, `DemoEnds`, the fairness of
`ImplementsSlot`) needs fairness and `ENABLED`, which this prover does not treat.  The
properties that the findings violate are, of course, not theorems.

## Not modelled, and abstractions

* Cryptography and encodings: digests and signatures are injective, so collisions and
  forgeries do not exist; JSON, base64 and PEM are parsed or not.
* The report's markup, schema validation of shapes the program itself produces, media
  types, sizes and timestamps in the manifest.  `verify_bundle` does not compare
  `report.html` with `evidence.json`, nor the HTTP status with any raw record: `Supported`
  says nothing of the report and takes the status from `evidence.json`.
* Path safety (symbolic links, traversal), response headers, origin checks, the
  loopback check of configured addresses, and the witness's credential container:
  each is a stateless refusal before anything happens.
* A refused start (400, 409, 503) changes nothing and is no step of `JobManager`.
* The dashboard's worker over real orchestrators: `JobManager` takes from `RunsEnd`
  that `run` returns, and `Services` from `OneActiveJob` that a dashboard has one run at
  a time.  Both models in one, two jobs with a command line beside them, passed
  870 thousand states in five minutes with no end in sight.
* The lab after the key file was read for the bundle: what it does then is in nobody's
  evidence.  Another process at the destination is in `Publish`; in `VerificationRun` it
  appears as the failure of reading the bundle back.
* Another program listening on a port of the phase 2 demo that answers JSON other than an
  object: `body.get` raises an exception that `run_demo` does not turn into an exit code.
  The lab's own answers are objects or a plain-text 500.
* Overlapping runs of two processes: the code has nothing to keep their services
  apart, and no property is claimed beyond `NoOrphan` and `RunsEnd`.
* The digest that the dashboard shows beside the evidence may belong to a bundle that
  was replaced meanwhile; `ServedIsVerified` is about what is served.
* `scripts/run_verification.py`, which repeats `run` until one does not verify; the other
  command line tools, which parse arguments and call what is modelled; the
  repository's validators and screenshots, which read files or drive a browser; and the
  smoke test's HTTP assertions.

## Plan

Done, in the order of importance: the lab and its policies, the run that concludes
from it, the job manager with its proofs, then the components around them (services,
publication, page, witness, phase 2 demo), the proofs about publication, the abstract
slot and its refinement, bundles mixed from several runs, and the proofs of all safety
properties that the runs check.

Next:

1. **Abstract specifications for the lab**: the device behind a gateway as one atomic
   update per request, implemented by `Gateway`; `RequestAgrees` is most of that proof.
2. **More of `verify_bundle` as theorems**: that the staged bundle of a run whose
   scenarios were all decided is accepted, for all captures, so that the only
   `BundleError` of a run is the one of finding 1.
3. **The witness against publication**: `Bundles` taken from what publishers install.
