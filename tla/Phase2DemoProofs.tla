--------------------------- MODULE Phase2DemoProofs ---------------------------
(* Proofs about run_demo: for any number of repetitions, any key files, either  *)
(* build in the patched slot, and services that exit whenever they like.        *)
EXTENDS Phase2Demo, GatewayProofs

DemoInvariant == LabInvariant /\ DemoAgrees

-------------------------------------------------------------------------------
(* The contract. *)

LEMMA ContractIs ==
  /\ Len(Contract) = 3 /\ Len(Children) = 3
  /\ Contract[1].label = "A" /\ Contract[2].label = "B" /\ Contract[3].label = "C"
  /\ Contract[1].decision = "ACCEPTED" /\ Contract[2].decision = "REJECTED"
  /\ Contract[3].decision = "ACCEPTED"
  /\ \A i \in 1 .. 3 : Contract[i].gateway \in Gateways /\ Contract[i].package \in Packages
  /\ Contract[2].gateway = "PATCHED" /\ Contract[2].package = UntrustedPackage
  /\ \A i \in 1 .. 3 : Children[i] \in Services
<1>1. /\ Len(Contract) = 3
      /\ Contract[1].label = "A" /\ Contract[2].label = "B" /\ Contract[3].label = "C"
      /\ Contract[1].decision = "ACCEPTED" /\ Contract[2].decision = "REJECTED"
      /\ Contract[3].decision = "ACCEPTED"
  BY DEF Contract
<1>2. /\ Contract[1].gateway = "VULNERABLE" /\ Contract[1].package = UntrustedPackage
      /\ Contract[2].gateway = "PATCHED" /\ Contract[2].package = UntrustedPackage
      /\ Contract[3].gateway = "PATCHED" /\ Contract[3].package = TrustedPackage
  BY DEF Contract
<1>3. \A i \in 1 .. 3 : Contract[i].gateway \in Gateways /\ Contract[i].package \in Packages
  BY <1>2, DemoConstants DEF Gateways
<1>4. Len(Children) = 3 /\ \A i \in 1 .. 3 : Children[i] \in Services
  BY DEF Children, Services, Gateways
<1> QED
  BY <1>1, <1>2, <1>3, <1>4

\* Each request is the one of a repetition and a scenario.
LEMMA RequestsAreLabelled ==
  /\ \A n \in 1 .. Repeat, i \in 1 .. 3 : Labelled(n, i) \in Requests
  /\ \A n, m \in 1 .. Repeat, i, j \in 1 .. 3 :
       Labelled(n, i) = Labelled(m, j) => n = m /\ i = j
  /\ \A r \in Requests : \E n \in 1 .. Repeat, i \in 1 .. 3 : r = Labelled(n, i)
<1>1. \A i \in 1 .. 3 : Contract[i].label = IF i = 1 THEN "A" ELSE IF i = 2 THEN "B" ELSE "C"
  BY ContractIs
<1> QED
  BY <1>1, DemoConstants DEF Labelled, Labels

\* The entries of one repetition's history.
LEMMA ContractEntries ==
  ASSUME NEW n \in 1 .. Repeat
  PROVE  /\ ContractLog(n) \in Seq(Entries) /\ Len(ContractLog(n)) = 5
         /\ ContractLog(n)[1] = [op |-> "reset", by |-> None]
         /\ ContractLog(n)[2] = [op |-> "apply", by |-> Labelled(n, 1)]
         /\ ContractLog(n)[3] = [op |-> "reset", by |-> None]
         /\ ContractLog(n)[4] = [op |-> "reset", by |-> None]
         /\ ContractLog(n)[5] = [op |-> "apply", by |-> Labelled(n, 3)]
<1> DEFINE reset == [op |-> "reset", by |-> None]
           a == [op |-> "apply", by |-> Labelled(n, 1)]
           c == [op |-> "apply", by |-> Labelled(n, 3)]
<1>1. ContractLog(n) = <<reset, a, reset, reset, c>>
  BY ContractIs DEF ContractLog, Labelled
<1>2. reset \in Entries /\ a \in Entries /\ c \in Entries
  BY RequestsAreLabelled DEF Entries
<1> HIDE DEF reset, a, c
<1>3. /\ ContractLog(n) \in Seq(Entries) /\ Len(ContractLog(n)) = 5
      /\ ContractLog(n)[1] = reset /\ ContractLog(n)[2] = a /\ ContractLog(n)[3] = reset
      /\ ContractLog(n)[4] = reset /\ ContractLog(n)[5] = c
  BY <1>1, <1>2
<1> QED
  BY <1>3 DEF reset, a, c

-------------------------------------------------------------------------------
(* Where run_demo is. *)

LEMMA RepeatIs == Repeat \in Nat /\ Repeat > 0
  BY DemoConstants

\* start_service adds a child to those held, and only waiting for one gives it up.
LEMMA PlaceKept ==
  ASSUME PlaceAgrees, [Next]_vars
  PROVE  PlaceAgrees'
<1> USE DemoConstants, ContractIs
<1>0. ASSUME up' \subseteq up, held' = held PROVE OnlyHeldAreUp'
  BY <1>0 DEF PlaceAgrees, OnlyHeldAreUp
<1>1. CASE assert_ports_available \/ generate_demo_artifacts
  BY <1>0, <1>1
     DEF assert_ports_available, generate_demo_artifacts, Goto, Fail, PlaceAgrees, gatewayVars
<1>2. CASE start_service
  <2>1. CASE Fail /\ UNCHANGED up
    BY <1>0, <1>2, <2>1 DEF start_service, Fail, PlaceAgrees
  <2>2. CASE /\ dpc' = "health" /\ held' = held + 1 /\ up' = up \cup {Children[held + 1]}
             /\ UNCHANGED <<rep, scenario, failure, exit>>
    <3>1. held \in 0 .. 2 /\ held' \in 1 .. 3
      BY <1>2, <2>2 DEF start_service, PlaceAgrees
    <3>2. OnlyHeldAreUp'
      BY <2>2, <3>1 DEF PlaceAgrees, OnlyHeldAreUp
    <3> QED
      BY <1>2, <2>2, <3>1, <3>2 DEF start_service, PlaceAgrees
  <2> QED
    BY <1>2, <2>1, <2>2 DEF start_service
<1>3. CASE wait_for_health
  <2>1. CASE Fail
    BY <1>0, <1>3, <2>1 DEF wait_for_health, Fail, PlaceAgrees, gatewayVars
  <2>2. CASE Goto(IF held = Len(Children) THEN "assert" ELSE "spawn")
    BY <1>0, <1>3, <2>2 DEF wait_for_health, Goto, PlaceAgrees, gatewayVars
  <2> QED
    BY <1>3, <2>1, <2>2 DEF wait_for_health
<1>4. CASE assert_services_running
  <2>1. CASE Fail
    BY <1>0, <1>4, <2>1 DEF assert_services_running, Fail, PlaceAgrees, gatewayVars
  <2>2. CASE scenario = 1 /\ Goto("reset")
    BY <1>0, <1>4, <2>2 DEF assert_services_running, Goto, PlaceAgrees, gatewayVars
  <2>3. CASE scenario # 1 /\ rep = Repeat /\ Goto("terminate")
    BY <1>0, <1>4, <2>3 DEF assert_services_running, Goto, PlaceAgrees, gatewayVars
  <2>4. CASE scenario # 1 /\ rep # Repeat /\ rep' = rep + 1 /\ scenario' = 1
             /\ UNCHANGED <<dpc, held, failure, exit>>
    BY <1>0, <1>4, <2>4 DEF assert_services_running, PlaceAgrees, gatewayVars
  <2> QED
    BY <1>4, <2>1, <2>2, <2>3, <2>4 DEF assert_services_running
<1>5. CASE reset_device \/ submit_package \/ RequestFails
  BY <1>0, <1>5
     DEF reset_device, submit_package, RequestFails, submit_update, Goto, Fail, PlaceAgrees,
         gatewayVars
<1>6. CASE GatewayAnswers
  <2>1. CASE Fail
    BY <1>0, <1>6, <2>1 DEF GatewayAnswers, Fail, PlaceAgrees, gatewayVars
  <2>2. CASE NextScenario
    <3>1. dpc = "await" /\ scenario \in 1 .. 3 /\ UNCHANGED up
      BY <1>6 DEF GatewayAnswers, PlaceAgrees, gatewayVars
    <3>2. /\ scenario' = scenario + 1 /\ dpc' = IF scenario = 3 THEN "assert" ELSE "reset"
          /\ UNCHANGED <<held, rep, failure, exit>>
      BY <2>2 DEF NextScenario
    <3> QED
      BY <1>0, <3>1, <3>2 DEF PlaceAgrees
  <2> QED
    BY <1>6, <2>1, <2>2 DEF GatewayAnswers
<1>7. CASE Terminate \/ WaitTimesOut \/ wait_for_ports_closed
  <2>1. CASE Terminate
    BY <1>0, <2>1 DEF Terminate, Goto, PlaceAgrees, gatewayVars
  <2>2. CASE WaitTimesOut
    BY <1>0, <2>2 DEF WaitTimesOut, PlaceAgrees, gatewayVars
  <2>3. CASE wait_for_ports_closed
    BY <1>0, <2>3 DEF wait_for_ports_closed, PlaceAgrees, gatewayVars
  <2> QED
    BY <1>7, <2>1, <2>2, <2>3
<1>8. CASE ChildReaped
  <2>1. held \in 1 .. 3 /\ held' = held - 1 /\ Children[held] \notin up
        /\ UNCHANGED <<up, dpc, rep, scenario, failure, exit>> /\ dpc = "wait"
    BY <1>8 DEF ChildReaped, PlaceAgrees, gatewayVars
  <2>2. OnlyHeldAreUp'
    BY <2>1 DEF PlaceAgrees, OnlyHeldAreUp
  <2> QED
    BY <2>1, <2>2 DEF PlaceAgrees
<1>9. ASSUME up' \subseteq up, UNCHANGED demoVars PROVE PlaceAgrees'
  BY <1>0, <1>9 DEF demoVars, PlaceAgrees
<1>10. CASE Lab
  BY <1>9, <1>10 DEF Lab, LabStep, LabFaults, ServiceExits, KeyFileChanges, GatewayStep,
     ReadState, ReadStateUnavailable, ApplyReturns, ApplyUnavailable, ApplyFailed, GatewayFails,
     DeviceApply
<1>11. CASE \E s \in Services : ChildEnds(s)
  BY <1>9, <1>11 DEF ChildEnds, ServiceExits
<1>12. CASE UNCHANGED vars
  BY <1>9, <1>12 DEF vars, gatewayVars
<1> QED
  BY <1>1, <1>2, <1>3, <1>4, <1>5, <1>6, <1>7, <1>8, <1>10, <1>11, <1>12
     DEF Next, run_demo, stop_services

-------------------------------------------------------------------------------
(* The steps of the demo. *)

\* After a recorded failure only the exit code is still open.
LEMMA FailedDemo ==
  ASSUME LabInvariant', PlaceAgrees', failure'
  PROVE  DemoInvariant'
  BY DEF DemoInvariant, DemoAgrees, RequestsFollow, HistoryFollows, BuildFollows

\* A step that touches neither the requests nor the history, and is no scenario's.
LEMMA QuietStep ==
  ASSUME DemoInvariant, LabInvariant', PlaceAgrees',
         UNCHANGED <<build, req, log, rep, scenario, failure>>,
         dpc' = dpc \/ {dpc, dpc'} \cap {"submit", "await"} = {}
  PROVE  DemoInvariant'
<1>1. /\ dpc' = "await" <=> dpc = "await"
      /\ dpc' \in {"submit", "await"} <=> dpc \in {"submit", "await"}
  OBVIOUS
<1>2. request' = request /\ Followed' = Followed /\ (Executed' <=> Executed)
  BY <1>1 DEF request, expected, Followed, Executed
<1>3. RequestsFollow'
  BY <1>1 DEF DemoInvariant, DemoAgrees, RequestsFollow, Before
<1>4. HistoryFollows'
  BY <1>2 DEF DemoInvariant, DemoAgrees, HistoryFollows
<1>5. BuildFollows'
  BY DEF DemoInvariant, DemoAgrees, BuildFollows
<1> QED
  BY <1>3, <1>4, <1>5 DEF DemoInvariant, DemoAgrees

\* Starting, stopping, checking the services, and giving up.
LEMMA PassiveDemoStep ==
  ASSUME DemoInvariant, PlaceAgrees',
         \/ assert_ports_available \/ generate_demo_artifacts \/ start_service
         \/ wait_for_health \/ RequestFails \/ stop_services
         \/ \E s \in Services : ChildEnds(s)
  PROVE  DemoInvariant'
<1>1. LabInvariant'
  <2>1. UNCHANGED <<device, build, req, log>>
    BY DEF assert_ports_available, generate_demo_artifacts, start_service, wait_for_health,
           RequestFails, stop_services, Terminate, ChildReaped, WaitTimesOut,
           wait_for_ports_closed, ChildEnds, ServiceExits, gatewayVars
  <2>2. keyfile' = keyfile \/ keyfile' = TrustedKey
    BY DEF assert_ports_available, generate_demo_artifacts, start_service, wait_for_health,
           RequestFails, stop_services, Terminate, ChildReaped, WaitTimesOut,
           wait_for_ports_closed, ChildEnds, ServiceExits, gatewayVars
  <2>3. up' \subseteq Services
    <3>1. {Children[i] : i \in 1 .. held'} \subseteq Services
      BY ContractIs DEF PlaceAgrees
    <3> QED
      BY <3>1 DEF PlaceAgrees, OnlyHeldAreUp
  <2> QED
    BY <2>1, <2>2, <2>3, LabKept DEF DemoInvariant, LabInvariant, GatewayTypeOK
<1>2. CASE Fail
  BY <1>1, <1>2, FailedDemo DEF Fail
<1>3. CASE ~Fail
  <2>1. UNCHANGED <<build, req, log, rep, scenario, failure>>
    BY <1>3 DEF assert_ports_available, generate_demo_artifacts, start_service, wait_for_health,
           RequestFails, stop_services, Terminate, ChildReaped, WaitTimesOut, Goto,
           wait_for_ports_closed, ChildEnds, ServiceExits, gatewayVars, demoVars
  <2>2. {dpc, dpc'} \cap {"submit", "await"} = {}
    BY <1>3, ContractIs
       DEF assert_ports_available, generate_demo_artifacts, start_service, wait_for_health,
           RequestFails, stop_services, Terminate, ChildReaped, WaitTimesOut, Goto,
           wait_for_ports_closed, ChildEnds, demoVars
  <2> QED
    BY <1>1, <2>1, <2>2, QuietStep
<1> QED
  BY <1>2, <1>3

\* assert_services_running, between the scenarios of two repetitions too.
LEMMA AssertDuringDemo ==
  ASSUME DemoInvariant, PlaceAgrees', assert_services_running
  PROVE  DemoInvariant'
<1>1. UNCHANGED <<device, up, keyfile, build, req, log>> /\ dpc = "assert"
  BY DEF assert_services_running, gatewayVars
<1>2. LabInvariant'
  BY <1>1, LabKept DEF DemoInvariant, LabInvariant, GatewayTypeOK
<1>3. CASE Fail
  BY <1>2, <1>3, FailedDemo DEF Fail
<1>4. CASE Goto("reset") \/ Goto("terminate")
  BY <1>1, <1>2, <1>4, QuietStep DEF Goto
<1>5. CASE /\ rep < Repeat /\ scenario = 4 /\ rep' = rep + 1 /\ scenario' = 1
           /\ UNCHANGED <<dpc, held, failure, exit>>
  <2>1. rep \in 1 .. Repeat /\ rep \in Nat
    BY DEF DemoInvariant, DemoAgrees, PlaceAgrees
  <2>2. RequestsFollow'
    <3> SUFFICES ASSUME ~failure, NEW n \in 1 .. Repeat, NEW i \in 1 .. 3
                 PROVE  LET r == Labelled(n, i)
                        IN  /\ Before(n, i)' => req[r].pc = "answered" /\ req[r].call # "sent"
                            /\ ~Before(n, i)' => req[r].pc = "idle"
      BY <1>1, <1>5, ContractIs DEF RequestsFollow
    <3>1. Before(n, i)' <=> Before(n, i)
      BY <1>5, <2>1, RepeatIs DEF Before
    <3> QED
      BY <1>1, <3>1, ContractIs DEF DemoInvariant, DemoAgrees, RequestsFollow
  <2>3. HistoryFollows'
    <3>1. Followed' = Followed /\ ~Executed /\ ~Executed'
      BY <1>1, <1>5, <2>1 DEF Followed, Executed
    <3> QED
      BY <1>1, <1>5, <3>1 DEF DemoInvariant, DemoAgrees, HistoryFollows
  <2>4. BuildFollows'
    BY <1>1, <1>5 DEF DemoInvariant, DemoAgrees, BuildFollows
  <2> QED
    BY <1>2, <2>2, <2>3, <2>4 DEF DemoInvariant, DemoAgrees
<1> QED
  <2>1. scenario \in {1, 4} /\ rep \in 1 .. Repeat
    BY <1>1 DEF DemoInvariant, DemoAgrees, PlaceAgrees
  <2> QED
    BY <1>3, <1>4, <1>5, <2>1, RepeatIs DEF assert_services_running

-------------------------------------------------------------------------------
(* The steps of a scenario. *)

\* The request a scenario is about.
LEMMA CurrentRequest ==
  ASSUME DemoInvariant, dpc \in {"reset", "submit", "await"}
  PROVE  /\ rep \in 1 .. Repeat /\ rep \in Nat /\ scenario \in 1 .. 3
         /\ request = Labelled(rep, scenario) /\ request \in Requests
         /\ expected = Contract[scenario]
         /\ expected.gateway \in Gateways /\ expected.package \in Packages
<1>1. rep \in 1 .. Repeat /\ rep \in Nat /\ scenario \in 1 .. 3
  BY ContractIs, RepeatIs DEF DemoInvariant, DemoAgrees, PlaceAgrees
<1>2. request = Labelled(rep, scenario) /\ expected = Contract[scenario]
  BY DEF request, expected, Labelled
<1> QED
  BY <1>1, <1>2, ContractIs, RequestsAreLabelled

\* Followed reaches to just before the k-th call of the repetition's history, and one on.
LEMMA HistoryExtends ==
  ASSUME NEW k \in 1 .. 5, NEW m \in 1 .. Repeat, NEW f \in Nat, f = 5 * (m - 1) + k - 1,
         \A n \in 1 .. Repeat, j \in 1 .. 5 :
           5 * (n - 1) + j <= f => log[5 * (n - 1) + j] = ContractLog(n)[j],
         \A i \in 1 .. f : log'[i] = log[i],
         log'[f + 1] = ContractLog(m)[k]
  PROVE  \A n \in 1 .. Repeat, j \in 1 .. 5 :
           5 * (n - 1) + j <= f + 1 => log'[5 * (n - 1) + j] = ContractLog(n)[j]
<1> SUFFICES ASSUME NEW n \in 1 .. Repeat, NEW j \in 1 .. 5, 5 * (n - 1) + j <= f + 1
             PROVE  log'[5 * (n - 1) + j] = ContractLog(n)[j]
  OBVIOUS
<1>1. CASE 5 * (n - 1) + j <= f
  <2> DEFINE x == 5 * (n - 1) + j
  <2>1. x \in 1 .. f /\ log[x] = ContractLog(n)[j]
    BY <1>1, RepeatIs
  <2> HIDE DEF x
  <2>2. log'[x] = ContractLog(n)[j]
    BY <2>1
  <2> QED
    BY <2>2 DEF x
<1>2. CASE 5 * (n - 1) + j = f + 1
  <2> DEFINE x == 5 * (n - 1) + j
  <2>1. n = m /\ j = k /\ x = f + 1
    BY <1>2, RepeatIs
  <2> HIDE DEF x
  <2>2. log'[x] = ContractLog(n)[j]
    BY <2>1
  <2> QED
    BY <2>2 DEF x
<1>3. 5 * (n - 1) + j <= f \/ 5 * (n - 1) + j = f + 1
  BY RepeatIs
<1> QED
  BY <1>1, <1>2, <1>3

\* Each scenario begins with the reset that the contract has there.
LEMMA ResetDuringDemo ==
  ASSUME DemoInvariant, PlaceAgrees', reset_device
  PROVE  DemoInvariant'
<1> DEFINE e == [op |-> "reset", by |-> None]
           k == IF scenario = 1 THEN 1 ELSE scenario + 1
<1>1. dpc = "reset" /\ DeviceReset /\ UNCHANGED <<up, keyfile, build, req>>
  BY DEF reset_device
<1>2. LabInvariant'
  BY <1>1, ResetStep DEF DemoInvariant
<1>3. CASE failure'
  BY <1>2, <1>3, FailedDemo
<1>4. CASE ~failure'
  <2>1. dpc' = "submit" /\ ~failure /\ UNCHANGED <<held, rep, scenario, failure, exit>>
    BY <1>4 DEF reset_device, Goto, Fail
  <2>2. rep \in 1 .. Repeat /\ rep \in Nat /\ scenario \in 1 .. 3 /\ k \in 1 .. 5
    BY <1>1, CurrentRequest
  <2>3. RequestsFollow'
    BY <1>1, <2>1 DEF DemoInvariant, DemoAgrees, RequestsFollow, Before
  <2>4. BuildFollows'
    BY <1>1, <2>1 DEF DemoInvariant, DemoAgrees, BuildFollows
  <2>5. /\ Followed = 5 * (rep - 1) + k - 1 /\ Followed \in Nat /\ Followed' = Followed + 1
        /\ ~Executed /\ ~Executed'
    BY <1>1, <2>1, <2>2 DEF Followed, Executed
  <2>6. log \in Seq(Entries) /\ e \in Entries /\ log' = Append(log, e)
    BY <1>1 DEF DeviceReset, DemoInvariant, LabInvariant, GatewayTypeOK, Entries
  <2>7. /\ Len(log) = Followed
        /\ \A n \in 1 .. Repeat, j \in 1 .. 5 :
             5 * (n - 1) + j <= Followed => log[5 * (n - 1) + j] = ContractLog(n)[j]
    BY <2>1, <2>5 DEF DemoInvariant, DemoAgrees, HistoryFollows
  <2>8. ContractLog(rep)[k] = e
    <3>1. ContractLog(rep)[1] = e /\ ContractLog(rep)[3] = e /\ ContractLog(rep)[4] = e
      BY <2>2, ContractEntries
    <3>2. k \in {1, 3, 4}
      BY <2>2
    <3> HIDE DEF e, k
    <3> QED
      BY <3>1, <3>2
  <2> HIDE DEF e, k
  <2>9. /\ Len(log') = Followed + 1 /\ log'[Followed + 1] = e
        /\ \A i \in 1 .. Followed : log'[i] = log[i]
    BY <2>6, <2>7, AppendEntry
  <2> DEFINE f == Followed
  <2>10. /\ f \in Nat /\ f = 5 * (rep - 1) + k - 1
         /\ \A i \in 1 .. f : log'[i] = log[i]
         /\ log'[f + 1] = ContractLog(rep)[k]
         /\ \A n \in 1 .. Repeat, j \in 1 .. 5 :
              5 * (n - 1) + j <= f => log[5 * (n - 1) + j] = ContractLog(n)[j]
    BY <2>5, <2>7, <2>8, <2>9
  <2> HIDE DEF f
  <2>11. \A n \in 1 .. Repeat, j \in 1 .. 5 :
           5 * (n - 1) + j <= f + 1 => log'[5 * (n - 1) + j] = ContractLog(n)[j]
    BY <2>2, <2>10, HistoryExtends
  <2>12. HistoryFollows'
    BY <2>5, <2>9, <2>11 DEF HistoryFollows, f
  <2> QED
    BY <1>2, <2>3, <2>4, <2>12 DEF DemoInvariant, DemoAgrees
<1> QED
  BY <1>3, <1>4

\* What is true of the request of scenario i of repetition n, for RequestsFollow.
FollowsAt(n, i) ==
  LET r == Labelled(n, i)
      current == n = rep /\ i = scenario /\ dpc = "await"
  IN  /\ Before(n, i) => req[r].pc = "answered" /\ req[r].call # "sent"
      /\ current => /\ req[r].pc # "idle"
                    /\ req[r].gateway = Contract[i].gateway
                    /\ req[r].package = Contract[i].package
      /\ ~Before(n, i) /\ ~current => req[r].pc = "idle"

LEMMA FollowAll ==
  /\ RequestsFollow <=> (~failure => \A n \in 1 .. Repeat, i \in 1 .. 3 : FollowsAt(n, i))
  /\ RequestsFollow' <=> (~failure' => \A n \in 1 .. Repeat, i \in 1 .. 3 : FollowsAt(n, i)')
  BY ContractIs DEF RequestsFollow, FollowsAt

\* The package is handed to the gateway the contract names.
LEMMA SubmitDuringDemo ==
  ASSUME DemoInvariant, PlaceAgrees', submit_package
  PROVE  DemoInvariant'
<1>1. /\ dpc = "submit" /\ dpc' = "await" /\ UNCHANGED <<held, rep, scenario, failure, exit>>
      /\ submit_update(request, expected.gateway, expected.package)
      /\ UNCHANGED <<device, up, keyfile, build, log>>
  BY DEF submit_package, Goto, submit_update
<1>2. /\ rep \in 1 .. Repeat /\ rep \in Nat /\ scenario \in 1 .. 3
      /\ request = Labelled(rep, scenario) /\ request \in Requests
      /\ expected = Contract[scenario]
      /\ expected.gateway \in Gateways /\ expected.package \in Packages
  BY <1>1, CurrentRequest
<1>3. LabInvariant'
  BY <1>1, <1>2, SubmitStep, RequestStepKeeps DEF DemoInvariant
<1>4. CASE failure
  BY <1>1, <1>3, <1>4, FailedDemo
<1>5. CASE ~failure
  <2> DEFINE r == request
  <2>1. /\ req'[r].pc = "get_state" /\ req'[r].gateway = expected.gateway
        /\ req'[r].package = expected.package /\ req'[r].call = "none"
        /\ \A s \in Requests \ {r} : req'[s] = req[s]
    BY <1>1, <1>2, SubmitEffect DEF DemoInvariant
  <2> HIDE DEF r
  <2>2. r = Labelled(rep, scenario) /\ r \in Requests /\ expected = Contract[scenario]
    BY <1>2 DEF r
  <2>3. ASSUME NEW n \in 1 .. Repeat, NEW i \in 1 .. 3 PROVE FollowsAt(n, i)'
    <3>1. FollowsAt(n, i) /\ Labelled(n, i) \in Requests
      BY <1>5, FollowAll, RequestsAreLabelled DEF DemoInvariant, DemoAgrees
    <3>2. CASE n = rep /\ i = scenario
      <4>1. ~Before(n, i)'
        BY <1>1, <1>2, <3>2 DEF Before
      <4> QED
        BY <1>1, <2>1, <2>2, <3>2, <4>1 DEF FollowsAt, Labelled
    <3>3. CASE ~(n = rep /\ i = scenario)
      <4>1. Labelled(n, i) # r
        BY <1>2, <2>2, <3>3, RequestsAreLabelled
      <4>2. req'[Labelled(n, i)] = req[Labelled(n, i)] /\ (Before(n, i)' <=> Before(n, i))
        BY <1>1, <2>1, <3>1, <4>1 DEF Before
      <4> QED
        BY <1>1, <3>1, <3>3, <4>2 DEF FollowsAt, Labelled
    <3> QED
      BY <3>2, <3>3
  <2>4. RequestsFollow'
    BY <2>3, FollowAll
  <2>5. request' = r
    BY <1>1 DEF request, expected, r
  <2>6. Followed' = Followed /\ ~Executed /\ ~Executed'
    BY <1>1, <2>1, <2>5 DEF Followed, Executed
  <2>7. HistoryFollows'
    BY <1>1, <2>6 DEF DemoInvariant, DemoAgrees, HistoryFollows
  <2>8. BuildFollows'
    BY <1>1 DEF DemoInvariant, DemoAgrees, BuildFollows
  <2> QED
    BY <1>3, <2>4, <2>7, <2>8 DEF DemoInvariant, DemoAgrees
<1> QED
  BY <1>4, <1>5

\* An answer as expected leaves the device nothing to do for its request: the accepted
\* one was executed, the refused one never will be, and only the fix refuses.
LEMMA ExpectedAnswer ==
  ASSUME DemoInvariant, ~failure, GatewayAnswers, AsExpected(req[request].answer)
  PROVE  /\ scenario \in {1, 3} => req[request].call = "done"
         /\ scenario = 2 => req[request].call = "none" /\ build = "signer_trust"
<1> DEFINE r == request
<1>1. /\ rep \in 1 .. Repeat /\ scenario \in 1 .. 3 /\ r = Labelled(rep, scenario)
      /\ r \in Requests /\ expected = Contract[scenario]
  BY CurrentRequest DEF GatewayAnswers
<1>2. req[r].pc = "answered" /\ req[r].answer.decision = Contract[scenario].decision
  BY <1>1 DEF GatewayAnswers, AsExpected
<1>3. req[r].gateway = Contract[scenario].gateway /\ req[r].package = Contract[scenario].package
  <2>1. FollowsAt(rep, scenario) /\ dpc = "await"
    BY <1>1, FollowAll DEF DemoInvariant, DemoAgrees, GatewayAnswers
  <2> QED
    BY <1>1, <2>1 DEF FollowsAt
<1> HIDE DEF r
<1>4. RequestAgrees(r)
  BY <1>1, OneRequest DEF DemoInvariant
<1>5. CASE scenario \in {1, 3}
  <2>1. req[r].answer.decision = "ACCEPTED"
    BY <1>2, <1>5, ContractIs
  <2> QED
    BY <1>2, <1>4, <1>5, <2>1 DEF RequestAgrees, r
<1>6. CASE scenario = 2
  <2>1. /\ req[r].answer.decision = "REJECTED" /\ req[r].gateway = "PATCHED"
        /\ req[r].package = UntrustedPackage
    BY <1>2, <1>3, <1>6, ContractIs
  <2>2. req[r].call = "none" /\ Policy(r).decision = "REJECTED"
    BY <1>2, <1>4, <2>1 DEF RequestAgrees
  <2>3. req[r].key # None
    BY <1>1, <2>1, <2>2, PolicyOfLab
  <2>4. build = "signer_trust"
    BY <1>2, <1>4, <2>3 DEF RequestAgrees, LoadsKey
  <2> QED
    BY <1>6, <2>2, <2>4 DEF r
<1> QED
  BY <1>1, <1>5, <1>6

\* The answer is compared with the contract.
LEMMA AnswerDuringDemo ==
  ASSUME DemoInvariant, PlaceAgrees', GatewayAnswers
  PROVE  DemoInvariant'
<1> DEFINE r == request
<1>1. /\ dpc = "await" /\ req[r].pc = "answered"
      /\ UNCHANGED <<device, up, keyfile, build, req, log>>
  BY DEF GatewayAnswers, gatewayVars
<1>2. LabInvariant'
  BY <1>1, LabKept DEF DemoInvariant, LabInvariant, GatewayTypeOK
<1>3. CASE failure'
  BY <1>2, <1>3, FailedDemo
<1>4. CASE ~failure'
  <2>1. /\ AsExpected(req[r].answer) /\ ~failure
        /\ scenario' = scenario + 1 /\ dpc' \in {"assert", "reset"}
        /\ UNCHANGED <<held, rep, failure, exit>>
    BY <1>4 DEF GatewayAnswers, NextScenario, Fail
  <2>2. /\ rep \in 1 .. Repeat /\ rep \in Nat /\ scenario \in 1 .. 3
        /\ r = Labelled(rep, scenario) /\ r \in Requests
    BY <1>1, CurrentRequest
  <2>3. /\ scenario \in {1, 3} => req[r].call = "done"
        /\ scenario = 2 => req[r].call = "none" /\ build = "signer_trust"
    BY <2>1, ExpectedAnswer
  <2> HIDE DEF r
  <2>4. ASSUME NEW n \in 1 .. Repeat, NEW i \in 1 .. 3 PROVE FollowsAt(n, i)'
    <3>1. FollowsAt(n, i)
      BY <2>1, FollowAll DEF DemoInvariant, DemoAgrees
    <3>2. CASE n = rep /\ i = scenario
      <4>1. Before(n, i)'
        BY <2>1, <2>2, <3>2 DEF Before
      <4>2. Labelled(n, i)' = r /\ req'[r].pc = "answered" /\ req'[r].call # "sent"
        BY <1>1, <2>2, <2>3, <3>2 DEF Labelled
      <4> QED
        BY <2>1, <4>1, <4>2 DEF FollowsAt
    <3>3. CASE ~(n = rep /\ i = scenario)
      <4>1. Before(n, i)' <=> Before(n, i)
        BY <2>1, <2>2, <3>3 DEF Before
      <4> QED
        BY <1>1, <2>1, <3>1, <3>3, <4>1 DEF FollowsAt, Labelled
    <3> QED
      BY <3>2, <3>3
  <2>5. RequestsFollow'
    BY <2>4, FollowAll
  <2>6. BuildFollows'
    BY <1>1, <2>1, <2>2, <2>3 DEF DemoInvariant, DemoAgrees, BuildFollows
  <2>7. /\ Followed \in Nat /\ ~Executed'
        /\ scenario = 1 => Followed = 5 * (rep - 1) + 2 - 1 /\ Followed' = Followed + 1
        /\ scenario = 2 => Followed' = Followed
        /\ scenario = 3 => Followed = 5 * (rep - 1) + 5 - 1 /\ Followed' = Followed + 1
    BY <1>1, <2>1, <2>2 DEF Followed, Executed
  <2>8. /\ Executed <=> req[r].call = "done"
        /\ Len(log) = Followed + (IF Executed THEN 1 ELSE 0)
        /\ Executed => log[Followed + 1] = [op |-> "apply", by |-> r]
        /\ \A n \in 1 .. Repeat, j \in 1 .. 5 :
             5 * (n - 1) + j <= Followed => log[5 * (n - 1) + j] = ContractLog(n)[j]
    BY <1>1, <2>1 DEF DemoInvariant, DemoAgrees, HistoryFollows, Executed, r
  <2>9. ASSUME scenario = 2 PROVE HistoryFollows'
    BY <1>1, <2>3, <2>7, <2>8, <2>9 DEF HistoryFollows
  <2>10. ASSUME scenario \in {1, 3} PROVE HistoryFollows'
    <3> DEFINE k == IF scenario = 1 THEN 2 ELSE 5
               f == Followed
    <3>1. Executed /\ Len(log) = f + 1
      BY <2>3, <2>7, <2>8, <2>10
    <3>2. log[f + 1] = ContractLog(rep)[k]
      <4>1. CASE scenario = 1
        <5>1. ContractLog(rep)[2] = [op |-> "apply", by |-> r]
          BY <2>2, <4>1, ContractEntries
        <5> QED
          BY <2>8, <3>1, <4>1, <5>1
      <4>2. CASE scenario = 3
        <5>1. ContractLog(rep)[5] = [op |-> "apply", by |-> r]
          BY <2>2, <4>2, ContractEntries
        <5> QED
          BY <2>8, <3>1, <4>2, <5>1
      <4> QED
        BY <2>10, <4>1, <4>2
    <3>3. k \in 1 .. 5 /\ f \in Nat /\ f = 5 * (rep - 1) + k - 1 /\ Followed' = f + 1
      BY <2>7, <2>10
    <3>4. \A n \in 1 .. Repeat, j \in 1 .. 5 :
            5 * (n - 1) + j <= f => log[5 * (n - 1) + j] = ContractLog(n)[j]
      BY <2>8
    <3> HIDE DEF f, k
    <3>5. (\A i \in 1 .. f : log'[i] = log[i]) /\ log'[f + 1] = ContractLog(rep)[k]
      BY <1>1, <3>2
    <3>6. \A n \in 1 .. Repeat, j \in 1 .. 5 :
            5 * (n - 1) + j <= f + 1 => log'[5 * (n - 1) + j] = ContractLog(n)[j]
      BY <2>2, <3>3, <3>4, <3>5, HistoryExtends
    <3> QED
      BY <1>1, <2>7, <3>1, <3>3, <3>6 DEF HistoryFollows
  <2> QED
    BY <1>2, <2>2, <2>5, <2>6, <2>9, <2>10 DEF DemoInvariant, DemoAgrees
<1> QED
  BY <1>3, <1>4

\* Only the request of the current scenario is with a gateway or on its way to the device.
LEMMA OnlyCurrentIsOpen ==
  ASSUME DemoInvariant, ~failure, NEW r \in Requests,
         req[r].pc \in {"get_state", "apply"} \/ req[r].call = "sent"
  PROVE  dpc = "await" /\ r = request
<1>1. PICK n \in 1 .. Repeat, i \in 1 .. 3 : r = Labelled(n, i)
  BY RequestsAreLabelled
<1>2. FollowsAt(n, i)
  BY <1>1, FollowAll DEF DemoInvariant, DemoAgrees
<1>3. req[r].pc # "idle"
  BY OneRequest DEF RequestAgrees, DemoInvariant
<1>4. n = rep /\ i = scenario /\ dpc = "await"
  BY <1>1, <1>2, <1>3 DEF FollowsAt
<1> QED
  BY <1>1, <1>4, CurrentRequest

\* A step of a gateway's handler, and of the device, for the current request.
LEMMA LabDuringDemo ==
  ASSUME DemoInvariant, LabInvariant', PlaceAgrees', ~failure, UNCHANGED demoVars,
         NEW r \in Requests, dpc = "await", r = request, build' = build,
         \A s \in Requests \ {r} : req'[s] = req[s],
         req'[r].pc # "idle", req'[r].gateway = req[r].gateway,
         req'[r].package = req[r].package
  PROVE  /\ RequestsFollow' /\ BuildFollows'
         /\ rep \in Nat /\ Followed' = Followed /\ Followed \in Nat
         /\ Executed' <=> req'[r].call = "done"
<1>1. UNCHANGED <<dpc, held, rep, scenario, failure, exit>>
  BY DEF demoVars
<1>2. rep \in 1 .. Repeat /\ rep \in Nat /\ scenario \in 1 .. 3 /\ r = Labelled(rep, scenario)
  BY CurrentRequest
<1>3. ASSUME NEW n \in 1 .. Repeat, NEW i \in 1 .. 3 PROVE FollowsAt(n, i)'
  <2>1. FollowsAt(n, i) /\ Labelled(n, i) \in Requests /\ (Before(n, i)' <=> Before(n, i))
    BY <1>1, FollowAll, RequestsAreLabelled DEF DemoInvariant, DemoAgrees, Before
  <2>2. CASE n = rep /\ i = scenario
    <3>1. ~Before(n, i)
      BY <1>2, <2>2 DEF Before
    <3> QED
      BY <1>1, <1>2, <2>1, <2>2, <3>1 DEF FollowsAt, Labelled
  <2>3. CASE ~(n = rep /\ i = scenario)
    <3>1. Labelled(n, i) # r
      BY <1>2, <2>3, RequestsAreLabelled
    <3> QED
      BY <1>1, <2>1, <2>3, <3>1 DEF FollowsAt, Labelled
  <2> QED
    BY <2>2, <2>3
<1>4. RequestsFollow'
  BY <1>3, FollowAll
<1>5. BuildFollows'
  BY <1>1 DEF DemoInvariant, DemoAgrees, BuildFollows
<1>6. request' = r
  BY <1>1 DEF request, expected
<1>7. Followed' = Followed /\ Followed \in Nat /\ (Executed' <=> req'[r].call = "done")
  BY <1>1, <1>2, <1>6 DEF Followed, Executed
<1> QED
  BY <1>2, <1>4, <1>5, <1>7

LEMMA GatewayDuringDemo ==
  ASSUME DemoInvariant, PlaceAgrees', UNCHANGED demoVars, NEW r \in Requests, GatewayStep(r)
  PROVE  DemoInvariant'
<1>1. RequestStep(r) /\ LabInvariant'
  BY GatewaySteps, RequestStepKeeps DEF DemoInvariant
<1>2. CASE failure
  BY <1>1, <1>2, FailedDemo DEF demoVars
<1>3. CASE ~failure
  <2>1. req[r].pc \in {"get_state", "apply"}
    BY DEF GatewayStep, Serving, ReadState, ReadStateUnavailable, ApplyReturns,
           ApplyUnavailable, ApplyFailed, GatewayFails
  <2>2. dpc = "await" /\ r = request
    BY <1>3, <2>1, OnlyCurrentIsOpen
  <2>3. /\ UNCHANGED <<build, log>> /\ req'[r].pc # "idle"
        /\ \A s \in Requests \ {r} : req'[s] = req[s]
        /\ req'[r].package = req[r].package /\ req'[r].gateway = req[r].gateway
    BY <1>1, <2>1 DEF RequestStep
  <2>4. /\ RequestsFollow' /\ BuildFollows' /\ Followed' = Followed
        /\ Executed' <=> req'[r].call = "done"
    BY <1>1, <1>3, <2>2, <2>3, LabDuringDemo
  <2>5. Executed' <=> Executed
    <3>1. req'[r].call = "done" <=> req[r].call = "done"
      BY <1>1, ExecutedKept DEF DemoInvariant
    <3> QED
      BY <2>2, <2>4, <3>1 DEF Executed
  <2>6. request' = request /\ failure' = failure
    BY DEF request, expected, demoVars
  <2>7. HistoryFollows'
    BY <2>3, <2>4, <2>5, <2>6 DEF DemoInvariant, DemoAgrees, HistoryFollows
  <2> QED
    BY <1>1, <2>4, <2>7 DEF DemoInvariant, DemoAgrees
<1> QED
  BY <1>2, <1>3

LEMMA ApplyDuringDemo ==
  ASSUME DemoInvariant, PlaceAgrees', UNCHANGED demoVars, NEW r \in Requests, DeviceApply(r)
  PROVE  DemoInvariant'
<1> DEFINE e == [op |-> "apply", by |-> r]
<1>1. LabInvariant'
  BY ApplyStep DEF DemoInvariant
<1>2. CASE failure
  BY <1>1, <1>2, FailedDemo DEF demoVars
<1>3. CASE ~failure
  <2>1. req[r].call = "sent" /\ build' = build /\ log' = Append(log, e)
    BY DEF DeviceApply
  <2>2. dpc = "await" /\ r = request
    BY <1>3, <2>1, OnlyCurrentIsOpen
  <2>3. log \in Seq(Entries) /\ e \in Entries
    BY DEF DemoInvariant, LabInvariant, GatewayTypeOK, Entries
  <2>4. req'[r].call = "done" /\ \A s \in Requests \ {r} : req'[s] = req[s]
    <3> DEFINE q == [req[r] EXCEPT !.call = "done", !.after = AppliedState(req[r].result)]
    <3>1. req' = [req EXCEPT ![r] = q]
      BY DEF DeviceApply, DemoInvariant, LabInvariant, GatewayTypeOK
    <3>2. q.call = "done"
      BY OneRequest DEF DemoInvariant, RequestType, UpdateRequests
    <3> HIDE DEF q
    <3> QED
      BY <3>1, <3>2, ReplaceRequest DEF DemoInvariant, LabInvariant
  <2>5. /\ req'[r].pc # "idle" /\ req'[r].gateway = req[r].gateway
        /\ req'[r].package = req[r].package
    <3>1. req[r].pc # "idle"
      BY <2>1, OneRequest DEF RequestAgrees, DemoInvariant
    <3> QED
      BY <3>1, ApplyStep DEF DemoInvariant
  <2>6. /\ RequestsFollow' /\ BuildFollows' /\ Followed' = Followed /\ Followed \in Nat
        /\ Executed'
    BY <1>1, <1>3, <2>1, <2>2, <2>4, <2>5, LabDuringDemo
  <2>7. request' = request /\ failure' = failure
    BY DEF request, expected, demoVars
  <2>8. ~Executed
    BY <2>1, <2>2 DEF Executed
  <2>9. /\ Len(log) = Followed
        /\ \A n \in 1 .. Repeat, j \in 1 .. 5 :
             5 * (n - 1) + j <= Followed => log[5 * (n - 1) + j] = ContractLog(n)[j]
    <3>1. HistoryFollows /\ Followed + 0 = Followed
      BY <2>6 DEF DemoInvariant, DemoAgrees
    <3> QED
      BY <1>3, <2>8, <3>1 DEF HistoryFollows
  <2> HIDE DEF e
  <2>10. /\ Len(log') = Followed + 1 /\ log'[Followed + 1] = e
         /\ \A i \in 1 .. Followed : log'[i] = log[i]
    BY <2>1, <2>3, <2>9, AppendEntry
  <2>11. \A n \in 1 .. Repeat, j \in 1 .. 5 :
           5 * (n - 1) + j <= Followed => log'[5 * (n - 1) + j] = ContractLog(n)[j]
    <3> SUFFICES ASSUME NEW n \in 1 .. Repeat, NEW j \in 1 .. 5, 5 * (n - 1) + j <= Followed
                 PROVE  log'[5 * (n - 1) + j] = ContractLog(n)[j]
      OBVIOUS
    <3>1. 5 * (n - 1) + j \in 1 .. Followed
      BY <2>6, RepeatIs
    <3> QED
      BY <2>9, <2>10, <3>1
  <2>12. HistoryFollows'
    BY <2>2, <2>6, <2>7, <2>10, <2>11 DEF HistoryFollows, e
  <2> QED
    BY <1>1, <2>6, <2>12 DEF DemoInvariant, DemoAgrees
<1> QED
  BY <1>2, <1>3

-------------------------------------------------------------------------------
(* The invariant of the demo. *)

LEMMA DemoInit == Init => DemoInvariant
<1> SUFFICES ASSUME Init PROVE DemoInvariant
  OBVIOUS
<1>1. LabInvariant
  BY LabStarts DEF Init
<1>2. PlaceAgrees
  <2>1. dpc = "ports" /\ held = 0 /\ rep = 1 /\ scenario = 1 /\ ~failure /\ exit = None
        /\ failure \in BOOLEAN /\ up = {}
    BY DEF Init
  <2>2. OnlyHeldAreUp
    BY <2>1 DEF OnlyHeldAreUp
  <2> QED
    BY <2>1, <2>2, ContractIs, RepeatIs, DemoConstants DEF PlaceAgrees
<1>3. RequestsFollow
  <2> SUFFICES ASSUME NEW n \in 1 .. Repeat, NEW i \in 1 .. 3 PROVE FollowsAt(n, i)
    BY FollowAll
  <2>1. Labelled(n, i) \in Requests
    BY RequestsAreLabelled
  <2>2. ~Before(n, i) /\ req[Labelled(n, i)] = IdleRequest /\ dpc # "await"
    BY <2>1, RepeatIs DEF Init, Before
  <2> QED
    BY <2>2 DEF FollowsAt, IdleRequest
<1>4. HistoryFollows
  <2>1. Followed = 0 /\ ~Executed /\ log = <<>>
    BY DEF Init, Followed, Executed
  <2>2. \A n \in 1 .. Repeat, j \in 1 .. 5 : ~(5 * (n - 1) + j <= 0)
    BY RepeatIs
  <2> QED
    BY <2>1, <2>2 DEF HistoryFollows
<1>5. BuildFollows
  BY DEF Init, BuildFollows
<1> QED
  BY <1>1, <1>2, <1>3, <1>4, <1>5 DEF DemoInvariant, DemoAgrees

LEMMA DemoNext == DemoInvariant /\ [Next]_vars => DemoInvariant'
<1> SUFFICES ASSUME DemoInvariant, [Next]_vars PROVE DemoInvariant'
  OBVIOUS
<1>1. PlaceAgrees'
  BY PlaceKept DEF DemoInvariant, DemoAgrees
<1>2. CASE run_demo
  BY <1>1, <1>2, PassiveDemoStep, AssertDuringDemo, ResetDuringDemo, SubmitDuringDemo,
     AnswerDuringDemo DEF run_demo
<1>3. CASE Lab /\ LabFaults
  <2>1. LabInvariant' /\ UNCHANGED <<build, req, log>>
    BY <1>3, FaultStep DEF DemoInvariant
  <2> QED
    BY <1>1, <1>3, <2>1, QuietStep DEF Lab, demoVars
<1>4. ASSUME Lab, NEW r \in Requests, GatewayStep(r) \/ DeviceApply(r) PROVE DemoInvariant'
  BY <1>1, <1>4, GatewayDuringDemo, ApplyDuringDemo DEF Lab
<1>5. CASE \E s \in Services : ChildEnds(s)
  BY <1>1, <1>5, PassiveDemoStep
<1>6. CASE UNCHANGED vars
  <2>1. UNCHANGED <<device, up, keyfile, build, req, log, dpc, rep, scenario, failure>>
    BY <1>6 DEF vars, gatewayVars, demoVars
  <2>2. LabInvariant'
    BY <2>1, LabKept DEF DemoInvariant, LabInvariant, GatewayTypeOK
  <2> QED
    BY <1>1, <2>1, <2>2, QuietStep
<1> QED
  BY <1>2, <1>3, <1>4, <1>5, <1>6 DEF Next, Lab, LabStep

LEMMA DemoAlways == Spec => []DemoInvariant
  BY DemoInit, DemoNext, PTL DEF Spec

-------------------------------------------------------------------------------
(* The theorem. *)

\* A history that follows the contract to its end is the contract's, repetition by
\* repetition.
LEMMA WholeHistory ==
  ASSUME log \in Seq(Entries), Len(log) = 5 * Repeat, NEW n \in 1 .. Repeat,
         \A j \in 1 .. 5 : log[5 * (n - 1) + j] = ContractLog(n)[j]
  PROVE  SubSeq(log, 5 * n - 4, 5 * n) = ContractLog(n)
<1> DEFINE lo == 5 * n - 4
           hi == 5 * n
           part == SubSeq(log, lo, hi)
<1>1. /\ lo \in 1 .. Len(log) + 1 /\ hi \in lo - 1 .. Len(log)
      /\ lo <= hi /\ hi - lo + 1 = 5
      /\ \A j \in 1 .. 5 : lo + j - 1 = 5 * (n - 1) + j
  BY RepeatIs
<1>2. \A j \in 1 .. 5 : log[lo + j - 1] = ContractLog(n)[j]
  <2> TAKE j \in 1 .. 5
  <2>1. lo + j - 1 = 5 * (n - 1) + j
    BY <1>1
  <2> HIDE DEF lo
  <2> QED
    BY <2>1
<1> HIDE DEF lo, hi
<1>3. /\ part \in Seq(Entries) /\ Len(part) = 5
      /\ \A j \in 1 .. 5 : part[j] = log[lo + j - 1]
  BY <1>1, SubSeqProperties
<1>4. ContractLog(n) \in Seq(Entries) /\ Len(ContractLog(n)) = 5
  BY ContractEntries
<1> HIDE DEF part
<1>5. \A j \in 1 .. 5 : part[j] = ContractLog(n)[j]
  BY <1>2, <1>3
<1>6. part = ContractLog(n)
  BY <1>3, <1>4, <1>5, SeqEqual
<1> QED
  BY <1>6 DEF part, lo, hi

\* The exit code of run_phase2_demo.py can be relied on, however many repetitions were
\* asked for: after "pass" the device's history is the contract's in every repetition and
\* the patched build is in place, although run_demo never looks at the device, calls are
\* lost or late and the key file changes under it; and after "pass" or "fail" no service
\* is left.
THEOREM ExitTellsTheTruthAlways == Spec => []ExitTellsTheTruth
<1>1. DemoInvariant => ExitTellsTheTruth
  <2> SUFFICES ASSUME DemoInvariant PROVE ExitTellsTheTruth
    OBVIOUS
  <2>1. ASSUME exit = "pass"
        PROVE  /\ build = "signer_trust" /\ Len(log) = 5 * Repeat
               /\ \A n \in 1 .. Repeat : SubSeq(log, 5 * n - 4, 5 * n) = ContractLog(n)
    <3>1. dpc = "done" /\ ~failure /\ rep = Repeat /\ scenario = 4
      BY <2>1, DemoConstants DEF DemoInvariant, DemoAgrees, PlaceAgrees
    <3>2. Followed = 5 * Repeat /\ ~Executed
      BY <3>1, RepeatIs DEF Followed, Executed
    <3>3. /\ Len(log) = 5 * Repeat
          /\ \A n \in 1 .. Repeat, j \in 1 .. 5 :
               5 * (n - 1) + j <= 5 * Repeat => log[5 * (n - 1) + j] = ContractLog(n)[j]
      BY <3>1, <3>2, RepeatIs DEF DemoInvariant, DemoAgrees, HistoryFollows
    <3>4. build = "signer_trust"
      BY <3>1 DEF DemoInvariant, DemoAgrees, BuildFollows
    <3>5. log \in Seq(Entries)
      BY DEF DemoInvariant, LabInvariant, GatewayTypeOK, Entries
    <3>6. \A n \in 1 .. Repeat, j \in 1 .. 5 : 5 * (n - 1) + j <= 5 * Repeat
      BY RepeatIs
    <3> QED
      BY <3>3, <3>4, <3>5, <3>6, WholeHistory
  <2>2. ASSUME exit \in {"pass", "fail"} PROVE up = {}
    <3>1. held = 0
      BY <2>2 DEF DemoInvariant, DemoAgrees, PlaceAgrees
    <3> QED
      BY <3>1 DEF DemoInvariant, DemoAgrees, PlaceAgrees, OnlyHeldAreUp
  <2> QED
    BY <2>1, <2>2 DEF ExitTellsTheTruth
<1> QED
  BY <1>1, DemoAlways, PTL
===============================================================================
