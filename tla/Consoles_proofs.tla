------------------------------ MODULE Consoles_proofs ------------------------------
(***************************************************************************)
(* What the consoles guarantee for every number of approvals, users,       *)
(* policies, settings and changes: each console is proved by itself; a     *)
(* step of one leaves the others alone.                                    *)
(***************************************************************************)
EXTENDS Consoles, SettingsEditor_proofs, WellFoundedInduction

LEMMA Bounds ==
  /\ ActLimit \in Nat /\ ApprovalCount \in Nat /\ UserCount \in Nat
  /\ ApprovalActs \in Nat /\ UserActs \in Nat /\ RecoveryActs \in Nat /\ SetupActs \in Nat
  /\ MaxAge \in Nat /\ Horizon \in Nat
  BY ConsolesAssumption, SettingsAssumption

\* A set of naturals that is not empty has a least element.
LEMMA Smallest ==
  ASSUME NEW S \in SUBSET Nat, S # {}
  PROVE  \E x \in S : \A y \in S : x <= y
  <1> DEFINE R == OpToRel(<, Nat)
  <1>1. IsWellFoundedOn(R, Nat)
    BY NatLessThanWellFounded
  <1>2. \A x, y \in Nat : y < x => <<y, x>> \in R
    BY DEF OpToRel
  <1> HIDE DEF R
  <1>3. PICK x \in S : \A y \in S : ~(<<y, x>> \in R)
    BY <1>1, WFMin, Zenon
  <1>4. ASSUME NEW y \in S PROVE x <= y
    <2>1. x \in Nat /\ y \in Nat OBVIOUS
    <2>2. ~(y < x) BY <1>2, <1>3, <2>1
    <2> QED BY <2>1, <2>2
  <1> QED BY <1>4

\* What is ranked by a natural has a first element.
LEMMA LeastBy ==
  ASSUME NEW S, NEW rank \in [S -> Nat], S # {}
  PROVE  \E x \in S : \A y \in S : rank[x] <= rank[y]
  <1> DEFINE ranks == {rank[x] : x \in S}
  <1>1. ranks \in SUBSET Nat /\ ranks # {} OBVIOUS
  <1>2. PICK r \in ranks : \A q \in ranks : r <= q BY <1>1, Smallest
  <1> QED BY <1>2

-----------------------------------------------------------------------------
(* The guided setup.                                                       *)

LEMMA SetupStarts == Setup!Init => Setup!TypeOK
  <1> SUFFICES ASSUME Setup!Init PROVE Setup!TypeOK OBVIOUS
  <1>1. Setup!IsFacts(Setup!Fresh) /\ Setup!IsFacts(Setup!Serving)
    <2>1. DOMAIN Setup!Fresh = DOMAIN Setup!FactValues
      BY DEF Setup!Fresh, Setup!FactValues
    <2>2. DOMAIN Setup!Serving = DOMAIN Setup!FactValues
      BY DEF Setup!Serving, Setup!FactValues
    <2>3. \A key \in DOMAIN Setup!Fresh : Setup!Fresh[key] \in Setup!FactValues[key]
      <3>1. /\ Setup!Fresh.instance \in BOOLEAN /\ Setup!FactValues.instance = BOOLEAN
            /\ Setup!Fresh.accounts \in BOOLEAN /\ Setup!FactValues.accounts = BOOLEAN
            /\ Setup!Fresh.keys \in BOOLEAN /\ Setup!FactValues.keys = BOOLEAN
            /\ Setup!Fresh.traffic \in BOOLEAN /\ Setup!FactValues.traffic = BOOLEAN
            /\ Setup!Fresh.costly \in BOOLEAN /\ Setup!FactValues.costly = BOOLEAN
        BY DEF Setup!Fresh, Setup!FactValues
      <3>2. /\ Setup!Fresh.providers \in Setup!FactValues.providers
            /\ Setup!Fresh.trouble \in Setup!FactValues.trouble
            /\ Setup!Fresh.health \in Setup!FactValues.health
            /\ Setup!Fresh.security \in Setup!FactValues.security
            /\ Setup!Fresh.alerts \in Setup!FactValues.alerts
            /\ Setup!Fresh.routing \in Setup!FactValues.routing
        BY DEF Setup!Fresh, Setup!FactValues, Setup!Alarms
      <3>3. DOMAIN Setup!Fresh =
              {"instance", "providers", "trouble", "accounts", "keys", "traffic", "health",
               "security", "alerts", "routing", "costly"}
        BY DEF Setup!Fresh
      <3> QED BY <3>1, <3>2, <3>3
    <2>4. \A key \in DOMAIN Setup!Serving : Setup!Serving[key] \in Setup!FactValues[key]
      <3>1. /\ Setup!Serving.instance \in BOOLEAN /\ Setup!FactValues.instance = BOOLEAN
            /\ Setup!Serving.accounts \in BOOLEAN /\ Setup!FactValues.accounts = BOOLEAN
            /\ Setup!Serving.keys \in BOOLEAN /\ Setup!FactValues.keys = BOOLEAN
            /\ Setup!Serving.traffic \in BOOLEAN /\ Setup!FactValues.traffic = BOOLEAN
            /\ Setup!Serving.costly \in BOOLEAN /\ Setup!FactValues.costly = BOOLEAN
        BY DEF Setup!Serving, Setup!FactValues
      <3>2. /\ Setup!Serving.providers \in Setup!FactValues.providers
            /\ Setup!Serving.trouble \in Setup!FactValues.trouble
            /\ Setup!Serving.health \in Setup!FactValues.health
            /\ Setup!Serving.security \in Setup!FactValues.security
            /\ Setup!Serving.alerts \in Setup!FactValues.alerts
            /\ Setup!Serving.routing \in Setup!FactValues.routing
        BY DEF Setup!Serving, Setup!FactValues, Setup!Alarms
      <3>3. DOMAIN Setup!Serving =
              {"instance", "providers", "trouble", "accounts", "keys", "traffic", "health",
               "security", "alerts", "routing", "costly"}
        BY DEF Setup!Serving
      <3> QED BY <3>1, <3>2, <3>3
    <2>5. Setup!Fresh.trouble # "none" /\ Setup!Serving.providers # "none"
      BY DEF Setup!Fresh, Setup!Serving
    <2> QED BY <2>1, <2>2, <2>3, <2>4, <2>5 DEF Setup!IsFacts
  <1>2. acts \in 0 .. SetupActs BY Bounds DEF Setup!Init
  <1> QED BY <1>1, <1>2 DEF Setup!Init, Setup!TypeOK

LEMMA SetupKeepsTypes ==
  ASSUME Setup!TypeOK, Setup!Next PROVE Setup!TypeOK'
  <1>1. CASE Setup!Change
    <2>1. Setup!IsFacts(facts') BY <1>1 DEF Setup!Change
    <2>2. acts' \in 0 .. SetupActs BY <1>1, Bounds DEF Setup!Change, Setup!TypeOK
    <2>3. UNCHANGED <<rotate, admin, dashboard, shown, instances>>
      BY <1>1 DEF Setup!Change
    <2> QED BY <2>1, <2>2, <2>3 DEF Setup!TypeOK
  <1>2. CASE ~Setup!Change
    BY <1>2
    DEF Setup!Next, Setup!DashboardLoads, Setup!DashboardFails, Setup!InstancesLoad,
        Setup!InstancesFail, Setup!PasswordRotates, Setup!TypeOK
  <1> QED BY <1>1, <1>2

LEMMA FirstItem ==
  ASSUME NEW f, NEW items \in SUBSET Setup!Areas, items # {}
  PROVE  Setup!FirstOf(f, items) \in items
  <1> DEFINE rank == [a \in items |-> Setup!Rank(f, a)]
  <1>1. rank \in [items -> Nat]
    <2>1. ASSUME NEW a \in items PROVE Setup!Rank(f, a) \in Nat
      <3>1. Setup!Axis[a] \in Nat BY DEF Setup!Areas, Setup!Axis
      <3>2. CASE Setup!StatusOf(f)[a] = "blocked"
        BY <3>1, <3>2 DEF Setup!Rank
      <3>3. CASE Setup!StatusOf(f)[a] = "onboarding-only"
        BY <3>1, <3>3 DEF Setup!Rank
      <3>4. CASE Setup!StatusOf(f)[a] \notin {"blocked", "onboarding-only"}
        BY <3>1, <3>4 DEF Setup!Rank
      <3> QED BY <3>2, <3>3, <3>4
    <2> QED BY <2>1
  <1>2. PICK a \in items : \A b \in items : rank[a] <= rank[b] BY <1>1, LeastBy
  <1>3. \A b \in items : Setup!Rank(f, a) <= Setup!Rank(f, b) BY <1>2
  <1> QED BY <1>3 DEF Setup!FirstOf

LEMMA CurrentStep ==
  ASSUME NEW f, Setup!Open(f) # {}
  PROVE  Setup!Current(f) \in Setup!Open(f)
  <1>1. Setup!Open(f) \in SUBSET Nat BY DEF Setup!Open, Setup!StepIds
  <1>2. \E n \in Setup!Open(f) : \A m \in Setup!Open(f) : n <= m BY <1>1, Smallest
  <1> QED BY <1>2 DEF Setup!Current

\* Where something needs attention, its first item names a page.
LEMMA AttentionLeads ==
  ASSUME NEW f, Setup!Attention(f) # {}
  PROVE  /\ Setup!FirstOf(f, Setup!Attention(f)) \in Setup!Areas
         /\ Setup!RouteOf(Setup!FirstOf(f, Setup!Attention(f))) \in Setup!Pages
  <1>1. Setup!FirstOf(f, Setup!Attention(f)) \in Setup!Areas
    <2>1. Setup!Attention(f) \in SUBSET Setup!Areas BY DEF Setup!Attention
    <2> QED BY <2>1, FirstItem
  <1> QED BY <1>1 DEF Setup!RouteOf, Setup!Pages

LEMMA StepLeads ==
  ASSUME NEW f, NEW n \in Setup!Open(f)
  PROVE  Setup!StepRoute(f, n) \in Setup!Pages \ {"dashboard"}
  <1>1. n \in 2 .. 8 BY DEF Setup!Open, Setup!StepIds
  <1>2. CASE n = 8
    <2>1. Setup!Attention(f) # {} BY <1>2 DEF Setup!Open, Setup!Done
    <2>2. Setup!RouteOf(Setup!FirstOf(f, Setup!Attention(f))) \in Setup!Pages
      BY <2>1, AttentionLeads
    <2> DEFINE route == Setup!RouteOf(Setup!FirstOf(f, Setup!Attention(f)))
    <2>3. Setup!StepRoute(f, n) =
            IF route = "dashboard" THEN "release_validation" ELSE route
      BY <1>2, <2>1 DEF Setup!StepRoute, Setup!IsSetupSurface
    <2> HIDE DEF route
    <2> QED BY <2>2, <2>3 DEF Setup!Pages, route
  <1>3. CASE n # 8
    <2>1. n \in {2, 3, 4, 5, 6, 7} BY <1>1, <1>3
    <2>2. Setup!StepRoute(f, n) \in {"instances", "providers", "routing", "api_keys",
                                     "ingress_tls", "release_validation"}
      BY <2>1 DEF Setup!StepRoute
    <2> QED BY <2>2 DEF Setup!Pages, Setup!Areas
  <1> QED BY <1>2, <1>3

\* A button that would lead to the setup leads to a step that is open.
LEMMA ButtonLeads ==
  ASSUME NEW f
  PROVE  Setup!PrimaryAction(f) \in Setup!Pages \ {"dashboard"}
  <1> DEFINE goal == Setup!BackendAction(f)
  <1>1. CASE goal # "dashboard"
    <2>1. Setup!PrimaryAction(f) = goal
      BY <1>1 DEF Setup!PrimaryAction, Setup!IsSetupSurface
    <2>2. CASE Setup!Attention(f) = {}
      <3>1. goal = "release_validation" BY <1>1, <2>2 DEF Setup!BackendAction
      <3> QED BY <2>1, <3>1 DEF Setup!Pages
    <2>3. CASE Setup!Attention(f) # {}
      <3>1. goal = Setup!RouteOf(Setup!FirstOf(f, Setup!Attention(f)))
        BY <1>1, <2>3 DEF Setup!BackendAction
      <3> HIDE DEF goal
      <3> QED BY <1>1, <2>1, <2>3, <3>1, AttentionLeads
    <2> QED BY <2>2, <2>3
  <1>2. CASE goal = "dashboard"
    <2>1. Setup!Open(f) # {}
      <3>1. CASE Setup!EmptyState(f)
        <4>1. 5 \in Setup!Open(f)
          BY <3>1 DEF Setup!EmptyState, Setup!Open, Setup!StepIds, Setup!Done
        <4> QED BY <4>1
      <3>2. CASE ~Setup!EmptyState(f)
        <4>1. Setup!Attention(f) # {} BY <1>2, <3>2 DEF Setup!BackendAction
        <4>2. 8 \in Setup!Open(f)
          BY <4>1 DEF Setup!Open, Setup!StepIds, Setup!Done
        <4> QED BY <4>2
      <3> QED BY <3>1, <3>2
    <2>2. Setup!PrimaryAction(f) = Setup!StepRoute(f, Setup!Current(f))
      BY <1>2, <2>1 DEF Setup!PrimaryAction, Setup!IsSetupSurface
    <2> QED BY <2>1, <2>2, CurrentStep, StepLeads
  <1> QED BY <1>1, <1>2

LEMMA SetupLeads == Setup!SetupLeadsSomewhere
  BY ButtonLeads, ConsolesAssumption DEF Setup!SetupLeadsSomewhere

LEMMA LiveNeedsEverything == Setup!TypeOK => Setup!LiveIsJustified
  <1> SUFFICES ASSUME Setup!TypeOK, Setup!Loaded, admin,
                      Setup!OverallStatus(shown) = "live"
               PROVE  /\ shown.health = "ready" /\ shown.providers = "ready" /\ shown.keys
                      /\ shown.routing = "ready" /\ shown.security = "ready"
                      /\ shown.trouble = "none" /\ shown.alerts = "none" /\ ~shown.costly
    BY DEF Setup!LiveIsJustified
  <1>1. Setup!IsFacts(shown) BY DEF Setup!Loaded, Setup!TypeOK
  <1>2. /\ shown.trouble \in {"none", "warning", "critical"}
        /\ shown.alerts \in {"none", "warning", "critical"}
        /\ shown.security \in {"blocked", "degraded", "ready"}
        /\ shown.costly \in BOOLEAN
    BY <1>1 DEF Setup!IsFacts, Setup!FactValues, Setup!Alarms
  <1>3. \A n \in Setup!StepIds : Setup!Done(shown, n)
    BY DEF Setup!OverallStatus, Setup!Open
  <1>4. /\ Setup!Done(shown, 3) /\ Setup!Done(shown, 5) /\ Setup!Done(shown, 6)
        /\ Setup!Done(shown, 8)
    BY <1>3 DEF Setup!StepIds
  <1>5. /\ shown.providers = "ready" /\ shown.keys
        /\ Setup!ReadinessStatus(shown) = "ready" /\ Setup!Attention(shown) = {}
    BY <1>4 DEF Setup!Done
  <1>6. shown.health = "ready" BY <1>5 DEF Setup!ReadinessStatus
  <1>7. \A a \in Setup!Areas : Setup!StatusOf(shown)[a] = "ready"
    BY <1>5 DEF Setup!Attention
  <1>8. /\ Setup!StatusOf(shown).security = "ready" /\ Setup!StatusOf(shown).alert = "ready"
        /\ Setup!StatusOf(shown).provider = "ready" /\ Setup!StatusOf(shown).routing = "ready"
        /\ Setup!StatusOf(shown).cost = "ready"
    BY <1>7 DEF Setup!Areas
  <1>9. shown.security = "ready" BY <1>2, <1>8 DEF Setup!StatusOf, Setup!SecurityStatus
  <1>10. shown.alerts = "none" BY <1>2, <1>8 DEF Setup!StatusOf
  <1>11. shown.trouble = "none" BY <1>2, <1>8 DEF Setup!StatusOf
  <1>12. shown.routing = "ready" BY <1>8 DEF Setup!StatusOf, Setup!RoutingStatus
  <1>13. ~shown.costly BY <1>2, <1>8 DEF Setup!StatusOf, Setup!CostStatus
  <1> QED BY <1>5, <1>6, <1>9, <1>10, <1>11, <1>12, <1>13

-----------------------------------------------------------------------------
(* Recovery: verdicts are stored with the reports they are about.          *)

\* A restore that proved the identity has also validated the source.
RestoresFit ==
    \A p \in Policies : restore[p] # None => (restore[p].sound => restore[p].proven)

RecoveryInv == Recovery!TypeOK /\ RestoresFit

LEMMA RecoveryStarts == Recovery!Init => RecoveryInv
  <1> SUFFICES ASSUME Recovery!Init PROVE RecoveryInv OBVIOUS
  <1>1. policy \in [Policies -> Recovery!Maybe(Recovery!PolicyRecords)]
    BY DEF Recovery!Init, Recovery!Maybe
  <1>2. /\ backup \in [Policies -> Recovery!Maybe(Recovery!Reports)]
        /\ restore \in [Policies -> Recovery!Maybe(Recovery!Reports)]
    BY DEF Recovery!Init, Recovery!Maybe
  <1>3. now \in Recovery!Times /\ acts \in 0 .. RecoveryActs
    BY Bounds DEF Recovery!Init, Recovery!Times
  <1>4. RestoresFit BY DEF Recovery!Init, RestoresFit
  <1> QED BY <1>1, <1>2, <1>3, <1>4 DEF RecoveryInv, Recovery!TypeOK

LEMMA VerdictTyped ==
  ASSUME NEW record \in Recovery!PolicyRecords, NEW at \in Recovery!Times,
         NEW reported \in Recovery!ReportStatuses, NEW classes \in Recovery!Coverages,
         NEW expected \in BOOLEAN, NEW proven \in BOOLEAN
  PROVE  /\ Recovery!Verdict(record, at, reported, classes, expected, proven)
              \in Recovery!Reports
         /\ LET report == Recovery!Verdict(record, at, reported, classes, expected, proven)
            IN  report.sound => report.proven
  <1> DEFINE sound == record.pinned => expected /\ proven
             right == record.pinned => proven
             covers == Recovery!Covers(record, classes)
             report == Recovery!Verdict(record, at, reported, classes, expected, proven)
  <1>1. record.pinned \in BOOLEAN BY DEF Recovery!PolicyRecords
  <1>2. sound \in BOOLEAN /\ right \in BOOLEAN /\ covers \in BOOLEAN
    BY DEF Recovery!Covers
  <1>3. sound => right OBVIOUS
  <1>4. report = [at |-> at, status |-> reported, classes |-> classes, sound |-> sound,
                  proven |-> right, covers |-> covers]
    BY DEF Recovery!Verdict
  <1> HIDE DEF sound, right, covers, report
  <1>5. report \in Recovery!Reports BY <1>2, <1>4 DEF Recovery!Reports
  <1>6. report.sound => report.proven BY <1>3, <1>4
  <1> QED BY <1>5, <1>6 DEF report

LEMMA RecoveryKeepsInv ==
  ASSUME RecoveryInv, Recovery!Next PROVE RecoveryInv'
  <1>1. CASE Recovery!Tick
    <2>1. now' \in Recovery!Times
      BY <1>1, Bounds DEF Recovery!Tick, Recovery!Times, RecoveryInv, Recovery!TypeOK
    <2> QED BY <1>1, <2>1 DEF Recovery!Tick, RecoveryInv, Recovery!TypeOK, RestoresFit
  <1>2. ASSUME NEW p \in Policies, Recovery!Change(p) PROVE RecoveryInv'
    <2>1. acts' \in 0 .. RecoveryActs
      <3>1. Recovery!Act
        BY <1>2, Zenon
        DEF Recovery!Change, Recovery!CreatePolicy, Recovery!UpdatePolicy,
            Recovery!ImportBackupReport, Recovery!ImportRestoreReport
      <3> QED BY <3>1, Bounds DEF Recovery!Act, RecoveryInv, Recovery!TypeOK
    <2>2. ASSUME NEW record \in Recovery!PolicyRecords,
                 Recovery!CreatePolicy(p, record) \/ Recovery!UpdatePolicy(p, record)
          PROVE  RecoveryInv'
      <3>1. policy' = [policy EXCEPT ![p] = record] /\ UNCHANGED <<backup, restore, now>>
        BY <2>2 DEF Recovery!CreatePolicy, Recovery!UpdatePolicy
      <3>2. policy' \in [Policies -> Recovery!Maybe(Recovery!PolicyRecords)]
        BY <3>1 DEF RecoveryInv, Recovery!TypeOK, Recovery!Maybe
      <3> QED BY <2>1, <3>1, <3>2 DEF RecoveryInv, Recovery!TypeOK, RestoresFit
    <2>3. ASSUME NEW at \in 0 .. now, NEW reported \in Recovery!ReportStatuses,
                 NEW classes \in Recovery!Coverages, NEW expected \in BOOLEAN,
                 NEW proven \in BOOLEAN,
                 \/ Recovery!ImportBackupReport(p, at, reported, classes, expected)
                 \/ Recovery!ImportRestoreReport(p, at, reported, classes, expected, proven)
          PROVE  RecoveryInv'
      <3>1. at \in Recovery!Times
        BY Bounds DEF RecoveryInv, Recovery!TypeOK, Recovery!Times
      <3>2. policy[p] \in Recovery!PolicyRecords
        BY <2>3
        DEF Recovery!ImportBackupReport, Recovery!ImportRestoreReport, RecoveryInv,
            Recovery!TypeOK, Recovery!Maybe
      <3>3. CASE Recovery!ImportBackupReport(p, at, reported, classes, expected)
        <4> DEFINE report == Recovery!Verdict(policy[p], at, reported, classes, expected, TRUE)
        <4>1. report \in Recovery!Reports BY <3>1, <3>2, VerdictTyped
        <4>2. /\ backup' = [backup EXCEPT ![p] = Recovery!Later(@, report)]
              /\ UNCHANGED <<policy, restore, now>>
          BY <3>3 DEF Recovery!ImportBackupReport
        <4> HIDE DEF report
        <4>3. backup' \in [Policies -> Recovery!Maybe(Recovery!Reports)]
          BY <4>1, <4>2 DEF RecoveryInv, Recovery!TypeOK, Recovery!Maybe, Recovery!Later
        <4> QED BY <2>1, <4>2, <4>3 DEF RecoveryInv, Recovery!TypeOK, RestoresFit
      <3>4. CASE Recovery!ImportRestoreReport(p, at, reported, classes, expected, proven)
        <4> DEFINE report ==
              Recovery!Verdict(policy[p], at, reported, classes, expected, proven)
        <4>1. report \in Recovery!Reports /\ (report.sound => report.proven)
          BY <3>1, <3>2, VerdictTyped
        <4>2. /\ restore' = [restore EXCEPT ![p] = Recovery!Later(@, report)]
              /\ UNCHANGED <<policy, backup, now>>
          BY <3>4 DEF Recovery!ImportRestoreReport
        <4> HIDE DEF report
        <4>3. restore' \in [Policies -> Recovery!Maybe(Recovery!Reports)]
          BY <4>1, <4>2 DEF RecoveryInv, Recovery!TypeOK, Recovery!Maybe, Recovery!Later
        <4>4. RestoresFit'
          BY <4>1, <4>2
          DEF RecoveryInv, Recovery!TypeOK, RestoresFit, Recovery!Later
        <4> QED BY <2>1, <4>2, <4>3, <4>4 DEF RecoveryInv, Recovery!TypeOK
      <3> QED BY <2>3, <3>3, <3>4
    <2> QED BY <1>2, <2>2, <2>3 DEF Recovery!Change
  <1> QED BY <1>1, <1>2 DEF Recovery!Next

\* What keeps an active policy from being ok is on one of its two rows.
LEMMA OkMeansReadyRows ==
  ASSUME RecoveryInv, NEW p \in Recovery!Effective
  PROVE  Recovery!OverallStatus(p) = "ok" <=>
           /\ Recovery!BuildEvidenceRow(p, backup[p]) = "ready"
           /\ Recovery!BuildEvidenceRow(p, restore[p]) = "ready"
           /\ policy[p].validation = "ok"
  <1>1. p \in Policies /\ policy[p].active
    BY DEF Recovery!Effective, Recovery!Existing
  <1>2. restore[p] # None /\ ~Recovery!Faulty(restore[p]) => restore[p].proven
    BY <1>1 DEF RecoveryInv, RestoresFit, Recovery!Faulty
  <1>3. Recovery!OverallStatus(p) = "ok" <=>
          ~Recovery!Blocked(p) /\ ~Recovery!Mismatched(p)
    BY DEF Recovery!OverallStatus
  <1>4. \A report : Recovery!BuildEvidenceRow(p, report) = "ready" <=>
          report # None /\ Recovery!Fresh(report) /\ ~Recovery!Faulty(report)
    BY <1>1 DEF Recovery!BuildEvidenceRow
  <1>5. ~Recovery!Blocked(p) <=>
          /\ policy[p].validation # "blocked" /\ backup[p] # None /\ restore[p] # None
          /\ restore[p].proven
    BY <1>1 DEF Recovery!Blocked
  <1>6. ~Recovery!Mismatched(p) <=>
          /\ policy[p].validation = "ok"
          /\ ~Recovery!Faulty(backup[p]) /\ ~Recovery!Faulty(restore[p])
          /\ Recovery!Fresh(backup[p]) /\ Recovery!Fresh(restore[p])
    BY <1>1 DEF Recovery!Mismatched
  <1> QED BY <1>2, <1>3, <1>4, <1>5, <1>6

\* Every policy that covers a class shown as ready is ok.
LEMMA ReadyMeansOk ==
  ASSUME NEW d, Recovery!BuildCoverageRow(d) = "ready"
  PROVE  /\ Recovery!Covering(d) # {}
         /\ Recovery!Evidenced(backup, d) /\ Recovery!Evidenced(restore, d)
         /\ \A p \in Recovery!Covering(d) :
              Recovery!OverallStatus(p) = "ok" /\ ~Recovery!Mismatched(p)
  BY DEF Recovery!BuildCoverageRow

LEMMA ReadyIsProven == RecoveryInv => Recovery!ReadyRowsAreProven
  <1> SUFFICES ASSUME RecoveryInv, NEW d \in DataClasses,
                      Recovery!BuildCoverageRow(d) = "ready"
               PROVE  /\ \E p \in Recovery!Covering(d) :
                           policy[p].active /\ Recovery!Proves(backup[p], d)
                      /\ \E p \in Recovery!Covering(d) :
                           policy[p].active /\ Recovery!Proves(restore[p], d)
    BY DEF Recovery!ReadyRowsAreProven
  <1>1. \A p \in Recovery!Covering(d) :
          /\ p \in Policies /\ policy[p].active
          /\ ~Recovery!Faulty(backup[p]) /\ ~Recovery!Faulty(restore[p])
          /\ Recovery!Fresh(backup[p]) /\ Recovery!Fresh(restore[p])
    BY ReadyMeansOk
    DEF Recovery!Covering, Recovery!Effective, Recovery!Existing, Recovery!Mismatched
  <1>2. ASSUME NEW report \in Recovery!Maybe(Recovery!Reports), report # None,
               Recovery!Fresh(report), ~Recovery!Faulty(report), d \in report.classes
        PROVE  Recovery!Proves(report, d)
    <2>1. report.at \in Nat /\ now \in Nat
      BY <1>2 DEF Recovery!Reports, Recovery!Times, Recovery!Maybe, RecoveryInv, Recovery!TypeOK
    <2>2. now - report.at <= MaxAge BY <1>2, <2>1, Bounds DEF Recovery!Fresh
    <2> QED BY <1>2, <2>2 DEF Recovery!Proves, Recovery!Faulty
  <1>3. \A p \in Policies : /\ backup[p] \in Recovery!Maybe(Recovery!Reports)
                            /\ restore[p] \in Recovery!Maybe(Recovery!Reports)
    BY DEF RecoveryInv, Recovery!TypeOK
  <1>4. PICK p \in Recovery!Covering(d) : backup[p] # None /\ d \in backup[p].classes
    BY ReadyMeansOk DEF Recovery!Evidenced
  <1>5. PICK q \in Recovery!Covering(d) : restore[q] # None /\ d \in restore[q].classes
    BY ReadyMeansOk DEF Recovery!Evidenced
  <1> QED BY <1>1, <1>2, <1>3, <1>4, <1>5

LEMMA PageAgrees == RecoveryInv => Recovery!PageAgreesWithBackend
  <1> SUFFICES ASSUME RecoveryInv,
                      \A d \in DataClasses : Recovery!BuildCoverageRow(d) = "ready"
               PROVE  Recovery!RuntimeStatus = "ok"
    BY OkMeansReadyRows DEF Recovery!PageAgreesWithBackend
  <1>1. PICK d \in DataClasses : TRUE BY ConsolesAssumption
  <1>2. Recovery!Effective # {} BY <1>1, ReadyMeansOk DEF Recovery!Covering
  <1>3. ASSUME NEW p \in Recovery!Effective PROVE Recovery!OverallStatus(p) = "ok"
    <2>1. p \in Policies /\ policy[p] # None
      BY DEF Recovery!Effective, Recovery!Existing
    <2>2. policy[p].classes \in Recovery!Coverages
      BY <2>1 DEF RecoveryInv, Recovery!TypeOK, Recovery!Maybe, Recovery!PolicyRecords
    <2>3. PICK c \in DataClasses : c \in policy[p].classes
      BY <2>2 DEF Recovery!Coverages
    <2>4. p \in Recovery!Covering(c) BY <2>3 DEF Recovery!Covering
    <2> QED BY <2>4, ReadyMeansOk
  <1> QED BY <1>2, <1>3 DEF Recovery!RuntimeStatus

-----------------------------------------------------------------------------
(* The approval queue: what a commit of the page writes, and the rest.     *)

PageTyped ==
    /\ asked \in Approvals!Maybe(Approvals!Approvals)
    /\ selected \in Approvals!Maybe(Approvals!Approvals)
    /\ search \subseteq Approvals!Approvals
    /\ queue \in Approvals!Queues
    /\ detail \in Approvals!Maybe(Approvals!Records)
    /\ detailLoading \in BOOLEAN
    /\ detailLoad \in Approvals!Maybe([id : Approvals!Approvals,
                                       read : Approvals!Maybe(Approvals!Statuses)])
    /\ confirmation \in Approvals!Maybe([intent : Approvals!Intents, id : Approvals!Approvals])
    /\ outcome \in Approvals!Maybe(Approvals!Approvals)

CallsTyped ==
    /\ status \in [Approvals!Approvals -> Approvals!Statuses]
    /\ filter \in Approvals!StatusFilters
    /\ listLoad \in Approvals!Maybe(Approvals!ListLoads)
    /\ comment \in Approvals!Maybe(Approvals!Approvals)
    /\ decision \in Approvals!Maybe(Approvals!Decisions)
    /\ decided \subseteq Approvals!Approvals
    /\ acts \in 0 .. ApprovalActs

\* A record that can be decided is the one of the selected row, and the one a
\* confirmation was opened at.
PanelFits ==
    /\ detailLoad # None => detailLoad.id = selected /\ detailLoading
    /\ Approvals!Controls => detail.id = selected
    /\ confirmation # None => detail # None /\ confirmation.id = detail.id

\* Decisions are final, and known to be.
DecisionsFit ==
    /\ \A a \in decided : status[a] # "open"
    /\ decision # None /\ decision.phase \in {"done", "audit"} =>
         status[decision.id] # "open"

NotOpen(rows) == \A a \in decided \cap DOMAIN rows : rows[a] # "open"

\* The queue is right, or a load that will make it right is coming.
QueueFits ==
    \/ decision # None /\ decision.phase = "audit"
    \/ listLoad # None /\ (listLoad.read # None => NotOpen(listLoad.read))
    \/ listLoad = None /\ NotOpen(queue)

ApprovalsInv == PageTyped /\ CallsTyped /\ PanelFits /\ DecisionsFit /\ QueueFits

LEMMA ApprovalsTypes == PageTyped /\ CallsTyped <=> Approvals!TypeOK
  BY DEF PageTyped, CallsTyped, Approvals!TypeOK

LEMMA QueueTyped ==
  ASSUME NEW S \in SUBSET Approvals!Approvals, NEW rows \in [S -> Approvals!Statuses]
  PROVE  rows \in Approvals!Queues
  BY DEF Approvals!Queues

LEMMA QueueRows ==
  ASSUME NEW rows \in Approvals!Queues
  PROVE  /\ DOMAIN rows \in SUBSET Approvals!Approvals
         /\ \A a \in DOMAIN rows : rows[a] \in Approvals!Statuses
  BY DEF Approvals!Queues

LEMMA Numbered ==
  /\ Approvals!Approvals \subseteq Nat /\ None \notin Approvals!Approvals
  /\ <<>> \in Approvals!Queues /\ DOMAIN <<>> = {}
  <1>1. Approvals!Approvals \subseteq Nat BY Bounds DEF Approvals!Approvals
  <1>2. <<>> \in [{} -> Approvals!Statuses] OBVIOUS
  <1> QED BY <1>1, <1>2, QueueTyped, ConsolesAssumption

\* The order of the rows has a first one.
LEMMA FirstRowListed ==
  ASSUME NEW rows \in Approvals!Queues, NEW found, Approvals!Visible(rows, found) # {}
  PROVE  Approvals!FirstRow(rows, found) \in Approvals!Visible(rows, found)
  <1> DEFINE listed == Approvals!Visible(rows, found)
             next == ApprovalCount + 1
             place(x) == CASE rows[x] = "open" -> x
                           [] rows[x] = "approved" -> next + x
                           [] OTHER -> next + next + x
             rank == [x \in listed |-> place(x)]
  <1>1. \A x \in listed : /\ x \in 1 .. ApprovalCount
                          /\ rows[x] \in {"open", "approved", "rejected"}
    BY QueueRows
    DEF Approvals!Visible, Approvals!Approvals, Approvals!Statuses, Approvals!Resolved
  <1>2. next \in Nat /\ ApprovalCount < next BY Bounds
  <1> HIDE DEF next, listed
  <1>3. rank \in [listed -> Nat] BY <1>1, <1>2
  <1>4. PICK x \in listed : \A y \in listed : rank[x] <= rank[y]
    BY <1>3, LeastBy DEF listed
  <1>5. ASSUME NEW y \in listed PROVE Approvals!ComesBefore(rows, x, y)
    <2>1. place(x) <= place(y) BY <1>4
    <2>2. /\ Approvals!StatusOrder["open"] = 0 /\ Approvals!StatusOrder["approved"] = 1
          /\ Approvals!StatusOrder["rejected"] = 2
      BY DEF Approvals!StatusOrder
    <2>3. x \in 1 .. ApprovalCount /\ y \in 1 .. ApprovalCount /\ ApprovalCount \in Nat
      BY <1>1, Bounds
    <2> QED BY <1>1, <1>2, <2>1, <2>2, <2>3 DEF Approvals!ComesBefore
  <1> QED BY <1>5 DEF Approvals!FirstRow, listed

LEMMA SelectionTyped ==
  ASSUME NEW req, NEW rows \in Approvals!Queues, NEW found,
         NEW sel \in Approvals!Maybe(Approvals!Approvals)
  PROVE  Approvals!SelectionAfter(req, rows, found, sel)
           \in Approvals!Maybe(Approvals!Approvals)
  <1>1. Approvals!Visible(rows, found) \subseteq Approvals!Approvals
    BY QueueRows DEF Approvals!Visible
  <1> QED BY <1>1, FirstRowListed DEF Approvals!SelectionAfter, Approvals!Maybe

-----------------------------------------------------------------------------
(* One commit.                                                             *)

LEMMA CommitTyped ==
  ASSUME PageTyped, NEW req \in Approvals!Maybe(Approvals!Approvals),
         NEW found \in SUBSET Approvals!Approvals, NEW rows \in Approvals!Queues,
         NEW sel \in Approvals!Maybe(Approvals!Approvals),
         NEW record \in Approvals!Maybe(Approvals!Records),
         NEW conf \in {confirmation, None},
         NEW out \in Approvals!Maybe(Approvals!Approvals),
         Approvals!Commit(req, found, rows, sel, record, conf, out)
  PROVE  PageTyped'
  <1>1. /\ asked' = req /\ search' = found /\ queue' = rows
        /\ selected' = Approvals!SelectionAfter(req, rows, found, sel)
        /\ Approvals!RunDetail(sel, selected', rows, record)
        /\ Approvals!RunPanel(conf, out)
    BY DEF Approvals!Commit
  <1>2. selected' \in Approvals!Maybe(Approvals!Approvals) BY <1>1, SelectionTyped
  <1>3. /\ confirmation' \in {confirmation, None}
        /\ outcome' \in Approvals!Maybe(Approvals!Approvals)
    BY <1>1 DEF Approvals!RunPanel, Approvals!Maybe
  <1>4. detail' \in Approvals!Maybe(Approvals!Records) /\ detailLoading' \in BOOLEAN
    BY <1>1 DEF Approvals!RunDetail, PageTyped, Approvals!Maybe
  <1>5. CASE detailLoad' = detailLoad \/ detailLoad' = None
    BY <1>1, <1>2, <1>3, <1>4, <1>5 DEF PageTyped, Approvals!Maybe
  <1>6. CASE selected' # None /\ detailLoad' = [id |-> selected', read |-> None]
    BY <1>1, <1>2, <1>3, <1>4, <1>6 DEF PageTyped, Approvals!Maybe
  <1> QED BY <1>1, <1>5, <1>6 DEF Approvals!RunDetail

LEMMA CommitFits ==
  ASSUME PanelFits, NEW req, NEW found, NEW rows, NEW sel, NEW record,
         record \in {detail, None} \/ record.status # "open",
         NEW conf \in {confirmation, None}, NEW out,
         Approvals!Commit(req, found, rows, sel, record, conf, out)
  PROVE  PanelFits'
  <1>1. /\ Approvals!RunDetail(sel, selected', rows, record)
        /\ Approvals!RunPanel(conf, out)
    BY DEF Approvals!Commit
  <1>2. confirmation' # None => detail' # None /\ confirmation'.id = detail'.id
    BY <1>1 DEF Approvals!RunPanel, PanelFits
  <1>3. CASE /\ selected' = selected /\ detail' = record
             /\ UNCHANGED <<detailLoad, detailLoading>>
    BY <1>2, <1>3 DEF PanelFits, Approvals!Controls
  <1>4. CASE detail' = None /\ detailLoad' = None
    BY <1>2, <1>4 DEF PanelFits, Approvals!Controls
  <1>5. CASE detailLoad' = [id |-> selected', read |-> None] /\ detailLoading'
    BY <1>2, <1>5 DEF PanelFits, Approvals!Controls
  <1> QED BY <1>1, <1>3, <1>4, <1>5 DEF Approvals!RunDetail, Approvals!Scope

LEMMA PageKept ==
  ASSUME PageTyped, PanelFits,
         UNCHANGED <<asked, search, queue, selected, detail, detailLoading, detailLoad,
                     confirmation, outcome>>
  PROVE  PageTyped' /\ PanelFits'
  BY DEF PageTyped, PanelFits, Approvals!Controls

LEMMA DecisionsKept ==
  ASSUME DecisionsFit, UNCHANGED <<status, decided, decision>> PROVE DecisionsFit'
  BY DEF DecisionsFit

LEMMA QueueKept ==
  ASSUME QueueFits, UNCHANGED <<queue, decided, decision, listLoad>> PROVE QueueFits'
  BY DEF QueueFits, NotOpen

\* The queue that is left alone while a new load starts.
LEMMA QueueLoads ==
  ASSUME NEW f \in Approvals!StatusFilters, Approvals!LoadQueue(f)
  PROVE  listLoad' \in Approvals!ListLoads /\ QueueFits'
  <1>1. listLoad' = [filter |-> f, read |-> None] BY DEF Approvals!LoadQueue
  <1>2. listLoad' \in Approvals!ListLoads
    BY <1>1 DEF Approvals!ListLoads, Approvals!Maybe
  <1>3. listLoad' # None /\ listLoad'.read = None BY <1>1, <1>2, ConsolesAssumption
  <1> QED BY <1>2, <1>3 DEF QueueFits

-----------------------------------------------------------------------------
(* The steps of the approval queue.                                        *)

LEMMA ApprovalsStart == Approvals!Init => ApprovalsInv
  <1> SUFFICES ASSUME Approvals!Init PROVE ApprovalsInv OBVIOUS
  <1>1. Approvals!FilterAskedFor(asked) \in Approvals!StatusFilters
    BY DEF Approvals!FilterAskedFor, Approvals!StatusFilters
  <1>2. listLoad \in Approvals!ListLoads /\ listLoad # None /\ listLoad.read = None
    <2>1. listLoad = [filter |-> filter, read |-> None] /\ filter \in Approvals!StatusFilters
      BY <1>1 DEF Approvals!Init
    <2>2. listLoad \in Approvals!ListLoads
      BY <2>1 DEF Approvals!ListLoads, Approvals!Maybe
    <2> QED BY <2>1, <2>2, ConsolesAssumption
  <1>3. asked \in Approvals!Maybe(Approvals!Approvals) /\ selected = asked
    BY DEF Approvals!Init
  <1>4. detailLoad \in Approvals!Maybe([id : Approvals!Approvals,
                                       read : Approvals!Maybe(Approvals!Statuses)])
    BY <1>3 DEF Approvals!Init, Approvals!Maybe
  <1>5. PageTyped
    BY <1>3, <1>4, Numbered DEF Approvals!Init, PageTyped, Approvals!Maybe
  <1>6. CallsTyped
    <2>1. status \in [Approvals!Approvals -> Approvals!Statuses]
      BY DEF Approvals!Init, Approvals!Statuses
    <2>2. acts \in 0 .. ApprovalActs BY Bounds DEF Approvals!Init
    <2> QED BY <1>1, <1>2, <2>1, <2>2 DEF Approvals!Init, CallsTyped, Approvals!Maybe
  <1>7. PanelFits BY DEF Approvals!Init, PanelFits, Approvals!Controls
  <1>8. DecisionsFit BY DEF Approvals!Init, DecisionsFit
  <1>9. QueueFits BY <1>2 DEF QueueFits
  <1> QED BY <1>5, <1>6, <1>7, <1>8, <1>9 DEF ApprovalsInv

LEMMA QueueIsRead == ASSUME ApprovalsInv, Approvals!QueueRead PROVE ApprovalsInv'
  <1> DEFINE rows == Approvals!Restrict(status, Approvals!Matching(listLoad.filter))
             shownRows == Approvals!Matching(listLoad.filter)
  <1>1. /\ listLoad # None /\ listLoad.read = None
        /\ listLoad' = [listLoad EXCEPT !.read = rows]
        /\ UNCHANGED <<asked, search, queue, selected, detail, detailLoading, detailLoad,
                       confirmation, outcome>>
        /\ UNCHANGED <<status, filter, comment, decision, decided, acts>>
    BY DEF Approvals!QueueRead, Approvals!view, Approvals!panel
  <1>2. listLoad \in Approvals!ListLoads
    BY <1>1 DEF ApprovalsInv, CallsTyped, Approvals!Maybe
  <1>3. shownRows \subseteq Approvals!Approvals BY DEF Approvals!Matching
  <1>4. rows = [a \in shownRows |-> status[a]] BY DEF Approvals!Restrict
  <1>5. rows \in Approvals!Queues
    <2>1. rows \in [shownRows -> Approvals!Statuses]
      BY <1>3, <1>4 DEF ApprovalsInv, CallsTyped
    <2> QED BY <1>3, <2>1, QueueTyped
  <1>6. DOMAIN rows = shownRows /\ \A a \in shownRows : rows[a] = status[a] BY <1>4
  <1> HIDE DEF rows, shownRows
  <1>7. listLoad' \in Approvals!ListLoads /\ listLoad'.read = rows
    BY <1>1, <1>2, <1>5 DEF Approvals!ListLoads, Approvals!Maybe
  <1>8. listLoad' # None BY <1>7, ConsolesAssumption
  <1>9. QueueFits' BY <1>1, <1>6, <1>7, <1>8 DEF QueueFits, NotOpen, ApprovalsInv, DecisionsFit
  <1>10. PageTyped' /\ PanelFits' BY <1>1, PageKept DEF ApprovalsInv
  <1>11. DecisionsFit' BY <1>1, DecisionsKept DEF ApprovalsInv
  <1>12. CallsTyped' BY <1>1, <1>7 DEF ApprovalsInv, CallsTyped, Approvals!Maybe
  <1> QED BY <1>9, <1>10, <1>11, <1>12 DEF ApprovalsInv

LEMMA QueueIsAnswered ==
  ASSUME ApprovalsInv, Approvals!QueueAnswered \/ Approvals!QueueFails PROVE ApprovalsInv'
  <1>1. /\ listLoad # None /\ listLoad' = None
        /\ UNCHANGED <<status, filter, decision, comment, decided, acts>>
    BY DEF Approvals!QueueAnswered, Approvals!QueueFails
  <1>2. listLoad \in Approvals!ListLoads
    BY <1>1 DEF ApprovalsInv, CallsTyped, Approvals!Maybe
  <1>3. CallsTyped' BY <1>1 DEF ApprovalsInv, CallsTyped, Approvals!Maybe
  <1>4. DecisionsFit' BY <1>1, DecisionsKept DEF ApprovalsInv
  <1>5. PageTyped /\ PanelFits BY DEF ApprovalsInv
  <1>6. /\ asked \in Approvals!Maybe(Approvals!Approvals)
        /\ search \in SUBSET Approvals!Approvals
        /\ selected \in Approvals!Maybe(Approvals!Approvals)
        /\ None \in Approvals!Maybe(Approvals!Approvals)
        /\ detail \in Approvals!Maybe(Approvals!Records)
        /\ None \in Approvals!Maybe(Approvals!Records)
        /\ outcome \in Approvals!Maybe(Approvals!Approvals)
    BY <1>5 DEF PageTyped, Approvals!Maybe
  <1>7. CASE Approvals!QueueAnswered
    <2>1. /\ listLoad.read # None
          /\ Approvals!Commit(asked, search, listLoad.read, selected, detail, confirmation,
                              outcome)
      BY <1>7 DEF Approvals!QueueAnswered, Approvals!Refresh
    <2>2. listLoad.read \in Approvals!Queues
      BY <1>2, <2>1 DEF Approvals!ListLoads, Approvals!Maybe
    <2>3. PageTyped' BY <1>5, <1>6, <2>1, <2>2, CommitTyped
    <2>4. PanelFits' BY <1>5, <2>1, CommitFits
    <2>5. queue' = listLoad.read BY <2>1 DEF Approvals!Commit
    <2>6. QueueFits' BY <1>1, <2>1, <2>5 DEF ApprovalsInv, QueueFits, NotOpen
    <2> QED BY <1>3, <1>4, <2>3, <2>4, <2>6 DEF ApprovalsInv
  <1>8. CASE Approvals!QueueFails
    <2>1. Approvals!Commit(asked, search, <<>>, None, None, confirmation, outcome)
      BY <1>8 DEF Approvals!QueueFails
    <2>2. PageTyped' BY <1>5, <1>6, <2>1, Numbered, CommitTyped
    <2>3. PanelFits' BY <1>5, <2>1, CommitFits
    <2>4. queue' = <<>> BY <2>1 DEF Approvals!Commit
    <2>5. QueueFits' BY <1>1, <2>4, Numbered DEF QueueFits, NotOpen
    <2> QED BY <1>3, <1>4, <2>2, <2>3, <2>5 DEF ApprovalsInv
  <1> QED BY <1>7, <1>8

LEMMA RecordIsLoaded ==
  ASSUME ApprovalsInv, Approvals!RecordRead \/ Approvals!RecordAnswered \/ Approvals!RecordFails
  PROVE  ApprovalsInv'
  <1> DEFINE Loads == [id : Approvals!Approvals, read : Approvals!Maybe(Approvals!Statuses)]
  <1>1. /\ detailLoad # None /\ detailLoad \in Loads
        /\ detailLoad.id = selected /\ detailLoading
    BY DEF ApprovalsInv, PageTyped, PanelFits, Approvals!Maybe, Approvals!RecordRead,
           Approvals!RecordAnswered, Approvals!RecordFails
  <1>2. CASE Approvals!RecordRead
    <2>1. /\ detailLoad' = [detailLoad EXCEPT !.read = status[detailLoad.id]]
          /\ UNCHANGED <<asked, search, queue, selected, detail, detailLoading,
                         confirmation, outcome>>
          /\ UNCHANGED <<status, filter, listLoad, comment, decision, decided, acts>>
      BY <1>2 DEF Approvals!RecordRead, Approvals!view, Approvals!panel
    <2>2. status[detailLoad.id] \in Approvals!Statuses
      BY <1>1 DEF ApprovalsInv, CallsTyped
    <2>3. detailLoad' \in Loads /\ detailLoad'.id = selected
      BY <1>1, <2>1, <2>2 DEF Approvals!Maybe
    <2> HIDE DEF Loads
    <2>4. PageTyped' BY <2>1, <2>3 DEF ApprovalsInv, PageTyped, Approvals!Maybe, Loads
    <2>5. PanelFits' BY <1>1, <2>1, <2>3 DEF ApprovalsInv, PanelFits, Approvals!Controls
    <2>6. CallsTyped' BY <2>1 DEF ApprovalsInv, CallsTyped
    <2>7. DecisionsFit' /\ QueueFits' BY <2>1, DecisionsKept, QueueKept DEF ApprovalsInv
    <2> QED BY <2>4, <2>5, <2>6, <2>7 DEF ApprovalsInv
  <1>3. ASSUME NEW record \in Approvals!Maybe(Approvals!Records), Approvals!RecordEnds(record),
               record # None => record.id = selected
        PROVE  ApprovalsInv'
    <2>1. /\ detailLoad' = None /\ detailLoading' = FALSE /\ detail' = record
          /\ selected' = selected /\ Approvals!RunPanel(confirmation, outcome)
          /\ UNCHANGED <<asked, search, queue>>
          /\ UNCHANGED <<status, filter, listLoad, comment, decision, decided, acts>>
      BY <1>3 DEF Approvals!RecordEnds
    <2>2. /\ confirmation' \in {confirmation, None}
          /\ outcome' \in Approvals!Maybe(Approvals!Approvals)
          /\ confirmation' # None => detail' # None /\ confirmation'.id = detail'.id
      BY <2>1 DEF Approvals!RunPanel, ApprovalsInv, PageTyped, PanelFits, Approvals!Maybe
    <2>3. PageTyped' BY <1>3, <2>1, <2>2 DEF ApprovalsInv, PageTyped, Approvals!Maybe
    <2>4. PanelFits' BY <1>3, <2>1, <2>2 DEF PanelFits, Approvals!Controls
    <2>5. CallsTyped' BY <2>1 DEF ApprovalsInv, CallsTyped
    <2>6. DecisionsFit' /\ QueueFits' BY <2>1, DecisionsKept, QueueKept DEF ApprovalsInv
    <2> QED BY <2>3, <2>4, <2>5, <2>6 DEF ApprovalsInv
  <1>4. CASE Approvals!RecordAnswered
    <2>1. [id |-> detailLoad.id, status |-> detailLoad.read] \in Approvals!Records
      BY <1>1, <1>4 DEF Approvals!RecordAnswered, Approvals!Records, Approvals!Maybe
    <2> QED BY <1>1, <1>3, <1>4, <2>1 DEF Approvals!RecordAnswered, Approvals!Maybe
  <1>5. CASE Approvals!RecordFails
    BY <1>3, <1>5 DEF Approvals!RecordFails, Approvals!Maybe
  <1> QED BY <1>2, <1>4, <1>5

LEMMA ActCounted ==
  ASSUME acts \in 0 .. ApprovalActs, Approvals!Act PROVE acts' \in 0 .. ApprovalActs
  BY Bounds DEF Approvals!Act

LEMMA DecisionIsHandled ==
  ASSUME ApprovalsInv, Approvals!DecisionExecuted PROVE ApprovalsInv'
  <1>1. /\ decision # None /\ decision.phase = "sent"
        /\ UNCHANGED <<asked, search, queue, selected, detail, detailLoading, detailLoad,
                       confirmation, outcome>>
        /\ UNCHANGED <<filter, listLoad, comment, decided, acts>>
    BY DEF Approvals!DecisionExecuted, Approvals!In, Approvals!view, Approvals!panel
  <1>2. decision \in Approvals!Decisions
    BY <1>1 DEF ApprovalsInv, CallsTyped, Approvals!Maybe
  <1>3. decision.id \in Approvals!Approvals BY <1>2 DEF Approvals!Decisions
  <1>4. Approvals!Decides(decision.intent) \in Approvals!Statuses \ {"open"}
    BY DEF Approvals!Decides, Approvals!Statuses, Approvals!Resolved
  <1>5. PageTyped' /\ PanelFits' BY <1>1, PageKept DEF ApprovalsInv
  <1>6. status \in [Approvals!Approvals -> Approvals!Statuses] BY DEF ApprovalsInv, CallsTyped
  <1>7. CASE status[decision.id] = "open"
    <2>1. /\ status' = [status EXCEPT ![decision.id] = Approvals!Decides(decision.intent)]
          /\ decision' = [decision EXCEPT !.phase = "done"]
      BY <1>7 DEF Approvals!DecisionExecuted
    <2>2. /\ decision' \in Approvals!Decisions /\ decision'.phase = "done"
          /\ decision'.id = decision.id
      BY <1>2, <2>1 DEF Approvals!Decisions
    <2>3. /\ status' \in [Approvals!Approvals -> Approvals!Statuses]
          /\ status'[decision.id] # "open"
          /\ \A a \in Approvals!Approvals : a # decision.id => status'[a] = status[a]
      BY <1>3, <1>4, <1>6, <2>1
    <2>4. CallsTyped' BY <1>1, <2>2, <2>3 DEF ApprovalsInv, CallsTyped, Approvals!Maybe
    <2>5. DecisionsFit'
      BY <1>1, <2>2, <2>3 DEF ApprovalsInv, CallsTyped, DecisionsFit
    <2>6. QueueFits' BY <1>1, <2>2 DEF ApprovalsInv, QueueFits, NotOpen
    <2> QED BY <1>5, <2>4, <2>5, <2>6 DEF ApprovalsInv
  <1>8. CASE status[decision.id] # "open"
    <2>1. status' = status /\ decision' = [decision EXCEPT !.phase = "refused"]
      BY <1>8 DEF Approvals!DecisionExecuted
    <2>2. decision' \in Approvals!Decisions /\ decision'.phase = "refused"
      BY <1>2, <2>1 DEF Approvals!Decisions
    <2>3. CallsTyped' BY <1>1, <2>1, <2>2 DEF ApprovalsInv, CallsTyped, Approvals!Maybe
    <2>4. DecisionsFit' BY <1>1, <2>1, <2>2 DEF ApprovalsInv, DecisionsFit
    <2>5. QueueFits' BY <1>1, <2>2 DEF ApprovalsInv, QueueFits, NotOpen
    <2> QED BY <1>5, <2>3, <2>4, <2>5 DEF ApprovalsInv
  <1> QED BY <1>7, <1>8

\* The answer of a decision puts a decided record into the panel.
LEMMA DecisionIsAnswered ==
  ASSUME ApprovalsInv, Approvals!DecisionAnswered PROVE ApprovalsInv'
  <1> DEFINE id == decision.id
             rows == [a \in DOMAIN queue |-> IF a = id THEN status[id] ELSE queue[a]]
             record == [id |-> id, status |-> status[id]]
  <1>1. /\ decision # None /\ decision.phase = "done"
        /\ Approvals!Commit(asked, search, rows, selected, record, None, id)
        /\ comment' = None /\ decided' = decided \cup {id}
        /\ decision' = [decision EXCEPT !.phase = "audit"]
        /\ UNCHANGED <<status, filter, listLoad, acts>>
    BY DEF Approvals!DecisionAnswered, Approvals!In
  <1>2. decision \in Approvals!Decisions
    BY <1>1 DEF ApprovalsInv, CallsTyped, Approvals!Maybe
  <1>3. id \in Approvals!Approvals BY <1>2 DEF Approvals!Decisions
  <1>4. status[id] \in Approvals!Statuses /\ status[id] # "open"
    BY <1>1, <1>3 DEF ApprovalsInv, CallsTyped, DecisionsFit
  <1>5. rows \in Approvals!Queues
    <2>1. queue \in Approvals!Queues BY DEF ApprovalsInv, PageTyped
    <2>2. rows \in [DOMAIN queue -> Approvals!Statuses] BY <1>4, <2>1, QueueRows
    <2> QED BY <2>1, <2>2, QueueRows, QueueTyped
  <1>6. record \in Approvals!Maybe(Approvals!Records) /\ record.status # "open"
    BY <1>3, <1>4 DEF Approvals!Records, Approvals!Maybe
  <1>7. /\ asked \in Approvals!Maybe(Approvals!Approvals)
        /\ selected \in Approvals!Maybe(Approvals!Approvals)
        /\ search \in SUBSET Approvals!Approvals
        /\ id \in Approvals!Maybe(Approvals!Approvals)
    BY <1>3 DEF ApprovalsInv, PageTyped, Approvals!Maybe
  <1>8. decision' \in Approvals!Decisions /\ decision'.phase = "audit" /\ decision'.id = id
    BY <1>1, <1>2 DEF Approvals!Decisions
  <1> HIDE DEF id, rows, record
  <1>9. PageTyped' BY <1>1, <1>5, <1>6, <1>7, CommitTyped DEF ApprovalsInv
  <1>10. PanelFits' BY <1>1, <1>6, CommitFits DEF ApprovalsInv
  <1>11. CallsTyped'
    BY <1>1, <1>3, <1>8 DEF ApprovalsInv, CallsTyped, Approvals!Maybe
  <1>12. DecisionsFit' BY <1>1, <1>4, <1>8 DEF ApprovalsInv, DecisionsFit
  <1>13. QueueFits'
    <2>1. decision' # None BY <1>8, ConsolesAssumption
    <2> QED BY <1>8, <2>1 DEF QueueFits
  <1> QED BY <1>9, <1>10, <1>11, <1>12, <1>13 DEF ApprovalsInv

LEMMA DecisionEnds ==
  ASSUME ApprovalsInv, Approvals!DecisionFails \/ Approvals!ReloadAfterDecision
  PROVE  ApprovalsInv'
  <1>1. /\ decision # None /\ decision' = None
        /\ UNCHANGED <<asked, search, queue, selected, detail, detailLoading, detailLoad,
                       confirmation, outcome>>
        /\ UNCHANGED <<status, filter, comment, decided, acts>>
    BY DEF Approvals!DecisionFails, Approvals!ReloadAfterDecision, Approvals!In,
           Approvals!view, Approvals!panel
  <1>2. PageTyped' /\ PanelFits' BY <1>1, PageKept DEF ApprovalsInv
  <1>3. DecisionsFit' BY <1>1 DEF ApprovalsInv, DecisionsFit
  <1>4. CASE Approvals!DecisionFails
    <2>1. decision.phase # "audit" /\ listLoad' = listLoad
      BY <1>4 DEF Approvals!DecisionFails
    <2>2. QueueFits' BY <1>1, <2>1 DEF ApprovalsInv, QueueFits, NotOpen
    <2>3. CallsTyped' BY <1>1, <2>1 DEF ApprovalsInv, CallsTyped, Approvals!Maybe
    <2> QED BY <1>2, <1>3, <2>2, <2>3 DEF ApprovalsInv
  <1>5. CASE Approvals!ReloadAfterDecision
    <2>1. listLoad' \in Approvals!ListLoads /\ QueueFits'
      BY <1>5, QueueLoads DEF Approvals!ReloadAfterDecision, ApprovalsInv, CallsTyped
    <2>2. CallsTyped' BY <1>1, <2>1 DEF ApprovalsInv, CallsTyped, Approvals!Maybe
    <2> QED BY <1>2, <1>3, <2>1, <2>2 DEF ApprovalsInv
  <1> QED BY <1>4, <1>5

\* The reviewer changes what is listed and selected.
LEMMA ReviewerReads ==
  ASSUME ApprovalsInv,
         \/ \E a \in Approvals!Maybe(Approvals!Approvals) : Approvals!FollowLink(a)
         \/ \E f \in Approvals!StatusFilters : Approvals!ChangeFilter(f)
         \/ \E found \in SUBSET Approvals!Approvals : Approvals!Search(found)
         \/ \E a \in Approvals!Approvals : Approvals!SelectRow(a)
  PROVE  ApprovalsInv'
  <1>1. /\ Approvals!Act
        /\ UNCHANGED <<status, decision, comment, decided>>
    BY Zenon DEF Approvals!FollowLink, Approvals!ChangeFilter, Approvals!Search,
                 Approvals!SelectRow, Approvals!panel
  <1>2. acts' \in 0 .. ApprovalActs BY <1>1, ActCounted DEF ApprovalsInv, CallsTyped
  <1>3. DecisionsFit' BY <1>1, DecisionsKept DEF ApprovalsInv
  <1>4. /\ asked \in Approvals!Maybe(Approvals!Approvals)
        /\ search \in SUBSET Approvals!Approvals /\ queue \in Approvals!Queues
        /\ selected \in Approvals!Maybe(Approvals!Approvals)
        /\ detail \in Approvals!Maybe(Approvals!Records)
        /\ outcome \in Approvals!Maybe(Approvals!Approvals)
        /\ PageTyped /\ PanelFits
    BY DEF ApprovalsInv, PageTyped
  <1>5. ASSUME filter' \in Approvals!StatusFilters,
               listLoad' = listLoad \/ Approvals!LoadQueue(filter'), queue' = queue
        PROVE  CallsTyped' /\ QueueFits'
    <2>1. CASE listLoad' = listLoad
      BY <1>1, <1>2, <1>5, <2>1, QueueKept DEF ApprovalsInv, CallsTyped
    <2>2. CASE Approvals!LoadQueue(filter')
      BY <1>1, <1>2, <1>5, <2>2, QueueLoads DEF ApprovalsInv, CallsTyped, Approvals!Maybe
    <2> QED BY <1>5, <2>1, <2>2
  <1>6. ASSUME NEW req \in Approvals!Maybe(Approvals!Approvals),
               NEW found \in SUBSET Approvals!Approvals,
               NEW sel \in Approvals!Maybe(Approvals!Approvals),
               Approvals!Commit(req, found, queue, sel, detail, confirmation, outcome)
        PROVE  PageTyped' /\ PanelFits' /\ queue' = queue
    <2>1. PageTyped' BY <1>4, <1>6, CommitTyped
    <2>2. PanelFits' BY <1>4, <1>6, CommitFits
    <2> QED BY <1>6, <2>1, <2>2 DEF Approvals!Commit
  <1>7. ASSUME NEW a \in Approvals!Maybe(Approvals!Approvals), Approvals!FollowLink(a)
        PROVE  ApprovalsInv'
    <2>1. Approvals!Commit(a, search, queue, IF a = None THEN selected ELSE a, detail,
                           confirmation, outcome)
      BY <1>7 DEF Approvals!FollowLink
    <2>2. (IF a = None THEN selected ELSE a) \in Approvals!Maybe(Approvals!Approvals)
      BY <1>4
    <2>3. PageTyped' /\ PanelFits' /\ queue' = queue BY <1>4, <1>6, <2>1, <2>2
    <2>4. /\ filter' \in Approvals!StatusFilters
          /\ listLoad' = listLoad \/ Approvals!LoadQueue(filter')
      BY <1>7
      DEF Approvals!FollowLink, ApprovalsInv, CallsTyped, Approvals!FilterAskedFor,
          Approvals!StatusFilters
    <2> QED BY <1>3, <1>5, <2>3, <2>4 DEF ApprovalsInv
  <1>8. ASSUME NEW f \in Approvals!StatusFilters, Approvals!ChangeFilter(f)
        PROVE  ApprovalsInv'
    <2>1. /\ filter' = f /\ Approvals!LoadQueue(filter')
          /\ UNCHANGED <<asked, search, queue, selected, detail, detailLoading, detailLoad,
                         confirmation, outcome>>
      BY <1>8 DEF Approvals!ChangeFilter, Approvals!panel
    <2>2. PageTyped' /\ PanelFits' BY <1>4, <2>1, PageKept
    <2> QED BY <1>3, <1>5, <2>1, <2>2 DEF ApprovalsInv
  <1>9. ASSUME NEW found \in SUBSET Approvals!Approvals, Approvals!Search(found)
        PROVE  ApprovalsInv'
    <2>1. /\ Approvals!Commit(asked, found, queue, selected, detail, confirmation, outcome)
          /\ UNCHANGED <<filter, listLoad>>
      BY <1>9 DEF Approvals!Search
    <2>2. PageTyped' /\ PanelFits' /\ queue' = queue BY <1>4, <1>6, <2>1
    <2>3. filter' \in Approvals!StatusFilters BY <2>1 DEF ApprovalsInv, CallsTyped
    <2> QED BY <1>3, <1>5, <2>1, <2>2, <2>3 DEF ApprovalsInv
  <1>10. ASSUME NEW a \in Approvals!Approvals, Approvals!SelectRow(a) PROVE ApprovalsInv'
    <2>1. /\ Approvals!Commit(asked, search, queue, a, detail, confirmation, outcome)
          /\ UNCHANGED <<filter, listLoad>>
      BY <1>10 DEF Approvals!SelectRow
    <2>2. a \in Approvals!Maybe(Approvals!Approvals) BY DEF Approvals!Maybe
    <2>3. PageTyped' /\ PanelFits' /\ queue' = queue BY <1>4, <1>6, <2>1, <2>2
    <2>4. filter' \in Approvals!StatusFilters BY <2>1 DEF ApprovalsInv, CallsTyped
    <2> QED BY <1>3, <1>5, <2>1, <2>3, <2>4 DEF ApprovalsInv
  <1> QED BY <1>7, <1>8, <1>9, <1>10

\* The reviewer comments, confirms and decides at an open record.
LEMMA ReviewerDecides ==
  ASSUME ApprovalsInv,
         \/ \E i \in Approvals!Intents : Approvals!StartDecisionConfirmation(i)
         \/ Approvals!WriteComment \/ Approvals!CancelConfirmation \/ Approvals!OnDecision
  PROVE  ApprovalsInv'
  <1>1. /\ Approvals!Controls /\ Approvals!Act
        /\ UNCHANGED <<asked, filter, search, queue, selected, detail, detailLoading>>
        /\ UNCHANGED <<status, listLoad, detailLoad, decided>>
    BY Zenon DEF Approvals!StartDecisionConfirmation, Approvals!WriteComment,
                 Approvals!CancelConfirmation, Approvals!OnDecision, Approvals!view,
                 Approvals!request
  <1>2. acts' \in 0 .. ApprovalActs BY <1>1, ActCounted DEF ApprovalsInv, CallsTyped
  <1>3. detail # None /\ detail.id \in Approvals!Approvals
    BY <1>1 DEF Approvals!Controls, ApprovalsInv, PageTyped, Approvals!Maybe, Approvals!Records
  <1>4. ASSUME \/ confirmation' = None \/ UNCHANGED confirmation
               \/ \E i \in Approvals!Intents :
                    confirmation' = [intent |-> i, id |-> detail.id],
               outcome' = None \/ UNCHANGED outcome
        PROVE  PageTyped' /\ PanelFits'
    <2>1. /\ confirmation' \in Approvals!Maybe([intent : Approvals!Intents,
                                                id : Approvals!Approvals])
          /\ confirmation' # None => confirmation'.id = detail.id
      BY <1>3, <1>4 DEF ApprovalsInv, PageTyped, PanelFits, Approvals!Maybe
    <2>2. outcome' \in Approvals!Maybe(Approvals!Approvals)
      BY <1>4 DEF ApprovalsInv, PageTyped, Approvals!Maybe
    <2>3. PageTyped' BY <1>1, <2>1, <2>2 DEF ApprovalsInv, PageTyped
    <2>4. PanelFits' BY <1>1, <1>3, <2>1 DEF ApprovalsInv, PanelFits, Approvals!Controls
    <2> QED BY <2>3, <2>4
  <1>5. ASSUME comment' \in Approvals!Maybe(Approvals!Approvals), decision' = decision
        PROVE  CallsTyped' /\ DecisionsFit' /\ QueueFits'
    BY <1>1, <1>2, <1>5, DecisionsKept, QueueKept DEF ApprovalsInv, CallsTyped
  <1>6. CASE \E i \in Approvals!Intents : Approvals!StartDecisionConfirmation(i)
    <2>1. PICK i \in Approvals!Intents : Approvals!StartDecisionConfirmation(i) BY <1>6
    <2>2. /\ confirmation' = [intent |-> i, id |-> detail.id]
          /\ UNCHANGED <<comment, decision, outcome>>
      BY <2>1 DEF Approvals!StartDecisionConfirmation, Approvals!request
    <2> QED BY <1>4, <1>5, <2>2 DEF ApprovalsInv, CallsTyped
  <1>7. CASE Approvals!WriteComment
    <2>1. comment' = detail.id /\ UNCHANGED <<confirmation, decision, outcome>>
      BY <1>7 DEF Approvals!WriteComment, Approvals!request
    <2>2. comment' \in Approvals!Maybe(Approvals!Approvals)
      BY <1>3, <2>1 DEF Approvals!Maybe
    <2> QED BY <1>4, <1>5, <2>1, <2>2 DEF ApprovalsInv
  <1>8. CASE Approvals!CancelConfirmation
    <2>1. confirmation' = None /\ UNCHANGED <<comment, decision, outcome>>
      BY <1>8 DEF Approvals!CancelConfirmation, Approvals!request
    <2> QED BY <1>4, <1>5, <2>1 DEF ApprovalsInv, CallsTyped
  <1>9. CASE Approvals!OnDecision
    <2> DEFINE sent == [id |-> detail.id, intent |-> confirmation.intent,
                        confirmed |-> confirmation.id, comment |-> comment,
                        phase |-> "sent"]
    <2>1. /\ confirmation # None /\ decision = None /\ decision' = sent
          /\ outcome' = None /\ UNCHANGED <<comment, confirmation>>
      BY <1>9 DEF Approvals!OnDecision
    <2>2. confirmation.intent \in Approvals!Intents /\ confirmation.id \in Approvals!Approvals
      BY <2>1 DEF ApprovalsInv, PageTyped, Approvals!Maybe
    <2>3. comment \in Approvals!Maybe(Approvals!Approvals) BY DEF ApprovalsInv, CallsTyped
    <2>4. sent \in Approvals!Decisions /\ sent.phase = "sent"
      BY <1>3, <2>2, <2>3 DEF Approvals!Decisions
    <2> HIDE DEF sent
    <2>5. CallsTyped'
      BY <1>1, <1>2, <2>1, <2>4 DEF ApprovalsInv, CallsTyped, Approvals!Maybe
    <2>6. DecisionsFit' BY <1>1, <2>1, <2>4 DEF ApprovalsInv, DecisionsFit
    <2>7. QueueFits' BY <1>1, <2>1 DEF ApprovalsInv, QueueFits, NotOpen
    <2> QED BY <1>4, <2>1, <2>5, <2>6, <2>7 DEF ApprovalsInv
  <1> QED BY <1>6, <1>7, <1>8, <1>9

LEMMA OthersAreApart ==
  ASSUME ApprovalsInv, NEW a \in Approvals!Approvals, NEW s \in Approvals!Resolved,
         Approvals!OthersDecide(a, s)
  PROVE  ApprovalsInv'
  <1>1. /\ Approvals!Act /\ status' = [status EXCEPT ![a] = s]
        /\ UNCHANGED <<asked, search, queue, selected, detail, detailLoading, detailLoad,
                       confirmation, outcome>>
        /\ UNCHANGED <<filter, listLoad, comment, decision, decided>>
    BY DEF Approvals!OthersDecide, Approvals!view, Approvals!request, Approvals!panel
  <1>2. acts' \in 0 .. ApprovalActs BY <1>1, ActCounted DEF ApprovalsInv, CallsTyped
  <1>3. /\ status' \in [Approvals!Approvals -> Approvals!Statuses]
        /\ \A b \in Approvals!Approvals : status[b] # "open" => status'[b] # "open"
    BY <1>1 DEF ApprovalsInv, CallsTyped, Approvals!Statuses, Approvals!Resolved
  <1>4. PageTyped' /\ PanelFits' BY <1>1, PageKept DEF ApprovalsInv
  <1>5. CallsTyped' BY <1>1, <1>2, <1>3 DEF ApprovalsInv, CallsTyped
  <1>6. DecisionsFit'
    <2>1. decision # None => decision.id \in Approvals!Approvals
      BY DEF ApprovalsInv, CallsTyped, Approvals!Maybe, Approvals!Decisions
    <2> QED BY <1>1, <1>3, <2>1 DEF ApprovalsInv, CallsTyped, DecisionsFit
  <1>7. QueueFits' BY <1>1, QueueKept DEF ApprovalsInv
  <1> QED BY <1>4, <1>5, <1>6, <1>7 DEF ApprovalsInv

LEMMA ApprovalsKeepInv == ASSUME ApprovalsInv, Approvals!Next PROVE ApprovalsInv'
  BY QueueIsRead, QueueIsAnswered, RecordIsLoaded, DecisionIsHandled, DecisionIsAnswered,
     DecisionEnds, ReviewerReads, ReviewerDecides, OthersAreApart
  DEF Approvals!Next, Approvals!Loads, Approvals!Decision, Approvals!Reviewer

\* A decision starts at the panel, where the record fits.
LEMMA DecisionStarts ==
  ASSUME ApprovalsInv, Approvals!Next, decision = None, decision' # None
  PROVE  decision'.id = selected /\ decision'.id = decision'.confirmed
  <1>1. Approvals!OnDecision
    BY Zenon
    DEF Approvals!Next, Approvals!Loads, Approvals!Decision, Approvals!Reviewer,
        Approvals!QueueRead, Approvals!QueueAnswered, Approvals!QueueFails,
        Approvals!RecordRead, Approvals!RecordAnswered, Approvals!RecordFails,
        Approvals!RecordEnds, Approvals!DecisionExecuted, Approvals!DecisionAnswered,
        Approvals!In, Approvals!DecisionFails, Approvals!ReloadAfterDecision,
        Approvals!FollowLink, Approvals!ChangeFilter, Approvals!Search, Approvals!SelectRow,
        Approvals!StartDecisionConfirmation, Approvals!WriteComment,
        Approvals!CancelConfirmation, Approvals!OthersDecide, Approvals!request
  <1> QED BY <1>1 DEF Approvals!OnDecision, ApprovalsInv, PanelFits

LEMMA AtRestDecidedIsListed == ApprovalsInv => Approvals!DecidedIsNotListedOpen
  BY DEF ApprovalsInv, QueueFits, NotOpen, Approvals!DecidedIsNotListedOpen, Approvals!AtRest

-----------------------------------------------------------------------------
(* The security page: its server and session, its calls and loads, and the *)
(* editor of the selected user.                                            *)

Tasks == Security!Handlers \cup Security!Effects

\* What a handler may have on its way: the calls that write name what they write.
CallsOf(h) ==
    {call \in Security!Calls :
       /\ h \in Security!Handlers
       /\ h \in {"create", "profile"} => call.user # None /\ call.role # None
       /\ h = "scope" => call.user # None}

TaskOf(h) == Security!Maybe(CallsOf(h) \cup Security!Loads)

TasksFit(t) == DOMAIN t = Tasks /\ \A h \in Tasks : t[h] \in TaskOf(h)

AccessTyped ==
    /\ roster \in Security!Rosters
    /\ scopeCount \in [Security!Users -> Nat] /\ told \in [Security!Users -> Nat]
    /\ grant \in Security!Maybe(Security!Grants)
    /\ shownGrant \in Security!Maybe(Security!Grants)
    /\ session \in Security!Sessions
    /\ failed \in BOOLEAN /\ acts \in 0 .. UserActs

EditorTyped ==
    /\ users \in Security!Rosters
    /\ chosenUser \in Security!Maybe(DOMAIN users)
    /\ draft \in Security!Maybe(Security!Roles)
    /\ scopes \in Security!Maybe([user : Security!Users, count : 0 .. UserActs])
    /\ scopeLoad \in Security!Maybe(Security!ScopeLoads)
    /\ chosen \in Security!Maybe(Security!ProfileChoices)

\* A draft that differs from the role shown was chosen for this very user.
DraftFits ==
    chosenUser # None =>
      /\ draft \in Security!Roles
      /\ draft # users[chosenUser] =>
           chosen # None /\ chosen.user = chosenUser /\ chosen.role = draft

\* Scopes are loaded for, and shown of, the selected user.
ScopesFit ==
    /\ scopeLoad # None => scopeLoad.user = chosenUser
    /\ scopeLoad = None /\ scopes # None => scopes.user = chosenUser

\* Every change of scopes is an act; what the admin was told has happened.
ScopesCounted ==
    /\ \A u \in Security!Users : scopeCount[u] <= acts /\ told[u] <= scopeCount[u]
    /\ tasks["scope"] # None /\ tasks["scope"].phase = "sent" =>
         \A u \in Security!Users : scopeCount[u] < acts

\* What the page knows of a request for access exists.
GrantFits ==
    /\ shownGrant # None => grant # None
    /\ \A h \in Tasks : tasks[h] # None /\ tasks[h].phase = "load" =>
         (tasks[h].grant # None => grant # None)
    /\ tasks["issue"] # None /\ tasks["issue"].phase # "load" => grant # None

PageLoads == \E h \in Tasks : tasks[h] # None /\ tasks[h].phase = "load"

ScopesNew ==
    \/ scopeLoad # None /\ (scopeLoad.count # None => scopeLoad.count >= told[chosenUser])
    \/ scopeLoad = None /\ (scopes # None => scopes.count >= told[chosenUser])

\* The scopes shown are new enough, or a load that will renew them is coming.
ScopesCurrent == failed \/ PageLoads \/ ScopesNew

SecurityInv ==
    /\ AccessTyped /\ EditorTyped /\ TasksFit(tasks)
    /\ DraftFits /\ ScopesFit /\ ScopesCounted /\ GrantFits /\ ScopesCurrent

-----------------------------------------------------------------------------
LEMMA UsersNumbered ==
  /\ Security!Users \subseteq Nat /\ None \notin Security!Users
  /\ None \notin Security!Roles
  /\ <<>> \in Security!Rosters /\ DOMAIN <<>> = {}
  <1>1. Security!Users \subseteq Nat BY Bounds DEF Security!Users
  <1>2. <<>> \in [{} -> Security!Roles] OBVIOUS
  <1> QED BY <1>1, <1>2, ConsolesAssumption DEF Security!Rosters

LEMMA RosterTyped ==
  ASSUME NEW S \in SUBSET Security!Users, NEW rows \in [S -> Security!Roles]
  PROVE  rows \in Security!Rosters
  BY DEF Security!Rosters

LEMMA RosterRows ==
  ASSUME NEW rows \in Security!Rosters
  PROVE  /\ DOMAIN rows \in SUBSET Security!Users
         /\ \A u \in DOMAIN rows : rows[u] \in Security!Roles
  BY DEF Security!Rosters

LEMMA TaskNames ==
  /\ {"create", "profile", "scope", "request", "issue"} = Security!Handlers
  /\ Security!Handlers \subseteq Tasks /\ "session" \in Tasks
  /\ "session" \notin Security!Handlers
  BY DEF Tasks, Security!Handlers, Security!Effects

LEMMA TaskPhases ==
  ASSUME NEW h, NEW task \in TaskOf(h), task # None
  PROVE  /\ task.phase = "load" => task \in Security!Loads
         /\ task.phase # "load" => task \in CallsOf(h)
  BY DEF TaskOf, CallsOf, Security!Maybe, Security!Calls, Security!Loads

LEMMA TaskReplaced ==
  ASSUME NEW t, TasksFit(t), NEW h \in Tasks, NEW task \in TaskOf(h)
  PROVE  /\ TasksFit([t EXCEPT ![h] = task])
         /\ [t EXCEPT ![h] = task][h] = task
         /\ \A k \in Tasks : k # h => [t EXCEPT ![h] = task][k] = t[k]
  BY DEF TasksFit

LEMMA NewLoadTyped ==
  ASSUME NEW branch \in BOOLEAN, NEW sess \in Security!Sessions
  PROVE  /\ Security!NewLoad(branch, sess) \in Security!Loads
         /\ Security!NewLoad(branch, sess) # None
         /\ Security!NewLoad(branch, sess).phase = "load"
         /\ Security!NewLoad(branch, sess).grant = None
  <1> DEFINE allowed == branch => sess.admin
             load == Security!NewLoad(branch, sess)
  <1>1. allowed \in BOOLEAN OBVIOUS
  <1>2. load = [phase |-> "load", admin |-> branch, allowed |-> allowed, read |-> None,
                grant |-> None]
    BY DEF Security!NewLoad
  <1> HIDE DEF allowed, load
  <1>3. load \in Security!Loads BY <1>1, <1>2 DEF Security!Loads, Security!Maybe
  <1>4. load # None BY <1>3, ConsolesAssumption
  <1>5. load.phase = "load" /\ load.grant = None BY <1>2
  <1> QED BY <1>3, <1>4, <1>5 DEF load

LEMMA SelectionListed ==
  ASSUME NEW rows \in Security!Rosters, NEW sel
  PROVE  Security!Selection(rows, sel) \in Security!Maybe(DOMAIN rows)
  <1>1. DOMAIN rows \in SUBSET Nat BY RosterRows, UsersNumbered
  <1>2. DOMAIN rows # {} => Security!Min(DOMAIN rows) \in DOMAIN rows
    BY <1>1, Smallest DEF Security!Min
  <1> QED BY <1>2 DEF Security!Selection, Security!Maybe

\* One commit: the editor fits its user, and the scopes are loaded anew.
LEMMA PageCommitted ==
  ASSUME EditorTyped, DraftFits, NEW rows \in Security!Rosters, NEW sel,
         NEW branch \in BOOLEAN, NEW kept \in {scopes, None},
         Security!Commit(rows, sel, branch, kept)
  PROVE  /\ EditorTyped' /\ DraftFits' /\ ScopesFit'
         /\ \/ scopeLoad' # None /\ scopeLoad'.count = None
            \/ scopeLoad' = None /\ scopes' = None
  <1>1. /\ users' = rows
        /\ chosenUser' = Security!Selection(rows, sel)
        /\ Security!RunEditor(rows, chosenUser')
        /\ Security!RunScopes(chosenUser', branch, kept)
    BY DEF Security!Commit
  <1>2. chosenUser' \in Security!Maybe(DOMAIN rows) BY <1>1, SelectionListed
  <1>3. chosenUser' # None =>
          chosenUser' \in DOMAIN rows /\ chosenUser' \in Security!Users
          /\ rows[chosenUser'] \in Security!Roles
    BY <1>2, RosterRows DEF Security!Maybe
  <1>4. /\ draft' \in Security!Maybe(Security!Roles)
        /\ chosen' \in Security!Maybe(Security!ProfileChoices)
        /\ DraftFits'
    <2>1. CASE Security!EditorKeeps(rows, chosenUser')
      BY <1>1, <2>1 DEF Security!RunEditor, Security!EditorKeeps, EditorTyped, DraftFits
    <2>2. CASE ~Security!EditorKeeps(rows, chosenUser')
      BY <1>1, <1>3, <2>2 DEF Security!RunEditor, Security!Maybe, DraftFits
    <2> QED BY <2>1, <2>2
  <1>5. CASE scopes' = None /\ scopeLoad' = None
    BY <1>1, <1>2, <1>4, <1>5 DEF EditorTyped, ScopesFit, Security!Maybe
  <1>6. CASE /\ chosenUser' # None /\ scopes' = kept
             /\ scopeLoad' = [user |-> chosenUser', count |-> None]
    <2>1. scopeLoad' \in Security!ScopeLoads
      BY <1>3, <1>6 DEF Security!ScopeLoads, Security!Maybe
    <2>2. scopeLoad' # None BY <2>1, ConsolesAssumption
    <2> QED
      BY <1>1, <1>2, <1>4, <1>6, <2>1, <2>2 DEF EditorTyped, ScopesFit, Security!Maybe
  <1> QED BY <1>1, <1>5, <1>6 DEF Security!RunScopes

LEMMA EditorKept ==
  ASSUME UNCHANGED <<users, chosenUser, draft, scopes, scopeLoad, chosen>>
  PROVE  /\ EditorTyped => EditorTyped'
         /\ DraftFits => DraftFits'
         /\ ScopesFit => ScopesFit'
         /\ ScopesNew /\ told' = told => ScopesNew'
  BY DEF EditorTyped, DraftFits, ScopesFit, ScopesNew

LEMMA SecurityTypes == SecurityInv => Security!TypeOK
  <1> SUFFICES ASSUME SecurityInv PROVE Security!TypeOK OBVIOUS
  <1>1. /\ scopeCount \in [Security!Users -> 0 .. UserActs]
        /\ told \in [Security!Users -> 0 .. UserActs]
    <2>1. acts \in Nat /\ acts <= UserActs /\ UserActs \in Nat
      BY Bounds DEF SecurityInv, AccessTyped
    <2>2. ASSUME NEW u \in Security!Users
          PROVE  scopeCount[u] \in 0 .. UserActs /\ told[u] \in 0 .. UserActs
      <3>1. scopeCount[u] \in Nat /\ told[u] \in Nat BY DEF SecurityInv, AccessTyped
      <3>2. scopeCount[u] <= acts /\ told[u] <= scopeCount[u]
        BY DEF SecurityInv, ScopesCounted
      <3> QED BY <2>1, <3>1, <3>2
    <2> QED BY <2>2 DEF SecurityInv, AccessTyped
  <1>2. \A h \in Tasks : tasks[h] \in Security!Maybe(CallsOf(h) \cup Security!Loads)
    BY DEF SecurityInv, TasksFit, TaskOf
  <1>3. \A h \in Security!Handlers :
          tasks[h] \in Security!Maybe(Security!Calls \cup Security!Loads)
    BY <1>2 DEF Tasks, CallsOf, Security!Maybe
  <1>4. \A h \in Security!Effects : tasks[h] \in Security!Maybe(Security!Loads)
    <2>1. \A h \in Security!Effects : h \in Tasks /\ h \notin Security!Handlers
      BY DEF Tasks, Security!Effects, Security!Handlers
    <2> QED BY <1>2, <2>1 DEF CallsOf, Security!Maybe
  <1> QED BY <1>1, <1>3, <1>4 DEF SecurityInv, AccessTyped, EditorTyped, Security!TypeOK

LEMMA SecurityStarts == Security!Init => SecurityInv
  <1> SUFFICES ASSUME Security!Init PROVE SecurityInv OBVIOUS
  <1>1. session \in Security!Sessions /\ session.admin \in BOOLEAN
    BY DEF Security!Init, Security!Sessions
  <1>2. /\ Security!NewLoad(session.admin, session) \in Security!Loads
        /\ Security!NewLoad(session.admin, session) # None
        /\ Security!NewLoad(session.admin, session).phase = "load"
        /\ Security!NewLoad(session.admin, session).grant = None
    BY <1>1, NewLoadTyped
  <1>3. /\ DOMAIN tasks = Tasks /\ tasks["mount"] = Security!NewLoad(session.admin, session)
        /\ \A h \in Tasks : h # "mount" => tasks[h] = None
        /\ "mount" \in Tasks
    BY DEF Security!Init, Tasks, Security!Effects
  <1>4. TasksFit(tasks) BY <1>2, <1>3 DEF TasksFit, TaskOf, Security!Maybe
  <1>5. roster \in Security!Rosters
    <2>1. PICK n \in Security!Users :
            roster = [u \in 1 .. n |-> IF u = 1 THEN "admin" ELSE "operator"]
      BY DEF Security!Init
    <2>2. 1 .. n \subseteq Security!Users BY Bounds DEF Security!Users
    <2>3. roster \in [1 .. n -> Security!Roles] BY <2>1 DEF Security!Roles
    <2> QED BY <2>2, <2>3, RosterTyped
  <1>6. AccessTyped
    <2>1. scopeCount = [u \in Security!Users |-> 0] /\ told = scopeCount
      BY DEF Security!Init
    <2>2. /\ scopeCount \in [Security!Users -> Nat]
          /\ told \in [Security!Users -> Nat]
      BY <2>1
    <2>3. acts \in 0 .. UserActs BY Bounds DEF Security!Init
    <2> QED BY <1>1, <1>5, <2>2, <2>3 DEF Security!Init, AccessTyped, Security!Maybe
  <1>7. EditorTyped BY UsersNumbered DEF Security!Init, EditorTyped, Security!Maybe
  <1>8. DraftFits /\ ScopesFit BY DEF Security!Init, DraftFits, ScopesFit
  <1>9. ScopesCounted /\ GrantFits /\ ScopesCurrent
    <2>1. tasks["scope"] = None /\ tasks["issue"] = None
      BY <1>3 DEF Tasks, Security!Handlers
    <2>2. ScopesCounted BY <2>1 DEF Security!Init, ScopesCounted
    <2>3. GrantFits BY <1>2, <1>3, <2>1 DEF Security!Init, GrantFits
    <2>4. ScopesCurrent BY <1>2, <1>3 DEF ScopesCurrent, PageLoads
    <2> QED BY <2>2, <2>3, <2>4
  <1> QED BY <1>4, <1>6, <1>7, <1>8, <1>9 DEF SecurityInv

-----------------------------------------------------------------------------
(* The steps of the security page.                                         *)

LEMMA PageLoadsKept ==
  ASSUME NEW h, \A k \in Tasks : k # h => tasks'[k] = tasks[k],
         \/ tasks[h] = None \/ tasks[h].phase # "load"
         \/ tasks'[h] # None /\ tasks'[h].phase = "load",
         PageLoads
  PROVE  PageLoads'
  BY DEF PageLoads

LEMMA ActAtUsers ==
  ASSUME SecurityInv, Security!Act PROVE acts' \in 0 .. UserActs /\ acts' = acts + 1
  BY Bounds DEF Security!Act, SecurityInv, AccessTyped

LEMMA CallIsSent ==
  ASSUME SecurityInv, NEW h \in Security!Handlers,
         NEW user \in Security!Maybe(Security!Users), NEW role \in Security!Maybe(Security!Roles),
         h \in {"create", "profile"} => user # None /\ role # None,
         h = "scope" => user # None, h = "issue" => grant # None,
         Security!Send(h, user, role)
  PROVE  SecurityInv'
  <1> DEFINE call == [phase |-> "sent", user |-> user, role |-> role,
                      admin |-> session.admin]
  <1>1. /\ tasks[h] = None /\ Security!Act /\ tasks' = [tasks EXCEPT ![h] = call]
        /\ UNCHANGED <<roster, scopeCount, grant, session, shownGrant, told, failed>>
        /\ UNCHANGED <<users, chosenUser, draft, scopes, scopeLoad, chosen>>
    BY DEF Security!Send, Security!server, Security!page
  <1>2. session.admin \in BOOLEAN BY DEF SecurityInv, AccessTyped, Security!Sessions
  <1>3. /\ call \in Security!Calls /\ call.phase = "sent"
        /\ call.user = user /\ call.role = role
    BY <1>2 DEF Security!Calls
  <1> HIDE DEF call
  <1>4. call \in TaskOf(h) BY <1>3 DEF TaskOf, CallsOf, Security!Maybe
  <1>5. TasksFit(tasks) /\ h \in Tasks BY TaskNames DEF SecurityInv
  <1>6. /\ TasksFit(tasks') /\ tasks'[h] = call
        /\ \A k \in Tasks : k # h => tasks'[k] = tasks[k]
    <2>1. /\ TasksFit([tasks EXCEPT ![h] = call])
          /\ [tasks EXCEPT ![h] = call][h] = call
          /\ \A k \in Tasks : k # h => [tasks EXCEPT ![h] = call][k] = tasks[k]
      BY <1>4, <1>5, TaskReplaced
    <2> QED BY <1>1, <2>1
  <1>7. acts' \in 0 .. UserActs /\ acts' = acts + 1 BY <1>1, ActAtUsers
  <1>8. AccessTyped' BY <1>1, <1>7 DEF SecurityInv, AccessTyped
  <1>9. EditorTyped' /\ DraftFits' /\ ScopesFit' BY <1>1, EditorKept DEF SecurityInv
  <1>10. ScopesCounted'
    <2>1. \A u \in Security!Users : scopeCount[u] \in Nat /\ acts \in Nat
      BY Bounds DEF SecurityInv, AccessTyped
    <2> QED BY <1>1, <1>7, <2>1 DEF SecurityInv, ScopesCounted
  <1>11. GrantFits'
    <2>1. "issue" \in Tasks BY TaskNames
    <2> QED BY <1>1, <1>3, <1>6, <2>1 DEF SecurityInv, GrantFits
  <1>12. ScopesCurrent'
    BY <1>1, <1>6, PageLoadsKept, EditorKept DEF SecurityInv, ScopesCurrent
  <1> QED BY <1>6, <1>8, <1>9, <1>10, <1>11, <1>12 DEF SecurityInv

LEMMA AdminSends ==
  ASSUME SecurityInv,
         \/ \E u \in Security!Users, r \in Security!Roles : Security!OnCreate(u, r)
         \/ Security!OnSaveUser \/ Security!OnSaveScope \/ Security!OnIssueElevatedAccess
         \/ \E u \in Security!Maybe(Security!Users) : Security!OnSubmitElevatedAccess(u)
  PROVE  SecurityInv'
  <1>1. /\ None \in Security!Maybe(Security!Users) /\ None \in Security!Maybe(Security!Roles)
        /\ Security!Users \subseteq Security!Maybe(Security!Users)
        /\ Security!Roles \subseteq Security!Maybe(Security!Roles)
    BY DEF Security!Maybe
  <1>2. chosenUser # None => chosenUser \in Security!Users /\ draft \in Security!Roles
    BY RosterRows DEF SecurityInv, EditorTyped, DraftFits, Security!Maybe
  <1>3. ASSUME NEW u \in Security!Users, NEW r \in Security!Roles, Security!OnCreate(u, r)
        PROVE  SecurityInv'
    BY <1>1, <1>3, CallIsSent, TaskNames, UsersNumbered DEF Security!OnCreate
  <1>4. CASE Security!OnSaveUser
    BY <1>1, <1>2, <1>4, CallIsSent, TaskNames, UsersNumbered DEF Security!OnSaveUser
  <1>5. CASE Security!OnSaveScope
    BY <1>1, <1>2, <1>5, CallIsSent, TaskNames, UsersNumbered DEF Security!OnSaveScope
  <1>6. CASE Security!OnIssueElevatedAccess
    <2>1. shownGrant # None /\ grant # None /\ Security!Send("issue", shownGrant.user, None)
      BY <1>6 DEF Security!OnIssueElevatedAccess, SecurityInv, GrantFits
    <2>2. shownGrant.user \in Security!Maybe(Security!Users)
      BY <2>1 DEF SecurityInv, AccessTyped, Security!Maybe, Security!Grants
    <2> QED BY <1>1, <2>1, <2>2, CallIsSent, TaskNames
  <1>7. ASSUME NEW u \in Security!Maybe(Security!Users), Security!OnSubmitElevatedAccess(u)
        PROVE  SecurityInv'
    BY <1>1, <1>7, CallIsSent, TaskNames DEF Security!OnSubmitElevatedAccess
  <1> QED BY <1>3, <1>4, <1>5, <1>6, <1>7

LEMMA AdminEdits ==
  ASSUME SecurityInv,
         \/ \E u \in Security!Users : Security!SelectUser(u)
         \/ \E r \in Security!Roles : Security!EditRole(r)
  PROVE  SecurityInv'
  <1>1. /\ Security!Act
        /\ UNCHANGED <<roster, scopeCount, grant, session, shownGrant, tasks, told, failed>>
    BY Zenon DEF Security!SelectUser, Security!EditRole, Security!server
  <1>2. acts' \in 0 .. UserActs /\ acts' = acts + 1 BY <1>1, ActAtUsers
  <1>3. AccessTyped' /\ TasksFit(tasks)' BY <1>1, <1>2 DEF SecurityInv, AccessTyped, TasksFit
  <1>4. ScopesCounted'
    <2>1. \A u \in Security!Users : scopeCount[u] \in Nat /\ acts \in Nat
      BY Bounds DEF SecurityInv, AccessTyped
    <2> QED BY <1>1, <1>2, <2>1 DEF SecurityInv, ScopesCounted
  <1>5. GrantFits' BY <1>1 DEF SecurityInv, GrantFits
  <1>6. ASSUME NEW u \in Security!Users, Security!SelectUser(u) PROVE SecurityInv'
    <2>1. Security!Commit(users, u, TRUE, scopes) BY <1>6 DEF Security!SelectUser
    <2>2. /\ EditorTyped' /\ DraftFits' /\ ScopesFit'
          /\ \/ scopeLoad' # None /\ scopeLoad'.count = None
             \/ scopeLoad' = None /\ scopes' = None
      BY <2>1, PageCommitted DEF SecurityInv, EditorTyped
    <2>3. ScopesCurrent' BY <2>2 DEF ScopesCurrent, ScopesNew
    <2> QED BY <1>3, <1>4, <1>5, <2>2, <2>3 DEF SecurityInv
  <1>7. ASSUME NEW r \in Security!Roles, Security!EditRole(r) PROVE SecurityInv'
    <2>1. /\ chosenUser # None /\ draft' = r /\ chosen' = [user |-> chosenUser, role |-> r]
          /\ UNCHANGED <<users, chosenUser, scopes, scopeLoad>>
      BY <1>7 DEF Security!EditRole
    <2>2. chosenUser \in Security!Users
      BY <2>1, RosterRows DEF SecurityInv, EditorTyped, Security!Maybe
    <2>3. chosen' \in Security!ProfileChoices BY <2>1, <2>2 DEF Security!ProfileChoices
    <2>4. EditorTyped' BY <2>1, <2>3 DEF SecurityInv, EditorTyped, Security!Maybe
    <2>5. DraftFits'
      <3>1. chosen' # None BY <2>3, ConsolesAssumption
      <3> QED BY <2>1, <3>1 DEF DraftFits
    <2>6. ScopesFit' /\ ScopesCurrent'
      BY <1>1, <2>1 DEF SecurityInv, ScopesFit, ScopesCurrent, ScopesNew, PageLoads
    <2> QED BY <1>3, <1>4, <1>5, <2>4, <2>5, <2>6 DEF SecurityInv
  <1> QED BY <1>6, <1>7

\* A task that goes on, or ends, and leaves the page as it is.
LEMMA TaskGoesOn ==
  ASSUME SecurityInv, NEW h \in Tasks, NEW task \in TaskOf(h),
         tasks' = [tasks EXCEPT ![h] = task]
  PROVE  /\ TasksFit(tasks)' /\ tasks'[h] = task
         /\ \A k \in Tasks : k # h => tasks'[k] = tasks[k]
  <1> DEFINE next == [tasks EXCEPT ![h] = task]
  <1>1. TasksFit(tasks) /\ h \in Tasks /\ task \in TaskOf(h) BY DEF SecurityInv
  <1>2. /\ TasksFit(next) /\ next[h] = task
        /\ \A k \in Tasks : k # h => next[k] = tasks[k]
    BY ONLY <1>1, TaskReplaced
  <1>3. tasks' = next OBVIOUS
  <1> HIDE DEF next
  <1> QED BY <1>2, <1>3 DEF TasksFit

LEMMA CallIsExecuted ==
  ASSUME SecurityInv, NEW h \in Security!Handlers, Security!Executed(h) PROVE SecurityInv'
  <1> DEFINE call == tasks[h]
             done == [call EXCEPT !.phase = "done"]
  <1>1. /\ call # None /\ call.phase = "sent"
        /\ tasks' = [tasks EXCEPT ![h] = done]
        /\ UNCHANGED <<session, shownGrant, told, failed, acts>>
        /\ UNCHANGED <<users, chosenUser, draft, scopes, scopeLoad, chosen>>
    BY DEF Security!Executed, Security!page
  <1>2. h \in Tasks /\ call \in TaskOf(h) BY TaskNames DEF SecurityInv, TasksFit
  <1>3. call \in CallsOf(h) /\ call \in Security!Calls
    BY <1>1, <1>2, TaskPhases DEF CallsOf
  <1>4. /\ done \in Security!Calls /\ done.phase = "done"
        /\ done.user = call.user /\ done.role = call.role
    BY <1>3 DEF Security!Calls
  <1>5. /\ h \in {"create", "profile"} => /\ call.user \in Security!Users
                                          /\ call.role \in Security!Roles
        /\ h = "scope" => call.user \in Security!Users
        /\ call.user \in Security!Maybe(Security!Users)
    BY <1>3 DEF CallsOf, Security!Calls, Security!Maybe
  <1>6. done \in TaskOf(h) BY <1>3, <1>4 DEF TaskOf, CallsOf, Security!Maybe
  <1>7. roster' \in Security!Rosters
    <2>1. CASE h \in {"create", "profile"}
      <3> DEFINE rows == [u \in DOMAIN roster \cup {call.user} |->
                            IF u = call.user THEN call.role ELSE roster[u]]
      <3>1. roster' = rows BY <2>1 DEF Security!Executed
      <3>2. roster \in Security!Rosters BY DEF SecurityInv, AccessTyped
      <3>3. DOMAIN roster \cup {call.user} \in SUBSET Security!Users
        BY <1>5, <2>1, <3>2, RosterRows
      <3>4. rows \in [DOMAIN roster \cup {call.user} -> Security!Roles]
        BY <1>5, <2>1, <3>2, RosterRows
      <3> HIDE DEF rows
      <3> QED BY <3>1, <3>3, <3>4, RosterTyped
    <2>2. CASE h \notin {"create", "profile"}
      BY <2>2 DEF Security!Executed, SecurityInv, AccessTyped
    <2> QED BY <2>1, <2>2
  <1>8. grant' \in Security!Maybe(Security!Grants) /\ (grant # None => grant' # None)
    <2>1. CASE h = "request"
      <3>1. grant = None /\ grant' = [user |-> call.user, status |-> "open"]
        BY <2>1 DEF Security!Executed
      <3> QED BY <1>5, <3>1 DEF Security!Grants, Security!Maybe
    <2>2. CASE h = "issue"
      <3>1. grant' = [grant EXCEPT !.status = "issued"] BY <2>2 DEF Security!Executed
      <3>2. grant # None /\ grant \in Security!Grants
        BY <1>1, <2>2 DEF SecurityInv, GrantFits, AccessTyped, Security!Maybe
      <3>3. grant' \in Security!Grants BY <3>1, <3>2 DEF Security!Grants
      <3>4. grant' # None BY <3>3, ConsolesAssumption
      <3> QED BY <3>3, <3>4 DEF Security!Maybe
    <2>3. CASE h # "request" /\ h # "issue"
      <3>1. grant' = grant BY <2>3 DEF Security!Executed
      <3> QED BY <3>1 DEF SecurityInv, AccessTyped
    <2> QED BY <2>1, <2>2, <2>3
  <1>9. /\ scopeCount' \in [Security!Users -> Nat]
        /\ \A u \in Security!Users :
             /\ scopeCount[u] <= scopeCount'[u] /\ scopeCount'[u] <= acts
    <2>1. scopeCount \in [Security!Users -> Nat] /\ acts \in Nat
      BY Bounds DEF SecurityInv, AccessTyped
    <2>2. CASE h = "scope"
      <3>1. scopeCount' = [scopeCount EXCEPT ![call.user] = @ + 1]
        BY <2>2 DEF Security!Executed
      <3>2. \A u \in Security!Users : scopeCount[u] < acts
        BY <1>1, <2>2 DEF SecurityInv, ScopesCounted
      <3> QED BY <1>5, <2>1, <2>2, <3>1, <3>2
    <2>3. CASE h # "scope"
      BY <2>1, <2>3 DEF Security!Executed, SecurityInv, ScopesCounted
    <2> QED BY <2>2, <2>3
  <1> HIDE DEF call, done
  <1>10. /\ TasksFit(tasks)' /\ tasks'[h] = done
         /\ \A k \in Tasks : k # h => tasks'[k] = tasks[k]
    BY <1>1, <1>2, <1>6, TaskGoesOn
  <1>11. AccessTyped' BY <1>1, <1>7, <1>8, <1>9 DEF SecurityInv, AccessTyped
  <1>12. EditorTyped' /\ DraftFits' /\ ScopesFit' BY <1>1, EditorKept DEF SecurityInv
  <1>13. ScopesCounted'
    <2>1. \A u \in Security!Users : told[u] <= scopeCount'[u]
      <3> SUFFICES ASSUME NEW u \in Security!Users PROVE told[u] <= scopeCount'[u]
        OBVIOUS
      <3>1. told[u] \in Nat /\ scopeCount[u] \in Nat /\ scopeCount'[u] \in Nat
        BY <1>9 DEF SecurityInv, AccessTyped
      <3>2. told[u] <= scopeCount[u] BY DEF SecurityInv, ScopesCounted
      <3> QED BY <1>9, <3>1, <3>2
    <2>2. tasks'["scope"] # None /\ tasks'["scope"].phase = "sent" =>
            \A u \in Security!Users : scopeCount'[u] < acts
      <3>1. CASE h = "scope" BY <1>4, <1>10, <3>1
      <3>2. CASE h # "scope"
        <4>1. tasks'["scope"] = tasks["scope"] BY <1>10, <3>2, TaskNames
        <4>2. scopeCount' = scopeCount BY <3>2 DEF Security!Executed
        <4> QED BY <4>1, <4>2 DEF SecurityInv, ScopesCounted
      <3> QED BY <3>1, <3>2
    <2> QED BY <1>1, <1>9, <2>1, <2>2 DEF ScopesCounted
  <1>14. GrantFits'
    <2>1. "issue" \in Tasks BY TaskNames
    <2>2. tasks'["issue"] # None /\ tasks'["issue"].phase # "load" => grant' # None
      BY <1>1, <1>8, <1>10, <2>1 DEF SecurityInv, GrantFits, call
    <2>3. \A k \in Tasks : tasks'[k] # None /\ tasks'[k].phase = "load" =>
            (tasks'[k].grant # None => grant' # None)
      BY <1>4, <1>8, <1>10 DEF SecurityInv, GrantFits
    <2> QED BY <1>1, <1>8, <2>2, <2>3 DEF SecurityInv, GrantFits
  <1>15. ScopesCurrent'
    BY <1>1, <1>10, PageLoadsKept, EditorKept DEF SecurityInv, ScopesCurrent, call
  <1> QED BY <1>10, <1>11, <1>12, <1>13, <1>14, <1>15 DEF SecurityInv

\* An answer starts a load, and the scopes that were confirmed wait for it.
LEMMA CallIsAnswered ==
  ASSUME SecurityInv, NEW h \in Security!Handlers, Security!Answered(h) PROVE SecurityInv'
  <1> DEFINE call == tasks[h]
             next == IF h = "issue" THEN Security!Elevated(call.user) ELSE session
             load == Security!NewLoad(call.admin, next)
             again == Security!NewLoad(next.admin, next)
             started == [tasks EXCEPT ![h] = load]
  <1>1. /\ call # None /\ call.phase = "done" /\ session' = next
        /\ shownGrant' = IF h = "request" \/ h = "issue" THEN grant ELSE shownGrant
        /\ told' = IF h = "scope" THEN [told EXCEPT ![call.user] = scopeCount[call.user]]
                   ELSE told
        /\ IF h = "issue" THEN tasks' = [started EXCEPT !["session"] = again]
           ELSE tasks' = started
        /\ UNCHANGED <<roster, scopeCount, grant, failed, acts>>
    BY DEF Security!Answered, Security!server
  <1>2. \/ UNCHANGED <<users, chosenUser, draft, scopes, scopeLoad, chosen>>
        \/ Security!Commit(users, chosenUser, next.admin, scopes)
    BY DEF Security!Answered, Security!page
  <1>3. h \in Tasks /\ call \in TaskOf(h) BY TaskNames DEF SecurityInv, TasksFit
  <1>4. call \in CallsOf(h) /\ call \in Security!Calls
    BY <1>1, <1>3, TaskPhases DEF CallsOf
  <1>5. call.admin \in BOOLEAN /\ (h = "scope" => call.user \in Security!Users)
    BY <1>4 DEF CallsOf, Security!Calls, Security!Maybe
  <1>6. next \in Security!Sessions /\ next.admin \in BOOLEAN
    <2>1. session \in Security!Sessions BY DEF SecurityInv, AccessTyped
    <2>2. Security!Elevated(call.user) \in Security!Sessions
      <3>1. CASE call.user = None BY <3>1 DEF Security!Elevated, Security!Sessions
      <3>2. CASE call.user # None
        <4> DEFINE isAdmin == roster[call.user] = "admin"
        <4>1. isAdmin \in BOOLEAN OBVIOUS
        <4>2. Security!Elevated(call.user) = [admin |-> isAdmin, writes |-> FALSE]
          BY <3>2 DEF Security!Elevated
        <4> HIDE DEF isAdmin
        <4> QED BY <4>1, <4>2 DEF Security!Sessions
      <3> QED BY <3>1, <3>2
    <2> QED BY <2>1, <2>2 DEF Security!Sessions
  <1> HIDE DEF call, next, load, again
  <1>7. /\ load \in Security!Loads /\ load # None /\ load.phase = "load" /\ load.grant = None
        /\ again \in Security!Loads /\ again # None /\ again.phase = "load"
        /\ again.grant = None
    BY <1>5, <1>6, NewLoadTyped DEF load, again
  <1>8. load \in TaskOf(h) /\ again \in TaskOf("session")
    BY <1>7 DEF TaskOf, Security!Maybe
  <1>9. /\ TasksFit(started) /\ started[h] = load
        /\ \A k \in Tasks : k # h => started[k] = tasks[k]
    BY <1>3, <1>8, TaskReplaced DEF SecurityInv
  <1> HIDE DEF started
  <1>10. /\ TasksFit([started EXCEPT !["session"] = again])
         /\ [started EXCEPT !["session"] = again]["session"] = again
         /\ \A k \in Tasks : k # "session" =>
              [started EXCEPT !["session"] = again][k] = started[k]
    BY <1>8, <1>9, TaskReplaced, TaskNames
  <1>11. /\ TasksFit(tasks)' /\ tasks'[h] = load
         /\ \A k \in Tasks : k # h => tasks'[k] = tasks[k] \/ tasks'[k] = again
         /\ \A k \in Security!Handlers : k # h => tasks'[k] = tasks[k]
    <2>1. CASE h = "issue"
      <3>1. tasks' = [started EXCEPT !["session"] = again] BY <1>1, <2>1
      <3>2. TasksFit(tasks)' BY <1>10, <3>1 DEF TasksFit
      <3>3. "session" # h BY <2>1
      <3>4. /\ tasks'["session"] = again
            /\ \A k \in Tasks : k # "session" => tasks'[k] = started[k]
        BY <1>10, <3>1
      <3> QED BY <1>3, <1>9, <3>2, <3>3, <3>4, TaskNames
    <2>2. CASE h # "issue"
      <3>1. tasks' = started BY <1>1, <2>2
      <3>2. TasksFit(tasks)' BY <1>9, <3>1 DEF TasksFit
      <3> QED BY <1>9, <3>1, <3>2, TaskNames
    <2> QED BY <2>1, <2>2
  <1>12. /\ told' \in [Security!Users -> Nat]
         /\ \A u \in Security!Users : told'[u] <= scopeCount[u]
    BY <1>1, <1>5 DEF SecurityInv, AccessTyped, ScopesCounted
  <1>13. AccessTyped' BY <1>1, <1>6, <1>12 DEF SecurityInv, AccessTyped
  <1>14. EditorTyped' /\ DraftFits' /\ ScopesFit'
    <2>1. CASE UNCHANGED <<users, chosenUser, draft, scopes, scopeLoad, chosen>>
      BY <2>1, EditorKept DEF SecurityInv
    <2>2. CASE Security!Commit(users, chosenUser, next.admin, scopes)
      BY <1>6, <2>2, PageCommitted DEF SecurityInv, EditorTyped
    <2> QED BY <1>2, <2>1, <2>2
  <1>15. ScopesCounted'
    <2>1. tasks'["scope"] # None /\ tasks'["scope"].phase = "sent" =>
            \A u \in Security!Users : scopeCount[u] < acts
      BY <1>7, <1>11, TaskNames DEF SecurityInv, ScopesCounted
    <2> QED BY <1>1, <1>12, <2>1 DEF SecurityInv, ScopesCounted
  <1>16. GrantFits'
    <2>1. shownGrant' # None => grant' # None BY <1>1 DEF SecurityInv, GrantFits
    <2>2. \A k \in Tasks : tasks'[k] # None /\ tasks'[k].phase = "load" =>
            (tasks'[k].grant # None => grant' # None)
      BY <1>1, <1>7, <1>11 DEF SecurityInv, GrantFits
    <2>3. tasks'["issue"] # None /\ tasks'["issue"].phase # "load" => grant' # None
      BY <1>1, <1>7, <1>11, TaskNames DEF SecurityInv, GrantFits
    <2> QED BY <2>1, <2>2, <2>3 DEF GrantFits
  <1>17. ScopesCurrent' BY <1>3, <1>7, <1>11 DEF ScopesCurrent, PageLoads
  <1> QED BY <1>11, <1>13, <1>14, <1>15, <1>16, <1>17 DEF SecurityInv

LEMMA TaskFails ==
  ASSUME SecurityInv,
         \/ \E h \in Security!Handlers : Security!CallFails(h)
         \/ \E h \in Tasks : Security!PageFails(h)
  PROVE  SecurityInv'
  <1>1. PICK h \in Tasks : /\ tasks' = [tasks EXCEPT ![h] = None]
                           /\ \/ tasks[h].phase # "load" /\ failed' = failed
                              \/ failed' = TRUE
    <2>1. CASE \E h \in Security!Handlers : Security!CallFails(h)
      BY <2>1, TaskNames DEF Security!CallFails
    <2>2. CASE \E h \in Tasks : Security!PageFails(h)
      BY <2>2 DEF Security!PageFails
    <2> QED BY <2>1, <2>2
  <1>2. /\ UNCHANGED <<roster, scopeCount, grant, session, shownGrant, told, acts>>
        /\ UNCHANGED <<users, chosenUser, draft, scopes, scopeLoad, chosen>>
    BY DEF Security!CallFails, Security!PageFails, Security!server, Security!page
  <1>3. None \in TaskOf(h) BY DEF TaskOf, Security!Maybe
  <1>4. /\ TasksFit(tasks)' /\ tasks'[h] = None
        /\ \A k \in Tasks : k # h => tasks'[k] = tasks[k]
    BY <1>1, <1>3, TaskGoesOn
  <1>5. AccessTyped' BY <1>1, <1>2 DEF SecurityInv, AccessTyped
  <1>6. EditorTyped' /\ DraftFits' /\ ScopesFit' BY <1>2, EditorKept DEF SecurityInv
  <1>7. ScopesCounted' BY <1>2, <1>4, TaskNames DEF SecurityInv, ScopesCounted
  <1>8. GrantFits' BY <1>2, <1>4, TaskNames DEF SecurityInv, GrantFits
  <1>9. ScopesCurrent'
    BY <1>1, <1>2, <1>4, PageLoadsKept, EditorKept DEF SecurityInv, ScopesCurrent
  <1> QED BY <1>4, <1>5, <1>6, <1>7, <1>8, <1>9 DEF SecurityInv

LEMMA PageIsRead ==
  ASSUME SecurityInv, NEW h \in Tasks, Security!PageRead(h) PROVE SecurityInv'
  <1> DEFINE load == tasks[h]
             full == [load EXCEPT !.read = roster, !.grant = grant]
  <1>1. /\ load # None /\ load.phase = "load"
        /\ tasks' = [tasks EXCEPT ![h].read = roster, ![h].grant = grant]
        /\ UNCHANGED <<roster, scopeCount, grant, session, shownGrant, told, failed, acts>>
        /\ UNCHANGED <<users, chosenUser, draft, scopes, scopeLoad, chosen>>
    BY DEF Security!PageRead, Security!Loading, Security!server, Security!page
  <1>2. load \in Security!Loads /\ TasksFit(tasks)
    BY <1>1, TaskPhases DEF SecurityInv, TasksFit
  <1>3. tasks' = [tasks EXCEPT ![h] = full]
    BY <1>1, <1>2 DEF TasksFit
  <1>4. /\ roster \in Security!Maybe(Security!Rosters)
        /\ grant \in Security!Maybe(Security!Grants)
    BY DEF SecurityInv, AccessTyped, Security!Maybe
  <1>5. full \in Security!Loads /\ full.phase = "load" /\ full.grant = grant
    <2> DEFINE half == [load EXCEPT !.read = roster]
    <2>1. half \in Security!Loads BY <1>2, <1>4 DEF Security!Loads
    <2>2. full = [half EXCEPT !.grant = grant] OBVIOUS
    <2> HIDE DEF half, full
    <2> QED BY <1>4, <2>1, <2>2 DEF Security!Loads
  <1> HIDE DEF load, full
  <1>6. full # None BY <1>5, ConsolesAssumption
  <1>7. full \in TaskOf(h) BY <1>5 DEF TaskOf, Security!Maybe
  <1>8. /\ TasksFit(tasks)' /\ tasks'[h] = full
        /\ \A k \in Tasks : k # h => tasks'[k] = tasks[k]
    BY <1>3, <1>7, TaskGoesOn
  <1>9. AccessTyped' BY <1>1 DEF SecurityInv, AccessTyped
  <1>10. EditorTyped' /\ DraftFits' /\ ScopesFit' BY <1>1, EditorKept DEF SecurityInv
  <1>11. ScopesCounted' BY <1>1, <1>5, <1>8, TaskNames DEF SecurityInv, ScopesCounted
  <1>12. GrantFits'
    <2>1. \A k \in Tasks : tasks'[k] # None /\ tasks'[k].phase = "load" =>
            (tasks'[k].grant # None => grant # None)
      BY <1>5, <1>8 DEF SecurityInv, GrantFits
    <2>2. tasks'["issue"] # None /\ tasks'["issue"].phase # "load" => grant # None
      BY <1>5, <1>8, TaskNames DEF SecurityInv, GrantFits
    <2> QED BY <1>1, <2>1, <2>2 DEF SecurityInv, GrantFits
  <1>13. ScopesCurrent' BY <1>5, <1>6, <1>8 DEF ScopesCurrent, PageLoads
  <1> QED BY <1>8, <1>9, <1>10, <1>11, <1>12, <1>13 DEF SecurityInv

LEMMA PageIsAnswered ==
  ASSUME SecurityInv, NEW h \in Tasks, Security!PageAnswered(h) PROVE SecurityInv'
  <1> DEFINE load == tasks[h]
  <1>1. /\ load # None /\ load.phase = "load" /\ load.read # None
        /\ tasks' = [tasks EXCEPT ![h] = None] /\ shownGrant' = load.grant
        /\ IF load.admin THEN Security!Commit(load.read, chosenUser, session.admin, scopes)
           ELSE Security!Commit(<<>>, None, session.admin, None)
        /\ UNCHANGED <<roster, scopeCount, grant, session, told, failed, acts>>
    BY DEF Security!PageAnswered, Security!Loading, Security!server
  <1>2. load \in Security!Loads BY <1>1, TaskPhases DEF SecurityInv, TasksFit
  <1>3. load.read \in Security!Rosters /\ load.grant \in Security!Maybe(Security!Grants)
    BY <1>1, <1>2 DEF Security!Loads, Security!Maybe
  <1>4. session.admin \in BOOLEAN BY DEF SecurityInv, AccessTyped, Security!Sessions
  <1>5. None \in TaskOf(h) BY DEF TaskOf, Security!Maybe
  <1>6. /\ TasksFit(tasks)' /\ tasks'[h] = None
        /\ \A k \in Tasks : k # h => tasks'[k] = tasks[k]
    BY <1>1, <1>5, TaskGoesOn
  <1>7. /\ EditorTyped' /\ DraftFits' /\ ScopesFit'
        /\ \/ scopeLoad' # None /\ scopeLoad'.count = None
           \/ scopeLoad' = None /\ scopes' = None
    <2>1. EditorTyped /\ DraftFits BY DEF SecurityInv
    <2>2. CASE load.admin
      BY <1>1, <1>3, <1>4, <2>1, <2>2, PageCommitted
    <2>3. CASE ~load.admin
      BY <1>1, <1>4, <2>1, <2>3, PageCommitted, UsersNumbered
    <2> QED BY <2>2, <2>3
  <1>8. ScopesCurrent' BY <1>7 DEF ScopesCurrent, ScopesNew
  <1>9. AccessTyped' BY <1>1, <1>3 DEF SecurityInv, AccessTyped
  <1>10. ScopesCounted' BY <1>1, <1>6, TaskNames DEF SecurityInv, ScopesCounted
  <1>11. GrantFits' BY <1>1, <1>6, TaskNames DEF SecurityInv, GrantFits
  <1> QED BY <1>6, <1>7, <1>8, <1>9, <1>10, <1>11 DEF SecurityInv

LEMMA ScopesAreLoaded ==
  ASSUME SecurityInv,
         Security!ScopesRead \/ Security!ScopesAnswered \/ Security!ScopesFail
  PROVE  SecurityInv'
  <1>1. /\ scopeLoad # None
        /\ UNCHANGED <<roster, scopeCount, grant, session, shownGrant, tasks, told, acts>>
        /\ UNCHANGED <<users, chosenUser, draft, chosen>>
        /\ failed' \in {failed, TRUE}
    BY DEF Security!ScopesRead, Security!ScopesAnswered, Security!ScopesFail, Security!server
  <1>2. /\ scopeLoad \in Security!ScopeLoads /\ scopeLoad.user = chosenUser
        /\ scopeLoad.user \in Security!Users
    BY <1>1 DEF SecurityInv, EditorTyped, ScopesFit, Security!Maybe, Security!ScopeLoads
  <1>3. AccessTyped' BY <1>1 DEF SecurityInv, AccessTyped
  <1>4. TasksFit(tasks)' BY <1>1 DEF SecurityInv, TasksFit
  <1>5. DraftFits' BY <1>1 DEF SecurityInv, DraftFits
  <1>6. ScopesCounted' /\ GrantFits' BY <1>1 DEF SecurityInv, ScopesCounted, GrantFits
  <1>7. /\ EditorTyped' /\ ScopesFit' /\ ScopesCurrent'
    <2>1. CASE Security!ScopesRead
      <3>1. /\ scopeLoad' = [scopeLoad EXCEPT !.count = scopeCount[scopeLoad.user]]
            /\ scopes' = scopes /\ scopeLoad.count = None
        BY <2>1 DEF Security!ScopesRead
      <3>2. /\ scopeCount[scopeLoad.user] \in 0 .. UserActs
            /\ told[scopeLoad.user] <= scopeCount[scopeLoad.user]
        <4>1. /\ scopeCount[scopeLoad.user] \in Nat /\ acts \in Nat /\ acts <= UserActs
              /\ UserActs \in Nat
          BY <1>2, Bounds DEF SecurityInv, AccessTyped
        <4> QED BY <1>2, <4>1 DEF SecurityInv, ScopesCounted
      <3>3. /\ scopeLoad' \in Security!ScopeLoads /\ scopeLoad'.user = chosenUser
            /\ scopeLoad'.count = scopeCount[scopeLoad.user]
        BY <1>2, <3>1, <3>2 DEF Security!ScopeLoads, Security!Maybe
      <3>4. scopeLoad' # None BY <3>3, ConsolesAssumption
      <3>5. EditorTyped' BY <1>1, <3>1, <3>3 DEF SecurityInv, EditorTyped, Security!Maybe
      <3>6. ScopesFit' BY <1>1, <3>3, <3>4 DEF ScopesFit
      <3>7. ScopesNew'
        <4>1. /\ told[scopeLoad.user] \in Nat /\ scopeCount[scopeLoad.user] \in Nat
          BY <1>2 DEF SecurityInv, AccessTyped
        <4> QED BY <1>1, <1>2, <3>2, <3>3, <3>4, <4>1 DEF ScopesNew
      <3> QED BY <3>5, <3>6, <3>7 DEF ScopesCurrent
    <2>2. CASE Security!ScopesAnswered
      <3>1. /\ scopes' = scopeLoad /\ scopeLoad' = None /\ scopeLoad.count # None
            /\ failed' = failed
        BY <2>2 DEF Security!ScopesAnswered
      <3>2. scopes' \in [user : Security!Users, count : 0 .. UserActs]
        BY <1>2, <3>1 DEF Security!ScopeLoads, Security!Maybe
      <3>3. EditorTyped' BY <1>1, <3>1, <3>2 DEF SecurityInv, EditorTyped, Security!Maybe
      <3>4. ScopesFit' BY <1>1, <1>2, <3>1 DEF ScopesFit
      <3>5. ScopesCurrent'
        BY <1>1, <3>1 DEF SecurityInv, ScopesCurrent, ScopesNew, PageLoads
      <3> QED BY <3>3, <3>4, <3>5
    <2>3. CASE Security!ScopesFail
      <3>1. scopes' = None /\ scopeLoad' = None /\ failed' = TRUE
        BY <2>3 DEF Security!ScopesFail
      <3> QED
        BY <1>1, <3>1 DEF SecurityInv, EditorTyped, ScopesFit, ScopesCurrent, Security!Maybe
    <2> QED BY <2>1, <2>2, <2>3
  <1> QED BY <1>3, <1>4, <1>5, <1>6, <1>7 DEF SecurityInv

LEMMA OthersAdminister ==
  ASSUME SecurityInv,
         \/ Security!OthersApprove
         \/ \E u \in Security!Users, r \in Security!Roles : Security!OthersChange(u, r)
  PROVE  SecurityInv'
  <1>1. /\ Security!Act
        /\ UNCHANGED <<scopeCount, session, shownGrant, tasks, told, failed>>
        /\ UNCHANGED <<users, chosenUser, draft, scopes, scopeLoad, chosen>>
    BY Zenon DEF Security!OthersApprove, Security!OthersChange, Security!page
  <1>2. acts' \in 0 .. UserActs /\ acts' = acts + 1 BY <1>1, ActAtUsers
  <1>3. roster' \in Security!Rosters
    <2>1. CASE Security!OthersApprove
      BY <2>1 DEF Security!OthersApprove, SecurityInv, AccessTyped
    <2>2. ASSUME NEW u \in Security!Users, NEW r \in Security!Roles,
                 Security!OthersChange(u, r)
          PROVE  roster' \in Security!Rosters
      <3>1. roster' = [roster EXCEPT ![u] = r] /\ roster \in Security!Rosters
        BY <2>2 DEF Security!OthersChange, SecurityInv, AccessTyped
      <3>2. PICK S \in SUBSET Security!Users : roster \in [S -> Security!Roles]
        BY <3>1 DEF Security!Rosters
      <3>3. roster' \in [S -> Security!Roles] BY <3>1, <3>2
      <3> QED BY <3>3, RosterTyped
    <2> QED BY <2>1, <2>2
  <1>4. grant' \in Security!Maybe(Security!Grants) /\ (grant # None => grant' # None)
    <2>1. CASE Security!OthersApprove
      <3>1. grant # None /\ grant' = [grant EXCEPT !.status = "approved"]
        BY <2>1 DEF Security!OthersApprove
      <3>2. grant' \in Security!Grants
        BY <3>1 DEF SecurityInv, AccessTyped, Security!Maybe, Security!Grants
      <3>3. grant' # None BY <3>2, ConsolesAssumption
      <3> QED BY <3>2, <3>3 DEF Security!Maybe
    <2>2. CASE \E u \in Security!Users, r \in Security!Roles : Security!OthersChange(u, r)
      BY <2>2 DEF Security!OthersChange, SecurityInv, AccessTyped
    <2> QED BY <2>1, <2>2
  <1>5. AccessTyped' BY <1>1, <1>2, <1>3, <1>4 DEF SecurityInv, AccessTyped
  <1>6. TasksFit(tasks)' BY <1>1 DEF SecurityInv, TasksFit
  <1>7. EditorTyped' /\ DraftFits' /\ ScopesFit' BY <1>1, EditorKept DEF SecurityInv
  <1>8. ScopesCounted'
    <2>1. \A u \in Security!Users : scopeCount[u] \in Nat /\ acts \in Nat
      BY Bounds DEF SecurityInv, AccessTyped
    <2> QED BY <1>1, <1>2, <2>1 DEF SecurityInv, ScopesCounted
  <1>9. GrantFits' BY <1>1, <1>4 DEF SecurityInv, GrantFits
  <1>10. ScopesCurrent'
    BY <1>1 DEF SecurityInv, ScopesCurrent, ScopesNew, PageLoads
  <1> QED BY <1>5, <1>6, <1>7, <1>8, <1>9, <1>10 DEF SecurityInv

LEMMA SecurityKeepsInv == ASSUME SecurityInv, Security!Next PROVE SecurityInv'
  <1>1. CASE Security!Handler BY <1>1, AdminSends, AdminEdits DEF Security!Handler
  <1>2. CASE Security!Answers
    BY <1>2, CallIsExecuted, CallIsAnswered, TaskFails, PageIsRead, PageIsAnswered,
       ScopesAreLoaded
    DEF Security!Answers, Tasks
  <1> QED BY <1>1, <1>2, OthersAdminister DEF Security!Next

LEMMA ScopesAreRight ==
  SecurityInv => Security!ShownScopesAreOfTheSelected /\ Security!ConfirmedScopesAreShown
  <1> SUFFICES ASSUME SecurityInv
               PROVE  /\ Security!ShownScopesAreOfTheSelected
                      /\ Security!ConfirmedScopesAreShown
    OBVIOUS
  <1>1. Security!ShownScopesAreOfTheSelected
    BY DEF SecurityInv, ScopesFit, Security!ShownScopesAreOfTheSelected
  <1>2. Security!ConfirmedScopesAreShown
    BY DEF SecurityInv, ScopesCurrent, PageLoads, ScopesNew, Security!ConfirmedScopesAreShown,
           Security!AtRest, Tasks
  <1> QED BY <1>1, <1>2

\* A profile is saved from the editor, where the draft fits.
LEMMA ProfileIsSaved ==
  ASSUME SecurityInv, Security!Next, tasks["profile"] = None, tasks'["profile"] # None
  PROVE  /\ chosen # None
         /\ tasks'["profile"].user = chosen.user
         /\ tasks'["profile"].role = chosen.role
  <1> DEFINE p == "profile"
  <1>1. p \in Tasks /\ TasksFit(tasks) BY TaskNames DEF SecurityInv
  <1>2. ASSUME NEW h \in Security!Handlers, NEW user, NEW role, Security!Send(h, user, role)
        PROVE  /\ h = p /\ tasks'[p].user = user /\ tasks'[p].role = role
    <2> DEFINE call == [phase |-> "sent", user |-> user, role |-> role,
                        admin |-> session.admin]
    <2>1. tasks' = [tasks EXCEPT ![h] = call] BY <1>2 DEF Security!Send
    <2>2. call.user = user /\ call.role = role OBVIOUS
    <2> HIDE DEF call
    <2>3. h = p BY <1>1, <2>1 DEF TasksFit
    <2> QED BY <1>1, <2>1, <2>2, <2>3 DEF TasksFit
  <1>3. tasks' # tasks OBVIOUS
  <1>4. CASE Security!Handler
    <2>1. CASE Security!OnSaveUser
      BY <1>2, <2>1, TaskNames DEF Security!OnSaveUser, SecurityInv, DraftFits
    <2>2. CASE ~Security!OnSaveUser
      BY <1>2, <1>3, <1>4, <2>2, TaskNames
      DEF Security!Handler, Security!OnCreate, Security!OnSaveScope,
          Security!OnIssueElevatedAccess, Security!OnSubmitElevatedAccess,
          Security!SelectUser, Security!EditRole
    <2> QED BY <2>1, <2>2
  <1>5. CASE Security!Answers
    <2>1. ASSUME NEW h \in Security!Handlers, Security!Executed(h) PROVE FALSE
      <3>1. h # p /\ tasks' = [tasks EXCEPT ![h].phase = "done"]
        BY <2>1 DEF Security!Executed
      <3> QED BY <1>1, <3>1 DEF TasksFit
    <2>2. ASSUME NEW h \in Security!Handlers, Security!Answered(h) PROVE FALSE
      <3>1. h # p BY <2>2 DEF Security!Answered
      <3>2. tasks'[p] = tasks[p]
        BY <1>1, <2>2, <3>1 DEF Security!Answered, TasksFit
      <3> QED BY <3>2
    <2>3. ASSUME NEW h \in Security!Handlers, Security!CallFails(h) PROVE FALSE
      BY <1>1, <2>3 DEF Security!CallFails, TasksFit
    <2>4. ASSUME NEW h \in Tasks, Security!PageRead(h) PROVE FALSE
      <3>1. /\ h # p
            /\ tasks' = [tasks EXCEPT ![h].read = roster, ![h].grant = grant]
        BY <2>4 DEF Security!PageRead, Security!Loading
      <3> QED BY <1>1, <3>1 DEF TasksFit
    <2>5. ASSUME NEW h \in Tasks, Security!PageAnswered(h) \/ Security!PageFails(h)
          PROVE  FALSE
      <3>1. h # p /\ tasks' = [tasks EXCEPT ![h] = None]
        BY <2>5 DEF Security!PageAnswered, Security!PageFails, Security!Loading
      <3> QED BY <1>1, <3>1 DEF TasksFit
    <2>6. CASE Security!ScopesRead \/ Security!ScopesAnswered \/ Security!ScopesFail
      BY <1>3, <2>6 DEF Security!ScopesRead, Security!ScopesAnswered, Security!ScopesFail
    <2> QED
      BY <1>5, <2>1, <2>2, <2>3, <2>4, <2>5, <2>6 DEF Security!Answers, Tasks
  <1>6. CASE \/ Security!OthersApprove
             \/ \E u \in Security!Users, r \in Security!Roles : Security!OthersChange(u, r)
    BY <1>3, <1>6 DEF Security!OthersApprove, Security!OthersChange
  <1> QED BY <1>4, <1>5, <1>6 DEF Security!Next

-----------------------------------------------------------------------------
(* One console is watched; the settings page is right wherever it rests.   *)

ConsolesInv ==
    /\ console \in {"settings", "approvals", "security", "recovery", "setup"}
    /\ RiskyChangesAreConfirmed /\ UntouchedDraftsAreShown
    /\ console = "settings" => Inv
    /\ console = "approvals" => ApprovalsInv
    /\ console = "security" => SecurityInv
    /\ console = "recovery" => RecoveryInv
    /\ console = "setup" => Setup!TypeOK

LEMMA ConsolesStart == ConsolesInit => ConsolesInv
  BY InitialState, DraftsAtFirst, ApprovalsStart, SecurityStarts, RecoveryStarts, SetupStarts
  DEF ConsolesInit, ConsolesInv, Inv

LEMMA SettingsRest ==
  ASSUME RiskyChangesAreConfirmed, UntouchedDraftsAreShown, UNCHANGED settingsPage
  PROVE  RiskyChangesAreConfirmed' /\ UntouchedDraftsAreShown'
  BY DEF RiskyChangesAreConfirmed, UntouchedDraftsAreShown, settingsPage, page, calls

LEMMA ConsolesKeepInv == ConsolesInv /\ [ConsolesNext]_consoles => ConsolesInv'
  <1> SUFFICES ASSUME ConsolesInv, [ConsolesNext]_consoles PROVE ConsolesInv'
    OBVIOUS
  <1>1. CASE console = "settings" /\ Next /\ UNCHANGED console
    <2>1. Inv' /\ UntouchedDraftsAreShown'
      BY <1>1, StepsKeepInv, StepsKeepDrafts DEF ConsolesInv
    <2> QED BY <1>1, <2>1 DEF ConsolesInv, Inv
  <1>2. CASE console = "approvals" /\ Approvals!Next /\ UNCHANGED <<console, settingsPage>>
    <2>1. ApprovalsInv' BY <1>2, ApprovalsKeepInv DEF ConsolesInv
    <2> QED BY <1>2, <2>1, SettingsRest DEF ConsolesInv
  <1>3. CASE console = "security" /\ Security!Next /\ UNCHANGED <<console, settingsPage>>
    <2>1. SecurityInv' BY <1>3, SecurityKeepsInv DEF ConsolesInv
    <2> QED BY <1>3, <2>1, SettingsRest DEF ConsolesInv
  <1>4. CASE console = "recovery" /\ Recovery!Next /\ UNCHANGED <<console, settingsPage>>
    <2>1. RecoveryInv' BY <1>4, RecoveryKeepsInv DEF ConsolesInv
    <2> QED BY <1>4, <2>1, SettingsRest DEF ConsolesInv
  <1>5. CASE console = "setup" /\ Setup!Next /\ UNCHANGED <<console, settingsPage>>
    <2>1. Setup!TypeOK' BY <1>5, SetupKeepsTypes DEF ConsolesInv
    <2> QED BY <1>5, <2>1, SettingsRest DEF ConsolesInv
  <1>6. CASE UNCHANGED consoles
    <2>1. UNCHANGED <<console, settingsPage, approvalsPage, securityPage, recoveryPage,
                      setupPage, acts>>
      BY <1>6 DEF consoles
    <2>2. Inv => Inv'
      BY <2>1, StutterKeepsInv DEF settingsPage, vars
    <2>3. ApprovalsInv => ApprovalsInv'
      <3>1. /\ PageTyped /\ PanelFits => PageTyped' /\ PanelFits'
            /\ CallsTyped => CallsTyped'
            /\ DecisionsFit => DecisionsFit' /\ (QueueFits => QueueFits')
        BY <2>1, PageKept, DecisionsKept, QueueKept DEF approvalsPage, CallsTyped
      <3> QED
        BY <2>1, <3>1, DecisionsKept, QueueKept DEF approvalsPage, ApprovalsInv
    <2>4. SecurityInv => SecurityInv'
      BY <2>1, EditorKept
      DEF securityPage, SecurityInv, AccessTyped, TasksFit, ScopesCounted, GrantFits,
          ScopesCurrent, PageLoads
    <2>5. RecoveryInv => RecoveryInv'
      BY <2>1 DEF recoveryPage, RecoveryInv, RestoresFit, Recovery!TypeOK
    <2>6. Setup!TypeOK => Setup!TypeOK'
      BY <2>1 DEF setupPage, Setup!TypeOK
    <2> QED
      BY <2>1, <2>2, <2>3, <2>4, <2>5, <2>6, SettingsRest DEF ConsolesInv
  <1> QED BY <1>1, <1>2, <1>3, <1>4, <1>5, <1>6 DEF ConsolesNext

LEMMA ConsolesAlways == ConsolesSpec => []ConsolesInv
  BY ConsolesStart, ConsolesKeepInv, PTL DEF ConsolesSpec

(* Every console keeps its types: the approval page loads no record for a  *)
(* selection it has given up, the security page has no selection beyond    *)
(* its directory, recovery no report without a verdict, and the setup      *)
(* shows no dashboard without data.                                        *)
THEOREM ConsolesTypeCorrect == ConsolesSpec => []ConsolesTypeOK
  <1>1. ConsolesInv => ConsolesTypeOK
    BY ApprovalsTypes, SecurityTypes
    DEF ConsolesInv, ConsolesTypeOK, Inv, ApprovalsInv, RecoveryInv
  <1> QED BY <1>1, ConsolesAlways, PTL

(* ApprovalsPage sends a decision for the selected row and for the record  *)
(* the confirmation was opened at.                                         *)
THEOREM DecisionsAreConfirmed == ConsolesSpec => DecidesWhatWasConfirmed
  <1>1. ASSUME ConsolesInv, [ConsolesNext]_consoles
        PROVE  [decision = None /\ decision' # None
                  => decision'.id = selected /\ decision'.id = decision'.confirmed
               ]_Approvals!vars
    <2>1. CASE console = "approvals" /\ Approvals!Next
      BY <1>1, <2>1, DecisionStarts DEF ConsolesInv
    <2>2. CASE UNCHANGED decision BY <2>2
    <2>3. CASE UNCHANGED approvalsPage BY <2>3 DEF approvalsPage
    <2> QED BY <1>1, <2>1, <2>3 DEF ConsolesNext, consoles
  <1> QED
    BY <1>1, ConsolesAlways, PTL
    DEF ConsolesSpec, DecidesWhatWasConfirmed, Approvals!DecidesWhatWasConfirmed

(* What the reviewer was told is decided is not listed as open once the    *)
(* queue of ApprovalsPage is at rest: a stale read of the queue is always  *)
(* followed by the load after the decision.                                *)
THEOREM DecidedStaysDecided == ConsolesSpec => []DecidedIsNotListedOpen
  <1>1. ConsolesInv => DecidedIsNotListedOpen
    BY AtRestDecidedIsListed DEF ConsolesInv, DecidedIsNotListedOpen
  <1> QED BY <1>1, ConsolesAlways, PTL

(* The scopes that SecurityPage shows are those of the selected user.      *)
THEOREM ScopesFollowTheSelection == ConsolesSpec => []ShownScopesAreOfTheSelected
  <1>1. ConsolesInv => ShownScopesAreOfTheSelected
    BY ScopesAreRight DEF ConsolesInv, ShownScopesAreOfTheSelected
  <1> QED BY <1>1, ConsolesAlways, PTL

(* A scope change that was confirmed is on SecurityPage once it is at      *)
(* rest and no load has failed.                                            *)
THEOREM ScopesAreCurrent == ConsolesSpec => []ConfirmedScopesAreShown
  <1>1. ConsolesInv => ConfirmedScopesAreShown
    BY ScopesAreRight DEF ConsolesInv, ConfirmedScopesAreShown
  <1> QED BY <1>1, ConsolesAlways, PTL

(* SecurityPage saves a role only for the user it was chosen for.          *)
THEOREM ProfilesCarryTheChoice == ConsolesSpec => SavesWhatWasChosen
  <1>1. ASSUME ConsolesInv, [ConsolesNext]_consoles
        PROVE  [tasks["profile"] = None /\ tasks'["profile"] # None
                  => /\ chosen # None
                     /\ tasks'["profile"].user = chosen.user
                     /\ tasks'["profile"].role = chosen.role]_Security!vars
    <2>1. CASE console = "security" /\ Security!Next
      BY <1>1, <2>1, ProfileIsSaved DEF ConsolesInv
    <2>2. CASE UNCHANGED securityPage BY <2>2 DEF securityPage
    <2> QED BY <1>1, <2>1, <2>2 DEF ConsolesNext, consoles
  <1> QED
    BY <1>1, ConsolesAlways, PTL
    DEF ConsolesSpec, SavesWhatWasChosen, Security!SavesWhatWasChosen

(* A class that RecoveryPage shows as ready has a fresh backup and a fresh *)
(* restore that include it.                                                *)
THEOREM ReadyClassesAreProven == ConsolesSpec => []ReadyRowsAreProven
  <1>1. ConsolesInv => ReadyRowsAreProven
    BY ReadyIsProven DEF ConsolesInv, ReadyRowsAreProven
  <1> QED BY <1>1, ConsolesAlways, PTL

(* RecoveryPage and the backend agree about policies and posture.          *)
THEOREM RecoveryAgrees == ConsolesSpec => []PageAgreesWithBackend
  <1>1. ConsolesInv => PageAgreesWithBackend
    BY PageAgrees DEF ConsolesInv, PageAgreesWithBackend
  <1> QED BY <1>1, ConsolesAlways, PTL

(* The one button of the guided setup always leads to another page.        *)
THEOREM SetupAlwaysLeads == ConsolesSpec => []SetupLeadsSomewhere
  <1>1. ConsolesInv => SetupLeadsSomewhere
    BY SetupLeads DEF SetupLeadsSomewhere
  <1> QED BY <1>1, ConsolesAlways, PTL

(* A deployment that the guided setup shows as live has what it needs.     *)
THEOREM LiveIsComplete == ConsolesSpec => []LiveIsJustified
  <1>1. ConsolesInv => LiveIsJustified
    BY LiveNeedsEverything DEF ConsolesInv, LiveIsJustified
  <1> QED BY <1>1, ConsolesAlways, PTL
=============================================================================
