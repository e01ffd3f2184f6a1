---------------------------- MODULE RecoveryEvidence ----------------------------
(***************************************************************************)
(* The evidence behind recovery: backup policies, the backup and restore   *)
(* reports that are imported for them, and what the recovery page says     *)
(* about policies and about the classes of data they protect.              *)
(*                                                                         *)
(* A report is compared with its policy when it is imported; the verdict   *)
(* is stored with it.  The policy may be edited, paused and resumed        *)
(* afterwards, the report ages, and a report that arrives later may be     *)
(* older than the one before.  The backend sums up each policy; the page   *)
(* computes its rows from these sums and the latest reports.               *)
(***************************************************************************)
EXTENDS Naturals, FiniteSets

CONSTANTS
    Policies,     \* the backup policies
    DataClasses,  \* the classes of data to protect
    MaxAge,       \* the age up to which a report is fresh
    Horizon,      \* the last time (a bound)
    ActLimit,     \* changes of policies and imports (a bound)
    None

Times == 0 .. Horizon
Coverages == (SUBSET DataClasses) \ {{}}
Validations == {"ok", "warning", "blocked"}
ReportStatuses == {"ok", "failed"}

Maybe(S) == S \cup {None}

\* pinned: the policy names the source that its reports have to come from.
PolicyRecords == [active : BOOLEAN, classes : Coverages, pinned : BOOLEAN,
                  validation : Validations]

\* sound: the stored verdict on the identity; proven: the restore names the
\* expected source among those it validated, or names none; covers: the
\* stored verdict on the coverage.
Reports == [at : Times, status : ReportStatuses, classes : Coverages, sound : BOOLEAN,
            proven : BOOLEAN, covers : BOOLEAN]

VARIABLES
    policy,   \* each policy, None before it is created
    backup,   \* the latest backup report of each policy
    restore,  \* the latest restore report of each policy
    now,
    acts

vars == <<policy, backup, restore, now, acts>>

TypeOK ==
    /\ policy \in [Policies -> Maybe(PolicyRecords)]
    /\ backup \in [Policies -> Maybe(Reports)]
    /\ restore \in [Policies -> Maybe(Reports)]
    /\ now \in Times /\ acts \in 0 .. ActLimit

-----------------------------------------------------------------------------
(* Changes.                                                                *)

Act == acts < ActLimit /\ acts' = acts + 1

CreatePolicy(p, record) ==
    /\ Act
    /\ policy[p] = None
    /\ policy' = [policy EXCEPT ![p] = record]
    /\ UNCHANGED <<backup, restore, now>>

\* An update leaves the reports, and the verdicts on them, as they are.
UpdatePolicy(p, record) ==
    /\ Act
    /\ policy[p] # None /\ policy[p] # record
    /\ policy' = [policy EXCEPT ![p] = record]
    /\ UNCHANGED <<backup, restore, now>>

\* The report that counts is the one of the latest time, the last imported
\* among those of the same time.
Later(old, new) == IF old = None \/ new.at >= old.at THEN new ELSE old

Covers(record, classes) == record.classes \subseteq classes

\* expected: the report comes from the source that the policy may be pinned to.

Verdict(record, at, status, classes, expected, proven) ==
    [at |-> at, status |-> status, classes |-> classes,
     sound |-> (record.pinned => expected /\ proven),
     proven |-> (record.pinned => proven),
     covers |-> Covers(record, classes)]

ImportBackupReport(p, at, status, classes, expected) ==
    /\ Act
    /\ policy[p] # None
    /\ backup' = [backup EXCEPT ![p] =
                    Later(@, Verdict(policy[p], at, status, classes, expected, TRUE))]
    /\ UNCHANGED <<policy, restore, now>>

ImportRestoreReport(p, at, status, classes, expected, proven) ==
    /\ Act
    /\ policy[p] # None
    /\ restore' = [restore EXCEPT ![p] =
                     Later(@, Verdict(policy[p], at, status, classes, expected, proven))]
    /\ UNCHANGED <<policy, backup, now>>

Tick ==
    /\ now < Horizon
    /\ now' = now + 1
    /\ UNCHANGED <<policy, backup, restore, acts>>

-----------------------------------------------------------------------------
(* What the backend sums up.                                               *)

Existing == {p \in Policies : policy[p] # None}
Effective == {p \in Existing : policy[p].active}

Fresh(report) == report # None /\ now <= report.at + MaxAge

Faulty(report) == report # None /\ ~(report.status = "ok" /\ report.sound /\ report.covers)

\* Reasons that end in "missing" block; all others warn.
Blocked(p) ==
    \/ policy[p].validation = "blocked"
    \/ policy[p].active /\ (backup[p] = None \/ restore[p] = None)
    \/ restore[p] # None /\ ~restore[p].proven

\* Mutant: what is wrong with the latest restore is left out.
MismatchedByBackup(p) ==
    \/ policy[p].validation # "ok"
    \/ Faulty(backup[p])
    \/ policy[p].active /\ ~(Fresh(backup[p]) /\ Fresh(restore[p]))
    \/ ~policy[p].active

Mismatched(p) ==
    \/ policy[p].validation # "ok"
    \/ Faulty(backup[p]) \/ Faulty(restore[p])
    \/ policy[p].active /\ ~(Fresh(backup[p]) /\ Fresh(restore[p]))
    \/ ~policy[p].active

OverallStatus(p) ==
    IF Blocked(p) THEN "blocked" ELSE IF Mismatched(p) THEN "warning" ELSE "ok"

RuntimeStatus ==
    IF Effective = {} \/ \E p \in Effective : OverallStatus(p) = "blocked" THEN "blocked"
    ELSE IF \E p \in Effective : OverallStatus(p) = "warning" THEN "warning" ELSE "ok"

SourceIdentityVerified(p) ==
    backup[p] # None /\ restore[p] # None /\ backup[p].sound /\ restore[p].sound

-----------------------------------------------------------------------------
(* What the page says.                                                     *)

Covering(d) == {p \in Effective : d \in policy[p].classes}

\* Mutant: a report counts for every class of its policy.
EvidencedByPolicy(reports, d) == \E p \in Covering(d) : reports[p] # None

Evidenced(reports, d) ==
    \E p \in Covering(d) : reports[p] # None /\ d \in reports[p].classes

BuildCoverageRow(d) ==
    IF Covering(d) = {} \/ ~Evidenced(backup, d) \/ ~Evidenced(restore, d) THEN "blocked"
    ELSE IF \E p \in Covering(d) : \/ Mismatched(p) \/ Blocked(p)
                                   \/ ~SourceIdentityVerified(p)
                                   \/ OverallStatus(p) # "ok"
         THEN "partial" ELSE "ready"

\* The row of a policy under its backups, and the one under its restores.
BuildEvidenceRow(p, report) ==
    IF ~policy[p].active THEN "partial"
    ELSE IF report = None THEN "blocked"
    ELSE IF ~Fresh(report) THEN "partial"
    ELSE IF Faulty(report) THEN "blocked" ELSE "ready"

PolicyStatusLabel(p) ==
    IF ~policy[p].active THEN "paused"
    ELSE IF OverallStatus(p) = "ok" THEN "covered and restore-tested"
    ELSE IF restore[p] = None THEN "restore never tested"
    ELSE IF backup[p] = None THEN "backup evidence missing"
    ELSE IF ~Fresh(restore[p]) THEN "restore evidence stale"
    ELSE IF ~Fresh(backup[p]) THEN "backup evidence stale"
    ELSE OverallStatus(p)

-----------------------------------------------------------------------------
\* The page may open when a policy is already there.
Init ==
    /\ policy \in [Policies -> Maybe({record \in PolicyRecords :
                      record.active /\ record.pinned /\ record.validation = "ok"})]
    /\ Cardinality(Existing) <= 1
    /\ backup = [p \in Policies |-> None] /\ restore = backup
    /\ now = 0 /\ acts = 0

Change(p) ==
    \/ \E record \in PolicyRecords : CreatePolicy(p, record) \/ UpdatePolicy(p, record)
    \/ \E at \in 0 .. now, status \in ReportStatuses, classes \in Coverages,
            expected \in BOOLEAN :
         \/ ImportBackupReport(p, at, status, classes, expected)
         \/ \E proven \in BOOLEAN : ImportRestoreReport(p, at, status, classes, expected, proven)

Next == Tick \/ \E p \in Policies : Change(p)

Spec == Init /\ [][Next]_vars

-----------------------------------------------------------------------------
Proves(report, d) ==
    /\ report # None /\ report.status = "ok" /\ d \in report.classes
    /\ now - report.at <= MaxAge

(* A class that is shown as protected, backed up and restore-tested has a  *)
(* fresh backup and a fresh restore that include it and did not fail, each *)
(* of an active policy that protects it, whatever was edited meanwhile.    *)
ReadyRowsAreProven ==
    \A d \in DataClasses : BuildCoverageRow(d) = "ready" =>
        /\ \E p \in Covering(d) : policy[p].active /\ Proves(backup[p], d)
        /\ \E p \in Covering(d) : policy[p].active /\ Proves(restore[p], d)

(* Page and backend do not contradict each other: an active policy is ok   *)
(* for the backend exactly if the page shows it as ready in the row of its *)
(* backups and in the one of its restores and its target is validated; and *)
(* when the page shows every class as ready, the posture is healthy.       *)
PageAgreesWithBackend ==
    /\ \A p \in Effective : OverallStatus(p) = "ok" <=>
          /\ BuildEvidenceRow(p, backup[p]) = "ready"
          /\ BuildEvidenceRow(p, restore[p]) = "ready"
          /\ policy[p].validation = "ok"
    /\ (\A d \in DataClasses : BuildCoverageRow(d) = "ready") => RuntimeStatus = "ok"

(* A policy labelled "covered and restore-tested" has evidence for every   *)
(* class it protects.                                                      *)
CoveredPoliciesAreCovered ==
    \A p \in Existing : PolicyStatusLabel(p) = "covered and restore-tested" =>
        policy[p].classes \subseteq backup[p].classes \cap restore[p].classes
=============================================================================
