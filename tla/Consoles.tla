-------------------------------- MODULE Consoles --------------------------------
(***************************************************************************)
(* The consoles of the control plane that are not record pages: settings   *)
(* (SettingsEditor), the approval queue, the security page, the evidence   *)
(* of recovery and the guided setup.  A tab shows one of them at a time;   *)
(* each has calls, state and server data of its own, and one that is left  *)
(* keeps nothing.  A behaviour therefore watches one of them.              *)
(***************************************************************************)
EXTENDS SettingsEditor

CONSTANTS
    ApprovalCount, UserCount,                        \* approvals; admin users
    Policies, DataClasses, MaxAge, Horizon, \* of the recovery page
    ApprovalActs, UserActs, RecoveryActs, SetupActs  \* acts at each (bounds)

VARIABLES
    console,     \* the one that is watched
    status, asked, filter, search, queue, selected, detail, detailLoading, listLoad,
    detailLoad, comment, confirmation, decision, outcome, decided,
    roster, scopeCount, grant, session, users, shownGrant, chosenUser, draft, scopes,
    scopeLoad, tasks, chosen, told, failed,
    policy, backup, restore, now,
    facts, rotate, admin, dashboard, shown, instances

Approvals == INSTANCE ApprovalsConsole WITH ActLimit <- ApprovalActs
Security == INSTANCE SecurityConsole
              WITH ActLimit <- UserActs, selected <- chosenUser
Recovery == INSTANCE RecoveryEvidence WITH ActLimit <- RecoveryActs
Setup == INSTANCE SetupFlow WITH ActLimit <- SetupActs

\* None is none of the values and calls it stands beside.
ASSUME ConsolesAssumption ==
    /\ ApprovalCount \in Nat \ {0} /\ UserCount \in Nat \ {0}
    /\ DataClasses # {} /\ MaxAge \in Nat /\ Horizon \in Nat
    /\ {ApprovalActs, UserActs, RecoveryActs, SetupActs} \subseteq 0 .. ActLimit
    /\ None \notin Nat \cup Security!Roles \cup Setup!Pages
    /\ None \notin Approvals!ListLoads \cup Approvals!Decisions
    /\ None \notin Security!Calls \cup Security!Loads
    /\ None \notin Security!ScopeLoads \cup Security!ProfileChoices \cup Security!Grants

settingsPage == <<server, page, calls, confirmDialog, acknowledged, touched>>
approvalsPage == <<status, asked, filter, search, queue, selected, detail, detailLoading,
                   listLoad, detailLoad, comment, confirmation, decision, outcome, decided>>
securityPage == <<roster, scopeCount, grant, session, users, shownGrant, chosenUser, draft,
                  scopes, scopeLoad, tasks, chosen, told, failed>>
recoveryPage == <<policy, backup, restore, now>>
setupPage == <<facts, rotate, admin, dashboard, shown, instances>>
consoles == <<console, settingsPage, approvalsPage, securityPage, recoveryPage, setupPage, acts>>

\* A console that is not watched is one of those it may open with.
ConsolesInit ==
    /\ console \in {"settings", "approvals", "security", "recovery", "setup"}
    /\ Init /\ Approvals!Init /\ Security!Init /\ Recovery!Init /\ Setup!Init
    /\ console # "settings" => \A key \in Keys : ~server[key].overridden
    /\ console # "approvals" => asked = None
    /\ console # "security" => DOMAIN roster = {1} /\ session.admin
    /\ console # "recovery" => \A p \in Policies : policy[p] = None
    /\ console # "setup" => facts = Setup!Serving /\ admin /\ ~rotate

ConsolesNext ==
    \/ /\ console = "settings" /\ Next
       /\ UNCHANGED <<console, approvalsPage, securityPage, recoveryPage, setupPage>>
    \/ /\ console = "approvals" /\ Approvals!Next
       /\ UNCHANGED <<console, settingsPage, securityPage, recoveryPage, setupPage>>
    \/ /\ console = "security" /\ Security!Next
       /\ UNCHANGED <<console, settingsPage, approvalsPage, recoveryPage, setupPage>>
    \/ /\ console = "recovery" /\ Recovery!Next
       /\ UNCHANGED <<console, settingsPage, approvalsPage, securityPage, setupPage>>
    \/ /\ console = "setup" /\ Setup!Next
       /\ UNCHANGED <<console, settingsPage, approvalsPage, securityPage, recoveryPage>>

ConsolesSpec == ConsolesInit /\ [][ConsolesNext]_consoles

-----------------------------------------------------------------------------
(* Every console keeps to its types: no load without a selection, no       *)
(* dashboard without data, no report without a verdict.                    *)
ConsolesTypeOK ==
    CASE console = "approvals" -> Approvals!TypeOK
      [] console = "security" -> Security!TypeOK
      [] console = "recovery" -> Recovery!TypeOK
      [] console = "setup" -> Setup!TypeOK
      [] OTHER -> TypeOK

(* A decision is sent for the selected row and for the record it was       *)
(* confirmed at (ApprovalsConsole).                                        *)
DecidesWhatWasConfirmed == Approvals!DecidesWhatWasConfirmed

(* What the reviewer was told is decided is not listed as open at rest     *)
(* (ApprovalsConsole).                                                     *)
DecidedIsNotListedOpen == console = "approvals" => Approvals!DecidedIsNotListedOpen

(* The scopes shown are those of the selected user (SecurityConsole).      *)
ShownScopesAreOfTheSelected == console = "security" => Security!ShownScopesAreOfTheSelected

(* Confirmed scope changes are on the page at rest (SecurityConsole).      *)
ConfirmedScopesAreShown == console = "security" => Security!ConfirmedScopesAreShown

(* A saved profile carries the role chosen for that user (SecurityConsole).*)
SavesWhatWasChosen == Security!SavesWhatWasChosen

(* A class shown as ready has fresh evidence of its own (RecoveryEvidence).*)
ReadyRowsAreProven == console = "recovery" => Recovery!ReadyRowsAreProven

(* The page and the backend do not contradict each other about policies    *)
(* and posture (RecoveryEvidence).                                         *)
PageAgreesWithBackend == console = "recovery" => Recovery!PageAgreesWithBackend

(* The setup's one button leads to another page (SetupFlow).               *)
SetupLeadsSomewhere == console = "setup" => Setup!SetupLeadsSomewhere

(* A deployment shown as live has everything it needs (SetupFlow).         *)
LiveIsJustified == console = "setup" => Setup!LiveIsJustified
=============================================================================
