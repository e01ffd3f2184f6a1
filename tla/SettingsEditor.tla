----------------------------- MODULE SettingsEditor -----------------------------
(***************************************************************************)
(* The system settings in the browser of one admin: the settings shown,    *)
(* the drafts, the one that is selected and edited, the dialog that a      *)
(* setting of high risk has to pass, and the calls that save and reset.    *)
(*                                                                         *)
(* Every call that succeeds answers with all the settings, which replace   *)
(* those shown and all drafts.  Nothing orders the answers.                *)
(***************************************************************************)
EXTENDS Naturals, FiniteSets

CONSTANTS
    Plain,     \* settings that are saved at once
    Risky,     \* settings that require a confirmation
    Values,    \* the values of a setting
    Default,   \* the value of the environment
    Unparsed,  \* a draft that is not a number where one is expected
    ActLimit,  \* acts of the admin (a bound)
    None

Keys == Plain \cup Risky
Drafts == Values \cup {Unparsed}
Entries == [value : Values, overridden : BOOLEAN]
Tables == [Keys -> Entries]
Maybe(S) == S \cup {None}

\* The dialog names the setting, the action and the new value.
Dialogs == [key : Keys, action : {"save", "reset"}, value : Maybe(Drafts)]

\* A call on its way; confirmed is the dialog that it was confirmed in.
Requests == [id : Nat, action : {"save", "reset"}, key : Keys, value : Maybe(Values),
             confirmed : Maybe(Dialogs), refused : BOOLEAN, answer : Maybe(Tables)]

\* None is none of the values it stands beside.
ASSUME SettingsAssumption ==
    /\ Default \in Values /\ Unparsed \notin Values
    /\ Plain \cap Risky = {} /\ ActLimit \in Nat
    /\ None \notin Drafts \cup Keys \cup Dialogs
    /\ None \notin Tables /\ None \notin [Keys -> Drafts]
    /\ None \notin [read : Maybe(Tables)]

VARIABLES
    server,        \* the settings of the deployment
    settings,      \* the settings shown, None before they are loaded
    drafts,        \* one draft for each setting shown
    loading,       \* the load: None when it is over, else what was read
    showHighRisk,
    selectedKey,
    editMode,
    savingKey,
    resettingKey,
    confirmDialog, \* the dialog, None when it is closed
    acknowledged,  \* the box of the dialog is ticked
    requests,
    touched,       \* settings whose draft was typed since drafts were replaced (history)
    acts

page == <<settings, drafts, loading, showHighRisk, selectedKey, editMode>>
calls == <<savingKey, resettingKey, requests>>
vars == <<server, page, calls, confirmDialog, acknowledged, touched, acts>>

TypeOK ==
    /\ server \in Tables /\ settings \in Maybe(Tables)
    /\ drafts \in Maybe([Keys -> Drafts]) /\ (drafts = None <=> settings = None)
    /\ loading \in Maybe([read : Maybe(Tables)])
    /\ showHighRisk \in BOOLEAN /\ editMode \in BOOLEAN /\ acknowledged \in BOOLEAN
    /\ selectedKey \in Maybe(Keys) /\ (selectedKey # None => settings # None)
    /\ editMode => selectedKey # None
    /\ savingKey \in Maybe(Keys) /\ resettingKey \in Maybe(Keys)
    /\ confirmDialog \in Maybe(Dialogs) /\ (confirmDialog # None => settings # None)
    /\ requests \subseteq Requests
    /\ \A request \in requests : request.action = "save" => request.value # None
    /\ touched \subseteq Keys /\ acts \in 0 .. ActLimit

-----------------------------------------------------------------------------
(* The server.                                                             *)

\* A reset of a setting that has no override is refused.
Accepted(request) == request.action = "save" \/ server[request.key].overridden

Apply(request) ==
    [server EXCEPT ![request.key] =
        IF request.action = "save" THEN [value |-> request.value, overridden |-> TRUE]
        ELSE [value |-> Default, overridden |-> FALSE]]

Handled(request) ==
    IF Accepted(request) THEN [request EXCEPT !.answer = Apply(request)]
    ELSE [request EXCEPT !.refused = TRUE]

Handles(request) ==
    /\ request.answer = None /\ ~request.refused
    /\ server' = IF Accepted(request) THEN Apply(request) ELSE server
    /\ requests' = (requests \ {request}) \cup {Handled(request)}
    /\ UNCHANGED <<page, savingKey, resettingKey, confirmDialog, acknowledged, touched, acts>>

LoadRead ==
    /\ loading = [read |-> None] /\ loading' = [read |-> server]
    /\ UNCHANGED <<server, settings, drafts, showHighRisk, selectedKey, editMode, calls,
                   confirmDialog, acknowledged, touched, acts>>

-----------------------------------------------------------------------------
(* The page.                                                               *)

Filtered(showing) == IF showing THEN Keys ELSE Plain

\* The effects: the first setting listed is selected when the one selected
\* is not listed; a change of the selection ends the editing.
Selects(key) ==
    /\ selectedKey' = key
    /\ editMode' = IF key = selectedKey THEN editMode ELSE FALSE

Reselects(showing) ==
    IF Filtered(showing) = {} THEN Selects(None)
    ELSE IF selectedKey \in Filtered(showing) THEN Selects(selectedKey)
    ELSE \E key \in Filtered(showing) : Selects(key)

\* Mutant: drafts that exist are left alone.
ReplacedKeepingDrafts(table) ==
    /\ settings' = table
    /\ drafts' = IF drafts = None THEN [key \in Keys |-> table[key].value] ELSE drafts
    /\ UNCHANGED touched

Replaced(table) ==
    /\ settings' = table
    /\ drafts' = [key \in Keys |-> table[key].value]
    /\ touched' = {}

LoadAnswered ==
    /\ loading \notin {None, [read |-> None]}
    /\ Replaced(loading.read) /\ loading' = None
    /\ Reselects(showHighRisk)
    /\ UNCHANGED <<server, showHighRisk, calls, confirmDialog, acknowledged, acts>>

LoadFails ==
    /\ loading # None /\ loading' = None
    /\ UNCHANGED <<server, settings, drafts, showHighRisk, selectedKey, editMode, calls,
                   confirmDialog, acknowledged, touched, acts>>

\* An answer ends the editing of whatever is edited, and clears the one mark.
Succeeds(request) ==
    /\ request.answer # None
    /\ Replaced(request.answer) /\ editMode' = FALSE
    /\ requests' = requests \ {request}
    /\ IF request.action = "save"
       THEN savingKey' = None /\ UNCHANGED resettingKey
       ELSE resettingKey' = None /\ UNCHANGED savingKey
    /\ UNCHANGED <<server, loading, showHighRisk, selectedKey, confirmDialog, acknowledged, acts>>

\* Refused, or lost on its way there or back.
Fails(request) ==
    /\ requests' = requests \ {request}
    /\ IF request.action = "save"
       THEN savingKey' = None /\ UNCHANGED resettingKey
       ELSE resettingKey' = None /\ UNCHANGED savingKey
    /\ UNCHANGED <<server, page, confirmDialog, acknowledged, touched, acts>>

-----------------------------------------------------------------------------
(* The admin.  An open dialog covers the page.                             *)

Acts == acts < ActLimit /\ acts' = acts + 1
OnPage == Acts /\ confirmDialog = None

SelectSetting ==
    /\ OnPage /\ settings # None
    /\ \E key \in Filtered(showHighRisk) \ {selectedKey} : Selects(key)
    /\ UNCHANGED <<server, settings, drafts, loading, showHighRisk, calls, confirmDialog,
                   acknowledged, touched>>

ToggleHighRisk ==
    /\ OnPage
    /\ showHighRisk' = ~showHighRisk
    /\ IF settings = None THEN Selects(selectedKey) ELSE Reselects(showHighRisk')
    /\ UNCHANGED <<server, settings, drafts, loading, calls, confirmDialog, acknowledged, touched>>

ToggleEditMode ==
    /\ OnPage /\ selectedKey # None
    /\ editMode' = ~editMode
    /\ UNCHANGED <<server, settings, drafts, loading, showHighRisk, selectedKey, calls,
                   confirmDialog, acknowledged, touched>>

SetDraftValue ==
    /\ OnPage /\ editMode
    /\ \E value \in Drafts : drafts' = [drafts EXCEPT ![selectedKey] = value]
    /\ touched' = touched \cup {selectedKey}
    /\ UNCHANGED <<server, settings, loading, showHighRisk, selectedKey, editMode, calls,
                   confirmDialog, acknowledged>>

Sends(action, key, value, dialog) ==
    requests' = requests \cup {[id |-> acts', action |-> action, key |-> key, value |-> value,
                                confirmed |-> dialog, refused |-> FALSE, answer |-> None]}

\* The key is marked first; a draft that does not parse then throws.
Saves(key, dialog) ==
    /\ savingKey' = key /\ UNCHANGED resettingKey
    /\ IF drafts[key] = Unparsed THEN UNCHANGED requests
       ELSE Sends("save", key, drafts[key], dialog)

Resets(key, dialog) ==
    /\ resettingKey' = key /\ UNCHANGED savingKey
    /\ Sends("reset", key, None, dialog)

Asks(action, key, value) ==
    /\ confirmDialog' = [key |-> key, action |-> action, value |-> value]
    /\ UNCHANGED calls

HandleSave ==
    /\ OnPage /\ editMode /\ savingKey # selectedKey
    /\ drafts[selectedKey] # settings[selectedKey].value
    /\ IF selectedKey \in Risky THEN Asks("save", selectedKey, drafts[selectedKey])
       ELSE Saves(selectedKey, None) /\ UNCHANGED confirmDialog
    /\ UNCHANGED <<server, page, acknowledged, touched>>

\* Mutant: a reset restores what is safe and asks for nothing.
HandleResetAtOnce ==
    /\ OnPage /\ editMode /\ resettingKey # selectedKey
    /\ settings[selectedKey].overridden
    /\ Resets(selectedKey, None)
    /\ UNCHANGED <<server, page, confirmDialog, acknowledged, touched>>

HandleReset ==
    /\ OnPage /\ editMode /\ resettingKey # selectedKey
    /\ settings[selectedKey].overridden
    /\ IF selectedKey \in Risky THEN Asks("reset", selectedKey, None)
       ELSE Resets(selectedKey, None) /\ UNCHANGED confirmDialog
    /\ UNCHANGED <<server, page, acknowledged, touched>>

Acknowledge ==
    /\ Acts /\ confirmDialog # None
    /\ acknowledged' = ~acknowledged
    /\ UNCHANGED <<server, page, calls, confirmDialog, touched>>

CancelConfirm ==
    /\ Acts /\ confirmDialog # None
    /\ confirmDialog' = None
    /\ UNCHANGED <<server, page, calls, acknowledged, touched>>

\* The draft of the moment is sent.
ExecuteConfirmed ==
    /\ Acts /\ confirmDialog # None /\ acknowledged
    /\ confirmDialog' = None
    /\ IF confirmDialog.action = "save" THEN Saves(confirmDialog.key, confirmDialog)
       ELSE Resets(confirmDialog.key, confirmDialog)
    /\ UNCHANGED <<server, page, acknowledged, touched>>

-----------------------------------------------------------------------------
Init ==
    /\ server \in [Keys -> {[value |-> Default, overridden |-> FALSE]}
                             \cup [value : Values, overridden : {TRUE}]]
    /\ settings = None /\ drafts = None /\ loading = [read |-> None]
    /\ showHighRisk = FALSE /\ selectedKey = None /\ editMode = FALSE
    /\ savingKey = None /\ resettingKey = None
    /\ confirmDialog = None /\ acknowledged = FALSE
    /\ requests = {} /\ touched = {} /\ acts = 0

Operate == SelectSetting \/ ToggleHighRisk \/ ToggleEditMode \/ SetDraftValue \/ HandleSave
           \/ HandleReset \/ Acknowledge \/ CancelConfirm \/ ExecuteConfirmed

Answer == \E request \in requests : Succeeds(request) \/ Fails(request)
Serve == \E request \in requests : Handles(request)

Next == Operate \/ Answer \/ Serve \/ LoadRead \/ LoadAnswered \/ LoadFails

Spec == Init /\ [][Next]_vars

-----------------------------------------------------------------------------
(* No setting of high risk changes unless a dialog that named this setting *)
(* and this action was confirmed.                                          *)
RiskyChangesAreConfirmed ==
    \A request \in requests :
        request.key \in Risky =>
            /\ request.confirmed # None
            /\ request.confirmed.key = request.key /\ request.confirmed.action = request.action

(* What the page offers to save was typed: the draft of a setting that was *)
(* left alone is the value shown, whichever answers came in between.       *)
UntouchedDraftsAreShown ==
    settings # None =>
        \A key \in Keys \ touched : drafts[key] = settings[key].value

(* A confirmed save sends the new value that the dialog showed.            *)
ConfirmedValueIsSent ==
    \A request \in requests :
        request.confirmed # None /\ request.action = "save" =>
            request.value = request.confirmed.value
=============================================================================
