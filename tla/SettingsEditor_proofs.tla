------------------------- MODULE SettingsEditor_proofs --------------------------
(***************************************************************************)
(* What SettingsEditor guarantees for every set of settings and of values: *)
(* its type invariant, that no setting of high risk changes without a      *)
(* dialog that named it, and that the page offers to save only what was    *)
(* typed.                                                                  *)
(***************************************************************************)
EXTENDS SettingsEditor, TLAPS

Inv == TypeOK /\ RiskyChangesAreConfirmed

-----------------------------------------------------------------------------
(* The state before the first answer.                                      *)
LEMMA InitialState == Init => Inv
  <1> SUFFICES ASSUME Init PROVE Inv
    OBVIOUS
  <1>1. server \in Tables
    <2>1. [value |-> Default, overridden |-> FALSE] \in Entries
      BY SettingsAssumption DEF Entries
    <2>2. [value : Values, overridden : {TRUE}] \subseteq Entries
      BY DEF Entries
    <2> QED
      BY <2>1, <2>2 DEF Init, Tables
  <1>2. acts \in 0 .. ActLimit
    BY SettingsAssumption DEF Init
  <1> QED
    BY <1>1, <1>2 DEF Init, Inv, TypeOK, RiskyChangesAreConfirmed, Maybe

(* What an answer carries, and how it replaces settings and drafts.        *)
LEMMA AnswerReplaces ==
  ASSUME NEW table \in Tables, Replaced(table)
  PROVE  settings' \in Tables /\ drafts' \in [Keys -> Drafts] /\ touched' = {}
  BY DEF Replaced, Tables, Entries, Drafts

(* The effects select a setting that exists.                               *)
LEMMA SelectionExists ==
  ASSUME TypeOK, NEW showing \in BOOLEAN, Reselects(showing)
  PROVE  /\ selectedKey' \in Maybe(Keys) /\ editMode' \in BOOLEAN
         /\ editMode' => selectedKey' # None
  BY SettingsAssumption DEF TypeOK, Reselects, Selects, Filtered, Keys, Maybe

(* What the server makes of a call leaves the call as it was.              *)
LEMMA HandledCall ==
  ASSUME TypeOK, NEW request \in requests, Handles(request)
  PROVE  /\ server' \in Tables
         /\ Handled(request) \in Requests
         /\ Handled(request).key = request.key
         /\ Handled(request).action = request.action
         /\ Handled(request).value = request.value
         /\ Handled(request).confirmed = request.confirmed
  <1>1. request \in Requests /\ server \in Tables /\ Default \in Values
    BY SettingsAssumption DEF TypeOK
  <1>2. request.action = "save" => request.value \in Values
    BY <1>1 DEF TypeOK, Requests, Maybe
  <1>3. Apply(request) \in Tables
    BY <1>1, <1>2 DEF Apply, Tables, Entries, Requests
  <1>4. server' \in Tables
    BY <1>1, <1>3 DEF Handles
  <1> QED
    BY <1>1, <1>3, <1>4 DEF Handled, Requests, Maybe

(* A call that is sent has the form of a call.                             *)
LEMMA SentCall ==
  ASSUME TypeOK, Acts, NEW key \in Keys, NEW action \in {"save", "reset"},
         NEW value \in Maybe(Values), NEW dialog \in Maybe(Dialogs),
         action = "save" => value # None,
         key \in Risky => dialog # None /\ dialog.key = key /\ dialog.action = action,
         RiskyChangesAreConfirmed,
         Sends(action, key, value, dialog)
  PROVE  /\ requests' \subseteq Requests
         /\ \A request \in requests' : request.action = "save" => request.value # None
         /\ RiskyChangesAreConfirmed'
  <1> DEFINE sent == [id |-> acts', action |-> action, key |-> key, value |-> value,
                      confirmed |-> dialog, refused |-> FALSE, answer |-> None]
  <1>1. requests' = requests \cup {sent}
    BY DEF Sends
  <1>2. acts' \in Nat
    BY SettingsAssumption DEF Acts, TypeOK
  <1>3. sent \in Requests
    BY <1>2 DEF Requests, Maybe
  <1>4. sent.action = action /\ sent.value = value /\ sent.key = key /\ sent.confirmed = dialog
    OBVIOUS
  <1> HIDE DEF sent
  <1> QED
    BY <1>1, <1>3, <1>4 DEF TypeOK, RiskyChangesAreConfirmed

(* A save that is marked is sent, or its draft does not parse.             *)
LEMMA SavedCall ==
  ASSUME Inv, Acts, NEW key \in Keys, NEW dialog \in Maybe(Dialogs), settings # None,
         key \in Risky => dialog # None /\ dialog.key = key /\ dialog.action = "save",
         Saves(key, dialog)
  PROVE  /\ savingKey' = key /\ resettingKey' = resettingKey
         /\ requests' \subseteq Requests
         /\ \A request \in requests' : request.action = "save" => request.value # None
         /\ RiskyChangesAreConfirmed'
  <1>1. drafts[key] \in Drafts
    BY DEF Inv, TypeOK, Maybe
  <1>2. savingKey' = key /\ resettingKey' = resettingKey
    BY DEF Saves
  <1>3. CASE drafts[key] = Unparsed
    BY <1>2, <1>3 DEF Saves, Inv, TypeOK, RiskyChangesAreConfirmed
  <1>4. CASE drafts[key] # Unparsed
    <2>1. drafts[key] \in Maybe(Values) /\ drafts[key] # None
      BY <1>1, <1>4, SettingsAssumption DEF Drafts, Maybe
    <2>2. Sends("save", key, drafts[key], dialog)
      BY <1>4 DEF Saves
    <2> QED
      BY <1>2, <2>1, <2>2, SentCall DEF Inv
  <1> QED
    BY <1>3, <1>4

(* A reset is marked and sent.                                             *)
LEMMA ResetCall ==
  ASSUME Inv, Acts, NEW key \in Keys, NEW dialog \in Maybe(Dialogs),
         key \in Risky => dialog # None /\ dialog.key = key /\ dialog.action = "reset",
         Resets(key, dialog)
  PROVE  /\ resettingKey' = key /\ savingKey' = savingKey
         /\ requests' \subseteq Requests
         /\ \A request \in requests' : request.action = "save" => request.value # None
         /\ RiskyChangesAreConfirmed'
  <1>1. None \in Maybe(Values)
    BY DEF Maybe
  <1>2. Sends("reset", key, None, dialog) /\ resettingKey' = key /\ savingKey' = savingKey
    BY DEF Resets
  <1> QED
    BY <1>1, <1>2, SentCall DEF Inv

-----------------------------------------------------------------------------
(* Every step keeps the invariant.                                         *)
LEMMA AnswersKeepInv ==
  ASSUME Inv, NEW request \in requests, Succeeds(request) \/ Fails(request)
  PROVE  Inv'
  <1>1. request \in Requests
    BY DEF Inv, TypeOK
  <1>2. requests' = requests \ {request}
    BY DEF Succeeds, Fails
  <1>3. savingKey' \in Maybe(Keys) /\ resettingKey' \in Maybe(Keys)
    BY DEF Succeeds, Fails, Inv, TypeOK, Maybe
  <1>4. RiskyChangesAreConfirmed'
    BY <1>2 DEF Inv, RiskyChangesAreConfirmed
  <1>5. CASE Succeeds(request)
    <2>1. request.answer \in Tables
      BY <1>1, <1>5 DEF Succeeds, Requests, Maybe
    <2>2. settings' \in Tables /\ drafts' \in [Keys -> Drafts] /\ touched' = {}
      BY <1>5, <2>1, AnswerReplaces DEF Succeeds
    <2>3. settings' # None /\ drafts' # None
      BY <2>2, SettingsAssumption
    <2> QED
      BY <1>2, <1>3, <1>4, <1>5, <2>2, <2>3 DEF Succeeds, Inv, TypeOK, Maybe
  <1>6. CASE Fails(request)
    BY <1>2, <1>3, <1>4, <1>6 DEF Fails, Inv, TypeOK, page
  <1> QED
    BY <1>5, <1>6

LEMMA ServerKeepsInv ==
  ASSUME Inv, NEW request \in requests, Handles(request)
  PROVE  Inv'
  <1>1. /\ server' \in Tables
        /\ requests' = (requests \ {request}) \cup {Handled(request)}
        /\ Handled(request) \in Requests
        /\ Handled(request).key = request.key
        /\ Handled(request).action = request.action
        /\ Handled(request).value = request.value
        /\ Handled(request).confirmed = request.confirmed
    BY HandledCall DEF Inv, Handles
  <1>2. RiskyChangesAreConfirmed'
    BY <1>1 DEF Inv, RiskyChangesAreConfirmed
  <1>3. /\ requests' \subseteq Requests
        /\ \A r \in requests' : r.action = "save" => r.value # None
    BY <1>1 DEF Inv, TypeOK
  <1> QED
    BY <1>1, <1>2, <1>3 DEF Handles, Inv, TypeOK, page

LEMMA LoadKeepsInv ==
  ASSUME Inv, LoadRead \/ LoadAnswered \/ LoadFails
  PROVE  Inv'
  <1>1. RiskyChangesAreConfirmed'
    BY DEF LoadRead, LoadAnswered, LoadFails, calls, Inv, RiskyChangesAreConfirmed
  <1>2. CASE LoadRead
    BY <1>1, <1>2 DEF LoadRead, calls, Inv, TypeOK, Maybe
  <1>3. CASE LoadAnswered
    <2>1. loading.read \in Tables
      BY <1>3 DEF LoadAnswered, Inv, TypeOK, Maybe
    <2>2. settings' \in Tables /\ drafts' \in [Keys -> Drafts] /\ touched' = {}
      BY <1>3, <2>1, AnswerReplaces DEF LoadAnswered
    <2>3. /\ selectedKey' \in Maybe(Keys) /\ editMode' \in BOOLEAN
          /\ editMode' => selectedKey' # None
      BY <1>3, SelectionExists DEF LoadAnswered, Inv, TypeOK
    <2>4. settings' # None /\ drafts' # None
      BY <2>2, SettingsAssumption
    <2> QED
      BY <1>1, <1>3, <2>2, <2>3, <2>4 DEF LoadAnswered, calls, Inv, TypeOK, Maybe
  <1>4. CASE LoadFails
    BY <1>1, <1>4 DEF LoadFails, calls, Inv, TypeOK, Maybe
  <1> QED
    BY <1>2, <1>3, <1>4

LEMMA OperatorKeepsInv ==
  ASSUME Inv, Operate
  PROVE  Inv'
  <1>1. acts' \in 0 .. ActLimit /\ Acts
    BY SettingsAssumption
    DEF Operate, OnPage, Acts, SelectSetting, ToggleHighRisk, ToggleEditMode, SetDraftValue,
        HandleSave, HandleReset, Acknowledge, CancelConfirm, ExecuteConfirmed, Inv, TypeOK
  <1>2. CASE SelectSetting
    <2>1. selectedKey' \in Keys /\ selectedKey' # None /\ editMode' \in BOOLEAN
      BY <1>2, SettingsAssumption DEF SelectSetting, Selects, Filtered, Keys, Inv, TypeOK
    <2> QED
      BY <1>1, <1>2, <2>1
      DEF SelectSetting, calls, Inv, TypeOK, RiskyChangesAreConfirmed, Maybe
  <1>3. CASE ToggleHighRisk
    <2>1. showHighRisk' \in BOOLEAN
      BY <1>3 DEF ToggleHighRisk, Inv, TypeOK
    <2>2. /\ selectedKey' \in Maybe(Keys) /\ editMode' \in BOOLEAN
          /\ editMode' => selectedKey' # None
      BY <1>3, <2>1, SelectionExists DEF ToggleHighRisk, Selects, Inv, TypeOK
    <2>3. selectedKey' # None => settings # None
      BY <1>3 DEF ToggleHighRisk, Selects, Inv, TypeOK
    <2> QED
      BY <1>1, <1>3, <2>1, <2>2, <2>3
      DEF ToggleHighRisk, calls, Inv, TypeOK, RiskyChangesAreConfirmed
  <1>4. CASE ToggleEditMode
    BY <1>1, <1>4 DEF ToggleEditMode, calls, Inv, TypeOK, RiskyChangesAreConfirmed
  <1>5. CASE SetDraftValue
    <2>1. settings # None /\ drafts # None /\ drafts \in [Keys -> Drafts]
      BY <1>5 DEF SetDraftValue, Inv, TypeOK, Maybe
    <2> QED
      BY <1>1, <1>5, <2>1, SettingsAssumption
      DEF SetDraftValue, calls, Inv, TypeOK, RiskyChangesAreConfirmed, Maybe
  <1>6. CASE HandleSave
    <2>1. selectedKey \in Keys /\ settings # None /\ drafts[selectedKey] \in Maybe(Drafts)
      BY <1>6 DEF HandleSave, Inv, TypeOK, Maybe
    <2>2. CASE selectedKey \in Risky
      <3>1. Asks("save", selectedKey, drafts[selectedKey])
        BY <1>6, <2>2 DEF HandleSave
      <3>2. confirmDialog' \in Dialogs
        BY <2>1, <3>1 DEF Asks, Dialogs
      <3> QED
        BY <1>1, <1>6, <2>1, <3>1, <3>2
        DEF HandleSave, Asks, calls, page, Inv, TypeOK, RiskyChangesAreConfirmed, Maybe
    <2>3. CASE selectedKey \notin Risky
      <3>1. Saves(selectedKey, None) /\ confirmDialog' = confirmDialog
        BY <1>6, <2>3 DEF HandleSave
      <3>2. /\ savingKey' = selectedKey /\ resettingKey' = resettingKey
            /\ requests' \subseteq Requests
            /\ \A request \in requests' : request.action = "save" => request.value # None
            /\ RiskyChangesAreConfirmed'
        BY <1>1, <2>1, <2>3, <3>1, SavedCall DEF Maybe
      <3> QED
        BY <1>1, <1>6, <2>1, <3>1, <3>2 DEF HandleSave, page, Inv, TypeOK, Maybe
    <2> QED
      BY <2>2, <2>3
  <1>7. CASE HandleReset
    <2>1. selectedKey \in Keys /\ settings # None
      BY <1>7 DEF HandleReset, Inv, TypeOK, Maybe
    <2>2. CASE selectedKey \in Risky
      <3>1. Asks("reset", selectedKey, None)
        BY <1>7, <2>2 DEF HandleReset
      <3>2. confirmDialog' \in Dialogs
        BY <2>1, <3>1 DEF Asks, Dialogs, Maybe
      <3> QED
        BY <1>1, <1>7, <2>1, <3>1, <3>2
        DEF HandleReset, Asks, calls, page, Inv, TypeOK, RiskyChangesAreConfirmed, Maybe
    <2>3. CASE selectedKey \notin Risky
      <3>1. Resets(selectedKey, None) /\ confirmDialog' = confirmDialog
        BY <1>7, <2>3 DEF HandleReset
      <3>2. /\ resettingKey' = selectedKey /\ savingKey' = savingKey
            /\ requests' \subseteq Requests
            /\ \A request \in requests' : request.action = "save" => request.value # None
            /\ RiskyChangesAreConfirmed'
        BY <1>1, <2>1, <2>3, <3>1, ResetCall DEF Maybe
      <3> QED
        BY <1>1, <1>7, <2>1, <3>1, <3>2 DEF HandleReset, page, Inv, TypeOK, Maybe
    <2> QED
      BY <2>2, <2>3
  <1>8. CASE Acknowledge
    BY <1>1, <1>8 DEF Acknowledge, calls, page, Inv, TypeOK, RiskyChangesAreConfirmed
  <1>9. CASE CancelConfirm
    BY <1>1, <1>9 DEF CancelConfirm, calls, page, Inv, TypeOK, RiskyChangesAreConfirmed, Maybe
  <1>10. CASE ExecuteConfirmed
    <2>1. confirmDialog \in Dialogs /\ confirmDialog # None /\ settings # None
      BY <1>10 DEF ExecuteConfirmed, Inv, TypeOK, Maybe
    <2>2. confirmDialog.key \in Keys /\ confirmDialog.action \in {"save", "reset"}
      BY <2>1 DEF Dialogs
    <2>3. /\ savingKey' \in Maybe(Keys) /\ resettingKey' \in Maybe(Keys)
          /\ requests' \subseteq Requests
          /\ \A request \in requests' : request.action = "save" => request.value # None
          /\ RiskyChangesAreConfirmed'
      <3>1. CASE confirmDialog.action = "save"
        <4>1. Saves(confirmDialog.key, confirmDialog)
          BY <1>10, <3>1 DEF ExecuteConfirmed
        <4> QED
          BY <1>1, <2>1, <2>2, <3>1, <4>1, SavedCall DEF Inv, TypeOK, Maybe
      <3>2. CASE confirmDialog.action = "reset"
        <4>1. Resets(confirmDialog.key, confirmDialog)
          BY <1>10, <3>2 DEF ExecuteConfirmed
        <4> QED
          BY <1>1, <2>1, <2>2, <3>2, <4>1, ResetCall DEF Inv, TypeOK, Maybe
      <3> QED
        BY <2>2, <3>1, <3>2
    <2> QED
      BY <1>1, <1>10, <2>3 DEF ExecuteConfirmed, page, Inv, TypeOK, Maybe
  <1> QED
    BY <1>2, <1>3, <1>4, <1>5, <1>6, <1>7, <1>8, <1>9, <1>10 DEF Operate

-----------------------------------------------------------------------------
LEMMA StutterKeepsInv == Inv /\ UNCHANGED vars => Inv'
  BY DEF vars, page, calls, Inv, TypeOK, RiskyChangesAreConfirmed

LEMMA StepsKeepInv == Inv /\ [Next]_vars => Inv'
  <1> SUFFICES ASSUME Inv, Next PROVE Inv'
    BY StutterKeepsInv
  <1>1. CASE Operate
    BY <1>1, OperatorKeepsInv
  <1>2. CASE Answer
    BY <1>2, AnswersKeepInv DEF Answer
  <1>3. CASE Serve
    BY <1>3, ServerKeepsInv DEF Serve
  <1>4. CASE LoadRead \/ LoadAnswered \/ LoadFails
    BY <1>4, LoadKeepsInv
  <1> QED
    BY <1>1, <1>2, <1>3, <1>4 DEF Next

LEMMA AlwaysInv == Spec => []Inv
  BY InitialState, StepsKeepInv, PTL DEF Spec

(* The variables keep their types, whatever answers come in which order:   *)
(* useSettings never marks, selects or edits a setting that does not exist.*)
THEOREM SettingsTypeOK == Spec => []TypeOK
  <1>1. Inv => TypeOK
    BY DEF Inv
  <1> QED
    BY <1>1, AlwaysInv, PTL

(* No call changes a setting of high risk unless it was confirmed in a     *)
(* dialog that named the setting and the action (handleSave, handleReset   *)
(* and executeConfirmed of useSettings).                                   *)
THEOREM HighRiskIsConfirmed == Spec => []RiskyChangesAreConfirmed
  <1>1. Inv => RiskyChangesAreConfirmed
    BY DEF Inv
  <1> QED
    BY <1>1, AlwaysInv, PTL

-----------------------------------------------------------------------------
(* An answer replaces settings and drafts together.                        *)
LEMMA ReplacedIsShown ==
  ASSUME NEW table, Replaced(table) PROVE UntouchedDraftsAreShown'
  BY DEF Replaced, UntouchedDraftsAreShown

(* A draft differs from the value shown once it was typed.                 *)
LEMMA StepsKeepDrafts ==
  Inv /\ UntouchedDraftsAreShown /\ [Next]_vars => UntouchedDraftsAreShown'
  <1> SUFFICES ASSUME Inv, UntouchedDraftsAreShown, [Next]_vars
               PROVE  UntouchedDraftsAreShown'
    OBVIOUS
  <1>1. CASE settings' = settings /\ drafts' = drafts /\ touched' = touched
    BY <1>1 DEF UntouchedDraftsAreShown
  <1>2. CASE \E table : Replaced(table)
    BY <1>2, ReplacedIsShown
  <1>3. CASE SetDraftValue
    <2>1. drafts \in [Keys -> Drafts] /\ settings' = settings
      BY <1>3 DEF SetDraftValue, Inv, TypeOK, Maybe
    <2>2. PICK value \in Drafts : drafts' = [drafts EXCEPT ![selectedKey] = value]
      BY <1>3 DEF SetDraftValue
    <2>3. touched' = touched \cup {selectedKey}
      BY <1>3 DEF SetDraftValue
    <2> QED
      BY <2>1, <2>2, <2>3 DEF UntouchedDraftsAreShown
  <1>4. CASE Operate /\ ~SetDraftValue
    BY <1>1, <1>4
    DEF Operate, SelectSetting, ToggleHighRisk, ToggleEditMode, HandleSave, HandleReset,
        Acknowledge, CancelConfirm, ExecuteConfirmed, page
  <1>5. CASE Answer
    BY <1>1, <1>2, <1>5 DEF Answer, Succeeds, Fails, page
  <1>6. CASE Serve \/ LoadRead \/ LoadFails \/ UNCHANGED vars
    BY <1>1, <1>6 DEF Serve, Handles, LoadRead, LoadFails, page, vars
  <1>7. CASE LoadAnswered
    BY <1>2, <1>7 DEF LoadAnswered
  <1> QED
    BY <1>3, <1>4, <1>5, <1>6, <1>7 DEF Next

LEMMA DraftsAtFirst == Init => UntouchedDraftsAreShown
  BY DEF Init, UntouchedDraftsAreShown

(* The page offers to save only drafts that were typed: what useSettings   *)
(* never edited equals the value shown, after loads, saves and resets that *)
(* are answered in any order.                                              *)
THEOREM DraftsAreWhatWasTyped == Spec => []UntouchedDraftsAreShown
  BY AlwaysInv, DraftsAtFirst, StepsKeepDrafts, PTL DEF Spec
=============================================================================
