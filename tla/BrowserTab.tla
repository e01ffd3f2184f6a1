------------------------------- MODULE BrowserTab -------------------------------
(***************************************************************************)
(* One browser tab of the control plane: the admin session that guards it  *)
(* (AdminSession) or a record page at work inside it (RecordPage).  A tab  *)
(* shows one page at a time, and a page that is left keeps nothing: its    *)
(* state lives in its component and its effects drop what is under way.  A *)
(* behaviour therefore watches either the session or one page.             *)
(***************************************************************************)
EXTENDS AdminSession

CONSTANTS
    Shown,          \* names of the record pages
    InstanceCount, RecordCount,
    PageActLimit    \* acts of persons at a page (a bound)

VARIABLES
    surface,        \* what is watched: "session" or "page"
    home, hidden, page, route, heading, rows, detail, listState, detailState,
    instanceLoad, listLoad, detailLoad, commands, opened, reopened

Records ==
    INSTANCE RecordPage WITH nav <- heading, ActLimit <- PageActLimit

ASSUME PagesAssumption ==
    /\ InstanceCount \in Nat \ {0} /\ RecordCount \in Nat
    /\ PageActLimit \in 0 .. ActLimit
    /\ Shown \subseteq DOMAIN Records!PageNamed
    /\ None \notin Records!Routes \cup Records!Details

session == <<server, token, cache, router, request>>
record == <<home, hidden, page, route, heading, rows, detail, listState, detailState,
            instanceLoad, listLoad, detailLoad, commands, opened, reopened>>
tab == <<surface, session, record, acts>>

\* The part of the tab that is not watched stays as it would be opened.
TabInit ==
    /\ surface \in {"session", "page"}
    /\ Init /\ Records!Init
    /\ surface = "session" => page = Records!TasksPage /\ route.inst = 0 /\ route.rec = 0
                              /\ home = [x \in Records!Records |-> 0]

TabNext ==
    \/ surface = "session" /\ Next /\ UNCHANGED <<surface, record>>
    \/ surface = "page" /\ Records!Next /\ UNCHANGED <<surface, session>>

TabSpec == TabInit /\ [][TabNext]_tab

\* Every call the browser makes ends, with an answer or an error, the router
\* ends every navigation, and the renderer carries out the redirects it shows.
\* What is watched never changes: each line is one obligation of the session
\* and one of the page.
InSession(step) == surface = "session" /\ step /\ UNCHANGED <<surface, record>>
InPage(step) == surface = "page" /\ step /\ UNCHANGED <<surface, session>>

FairTab ==
    /\ TabSpec
    /\ WF_tab(InSession(RequestEnds) \/ InPage(Records!CommandEnds))
    /\ WF_tab(InSession(LoaderEnds) \/ InPage(Records!NavigationArrives))
    /\ WF_tab(InSession(CheckEnds) \/ InPage(Records!DetailEnds))
    /\ WF_tab(InSession(Redirects) \/ InPage(Records!ListEnds))
    /\ WF_tab(InPage(Records!InstancesEnd))

-----------------------------------------------------------------------------
(* Session and pages keep to their types: no check and no loader without a *)
(* token, no load without an address, no selection outside the records, no *)
(* command the page does not have.                                         *)
TabTypeOK == TypeOK /\ (surface = "page" => Records!TypeOK)

(* At rest a page shows the record its address names (RecordPage).         *)
ShowsWhatIsSelected == surface = "page" => Records!ShowsWhatIsSelected

(* At rest a page selects a listed record (RecordPage).                    *)
SelectionIsListed == surface = "page" => Records!SelectionIsListed

(* At rest nothing is shown as loading (RecordPage).                       *)
NoEndlessLoading == surface = "page" => Records!NoEndlessLoading

(* A link opens the record it names (RecordPage).                          *)
LinksOpenTheirRecord == surface = "page" => Records!LinksOpenTheirRecord

(* Once the persons stop, the tab comes to rest: the loaders of login and  *)
(* control plane and the redirects of the shell do not send each other     *)
(* back and forth, no shell loads for ever, and the selection of a page,   *)
(* its address and its loads do not keep moving each other.                *)
ComesToRest == <>[](IF surface = "session" THEN AtRest ELSE Records!AtRest)
=============================================================================
