---------------------------- MODULE SecurityConsole ----------------------------
(***************************************************************************)
(* The security page in one browser: the directory of admin users, the     *)
(* user that is selected in it, the draft of that user's role, the scopes  *)
(* (instance memberships) of that user, and the elevated access that can   *)
(* replace the browser's own session while the page stays open.            *)
(*                                                                         *)
(* A handler sends one call and, once it is answered, loads the whole page *)
(* anew.  Every handler has a busy flag of its own, so that loads overlap; *)
(* nothing orders their answers.  A load takes the branch that the session *)
(* gave it when its closure was made.  The scopes are loaded by an effect  *)
(* which drops the answers of loads it has given up.                       *)
(***************************************************************************)
EXTENDS Naturals, FiniteSets, Functions, FiniteSetsExt

CONSTANTS
    UserCount,   \* users that exist or may be created, numbered
    ActLimit,    \* acts of the admin and of others (a bound)
    None

Users == 1 .. UserCount
Roles == {"admin", "operator"}
Rosters == UNION {[S -> Roles] : S \in SUBSET Users}

Handlers == {"create", "profile", "scope", "request", "issue"}
Effects == {"mount", "session"}  \* the page's load at its mount, and after a session change

\* A session is that of an admin or of an operator; impersonation only reads.
Sessions == [admin : BOOLEAN, writes : BOOLEAN]
Grants == [user : Users \cup {None}, status : {"open", "approved", "issued"}]

Maybe(S) == S \cup {None}

VARIABLES
    roster,      \* server: the users and their roles
    scopeCount,  \* server: how often the scopes of each user were changed
    grant,       \* server: the request for elevated access, and whom it impersonates
    session,     \* the session of the browser
    users,       \* the directory on the page
    shownGrant,  \* the request on the page
    selected,
    draft,       \* the role in the editor
    scopes,      \* the scopes shown: whose they are and how old
    scopeLoad,   \* the load of the scopes
    tasks,       \* for each handler and effect: its call, then its load
    chosen,      \* the role the admin chose for the selected user (history)
    told,        \* scope changes that were confirmed to the admin (history)
    failed,      \* whether a load has failed (history)
    acts

server == <<roster, scopeCount, grant>>
page == <<users, selected, draft, scopes, scopeLoad, chosen>>
vars == <<server, session, page, shownGrant, tasks, told, failed, acts>>

Calls == [phase : {"sent", "done"}, user : Maybe(Users), role : Maybe(Roles), admin : BOOLEAN]
Loads == [phase : {"load"}, admin : BOOLEAN, allowed : BOOLEAN, read : Maybe(Rosters),
          grant : Maybe(Grants)]
ProfileChoices == [user : Users, role : Roles]
ScopeLoads == [user : Users, count : Maybe(0 .. ActLimit)]

TypeOK ==
    /\ roster \in Rosters /\ users \in Rosters
    /\ scopeCount \in [Users -> 0 .. ActLimit] /\ told \in [Users -> 0 .. ActLimit]
    /\ grant \in Maybe(Grants) /\ shownGrant \in Maybe(Grants)
    /\ session \in Sessions
    /\ selected \in Maybe(DOMAIN users)
    /\ draft \in Maybe(Roles)
    /\ scopes \in Maybe([user : Users, count : 0 .. ActLimit])
    /\ scopeLoad \in Maybe(ScopeLoads)
    /\ \A h \in Handlers : tasks[h] \in Maybe(Calls \cup Loads)
    /\ \A h \in Effects : tasks[h] \in Maybe(Loads)
    /\ chosen \in Maybe(ProfileChoices)
    /\ failed \in BOOLEAN /\ acts \in 0 .. ActLimit

-----------------------------------------------------------------------------
(* A commit of the page, with the effects that follow it.                  *)

Selection(rows, sel) ==
    IF sel \in DOMAIN rows THEN sel ELSE IF DOMAIN rows = {} THEN None ELSE Min(DOMAIN rows)

\* Mutant: the editor is filled once and not for another user.
EditorKeepsForEver(rows, sel) == sel # None /\ selected # None

\* The editor keeps what was typed while the user and the role stay the same.
EditorKeeps(rows, sel) ==
    sel # None /\ sel = selected /\ rows[sel] = users[sel]

RunEditor(rows, sel) ==
    IF EditorKeeps(rows, sel) THEN UNCHANGED <<draft, chosen>>
    ELSE draft' = (IF sel = None THEN None ELSE rows[sel]) /\ chosen' = None

\* Mutant: the scopes are loaded for a selection, not again for a reload.
RunScopesOnce(sel, admin, kept) ==
    IF sel = selected THEN scopes' = kept /\ UNCHANGED scopeLoad
    ELSE IF sel = None \/ ~admin THEN scopes' = None /\ scopeLoad' = None
    ELSE scopes' = kept /\ scopeLoad' = [user |-> sel, count |-> None]

\* The scopes shown stay until the answer of the new load.
RunScopes(sel, admin, kept) ==
    IF sel = None \/ ~admin THEN scopes' = None /\ scopeLoad' = None
    ELSE scopes' = kept /\ scopeLoad' = [user |-> sel, count |-> None]

Commit(rows, sel, admin, kept) ==
    /\ users' = rows
    /\ selected' = Selection(rows, sel)
    /\ RunEditor(rows, selected')
    /\ RunScopes(selected', admin, kept)

\* A load of the page: its branch, and whether the session may use it.
NewLoad(admin, sess) ==
    [phase |-> "load", admin |-> admin, allowed |-> (admin => sess.admin),
     read |-> None, grant |-> None]

-----------------------------------------------------------------------------
(* What the admin does.                                                    *)

Act == acts < ActLimit /\ acts' = acts + 1

Send(h, user, role) ==
    /\ session.writes
    /\ tasks[h] = None
    /\ Act
    /\ tasks' = [tasks EXCEPT ![h] = [phase |-> "sent", user |-> user, role |-> role,
                                      admin |-> session.admin]]
    /\ UNCHANGED <<server, session, page, shownGrant, told, failed>>

OnCreate(u, r) == session.admin /\ u \notin DOMAIN roster /\ Send("create", u, r)

\* Nothing is sent when the draft is the role the user has.
OnSaveUser ==
    session.admin /\ selected # None /\ draft # users[selected]
    /\ Send("profile", selected, draft)

OnSaveScope == session.admin /\ selected # None /\ Send("scope", selected, None)

\* Impersonation names a user and is for admins; the other kind is break-glass.
OnSubmitElevatedAccess(u) ==
    (u # None => session.admin /\ u \in DOMAIN users) /\ Send("request", u, None)

OnIssueElevatedAccess ==
    /\ shownGrant # None /\ shownGrant.status = "approved"
    /\ Send("issue", shownGrant.user, None)

SelectUser(u) ==
    /\ session.admin /\ u \in DOMAIN users /\ u # selected
    /\ Act
    /\ Commit(users, u, TRUE, scopes)
    /\ UNCHANGED <<server, session, shownGrant, tasks, told, failed>>

EditRole(r) ==
    /\ session.admin /\ session.writes /\ selected # None /\ r # draft
    /\ Act
    /\ draft' = r
    /\ chosen' = [user |-> selected, role |-> r]
    /\ UNCHANGED <<server, session, users, selected, scopes, scopeLoad, shownGrant,
                   tasks, told, failed>>

-----------------------------------------------------------------------------
(* Calls.                                                                  *)

Executed(h) ==
    LET call == tasks[h] IN
    /\ call # None /\ call.phase = "sent"
    /\ tasks' = [tasks EXCEPT ![h].phase = "done"]
    /\ roster' = IF h = "create" \/ h = "profile"
                 THEN [u \in DOMAIN roster \cup {call.user} |->
                         IF u = call.user THEN call.role ELSE roster[u]]
                 ELSE roster
    /\ scopeCount' = IF h = "scope" THEN [scopeCount EXCEPT ![call.user] = @ + 1]
                     ELSE scopeCount
    /\ CASE h = "request" -> grant = None /\ grant' = [user |-> call.user, status |-> "open"]
         [] h = "issue" -> grant.status = "approved" /\ grant' = [grant EXCEPT !.status = "issued"]
         [] OTHER -> UNCHANGED grant
    /\ UNCHANGED <<session, page, shownGrant, told, failed, acts>>

\* Break-glass makes an admin of the session, impersonation the user's reader.
Elevated(u) ==
    IF u = None THEN [admin |-> TRUE, writes |-> TRUE]
    ELSE [admin |-> (roster[u] = "admin"), writes |-> FALSE]

\* The answer that starts the load of the handler, by its old closure.  A new
\* session also starts the load of the effect, by the new one.
Answered(h) ==
    LET call == tasks[h]
        next == IF h = "issue" THEN Elevated(call.user) ELSE session
        started == [tasks EXCEPT ![h] = NewLoad(call.admin, next)]
    IN
    /\ call # None /\ call.phase = "done"
    /\ session' = next
    /\ shownGrant' = IF h = "request" \/ h = "issue" THEN grant ELSE shownGrant
    /\ told' = IF h = "scope" THEN [told EXCEPT ![call.user] = scopeCount[call.user]] ELSE told
    /\ IF h = "issue"
       THEN tasks' = [started EXCEPT !["session"] = NewLoad(next.admin, next)]
       ELSE tasks' = started
    /\ IF next.admin = session.admin THEN UNCHANGED page
       ELSE Commit(users, selected, next.admin, scopes)
    /\ UNCHANGED <<server, failed, acts>>

\* The call is refused or its answer is lost; nothing is loaded.
CallFails(h) ==
    /\ tasks[h] # None /\ tasks[h].phase \in {"sent", "done"}
    /\ tasks' = [tasks EXCEPT ![h] = None]
    /\ UNCHANGED <<server, session, page, shownGrant, told, failed, acts>>

-----------------------------------------------------------------------------
(* Loads.                                                                  *)

Loading(h) == tasks[h] # None /\ tasks[h].phase = "load"

PageRead(h) ==
    /\ Loading(h) /\ tasks[h].read = None /\ tasks[h].allowed
    /\ tasks' = [tasks EXCEPT ![h].read = roster, ![h].grant = grant]
    /\ UNCHANGED <<server, session, page, shownGrant, told, failed, acts>>

\* Without the admin branch the page drops what only an admin sees.
PageAnswered(h) ==
    /\ Loading(h) /\ tasks[h].read # None
    /\ tasks' = [tasks EXCEPT ![h] = None]
    /\ shownGrant' = tasks[h].grant
    /\ IF tasks[h].admin THEN Commit(tasks[h].read, selected, session.admin, scopes)
       ELSE Commit(<<>>, None, session.admin, None)
    /\ UNCHANGED <<server, session, told, failed, acts>>

PageFails(h) ==
    /\ Loading(h)
    /\ tasks' = [tasks EXCEPT ![h] = None]
    /\ failed' = TRUE
    /\ UNCHANGED <<server, session, page, shownGrant, told, acts>>

ScopesRead ==
    /\ scopeLoad # None /\ scopeLoad.count = None
    /\ scopeLoad' = [scopeLoad EXCEPT !.count = scopeCount[scopeLoad.user]]
    /\ UNCHANGED <<server, session, users, selected, draft, scopes, chosen, shownGrant,
                   tasks, told, failed, acts>>

ScopesAnswered ==
    /\ scopeLoad # None /\ scopeLoad.count # None
    /\ scopes' = scopeLoad
    /\ scopeLoad' = None
    /\ UNCHANGED <<server, session, users, selected, draft, chosen, shownGrant, tasks,
                   told, failed, acts>>

\* Mutant: the scopes of the last user stay when the load fails.
ScopesFailKeeping ==
    /\ scopeLoad # None
    /\ scopeLoad' = None /\ failed' = TRUE
    /\ UNCHANGED <<server, session, users, selected, draft, scopes, chosen, shownGrant,
                   tasks, told, acts>>

ScopesFail ==
    /\ scopeLoad # None
    /\ scopes' = None /\ scopeLoad' = None /\ failed' = TRUE
    /\ UNCHANGED <<server, session, users, selected, draft, chosen, shownGrant, tasks,
                   told, acts>>

-----------------------------------------------------------------------------
(* Others.                                                                 *)

OthersChange(u, r) ==
    /\ Act
    /\ u \in DOMAIN roster /\ roster[u] # r
    /\ roster' = [roster EXCEPT ![u] = r]
    /\ UNCHANGED <<scopeCount, grant, session, page, shownGrant, tasks, told, failed>>

OthersApprove ==
    /\ Act
    /\ grant # None /\ grant.status = "open"
    /\ grant' = [grant EXCEPT !.status = "approved"]
    /\ UNCHANGED <<roster, scopeCount, session, page, shownGrant, tasks, told, failed>>

-----------------------------------------------------------------------------
Init ==
    /\ roster \in {[u \in S |-> IF u = 1 THEN "admin" ELSE "operator"] :
                     S \in {1 .. n : n \in Users}}
    /\ scopeCount = [u \in Users |-> 0] /\ told = scopeCount
    /\ grant = None /\ shownGrant = None
    /\ session \in {s \in Sessions : s.writes}
    /\ users = <<>> /\ selected = None /\ draft = None /\ scopes = None
    /\ scopeLoad = None /\ chosen = None
    /\ tasks = [h \in Handlers \cup Effects |->
                  IF h = "mount" THEN NewLoad(session.admin, session) ELSE None]
    /\ failed = FALSE /\ acts = 0

Handler ==
    \/ \E u \in Users : \/ SelectUser(u)
                        \/ \E r \in Roles : OnCreate(u, r)
    \/ OnSaveUser \/ OnSaveScope \/ OnIssueElevatedAccess
    \/ \E u \in Maybe(Users) : OnSubmitElevatedAccess(u)
    \/ \E r \in Roles : EditRole(r)

Answers ==
    \/ \E h \in Handlers : Executed(h) \/ Answered(h) \/ CallFails(h)
    \/ \E h \in Handlers \cup Effects : PageRead(h) \/ PageAnswered(h) \/ PageFails(h)
    \/ ScopesRead \/ ScopesAnswered \/ ScopesFail

Next == Handler \/ Answers \/ OthersApprove \/ \E u \in Users, r \in Roles : OthersChange(u, r)

Spec == Init /\ [][Next]_vars

-----------------------------------------------------------------------------
AtRest == scopeLoad = None /\ \A h \in Handlers \cup Effects : tasks[h] = None

(* Scopes that are shown, and can be removed, are those of the selected    *)
(* user, through changes of the selection, reloads, failures and a change  *)
(* of the session.                                                         *)
ShownScopesAreOfTheSelected ==
    scopeLoad = None /\ scopes # None => scopes.user = selected

(* A scope change that was confirmed is on the page once it is at rest,    *)
(* whatever older loads were answered after it, unless a load has failed.  *)
ConfirmedScopesAreShown ==
    AtRest /\ ~failed /\ scopes # None => scopes.count >= told[selected]

(* A saved profile carries a role that the admin chose for that very user: *)
(* neither a draft for another one nor the role somebody else just changed.*)
SavesWhatWasChosen ==
    [][tasks["profile"] = None /\ tasks'["profile"] # None
         => /\ chosen # None
            /\ tasks'["profile"].user = chosen.user
            /\ tasks'["profile"].role = chosen.role]_vars
=============================================================================
