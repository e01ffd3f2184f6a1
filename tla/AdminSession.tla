----------------------------- MODULE AdminSession -----------------------------
(***************************************************************************)
(* The admin session of one browser tab: the token kept in local storage,  *)
(* the report of the session kept in the query cache, the route loaders    *)
(* that guard the two shells (login and control plane) and the requests    *)
(* that change them, next to the sessions the server knows.                *)
(*                                                                         *)
(* Three copies of one fact have to agree: what the server knows of a      *)
(* token, which token the browser stores, and what the cache says of the   *)
(* session.  Nothing updates the three together.  A route loader asks the  *)
(* server but never writes the cache; the cache outlives a logout and the  *)
(* sign-in after it; every failed call clears whatever token is stored     *)
(* when its failure arrives; an administrator makes a password temporary   *)
(* again without a word to the tab.                                        *)
(*                                                                         *)
(* React's render and its effects are taken with the change that causes    *)
(* them.  Other tabs of the same browser are left out.                     *)
(***************************************************************************)
EXTENDS Naturals, FiniteSets

CONSTANTS
    Users,        \* admin accounts
    Temporary,    \* those whose password is a temporary one at the start
    TokenLimit,   \* logins and elevations of a behaviour (a bound)
    ActLimit,     \* acts of the person at the tab (a bound)
    None          \* the absence of a token's account, a report, a call

ASSUME UsersAssumption == Temporary \subseteq Users /\ None \notin Users
ASSUME LimitsAssumption == TokenLimit \in Nat /\ ActLimit \in Nat

Tokens == 1 .. TokenLimit
Reports == [session : Tokens \cup {0}, mustRotate : BOOLEAN]
Kinds == {"login", "logout", "rotate", "refresh", "elevate"}
Requests == [kind : Kinds, user : Users \cup {None}, token : Tokens \cup {0},
             session : Tokens \cup {0}]

VARIABLES
    owner,      \* server: the account of each token issued, None before
    alive,      \* server: tokens neither expired nor revoked
    temporary,  \* server: accounts whose password has to be rotated
    restricted, \* history: tokens issued to a temporary password that was not
                \* replaced since
    token,      \* local storage: the token the next call carries
    report,     \* query cache: the last session reported to the tab
    fresh,      \* query cache: the report is younger than its stale time
    failed,     \* query cache: the last check failed
    fetched,    \* query cache: some check has been answered (isFetched)
    check,      \* the session check in flight
    place,      \* what the router shows: boot, login, rotate or app
    nav,        \* the navigation whose loader runs
    orphans,    \* tokens of loader runs whose navigation was superseded
    request,    \* the request of a form or button in flight
    acts        \* acts of the person so far

server == <<owner, alive, temporary, restricted>>
cache == <<report, fresh, failed, fetched, check>>
router == <<place, nav, orphans>>
vars == <<server, token, cache, router, request, acts>>

TypeOK ==
    /\ owner \in [Tokens -> Users \cup {None}]
    /\ alive \subseteq Tokens
    /\ temporary \subseteq Users
    /\ restricted \subseteq Tokens
    /\ token \in Tokens \cup {0}
    /\ report \in {None} \cup Reports
    /\ fresh \in BOOLEAN /\ failed \in BOOLEAN /\ fetched \in BOOLEAN
    /\ check \in {None} \cup [token : Tokens, answer : {None} \cup Reports]
    /\ place \in {"boot", "login", "rotate", "app"}
    /\ nav \in {None} \cup [to : {"login", "rotate", "app"}, token : Tokens]
    /\ orphans \subseteq Tokens
    /\ request \in {None} \cup Requests
    /\ acts \in 0 .. ActLimit

-----------------------------------------------------------------------------
(* The server.                                                             *)

ReportOn(t) == [session |-> t, mustRotate |-> owner[t] \in temporary]

Issue(t, u) ==
    /\ owner[t] = None
    /\ \A s \in Tokens : s < t => owner[s] # None
    /\ owner' = [owner EXCEPT ![t] = u]
    /\ alive' = alive \cup {t}
    /\ restricted' = IF u \in temporary THEN restricted \cup {t} ELSE restricted
    /\ UNCHANGED temporary

\* A session expires, or an administrator revokes it.
SessionEnds(t) ==
    /\ t \in alive
    /\ alive' = alive \ {t}
    /\ UNCHANGED <<owner, temporary, restricted, token, cache, router, request, acts>>

\* Account u replaces its own password from the session of token t, which
\* ends its other sessions.
RotateOwn(u, t) ==
    /\ temporary' = temporary \ {u}
    /\ restricted' = {s \in restricted : owner[s] # u}
    /\ alive' = {s \in alive : owner[s] = u => s = t}
    /\ UNCHANGED owner

\* An administrator gives account u a temporary password, which ends its
\* sessions; of the sessions of its own an administrator keeps the one at work.
PasswordReset(u) ==
    /\ temporary' = temporary \cup {u}
    /\ \E kept \in SUBSET {t \in alive : owner[t] = u} :
          /\ kept # {} => u \notin temporary /\ Cardinality(kept) = 1
          /\ alive' = {t \in alive : owner[t] # u} \cup kept
    /\ UNCHANGED <<owner, restricted, token, cache, router, request, acts>>

\* An administrator asks account u for another password; its sessions go on.
RotationRequired(u) ==
    /\ temporary' = temporary \cup {u}
    /\ UNCHANGED <<owner, alive, restricted, token, cache, router, request, acts>>

-----------------------------------------------------------------------------
(* What the shell shows of a session.                                      *)

Mounted == place \in {"rotate", "app"}
HasToken == token # 0
Loading == HasToken /\ ~fetched
SignedOut == ~Loading /\ report = None
Locked == ~Loading /\ report # None /\ report.mustRotate
Open == ~Loading /\ report # None /\ ~report.mustRotate

ControlPlaneOpen == place = "app" /\ Open

Destination(r) == IF r.mustRotate THEN "rotate" ELSE "app"

-----------------------------------------------------------------------------
(* The query cache, as the session query uses it.                          *)

\* A navigation that is superseded leaves its loader running.
Superseded == IF nav = None THEN orphans ELSE orphans \cup {nav.token}

Asking(t) == [token |-> t, answer |-> None]

\* setQueryData with a session: the query succeeds with it; a check in
\* flight is not cancelled.
CacheWrite(r) ==
    /\ report' = r /\ fresh' = TRUE /\ failed' = FALSE /\ fetched' = TRUE
    /\ UNCHANGED check

\* The control plane mounts: the query is observed again, and asks when it has
\* nothing or something stale.  Without data it becomes pending; with data it
\* keeps its error while it asks, and the shell clears the stored token.  A
\* shell with neither token nor report renders the redirect to the login page.
MountShell(to) ==
    LET asks == HasToken /\ (report = None \/ ~fresh) IN
    /\ check' = IF asks /\ check = None THEN Asking(token) ELSE check
    /\ failed' = (failed /\ (report # None \/ ~asks))
    /\ token' = IF failed' THEN 0 ELSE token
    /\ place' = IF SignedOut /\ ~HasToken THEN "login" ELSE to
    /\ UNCHANGED <<report, fresh, fetched>>

FocusRefetch ==
    /\ Mounted /\ HasToken /\ ~fresh /\ check = None
    /\ check' = Asking(token)
    /\ failed' = (failed /\ report # None)
    /\ UNCHANGED <<server, token, report, fresh, fetched, router, request, acts>>

CheckProcessed ==
    /\ check # None
    /\ check.answer = None
    /\ check.token \in alive
    /\ check' = [check EXCEPT !.answer = ReportOn(check.token)]
    /\ UNCHANGED <<server, token, report, fresh, failed, fetched, router,
                   request, acts>>

CheckAnswered ==
    /\ check # None
    /\ check.answer # None
    /\ report' = check.answer
    /\ fresh' = TRUE /\ failed' = FALSE /\ fetched' = TRUE
    /\ check' = None
    /\ UNCHANGED <<server, token, router, request, acts>>

\* The check is refused or lost: the query keeps its data, and the effect of
\* a mounted shell clears the token that is stored by now.  A shell that never
\* had a report renders the redirect to the login page.
CheckFails ==
    /\ check # None
    /\ check' = None
    /\ failed' = TRUE /\ fetched' = TRUE /\ fresh' = FALSE
    /\ token' = IF Mounted THEN 0 ELSE token
    /\ IF Mounted /\ report = None
       THEN place' = "login" /\ nav' = None /\ orphans' = Superseded
       ELSE UNCHANGED router
    /\ UNCHANGED <<server, report, request, acts>>

ReportGoesStale ==
    /\ fresh
    /\ fresh' = FALSE
    /\ UNCHANGED <<server, token, report, failed, fetched, check, router,
                   request, acts>>

\* Nobody observed the query for its collection time.
CacheCollected ==
    /\ ~Mounted /\ check = None /\ fetched
    /\ report' = None /\ fresh' = FALSE /\ failed' = FALSE /\ fetched' = FALSE
    /\ UNCHANGED <<server, token, check, router, request, acts>>

-----------------------------------------------------------------------------
(* Navigation.  A loader run carries the token stored when it started.     *)

\* Mutant: the loader asks the server without looking for a token first.
GoUnchecked(to, tok) ==
    /\ nav' = [to |-> to, token |-> tok] /\ orphans' = Superseded
    /\ UNCHANGED place

\* Without a token every loader ends at the login page, at once.
Go(to, tok) ==
    IF tok = 0
    THEN /\ place' = "login" /\ nav' = None /\ orphans' = Superseded
    ELSE /\ nav' = [to |-> to, token |-> tok] /\ orphans' = Superseded
         /\ UNCHANGED place

\* Inside the control plane the loader runs again only when the search part
\* of the address changes.
Move(to, tok) ==
    \/ Go(to, tok)
    \/ /\ Mounted
       /\ place' = to /\ nav' = None /\ orphans' = Superseded

\* The loader of the login page sends an accepted session on to the control
\* plane, whose own loader asks again.
LoaderAccepts ==
    /\ nav # None
    /\ nav.token \in alive
    /\ IF nav.to = "login"
       THEN /\ Go(Destination(ReportOn(nav.token)), token)
            /\ UNCHANGED <<token, cache>>
       ELSE /\ nav' = None
            /\ UNCHANGED orphans
            /\ IF Mounted THEN place' = nav.to /\ UNCHANGED <<token, cache>>
               ELSE MountShell(nav.to)
    /\ UNCHANGED <<server, request, acts>>

LoaderFails ==
    /\ nav # None
    /\ token' = 0
    /\ place' = "login" /\ nav' = None
    /\ UNCHANGED <<server, cache, orphans, request, acts>>

\* The answer of a superseded loader is dropped, its failure is not.
OrphanEnds(t) ==
    /\ t \in orphans
    /\ orphans' = orphans \ {t}
    /\ token' \in {token, 0}
    /\ token' = token => t \in alive
    /\ UNCHANGED <<server, cache, place, nav, request, acts>>

\* The shell renders a redirect instead of the page.
Redirect(from, to) ==
    /\ nav = None
    /\ from
    /\ Move(to, token)
    /\ UNCHANGED <<server, token, cache, request, acts>>

RedirectToRotation == Redirect(place = "app" /\ Locked, "rotate")
RedirectToControlPlane == Redirect(place = "rotate" /\ Open, "app")

-----------------------------------------------------------------------------
(* The person at the tab.                                                  *)

Act == acts < ActLimit /\ acts' = acts + 1

UserNavigates ==
    /\ Act
    /\ Mounted
    /\ Move(place, token)
    /\ UNCHANGED <<server, token, cache, request>>

\* A reload empties the cache and everything in flight, not the storage.
Reload ==
    /\ Act
    /\ report' = None /\ fresh' = FALSE /\ failed' = FALSE /\ fetched' = FALSE
    /\ check' = None
    /\ orphans' = {} /\ request' = None
    /\ IF token = 0 THEN place' = "login" /\ nav' = None
       ELSE /\ place' = "boot"
            /\ \E to \in {"login", "app"} : nav' = [to |-> to, token |-> token]
    /\ UNCHANGED <<server, token>>

\* A call about account u from a page that shows session s.
Send(kind, u, s) ==
    /\ Act
    /\ request = None
    /\ request' = [kind |-> kind, user |-> u, token |-> token, session |-> s]
    /\ UNCHANGED <<server, token, cache, router>>

SubmitLogin(u) == place = "login" /\ Send("login", u, 0)
ClickLogout == Mounted /\ Send("logout", None, 0)
ClickElevate(u) == ControlPlaneOpen /\ Send("elevate", u, 0)

\* At the gate, or from the setup and the security page of the control plane.
SubmitRotation ==
    /\ (place = "rotate" /\ Locked) \/ ControlPlaneOpen
    /\ Send("rotate", None, report.session)

InFlight(kind) == request # None /\ request.kind = kind
Answering(kind) == InFlight(kind) /\ request' = None

\* The sign-in replaces the token and leaves the cache alone.
LoginAnswered(t) ==
    /\ Answering("login")
    /\ Issue(t, request.user)
    /\ token' = t
    /\ Move(Destination([mustRotate |-> request.user \in temporary]), t)
    /\ UNCHANGED <<cache, acts>>

\* The token goes whatever the server answers.  The cache is asked to forget
\* the session with the value undefined, which the cache ignores.
LogoutAnswered ==
    /\ Answering("logout")
    /\ alive' \in {alive, alive \ {request.token}}
    /\ token' = 0
    /\ Go("login", 0)
    /\ UNCHANGED <<owner, temporary, restricted, cache, acts>>

\* The account is the one the token belongs to, whatever the page shows.
RotateOnServer ==
    /\ request.token \in alive
    /\ RotateOwn(owner[request.token], request.token)

\* The gate goes on to ask for the session, with the token stored by now.
RotationAnswered ==
    /\ InFlight("rotate")
    /\ RotateOnServer
    /\ request' = [request EXCEPT !.kind = "refresh", !.token = token]
    /\ UNCHANGED <<token, cache, router, acts>>

\* The server rotated the password and the answer was lost, or came to the
\* form of the security page, which does not touch the session.
RotationAnswerLost ==
    /\ Answering("rotate")
    /\ RotateOnServer
    /\ UNCHANGED <<token, cache, router, acts>>

\* Without an answer the gate goes on with the session it showed, unlocked.
SessionRefreshed ==
    /\ Answering("refresh")
    /\ \/ request.token \in alive /\ CacheWrite(ReportOn(request.token))
       \/ CacheWrite([session |-> request.session, mustRotate |-> FALSE])
    /\ Move("app", token)
    /\ UNCHANGED <<server, token, acts>>

\* A break-glass or impersonation session replaces the token and the session.
\* The server refuses it to an account that has to rotate its password.
ElevationAnswered(t) ==
    /\ Answering("elevate")
    /\ request.token \in alive
    /\ owner[request.token] \notin temporary
    /\ Issue(t, request.user)
    /\ token' = t
    /\ CacheWrite([session |-> t, mustRotate |-> request.user \in temporary])
    /\ UNCHANGED <<router, acts>>

\* Mutant: a failed rotation completes like one that succeeded.
RequestFailsUnlocked ==
    /\ Answering("rotate")
    /\ CacheWrite([session |-> request.session, mustRotate |-> FALSE])
    /\ UNCHANGED <<server, token, router, acts>>

RequestFails ==
    /\ \E kind \in {"login", "rotate", "elevate"} : Answering(kind)
    /\ UNCHANGED <<server, token, cache, router, acts>>

-----------------------------------------------------------------------------
Init ==
    /\ owner = [t \in Tokens |-> None]
    /\ alive = {}
    /\ temporary = Temporary
    /\ restricted = {}
    /\ token = 0
    /\ report = None /\ fresh = FALSE /\ failed = FALSE /\ fetched = FALSE
    /\ check = None
    /\ place = "login" /\ nav = None /\ orphans = {}
    /\ request = None
    /\ acts = 0

Person ==
    \/ UserNavigates \/ Reload \/ ClickLogout \/ SubmitRotation
    \/ \E u \in Users : SubmitLogin(u) \/ ClickElevate(u)

RequestEnds ==
    \/ LogoutAnswered \/ RotationAnswered \/ RotationAnswerLost \/ SessionRefreshed
    \/ RequestFails
    \/ \E t \in Tokens : LoginAnswered(t) \/ ElevationAnswered(t)

LoaderEnds == LoaderAccepts \/ LoaderFails
CheckEnds == CheckAnswered \/ CheckFails
Redirects == RedirectToRotation \/ RedirectToControlPlane

Environment ==
    \/ FocusRefetch \/ ReportGoesStale \/ CacheCollected \/ CheckProcessed
    \/ \E t \in Tokens : SessionEnds(t) \/ OrphanEnds(t)
    \/ \E u \in Users : PasswordReset(u) \/ RotationRequired(u)

Next == Person \/ RequestEnds \/ LoaderEnds \/ CheckEnds \/ Redirects \/ Environment

Spec == Init /\ [][Next]_vars

-----------------------------------------------------------------------------
(* A session signed in with a temporary password opens the control plane   *)
(* only on the report of another session left in the cache: what the       *)
(* server says of the session itself does not open it, whichever answers   *)
(* were lost, late or overtaken and whoever resets which password.         *)
OnlyLeftoversSkipRotation ==
    ControlPlaneOpen /\ token \in restricted => report.session # token

(* "Temporary passwords trigger a forced rotation before the control plane *)
(* opens" (the notes of the login page).                                   *)
TemporaryPasswordsAreRotated ==
    ControlPlaneOpen /\ token \in alive => token \notin restricted

\* No navigation is under way, and the page shown stays.
AtRest ==
    /\ nav = None
    /\ place = "login" \/ (place = "rotate" /\ Locked) \/ ControlPlaneOpen
=============================================================================
