-------------------------- MODULE AdminSession_proofs --------------------------
(* What one tab's session keeps to, for every set of accounts and every    *)
(* bound: its types, and that a session signed in with a temporary         *)
(* password is opened by nothing the server says of it.                    *)
EXTENDS AdminSession, TLAPS

-----------------------------------------------------------------------------
(* Types.  What is alive was issued to somebody, and a call for a session  *)
(* of somebody names the account.                                          *)

ServerTyped ==
    /\ owner \in [Tokens -> Users \cup {None}]
    /\ alive \subseteq Tokens
    /\ temporary \subseteq Users /\ restricted \subseteq Tokens
    /\ \A t \in alive : owner[t] \in Users

CacheTyped ==
    /\ report \in {None} \cup Reports
    /\ fresh \in BOOLEAN /\ failed \in BOOLEAN /\ fetched \in BOOLEAN
    /\ check \in {None} \cup [token : Tokens, answer : {None} \cup Reports]

RouterTyped ==
    /\ place \in {"boot", "login", "rotate", "app"}
    /\ nav \in {None} \cup [to : {"login", "rotate", "app"}, token : Tokens]
    /\ orphans \subseteq Tokens

TabTyped ==
    /\ token \in Tokens \cup {0}
    /\ request \in {None} \cup Requests
    /\ request # None /\ request.kind \in {"login", "elevate"} => request.user \in Users
    /\ acts \in 0 .. ActLimit

SessionTyped == ServerTyped /\ CacheTyped /\ RouterTyped /\ TabTyped

LEMMA TypedSession == SessionTyped => TypeOK
  BY DEF SessionTyped, ServerTyped, CacheTyped, RouterTyped, TabTyped, TypeOK

LEMMA TokenZero == 0 \notin Tokens
  BY LimitsAssumption DEF Tokens

LEMMA SupersededTyped ==
  ASSUME RouterTyped
  PROVE  Superseded \subseteq Tokens
  BY DEF RouterTyped, Superseded

LEMMA GoTyped ==
  ASSUME RouterTyped, NEW to \in {"login", "rotate", "app"},
         NEW tok \in Tokens \cup {0}, Go(to, tok)
  PROVE  RouterTyped'
  <1>1. orphans' \subseteq Tokens BY SupersededTyped DEF Go
  <1>2. CASE tok = 0 BY <1>1, <1>2 DEF Go, RouterTyped
  <1>3. CASE tok # 0 BY <1>1, <1>3 DEF Go, RouterTyped
  <1> QED BY <1>2, <1>3

LEMMA MoveTyped ==
  ASSUME RouterTyped, NEW to \in {"rotate", "app"}, NEW tok \in Tokens \cup {0},
         Move(to, tok)
  PROVE  RouterTyped'
  <1>1. CASE Go(to, tok) BY <1>1, GoTyped
  <1>2. CASE place' = to /\ nav' = None /\ orphans' = Superseded
    BY <1>2, SupersededTyped DEF RouterTyped
  <1> QED BY <1>1, <1>2 DEF Move

LEMMA ReportTyped ==
  ASSUME ServerTyped, NEW t \in alive
  PROVE  ReportOn(t) \in Reports
  BY DEF ServerTyped, ReportOn, Reports

LEMMA AskingTyped ==
  ASSUME NEW t \in Tokens
  PROVE  Asking(t) \in [token : Tokens, answer : {None} \cup Reports]
  BY DEF Asking

LEMMA MountTyped ==
  ASSUME CacheTyped, TabTyped, NEW to \in {"rotate", "app"}, MountShell(to),
         UNCHANGED <<request, acts>>
  PROVE  CacheTyped' /\ TabTyped' /\ place' \in {"login", "rotate", "app"}
  <1>1. check' \in {None} \cup [token : Tokens, answer : {None} \cup Reports]
    <2>1. CASE check' = check BY <2>1 DEF CacheTyped
    <2>2. CASE check' = Asking(token) /\ token # 0
      BY <2>2, AskingTyped DEF TabTyped
    <2> QED BY <2>1, <2>2 DEF MountShell, HasToken
  <1>2. CacheTyped'
    BY <1>1 DEF MountShell, CacheTyped
  <1>3. token' \in Tokens \cup {0} BY DEF MountShell, TabTyped
  <1>4. TabTyped' BY <1>3 DEF TabTyped
  <1> QED BY <1>2, <1>4 DEF MountShell

LEMMA IssueTyped ==
  ASSUME ServerTyped, NEW t \in Tokens, NEW u \in Users, Issue(t, u)
  PROVE  ServerTyped'
  BY DEF ServerTyped, Issue

\* What stays is typed, and so is a server that forgets sessions.
LEMMA TypedKept ==
  /\ ServerTyped /\ alive' \subseteq alive /\ temporary' \subseteq temporary
       /\ restricted' \subseteq restricted /\ UNCHANGED owner => ServerTyped'
  /\ CacheTyped /\ UNCHANGED cache => CacheTyped'
  /\ RouterTyped /\ UNCHANGED router => RouterTyped'
  BY DEF ServerTyped, CacheTyped, RouterTyped, cache, router

LEMMA InitTyped == Init => SessionTyped
  <1> SUFFICES ASSUME Init PROVE SessionTyped
    OBVIOUS
  <1>1. ServerTyped BY UsersAssumption DEF Init, ServerTyped
  <1>2. CacheTyped /\ RouterTyped BY DEF Init, CacheTyped, RouterTyped
  <1>3. TabTyped BY LimitsAssumption DEF Init, TabTyped
  <1> QED BY <1>1, <1>2, <1>3 DEF SessionTyped

LEMMA PersonTyped ==
  ASSUME SessionTyped, Person
  PROVE  SessionTyped'
  <1> USE DEF SessionTyped
  <1>1. ASSUME Act PROVE acts' \in 0 .. ActLimit
    BY <1>1, LimitsAssumption DEF Act, TabTyped
  <1>2. CASE UserNavigates
    <2>1. place \in {"rotate", "app"} BY <1>2 DEF UserNavigates, Mounted
    <2>2. RouterTyped'
      BY <1>2, <2>1, MoveTyped DEF UserNavigates, TabTyped
    <2>3. TabTyped' BY <1>1, <1>2 DEF UserNavigates, TabTyped
    <2> QED BY <1>2, <2>2, <2>3, TypedKept DEF UserNavigates, server
  <1>3. CASE Reload
    <2>1. CacheTyped' BY <1>3 DEF Reload, CacheTyped
    <2>2. TabTyped' BY <1>1, <1>3 DEF Reload, TabTyped
    <2>3. RouterTyped'
      <3>1. CASE token = 0 BY <1>3, <3>1 DEF Reload, RouterTyped
      <3>2. CASE token # 0
        <4>1. token \in Tokens BY <3>2 DEF TabTyped
        <4> QED BY <1>3, <3>2, <4>1 DEF Reload, RouterTyped
      <3> QED BY <3>1, <3>2
    <2> QED BY <1>3, <2>1, <2>2, <2>3, TypedKept DEF Reload, server
  <1>4. ASSUME NEW kind \in Kinds, NEW u \in Users \cup {None},
               kind \in {"login", "elevate"} => u \in Users,
               NEW s \in Tokens \cup {0}, Send(kind, u, s)
        PROVE  SessionTyped'
    <2>1. TabTyped' BY <1>1, <1>4 DEF Send, TabTyped, Requests
    <2> QED BY <1>4, <2>1, TypedKept DEF Send, server
  <1>5. CASE ClickLogout
    BY <1>4, <1>5 DEF ClickLogout, Kinds
  <1>6. CASE SubmitRotation
    <2>1. report.session \in Tokens \cup {0}
      BY <1>6 DEF SubmitRotation, Locked, ControlPlaneOpen, Open, CacheTyped, Reports
    <2> QED BY <1>4, <1>6, <2>1 DEF SubmitRotation, Kinds
  <1>7. CASE \E u \in Users : SubmitLogin(u) \/ ClickElevate(u)
    BY <1>4, <1>7 DEF SubmitLogin, ClickElevate, Kinds
  <1> QED BY <1>2, <1>3, <1>5, <1>6, <1>7 DEF Person

LEMMA RequestTyped ==
  ASSUME SessionTyped, RequestEnds
  PROVE  SessionTyped'
  <1> USE DEF SessionTyped
  <1>1. ASSUME NEW kind, Answering(kind), token' \in Tokens \cup {0}, UNCHANGED acts
        PROVE  TabTyped'
    BY <1>1 DEF Answering, TabTyped
  <1>2. ASSUME NEW kind \in {"login", "elevate"}, Answering(kind)
        PROVE  request.user \in Users
    BY <1>2 DEF Answering, InFlight, TabTyped
  <1>3. CASE LogoutAnswered
    <2>1. ServerTyped' BY <1>3, TypedKept DEF LogoutAnswered
    <2>2. RouterTyped' BY <1>3, GoTyped DEF LogoutAnswered
    <2>3. TabTyped' BY <1>1, <1>3 DEF LogoutAnswered
    <2> QED BY <1>3, <2>1, <2>2, <2>3, TypedKept DEF LogoutAnswered
  <1>4. ASSUME RotateOnServer
        PROVE  ServerTyped'
    <2>1. /\ alive' \subseteq alive /\ temporary' \subseteq temporary
          /\ restricted' \subseteq restricted /\ UNCHANGED owner
      BY <1>4 DEF RotateOnServer, RotateOwn
    <2> QED BY <2>1, TypedKept
  <1>5. CASE RotationAnswered
    <2>1. request \in Requests BY <1>5 DEF RotationAnswered, InFlight, TabTyped
    <2>2. request' \in Requests /\ request'.kind = "refresh"
      BY <1>5, <2>1 DEF RotationAnswered, Requests, TabTyped, Kinds
    <2>3. TabTyped' BY <1>5, <2>2 DEF RotationAnswered, TabTyped
    <2> QED BY <1>4, <1>5, <2>3, TypedKept DEF RotationAnswered
  <1>6. CASE RotationAnswerLost
    <2>1. TabTyped' BY <1>1, <1>6 DEF RotationAnswerLost, TabTyped
    <2> QED BY <1>4, <1>6, <2>1, TypedKept DEF RotationAnswerLost
  <1>7. CASE RequestFails
    <2>1. TabTyped' BY <1>1, <1>7 DEF RequestFails, TabTyped
    <2> QED BY <1>7, <2>1, TypedKept DEF RequestFails, server
  <1>10. CASE SessionRefreshed
    <2>1. request.session \in Tokens \cup {0}
      BY <1>10 DEF SessionRefreshed, Answering, InFlight, TabTyped, Requests
    <2>2. PICK r \in Reports : CacheWrite(r)
      <3>1. CASE request.token \in alive /\ CacheWrite(ReportOn(request.token))
        BY <3>1, ReportTyped
      <3>2. CASE CacheWrite([session |-> request.session, mustRotate |-> FALSE])
        BY <2>1, <3>2 DEF Reports
      <3> QED BY <1>10, <3>1, <3>2 DEF SessionRefreshed
    <2>3. CacheTyped' BY <2>2 DEF CacheWrite, CacheTyped
    <2>4. RouterTyped' BY <1>10, MoveTyped DEF SessionRefreshed, TabTyped
    <2>5. TabTyped' BY <1>1, <1>10 DEF SessionRefreshed, TabTyped
    <2> QED BY <1>10, <2>3, <2>4, <2>5, TypedKept DEF SessionRefreshed, server
  <1>8. ASSUME NEW t \in Tokens, LoginAnswered(t)
        PROVE  SessionTyped'
    <2>1. ServerTyped' BY <1>2, <1>8, IssueTyped DEF LoginAnswered
    <2>2. RouterTyped'
      <3>1. Destination([mustRotate |-> request.user \in temporary]) \in {"rotate", "app"}
        BY DEF Destination
      <3> QED BY <1>8, <3>1, MoveTyped DEF LoginAnswered
    <2>3. TabTyped' BY <1>1, <1>8 DEF LoginAnswered
    <2> QED BY <1>8, <2>1, <2>2, <2>3, TypedKept DEF LoginAnswered
  <1>9. ASSUME NEW t \in Tokens, ElevationAnswered(t)
        PROVE  SessionTyped'
    <2>1. ServerTyped' BY <1>2, <1>9, IssueTyped DEF ElevationAnswered
    <2> DEFINE r == [session |-> t, mustRotate |-> request.user \in temporary]
    <2>2. r \in Reports BY DEF Reports
    <2> HIDE DEF r
    <2>3. CacheTyped'
      <3>1. CacheWrite(r) BY <1>9 DEF ElevationAnswered, r
      <3> QED BY <2>2, <3>1 DEF CacheWrite, CacheTyped
    <2>4. TabTyped' BY <1>1, <1>9 DEF ElevationAnswered
    <2> QED BY <1>9, <2>1, <2>3, <2>4, TypedKept DEF ElevationAnswered
  <1> QED BY <1>3, <1>5, <1>6, <1>7, <1>8, <1>9, <1>10 DEF RequestEnds

LEMMA RouterStepTyped ==
  ASSUME SessionTyped, LoaderEnds \/ Redirects
  PROVE  SessionTyped'
  <1> USE DEF SessionTyped
  <1>1. CASE LoaderAccepts
    <2>1. ServerTyped' BY <1>1, TypedKept DEF LoaderAccepts, server
    <2>2. CASE nav.to = "login"
      <3>1. Destination(ReportOn(nav.token)) \in {"login", "rotate", "app"}
        BY DEF Destination
      <3>2. RouterTyped' BY <1>1, <2>2, <3>1, GoTyped DEF LoaderAccepts, TabTyped
      <3>3. TabTyped' BY <1>1, <2>2 DEF LoaderAccepts, TabTyped
      <3> QED BY <1>1, <2>1, <2>2, <3>2, <3>3, TypedKept DEF LoaderAccepts
    <2>3. CASE nav.to # "login"
      <3>1. nav.to \in {"rotate", "app"} BY <1>1, <2>3 DEF LoaderAccepts, RouterTyped
      <3>2. CASE Mounted
        <4>1. RouterTyped' BY <1>1, <2>3, <3>1, <3>2 DEF LoaderAccepts, RouterTyped
        <4>2. TabTyped' BY <1>1, <2>3, <3>2 DEF LoaderAccepts, TabTyped
        <4> QED BY <1>1, <2>1, <2>3, <3>2, <4>1, <4>2, TypedKept DEF LoaderAccepts
      <3>3. CASE ~Mounted
        <4>1. MountShell(nav.to) /\ UNCHANGED <<request, acts, orphans>> /\ nav' = None
          BY <1>1, <2>3, <3>3 DEF LoaderAccepts
        <4>2. CacheTyped' /\ TabTyped' /\ place' \in {"login", "rotate", "app"}
          BY <3>1, <4>1, MountTyped
        <4>3. RouterTyped' BY <4>1, <4>2 DEF RouterTyped
        <4> QED BY <2>1, <4>2, <4>3
      <3> QED BY <3>2, <3>3
    <2> QED BY <2>2, <2>3
  <1>2. CASE LoaderFails
    <2>1. RouterTyped' BY <1>2 DEF LoaderFails, RouterTyped
    <2>2. TabTyped' BY <1>2 DEF LoaderFails, TabTyped
    <2> QED BY <1>2, <2>1, <2>2, TypedKept DEF LoaderFails, server
  <1>3. ASSUME NEW from, NEW to \in {"rotate", "app"}, Redirect(from, to)
        PROVE  SessionTyped'
    <2>1. RouterTyped' BY <1>3, MoveTyped DEF Redirect, TabTyped
    <2>2. TabTyped' BY <1>3 DEF Redirect, TabTyped
    <2> QED BY <1>3, <2>1, <2>2, TypedKept DEF Redirect, server
  <1>4. CASE Redirects
    BY <1>3, <1>4 DEF Redirects, RedirectToRotation, RedirectToControlPlane
  <1> QED BY <1>1, <1>2, <1>4 DEF LoaderEnds

LEMMA CacheStepTyped ==
  ASSUME SessionTyped, CheckEnds \/ Environment
  PROVE  SessionTyped'
  <1> USE DEF SessionTyped
  <1>1. CASE FocusRefetch
    <2>1. token \in Tokens BY <1>1 DEF FocusRefetch, HasToken, TabTyped
    <2>2. CacheTyped' BY <1>1, <2>1, AskingTyped DEF FocusRefetch, CacheTyped
    <2>3. TabTyped' BY <1>1 DEF FocusRefetch, TabTyped
    <2> QED BY <1>1, <2>2, <2>3, TypedKept DEF FocusRefetch, server
  <1>2. CASE CheckProcessed
    <2>1. ReportOn(check.token) \in Reports BY <1>2, ReportTyped DEF CheckProcessed
    <2>2. check \in [token : Tokens, answer : {None} \cup Reports]
      BY <1>2 DEF CheckProcessed, CacheTyped
    <2>3. check' \in [token : Tokens, answer : {None} \cup Reports]
      BY <1>2, <2>1, <2>2 DEF CheckProcessed
    <2>4. CacheTyped' BY <1>2, <2>3 DEF CheckProcessed, CacheTyped
    <2>5. TabTyped' BY <1>2 DEF CheckProcessed, TabTyped
    <2> QED BY <1>2, <2>4, <2>5, TypedKept DEF CheckProcessed, server
  <1>3. CASE CheckAnswered
    <2>1. CacheTyped' BY <1>3 DEF CheckAnswered, CacheTyped
    <2>2. TabTyped' BY <1>3 DEF CheckAnswered, TabTyped
    <2> QED BY <1>3, <2>1, <2>2, TypedKept DEF CheckAnswered, server
  <1>4. CASE CheckFails
    <2>1. CacheTyped' BY <1>4 DEF CheckFails, CacheTyped
    <2>2. TabTyped' BY <1>4 DEF CheckFails, TabTyped
    <2>3. RouterTyped'
      BY <1>4, SupersededTyped DEF CheckFails, RouterTyped, router
    <2> QED BY <1>4, <2>1, <2>2, <2>3, TypedKept DEF CheckFails, server
  <1>5. CASE ReportGoesStale
    <2>1. CacheTyped' BY <1>5 DEF ReportGoesStale, CacheTyped
    <2>2. TabTyped' BY <1>5 DEF ReportGoesStale, TabTyped
    <2> QED BY <1>5, <2>1, <2>2, TypedKept DEF ReportGoesStale, server
  <1>6. CASE CacheCollected
    <2>1. CacheTyped' BY <1>6 DEF CacheCollected, CacheTyped
    <2>2. TabTyped' BY <1>6 DEF CacheCollected, TabTyped
    <2> QED BY <1>6, <2>1, <2>2, TypedKept DEF CacheCollected, server
  <1>7. ASSUME NEW t \in Tokens, SessionEnds(t)
        PROVE  SessionTyped'
    <2>1. ServerTyped' BY <1>7, TypedKept DEF SessionEnds
    <2>2. TabTyped' BY <1>7 DEF SessionEnds, TabTyped
    <2> QED BY <1>7, <2>1, <2>2, TypedKept DEF SessionEnds
  <1>8. ASSUME NEW t \in Tokens, OrphanEnds(t)
        PROVE  SessionTyped'
    <2>1. RouterTyped' BY <1>8 DEF OrphanEnds, RouterTyped
    <2>2. TabTyped' BY <1>8 DEF OrphanEnds, TabTyped
    <2> QED BY <1>8, <2>1, <2>2, TypedKept DEF OrphanEnds, server
  <1>9. ASSUME NEW u \in Users, PasswordReset(u) \/ RotationRequired(u)
        PROVE  SessionTyped'
    <2>1. /\ alive' \subseteq alive /\ temporary' = temporary \cup {u}
          /\ UNCHANGED <<owner, restricted, token, cache, router, request, acts>>
      BY <1>9 DEF PasswordReset, RotationRequired
    <2>2. ServerTyped' BY <2>1 DEF ServerTyped
    <2>3. TabTyped' BY <2>1 DEF TabTyped
    <2> QED BY <2>1, <2>2, <2>3, TypedKept
  <1> QED BY <1>1, <1>2, <1>3, <1>4, <1>5, <1>6, <1>7, <1>8, <1>9
          DEF CheckEnds, Environment

LEMMA NextTyped == SessionTyped /\ [Next]_vars => SessionTyped'
  <1> SUFFICES ASSUME SessionTyped, [Next]_vars PROVE SessionTyped'
    OBVIOUS
  <1>1. CASE Person BY <1>1, PersonTyped
  <1>2. CASE RequestEnds BY <1>2, RequestTyped
  <1>3. CASE LoaderEnds \/ Redirects BY <1>3, RouterStepTyped
  <1>4. CASE CheckEnds \/ Environment BY <1>4, CacheStepTyped
  <1>5. CASE UNCHANGED vars
    <2>1. TabTyped' BY <1>5 DEF vars, SessionTyped, TabTyped
    <2> QED BY <1>5, <2>1, TypedKept DEF vars, server, SessionTyped
  <1> QED BY <1>1, <1>2, <1>3, <1>4, <1>5 DEF Next

(* The session keeps to its types: no check and no loader runs without a    *)
(* token (getAdminToken is asked before every call of the two).             *)
THEOREM SessionTypeCorrect == Spec => []TypeOK
  BY InitTyped, NextTyped, TypedSession, PTL DEF Spec

-----------------------------------------------------------------------------
(* The rotation of temporary passwords.  A restricted session is of an      *)
(* account whose password is still temporary, so that the server reports it *)
(* locked.  A report that unlocks is of a session that is not restricted or *)
(* whose token the tab stores no more, and neither comes back: what a token *)
(* was issued for never changes, and every sign-in issues a new one.        *)

Known(s) == s = 0 \/ owner[s] # None
Spent(s) == s \in restricted => token # s

RestrictionsHold == \A t \in restricted : owner[t] \in temporary

SessionsKnown ==
    /\ Known(token)
    /\ report # None => Known(report.session)
    /\ check # None => Known(check.token)
    /\ request # None => Known(request.token) /\ Known(request.session)

ReportsUnlockSpent ==
    /\ report # None /\ ~report.mustRotate => Spent(report.session)
    /\ check # None /\ check.answer # None =>
          /\ check.answer.session = check.token
          /\ ~check.answer.mustRotate => Spent(check.token)

RotationsUnlockSpent ==
    request # None =>
      /\ request.kind = "rotate" => token \in {0, request.token}
      /\ request.kind = "refresh" => Spent(request.session)

SessionInv ==
    /\ RestrictionsHold /\ SessionsKnown /\ ReportsUnlockSpent
    /\ RotationsUnlockSpent

LEMMA NobodyIsTemporary ==
  ASSUME ServerTyped, RestrictionsHold
  PROVE  /\ None \notin temporary
         /\ 0 \notin restricted
         /\ \A t \in restricted : owner[t] # None
  BY UsersAssumption, TokenZero DEF ServerTyped, RestrictionsHold

LEMMA AliveIsKnown ==
  ASSUME ServerTyped, NEW t \in alive
  PROVE  Known(t)
  BY UsersAssumption DEF ServerTyped, Known

\* A session the server reports unlocked is not restricted.
LEMMA UnlockedIsSpent ==
  ASSUME RestrictionsHold, NEW t, ~ReportOn(t).mustRotate
  PROVE  Spent(t)
  BY DEF RestrictionsHold, ReportOn, Spent

\* A new token is not the one of any session known before.
LEMMA IssueSpends ==
  ASSUME ServerTyped, RestrictionsHold, NEW t \in Tokens, NEW u \in Users,
         Issue(t, u), token' = t
  PROVE  /\ RestrictionsHold'
         /\ Known(t)'
         /\ u \notin temporary => t \notin restricted'
         /\ \A s \in Tokens \cup {0} : Known(s) => Known(s)' /\ Spent(s)'
  <1>1. owner[t] = None /\ owner' = [owner EXCEPT ![t] = u] /\ owner'[t] = u
    BY DEF Issue, ServerTyped
  <1>2. t \notin restricted BY <1>1, NobodyIsTemporary
  <1>3. u # None BY UsersAssumption
  <1>4. RestrictionsHold'
    <2>1. \A s \in restricted : s # t /\ owner'[s] = owner[s]
      BY <1>1, <1>2 DEF ServerTyped
    <2> QED BY <1>1, <2>1 DEF Issue, RestrictionsHold
  <1>5. ASSUME NEW s \in Tokens \cup {0}, Known(s)
        PROVE  Known(s)' /\ Spent(s)'
    <2>1. s # t BY <1>1, <1>5, TokenZero DEF Known
    <2>2. Spent(s)' BY <2>1 DEF Spent
    <2>3. Known(s)' BY <1>1, <1>5, <2>1 DEF Known, ServerTyped
    <2> QED BY <2>2, <2>3
  <1> QED BY <1>1, <1>2, <1>3, <1>4, <1>5 DEF Issue, Known

\* Steps that issue nothing, leave reports and calls alone or drop them, and
\* at most forget the token and lift restrictions.
LEMMA Dropping ==
  ASSUME SessionInv, RestrictionsHold', UNCHANGED owner,
         restricted' \subseteq restricted, token' \in {token, 0},
         ServerTyped,
         report' \in {report, None}, check' \in {check, None},
         request' \in {request, None}
  PROVE  SessionInv'
  <1>1. SessionsKnown'
    BY DEF SessionInv, SessionsKnown, Known
  <1>2. ASSUME NEW s, Spent(s) PROVE Spent(s)'
    BY <1>2, NobodyIsTemporary DEF Spent, SessionInv
  <1>3. ReportsUnlockSpent'
    BY <1>2 DEF SessionInv, ReportsUnlockSpent
  <1>4. RotationsUnlockSpent'
    BY <1>2 DEF SessionInv, RotationsUnlockSpent
  <1> QED BY <1>1, <1>3, <1>4 DEF SessionInv

LEMMA ServerKept ==
  RestrictionsHold /\ UNCHANGED <<owner, temporary, restricted>> => RestrictionsHold'
  BY DEF RestrictionsHold

\* A check is sent with the token stored, and has no answer yet.
LEMMA Sending ==
  ASSUME SessionInv, ServerTyped, UNCHANGED <<owner, temporary, restricted, report, request>>,
         token' \in {token, 0}, check' = Asking(token)
  PROVE  SessionInv'
  <1>1. SessionsKnown'
    BY DEF SessionInv, SessionsKnown, Known, Asking
  <1>2. ASSUME NEW s, Spent(s) PROVE Spent(s)'
    BY <1>2, NobodyIsTemporary DEF Spent, SessionInv
  <1>3. ReportsUnlockSpent'
    BY <1>2 DEF SessionInv, ReportsUnlockSpent, Asking
  <1>4. RotationsUnlockSpent'
    BY <1>2 DEF SessionInv, RotationsUnlockSpent
  <1> QED BY <1>1, <1>3, <1>4, ServerKept DEF SessionInv

LEMMA InitSession == Init => SessionInv
  BY DEF Init, SessionInv, RestrictionsHold, SessionsKnown, Known, ReportsUnlockSpent,
         RotationsUnlockSpent

LEMMA PersonSession ==
  ASSUME SessionInv, SessionTyped, Person
  PROVE  SessionInv'
  <1> USE DEF SessionTyped
  <1>0. RestrictionsHold BY DEF SessionInv
  <1>1. CASE UserNavigates
    BY <1>0, <1>1, Dropping, ServerKept DEF UserNavigates, server, cache
  <1>2. CASE Reload
    BY <1>0, <1>2, Dropping, ServerKept DEF Reload, server
  <1>3. ASSUME NEW kind, kind # "refresh", NEW u, NEW s, Known(s), Send(kind, u, s)
        PROVE  SessionInv'
    <2>1. /\ UNCHANGED <<owner, temporary, restricted, token, report, check>>
          /\ request' = [kind |-> kind, user |-> u, token |-> token, session |-> s]
      BY <1>3 DEF Send, server, cache
    <2>2. SessionsKnown' BY <1>3, <2>1 DEF SessionInv, SessionsKnown, Known
    <2>3. ReportsUnlockSpent' BY <2>1 DEF SessionInv, ReportsUnlockSpent, Spent
    <2>4. RotationsUnlockSpent' BY <1>3, <2>1 DEF RotationsUnlockSpent
    <2> QED BY <1>0, <2>1, <2>2, <2>3, <2>4, ServerKept DEF SessionInv
  <1>4. Known(0) BY DEF Known
  <1>5. CASE ClickLogout BY <1>3, <1>4, <1>5 DEF ClickLogout
  <1>6. CASE SubmitRotation
    <2>1. Known(report.session)
      BY <1>6 DEF SubmitRotation, Locked, ControlPlaneOpen, Open, SessionInv, SessionsKnown
    <2> QED BY <1>3, <1>6, <2>1 DEF SubmitRotation
  <1>7. CASE \E u \in Users : SubmitLogin(u) \/ ClickElevate(u)
    BY <1>3, <1>4, <1>7 DEF SubmitLogin, ClickElevate
  <1> QED BY <1>1, <1>2, <1>5, <1>6, <1>7 DEF Person

\* A rotation lifts the restriction of the account's sessions, and of no others.
LEMMA RotationLifts ==
  ASSUME RestrictionsHold, RotateOnServer
  PROVE  /\ RestrictionsHold' /\ UNCHANGED owner
         /\ restricted' \subseteq restricted
         /\ request.token \notin restricted'
  BY DEF RestrictionsHold, RotateOnServer, RotateOwn

LEMMA RotationSession ==
  ASSUME SessionInv, SessionTyped, RotationAnswered
  PROVE  SessionInv'
  <1> USE DEF SessionTyped
  <1>1. /\ request # None /\ request.kind = "rotate"
        /\ request' = [request EXCEPT !.kind = "refresh", !.token = token]
        /\ UNCHANGED <<token, report, check>>
    BY DEF RotationAnswered, InFlight, cache
  <1>2. /\ RestrictionsHold' /\ UNCHANGED owner
        /\ restricted' \subseteq restricted
        /\ request.token \notin restricted'
    BY RotationLifts DEF RotationAnswered, SessionInv
  <1>3. request \in Requests BY <1>1 DEF TabTyped
  <1>4. request'.session = request.session /\ request'.token = token
        /\ request'.kind = "refresh"
    BY <1>1, <1>3 DEF Requests
  <1>5. Spent(request.session)'
    <2>1. token \in {0, request.token} BY <1>1 DEF SessionInv, RotationsUnlockSpent
    <2>2. 0 \notin restricted' BY <1>2, NobodyIsTemporary DEF SessionInv
    <2> QED BY <1>1, <1>2, <1>4, <2>1, <2>2 DEF Spent
  <1>6. SessionsKnown'
    BY <1>1, <1>2, <1>4 DEF SessionInv, SessionsKnown, Known
  <1>7. ReportsUnlockSpent'
    BY <1>1, <1>2 DEF SessionInv, ReportsUnlockSpent, Spent
  <1>8. RotationsUnlockSpent'
    BY <1>4, <1>5 DEF RotationsUnlockSpent
  <1> QED BY <1>2, <1>6, <1>7, <1>8 DEF SessionInv

\* What the gate puts in the cache after a rotation does not unlock the token
\* stored, if that is restricted.
LEMMA RefreshSession ==
  ASSUME SessionInv, SessionTyped, SessionRefreshed
  PROVE  SessionInv'
  <1> USE DEF SessionTyped
  <1>1. /\ request # None /\ request.kind = "refresh" /\ request' = None
        /\ UNCHANGED <<owner, temporary, restricted, token, check>>
    BY DEF SessionRefreshed, Answering, InFlight, server, CacheWrite
  <1>2. /\ report' # None => Known(report'.session)
        /\ report' # None /\ ~report'.mustRotate => Spent(report'.session)
    <2>1. CASE request.token \in alive /\ CacheWrite(ReportOn(request.token))
      <3>1. report'.session = request.token
        BY <2>1 DEF CacheWrite, ReportOn
      <3>2. Known(request.token) BY <2>1, AliveIsKnown
      <3>3. ~report'.mustRotate => Spent(request.token)
        BY <2>1, UnlockedIsSpent DEF CacheWrite, SessionInv
      <3> QED BY <3>1, <3>2, <3>3
    <2>2. CASE CacheWrite([session |-> request.session, mustRotate |-> FALSE])
      BY <1>1, <2>2 DEF CacheWrite, SessionInv, SessionsKnown, RotationsUnlockSpent
    <2> QED BY <2>1, <2>2 DEF SessionRefreshed
  <1>3. SessionsKnown' BY <1>1, <1>2 DEF SessionInv, SessionsKnown, Known
  <1>4. ReportsUnlockSpent' BY <1>1, <1>2 DEF SessionInv, ReportsUnlockSpent, Spent
  <1>5. RotationsUnlockSpent' BY <1>1 DEF RotationsUnlockSpent
  <1> QED BY <1>1, <1>3, <1>4, <1>5, ServerKept DEF SessionInv

\* A new session comes with a token of its own.
LEMMA NewSession ==
  ASSUME SessionInv, SessionTyped, NEW t \in Tokens,
         NEW u \in Users, Issue(t, u), token' = t, request' = None,
         UNCHANGED check,
         \/ UNCHANGED report
         \/ report' = [session |-> t, mustRotate |-> u \in temporary]
  PROVE  SessionInv'
  <1> USE DEF SessionTyped
  <1>1. /\ RestrictionsHold' /\ Known(t)'
        /\ u \notin temporary => t \notin restricted'
        /\ \A s \in Tokens \cup {0} : Known(s) => Known(s)' /\ Spent(s)'
    BY IssueSpends DEF SessionInv
  <1>2. check # None => check.token \in Tokens
    BY DEF CacheTyped
  <1>3. check' = check /\ (check # None => Known(check.token) /\ Spent(check.token))'
    BY <1>1, <1>2 DEF SessionInv, SessionsKnown
  <1>4. /\ (report # None => Known(report.session))'
        /\ (report # None /\ ~report.mustRotate => Spent(report.session))'
    <2>1. CASE UNCHANGED report
      <3>1. report # None => report.session \in Tokens \cup {0}
        BY DEF CacheTyped, Reports
      <3> QED BY <1>1, <2>1, <3>1 DEF SessionInv, SessionsKnown, Known, Spent
    <2>2. CASE report' = [session |-> t, mustRotate |-> u \in temporary]
      BY <1>1, <2>2 DEF Spent, Known
    <2> QED BY <2>1, <2>2
  <1>5. SessionsKnown' BY <1>1, <1>3, <1>4 DEF SessionsKnown, Known
  <1>6. ReportsUnlockSpent'
    BY <1>3, <1>4 DEF SessionInv, ReportsUnlockSpent, Spent
  <1>7. RotationsUnlockSpent' BY DEF RotationsUnlockSpent
  <1> QED BY <1>1, <1>5, <1>6, <1>7 DEF SessionInv

LEMMA RequestSession ==
  ASSUME SessionInv, SessionTyped, RequestEnds
  PROVE  SessionInv'
  <1> USE DEF SessionTyped
  <1>0. RestrictionsHold BY DEF SessionInv
  <1>1. CASE LogoutAnswered
    BY <1>0, <1>1, Dropping DEF LogoutAnswered, Answering, cache, RestrictionsHold
  <1>2. CASE RotationAnswered BY <1>2, RotationSession
  <1>3. CASE RotationAnswerLost
    BY <1>0, <1>3, Dropping, RotationLifts DEF RotationAnswerLost, Answering, cache
  <1>4. CASE SessionRefreshed BY <1>4, RefreshSession
  <1>5. CASE RequestFails
    BY <1>0, <1>5, Dropping, ServerKept DEF RequestFails, Answering, server, cache
  <1>6. ASSUME NEW kind \in {"login", "elevate"}, Answering(kind)
        PROVE  request.user \in Users /\ request' = None
    BY <1>6 DEF Answering, InFlight, TabTyped
  <1>7. ASSUME NEW t \in Tokens, LoginAnswered(t)
        PROVE  SessionInv'
    BY <1>6, <1>7, NewSession DEF LoginAnswered, cache
  <1>8. ASSUME NEW t \in Tokens, ElevationAnswered(t)
        PROVE  SessionInv'
    BY <1>6, <1>8, NewSession DEF ElevationAnswered, CacheWrite
  <1> QED BY <1>1, <1>2, <1>3, <1>4, <1>5, <1>7, <1>8 DEF RequestEnds

LEMMA RouterSession ==
  ASSUME SessionInv, SessionTyped, LoaderEnds \/ Redirects
  PROVE  SessionInv'
  <1> USE DEF SessionTyped
  <1>0. RestrictionsHold BY DEF SessionInv
  <1>1. CASE LoaderAccepts
    <2>1. UNCHANGED <<server, request>> BY <1>1 DEF LoaderAccepts
    <2>2. CASE UNCHANGED <<token, cache>>
      BY <1>0, <2>1, <2>2, Dropping, ServerKept DEF cache, server
    <2>3. CASE MountShell(nav.to)
      <3>1. UNCHANGED report /\ token' \in {token, 0} BY <2>3 DEF MountShell
      <3>2. CASE UNCHANGED check
        BY <1>0, <2>1, <3>1, <3>2, Dropping, ServerKept DEF server
      <3>3. CASE check' = Asking(token)
        BY <2>1, <3>1, <3>3, Sending DEF server
      <3> QED BY <2>3, <3>2, <3>3 DEF MountShell
    <2> QED BY <1>1, <2>2, <2>3 DEF LoaderAccepts
  <1>2. CASE LoaderFails
    BY <1>0, <1>2, Dropping, ServerKept DEF LoaderFails, server, cache
  <1>3. CASE Redirects
    BY <1>0, <1>3, Dropping, ServerKept
       DEF Redirects, RedirectToRotation, RedirectToControlPlane, Redirect, server, cache
  <1> QED BY <1>1, <1>2, <1>3 DEF LoaderEnds

LEMMA CheckSession ==
  ASSUME SessionInv, SessionTyped, CheckEnds \/ FocusRefetch \/ CheckProcessed
  PROVE  SessionInv'
  <1> USE DEF SessionTyped
  <1>0. RestrictionsHold BY DEF SessionInv
  <1>1. CASE FocusRefetch
    BY <1>1, Sending DEF FocusRefetch, server
  <1>2. CASE CheckProcessed
    <2>1. /\ check' = [token |-> check.token, answer |-> ReportOn(check.token)]
          /\ UNCHANGED <<owner, temporary, restricted, token, report, request>>
      BY <1>2 DEF CheckProcessed, server, CacheTyped
    <2>2. SessionsKnown'
      BY <1>2, <2>1 DEF CheckProcessed, SessionInv, SessionsKnown, Known
    <2>3. ~ReportOn(check.token).mustRotate => Spent(check.token)
      BY <1>0, UnlockedIsSpent
    <2>4. ReportsUnlockSpent'
      BY <2>1, <2>3 DEF SessionInv, ReportsUnlockSpent, Spent, ReportOn
    <2>5. RotationsUnlockSpent' BY <2>1 DEF SessionInv, RotationsUnlockSpent, Spent
    <2> QED BY <1>0, <2>1, <2>2, <2>4, <2>5, ServerKept DEF SessionInv
  <1>3. CASE CheckAnswered
    <2>1. /\ check # None /\ check.answer # None
          /\ report' = check.answer /\ check' = None
          /\ UNCHANGED <<owner, temporary, restricted, token, request>>
      BY <1>3 DEF CheckAnswered, server
    <2>2. SessionsKnown'
      BY <2>1 DEF SessionInv, SessionsKnown, ReportsUnlockSpent, Known
    <2>3. ReportsUnlockSpent' BY <2>1 DEF SessionInv, ReportsUnlockSpent, Spent
    <2>4. RotationsUnlockSpent' BY <2>1 DEF SessionInv, RotationsUnlockSpent, Spent
    <2> QED BY <1>0, <2>1, <2>2, <2>3, <2>4, ServerKept DEF SessionInv
  <1>4. CASE CheckFails
    BY <1>0, <1>4, Dropping, ServerKept DEF CheckFails, server
  <1> QED BY <1>1, <1>2, <1>3, <1>4 DEF CheckEnds

LEMMA EnvironmentSession ==
  ASSUME SessionInv, SessionTyped, Environment
  PROVE  SessionInv'
  <1> USE DEF SessionTyped
  <1>0. RestrictionsHold BY DEF SessionInv
  <1>1. CASE FocusRefetch \/ CheckProcessed BY <1>1, CheckSession
  <1>2. CASE ReportGoesStale
    BY <1>0, <1>2, Dropping, ServerKept DEF ReportGoesStale, server
  <1>3. CASE CacheCollected
    BY <1>0, <1>3, Dropping, ServerKept DEF CacheCollected, server
  <1>4. CASE \E t \in Tokens : SessionEnds(t)
    BY <1>0, <1>4, Dropping, ServerKept DEF SessionEnds, cache
  <1>5. CASE \E t \in Tokens : OrphanEnds(t)
    BY <1>0, <1>5, Dropping, ServerKept DEF OrphanEnds, server, cache
  <1>6. CASE \E u \in Users : PasswordReset(u) \/ RotationRequired(u)
    <2>1. /\ temporary \subseteq temporary'
          /\ UNCHANGED <<owner, restricted, token, report, check, request>>
      BY <1>6 DEF PasswordReset, RotationRequired, cache
    <2>2. RestrictionsHold' BY <1>0, <2>1 DEF RestrictionsHold
    <2> QED BY <2>1, <2>2, Dropping
  <1> QED BY <1>1, <1>2, <1>3, <1>4, <1>5, <1>6 DEF Environment

LEMMA NextSession == SessionTyped /\ SessionInv /\ [Next]_vars => SessionInv'
  <1> SUFFICES ASSUME SessionTyped, SessionInv, [Next]_vars PROVE SessionInv'
    OBVIOUS
  <1>1. CASE Person BY <1>1, PersonSession
  <1>2. CASE RequestEnds BY <1>2, RequestSession
  <1>3. CASE LoaderEnds \/ Redirects BY <1>3, RouterSession
  <1>4. CASE CheckEnds BY <1>4, CheckSession
  <1>5. CASE Environment BY <1>5, EnvironmentSession
  <1>6. CASE UNCHANGED vars
    BY <1>6, Dropping, ServerKept DEF vars, server, cache, SessionInv, SessionTyped
  <1> QED BY <1>1, <1>2, <1>3, <1>4, <1>5, <1>6 DEF Next

(* A session signed in with a temporary password opens the control plane    *)
(* only on what is left in the cache of another session, for any accounts,  *)
(* tokens and resets (the gate of App and the call of the rotation page).   *)
THEOREM LeftoversOnly == Spec => []OnlyLeftoversSkipRotation
  <1>1. SessionTyped /\ SessionInv => OnlyLeftoversSkipRotation
    BY DEF SessionInv, ReportsUnlockSpent, Spent, OnlyLeftoversSkipRotation,
           ControlPlaneOpen, Open
  <1> QED BY <1>1, InitTyped, NextTyped, InitSession, NextSession, PTL DEF Spec
=============================================================================
