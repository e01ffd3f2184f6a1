---------------------------- MODULE ApprovalsConsole ----------------------------
(***************************************************************************)
(* The shared approval queue in the browser of one reviewer: the filters,  *)
(* the queue, the selected row, the record in the panel beside it and the  *)
(* decision that is confirmed, sent and answered.                          *)
(*                                                                         *)
(* A commit of the page runs its effects until none of them changes the    *)
(* page any more; operator Commit is one commit.  A call is started, read  *)
(* or executed by the server, and answered; the answer of a load that the  *)
(* page has given up is dropped.  The reviewer may read and decide.        *)
(***************************************************************************)
EXTENDS Naturals, FiniteSets, Functions

CONSTANTS
    ApprovalCount,   \* approvals of the deployment, numbered
    ActLimit,        \* acts of the reviewer and of others (a bound)
    None

Approvals == 1 .. ApprovalCount
Intents == {"approve", "reject"}
Resolved == {"approved", "rejected"}
Statuses == {"open"} \cup Resolved
Queues == UNION {[S -> Statuses] : S \in SUBSET Approvals}
StatusFilters == {"open", "all"}

VARIABLES
    status,        \* server: the status of each approval
    asked,         \* the approval the address asks for
    filter,        \* status filter, applied by the server
    search,        \* approvals that match the search and the other filters
    queue,         \* the approvals loaded, with their status
    selected,
    detail,        \* the record in the panel
    detailLoading, \* whether the panel says that it is loading
    listLoad,      \* the load of the queue: its filter, and what was read
    detailLoad,    \* the load of a record, and the status that was read
    comment,       \* the approval the comment was written at
    confirmation,  \* the decision to confirm, and the record it was opened at
    decision,      \* the decision on its way
    outcome,       \* the approval whose outcome is announced
    decided,       \* approvals the reviewer was told are decided (history)
    acts

request == <<listLoad, detailLoad, decision>>
panel == <<comment, confirmation, outcome>>
view == <<asked, filter, search, queue, selected, detail, detailLoading>>
vars == <<status, view, request, panel, decided, acts>>

Maybe(S) == S \cup {None}

Records == [id : Approvals, status : Statuses]
ListLoads == [filter : StatusFilters, read : Maybe(Queues)]
Decisions == [id : Approvals, intent : Intents, confirmed : Approvals,
              comment : Maybe(Approvals), phase : {"sent", "done", "refused", "audit"}]

TypeOK ==
    /\ status \in [Approvals -> Statuses]
    /\ asked \in Maybe(Approvals) /\ selected \in Maybe(Approvals)
    /\ filter \in StatusFilters /\ search \subseteq Approvals
    /\ queue \in Queues
    /\ detail \in Maybe(Records)
    /\ detailLoading \in BOOLEAN
    /\ listLoad \in Maybe(ListLoads)
    /\ detailLoad \in Maybe([id : Approvals, read : Maybe(Statuses)])
    /\ comment \in Maybe(Approvals)
    /\ confirmation \in Maybe([intent : Intents, id : Approvals])
    /\ decision \in Maybe(Decisions)
    /\ outcome \in Maybe(Approvals)
    /\ decided \subseteq Approvals
    /\ acts \in 0 .. ActLimit

-----------------------------------------------------------------------------
(* The queue.                                                              *)

\* An address with an approval shows all of them, unless it says otherwise.
FilterAskedFor(req) == IF req = None THEN "open" ELSE "all"

Visible(rows, found) == DOMAIN rows \cap found

StatusOrder == [open |-> 0, approved |-> 1, rejected |-> 2]

\* Open approvals come first.  The further keys (risk, due date, age) are
\* stood for by the number of the approval.
ComesBefore(rows, x, y) ==
    \/ StatusOrder[rows[x]] < StatusOrder[rows[y]]
    \/ rows[x] = rows[y] /\ x <= y

FirstRow(rows, found) ==
    CHOOSE x \in Visible(rows, found) :
        \A y \in Visible(rows, found) : ComesBefore(rows, x, y)

\* The selection a commit ends with: what the address asks for stays selected,
\* whether it is listed or not; another selection has to be visible.
SelectionAfter(req, rows, found, sel) ==
    IF req # None /\ sel = req THEN sel
    ELSE IF Visible(rows, found) = {} THEN None
    ELSE IF sel \in Visible(rows, found) THEN sel
    ELSE FirstRow(rows, found)

\* The record is loaded for a selection and the instance its row names.
Scope(sel, rows) == <<sel, sel \in DOMAIN rows>>

\* Mutant: a load is started for a selection that was given up.
RunDetailUnguarded(first, sel, rows, record) ==
    IF Scope(sel, rows) = Scope(selected, queue)
    THEN detail' = record /\ UNCHANGED <<detailLoad, detailLoading>>
    ELSE /\ detail' = record
         /\ detailLoad' = [id |-> sel, read |-> None]
         /\ detailLoading' = TRUE

\* Nothing ends the loading state of a selection that is given up, be it one
\* that the commit itself began with (first).
RunDetail(first, sel, rows, record) ==
    IF Scope(sel, rows) = Scope(selected, queue)
    THEN detail' = record /\ UNCHANGED <<detailLoad, detailLoading>>
    ELSE IF sel = None
    THEN /\ detail' = None /\ detailLoad' = None
         /\ detailLoading' = IF first # None /\ Scope(first, rows) # Scope(selected, queue)
                             THEN TRUE ELSE detailLoading
    ELSE /\ detail' = record
         /\ detailLoad' = [id |-> sel, read |-> None]
         /\ detailLoading' = TRUE

\* Mutant: a confirmation survives a change of the selection.
RunPanelOutcomeOnly(conf, out) ==
    /\ confirmation' = conf
    /\ outcome' = IF out # selected' THEN None ELSE out

\* Another record, or another status of it, ends what was to be confirmed.
RunPanel(conf, out) ==
    IF selected' = selected /\ detail' = detail
    THEN confirmation' = conf /\ outcome' = out
    ELSE confirmation' = None /\ outcome' = IF out # selected' THEN None ELSE out

Commit(req, found, rows, sel, record, conf, out) ==
    /\ asked' = req /\ search' = found /\ queue' = rows
    /\ selected' = SelectionAfter(req, rows, found, sel)
    /\ RunDetail(sel, selected', rows, record)
    /\ RunPanel(conf, out)

Refresh(rows, record) ==
    Commit(asked, search, rows, selected, record, confirmation, outcome)

LoadQueue(f) == listLoad' = [filter |-> f, read |-> None]

-----------------------------------------------------------------------------
(* Loads.                                                                  *)

Matching(f) == {a \in Approvals : f = "all" \/ status[a] = "open"}

QueueRead ==
    /\ listLoad # None /\ listLoad.read = None
    /\ listLoad' = [listLoad EXCEPT !.read = Restrict(status, Matching(listLoad.filter))]
    /\ UNCHANGED <<status, view, detailLoad, decision, panel, decided, acts>>

QueueAnswered ==
    /\ listLoad # None /\ listLoad.read # None
    /\ listLoad' = None
    /\ Refresh(listLoad.read, detail)
    /\ UNCHANGED <<status, filter, decision, comment, decided, acts>>

\* A failure takes the queue, the selection and the record off the page.
QueueFails ==
    /\ listLoad # None
    /\ listLoad' = None
    /\ Commit(asked, search, <<>>, None, None, confirmation, outcome)
    /\ UNCHANGED <<status, filter, decision, comment, decided, acts>>

RecordRead ==
    /\ detailLoad # None /\ detailLoad.read = None
    /\ detailLoad' = [detailLoad EXCEPT !.read = status[detailLoad.id]]
    /\ UNCHANGED <<status, view, listLoad, decision, panel, decided, acts>>

RecordEnds(record) ==
    /\ detailLoad' = None /\ detailLoading' = FALSE
    /\ detail' = record
    /\ selected' = selected
    /\ RunPanel(confirmation, outcome)
    /\ UNCHANGED <<status, asked, filter, search, queue, listLoad, decision,
                   comment, decided, acts>>

RecordAnswered ==
    /\ detailLoad # None /\ detailLoad.read # None
    /\ RecordEnds([id |-> detailLoad.id, status |-> detailLoad.read])

RecordFails == detailLoad # None /\ RecordEnds(None)

-----------------------------------------------------------------------------
(* The reviewer at the queue.                                              *)

Act == acts < ActLimit /\ acts' = acts + 1

\* A link inside the control plane: the address asks for an approval, or for
\* none.  The filter follows only when the new address implies another one.
FollowLink(req) ==
    /\ Act
    /\ req # asked
    /\ Commit(req, search, queue, IF req = None THEN selected ELSE req, detail,
              confirmation, outcome)
    /\ filter' = IF FilterAskedFor(req) = FilterAskedFor(asked) THEN filter
                 ELSE FilterAskedFor(req)
    /\ IF filter' = filter THEN UNCHANGED listLoad ELSE LoadQueue(filter')
    /\ UNCHANGED <<status, decision, comment, decided>>

ChangeFilter(f) ==
    /\ Act
    /\ f # filter
    /\ filter' = f
    /\ LoadQueue(f)
    /\ UNCHANGED <<status, asked, search, queue, selected, detail, detailLoading,
                   detailLoad, decision, panel, decided>>

Search(found) ==
    /\ Act
    /\ found # search
    /\ Commit(asked, found, queue, selected, detail, confirmation, outcome)
    /\ UNCHANGED <<status, filter, listLoad, decision, comment, decided>>

\* The rows are not drawn while the queue is being loaded.
SelectRow(a) ==
    /\ Act
    /\ listLoad = None
    /\ a \in Visible(queue, search)
    /\ Commit(asked, search, queue, a, detail, confirmation, outcome)
    /\ UNCHANGED <<status, filter, listLoad, decision, comment, decided>>

-----------------------------------------------------------------------------
(* The reviewer at the panel.                                              *)

\* The controls are drawn for an open record, not while one is being loaded.
Controls == detail # None /\ detail.status = "open" /\ ~detailLoading

WriteComment ==
    /\ Controls
    /\ Act
    /\ comment' = detail.id
    /\ UNCHANGED <<status, view, request, confirmation, outcome, decided>>

StartDecisionConfirmation(intent) ==
    /\ Controls
    /\ decision = None
    /\ Act
    /\ confirmation' = [intent |-> intent, id |-> detail.id]
    /\ UNCHANGED <<status, view, request, comment, outcome, decided>>

CancelConfirmation ==
    /\ Controls
    /\ confirmation # None /\ decision = None
    /\ Act
    /\ confirmation' = None
    /\ UNCHANGED <<status, view, request, comment, outcome, decided>>

OnDecision ==
    /\ Controls
    /\ confirmation # None /\ decision = None
    /\ Act
    /\ decision' = [id |-> detail.id, intent |-> confirmation.intent,
                    confirmed |-> confirmation.id, comment |-> comment,
                    phase |-> "sent"]
    /\ outcome' = None
    /\ UNCHANGED <<status, view, listLoad, detailLoad, comment, confirmation, decided>>

-----------------------------------------------------------------------------
(* The decision on its way.                                                *)

In(phase) == decision # None /\ decision.phase = phase

Decides(intent) == IF intent = "approve" THEN "approved" ELSE "rejected"

DecisionExecuted ==
    /\ In("sent")
    /\ IF status[decision.id] = "open"
       THEN /\ status' = [status EXCEPT ![decision.id] = Decides(decision.intent)]
            /\ decision' = [decision EXCEPT !.phase = "done"]
       ELSE /\ decision' = [decision EXCEPT !.phase = "refused"]
            /\ UNCHANGED status
    /\ UNCHANGED <<view, listLoad, detailLoad, panel, decided, acts>>

\* The answer replaces the record in the panel, whatever row is selected.
DecisionAnswered ==
    LET id == decision.id
        answer == status[decision.id]
    IN
    /\ In("done")
    /\ Commit(asked, search,
              [a \in DOMAIN queue |-> IF a = id THEN answer ELSE queue[a]],
              selected, [id |-> id, status |-> answer], None, id)
    /\ comment' = None
    /\ decided' = decided \cup {id}
    /\ decision' = [decision EXCEPT !.phase = "audit"]
    /\ UNCHANGED <<status, filter, listLoad, acts>>

\* The call is refused, or its answer is lost: the page only reports it.
DecisionFails ==
    /\ decision # None /\ decision.phase # "audit"
    /\ decision' = None
    /\ UNCHANGED <<status, view, listLoad, detailLoad, panel, decided, acts>>

\* Mutant: the queue is not loaded anew after a decision.
ReloadAfterDecisionLeftOut ==
    /\ In("audit")
    /\ decision' = None
    /\ UNCHANGED <<status, view, listLoad, detailLoad, panel, decided, acts>>

\* The queue is loaded anew once the audit trail of the decision was sought.
ReloadAfterDecision ==
    /\ In("audit")
    /\ decision' = None
    /\ LoadQueue(filter)
    /\ UNCHANGED <<status, view, detailLoad, panel, decided, acts>>

OthersDecide(a, s) ==
    /\ Act
    /\ status[a] = "open"
    /\ status' = [status EXCEPT ![a] = s]
    /\ UNCHANGED <<view, request, panel, decided>>

-----------------------------------------------------------------------------
Init ==
    /\ status = [a \in Approvals |-> "open"]
    /\ asked \in Maybe(Approvals) /\ selected = asked
    /\ filter = FilterAskedFor(asked) /\ search = Approvals
    /\ queue = <<>> /\ detail = None
    /\ listLoad = [filter |-> filter, read |-> None]
    /\ detailLoad = IF selected = None THEN None ELSE [id |-> selected, read |-> None]
    /\ detailLoading = (selected # None)
    /\ comment = None /\ confirmation = None /\ decision = None /\ outcome = None
    /\ decided = {} /\ acts = 0

Loads == QueueRead \/ QueueAnswered \/ QueueFails
         \/ RecordRead \/ RecordAnswered \/ RecordFails

Decision == DecisionExecuted \/ DecisionAnswered \/ DecisionFails \/ ReloadAfterDecision

Reviewer ==
    \/ \E a \in Maybe(Approvals) : FollowLink(a)
    \/ \E f \in StatusFilters : ChangeFilter(f)
    \/ \E found \in SUBSET Approvals : Search(found)
    \/ \E a \in Approvals : SelectRow(a)
    \/ \E i \in Intents : StartDecisionConfirmation(i)
    \/ WriteComment \/ CancelConfirmation \/ OnDecision

Next ==
    \/ Loads \/ Decision \/ Reviewer
    \/ \E a \in Approvals, s \in Resolved : OthersDecide(a, s)

Spec == Init /\ [][Next]_vars

-----------------------------------------------------------------------------
AtRest == listLoad = None /\ detailLoad = None /\ decision = None

(* A decision is sent for the selected row and for the record at which its *)
(* confirmation was opened, whatever was selected, loaded and answered in  *)
(* between, and although the answer of an earlier decision may put another *)
(* record into the panel.                                                  *)
DecidesWhatWasConfirmed ==
    [][decision = None /\ decision' # None
         => decision'.id = selected /\ decision'.id = decision'.confirmed]_vars

(* Once the page is at rest, no approval that the reviewer was told is     *)
(* decided is listed as open, although older reads of the queue may have   *)
(* been answered after the decision.                                       *)
DecidedIsNotListedOpen ==
    AtRest => \A a \in decided \cap DOMAIN queue : queue[a] # "open"
=============================================================================
