------------------------- MODULE ExecutionTransitions ------------------------
(***************************************************************************)
(* ExecutionTransitionService over a database of runs, one action per      *)
(* operation, each one transaction.  Workers hold the claim results they   *)
(* were given for ever: any of them may come back with any token at any    *)
(* later time, which covers a worker that is slow, was presumed dead, or   *)
(* repeats a call.  Operators, approvers and the reconciler act at any     *)
(* time.                                                                   *)
(***************************************************************************)
EXTENDS ExecutionRows

CONSTANT Runs     \* the run ids that may come into existence

VARIABLE db       \* db[r]: the rows of run r

TypeOK == db \in [Runs -> View]

Init == db = [r \in Runs |-> NoRun]

Update(r, v) == db' = [db EXCEPT ![r] = v]

-----------------------------------------------------------------------------
(* Creation.                                                               *)

AdmitCreate(r) == ~Exists(db[r]) /\ Update(r, AdmittedRun)

\* The source run only gets metadata.
RestartFromScratch(source, r) ==
  Exists(db[source]) /\ ~Exists(db[r]) /\ Update(r, AdmittedRun)

-----------------------------------------------------------------------------
(* Workers.  A claim draws the next token of the run.                      *)

ClaimNextAttempt(r, n, t) ==
  /\ NextToken(db[r], t)
  /\ ClaimCandidate(db[r], n)
  /\ CanClaim(db[r], n)
  /\ Update(r, Claim(db[r], n, t))

\* claim_attempt, with versions read before the call and still current.
ClaimAttempt(r, n, t) ==
  /\ NextToken(db[r], t)
  /\ CanClaim(db[r], n)
  /\ Update(r, Claim(db[r], n, t))

MarkAttemptExecuting(r, n, t) ==
  /\ CanMarkExecuting(db[r], n, t)
  /\ \E o \in {"executing", "waiting_external"} :
       Update(r, MarkExecuting(db[r], n, o))

RecordAttemptFailure(r, n, t) ==
  /\ CanRecordFailure(db[r], n, t)
  /\ \E retryable \in BOOLEAN : Update(r, RecordFailure(db[r], n, retryable))

CompleteAttemptSuccess(r, n, t) ==
  CanComplete(db[r], n, t) /\ Update(r, Complete(db[r], n))

RenewAttemptLease(r, n, t) ==
  CanRenewLease(db[r], n, t) /\ Update(r, RenewLease(db[r], n))

WorkerStep(r) ==
  \E t \in Tokens :
    \/ \E n \in AttemptNos : ClaimNextAttempt(r, n, t) \/ ClaimAttempt(r, n, t)
    \/ /\ t \in Drawn(db[r])
       /\ LET n == db[r].holder[t] IN
            \/ MarkAttemptExecuting(r, n, t)
            \/ RecordAttemptFailure(r, n, t)
            \/ CompleteAttemptSuccess(r, n, t)
            \/ RenewAttemptLease(r, n, t)

-----------------------------------------------------------------------------
(* Approvals.                                                              *)

OpenApprovalGate(r, n, l) ==
  /\ \A k \in LinkIds : (db[r].gates[k].status = "absent") <=> k >= l
  /\ CanOpenApproval(db[r], n)
  /\ \E d \in Dispositions : Update(r, OpenApproval(db[r], n, l, d))

DecideApproval(r, l) ==
  /\ CanDecide(db[r], l)
  /\ \E approved \in BOOLEAN : Update(r, Decide(db[r], l, approved))

ApprovalStep(r) ==
  \E l \in LinkIds :
    \/ \E n \in AttemptNos : OpenApprovalGate(r, n, l)
    \/ DecideApproval(r, l)

-----------------------------------------------------------------------------
(* Operators.  escalate_run moves a run between lanes and touches none of  *)
(* these columns.                                                          *)

RequestCancelRun(r) ==
  CanRequestCancel(db[r]) /\ Update(r, RequestCancel(db[r]))

AdmitRetryRun(r) ==
  /\ db[r].active < AttemptLimit
  /\ CanAdmitRetry(db[r])
  /\ Update(r, AdmitRetry(db[r]))

PauseRun(r) == CanPause(db[r]) /\ Update(r, Pause(db[r]))

ResumeRun(r) == CanResume(db[r]) /\ Update(r, Resume(db[r]))

InterruptRun(r) == CanInterrupt(db[r]) /\ Update(r, Interrupt(db[r]))

QuarantineRun(r) == CanQuarantine(db[r]) /\ Update(r, Quarantine(db[r]))

OperatorStep(r) ==
  \/ RequestCancelRun(r)
  \/ AdmitRetryRun(r)
  \/ PauseRun(r)
  \/ ResumeRun(r)
  \/ InterruptRun(r)
  \/ QuarantineRun(r)

-----------------------------------------------------------------------------
(* Reconciliation: one transaction over every attempt with an expired      *)
(* lease; the runs whose operator state is terminal are skipped.           *)

ReconcileExpiredLeases ==
  \E pick \in [Runs -> AttemptNos] :
    /\ \E r \in Runs : CanReconcile(db[r], pick[r])
    /\ \A r \in Runs : (\E n \in AttemptNos : CanReconcile(db[r], n))
                         => CanReconcile(db[r], pick[r])
    /\ db' = [r \in Runs |-> IF CanReconcile(db[r], pick[r])
                             THEN Reconcile(db[r], pick[r]) ELSE db[r]]

-----------------------------------------------------------------------------
(* The clock.                                                              *)

BackoffElapses(r, n) ==
  /\ db[r].attempts[n].state # "absent"
  /\ ~db[r].attempts[n].due
  /\ db' = [db EXCEPT ![r].attempts[n].due = TRUE]

LeaseRunsOut(r, n) ==
  /\ db[r].attempts[n].lease = "leased"
  /\ ~db[r].attempts[n].overdue
  /\ db' = [db EXCEPT ![r].attempts[n].overdue = TRUE]

ClockStep(r) == \E n \in AttemptNos : BackoffElapses(r, n) \/ LeaseRunsOut(r, n)

-----------------------------------------------------------------------------

Next ==
  \/ \E r \in Runs :
       \/ AdmitCreate(r)
       \/ \E source \in Runs : RestartFromScratch(source, r)
       \/ WorkerStep(r)
       \/ ApprovalStep(r)
       \/ OperatorStep(r)
       \/ ClockStep(r)
  \/ ReconcileExpiredLeases

Spec == Init /\ [][Next]_db

\* Some worker claims an attempt of run r.
ClaimSome(r) ==
  \E n \in AttemptNos : \E t \in Tokens : ClaimNextAttempt(r, n, t)

\* Time passes, and the poll loop of run-execution-worker.py keeps claiming: it
\* survives a failed cycle, and the claim query serves attempts in the order of
\* their scheduled_at, so that each run's turn comes.  Nobody is obliged to
\* finish, fail, decide, resume or reconcile anything.
Fairness ==
  \A r \in Runs :
    /\ WF_db(ClaimSome(r))
    /\ \A n \in AttemptNos : WF_db(BackoffElapses(r, n))

FairSpec == Spec /\ Fairness

-----------------------------------------------------------------------------
(* Safety.                                                                 *)

\* active_attempt_no and current_attempt_id name the newest attempt, attempts
\* are numbered without gaps, and every older attempt is finished for good and
\* unleased: no two attempts of a run are ever claimable or in flight together.
SupersededFinished(v) ==
  /\ v.current = v.active
  /\ \A n \in AttemptNos :
       /\ (v.attempts[n].state = "absent") <=> n > v.active
       /\ n < v.active =>
            /\ v.attempts[n].state \in RETRYABLE_RUN_STATES
            /\ v.attempts[n].token = 0

OneLiveAttempt == \A r \in Runs : SupersededFinished(db[r])

\* The run row and the row of its current attempt, two hand-written copies of
\* one status, never drift apart; only lease expiry gives them different
\* operator states.
RowsAgree(v) ==
  Exists(v) =>
    /\ v.state = v.attempts[v.current].state
    /\ \/ v.op = v.attempts[v.current].op
       \/ v.state = "timed_out" /\ v.op = "quarantined"

RunMirrorsAttempt == \A r \in Runs : RowsAgree(db[r])

\* Every attempt the claim query can return passes the authoritative pre-check.
\* Otherwise the query's first row would raise on every cycle and no attempt
\* behind it would ever be claimed.
NoPoisonedQueueHead ==
  \A r \in Runs : \A n \in AttemptNos :
    ClaimCandidate(db[r], n) => CanClaim(db[r], n)

\* Leases are exactly the live tokens: a leased attempt carries the token of a
\* claim made for it and is in flight, nothing else carries a token, and work
\* that is being dispatched or executed is always under a lease, so that the
\* reconciler can find it when its worker dies.
LeasesFound(v) ==
  \A n \in AttemptNos :
    LET a == v.attempts[n] IN
      /\ (a.token # 0) <=> a.lease = "leased"
      /\ a.token # 0 => v.holder[a.token] = n
      /\ a.lease = "leased" => a.state \in IN_FLIGHT_ATTEMPT_STATES
      /\ a.state \in {"dispatching", "executing"} => a.lease = "leased"

LeasedWorkIsReclaimable == \A r \in Runs : LeasesFound(db[r])

\* A run waiting on approval can be decided through the link it shows, and
\* through that one only: no second open gate could requeue it again.
GateDecides(v) ==
  v.state = "waiting_on_approval" =>
    {l \in LinkIds : CanDecide(v, l)} = {v.link}

WaitingRunHasItsGate == \A r \in Runs : GateDecides(db[r])

\* In-flight attempts are interrupted, never paused: a paused run has no attempt
\* that a worker or the reconciler is still responsible for.
PausedRunsAreIdle ==
  \A r \in Runs :
    db[r].op = "paused" =>
      db[r].attempts[db[r].current].state \notin IN_FLIGHT_ATTEMPT_STATES

\* The approval link a run keeps after the decision is an audit trail and not a
\* control signal: resuming a paused run is refused only because of a gate that
\* is still open.
OnlyOpenGatesBlockResume ==
  \A r \in Runs :
    db[r].op = "paused" /\ db[r].link # 0 =>
      db[r].gates[db[r].link].status = "open"

\* Attempts the backoff created never exceed the retry budget, whatever manual
\* retries happen in between.
RetryBudget ==
  \A r \in Runs : \A n \in AttemptNos :
    db[r].attempts[n].retries > 0 =>
      n <= MaxAttempts /\ db[r].attempts[n].retries < n

-----------------------------------------------------------------------------
(* What a step may never do.                                               *)

\* A token that was drawn and is no longer (or never was) on its attempt is
\* dead: no later step puts it back, so a worker whose lease was released,
\* expired or handed over stays fenced off.
RevokedTokensStayRevoked ==
  [][\A r \in Runs : \A t \in Drawn(db[r]) :
       LET n == db[r].holder[t] IN
         db[r].attempts[n].token # t => db'[r].attempts[n].token # t]_db

\* A superseded attempt is history: no worker, approver or operator changes it
\* again.
SupersededFrozen(old, new) ==
  \A n \in AttemptNos :
    n < old.active => [new.attempts[n] EXCEPT !.due = FALSE]
                        = [old.attempts[n] EXCEPT !.due = FALSE]

HistoryIsFrozen == [][\A r \in Runs : SupersededFrozen(db[r], db'[r])]_db

\* A run becomes succeeded only out of a lease its worker still holds: never
\* after the lease expired and was reconciled, an approval gate released it,
\* or an operator interrupted or quarantined the run.
SuccessNeedsLease ==
  [][\A r \in Runs :
       db'[r].state = "succeeded" /\ db[r].state # "succeeded" =>
         /\ db[r].attempts[db[r].current].lease = "leased"
         /\ db[r].op \notin TERMINAL_OPERATOR_STATES]_db

\* A run that is queued or backing off, and not held by an operator, is claimed or
\* taken out of the queue in the end, whatever its history of retries,
\* approvals, pauses and resumes.  (The bound TokenLimit stops the claims of a
\* run; a run that has used it up is not asked about.)
Waiting(r) ==
  /\ db[r].state \in CLAIMABLE_RUN_STATES
  /\ db[r].op # "paused"
  /\ Drawn(db[r]) # Tokens

QueuedRunsAreClaimed == \A r \in Runs : Waiting(r) ~> ~Waiting(r)

\* The service implements the declared state machine: every operation is a
\* trigger of the tables, with the declared source, target, operator state and
\* attempt effects, or leaves the state dimensions alone.
DimsOf(v) ==
  LET a == IF Exists(v) THEN v.attempts[v.current] ELSE NoAttempt IN
    [run |-> v.state, op |-> v.op, no |-> v.active,
     attempt |-> a.state, attemptOp |-> a.op, lease |-> a.lease]

Lifecycle ==
  INSTANCE ExecutionLifecycle WITH dims <- [r \in Runs |-> DimsOf(db[r])]

ImplementsLifecycle == Lifecycle!LifecycleSpec
=============================================================================
