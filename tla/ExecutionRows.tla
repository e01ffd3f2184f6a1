---------------------------- MODULE ExecutionRows ----------------------------
(***************************************************************************)
(* The rows the execution service keeps for one run - the run itself, its  *)
(* attempts, the approval links opened on it - and every operation of      *)
(* ExecutionTransitionService on them, as a guard Can<Op>(v, ...) and a    *)
(* result <Op>(v, ...) over a view v of those rows.  ExecutionTransitions  *)
(* applies them, one transaction at a time.                                *)
(*                                                                         *)
(* Time is two flags on an attempt: `due` (scheduled_at has come) and      *)
(* `overdue` (lease_expires_at has passed).  A lease token is the number   *)
(* of the claim that drew it; 0 is None.                                   *)
(***************************************************************************)
EXTENDS ExecutionStateMachine, Integers

CONSTANTS
  Authoritative,   \* execution_state_machine_validation_enabled
  MaxAttempts,     \* execution_max_attempts, the automatic retry budget
  AttemptLimit,    \* bound: attempts of one run
  LinkLimit,       \* bound: approval links of one run
  TokenLimit,      \* bound: claims of one run
  Dispositions     \* resume dispositions an approval is opened with

AttemptNos == 1..AttemptLimit
LinkIds    == 1..LinkLimit
Tokens     == 1..TokenLimit

ASSUME RowBounds ==
  /\ Authoritative \in BOOLEAN
  /\ MaxAttempts \in Nat \ {0}
  /\ AttemptLimit \in Nat /\ AttemptLimit >= MaxAttempts
  /\ LinkLimit \in Nat
  /\ TokenLimit \in Nat
  /\ Dispositions \subseteq {"resume", "fail", "compensate", "cancel"}

Attempt ==
  [state   : RUN_ATTEMPT_STATES \cup {"absent"},
   op      : RUN_OPERATOR_STATES \cup {"absent"},
   lease   : RUN_LEASE_STATUSES \cup {"absent"},
   token   : Tokens \cup {0},
   due     : BOOLEAN,
   overdue : BOOLEAN,
   retries : Nat]

Gate ==
  [attempt     : AttemptNos \cup {0},
   status      : {"absent", "open", "approved", "rejected"},
   disposition : Dispositions \cup {"absent"}]

\* active is active_attempt_no, current and link the two current_*_id columns
\* (0 for None), holder[t] the attempt claim t was for.
View ==
  [state    : RUN_STATES \cup {"absent"},
   op       : RUN_OPERATOR_STATES \cup {"absent"},
   active   : AttemptNos \cup {0},
   current  : AttemptNos \cup {0},
   link     : LinkIds \cup {0},
   attempts : [AttemptNos -> Attempt],
   gates    : [LinkIds -> Gate],
   holder   : [Tokens -> AttemptNos \cup {0}]]

NoAttempt ==
  [state |-> "absent", op |-> "absent", lease |-> "absent", token |-> 0,
   due |-> FALSE, overdue |-> FALSE, retries |-> 0]

NoGate == [attempt |-> 0, status |-> "absent", disposition |-> "absent"]

NewAttempt(state, op, due, retries) ==
  [state |-> state, op |-> op, lease |-> "not_leased", token |-> 0,
   due |-> due, overdue |-> FALSE, retries |-> retries]

NoRun ==
  [state |-> "absent", op |-> "absent", active |-> 0, current |-> 0,
   link |-> 0,
   attempts |-> [n \in AttemptNos |-> NoAttempt],
   gates |-> [l \in LinkIds |-> NoGate],
   holder |-> [t \in Tokens |-> 0]]

\* admit_create, and the run restart_run_from_scratch makes.
AdmittedRun ==
  [NoRun EXCEPT !.state = "queued", !.op = "admitted",
                !.active = 1, !.current = 1,
                !.attempts[1] = NewAttempt("queued", "admitted", TRUE, 0)]

Exists(v) == v.state # "absent"

-----------------------------------------------------------------------------
(* Row updates the handlers share.                                         *)

\* Write the state columns of the run and the row of its attempt n.
Put(v, n, state, op, a) ==
  [v EXCEPT !.state = state, !.op = op, !.attempts[n] = a]

Moved(a, state, op) == [a EXCEPT !.state = state, !.op = op]

\* Run and attempt move together.
MoveBoth(v, n, state, op) ==
  Put(v, n, state, op, Moved(v.attempts[n], state, op))

\* The token and its expiry go; which status the lease column is left with
\* depends on the operation.
Revoked(a, lease) ==
  [a EXCEPT !.lease = lease, !.token = 0, !.overdue = FALSE]

\* _clear_attempt_lease
Unleased(a) ==
  Revoked(a, IF a.lease = "expired" THEN "expired" ELSE "released")

\* Attempt n takes over from its predecessor: both number columns and the
\* current id move to it, and the run forgets its approval link.
Supersede(v, n, state, op, a) ==
  [v EXCEPT !.state = state, !.op = op, !.active = n, !.current = n, !.link = 0,
            !.attempts[n] = a]

\* Claims drawn so far on the run.
Drawn(v) == {t \in Tokens : v.holder[t] # 0}

\* The token the next claim draws: every smaller one is gone, and no other.
NextToken(v, t) == \A u \in Tokens : (v.holder[u] = 0) <=> u >= t

-----------------------------------------------------------------------------
(* Claiming.                                                               *)

\* _claim_query: what the worker's SELECT returns, from the attempt row alone.
ClaimCandidate(v, n) ==
  /\ v.attempts[n].state \in CLAIMABLE_RUN_STATES
  /\ v.attempts[n].op \in CLAIMABLE_OPERATOR_STATES
  /\ v.attempts[n].due

\* is_claimable_run, is_claimable_attempt, is_claimable_wakeup_due and the
\* compare-and-set of _claim_attempt.
CanClaim(v, n) ==
  /\ v.attempts[n].state \in CLAIMABLE_RUN_STATES
  /\ Authoritative =>
       /\ v.state \in CLAIMABLE_RUN_STATES
       /\ ClaimCandidate(v, n)

\* Mutant: the lease token is derived from the attempt instead of drawn afresh.
LeasedWithAttemptToken(a, t) ==
  [Moved(a, "dispatching", "leased")
     EXCEPT !.lease = "leased", !.token = 1, !.overdue = FALSE]

\* The attempt as claim t leaves it.
Leased(a, t) ==
  [Moved(a, "dispatching", "leased")
     EXCEPT !.lease = "leased", !.token = t, !.overdue = FALSE]

Claim(v, n, t) ==
  [Put(v, n, "dispatching", "leased", Leased(v.attempts[n], t))
     EXCEPT !.current = n, !.holder[t] = n]

-----------------------------------------------------------------------------
(* Worker calls: n and t are the attempt and token of a claim result.      *)

CanMarkExecuting(v, n, t) ==
  /\ v.attempts[n].state = "dispatching"
  /\ v.state = "dispatching"
  /\ v.attempts[n].token = t
  /\ "paused" \notin {v.op, v.attempts[n].op}

\* o is the operator state _operator_state_for_execution_step picks.
MarkExecuting(v, n, o) ==
  Put(v, n, "executing", o,
      [Moved(v.attempts[n], "executing", o) EXCEPT !.lease = "leased"])

CanRecordFailure(v, n, t) ==
  /\ v.current = n
  /\ {v.state, v.attempts[n].state} \subseteq {"dispatching", "executing"}
  /\ v.attempts[n].token = t

\* Mutant: the budget is compared with the failed attempt, not the next one.
ShouldRetryOnceMore(v, retryable) == retryable /\ v.active <= MaxAttempts

ShouldRetry(v, retryable) == retryable /\ v.active + 1 <= MaxAttempts

\* Mutant: the failed attempt itself is scheduled again.
RetryAttemptInPlace(v, n) ==
  Put(v, n, "retry_backoff", "retry_scheduled",
      Unleased(Moved(v.attempts[n], "retry_backoff", "retry_scheduled")))

\* The backoff delay is never below one second, so the new attempt waits.
RetryAttempt(v, n) ==
  LET failed == Unleased(Moved(v.attempts[n], "failed", "failed"))
      next   == NewAttempt("retry_backoff", "retry_scheduled", FALSE,
                           v.attempts[n].retries + 1)
  IN Supersede([v EXCEPT !.attempts[n] = failed], v.active + 1,
               "retry_backoff", "retry_scheduled", next)

DeadLetterAttempt(v, n) ==
  [Put(v, n, "dead_lettered", "quarantined",
       Unleased(Moved(v.attempts[n], "dead_lettered", "quarantined")))
     EXCEPT !.link = 0]

RecordFailure(v, n, retryable) ==
  IF ShouldRetry(v, retryable) THEN RetryAttempt(v, n)
                               ELSE DeadLetterAttempt(v, n)

\* Mutant: success is accepted for the run's state, whoever reports it.
CanCompleteUnleased(v, n, t) ==
  /\ v.state \in IN_FLIGHT_ATTEMPT_STATES
  /\ v.attempts[n].state \in IN_FLIGHT_ATTEMPT_STATES
  /\ v.current = n

\* Mutant: a paused run is not completed, as it is not started.
CanCompleteUnpaused(v, n, t) ==
  /\ v.attempts[n].state \in IN_FLIGHT_ATTEMPT_STATES
  /\ v.attempts[n].token = t
  /\ Authoritative => v.state \in IN_FLIGHT_ATTEMPT_STATES /\ v.current = n
  /\ v.op # "paused"

CanComplete(v, n, t) ==
  /\ v.attempts[n].state \in IN_FLIGHT_ATTEMPT_STATES
  /\ v.attempts[n].token = t
  /\ Authoritative => v.state \in IN_FLIGHT_ATTEMPT_STATES /\ v.current = n

Complete(v, n) ==
  Put(v, n, "succeeded", "completed",
      Unleased(Moved(v.attempts[n], "succeeded", "completed")))

CanRenewLease(v, n, t) ==
  /\ v.attempts[n].token = t
  /\ v.attempts[n].lease = "leased"
  /\ v.attempts[n].state \in IN_FLIGHT_ATTEMPT_STATES

RenewLease(v, n) == [v EXCEPT !.attempts[n].overdue = FALSE]

-----------------------------------------------------------------------------
(* Approvals: l is the approval link.                                      *)

CanOpenApproval(v, n) ==
  v.state = "executing" /\ v.attempts[n].state = "executing"

\* Mutant: the gate parks the attempt with its lease still on it.
OpenApprovalLeased(v, n, l, disposition) ==
  [MoveBoth(v, n, "waiting_on_approval", "waiting_on_approval")
     EXCEPT !.link = l,
            !.gates[l] = [attempt |-> n, status |-> "open",
                          disposition |-> disposition]]

OpenApproval(v, n, l, disposition) ==
  [Put(v, n, "waiting_on_approval", "waiting_on_approval",
       Revoked(Moved(v.attempts[n], "waiting_on_approval",
                     "waiting_on_approval"), "released"))
     EXCEPT !.link = l,
            !.gates[l] = [attempt |-> n, status |-> "open",
                          disposition |-> disposition]]

\* Mutant: an open gate is enough, also with the state machine in charge.
CanDecideOpenGate(v, l) == v.gates[l].status = "open"

\* Without the state machine only the gate is checked.
CanDecide(v, l) ==
  /\ v.gates[l].status = "open"
  /\ Authoritative =>
       /\ v.state = "waiting_on_approval"
       /\ v.attempts[v.gates[l].attempt].state = "waiting_on_approval"

\* The state a decision moves run and attempt to, and its operator state.
DecisionState(disposition, approved) ==
  CASE approved                       -> "queued"
    [] ~approved /\ disposition = "cancel"     -> "cancel_requested"
    [] ~approved /\ disposition = "compensate" -> "compensating"
    [] OTHER                          -> "failed"

\* Mutant: the run state is written into the operator-state columns.
DecisionOpUnmapped(state) == state

DecisionOp(state) == IF state = "queued" THEN "admitted" ELSE state

\* Mutant: the decision moves the rows and forgets to close the gate.
DecideKeepingGate(v, l, approved) ==
  LET n     == v.gates[l].attempt
      state == DecisionState(v.gates[l].disposition, approved)
  IN MoveBoth(v, n, state, DecisionOp(state))

Decide(v, l, approved) ==
  LET n     == v.gates[l].attempt
      state == DecisionState(v.gates[l].disposition, approved)
      a     == Revoked(Moved(v.attempts[n], state, DecisionOp(state)), "released")
  IN [Put(v, n, state, DecisionOp(state),
          [a EXCEPT !.due = (state # "failed") \/ @])
        EXCEPT !.gates[l].status = IF approved THEN "approved" ELSE "rejected"]

-----------------------------------------------------------------------------
(* Operator commands, all on the current attempt.                          *)

CanRequestCancel(v) ==
  v.state \notin TERMINAL_RUN_STATES \cup {"cancel_requested", "absent"}

\* Mutant: only the run row is cancelled; its queued attempt stays claimable.
RequestCancelRunOnly(v) ==
  [v EXCEPT !.state = "cancel_requested", !.op = "cancel_requested"]

RequestCancel(v) ==
  MoveBoth(v, v.current, "cancel_requested", "cancel_requested")

\* Mutant: a run whose cancellation is still under way may be retried.
CanAdmitRetryCancelled(v) ==
  v.state \in RETRYABLE_RUN_STATES \cup {"cancel_requested"}

CanAdmitRetry(v) == v.state \in RETRYABLE_RUN_STATES

AdmitRetry(v) ==
  Supersede(v, v.active + 1, "queued", "admitted",
            NewAttempt("queued", "admitted", TRUE, 0))

\* Mutant: the legacy in-flight check is dropped as well.
CanPauseInFlight(v) ==
  Exists(v) /\ v.op \notin TERMINAL_OPERATOR_STATES \cup {"paused"}

\* The legacy guards also refuse in-flight attempts; the state machine's
\* is_operator_pausable does not.
CanPause(v) ==
  /\ Exists(v)
  /\ v.op \notin TERMINAL_OPERATOR_STATES \cup {"paused"}
  /\ ~Authoritative =>
       v.attempts[v.current].state \notin IN_FLIGHT_ATTEMPT_STATES

\* Mutant: the attempt's operator state is forgotten.
PauseRunOnly(v) == [v EXCEPT !.op = "paused"]

Pause(v) ==
  Put(v, v.current, v.state, "paused",
      [v.attempts[v.current] EXCEPT !.op = "paused"])

CanResume(v) == v.op = "paused" /\ v.link = 0

\* Mutant: the attempt's operator state is forgotten.
ResumeRunOnly(v) == [v EXCEPT !.op = RUN_TO_OPERATOR_RESUME_MAP[v.state]]

Resume(v) ==
  LET o == RUN_TO_OPERATOR_RESUME_MAP[v.state]
  IN Put(v, v.current, v.state, o, [v.attempts[v.current] EXCEPT !.op = o])

CanInterrupt(v) == Exists(v) /\ v.op \notin TERMINAL_OPERATOR_STATES

Interrupt(v) ==
  Put(v, v.current, "cancel_requested", "interrupted",
      Unleased(Moved(v.attempts[v.current], "cancel_requested", "interrupted")))

CanQuarantine(v) == Exists(v) /\ v.op # "quarantined"

Quarantine(v) ==
  Put(v, v.current, "dead_lettered", "quarantined",
      Unleased(Moved(v.attempts[v.current], "dead_lettered", "quarantined")))

-----------------------------------------------------------------------------
(* Lease reconciliation of attempt n.                                      *)

LeaseExpired(v, n) ==
  /\ v.attempts[n].lease = "leased"
  /\ v.attempts[n].state \in IN_FLIGHT_ATTEMPT_STATES
  /\ v.attempts[n].overdue

CanReconcile(v, n) ==
  LeaseExpired(v, n) /\ v.op \notin TERMINAL_OPERATOR_STATES

\* Mutant: the attempt's operator state is written to the run as well.
ReconcileInterrupted(v, n) ==
  Put(v, n, "timed_out", "interrupted",
      Revoked(Moved(v.attempts[n], "timed_out", "interrupted"), "expired"))

Reconcile(v, n) ==
  Put(v, n, "timed_out", "quarantined",
      Revoked(Moved(v.attempts[n], "timed_out", "interrupted"), "expired"))
=============================================================================
