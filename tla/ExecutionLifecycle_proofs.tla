----------------------- MODULE ExecutionLifecycle_proofs -----------------------
(***************************************************************************)
(* The service implements the declared state machine, for every value of   *)
(* the constants: under the mapping DimsOf each operation on a run is one  *)
(* trigger of the tables, pause or resume, or is invisible.  That the      *)
(* hand-written handlers take the source states, the targets and the       *)
(* attempt effects of the tables rests on RowsOK, the invariant of the     *)
(* rows.                                                                   *)
(***************************************************************************)
EXTENDS ExecutionTransitions_proofs

AllDims == [r \in Runs |-> DimsOf(db[r])]

LifecycleMoves == [Lifecycle!LifecycleNext]_AllDims

-----------------------------------------------------------------------------
(* What one run may do.                                                    *)

Fires(t, o, d, e) ==
  /\ d.run \in Lifecycle!RUN_STATE_TRANSITIONS[t].source
  /\ Lifecycle!Guarded(t, d)
  /\ o \in Lifecycle!RUN_OPERATOR_TARGETS_BY_TRIGGER[t]
  /\ e = Lifecycle!AfterTrigger(t, o, d)

WithOperator(d, o) == [d EXCEPT !.op = o, !.attemptOp = o]

Pauses(d, e) ==
  /\ d # Lifecycle!Absent
  /\ d.op \notin Lifecycle!TERMINAL_OPERATOR_STATES \cup {"paused"}
  /\ e = WithOperator(d, "paused")

Resumes(d, e) ==
  /\ d.op = "paused"
  /\ LET o == Lifecycle!RUN_TO_OPERATOR_RESUME_MAP[d.run] IN
       e = WithOperator(d, o)

Moves(d, e) ==
  \/ e = d
  \/ d = Lifecycle!Absent /\ e = Lifecycle!Created
  \/ \E t \in Lifecycle!RunTriggers :
       \E o \in Lifecycle!RUN_OPERATOR_TARGETS_BY_TRIGGER[t] : Fires(t, o, d, e)
  \/ Pauses(d, e)
  \/ Resumes(d, e)

LEMMA OneRunMoves ==
  ASSUME TypeOK, NEW r \in Runs, NEW w, Update(r, w),
         Moves(DimsOf(db[r]), DimsOf(w))
  PROVE  LifecycleMoves
<1> DEFINE d == DimsOf(db[r])
           e == DimsOf(w)
<1>1. AllDims' = [AllDims EXCEPT ![r] = e]
  BY DEF AllDims, Update, TypeOK
<1>2. AllDims[r] = d
  BY DEF AllDims
<1>3. CASE e = d
  BY <1>1, <1>2, <1>3 DEF LifecycleMoves, AllDims
<1>4. CASE d = Lifecycle!Absent /\ e = Lifecycle!Created
  BY <1>1, <1>2, <1>4 DEF LifecycleMoves, AllDims, Lifecycle!LifecycleNext, Lifecycle!Create
<1>5. ASSUME NEW t \in Lifecycle!RunTriggers,
             NEW o \in Lifecycle!RUN_OPERATOR_TARGETS_BY_TRIGGER[t],
             Fires(t, o, d, e)
      PROVE  LifecycleMoves
  <2>1. AllDims' = [AllDims EXCEPT ![r] = Lifecycle!AfterTrigger(t, o, AllDims[r])]
    BY <1>1, <1>2, <1>5 DEF Fires
  <2>2. /\ AllDims[r].run \in Lifecycle!RUN_STATE_TRANSITIONS[t].source
        /\ Lifecycle!Guarded(t, AllDims[r])
    BY <1>2, <1>5 DEF Fires
  <2>3. Lifecycle!Fire(r, t)
    BY <2>1, <2>2 DEF AllDims, Lifecycle!Fire
  <2> QED
    BY <2>3 DEF LifecycleMoves, Lifecycle!LifecycleNext
<1>6. CASE Pauses(d, e)
  BY <1>1, <1>2, <1>6 DEF LifecycleMoves, AllDims, Pauses, WithOperator,
                             Lifecycle!LifecycleNext, Lifecycle!Pause
<1>7. CASE Resumes(d, e)
  BY <1>1, <1>2, <1>7 DEF LifecycleMoves, AllDims, Resumes, WithOperator,
                             Lifecycle!LifecycleNext, Lifecycle!Resume
<1> QED
  BY <1>3, <1>4, <1>5, <1>6, <1>7 DEF Moves

-----------------------------------------------------------------------------
(* What the tables say of each trigger the service uses.                   *)

Dim(run, op, no, attempt, attemptOp, lease) ==
  [run |-> run, op |-> op, no |-> no,
   attempt |-> attempt, attemptOp |-> attemptOp, lease |-> lease]

USE DEF Fires, Dim, Lifecycle!RunTriggers, Lifecycle!RUN_STATE_TRANSITIONS,
             Lifecycle!Guarded, Lifecycle!RUN_OPERATOR_TARGETS_BY_TRIGGER,
             Lifecycle!AfterTrigger, Lifecycle!ATTEMPT_EFFECTS_BY_TRIGGER,
             Lifecycle!InPlace, Lifecycle!Replacing,
             Lifecycle!RUN_STATES, RUN_STATES,
             Lifecycle!CLAIMABLE_RUN_STATES, CLAIMABLE_RUN_STATES,
             Lifecycle!CLAIMABLE_OPERATOR_STATES, CLAIMABLE_OPERATOR_STATES,
             Lifecycle!RETRYABLE_RUN_STATES, RETRYABLE_RUN_STATES,
             Lifecycle!IN_FLIGHT_ATTEMPT_STATES, IN_FLIGHT_ATTEMPT_STATES,
             Lifecycle!TERMINAL_RUN_STATES, TERMINAL_RUN_STATES,
             Lifecycle!TERMINAL_OPERATOR_STATES, TERMINAL_OPERATOR_STATES

LEMMA ClaimFires ==
  ASSUME NEW d,
         d.run \in CLAIMABLE_RUN_STATES, d.attempt \in CLAIMABLE_RUN_STATES,
         d.attemptOp \in CLAIMABLE_OPERATOR_STATES
  PROVE  Moves(d, Dim("dispatching", "leased", d.no, "dispatching", "leased", "leased"))
<1>1. Fires("claim_attempt", "leased", d,
            Dim("dispatching", "leased", d.no, "dispatching", "leased", "leased"))
  OBVIOUS
<1> QED
  BY <1>1 DEF Moves

LEMMA StartFires ==
  ASSUME NEW d,
         d.run = "dispatching",
         "paused" \notin {d.op, d.attemptOp},
         NEW o \in {"executing", "waiting_external"}
  PROVE  Moves(d, Dim("executing", o, d.no, "executing", o, "leased"))
<1>1. Fires("start_execution", o, d,
            Dim("executing", o, d.no, "executing", o, "leased"))
  OBVIOUS
<1> QED
  BY <1>1 DEF Moves

LEMMA CompleteFires ==
  ASSUME NEW d,
         d.run \in IN_FLIGHT_ATTEMPT_STATES, d.attempt = d.run
  PROVE  Moves(d, Dim("succeeded", "completed", d.no, "succeeded", "completed", "released"))
<1>1. Fires("complete_success", "completed", d,
            Dim("succeeded", "completed", d.no, "succeeded", "completed", "released"))
  OBVIOUS
<1> QED
  BY <1>1 DEF Moves

LEMMA RetryFires ==
  ASSUME NEW d,
         d.run \in {"dispatching", "executing"}, d.attempt = d.run
  PROVE  Moves(d, Dim("retry_backoff", "retry_scheduled", d.no + 1, "retry_backoff",
                 "retry_scheduled", "not_leased"))
<1>1. Fires("record_retryable_failure_delayed", "retry_scheduled", d,
            Dim("retry_backoff", "retry_scheduled", d.no + 1, "retry_backoff",
                 "retry_scheduled", "not_leased"))
  OBVIOUS
<1> QED
  BY <1>1 DEF Moves

LEMMA DeadLetterFires ==
  ASSUME NEW d,
         d.run \in {"dispatching", "executing"}, d.attempt = d.run
  PROVE  Moves(d, Dim("dead_lettered", "quarantined", d.no, "dead_lettered",
                 "quarantined", "released"))
<1>1. Fires("record_terminal_failure", "quarantined", d,
            Dim("dead_lettered", "quarantined", d.no, "dead_lettered",
                 "quarantined", "released"))
  OBVIOUS
<1> QED
  BY <1>1 DEF Moves

LEMMA OpenApprovalFires ==
  ASSUME NEW d,
         d.run = "executing",
         d.attempt = d.run
  PROVE  Moves(d, Dim("waiting_on_approval", "waiting_on_approval", d.no,
                 "waiting_on_approval", "waiting_on_approval", "released"))
<1>1. Fires("open_approval", "waiting_on_approval", d,
            Dim("waiting_on_approval", "waiting_on_approval", d.no,
                 "waiting_on_approval", "waiting_on_approval", "released"))
  OBVIOUS
<1> QED
  BY <1>1 DEF Moves

LEMMA ApproveFires ==
  ASSUME NEW d,
         d.run = "waiting_on_approval",
         d.attempt = d.run
  PROVE  Moves(d, Dim("queued", "admitted", d.no, "queued", "admitted", "released"))
<1>1. Fires("resume_after_approval", "admitted", d,
            Dim("queued", "admitted", d.no, "queued", "admitted", "released"))
  OBVIOUS
<1> QED
  BY <1>1 DEF Moves

LEMMA RejectFires ==
  ASSUME NEW d, d.run = "waiting_on_approval", d.attempt = d.run,
         NEW state \in {"cancel_requested", "compensating", "failed"}
  PROVE  Moves(d, Dim(state, state, d.no, state, state, d.lease))
<1>1. Fires("reject_approval_cancel", "cancel_requested", d,
            Dim("cancel_requested", "cancel_requested", d.no,
                "cancel_requested", "cancel_requested", d.lease))
  OBVIOUS
<1>2. Fires("reject_approval_compensate", "compensating", d,
            Dim("compensating", "compensating", d.no,
                "compensating", "compensating", d.lease))
  OBVIOUS
<1>3. Fires("reject_approval_fail", "failed", d,
            Dim("failed", "failed", d.no, "failed", "failed", d.lease))
  OBVIOUS
<1>4. CASE state = "cancel_requested"
  BY <1>1, <1>4 DEF Moves
<1>5. CASE state = "compensating"
  BY <1>2, <1>5 DEF Moves
<1>6. CASE state = "failed"
  BY <1>3, <1>6 DEF Moves
<1> QED
  BY <1>4, <1>5, <1>6

LEMMA CancelFires ==
  ASSUME NEW d,
         d.run \in RUN_STATES,
         d.run \notin TERMINAL_RUN_STATES \cup {"cancel_requested"}
  PROVE  Moves(d, Dim("cancel_requested", "cancel_requested", d.no,
                 "cancel_requested", "cancel_requested", d.lease))
<1>1. Fires("request_cancel", "cancel_requested", d,
            Dim("cancel_requested", "cancel_requested", d.no,
                 "cancel_requested", "cancel_requested", d.lease))
  OBVIOUS
<1> QED
  BY <1>1 DEF Moves

LEMMA AdmitRetryFires ==
  ASSUME NEW d,
         d.run \in RETRYABLE_RUN_STATES
  PROVE  Moves(d, Dim("queued", "admitted", d.no + 1, "queued", "admitted", "not_leased"))
<1>1. Fires("admit_retry", "admitted", d,
            Dim("queued", "admitted", d.no + 1, "queued", "admitted", "not_leased"))
  OBVIOUS
<1> QED
  BY <1>1 DEF Moves

LEMMA InterruptFires ==
  ASSUME NEW d,
         d.run \in RUN_STATES,
         d.op \notin TERMINAL_OPERATOR_STATES
  PROVE  Moves(d, Dim("cancel_requested", "interrupted", d.no, "cancel_requested",
                 "interrupted", "released"))
<1>1. Fires("interrupt", "interrupted", d,
            Dim("cancel_requested", "interrupted", d.no, "cancel_requested",
                 "interrupted", "released"))
  OBVIOUS
<1> QED
  BY <1>1 DEF Moves

LEMMA QuarantineFires ==
  ASSUME NEW d,
         d.run \in RUN_STATES,
         d.op # "quarantined"
  PROVE  Moves(d, Dim("dead_lettered", "quarantined", d.no, "dead_lettered",
                 "quarantined", "released"))
<1>1. Fires("quarantine", "quarantined", d,
            Dim("dead_lettered", "quarantined", d.no, "dead_lettered",
                 "quarantined", "released"))
  OBVIOUS
<1> QED
  BY <1>1 DEF Moves

LEMMA ExpireFires ==
  ASSUME NEW d, d.lease = "leased"
  PROVE  /\ Lifecycle!Guarded("expire_lease", d)
         /\ Lifecycle!AfterTrigger("expire_lease", "quarantined", d)
              = Dim("timed_out", "quarantined", d.no, "timed_out",
                    "interrupted", "expired")
OBVIOUS

HIDE DEF Fires, Dim, Lifecycle!RunTriggers, Lifecycle!RUN_STATE_TRANSITIONS,
              Lifecycle!Guarded, Lifecycle!RUN_OPERATOR_TARGETS_BY_TRIGGER,
              Lifecycle!AfterTrigger, Lifecycle!ATTEMPT_EFFECTS_BY_TRIGGER,
              Lifecycle!InPlace, Lifecycle!Replacing,
              Lifecycle!RUN_STATES, RUN_STATES,
              Lifecycle!CLAIMABLE_RUN_STATES, CLAIMABLE_RUN_STATES,
              Lifecycle!CLAIMABLE_OPERATOR_STATES, CLAIMABLE_OPERATOR_STATES,
              Lifecycle!RETRYABLE_RUN_STATES, RETRYABLE_RUN_STATES,
              Lifecycle!IN_FLIGHT_ATTEMPT_STATES, IN_FLIGHT_ATTEMPT_STATES,
              Lifecycle!TERMINAL_RUN_STATES, TERMINAL_RUN_STATES,
              Lifecycle!TERMINAL_OPERATOR_STATES, TERMINAL_OPERATOR_STATES

-----------------------------------------------------------------------------
(* The operations.                                                         *)

\* The dimensions of a run that exists, and of one whose current attempt an
\* operation has rewritten in place.
LEMMA DimsOfRows ==
  ASSUME NEW v, RowsOK(v), Exists(v)
  PROVE  LET a == v.attempts[v.active] IN
           /\ DimsOf(v) = Dim(v.state, v.op, v.active, a.state, a.op, a.lease)
           /\ DimsOf(v).run = v.state /\ DimsOf(v).op = v.op
           /\ DimsOf(v).no = v.active /\ DimsOf(v).attempt = a.state
           /\ DimsOf(v).attemptOp = a.op /\ DimsOf(v).lease = a.lease
           /\ DimsOf(v).attempt = DimsOf(v).run
BY RowsFacts DEF DimsOf, Dim, Coherent

LEMMA DimsOfPut ==
  ASSUME NEW v, RowsOK(v), Exists(v), NEW state \in RUN_STATES,
         NEW op \in RUN_OPERATOR_STATES, NEW a \in Attempt
  PROVE  DimsOf(Put(v, v.active, state, op, a))
           = Dim(state, op, v.active, a.state, a.op, a.lease)
<1> DEFINE w == Put(v, v.active, state, op, a)
<1>1. /\ v \in View /\ v.active \in AttemptNos /\ v.current = v.active
      /\ v.attempts \in [AttemptNos -> Attempt]
  BY RowsFacts DEF View
<1>2. /\ w \in View
      /\ w.state = state /\ w.op = op
      /\ w.active = v.active /\ w.current = v.current /\ w.link = v.link
      /\ w.attempts = [v.attempts EXCEPT ![v.active] = a]
      /\ w.gates = v.gates /\ w.holder = v.holder
  BY <1>1, PutFields
<1> HIDE DEF w
<1>3. DimsOf(w) = Dim(state, op, v.active, a.state, a.op, a.lease)
  BY <1>1, <1>2, StateNames DEF DimsOf, Dim, Exists
<1> QED
  BY <1>3 DEF w

\* Pausing and resuming change two of the dimensions.
LEMMA DimWithOperator ==
  ASSUME NEW run, NEW op, NEW no, NEW attempt, NEW attemptOp, NEW lease, NEW o
  PROVE  WithOperator(Dim(run, op, no, attempt, attemptOp, lease), o)
           = Dim(run, o, no, attempt, o, lease)
<1>1. [Dim(run, op, no, attempt, attemptOp, lease) EXCEPT !.op = o]
        = Dim(run, o, no, attempt, attemptOp, lease)
  BY DEF Dim
<1>2. [Dim(run, o, no, attempt, attemptOp, lease) EXCEPT !.attemptOp = o]
        = Dim(run, o, no, attempt, o, lease)
  BY DEF Dim
<1>3. WithOperator(Dim(run, op, no, attempt, attemptOp, lease), o)
        = [[Dim(run, op, no, attempt, attemptOp, lease) EXCEPT !.op = o]
             EXCEPT !.attemptOp = o]
  BY DEF WithOperator
<1> QED
  BY <1>1, <1>2, <1>3

LEMMA CreateMoves == Moves(DimsOf(NoRun), DimsOf(AdmittedRun))
<1>1. DimsOf(NoRun) = Lifecycle!Absent
  BY DEF DimsOf, NoRun, NoAttempt, Exists, Lifecycle!Absent
<1>2. DimsOf(AdmittedRun) = Lifecycle!Created
  <2> DEFINE a == NewAttempt("queued", "admitted", TRUE, 0)
             w == [NoRun EXCEPT !.state = "queued", !.op = "admitted",
                     !.active = 1, !.current = 1,
                     !.attempts = [NoRun.attempts EXCEPT ![1] = a]]
  <2>1. 1 \in AttemptNos
    BY RowBounds DEF AttemptNos
  <2>2. NoRun \in View
    BY NoRunOK
  <2>3. AdmittedRun = w
    BY <2>2 DEF AdmittedRun, View
  <2>4. /\ a.state = "queued" /\ a.op = "admitted" /\ a.lease = "not_leased"
    BY DEF NewAttempt
  <2> HIDE DEF a
  <2>5. /\ w.state = "queued" /\ w.op = "admitted" /\ w.active = 1
        /\ w.current = 1 /\ w.attempts[1] = a
    BY <2>1, <2>2 DEF View
  <2> HIDE DEF w
  <2> QED
    BY <2>3, <2>4, <2>5 DEF DimsOf, Exists, Lifecycle!Created
<1> QED
  BY <1>1, <1>2 DEF Moves

LEMMA ClaimMoves ==
  ASSUME NEW v, RowsOK(v), Authoritative, NEW n \in AttemptNos,
         NEW t \in Tokens, CanClaim(v, n)
  PROVE  Moves(DimsOf(v), DimsOf(Claim(v, n, t)))
<1> DEFINE a == Leased(v.attempts[n], t)
           u == Put(v, n, "dispatching", "leased", a)
           w == Claim(v, n, t)
<1>1. Exists(v) /\ n = v.active /\ v.current = n
  BY LiveIsCurrent DEF CanClaim, CLAIMABLE_RUN_STATES, RETRYABLE_RUN_STATES
<1>2. a \in Attempt
      /\ a.state = "dispatching" /\ a.op = "leased" /\ a.lease = "leased"
  BY <1>1, RowsFacts, LeasedFields
<1> HIDE DEF a
<1>3. DimsOf(u) = Dim("dispatching", "leased", v.active,
                      "dispatching", "leased", "leased")
  BY <1>1, <1>2, StateNames, DimsOfPut
<1>4. u \in View /\ u.current = n
  <2>1. /\ u \in View
        /\ u.state = "dispatching" /\ u.op = "leased"
        /\ u.active = v.active /\ u.current = v.current /\ u.link = v.link
        /\ u.attempts = [v.attempts EXCEPT ![n] = a]
        /\ u.gates = v.gates /\ u.holder = v.holder
    BY <1>1, <1>2, RowsFacts, StateNames, PutFields
  <2> QED
    BY <1>1, <2>1
<1> HIDE DEF u
<1>5. DimsOf(w) = DimsOf(u)
  <2>1. w = Drew(u, n, t)
    BY DEF Claim, Drew, u, a
  <2> HIDE DEF w
  <2>2. /\ w \in View
        /\ w.state = u.state /\ w.op = u.op
        /\ w.active = u.active /\ w.current = n /\ w.link = u.link
        /\ w.attempts = u.attempts /\ w.gates = u.gates
        /\ w.holder = [u.holder EXCEPT ![t] = n]
    BY <1>4, <2>1, ClaimFields
  <2> QED
    BY <1>4, <2>2 DEF DimsOf, Exists
<1> HIDE DEF w
<1>6. /\ DimsOf(v).run \in CLAIMABLE_RUN_STATES
      /\ DimsOf(v).attempt \in CLAIMABLE_RUN_STATES
      /\ DimsOf(v).attemptOp \in CLAIMABLE_OPERATOR_STATES
      /\ DimsOf(v).no = v.active
  BY <1>1, DimsOfRows DEF CanClaim, ClaimCandidate
<1>7. Moves(DimsOf(v), DimsOf(w))
  BY <1>3, <1>5, <1>6, ClaimFires
<1> QED
  BY <1>7 DEF w

LEMMA MarkExecutingMoves ==
  ASSUME NEW v, RowsOK(v), NEW n \in AttemptNos, NEW t \in Tokens,
         CanMarkExecuting(v, n, t), NEW o \in {"executing", "waiting_external"}
  PROVE  Moves(DimsOf(v), DimsOf(MarkExecuting(v, n, o)))
<1> DEFINE a == [Moved(v.attempts[n], "executing", o) EXCEPT !.lease = "leased"]
<1>1. Exists(v) /\ n = v.active
  BY LiveIsCurrent DEF CanMarkExecuting, RETRYABLE_RUN_STATES
<1>2. a \in Attempt /\ a.state = "executing" /\ a.op = o /\ a.lease = "leased"
  <2>1. v.attempts[n] \in Attempt
    BY <1>1, RowsFacts
  <2>2. "executing" \in RUN_STATES /\ o \in RUN_OPERATOR_STATES
    BY StateNames
  <2> QED
    BY <2>1, <2>2, HeldFields
<1> HIDE DEF a
<1>3. DimsOf(Put(v, n, "executing", o, a))
        = Dim("executing", o, v.active, "executing", o, "leased")
  BY <1>1, <1>2, StateNames, DimsOfPut
<1>4. /\ DimsOf(v).run = "dispatching" /\ DimsOf(v).no = v.active
      /\ "paused" \notin {DimsOf(v).op, DimsOf(v).attemptOp}
  BY <1>1, DimsOfRows DEF CanMarkExecuting
<1>5. Moves(DimsOf(v), DimsOf(Put(v, n, "executing", o, a)))
  BY <1>3, <1>4, StartFires
<1> QED
  BY <1>5 DEF MarkExecuting, a

\* The lease of an attempt that is not expired is released.
LEMMA UnleasedPut ==
  ASSUME NEW v, RowsOK(v), Exists(v), v.attempts[v.active].lease # "expired",
         NEW state \in RUN_STATES, NEW op \in RUN_OPERATOR_STATES
  PROVE  DimsOf(Put(v, v.active, state, op,
                    Unleased(Moved(v.attempts[v.active], state, op))))
           = Dim(state, op, v.active, state, op, "released")
<1> DEFINE a == Unleased(Moved(v.attempts[v.active], state, op))
<1>1. /\ a \in Attempt /\ a.state = state /\ a.op = op
      /\ a.token = 0 /\ a.lease \in {"released", "expired"}
      /\ a.lease = "expired" => v.attempts[v.active].lease = "expired"
      /\ a.retries = v.attempts[v.active].retries
  BY RowsFacts, UnleasedFields
<1> HIDE DEF a
<1>2. DimsOf(Put(v, v.active, state, op, a))
        = Dim(state, op, v.active, state, op, "released")
  BY <1>1, DimsOfPut
<1> QED
  BY <1>2 DEF a

LEMMA CompleteMoves ==
  ASSUME NEW v, RowsOK(v), NEW n \in AttemptNos, NEW t \in Tokens,
         CanComplete(v, n, t)
  PROVE  Moves(DimsOf(v), DimsOf(Complete(v, n)))
<1>1. /\ Exists(v) /\ n = v.active
      /\ v.attempts[n].token # 0
  BY LiveIsCurrent, Numbers DEF CanComplete
<1>2. v.attempts[n].lease # "expired"
  BY <1>1, RowsFacts DEF Coherent
<1>3. DimsOf(Complete(v, n))
        = Dim("succeeded", "completed", v.active, "succeeded", "completed",
              "released")
  BY <1>1, <1>2, StateNames, UnleasedPut DEF Complete
<1>4. /\ DimsOf(v).run \in IN_FLIGHT_ATTEMPT_STATES
      /\ DimsOf(v).attempt = DimsOf(v).run /\ DimsOf(v).no = v.active
  BY <1>1, DimsOfRows DEF CanComplete
<1> QED
  BY <1>3, <1>4, CompleteFires

LEMMA RecordFailureMoves ==
  ASSUME NEW v, RowsOK(v), NEW n \in AttemptNos, NEW t \in Tokens,
         CanRecordFailure(v, n, t), NEW retryable \in BOOLEAN
  PROVE  Moves(DimsOf(v), DimsOf(RecordFailure(v, n, retryable)))
<1>1. Exists(v) /\ n = v.active /\ v.attempts[n].token # 0
  BY LiveIsCurrent, Numbers DEF CanRecordFailure
<1>2. /\ DimsOf(v).run \in {"dispatching", "executing"}
      /\ DimsOf(v).attempt = DimsOf(v).run /\ DimsOf(v).no = v.active
  BY <1>1, DimsOfRows DEF CanRecordFailure
<1>3. CASE ShouldRetry(v, retryable)
  <2> DEFINE a == Unleased(Moved(v.attempts[n], "failed", "failed"))
             u == Wrote(v, n, a)
             m == v.active + 1
             b == NewAttempt("retry_backoff", "retry_scheduled", FALSE,
                             v.attempts[n].retries + 1)
             w == Supersede(u, m, "retry_backoff", "retry_scheduled", b)
  <2>1. a \in Attempt
    BY <1>1, RowsFacts, StateNames, UnleasedFields
  <2>2. u \in View
    <3> HIDE DEF a
    <3>1. /\ u \in View
          /\ u.state = v.state /\ u.op = v.op
          /\ u.active = v.active /\ u.current = v.current /\ u.link = v.link
          /\ u.attempts = [v.attempts EXCEPT ![n] = a]
          /\ u.gates = v.gates /\ u.holder = v.holder
      BY <1>1, <2>1, RowsFacts, WroteFields
    <3> QED
      BY <3>1
  <2>3. m \in AttemptNos
    BY <1>1, <1>3, RowsFacts, Numbers, RowBounds DEF ShouldRetry, AttemptNos
  <2>4. /\ b \in Attempt
        /\ b.state = "retry_backoff" /\ b.op = "retry_scheduled"
        /\ b.lease = "not_leased"
    <3>1. v.attempts[n].retries + 1 \in Nat
      BY <1>1, RowsFacts DEF Attempt
    <3>2. b \in Attempt
      BY <3>1, StateNames, NewAttemptFields
    <3> QED
      BY <3>2 DEF NewAttempt
  <2> HIDE DEF u, b, m
  <2>5. /\ w \in View
        /\ w.state = "retry_backoff" /\ w.op = "retry_scheduled"
        /\ w.active = m /\ w.current = m /\ w.link = 0
        /\ w.attempts = [u.attempts EXCEPT ![m] = b]
        /\ w.gates = u.gates /\ w.holder = u.holder
    BY <2>2, <2>3, <2>4, StateNames, SupersedeFields
  <2> HIDE DEF w
  <2>6. w.attempts[m] = b
    BY <2>2, <2>3, <2>5 DEF View
  <2>7. DimsOf(w) = Dim("retry_backoff", "retry_scheduled", m, "retry_backoff",
                        "retry_scheduled", "not_leased")
    BY <2>4, <2>5, <2>6 DEF DimsOf, Dim, Exists
  <2>8. Moves(DimsOf(v), DimsOf(w))
    BY <1>2, <2>7, RetryFires DEF m
  <2> QED
    BY <1>3, <2>8 DEF RecordFailure, RetryAttempt, Wrote, a, u, m, b, w
<1>4. CASE ~ShouldRetry(v, retryable)
  <2> DEFINE u == Put(v, n, "dead_lettered", "quarantined",
                      Unleased(Moved(v.attempts[n], "dead_lettered",
                                     "quarantined")))
             w == [u EXCEPT !.link = 0]
  <2>1. v.attempts[n].lease # "expired"
    BY <1>1, RowsFacts DEF Coherent
  <2>2. DimsOf(u) = Dim("dead_lettered", "quarantined", v.active,
                        "dead_lettered", "quarantined", "released")
    BY <1>1, <2>1, StateNames, UnleasedPut
  <2>3. u = [v EXCEPT !.state = u.state, !.op = u.op, !.attempts = u.attempts]
        /\ v \in View
    BY RowsFacts, <1>1 DEF Put, View
  <2> HIDE DEF u
  <2>4. DimsOf(w) = DimsOf(u)
    BY <2>3 DEF DimsOf, Exists, View
  <2>5. Moves(DimsOf(v), DimsOf(w))
    BY <1>2, <2>2, <2>4, DeadLetterFires
  <2> QED
    BY <1>4, <2>5 DEF RecordFailure, DeadLetterAttempt, u, w
<1> QED
  BY <1>3, <1>4

LEMMA OpenApprovalMoves ==
  ASSUME NEW v, RowsOK(v), NEW n \in AttemptNos, NEW l \in LinkIds,
         CanOpenApproval(v, n), NEW d \in Dispositions
  PROVE  Moves(DimsOf(v), DimsOf(OpenApproval(v, n, l, d)))
<1> DEFINE a == Revoked(Moved(v.attempts[n], "waiting_on_approval",
                              "waiting_on_approval"), "released")
           u == Put(v, n, "waiting_on_approval", "waiting_on_approval", a)
           g == [attempt |-> n, status |-> "open", disposition |-> d]
           w == WithGate(u, l, l, g)
<1>1. Exists(v) /\ n = v.active
  BY LiveIsCurrent DEF CanOpenApproval, RETRYABLE_RUN_STATES
<1>2. /\ a \in Attempt /\ a.state = "waiting_on_approval"
      /\ a.op = "waiting_on_approval" /\ a.lease = "released"
  BY <1>1, RowsFacts, StateNames, RevokedFields
<1>3. OpenApproval(v, n, l, d) = w
  BY DEF OpenApproval, WithGate
<1> HIDE DEF a
<1>4. DimsOf(u) = Dim("waiting_on_approval", "waiting_on_approval", v.active,
                      "waiting_on_approval", "waiting_on_approval", "released")
  BY <1>1, <1>2, StateNames, DimsOfPut
<1>5. u \in View
  <2>1. /\ u \in View
        /\ u.state = "waiting_on_approval" /\ u.op = "waiting_on_approval"
        /\ u.active = v.active /\ u.current = v.current /\ u.link = v.link
        /\ u.attempts = [v.attempts EXCEPT ![n] = a]
        /\ u.gates = v.gates /\ u.holder = v.holder
    BY <1>1, <1>2, RowsFacts, StateNames, PutFields
  <2> QED
    BY <2>1
<1>6. g \in Gate
  BY DEF Gate
<1> HIDE DEF u, g
<1>7. DimsOf(w) = DimsOf(u)
  <2>1. /\ w \in View
        /\ w.state = u.state /\ w.op = u.op
        /\ w.active = u.active /\ w.current = u.current /\ w.link = l
        /\ w.attempts = u.attempts /\ w.holder = u.holder
        /\ w.gates = [u.gates EXCEPT ![l] = g]
    BY <1>5, <1>6, GateFields
  <2> QED
    BY <2>1 DEF DimsOf, Exists
<1> HIDE DEF w
<1>8. /\ DimsOf(v).run = "executing" /\ DimsOf(v).attempt = DimsOf(v).run
      /\ DimsOf(v).no = v.active
  BY <1>1, DimsOfRows DEF CanOpenApproval
<1> QED
  BY <1>3, <1>4, <1>7, <1>8, OpenApprovalFires

LEMMA DecideMoves ==
  ASSUME NEW v, RowsOK(v), Authoritative, NEW l \in LinkIds, CanDecide(v, l),
         NEW approved \in BOOLEAN
  PROVE  Moves(DimsOf(v), DimsOf(Decide(v, l, approved)))
<1> DEFINE n      == v.gates[l].attempt
           state  == DecisionState(v.gates[l].disposition, approved)
           op     == DecisionOp(state)
           b      == Revoked(Moved(v.attempts[n], state, op), "released")
           a      == [b EXCEPT !.due = (state # "failed") \/ @]
           u      == Put(v, n, state, op, a)
           status == IF approved THEN "approved" ELSE "rejected"
           w      == [u EXCEPT !.gates[l].status = status]
<1>1. Exists(v)
  BY DEF CanDecide, Exists
<1>2. /\ v \in View /\ v.current = v.active /\ v.active \in AttemptNos
      /\ v.state = "waiting_on_approval" /\ v.gates[l].status = "open"
      /\ GatesOK(v) /\ Coherent(v, v.attempts[v.active])
      /\ v.attempts[v.active] \in Attempt
  BY <1>1, RowsFacts DEF CanDecide
<1>3. n = v.active
  <2>1. n \in AttemptNos
    <3>1. n \in 1..v.active
      BY <1>2 DEF GatesOK
    <3> QED
      BY <1>2, <3>1, RowBounds DEF AttemptNos
  <2>2. v.attempts[n].state = "waiting_on_approval"
    BY DEF CanDecide
  <2> HIDE DEF n
  <2> QED
    BY <2>1, <2>2, LiveIsCurrent DEF RETRYABLE_RUN_STATES
<1>4. /\ \/ state = "queued" /\ op = "admitted"
         \/ state \in {"cancel_requested", "compensating", "failed"} /\ op = state
      /\ state \in RUN_STATES /\ op \in RUN_OPERATOR_STATES
  BY StateNames DEF DecisionState, DecisionOp
<1>5. Decide(v, l, approved) = w
  BY DEF Decide
<1>6. /\ b \in Attempt /\ b.state = state /\ b.op = op
      /\ b.token = 0 /\ b.lease = "released"
      /\ b.retries = v.attempts[n].retries
  <2> HIDE DEF state, op, n
  <2> QED
    BY <1>2, <1>3, <1>4, RevokedFields
<1>7. a \in Attempt /\ a.state = state /\ a.op = op /\ a.lease = "released"
  <2> HIDE DEF b, state
  <2> QED
    BY <1>6 DEF Attempt
<1> HIDE DEF a, state, op, n
<1>8. DimsOf(u) = Dim(state, op, v.active, state, op, "released")
  BY <1>1, <1>3, <1>4, <1>7, DimsOfPut
<1>9. u = [v EXCEPT !.state = u.state, !.op = u.op, !.attempts = u.attempts]
  BY <1>2 DEF Put, View
<1> HIDE DEF u
<1>10. DimsOf(w) = DimsOf(u)
  BY <1>2, <1>9 DEF DimsOf, Exists, View
<1> HIDE DEF w
<1>11. /\ DimsOf(v).run = "waiting_on_approval"
       /\ DimsOf(v).attempt = DimsOf(v).run
       /\ DimsOf(v).no = v.active /\ DimsOf(v).lease = "released"
  BY <1>1, <1>2, DimsOfRows DEF Coherent
<1>12. Moves(DimsOf(v), DimsOf(w))
  BY <1>4, <1>8, <1>10, <1>11, ApproveFires, RejectFires
<1> QED
  BY <1>5, <1>12

LEMMA RequestCancelMoves ==
  ASSUME NEW v, RowsOK(v), CanRequestCancel(v)
  PROVE  Moves(DimsOf(v), DimsOf(RequestCancel(v)))
<1> DEFINE a == Moved(v.attempts[v.active], "cancel_requested",
                      "cancel_requested")
<1>1. Exists(v) /\ v.current = v.active
  BY DEF CanRequestCancel, Exists, RowsOK
<1>2. /\ a \in Attempt /\ a.state = "cancel_requested"
      /\ a.op = "cancel_requested" /\ a.lease = v.attempts[v.active].lease
  <2>1. v.attempts[v.active] \in Attempt
    BY <1>1, RowsFacts
  <2>2. "cancel_requested" \in RUN_STATES /\ "cancel_requested" \in RUN_OPERATOR_STATES
    BY StateNames
  <2> QED
    BY <2>1, <2>2, MovedFields
<1> HIDE DEF a
<1>3. DimsOf(Put(v, v.active, "cancel_requested", "cancel_requested", a))
        = Dim("cancel_requested", "cancel_requested", v.active,
              "cancel_requested", "cancel_requested", v.attempts[v.active].lease)
  BY <1>1, <1>2, StateNames, DimsOfPut
<1>4. /\ DimsOf(v).run \in RUN_STATES /\ DimsOf(v).no = v.active
      /\ DimsOf(v).run \notin TERMINAL_RUN_STATES \cup {"cancel_requested"}
      /\ DimsOf(v).lease = v.attempts[v.active].lease
  BY <1>1, DimsOfRows, RowsFacts DEF CanRequestCancel
<1>5. Moves(DimsOf(v),
            DimsOf(Put(v, v.active, "cancel_requested", "cancel_requested", a)))
  BY <1>3, <1>4, CancelFires
<1> QED
  BY <1>1, <1>5 DEF RequestCancel, MoveBoth, a

LEMMA AdmitRetryMoves ==
  ASSUME NEW v, RowsOK(v), CanAdmitRetry(v), v.active < AttemptLimit
  PROVE  Moves(DimsOf(v), DimsOf(AdmitRetry(v)))
<1> DEFINE m == v.active + 1
           b == NewAttempt("queued", "admitted", TRUE, 0)
           w == Supersede(v, m, "queued", "admitted", b)
<1>1. Exists(v)
  BY DEF CanAdmitRetry, RETRYABLE_RUN_STATES, Exists
<1>2. v \in View
  BY <1>1, RowsFacts
<1>3. m \in AttemptNos
  BY <1>1, RowsFacts, Numbers, RowBounds DEF AttemptNos
<1>4. /\ b \in Attempt /\ b.state = "queued" /\ b.op = "admitted"
      /\ b.lease = "not_leased"
  <2>1. b \in Attempt
    BY StateNames, NewAttemptFields
  <2> QED
    BY <2>1 DEF NewAttempt
<1>5. AdmitRetry(v) = w
  BY DEF AdmitRetry
<1> HIDE DEF b, m
<1>6. /\ w \in View
      /\ w.state = "queued" /\ w.op = "admitted"
      /\ w.active = m /\ w.current = m /\ w.link = 0
      /\ w.attempts = [v.attempts EXCEPT ![m] = b]
      /\ w.gates = v.gates /\ w.holder = v.holder
  BY <1>2, <1>3, <1>4, StateNames, SupersedeFields
<1> HIDE DEF w
<1>7. DimsOf(w) = Dim("queued", "admitted", m, "queued", "admitted", "not_leased")
  BY <1>2, <1>3, <1>4, <1>6 DEF DimsOf, Dim, Exists, View
<1>8. DimsOf(v).run \in RETRYABLE_RUN_STATES /\ DimsOf(v).no = v.active
  BY <1>1, DimsOfRows DEF CanAdmitRetry
<1> QED
  BY <1>5, <1>7, <1>8, AdmitRetryFires DEF m

LEMMA PauseMoves ==
  ASSUME NEW v, RowsOK(v), CanPause(v)
  PROVE  Moves(DimsOf(v), DimsOf(Pause(v)))
<1> DEFINE c == v.attempts[v.active]
           a == [c EXCEPT !.op = "paused"]
<1>1. Exists(v) /\ v.current = v.active
  BY DEF CanPause, RowsOK
<1>2. /\ a \in Attempt /\ a.state = c.state /\ a.op = "paused"
      /\ a.lease = c.lease
  BY <1>1, RowsFacts, StateNames DEF Attempt
<1>3. Pause(v) = Put(v, v.active, v.state, "paused", a)
  BY <1>1 DEF Pause
<1> HIDE DEF a
<1>4. DimsOf(Pause(v))
        = Dim(v.state, "paused", v.active, c.state, "paused", c.lease)
  BY <1>1, <1>2, <1>3, RowsFacts, StateNames, DimsOfPut
<1>5. DimsOf(v) = Dim(v.state, v.op, v.active, c.state, c.op, c.lease)
  BY <1>1, DimsOfRows
<1> HIDE DEF c
<1>6. Pauses(DimsOf(v), DimsOf(Pause(v)))
  <2>1. DimsOf(Pause(v)) = WithOperator(DimsOf(v), "paused")
    BY <1>4, <1>5, DimWithOperator
  <2>2. DimsOf(v).run = v.state /\ DimsOf(v).op = v.op
    BY <1>5 DEF Dim
  <2>3. DimsOf(v) # Lifecycle!Absent
    BY <1>1, <2>2 DEF Exists, Lifecycle!Absent
  <2> QED
    BY <2>1, <2>2, <2>3 DEF Pauses, CanPause,
       TERMINAL_OPERATOR_STATES, Lifecycle!TERMINAL_OPERATOR_STATES
<1> QED
  BY <1>6 DEF Moves

LEMMA ResumeMoves ==
  ASSUME NEW v, RowsOK(v), CanResume(v)
  PROVE  Moves(DimsOf(v), DimsOf(Resume(v)))
<1> DEFINE c == v.attempts[v.active]
           o == RUN_TO_OPERATOR_RESUME_MAP[v.state]
           a == [c EXCEPT !.op = o]
<1>1. Exists(v)
  BY DEF CanResume, RowsOK, NoRun
<1>2. /\ v.current = v.active /\ v.state \in RUN_STATES /\ c \in Attempt
  BY <1>1, RowsFacts
<1>3. /\ o \in RUN_OPERATOR_STATES
      /\ o = Lifecycle!RUN_TO_OPERATOR_RESUME_MAP[v.state]
  BY <1>2 DEF RUN_TO_OPERATOR_RESUME_MAP, RUN_OPERATOR_STATES, RUN_STATES,
              Lifecycle!RUN_TO_OPERATOR_RESUME_MAP, Lifecycle!RUN_STATES
<1>4. Resume(v) = Put(v, v.active, v.state, o, a)
  BY <1>2 DEF Resume
<1> HIDE DEF o
<1>5. /\ a \in Attempt /\ a.state = c.state /\ a.op = o /\ a.lease = c.lease
  BY <1>2, <1>3 DEF Attempt
<1> HIDE DEF a
<1>6. DimsOf(Resume(v)) = Dim(v.state, o, v.active, c.state, o, c.lease)
  BY <1>1, <1>2, <1>3, <1>4, <1>5, DimsOfPut
<1>7. DimsOf(v) = Dim(v.state, v.op, v.active, c.state, c.op, c.lease)
  BY <1>1, DimsOfRows
<1> HIDE DEF c
<1>8. Resumes(DimsOf(v), DimsOf(Resume(v)))
  <2>1. DimsOf(Resume(v)) = WithOperator(DimsOf(v), o)
    BY <1>6, <1>7, DimWithOperator
  <2>2. DimsOf(v).run = v.state /\ DimsOf(v).op = v.op
    BY <1>7 DEF Dim
  <2> QED
    BY <1>3, <2>1, <2>2 DEF Resumes, CanResume
<1> QED
  BY <1>8 DEF Moves

LEMMA InterruptMoves ==
  ASSUME NEW v, RowsOK(v), CanInterrupt(v)
  PROVE  Moves(DimsOf(v), DimsOf(Interrupt(v)))
<1>1. Exists(v) /\ v.current = v.active /\ v.state \in RUN_STATES
  BY RowsFacts DEF CanInterrupt
<1>2. v.attempts[v.active].lease # "expired"
  BY <1>1, RowsFacts DEF CanInterrupt, Coherent, TERMINAL_OPERATOR_STATES
<1>3. DimsOf(Interrupt(v)) = Dim("cancel_requested", "interrupted", v.active,
                                 "cancel_requested", "interrupted", "released")
  BY <1>1, <1>2, StateNames, UnleasedPut DEF Interrupt
<1>4. /\ DimsOf(v).run \in RUN_STATES /\ DimsOf(v).no = v.active
      /\ DimsOf(v).op \notin TERMINAL_OPERATOR_STATES
  BY <1>1, DimsOfRows DEF CanInterrupt
<1> QED
  BY <1>3, <1>4, InterruptFires

LEMMA QuarantineMoves ==
  ASSUME NEW v, RowsOK(v), CanQuarantine(v)
  PROVE  Moves(DimsOf(v), DimsOf(Quarantine(v)))
<1>1. Exists(v) /\ v.current = v.active /\ v.state \in RUN_STATES
  BY RowsFacts DEF CanQuarantine
<1>2. v.attempts[v.active].lease # "expired"
  BY <1>1, RowsFacts DEF CanQuarantine, Coherent
<1>3. DimsOf(Quarantine(v)) = Dim("dead_lettered", "quarantined", v.active,
                                  "dead_lettered", "quarantined", "released")
  BY <1>1, <1>2, StateNames, UnleasedPut DEF Quarantine
<1>4. /\ DimsOf(v).run \in RUN_STATES /\ DimsOf(v).no = v.active
      /\ DimsOf(v).op # "quarantined"
  BY <1>1, DimsOfRows DEF CanQuarantine
<1> QED
  BY <1>3, <1>4, QuarantineFires

LEMMA ReconcileExpires ==
  ASSUME NEW v, RowsOK(v), NEW n \in AttemptNos, CanReconcile(v, n)
  PROVE  /\ Lifecycle!Guarded("expire_lease", DimsOf(v))
         /\ DimsOf(Reconcile(v, n))
              = Lifecycle!AfterTrigger("expire_lease", "quarantined", DimsOf(v))
<1> DEFINE a == Revoked(Moved(v.attempts[n], "timed_out", "interrupted"),
                        "expired")
<1>1. Exists(v) /\ n = v.active /\ v.attempts[n].lease = "leased"
  BY LiveIsCurrent DEF CanReconcile, LeaseExpired
<1>2. /\ a \in Attempt /\ a.state = "timed_out" /\ a.op = "interrupted"
      /\ a.lease = "expired"
  BY <1>1, RowsFacts, StateNames, RevokedFields
<1>3. Reconcile(v, n) = Put(v, v.active, "timed_out", "quarantined", a)
  BY <1>1 DEF Reconcile
<1> HIDE DEF a
<1>4. DimsOf(Reconcile(v, n)) = Dim("timed_out", "quarantined", v.active,
                                    "timed_out", "interrupted", "expired")
  BY <1>1, <1>2, <1>3, StateNames, DimsOfPut
<1>5. DimsOf(v).lease = "leased" /\ DimsOf(v).no = v.active
  BY <1>1, DimsOfRows
<1> QED
  BY <1>4, <1>5, ExpireFires

\* The time flags of an attempt are not among the dimensions.
LEMMA FlagsAreInvisible ==
  ASSUME NEW v \in View, NEW n \in AttemptNos,
         NEW due \in BOOLEAN, NEW overdue \in BOOLEAN,
         v.current \in AttemptNos \/ ~Exists(v)
  PROVE  DimsOf(Wrote(v, n, [v.attempts[n] EXCEPT !.due = due,
                                                  !.overdue = overdue]))
           = DimsOf(v)
<1> DEFINE b == [v.attempts[n] EXCEPT !.due = due, !.overdue = overdue]
           w == Wrote(v, n, b)
<1>1. v.attempts \in [AttemptNos -> Attempt]
  BY DEF View
<1>0. v.attempts[n] \in Attempt
  BY <1>1
<1>2. /\ b \in Attempt /\ b.state = v.attempts[n].state
      /\ b.op = v.attempts[n].op /\ b.lease = v.attempts[n].lease
  BY <1>0 DEF Attempt
<1> HIDE DEF b
<1>3. /\ w \in View
      /\ w.state = v.state /\ w.op = v.op
      /\ w.active = v.active /\ w.current = v.current /\ w.link = v.link
      /\ w.attempts = [v.attempts EXCEPT ![n] = b]
      /\ w.gates = v.gates /\ w.holder = v.holder
  BY <1>2, WroteFields
<1> HIDE DEF w
<1>4. DimsOf(w) = DimsOf(v)
  BY <1>1, <1>2, <1>3 DEF DimsOf, Exists
<1> QED
  BY <1>4 DEF w, b

-----------------------------------------------------------------------------
(* The steps of the service.                                               *)

LEMMA StepMoves ==
  ASSUME Authoritative, RowsInv, [Next]_db
  PROVE  LifecycleMoves
<1> USE DEF RowsInv
<1>0. \A r \in Runs : /\ RowsOK(db[r]) /\ db[r] \in View
                      /\ db[r].current \in AttemptNos \/ ~Exists(db[r])
  BY DEF RowsOK
<1>1. ASSUME NEW r \in Runs,
             AdmitCreate(r) \/ \E source \in Runs : RestartFromScratch(source, r)
      PROVE  LifecycleMoves
  <2>1. db[r] = NoRun /\ Update(r, AdmittedRun)
    BY <1>0, <1>1 DEF AdmitCreate, RestartFromScratch, RowsOK
  <2> QED
    BY <2>1, CreateMoves, OneRunMoves
<1>2. ASSUME NEW r \in Runs, WorkerStep(r)
      PROVE  LifecycleMoves
  <2> DEFINE v == db[r]
  <2>0. RowsOK(v)
    BY <1>0
  <2> PICK t \in Tokens :
         \/ \E n \in AttemptNos : ClaimNextAttempt(r, n, t) \/ ClaimAttempt(r, n, t)
         \/ /\ t \in Drawn(v)
            /\ LET n == v.holder[t] IN
                 \/ MarkAttemptExecuting(r, n, t)
                 \/ RecordAttemptFailure(r, n, t)
                 \/ CompleteAttemptSuccess(r, n, t)
                 \/ RenewAttemptLease(r, n, t)
    BY <1>2 DEF WorkerStep
  <2>1. ASSUME NEW n \in AttemptNos,
               ClaimNextAttempt(r, n, t) \/ ClaimAttempt(r, n, t)
        PROVE  LifecycleMoves
    BY <2>0, <2>1, ClaimMoves, OneRunMoves DEF ClaimNextAttempt, ClaimAttempt
  <2>2. ASSUME NEW n \in AttemptNos,
               \/ MarkAttemptExecuting(r, n, t)
               \/ RecordAttemptFailure(r, n, t)
               \/ CompleteAttemptSuccess(r, n, t)
               \/ RenewAttemptLease(r, n, t)
        PROVE  LifecycleMoves
    <3>1. CASE MarkAttemptExecuting(r, n, t)
      BY <2>0, <3>1, MarkExecutingMoves, OneRunMoves DEF MarkAttemptExecuting
    <3>2. CASE RecordAttemptFailure(r, n, t)
      BY <2>0, <3>2, RecordFailureMoves, OneRunMoves DEF RecordAttemptFailure
    <3>3. CASE CompleteAttemptSuccess(r, n, t)
      BY <2>0, <3>3, CompleteMoves, OneRunMoves DEF CompleteAttemptSuccess
    <3>4. CASE RenewAttemptLease(r, n, t)
      <4> DEFINE w == Wrote(v, n, [v.attempts[n] EXCEPT !.due = @,
                                                        !.overdue = FALSE])
      <4>1. v \in View /\ v.attempts[n] \in Attempt
        BY <1>0 DEF View
      <4>2. v.attempts[n].due \in BOOLEAN
        BY <4>1 DEF Attempt
      <4>3. DimsOf(w) = DimsOf(v)
        BY <1>0, <4>1, <4>2, FlagsAreInvisible
      <4>4. RenewLease(v, n) = w
        BY <4>1 DEF RenewLease, Wrote, View, Attempt
      <4>5. Update(r, w)
        BY <3>4, <4>4 DEF RenewAttemptLease
      <4> QED
        BY <4>3, <4>5, OneRunMoves DEF Moves
    <3> QED
      BY <2>2, <3>1, <3>2, <3>3, <3>4
  <2>3. t \in Drawn(v) => v.holder[t] \in AttemptNos
    BY <1>0 DEF Drawn, View
  <2> QED
    BY <2>1, <2>2, <2>3
<1>3. ASSUME NEW r \in Runs, ApprovalStep(r)
      PROVE  LifecycleMoves
  <2>1. ASSUME NEW l \in LinkIds, NEW n \in AttemptNos, OpenApprovalGate(r, n, l)
        PROVE  LifecycleMoves
    BY <1>0, <2>1, OpenApprovalMoves, OneRunMoves DEF OpenApprovalGate
  <2>2. ASSUME NEW l \in LinkIds, DecideApproval(r, l)
        PROVE  LifecycleMoves
    BY <1>0, <2>2, DecideMoves, OneRunMoves DEF DecideApproval
  <2> QED
    BY <1>3, <2>1, <2>2 DEF ApprovalStep
<1>4. ASSUME NEW r \in Runs, OperatorStep(r)
      PROVE  LifecycleMoves
  <2>1. CASE RequestCancelRun(r)
    BY <1>0, <2>1, RequestCancelMoves, OneRunMoves DEF RequestCancelRun
  <2>2. CASE AdmitRetryRun(r)
    BY <1>0, <2>2, AdmitRetryMoves, OneRunMoves DEF AdmitRetryRun
  <2>3. CASE PauseRun(r)
    BY <1>0, <2>3, PauseMoves, OneRunMoves DEF PauseRun
  <2>4. CASE ResumeRun(r)
    BY <1>0, <2>4, ResumeMoves, OneRunMoves DEF ResumeRun
  <2>5. CASE InterruptRun(r)
    BY <1>0, <2>5, InterruptMoves, OneRunMoves DEF InterruptRun
  <2>6. CASE QuarantineRun(r)
    BY <1>0, <2>6, QuarantineMoves, OneRunMoves DEF QuarantineRun
  <2> QED
    BY <1>4, <2>1, <2>2, <2>3, <2>4, <2>5, <2>6 DEF OperatorStep
<1>5. ASSUME NEW r \in Runs, ClockStep(r)
      PROVE  LifecycleMoves
  <2> DEFINE v == db[r]
  <2>1. PICK n \in AttemptNos : BackoffElapses(r, n) \/ LeaseRunsOut(r, n)
    BY <1>5 DEF ClockStep
  <2>2. v \in View /\ v.attempts[n] \in Attempt
    BY <1>0 DEF View
  <2>3. v.attempts[n].due \in BOOLEAN /\ v.attempts[n].overdue \in BOOLEAN
    BY <2>2 DEF Attempt
  <2>4. CASE BackoffElapses(r, n)
    <3> DEFINE w == Wrote(v, n, [v.attempts[n] EXCEPT !.due = TRUE,
                                                      !.overdue = @])
    <3>1. DimsOf(w) = DimsOf(v)
      BY <1>0, <2>3, FlagsAreInvisible
    <3>2. Update(r, w)
      BY <2>2, <2>4 DEF BackoffElapses, Update, Wrote, TypeOK, View, Attempt
    <3> QED
      BY <3>1, <3>2, OneRunMoves DEF Moves
  <2>5. CASE LeaseRunsOut(r, n)
    <3> DEFINE w == Wrote(v, n, [v.attempts[n] EXCEPT !.due = @,
                                                      !.overdue = TRUE])
    <3>1. DimsOf(w) = DimsOf(v)
      BY <1>0, <2>3, FlagsAreInvisible
    <3>2. Update(r, w)
      BY <2>2, <2>5 DEF LeaseRunsOut, Update, Wrote, TypeOK, View, Attempt
    <3> QED
      BY <3>1, <3>2, OneRunMoves DEF Moves
  <2> QED
    BY <2>1, <2>4, <2>5
<1>6. CASE ReconcileExpiredLeases
  <2> PICK pick \in [Runs -> AttemptNos] :
         db' = [r \in Runs |-> IF CanReconcile(db[r], pick[r])
                               THEN Reconcile(db[r], pick[r]) ELSE db[r]]
    BY <1>6 DEF ReconcileExpiredLeases
  <2> DEFINE expired == {r \in Runs : CanReconcile(db[r], pick[r])}
  <2>1. \A r \in expired :
          /\ Lifecycle!Guarded("expire_lease", AllDims[r])
          /\ AllDims'[r] = Lifecycle!AfterTrigger("expire_lease", "quarantined",
                                                  AllDims[r])
    <3> SUFFICES ASSUME NEW r \in expired
                 PROVE  /\ Lifecycle!Guarded("expire_lease", AllDims[r])
                        /\ AllDims'[r] = Lifecycle!AfterTrigger("expire_lease",
                                           "quarantined", AllDims[r])
      OBVIOUS
    <3>1. db'[r] = Reconcile(db[r], pick[r])
      OBVIOUS
    <3>2. AllDims[r] = DimsOf(db[r]) /\ AllDims'[r] = DimsOf(db'[r])
      BY DEF AllDims
    <3> QED
      BY <1>0, <3>1, <3>2, ReconcileExpires
  <2>2. \A r \in Runs \ expired : AllDims'[r] = AllDims[r]
    BY DEF AllDims
  <2>3. AllDims' = [r \in Runs |->
                      IF r \in expired
                      THEN Lifecycle!AfterTrigger("expire_lease", "quarantined",
                                                  AllDims[r])
                      ELSE AllDims[r]]
    BY <2>1, <2>2 DEF AllDims
  <2>4. expired \in SUBSET Runs
    OBVIOUS
  <2> HIDE DEF expired
  <2>5. Lifecycle!ExpireLeases
    BY <2>1, <2>3, <2>4 DEF AllDims, Lifecycle!ExpireLeases
  <2> QED
    BY <2>5 DEF LifecycleMoves, Lifecycle!LifecycleNext
<1>7. CASE UNCHANGED db
  BY <1>7 DEF LifecycleMoves, AllDims
<1> QED
  BY <1>1, <1>2, <1>3, <1>4, <1>5, <1>6, <1>7 DEF Next

\* Every operation of the service, with any number of runs, attempts, claims and
\* gates, is what the tables of state_machine.py declare: the fourteen handlers
\* and the tables, written apart, say the same.
THEOREM ServiceImplementsTables ==
  ASSUME Authoritative PROVE Spec => ImplementsLifecycle
<1>1. Init => Lifecycle!LifecycleInit
  BY DEF Init, Lifecycle!LifecycleInit, Lifecycle!Absent, DimsOf, NoRun, NoAttempt,
         Exists
<1>2. RowsInv /\ [Next]_db => [Lifecycle!LifecycleNext]_AllDims
  BY StepMoves DEF LifecycleMoves
<1> QED
  BY <1>1, <1>2, Invariance, PTL
     DEF Spec, ImplementsLifecycle, Lifecycle!LifecycleSpec, AllDims
================================================================================
