---------------------- MODULE BackgroundResponses_proofs ----------------------
(***************************************************************************)
(* Theorems about BackgroundResponses for every number of runs, workers    *)
(* and attempts: worker cycles, the API and the operators together do to   *)
(* the execution rows only what the execution service does, no attempt is  *)
(* dispatched to a provider twice, and a failure the API reports is one    *)
(* the tables record.  With one worker process, a run that has succeeded   *)
(* has its answer stored, and an answer that is stored is not taken back.  *)
(* All of this holds whichever copy of the rules is in charge, because the *)
(* runs of background responses wait on no approval.                       *)
(***************************************************************************)
EXTENDS BackgroundResponses, ExecutionTransitions_proofs

-----------------------------------------------------------------------------
(* A worker's cycle.                                                       *)

\* A worker that is not idle has a claim of the right shape.
LEMMA BusyCycle ==
  ASSUME ResponsesTypeOK, NEW w \in Workers, ~At(w, "idle")
  PROVE  worker[w] \in Cycle
BY DEF ResponsesTypeOK, At, Idle

\* A token found on an attempt is one that was drawn for it.
LEMMA TokenIsDrawn ==
  ASSUME NEW v, RowsOK(v), NEW n \in AttemptNos, NEW t \in Tokens,
         v.attempts[n].token = t
  PROVE  t \in Drawn(v) /\ v.holder[t] = n
<1>1. t # 0 /\ n # 0
  BY Numbers
<1>2. LeasesFound(v)
  BY RowsImplyLeases
<1> QED
  BY <1>1, <1>2 DEF LeasesFound, Drawn

-----------------------------------------------------------------------------
(* Refinement.                                                             *)

\* A worker call with the claim of its cycle is a worker step of the service.
LEMMA CycleCall ==
  ASSUME RowsInv, NEW r \in Runs, NEW n \in AttemptNos, NEW t \in Tokens,
         db[r].attempts[n].token = t,
         \/ MarkAttemptExecuting(r, n, t)
         \/ RecordAttemptFailure(r, n, t)
         \/ CompleteAttemptSuccess(r, n, t)
  PROVE  WorkerStep(r)
<1>1. t \in Drawn(db[r]) /\ db[r].holder[t] = n
  BY TokenIsDrawn DEF RowsInv
<1> QED
  BY <1>1 DEF WorkerStep

LEMMA StepRefines ==
  ASSUME RowsInv, ResponsesTypeOK, [ResponsesNext]_vars
  PROVE  [UndecidedNext]_db
<1>1. ASSUME NEW r \in Runs, AdmitBackgroundRun(r)
      PROVE  UndecidedNext
  BY <1>1 DEF AdmitBackgroundRun, UndecidedNext
<1>2. ASSUME NEW r \in Runs, Operate(r)
      PROVE  UndecidedNext
  BY <1>2 DEF Operate, UndecidedNext
<1>3. ASSUME NEW r \in Runs, TimePasses(r)
      PROVE  UndecidedNext
  BY <1>3 DEF TimePasses, UndecidedNext
<1>4. ASSUME NEW r \in Runs, NEW w \in Workers, NEW n \in AttemptNos,
             NEW t \in Tokens, ClaimWork(w, r, n, t)
      PROVE  UndecidedNext
  BY <1>4 DEF ClaimWork, WorkerStep, UndecidedNext
<1>5. ASSUME NEW w \in Workers, MarkExecutingStep(w)
      PROVE  [UndecidedNext]_db
  <2> DEFINE c == worker[w]
  <2>1. c.run \in Runs /\ c.attempt \in AttemptNos /\ c.token \in Tokens
    BY <1>5, BusyCycle DEF MarkExecutingStep, At, Cycle
  <2>2. CASE CanMarkExecuting(db[c.run], c.attempt, c.token)
    <3>1. MarkAttemptExecuting(c.run, c.attempt, c.token)
      BY <1>5, <2>2 DEF MarkExecutingStep, MarkAttemptExecuting
    <3>2. WorkerStep(c.run)
      BY <2>1, <2>2, <3>1, CycleCall DEF CanMarkExecuting
    <3> QED
      BY <2>1, <3>2 DEF UndecidedNext
  <2>3. CASE ~CanMarkExecuting(db[c.run], c.attempt, c.token)
    BY <1>5, <2>3 DEF MarkExecutingStep
  <2> QED
    BY <2>2, <2>3
<1>6. ASSUME NEW w \in Workers, CompleteStep(w)
      PROVE  [UndecidedNext]_db
  <2> DEFINE c == worker[w]
  <2>1. c.run \in Runs /\ c.attempt \in AttemptNos /\ c.token \in Tokens
    BY <1>6, BusyCycle DEF CompleteStep, At, Cycle
  <2>2. CASE CanComplete(db[c.run], c.attempt, c.token)
    <3>1. CompleteAttemptSuccess(c.run, c.attempt, c.token)
      BY <1>6, <2>2 DEF CompleteStep
    <3>2. WorkerStep(c.run)
      BY <2>1, <2>2, <3>1, CycleCall DEF CanComplete
    <3> QED
      BY <2>1, <3>2 DEF UndecidedNext
  <2>3. CASE ~CanComplete(db[c.run], c.attempt, c.token)
    BY <1>6, <2>3 DEF CompleteStep
  <2> QED
    BY <2>2, <2>3
<1>7. ASSUME NEW w \in Workers, RecordFailureStep(w)
      PROVE  [UndecidedNext]_db
  <2> DEFINE c == worker[w]
  <2>1. /\ c.run \in Runs /\ c.attempt \in AttemptNos /\ c.token \in Tokens
        /\ c.retry \in BOOLEAN
    BY <1>7, BusyCycle DEF RecordFailureStep, At, Cycle
  <2>2. CASE CanRecordFailure(db[c.run], c.attempt, c.token)
    <3>1. RecordAttemptFailure(c.run, c.attempt, c.token)
      BY <1>7, <2>1, <2>2 DEF RecordFailureStep, RecordAttemptFailure
    <3>2. WorkerStep(c.run)
      BY <2>1, <2>2, <3>1, CycleCall DEF CanRecordFailure
    <3> QED
      BY <2>1, <3>2 DEF UndecidedNext
  <2>3. CASE ~CanRecordFailure(db[c.run], c.attempt, c.token)
    BY <1>7, <2>3 DEF RecordFailureStep
  <2> QED
    BY <2>2, <2>3
<1>8. CASE ReconcileRuns
  BY <1>8 DEF ReconcileRuns, UndecidedNext
<1>9. ASSUME NEW r \in Runs, SaveQueuedResponse(r)
      PROVE  UNCHANGED db
  BY <1>9 DEF SaveQueuedResponse
<1>10. ASSUME NEW w \in Workers,
              \/ LoadPayload(w) \/ SaveInProgress(w) \/ Dispatch(w)
              \/ SaveCompleted(w) \/ ReportFailure(w) \/ Crash(w) \/ Raise(w)
       PROVE  UNCHANGED db
  BY <1>10 DEF LoadPayload, SaveInProgress, Dispatch, SaveCompleted,
               ReportFailure, Crash, Raise
<1>11. CASE UNCHANGED vars
  BY <1>11 DEF vars
<1> QED
  BY <1>1, <1>2, <1>3, <1>4, <1>5, <1>6, <1>7, <1>8, <1>9, <1>10, <1>11
  DEF ResponsesNext, CycleStep

-----------------------------------------------------------------------------
(* Types.                                                                  *)

LEMMA TypeInit == ResponsesInit => RowsInv /\ ResponsesTypeOK
BY InitOK DEF ResponsesInit, ResponsesTypeOK, RowsInv, ResponseStatuses

LEMMA SnapshotType ==
  ASSUME ResponsesTypeOK, NEW r \in Runs, NEW n \in AttemptNos \cup {0},
         NEW status \in ResponseStatuses, Snapshot(r, status, n)
  PROVE  response' \in [Runs -> [status : ResponseStatuses,
                                 attempt : AttemptNos \cup {0}]]
BY DEF ResponsesTypeOK, Snapshot

\* What a step of worker w does to the state of the cycles.
LEMMA WorkerType ==
  ASSUME ResponsesTypeOK, NEW w \in Workers,
         \/ Stop(w)
         \/ \E c \in Cycle : worker' = [worker EXCEPT ![w] = c]
         \/ UNCHANGED worker
  PROVE  worker' \in [Workers -> Cycle \cup {Idle}]
BY DEF ResponsesTypeOK, Stop

LEMMA GotoType ==
  ASSUME ResponsesTypeOK, NEW w \in Workers, ~At(w, "idle"),
         NEW pc \in InTry \cup {"failing", "reporting"}, Goto(w, pc)
  PROVE  \E c \in Cycle : worker' = [worker EXCEPT ![w] = c]
<1> DEFINE c == [worker[w] EXCEPT !.pc = pc]
<1>1. c \in Cycle
  BY BusyCycle DEF Cycle
<1>2. worker' = [worker EXCEPT ![w] = c]
  BY DEF Goto, ResponsesTypeOK
<1> QED
  BY <1>1, <1>2

LEMMA FailType ==
  ASSUME ResponsesTypeOK, NEW w \in Workers, ~At(w, "idle"),
         NEW retry \in BOOLEAN, Fail(w, retry)
  PROVE  \E c \in Cycle : worker' = [worker EXCEPT ![w] = c]
<1> DEFINE c == [worker[w] EXCEPT !.pc = "failing", !.retry = retry]
<1>1. c \in Cycle
  BY BusyCycle DEF Cycle
<1>2. worker' = [worker EXCEPT ![w] = c]
  BY DEF Fail, ResponsesTypeOK
<1> QED
  BY <1>1, <1>2

LEMMA TypeStep ==
  ASSUME RowsInv, ResponsesTypeOK, [ResponsesNext]_vars
  PROVE  RowsInv' /\ ResponsesTypeOK'
<1> DEFINE Responses == [Runs -> [status : ResponseStatuses,
                                  attempt : AttemptNos \cup {0}]]
           Cycles == [Workers -> Cycle \cup {Idle}]
           Calls == [Runs -> [AttemptNos -> Nat]]
<1>1. RowsInv'
  BY StepRefines, UndecidedStepOK DEF StepsOK
<1> SUFFICES response' \in Responses /\ worker' \in Cycles /\ calls' \in Calls
  BY <1>1 DEF RowsInv, ResponsesTypeOK
<1> USE DEF ResponsesTypeOK
<1>2. ASSUME NEW r \in Runs, AdmitBackgroundRun(r) \/ SaveQueuedResponse(r)
      PROVE  response' \in Responses /\ worker' \in Cycles /\ calls' \in Calls
  <2>1. 1 \in AttemptNos
    BY RowBounds DEF AttemptNos
  <2> QED
    BY <1>2, <2>1, SnapshotType
    DEF AdmitBackgroundRun, SaveQueuedResponse, ResponseStatuses
<1>3. ASSUME NEW r \in Runs, Operate(r) \/ TimePasses(r)
      PROVE  response' \in Responses /\ worker' \in Cycles /\ calls' \in Calls
  BY <1>3 DEF Operate, TimePasses
<1>4. ASSUME NEW r \in Runs, NEW w \in Workers, NEW n \in AttemptNos,
             NEW t \in Tokens, ClaimWork(w, r, n, t)
      PROVE  response' \in Responses /\ worker' \in Cycles /\ calls' \in Calls
  <2> DEFINE c == [pc |-> "claimed", run |-> r, attempt |-> n, token |-> t,
                   payload |-> FALSE, retry |-> FALSE, next |-> 0]
  <2>1. c \in Cycle
    BY DEF Cycle, InTry
  <2>2. \E d \in Cycle : worker' = [worker EXCEPT ![w] = d]
    BY <1>4, <2>1 DEF ClaimWork
  <2> QED
    BY <1>4, <2>2, WorkerType DEF ClaimWork
<1>5. ASSUME NEW w \in Workers, LoadPayload(w)
      PROVE  response' \in Responses /\ worker' \in Cycles /\ calls' \in Calls
  <2> DEFINE c == [worker[w] EXCEPT !.pc = "loaded", !.payload = TRUE]
  <2>1. ~At(w, "idle")
    BY <1>5 DEF LoadPayload, At
  <2>2. c \in Cycle
    BY <2>1, BusyCycle DEF Cycle, InTry
  <2>3. Fail(w, FALSE) \/ worker' = [worker EXCEPT ![w] = c]
    BY <1>5 DEF LoadPayload
  <2> QED
    BY <1>5, <2>1, <2>2, <2>3, FailType, WorkerType DEF LoadPayload
<1>6. ASSUME NEW w \in Workers, MarkExecutingStep(w) \/ CompleteStep(w)
      PROVE  response' \in Responses /\ worker' \in Cycles /\ calls' \in Calls
  <2>1. ~At(w, "idle")
    BY <1>6 DEF MarkExecutingStep, CompleteStep, At
  <2>2. Goto(w, "marked") \/ Stop(w) \/ Fail(w, FALSE)
    BY <1>6 DEF MarkExecutingStep, CompleteStep
  <2> QED
    BY <1>6, <2>1, <2>2, GotoType, FailType, WorkerType
    DEF MarkExecutingStep, CompleteStep, InTry
<1>7. ASSUME NEW w \in Workers, SaveInProgress(w) \/ SaveCompleted(w)
      PROVE  response' \in Responses /\ worker' \in Cycles /\ calls' \in Calls
  <2>1. ~At(w, "idle")
    BY <1>7 DEF SaveInProgress, SaveCompleted, At
  <2>2. worker[w].run \in Runs /\ worker[w].attempt \in AttemptNos
    BY <2>1, BusyCycle DEF Cycle
  <2>3. response' \in Responses
    BY <1>7, <2>2, SnapshotType
    DEF SaveInProgress, SaveCompleted, ResponseStatuses
  <2>4. Goto(w, "saved") \/ Goto(w, "delivered")
    BY <1>7 DEF SaveInProgress, SaveCompleted
  <2> QED
    BY <1>7, <2>1, <2>3, <2>4, GotoType, WorkerType
    DEF SaveInProgress, SaveCompleted, InTry
<1>8. ASSUME NEW w \in Workers, Dispatch(w)
      PROVE  response' \in Responses /\ worker' \in Cycles /\ calls' \in Calls
  <2>1. ~At(w, "idle")
    BY <1>8 DEF Dispatch, At
  <2>2. worker[w].run \in Runs /\ worker[w].attempt \in AttemptNos
    BY <2>1, BusyCycle DEF Cycle
  <2>3. calls' \in Calls
    BY <1>8, <2>2 DEF Dispatch
  <2>4. Goto(w, "answered") \/ \E retry \in BOOLEAN : Fail(w, retry)
    BY <1>8 DEF Dispatch
  <2> QED
    BY <1>8, <2>1, <2>3, <2>4, GotoType, FailType, WorkerType DEF Dispatch, InTry
<1>9. ASSUME NEW w \in Workers, RecordFailureStep(w)
      PROVE  response' \in Responses /\ worker' \in Cycles /\ calls' \in Calls
  <2> DEFINE c == worker[w]
             v == RecordFailure(db[c.run], c.attempt, c.retry)
  <2>1. c \in Cycle /\ c.run \in Runs
    BY <1>9, BusyCycle DEF RecordFailureStep, At, Cycle
  <2>2. \/ Stop(w)
        \/ Update(c.run, v) /\ worker' = [worker EXCEPT ![w] = Reporting(c, v)]
    BY <1>9 DEF RecordFailureStep
  <2>3. ASSUME Update(c.run, v)
        PROVE  Reporting(c, v) \in Cycle
    <3>1. v \in View
      BY <1>1, <2>1, <2>3 DEF Update, RowsInv, TypeOK
    <3>2. v.active \in AttemptNos \cup {0}
      BY <3>1 DEF View
    <3> HIDE DEF v, c
    <3>3. (IF v.active > c.attempt THEN v.active ELSE 0) \in AttemptNos \cup {0}
      BY <3>2
    <3> QED
      BY <2>1, <3>3 DEF Reporting, Cycle
  <2> HIDE DEF c, v
  <2>4. worker' \in Cycles
    BY <2>2, <2>3, WorkerType
  <2> QED
    BY <1>9, <2>4 DEF RecordFailureStep
<1>10. ASSUME NEW w \in Workers, ReportFailure(w)
       PROVE  response' \in Responses /\ worker' \in Cycles /\ calls' \in Calls
  <2>1. worker[w] \in Cycle
    BY <1>10, BusyCycle DEF ReportFailure, At
  <2>2. /\ worker[w].run \in Runs
        /\ {worker[w].next, worker[w].attempt} \subseteq AttemptNos \cup {0}
    BY <2>1 DEF Cycle
  <2>3. response' \in Responses
    BY <1>10, <2>2, SnapshotType DEF ReportFailure, ResponseStatuses
  <2> QED
    BY <1>10, <2>3, WorkerType DEF ReportFailure
<1>11. ASSUME NEW w \in Workers, Crash(w) \/ Raise(w)
       PROVE  response' \in Responses /\ worker' \in Cycles /\ calls' \in Calls
  <2>1. Stop(w) \/ (~At(w, "idle") /\ Fail(w, FALSE))
    BY <1>11 DEF Crash, Raise, At, InTry
  <2> QED
    BY <1>11, <2>1, FailType, WorkerType DEF Crash, Raise
<1>12. CASE ReconcileRuns \/ UNCHANGED vars
  BY <1>12 DEF ReconcileRuns, vars
<1> QED
  BY <1>2, <1>3, <1>4, <1>5, <1>6, <1>7, <1>8, <1>9, <1>10, <1>11, <1>12
  DEF ResponsesNext, CycleStep

LEMMA ResponsesInvariance == ResponsesSpec => [](RowsInv /\ ResponsesTypeOK)
<1>1. RowsInv /\ ResponsesTypeOK /\ [ResponsesNext]_vars
        => (RowsInv /\ ResponsesTypeOK)'
  BY TypeStep
<1> QED
  BY <1>1, TypeInit, PTL DEF ResponsesSpec

\* The rows of runs, responses, worker cycles and call counts keep their types.
THEOREM ResponsesTypeCorrect == ResponsesSpec => []ResponsesTypeOK
BY ResponsesInvariance, PTL

\* Whatever the API, any number of workers and the operators do in whatever
\* interleaving, the execution rows only ever see operations of the execution
\* service, so that every theorem about it holds of them.
THEOREM CyclesRefineExecution == ResponsesSpec => ImplementsExecution
<1>1. ResponsesInit => Init
  BY DEF ResponsesInit
<1>2. RowsInv /\ ResponsesTypeOK /\ [ResponsesNext]_vars => [Next]_db
  BY StepRefines, NextDecides
<1> QED
  BY <1>1, <1>2, ResponsesInvariance, PTL DEF ResponsesSpec, ImplementsExecution, Spec

\* No background run opens a gate, so that no decision can come late: whichever
\* copy of the rules is in charge, only the newest attempt of a background run is
\* live, its run row mirrors it, and a superseded attempt is never written again.
THEOREM BackgroundRunsStayInOrder ==
  ResponsesSpec => []OneLiveAttempt /\ []RunMirrorsAttempt /\ HistoryIsFrozen
<1>1. RowsInv => OneLiveAttempt /\ RunMirrorsAttempt
  BY RowsImplySuperseded, RowsImplyAgreement
  DEF RowsInv, OneLiveAttempt, RunMirrorsAttempt
<1>2. RowsInv /\ ResponsesTypeOK /\ [ResponsesNext]_vars =>
        [\A r \in Runs : SupersededFrozen(db[r], db'[r])]_db
  BY StepRefines, UndecidedStepOK DEF StepsOK
<1> QED
  BY <1>1, <1>2, ResponsesInvariance, PTL DEF ResponsesSpec, HistoryIsFrozen

-----------------------------------------------------------------------------
(* An attempt that has begun executing is never claimable again, and one   *)
(* that is dead-lettered stays so.                                         *)

Begun == RUN_STATES \ {"queued", "retry_backoff", "dispatching"}

LEMMA BegunStates ==
  /\ {"executing", "succeeded", "cancel_requested", "timed_out", "failed",
      "dead_lettered"} \subseteq Begun
  /\ "absent" \notin Begun
BY DEF Begun, RUN_STATES

\* The attempt an operation finishes with has begun.
LEMMA UnleasedBegun ==
  ASSUME NEW a \in Attempt, NEW state \in Begun, NEW op \in RUN_OPERATOR_STATES
  PROVE  /\ Unleased(Moved(a, state, op)).state = state
         /\ Unleased(Moved(a, state, op)).state \in Begun
         /\ Revoked(Moved(a, state, op), "expired").state \in Begun
<1>1. state \in RUN_STATES
  BY DEF Begun
<1> QED
  BY <1>1, UnleasedFields, RevokedFields

\* What a step may make of the state of an attempt.
Ages(s, t) == /\ s \in Begun => t \in Begun
              /\ s = "dead_lettered" => t = "dead_lettered"
              /\ t = "absent" => s = "absent"

StaysBegun(v, w) ==
  \A n \in AttemptNos : Ages(v.attempts[n].state, w.attempts[n].state)

LEMMA WriteStaysBegun ==
  ASSUME NEW v \in View, NEW w, NEW n, NEW a,
         w.attempts = [v.attempts EXCEPT ![n] = a],
         n \in AttemptNos => Ages(v.attempts[n].state, a.state)
  PROVE  StaysBegun(v, w)
BY DEF View, StaysBegun, Ages

LEMMA PutStaysBegun ==
  ASSUME NEW v \in View, NEW n, NEW state, NEW op, NEW a,
         n \in AttemptNos => Ages(v.attempts[n].state, a.state)
  PROVE  StaysBegun(v, Put(v, n, state, op, a))
<1>1. Put(v, n, state, op, a).attempts = [v.attempts EXCEPT ![n] = a]
  BY DEF Put, View
<1> QED
  BY <1>1, WriteStaysBegun

\* A number that follows the current attempt's has not been used.
LEMMA NextIsBlank ==
  ASSUME NEW v, RowsOK(v), Exists(v), v.active + 1 \in AttemptNos
  PROVE  v.attempts[v.active + 1] = NoAttempt
<1>1. v.active \in AttemptNos
  BY RowsFacts
<1>2. v.active + 1 > v.active
  <2>1. v.active \in Nat
    BY <1>1, Numbers
  <2> QED
    BY <2>1
<1> QED
  BY <1>2 DEF RowsOK, PastOK

LEMMA SupersedeStaysBegun ==
  ASSUME NEW v, RowsOK(v), Exists(v), NEW u \in View,
         StaysBegun(v, u), u.attempts[v.active + 1] = v.attempts[v.active + 1],
         NEW state, NEW op, NEW a
  PROVE  StaysBegun(v, Supersede(u, v.active + 1, state, op, a))
<1> DEFINE m == v.active + 1
           w == Supersede(u, m, state, op, a)
<1>1. m \in AttemptNos => v.attempts[m].state = "absent"
  BY NextIsBlank DEF NoAttempt
<1> HIDE DEF m
<1>2. w.attempts = [u.attempts EXCEPT ![m] = a]
  BY DEF Supersede, View
<1> HIDE DEF w
<1>3. \A n \in AttemptNos : n # m => w.attempts[n] = u.attempts[n]
  BY <1>2 DEF View
<1>4. StaysBegun(v, w)
  BY <1>1, <1>3, BegunStates DEF StaysBegun, Ages
<1> QED
  BY <1>4 DEF w, m

\* The operations that occur on the runs of background responses.
LEMMA RetryStaysBegun ==
  ASSUME NEW v, RowsOK(v), NEW n \in AttemptNos, NEW t \in Tokens,
         CanRecordFailure(v, n, t)
  PROVE  StaysBegun(v, RetryAttempt(v, n))
<1> DEFINE a == Unleased(Moved(v.attempts[n], "failed", "failed"))
           u == Wrote(v, n, a)
<1>1. Exists(v) /\ n = v.active /\ v \in View
  BY LiveIsCurrent, Numbers, RowsFacts DEF CanRecordFailure
<1>2. a \in Attempt /\ a.state = "failed"
  BY <1>1, RowsFacts, UnleasedFields, StateNames
<1> HIDE DEF a
<1>3. u \in View /\ u.attempts = [v.attempts EXCEPT ![n] = a]
  BY <1>1, <1>2, WroteFields
<1>4. StaysBegun(v, u)
  BY <1>1, <1>2, <1>3, WriteStaysBegun
  DEF CanRecordFailure, Ages, Begun, RUN_STATES
<1>5. u.attempts[v.active + 1] = v.attempts[v.active + 1]
  <2>1. v.active \in Nat
    BY <1>1, Numbers
  <2>2. v.active + 1 # n
    BY <1>1, <2>1
  <2> QED
    BY <1>3, <2>2, <1>1 DEF View
<1> HIDE DEF u
<1>6. \A state, op, b : StaysBegun(v, Supersede(u, v.active + 1, state, op, b))
  BY <1>1, <1>3, <1>4, <1>5, SupersedeStaysBegun
<1> QED
  BY <1>6 DEF RetryAttempt, Wrote, u, a

LEMMA RecordFailureStaysBegun ==
  ASSUME NEW v, RowsOK(v), NEW n \in AttemptNos, NEW t \in Tokens,
         CanRecordFailure(v, n, t), NEW retry \in BOOLEAN
  PROVE  StaysBegun(v, RecordFailure(v, n, retry))
<1>1. StaysBegun(v, DeadLetterAttempt(v, n))
  <2> DEFINE a == Unleased(Moved(v.attempts[n], "dead_lettered", "quarantined"))
             w == DeadLetterAttempt(v, n)
  <2>1. v \in View /\ v.attempts[n] \in Attempt
    BY DEF RowsOK, View
  <2>2. a.state \in Begun /\ a.state = "dead_lettered"
    BY <2>1, BegunStates, UnleasedBegun, StateNames
  <2> HIDE DEF a
  <2>3. w.attempts = [v.attempts EXCEPT ![n] = a]
    BY <2>1 DEF DeadLetterAttempt, Put, View, a
  <2> QED
    BY <2>1, <2>2, <2>3, WriteStaysBegun DEF Ages
<1> QED
  BY <1>1, RetryStaysBegun DEF RecordFailure

LEMMA ClaimStaysBegun ==
  ASSUME NEW v \in View, NEW n \in AttemptNos, NEW t, CanClaim(v, n)
  PROVE  StaysBegun(v, Claim(v, n, t))
<1>1. v.attempts[n].state \notin Begun \cup {"dead_lettered"}
  BY DEF CanClaim, CLAIMABLE_RUN_STATES, Begun
<1>2. Claim(v, n, t).attempts = [v.attempts EXCEPT ![n] = Leased(v.attempts[n], t)]
  BY DEF Claim, Put, View
<1>3. Leased(v.attempts[n], t).state = "dispatching"
  BY DEF Leased, Moved, View, Attempt
<1> QED
  BY <1>1, <1>2, <1>3, WriteStaysBegun DEF Ages

LEMMA OperatorStaysBegun ==
  ASSUME RowsInv, NEW r \in Runs, OperatorStep(r)
  PROVE  StaysBegun(db[r], db'[r])
<1> DEFINE v == db[r]
           a == v.attempts[v.current]
<1>1. v \in View /\ RowsOK(v) /\ db \in [Runs -> View]
  BY DEF RowsInv, RowsOK, TypeOK
<1>2. CASE RequestCancelRun(r)
  <2>1. Exists(v)
    BY <1>2 DEF RequestCancelRun, CanRequestCancel, Exists
  <2>2. a \in Attempt
    BY <1>1, <2>1, RowsFacts
  <2>3. Moved(a, "cancel_requested", "cancel_requested").state \in Begun
    BY <2>2 DEF Moved, Attempt, Begun, RUN_STATES
  <2>4. a.state # "dead_lettered"
    BY <1>1, <1>2, <2>1, RowsFacts
    DEF Coherent, RequestCancelRun, CanRequestCancel, TERMINAL_RUN_STATES
  <2>5. StaysBegun(v, RequestCancel(v))
    BY <1>1, <2>3, <2>4, BegunStates, PutStaysBegun DEF RequestCancel, MoveBoth, Ages
  <2> QED
    BY <1>1, <1>2, <2>5 DEF RequestCancelRun, Update
<1>3. CASE AdmitRetryRun(r)
  <2>1. Exists(v)
    BY <1>3 DEF AdmitRetryRun, CanAdmitRetry, Exists, RETRYABLE_RUN_STATES
  <2>2. StaysBegun(v, v)
    BY DEF StaysBegun, Ages
  <2>3. StaysBegun(v, AdmitRetry(v))
    BY <1>1, <2>1, <2>2, SupersedeStaysBegun DEF AdmitRetry
  <2> QED
    BY <1>1, <1>3, <2>3 DEF AdmitRetryRun, Update
<1>4. CASE PauseRun(r)
  <2>1. Exists(v)
    BY <1>4 DEF PauseRun, CanPause
  <2>2. a \in Attempt
    BY <1>1, <2>1, RowsFacts
  <2>3. [a EXCEPT !.op = "paused"].state = a.state
    BY <2>2 DEF Attempt
  <2>4. StaysBegun(v, Pause(v))
    BY <1>1, <2>3, PutStaysBegun DEF Pause, Ages
  <2> QED
    BY <1>1, <1>4, <2>4 DEF PauseRun, Update
<1>5. CASE ResumeRun(r)
  <2>1. Exists(v)
    BY <1>1, <1>5 DEF ResumeRun, CanResume, Exists, RowsOK, NoRun
  <2>2. a \in Attempt
    BY <1>1, <2>1, RowsFacts
  <2>3. \A o : [a EXCEPT !.op = o].state = a.state
    BY <2>2 DEF Attempt
  <2>4. StaysBegun(v, Resume(v))
    BY <1>1, <2>3, PutStaysBegun DEF Resume, Ages
  <2> QED
    BY <1>1, <1>5, <2>4 DEF ResumeRun, Update
<1>6. CASE InterruptRun(r)
  <2>1. Exists(v)
    BY <1>6 DEF InterruptRun, CanInterrupt
  <2>2. a \in Attempt
    BY <1>1, <2>1, RowsFacts
  <2>3. Unleased(Moved(a, "cancel_requested", "interrupted")).state \in Begun
    BY <2>2, BegunStates, UnleasedBegun, StateNames
  <2>4. a.state # "dead_lettered"
    BY <1>1, <1>6, <2>1, RowsFacts DEF Coherent, InterruptRun, CanInterrupt
  <2>5. StaysBegun(v, Interrupt(v))
    BY <1>1, <2>3, <2>4, BegunStates, PutStaysBegun DEF Interrupt, Ages
  <2> QED
    BY <1>1, <1>6, <2>5 DEF InterruptRun, Update
<1>7. CASE QuarantineRun(r)
  <2>1. Exists(v)
    BY <1>7 DEF QuarantineRun, CanQuarantine
  <2>2. a \in Attempt
    BY <1>1, <2>1, RowsFacts
  <2>3. Unleased(Moved(a, "dead_lettered", "quarantined")).state = "dead_lettered"
    BY <2>2, BegunStates, UnleasedBegun, StateNames
  <2>4. StaysBegun(v, Quarantine(v))
    BY <1>1, <2>3, BegunStates, PutStaysBegun DEF Quarantine, Ages
  <2> QED
    BY <1>1, <1>7, <2>4 DEF QuarantineRun, Update
<1> QED
  BY <1>2, <1>3, <1>4, <1>5, <1>6, <1>7 DEF OperatorStep

\* Writing one run's rows leaves the others alone.
LEMMA UpdateStaysBegun ==
  ASSUME RowsInv, NEW r \in Runs, NEW v, Update(r, v), StaysBegun(db[r], v)
  PROVE  \A q \in Runs : StaysBegun(db[q], db'[q])
BY DEF RowsInv, TypeOK, Update, StaysBegun, Ages

LEMMA ClockStaysBegun ==
  ASSUME RowsInv, NEW r \in Runs, ClockStep(r)
  PROVE  \A q \in Runs : StaysBegun(db[q], db'[q])
<1>1. PICK n \in AttemptNos : BackoffElapses(r, n) \/ LeaseRunsOut(r, n)
  BY DEF ClockStep
<1>2. db[r] \in View /\ db[r].attempts[n] \in Attempt
  BY DEF RowsInv, TypeOK, View
<1>3. CASE BackoffElapses(r, n)
  <2> DEFINE a == [db[r].attempts[n] EXCEPT !.due = TRUE]
  <2>1. Update(r, Wrote(db[r], n, a))
    BY <1>2, <1>3 DEF BackoffElapses, Update, Wrote, RowsInv, TypeOK, View
  <2>2. a \in Attempt /\ a.state = db[r].attempts[n].state
    BY <1>2 DEF Attempt
  <2> HIDE DEF a
  <2>3. Wrote(db[r], n, a).attempts = [db[r].attempts EXCEPT ![n] = a]
    BY <1>2, <2>2, WroteFields
  <2>4. StaysBegun(db[r], Wrote(db[r], n, a))
    BY <1>2, <2>2, <2>3, WriteStaysBegun DEF Ages
  <2> QED
    BY <2>1, <2>4, UpdateStaysBegun
<1>4. CASE LeaseRunsOut(r, n)
  <2> DEFINE a == [db[r].attempts[n] EXCEPT !.overdue = TRUE]
  <2>1. Update(r, Wrote(db[r], n, a))
    BY <1>2, <1>4 DEF LeaseRunsOut, Update, Wrote, RowsInv, TypeOK, View
  <2>2. a \in Attempt /\ a.state = db[r].attempts[n].state
    BY <1>2 DEF Attempt
  <2> HIDE DEF a
  <2>3. Wrote(db[r], n, a).attempts = [db[r].attempts EXCEPT ![n] = a]
    BY <1>2, <2>2, WroteFields
  <2>4. StaysBegun(db[r], Wrote(db[r], n, a))
    BY <1>2, <2>2, <2>3, WriteStaysBegun DEF Ages
  <2> QED
    BY <2>1, <2>4, UpdateStaysBegun
<1> QED
  BY <1>1, <1>3, <1>4

LEMMA ReconcileStaysBegun ==
  ASSUME RowsInv, ReconcileExpiredLeases
  PROVE  \A q \in Runs : StaysBegun(db[q], db'[q])
<1>1. PICK pick \in [Runs -> AttemptNos] :
        db' = [r \in Runs |-> IF CanReconcile(db[r], pick[r])
                              THEN Reconcile(db[r], pick[r]) ELSE db[r]]
  BY DEF ReconcileExpiredLeases
<1>2. ASSUME NEW v \in View, NEW n \in AttemptNos, CanReconcile(v, n)
      PROVE  StaysBegun(v, Reconcile(v, n))
  <2>1. v.attempts[n] \in Attempt
    BY DEF View
  <2>2. Revoked(Moved(v.attempts[n], "timed_out", "interrupted"), "expired").state
          \in Begun
    BY <2>1, BegunStates, UnleasedBegun, StateNames
  <2>3. v.attempts[n].state # "dead_lettered"
    BY <1>2 DEF CanReconcile, LeaseExpired, IN_FLIGHT_ATTEMPT_STATES
  <2> QED
    BY <2>2, <2>3, BegunStates, PutStaysBegun DEF Reconcile, Ages
<1> SUFFICES ASSUME NEW q \in Runs PROVE StaysBegun(db[q], db'[q])
  OBVIOUS
<1>3. db[q] \in View /\ pick[q] \in AttemptNos
  BY DEF RowsInv, TypeOK
<1>4. \/ CanReconcile(db[q], pick[q]) /\ db'[q] = Reconcile(db[q], pick[q])
      \/ db'[q] = db[q]
  BY <1>1
<1> QED
  BY <1>2, <1>3, <1>4 DEF StaysBegun, Ages

LEMMA AdmitStaysBegun ==
  ASSUME RowsInv, NEW r \in Runs, ~Exists(db[r]), Update(r, AdmittedRun)
  PROVE  \A q \in Runs : StaysBegun(db[q], db'[q])
<1>1. db[r] = NoRun
  BY DEF RowsInv, RowsOK
<1>2. \A n \in AttemptNos :
        db[r].attempts[n].state = "absent"
  BY <1>1 DEF NoRun, NoAttempt
<1>3. StaysBegun(db[r], AdmittedRun)
  BY <1>2, BegunStates DEF StaysBegun, Ages
<1> QED
  BY <1>3, UpdateStaysBegun

\* No step of the composition makes a begun attempt claimable again.
LEMMA StepStaysBegun ==
  ASSUME RowsInv, ResponsesTypeOK, [ResponsesNext]_vars
  PROVE  \A q \in Runs : StaysBegun(db[q], db'[q])
<1> DEFINE Done == \A q \in Runs : StaysBegun(db[q], db'[q])
<1> SUFFICES Done
  OBVIOUS
<1>0. ASSUME UNCHANGED db PROVE Done
  BY <1>0 DEF StaysBegun, Ages
<1>1. ASSUME NEW r \in Runs, AdmitBackgroundRun(r)
      PROVE  Done
  BY <1>1, AdmitStaysBegun DEF AdmitBackgroundRun, AdmitCreate
<1>2. ASSUME NEW r \in Runs, Operate(r)
      PROVE  Done
  <2>1. ASSUME NEW source \in Runs, RestartFromScratch(source, r)
        PROVE  Done
    BY <2>1, AdmitStaysBegun DEF RestartFromScratch
  <2>2. ASSUME OperatorStep(r)
        PROVE  Done
    <3>1. PICK v : Update(r, v)
      BY <2>2 DEF OperatorStep, RequestCancelRun, AdmitRetryRun, PauseRun,
                  ResumeRun, InterruptRun, QuarantineRun
    <3>2. StaysBegun(db[r], db'[r])
      BY <2>2, OperatorStaysBegun
    <3>3. db'[r] = v
      BY <3>1 DEF Update, RowsInv, TypeOK
    <3> QED
      BY <3>1, <3>2, <3>3, UpdateStaysBegun
  <2> QED
    BY <1>2, <2>1, <2>2 DEF Operate
<1>3. ASSUME NEW r \in Runs, TimePasses(r)
      PROVE  Done
  BY <1>3, ClockStaysBegun DEF TimePasses
<1>4. ASSUME NEW r \in Runs, NEW w \in Workers, NEW n \in AttemptNos,
             NEW t \in Tokens, ClaimWork(w, r, n, t)
      PROVE  Done
  <2>1. db[r] \in View
    BY DEF RowsInv, TypeOK
  <2>2. StaysBegun(db[r], Claim(db[r], n, t)) /\ Update(r, Claim(db[r], n, t))
    BY <1>4, <2>1, ClaimStaysBegun DEF ClaimWork, ClaimNextAttempt
  <2> QED
    BY <2>2, UpdateStaysBegun
<1>5. ASSUME NEW w \in Workers, MarkExecutingStep(w)
      PROVE  Done
  <2> DEFINE c == worker[w]
             v == db[c.run]
             a == [Moved(v.attempts[c.attempt], "executing", "executing")
                     EXCEPT !.lease = "leased"]
  <2>1. c.run \in Runs /\ c.attempt \in AttemptNos
    BY <1>5, BusyCycle DEF MarkExecutingStep, At, Cycle
  <2>2. v \in View /\ v.attempts[c.attempt] \in Attempt
    BY <2>1 DEF RowsInv, TypeOK, View
  <2>3. a.state \in Begun
    BY <2>2 DEF Moved, Attempt, Begun, RUN_STATES
  <2>4. CanMarkExecuting(v, c.attempt, c.token)
          => StaysBegun(v, MarkExecuting(v, c.attempt, "executing"))
    BY <2>2, <2>3, BegunStates, PutStaysBegun
    DEF CanMarkExecuting, MarkExecuting, Ages
  <2>5. \/ UNCHANGED db
        \/ /\ CanMarkExecuting(v, c.attempt, c.token)
           /\ Update(c.run, MarkExecuting(v, c.attempt, "executing"))
    BY <1>5 DEF MarkExecutingStep
  <2> QED
    BY <1>0, <2>1, <2>4, <2>5, UpdateStaysBegun
<1>6. ASSUME NEW w \in Workers, CompleteStep(w)
      PROVE  Done
  <2> DEFINE c == worker[w]
             v == db[c.run]
  <2>1. c.run \in Runs /\ c.attempt \in AttemptNos
    BY <1>6, BusyCycle DEF CompleteStep, At, Cycle
  <2>2. v \in View /\ v.attempts[c.attempt] \in Attempt
    BY <2>1 DEF RowsInv, TypeOK, View
  <2>3. Unleased(Moved(v.attempts[c.attempt], "succeeded", "completed")).state
          \in Begun
    BY <2>2, BegunStates, UnleasedBegun, StateNames
  <2>4. CanComplete(v, c.attempt, c.token) => StaysBegun(v, Complete(v, c.attempt))
    BY <2>2, <2>3, BegunStates, PutStaysBegun
    DEF CanComplete, IN_FLIGHT_ATTEMPT_STATES, Complete, Ages
  <2>5. \/ UNCHANGED db
        \/ CanComplete(v, c.attempt, c.token) /\ Update(c.run, Complete(v, c.attempt))
    BY <1>6 DEF CompleteStep, CompleteAttemptSuccess
  <2> QED
    BY <1>0, <2>1, <2>4, <2>5, UpdateStaysBegun
<1>7. ASSUME NEW w \in Workers, RecordFailureStep(w)
      PROVE  Done
  <2> DEFINE c == worker[w]
             v == db[c.run]
  <2>1. /\ c.run \in Runs /\ c.attempt \in AttemptNos /\ c.token \in Tokens
        /\ c.retry \in BOOLEAN
    BY <1>7, BusyCycle DEF RecordFailureStep, At, Cycle
  <2>2. \/ UNCHANGED db
        \/ /\ CanRecordFailure(v, c.attempt, c.token)
           /\ Update(c.run, RecordFailure(v, c.attempt, c.retry))
    BY <1>7 DEF RecordFailureStep
  <2>3. CanRecordFailure(v, c.attempt, c.token) =>
          StaysBegun(v, RecordFailure(v, c.attempt, c.retry))
    BY <2>1, RecordFailureStaysBegun DEF RowsInv
  <2> QED
    BY <1>0, <2>1, <2>2, <2>3, UpdateStaysBegun
<1>8. CASE ReconcileRuns
  BY <1>8, ReconcileStaysBegun DEF ReconcileRuns
<1>9. ASSUME NEW r \in Runs, SaveQueuedResponse(r)
      PROVE  UNCHANGED db
  BY <1>9 DEF SaveQueuedResponse
<1>10. ASSUME NEW w \in Workers,
              \/ LoadPayload(w) \/ SaveInProgress(w) \/ Dispatch(w)
              \/ SaveCompleted(w) \/ ReportFailure(w) \/ Crash(w) \/ Raise(w)
       PROVE  UNCHANGED db
  BY <1>10 DEF LoadPayload, SaveInProgress, Dispatch, SaveCompleted,
               ReportFailure, Crash, Raise
<1>11. CASE UNCHANGED vars
  BY <1>0, <1>11 DEF vars
<1> HIDE DEF Done
<1> QED
  BY <1>0, <1>1, <1>2, <1>3, <1>4, <1>5, <1>6, <1>7, <1>8, <1>9, <1>10, <1>11
  DEF ResponsesNext, CycleStep

-----------------------------------------------------------------------------
(* No attempt is dispatched twice.                                         *)

\* A worker that is about to call the provider for its attempt.
Calling(w) == worker[w].pc \in {"marked", "saved"}

\* An attempt that was dispatched, or is about to be, has begun; and whoever is
\* about to dispatch it is alone and the first.
DispatchOK ==
  /\ \A r \in Runs : \A n \in AttemptNos :
       /\ calls[r][n] <= 1
       /\ calls[r][n] # 0 => db[r].attempts[n].state \in Begun
  /\ \A w \in Workers :
       Calling(w) =>
         /\ db[worker[w].run].attempts[worker[w].attempt].state \in Begun
         /\ calls[worker[w].run][worker[w].attempt] = 0
         /\ \A u \in Workers :
              Calling(u) /\ u # w =>
                <<worker[u].run, worker[u].attempt>>
                  # <<worker[w].run, worker[w].attempt>>

\* Steps that make no call and let no worker start calling.
LEMMA QuietStep ==
  ASSUME ResponsesTypeOK, DispatchOK,
         \A q \in Runs : StaysBegun(db[q], db'[q]),
         UNCHANGED calls,
         \A w \in Workers : Calling(w)' =>
           /\ Calling(w)
           /\ worker'[w].run = worker[w].run
           /\ worker'[w].attempt = worker[w].attempt
  PROVE  DispatchOK'
<1>1. \A w \in Workers : Calling(w) =>
        worker[w].run \in Runs /\ worker[w].attempt \in AttemptNos
  BY BusyCycle DEF Calling, At, Cycle
<1>2. \A r \in Runs : \A n \in AttemptNos :
        db[r].attempts[n].state \in Begun => db'[r].attempts[n].state \in Begun
  BY DEF StaysBegun, Ages
<1> QED
  BY <1>1, <1>2 DEF DispatchOK

\* No worker starts calling.
NoNewCaller ==
  \A w \in Workers : Calling(w)' =>
    /\ Calling(w)
    /\ worker'[w].run = worker[w].run
    /\ worker'[w].attempt = worker[w].attempt

LEMMA QuietMoves ==
  ASSUME ResponsesTypeOK, NEW w \in Workers,
         \/ Stop(w)
         \/ \E retry \in BOOLEAN : ~At(w, "idle") /\ Fail(w, retry)
         \/ \E c \in Cycle : /\ c.pc \notin {"marked", "saved"}
                             /\ worker' = [worker EXCEPT ![w] = c]
         \/ /\ At(w, "marked")
            /\ Goto(w, "saved")
         \/ UNCHANGED worker
  PROVE  NoNewCaller
<1>1. CASE Stop(w)
  BY <1>1 DEF ResponsesTypeOK, NoNewCaller, Calling, Stop, Idle
<1>2. ASSUME NEW retry \in BOOLEAN, ~At(w, "idle"), Fail(w, retry)
      PROVE  NoNewCaller
  <2>1. worker[w] \in Cycle
    BY <1>2, BusyCycle
  <2>2. worker'[w].pc = "failing"
    BY <1>2, <2>1 DEF Fail, ResponsesTypeOK, Cycle
  <2>3. \A u \in Workers : u # w => worker'[u] = worker[u]
    BY <1>2 DEF Fail, ResponsesTypeOK
  <2> QED
    BY <2>2, <2>3 DEF NoNewCaller, Calling
<1>3. ASSUME NEW c \in Cycle, c.pc \notin {"marked", "saved"},
             worker' = [worker EXCEPT ![w] = c]
      PROVE  NoNewCaller
  <2>1. worker'[w] = c /\ \A u \in Workers : u # w => worker'[u] = worker[u]
    BY <1>3 DEF ResponsesTypeOK
  <2> QED
    BY <1>3, <2>1 DEF NoNewCaller, Calling
<1>4. CASE At(w, "marked") /\ Goto(w, "saved")
  <2>1. worker[w] \in Cycle
    BY <1>4, BusyCycle DEF At
  <2>2. worker' = [worker EXCEPT ![w] = [worker[w] EXCEPT !.pc = "saved"]]
    BY <1>4 DEF Goto, ResponsesTypeOK
  <2>3. \A u \in Workers : u # w => worker'[u] = worker[u]
    BY <2>2 DEF ResponsesTypeOK
  <2>4. worker'[w].run = worker[w].run /\ worker'[w].attempt = worker[w].attempt
    BY <2>1, <2>2 DEF ResponsesTypeOK, Cycle
  <2> QED
    BY <1>4, <2>3, <2>4 DEF NoNewCaller, Calling, At
<1>5. CASE UNCHANGED worker
  BY <1>5 DEF NoNewCaller, Calling
<1> QED
  BY <1>1, <1>2, <1>3, <1>4, <1>5

\* Moving to one of the steps after the call.
LEMMA GotoQuiet ==
  ASSUME ResponsesTypeOK, NEW w \in Workers, ~At(w, "idle"),
         NEW pc \in InTry \cup {"failing", "reporting"},
         pc \notin {"marked", "saved"}, Goto(w, pc)
  PROVE  \E c \in Cycle : /\ c.pc \notin {"marked", "saved"}
                          /\ worker' = [worker EXCEPT ![w] = c]
<1> DEFINE c == [worker[w] EXCEPT !.pc = pc]
<1>1. c \in Cycle /\ c.pc = pc
  BY BusyCycle DEF Cycle
<1>2. worker' = [worker EXCEPT ![w] = c]
  BY DEF Goto, ResponsesTypeOK
<1> QED
  BY <1>1, <1>2

\* Marking makes a worker the first and only one that will call.
LEMMA MarkDispatchOK ==
  ASSUME RowsInv, ResponsesTypeOK, DispatchOK,
         \A q \in Runs : StaysBegun(db[q], db'[q]),
         NEW w \in Workers, At(w, "loaded"), Goto(w, "marked"),
         CanMarkExecuting(db[worker[w].run], worker[w].attempt, worker[w].token),
         Update(worker[w].run,
                MarkExecuting(db[worker[w].run], worker[w].attempt, "executing")),
         UNCHANGED calls
  PROVE  DispatchOK'
<1> DEFINE r == worker[w].run
           n == worker[w].attempt
<1>1. worker[w] \in Cycle /\ r \in Runs /\ n \in AttemptNos
  BY BusyCycle DEF At, Cycle
<1>2. db[r].attempts[n].state \notin Begun
  BY DEF CanMarkExecuting, Begun
<1>3. calls[r][n] = 0
  BY <1>1, <1>2 DEF DispatchOK, ResponsesTypeOK
<1>4. \A u \in Workers : Calling(u) => <<worker[u].run, worker[u].attempt>> # <<r, n>>
  BY <1>2 DEF DispatchOK
<1>5. /\ worker'[w].run = r /\ worker'[w].attempt = n
      /\ \A u \in Workers : u # w => worker'[u] = worker[u]
  BY <1>1 DEF Goto, ResponsesTypeOK, Cycle
<1>6. db'[r].attempts[n].state \in Begun
  <2>1. db[r] \in View /\ db[r].attempts[n] \in Attempt
    BY <1>1 DEF RowsInv, TypeOK, View
  <2>2. db'[r] = MarkExecuting(db[r], n, "executing")
    BY <1>1 DEF Update, RowsInv, TypeOK
  <2>3. MarkExecuting(db[r], n, "executing").attempts[n].state = "executing"
    BY <1>1, <2>1 DEF MarkExecuting, Put, Moved, View, Attempt
  <2> QED
    BY <2>2, <2>3, BegunStates
<1> HIDE DEF r, n
<1>7. \A u \in Workers : Calling(u) =>
        worker[u].run \in Runs /\ worker[u].attempt \in AttemptNos
  BY BusyCycle DEF Calling, At, Cycle
<1>8. \A q \in Runs : \A m \in AttemptNos :
        db[q].attempts[m].state \in Begun => db'[q].attempts[m].state \in Begun
  BY DEF StaysBegun, Ages
<1>9. \A u \in Workers : u # w /\ Calling(u)' =>
        /\ Calling(u)
        /\ worker'[u].run = worker[u].run
        /\ worker'[u].attempt = worker[u].attempt
  BY <1>5 DEF Calling
<1>10. \A q \in Runs : \A m \in AttemptNos :
         /\ calls'[q][m] <= 1
         /\ calls'[q][m] # 0 => db'[q].attempts[m].state \in Begun
  BY <1>8 DEF DispatchOK
<1>11. ASSUME NEW u \in Workers, Calling(u)'
       PROVE  /\ db'[worker'[u].run].attempts[worker'[u].attempt].state \in Begun
              /\ calls'[worker'[u].run][worker'[u].attempt] = 0
  <2>1. CASE u = w
    BY <2>1, <1>3, <1>5, <1>6
  <2>2. CASE u # w
    BY <2>2, <1>7, <1>8, <1>9, <1>11 DEF DispatchOK
  <2> QED
    BY <2>1, <2>2
<1>12. ASSUME NEW u \in Workers, Calling(u)', NEW x \in Workers, Calling(x)', x # u
       PROVE  <<worker'[x].run, worker'[x].attempt>>
                # <<worker'[u].run, worker'[u].attempt>>
  <2>1. CASE u = w
    BY <2>1, <1>4, <1>5, <1>9, <1>12
  <2>2. CASE x = w
    BY <2>2, <1>4, <1>5, <1>9, <1>12
  <2>3. CASE u # w /\ x # w
    BY <2>3, <1>9, <1>12 DEF DispatchOK
  <2> QED
    BY <2>1, <2>2, <2>3
<1> QED
  BY <1>10, <1>11, <1>12 DEF DispatchOK

\* The call itself: the worker stops being about to call.
LEMMA CallDispatchOK ==
  ASSUME RowsInv, ResponsesTypeOK, DispatchOK, NEW w \in Workers, Dispatch(w)
  PROVE  DispatchOK'
<1> DEFINE r == worker[w].run
           n == worker[w].attempt
<1>1. worker[w] \in Cycle /\ r \in Runs /\ n \in AttemptNos /\ Calling(w)
  BY BusyCycle DEF Dispatch, At, Cycle, Calling
<1>2. /\ calls[r][n] = 0 /\ db[r].attempts[n].state \in Begun
      /\ \A u \in Workers :
           Calling(u) /\ u # w => <<worker[u].run, worker[u].attempt>> # <<r, n>>
  BY <1>1 DEF DispatchOK
<1>3. /\ worker'[w].pc \notin {"marked", "saved"}
      /\ \A u \in Workers : u # w => worker'[u] = worker[u]
  BY <1>1 DEF Dispatch, Goto, Fail, ResponsesTypeOK, Cycle
<1>4. /\ calls'[r][n] = 1
      /\ \A q \in Runs : \A m \in AttemptNos :
           <<q, m>> # <<r, n>> => calls'[q][m] = calls[q][m]
  <2>1. calls' = [calls EXCEPT ![r][n] = calls[r][n] + 1]
    BY DEF Dispatch
  <2> HIDE DEF r, n
  <2> QED
    BY <1>1, <1>2, <2>1 DEF ResponsesTypeOK
<1>5. UNCHANGED db
  BY DEF Dispatch
<1>6. \A u \in Workers : Calling(u) =>
        worker[u].run \in Runs /\ worker[u].attempt \in AttemptNos
  BY BusyCycle DEF Calling, At, Cycle
<1> HIDE DEF r, n
<1>7. \A u \in Workers : Calling(u)' => u # w /\ Calling(u) /\ worker'[u] = worker[u]
  BY <1>3 DEF Calling
<1>8. \A q \in Runs : \A m \in AttemptNos :
        /\ calls'[q][m] <= 1
        /\ calls'[q][m] # 0 => db'[q].attempts[m].state \in Begun
  BY <1>2, <1>4, <1>5 DEF DispatchOK
<1> QED
  BY <1>2, <1>4, <1>5, <1>6, <1>7, <1>8 DEF DispatchOK

LEMMA DispatchStep ==
  ASSUME RowsInv, ResponsesTypeOK, DispatchOK, [ResponsesNext]_vars
  PROVE  DispatchOK'
<1>0. \A q \in Runs : StaysBegun(db[q], db'[q])
  BY StepStaysBegun
<1>q. ASSUME NoNewCaller, UNCHANGED calls
      PROVE  DispatchOK'
  BY <1>0, <1>q, QuietStep DEF NoNewCaller
<1>s. ASSUME UNCHANGED <<worker, calls>>
      PROVE  DispatchOK'
  BY <1>s, <1>q DEF NoNewCaller, Calling
<1>1. ASSUME NEW r \in Runs,
             \/ AdmitBackgroundRun(r) \/ SaveQueuedResponse(r)
             \/ Operate(r) \/ TimePasses(r)
      PROVE  DispatchOK'
  BY <1>1, <1>s DEF AdmitBackgroundRun, SaveQueuedResponse, Operate, TimePasses
<1>2. ASSUME NEW r \in Runs, NEW w \in Workers, NEW n \in AttemptNos,
             NEW t \in Tokens, ClaimWork(w, r, n, t)
      PROVE  DispatchOK'
  <2> DEFINE c == [pc |-> "claimed", run |-> r, attempt |-> n, token |-> t,
                   payload |-> FALSE, retry |-> FALSE, next |-> 0]
  <2>1. c \in Cycle /\ c.pc \notin {"marked", "saved"}
    BY DEF Cycle, InTry
  <2>2. worker' = [worker EXCEPT ![w] = c] /\ UNCHANGED calls
    BY <1>2 DEF ClaimWork
  <2> QED
    BY <2>1, <2>2, <1>q, QuietMoves
<1>3. ASSUME NEW w \in Workers, LoadPayload(w)
      PROVE  DispatchOK'
  <2> DEFINE c == [worker[w] EXCEPT !.pc = "loaded", !.payload = TRUE]
  <2>1. ~At(w, "idle")
    BY <1>3 DEF LoadPayload, At
  <2>2. c \in Cycle /\ c.pc = "loaded"
    BY <2>1, BusyCycle DEF Cycle, InTry
  <2>3. Fail(w, FALSE) \/ worker' = [worker EXCEPT ![w] = c]
    BY <1>3 DEF LoadPayload
  <2>4. NoNewCaller
    BY <2>1, <2>2, <2>3, QuietMoves
  <2> QED
    BY <1>3, <1>q, <2>4 DEF LoadPayload
<1>4. ASSUME NEW w \in Workers, MarkExecutingStep(w)
      PROVE  DispatchOK'
  <2>1. CASE CanMarkExecuting(db[worker[w].run], worker[w].attempt, worker[w].token)
    BY <1>0, <1>4, <2>1, MarkDispatchOK DEF MarkExecutingStep
  <2>2. CASE ~CanMarkExecuting(db[worker[w].run], worker[w].attempt, worker[w].token)
    <3>1. ~At(w, "idle") /\ Fail(w, FALSE) /\ UNCHANGED calls
      BY <1>4, <2>2 DEF MarkExecutingStep, At
    <3> QED
      BY <3>1, <1>q, QuietMoves
  <2> QED
    BY <2>1, <2>2
<1>5. ASSUME NEW w \in Workers, SaveInProgress(w)
      PROVE  DispatchOK'
  BY <1>5, <1>q, QuietMoves DEF SaveInProgress
<1>6. ASSUME NEW w \in Workers, Dispatch(w)
      PROVE  DispatchOK'
  BY <1>6, CallDispatchOK
<1>7. ASSUME NEW w \in Workers, SaveCompleted(w)
      PROVE  DispatchOK'
  <2>1. ~At(w, "idle") /\ Goto(w, "delivered") /\ UNCHANGED calls
    BY <1>7 DEF SaveCompleted, At
  <2>2. \E c \in Cycle : /\ c.pc \notin {"marked", "saved"}
                         /\ worker' = [worker EXCEPT ![w] = c]
    BY <2>1, GotoQuiet DEF InTry
  <2> QED
    BY <2>1, <2>2, <1>q, QuietMoves
<1>8. ASSUME NEW w \in Workers, CompleteStep(w)
      PROVE  DispatchOK'
  <2>1. ~At(w, "idle") /\ (Stop(w) \/ Fail(w, FALSE)) /\ UNCHANGED calls
    BY <1>8 DEF CompleteStep, At
  <2> QED
    BY <2>1, <1>q, QuietMoves
<1>9. ASSUME NEW w \in Workers, RecordFailureStep(w)
      PROVE  DispatchOK'
  <2> DEFINE c == worker[w]
             v == RecordFailure(db[c.run], c.attempt, c.retry)
  <2>1. Stop(w) \/ worker' = [worker EXCEPT ![w] = Reporting(c, v)]
    BY <1>9 DEF RecordFailureStep
  <2>2. c \in Cycle
    BY <1>9, BusyCycle DEF RecordFailureStep, At
  <2> HIDE DEF v, c
  <2>3. Reporting(c, v).pc = "reporting"
    BY <2>2 DEF Reporting, Cycle
  <2>4. NoNewCaller
    <3>1. CASE Stop(w)
      BY <3>1, QuietMoves
    <3>2. CASE worker' = [worker EXCEPT ![w] = Reporting(c, v)]
      <4>1. worker'[w].pc = "reporting"
        BY <3>2, <2>3 DEF ResponsesTypeOK
      <4>2. \A u \in Workers : u # w => worker'[u] = worker[u]
        BY <3>2 DEF ResponsesTypeOK
      <4> QED
        BY <4>1, <4>2 DEF NoNewCaller, Calling
    <3> QED
      BY <2>1, <3>1, <3>2
  <2> QED
    BY <1>9, <1>q, <2>4 DEF RecordFailureStep
<1>10. ASSUME NEW w \in Workers, ReportFailure(w)
       PROVE  DispatchOK'
  BY <1>10, <1>q, QuietMoves DEF ReportFailure
<1>11. ASSUME NEW w \in Workers, Crash(w) \/ Raise(w)
       PROVE  DispatchOK'
  <2>1. (Stop(w) \/ (~At(w, "idle") /\ Fail(w, FALSE))) /\ UNCHANGED calls
    BY <1>11 DEF Crash, Raise, At, InTry
  <2> QED
    BY <2>1, <1>q, QuietMoves
<1>12. CASE ReconcileRuns \/ UNCHANGED vars
  BY <1>12, <1>s DEF ReconcileRuns, vars
<1> QED
  BY <1>1, <1>2, <1>3, <1>4, <1>5, <1>6, <1>7, <1>8, <1>9, <1>10, <1>11, <1>12
  DEF ResponsesNext, CycleStep

LEMMA DispatchInit == ResponsesInit => DispatchOK
BY DEF ResponsesInit, DispatchOK, Calling, Idle

\* The provider is called at most once for each attempt of each run, with any
\* number of workers, whatever crashes, is reclaimed, paused, cancelled or retried.
THEOREM DispatchedOnce == ResponsesSpec => []AttemptDispatchedOnce
<1>1. RowsInv /\ ResponsesTypeOK /\ DispatchOK /\ [ResponsesNext]_vars => DispatchOK'
  BY DispatchStep
<1>2. DispatchOK => AttemptDispatchedOnce
  BY DEF DispatchOK, AttemptDispatchedOnce
<1> QED
  BY <1>1, <1>2, DispatchInit, ResponsesInvariance, PTL DEF ResponsesSpec

-----------------------------------------------------------------------------
(* What a step makes of a cycle.                                           *)

\* A step of worker w's cycle, or a fault in it, ends the cycle or keeps its
\* claim; the other workers go on where they were.
SameClaim(c, d) == /\ d \in Cycle
               /\ d.run = c.run /\ d.attempt = c.attempt /\ d.token = c.token

CycleOf(w, c) == /\ worker'[w] = c
                 /\ \A u \in Workers : u # w => worker'[u] = worker[u]

LEMMA GotoMoves ==
  ASSUME ResponsesTypeOK, NEW w \in Workers, ~At(w, "idle"),
         NEW pc \in InTry \cup {"failing", "reporting"}, Goto(w, pc)
  PROVE  \E c : CycleOf(w, c) /\ SameClaim(worker[w], c) /\ c.pc = pc
<1> DEFINE c == [worker[w] EXCEPT !.pc = pc]
<1>1. SameClaim(worker[w], c) /\ c.pc = pc
  BY BusyCycle DEF Cycle, SameClaim
<1>2. CycleOf(w, c)
  BY DEF Goto, ResponsesTypeOK, CycleOf
<1> QED
  BY <1>1, <1>2

LEMMA FailMoves ==
  ASSUME ResponsesTypeOK, NEW w \in Workers, ~At(w, "idle"),
         NEW retry \in BOOLEAN, Fail(w, retry)
  PROVE  \E c : CycleOf(w, c) /\ SameClaim(worker[w], c) /\ c.pc = "failing"
<1> DEFINE c == [worker[w] EXCEPT !.pc = "failing", !.retry = retry]
<1>1. SameClaim(worker[w], c) /\ c.pc = "failing"
  BY BusyCycle DEF Cycle, SameClaim
<1>2. CycleOf(w, c)
  BY DEF Fail, ResponsesTypeOK, CycleOf
<1> QED
  BY <1>1, <1>2

LEMMA StopMoves ==
  ASSUME ResponsesTypeOK, NEW w \in Workers, Stop(w)
  PROVE  CycleOf(w, Idle)
BY DEF Stop, ResponsesTypeOK, CycleOf

-----------------------------------------------------------------------------
(* What the API reports of a failure is what the tables record.            *)

\* Attempt n is dead-lettered; attempt m failed and n took over from it.
Dead(v, n) == n \in AttemptNos /\ v.attempts[n].state = "dead_lettered"

Retried(v, m, n) ==
  /\ m \in AttemptNos /\ n \in AttemptNos /\ n = m + 1
  /\ v.attempts[m].state = "failed" /\ v.attempts[n].state # "absent"

\* A response row s of a run with rows v, and a cycle c that is about to write one.
RowReports(v, s) ==
  /\ s.status = "failed" => Dead(v, s.attempt)
  /\ s.status = "queued" /\ s.attempt > 1 => Retried(v, s.attempt - 1, s.attempt)

CycleReports(v, c) ==
  c.pc = "reporting" => IF c.next = 0 THEN Dead(v, c.attempt)
                                      ELSE Retried(v, c.attempt, c.next)

ReportsOK ==
  /\ \A r \in Runs : RowReports(db[r], response[r])
  /\ \A w \in Workers : CycleReports(db[worker[w].run], worker[w])

\* Both facts are for good.
LEMMA RecordsStay ==
  ASSUME RowsInv, ResponsesTypeOK, [ResponsesNext]_vars,
         NEW q \in Runs
  PROVE  /\ \A n : Dead(db[q], n) => Dead(db'[q], n)
         /\ \A m, n : Retried(db[q], m, n) => Retried(db'[q], m, n)
<1>1. StaysBegun(db[q], db'[q])
  BY StepStaysBegun
<1>2. RowsInv' /\ SupersededFrozen(db[q], db'[q])
  BY StepRefines, UndecidedStepOK DEF StepsOK
<1>3. /\ db[q] \in View /\ db'[q] \in View
      /\ SupersededFinished(db[q])
  BY <1>2, RowsImplySuperseded DEF RowsInv, TypeOK
<1>4. ASSUME NEW n, Dead(db[q], n)
      PROVE  Dead(db'[q], n)
  BY <1>1, <1>4 DEF Dead, StaysBegun, Ages
<1>5. ASSUME NEW m, NEW n, Retried(db[q], m, n)
      PROVE  Retried(db'[q], m, n)
  <2>1. m \in AttemptNos /\ n \in AttemptNos /\ n = m + 1
    BY <1>5 DEF Retried
  <2>2. m < db[q].active
    <3>1. ~(n > db[q].active)
      BY <1>3, <1>5, <2>1 DEF Retried, SupersededFinished
    <3>2. db[q].active \in Nat /\ m \in Nat
      BY <1>3, <2>1, Numbers DEF View
    <3> QED
      BY <2>1, <3>1, <3>2
  <2>3. db'[q].attempts[m].state = db[q].attempts[m].state
    <3>1. [db'[q].attempts[m] EXCEPT !.due = FALSE]
            = [db[q].attempts[m] EXCEPT !.due = FALSE]
      BY <1>2, <2>1, <2>2 DEF SupersededFrozen
    <3>2. db'[q].attempts[m] \in Attempt /\ db[q].attempts[m] \in Attempt
      BY <1>3, <2>1 DEF View
    <3> QED
      BY <3>1, <3>2 DEF Attempt
  <2>4. db'[q].attempts[n].state # "absent"
    BY <1>1, <1>5, <2>1 DEF Retried, StaysBegun, Ages
  <2> QED
    BY <1>5, <2>1, <2>3, <2>4 DEF Retried
<1> QED
  BY <1>4, <1>5

\* The outcome of recording a failure is what the worker goes on to report.
LEMMA FailureIsRecorded ==
  ASSUME NEW v, RowsOK(v), NEW n \in AttemptNos, NEW t \in Tokens,
         CanRecordFailure(v, n, t), NEW retry \in BOOLEAN
  PROVE  LET u == RecordFailure(v, n, retry) IN
           IF u.active > n THEN Retried(u, n, u.active) ELSE Dead(u, n)
<1>1. /\ Exists(v) /\ n = v.active /\ v \in View
      /\ v.attempts[n] \in Attempt /\ n \in Nat
  BY LiveIsCurrent, Numbers, RowsFacts DEF CanRecordFailure
<1>2. /\ "failed" \in RUN_STATES /\ "failed" \in RUN_OPERATOR_STATES
      /\ "dead_lettered" \in RUN_STATES /\ "quarantined" \in RUN_OPERATOR_STATES
      /\ "retry_backoff" \in RUN_STATES
      /\ "retry_scheduled" \in RUN_OPERATOR_STATES
  BY StateNames
<1>3. \A state \in RUN_STATES : \A op \in RUN_OPERATOR_STATES :
        LET d == Unleased(Moved(v.attempts[n], state, op)) IN
          d \in Attempt /\ d.state = state
  BY <1>1, UnleasedFields
<1>4. CASE ShouldRetry(v, retry)
  <2> DEFINE a == Unleased(Moved(v.attempts[n], "failed", "failed"))
             b == NewAttempt("retry_backoff", "retry_scheduled", FALSE,
                             v.attempts[n].retries + 1)
             u == Wrote(v, n, a)
             w == Supersede(u, n + 1, "retry_backoff", "retry_scheduled", b)
  <2>1. a \in Attempt /\ a.state = "failed"
    BY <1>2, <1>3
  <2>2. b \in Attempt /\ b.state = "retry_backoff"
    <3>1. v.attempts[n].retries + 1 \in Nat
      BY <1>1 DEF Attempt
    <3> QED
      BY <1>2, <3>1, NewAttemptFields DEF NewAttempt
  <2> HIDE DEF a, b
  <2>3. u \in View /\ u.attempts = [v.attempts EXCEPT ![n] = a]
    BY <1>1, <2>1, WroteFields
  <2> HIDE DEF u
  <2>4. n + 1 \in AttemptNos
    BY <1>1, <1>4, RowBounds DEF ShouldRetry, AttemptNos
  <2>5. /\ w \in View
        /\ w.state = "retry_backoff" /\ w.op = "retry_scheduled"
        /\ w.active = n + 1 /\ w.current = n + 1 /\ w.link = 0
        /\ w.attempts = [u.attempts EXCEPT ![n + 1] = b]
        /\ w.gates = u.gates /\ w.holder = u.holder
    BY <1>2, <2>2, <2>3, <2>4, SupersedeFields
  <2> HIDE DEF w
  <2>6. w.attempts[n].state = "failed" /\ w.attempts[n + 1].state = "retry_backoff"
    <3>1. n + 1 # n /\ u.attempts \in [AttemptNos -> Attempt]
      BY <1>1, <2>3 DEF View
    <3>2. w.attempts[n] = u.attempts[n] /\ w.attempts[n + 1] = b
      BY <2>4, <2>5, <3>1
    <3>3. u.attempts[n] = a
      BY <1>1, <2>3 DEF View
    <3> QED
      BY <2>1, <2>2, <3>2, <3>3
  <2>7. Retried(w, n, n + 1) /\ w.active > n
    BY <1>1, <2>4, <2>5, <2>6 DEF Retried
  <2>8. RecordFailure(v, n, retry) = w
    BY <1>1, <1>4 DEF RecordFailure, RetryAttempt, w, u, a, b, Wrote
  <2> QED
    BY <2>5, <2>7, <2>8
<1>5. CASE ~ShouldRetry(v, retry)
  <2> DEFINE a == Unleased(Moved(v.attempts[n], "dead_lettered", "quarantined"))
             w == DeadLetterAttempt(v, n)
  <2>1. a \in Attempt /\ a.state = "dead_lettered"
    BY <1>2, <1>3
  <2> HIDE DEF a
  <2>2. w.attempts = [v.attempts EXCEPT ![n] = a] /\ w.active = v.active
    BY <1>1 DEF DeadLetterAttempt, Put, View, a
  <2> HIDE DEF w
  <2>3. Dead(w, n) /\ ~(w.active > n)
    BY <1>1, <2>1, <2>2 DEF Dead, View
  <2>4. RecordFailure(v, n, retry) = w
    BY <1>5 DEF RecordFailure, w
  <2> QED
    BY <2>3, <2>4
<1> QED
  BY <1>4, <1>5

\* Rows and cycles that do not claim a failure anew stay true.
LEMMA ReportsQuiet ==
  ASSUME RowsInv, ResponsesTypeOK, ReportsOK, [ResponsesNext]_vars,
         \A r \in Runs : response'[r] = response[r] \/ RowReports(db'[r], response'[r]),
         \A w \in Workers : \/ worker'[w] = worker[w]
                            \/ CycleReports(db'[worker'[w].run], worker'[w])
  PROVE  ReportsOK'
<1>1. \A q \in Runs : /\ \A n : Dead(db[q], n) => Dead(db'[q], n)
                      /\ \A m, n : Retried(db[q], m, n) => Retried(db'[q], m, n)
  BY RecordsStay
<1>2. ASSUME NEW r \in Runs
      PROVE  RowReports(db'[r], response'[r])
  BY <1>1 DEF ReportsOK, RowReports
<1>3. ASSUME NEW w \in Workers
      PROVE  CycleReports(db'[worker'[w].run], worker'[w])
  <2>1. At(w, "reporting") => worker[w].run \in Runs
    BY BusyCycle DEF At, Cycle
  <2> QED
    BY <1>1, <2>1 DEF ReportsOK, CycleReports, At
<1> QED
  BY <1>2, <1>3 DEF ReportsOK

\* A row that was saved last, as it is found afterwards.
LEMMA SnapshotRows ==
  ASSUME ResponsesTypeOK, NEW r \in Runs, NEW status, NEW n, Snapshot(r, status, n)
  PROVE  /\ response'[r] = [status |-> status, attempt |-> n]
         /\ \A q \in Runs : q # r => response'[q] = response[q]
BY DEF ResponsesTypeOK, Snapshot

LEMMA ReportsStep ==
  ASSUME RowsInv, ResponsesTypeOK, ReportsOK, [ResponsesNext]_vars
  PROVE  ReportsOK'
<1> DEFINE Rows == \A r \in Runs :
             response'[r] = response[r] \/ RowReports(db'[r], response'[r])
           Cycles == \A w \in Workers :
             \/ worker'[w] = worker[w]
             \/ CycleReports(db'[worker'[w].run], worker'[w])
<1> SUFFICES Rows /\ Cycles
  BY ReportsQuiet
<1>r. UNCHANGED response => Rows
  OBVIOUS
<1>c. UNCHANGED worker => Cycles
  OBVIOUS
<1>s. ASSUME NEW r \in Runs, NEW status, NEW n, Snapshot(r, status, n),
             \/ status \notin {"queued", "failed"}
             \/ status = "queued" /\ ~(n > 1)
      PROVE  Rows
  <2>1. /\ response'[r] = [status |-> status, attempt |-> n]
        /\ \A q \in Runs : q # r => response'[q] = response[q]
    BY <1>s, SnapshotRows
  <2>2. RowReports(db'[r], response'[r])
    BY <1>s, <2>1 DEF RowReports
  <2> QED
    BY <2>1, <2>2
<1>m. ASSUME NEW w \in Workers, NEW c, CycleOf(w, c), c.pc # "reporting"
      PROVE  Cycles
  BY <1>m DEF CycleOf, CycleReports
<1>i. ASSUME NEW w \in Workers, Stop(w)
      PROVE  Cycles
  BY <1>i, <1>m, StopMoves DEF Idle
<1> HIDE DEF Rows, Cycles
<1>1. ASSUME NEW r \in Runs, AdmitBackgroundRun(r) \/ SaveQueuedResponse(r)
      PROVE  Rows /\ Cycles
  BY <1>1, <1>s, <1>c DEF AdmitBackgroundRun, SaveQueuedResponse
<1>2. ASSUME NEW r \in Runs, Operate(r) \/ TimePasses(r)
      PROVE  Rows /\ Cycles
  BY <1>2, <1>r, <1>c DEF Operate, TimePasses
<1>3. ASSUME NEW r \in Runs, NEW w \in Workers, NEW n \in AttemptNos,
             NEW t \in Tokens, ClaimWork(w, r, n, t)
      PROVE  Rows /\ Cycles
  <2> DEFINE c == [pc |-> "claimed", run |-> r, attempt |-> n, token |-> t,
                   payload |-> FALSE, retry |-> FALSE, next |-> 0]
  <2>1. CycleOf(w, c) /\ c.pc # "reporting"
    BY <1>3 DEF ClaimWork, CycleOf, ResponsesTypeOK
  <2> QED
    BY <1>3, <1>r, <1>m, <2>1 DEF ClaimWork
<1>4. ASSUME NEW w \in Workers, LoadPayload(w)
      PROVE  Rows /\ Cycles
  <2> DEFINE c == [worker[w] EXCEPT !.pc = "loaded", !.payload = TRUE]
  <2>1. ~At(w, "idle") /\ worker[w] \in Cycle
    BY <1>4, BusyCycle DEF LoadPayload, At
  <2>2. Fail(w, FALSE) \/ CycleOf(w, c)
    BY <1>4 DEF LoadPayload, CycleOf, ResponsesTypeOK
  <2>3. c.pc # "reporting"
    BY <2>1 DEF Cycle
  <2> QED
    BY <1>4, <1>r, <1>m, <2>1, <2>2, <2>3, FailMoves DEF LoadPayload
<1>5. ASSUME NEW w \in Workers, MarkExecutingStep(w) \/ CompleteStep(w)
      PROVE  Rows /\ Cycles
  <2>1. ~At(w, "idle")
    BY <1>5 DEF MarkExecutingStep, CompleteStep, At
  <2>2. Goto(w, "marked") \/ Stop(w) \/ Fail(w, FALSE)
    BY <1>5 DEF MarkExecutingStep, CompleteStep
  <2>3. Cycles
    BY <2>1, <2>2, <1>i, <1>m, GotoMoves, FailMoves DEF InTry
  <2> QED
    BY <1>5, <1>r, <2>3 DEF MarkExecutingStep, CompleteStep
<1>6. ASSUME NEW w \in Workers, SaveInProgress(w) \/ SaveCompleted(w)
      PROVE  Rows /\ Cycles
  <2>1. ~At(w, "idle") /\ worker[w].run \in Runs
    BY <1>6, BusyCycle DEF SaveInProgress, SaveCompleted, At, Cycle
  <2>2. Goto(w, "saved") \/ Goto(w, "delivered")
    BY <1>6 DEF SaveInProgress, SaveCompleted
  <2>3. Cycles
    BY <2>1, <2>2, <1>m, GotoMoves DEF InTry
  <2> QED
    BY <1>6, <1>s, <2>1, <2>3 DEF SaveInProgress, SaveCompleted
<1>7. ASSUME NEW w \in Workers, Dispatch(w)
      PROVE  Rows /\ Cycles
  <2>1. ~At(w, "idle")
    BY <1>7 DEF Dispatch, At
  <2>2. Goto(w, "answered") \/ \E retry \in BOOLEAN : Fail(w, retry)
    BY <1>7 DEF Dispatch
  <2>3. Cycles
    BY <2>1, <2>2, <1>m, GotoMoves, FailMoves DEF InTry
  <2> QED
    BY <1>7, <1>r, <2>3 DEF Dispatch
<1>8. ASSUME NEW w \in Workers, RecordFailureStep(w)
      PROVE  Rows /\ Cycles
  <2> DEFINE c == worker[w]
             v == RecordFailure(db[c.run], c.attempt, c.retry)
  <2>1. /\ c \in Cycle /\ c.run \in Runs /\ c.attempt \in AttemptNos
        /\ c.token \in Tokens /\ c.retry \in BOOLEAN
    BY <1>8, BusyCycle DEF RecordFailureStep, At, Cycle
  <2>2. \/ Stop(w)
        \/ /\ CanRecordFailure(db[c.run], c.attempt, c.token)
           /\ Update(c.run, v)
           /\ worker' = [worker EXCEPT ![w] = Reporting(c, v)]
    BY <1>8 DEF RecordFailureStep
  <2>3. ASSUME CanRecordFailure(db[c.run], c.attempt, c.token),
               Update(c.run, v),
               worker' = [worker EXCEPT ![w] = Reporting(c, v)]
        PROVE  Cycles
    <3>1. IF v.active > c.attempt THEN Retried(v, c.attempt, v.active)
                                  ELSE Dead(v, c.attempt)
      BY <2>1, <2>3, FailureIsRecorded DEF RowsInv
    <3>2. db'[c.run] = v
      BY <2>1, <2>3 DEF Update, RowsInv, TypeOK
    <3> HIDE DEF v, c
    <3>3. CycleReports(v, Reporting(c, v)) /\ Reporting(c, v).run = c.run
      <4>1. v.active > c.attempt => v.active # 0
        <5>1. c.attempt \in Nat /\ (v.active > c.attempt => v.active = c.attempt + 1)
          BY <2>1, <3>1, Numbers DEF Retried
        <5> QED
          BY <5>1
      <4>2. /\ Reporting(c, v).run = c.run /\ Reporting(c, v).attempt = c.attempt
            /\ Reporting(c, v).next = IF v.active > c.attempt THEN v.active ELSE 0
        BY <2>1 DEF Reporting, Cycle
      <4> QED
        BY <3>1, <4>1, <4>2 DEF CycleReports
    <3>4. /\ worker'[w] = Reporting(c, v)
          /\ \A u \in Workers : u # w => worker'[u] = worker[u]
      BY <2>3 DEF ResponsesTypeOK
    <3> QED
      BY <3>2, <3>3, <3>4 DEF Cycles
  <2> QED
    BY <1>8, <1>r, <1>i, <2>2, <2>3 DEF RecordFailureStep
<1>9. ASSUME NEW w \in Workers, ReportFailure(w)
      PROVE  Rows /\ Cycles
  <2> DEFINE c == worker[w]
  <2>1. c.run \in Runs /\ c.attempt \in AttemptNos
    BY <1>9, BusyCycle DEF ReportFailure, At, Cycle
  <2>2. IF c.next = 0 THEN Dead(db[c.run], c.attempt)
                      ELSE Retried(db[c.run], c.attempt, c.next)
    BY <1>9 DEF ReportFailure, At, ReportsOK, CycleReports
  <2>3. UNCHANGED db /\ Stop(w)
        /\ IF c.next # 0 THEN Snapshot(c.run, "queued", c.next)
                         ELSE Snapshot(c.run, "failed", c.attempt)
    BY <1>9 DEF ReportFailure
  <2> HIDE DEF c
  <2>4. Rows
    <3>1. CASE c.next = 0
      <4>1. /\ response'[c.run] = [status |-> "failed", attempt |-> c.attempt]
            /\ \A q \in Runs : q # c.run => response'[q] = response[q]
        BY <2>1, <2>3, <3>1, SnapshotRows
      <4>2. RowReports(db'[c.run], response'[c.run])
        BY <2>2, <2>3, <3>1, <4>1 DEF RowReports
      <4> QED
        BY <4>1, <4>2 DEF Rows
    <3>2. CASE c.next # 0
      <4>1. /\ response'[c.run] = [status |-> "queued", attempt |-> c.next]
            /\ \A q \in Runs : q # c.run => response'[q] = response[q]
        BY <2>1, <2>3, <3>2, SnapshotRows
      <4>2. Retried(db[c.run], c.next - 1, c.next)
        <5>1. Retried(db[c.run], c.attempt, c.next)
          BY <2>2, <3>2
        <5>2. c.attempt \in Nat /\ c.next = c.attempt + 1
          BY <2>1, <5>1, Numbers DEF Retried
        <5>3. c.attempt = c.next - 1
          BY <5>2
        <5> QED
          BY <5>1, <5>3
      <4>3. RowReports(db'[c.run], response'[c.run])
        BY <2>3, <4>1, <4>2 DEF RowReports
      <4> QED
        BY <4>1, <4>3 DEF Rows
    <3> QED
      BY <3>1, <3>2
  <2> QED
    BY <2>3, <2>4, <1>i
<1>10. ASSUME NEW w \in Workers, Crash(w) \/ Raise(w)
       PROVE  Rows /\ Cycles
  <2>1. Stop(w) \/ (~At(w, "idle") /\ Fail(w, FALSE))
    BY <1>10 DEF Crash, Raise, At, InTry
  <2>2. Cycles
    BY <2>1, <1>i, <1>m, FailMoves
  <2> QED
    BY <1>10, <1>r, <2>2 DEF Crash, Raise
<1>11. CASE ReconcileRuns \/ UNCHANGED vars
  BY <1>11, <1>r, <1>c DEF ReconcileRuns, vars
<1> QED
  BY <1>1, <1>2, <1>3, <1>4, <1>5, <1>6, <1>7, <1>8, <1>9, <1>10, <1>11
  DEF ResponsesNext, CycleStep

LEMMA ReportsInit == ResponsesInit => ReportsOK
BY DEF ResponsesInit, ReportsOK, RowReports, CycleReports, Idle

LEMMA ReportsMean == ASSUME ReportsOK PROVE ReportedFailuresAreRecorded
BY DEF ReportsOK, RowReports, Dead, Retried, ReportedFailuresAreRecorded

\* Whatever the workers, crashes, operators and the reconciler do, a response
\* shown as failed has its dead-lettered attempt in the execution tables, and one
\* queued again has the failed attempt and its successor there.
THEOREM FailuresAreRecorded == ResponsesSpec => []ReportedFailuresAreRecorded
<1>1. RowsInv /\ ResponsesTypeOK /\ ReportsOK /\ [ResponsesNext]_vars => ReportsOK'
  BY ReportsStep
<1>2. ReportsOK => ReportedFailuresAreRecorded
  BY ReportsMean
<1> QED
  BY <1>1, <1>2, ReportsInit, ResponsesInvariance, PTL DEF ResponsesSpec

-----------------------------------------------------------------------------
(* Claims are kept for good, and a run succeeds by its worker alone.       *)

ClaimsKept(v, w) ==
  \A t \in Tokens : v.holder[t] # 0 => w.holder[t] = v.holder[t]

NotSucceeding(v, w) ==
  w.state = "succeeded" => v.state = "succeeded" /\ w.active = v.active

Uneventful(v, w) == ClaimsKept(v, w) /\ NotSucceeding(v, w)

LEMMA PutUneventful ==
  ASSUME NEW v \in View, NEW n, NEW state, NEW op, NEW a
  PROVE  LET w == Put(v, n, state, op, a) IN
           /\ ClaimsKept(v, w)
           /\ state # "succeeded" \/ state = v.state => Uneventful(v, w)
<1> DEFINE w == Put(v, n, state, op, a)
<1>1. w.holder = v.holder /\ w.state = state /\ w.active = v.active
  BY DEF Put, View
<1> HIDE DEF w
<1>2. ClaimsKept(v, w)
  BY <1>1 DEF ClaimsKept
<1>3. state # "succeeded" \/ state = v.state => Uneventful(v, w)
  BY <1>1, <1>2 DEF NotSucceeding, Uneventful
<1> QED
  BY <1>2, <1>3 DEF w

LEMMA SupersedeUneventful ==
  ASSUME NEW v, NEW u \in View, u.holder = v.holder,
         NEW n, NEW state, NEW op, NEW a, state # "succeeded"
  PROVE  Uneventful(v, Supersede(u, n, state, op, a))
<1> DEFINE w == Supersede(u, n, state, op, a)
<1>1. w.holder = v.holder /\ w.state = state
  BY DEF Supersede, View
<1> HIDE DEF w
<1>2. Uneventful(v, w)
  BY <1>1 DEF ClaimsKept, NotSucceeding, Uneventful
<1> QED
  BY <1>2 DEF w

LEMMA ClaimUneventful ==
  ASSUME NEW v \in View, NEW n, NEW t \in Tokens, NextToken(v, t)
  PROVE  Uneventful(v, Claim(v, n, t))
<1> DEFINE w == Claim(v, n, t)
<1>1. w.holder = [v.holder EXCEPT ![t] = n] /\ w.state = "dispatching"
  BY DEF Claim, Put, View
<1>2. v.holder[t] = 0
  <2>1. t >= t
    BY Numbers
  <2> QED
    BY <2>1 DEF NextToken
<1> HIDE DEF w
<1>3. Uneventful(v, w)
  BY <1>1, <1>2 DEF ClaimsKept, NotSucceeding, Uneventful, View
<1> QED
  BY <1>3 DEF w

LEMMA RecordFailureUneventful ==
  ASSUME NEW v \in View, NEW n \in AttemptNos, NEW retry \in BOOLEAN
  PROVE  Uneventful(v, RecordFailure(v, n, retry))
<1>1. Uneventful(v, RetryAttempt(v, n))
  <2> DEFINE a == Unleased(Moved(v.attempts[n], "failed", "failed"))
             u == Wrote(v, n, a)
  <2>1. a \in Attempt
    <3>1. v.attempts[n] \in Attempt /\ "failed" \in RUN_STATES
          /\ "failed" \in RUN_OPERATOR_STATES
      BY StateNames DEF View
    <3> QED
      BY <3>1, UnleasedFields
  <2> HIDE DEF a
  <2>2. u \in View /\ u.holder = v.holder
    <3>1. u = [v EXCEPT !.attempts = [v.attempts EXCEPT ![n] = a]]
      BY DEF Wrote, View
    <3> QED
      BY <2>1, <3>1 DEF View
  <2> HIDE DEF u
  <2>3. \A b : Uneventful(v, Supersede(u, v.active + 1, "retry_backoff",
                                       "retry_scheduled", b))
    BY <2>2, SupersedeUneventful
  <2> QED
    BY <2>3 DEF RetryAttempt, Wrote, u, a
<1>2. Uneventful(v, DeadLetterAttempt(v, n))
  <2> DEFINE w == DeadLetterAttempt(v, n)
  <2>1. w.holder = v.holder /\ w.state = "dead_lettered"
    BY DEF DeadLetterAttempt, Put, View
  <2> HIDE DEF w
  <2>2. Uneventful(v, w)
    BY <2>1 DEF ClaimsKept, NotSucceeding, Uneventful
  <2> QED
    BY <2>2 DEF w
<1> QED
  BY <1>1, <1>2 DEF RecordFailure

LEMMA OperatorUneventful ==
  ASSUME RowsInv, NEW r \in Runs, OperatorStep(r)
  PROVE  Uneventful(db[r], db'[r])
<1> DEFINE v == db[r]
<1>1. v \in View /\ db \in [Runs -> View]
  BY DEF RowsInv, TypeOK
<1>2. CASE RequestCancelRun(r)
  <2>1. Uneventful(v, RequestCancel(v))
    BY <1>1, PutUneventful DEF RequestCancel, MoveBoth
  <2> QED
    BY <1>1, <1>2, <2>1 DEF RequestCancelRun, Update
<1>3. CASE AdmitRetryRun(r)
  <2>1. Uneventful(v, AdmitRetry(v))
    BY <1>1, SupersedeUneventful DEF AdmitRetry
  <2> QED
    BY <1>1, <1>3, <2>1 DEF AdmitRetryRun, Update
<1>4. CASE PauseRun(r)
  <2>1. Uneventful(v, Pause(v))
    BY <1>1, PutUneventful DEF Pause
  <2> QED
    BY <1>1, <1>4, <2>1 DEF PauseRun, Update
<1>5. CASE ResumeRun(r)
  <2>1. Uneventful(v, Resume(v))
    BY <1>1, PutUneventful DEF Resume
  <2> QED
    BY <1>1, <1>5, <2>1 DEF ResumeRun, Update
<1>6. CASE InterruptRun(r)
  <2>1. Uneventful(v, Interrupt(v))
    BY <1>1, PutUneventful DEF Interrupt
  <2> QED
    BY <1>1, <1>6, <2>1 DEF InterruptRun, Update
<1>7. CASE QuarantineRun(r)
  <2>1. Uneventful(v, Quarantine(v))
    BY <1>1, PutUneventful DEF Quarantine
  <2> QED
    BY <1>1, <1>7, <2>1 DEF QuarantineRun, Update
<1> QED
  BY <1>2, <1>3, <1>4, <1>5, <1>6, <1>7 DEF OperatorStep

LEMMA UpdateUneventful ==
  ASSUME RowsInv, NEW r \in Runs, NEW v, Update(r, v), Uneventful(db[r], v)
  PROVE  \A q \in Runs : Uneventful(db[q], db'[q])
BY DEF RowsInv, TypeOK, Update, Uneventful, ClaimsKept, NotSucceeding

LEMMA AdmitUneventful ==
  ASSUME RowsInv, NEW r \in Runs, ~Exists(db[r]), Update(r, AdmittedRun)
  PROVE  \A q \in Runs : Uneventful(db[q], db'[q])
<1>1. db[r] = NoRun
  BY DEF RowsInv, RowsOK
<1>2. /\ \A t \in Tokens : db[r].holder[t] = 0
      /\ AdmittedRun.state = "queued"
  BY <1>1 DEF NoRun, AdmittedRun
<1>3. Uneventful(db[r], AdmittedRun)
  BY <1>2 DEF Uneventful, ClaimsKept, NotSucceeding
<1> QED
  BY <1>3, UpdateUneventful

LEMMA ClockUneventful ==
  ASSUME RowsInv, NEW r \in Runs, ClockStep(r)
  PROVE  \A q \in Runs : Uneventful(db[q], db'[q])
<1>1. PICK n \in AttemptNos : BackoffElapses(r, n) \/ LeaseRunsOut(r, n)
  BY DEF ClockStep
<1>2. db[r] \in View /\ db[r].attempts[n] \in Attempt
  BY DEF RowsInv, TypeOK, View
<1>3. PICK a : Update(r, Wrote(db[r], n, a))
  <2>1. CASE BackoffElapses(r, n)
    <3>1. Update(r, Wrote(db[r], n, [db[r].attempts[n] EXCEPT !.due = TRUE]))
      BY <1>2, <2>1 DEF BackoffElapses, Update, Wrote, RowsInv, TypeOK, View
    <3> QED
      BY <3>1
  <2>2. CASE LeaseRunsOut(r, n)
    <3>1. Update(r, Wrote(db[r], n, [db[r].attempts[n] EXCEPT !.overdue = TRUE]))
      BY <1>2, <2>2 DEF LeaseRunsOut, Update, Wrote, RowsInv, TypeOK, View
    <3> QED
      BY <3>1
  <2> QED
    BY <1>1, <2>1, <2>2
<1> DEFINE w == Wrote(db[r], n, a)
<1>4. w.holder = db[r].holder /\ w.state = db[r].state /\ w.active = db[r].active
  BY <1>2 DEF Wrote, View
<1> HIDE DEF w
<1>5. Uneventful(db[r], w)
  BY <1>4 DEF Uneventful, ClaimsKept, NotSucceeding
<1> QED
  BY <1>3, <1>5, UpdateUneventful DEF w

LEMMA ReconcileUneventful ==
  ASSUME RowsInv, ReconcileExpiredLeases
  PROVE  \A q \in Runs : Uneventful(db[q], db'[q])
<1>1. PICK pick \in [Runs -> AttemptNos] :
        db' = [r \in Runs |-> IF CanReconcile(db[r], pick[r])
                              THEN Reconcile(db[r], pick[r]) ELSE db[r]]
  BY DEF ReconcileExpiredLeases
<1> SUFFICES ASSUME NEW q \in Runs PROVE Uneventful(db[q], db'[q])
  OBVIOUS
<1>2. db[q] \in View /\ pick[q] \in AttemptNos
  BY DEF RowsInv, TypeOK
<1>3. db'[q] = Reconcile(db[q], pick[q]) \/ db'[q] = db[q]
  BY <1>1
<1>4. Uneventful(db[q], Reconcile(db[q], pick[q]))
  BY <1>2, PutUneventful DEF Reconcile
<1>5. Uneventful(db[q], db[q])
  BY DEF Uneventful, ClaimsKept, NotSucceeding
<1> QED
  BY <1>3, <1>4, <1>5

\* A run becomes succeeded by nothing but a worker completing its claim.
Completes(w) ==
  LET c == worker[w] IN
    CompleteStep(w) /\ CanComplete(db[c.run], c.attempt, c.token)

LEMMA StepEvents ==
  ASSUME RowsInv, ResponsesTypeOK, [ResponsesNext]_vars
  PROVE  \A q \in Runs :
           /\ ClaimsKept(db[q], db'[q])
           /\ \/ NotSucceeding(db[q], db'[q])
              \/ \E w \in Workers : Completes(w) /\ worker[w].run = q
<1> DEFINE Quiet == \A q \in Runs : Uneventful(db[q], db'[q])
<1>0. ASSUME UNCHANGED db PROVE Quiet
  BY <1>0 DEF Uneventful, ClaimsKept, NotSucceeding
<1>1. ASSUME NEW r \in Runs, AdmitBackgroundRun(r)
      PROVE  Quiet
  BY <1>1, AdmitUneventful DEF AdmitBackgroundRun, AdmitCreate
<1>2. ASSUME NEW r \in Runs, Operate(r)
      PROVE  Quiet
  <2>1. ASSUME NEW source \in Runs, RestartFromScratch(source, r)
        PROVE  Quiet
    BY <2>1, AdmitUneventful DEF RestartFromScratch
  <2>2. ASSUME OperatorStep(r)
        PROVE  Quiet
    <3>1. PICK v : Update(r, v)
      BY <2>2 DEF OperatorStep, RequestCancelRun, AdmitRetryRun, PauseRun,
                  ResumeRun, InterruptRun, QuarantineRun
    <3>2. Uneventful(db[r], db'[r])
      BY <2>2, OperatorUneventful
    <3>3. db'[r] = v
      BY <3>1 DEF Update, RowsInv, TypeOK
    <3> QED
      BY <3>1, <3>2, <3>3, UpdateUneventful
  <2> QED
    BY <1>2, <2>1, <2>2 DEF Operate
<1>3. ASSUME NEW r \in Runs, TimePasses(r)
      PROVE  Quiet
  BY <1>3, ClockUneventful DEF TimePasses
<1>4. ASSUME NEW r \in Runs, NEW w \in Workers, NEW n \in AttemptNos,
             NEW t \in Tokens, ClaimWork(w, r, n, t)
      PROVE  Quiet
  <2>1. db[r] \in View
    BY DEF RowsInv, TypeOK
  <2>2. Uneventful(db[r], Claim(db[r], n, t)) /\ Update(r, Claim(db[r], n, t))
    BY <1>4, <2>1, ClaimUneventful DEF ClaimWork, ClaimNextAttempt
  <2> QED
    BY <2>2, UpdateUneventful
<1>5. ASSUME NEW w \in Workers, MarkExecutingStep(w)
      PROVE  Quiet
  <2> DEFINE c == worker[w]
  <2>1. c.run \in Runs /\ c.attempt \in AttemptNos /\ db[c.run] \in View
    BY <1>5, BusyCycle DEF MarkExecutingStep, At, Cycle, RowsInv, TypeOK
  <2>2. Uneventful(db[c.run], MarkExecuting(db[c.run], c.attempt, "executing"))
    BY <2>1, PutUneventful DEF MarkExecuting
  <2>3. \/ UNCHANGED db
        \/ Update(c.run, MarkExecuting(db[c.run], c.attempt, "executing"))
    BY <1>5 DEF MarkExecutingStep
  <2> QED
    BY <1>0, <2>1, <2>2, <2>3, UpdateUneventful
<1>6. ASSUME NEW w \in Workers, CompleteStep(w)
      PROVE  \/ Quiet
             \/ /\ Completes(w)
                /\ \A q \in Runs : /\ ClaimsKept(db[q], db'[q])
                                   /\ q # worker[w].run => db'[q] = db[q]
  <2> DEFINE c == worker[w]
  <2>1. c.run \in Runs /\ c.attempt \in AttemptNos /\ db[c.run] \in View
    BY <1>6, BusyCycle DEF CompleteStep, At, Cycle, RowsInv, TypeOK
  <2>2. CASE Completes(w)
    <3>1. Update(c.run, Complete(db[c.run], c.attempt))
      BY <1>6, <2>2 DEF Completes, CompleteStep, CompleteAttemptSuccess
    <3>2. ClaimsKept(db[c.run], Complete(db[c.run], c.attempt))
      BY <2>1, PutUneventful DEF Complete
    <3>3. /\ db'[c.run] = Complete(db[c.run], c.attempt)
          /\ \A q \in Runs : q # c.run => db'[q] = db[q]
      BY <2>1, <3>1 DEF Update, RowsInv, TypeOK
    <3> QED
      BY <2>2, <3>2, <3>3 DEF ClaimsKept
  <2>3. CASE ~Completes(w)
    BY <1>0, <1>6, <2>3 DEF Completes, CompleteStep
  <2> QED
    BY <2>2, <2>3
<1>7. ASSUME NEW w \in Workers, RecordFailureStep(w)
      PROVE  Quiet
  <2> DEFINE c == worker[w]
  <2>1. /\ c.run \in Runs /\ c.attempt \in AttemptNos /\ c.retry \in BOOLEAN
        /\ db[c.run] \in View
    BY <1>7, BusyCycle DEF RecordFailureStep, At, Cycle, RowsInv, TypeOK
  <2>2. Uneventful(db[c.run], RecordFailure(db[c.run], c.attempt, c.retry))
    BY <2>1, RecordFailureUneventful
  <2>3. \/ UNCHANGED db
        \/ Update(c.run, RecordFailure(db[c.run], c.attempt, c.retry))
    BY <1>7 DEF RecordFailureStep
  <2> QED
    BY <1>0, <2>1, <2>2, <2>3, UpdateUneventful
<1>8. ASSUME ReconcileRuns PROVE Quiet
  BY <1>8, ReconcileUneventful DEF ReconcileRuns
<1>9. ASSUME NEW r \in Runs, SaveQueuedResponse(r)
      PROVE  UNCHANGED db
  BY <1>9 DEF SaveQueuedResponse
<1>10. ASSUME NEW w \in Workers,
              \/ LoadPayload(w) \/ SaveInProgress(w) \/ Dispatch(w)
              \/ SaveCompleted(w) \/ ReportFailure(w) \/ Crash(w) \/ Raise(w)
       PROVE  UNCHANGED db
  BY <1>10 DEF LoadPayload, SaveInProgress, Dispatch, SaveCompleted,
               ReportFailure, Crash, Raise
<1>11. ASSUME UNCHANGED vars PROVE Quiet
  BY <1>0, <1>11 DEF vars
<1> HIDE DEF Quiet
<1>12. \/ Quiet
       \/ \E w \in Workers :
            /\ Completes(w)
            /\ \A q \in Runs : /\ ClaimsKept(db[q], db'[q])
                               /\ q # worker[w].run => db'[q] = db[q]
  BY <1>0, <1>1, <1>2, <1>3, <1>4, <1>5, <1>6, <1>7, <1>8, <1>9, <1>10, <1>11
  DEF ResponsesNext, CycleStep
<1> QED
  BY <1>12 DEF Quiet, Uneventful, NotSucceeding

-----------------------------------------------------------------------------
(* One worker process: a success has its answer stored.                    *)

OneWorker == \A u, w \in Workers : u = w

PastLoading == {"loaded", "marked", "saved", "answered", "delivered"}

AnswerOf(n) == [status |-> "completed", attempt |-> n]

\* A response row s of a run with rows v, and a cycle c on that run.
RowAnswers(v, s) == v.state = "succeeded" => s = AnswerOf(v.active)

CycleAnswers(v, s, c) ==
  c.pc # "idle" =>
    /\ v.state # "succeeded"
    /\ v.attempts[c.attempt].state # "absent"
    /\ c.pc \in PastLoading => s.status \notin {"absent", "unsaved"}
    /\ c.pc = "delivered" => s = AnswerOf(c.attempt)

AnswersOK ==
  /\ \A r \in Runs : RowAnswers(db[r], response[r])
  /\ \A w \in Workers :
       CycleAnswers(db[worker[w].run], response[worker[w].run], worker[w])

\* A step of the one worker that completes nothing.
LEMMA CycleStepAnswers ==
  ASSUME OneWorker, ResponsesTypeOK, AnswersOK,
         \A q \in Runs : StaysBegun(db[q], db'[q]),
         \A q \in Runs : NotSucceeding(db[q], db'[q]),
         NEW w \in Workers, ~At(w, "idle"),
         NEW c, CycleOf(w, c), c = Idle \/ SameClaim(worker[w], c),
         \A q \in Runs : q # worker[w].run => response'[q] = response[q],
         c.pc \in PastLoading =>
           response'[worker[w].run].status \notin {"absent", "unsaved"},
         c.pc = "delivered" =>
           response'[worker[w].run] = AnswerOf(worker[w].attempt)
  PROVE  AnswersOK'
<1> DEFINE r == worker[w].run
           n == worker[w].attempt
<1>1. r \in Runs /\ n \in AttemptNos
  BY BusyCycle DEF Cycle
<1>2. db[r].state # "succeeded" /\ db[r].attempts[n].state # "absent"
  BY DEF AnswersOK, CycleAnswers, At
<1>3. db'[r].state # "succeeded" /\ db'[r].attempts[n].state # "absent"
  BY <1>1, <1>2 DEF NotSucceeding, StaysBegun, Ages
<1>4. ASSUME NEW q \in Runs
      PROVE  RowAnswers(db'[q], response'[q])
  <2>1. CASE q = r
    BY <1>3, <2>1 DEF RowAnswers
  <2>2. CASE q # r
    BY <2>2 DEF AnswersOK, RowAnswers, NotSucceeding
  <2> QED
    BY <2>1, <2>2
<1>5. CycleAnswers(db'[worker'[w].run], response'[worker'[w].run], worker'[w])
  <2>1. CASE c = Idle
    BY <2>1 DEF CycleOf, CycleAnswers, Idle
  <2>2. CASE SameClaim(worker[w], c)
    <3>1. worker'[w] = c /\ c.run = r /\ c.attempt = n
      BY <2>2 DEF CycleOf, SameClaim
    <3> HIDE DEF r, n
    <3> QED
      BY <1>3, <3>1 DEF CycleAnswers, r, n
  <2> QED
    BY <2>1, <2>2
<1>6. \A u \in Workers : u = w
  BY DEF OneWorker
<1> QED
  BY <1>4, <1>5, <1>6 DEF AnswersOK

\* A step of the API, an operator or the clock.
LEMMA OtherStepAnswers ==
  ASSUME ResponsesTypeOK, AnswersOK,
         \A q \in Runs : StaysBegun(db[q], db'[q]),
         \A q \in Runs : NotSucceeding(db[q], db'[q]),
         UNCHANGED worker,
         \A q \in Runs :
           \/ response'[q] = response[q]
           \/ response[q].status = "unsaved" /\ response'[q].status = "queued"
           \/ ~Exists(db[q]) /\ db[q] = NoRun
  PROVE  AnswersOK'
<1>1. ASSUME NEW q \in Runs
      PROVE  RowAnswers(db'[q], response'[q])
  BY DEF AnswersOK, RowAnswers, NotSucceeding, AnswerOf, NoRun
<1>2. ASSUME NEW w \in Workers
      PROVE  CycleAnswers(db'[worker[w].run], response'[worker[w].run], worker[w])
  <2> SUFFICES ASSUME ~At(w, "idle")
               PROVE  CycleAnswers(db'[worker[w].run],
                                   response'[worker[w].run], worker[w])
    BY DEF At, CycleAnswers
  <2> DEFINE r == worker[w].run
             n == worker[w].attempt
  <2>1. r \in Runs /\ n \in AttemptNos
    BY BusyCycle DEF Cycle
  <2>2. CycleAnswers(db[r], response[r], worker[w])
    BY DEF AnswersOK
  <2>3. db[r].state # "succeeded" /\ db[r].attempts[n].state # "absent"
    BY <2>2 DEF CycleAnswers, At
  <2>4. db'[r].state # "succeeded" /\ db'[r].attempts[n].state # "absent"
    BY <2>1, <2>3 DEF NotSucceeding, StaysBegun, Ages
  <2>5. \/ response'[r] = response[r]
        \/ response[r].status = "unsaved" /\ response'[r].status = "queued"
    BY <2>1, <2>3 DEF NoRun, NoAttempt
  <2> HIDE DEF r
  <2>6. CycleAnswers(db'[r], response'[r], worker[w])
    BY <2>2, <2>4, <2>5 DEF CycleAnswers, AnswerOf, PastLoading
  <2> QED
    BY <2>6 DEF r
<1> QED
  BY <1>1, <1>2 DEF AnswersOK

\* Completing the claim of an answer that is stored.
LEMMA CompletionAnswers ==
  ASSUME OneWorker, RowsInv, ResponsesTypeOK, AnswersOK,
         NEW w \in Workers, Completes(w)
  PROVE  AnswersOK'
<1> DEFINE r == worker[w].run
           n == worker[w].attempt
           t == worker[w].token
<1>1. r \in Runs /\ n \in AttemptNos /\ db[r] \in View /\ RowsOK(db[r])
  BY BusyCycle DEF Completes, CompleteStep, At, Cycle, RowsInv, TypeOK
<1>2. /\ CanComplete(db[r], n, t) /\ Stop(w) /\ UNCHANGED response
      /\ Update(r, Complete(db[r], n)) /\ At(w, "delivered")
  BY DEF Completes, CompleteStep, CompleteAttemptSuccess
<1>3. response[r] = AnswerOf(n)
  BY <1>2 DEF AnswersOK, CycleAnswers, At
<1>4. n = db[r].active
  <2>1. db[r].attempts[n].state \in IN_FLIGHT_ATTEMPT_STATES
    BY <1>2 DEF CanComplete
  <2> HIDE DEF r, n
  <2> QED
    BY <1>1, <2>1, LiveIsCurrent DEF IN_FLIGHT_ATTEMPT_STATES, RETRYABLE_RUN_STATES
<1>5. /\ db'[r] = Complete(db[r], n)
      /\ \A q \in Runs : q # r => db'[q] = db[q]
  BY <1>1, <1>2 DEF Update, RowsInv, TypeOK
<1>6. db'[r].active = n
  BY <1>1, <1>4, <1>5 DEF Complete, Put, View
<1>7. ASSUME NEW q \in Runs
      PROVE  RowAnswers(db'[q], response'[q])
  BY <1>2, <1>3, <1>5, <1>6 DEF AnswersOK, RowAnswers
<1>8. CycleAnswers(db'[worker'[w].run], response'[worker'[w].run], worker'[w])
  BY <1>2, StopMoves DEF CycleOf, CycleAnswers, Idle
<1> QED
  BY <1>7, <1>8 DEF AnswersOK, OneWorker

\* A claim is made of an attempt waiting for it, and its run has not succeeded.
LEMMA ClaimAnswers ==
  ASSUME OneWorker, RowsInv, ResponsesTypeOK, AnswersOK,
         \A q \in Runs : StaysBegun(db[q], db'[q]),
         \A q \in Runs : NotSucceeding(db[q], db'[q]),
         NEW w \in Workers, NEW r \in Runs, NEW n \in AttemptNos, NEW t \in Tokens,
         ClaimWork(w, r, n, t)
  PROVE  AnswersOK'
<1>1. /\ db[r].state \in CLAIMABLE_RUN_STATES
      /\ db[r].attempts[n].state \in CLAIMABLE_RUN_STATES
  <2>1. RowsOK(db[r]) /\ db[r].attempts[n].state \in CLAIMABLE_RUN_STATES
    BY DEF ClaimWork, ClaimNextAttempt, CanClaim, RowsInv
  <2>2. Exists(db[r]) /\ n = db[r].active
    BY <2>1, LiveIsCurrent DEF CLAIMABLE_RUN_STATES, RETRYABLE_RUN_STATES
  <2>3. db[r].attempts[n].state = db[r].state
    BY <2>1, <2>2, RowsFacts DEF Coherent
  <2> QED
    BY <2>1, <2>3
<1>2. db'[r].state # "succeeded" /\ db'[r].attempts[n].state # "absent"
  BY <1>1 DEF CLAIMABLE_RUN_STATES, NotSucceeding, StaysBegun, Ages
<1>3. /\ worker'[w].pc = "claimed" /\ worker'[w].run = r
      /\ worker'[w].attempt = n /\ UNCHANGED response
  BY DEF ClaimWork, ResponsesTypeOK
<1>4. CycleAnswers(db'[worker'[w].run], response'[worker'[w].run], worker'[w])
  BY <1>2, <1>3 DEF CycleAnswers, PastLoading
<1>5. \A q \in Runs : RowAnswers(db'[q], response'[q])
  BY <1>3 DEF AnswersOK, RowAnswers, NotSucceeding
<1> QED
  BY <1>4, <1>5 DEF AnswersOK, OneWorker

LEMMA AnswersStep ==
  ASSUME OneWorker, RowsInv, ResponsesTypeOK, AnswersOK,
         [ResponsesNext]_vars
  PROVE  AnswersOK'
<1>0. \A q \in Runs : StaysBegun(db[q], db'[q])
  BY StepStaysBegun
<1> SUFFICES ASSUME \A w \in Workers : ~Completes(w)
             PROVE  AnswersOK'
  BY CompletionAnswers
<1>e. \A q \in Runs : NotSucceeding(db[q], db'[q])
  BY StepEvents
<1>o. ASSUME UNCHANGED worker,
             \A q \in Runs :
               \/ response'[q] = response[q]
               \/ response[q].status = "unsaved" /\ response'[q].status = "queued"
               \/ ~Exists(db[q]) /\ db[q] = NoRun
      PROVE  AnswersOK'
  BY <1>0, <1>e, <1>o, OtherStepAnswers
<1>m. ASSUME NEW w \in Workers, ~At(w, "idle"), UNCHANGED response,
             NEW c, CycleOf(w, c), SameClaim(worker[w], c), c.pc # "delivered",
             \/ c.pc \notin PastLoading \/ worker[w].pc \in PastLoading
             \/ response[worker[w].run].status \notin {"absent", "unsaved"}
      PROVE  AnswersOK'
  <2>1. worker[w].pc \in PastLoading =>
          response[worker[w].run].status \notin {"absent", "unsaved"}
    BY <1>m DEF AnswersOK, CycleAnswers, At
  <2> QED
    BY <1>0, <1>e, <1>m, <2>1, CycleStepAnswers
<1>i. ASSUME NEW w \in Workers, ~At(w, "idle"), Stop(w),
             \A q \in Runs : q # worker[w].run => response'[q] = response[q]
      PROVE  AnswersOK'
  BY <1>0, <1>e, <1>i, StopMoves, CycleStepAnswers DEF Idle, PastLoading
<1>f. ASSUME NEW w \in Workers, ~At(w, "idle"), NEW retry \in BOOLEAN,
             Fail(w, retry), UNCHANGED response
      PROVE  AnswersOK'
  BY <1>f, <1>m, FailMoves DEF PastLoading
<1>1. ASSUME NEW r \in Runs, AdmitBackgroundRun(r)
      PROVE  AnswersOK'
  <2>1. \A q \in Runs : response'[q] = response[q] \/ q = r
    BY <1>1, SnapshotRows DEF AdmitBackgroundRun
  <2>2. ~Exists(db[r]) /\ db[r] = NoRun
    BY <1>1 DEF AdmitBackgroundRun, AdmitCreate, RowsInv, RowsOK
  <2> QED
    BY <1>1, <1>o, <2>1, <2>2 DEF AdmitBackgroundRun
<1>2. ASSUME NEW r \in Runs, SaveQueuedResponse(r)
      PROVE  AnswersOK'
  <2>1. /\ response[r].status = "unsaved"
        /\ response'[r] = [status |-> "queued", attempt |-> 1]
        /\ \A q \in Runs : q # r => response'[q] = response[q]
    BY <1>2, SnapshotRows DEF SaveQueuedResponse
  <2> QED
    BY <1>2, <1>o, <2>1 DEF SaveQueuedResponse
<1>3. ASSUME NEW r \in Runs, Operate(r) \/ TimePasses(r)
      PROVE  AnswersOK'
  BY <1>3, <1>o DEF Operate, TimePasses
<1>4. ASSUME NEW r \in Runs, NEW w \in Workers, NEW n \in AttemptNos,
             NEW t \in Tokens, ClaimWork(w, r, n, t)
      PROVE  AnswersOK'
  BY <1>0, <1>e, <1>4, ClaimAnswers
<1>5. ASSUME NEW w \in Workers, LoadPayload(w)
      PROVE  AnswersOK'
  <2> DEFINE c == [worker[w] EXCEPT !.pc = "loaded", !.payload = TRUE]
  <2>1. ~At(w, "idle") /\ worker[w] \in Cycle
    BY <1>5, BusyCycle DEF LoadPayload, At
  <2>2. \/ Fail(w, FALSE)
        \/ /\ CycleOf(w, c)
           /\ response[worker[w].run].status \notin {"absent", "unsaved"}
    BY <1>5 DEF LoadPayload, CycleOf, ResponsesTypeOK
  <2>3. c.pc = "loaded" /\ SameClaim(worker[w], c)
    BY <2>1 DEF Cycle, SameClaim, InTry
  <2> HIDE DEF c
  <2> QED
    BY <1>5, <1>m, <1>f, <2>1, <2>2, <2>3 DEF LoadPayload
<1>6. ASSUME NEW w \in Workers, MarkExecutingStep(w)
      PROVE  AnswersOK'
  <2>1. ~At(w, "idle") /\ worker[w].pc \in PastLoading /\ UNCHANGED response
    BY <1>6 DEF MarkExecutingStep, At, PastLoading
  <2>2. Goto(w, "marked") \/ Fail(w, FALSE)
    BY <1>6 DEF MarkExecutingStep
  <2>3. CASE Goto(w, "marked")
    BY <1>m, <2>1, <2>3, GotoMoves DEF InTry
  <2>4. CASE Fail(w, FALSE)
    BY <1>f, <2>1, <2>4
  <2> QED
    BY <2>2, <2>3, <2>4
<1>7. ASSUME NEW w \in Workers, SaveInProgress(w) \/ SaveCompleted(w)
      PROVE  AnswersOK'
  <2> DEFINE r == worker[w].run
             n == worker[w].attempt
             s == response'[r]
  <2>1. ~At(w, "idle") /\ r \in Runs
    BY <1>7, BusyCycle DEF SaveInProgress, SaveCompleted, At, Cycle
  <2>2. \/ Goto(w, "saved") /\ Snapshot(r, "in_progress", n)
        \/ Goto(w, "delivered") /\ Snapshot(r, "completed", n)
    BY <1>7 DEF SaveInProgress, SaveCompleted
  <2>3. PICK pc \in {"saved", "delivered"} :
          /\ Goto(w, pc)
          /\ s.status \notin {"absent", "unsaved"}
          /\ pc = "delivered" => s = AnswerOf(n)
          /\ \A q \in Runs : q # r => response'[q] = response[q]
    <3>1. CASE Goto(w, "saved") /\ Snapshot(r, "in_progress", n)
      <4>1. /\ s = [status |-> "in_progress", attempt |-> n]
            /\ \A q \in Runs : q # r => response'[q] = response[q]
        BY <2>1, <3>1, SnapshotRows
      <4> QED
        BY <3>1, <4>1
    <3>2. CASE Goto(w, "delivered") /\ Snapshot(r, "completed", n)
      <4>1. /\ s = [status |-> "completed", attempt |-> n]
            /\ \A q \in Runs : q # r => response'[q] = response[q]
        BY <2>1, <3>2, SnapshotRows
      <4> QED
        BY <3>2, <4>1 DEF AnswerOf
    <3> QED
      BY <2>2, <3>1, <3>2
  <2>4. PICK c : CycleOf(w, c) /\ SameClaim(worker[w], c) /\ c.pc = pc
    BY <2>1, <2>3, GotoMoves DEF InTry
  <2> QED
    BY <1>0, <1>e, <2>1, <2>3, <2>4, CycleStepAnswers
<1>8. ASSUME NEW w \in Workers, Dispatch(w)
      PROVE  AnswersOK'
  <2>1. ~At(w, "idle") /\ worker[w].pc \in PastLoading /\ UNCHANGED response
    BY <1>8 DEF Dispatch, At, PastLoading
  <2>2. Goto(w, "answered") \/ \E retry \in BOOLEAN : Fail(w, retry)
    BY <1>8 DEF Dispatch
  <2> QED
    BY <1>m, <1>f, <2>1, <2>2, GotoMoves DEF InTry
<1>9. ASSUME NEW w \in Workers, CompleteStep(w)
      PROVE  AnswersOK'
  <2>1. ~At(w, "idle") /\ Fail(w, FALSE) /\ UNCHANGED response
    BY <1>9 DEF CompleteStep, Completes, At
  <2> QED
    BY <1>f, <2>1
<1>10. ASSUME NEW w \in Workers, RecordFailureStep(w)
       PROVE  AnswersOK'
  <2> DEFINE c == worker[w]
             v == RecordFailure(db[c.run], c.attempt, c.retry)
  <2>1. ~At(w, "idle") /\ c \in Cycle /\ UNCHANGED response
    BY <1>10, BusyCycle DEF RecordFailureStep, At
  <2>2. \/ Stop(w)
        \/ Update(c.run, v) /\ worker' = [worker EXCEPT ![w] = Reporting(c, v)]
    BY <1>10 DEF RecordFailureStep
  <2>3. ASSUME Update(c.run, v), worker' = [worker EXCEPT ![w] = Reporting(c, v)]
        PROVE  AnswersOK'
    <3>1. worker'[w] = Reporting(c, v) /\ CycleOf(w, worker'[w])
      BY <2>3 DEF ResponsesTypeOK, CycleOf
    <3>2. worker'[w] \in Cycle \cup {Idle}
      BY TypeStep DEF ResponsesTypeOK
    <3> HIDE DEF v, c
    <3>3. /\ Reporting(c, v).pc = "reporting" /\ Reporting(c, v).run = c.run
          /\ Reporting(c, v).attempt = c.attempt /\ Reporting(c, v).token = c.token
      BY <2>1 DEF Reporting, Cycle
    <3>4. SameClaim(c, worker'[w]) /\ worker'[w].pc = "reporting"
      BY <3>1, <3>2, <3>3 DEF SameClaim, Idle
    <3> QED
      BY <1>m, <2>1, <3>1, <3>4 DEF PastLoading, c
  <2> QED
    BY <1>i, <2>1, <2>2, <2>3
<1>11. ASSUME NEW w \in Workers, ReportFailure(w)
       PROVE  AnswersOK'
  <2>1. ~At(w, "idle") /\ Stop(w) /\ worker[w].run \in Runs
    BY <1>11, BusyCycle DEF ReportFailure, At, Cycle
  <2>2. \A q \in Runs : q # worker[w].run => response'[q] = response[q]
    BY <1>11, <2>1, SnapshotRows DEF ReportFailure
  <2> QED
    BY <1>i, <2>1, <2>2
<1>12. ASSUME NEW w \in Workers, Crash(w) \/ Raise(w)
       PROVE  AnswersOK'
  <2>1. /\ ~At(w, "idle") /\ UNCHANGED response
        /\ Stop(w) \/ Fail(w, FALSE)
    BY <1>12 DEF Crash, Raise, At, InTry
  <2> QED
    BY <1>i, <1>f, <2>1
<1>13. CASE ReconcileRuns \/ UNCHANGED vars
  BY <1>13, <1>o DEF ReconcileRuns, vars
<1> QED
  BY <1>1, <1>2, <1>3, <1>4, <1>5, <1>6, <1>7, <1>8, <1>9, <1>10, <1>11, <1>12,
     <1>13
  DEF ResponsesNext, CycleStep

LEMMA AnswersInit == ResponsesInit => AnswersOK
BY DEF ResponsesInit, Init, NoRun, Idle, AnswersOK, RowAnswers, CycleAnswers

\* With one worker process, whatever crashes and raises, however operators
\* interrupt, quarantine and retry: a run that has succeeded has its answer
\* stored, under the attempt that succeeded.
THEOREM SuccessHasItsAnswer ==
  ASSUME OneWorker
  PROVE  ResponsesSpec => []SuccessIsAnswered
<1>1. RowsInv /\ ResponsesTypeOK /\ AnswersOK /\ [ResponsesNext]_vars => AnswersOK'
  BY AnswersStep
<1>2. AnswersOK => SuccessIsAnswered
  BY DEF AnswersOK, RowAnswers, AnswerOf, SuccessIsAnswered
<1> QED
  BY <1>1, <1>2, AnswersInit, ResponsesInvariance, PTL DEF ResponsesSpec

-----------------------------------------------------------------------------
(* One worker process, no call of which raises: an answer that is stored   *)
(* is not taken back.                                                      *)

\* The attempt of a completed row s has begun, so that it is never claimed again.
RowFinal(v, s) ==
  s.status = "completed" =>
    s.attempt \in AttemptNos /\ v.attempts[s.attempt].state \in Begun

\* A cycle c on a run whose row is completed works on a later attempt, or it has
\* stored the answer itself and has nothing left to do but to complete its
\* claim, or to learn that it has lost it.
CycleFinal(v, s, c) ==
  c.pc # "idle" =>
    /\ v.holder[c.token] = c.attempt
    /\ c.pc \in {"marked", "saved", "answered", "delivered"} =>
         v.attempts[c.attempt].state \in Begun
    /\ s.status = "completed" =>
         \/ s.attempt < c.attempt
         \/ /\ s.attempt = c.attempt
            /\ \/ c.pc = "delivered"
               \/ c.pc = "failing" /\ v.attempts[c.attempt].token # c.token

FinalOK ==
  /\ \A r \in Runs : RowFinal(db[r], response[r])
  /\ \A w \in Workers :
       CycleFinal(db[worker[w].run], response[worker[w].run], worker[w])

\* What a row may become.
TakesNothingBack ==
  \A r \in Runs :
    response[r].status = "completed" /\ response'[r] # response[r] =>
      response'[r].attempt > response[r].attempt

\* What every step keeps of the rows of a run.
Lasting(v, w) ==
  StaysBegun(v, w) /\ ClaimsKept(v, w) /\ TokensStayRevoked(v, w)

LEMMA StepLasts ==
  ASSUME RowsInv, ResponsesTypeOK, [ResponsesNext]_vars
  PROVE  \A q \in Runs : Lasting(db[q], db'[q])
<1>1. StepsOK
  BY StepRefines, UndecidedStepOK
<1> QED
  BY <1>1, StepStaysBegun, StepEvents DEF StepsOK, Lasting

\* A claim that is lost is not found again.
LEMMA ClaimLasts ==
  ASSUME NEW v, NEW w, Lasting(v, w), NEW n \in AttemptNos, NEW t \in Tokens,
         v.holder[t] = n
  PROVE  /\ w.holder[t] = n
         /\ v.attempts[n].token # t => w.attempts[n].token # t
         /\ v.attempts[n].state \in Begun => w.attempts[n].state \in Begun
<1>1. n # 0
  BY Numbers
<1>2. t \in Drawn(v)
  BY <1>1 DEF Drawn
<1> QED
  BY <1>1, <1>2 DEF Lasting, ClaimsKept, TokensStayRevoked, StaysBegun, Ages

LEMMA RowLasts ==
  ASSUME NEW v, NEW w, Lasting(v, w), NEW s, RowFinal(v, s)
  PROVE  RowFinal(w, s)
BY DEF Lasting, StaysBegun, Ages, RowFinal

\* A step of the API, an operator or the clock.
LEMMA OtherStepFinal ==
  ASSUME ResponsesTypeOK, FinalOK, \A q \in Runs : Lasting(db[q], db'[q]),
         UNCHANGED worker,
         \A q \in Runs :
           \/ response'[q] = response[q]
           \/ response[q].status # "completed" /\ response'[q].status # "completed"
  PROVE  FinalOK' /\ TakesNothingBack
<1>1. ASSUME NEW q \in Runs
      PROVE  RowFinal(db'[q], response'[q])
  <2>1. RowFinal(db'[q], response[q])
    BY RowLasts DEF FinalOK
  <2> QED
    BY <2>1 DEF RowFinal
<1>2. ASSUME NEW w \in Workers
      PROVE  CycleFinal(db'[worker[w].run], response'[worker[w].run], worker[w])
  <2> SUFFICES ASSUME ~At(w, "idle")
               PROVE  CycleFinal(db'[worker[w].run],
                                 response'[worker[w].run], worker[w])
    BY DEF At, CycleFinal
  <2> DEFINE c == worker[w]
             v == db[c.run]
             u == db'[c.run]
             n == c.attempt
             t == c.token
  <2>1. c.run \in Runs /\ n \in AttemptNos /\ t \in Tokens
    BY BusyCycle DEF Cycle
  <2>2. CycleFinal(v, response[c.run], c) /\ c.pc # "idle"
    BY DEF FinalOK, At
  <2>3. v.holder[t] = n
    BY <2>2 DEF CycleFinal
  <2>4. /\ u.holder[t] = n
        /\ v.attempts[n].token # t => u.attempts[n].token # t
        /\ v.attempts[n].state \in Begun => u.attempts[n].state \in Begun
    <3>1. Lasting(v, u)
      BY <2>1
    <3> HIDE DEF u, v, n, t, c
    <3> QED
      BY <2>1, <2>3, <3>1, ClaimLasts
  <2>5. \/ response'[c.run] = response[c.run]
        \/ response'[c.run].status # "completed"
    BY <2>1
  <2> HIDE DEF u, v, c
  <2>6. CycleFinal(u, response'[c.run], c)
    BY <2>2, <2>4, <2>5 DEF CycleFinal
  <2> QED
    BY <2>6 DEF u, c
<1> QED
  BY <1>1, <1>2 DEF FinalOK, TakesNothingBack

\* A step of the one worker.
LEMMA CycleStepFinal ==
  ASSUME OneWorker, ResponsesTypeOK, FinalOK,
         \A q \in Runs : Lasting(db[q], db'[q]),
         NEW w \in Workers, ~At(w, "idle"),
         NEW c, CycleOf(w, c), c = Idle \/ SameClaim(worker[w], c),
         \A q \in Runs : q # worker[w].run => response'[q] = response[q],
         \/ response'[worker[w].run] = response[worker[w].run]
         \/ /\ RowFinal(db'[worker[w].run], response'[worker[w].run])
            /\ response[worker[w].run].status = "completed" =>
                 response'[worker[w].run].attempt > response[worker[w].run].attempt,
         c.pc \in {"marked", "saved", "answered", "delivered"} =>
           db'[worker[w].run].attempts[worker[w].attempt].state \in Begun,
         c # Idle /\ response'[worker[w].run].status = "completed" =>
           \/ response'[worker[w].run].attempt < worker[w].attempt
           \/ /\ response'[worker[w].run].attempt = worker[w].attempt
              /\ \/ c.pc = "delivered"
                 \/ /\ c.pc = "failing"
                    /\ db'[worker[w].run].attempts[worker[w].attempt].token
                         # worker[w].token
  PROVE  FinalOK' /\ TakesNothingBack
<1> DEFINE r == worker[w].run
           n == worker[w].attempt
           t == worker[w].token
<1>1. r \in Runs /\ n \in AttemptNos /\ t \in Tokens
  BY BusyCycle DEF Cycle
<1>2. \A q \in Runs : RowFinal(db'[q], response[q])
  BY RowLasts DEF FinalOK
<1>3. \A q \in Runs : RowFinal(db'[q], response'[q])
  BY <1>2
<1>4. db'[r].holder[t] = n
  <2>1. db[r].holder[t] = n
    BY DEF FinalOK, CycleFinal, At
  <2>2. Lasting(db[r], db'[r])
    BY <1>1
  <2> DEFINE v == db[r]
             u == db'[r]
  <2>3. Lasting(v, u) /\ v.holder[t] = n
    BY <2>1, <2>2
  <2> HIDE DEF v, u, n, t
  <2>4. u.holder[t] = n
    BY <1>1, <2>3, ClaimLasts
  <2> QED
    BY <2>4 DEF u
<1>5. CycleFinal(db'[worker'[w].run], response'[worker'[w].run], worker'[w])
  <2>1. CASE c = Idle
    BY <2>1 DEF CycleOf, CycleFinal, Idle
  <2>2. CASE c # Idle /\ SameClaim(worker[w], c)
    <3>1. worker'[w] = c /\ c.run = r /\ c.attempt = n /\ c.token = t
      BY <2>2 DEF CycleOf, SameClaim
    <3>2. /\ c.pc \in {"marked", "saved", "answered", "delivered"} =>
               db'[r].attempts[n].state \in Begun
          /\ response'[r].status = "completed" =>
               \/ response'[r].attempt < n
               \/ /\ response'[r].attempt = n
                  /\ \/ c.pc = "delivered"
                     \/ c.pc = "failing" /\ db'[r].attempts[n].token # t
      BY <2>2
    <3> HIDE DEF r, n, t
    <3> QED
      BY <1>4, <3>1, <3>2 DEF CycleFinal
  <2> QED
    BY <2>1, <2>2
<1>6. TakesNothingBack
  BY DEF TakesNothingBack
<1> QED
  BY <1>3, <1>5, <1>6 DEF FinalOK, OneWorker

\* A row is completed for an attempt no later than the run's current one.
LEMMA CompletedIsPast ==
  ASSUME NEW v, RowsOK(v), NEW s, RowFinal(v, s), s.status = "completed",
         NEW n \in AttemptNos, v.attempts[n].state \in CLAIMABLE_RUN_STATES
  PROVE  s.attempt < n
<1>1. s.attempt \in AttemptNos /\ v.attempts[s.attempt].state \in Begun
  BY DEF RowFinal
<1>2. s.attempt # n /\ v.attempts[s.attempt].state # "absent"
  BY <1>1, BegunStates DEF CLAIMABLE_RUN_STATES, Begun
<1>3. n = v.active
  BY LiveIsCurrent DEF CLAIMABLE_RUN_STATES, RETRYABLE_RUN_STATES
<1>4. ~(s.attempt > v.active)
  BY <1>1, <1>2, RowsImplySuperseded DEF SupersededFinished
<1>5. s.attempt \in Nat /\ n \in Nat
  BY <1>1, Numbers
<1> QED
  BY <1>2, <1>3, <1>4, <1>5

\* Whoever is refused to complete its claim has lost the claim.
LEMMA RefusedIsLost ==
  ASSUME NEW v, RowsOK(v), NEW n \in AttemptNos, NEW t \in Tokens,
         ~CanComplete(v, n, t)
  PROVE  v.attempts[n].token # t
<1> SUFFICES ASSUME v.attempts[n].token = t
             PROVE  CanComplete(v, n, t)
  OBVIOUS
<1>1. t # 0
  BY Numbers
<1>2. Exists(v) /\ n = v.active /\ v.active = v.current
  BY <1>1, LiveIsCurrent
<1>3. Coherent(v, v.attempts[n])
  BY <1>2, RowsFacts
<1>4. /\ v.attempts[n].state \in IN_FLIGHT_ATTEMPT_STATES
      /\ v.state = v.attempts[n].state
  BY <1>1, <1>3 DEF Coherent
<1> QED
  BY <1>2, <1>4 DEF CanComplete

LEMMA FinalStep ==
  ASSUME OneWorker, "error" \notin Faults,
         RowsInv, ResponsesTypeOK, ReportsOK, FinalOK, [ResponsesNext]_vars
  PROVE  FinalOK' /\ TakesNothingBack
<1> DEFINE Done == FinalOK' /\ TakesNothingBack
<1> SUFFICES Done
  OBVIOUS
<1>0. \A q \in Runs : Lasting(db[q], db'[q])
  BY StepLasts
<1>o. ASSUME UNCHANGED worker,
             \A q \in Runs :
               \/ response'[q] = response[q]
               \/ response[q].status # "completed" /\ response'[q].status # "completed"
      PROVE  Done
  BY <1>0, <1>o, OtherStepFinal
<1>i. ASSUME NEW w \in Workers, ~At(w, "idle"), Stop(w), UNCHANGED response
      PROVE  Done
  BY <1>0, <1>i, StopMoves, CycleStepFinal DEF Idle
\* The claim of a worker that is neither delivering nor failing is a later one.
<1>l. ASSUME NEW w \in Workers, worker[w].pc \notin {"idle", "delivered", "failing"},
             response[worker[w].run].status = "completed"
      PROVE  response[worker[w].run].attempt < worker[w].attempt
  BY <1>l DEF FinalOK, CycleFinal
\* A worker that goes on and leaves the row alone.
<1>m. ASSUME NEW w \in Workers, worker[w].pc \notin {"idle", "delivered", "failing"},
             UNCHANGED response, NEW c, CycleOf(w, c), SameClaim(worker[w], c),
             c.pc \in {"marked", "saved", "answered", "delivered"} =>
               db'[worker[w].run].attempts[worker[w].attempt].state \in Begun
      PROVE  Done
  BY <1>0, <1>l, <1>m, CycleStepFinal DEF At
<1>f. ASSUME NEW w \in Workers, worker[w].pc \notin {"idle", "delivered", "failing"},
             UNCHANGED response, NEW retry \in BOOLEAN, Fail(w, retry)
      PROVE  Done
  BY <1>f, <1>m, FailMoves DEF At
\* The attempt of a worker that has marked it executing has begun.
<1>b. ASSUME NEW w \in Workers,
             worker[w].pc \in {"marked", "saved", "answered", "delivered"}
      PROVE  db'[worker[w].run].attempts[worker[w].attempt].state \in Begun
  <2>1. worker[w].run \in Runs /\ worker[w].attempt \in AttemptNos
    BY <1>b, BusyCycle DEF At, Cycle
  <2>2. db[worker[w].run].attempts[worker[w].attempt].state \in Begun
    BY <1>b DEF FinalOK, CycleFinal
  <2> QED
    BY <1>0, <2>1, <2>2 DEF Lasting, StaysBegun, Ages
<1> HIDE DEF Done
<1>1. ASSUME NEW r \in Runs, AdmitBackgroundRun(r)
      PROVE  Done
  <2>1. /\ response'[r] = [status |-> "unsaved", attempt |-> 0]
        /\ \A q \in Runs : q # r => response'[q] = response[q]
    BY <1>1, SnapshotRows DEF AdmitBackgroundRun
  <2>2. db[r] = NoRun
    BY <1>1 DEF AdmitBackgroundRun, AdmitCreate, RowsInv, RowsOK
  <2>3. response[r].status # "completed"
    BY <2>2, BegunStates DEF FinalOK, RowFinal, NoRun, NoAttempt
  <2> QED
    BY <1>1, <1>o, <2>1, <2>3 DEF AdmitBackgroundRun
<1>2. ASSUME NEW r \in Runs, SaveQueuedResponse(r)
      PROVE  Done
  <2>1. /\ response[r].status = "unsaved"
        /\ response'[r] = [status |-> "queued", attempt |-> 1]
        /\ \A q \in Runs : q # r => response'[q] = response[q]
    BY <1>2, SnapshotRows DEF SaveQueuedResponse
  <2> QED
    BY <1>2, <1>o, <2>1 DEF SaveQueuedResponse
<1>3. ASSUME NEW r \in Runs, Operate(r) \/ TimePasses(r)
      PROVE  Done
  BY <1>3, <1>o DEF Operate, TimePasses
<1>4. ASSUME NEW r \in Runs, NEW w \in Workers, NEW n \in AttemptNos,
             NEW t \in Tokens, ClaimWork(w, r, n, t)
      PROVE  Done
  <2>1. /\ RowsOK(db[r]) /\ db[r] \in View
        /\ db[r].attempts[n].state \in CLAIMABLE_RUN_STATES
    BY <1>4 DEF ClaimWork, ClaimNextAttempt, CanClaim, RowsInv, TypeOK
  <2>2. db'[r].holder[t] = n
    <3>1. db'[r] = Claim(db[r], n, t)
      BY <1>4 DEF ClaimWork, ClaimNextAttempt, Update, RowsInv, TypeOK
    <3>2. Claim(db[r], n, t).holder = [db[r].holder EXCEPT ![t] = n]
      BY <2>1 DEF Claim, Put, View
    <3> QED
      BY <2>1, <3>1, <3>2 DEF View
  <2>3. /\ worker'[w].pc = "claimed" /\ worker'[w].run = r
        /\ worker'[w].attempt = n /\ worker'[w].token = t /\ UNCHANGED response
    BY <1>4 DEF ClaimWork, ResponsesTypeOK
  <2>4. response[r].status = "completed" => response[r].attempt < n
    BY <2>1, CompletedIsPast DEF FinalOK
  <2>5. CycleFinal(db'[worker'[w].run], response'[worker'[w].run], worker'[w])
    BY <2>2, <2>3, <2>4 DEF CycleFinal
  <2>6. \A q \in Runs : RowFinal(db'[q], response'[q])
    BY <1>0, <2>3, RowLasts DEF FinalOK
  <2> QED
    BY <2>3, <2>5, <2>6 DEF Done, FinalOK, TakesNothingBack, OneWorker
<1>5. ASSUME NEW w \in Workers, LoadPayload(w)
      PROVE  Done
  <2> DEFINE c == [worker[w] EXCEPT !.pc = "loaded", !.payload = TRUE]
  <2>1. /\ worker[w] \in Cycle /\ UNCHANGED response
        /\ worker[w].pc \notin {"idle", "delivered", "failing"}
    BY <1>5, BusyCycle DEF LoadPayload, At
  <2>2. Fail(w, FALSE) \/ CycleOf(w, c)
    BY <1>5 DEF LoadPayload, CycleOf, ResponsesTypeOK
  <2>3. c.pc = "loaded" /\ SameClaim(worker[w], c)
    BY <2>1 DEF Cycle, SameClaim, InTry
  <2> HIDE DEF c
  <2> QED
    BY <1>m, <1>f, <2>1, <2>2, <2>3
<1>6. ASSUME NEW w \in Workers, MarkExecutingStep(w)
      PROVE  Done
  <2> DEFINE r == worker[w].run
             n == worker[w].attempt
  <2>1. /\ worker[w] \in Cycle /\ ~At(w, "idle") /\ UNCHANGED response
        /\ worker[w].pc \notin {"idle", "delivered", "failing"}
        /\ r \in Runs /\ n \in AttemptNos
    BY <1>6, BusyCycle DEF MarkExecutingStep, At, Cycle
  <2>2. \/ Fail(w, FALSE)
        \/ Goto(w, "marked") /\ Update(r, MarkExecuting(db[r], n, "executing"))
    BY <1>6 DEF MarkExecutingStep
  <2>3. ASSUME Goto(w, "marked"), Update(r, MarkExecuting(db[r], n, "executing"))
        PROVE  Done
    <3>1. PICK c : CycleOf(w, c) /\ SameClaim(worker[w], c) /\ c.pc = "marked"
      BY <2>1, <2>3, GotoMoves DEF InTry
    <3>2. db[r] \in View /\ db[r].attempts[n] \in Attempt
      BY <2>1 DEF RowsInv, TypeOK, View
    <3>3. db'[r] = MarkExecuting(db[r], n, "executing")
      BY <2>1, <2>3 DEF Update, RowsInv, TypeOK
    <3>4. MarkExecuting(db[r], n, "executing").attempts[n].state = "executing"
      BY <2>1, <3>2 DEF MarkExecuting, Put, Moved, View, Attempt
    <3> QED
      BY <1>m, <2>1, <3>1, <3>3, <3>4, BegunStates
  <2>4. CASE Fail(w, FALSE)
    BY <1>f, <2>1, <2>4
  <2> QED
    BY <2>2, <2>3, <2>4
<1>7. ASSUME NEW w \in Workers, SaveInProgress(w) \/ SaveCompleted(w)
      PROVE  Done
  <2> DEFINE r == worker[w].run
             n == worker[w].attempt
             s == response'[r]
  <2>1. /\ ~At(w, "idle") /\ r \in Runs /\ n \in AttemptNos
        /\ worker[w].pc \in {"marked", "saved", "answered", "delivered"}
        /\ worker[w].pc \notin {"idle", "delivered", "failing"}
    BY <1>7, BusyCycle DEF SaveInProgress, SaveCompleted, At, Cycle
  <2>2. \/ Goto(w, "saved") /\ Snapshot(r, "in_progress", n)
        \/ Goto(w, "delivered") /\ Snapshot(r, "completed", n)
    BY <1>7 DEF SaveInProgress, SaveCompleted
  <2>3. PICK pc \in {"saved", "delivered"} :
          /\ Goto(w, pc)
          /\ s.attempt = n
          /\ s.status = "completed" => pc = "delivered"
          /\ \A q \in Runs : q # r => response'[q] = response[q]
    <3>1. CASE Goto(w, "saved") /\ Snapshot(r, "in_progress", n)
      <4>1. /\ s = [status |-> "in_progress", attempt |-> n]
            /\ \A q \in Runs : q # r => response'[q] = response[q]
        BY <2>1, <3>1, SnapshotRows
      <4> QED
        BY <3>1, <4>1
    <3>2. CASE Goto(w, "delivered") /\ Snapshot(r, "completed", n)
      <4>1. /\ s = [status |-> "completed", attempt |-> n]
            /\ \A q \in Runs : q # r => response'[q] = response[q]
        BY <2>1, <3>2, SnapshotRows
      <4> QED
        BY <3>2, <4>1
    <3> QED
      BY <2>2, <3>1, <3>2
  <2>4. PICK c : CycleOf(w, c) /\ SameClaim(worker[w], c) /\ c.pc = pc
    BY <2>1, <2>3, GotoMoves DEF InTry
  <2>5. db'[r].attempts[n].state \in Begun
    BY <1>b, <2>1
  <2>6. RowFinal(db'[r], s)
    BY <2>1, <2>3, <2>5 DEF RowFinal
  <2>7. response[r].status = "completed" => s.attempt > response[r].attempt
    <3>1. response[r].attempt \in AttemptNos \cup {0}
      BY <2>1 DEF ResponsesTypeOK
    <3>2. AttemptNos \cup {0} \subseteq Nat /\ n \in AttemptNos
      BY <2>1, Numbers
    <3>3. response[r].attempt \in Nat /\ n \in Nat
      BY <3>1, <3>2
    <3>4. response[r].status = "completed" => response[r].attempt < n
      BY <1>l, <2>1
    <3> QED
      BY <2>3, <3>3, <3>4
  <2> QED
    BY <1>0, <2>1, <2>3, <2>4, <2>5, <2>6, <2>7, CycleStepFinal DEF Done
<1>8. ASSUME NEW w \in Workers, Dispatch(w)
      PROVE  Done
  <2>1. /\ ~At(w, "idle") /\ UNCHANGED response
        /\ worker[w].pc \in {"marked", "saved", "answered", "delivered"}
        /\ worker[w].pc \notin {"idle", "delivered", "failing"}
    BY <1>8 DEF Dispatch, At
  <2>2. Goto(w, "answered") \/ \E retry \in BOOLEAN : Fail(w, retry)
    BY <1>8 DEF Dispatch
  <2>3. CASE Goto(w, "answered")
    BY <1>b, <1>m, <2>1, <2>3, GotoMoves DEF InTry
  <2>4. CASE \E retry \in BOOLEAN : Fail(w, retry)
    BY <1>f, <2>1, <2>4
  <2> QED
    BY <2>2, <2>3, <2>4
<1>9. ASSUME NEW w \in Workers, CompleteStep(w)
      PROVE  Done
  <2> DEFINE r == worker[w].run
             n == worker[w].attempt
             t == worker[w].token
  <2>1. /\ ~At(w, "idle") /\ UNCHANGED response /\ At(w, "delivered")
        /\ r \in Runs /\ n \in AttemptNos /\ t \in Tokens
    BY <1>9, BusyCycle DEF CompleteStep, At, Cycle
  <2>2. CASE CanComplete(db[r], n, t)
    BY <1>9, <1>i, <2>1, <2>2 DEF CompleteStep
  <2>3. CASE ~CanComplete(db[r], n, t)
    <3>1. Fail(w, FALSE) /\ UNCHANGED db
      BY <1>9, <2>3 DEF CompleteStep
    <3>2. PICK c : CycleOf(w, c) /\ SameClaim(worker[w], c) /\ c.pc = "failing"
      BY <2>1, <3>1, FailMoves
    <3>3. db'[r].attempts[n].token # t
      BY <2>1, <2>3, <3>1, RefusedIsLost DEF RowsInv
    <3>4. response[r].status = "completed" =>
            response[r].attempt < n \/ response[r].attempt = n
      BY <2>1 DEF FinalOK, CycleFinal, At
    <3> QED
      BY <1>0, <2>1, <3>2, <3>3, <3>4, CycleStepFinal DEF Done
  <2> QED
    BY <2>2, <2>3
<1>10. ASSUME NEW w \in Workers, RecordFailureStep(w)
       PROVE  Done
  <2> DEFINE c == worker[w]
             v == RecordFailure(db[c.run], c.attempt, c.retry)
  <2>1. /\ ~At(w, "idle") /\ c \in Cycle /\ UNCHANGED response
        /\ At(w, "failing")
    BY <1>10, BusyCycle DEF RecordFailureStep, At
  <2>2. \/ Stop(w)
        \/ /\ CanRecordFailure(db[c.run], c.attempt, c.token)
           /\ worker' = [worker EXCEPT ![w] = Reporting(c, v)]
    BY <1>10 DEF RecordFailureStep
  <2>3. ASSUME CanRecordFailure(db[c.run], c.attempt, c.token),
               worker' = [worker EXCEPT ![w] = Reporting(c, v)]
        PROVE  Done
    <3>1. worker'[w] = Reporting(c, v) /\ CycleOf(w, worker'[w])
      BY <2>3 DEF ResponsesTypeOK, CycleOf
    <3>2. worker'[w] \in Cycle \cup {Idle}
      BY TypeStep DEF ResponsesTypeOK
    <3>3. response[c.run].status = "completed" =>
            response[c.run].attempt < c.attempt
      BY <2>1, <2>3 DEF FinalOK, CycleFinal, At, CanRecordFailure
    <3> HIDE DEF v, c
    <3>4. /\ Reporting(c, v).pc = "reporting" /\ Reporting(c, v).run = c.run
          /\ Reporting(c, v).attempt = c.attempt /\ Reporting(c, v).token = c.token
      BY <2>1 DEF Reporting, Cycle
    <3>5. SameClaim(c, worker'[w]) /\ worker'[w].pc = "reporting"
      BY <3>1, <3>2, <3>4 DEF SameClaim, Idle
    <3> QED
      BY <1>0, <2>1, <3>1, <3>3, <3>5, CycleStepFinal DEF c, Done
  <2> QED
    BY <1>i, <2>1, <2>2, <2>3
<1>11. ASSUME NEW w \in Workers, ReportFailure(w)
       PROVE  Done
  <2> DEFINE c == worker[w]
             s == response'[c.run]
  <2>1. /\ ~At(w, "idle") /\ Stop(w) /\ At(w, "reporting")
        /\ c.run \in Runs /\ c.attempt \in AttemptNos
        /\ c.pc \notin {"idle", "delivered", "failing"}
    BY <1>11, BusyCycle DEF ReportFailure, At, Cycle
  <2>2. IF c.next = 0 THEN Dead(db[c.run], c.attempt)
                      ELSE Retried(db[c.run], c.attempt, c.next)
    BY <2>1 DEF ReportsOK, CycleReports, At
  <2>3. /\ \A q \in Runs : q # c.run => response'[q] = response[q]
        /\ s.status # "completed" /\ s.attempt >= c.attempt
    <3>1. CASE c.next = 0
      <4>1. /\ s = [status |-> "failed", attempt |-> c.attempt]
            /\ \A q \in Runs : q # c.run => response'[q] = response[q]
        BY <1>11, <2>1, <3>1, SnapshotRows DEF ReportFailure
      <4>2. c.attempt \in Nat
        BY <2>1, Numbers
      <4> HIDE DEF c
      <4> QED
        BY <4>1, <4>2
    <3>2. CASE c.next # 0
      <4>1. /\ s = [status |-> "queued", attempt |-> c.next]
            /\ \A q \in Runs : q # c.run => response'[q] = response[q]
        BY <1>11, <2>1, <3>2, SnapshotRows DEF ReportFailure
      <4>2. c.attempt \in Nat /\ c.next = c.attempt + 1
        BY <2>1, <2>2, <3>2, Numbers DEF Retried
      <4> HIDE DEF c
      <4> QED
        BY <4>1, <4>2
    <3> QED
      BY <3>1, <3>2
  <2>4. response[c.run].status = "completed" => s.attempt > response[c.run].attempt
    <3>1. response[c.run].attempt \in AttemptNos \cup {0}
          /\ s.attempt \in AttemptNos \cup {0}
      BY <2>1, TypeStep DEF ResponsesTypeOK
    <3>2. response[c.run].status = "completed" =>
            response[c.run].attempt < c.attempt
      BY <1>l, <2>1
    <3> HIDE DEF s, c
    <3>3. AttemptNos \cup {0} \subseteq Nat /\ c.attempt \in AttemptNos
      BY <2>1, Numbers
    <3>4. /\ response[c.run].attempt \in Nat /\ c.attempt \in Nat
          /\ s.attempt \in Nat
      BY <3>1, <3>3
    <3> QED
      BY <2>3, <3>2, <3>4
  <2>5. RowFinal(db'[c.run], s) /\ CycleOf(w, Idle)
    BY <2>1, <2>3, StopMoves DEF RowFinal
  <2> QED
    BY <1>0, <2>1, <2>3, <2>4, <2>5, CycleStepFinal DEF Idle, Done
<1>12. ASSUME NEW w \in Workers, Crash(w) \/ Raise(w)
       PROVE  Done
  <2>1. ~At(w, "idle") /\ UNCHANGED response /\ Stop(w)
    BY <1>12 DEF Crash, Raise
  <2> QED
    BY <1>i, <2>1
<1>13. CASE ReconcileRuns \/ UNCHANGED vars
  BY <1>13, <1>o DEF ReconcileRuns, vars
<1> QED
  BY <1>1, <1>2, <1>3, <1>4, <1>5, <1>6, <1>7, <1>8, <1>9, <1>10, <1>11, <1>12,
     <1>13
  DEF ResponsesNext, CycleStep

LEMMA FinalInit == ResponsesInit => FinalOK
BY DEF ResponsesInit, Idle, FinalOK, RowFinal, CycleFinal

\* With one worker process whose own calls do not raise (the provider's may fail,
\* transitions be refused, the process crash), a completed response changes only
\* when the run has been given a later attempt: no stale cycle reports it as
\* failed, queued or in progress.
THEOREM CompletedStaysFinal ==
  ASSUME OneWorker, "error" \notin Faults
  PROVE  ResponsesSpec => CompletedIsFinal
<1>1. /\ RowsInv /\ ResponsesTypeOK /\ ReportsOK /\ FinalOK
      /\ [ResponsesNext]_vars
      => FinalOK'
  BY FinalStep
<1>2. /\ RowsInv /\ ResponsesTypeOK /\ ReportsOK /\ FinalOK
      /\ [ResponsesNext]_vars
      => [TakesNothingBack]_vars
  BY FinalStep
<1>3. RowsInv /\ ResponsesTypeOK /\ ReportsOK /\ [ResponsesNext]_vars => ReportsOK'
  BY ReportsStep
<1>4. [TakesNothingBack]_vars
        => [\A r \in Runs :
              response[r].status = "completed" /\ response'[r] # response[r] =>
                response'[r].attempt > response[r].attempt]_vars
  BY DEF TakesNothingBack
<1> QED
  BY <1>1, <1>2, <1>3, <1>4, ReportsInit, FinalInit, ResponsesInvariance, PTL
  DEF ResponsesSpec, CompletedIsFinal
=============================================================================
