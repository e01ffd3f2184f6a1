-------------------------- MODULE BackgroundResponses -------------------------
(***************************************************************************)
(* Background /v1/responses: the API that admits a run and then saves the  *)
(* response row, the workers that run ExecutionWorkerService cycles on the *)
(* runs, and the operators who step in.  Every database transaction of a   *)
(* cycle is an action of its own, so that cycles of several workers, the   *)
(* API call and operator commands interleave as they do in the deployment. *)
(*                                                                         *)
(* It extends ExecutionTransitions: db holds the execution rows, and each  *)
(* step below does to db what one operation of the service does, or        *)
(* nothing.  No component of the product opens approvals on these runs.    *)
(***************************************************************************)
EXTENDS ExecutionTransitions

CONSTANTS
  Workers,     \* worker processes, one cycle at a time each
  Faults,      \* subset of {"crash", "error"} the environment may inject
  Operated     \* whether operators and the reconciler act

ASSUME Environment == Faults \subseteq {"crash", "error"} /\ Operated \in BOOLEAN

VARIABLES
  response,    \* response[r]: status, and the attempt its native mapping names
  worker,      \* worker[w]: where its cycle is, and the claim it works on
  calls        \* calls[r][n]: provider calls made for attempt n of run r

vars == <<db, response, worker, calls>>

\* "unsaved": admit_create has committed and the row is still to be inserted.
ResponseStatuses ==
  {"absent", "unsaved", "queued", "in_progress", "completed", "failed"}

InTry == {"claimed", "loaded", "marked", "saved", "answered", "delivered"}

\* retry is the outcome a failed cycle has to record or report; next the attempt
\* that takes over (0 if none); payload whether the request was loaded.
Cycle ==
  [pc : InTry \cup {"failing", "reporting"}, run : Runs, attempt : AttemptNos,
   token : Tokens, payload : BOOLEAN, retry : BOOLEAN, next : AttemptNos \cup {0}]

Idle == [pc |-> "idle"]

ResponsesTypeOK ==
  /\ TypeOK
  /\ response \in [Runs -> [status : ResponseStatuses,
                            attempt : AttemptNos \cup {0}]]
  /\ worker \in [Workers -> Cycle \cup {Idle}]
  /\ calls \in [Runs -> [AttemptNos -> Nat]]

ResponsesInit ==
  /\ Init
  /\ response = [r \in Runs |-> [status |-> "absent", attempt |-> 0]]
  /\ worker = [w \in Workers |-> Idle]
  /\ calls = [r \in Runs |-> [n \in AttemptNos |-> 0]]

\* save_response_snapshot: an upsert of the row, unconditionally.
Snapshot(r, status, n) ==
  response' = [response EXCEPT ![r] = [status |-> status, attempt |-> n]]

-----------------------------------------------------------------------------
(* create_background_response: two transactions.                           *)

AdmitBackgroundRun(r) ==
  /\ AdmitCreate(r)
  /\ Snapshot(r, "unsaved", 0)
  /\ UNCHANGED <<worker, calls>>

SaveQueuedResponse(r) ==
  /\ response[r].status = "unsaved"
  /\ Snapshot(r, "queued", 1)
  /\ UNCHANGED <<db, worker, calls>>

-----------------------------------------------------------------------------
(* run_background_cycle.                                                   *)

At(w, pc) == worker[w].pc = pc

Goto(w, pc) == worker' = [worker EXCEPT ![w].pc = pc]

Stop(w) == worker' = [worker EXCEPT ![w] = Idle]

\* _classify_failure has judged the exception that ends the try block.
Fail(w, retry) ==
  worker' = [worker EXCEPT ![w].pc = "failing", ![w].retry = retry]

ClaimWork(w, r, n, t) ==
  /\ At(w, "idle")
  /\ ClaimNextAttempt(r, n, t)
  /\ worker' = [worker EXCEPT ![w] =
                  [pc |-> "claimed", run |-> r, attempt |-> n, token |-> t,
                   payload |-> FALSE, retry |-> FALSE, next |-> 0]]
  /\ UNCHANGED <<response, calls>>

\* Without a response row for the run the attempt fails for good.
LoadPayload(w) ==
  /\ At(w, "claimed")
  /\ IF response[worker[w].run].status \in {"absent", "unsaved"}
     THEN Fail(w, FALSE)
     ELSE worker' = [worker EXCEPT ![w].pc = "loaded", ![w].payload = TRUE]
  /\ UNCHANGED <<db, response, calls>>

\* Mutant: the transition is made without its guards, for a lease long gone.
MarkExecutingStepUnchecked(w) ==
  LET c == worker[w] IN
    /\ At(w, "loaded")
    /\ Update(c.run, MarkExecuting(db[c.run], c.attempt, "executing"))
    /\ Goto(w, "marked")
    /\ UNCHANGED <<response, calls>>

\* The step key "responses_background_dispatch" names nothing external.
MarkExecutingStep(w) ==
  LET c == worker[w] IN
    /\ At(w, "loaded")
    /\ IF CanMarkExecuting(db[c.run], c.attempt, c.token)
       THEN /\ Update(c.run, MarkExecuting(db[c.run], c.attempt, "executing"))
            /\ Goto(w, "marked")
       ELSE Fail(w, FALSE) /\ UNCHANGED db
    /\ UNCHANGED <<response, calls>>

SaveInProgress(w) ==
  /\ At(w, "marked")
  /\ Snapshot(worker[w].run, "in_progress", worker[w].attempt)
  /\ Goto(w, "saved")
  /\ UNCHANGED <<db, calls>>

\* dispatch_chat: the provider is called and answers, or fails in a way that is
\* worth a retry or not.
Dispatch(w) ==
  /\ At(w, "saved")
  /\ calls' = [calls EXCEPT ![worker[w].run][worker[w].attempt] = @ + 1]
  /\ Goto(w, "answered") \/ \E retry \in BOOLEAN : Fail(w, retry)
  /\ UNCHANGED <<db, response>>

SaveCompleted(w) ==
  /\ At(w, "answered")
  /\ Snapshot(worker[w].run, "completed", worker[w].attempt)
  /\ Goto(w, "delivered")
  /\ UNCHANGED <<db, calls>>

\* Mutant: the run is completed before the answer is stored.
CompleteStepFirst(w) ==
  LET c == worker[w] IN
    /\ At(w, "answered")
    /\ IF CanComplete(db[c.run], c.attempt, c.token)
       THEN CompleteAttemptSuccess(c.run, c.attempt, c.token) /\ Stop(w)
       ELSE Fail(w, FALSE) /\ UNCHANGED db
    /\ UNCHANGED <<response, calls>>

CompleteStep(w) ==
  LET c == worker[w] IN
    /\ At(w, "delivered")
    /\ IF CanComplete(db[c.run], c.attempt, c.token)
       THEN CompleteAttemptSuccess(c.run, c.attempt, c.token) /\ Stop(w)
       ELSE Fail(w, FALSE) /\ UNCHANGED db
    /\ UNCHANGED <<response, calls>>

-----------------------------------------------------------------------------
(* _record_failure.                                                        *)

\* Mutant: the next attempt is taken to follow whatever attempt has failed.
ReportingNextAttempt(c, v) ==
  [c EXCEPT !.pc = "reporting", !.next = c.attempt + 1]

\* What is still to be reported once the failure is recorded as v.
Reporting(c, v) ==
  [c EXCEPT !.pc = "reporting",
            !.next = IF v.active > c.attempt THEN v.active ELSE 0]

\* Mutant: a refused transition is swallowed and the failure reported all the same.
RecordFailureStepSwallowing(w) ==
  LET c == worker[w]
      v == RecordFailure(db[c.run], c.attempt, c.retry)
  IN /\ At(w, "failing")
     /\ IF CanRecordFailure(db[c.run], c.attempt, c.token)
        THEN /\ Update(c.run, v)
             /\ IF c.payload
                THEN worker' = [worker EXCEPT ![w] = Reporting(c, v)]
                ELSE Stop(w)
        ELSE Goto(w, "reporting") /\ UNCHANGED db
     /\ UNCHANGED <<response, calls>>

\* A refused transition ends the cycle with an exception.
RecordFailureStep(w) ==
  LET c == worker[w]
      v == RecordFailure(db[c.run], c.attempt, c.retry)
  IN /\ At(w, "failing")
     /\ IF CanRecordFailure(db[c.run], c.attempt, c.token)
        THEN /\ Update(c.run, v)
             /\ IF c.payload
                THEN worker' = [worker EXCEPT ![w] = Reporting(c, v)]
                ELSE Stop(w)
        ELSE Stop(w) /\ UNCHANGED db
     /\ UNCHANGED <<response, calls>>

\* Mutant: only a scheduled retry is reported, a final failure is not.
ReportFailureRetriesOnly(w) ==
  LET c == worker[w] IN
    /\ At(w, "reporting")
    /\ IF c.next # 0 THEN Snapshot(c.run, "queued", c.next)
                     ELSE UNCHANGED response
    /\ Stop(w)
    /\ UNCHANGED <<db, calls>>

ReportFailure(w) ==
  LET c == worker[w] IN
    /\ At(w, "reporting")
    /\ IF c.next # 0 THEN Snapshot(c.run, "queued", c.next)
                     ELSE Snapshot(c.run, "failed", c.attempt)
    /\ Stop(w)
    /\ UNCHANGED <<db, calls>>

-----------------------------------------------------------------------------
(* The environment.                                                        *)

\* The process dies, or a heartbeat outside the try block raises.
Crash(w) ==
  /\ "crash" \in Faults
  /\ ~At(w, "idle")
  /\ Stop(w)
  /\ UNCHANGED <<db, response, calls>>

\* A call raises before it has had an effect: inside the try block that fails
\* the attempt, inside _record_failure it ends the cycle.
Raise(w) ==
  /\ "error" \in Faults
  /\ \/ worker[w].pc \in InTry /\ Fail(w, FALSE)
     \/ worker[w].pc \in {"failing", "reporting"} /\ Stop(w)
  /\ UNCHANGED <<db, response, calls>>

\* A restarted run gets no response row.
Operate(r) ==
  /\ Operated
  /\ \/ \E source \in Runs : RestartFromScratch(source, r)
     \/ OperatorStep(r)
  /\ UNCHANGED <<response, worker, calls>>

ReconcileRuns ==
  /\ Operated
  /\ ReconcileExpiredLeases
  /\ UNCHANGED <<response, worker, calls>>

TimePasses(r) == ClockStep(r) /\ UNCHANGED <<response, worker, calls>>

CycleStep(w) ==
  \/ LoadPayload(w)
  \/ MarkExecutingStep(w)
  \/ SaveInProgress(w)
  \/ Dispatch(w)
  \/ SaveCompleted(w)
  \/ CompleteStep(w)
  \/ RecordFailureStep(w)
  \/ ReportFailure(w)

ResponsesNext ==
  \/ \E r \in Runs :
       \/ AdmitBackgroundRun(r)
       \/ SaveQueuedResponse(r)
       \/ Operate(r)
       \/ TimePasses(r)
       \/ \E w \in Workers, n \in AttemptNos, t \in Tokens : ClaimWork(w, r, n, t)
  \/ \E w \in Workers : CycleStep(w) \/ Crash(w) \/ Raise(w)
  \/ ReconcileRuns

ResponsesSpec == ResponsesInit /\ [][ResponsesNext]_vars

\* The poll loop of a live worker keeps starting cycles and each step of a cycle
\* is the next statement of a running thread; backoffs elapse.
ResponsesFairness ==
  /\ \A r \in Runs : \A n \in AttemptNos : WF_vars(BackoffElapses(r, n) /\ TimePasses(r))
  /\ \A w \in Workers :
       /\ WF_vars(CycleStep(w))
       /\ \A r \in Runs :
            WF_vars(\E n \in AttemptNos, t \in Tokens : ClaimWork(w, r, n, t))

ResponsesFairSpec == ResponsesSpec /\ ResponsesFairness

-----------------------------------------------------------------------------
(* Properties.                                                             *)

\* Whatever crashes, goes stale, is paused or reclaimed: no attempt of a run is
\* sent to a provider twice.  A second call always belongs to a new attempt,
\* which the retry budget or an operator's retry has admitted.
AttemptDispatchedOnce == \A r \in Runs : \A n \in AttemptNos : calls[r][n] <= 1

\* Cycles, API calls and operator commands do to the execution rows nothing but
\* the operations of ExecutionTransitionService.
ImplementsExecution == Spec

\* The API never reports what the execution tables do not know: a response shown
\* as failed has the dead-lettered attempt it names, a response queued again has
\* a failed attempt behind it and the next one admitted.
ReportedFailuresAreRecorded ==
  \A r \in Runs :
    LET n == response[r].attempt
        a == db[r].attempts IN
      /\ response[r].status = "failed" => a[n].state = "dead_lettered"
      /\ response[r].status = "queued" /\ n > 1 =>
           a[n - 1].state = "failed" /\ a[n].state # "absent"

\* With one worker process, a run that has succeeded has its answer stored: the
\* response row shows the completed body of the very attempt that succeeded.
SuccessIsAnswered ==
  \A r \in Runs :
    db[r].state = "succeeded" =>
      response[r] = [status |-> "completed", attempt |-> db[r].active]

\* With one worker process, and calls that do not fail once the provider has
\* answered, a completed response is never taken back: its row changes only when
\* the run has been given a later attempt.
CompletedIsFinal ==
  [][\A r \in Runs :
       response[r].status = "completed" /\ response'[r] # response[r] =>
         response'[r].attempt > response[r].attempt]_vars

\* With one worker process, and without operators and faults, an accepted response
\* is answered: it ends up completed or failed, through every retry.  (Exempt: a run whose attempt a
\* worker claimed before the API had saved the row, and so fails for good.)
Accepted(r) ==
  /\ response[r].status = "queued"
  /\ db[r].state # "dead_lettered"
  /\ \A w \in Workers :
       At(w, "failing") /\ worker[w].run = r => worker[w].payload

AcceptedIsAnswered ==
  \A r \in Runs : Accepted(r) ~> response[r].status \in {"completed", "failed"}
=============================================================================
