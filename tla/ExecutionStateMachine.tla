------------------------ MODULE ExecutionStateMachine ------------------------
(***************************************************************************)
(* The declarative tables of execution/state_machine.py: which triggers a  *)
(* run accepts in which states, where they lead, and what they do to the   *)
(* current attempt.  The tables are data; ExecutionLifecycle turns them    *)
(* into a specification, and ExecutionTransitions models the service whose *)
(* handlers are written out by hand beside them.                           *)
(***************************************************************************)

RUN_STATES ==
  {"queued", "dispatching", "executing", "waiting_on_approval",
   "cancel_requested", "retry_backoff", "compensating", "succeeded", "failed",
   "cancelled", "timed_out", "compensated", "dead_lettered"}

RUN_OPERATOR_STATES ==
  {"admitted", "leased", "executing", "waiting_external",
   "waiting_on_approval", "paused", "interrupted", "retry_scheduled",
   "completed", "quarantined", "failed", "cancel_requested", "compensating"}

RUN_ATTEMPT_STATES == RUN_STATES

RUN_LEASE_STATUSES == {"not_leased", "leased", "released", "expired"}

TERMINAL_RUN_STATES ==
  {"succeeded", "failed", "cancelled", "timed_out", "compensated",
   "dead_lettered"}

TERMINAL_OPERATOR_STATES == {"completed", "quarantined", "failed"}

CLAIMABLE_RUN_STATES == {"queued", "retry_backoff"}

CLAIMABLE_OPERATOR_STATES == {"admitted", "retry_scheduled"}

RETRYABLE_RUN_STATES == {"failed", "timed_out", "compensated", "dead_lettered"}

IN_FLIGHT_ATTEMPT_STATES ==
  {"dispatching", "executing", "cancel_requested", "compensating"}

\* source and dest of every run-state trigger; "*" in the code is RUN_STATES.
RUN_STATE_TRANSITIONS ==
  [claim_attempt      |-> [source |-> CLAIMABLE_RUN_STATES,
                           dest   |-> "dispatching"],
   start_execution    |-> [source |-> {"dispatching"}, dest |-> "executing"],
   open_approval      |-> [source |-> {"executing"},
                           dest   |-> "waiting_on_approval"],
   resume_after_approval |->
                          [source |-> {"waiting_on_approval"},
                           dest   |-> "queued"],
   reject_approval_cancel |->
                          [source |-> {"waiting_on_approval"},
                           dest   |-> "cancel_requested"],
   reject_approval_compensate |->
                          [source |-> {"waiting_on_approval"},
                           dest   |-> "compensating"],
   reject_approval_fail |->
                          [source |-> {"waiting_on_approval"},
                           dest   |-> "failed"],
   complete_success   |-> [source |-> IN_FLIGHT_ATTEMPT_STATES,
                           dest   |-> "succeeded"],
   record_retryable_failure_delayed |->
                          [source |-> {"dispatching", "executing"},
                           dest   |-> "retry_backoff"],
   record_retryable_failure_immediate |->
                          [source |-> {"dispatching", "executing"},
                           dest   |-> "queued"],
   record_terminal_failure |->
                          [source |-> {"dispatching", "executing"},
                           dest   |-> "dead_lettered"],
   request_cancel     |-> [source |-> RUN_STATES, dest |-> "cancel_requested"],
   admit_retry        |-> [source |-> RETRYABLE_RUN_STATES, dest |-> "queued"],
   interrupt          |-> [source |-> RUN_STATES, dest |-> "cancel_requested"],
   quarantine         |-> [source |-> RUN_STATES, dest |-> "dead_lettered"],
   expire_lease       |-> [source |-> RUN_STATES, dest |-> "timed_out"]]

RunTriggers == DOMAIN RUN_STATE_TRANSITIONS

RUN_OPERATOR_TARGETS_BY_TRIGGER ==
  [claim_attempt              |-> {"leased"},
   start_execution            |-> {"executing", "waiting_external"},
   open_approval              |-> {"waiting_on_approval"},
   resume_after_approval      |-> {"admitted"},
   reject_approval_cancel     |-> {"cancel_requested"},
   reject_approval_compensate |-> {"compensating"},
   reject_approval_fail       |-> {"failed"},
   complete_success           |-> {"completed"},
   record_retryable_failure_delayed   |-> {"retry_scheduled"},
   record_retryable_failure_immediate |-> {"admitted"},
   record_terminal_failure    |-> {"quarantined"},
   request_cancel             |-> {"cancel_requested"},
   admit_retry                |-> {"admitted"},
   interrupt                  |-> {"interrupted"},
   quarantine                 |-> {"quarantined"},
   expire_lease               |-> {"quarantined"}]

\* Operator state a paused run resumes to; "admitted" for the states the table
\* does not list.
RUN_TO_OPERATOR_RESUME_MAP ==
  [s \in RUN_STATES |->
     CASE s = "dispatching"         -> "leased"
       [] s = "executing"           -> "waiting_external"
       [] s = "waiting_on_approval" -> "waiting_on_approval"
       [] s = "cancel_requested"    -> "cancel_requested"
       [] s = "retry_backoff"       -> "retry_scheduled"
       [] s = "compensating"        -> "compensating"
       [] s = "succeeded"           -> "completed"
       [] s = "failed"              -> "failed"
       [] s = "dead_lettered"       -> "quarantined"
       [] OTHER                     -> "admitted"]

\* What a trigger does to the attempt it ends on: the state, the operator state
\* ("run" when it is the one chosen for the run) and the lease status ("same"
\* when it is left alone).  Replacing triggers make a new attempt current; how
\* they finish the one before is left to the operations, for the dimensions
\* follow the current attempt only.
InPlace(state, op, lease) ==
  [replaces |-> FALSE, state |-> state, op |-> op, lease |-> lease]

Replacing(state, op) ==
  [replaces |-> TRUE, state |-> state, op |-> op, lease |-> "not_leased"]

ATTEMPT_EFFECTS_BY_TRIGGER ==
  [claim_attempt         |-> InPlace("dispatching", "leased", "leased"),
   start_execution       |-> InPlace("executing", "run", "leased"),
   open_approval         |-> InPlace("waiting_on_approval",
                                     "waiting_on_approval", "released"),
   resume_after_approval |-> InPlace("queued", "admitted", "released"),
   reject_approval_cancel |->
     InPlace("cancel_requested", "cancel_requested", "same"),
   reject_approval_compensate |->
     InPlace("compensating", "compensating", "same"),
   reject_approval_fail  |-> InPlace("failed", "failed", "same"),
   complete_success      |-> InPlace("succeeded", "completed", "released"),
   record_retryable_failure_delayed |->
     Replacing("retry_backoff", "retry_scheduled"),
   record_retryable_failure_immediate |-> Replacing("queued", "admitted"),
   record_terminal_failure |->
     InPlace("dead_lettered", "quarantined", "released"),
   request_cancel        |->
     InPlace("cancel_requested", "cancel_requested", "same"),
   admit_retry           |-> Replacing("queued", "admitted"),
   interrupt             |->
     InPlace("cancel_requested", "interrupted", "released"),
   quarantine            |-> InPlace("dead_lettered", "quarantined", "released"),
   expire_lease          |-> InPlace("timed_out", "interrupted", "expired")]
=============================================================================
