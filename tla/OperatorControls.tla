---------------------------- MODULE OperatorControls ----------------------------
(***************************************************************************)
(* The operator's view of the runs of ExecutionTransitions: which controls *)
(* the execution page offers for a run, what it advises and what it counts *)
(* as needing attention.  The page works this out from the columns of the  *)
(* run, with a copy of the service's rules in another language, and this   *)
(* module puts that copy beside the rows the service writes.               *)
(*                                                                         *)
(* The record the page shows is current here; one that is out of date is   *)
(* met by the service's own checks.  The session may operate.              *)
(***************************************************************************)
EXTENDS ExecutionTransitions

CurrentAttempt(v) == v.attempts[v.current]

\* The page is given the approval of the run's link, decided or not.
HasCurrentApproval(v) == v.link # 0

-----------------------------------------------------------------------------
(* Availability.  The sets of states are the page's own.                   *)

PageInFlight == {"dispatching", "executing", "cancel_requested", "compensating"}

\* Mutant: the page does not know that quarantine is the end.
PageTerminalUnquarantined == {"completed", "failed"}

PageTerminal == {"completed", "quarantined", "failed"}

PauseOffered(v) ==
    /\ v.op \notin PageTerminal \cup {"paused"}
    /\ CurrentAttempt(v).state \notin PageInFlight

ResumeOffered(v) == v.op = "paused" /\ ~HasCurrentApproval(v)

InterruptOffered(v) == v.op \notin PageTerminal

QuarantineOffered(v) == v.op # "quarantined"

\* The record of the run carries whether it can be replayed.
ReplayOffered(v) ==
    v.state \in {"failed", "timed_out", "compensated", "dead_lettered"}

-----------------------------------------------------------------------------
(* Advice: the first rule that matches.                                    *)

HasApprovalWait(v) ==
    v.state = "waiting_on_approval" \/ v.op = "waiting_on_approval" \/ HasCurrentApproval(v)

NextExecutionAction(v) ==
    IF HasApprovalWait(v) THEN "open approval"
    ELSE IF v.op = "paused" THEN "resume or restart"
    ELSE IF ReplayOffered(v) THEN "replay or restart"
    ELSE IF v.state = "cancel_requested" \/ v.op = "interrupted" THEN "watch cancellation"
    ELSE IF v.state = "executing" \/ v.op = "waiting_external" THEN "monitor or interrupt"
    ELSE IF v.state = "queued" \/ v.op \in {"admitted", "retry_scheduled"}
    THEN "pause or escalate"
    ELSE "inspect detail"

-----------------------------------------------------------------------------
Shown == {db[r] : r \in {q \in Runs : Exists(db[q])}}

Advised(v, words) == NextExecutionAction(v) = words

(* A control that the page offers, or advises by name, is one the service  *)
(* accepts: the two copies of the rules do not drift apart on any run that *)
(* can come into being.                                                    *)
OfferedControlsAreAccepted ==
    \A v \in Shown :
        /\ PauseOffered(v) \/ Advised(v, "pause or escalate") => CanPause(v)
        /\ ResumeOffered(v) \/ Advised(v, "resume or restart") => CanResume(v)
        /\ InterruptOffered(v) \/ Advised(v, "monitor or interrupt") => CanInterrupt(v)
        /\ QuarantineOffered(v) => CanQuarantine(v)
        /\ ReplayOffered(v) \/ Advised(v, "replay or restart") => CanAdmitRetry(v)
=============================================================================
