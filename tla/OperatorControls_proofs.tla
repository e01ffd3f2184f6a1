------------------------ MODULE OperatorControls_proofs ------------------------
(***************************************************************************)
(* What the execution page offers is accepted, for every value of the      *)
(* constants: the page's copy of the rules agrees with the service's on    *)
(* every run whose rows satisfy the inductive invariant of the service.    *)
(***************************************************************************)
EXTENDS OperatorControls, ExecutionTransitions_proofs

\* A run that is queued, backing off or executing is not at its end for the
\* operator.
LEMMA WaitingIsOpen ==
  ASSUME NEW v, RowsOK(v), Exists(v), v.state \in {"queued", "executing"}
  PROVE  v.op \notin TERMINAL_OPERATOR_STATES
BY RowsFacts DEF Coherent

LEMMA OffersAreAccepted ==
  ASSUME Authoritative, NEW v, RowsOK(v), Exists(v)
  PROVE  /\ PauseOffered(v) \/ Advised(v, "pause or escalate") => CanPause(v)
         /\ ResumeOffered(v) \/ Advised(v, "resume or restart") => CanResume(v)
         /\ InterruptOffered(v) \/ Advised(v, "monitor or interrupt")
              => CanInterrupt(v)
         /\ QuarantineOffered(v) => CanQuarantine(v)
         /\ ReplayOffered(v) \/ Advised(v, "replay or restart")
              => CanAdmitRetry(v)
<1>1. PageTerminal = TERMINAL_OPERATOR_STATES
  BY DEF PageTerminal, TERMINAL_OPERATOR_STATES
<1>2. ReplayOffered(v) <=> CanAdmitRetry(v)
  BY DEF ReplayOffered, CanAdmitRetry, RETRYABLE_RUN_STATES
<1>3. HasCurrentApproval(v) <=> v.link # 0
  BY DEF HasCurrentApproval
<1>4. PauseOffered(v) => CanPause(v)
  BY <1>1 DEF PauseOffered, CanPause
<1>5. InterruptOffered(v) => CanInterrupt(v)
  BY <1>1 DEF InterruptOffered, CanInterrupt
<1>6. QuarantineOffered(v) => CanQuarantine(v)
  BY DEF QuarantineOffered, CanQuarantine
<1>7. ResumeOffered(v) => CanResume(v)
  BY <1>3 DEF ResumeOffered, CanResume
<1>8. Advised(v, "replay or restart") => CanAdmitRetry(v)
  BY <1>2 DEF Advised, NextExecutionAction
<1>9. Advised(v, "resume or restart") => CanResume(v)
  BY <1>3 DEF Advised, NextExecutionAction, HasApprovalWait, CanResume
<1>10. Advised(v, "pause or escalate") => CanPause(v)
  <2> SUFFICES ASSUME Advised(v, "pause or escalate")
               PROVE  CanPause(v)
    OBVIOUS
  <2>1. /\ v.op # "paused"
        /\ v.state = "queued" \/ v.op \in {"admitted", "retry_scheduled"}
    BY DEF Advised, NextExecutionAction
  <2>2. v.op \notin TERMINAL_OPERATOR_STATES
    BY <2>1, WaitingIsOpen DEF TERMINAL_OPERATOR_STATES
  <2> QED
    BY <2>1, <2>2 DEF CanPause
<1>11. Advised(v, "monitor or interrupt") => CanInterrupt(v)
  <2> SUFFICES ASSUME Advised(v, "monitor or interrupt")
               PROVE  CanInterrupt(v)
    OBVIOUS
  <2>1. v.state = "executing" \/ v.op = "waiting_external"
    BY DEF Advised, NextExecutionAction
  <2>2. v.op \notin TERMINAL_OPERATOR_STATES
    BY <2>1, WaitingIsOpen DEF TERMINAL_OPERATOR_STATES
  <2> QED
    BY <2>2 DEF CanInterrupt
<1> QED
  BY <1>2, <1>4, <1>5, <1>6, <1>7, <1>8, <1>9, <1>10, <1>11

\* Every control the page enables, and every one it advises, is one the service
\* accepts, for any number of runs, attempts and gates.
THEOREM ControlsAreAccepted ==
  ASSUME Authoritative PROVE Spec => []OfferedControlsAreAccepted
<1>1. RowsInv => OfferedControlsAreAccepted
  BY OffersAreAccepted DEF RowsInv, OfferedControlsAreAccepted, Shown
<1> QED
  BY <1>1, Invariance, PTL
=============================================================================
