------------------------- MODULE ExecutionLifecycle -------------------------
(***************************************************************************)
(* What the execution state machine promises about one run, taken from the *)
(* declared tables alone: each run is a row of state dimensions (run       *)
(* state, operator state, and the state, operator state and lease status   *)
(* of its current attempt), every step of which is the creation of a run,  *)
(* one trigger of the run-state machine, or pause / resume of the          *)
(* operator-state machine.  ExecutionTransitions is shown to implement it. *)
(***************************************************************************)
EXTENDS ExecutionStateMachine, Naturals

CONSTANT Runs

VARIABLE dims    \* dims[r]: the state dimensions of run r

Absent ==
  [run |-> "absent", op |-> "absent", no |-> 0,
   attempt |-> "absent", attemptOp |-> "absent", lease |-> "absent"]

\* The initial values validate_creation requires of admit_create and
\* restart_run_from_scratch.
Created ==
  [run |-> "queued", op |-> "admitted", no |-> 1,
   attempt |-> "queued", attemptOp |-> "admitted", lease |-> "not_leased"]

Dims ==
  [run       : RUN_STATES \cup {"absent"},
   op        : RUN_OPERATOR_STATES \cup {"absent"},
   no        : Nat,
   attempt   : RUN_ATTEMPT_STATES \cup {"absent"},
   attemptOp : RUN_OPERATOR_STATES \cup {"absent"},
   lease     : RUN_LEASE_STATUSES \cup {"absent"}]

LifecycleTypeOK == dims \in [Runs -> Dims]

\* The guards of the triggers, as far as they depend on the state dimensions.
Guarded(t, d) ==
  /\ t = "request_cancel" =>
       d.run \notin TERMINAL_RUN_STATES \cup {"cancel_requested"}
  /\ t = "interrupt"    => d.op \notin TERMINAL_OPERATOR_STATES
  /\ t = "quarantine"   => d.op # "quarantined"
  /\ t = "expire_lease" => d.lease = "leased"
  /\ t = "start_execution" => "paused" \notin {d.op, d.attemptOp}
  /\ t \in {"open_approval", "resume_after_approval",
            "reject_approval_cancel", "reject_approval_compensate",
            "reject_approval_fail"} => d.attempt = d.run
  /\ t = "claim_attempt" => /\ d.attempt \in CLAIMABLE_RUN_STATES
                            /\ d.attemptOp \in CLAIMABLE_OPERATOR_STATES
  /\ t = "complete_success" => d.attempt \in IN_FLIGHT_ATTEMPT_STATES
  /\ t \in {"record_retryable_failure_delayed",
            "record_retryable_failure_immediate", "record_terminal_failure"} =>
       d.attempt \in {"dispatching", "executing"}

\* The dimensions after trigger t with operator target o.
AfterTrigger(t, o, d) ==
  LET effect == ATTEMPT_EFFECTS_BY_TRIGGER[t] IN
    [run       |-> RUN_STATE_TRANSITIONS[t].dest,
     op        |-> o,
     no        |-> IF effect.replaces THEN d.no + 1 ELSE d.no,
     attempt   |-> effect.state,
     attemptOp |-> IF effect.op = "run" THEN o ELSE effect.op,
     lease     |-> IF effect.lease = "same" THEN d.lease ELSE effect.lease]

Create(r) ==
  /\ dims[r] = Absent
  /\ dims' = [dims EXCEPT ![r] = Created]

Fire(r, t) ==
  /\ dims[r].run \in RUN_STATE_TRANSITIONS[t].source
  /\ Guarded(t, dims[r])
  /\ \E o \in RUN_OPERATOR_TARGETS_BY_TRIGGER[t] :
       dims' = [dims EXCEPT ![r] = AfterTrigger(t, o, dims[r])]

Pause(r) ==
  /\ dims[r] # Absent
  /\ dims[r].op \notin TERMINAL_OPERATOR_STATES \cup {"paused"}
  /\ dims' = [dims EXCEPT ![r].op = "paused", ![r].attemptOp = "paused"]

Resume(r) ==
  /\ dims[r].op = "paused"
  /\ LET o == RUN_TO_OPERATOR_RESUME_MAP[dims[r].run] IN
       dims' = [dims EXCEPT ![r].op = o, ![r].attemptOp = o]

\* Reconciliation expires the leases of several runs at once.
ExpireLeases ==
  \E expired \in SUBSET Runs :
    /\ \A r \in expired : Guarded("expire_lease", dims[r])
    /\ dims' = [r \in Runs |->
                  IF r \in expired
                  THEN AfterTrigger("expire_lease", "quarantined", dims[r])
                  ELSE dims[r]]

LifecycleInit == dims = [r \in Runs |-> Absent]

LifecycleNext ==
  \/ \E r \in Runs :
       \/ Create(r)
       \/ \E t \in RunTriggers : Fire(r, t)
       \/ Pause(r)
       \/ Resume(r)
  \/ ExpireLeases

LifecycleSpec == LifecycleInit /\ [][LifecycleNext]_dims
=============================================================================
