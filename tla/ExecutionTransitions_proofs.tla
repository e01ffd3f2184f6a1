---------------------- MODULE ExecutionTransitions_proofs ---------------------
(***************************************************************************)
(* Theorems about ExecutionTransitions for every value of its constants.   *)
(*                                                                         *)
(* The argument is per run.  RowsOK(v) strengthens the safety properties   *)
(* to an inductive invariant of one view; every operation maps a view that *)
(* satisfies it and the operation's guard to one that does, and the        *)
(* database is a function of independent views.  Only a decision has to be *)
(* in time for that, which the state machine sees to.  WellFormed(v) is    *)
(* the part of it that every operation keeps in either mode.               *)
(***************************************************************************)
EXTENDS ExecutionTransitions, TLAPS

-----------------------------------------------------------------------------
(* The inductive invariant of one run's rows.                              *)

\* Attempt numbers not used yet are blank; the ones before the current attempt
\* are finished for good and hold no lease.
PastOK(v) ==
  \A n \in AttemptNos :
    /\ n > v.active => v.attempts[n] = NoAttempt
    /\ n < v.active => /\ v.attempts[n].state \in RETRYABLE_RUN_STATES
                       /\ v.attempts[n].token = 0
                       /\ v.attempts[n].lease # "leased"

\* An attempt a as the current one of a run whose own columns are v's.
Coherent(v, a) ==
  /\ a.state = v.state
  /\ a.op = v.op \/ (v.state = "timed_out" /\ v.op = "quarantined")
  /\ (a.token # 0) <=> a.lease = "leased"
  /\ a.token # 0 => v.holder[a.token] = v.active
  /\ a.lease = "leased" => /\ a.state \in IN_FLIGHT_ATTEMPT_STATES
                           /\ v.op \notin TERMINAL_OPERATOR_STATES
  /\ a.state \in {"dispatching", "executing"} => a.lease = "leased"
  /\ v.state = "queued" => v.op \notin TERMINAL_OPERATOR_STATES
  /\ v.state = "dead_lettered" => v.op \in TERMINAL_OPERATOR_STATES
  /\ v.state = "waiting_on_approval" => a.lease = "released"
  /\ a.lease = "expired" => v.state = "timed_out" /\ v.op = "quarantined"

\* An open gate is one the current attempt waits on, or was left behind by it
\* when an operator cancelled, interrupted or quarantined the run.
GatesOK(v) ==
  /\ \A l \in LinkIds :
       v.gates[l].status = "open" =>
         /\ v.gates[l].attempt \in 1..v.active
         /\ v.gates[l].attempt = v.active =>
              /\ v.attempts[v.active].token = 0
              /\ v.state \in {"waiting_on_approval", "cancel_requested",
                              "dead_lettered"}
              /\ v.state = "waiting_on_approval" => v.link = l
  /\ v.state = "waiting_on_approval" =>
       /\ v.link \in LinkIds
       /\ v.gates[v.link].status = "open"
       /\ v.gates[v.link].attempt = v.active

RowsOK(v) ==
  /\ v \in View
  /\ ~Exists(v) => v = NoRun
  /\ Exists(v) => /\ v.active \in AttemptNos
                  /\ v.op # "absent"
                  /\ v.current = v.active
                  /\ PastOK(v)
                  /\ Coherent(v, v.attempts[v.active])
                  /\ GatesOK(v)

RowsInv == TypeOK /\ \A r \in Runs : RowsOK(db[r])

\* What one operation on a run may do to its history, to its success and to the
\* tokens drawn earlier.
TokensStayRevoked(v, w) ==
  \A t \in Drawn(v) :
    LET n == v.holder[t] IN v.attempts[n].token # t => w.attempts[n].token # t

SucceedsLeased(v, w) ==
  w.state = "succeeded" /\ v.state # "succeeded" =>
    /\ v.attempts[v.current].lease = "leased"
    /\ v.op \notin TERMINAL_OPERATOR_STATES

StepsTo(v, w) ==
  /\ RowsOK(w)
  /\ SupersededFrozen(v, w)
  /\ SucceedsLeased(v, w)
  /\ TokensStayRevoked(v, w)

-----------------------------------------------------------------------------
(* The row updates, field by field.                                        *)

LEMMA PutFields ==
  ASSUME NEW v \in View, NEW n \in AttemptNos, NEW state \in RUN_STATES,
         NEW op \in RUN_OPERATOR_STATES, NEW a \in Attempt
  PROVE  LET w == Put(v, n, state, op, a) IN
           /\ w \in View
           /\ w.state = state /\ w.op = op
           /\ w.active = v.active /\ w.current = v.current /\ w.link = v.link
           /\ w.attempts = [v.attempts EXCEPT ![n] = a]
           /\ w.gates = v.gates /\ w.holder = v.holder
<1>1. Put(v, n, state, op, a)
        = [v EXCEPT !.state = state, !.op = op,
                    !.attempts = [v.attempts EXCEPT ![n] = a]]
  BY DEF Put, View
<1>2. [v.attempts EXCEPT ![n] = a] \in [AttemptNos -> Attempt]
  BY DEF View
<1> QED
  BY <1>1, <1>2 DEF View

LEMMA SupersedeFields ==
  ASSUME NEW v \in View, NEW n \in AttemptNos, NEW state \in RUN_STATES,
         NEW op \in RUN_OPERATOR_STATES, NEW a \in Attempt
  PROVE  LET w == Supersede(v, n, state, op, a) IN
           /\ w \in View
           /\ w.state = state /\ w.op = op
           /\ w.active = n /\ w.current = n /\ w.link = 0
           /\ w.attempts = [v.attempts EXCEPT ![n] = a]
           /\ w.gates = v.gates /\ w.holder = v.holder
<1>1. Supersede(v, n, state, op, a)
        = [v EXCEPT !.state = state, !.op = op, !.active = n, !.current = n,
                    !.link = 0, !.attempts = [v.attempts EXCEPT ![n] = a]]
  BY DEF Supersede, View
<1>2. [v.attempts EXCEPT ![n] = a] \in [AttemptNos -> Attempt]
  BY DEF View
<1> DEFINE f == [v.attempts EXCEPT ![n] = a]
<1>3. Supersede(v, n, state, op, a)
        = [v EXCEPT !.state = state, !.op = op, !.active = n, !.current = n,
                    !.link = 0, !.attempts = f]
  BY <1>1
<1>4. f \in [AttemptNos -> Attempt]
  BY <1>2
<1> HIDE DEF f
<1>5. LET w == [v EXCEPT !.state = state, !.op = op, !.active = n,
                         !.current = n, !.link = 0, !.attempts = f] IN
        /\ w \in View
        /\ w.state = state /\ w.op = op
        /\ w.active = n /\ w.current = n /\ w.link = 0
        /\ w.attempts = f
        /\ w.gates = v.gates /\ w.holder = v.holder
  BY <1>4 DEF View
<1> QED
  BY <1>3, <1>5 DEF f

\* An attempt row alone.
Wrote(v, n, a) == [v EXCEPT !.attempts[n] = a]

LEMMA WroteFields ==
  ASSUME NEW v \in View, NEW n \in AttemptNos, NEW a \in Attempt
  PROVE  LET w == Wrote(v, n, a) IN
           /\ w \in View
           /\ w.state = v.state /\ w.op = v.op
           /\ w.active = v.active /\ w.current = v.current /\ w.link = v.link
           /\ w.attempts = [v.attempts EXCEPT ![n] = a]
           /\ w.gates = v.gates /\ w.holder = v.holder
<1>1. Wrote(v, n, a) = [v EXCEPT !.attempts = [v.attempts EXCEPT ![n] = a]]
  BY DEF Wrote, View
<1>2. [v.attempts EXCEPT ![n] = a] \in [AttemptNos -> Attempt]
  BY DEF View
<1> QED
  BY <1>1, <1>2 DEF View

\* The run columns a claim, and a gate opened or decided, write besides.
Drew(v, n, t) == [v EXCEPT !.current = n, !.holder[t] = n]

WithGate(v, k, l, g) == [v EXCEPT !.link = k, !.gates[l] = g]

LEMMA ClaimFields ==
  ASSUME NEW v \in View, NEW n \in AttemptNos, NEW t \in Tokens
  PROVE  LET w == Drew(v, n, t) IN
           /\ w \in View
           /\ w.state = v.state /\ w.op = v.op
           /\ w.active = v.active /\ w.current = n /\ w.link = v.link
           /\ w.attempts = v.attempts /\ w.gates = v.gates
           /\ w.holder = [v.holder EXCEPT ![t] = n]
<1>1. [v.holder EXCEPT ![t] = n] \in [Tokens -> AttemptNos \cup {0}]
  BY DEF View
<1>2. Drew(v, n, t)
        = [v EXCEPT !.current = n, !.holder = [v.holder EXCEPT ![t] = n]]
  BY DEF Drew, View
<1> QED
  BY <1>1, <1>2 DEF View

LEMMA GateFields ==
  ASSUME NEW v \in View, NEW k \in LinkIds \cup {0}, NEW l \in LinkIds,
         NEW g \in Gate
  PROVE  LET w == WithGate(v, k, l, g) IN
           /\ w \in View
           /\ w.state = v.state /\ w.op = v.op
           /\ w.active = v.active /\ w.current = v.current /\ w.link = k
           /\ w.attempts = v.attempts /\ w.holder = v.holder
           /\ w.gates = [v.gates EXCEPT ![l] = g]
<1>1. [v.gates EXCEPT ![l] = g] \in [LinkIds -> Gate]
  BY DEF View
<1>2. WithGate(v, k, l, g)
        = [v EXCEPT !.link = k, !.gates = [v.gates EXCEPT ![l] = g]]
  BY DEF WithGate, View
<1> QED
  BY <1>1, <1>2 DEF View

\* The attempt rows the operations write.
LEMMA UnleasedFields ==
  ASSUME NEW a \in Attempt, NEW state \in RUN_STATES,
         NEW op \in RUN_OPERATOR_STATES
  PROVE  LET d == Unleased(Moved(a, state, op)) IN
           /\ d \in Attempt /\ d.state = state /\ d.op = op
           /\ d.token = 0 /\ d.lease \in {"released", "expired"}
           /\ d.lease = "expired" => a.lease = "expired"
           /\ d.retries = a.retries
BY DEF Moved, Revoked, Unleased, Attempt, RUN_ATTEMPT_STATES, RUN_LEASE_STATUSES

LEMMA RevokedFields ==
  ASSUME NEW a \in Attempt, NEW state \in RUN_STATES,
         NEW op \in RUN_OPERATOR_STATES, NEW lease \in {"released", "expired"}
  PROVE  LET d == Revoked(Moved(a, state, op), lease) IN
           /\ d \in Attempt /\ d.state = state /\ d.op = op
           /\ d.token = 0 /\ d.lease = lease
           /\ d.retries = a.retries
BY DEF Moved, Revoked, Attempt, RUN_ATTEMPT_STATES, RUN_LEASE_STATUSES

\* An attempt that moves keeps its lease, and one whose lease is confirmed keeps
\* everything else.
LEMMA MovedFields ==
  ASSUME NEW a \in Attempt, NEW state \in RUN_STATES,
         NEW op \in RUN_OPERATOR_STATES
  PROVE  LET d == Moved(a, state, op) IN
           /\ d \in Attempt /\ d.state = state /\ d.op = op
           /\ d.token = a.token /\ d.lease = a.lease
           /\ d.retries = a.retries
BY DEF Moved, Attempt, RUN_ATTEMPT_STATES

LEMMA HeldFields ==
  ASSUME NEW a \in Attempt, NEW state \in RUN_STATES,
         NEW op \in RUN_OPERATOR_STATES
  PROVE  LET d == [Moved(a, state, op) EXCEPT !.lease = "leased"] IN
           /\ d \in Attempt /\ d.state = state /\ d.op = op
           /\ d.token = a.token /\ d.lease = "leased"
           /\ d.retries = a.retries
<1> DEFINE b == Moved(a, state, op)
<1>1. /\ b \in Attempt /\ b.state = state /\ b.op = op
      /\ b.token = a.token /\ b.retries = a.retries
  BY MovedFields
<1> DEFINE d == [b EXCEPT !.lease = "leased"]
<1> HIDE DEF b
<1>2. "leased" \in RUN_LEASE_STATUSES
  BY DEF RUN_LEASE_STATUSES
<1>3. d \in Attempt
  BY <1>1, <1>2 DEF Attempt
<1>4. /\ d.state = b.state /\ d.op = b.op /\ d.token = b.token
      /\ d.lease = "leased" /\ d.retries = b.retries
  BY <1>1 DEF Attempt
<1> HIDE DEF d
<1>5. /\ d \in Attempt /\ d.state = state /\ d.op = op
      /\ d.token = a.token /\ d.lease = "leased" /\ d.retries = a.retries
  BY <1>1, <1>3, <1>4
<1> QED
  BY <1>5 DEF d, b

LEMMA LeasedFields ==
  ASSUME NEW a \in Attempt, NEW t \in Tokens
  PROVE  LET d == Leased(a, t) IN
           /\ d \in Attempt /\ d.state = "dispatching" /\ d.op = "leased"
           /\ d.token = t /\ d.lease = "leased" /\ d.retries = a.retries
<1> DEFINE b == Moved(a, "dispatching", "leased")
<1>1. "dispatching" \in RUN_STATES /\ "leased" \in RUN_OPERATOR_STATES
  BY DEF RUN_STATES, RUN_OPERATOR_STATES
<1>2. /\ b \in Attempt /\ b.state = "dispatching" /\ b.op = "leased"
      /\ b.retries = a.retries
  BY <1>1, MovedFields
<1>3. Leased(a, t) = [b EXCEPT !.lease = "leased", !.token = t, !.overdue = FALSE]
  BY DEF Leased
<1> HIDE DEF b
<1> QED
  BY <1>2, <1>3 DEF Attempt, RUN_LEASE_STATUSES

LEMMA NewAttemptFields ==
  ASSUME NEW state \in RUN_STATES, NEW op \in RUN_OPERATOR_STATES,
         NEW due \in BOOLEAN, NEW retries \in Nat
  PROVE  NewAttempt(state, op, due, retries) \in Attempt
BY DEF NewAttempt, Attempt, RUN_ATTEMPT_STATES, RUN_LEASE_STATUSES

\* The state names the operations write are states.
LEMMA StateNames ==
  /\ {"queued", "dispatching", "executing", "waiting_on_approval",
      "cancel_requested", "retry_backoff", "compensating", "succeeded",
      "failed", "timed_out", "dead_lettered"} \subseteq RUN_STATES
  /\ {"admitted", "leased", "executing", "waiting_external",
      "waiting_on_approval", "paused", "interrupted", "retry_scheduled",
      "completed", "quarantined", "failed", "cancel_requested",
      "compensating"} \subseteq RUN_OPERATOR_STATES
  /\ RUN_ATTEMPT_STATES = RUN_STATES
  /\ CLAIMABLE_RUN_STATES \subseteq RUN_STATES
  /\ CLAIMABLE_OPERATOR_STATES \subseteq RUN_OPERATOR_STATES
  /\ RETRYABLE_RUN_STATES \subseteq RUN_STATES
  /\ "absent" \notin RUN_STATES \cup RUN_OPERATOR_STATES \cup RUN_LEASE_STATUSES
  /\ {"not_leased", "leased", "released", "expired"} = RUN_LEASE_STATUSES
BY DEF RUN_STATES, RUN_OPERATOR_STATES, RUN_ATTEMPT_STATES,
       CLAIMABLE_RUN_STATES, CLAIMABLE_OPERATOR_STATES, RETRYABLE_RUN_STATES,
       RUN_LEASE_STATUSES

LEMMA Numbers ==
  /\ AttemptNos \subseteq Nat \ {0}
  /\ Tokens \subseteq Nat \ {0}
  /\ LinkIds \subseteq Nat \ {0}
BY RowBounds DEF AttemptNos, Tokens, LinkIds

-----------------------------------------------------------------------------
(* Two ways an operation rewrites the rows.                                *)

\* It rewrites the current attempt in place.
InPlaceStep(v, state, a) ==
  /\ \/ a.token \in {0, v.attempts[v.active].token}
     \/ v.holder[a.token] = 0
  /\ state = "succeeded" =>
       \/ v.state = "succeeded"
       \/ /\ v.attempts[v.active].lease = "leased"
          /\ v.op \notin TERMINAL_OPERATOR_STATES

LEMMA InPlaceOK ==
  ASSUME NEW v, RowsOK(v), Exists(v),
         NEW w \in View, NEW a,
         w.state # "absent", w.op # "absent",
         w.active = v.active, w.current = v.active,
         w.attempts = [v.attempts EXCEPT ![v.active] = a],
         Coherent(w, a), GatesOK(w),
         InPlaceStep(v, w.state, a)
  PROVE  StepsTo(v, w)
<1>1. v.attempts \in [AttemptNos -> Attempt] /\ v.active \in AttemptNos
  BY DEF RowsOK, View
<1>2. w.attempts[v.active] = a
  BY <1>1
<1>3. \A n \in AttemptNos : n # v.active => w.attempts[n] = v.attempts[n]
  BY <1>1
<1>4. PastOK(w)
  <2>1. PastOK(v)
    BY DEF RowsOK
  <2>2. v.active \in Nat
    BY <1>1, Numbers
  <2> QED
    BY <2>1, <2>2, <1>3 DEF PastOK
<1>6. RowsOK(w)
  BY <1>1, <1>2, <1>4 DEF RowsOK, Exists
<1>7. SupersededFrozen(v, w)
  <2>1. v.active \in Nat
    BY <1>1, Numbers
  <2>2. ~(v.active < v.active)
    BY <2>1
  <2> QED
    BY <1>3, <2>2 DEF SupersededFrozen
<1>8. SucceedsLeased(v, w)
  BY DEF SucceedsLeased, InPlaceStep, RowsOK
<1>9. TokensStayRevoked(v, w)
  <2> SUFFICES ASSUME NEW t \in Drawn(v), v.attempts[v.holder[t]].token # t
               PROVE  w.attempts[v.holder[t]].token # t
    BY DEF TokensStayRevoked
  <2>1. v.holder[t] \in AttemptNos /\ v.holder[t] # 0 /\ t # 0
    BY Numbers DEF Drawn, RowsOK, View
  <2>2. CASE v.holder[t] # v.active
    BY <1>3, <2>1, <2>2
  <2>3. CASE v.holder[t] = v.active
    BY <1>2, <2>1, <2>3 DEF InPlaceStep
  <2> QED
    BY <2>2, <2>3
<1> QED
  BY <1>6, <1>7, <1>8, <1>9 DEF StepsTo

\* Kept folded where no arithmetic is wanted.
Follows(m, n) == m = n + 1

\* It makes attempt m current, its predecessor being finished and unleased.
LEMMA SupersedeOK ==
  ASSUME NEW v, RowsOK(v), Exists(v),
         NEW u \in View, NEW a,
         u.gates = v.gates, u.holder = v.holder,
         u.attempts = [v.attempts EXCEPT ![v.active] = a],
         a.state \in RETRYABLE_RUN_STATES, a.token = 0, a.lease # "leased",
         NEW m \in AttemptNos, Follows(m, v.active),
         NEW state \in CLAIMABLE_RUN_STATES,
         NEW op \in CLAIMABLE_OPERATOR_STATES,
         NEW due \in BOOLEAN,
         NEW retries \in Nat
  PROVE  StepsTo(v, Supersede(u, m, state, op,
                            NewAttempt(state, op, due, retries)))
<1> DEFINE b == NewAttempt(state, op, due, retries)
           w == Supersede(u, m, state, op, b)
<1>1. /\ v.attempts \in [AttemptNos -> Attempt]
      /\ v.active \in AttemptNos
      /\ v.active \in Nat
  BY Numbers DEF RowsOK, View
<1>2. b \in Attempt
  BY StateNames, NewAttemptFields
<1>4. /\ state \in RUN_STATES /\ op \in RUN_OPERATOR_STATES
      /\ state # "absent" /\ op # "absent"
  BY StateNames
<1>3. /\ w \in View
      /\ w.state = state /\ w.op = op
      /\ w.active = m /\ w.current = m /\ w.link = 0
      /\ w.gates = v.gates /\ w.holder = v.holder
      /\ w.attempts = [u.attempts EXCEPT ![m] = b]
  <2> HIDE DEF b
  <2> QED
    BY <1>2, <1>4, SupersedeFields
<1> HIDE DEF w
<1>5. PastOK(w)
  <2>1. \A n \in AttemptNos : n > m => w.attempts[n] = NoAttempt
    BY <1>1, <1>3, Numbers DEF RowsOK, PastOK, Follows
  <2>2. w.attempts[v.active] = a
    BY <1>1, <1>3, Numbers DEF Follows
  <2>3. \A n \in AttemptNos : n < v.active => w.attempts[n] = v.attempts[n]
    BY <1>1, <1>3, Numbers DEF Follows
  <2>4. \A n \in AttemptNos : n < m => n < v.active \/ n = v.active
    BY <1>1, Numbers DEF Follows
  <2> QED
    BY <1>3, <2>1, <2>2, <2>3, <2>4 DEF RowsOK, PastOK
<1>6. w.attempts[m] = b
  BY <1>1, <1>3
<1>7. Coherent(w, b)
  BY <1>3 DEF Coherent, NewAttempt, CLAIMABLE_RUN_STATES,
              CLAIMABLE_OPERATOR_STATES, TERMINAL_OPERATOR_STATES
<1>8. GatesOK(w)
  BY <1>1, <1>3 DEF RowsOK, GatesOK, View, Gate, CLAIMABLE_RUN_STATES, Follows
<1> QED
  <2>1. Exists(w)
    BY <1>3, <1>4 DEF Exists
  <2>2. Coherent(w, w.attempts[w.active])
    BY <1>3, <1>6, <1>7
  <2>3. RowsOK(w)
    BY <2>1, <2>2, <1>3, <1>4, <1>5, <1>8 DEF RowsOK
  <2>4. \A n \in AttemptNos : n # m /\ n # v.active => w.attempts[n] = v.attempts[n]
    BY <1>1, <1>3
  <2>5. w.attempts[v.active] = a
    BY <1>1, <1>3, Numbers DEF Follows
  <2>6. SupersededFrozen(v, w)
    <3>1. ~(v.active < v.active) /\ ~(m < v.active)
      BY <1>1, Numbers DEF Follows
    <3> QED
      BY <2>4, <3>1 DEF SupersededFrozen
  <2>7. SucceedsLeased(v, w)
    BY <1>3 DEF SucceedsLeased, CLAIMABLE_RUN_STATES
  <2>8. TokensStayRevoked(v, w)
    <3> SUFFICES ASSUME NEW t \in Drawn(v), v.attempts[v.holder[t]].token # t
                 PROVE  w.attempts[v.holder[t]].token # t
      BY DEF TokensStayRevoked
    <3>1. v.holder[t] \in AttemptNos /\ t # 0
      BY Numbers DEF Drawn, RowsOK, View
    <3>2. b.token = 0
      BY DEF NewAttempt
    <3> HIDE DEF b
    <3> QED
      BY <1>6, <2>4, <2>5, <3>1, <3>2
  <2> QED
    BY <2>3, <2>6, <2>7, <2>8 DEF w, StepsTo

-----------------------------------------------------------------------------
(* The operations.                                                         *)

\* The rows of a run that exists, as the lemmas on the operations use them.
LEMMA RowsFacts ==
  ASSUME NEW v, RowsOK(v), Exists(v)
  PROVE  /\ v \in View
         /\ v.state \in RUN_STATES /\ v.op \in RUN_OPERATOR_STATES
         /\ v.active \in AttemptNos /\ v.current = v.active
         /\ v.link \in LinkIds \cup {0}
         /\ v.attempts[v.active] \in Attempt
         /\ Coherent(v, v.attempts[v.active])
         /\ GatesOK(v)
BY DEF RowsOK, Exists, View

\* An attempt a worker, approver or the reconciler can act on is the current one.
LEMMA LiveIsCurrent ==
  ASSUME NEW v, RowsOK(v), NEW n \in AttemptNos,
         \/ v.attempts[n].state \notin RETRYABLE_RUN_STATES \cup {"absent"}
         \/ v.attempts[n].lease = "leased"
         \/ v.attempts[n].token # 0
  PROVE  Exists(v) /\ n = v.active /\ v.active = v.current
<1>1. Exists(v)
  BY DEF RowsOK, NoRun, NoAttempt, Exists
<1>2. v.attempts \in [AttemptNos -> Attempt] /\ v.active \in AttemptNos
  BY <1>1 DEF RowsOK, View
<1>3. ~(n > v.active) /\ ~(n < v.active)
  BY <1>1 DEF RowsOK, PastOK, NoAttempt
<1>4. n \in Nat /\ v.active \in Nat
  BY <1>2, Numbers
<1> QED
  BY <1>1, <1>3, <1>4 DEF RowsOK

LEMMA ClaimOK ==
  ASSUME NEW v, RowsOK(v),
         NEW n \in AttemptNos, NEW t \in Tokens, CanClaim(v, n),
         NextToken(v, t)
  PROVE  StepsTo(v, Claim(v, n, t))
<1> DEFINE a == Leased(v.attempts[n], t)
           u == Put(v, n, "dispatching", "leased", a)
           w == Claim(v, n, t)
<1>1. Exists(v) /\ n = v.active /\ v.current = n
  BY LiveIsCurrent DEF CanClaim, CLAIMABLE_RUN_STATES, RETRYABLE_RUN_STATES
<1>2. a \in Attempt /\ a.retries = v.attempts[n].retries
      /\ a.state = "dispatching" /\ a.op = "leased" /\ a.lease = "leased"
      /\ a.token = t
  BY <1>1, RowsFacts, LeasedFields
<1> HIDE DEF a
<1>3. /\ u \in View
      /\ u.state = "dispatching" /\ u.op = "leased"
      /\ u.active = v.active /\ u.gates = v.gates /\ u.holder = v.holder
      /\ u.attempts = [v.attempts EXCEPT ![n] = a]
  BY <1>1, <1>2, RowsFacts, StateNames, PutFields
<1> HIDE DEF u
<1>4. /\ w \in View
      /\ w.state = "dispatching" /\ w.op = "leased"
      /\ w.active = v.active /\ w.current = v.active /\ w.gates = v.gates
      /\ w.holder = [v.holder EXCEPT ![t] = n]
      /\ w.attempts = [v.attempts EXCEPT ![n] = a]
  <2>1. w = Drew(u, n, t)
    BY DEF Claim, Drew, u, a
  <2> HIDE DEF w
  <2>2. /\ w \in View
        /\ w.state = u.state /\ w.op = u.op
        /\ w.active = u.active /\ w.current = n
        /\ w.attempts = u.attempts /\ w.gates = u.gates
        /\ w.holder = [u.holder EXCEPT ![t] = n]
    BY <1>3, <2>1, ClaimFields
  <2> QED
    BY <1>1, <1>3, <2>2
<1> HIDE DEF w
<1>5. Coherent(w, a)
  BY <1>1, <1>2, <1>4, Numbers DEF Coherent, RowsOK, View,
     IN_FLIGHT_ATTEMPT_STATES, TERMINAL_OPERATOR_STATES
<1>6. GatesOK(w)
  BY <1>1, <1>4, RowsFacts DEF GatesOK, CanClaim, Coherent, CLAIMABLE_RUN_STATES
<1>8. InPlaceStep(v, w.state, a)
  BY <1>2, <1>4, Numbers DEF NextToken, InPlaceStep
<1>7. StepsTo(v, w)
  BY <1>1, <1>2, <1>4, <1>5, <1>6, <1>8, InPlaceOK
<1> QED
  BY <1>7 DEF w

\* Operations that only move the run and its current attempt: what the new
\* columns have to satisfy.
PutCoherent(v, state, op, a) ==
  /\ a.state = state
  /\ a.op = op \/ (state = "timed_out" /\ op = "quarantined")
  /\ (a.token # 0) <=> a.lease = "leased"
  /\ a.token # 0 => v.holder[a.token] = v.active
  /\ a.lease = "leased" => /\ state \in IN_FLIGHT_ATTEMPT_STATES
                           /\ op \notin TERMINAL_OPERATOR_STATES
  /\ state \in {"dispatching", "executing"} => a.lease = "leased"
  /\ state = "queued" => op \notin TERMINAL_OPERATOR_STATES
  /\ state = "dead_lettered" => op \in TERMINAL_OPERATOR_STATES
  /\ state = "waiting_on_approval" => a.lease = "released"
  /\ a.lease = "expired" => state = "timed_out" /\ op = "quarantined"
  /\ InPlaceStep(v, state, a)

\* No gate the current attempt opened is open.
NoOpenGate(v) ==
  \A l \in LinkIds :
    ~(v.gates[l].status = "open" /\ v.gates[l].attempt = v.active)

PutGates(v, state, a) ==
  LET token == v.attempts[v.active].token IN
    \/ state = v.state /\ a.token = token
    \/ state # "waiting_on_approval" /\ NoOpenGate(v)
    \/ state \in {"cancel_requested", "dead_lettered"} /\ a.token \in {0, token}

LEMMA PutOK ==
  ASSUME NEW v, RowsOK(v), Exists(v),
         NEW state \in RUN_STATES, NEW op \in RUN_OPERATOR_STATES,
         NEW a \in Attempt, a.retries = v.attempts[v.active].retries,
         PutCoherent(v, state, op, a), PutGates(v, state, a)
  PROVE  StepsTo(v, Put(v, v.active, state, op, a))
<1> DEFINE w == Put(v, v.active, state, op, a)
<1>1. /\ w \in View
      /\ w.state = state /\ w.op = op
      /\ w.active = v.active /\ w.current = v.active /\ w.link = v.link
      /\ w.attempts = [v.attempts EXCEPT ![v.active] = a]
      /\ w.gates = v.gates /\ w.holder = v.holder
  BY RowsFacts, PutFields
<1> HIDE DEF w
<1>2. v.attempts \in [AttemptNos -> Attempt] /\ v.active \in AttemptNos
  BY RowsFacts DEF View
<1>3. w.attempts[w.active] = a
  BY <1>1, <1>2
<1>4. Coherent(w, a)
  BY <1>1 DEF PutCoherent, Coherent
<1>5. GatesOK(w)
  BY <1>1, <1>2, <1>3, RowsFacts DEF GatesOK, PutGates, NoOpenGate
<1>6. w.state # "absent" /\ w.op # "absent"
  BY <1>1, StateNames
<1>7. StepsTo(v, w)
  BY <1>1, <1>4, <1>5, <1>6, InPlaceOK DEF PutCoherent
<1> QED
  BY <1>7 DEF w

\* An attempt that holds a lease has no open gate.
LEMMA LeasedHasNoGate ==
  ASSUME NEW v, RowsOK(v), Exists(v), v.attempts[v.active].token # 0
  PROVE  NoOpenGate(v)
BY RowsFacts DEF GatesOK, NoOpenGate

LEMMA MarkExecutingOK ==
  ASSUME NEW v, RowsOK(v), NEW n \in AttemptNos, NEW t \in Tokens,
         CanMarkExecuting(v, n, t), NEW o \in {"executing", "waiting_external"}
  PROVE  StepsTo(v, MarkExecuting(v, n, o))
<1> DEFINE a == [Moved(v.attempts[n], "executing", o) EXCEPT !.lease = "leased"]
<1>1. Exists(v) /\ n = v.active /\ v.attempts[n].token = t /\ t # 0
      /\ v.attempts[n].state = "dispatching"
  BY LiveIsCurrent, Numbers DEF CanMarkExecuting, RETRYABLE_RUN_STATES
<1>2. v.attempts[n] \in Attempt /\ Coherent(v, v.attempts[n])
  BY <1>1, RowsFacts
<1>3. /\ a \in Attempt /\ a.state = "executing" /\ a.op = o
      /\ a.lease = "leased" /\ a.token = t /\ a.retries = v.attempts[n].retries
  <2>1. "executing" \in RUN_STATES /\ o \in RUN_OPERATOR_STATES
    BY StateNames
  <2> QED
    BY <1>1, <1>2, <2>1, HeldFields
<1> HIDE DEF a
<1>4. PutCoherent(v, "executing", o, a)
  BY <1>1, <1>2, <1>3 DEF PutCoherent, InPlaceStep, Coherent, IN_FLIGHT_ATTEMPT_STATES,
                          TERMINAL_OPERATOR_STATES
<1>5. PutGates(v, "executing", a)
  BY <1>1, LeasedHasNoGate DEF PutGates
<1>6. "executing" \in RUN_STATES /\ o \in RUN_OPERATOR_STATES
  BY StateNames
<1>7. StepsTo(v, Put(v, n, "executing", o, a))
  BY <1>1, <1>3, <1>4, <1>5, <1>6, PutOK
<1> QED
  BY <1>7 DEF MarkExecuting, a

LEMMA CompleteOK ==
  ASSUME NEW v, RowsOK(v), NEW n \in AttemptNos, NEW t \in Tokens,
         CanComplete(v, n, t)
  PROVE  StepsTo(v, Complete(v, n))
<1> DEFINE a == Unleased(Moved(v.attempts[n], "succeeded", "completed"))
<1>1. Exists(v) /\ n = v.active /\ v.attempts[n].token # 0
  BY LiveIsCurrent, Numbers DEF CanComplete
<1>0. "succeeded" \in RUN_STATES /\ "completed" \in RUN_OPERATOR_STATES
  BY StateNames
<1>2. /\ a \in Attempt /\ a.state = "succeeded" /\ a.op = "completed"
      /\ a.token = 0 /\ a.lease = "released"
      /\ a.retries = v.attempts[n].retries
  BY <1>0, <1>1, RowsFacts, UnleasedFields DEF Coherent
<1> HIDE DEF a
<1>3. PutCoherent(v, "succeeded", "completed", a)
  BY <1>1, <1>2, RowsFacts DEF PutCoherent, InPlaceStep, Coherent
<1>4. PutGates(v, "succeeded", a)
  BY <1>1, LeasedHasNoGate DEF PutGates
<1>5. StepsTo(v, Put(v, n, "succeeded", "completed", a))
  BY <1>0, <1>1, <1>2, <1>3, <1>4, PutOK
<1> QED
  BY <1>5 DEF Complete, a

LEMMA RequestCancelOK ==
  ASSUME NEW v, RowsOK(v), CanRequestCancel(v)
  PROVE  StepsTo(v, RequestCancel(v))
<1> DEFINE a == Moved(v.attempts[v.active], "cancel_requested",
                      "cancel_requested")
<1>1. Exists(v) /\ v.current = v.active
  BY DEF CanRequestCancel, Exists, RowsOK
<1>2. /\ a \in Attempt /\ a.state = "cancel_requested"
      /\ a.op = "cancel_requested"
      /\ a.token = v.attempts[v.active].token
      /\ a.lease = v.attempts[v.active].lease
      /\ a.retries = v.attempts[v.active].retries
      /\ "cancel_requested" \in RUN_STATES
      /\ "cancel_requested" \in RUN_OPERATOR_STATES
  <2>1. v.attempts[v.active] \in Attempt
    BY <1>1, RowsFacts
  <2>2. "cancel_requested" \in RUN_STATES /\ "cancel_requested" \in RUN_OPERATOR_STATES
    BY StateNames
  <2> QED
    BY <2>1, <2>2, MovedFields
<1> HIDE DEF a
<1>3. PutCoherent(v, "cancel_requested", "cancel_requested", a)
  <2>1. Coherent(v, v.attempts[v.active])
    BY <1>1, RowsFacts
  <2> QED
    BY <1>1, <1>2, <2>1
     DEF PutCoherent, InPlaceStep, Coherent, CanRequestCancel,
         IN_FLIGHT_ATTEMPT_STATES, TERMINAL_OPERATOR_STATES, TERMINAL_RUN_STATES
<1>4. PutGates(v, "cancel_requested", a)
  BY <1>2 DEF PutGates
<1>5. StepsTo(v, Put(v, v.active, "cancel_requested", "cancel_requested", a))
  BY <1>1, <1>2, <1>3, <1>4, PutOK
<1> QED
  BY <1>1, <1>5 DEF RequestCancel, MoveBoth, a

LEMMA PauseOK ==
  ASSUME NEW v, RowsOK(v), CanPause(v)
  PROVE  StepsTo(v, Pause(v))
<1> DEFINE a == [v.attempts[v.active] EXCEPT !.op = "paused"]
<1>1. Exists(v) /\ v.current = v.active
  BY DEF CanPause, RowsOK
<1>2. /\ a \in Attempt /\ a.state = v.attempts[v.active].state
      /\ a.op = "paused"
      /\ a.token = v.attempts[v.active].token
      /\ a.lease = v.attempts[v.active].lease
      /\ a.retries = v.attempts[v.active].retries
      /\ "paused" \in RUN_OPERATOR_STATES
  BY <1>1, RowsFacts, StateNames DEF Attempt
<1> HIDE DEF a
<1>3. PutCoherent(v, v.state, "paused", a)
  BY <1>1, <1>2, RowsFacts
     DEF PutCoherent, InPlaceStep, Coherent, CanPause, TERMINAL_OPERATOR_STATES
<1>4. PutGates(v, v.state, a)
  BY <1>2 DEF PutGates
<1>5. StepsTo(v, Put(v, v.active, v.state, "paused", a))
  BY <1>1, <1>2, <1>3, <1>4, RowsFacts, PutOK
<1> QED
  BY <1>1, <1>5 DEF Pause, a

LEMMA ResumeOK ==
  ASSUME NEW v, RowsOK(v), CanResume(v)
  PROVE  StepsTo(v, Resume(v))
<1> DEFINE o == RUN_TO_OPERATOR_RESUME_MAP[v.state]
           a == [v.attempts[v.active] EXCEPT !.op = o]
<1>1. Exists(v)
  BY DEF CanResume, RowsOK, NoRun
<1>2. /\ v.current = v.active /\ v.state \in RUN_STATES
      /\ v.attempts[v.active] \in Attempt
      /\ Coherent(v, v.attempts[v.active])
  BY <1>1, RowsFacts
<1>3. /\ o \in RUN_OPERATOR_STATES
      /\ v.state \in IN_FLIGHT_ATTEMPT_STATES \cup {"queued"}
           => o \notin TERMINAL_OPERATOR_STATES
      /\ v.state = "dead_lettered" => o \in TERMINAL_OPERATOR_STATES
  BY <1>2 DEF RUN_TO_OPERATOR_RESUME_MAP, RUN_OPERATOR_STATES,
              IN_FLIGHT_ATTEMPT_STATES, TERMINAL_OPERATOR_STATES
<1> HIDE DEF o
<1>4. /\ a \in Attempt /\ a.state = v.attempts[v.active].state
      /\ a.op = o
      /\ a.token = v.attempts[v.active].token
      /\ a.lease = v.attempts[v.active].lease
      /\ a.retries = v.attempts[v.active].retries
  BY <1>2, <1>3 DEF Attempt
<1> HIDE DEF a
<1>5. PutCoherent(v, v.state, o, a)
  BY <1>2, <1>3, <1>4 DEF PutCoherent, InPlaceStep, Coherent, CanResume
<1>6. PutGates(v, v.state, a)
  BY <1>4 DEF PutGates
<1>7. StepsTo(v, Put(v, v.active, v.state, o, a))
  BY <1>1, <1>2, <1>3, <1>4, <1>5, <1>6, PutOK
<1> QED
  BY <1>2, <1>7 DEF Resume, a, o

LEMMA InterruptOK ==
  ASSUME NEW v, RowsOK(v), CanInterrupt(v)
  PROVE  StepsTo(v, Interrupt(v))
<1> DEFINE a == Unleased(Moved(v.attempts[v.active], "cancel_requested",
                               "interrupted"))
<1>1. Exists(v) /\ v.current = v.active
  BY DEF CanInterrupt, RowsOK
<1>2. "cancel_requested" \in RUN_STATES /\ "interrupted" \in RUN_OPERATOR_STATES
  BY StateNames
<1>3. /\ a \in Attempt /\ a.state = "cancel_requested" /\ a.op = "interrupted"
      /\ a.token = 0 /\ a.lease = "released"
      /\ a.retries = v.attempts[v.active].retries
  <2>1. v.attempts[v.active].lease # "expired"
    BY <1>1, RowsFacts DEF CanInterrupt, Coherent, TERMINAL_OPERATOR_STATES
  <2> QED
    BY <1>1, <1>2, <2>1, RowsFacts, UnleasedFields
<1> HIDE DEF a
<1>4. PutCoherent(v, "cancel_requested", "interrupted", a)
  BY <1>3 DEF PutCoherent, InPlaceStep
<1>5. PutGates(v, "cancel_requested", a)
  BY <1>3 DEF PutGates
<1>6. StepsTo(v, Put(v, v.active, "cancel_requested", "interrupted", a))
  BY <1>1, <1>2, <1>3, <1>4, <1>5, PutOK
<1> QED
  BY <1>1, <1>6 DEF Interrupt, a

LEMMA QuarantineOK ==
  ASSUME NEW v, RowsOK(v), CanQuarantine(v)
  PROVE  StepsTo(v, Quarantine(v))
<1> DEFINE a == Unleased(Moved(v.attempts[v.active], "dead_lettered",
                               "quarantined"))
<1>1. Exists(v) /\ v.current = v.active
  BY DEF CanQuarantine, RowsOK
<1>2. "dead_lettered" \in RUN_STATES /\ "quarantined" \in RUN_OPERATOR_STATES
  BY StateNames
<1>3. /\ a \in Attempt /\ a.state = "dead_lettered" /\ a.op = "quarantined"
      /\ a.token = 0 /\ a.lease = "released"
      /\ a.retries = v.attempts[v.active].retries
  <2>1. v.attempts[v.active].lease # "expired"
    BY <1>1, RowsFacts DEF CanQuarantine, Coherent
  <2> QED
    BY <1>1, <1>2, <2>1, RowsFacts, UnleasedFields
<1> HIDE DEF a
<1>4. PutCoherent(v, "dead_lettered", "quarantined", a)
  BY <1>3 DEF PutCoherent, InPlaceStep, TERMINAL_OPERATOR_STATES
<1>5. PutGates(v, "dead_lettered", a)
  BY <1>3 DEF PutGates
<1>6. StepsTo(v, Put(v, v.active, "dead_lettered", "quarantined", a))
  BY <1>1, <1>2, <1>3, <1>4, <1>5, PutOK
<1> QED
  BY <1>1, <1>6 DEF Quarantine, a

LEMMA ReconcileOK ==
  ASSUME NEW v, RowsOK(v), NEW n \in AttemptNos, CanReconcile(v, n)
  PROVE  StepsTo(v, Reconcile(v, n))
<1> DEFINE a == Revoked(Moved(v.attempts[n], "timed_out", "interrupted"),
                        "expired")
<1>1. Exists(v) /\ n = v.active /\ v.attempts[n].lease = "leased"
  BY LiveIsCurrent DEF CanReconcile, LeaseExpired
<1>2. /\ "timed_out" \in RUN_STATES
      /\ {"interrupted", "quarantined"} \subseteq RUN_OPERATOR_STATES
  BY StateNames
<1>3. /\ a \in Attempt /\ a.state = "timed_out" /\ a.op = "interrupted"
      /\ a.token = 0 /\ a.lease = "expired"
      /\ a.retries = v.attempts[n].retries
  BY <1>1, <1>2, RowsFacts, RevokedFields
<1> HIDE DEF a
<1>4. PutCoherent(v, "timed_out", "quarantined", a)
  BY <1>3 DEF PutCoherent, InPlaceStep
<1>5. v.attempts[v.active].token # 0
  BY <1>1, RowsFacts DEF Coherent
<1>6. PutGates(v, "timed_out", a)
  BY <1>1, <1>5, LeasedHasNoGate DEF PutGates
<1>7. StepsTo(v, Put(v, n, "timed_out", "quarantined", a))
  BY <1>1, <1>2, <1>3, <1>4, <1>6, PutOK
<1> QED
  BY <1>7 DEF Reconcile, a

LEMMA RetryAttemptOK ==
  ASSUME NEW v, RowsOK(v), NEW n \in AttemptNos, NEW t \in Tokens,
         CanRecordFailure(v, n, t), ShouldRetry(v, TRUE)
  PROVE  StepsTo(v, RetryAttempt(v, n))
<1> DEFINE a == Unleased(Moved(v.attempts[n], "failed", "failed"))
           u == Wrote(v, n, a)
           m == v.active + 1
           k == v.attempts[n].retries + 1
<1>1. Exists(v) /\ n = v.active
  BY LiveIsCurrent, Numbers DEF CanRecordFailure
<1>2. "failed" \in RUN_STATES /\ "failed" \in RUN_OPERATOR_STATES
  BY StateNames
<1>3. /\ a \in Attempt /\ a.state = "failed" /\ a.token = 0
      /\ a.lease \in {"released", "expired"}
      /\ a.retries = v.attempts[n].retries
  BY <1>1, <1>2, RowsFacts, UnleasedFields
<1> HIDE DEF a
<1>4. /\ u \in View /\ u.gates = v.gates /\ u.holder = v.holder
      /\ u.attempts = [v.attempts EXCEPT ![v.active] = a]
  BY <1>1, <1>3, RowsFacts, WroteFields
<1> HIDE DEF u
<1>5. v.active \in Nat /\ v.active > 0 /\ v.attempts[n].retries \in Nat
  BY <1>1, RowsFacts, Numbers DEF Attempt
<1>6. m \in AttemptNos /\ Follows(m, v.active)
  BY <1>5, RowBounds DEF ShouldRetry, AttemptNos, Follows
<1>7. k \in Nat
  BY <1>5
<1>8. /\ "retry_backoff" \in CLAIMABLE_RUN_STATES
      /\ "retry_scheduled" \in CLAIMABLE_OPERATOR_STATES
      /\ a.state \in RETRYABLE_RUN_STATES
  BY <1>3 DEF CLAIMABLE_RUN_STATES, CLAIMABLE_OPERATOR_STATES,
              RETRYABLE_RUN_STATES
<1> HIDE DEF m, k
<1>9. StepsTo(v, Supersede(u, m, "retry_backoff", "retry_scheduled",
               NewAttempt("retry_backoff", "retry_scheduled", FALSE, k)))
  BY <1>1, <1>3, <1>4, <1>6, <1>7, <1>8, SupersedeOK
<1> QED
  BY <1>9 DEF RetryAttempt, Wrote, a, u, m, k

LEMMA AdmitRetryOK ==
  ASSUME NEW v, RowsOK(v), CanAdmitRetry(v), v.active < AttemptLimit
  PROVE  StepsTo(v, AdmitRetry(v))
<1> DEFINE a == v.attempts[v.active]
           m == v.active + 1
           k == 0
<1>1. Exists(v)
  BY DEF CanAdmitRetry, RETRYABLE_RUN_STATES, Exists
<1>2. /\ v \in View /\ v.active \in AttemptNos /\ Coherent(v, a)
      /\ a.state \in RETRYABLE_RUN_STATES
      /\ v.attempts = [v.attempts EXCEPT ![v.active] = a]
  BY <1>1, RowsFacts DEF CanAdmitRetry, Coherent, View
<1>3. a.token = 0 /\ a.lease # "leased"
  BY <1>2 DEF Coherent, RETRYABLE_RUN_STATES, IN_FLIGHT_ATTEMPT_STATES
<1>4. m \in AttemptNos /\ Follows(m, v.active)
  BY <1>2, Numbers, RowBounds DEF AttemptNos, Follows
<1>5. "queued" \in CLAIMABLE_RUN_STATES /\ "admitted" \in CLAIMABLE_OPERATOR_STATES
  BY DEF CLAIMABLE_RUN_STATES, CLAIMABLE_OPERATOR_STATES
<1>6. k \in Nat
  OBVIOUS
<1> HIDE DEF a, m, k
<1>7. StepsTo(v, Supersede(v, m, "queued", "admitted",
                       NewAttempt("queued", "admitted", TRUE, k)))
  BY <1>1, <1>2, <1>3, <1>4, <1>5, <1>6, SupersedeOK
<1> QED
  BY <1>7 DEF AdmitRetry, m, k

LEMMA DeadLetterAttemptOK ==
  ASSUME NEW v, RowsOK(v), NEW n \in AttemptNos, NEW t \in Tokens,
         CanRecordFailure(v, n, t)
  PROVE  StepsTo(v, DeadLetterAttempt(v, n))
<1> DEFINE a == Unleased(Moved(v.attempts[n], "dead_lettered", "quarantined"))
           u == Put(v, n, "dead_lettered", "quarantined", a)
           w == [u EXCEPT !.link = 0]
<1>1. Exists(v) /\ n = v.active /\ v.attempts[n].token # 0
  BY LiveIsCurrent, Numbers DEF CanRecordFailure
<1>2. "dead_lettered" \in RUN_STATES /\ "quarantined" \in RUN_OPERATOR_STATES
  BY StateNames
<1>3. /\ a \in Attempt /\ a.state = "dead_lettered" /\ a.op = "quarantined"
      /\ a.token = 0 /\ a.lease = "released"
      /\ a.retries = v.attempts[n].retries
  BY <1>1, <1>2, RowsFacts, UnleasedFields DEF Coherent
<1> HIDE DEF a
<1>4. PutCoherent(v, "dead_lettered", "quarantined", a)
  BY <1>3 DEF PutCoherent, InPlaceStep, TERMINAL_OPERATOR_STATES
<1>5. PutGates(v, "dead_lettered", a)
  BY <1>3 DEF PutGates
<1>6. StepsTo(v, u) /\ RowsOK(u) /\ u.state = "dead_lettered"
  <2>1. StepsTo(v, u)
    BY <1>1, <1>2, <1>3, <1>4, <1>5, PutOK
  <2>2. v \in View
    BY DEF RowsOK
  <2>3. u.state = "dead_lettered"
    BY <2>2 DEF Put, View
  <2> QED
    BY <2>1, <2>3 DEF StepsTo
<1> HIDE DEF u
<1>7. /\ w \in View /\ w.state = u.state /\ w.op = u.op
      /\ w.active = u.active /\ w.current = u.current
      /\ w.attempts = u.attempts /\ w.gates = u.gates /\ w.holder = u.holder
  BY <1>6 DEF RowsOK, View
<1> HIDE DEF w
<1>8. RowsOK(w)
  <2>1. PastOK(u) => PastOK(w)
    BY <1>7 DEF PastOK
  <2>3. GatesOK(u) => GatesOK(w)
    BY <1>6, <1>7 DEF GatesOK
  <2>4. Coherent(u, u.attempts[u.active]) => Coherent(w, w.attempts[w.active])
    BY <1>7 DEF Coherent
  <2> QED
    BY <1>6, <1>7, <2>1, <2>3, <2>4 DEF RowsOK, Exists
<1>9. StepsTo(v, w)
  BY <1>6, <1>7, <1>8 DEF StepsTo, SupersededFrozen, SucceedsLeased,
                          TokensStayRevoked
<1> QED
  BY <1>9 DEF DeadLetterAttempt, w, u, a

LEMMA RecordFailureOK ==
  ASSUME NEW v, RowsOK(v), NEW n \in AttemptNos, NEW t \in Tokens,
         CanRecordFailure(v, n, t), NEW retryable \in BOOLEAN
  PROVE  StepsTo(v, RecordFailure(v, n, retryable))
<1>1. CASE ShouldRetry(v, retryable)
  BY <1>1, RetryAttemptOK DEF RecordFailure, ShouldRetry
<1>2. CASE ~ShouldRetry(v, retryable)
  BY <1>2, DeadLetterAttemptOK DEF RecordFailure
<1> QED
  BY <1>1, <1>2

\* Renewing a lease, and the clock: only the time flags of an attempt change.
LEMMA FlagsOK ==
  ASSUME NEW v, RowsOK(v), NEW n \in AttemptNos,
         v.attempts[n].state # "absent",
         NEW due \in BOOLEAN, NEW overdue \in BOOLEAN,
         v.attempts[n].lease # "leased" => overdue = v.attempts[n].overdue
  PROVE  StepsTo(v, Wrote(v, n, [v.attempts[n] EXCEPT !.due = due,
                                                      !.overdue = overdue]))
<1> DEFINE b == [v.attempts[n] EXCEPT !.due = due, !.overdue = overdue]
           w == Wrote(v, n, b)
<1>1. Exists(v)
  BY DEF RowsOK, NoRun, NoAttempt, Exists
<1>2. /\ v \in View /\ v.attempts \in [AttemptNos -> Attempt]
      /\ v.active \in AttemptNos
  BY <1>1, RowsFacts DEF View
<1>3. /\ b \in Attempt /\ b.state = v.attempts[n].state
      /\ b.op = v.attempts[n].op /\ b.token = v.attempts[n].token
      /\ b.lease = v.attempts[n].lease /\ b.retries = v.attempts[n].retries
  BY <1>2 DEF Attempt
<1> HIDE DEF b
<1>4. /\ w \in View
      /\ w.state = v.state /\ w.op = v.op
      /\ w.active = v.active /\ w.current = v.current /\ w.link = v.link
      /\ w.attempts = [v.attempts EXCEPT ![n] = b]
      /\ w.gates = v.gates /\ w.holder = v.holder
  BY <1>2, <1>3, WroteFields
<1> HIDE DEF w
<1>5. \A m \in AttemptNos : m # n => w.attempts[m] = v.attempts[m]
  BY <1>2, <1>4
<1>6. w.attempts[n] = b
  BY <1>2, <1>4
<1>7. PastOK(w)
  <2>1. PastOK(v)
    BY <1>1 DEF RowsOK
  <2>2. ~(n > v.active)
    BY <2>1 DEF PastOK, NoAttempt
  <2> QED
    BY <1>3, <1>4, <1>5, <1>6, <2>1, <2>2 DEF PastOK
<1>9. Coherent(w, w.attempts[w.active])
  <2>1. Coherent(v, v.attempts[v.active])
    BY <1>1 DEF RowsOK
  <2>2. CASE n = v.active
    BY <1>3, <1>4, <1>6, <2>1, <2>2 DEF Coherent
  <2>3. CASE n # v.active
    BY <1>2, <1>4, <1>5, <2>1, <2>3 DEF Coherent
  <2> QED
    BY <2>2, <2>3
<1>10. GatesOK(w)
  <2>1. GatesOK(v)
    BY <1>1 DEF RowsOK
  <2>2. w.attempts[v.active].token = v.attempts[v.active].token
    BY <1>2, <1>3, <1>5, <1>6
  <2> QED
    BY <1>4, <2>1, <2>2 DEF GatesOK
<1>11. RowsOK(w)
  BY <1>1, <1>4, <1>7, <1>9, <1>10 DEF RowsOK, Exists
<1>12. SupersededFrozen(v, w)
  <2> SUFFICES ASSUME NEW m \in AttemptNos, m < v.active
               PROVE  [w.attempts[m] EXCEPT !.due = FALSE]
                        = [v.attempts[m] EXCEPT !.due = FALSE]
    BY DEF SupersededFrozen
  <2>1. CASE m # n
    BY <1>5, <2>1
  <2>2. CASE m = n
    <3>1. v.attempts[n].lease # "leased"
      BY <1>1, <2>2 DEF RowsOK, PastOK
    <3>2. v.attempts[n] \in Attempt /\ overdue = v.attempts[n].overdue
      BY <1>2, <3>1
    <3> QED
      BY <1>6, <2>2, <3>2 DEF b, Attempt
  <2> QED
    BY <2>1, <2>2
<1>13. SucceedsLeased(v, w)
  BY <1>4 DEF SucceedsLeased
<1>14. TokensStayRevoked(v, w)
  BY <1>2, <1>3, <1>5, <1>6 DEF TokensStayRevoked, Drawn, View
<1> QED
  BY <1>11, <1>12, <1>13, <1>14 DEF StepsTo, w, b

LEMMA OpenApprovalOK ==
  ASSUME NEW v, RowsOK(v), NEW n \in AttemptNos, NEW l \in LinkIds,
         CanOpenApproval(v, n), NEW disposition \in Dispositions
  PROVE  StepsTo(v, OpenApproval(v, n, l, disposition))
<1> DEFINE waiting == "waiting_on_approval"
           a == Revoked(Moved(v.attempts[n], waiting, waiting), "released")
           u == Put(v, n, waiting, waiting, a)
           g == [attempt |-> n, status |-> "open", disposition |-> disposition]
           w == WithGate(u, l, l, g)
<1>1. Exists(v) /\ n = v.active
  BY LiveIsCurrent DEF CanOpenApproval, RETRYABLE_RUN_STATES
<1>2. v \in View /\ v.attempts[n] \in Attempt /\ v.current = v.active
  BY <1>1, RowsFacts
<1>3. NoOpenGate(v)
  <2>1. GatesOK(v) /\ v.state = "executing"
    BY <1>1, RowsFacts DEF CanOpenApproval
  <2> QED
    BY <2>1 DEF GatesOK, NoOpenGate
<1>4. waiting \in RUN_STATES /\ waiting \in RUN_OPERATOR_STATES
  BY StateNames
<1>5. /\ a \in Attempt /\ a.state = waiting /\ a.op = waiting
      /\ a.token = 0 /\ a.lease = "released" /\ a.retries = v.attempts[n].retries
  BY <1>2, <1>4, RevokedFields
<1> HIDE DEF a
<1>6. /\ u \in View /\ u.state = waiting /\ u.op = waiting
      /\ u.active = v.active /\ u.current = v.active
      /\ u.attempts = [v.attempts EXCEPT ![n] = a]
      /\ u.gates = v.gates /\ u.holder = v.holder
  BY <1>2, <1>4, <1>5, PutFields
<1> HIDE DEF u
<1>7. g \in Gate
  BY DEF Gate
<1>8. /\ w \in View /\ w.state = u.state /\ w.op = u.op
      /\ w.active = u.active /\ w.current = u.current /\ w.link = l
      /\ w.attempts = u.attempts /\ w.holder = u.holder
      /\ w.gates = [u.gates EXCEPT ![l] = g]
  <2> HIDE DEF g
  <2> QED
    BY <1>6, <1>7, GateFields
<1> HIDE DEF w
<1>9. Coherent(w, a)
  BY <1>5, <1>6, <1>8 DEF Coherent
<1>10. GatesOK(w)
  <2>1. w.gates[l] = g /\ w.attempts[v.active] = a
    BY <1>1, <1>2, <1>6, <1>8 DEF View
  <2>2. \A k \in LinkIds : k # l => w.gates[k] = v.gates[k]
    BY <1>2, <1>6, <1>8 DEF View
  <2>3. GatesOK(v)
    BY <1>1, RowsFacts
  <2>4. n \in 1..v.active
    BY <1>1, Numbers
  <2> QED
    BY <1>1, <1>3, <1>5, <1>6, <1>8, <2>1, <2>2, <2>3, <2>4
       DEF GatesOK, NoOpenGate
<1>11. StepsTo(v, w)
  BY <1>1, <1>2, <1>4, <1>5, <1>6, <1>8, <1>9, <1>10, StateNames, InPlaceOK DEF InPlaceStep
<1> QED
  BY <1>11 DEF OpenApproval, WithGate, w, u, a

\* A decision is in time when it finds the run and the attempt of its gate
\* waiting.  The state machine refuses every other; the service's own guards do
\* not ask.
InTime(v, l) ==
  /\ v.state = "waiting_on_approval"
  /\ v.attempts[v.gates[l].attempt].state = "waiting_on_approval"

LEMMA DecideOK ==
  ASSUME NEW v, RowsOK(v), NEW l \in LinkIds, CanDecide(v, l), InTime(v, l),
         NEW approved \in BOOLEAN
  PROVE  StepsTo(v, Decide(v, l, approved))
<1> DEFINE n      == v.gates[l].attempt
           state  == DecisionState(v.gates[l].disposition, approved)
           op     == DecisionOp(state)
           b      == Revoked(Moved(v.attempts[n], state, op), "released")
           a      == [b EXCEPT !.due = (state # "failed") \/ @]
           u      == Put(v, n, state, op, a)
           status == IF approved THEN "approved" ELSE "rejected"
           g      == [v.gates[l] EXCEPT !.status = status]
           w      == WithGate(u, v.link, l, g)
<1>1. Exists(v)
  BY DEF InTime, Exists
<1>2. /\ v \in View /\ v.current = v.active /\ v.active \in AttemptNos
      /\ v.link \in LinkIds \cup {0}
      /\ v.state = "waiting_on_approval" /\ v.gates[l].status = "open"
      /\ v.gates[l] \in Gate /\ GatesOK(v)
  BY <1>1, RowsFacts DEF CanDecide, InTime, View
<1>3. n = v.active
  <2>1. n \in AttemptNos
    <3>1. n \in 1..v.active
      BY <1>2 DEF GatesOK
    <3> QED
      BY <1>2, <3>1, RowBounds DEF AttemptNos
  <2>2. v.attempts[n].state = "waiting_on_approval"
    BY DEF InTime
  <2> HIDE DEF n
  <2> QED
    BY <2>1, <2>2, LiveIsCurrent DEF RETRYABLE_RUN_STATES
<1>4. v.attempts[n] \in Attempt
  BY <1>1, <1>3, RowsFacts
<1>5. /\ state \in {"queued", "cancel_requested", "compensating", "failed"}
      /\ state \in RUN_STATES /\ op \in RUN_OPERATOR_STATES
      /\ state # "absent" /\ op # "absent"
      /\ state = "queued" => op = "admitted"
  BY StateNames DEF DecisionState, DecisionOp
<1>6. /\ b \in Attempt /\ b.state = state /\ b.op = op
      /\ b.token = 0 /\ b.lease = "released"
      /\ b.retries = v.attempts[n].retries
  <2> HIDE DEF state, op, n
  <2> QED
    BY <1>4, <1>5, RevokedFields
<1>7. /\ a \in Attempt /\ a.state = state /\ a.op = op
      /\ a.token = 0 /\ a.lease = "released"
      /\ a.retries = v.attempts[n].retries
  <2> HIDE DEF b, state
  <2> QED
    BY <1>6 DEF Attempt
<1> HIDE DEF a, state, op
<1>8. /\ u \in View /\ u.state = state /\ u.op = op
      /\ u.active = v.active /\ u.current = v.active /\ u.link = v.link
      /\ u.attempts = [v.attempts EXCEPT ![v.active] = a]
      /\ u.gates = v.gates /\ u.holder = v.holder
  <2> HIDE DEF n
  <2> QED
    BY <1>2, <1>3, <1>5, <1>7, PutFields
<1> HIDE DEF u
<1>9. g \in Gate /\ g.status # "open"
  BY <1>2 DEF Gate
<1> HIDE DEF g
<1>10. /\ w \in View /\ w.state = u.state /\ w.op = u.op
       /\ w.active = u.active /\ w.current = u.current /\ w.link = v.link
       /\ w.attempts = u.attempts /\ w.holder = u.holder
       /\ w.gates = [u.gates EXCEPT ![l] = g]
  <2>1. v.link \in LinkIds \cup {0} /\ u \in View /\ g \in Gate
    BY <1>2, <1>8, <1>9
  <2> QED
    BY <2>1, GateFields
<1> HIDE DEF w
<1>11. Coherent(w, a)
  BY <1>5, <1>7, <1>8, <1>10 DEF Coherent, TERMINAL_OPERATOR_STATES
<1>12. GatesOK(w)
  <2>1. w.gates[l] = g
    BY <1>2, <1>8, <1>10 DEF View
  <2>2. \A k \in LinkIds : k # l => w.gates[k] = v.gates[k]
    BY <1>2, <1>8, <1>10 DEF View
  <2>3. \A k \in LinkIds :
          v.gates[k].status = "open" /\ v.gates[k].attempt = v.active => k = l
    BY <1>2, <1>3 DEF GatesOK
  <2>4. \A k \in LinkIds : w.gates[k].status = "open" =>
          w.gates[k].attempt \in 1..w.active /\ w.gates[k].attempt # w.active
    <3>1. \A k \in LinkIds : v.gates[k].status = "open" =>
            v.gates[k].attempt \in 1..v.active
      BY <1>2 DEF GatesOK
    <3> QED
      BY <1>8, <1>9, <1>10, <2>1, <2>2, <2>3, <3>1
  <2> QED
    BY <1>5, <1>8, <1>10, <2>4 DEF GatesOK
<1>13. StepsTo(v, w)
  BY <1>1, <1>3, <1>5, <1>7, <1>8, <1>10, <1>11, <1>12, InPlaceOK DEF InPlaceStep
<1>14. Decide(v, l, approved) = w
  <2>1. Decide(v, l, approved) = [u EXCEPT !.gates[l].status = status]
    BY DEF Decide, u, a, op, state
  <2>2. u.link = v.link /\ u.gates = v.gates /\ u \in View
    BY <1>8
  <2> QED
    BY <2>1, <2>2, <1>2 DEF WithGate, w, g, View
<1> QED
  BY <1>13, <1>14

LEMMA NoRunOK == NoRun \in View /\ RowsOK(NoRun)
<1>1. NoAttempt \in Attempt /\ NoGate \in Gate
  BY DEF NoAttempt, NoGate, Attempt, Gate
<1>2. NoRun \in View
  BY <1>1 DEF NoRun, View
<1> QED
  BY <1>2 DEF RowsOK, Exists, NoRun

LEMMA AdmittedRunOK == StepsTo(NoRun, AdmittedRun)
<1> DEFINE a == NewAttempt("queued", "admitted", TRUE, 0)
           w == AdmittedRun
<1>1. 1 \in AttemptNos
  BY RowBounds DEF AttemptNos
<1>2. "queued" \in RUN_STATES /\ "admitted" \in RUN_OPERATOR_STATES
  BY StateNames
<1>3. /\ a \in Attempt /\ a.state = "queued" /\ a.op = "admitted"
      /\ a.token = 0 /\ a.lease = "not_leased" /\ a.retries = 0
  <2>1. a \in Attempt
    BY <1>2, NewAttemptFields
  <2> QED
    BY <2>1 DEF NewAttempt
<1> HIDE DEF a
<1>4. w = [NoRun EXCEPT !.state = "queued", !.op = "admitted",
             !.active = 1, !.current = 1,
             !.attempts = [NoRun.attempts EXCEPT ![1] = a]]
  BY NoRunOK DEF AdmittedRun, View, a
<1>5. [NoRun.attempts EXCEPT ![1] = a] \in [AttemptNos -> Attempt]
  BY <1>3, NoRunOK DEF View
<1>6. /\ w \in View /\ w.state = "queued" /\ w.op = "admitted"
      /\ w.active = 1 /\ w.current = 1
      /\ w.attempts = [NoRun.attempts EXCEPT ![1] = a]
      /\ w.gates = NoRun.gates
  <2> HIDE DEF w
  <2>1. NoRun \in View
    BY NoRunOK
  <2> QED
    BY <1>1, <1>2, <1>4, <1>5, <2>1 DEF View
<1> HIDE DEF w
<1>7. w.attempts[1] = a
  BY <1>1, <1>6, NoRunOK DEF View
<1>8. \A n \in AttemptNos : n # 1 => w.attempts[n] = NoAttempt
  BY <1>6, NoRunOK DEF View, NoRun
<1>9. PastOK(w)
  BY <1>6, <1>8, Numbers DEF PastOK
<1>10. Coherent(w, a)
  BY <1>3, <1>6 DEF Coherent, TERMINAL_OPERATOR_STATES
<1>11. GatesOK(w)
  BY <1>6 DEF GatesOK, NoRun, NoGate
<1>13. RowsOK(w)
  BY <1>1, <1>6, <1>7, <1>9, <1>10, <1>11 DEF RowsOK, Exists
<1>14. SupersededFrozen(NoRun, w)
  BY Numbers DEF SupersededFrozen, NoRun
<1>15. SucceedsLeased(NoRun, w)
  BY <1>6 DEF SucceedsLeased
<1>16. TokensStayRevoked(NoRun, w)
  BY DEF TokensStayRevoked, Drawn, NoRun
<1> QED
  BY <1>13, <1>14, <1>15, <1>16 DEF StepsTo, w

-----------------------------------------------------------------------------
(* The database.                                                           *)

StepsOK ==
  /\ RowsInv'
  /\ \A r \in Runs : /\ SupersededFrozen(db[r], db'[r])
                     /\ SucceedsLeased(db[r], db'[r])
                     /\ TokensStayRevoked(db[r], db'[r])

\* A run that is not touched takes no step.
LEMMA Untouched ==
  ASSUME NEW v
  PROVE  SupersededFrozen(v, v) /\ SucceedsLeased(v, v) /\ TokensStayRevoked(v, v)
BY DEF SupersededFrozen, SucceedsLeased, TokensStayRevoked

LEMMA UpdateOK ==
  ASSUME RowsInv, NEW r \in Runs, NEW v, StepsTo(db[r], v), Update(r, v)
  PROVE  StepsOK
<1>1. RowsInv'
  BY DEF RowsInv, TypeOK, Update, RowsOK, StepsTo
<1>2. db'[r] = v /\ \A q \in Runs : q # r => db'[q] = db[q]
  BY DEF RowsInv, TypeOK, Update
<1> QED
  BY <1>1, <1>2, Untouched DEF StepsOK, StepsTo

LEMMA InitOK == Init => RowsInv
BY NoRunOK DEF Init, RowsInv, TypeOK

\* The steps of the service, its decisions left out.
UndecidedNext ==
  \/ \E r \in Runs :
       \/ AdmitCreate(r)
       \/ \E source \in Runs : RestartFromScratch(source, r)
       \/ WorkerStep(r)
       \/ \E l \in LinkIds : \E n \in AttemptNos : OpenApprovalGate(r, n, l)
       \/ OperatorStep(r)
       \/ ClockStep(r)
  \/ ReconcileExpiredLeases

LEMMA NextDecides ==
  Next <=> \/ UndecidedNext
           \/ \E r \in Runs : \E l \in LinkIds : DecideApproval(r, l)
BY DEF Next, UndecidedNext, ApprovalStep

LEMMA UndecidedStepOK ==
  ASSUME RowsInv, [UndecidedNext]_db
  PROVE  StepsOK
<1> USE DEF RowsInv
<1>1. ASSUME NEW r \in Runs, AdmitCreate(r)
      PROVE  StepsOK
  BY <1>1, AdmittedRunOK, UpdateOK DEF AdmitCreate, RowsOK
<1>2. ASSUME NEW r \in Runs, NEW source \in Runs, RestartFromScratch(source, r)
      PROVE  StepsOK
  BY <1>2, AdmittedRunOK, UpdateOK DEF RestartFromScratch, RowsOK
<1>3. ASSUME NEW r \in Runs, WorkerStep(r)
      PROVE  StepsOK
  <2> PICK t \in Tokens :
         \/ \E n \in AttemptNos : ClaimNextAttempt(r, n, t) \/ ClaimAttempt(r, n, t)
         \/ /\ t \in Drawn(db[r])
            /\ LET n == db[r].holder[t] IN
                 \/ MarkAttemptExecuting(r, n, t)
                 \/ RecordAttemptFailure(r, n, t)
                 \/ CompleteAttemptSuccess(r, n, t)
                 \/ RenewAttemptLease(r, n, t)
    BY <1>3 DEF WorkerStep
  <2>1. ASSUME NEW n \in AttemptNos,
               ClaimNextAttempt(r, n, t) \/ ClaimAttempt(r, n, t)
        PROVE  StepsOK
    BY <2>1, ClaimOK, UpdateOK DEF ClaimNextAttempt, ClaimAttempt
  <2>2. ASSUME t \in Drawn(db[r]),
               NEW n \in AttemptNos,
               \/ MarkAttemptExecuting(r, n, t)
               \/ RecordAttemptFailure(r, n, t)
               \/ CompleteAttemptSuccess(r, n, t)
               \/ RenewAttemptLease(r, n, t)
        PROVE  StepsOK
    <3>1. CASE MarkAttemptExecuting(r, n, t)
      BY <3>1, MarkExecutingOK, UpdateOK DEF MarkAttemptExecuting
    <3>2. CASE RecordAttemptFailure(r, n, t)
      BY <3>2, RecordFailureOK, UpdateOK DEF RecordAttemptFailure
    <3>3. CASE CompleteAttemptSuccess(r, n, t)
      BY <3>3, CompleteOK, UpdateOK DEF CompleteAttemptSuccess
    <3>4. CASE RenewAttemptLease(r, n, t)
      <4> DEFINE v == db[r]
                 w == Wrote(v, n, [v.attempts[n] EXCEPT !.due = @,
                                                        !.overdue = FALSE])
      <4>1. v \in View /\ v.attempts[n] \in Attempt
        BY DEF TypeOK, View
      <4>2. v.attempts[n].due \in BOOLEAN
        BY <4>1 DEF Attempt
      <4>3. v.attempts[n].state # "absent" /\ v.attempts[n].lease = "leased"
        BY <3>4 DEF RenewAttemptLease, CanRenewLease, IN_FLIGHT_ATTEMPT_STATES
      <4>4. StepsTo(v, w)
        BY <4>2, <4>3, FlagsOK
      <4>5. RenewLease(v, n) = w
        BY <4>1 DEF RenewLease, Wrote, View, Attempt
      <4> QED
        BY <3>4, <4>4, <4>5, UpdateOK DEF RenewAttemptLease
    <3> QED
      BY <2>2, <3>1, <3>2, <3>3, <3>4
  <2>3. t \in Drawn(db[r]) => db[r].holder[t] \in AttemptNos
    BY DEF Drawn, TypeOK, View
  <2> QED
    BY <2>1, <2>2, <2>3
<1>4. ASSUME NEW r \in Runs, NEW l \in LinkIds, NEW n \in AttemptNos,
             OpenApprovalGate(r, n, l)
      PROVE  StepsOK
  BY <1>4, OpenApprovalOK, UpdateOK DEF OpenApprovalGate
<1>5. ASSUME NEW r \in Runs, OperatorStep(r)
      PROVE  StepsOK
  <2>1. CASE RequestCancelRun(r)
    BY <2>1, RequestCancelOK, UpdateOK DEF RequestCancelRun
  <2>2. CASE AdmitRetryRun(r)
    BY <2>2, AdmitRetryOK, UpdateOK DEF AdmitRetryRun
  <2>3. CASE PauseRun(r)
    BY <2>3, PauseOK, UpdateOK DEF PauseRun
  <2>4. CASE ResumeRun(r)
    BY <2>4, ResumeOK, UpdateOK DEF ResumeRun
  <2>5. CASE InterruptRun(r)
    BY <2>5, InterruptOK, UpdateOK DEF InterruptRun
  <2>6. CASE QuarantineRun(r)
    BY <2>6, QuarantineOK, UpdateOK DEF QuarantineRun
  <2> QED
    BY <1>5, <2>1, <2>2, <2>3, <2>4, <2>5, <2>6 DEF OperatorStep
<1>6. ASSUME NEW r \in Runs, ClockStep(r)
      PROVE  StepsOK
  <2> DEFINE v == db[r]
  <2>1. PICK n \in AttemptNos : BackoffElapses(r, n) \/ LeaseRunsOut(r, n)
    BY <1>6 DEF ClockStep
  <2>2. v \in View /\ v.attempts[n] \in Attempt
    BY DEF TypeOK, View
  <2>3. v.attempts[n].due \in BOOLEAN /\ v.attempts[n].overdue \in BOOLEAN
    BY <2>2 DEF Attempt
  <2>4. CASE BackoffElapses(r, n)
    <3> DEFINE w == Wrote(v, n, [v.attempts[n] EXCEPT !.due = TRUE,
                                                      !.overdue = @])
    <3>1. StepsTo(v, w)
      BY <2>3, <2>4, FlagsOK DEF BackoffElapses
    <3>2. Update(r, w)
      BY <2>2, <2>4 DEF BackoffElapses, Update, Wrote, TypeOK, View, Attempt
    <3> QED
      BY <3>1, <3>2, UpdateOK
  <2>5. CASE LeaseRunsOut(r, n)
    <3> DEFINE w == Wrote(v, n, [v.attempts[n] EXCEPT !.due = @,
                                                      !.overdue = TRUE])
    <3>0. v.attempts[n].state # "absent" /\ v.attempts[n].lease = "leased"
      <4>1. v.attempts[n].lease = "leased"
        BY <2>5 DEF LeaseRunsOut
      <4>2. Exists(v) /\ n = v.active
        BY <4>1, LiveIsCurrent
      <4>3. Coherent(v, v.attempts[n])
        BY <4>2, RowsFacts
      <4> QED
        BY <4>1, <4>3 DEF Coherent, IN_FLIGHT_ATTEMPT_STATES
    <3>1. StepsTo(v, w)
      BY <2>3, <3>0, FlagsOK
    <3>2. Update(r, w)
      BY <2>2, <2>5 DEF LeaseRunsOut, Update, Wrote, TypeOK, View, Attempt
    <3> QED
      BY <3>1, <3>2, UpdateOK
  <2> QED
    BY <2>1, <2>4, <2>5
<1>7. CASE ReconcileExpiredLeases
  <2> PICK pick \in [Runs -> AttemptNos] :
         db' = [r \in Runs |-> IF CanReconcile(db[r], pick[r])
                               THEN Reconcile(db[r], pick[r]) ELSE db[r]]
    BY <1>7 DEF ReconcileExpiredLeases
  <2>1. ASSUME NEW r \in Runs
        PROVE  StepsTo(db[r], db'[r])
    <3>1. CASE CanReconcile(db[r], pick[r])
      BY <3>1, ReconcileOK
    <3>2. CASE ~CanReconcile(db[r], pick[r])
      BY <3>2, Untouched DEF StepsTo
    <3> QED
      BY <3>1, <3>2
  <2> QED
    BY <2>1 DEF StepsOK, StepsTo, TypeOK, RowsOK
<1>8. CASE UNCHANGED db
  BY <1>8, Untouched DEF TypeOK, StepsOK
<1> QED
  BY <1>1, <1>2, <1>3, <1>4, <1>5, <1>6, <1>7, <1>8 DEF UndecidedNext

\* With every decision in time, the rows stay in order in either mode.
DecisionsInTime ==
  \A r \in Runs : \A l \in LinkIds : DecideApproval(r, l) => InTime(db[r], l)

LEMMA StepOK ==
  ASSUME DecisionsInTime, RowsInv, [Next]_db
  PROVE  StepsOK
<1>1. ASSUME NEW r \in Runs, NEW l \in LinkIds, DecideApproval(r, l)
      PROVE  StepsOK
  <2>1. RowsOK(db[r]) /\ InTime(db[r], l)
    BY <1>1 DEF RowsInv, DecisionsInTime
  <2> QED
    BY <1>1, <2>1, DecideOK, UpdateOK DEF DecideApproval
<1>2. CASE [UndecidedNext]_db
  BY <1>2, UndecidedStepOK
<1> QED
  BY <1>1, <1>2, NextDecides

LEMMA StateMachineIsInTime == ASSUME Authoritative PROVE DecisionsInTime
BY DEF DecisionsInTime, DecideApproval, CanDecide, InTime

LEMMA InTimeInvariance == Spec /\ [][DecisionsInTime]_db => []RowsInv
<1>1. RowsInv /\ [Next]_db /\ [DecisionsInTime]_db => RowsInv'
  <2>1. CASE UNCHANGED db
    <3>1. [UndecidedNext]_db
      BY <2>1
    <3> QED
      BY <3>1, UndecidedStepOK DEF StepsOK
  <2>2. CASE DecisionsInTime
    BY <2>2, StepOK DEF StepsOK
  <2> QED
    BY <2>1, <2>2
<1> QED
  BY <1>1, InitOK, PTL DEF Spec

LEMMA AlwaysInTime == ASSUME Authoritative PROVE Spec => [][DecisionsInTime]_db
<1>1. [Next]_db => [DecisionsInTime]_db
  BY StateMachineIsInTime
<1> QED
  BY <1>1, PTL DEF Spec

LEMMA Invariance == ASSUME Authoritative PROVE Spec => []RowsInv
BY AlwaysInTime, InTimeInvariance, PTL

-----------------------------------------------------------------------------
(* What the invariant implies, for one run.                                *)

LEMMA RowsImplySuperseded ==
  ASSUME NEW v, RowsOK(v)
  PROVE  SupersededFinished(v)
<1>1. CASE ~Exists(v)
  BY <1>1, Numbers DEF RowsOK, NoRun, NoAttempt, SupersededFinished
<1>2. CASE Exists(v)
  <2> DEFINE k == v.active
  <2>1. PastOK(v) /\ v.current = k /\ k \in AttemptNos
    BY <1>2 DEF RowsOK
  <2>2. v.attempts[k].state # "absent"
    BY <1>2, RowsFacts DEF Coherent, Exists
  <2> HIDE DEF k
  <2>3. \A n \in AttemptNos :
          /\ n > k \/ n = k \/ n < k
          /\ n < k => ~(n > k)
          /\ n = k => ~(n < k) /\ ~(n > k)
    BY <2>1, Numbers
  <2>4. "absent" \notin RETRYABLE_RUN_STATES
    BY DEF RETRYABLE_RUN_STATES
  <2> QED
    BY <2>1, <2>2, <2>3, <2>4 DEF PastOK, NoAttempt, SupersededFinished, k
<1> QED
  BY <1>1, <1>2

LEMMA RowsImplyAgreement ==
  ASSUME NEW v, RowsOK(v)
  PROVE  RowsAgree(v)
BY DEF RowsOK, Coherent, RowsAgree

LEMMA RowsImplyLeases ==
  ASSUME NEW v, RowsOK(v)
  PROVE  LeasesFound(v)
<1> SUFFICES ASSUME NEW n \in AttemptNos
             PROVE  LET a == v.attempts[n] IN
                      /\ (a.token # 0) <=> a.lease = "leased"
                      /\ a.token # 0 => v.holder[a.token] = n
                      /\ a.lease = "leased" => a.state \in IN_FLIGHT_ATTEMPT_STATES
                      /\ a.state \in {"dispatching", "executing"}
                           => a.lease = "leased"
  BY DEF LeasesFound
<1>1. CASE \/ v.attempts[n].state \notin RETRYABLE_RUN_STATES \cup {"absent"}
           \/ v.attempts[n].lease = "leased"
           \/ v.attempts[n].token # 0
  BY <1>1, LiveIsCurrent, RowsFacts DEF Coherent
<1>2. CASE ~(\/ v.attempts[n].state \notin RETRYABLE_RUN_STATES \cup {"absent"}
             \/ v.attempts[n].lease = "leased"
             \/ v.attempts[n].token # 0)
  BY <1>2 DEF RETRYABLE_RUN_STATES
<1> QED
  BY <1>1, <1>2

LEMMA RowsImplyGate ==
  ASSUME NEW v, RowsOK(v), Authoritative
  PROVE  GateDecides(v)
<1> SUFFICES ASSUME v.state = "waiting_on_approval"
             PROVE  {l \in LinkIds : CanDecide(v, l)} = {v.link}
  BY DEF GateDecides
<1>1. Exists(v)
  BY DEF Exists
<1>2. /\ GatesOK(v) /\ v.active \in AttemptNos
      /\ v.attempts[v.active].state = "waiting_on_approval"
  BY <1>1, RowsFacts DEF Coherent
<1>3. v.link \in LinkIds /\ CanDecide(v, v.link)
  BY <1>2 DEF GatesOK, CanDecide
<1>4. ASSUME NEW l \in LinkIds, CanDecide(v, l)
      PROVE  l = v.link
  <2>1. v.gates[l].status = "open" /\ v.gates[l].attempt \in 1..v.active
    BY <1>2, <1>4 DEF GatesOK, CanDecide
  <2>2. v.gates[l].attempt \in AttemptNos
    BY <1>2, <2>1, RowBounds DEF AttemptNos
  <2>3. v.gates[l].attempt = v.active
    BY <1>4, <2>2, LiveIsCurrent DEF CanDecide, RETRYABLE_RUN_STATES
  <2> QED
    BY <1>2, <2>1, <2>3 DEF GatesOK
<1> QED
  BY <1>3, <1>4

LEMMA RowsImplyClaimable ==
  ASSUME NEW v, RowsOK(v), NEW n \in AttemptNos, ClaimCandidate(v, n)
  PROVE  CanClaim(v, n)
<1>1. Exists(v) /\ n = v.active
  BY LiveIsCurrent DEF ClaimCandidate, CLAIMABLE_RUN_STATES, RETRYABLE_RUN_STATES
<1> QED
  BY <1>1, RowsFacts DEF ClaimCandidate, CanClaim, Coherent

-----------------------------------------------------------------------------
(* Order among the attempts of a run, as long as decisions are in time.     *)

\* Rows drift apart only through a late decision: whichever copy of the rules is
\* in charge, while every decision finds its run and attempt waiting, only the
\* newest attempt of a run is live, the run row mirrors it, a superseded attempt
\* is never written again, and a run succeeds only out of a lease still held.
THEOREM DriftNeedsALateDecision ==
  Spec /\ [][DecisionsInTime]_db =>
    /\ []OneLiveAttempt /\ []RunMirrorsAttempt
    /\ HistoryIsFrozen /\ SuccessNeedsLease
<1>1. RowsInv => OneLiveAttempt /\ RunMirrorsAttempt
  BY RowsImplySuperseded, RowsImplyAgreement
  DEF RowsInv, OneLiveAttempt, RunMirrorsAttempt
<1>2. RowsInv /\ [Next]_db /\ [DecisionsInTime]_db =>
        [\A r \in Runs : SupersededFrozen(db[r], db'[r])]_db
  BY StepOK DEF StepsOK
<1>3. RowsInv /\ [Next]_db /\ [DecisionsInTime]_db =>
        [\A r \in Runs :
           db'[r].state = "succeeded" /\ db[r].state # "succeeded" =>
             /\ db[r].attempts[db[r].current].lease = "leased"
             /\ db[r].op \notin TERMINAL_OPERATOR_STATES]_db
  BY StepOK DEF StepsOK, SucceedsLeased
<1> QED
  BY <1>1, <1>2, <1>3, InTimeInvariance, PTL
     DEF Spec, HistoryIsFrozen, SuccessNeedsLease

-----------------------------------------------------------------------------
(* The state machine refuses late decisions.                               *)

\* Only the newest attempt of a run can be claimed, executed or decided about;
\* every earlier one is finished and holds no lease.
THEOREM OneLiveAttemptHolds == ASSUME Authoritative PROVE Spec => []OneLiveAttempt
BY AlwaysInTime, DriftNeedsALateDecision, PTL

\* The run row and its current attempt's row never drift apart.
THEOREM RowsNeverDrift == ASSUME Authoritative PROVE Spec => []RunMirrorsAttempt
BY AlwaysInTime, DriftNeedsALateDecision, PTL

\* A run that waits on approval is decided through the one link it shows.
THEOREM GatesAreUnique ==
  ASSUME Authoritative PROVE Spec => []WaitingRunHasItsGate
<1>1. RowsInv => WaitingRunHasItsGate
  BY RowsImplyGate DEF RowsInv, WaitingRunHasItsGate
<1> QED
  BY <1>1, Invariance, PTL

\* A superseded attempt is never written again.
THEOREM HistoryStaysFrozen == ASSUME Authoritative PROVE Spec => HistoryIsFrozen
BY AlwaysInTime, DriftNeedsALateDecision, PTL

\* A run succeeds only out of a lease that is still held.
THEOREM SuccessIsLeased == ASSUME Authoritative PROVE Spec => SuccessNeedsLease
BY AlwaysInTime, DriftNeedsALateDecision, PTL

-----------------------------------------------------------------------------
(* With or without the state machine in charge.  The service's own guards   *)
(* keep less of an order among the attempts of a run: a late decision may   *)
(* revive a superseded attempt.  They keep the rows well formed all the     *)
(* same, each lease with its token, the retries inside their budget, a      *)
(* revoked token dead and a paused run idle.                                *)

PausedIdle(v) ==
  v.op = "paused" => v.attempts[v.current].state \notin IN_FLIGHT_ATTEMPT_STATES

\* The row a of attempt n: attempts are created up to active_attempt_no, a lease
\* and its token come and go together, and retries are counted as they are made.
AttemptOK(v, n, a) ==
  /\ a.state # "absent" => n <= v.active
  /\ (a.token # 0) <=> a.lease = "leased"
  /\ a.token # 0 => v.holder[a.token] = n
  /\ a.lease = "leased" => a.state \in IN_FLIGHT_ATTEMPT_STATES
  /\ a.state \in {"dispatching", "executing"} => a.lease = "leased"
  /\ a.retries > 0 => n <= MaxAttempts /\ a.retries < n

\* A run that exists has a current attempt, and an open gate names an attempt.
WellFormed(v) ==
  /\ v \in View
  /\ ~Exists(v) => v = NoRun
  /\ Exists(v) => /\ v.active \in AttemptNos
                  /\ v.current \in AttemptNos /\ v.current <= v.active
  /\ \A l \in LinkIds :
       v.gates[l].status = "open" =>
         v.gates[l].attempt \in AttemptNos /\ v.gates[l].attempt <= v.active
  /\ \A n \in AttemptNos : AttemptOK(v, n, v.attempts[n])
  /\ ~Authoritative => PausedIdle(v)

WellFormedInv == \A r \in Runs : WellFormed(db[r])

\* Claims keep their attempt, and a token that is gone does not come back.
Fenced(v, w) ==
  \A t \in Drawn(v) :
    LET n == v.holder[t] IN
      /\ w.holder[t] = n
      /\ v.attempts[n].token # t => w.attempts[n].token # t

Keeps(v, w) == WellFormed(w) /\ Fenced(v, w)

LEMMA KeepsOn ==
  ASSUME NEW v, NEW u, NEW w, Keeps(v, u), Keeps(u, w)
  PROVE  Keeps(v, w)
<1>1. \A t \in Drawn(v) : t \in Drawn(u)
  BY DEF Keeps, Fenced, Drawn
<1> QED
  BY <1>1 DEF Keeps, Fenced

\* Rewriting one attempt, without a new token.
LEMMA RewriteFenced ==
  ASSUME NEW v \in View, NEW w, NEW n \in AttemptNos, NEW a,
         a.token \in {0, v.attempts[n].token},
         w.holder = v.holder, w.attempts = [v.attempts EXCEPT ![n] = a]
  PROVE  Fenced(v, w)
<1>1. \A t \in Drawn(v) : t # 0 /\ v.holder[t] \in AttemptNos
  BY Numbers DEF Drawn, View
<1>2. \A m \in AttemptNos : w.attempts[m] = IF m = n THEN a ELSE v.attempts[m]
  BY DEF View
<1> QED
  BY <1>1, <1>2 DEF Fenced

\* Rows that are written to are those of a run that exists.
LEMMA AttemptExists ==
  ASSUME NEW v, WellFormed(v), NEW n \in AttemptNos,
         v.attempts[n].state # "absent" \/ v.attempts[n].lease # "absent"
  PROVE  /\ Exists(v) /\ v \in View /\ v.attempts[n] \in Attempt
         /\ v.active \in AttemptNos
         /\ AttemptOK(v, n, v.attempts[n])
         /\ v.attempts[n].state # "absent" => n <= v.active
<1>1. Exists(v) /\ v \in View
  BY DEF WellFormed, NoRun, NoAttempt
<1>2. v.attempts[n] \in Attempt /\ v.active \in AttemptNos
  BY <1>1 DEF WellFormed, View
<1>3. AttemptOK(v, n, v.attempts[n])
  BY DEF WellFormed
<1> QED
  BY <1>1, <1>2, <1>3 DEF AttemptOK

\* The operator state a write leaves is not paused, or the attempt it writes is
\* the current one and is idle.
LEMMA PutKeeps ==
  ASSUME NEW v, WellFormed(v), Exists(v), NEW n \in AttemptNos,
         NEW state \in RUN_STATES, NEW op \in RUN_OPERATOR_STATES,
         NEW a \in Attempt,
         AttemptOK(v, n, a), a.token \in {0, v.attempts[n].token},
         ~Authoritative /\ op = "paused" =>
           n = v.current /\ a.state \notin IN_FLIGHT_ATTEMPT_STATES
  PROVE  Keeps(v, Put(v, n, state, op, a))
<1> DEFINE w == Put(v, n, state, op, a)
<1>1. v \in View /\ v.attempts \in [AttemptNos -> Attempt]
  BY DEF WellFormed, View
<1>2. /\ w \in View /\ w.state = state /\ w.op = op
      /\ w.active = v.active /\ w.current = v.current
      /\ w.attempts = [v.attempts EXCEPT ![n] = a] /\ w.gates = v.gates
      /\ w.holder = v.holder
  BY <1>1, PutFields
<1> HIDE DEF w
<1>3. Exists(w)
  BY <1>2, StateNames DEF Exists
<1>4. ~Authoritative => PausedIdle(w)
  BY <1>1, <1>2 DEF PausedIdle
<1>5. \A m \in AttemptNos : AttemptOK(w, m, w.attempts[m])
  BY <1>1, <1>2 DEF WellFormed, AttemptOK
<1>6. WellFormed(w)
  BY <1>2, <1>3, <1>4, <1>5 DEF WellFormed
<1>7. Fenced(v, w)
  BY <1>1, <1>2, RewriteFenced
<1> QED
  BY <1>6, <1>7 DEF Keeps, w

LEMMA PutWrites ==
  ASSUME NEW v \in View, NEW n \in AttemptNos, NEW state \in RUN_STATES,
         NEW op \in RUN_OPERATOR_STATES, NEW a \in Attempt,
         NEW w, w = Put(v, n, state, op, a)
  PROVE  /\ Exists(w) /\ w.state = state /\ w.op = op
         /\ w.link = v.link /\ w.gates = v.gates
         /\ w.active = v.active
<1>1. /\ w \in View
      /\ w.state = state /\ w.op = op
      /\ w.active = v.active /\ w.current = v.current /\ w.link = v.link
      /\ w.attempts = [v.attempts EXCEPT ![n] = a]
      /\ w.gates = v.gates /\ w.holder = v.holder
  BY PutFields
<1> QED
  BY <1>1, StateNames DEF Exists

\* A gate is opened or decided.
LEMMA GateKeeps ==
  ASSUME NEW v, WellFormed(v), Exists(v), NEW k \in LinkIds \cup {0},
         NEW l \in LinkIds, NEW g \in Gate,
         g.status = "open" => g.attempt \in AttemptNos /\ g.attempt <= v.active
  PROVE  Keeps(v, WithGate(v, k, l, g))
<1> DEFINE w == WithGate(v, k, l, g)
<1>1. /\ w \in View /\ w.state = v.state /\ w.op = v.op
      /\ w.active = v.active /\ w.current = v.current
      /\ w.attempts = v.attempts /\ w.gates = [v.gates EXCEPT ![l] = g]
      /\ w.holder = v.holder
  BY GateFields DEF WellFormed
<1> HIDE DEF w
<1>2. v.gates \in [LinkIds -> Gate]
  BY DEF WellFormed, View
<1>3. \A n \in AttemptNos : AttemptOK(w, n, w.attempts[n])
  BY <1>1 DEF WellFormed, AttemptOK
<1>4. WellFormed(w)
  BY <1>1, <1>2, <1>3 DEF WellFormed, Exists, PausedIdle
<1>5. Fenced(v, w)
  BY <1>1 DEF Fenced, Drawn
<1> QED
  BY <1>4, <1>5 DEF Keeps, w

\* The next attempt takes over, unleased.
LEMMA SupersedeKeeps ==
  ASSUME NEW v, WellFormed(v), Exists(v), NEW m \in AttemptNos,
         m = v.active + 1, NEW state \in RUN_STATES,
         NEW op \in RUN_OPERATOR_STATES, op # "paused", NEW a \in Attempt,
         a.state \notin {"dispatching", "executing"},
         a.token = 0, a.lease # "leased",
         a.retries > 0 => m <= MaxAttempts /\ a.retries < m
  PROVE  Keeps(v, Supersede(v, m, state, op, a))
<1> DEFINE w == Supersede(v, m, state, op, a)
<1>0. v \in View /\ v.attempts \in [AttemptNos -> Attempt]
  BY DEF WellFormed, View
<1>1. /\ w \in View /\ w.state = state /\ w.op = op
      /\ w.active = m /\ w.current = m /\ w.link = 0
      /\ w.attempts = [v.attempts EXCEPT ![m] = a]
      /\ w.gates = v.gates /\ w.holder = v.holder
  BY <1>0, SupersedeFields
<1> HIDE DEF w
<1>2. v.active \in Nat /\ m \in Nat /\ AttemptNos \subseteq Nat
  BY Numbers DEF WellFormed
<1>3. \A n \in AttemptNos : AttemptOK(w, n, w.attempts[n])
  <2>1. AttemptOK(w, m, a)
    BY <1>1, <1>2 DEF AttemptOK
  <2>2. ASSUME NEW n \in AttemptNos, n # m
        PROVE  AttemptOK(w, n, v.attempts[n])
    BY <1>1, <1>2, <2>2 DEF WellFormed, AttemptOK
  <2>3. \A n \in AttemptNos : w.attempts[n] = IF n = m THEN a ELSE v.attempts[n]
    BY <1>0, <1>1
  <2> QED
    BY <2>1, <2>2, <2>3
<1>4. ASSUME NEW l \in LinkIds, w.gates[l].status = "open"
      PROVE  w.gates[l].attempt \in AttemptNos /\ w.gates[l].attempt <= w.active
  <2>0. w.gates = v.gates /\ v.gates[l].status = "open"
    BY <1>1, <1>4
  <2>1. v.gates[l].attempt \in AttemptNos /\ v.gates[l].attempt <= v.active
    BY <2>0 DEF WellFormed
  <2> DEFINE k == v.gates[l].attempt
  <2>2. k <= m
    <3>1. k \in Nat /\ k <= v.active
      BY <1>2, <2>1
    <3> HIDE DEF k
    <3> QED
      BY <1>2, <3>1
  <2> QED
    BY <1>1, <2>1, <2>2
<1>5. WellFormed(w)
  BY <1>1, <1>2, <1>3, <1>4, StateNames DEF WellFormed, Exists, PausedIdle
<1>6. Fenced(v, w)
  BY <1>0, <1>1, RewriteFenced
<1> QED
  BY <1>5, <1>6 DEF Keeps, w

\* An attempt whose time flags change.
LEMMA FlagsKeep ==
  ASSUME NEW v, WellFormed(v), Exists(v), NEW n \in AttemptNos,
         NEW b \in Attempt, b.state = v.attempts[n].state,
         b.token = v.attempts[n].token, b.lease = v.attempts[n].lease,
         b.retries = v.attempts[n].retries
  PROVE  Keeps(v, Wrote(v, n, b))
<1> DEFINE w == Wrote(v, n, b)
<1>1. v \in View /\ v.attempts \in [AttemptNos -> Attempt]
  BY DEF WellFormed, View
<1>3. /\ w \in View /\ w.state = v.state /\ w.op = v.op
      /\ w.active = v.active /\ w.current = v.current /\ w.gates = v.gates
      /\ w.attempts = [v.attempts EXCEPT ![n] = b] /\ w.holder = v.holder
  BY <1>1, WroteFields
<1> HIDE DEF w
<1>4. PausedIdle(v) => PausedIdle(w)
  BY <1>1, <1>3 DEF PausedIdle
<1>5. \A m \in AttemptNos : AttemptOK(w, m, w.attempts[m])
  BY <1>1, <1>3 DEF WellFormed, AttemptOK
<1>6. WellFormed(w)
  BY <1>3, <1>4, <1>5 DEF WellFormed, Exists
<1>7. Fenced(v, w)
  BY <1>1, <1>3, RewriteFenced
<1> QED
  BY <1>6, <1>7 DEF Keeps, w

-----------------------------------------------------------------------------
(* The operations, in either mode.                                         *)

LEMMA ClaimKeeps ==
  ASSUME NEW v, WellFormed(v), NEW n \in AttemptNos, NEW t \in Tokens,
         v.holder[t] = 0, CanClaim(v, n)
  PROVE  Keeps(v, Claim(v, n, t))
<1> DEFINE a == Leased(v.attempts[n], t)
           u == Put(v, n, "dispatching", "leased", a)
           w == Drew(u, n, t)
<1>1. /\ Exists(v) /\ v.attempts[n] \in Attempt /\ v \in View
      /\ n <= v.active /\ AttemptOK(v, n, v.attempts[n])
  BY AttemptExists DEF CanClaim, CLAIMABLE_RUN_STATES
<1>2. /\ a \in Attempt /\ a.state = "dispatching" /\ a.token = t
      /\ a.lease = "leased" /\ a.retries = v.attempts[n].retries
  BY <1>1, LeasedFields
<1> HIDE DEF a
<1>3. /\ u \in View /\ u.state = "dispatching" /\ u.op = "leased"
      /\ u.active = v.active /\ u.gates = v.gates /\ u.holder = v.holder
      /\ u.attempts = [v.attempts EXCEPT ![n] = a]
  BY <1>1, <1>2, StateNames, PutFields
<1> HIDE DEF u
<1>4. /\ w \in View /\ w.state = "dispatching" /\ w.op = "leased"
      /\ w.active = v.active /\ w.current = n /\ w.gates = v.gates
      /\ w.attempts = [v.attempts EXCEPT ![n] = a]
      /\ w.holder = [v.holder EXCEPT ![t] = n]
  BY <1>3, ClaimFields
<1> HIDE DEF w
<1>5. /\ v.attempts \in [AttemptNos -> Attempt] /\ t # 0
      /\ v.holder \in [Tokens -> AttemptNos \cup {0}] /\ 0 \notin AttemptNos
  BY <1>1, Numbers DEF View
<1>6. \A m \in AttemptNos : AttemptOK(w, m, w.attempts[m])
  <2>1. AttemptOK(w, n, a)
    BY <1>1, <1>2, <1>4, <1>5 DEF AttemptOK, IN_FLIGHT_ATTEMPT_STATES
  <2>2. ASSUME NEW m \in AttemptNos, m # n
        PROVE  AttemptOK(w, m, v.attempts[m])
    <3>1. AttemptOK(v, m, v.attempts[m]) /\ v.attempts[m] \in Attempt
      BY <1>5 DEF WellFormed
    <3>2. v.attempts[m].token # 0 =>
            w.holder[v.attempts[m].token] = v.holder[v.attempts[m].token]
      BY <1>4, <1>5, <3>1 DEF AttemptOK, Attempt
    <3> QED
      BY <1>4, <3>1, <3>2 DEF AttemptOK
  <2> QED
    BY <1>4, <1>5, <2>1, <2>2
<1>7. WellFormed(w)
  BY <1>1, <1>4, <1>6, StateNames DEF WellFormed, Exists, PausedIdle
<1>8. Fenced(v, w)
  <2>1. \A q \in Drawn(v) : q \in Tokens /\ q # t
    BY DEF Drawn
  <2>2. \A q \in Drawn(v) : w.holder[q] = v.holder[q] /\ v.holder[q] \in AttemptNos
    BY <1>4, <1>5, <2>1 DEF Drawn
  <2>3. \A m \in AttemptNos : w.attempts[m].token \in {t, v.attempts[m].token}
    BY <1>2, <1>4, <1>5
  <2> QED
    BY <2>1, <2>2, <2>3 DEF Fenced
<1> QED
  BY <1>7, <1>8 DEF Keeps, Claim, Drew, w, u, a

LEMMA MarkExecutingKeeps ==
  ASSUME NEW v, WellFormed(v), NEW n \in AttemptNos, NEW t \in Tokens,
         CanMarkExecuting(v, n, t), NEW o \in {"executing", "waiting_external"}
  PROVE  Keeps(v, MarkExecuting(v, n, o))
<1> DEFINE a == [Moved(v.attempts[n], "executing", o) EXCEPT !.lease = "leased"]
<1>1. /\ Exists(v) /\ v.attempts[n] \in Attempt
      /\ n <= v.active /\ AttemptOK(v, n, v.attempts[n])
  BY AttemptExists DEF CanMarkExecuting
<1>2. /\ a \in Attempt /\ a.state = "executing" /\ a.lease = "leased"
      /\ a.token = v.attempts[n].token /\ a.retries = v.attempts[n].retries
  BY <1>1, StateNames, HeldFields
<1> HIDE DEF a
<1>3. AttemptOK(v, n, a)
  <2>1. v.attempts[n].token # 0
    BY Numbers DEF CanMarkExecuting
  <2> QED
    BY <1>1, <1>2, <2>1 DEF AttemptOK, IN_FLIGHT_ATTEMPT_STATES
<1>4. Keeps(v, Put(v, n, "executing", o, a))
  BY <1>1, <1>2, <1>3, StateNames, PutKeeps
<1> QED
  BY <1>4 DEF MarkExecuting, a

\* An attempt that gives its lease up is well formed.
LEMMA UnleasedOK ==
  ASSUME NEW v, WellFormed(v), NEW n \in AttemptNos, n <= v.active, NEW a,
         a.state \notin {"dispatching", "executing"},
         a.token = 0, a.lease # "leased", a.retries = v.attempts[n].retries
  PROVE  AttemptOK(v, n, a)
BY DEF WellFormed, AttemptOK

\* Moving run and attempt n together and taking the lease away.
LEMMA UnleasedPutKeeps ==
  ASSUME NEW v, WellFormed(v), Exists(v), NEW n \in AttemptNos, n <= v.active,
         NEW state \in RUN_STATES, state \notin {"dispatching", "executing"},
         NEW op \in RUN_OPERATOR_STATES, op # "paused"
  PROVE  Keeps(v, Put(v, n, state, op,
                      Unleased(Moved(v.attempts[n], state, op))))
<1> DEFINE a == Unleased(Moved(v.attempts[n], state, op))
<1>1. v.attempts[n] \in Attempt
  BY DEF WellFormed, View
<1>2. /\ a \in Attempt /\ a.state = state /\ a.token = 0
      /\ a.lease \in {"released", "expired"}
      /\ a.retries = v.attempts[n].retries
  BY <1>1, UnleasedFields
<1> HIDE DEF a
<1>3. AttemptOK(v, n, a)
  BY <1>2, UnleasedOK
<1>4. Keeps(v, Put(v, n, state, op, a))
  BY <1>2, <1>3, PutKeeps
<1> QED
  BY <1>4 DEF a

LEMMA CompleteKeeps ==
  ASSUME NEW v, WellFormed(v), NEW n \in AttemptNos, NEW t \in Tokens,
         CanComplete(v, n, t)
  PROVE  Keeps(v, Complete(v, n))
<1>1. Exists(v) /\ n <= v.active
  BY AttemptExists DEF CanComplete, IN_FLIGHT_ATTEMPT_STATES
<1> QED
  BY <1>1, StateNames, UnleasedPutKeeps DEF Complete

LEMMA RecordFailureKeeps ==
  ASSUME NEW v, WellFormed(v), NEW n \in AttemptNos, NEW t \in Tokens,
         CanRecordFailure(v, n, t), NEW retryable \in BOOLEAN
  PROVE  Keeps(v, RecordFailure(v, n, retryable))
<1>1. /\ Exists(v) /\ v.attempts[n] \in Attempt /\ v \in View
      /\ v.active \in AttemptNos /\ n <= v.active
      /\ AttemptOK(v, n, v.attempts[n])
  BY AttemptExists DEF CanRecordFailure
<1>2. CASE ShouldRetry(v, retryable)
  <2> DEFINE a == Unleased(Moved(v.attempts[n], "failed", "failed"))
             u == Put(v, n, v.state, "failed", a)
             x == Wrote(v, n, a)
             m == v.active + 1
             b == NewAttempt("retry_backoff", "retry_scheduled", FALSE,
                             v.attempts[n].retries + 1)
  <2>0. "failed" \in RUN_STATES /\ "failed" \in RUN_OPERATOR_STATES
    BY StateNames
  <2>1. /\ a \in Attempt /\ a.state = "failed" /\ a.token = 0
        /\ a.lease \in {"released", "expired"}
        /\ a.retries = v.attempts[n].retries
    BY <1>1, <2>0, UnleasedFields
  <2> HIDE DEF a
  <2>2. v.state \in RUN_STATES
    BY <1>1 DEF Exists, View
  <2>3. Keeps(v, u)
    <3>1. AttemptOK(v, n, a)
      BY <1>1, <2>1, UnleasedOK
    <3> QED
      BY <1>1, <2>0, <2>1, <2>2, <3>1, PutKeeps
  <2>4. Exists(u) /\ u.active = v.active
    BY <1>1, <2>0, <2>1, <2>2, PutWrites
  <2>5. m \in AttemptNos /\ m <= MaxAttempts
    BY <1>1, <1>2, Numbers, RowBounds DEF ShouldRetry, AttemptNos
  <2>6. /\ b \in Attempt /\ b.state = "retry_backoff" /\ b.token = 0
        /\ b.lease = "not_leased" /\ b.retries = v.attempts[n].retries + 1
    <3>1. v.attempts[n].retries + 1 \in Nat
      BY <1>1 DEF Attempt
    <3>2. b \in Attempt
      BY <3>1, StateNames, NewAttemptFields
    <3> QED
      BY <3>2 DEF NewAttempt
  <2>7. b.retries < m
    <3>1. v.attempts[n].retries \in Nat /\ n \in Nat \ {0} /\ v.active \in Nat
      BY <1>1, Numbers DEF Attempt
    <3>2. v.attempts[n].retries = 0 \/ v.attempts[n].retries < n
      BY <1>1, <3>1 DEF AttemptOK
    <3>3. v.attempts[n].retries + 1 < v.active + 1
      BY <1>1, <3>1, <3>2
    <3> QED
      BY <2>6, <3>3
  <2>8. Supersede(x, m, "retry_backoff", "retry_scheduled", b)
          = Supersede(u, m, "retry_backoff", "retry_scheduled", b)
    <3> HIDE DEF m, b
    <3> QED
      BY <1>1 DEF Supersede, Wrote, Put, View
  <2> HIDE DEF b, u, m, x
  <2>9. m = u.active + 1
    BY <2>4 DEF m
  <2>10. Keeps(u, Supersede(u, m, "retry_backoff", "retry_scheduled", b))
    BY <2>3, <2>4, <2>5, <2>6, <2>7, <2>9, StateNames, SupersedeKeeps DEF Keeps
  <2>11. Keeps(v, Supersede(x, m, "retry_backoff", "retry_scheduled", b))
    BY <2>3, <2>8, <2>10, KeepsOn
  <2> QED
    BY <1>2, <2>11 DEF RecordFailure, RetryAttempt, Wrote, a, x, m, b
<1>3. CASE ~ShouldRetry(v, retryable)
  <2> DEFINE u == Put(v, n, "dead_lettered", "quarantined",
                      Unleased(Moved(v.attempts[n], "dead_lettered",
                                     "quarantined")))
             w == [u EXCEPT !.link = 0]
  <2>1. Keeps(v, u)
    BY <1>1, StateNames, UnleasedPutKeeps
  <2>2. Exists(u)
    <3>1. Unleased(Moved(v.attempts[n], "dead_lettered", "quarantined"))
            \in Attempt
      BY <1>1, StateNames, UnleasedFields
    <3> QED
      BY <1>1, <3>1, StateNames, PutWrites
  <2> HIDE DEF u
  <2>3. /\ w \in View /\ w.state = u.state /\ w.op = u.op
        /\ w.active = u.active /\ w.current = u.current
        /\ w.attempts = u.attempts /\ w.gates = u.gates
        /\ w.holder = u.holder
    BY <2>1 DEF Keeps, WellFormed, View
  <2> HIDE DEF w
  <2>4. WellFormed(w)
    BY <2>1, <2>2, <2>3 DEF Keeps, WellFormed, AttemptOK, Exists, PausedIdle
  <2>5. Keeps(v, w)
    BY <2>1, <2>3, <2>4 DEF Keeps, Fenced
  <2> QED
    BY <1>3, <2>5 DEF RecordFailure, DeadLetterAttempt, u, w
<1> QED
  BY <1>2, <1>3

LEMMA OpenApprovalKeeps ==
  ASSUME NEW v, WellFormed(v), NEW n \in AttemptNos, NEW l \in LinkIds,
         CanOpenApproval(v, n), NEW d \in Dispositions
  PROVE  Keeps(v, OpenApproval(v, n, l, d))
<1> DEFINE a == Revoked(Moved(v.attempts[n], "waiting_on_approval",
                              "waiting_on_approval"), "released")
           u == Put(v, n, "waiting_on_approval", "waiting_on_approval", a)
           g == [attempt |-> n, status |-> "open", disposition |-> d]
<1>1. /\ Exists(v) /\ v.attempts[n] \in Attempt /\ v \in View
      /\ n <= v.active
  BY AttemptExists DEF CanOpenApproval
<1>2. /\ a \in Attempt /\ a.state = "waiting_on_approval" /\ a.token = 0
      /\ a.lease = "released" /\ a.retries = v.attempts[n].retries
  <2>1. /\ "waiting_on_approval" \in RUN_STATES
        /\ "waiting_on_approval" \in RUN_OPERATOR_STATES
    BY StateNames
  <2> QED
    BY <1>1, <2>1, RevokedFields
<1> HIDE DEF a
<1>3. AttemptOK(v, n, a)
  BY <1>1, <1>2, UnleasedOK
<1>4. Keeps(v, u)
  BY <1>1, <1>2, <1>3, StateNames, PutKeeps
<1>5. Exists(u) /\ u.active = v.active
  BY <1>1, <1>2, StateNames, PutWrites
<1>6. g \in Gate /\ g.attempt = n
  BY DEF Gate
<1> HIDE DEF u, g
<1>7. Keeps(u, WithGate(u, l, l, g))
  BY <1>1, <1>4, <1>5, <1>6, GateKeeps DEF Keeps
<1>8. Keeps(v, WithGate(u, l, l, g))
  BY <1>4, <1>7, KeepsOn
<1> QED
  BY <1>8 DEF OpenApproval, WithGate, u, a, g

LEMMA DecideKeeps ==
  ASSUME NEW v, WellFormed(v), NEW l \in LinkIds, CanDecide(v, l),
         NEW approved \in BOOLEAN
  PROVE  Keeps(v, Decide(v, l, approved))
<1> DEFINE n      == v.gates[l].attempt
           state  == DecisionState(v.gates[l].disposition, approved)
           op     == DecisionOp(state)
           b      == Revoked(Moved(v.attempts[n], state, op), "released")
           a      == [b EXCEPT !.due = (state # "failed") \/ @]
           u      == Put(v, n, state, op, a)
           status == IF approved THEN "approved" ELSE "rejected"
           g      == [v.gates[l] EXCEPT !.status = status]
           w      == WithGate(u, v.link, l, g)
<1>1. /\ Exists(v) /\ v \in View /\ n \in AttemptNos /\ n <= v.active
      /\ v.gates[l] \in Gate /\ v.link \in LinkIds \cup {0}
  BY DEF CanDecide, WellFormed, Exists, NoRun, NoGate, View
<1>2. /\ state \in RUN_STATES /\ state \notin {"dispatching", "executing"}
      /\ op \in RUN_OPERATOR_STATES /\ op # "paused"
  BY StateNames DEF DecisionState, DecisionOp
<1>3. /\ b \in Attempt /\ b.state = state /\ b.token = 0
      /\ b.lease = "released" /\ b.retries = v.attempts[n].retries
  <2>1. v.attempts[n] \in Attempt
    BY <1>1 DEF View
  <2> HIDE DEF n, state, op
  <2> QED
    BY <1>2, <2>1, RevokedFields
<1>4. /\ a \in Attempt /\ a.state = state /\ a.token = 0
      /\ a.lease = "released" /\ a.retries = v.attempts[n].retries
  <2> HIDE DEF b, state, n
  <2> QED
    BY <1>3 DEF Attempt
<1> HIDE DEF a, state, op
<1>5. /\ Keeps(v, u) /\ Exists(u)
      /\ u.link = v.link /\ u.gates = v.gates /\ u.active = v.active
  <2>1. Keeps(v, u)
    <3> HIDE DEF n
    <3>1. AttemptOK(v, n, a)
      BY <1>1, <1>2, <1>4, UnleasedOK
    <3> QED
      BY <1>1, <1>2, <1>4, <3>1, PutKeeps
  <2>2. Exists(u) /\ u.link = v.link /\ u.gates = v.gates /\ u.active = v.active
    <3> HIDE DEF n
    <3> QED
      BY <1>1, <1>2, <1>4, PutWrites
  <2> QED
    BY <2>1, <2>2
<1>6. g \in Gate /\ g.status # "open"
  BY <1>1 DEF Gate
<1> HIDE DEF u
<1>7. Keeps(v, w)
  <2> HIDE DEF g
  <2>1. Keeps(u, w)
    BY <1>1, <1>5, <1>6, GateKeeps DEF Keeps
  <2> QED
    BY <1>5, <2>1, KeepsOn
<1>8. Decide(v, l, approved) = w
  <2>1. Decide(v, l, approved) = [u EXCEPT !.gates[l].status = status]
    BY DEF Decide, u, a, op, state
  <2> QED
    BY <2>1, <1>1, <1>5 DEF WithGate, Keeps, WellFormed, View
<1> QED
  BY <1>7, <1>8

LEMMA OperatorKeeps ==
  ASSUME NEW v, WellFormed(v)
  PROVE  /\ CanRequestCancel(v) => Keeps(v, RequestCancel(v))
         /\ CanAdmitRetry(v) /\ v.active < AttemptLimit
              => Keeps(v, AdmitRetry(v))
         /\ CanPause(v) => Keeps(v, Pause(v))
         /\ CanResume(v) => Keeps(v, Resume(v))
         /\ CanInterrupt(v) => Keeps(v, Interrupt(v))
         /\ CanQuarantine(v) => Keeps(v, Quarantine(v))
<1> DEFINE n == v.current
           c == v.attempts[n]
<1>1. Exists(v) => /\ v \in View /\ v.state \in RUN_STATES
                   /\ v.active \in AttemptNos
                   /\ n \in AttemptNos /\ n <= v.active
                   /\ c \in Attempt /\ AttemptOK(v, n, c)
  BY DEF WellFormed, Exists, View
<1>2. ASSUME CanRequestCancel(v)
      PROVE  Keeps(v, RequestCancel(v))
  <2> DEFINE a == Moved(c, "cancel_requested", "cancel_requested")
  <2>1. Exists(v)
    BY <1>2 DEF CanRequestCancel, Exists
  <2>2. /\ a \in Attempt /\ a.state = "cancel_requested"
        /\ a.token = c.token /\ a.lease = c.lease /\ a.retries = c.retries
    <3>1. /\ "cancel_requested" \in RUN_STATES
          /\ "cancel_requested" \in RUN_OPERATOR_STATES
      BY StateNames
    <3> HIDE DEF c
    <3> QED
      BY <1>1, <2>1, <3>1, MovedFields
  <2> HIDE DEF a, c, n
  <2>3. AttemptOK(v, n, a)
    BY <1>1, <2>1, <2>2 DEF AttemptOK, IN_FLIGHT_ATTEMPT_STATES
  <2>4. a.token \in {0, v.attempts[n].token}
    BY <2>2 DEF c
  <2>5. Keeps(v, Put(v, n, "cancel_requested", "cancel_requested", a))
    BY <1>1, <2>1, <2>2, <2>3, <2>4, StateNames, PutKeeps
  <2> QED
    BY <2>5 DEF RequestCancel, MoveBoth, a, c, n
<1>3. ASSUME CanAdmitRetry(v), v.active < AttemptLimit
      PROVE  Keeps(v, AdmitRetry(v))
  <2> DEFINE b == NewAttempt("queued", "admitted", TRUE, 0)
  <2>1. Exists(v)
    BY <1>3 DEF CanAdmitRetry, RETRYABLE_RUN_STATES, Exists
  <2>2. v.active + 1 \in AttemptNos
    BY <1>1, <1>3, <2>1, Numbers, RowBounds DEF AttemptNos
  <2>3. b \in Attempt
    BY StateNames, NewAttemptFields
  <2>4. /\ b.state = "queued" /\ b.token = 0 /\ b.lease = "not_leased"
        /\ b.retries = 0
    BY DEF NewAttempt
  <2> HIDE DEF b
  <2>5. Keeps(v, Supersede(v, v.active + 1, "queued", "admitted", b))
    BY <2>1, <2>2, <2>3, <2>4, StateNames, SupersedeKeeps
  <2> QED
    BY <2>5 DEF AdmitRetry, b
<1>4. ASSUME NEW o \in RUN_OPERATOR_STATES, Exists(v),
             ~Authoritative /\ o = "paused" => c.state \notin IN_FLIGHT_ATTEMPT_STATES
      PROVE  Keeps(v, Put(v, n, v.state, o, [c EXCEPT !.op = o]))
  <2> DEFINE a == [c EXCEPT !.op = o]
  <2> HIDE DEF n, c
  <2>1. c \in Attempt
    BY <1>1, <1>4
  <2>2. /\ a \in Attempt /\ a.state = c.state
        /\ a.token = c.token /\ a.lease = c.lease /\ a.retries = c.retries
    BY <2>1, <1>4 DEF Attempt
  <2> HIDE DEF a
  <2>3. AttemptOK(v, n, a)
    BY <1>1, <1>4, <2>2 DEF AttemptOK
  <2>4. a.token \in {0, v.attempts[n].token}
    BY <2>2 DEF c
  <2>5. Keeps(v, Put(v, n, v.state, o, a))
    BY <1>1, <1>4, <2>2, <2>3, <2>4, PutKeeps DEF n
  <2> QED
    BY <2>5 DEF a
<1>5. ASSUME CanPause(v)
      PROVE  Keeps(v, Pause(v))
  <2>1. Exists(v) /\ (~Authoritative => c.state \notin IN_FLIGHT_ATTEMPT_STATES)
    BY <1>5 DEF CanPause
  <2> QED
    BY <1>4, <2>1, StateNames DEF Pause
<1>6. ASSUME CanResume(v)
      PROVE  Keeps(v, Resume(v))
  <2> DEFINE o == RUN_TO_OPERATOR_RESUME_MAP[v.state]
  <2>1. Exists(v)
    BY <1>6 DEF CanResume, WellFormed, NoRun
  <2>2. o \in RUN_OPERATOR_STATES /\ o # "paused"
    BY <1>1, <2>1 DEF RUN_TO_OPERATOR_RESUME_MAP, RUN_OPERATOR_STATES
  <2> HIDE DEF o
  <2>3. Keeps(v, Put(v, n, v.state, o, [c EXCEPT !.op = o]))
    BY <1>4, <2>1, <2>2
  <2> QED
    BY <2>3 DEF Resume, o
<1>7. ASSUME CanInterrupt(v)
      PROVE  Keeps(v, Interrupt(v))
  <2> DEFINE a == Unleased(Moved(c, "cancel_requested", "interrupted"))
  <2>1. Exists(v)
    BY <1>7 DEF CanInterrupt
  <2>2. Keeps(v, Put(v, n, "cancel_requested", "interrupted", a))
    <3> HIDE DEF n
    <3> QED
      BY <1>1, <2>1, StateNames, UnleasedPutKeeps
  <2> QED
    BY <2>2 DEF Interrupt
<1>8. ASSUME CanQuarantine(v)
      PROVE  Keeps(v, Quarantine(v))
  <2> DEFINE a == Unleased(Moved(c, "dead_lettered", "quarantined"))
  <2>1. Exists(v)
    BY <1>8 DEF CanQuarantine
  <2>2. Keeps(v, Put(v, n, "dead_lettered", "quarantined", a))
    <3> HIDE DEF n
    <3> QED
      BY <1>1, <2>1, StateNames, UnleasedPutKeeps
  <2> QED
    BY <2>2 DEF Quarantine
<1> QED
  BY <1>2, <1>3, <1>5, <1>6, <1>7, <1>8

LEMMA ReconcileKeeps ==
  ASSUME NEW v, WellFormed(v), NEW n \in AttemptNos, CanReconcile(v, n)
  PROVE  Keeps(v, Reconcile(v, n))
<1> DEFINE a == Revoked(Moved(v.attempts[n], "timed_out", "interrupted"),
                        "expired")
<1>1. Exists(v) /\ v.attempts[n] \in Attempt /\ n <= v.active
  BY AttemptExists DEF CanReconcile, LeaseExpired, IN_FLIGHT_ATTEMPT_STATES
<1>2. /\ a \in Attempt /\ a.state = "timed_out" /\ a.token = 0
      /\ a.lease = "expired" /\ a.retries = v.attempts[n].retries
  <2>1. "timed_out" \in RUN_STATES /\ "interrupted" \in RUN_OPERATOR_STATES
    BY StateNames
  <2> QED
    BY <1>1, <2>1, RevokedFields
<1> HIDE DEF a
<1>3. AttemptOK(v, n, a)
  BY <1>1, <1>2, UnleasedOK
<1>4. Keeps(v, Put(v, n, "timed_out", "quarantined", a))
  BY <1>1, <1>2, <1>3, StateNames, PutKeeps
<1> QED
  BY <1>4 DEF Reconcile, a

-----------------------------------------------------------------------------
(* The database, in either mode.                                           *)

RowsKept == TypeOK' /\ WellFormedInv' /\ \A r \in Runs : Fenced(db[r], db'[r])

LEMMA UpdateKeeps ==
  ASSUME WellFormedInv, TypeOK, NEW r \in Runs, NEW v, Keeps(db[r], v),
         Update(r, v)
  PROVE  RowsKept
<1>1. db'[r] = v /\ \A q \in Runs : q # r => db'[q] = db[q]
  BY DEF TypeOK, Update
<1>2. \A q \in Runs : Fenced(db[q], db'[q])
  BY <1>1 DEF Keeps, Fenced
<1>3. TypeOK'
  BY DEF TypeOK, Update, Keeps, WellFormed
<1>4. WellFormedInv'
  BY <1>1 DEF WellFormedInv, Keeps
<1> QED
  BY <1>2, <1>3, <1>4 DEF RowsKept

LEMMA CreatedWellFormed == WellFormed(NoRun) /\ Keeps(NoRun, AdmittedRun)
<1> DEFINE a == NewAttempt("queued", "admitted", TRUE, 0)
           w == AdmittedRun
<1>1. \A l \in LinkIds : NoRun.gates[l].status = "absent"
  BY DEF NoRun, NoGate
<1>2. \A v, n : AttemptOK(v, n, NoAttempt)
  BY DEF AttemptOK, NoAttempt
<1>3. \A n \in AttemptNos : NoRun.attempts[n] = NoAttempt
  BY DEF NoRun
<1>4. WellFormed(NoRun)
  <2>1. NoRun.op = "absent" /\ NoRun.state = "absent"
    BY DEF NoRun
  <2> QED
    BY <1>1, <1>2, <1>3, <2>1, NoRunOK DEF WellFormed, Exists, PausedIdle
<1>5. 1 \in AttemptNos
  BY RowBounds DEF AttemptNos
<1>6. /\ w.op = "admitted" /\ w.state = "queued"
      /\ w.active = 1 /\ w.current = 1 /\ w.gates = NoRun.gates
      /\ w.attempts = [NoRun.attempts EXCEPT ![1] = a]
      /\ w.holder = NoRun.holder
  BY DEF AdmittedRun, NoRun
<1>7. w \in View
  BY AdmittedRunOK DEF StepsTo, RowsOK
<1> HIDE DEF w
<1>8. \A n \in AttemptNos : AttemptOK(w, n, w.attempts[n])
  <2>1. AttemptOK(w, 1, a)
    BY <1>6 DEF AttemptOK, NewAttempt
  <2>2. \A n \in AttemptNos : w.attempts[n] = IF n = 1 THEN a ELSE NoAttempt
    BY <1>3, <1>6, NoRunOK DEF View
  <2>3. \A n \in AttemptNos : AttemptOK(w, n, NoAttempt)
    BY <1>2
  <2> QED
    BY <2>1, <2>2, <2>3
<1>9. WellFormed(w)
  <2>1. Exists(w) /\ PausedIdle(w)
    BY <1>6 DEF Exists, PausedIdle
  <2>2. \A l \in LinkIds : w.gates[l].status # "open"
    BY <1>1, <1>6
  <2>3. w.active \in AttemptNos /\ w.current \in AttemptNos
    BY <1>5, <1>6
  <2>4. w.current <= w.active
    <3>1. w.current = 1 /\ w.active = 1
      BY <1>6
    <3> QED
      BY <3>1
  <2> QED
    BY <1>7, <1>8, <2>1, <2>2, <2>3, <2>4 DEF WellFormed
<1>10. Fenced(NoRun, w)
  BY DEF Fenced, Drawn, NoRun
<1> QED
  BY <1>4, <1>9, <1>10 DEF Keeps, w

LEMMA StepKeeps ==
  ASSUME TypeOK, WellFormedInv, [Next]_db
  PROVE  RowsKept
<1>0. \A r \in Runs : WellFormed(db[r]) /\ db[r] \in View
  BY DEF WellFormedInv, WellFormed
<1>1. ASSUME NEW r \in Runs,
             AdmitCreate(r) \/ \E source \in Runs : RestartFromScratch(source, r)
      PROVE  RowsKept
  <2>1. db[r] = NoRun /\ Update(r, AdmittedRun)
    BY <1>0, <1>1 DEF AdmitCreate, RestartFromScratch, WellFormed
  <2> QED
    BY <2>1, CreatedWellFormed, UpdateKeeps
<1>2. ASSUME NEW r \in Runs, WorkerStep(r)
      PROVE  RowsKept
  <2> DEFINE v == db[r]
  <2>0. WellFormed(v)
    BY <1>0
  <2> PICK t \in Tokens :
         \/ \E n \in AttemptNos : ClaimNextAttempt(r, n, t) \/ ClaimAttempt(r, n, t)
         \/ /\ t \in Drawn(v)
            /\ LET n == v.holder[t] IN
                 \/ MarkAttemptExecuting(r, n, t)
                 \/ RecordAttemptFailure(r, n, t)
                 \/ CompleteAttemptSuccess(r, n, t)
                 \/ RenewAttemptLease(r, n, t)
    BY <1>2 DEF WorkerStep
  <2>1. ASSUME NEW n \in AttemptNos,
               ClaimNextAttempt(r, n, t) \/ ClaimAttempt(r, n, t)
        PROVE  RowsKept
    <3>1. CanClaim(v, n) /\ NextToken(v, t) /\ Update(r, Claim(v, n, t))
      BY <2>1 DEF ClaimNextAttempt, ClaimAttempt
    <3>2. v.holder[t] = 0
      BY <3>1, Numbers DEF NextToken
    <3> QED
      BY <2>0, <3>1, <3>2, ClaimKeeps, UpdateKeeps
  <2>2. ASSUME NEW n \in AttemptNos,
               \/ MarkAttemptExecuting(r, n, t)
               \/ RecordAttemptFailure(r, n, t)
               \/ CompleteAttemptSuccess(r, n, t)
               \/ RenewAttemptLease(r, n, t)
        PROVE  RowsKept
    <3>1. CASE MarkAttemptExecuting(r, n, t)
      BY <2>0, <3>1, MarkExecutingKeeps, UpdateKeeps DEF MarkAttemptExecuting
    <3>2. CASE RecordAttemptFailure(r, n, t)
      BY <2>0, <3>2, RecordFailureKeeps, UpdateKeeps DEF RecordAttemptFailure
    <3>3. CASE CompleteAttemptSuccess(r, n, t)
      BY <2>0, <3>3, CompleteKeeps, UpdateKeeps DEF CompleteAttemptSuccess
    <3>4. CASE RenewAttemptLease(r, n, t)
      <4> DEFINE a == v.attempts[n]
                 b == [a EXCEPT !.overdue = FALSE]
                 w == Wrote(v, n, b)
      <4>1. Exists(v) /\ v \in View /\ v.attempts[n] \in Attempt
        BY <2>0, <3>4, AttemptExists DEF RenewAttemptLease, CanRenewLease, WellFormed
      <4>2. /\ b \in Attempt /\ b.state = a.state /\ b.token = a.token
            /\ b.lease = a.lease /\ b.retries = a.retries
        <5> HIDE DEF a
        <5>1. a \in Attempt
          BY <4>1 DEF a
        <5> QED
          BY <5>1 DEF Attempt
      <4>3. Keeps(v, w)
        <5> HIDE DEF v, b
        <5> QED
          BY <2>0, <4>1, <4>2, FlagsKeep
      <4>4. RenewLease(v, n) = w
        BY <4>1 DEF RenewLease, Wrote, View, Attempt
      <4> QED
        BY <3>4, <4>3, <4>4, UpdateKeeps DEF RenewAttemptLease
    <3> QED
      BY <2>2, <3>1, <3>2, <3>3, <3>4
  <2>3. t \in Drawn(v) => v.holder[t] \in AttemptNos
    BY <1>0 DEF Drawn, View
  <2> QED
    BY <2>1, <2>2, <2>3
<1>3. ASSUME NEW r \in Runs, ApprovalStep(r)
      PROVE  RowsKept
  <2>1. ASSUME NEW l \in LinkIds, NEW n \in AttemptNos, OpenApprovalGate(r, n, l)
        PROVE  RowsKept
    BY <1>0, <2>1, OpenApprovalKeeps, UpdateKeeps DEF OpenApprovalGate
  <2>2. ASSUME NEW l \in LinkIds, DecideApproval(r, l)
        PROVE  RowsKept
    BY <1>0, <2>2, DecideKeeps, UpdateKeeps DEF DecideApproval
  <2> QED
    BY <1>3, <2>1, <2>2 DEF ApprovalStep
<1>4. ASSUME NEW r \in Runs, OperatorStep(r)
      PROVE  RowsKept
  BY <1>0, <1>4, OperatorKeeps, UpdateKeeps
     DEF OperatorStep, RequestCancelRun, AdmitRetryRun, PauseRun, ResumeRun,
         InterruptRun, QuarantineRun
<1>5. ASSUME NEW r \in Runs, ClockStep(r)
      PROVE  RowsKept
  <2> DEFINE v == db[r]
  <2>1. PICK n \in AttemptNos : BackoffElapses(r, n) \/ LeaseRunsOut(r, n)
    BY <1>5 DEF ClockStep
  <2>2. WellFormed(v) /\ v \in View
    BY <1>0
  <2>3. Exists(v) /\ v.attempts[n] \in Attempt
    <3>1. v.attempts[n].state # "absent" \/ v.attempts[n].lease # "absent"
      BY <2>1 DEF BackoffElapses, LeaseRunsOut
    <3> HIDE DEF v
    <3> QED
      BY <2>2, <3>1, AttemptExists
  <2> DEFINE a == v.attempts[n]
  <2>4. a \in Attempt
    BY <2>3
  <2>5. CASE BackoffElapses(r, n)
    <3> DEFINE b == [a EXCEPT !.due = TRUE]
               w == Wrote(v, n, b)
    <3>0. /\ b \in Attempt /\ b.state = a.state /\ b.token = a.token
          /\ b.lease = a.lease /\ b.retries = a.retries
      <4> HIDE DEF a
      <4> QED
        BY <2>4 DEF Attempt
    <3>1. Keeps(v, w)
      <4> HIDE DEF v, b
      <4> QED
        BY <2>2, <2>3, <3>0, FlagsKeep
    <3>2. Update(r, w)
      BY <2>2, <2>3, <2>5 DEF BackoffElapses, Update, Wrote, TypeOK, View, Attempt
    <3> QED
      BY <3>1, <3>2, UpdateKeeps
  <2>6. CASE LeaseRunsOut(r, n)
    <3> DEFINE b == [a EXCEPT !.overdue = TRUE]
               w == Wrote(v, n, b)
    <3>0. /\ b \in Attempt /\ b.state = a.state /\ b.token = a.token
          /\ b.lease = a.lease /\ b.retries = a.retries
      <4> HIDE DEF a
      <4> QED
        BY <2>4 DEF Attempt
    <3>1. Keeps(v, w)
      <4> HIDE DEF v, b
      <4> QED
        BY <2>2, <2>3, <3>0, FlagsKeep
    <3>2. Update(r, w)
      BY <2>2, <2>3, <2>6 DEF LeaseRunsOut, Update, Wrote, TypeOK, View, Attempt
    <3> QED
      BY <3>1, <3>2, UpdateKeeps
  <2> QED
    BY <2>1, <2>5, <2>6
<1>6. CASE ReconcileExpiredLeases
  <2> PICK pick \in [Runs -> AttemptNos] :
         db' = [r \in Runs |-> IF CanReconcile(db[r], pick[r])
                               THEN Reconcile(db[r], pick[r]) ELSE db[r]]
    BY <1>6 DEF ReconcileExpiredLeases
  <2>1. ASSUME NEW r \in Runs
        PROVE  WellFormed(db'[r]) /\ Fenced(db[r], db'[r])
    <3>1. pick[r] \in AttemptNos /\ WellFormed(db[r])
      BY <1>0
    <3>2. CASE CanReconcile(db[r], pick[r])
      <4>1. db'[r] = Reconcile(db[r], pick[r])
        BY <3>2
      <4> QED
        BY <3>1, <3>2, <4>1, ReconcileKeeps DEF Keeps
    <3>3. CASE ~CanReconcile(db[r], pick[r])
      BY <3>1, <3>3 DEF Fenced
    <3> QED
      BY <3>2, <3>3
  <2> QED
    BY <2>1 DEF RowsKept, WellFormedInv, WellFormed, TypeOK
<1>7. CASE UNCHANGED db
  BY <1>7 DEF RowsKept, TypeOK, WellFormedInv, Fenced
<1> QED
  BY <1>1, <1>2, <1>3, <1>4, <1>5, <1>6, <1>7 DEF Next

LEMMA WellFormedness == Spec => [](TypeOK /\ WellFormedInv)
<1>1. Init => TypeOK /\ WellFormedInv
  BY NoRunOK, CreatedWellFormed DEF Init, TypeOK, WellFormedInv
<1>2. TypeOK /\ WellFormedInv /\ [Next]_db => (TypeOK /\ WellFormedInv)'
  BY StepKeeps DEF RowsKept
<1> QED
  BY <1>1, <1>2, PTL DEF Spec

\* The rows are always well formed: every state, operator state and lease status
\* written is one of the enumerations of models.py, and every number and id a
\* run keeps refers to a row it has - whichever copy of the rules is in charge.
THEOREM TypeCorrect == Spec => []TypeOK
BY WellFormedness, PTL

-----------------------------------------------------------------------------
(* The safety properties of the service, whichever copy of the rules is in  *)
(* charge.                                                                 *)

\* The claim query never puts an attempt at its head that the claim then refuses,
\* so that the work behind it is reached.
THEOREM ClaimsNeverStarve == Spec => []NoPoisonedQueueHead
<1>1. CASE Authoritative
  <2>1. RowsInv => NoPoisonedQueueHead
    BY RowsImplyClaimable DEF RowsInv, NoPoisonedQueueHead
  <2> QED
    BY <1>1, <2>1, Invariance, PTL
<1>2. CASE ~Authoritative
  <2>1. TypeOK => NoPoisonedQueueHead
    BY <1>2 DEF NoPoisonedQueueHead, ClaimCandidate, CanClaim
  <2> QED
    BY <2>1, TypeCorrect, PTL
<1> QED
  BY <1>1, <1>2

\* Work in flight is always under the lease of a claim made for it, so that the
\* reconciler can find it: also when a late decision has revived an attempt
\* that a manual retry had superseded.
THEOREM LeasesAreSound == Spec => []LeasedWorkIsReclaimable
<1>1. WellFormedInv => LeasedWorkIsReclaimable
  BY DEF WellFormedInv, WellFormed, AttemptOK, LeasedWorkIsReclaimable, LeasesFound
<1> QED
  BY <1>1, WellFormedness, PTL

\* The automatic retries stay inside execution_max_attempts.
THEOREM RetriesAreBounded == Spec => []RetryBudget
<1>1. WellFormedInv => RetryBudget
  BY DEF WellFormedInv, WellFormed, AttemptOK, RetryBudget
<1> QED
  BY <1>1, WellFormedness, PTL

\* A lease token that was taken from its attempt, by completion, failure, a
\* gate, an operator or the reconciler, is never accepted again.
THEOREM TokensAreFenced == Spec => RevokedTokensStayRevoked
<1>1. TypeOK /\ WellFormedInv /\ [Next]_db =>
        [\A r \in Runs : \A t \in Drawn(db[r]) :
           LET n == db[r].holder[t] IN
             db[r].attempts[n].token # t => db'[r].attempts[n].token # t]_db
  BY StepKeeps DEF RowsKept, Fenced
<1> QED
  BY <1>1, WellFormedness, PTL DEF Spec, RevokedTokensStayRevoked

\* By the service's own guards, no run is paused while a worker or the reconciler
\* is responsible for its attempt.
THEOREM PausedRunsStayIdle ==
  ASSUME ~Authoritative PROVE Spec => []PausedRunsAreIdle
<1>1. WellFormedInv => PausedRunsAreIdle
  BY DEF WellFormedInv, WellFormed, PausedIdle, PausedRunsAreIdle
<1> QED
  BY <1>1, WellFormedness, PTL
=============================================================================
