# ForgeFrame: formal models of durable execution and of its control plane

ForgeFrame is a control plane and runtime gateway for language-model providers.
Its backend (`src/backend/app`, Python, SQLAlchemy over PostgreSQL or SQLite)
admits work as durable *runs*, lets worker processes claim and execute the
*attempts* of a run under leases, and lets operators and approvers step in. Its
frontend (`src/frontend/src`, TypeScript, React) is the console from which they
do so. This directory holds TLA+ models of durable execution and of the
protocols between the console and the backend, the TLC configurations that check
them, and proofs checked by TLAPS.

## 1. Inventory of the system

| Component | State it keeps | Operations | What makes it correct |
|---|---|---|---|
| Execution state machine (`execution/state_machine.py`) | declared tables only | `check_transition_allowed`, validation of results | the service does what the tables declare |
| Execution transition service (`execution/service.py`) | `runs`, `run_attempts`, `run_approval_links`, `run_commands`, `run_outbox` rows | create, claim, mark executing, record failure, complete, renew lease, open/decide approval, cancel, retry, pause, resume, interrupt, quarantine, escalate, restart, reconcile leases | one live attempt per run; run and attempt rows agree; leases fence workers; work in flight can be reclaimed; retries are bounded; queued work is claimed |
| Execution worker (`execution/worker_service.py`, `deploy/scripts/run-execution-worker.py`) | a cycle's local state, `execution_workers` rows | the poll loop, `run_background_cycle`, `_record_failure`, heartbeats | an attempt is dispatched once; results and failures reach both run and response |
| Background responses (`responses/service.py`) | `runtime_responses` and native projection rows | `create_background_response`, `save_response_snapshot`, `get_background_execution_payload` | what the API shows agrees with the run; an accepted response is answered |
| Execution administration (`execution/admin_service.py`) | none | operator actions, replay, reconciliation, views | commands are idempotent and reach the service |
| Approvals (`approvals/service.py`) | approvals of several origins | list, decide | a decision is applied exactly once, to both sides |
| Request idempotency (`idempotency/service.py`) | reservation records | reserve, complete, replay, expire | one effect per key |
| Routing (`core/routing/service.py`, `control_plane/routing_budget.py`) | circuit and budget state | candidate selection, outcome accounting | open circuits and exhausted budgets are respected |
| Dispatch, providers (`core`, `providers`) | OAuth and catalogue state | provider calls | external to the models |
| Tasks and reminders (`tasks`) | tasks, reminders, notifications | create, update, schedule, deliver | the declared task transitions are kept |
| Governance (`governance`) | admin users, sessions, memberships, elevated access, setting overrides | sign in, rotate, elevate, sign out, edit, override | behind the security page, the session and the settings below |
| Recovery (`recovery/service.py`) | policies, backup and restore reports | create, update, import, sum up | a policy is called covered only on evidence |
| Record-keeping services (knowledge, conversations, workspaces, agents, assistants, skills, learning, plugins, instances) | their own tables or documents | create, update, archive, list | input validation; sequential |
| Session in the browser (`app`, `features/auth`, `api/admin/auth.ts`) | stored token, cached session, current route | sign in, rotate, elevate, sign out, route loaders, redirects | what the server says of a session with a temporary password never opens the control plane; shells do not redirect each other for ever |
| Record pages (18: execution, tasks, reminders, ... agents, skills) | instances, a list, one record, the address | navigate, load, select, filter, commands | at rest the page shows what its address names |
| Execution controls (`features/execution/helpers.ts`) | none | which control is offered and advised | what is offered is accepted |
| Approvals console (`features/approvals`) | filters, queue, row, panel, confirmation | select, confirm, decide | the approval decided is the one confirmed |
| Security page (`features/security`) | directory, selected user, role draft, scopes | load, select, save, elevate | a save changes the user and role that were chosen |
| Recovery page (`pages/RecoveryPage.tsx`) | policies and reports shown | edit, import, show posture | rows called ready are ready |
| Guided setup (`features/setup`, dashboard of the backend) | dashboard shown | steps, status, primary action | "live" is justified; the button leads somewhere |
| Settings (`features/settings`) | settings, drafts, dialog | load, select, edit, confirm, save, reset | high risk is confirmed; edits are not lost unseen |
| Other pages, HTTP API, deployment, storage migrations | none of their own | call the services, read and refresh | not part of the models |

How they interact. An API request with `background: true` calls `admit_create`
(one transaction) and then inserts the response row (another). Worker processes
poll: a cycle claims the oldest due attempt, reads the response row, marks the
attempt executing, calls the provider with no transaction open, stores the
answer, and completes the run, each step in a transaction of its own. On an
exception it records the failure, which schedules a new attempt or dead-letters
the run, and then rewrites the response. Operators act on the same rows through
the admin API at any time; lease reconciliation runs when an administrator asks
for it and is never scheduled. `open_approval`, `renew_attempt_lease` and
`claim_attempt` have no caller in the product; the models include them because
they are the service's interface and the approval decision is called.

In the browser a page owns its state and everything it does waits for an answer.
Effects that load data guard themselves by hand with a `cancelled` flag; event
handlers do not, and run with the state of the rendering that created them. The
selection lives in the address, and an address changes only after the route
loader has asked for the session. The stored token, the cached session and the
route are three copies of one fact, which no step updates together.

Hard behaviours: several workers and operators on one run; a worker that is slow
or believed dead and comes back with an old token; crashes between the
transactions of a cycle; retries with backoff racing manual retries; gates that
outlive the attempt they were opened for; two hand-written copies of the status
(run row, attempt row) that fourteen handlers must keep equal; on the pages, answers
that come late, twice or out of order, navigations that overtake each other,
and rules of the backend that the page keeps a second copy of. `PROJECT.json`
lists each hazard at its line with the properties that cover it, or the reason
why none does.

## 2. Modules

    ExecutionStateMachine            the tables (no state)
      |-- ExecutionLifecycle         abstract specification: one run's dimensions
      `-- ExecutionRows              rows of one run; guard and result per operation
            `-- ExecutionTransitions the service over a database of runs
                  |-- ExecutionTransitions_proofs
                  |     `-- ExecutionLifecycle_proofs the service implements the tables
                  |-- OperatorControls               what the page offers for a run
                  |     `-- OperatorControls_proofs
                  `-- BackgroundResponses            API, workers and operators
                        `-- BackgroundResponses_proofs
    AdminSession                     token, cache and route of one tab
      |-- AdminSession_proofs
      `-- BrowserTab                 the session, or one page inside it
            |-- BrowserTab_proofs
            `-- RecordPage           the protocol of a record page (instance)
                  `-- WorkPages      traits of the eighteen pages (no state)

    SettingsEditor                   drafts, dialog, save and reset
      |-- SettingsEditor_proofs
      `-- Consoles                   one of the consoles at a time
            |-- Consoles_proofs
            |-- ApprovalsConsole     (instances)
            |-- SecurityConsole
            |-- RecoveryEvidence
            `-- SetupFlow

    MCExecutionTransitions, MCBackgroundResponses, MCConsoles   for TLC

**ExecutionStateMachine** holds the tables of `state_machine.py` and the
enumerations of `models.py` under their names in the code.

**ExecutionLifecycle** reads those tables as a specification of what a run may
do: `Fire(r, t)` is any trigger `t`, with the source, destination, operator
targets and attempt effects the tables declare and the guards that speak about
these dimensions. `Pause` and `Resume` are the operator-state machine.

**ExecutionRows** models the rows of one run as a record `v` (a `View`) and each
operation of `ExecutionTransitionService` as two operators: `Can<Op>(v, ...)`,
the conjunction of its early returns and of the guards the validator evaluates,
and `<Op>(v, ...)`, the assignments the handler makes. `Authoritative` is
`execution_state_machine_validation_enabled`: when it is TRUE (the default) the
guards of `state_machine.py` decide, when FALSE the ones written in the service.

| Column or idea in the code | In the model |
|---|---|
| `run.state`, `run.operator_state` | `state`, `op` |
| `active_attempt_no`, `current_attempt_id`, `current_approval_link_id` | `active`, `current`, `link` (0 for None) |
| `run_attempts` row: `attempt_state`, `operator_state`, `lease_status`, `lease_token`, `retry_count` | `attempts[n]`: `state`, `op`, `lease`, `token`, `retries` |
| `scheduled_at <= now`, `lease_expires_at < now` | `due`, `overdue` |
| `run_approval_links` row | `gates[l]` |
| uuid4 lease token | the number of the claim that drew it; `holder[t]` is the attempt claim `t` was for |

Timestamps are two flags that the clock actions raise, so that a lease may
expire and a backoff may elapse at any moment. Left out because no guard reads
them: version counters (they change with each write and only detect a change
during a claim), result summaries, failure classes, reasons, step keys,
execution lanes (and with them `escalate_run`), outbox rows, and command rows.

**ExecutionTransitions** applies these operations to `db`, one transaction per
action. `WorkerStep` lets any token that was ever drawn come back at any time
with any call: slow workers, presumed-dead workers, duplicated and reordered
calls. `OperatorStep`, `ApprovalStep`, `ReconcileExpiredLeases` and the clock
interleave freely.

**BackgroundResponses** extends it with the response rows, worker processes and
a count of provider calls. A worker is a record with a program counter: `idle`,
then `claimed`, `loaded`, `marked`, `saved`, `answered`, `delivered` inside the
`try` block of `run_background_cycle`, and `failing`, `reporting` inside
`_record_failure`. Each action is one transaction or the provider call. `Crash`
drops a cycle anywhere. `Raise` is a call that raises without effect: inside the
`try` block it leads to `_record_failure`, there it ends the cycle. A response
is its `lifecycle_status` and the attempt its native mapping names, with the
extra value `unsaved` between `admit_create` and the first snapshot.

**OperatorControls** puts the page's copy of the service's guards (which button is
enabled, which action is advised) beside the rows that `ExecutionTransitions`
writes. It has no action of its own.

**AdminSession** is one tab: the sessions the server knows and the account each
belongs to, the stored token, the query cache, the router with its loaders and
redirects, and one call of the person. Calls may be executed and their answers
lost, sessions expire, loaders are superseded and fail late, and administrators
elsewhere give an account a temporary password again (`PasswordReset`) or ask it
for another one (`RotationRequired`). A rotation changes the account the stored
token belongs to, whatever the page shows, and the gate goes on to ask for the
session (`RotationAnswered`, then `SessionRefreshed`). The history variable
`restricted` keeps the sessions that were signed in with a temporary password that
was not replaced since.

**WorkPages** describes the eighteen record pages by their traits (what moves the
selection, what a failure clears, which commands exist and what their answers
write) and **RecordPage** is the protocol they share, over the address, the
navigation under way, three loads and the commands in flight, of which there may be
several: each button has a busy flag of its own, if any. Most commands ask for a reload
when they are answered; those of the notifications and agents pages write their
answer into the page, and the repair of the default operator (`handleRestoreOperator`
of `AgentsPage.tsx`) writes a whole list and selects in it. That list belongs to
the instance and the filter the repair was started with, while the page may by
then show another instance; `SelectionIsListed` is therefore stated for the pages
whose list comes from its load alone.

**ApprovalsConsole**, **SecurityConsole** and **SettingsEditor** are the pages on
which a person confirms or edits one thing while others are loaded; each comes
with the part of the server that it changes, and with other persons who change
it too. The decision of an approval is one step there, although the service
propagates it in a transaction of its own. **RecoveryEvidence** and
**SetupFlow** are two stages of derivation: the backend sums up its records, and
the page computes labels and steps from these sums by rules of its own; both are
modelled, and the properties relate what is shown to the records.

**BrowserTab** and **Consoles** compose them. A tab shows one page at a time and a
page that is left keeps nothing, since its state lives in its component and its
effects drop what is under way. A behaviour therefore watches one page, and the
variables of the others stay in one initial state.

| Idea in the frontend | In the models |
|---|---|
| query cache entry: data, `isFetched`, `isStale`, `isError` | `report`, `fetched`, `fresh`, `failed` |
| `searchParams`, `updateRoute(...)` and the router's pending navigation | `route`, `nav` |
| `cancelled = true` in the clean-up of an effect | the load is replaced or emptied, its answer finds nothing |
| the state a handler closes over | what the request or navigation carries |
| `refreshNonce`, `load()` after a command | `refreshes` of a command, the loads of `SecurityConsole` |
| `drafts`, `confirmDialog`, `decisionConfirmation` | `drafts`, `confirmDialog`, `confirmation` |

Definitions marked `Mutant:` are plausible bugs of the definition that follows
each; they are not part of any specification. `PROJECT.json` pairs each with the
property that rejects it.

## 3. Runs

| Run | Instance | Question |
|---|---|---|
| `ExecutionAuthoritative` | 1 run, 3 attempts, 2 gates, 3 claims, budget 2, dispositions fail/compensate/cancel | invariants, step properties, the refinement of `ExecutionLifecycle`, and the controls offered |
| `ExecutionFair` | 2 runs, 2 attempts, 1 gate, 2 claims each | no queued run is starved |
| `BackgroundFleet` | 1 run, 2 workers, crashes, errors, operators, `Authoritative = FALSE` | several workers on one response, with no guards but the service's own; paused runs are idle by these |
| `BackgroundSolo` | 1 run, 1 worker, crashes, operators | the deployment of one `forgeframe-worker` unit |
| `BackgroundQuiet` | 2 runs, 1 worker, budget 3, no faults, no operators | every accepted response is answered |
| `BrowserTab` | 2 accounts, one of them with a temporary password, 2 tokens, 3 acts; 18 pages with 2 instances, 2 records, 2 acts | what the server says of a session opens nothing early; pages show what they select; the tab comes to rest |
| `Consoles` | 2 approvals, 5 acts; 2 users, 3 acts; 2 policies, 2 classes of data, 2 times, 3 acts; 2 settings, 2 values, 8 acts; 3 changes of the deployment | confirmations and edits reach the server as made; what is called ready, live or agreed is so |
| `PauseInFlight` | as the first | finding: in-flight runs are pausable |
| `ResumeAfterDecision` | as the first | finding: a closed link blocks resuming |
| `CoveredPolicies` | 1 policy, 2 classes of data, 4 acts | finding: a verdict on coverage outlives the policy it judged |
| `ConfirmedValue` | 2 settings, 2 values, 8 acts | finding: a dialog confirms one value and another is sent |
| `LeftoverSession` | 1 account with a temporary password, 2 tokens, 4 acts | finding: a report left in the cache opens the control plane to a temporary password |

Bounds and why they are enough:

- `MaxAttempts = 2` is the smallest budget with an automatic retry and an
  exhausted one; `AttemptLimit = 3` leaves room for a manual retry beyond the
  budget, so that budgets and manual retries mix and there is an attempt before
  the previous one.
- `TokenLimit = 3` lets each attempt be claimed, or one attempt be claimed again
  after an approval, with two stale tokens around.
- `LinkLimit = 2` lets a second gate be opened after a first one was decided or
  orphaned. `BackgroundResponses` has no gates: no component opens one on a
  background run.
- `BackgroundFleet` runs with the service's own guards, `BackgroundSolo` and
  `BackgroundQuiet` with the state machine in charge. What the first checks of
  workers is proved for both modes.
- Runs share no row. They meet in the claim query, in the reconciler and in the
  worker, which `ExecutionFair` and `BackgroundQuiet` cover with two runs.
- Beyond `TokenLimit` claims and `AttemptLimit` manual retries the model stops;
  `Waiting` therefore does not ask about a run that has used up its tokens. The
  theorems hold for every value of these bounds.
- `CHECK_DEADLOCK FALSE` in every configuration: the system is at rest when all
  runs are finished, and the bounds end every behaviour.

- In `BrowserTab`, two tokens are one before and one after an elevation, or two
  sign-ins, of one account or of two; three acts reach a sign-in, a rotation or a
  sign-out, and a second sign-in under the report of the first. Resets, expiry
  and lost calls are not acts and come at any time. Two instances and two
  records are the smallest with a wrong one of each. Only acts of persons are
  bounded: answers, failures and navigations come in any number and order, and
  two acts already overtake each other.
- In `Consoles`, a second approval, user, policy, class or setting is the one
  that may be confused with the first. A record of a backup and one of a restore
  per policy are kept, the latest, as the sums read no other; two times tell
  fresh from stale. The recovery page opens with at most one policy that exists;
  the other one is created. Policies and classes are interchangeable and
  declared as symmetry; the properties that use symmetric values are safety
  properties.

What `AcceptedIsAnswered`, `CompletedIsFinal` and `SuccessIsAnswered` leave out
is named in their comments and in the hazards: a worker that claims before the
response row exists dead-letters the run; errors raised after the provider's
answer, and a second worker with a stale cycle, can overwrite a completed
response. (With two workers TLC finds: the first schedules a retry and is slow
to save the queued snapshot; the second claims the new attempt and completes it;
the snapshot then puts the answered response back to queued, for good.) The
deployment runs one worker unit, and `reference/ForgeFrame-Backend_SPEC.md`
lists horizontal scaling as a non-goal, so that these three properties are
stated for one worker.

### Fairness

`Fairness` (`ExecutionFair`) asks that time passes (`WF` of `BackoffElapses`)
and that a queued run is claimed if it stays claimable. The poll loop of
`run-execution-worker.py` catches every exception of a cycle and goes on, and
the claim query serves attempts in the order of `scheduled_at`, so that a
waiting attempt reaches the head: later ones are scheduled later. Nobody is
obliged to finish, fail, decide, resume or reconcile.

`ResponsesFairness` (`BackgroundQuiet`) replaces the abstract claim by the
workers themselves: a cycle's next statement is executed, and an idle worker
claims. It is used without `Crash` and `Raise`.

`FairTab` (`BrowserTab`) asks that every call of the browser ends with an answer or
an error, that the router ends its navigations, and that the renderer carries
out the redirect it shows (`WF` of each). Persons owe nothing; their acts are
bounded, so that `ComesToRest` speaks of the time after they stop.

## 4. Findings

Five statements of the repository's documents, labels and comments are not what
the code does.

1. `DECISION_SPEC5-Finding4.md` keeps a decided approval link on the run on the
   ground that the link is never a control signal and that the guard of
   `resume_run` is unreachable afterwards. `ResumeAfterDecision`: open a gate,
   approve it, pause the requeued run; `is_operator_resumable` now refuses
   every resume.
2. `SPEC_State-Machine.md` gives `pause_run` the guard "attempt not in-flight".
   The legacy branch has it (`BackgroundFleet` checks `PausedRunsAreIdle`); the
   authoritative guard does not (`PauseInFlight`).
3. `RecoveryPage.tsx:393` labels policies "covered and restore-tested". The
   verdict on coverage is stored with a report when it is imported
   (`recovery/service.py`), and `update_policy` does not renew it: a class that is
   added afterwards counts as covered without any evidence (`CoveredPolicies`).
   The rows per class of data look at the reports themselves and are right
   (`ReadyRowsAreProven`).
4. `features/settings/types.ts:32` calls the value in the dialog for settings of
   high risk "the draft value being saved". `executeConfirmed`
   (`useSettings.ts:327`) sends the draft of the moment instead, which the answer
   of an earlier save may have replaced (`ConfirmedValue`).
5. `LoginPage.tsx:165` says "Temporary passwords trigger a forced rotation before the
   control plane opens", and `SecurityPage.tsx:674` the same to an administrator who
   resets a password. The gate looks at the cached report of the session. A
   sign-out leaves it in the cache, because `setQueryData(key, undefined)` leaves
   an entry as it is (`App.tsx:83`), a sign-in does not replace it
   (`LoginPage.tsx:46-51`), and for five minutes it is fresh (`App.tsx:48`). Who
   signs in meanwhile with a temporary password, another account or the same after
   a reset, is sent from the rotation page into the control plane
   (`LeftoverSession`). `OnlyLeftoversSkipRotation` says that this is the only way:
   the report that opens the control plane is then one of another session.

Observed while modelling; the models follow the code in each case:

- A session check that fails clears whatever token is stored when the failure
  arrives (`App.tsx:60`).
- A link to a skill is given up before the list is loaded (`useSkills.ts:264`).
- A run whose approval was decided is still described as held by its approval
  gate (`features/execution/helpers.ts:209`).
- After an elevation the security page is loaded once with the branch of the
  former session (`SecurityPage.tsx:781`).
- The acknowledgement in the dialog for settings of high risk stays ticked for
  the next dialog (`ConfirmHighRiskDialog.tsx:39`).
- The answer to restoring the operator is put under whatever instance the agents
  page shows when it arrives (`AgentsPage.tsx:255`).

## 5. Proofs

Every invariant and every step property that a passing run checks is proved, for
every value of the constants; so are the two refinements. The constants are bound
only by the named assumptions of their modules (`RowBounds`, `Environment`,
`PagesAssumption`, `ConsolesAssumption`, `SettingsAssumption`, ...): numbers are
numbers, and `None` is none of the values and calls it stands beside. Runs, workers,
attempts, gates, tokens, budgets, users, pages, records and acts are arbitrary.
Theorems about the service hold in both modes unless they assume `Authoritative`,
the default mode; those about the workers hold in both.

**ExecutionTransitions_proofs.** The stated invariants are not inductive one by
one. `RowsInv` (every view satisfies `RowsOK`) joins the type, the numbering of
attempts, the agreement of run and current attempt, the states a superseded
attempt may have, the tie between lease, token and `holder`, the tie between
an open gate and the waiting attempt, and the pairs of attempt state, operator
state and lease that can stand side by side (`Coherent`: a queued attempt is not at
a terminal operator state, a dead-lettered one is, an expired lease belongs to an
attempt that timed out under quarantine). For each operation a lemma shows
`RowsOK(v) /\ Can<Op>(v) => RowsOK(<Op>(v))` together with what the step does to
tokens and superseded attempts; `Invariance` puts them together over `Next`, and
each theorem is a consequence of `RowsInv`, or for the three step properties of
`StepOK`.

The guards of the state machine are needed for `RowsInv` at one place only, the
decision of an approval. `DecideOK` asks that the decision is in time (`InTime`: run
and attempt wait on it), which `is_waiting_on_approval` sees to and the
service's own guards do not. `InTimeInvariance` therefore has a hypothesis on
behaviours instead of on the mode, `[][DecisionsInTime]_db`, and with the state
machine in charge every step meets it (`AlwaysInTime`).

- `DriftNeedsALateDecision`: in either mode, while decisions are in time, one attempt
  is live, run and attempt agree, superseded attempts are frozen, and a run succeeds
  only out of a lease. Without the hypothesis all four are false with the
  service's own guards (`Authoritative = FALSE`): a gate that was left open on a
  quarantined attempt can still be decided after a manual retry, and then requeues
  or fails the superseded attempt beside the new one.
- `OneLiveAttemptHolds`, `RowsNeverDrift`, `GatesAreUnique`, `HistoryStaysFrozen`,
  `SuccessIsLeased`: the same with the state machine in charge, and no hypothesis on
  behaviours. `WaitingRunHasItsGate` has no counterpart without it: the service's own
  guards decide any gate left open.
- `TypeCorrect`, `ClaimsNeverStarve`, `LeasesAreSound`, `RetriesAreBounded`,
  `TokensAreFenced`: in either mode and also after late decisions. Their inductive
  invariant is `WellFormed`, the part of the argument that does not order the
  attempts of a run: attempts exist up to `active_attempt_no`, each lease has its
  token and its claim (`AttemptOK`), retries are within the budget, an open gate
  names an attempt. `Fenced` says of a step that claims keep their attempt and no
  token that is gone comes back. (`ClaimsNeverStarve` needs `RowsInv` with the state
  machine in charge and is immediate without it, where the claim checks
  less than the query.)
- `PausedRunsStayIdle`, with the service's own guards (`~Authoritative`): a pause asks
  for an attempt that is not in flight, while every step that puts one in flight
  asks for an operator state that is not paused.

**ExecutionLifecycle_proofs.** `ServiceImplementsTables`: under `DimsOf` every
operation is one trigger of the tables, a pause, a resume, or invisible. The
handlers and the tables were written apart; that the source states, operator
targets and attempt effects agree follows from `RowsOK`, with one lemma per
operation and one that lifts a step of one run to the function over all runs.
The pairs that `Coherent` excludes are needed here: on a row that combined, say, a
queued attempt with a terminal operator state the handlers would do what no
trigger declares.

**OperatorControls_proofs.** `ControlsAreAccepted`: the page's conditions, read on
rows that satisfy `RowsOK`, imply the guards of the service. They are not the same
conditions, so that the implication is about reachable rows only.

**BackgroundResponses_proofs.** Everything here holds in either mode: the steps are
those of `UndecidedNext` (`Next` without decisions), which keep `RowsInv` by
`UndecidedStepOK`.

- `CyclesRefineExecution`: every step of the API, a worker or an operator is a
  step of `ExecutionTransitions` or leaves `db` alone. `ResponsesTypeCorrect`
  comes first, because a worker's attempt and token must be known to be ones the
  service can be called with. `BackgroundRunsStayInOrder`: the invariants of the
  service that its own guards lose to late decisions hold here in both modes.
- `DispatchedOnce`: with any number of workers and any faults an attempt is
  dispatched at most once. The inductive invariant `DispatchOK` says that a
  worker about to call the provider works on an attempt that has begun (it has
  left `queued` and `retry_backoff` and will not return to them on a background
  run), that no call was made for it yet, and that no other worker is about to
  call for it. It rests on `RowsInv` and on the refinement.
- `FailuresAreRecorded`: with any number of workers and any faults. `ReportsOK`
  says of every response row, and of every cycle about to write one, that the
  attempt it will call failed has failed in the tables; both facts are for good
  (`RecordsStay`), so that it does not matter how late the row is written.
- `SuccessHasItsAnswer`: for one worker process (`OneWorker`: the set `Workers` has
  at most one member). `AnswersOK` follows the answer through the cycle: a cycle
  at `delivered` has stored the answer of its attempt, no other cycle exists that
  could overwrite it, and no operator succeeds a run.
- `CompletedStaysFinal`: for one worker process whose own calls do not raise
  (`"error" \notin Faults`; crashes, refused transitions and failures of the provider
  remain). `FinalOK` says that a cycle on a run whose response is completed either
  works on a later attempt or has stored that answer itself, and then its only way
  to fail is that its token was taken, with which it can record no failure.

**AdminSession_proofs.** `LeftoversOnly`: for any accounts, tokens, resets and acts, a
session that was signed in with a temporary password opens the control plane only
on the report of another session. The shell shows reports that were made earlier,
so the inductive invariant `SessionInv` follows them from the server into the
cache. `RestrictionsHold`: a session in `restricted` belongs to an account whose
password is temporary, so that the server reports it as locked. `SessionsKnown`: the
reports in the cache and under way, and those a call carries, are about sessions
that were issued, so that a new token is never the one of an old report.
`ReportsUnlockSpent`: a report that unlocks, in the cache or in the answer of the
check under way, is about a session that is not in `restricted` or whose token the
tab no longer stores; neither comes back, since a reset restricts later sign-ins
only and every sign-in has a new token. `RotationsUnlockSpent`: the gate goes on
without an answer only for such a session. One lemma covers each group of steps:
the cache, the person, the calls, the router. `SessionTypeCorrect` is the type.

**BrowserTab_proofs.** The five theorems about a tab follow from one invariant,
`TabInv`: the session's types, and for a tab that shows a record page `PageInv`.
Its parts are what the pages' hand-written clean-ups amount to:

- `LoadsFit`: a load under way was started for the address of the moment, as far
  as the page loads anew for it.
- `StatesEnd`: a state is `loading` only while its load is under way, on the pages
  that end it.
- `ShowsNamed`: the page shows nothing, or the record the address names, or it is
  loading that record, on the pages that replace their record.
- `Selects`: once the list is loaded, the selection is what the page makes of it,
  or a navigation elsewhere is under way. A person who opens the address the page
  is at supersedes that navigation; hence `reopened`.
- `OpensLink`: while a page is left alone and its link names a record that exists,
  it is at the address it was opened with, and no navigation leads elsewhere.

`TabTypeCorrect`, `PagesShowTheSelected`, `LoadingEnds`, `SelectionsAreListed` and
`LinksAreFollowed` are the consequences. `OnlyLeftoversSkipRotation` is proved for the
session by itself (`Spec` of `AdminSession`); the run `BrowserTab` checks it beside the
pages, none of whose steps writes the session.

**SettingsEditor_proofs.** `SettingsTypeOK` and `HighRiskIsConfirmed`: for any
settings and values, every call that changes a setting of high risk carries the
dialog that was confirmed for this setting and action. The two are proved
together, because it is the type of requests and dialogs that ties an answer or
a dialog to its setting. `DraftsAreWhatWasTyped`: every answer replaces shown
value and draft at once.

**Consoles_proofs.** A step of one console leaves the variables of the others alone
(`ConsolesInv` has one part per console), so that each is proved by itself:

- Approvals: `PanelFits` (a record that can be decided is that of the selected row and
  of the open confirmation) gives `DecisionsAreConfirmed`. `QueueFits` (the queue
  lists nothing as open that is known to be decided, or a load that was not yet
  read after the decision, or its trigger, is on its way) gives
  `DecidedStaysDecided`.
- Security: `DraftFits` (a draft that differs from the role shown was chosen for this
  very user) gives `ProfilesCarryTheChoice`; `ScopesFit` gives
  `ScopesFollowTheSelection`; `ScopesCurrent` with the counting of changes
  (`ScopesCounted`) gives `ScopesAreCurrent`.
- Recovery: `RestoresFit` (a restore that proved the identity has validated its
  source). `ReadyClassesAreProven` and `RecoveryAgrees` are then statements about
  the two derivations, proved by following what one needs of the other: a policy
  that is not ok shows in one of its rows.
- Setup: the type of facts and dashboard is enough. `SetupAlwaysLeads` goes through
  the first item of attention and the first open step, which exist because ranks
  are numbers (`LeastBy`); `LiveIsComplete` unfolds what "live" needs.

`ConsolesTypeCorrect` collects the types.

Only model-checked: the liveness properties `QueuedRunsAreClaimed`,
`AcceptedIsAnswered` and `ComesToRest`, since liveness under fairness and `ENABLED`
are out of the prover's reach, as are induction over recursive data and RECURSIVE
operators (the modules declare none). The five properties of section 4 are false.

## 6. Not modelled, and what could follow

Most lines of the frontend are rendering, forms, wording and formatting, which no
property is about. Of its logic these parts are left out:

- The register pages (accounts, API keys, provider targets, models, routing, and
  `useProvidersControlPlane` behind providers, harness and OAuth) load without a
  guard, with the instance of the rendering that made the call, so that what they
  show after overlapping loads is whichever answer came last; a property could
  only restate this.
- Health, ingress, usage, logs, errors, costs, dispatch and queues read and refresh.
- The UX review panel, the design system and the release validation are tools of
  the developers.

Of the backend: the record-keeping services, dispatch, routing, HTTP, telemetry,
migrations and provider adapters, for the reasons in `PROJECT.json`.

Left out of the parts that are modelled: other tabs of the browser, a second call
of the session's forms while one is in flight, rotations of secrets, the page's own
list of sessions, upgrade reports, command
rows and their idempotency keys, the arithmetic of the backoff, and the
interleaving of two transactions inside one operation of the service (its
operations are atomic here).

What could follow:

1. `RunCommands`: command rows and their idempotency (`admit_create`'s insert
   race, the keys the administration derives, replay).
2. `RunTransactions`: the operations of `ExecutionRows` split into read and
   write under READ COMMITTED, with the claim's compare-and-set and
   `SKIP LOCKED`, to say which guarantees survive without row locks.
3. The decision of a shared approval record and of its run as two transactions,
   composed with `ApprovalsConsole` and `ExecutionTransitions`; request
   idempotency.
4. Two tabs that share the stored token.
5. Proofs: what several workers still guarantee about a stored answer; the controls
   the page offers with the service's own guards in charge, which needs the operator
   states that go with each state of an attempt.

