# Reality Layer: a verification development in TLA+

This directory holds TLA+ models of Reality Layer, the TLC configurations that
check them on small instances, and proofs that the TLA+ proof system (TLAPS)
checks for every instance. Paths below are relative to the repository's
`src/reality_layer/` unless they name another directory.

## 1. What the system is

Reality Layer compiles observations of orders and shipments, sent by connectors
(Shopify, EasyPost, manual), into a per-tenant *World State* with a
hash-chained commit log, and lets agents *propose* actions on it. An action is
judged by a policy, approved by a person, executed once against the provider
and *verified* by reading the order back. Everything is recorded in an
append-only event log per action.

| component | state | operations | talks to |
|---|---|---|---|
| `actions/service.py` ActionService | `_actions`, `_idempotency`, `_events`, `_executions` | propose, approve, reject, execute, verify, proof, restore | policy (call), provider (callback passed to execute), World State (passed in) |
| `actions/policy.py` | none | evaluate_policy | – |
| `actions/persistence.py` | table `action_event` | persist, list_for_action, list_for_tenant | database session |
| `world_state/service.py` WorldStateService | `_observations`, `_states`, `_commits`, `_latest_commit`, `_open_conflicts`, `_conflicts_by_id` | ingest, resolve_conflict, hydrate, hydrate_conflict, lists | – |
| `world_state/persistence.py` | tables for projections, commits, conflicts | persist, load_state, persist_conflict, ... | database session |
| `api/app.py` | one instance of each service per process | the HTTP handlers; restore before and persist after each | everything above |
| `worker/verifier.py`, `worker/main.py` | its own ActionService and WorldStateService | run_forever, run_once, verify_action (bounded polling), restart | provider reads, database |
| `connectors/shopify.py` | cancelled orders | cancel_order, read_order, normalize | – |
| `connectors/onboarding.py` | none | check_connector, preflight_demo | provider reads, workspaces |
| `workspaces.py` | workspace row, connector checks | initialize, set_mode, policy, has_capability | database |
| `cli.py` | none | init, workspace, connect, preflight, observe, verify | database, connectors, worker |
| `reality_git/` | none | hashing, chain validation | – |
| HTTP clients, object store, MCP, rehearsal, dashboard | – | I/O around the services | HTTP, files |

### Where it is hard

* **Threads.** The API's handlers are synchronous, so one ActionService is
  called by a pool of threads. `execute` calls the provider between its checks
  and its writes.
* **Processes.** The API and the worker each hold their own copy of the actions
  and the World State over one database; each restores before a request and
  persists after it, and neither locks a row.
* **Order of events.** Observations of several connectors, approvals, provider
  answers and verification reads come in any order, late or twice.
* **Crashes.** A process may stop between the provider call and the write that
  records it, or roll back a transaction whose effects are already in memory.
* **Time.** The verifier polls with bounded attempts and a deadline; reads and
  transactions take time of that budget.
* **Failure without a handler.** The verifier catches no exception: one order
  that cannot be read ends the sweep, and the process, for all actions.
* **Two truths.** An action is judged by the World State after the read-back was
  compiled into it, and there other sources may outweigh what was read.
* **Two readings of one payload.** The preflight and the connector's normaliser
  each look for an order's status, in opposite orders.

### What makes each component correct

* ActionService: no provider write without policy and approval; one action and
  one accepted write per tenant and idempotency key; refusals and verdicts are
  final; log, status, receipts and proof bundle tell one story.
* Policy: the decision is a property of the arguments, not of the order of the
  rules; tightening the workspace never grants.
* WorldStateService: one unbroken commit chain that replays to the states;
  duplicates commit once; a fresh value is never silently overwritten; the
  conflict index is exact; resolutions are final.
* Persistence and API: what was decided survives a restart; two processes do
  not contradict one another; the stored chain stays one chain.
* Verifier: an accepted action is settled, within its attempts and its time; a
  verdict is stored before anything else happens.
* The loop of all of them: an approval rests on what the proposer saw, a
  verdict on a commit that shows it, and a reading that is overruled is on record.
* Preflight: an order it lets through can be observed and cancelled.

`PROJECT.json` lists the hazards of the code, each at its line with the
properties that watch it.

## 2. Modules

| module | models | how |
|---|---|---|
| `ActionRules` | `policy.py`, and the decisions inside `actions/service.py` | pure operators: policy, preconditions, eligibility, verdict, status of an event |
| `ActionService` | `actions/service.py`, in one process | dictionaries as functions; one action per method; `execute` split at the provider call |
| `ActionContract` | what the gateway promises | abstract machine of phases, intents and written intents |
| `ActionRefinement` | – | the mapping under which ActionService implements ActionContract |
| `MCActionService` | – | contexts and symmetries for TLC |
| `ActionServiceProofs` | – | theorems about ActionService |
| `Preflight` | `connectors/onboarding.py`, and `normalize` of `connectors/shopify.py` | pure operators on payloads |
| `DecisionChecks` | the calls of `evaluate_policy` and `preflight_demo` | a state is one call; steps make its facts worse |
| `DecisionProofs` | – | theorems about DecisionChecks |
| `WorldStateRules` | `world_state/service.py` | the memory of a service for one tenant as a record; ingest and resolve_conflict as operators on it |
| `WorldState` | `world_state/service.py`, in memory | one service, any observation, any resolution |
| `MCWorldState` | – | symmetry for TLC |
| `WorldStateProofs` | – | theorems about WorldState |
| `DurableActions` | `actions/persistence.py`, the action handlers of `api/app.py`, the sweep of `worker/verifier.py` | several ActionServices over one table `action_event`; query, restore, work, insert as separate steps |
| `MCDurableActions` | – | which thread belongs to which process |
| `DurableProofs` | – | theorems about DurableActions |
| `Compiler` | `world_state/persistence.py`, `connectors/persistence.py`, the observation, conflict and verification handlers of `api/app.py`, `_compile_with_persistence`, `observe --persist` of `cli.py` | several WorldStateServices over four tables; a request and its commit or rollback as separate steps |
| `MCCompiler` | – | the observations that sources deliver |
| `CompilerProofs` | – | theorems about Compiler |
| `Workspaces` | `workspaces.py`, `connectors/onboarding.py`, the commands of `cli.py` and the handlers of `api/app.py` that use them | rows of several tenants; a command and its transaction as separate steps; the requests that read the rows |
| `MCWorkspaces` | – | symmetries for TLC |
| `WorkspacesProofs` | – | theorems about Workspaces |
| `Verifier` | `worker/verifier.py`, `worker/main.py` | one worker over the statuses of a list of actions, with time in ticks, failures and restarts |
| `MCVerifier` | – | lists of actions and settings |
| `VerifierProofs` | – | theorems about Verifier |
| `ControlLoop` | `api/app.py` without persistence, with `connectors/shopify.py`, `actions/service.py` and `world_state/service.py` | composes `WorldStateRules` and `ActionRules` over one order, its provider and two readers |
| `MCControlLoop` | – | symmetry for TLC |
| `ControlLoopProofs` | – | theorems about ControlLoop |

### ActionService

`actions`, `idempotency`, `events` and `executions` are the four dictionaries
of the class. `inflight[th]` is the action whose provider call thread `th` is
waiting for; `world` is the World State's projection of each order, moved by an
environment action `Observe`; `calls` and `effects` are history: provider calls
started, cancellations the provider applied.

| action | code |
|---|---|
| `Propose` | `propose`; the early return for a known key changes nothing and is a stutter |
| `Approve`, `Reject` | `approve` with its three outcomes, `reject` |
| `ExecuteStart`, `ProviderAccepts`, `ProviderFails` | `execute` up to `cancel_order`, and after it; a failing call may or may not have been applied by a remote provider |
| `ExecuteIneligible` | `_require_eligible_test_order`, which logs and raises |
| `Verify` | `verify`, with either value of `is_final_attempt` |

A method other than `execute` neither waits nor calls out and is one step; the
model does not split one between two bytecodes. Event ids and hashes are
left out: an event's position in its log stands for both. An order's attributes
are its status and its fulfillment; `canceled` and `voided` are not told apart
from `closed`, as they are ineligible for a cancellation and do not count as
the expected outcome of one. `expected_attributes` is the order's status or
nothing.

### WorldState

`svc` is the memory of one service for one tenant. Every dictionary of the
service is keyed by tenant first and no entry of one tenant is read for
another, so one tenant is enough. A commit's id stands for its hash as well: the
hash covers the freshly minted id. `minted` counts ids. An attribute
keeps its value, connector and freshness; timestamps and confidence are left
out, as no decision of `ingest` or `resolve_conflict` reads them. Freshness is
computed from the payload's age when it is projected and never again, which is
what the model does: an observation carries it. Of the observation ids
of an attribute the last is kept, the only one the service reads. A candidate
has the id of its observation, and a commit has its causes: the one observation
it was made for, or the conflict it resolves with the observations of the
candidates that upheld the value (of all candidates when none did). So an
observation can be named by several commits, and `CausesCommitOnce` counts
commits by what they were made for. A conflict is named by the observation and
attribute that opened it.

An attribute's connector may be absent, and then nothing disputes it: such
attributes come from `observe --persist`. A source may bear any name, `operator`
too: `Connectors` and `Operator` may overlap, and in `world_state` they do. What
such a source sends replaces what an operator decided without a conflict, since
the service cannot tell them apart (`WorldStatePinned.cfg`, section 3).
`FreshValuesAreNotOverwritten` therefore speaks of the connector's name.

### DurableActions

`table` is `action_event` in the order of insertion, `mem[p]` the ActionService
of process `p`, `thread[th]` the place of a request or sweep in its handler,
`effects` a history of what the provider applied. Every handler has one shape:

1. `Load` and `RestoreRow`: the query, then `restore` for one row after the
   other. A row that the process already knows changes nothing, so only news
   are listed. The query has no ORDER BY: with `InOrder` rows arrive as they
   were inserted, without it in any order.
2. `Propose`, `Approve`, `Reject`, `ExecuteStart` with `ProviderAccepts` or
   `ProviderFails`, `ExecuteIneligible`, `Verify`: the method in memory.
   `Repeat` is a call that finds its work done and saves again; `Finish` one
   that only reads or is refused.
3. `Save` inserts the events of the action that are not stored; `SaveFails`
   rolls back and leaves the memory as it is. The worker's sweep goes on to its
   next action without another query.

`Crash` empties a process at any point. An event's identity stands for its
hash, and `prev` for the hash link. World State is left out: each verdict that
depends on it may be any. What ActionService checks in detail, one process at a
time, is not repeated here. Threads of one process interleave between these
steps, not between two bytecodes of one method.

### Compiler

`observation_log`, `state_projection`, `commit_log` and `conflict_table` are the
tables of one tenant, `mem[p]` the WorldStateService of process `p` (a record
of `WorldStateRules`), `tx[p]` what its open transaction will write.

| action | code |
|---|---|
| `ApiIngest` | `ingest_observation`, with the answer from the table for a known id |
| `ApiVerify` | the World State part of `verify_action`: neither hydrates nor stores conflicts |
| `ApiResolve` | `resolve_conflict` for an open, stored conflict |
| `ApiLook` | `resolve_order_state`, which hydrates without a hash |
| `WorkerRead` | `_ingest_verification_read` and `_compile_with_persistence` |
| `ObserveCommand` | `cli.py observe --persist`, with one payload per batch: an empty service of its own, which takes the stored attributes over without their connectors, disputes nothing and stores them without connectors; no conflict stored |
| `Store`, `Rollback` | the end of the transaction; a refused verification rolls back too |
| `Restart` | a process starts with an empty service |

A process serves one request at a time here. `ingest` raises `KeyError` when
the head of its history is not in memory; `Interrupted` is what it has changed
by then. A transaction's writes are computed from what was read at its start
and overwrite projections and conflicts as they are, since no row is locked and
no version compared. Two transactions that insert the same projection for the
first time may also fail on its unique constraint, which is a `Rollback`.

### Workspaces

`workspaces` holds the rows, each with its tenant, the start of the transaction
that inserted it (`created_at`) and its *settings*: the mode and, per connector,
the outcome of the last recorded check, which decides the read and write
capability. `command[o]` is what operator `o` runs, `request[r]` a request for an
action that has read a workspace and not yet acted on it.

| action | code |
|---|---|
| `InitializeBegin`, `InitializeCommit` | `initialize`: the query, then the insert, which may meet the primary key of another row |
| `SetModeBegin`, `Write` | `set_mode` from `cli.py workspace` or `POST /v1/workspace/mode` |
| `CheckConnectors`, `RecordChecksBegin`, `RecordChecksFails`, `Write` | `cli.py connect` and `preflight`: the checks, then `record_connector_checks` in one transaction |
| `ProposeBegin`, `Propose` | `propose_action`: the policy of the workspace, then the decision |
| `ExecuteBegin`, `Execute` | `execute_action`: the capability, then the call |
| `Approve`, `Restart` | an approval or a rejection; the API process starts anew |

`asked` is a history: for every setting the value of the last command, the
values of commands that overlap since, and all values ever asked for.
`SettingsAreAsRequested` reads each setting as a register that several writers
share. Whether the amount of an order is in the memory of the process, whether
it has a conflict, and whether an approval succeeds may be any.

### Verifier

`table` is the status that the stored events of each action give, `memory` what
the worker's ActionService holds, `worker` the place in the loops: `phase`, the
places in `Proposed` still to be polled (`todo`), the attempt, the time since
`started`, the interval, and whether the last read was final. `order` is each
order at the provider. Time is counted in ticks; a read takes up to
`ReadTicks`, a transaction up to `SaveTicks`.

| action | code |
|---|---|
| `Sweep` | `pending_actions` (restore, then `pending_verifications`) at the top of `run_once` |
| `Read` | one attempt of `verify_action`: `_ingest_verification_read` and `verify`, with `is_final_attempt` from the attempt and the deadline |
| `ReadRaises` | the client raises for an order that is gone or has no status; nothing catches it and the process ends |
| `Save` | `_persist_events`, then the return, or the interval cut to what is left |
| `Sleep` | the pause, and the backoff of the interval |
| `Fault` | any call of the loop that fails once: it ends the process as well |
| `Restart` | `build_worker` in `main`, started by the platform |
| `Accept`, `Apply`, `BecomeUnreadable` | `execute_action` of the API; the provider |

A verdict follows the order read. That the World State may say otherwise is
`ControlLoop`, that the API may record a verdict at the same time
`DurableActions`, that the compilation may raise `Compiler`.

### ControlLoop

`svc` is a whole WorldStateService of `WorldStateRules`, `provider` the order at
Shopify, `view` what the agent saw last, `actions` each action with what its
proposer saw and the evidence of its verdict, `reading[r]` the read-back that
the API's handler or the worker is busy with.

| action | code |
|---|---|
| `Observe`, `ResolveConflict`, `Look` | the observation, conflict and order handlers |
| `Cancelled` | somebody else at Shopify, or an earlier write that arrives late |
| `Propose`, `Approve`, `Execute` | the action handlers, with the conflict gate, the expected version and status, and the eligibility test |
| `BeginRead`, `CompileRead`, `Judge` | `verify_action` of the API and `_ingest_verification_read` with `verify` of the worker: three calls, between which anything may happen |

All readings of the API have the id that `normalize` builds from the order, so
only the first is compiled; the worker mints one for each. What an agent can
know of an order is its status, its version and which disputes were decided.

### Preflight and DecisionChecks

`Preflight` translates `check_connector`, `preflight_demo` and
`ShopifyConnector.normalize` on the same payload. A field of a payload is
nothing, an empty string, another string or something that is no string.
`DecisionChecks` has every call of the policy and every preflight as an initial
state; a step makes its facts worse.

## 3. Runs

| run | instance | shows |
|---|---|---|
| `action_serial` | 1 action, 1 thread, versions to 3, 3 calls, logs to 7 | `AcceptedOnce`, `ProofBundleConsistent`, `ImplementsContract` |
| `action_threads` | 2 threads, 2 tenants that share a key and an order id, 2 actions | `EffectsAreAuthorized`, `StatusFollowsLog`, `ReceiptsMatchLog`, `OneActionPerKey` |
| `decisions` | every call of the policy with amounts to 2, every preflight | `PolicyMatchesReference`, `ReadyOrdersCanBeCancelled`, `TighteningNeverGrants` |
| `world_state` | 2 entities, 2 attributes, 2 values, 2 connectors of which one is called operator, 3 ids, 4 commits | `HistoryIsOneChain`, `StatesReplayHistory`, `CausesCommitOnce`, `OpenConflictsAreIndexed`, `FreshValuesAreNotOverwritten`, `ResolutionIsFinal` |
| `durable_log` | 2 request threads and the worker, 1 action, 5 events, failing inserts, crashes | `RowsFollowTheirPredecessor`, `CausesAreRecordedFirst`, `DecidesOnCommittedHistory`, `RefusedIsNeverAccepted` |
| `durable_serial` | 1 request at a time, the worker alone verifies, 2 action ids, 1 key, 7 events | `AcceptanceIsHonoured`, `OneRecordedActionPerKey`, `OneVerdict`, `SameEventsSameStatus` |
| `compiler_api` | 1 API process, 1 entity, 2 connectors, 2 values, 3 ids, 4 commits, restarts | `StoredHistoryReplays`, `CommitsAreTraceable`, `OpenConflictsAreStored`, `LoggedObservationsTakeEffect`, `FreshStoredValuesStay`, `StoredResolutionIsFinal` |
| `compiler_shared` | API, worker and a command, every handler, rollbacks and restarts, 3 commits | `ProjectionIsBackedByLog` |
| `workspaces` | 2 tenants, 2 workspaces, 2 operators that run init and set modes, one of which checks Shopify, 1 action | `SettingsAreAsRequested`, `EffectsAreGranted` |
| `verifier` | 3 actions, one of which may become unreadable, 4 settings, 2 failures | `BudgetIsKept`, `VerdictsAreStored`, `PollingEndsInVerdict`, `ReadableActionsAreSettled` (liveness) |
| `control_loop` | 1 order, 2 sources, 2 reports, 1 poll, 1 action, both readers | `ApprovalsRestOnWhatWasSeen`, `OverruledReadsAreOnRecord`, `ProofCommitShowsVerdict` |
| `compiler_chain` | 1 API process, 2 orders | violated: the stored chain forks |

Two configurations pass and are kept next to these runs. `CompilerTypes.cfg`
checks the types of the tables and `VersionCountsStoredCommits`, which are also
proved. `WorkspacesCommands.cfg` checks `TypeOK` and `SettingsAreAsRequested` with both
connectors and no requests, and passes. The other configurations in this
directory show where a property of the table stops holding, or a behaviour
worth knowing. Each violates its one property within seconds:

| configuration | module | property | what happens |
|---|---|---|---|
| `ActionServiceStale.cfg` | `MCActionService` | `ExecutesExpectedState` | the order moves after its approval: execution compares no version, against `docs/mvp-design.md:395` and `:400` |
| `ActionServiceOverlap.cfg` | `MCActionService` | `NoOverlappingExecution` | two threads wait for the provider under one key; the receipt is looked up, a call in flight is not |
| `ActionServiceLatestEvent.cfg` | `MCActionService` | `StatusIsLatestEvent` | an execution-stage failure is logged and leaves the action approved |
| `WorldStatePinned.cfg` | `MCWorldState` | `OpenConflictPinsValue` | a disputed value is replaced by its own source |
| `DurableCrash.cfg` | `MCDurableActions` | `EffectIsNotDuplicated` | a process that stops between the provider's answer and the insert calls again after its restart, against `docs/mvp-design.md:714` |
| `CompilerReadBack.cfg` | `MCCompiler` | `VerificationReadIsAnObservation` | the API's read-back has the id of an earlier reading |
| `CompilerWorkerConflict.cfg` | `MCCompiler` | `OpenConflictsAreStored` | a conflict that the worker's read opens is in no table, while `README.md:33-34` says conflicts "survive process restarts and are shared across workers" |
| `CompilerObserve.cfg` | `MCCompiler` | `FreshStoredValuesStay` | `observe --persist` replaces a fresh value of another connector without a conflict, against `world_state/models.py:66-73`: the attributes it rebuilds have no connector to dispute with, nor have those it stores |
| `WorkspacesInits.cfg` | `MCWorkspaces` | `CommandsAreNotLost` | two inits of one tenant: the later to commit began earlier, counts from then on, and the mode set in between is lost |
| `WorkspacesLimit.cfg` | `MCWorkspaces` | `LimitIsKept` | an amount that is not in memory passes any limit |
| `WorkspacesMode.cfg` | `MCWorkspaces` | `ModeIsRecheckedAtExecution` | executed after the mode went back to observe_only, against `docs/mvp-design.md:709` |
| `VerifierStarves.cfg` | `MCVerifier` | `AcceptedActionsAreSettled` | an order that cannot be read ends every sweep before the actions behind it, and uses up no attempt, while `worker/verifier.py:6-8` promises an end |
| `ControlLoopFalseVerdict.cfg` | `MCControlLoop` | `VerifiedMeansCancelled` | a fresh report of another source outweighs the order read back, and the action is verified; `docs/mvp-design.md:749-752` excludes a false `verified` |
| `ControlLoopConflict.cfg` | `MCControlLoop` | `NoWriteUnderConflict` | a conflict that opens after the proposal stops neither the approval nor the write, against `docs/mvp-design.md:709` |
| `DecisionChecksVisible.cfg` | `DecisionChecks` | `ReadyOrdersAreVisible` | an order without a string for an id passes the preflight and is refused by `normalize`, against `docs/demo-runbook.md:97`, `:200` and `:203` |
| `CompilerUnknownHead.cfg` | `MCCompiler` | `EveryObservationCompiles` | restart, one look at an order, and another order's first observation raises |

Others are a listed configuration with one constant changed and the property
named here as the only one:

| configuration | change | property | what happens |
|---|---|---|---|
| `WorldStatePinned.cfg` | `Connectors = {c1, Operator}` | `DecisionsStand` | a source that calls itself operator replaces what an operator has just decided, without a conflict; with `{c1, c2}` the property holds |
| `DurableSerial.cfg` | `InOrder = FALSE` | `AcceptanceIsHonoured` | rows in another order: an accepted action is executed again |
| `DurableSerial.cfg` | `Verifiers = {th1, sweep}` | `OneVerdict` | API and worker both record a verdict |
| `DurableLog.cfg` | a second API process (`MCTwoApis`) | `RefusedIsNeverAccepted` | rejected by one API process, executed by another |
| `CompilerApi.cfg` | `Workers = {worker}` | `StoredHistoryReplays` | API and worker commit from one starting point |
| `CompilerApi.cfg` | `Workers = {worker}` | `FreshStoredValuesStay` | a projection the worker read before an observation is stored over it |
| `CompilerApi.cfg` | `Apis = {api, api2}` | `StoredResolutionIsFinal` | two processes resolve one conflict, each having read it open |
| `CompilerApi.cfg` | `Failing = TRUE` | `LoggedObservationsTakeEffect` | a request repeated after a rollback is logged without effect |
| `CompilerApi.cfg` | `Failing = TRUE` | `CommitsAreTraceable` | a commit left in memory by a rollback is stored later, its observation is not |
| `CompilerApi.cfg` | `"verify"` among the `Handlers` | `CommitsAreTraceable` | a refused verification leaves a commit that is stored later |

**Bounds.** One action suffices for the lifecycle, since actions meet only at a
key (`action_threads`). A log of 7 holds every path through the lifecycle with
repeated verification attempts and failed executions; versions to 3 let an
order move twice after the proposal, before and after the approval (in
`action_threads` it does not move: its properties do not depend on the order). Two threads
are the smallest race on `execute`. In WorldState, three observations and four
commits allow a conflict to open, to be joined or resolved, and to open again;
of the two sources one is called operator, so that every property is about such a
source as well; a second entity makes the chain and the per-entity history
differ; two attributes let one observation be disputed in part. `MaxCalls`, `MaxVersion`,
`MaxEvents` and `MaxCommits` only stop repetition. In DurableActions, five
events are one more than a complete life (verdict of the policy, approval,
acceptance, verification) needs, and seven leave room for failed executions,
repeated polls and a second proposal after a crash; two request threads and a sweep are the smallest
set in which a request, another request and the worker meet. In Workspaces, two
operators are the smallest overlap of commands, two workspaces the smallest
choice of a primary one and the smallest clash of identifiers between tenants;
`MaxTime` bounds the calls of init that get as far as an insert. Requests only
read the rows, so one of them meets every state the commands can leave. In
Compiler a command observes one payload: a batch of several is one transaction,
in which the second begins from what the first has left in it.
In Verifier, three actions put one before and one behind the unreadable order;
the settings are the defaults scaled down (3 attempts, 5 ticks, backoff 2, at
most 3) and the corners: no attempts, no time, more attempts than time holds
with a factor of 1. Reads of up to 2 ticks and transactions of up to 1 let the
deadline pass in either; two failures (`MaxFaults`) are one in a sweep and one
in the sweep that repeats it. In ControlLoop, two reports are the fewest that
can open a conflict or move a status away and back, and with the API's reading
and the worker's poll four readings may meet; one action suffices, since
actions on an order meet only in the World State.

**Deployments.** Which properties hold depends on who runs. The passing runs of
DurableActions assume one API process; `durable_serial` also that requests do
not overlap and that only the worker verifies, and all that the database
returns rows in the order of their insertion, which no statement asks of it. `compiler_api`
assumes no worker, no command, no failing transaction and no verification through
the API.
The violated runs and the further configurations drop these assumptions one by
one and show what each is needed for.

**Deadlock** is not checked: a service with no request pending rests.

**Fairness.** Only `Verifier` assumes any: `WF_vars(WorkerStep)`, weak fairness
of the worker's own steps. `run_forever` loops with `while True`, takes no lock
and waits for nobody but the clock and calls with timeouts, so a step that
stays possible is taken. `Restart` is among these steps: the worker has no
handler, and that it comes back is the platform's doing. The repository sets no
restart policy for it (the one of `railway.toml:18-19` is the API's, and gives
up after three), so the property is about a platform that restarts. That
failures end is the bound `MaxFaults`: with a failure in every sweep nothing could be promised.
Nothing is assumed of the API or the provider: a person may never approve, a
provider may never apply what it accepted, and `ReadableActionsAreSettled` then
still demands a verdict for what was accepted. All other modules have safety
properties only.

**Disagreements with the documentation.** The violated run checks a sentence of
`docs/mvp-design.md` that the code does not implement; `PROJECT.json` quotes it
and names the line of the code. The table above names the lines for the others.

## 4. Proofs

`ActionServiceProofs` proves, for any tenants, ids, keys, orders, threads and
contexts, `InvHolds: Spec => []Inv`. `Inv` joins the type invariant with: the
index of keys points at the one action of each key and only at stored actions;
the log of a stored action starts with the policy verdict and its last event
carries the status; the log's acceptance events, receipts and `effects` agree;
an action in flight or accepted has an approval by its required role after the
verdict and no refusal; and every status restricts which events the log may
hold. None of the checked invariants is inductive alone: `EffectsAreAuthorized`,
for instance, needs to know that `approved` is only ever the status of an
action whose log shows the approval, and `ReceiptsMatchLog` that two actions
never share a key. Each theorem below then follows from `Inv`: `TypeCorrect`,
`OnlyAuthorizedEffects`, `LogExplainsStatus`, `KeysAreIdempotent`,
`ReceiptsAgree`, `RefusalHolds`. They hold with any number of threads.

`WorldStateProofs` proves the same for the compiler. `Inv` joins the types with
the chain (commit `c` has parent `c - 1`), the replay of each entity, the causes
of commits (`CausesArePast`: the observation of a commit has been seen, the
conflict of a commit is resolved, so neither can cause another), the exactness
of the conflict index, and the connectors of the stored attributes
(`StatesAreSourced`: in a service that hydrates nothing none is absent). It
yields `TypeCorrect`, `ChainHolds`, `ReplayHolds`, `OnceHolds`, `IndexHolds`,
and the action properties `ResolutionHolds` and `NoSilentOverwrite`. Nothing is
assumed of the names of connectors.

`VerifierProofs` proves the worker's safety for any list of actions, any
settings and any length of reads and transactions. `BudgetIsKept` is not
inductive: that the next attempt is within the budget follows from what was left
of it when the pause was cut. `Inv` therefore says what each phase may count on
(before a read an attempt is left, and time but for one transaction; a read
that was not final left both; a pause ends in time), that a final read gave a
verdict, and that memory follows the table but for the verdict in hand and an
approval that may have become an acceptance. From it follow `TypeCorrect`,
`BudgetHolds`, `VerdictsHold` and the action property `PollingHolds`.

`DecisionProofs` proves `PolicyHolds`, `TighteningHolds` and `CancellableHolds`:
for every value and limit, evaluate_policy is the order-free statement of it,
worse facts never grant, and what passes the preflight can be cancelled. The
invariant is only that a state is a call; the work is in the lemmas about the
operators (`PolicyGrants`, `ReadyMeans`, `OrderIsJudged`).

### One executor at a time

The code does not exclude two executions of one action
(`ActionServiceOverlap.cfg`). The second part of `ActionServiceProofs` proves
what depends on that, with `[]NoOverlappingExecution` as the hypothesis and any
number of threads: different actions may be executed at once. `SerialInv` adds to `Inv`
that an action whose call is pending is still approved, and that its log holds
one acceptance at most and verification events only behind it. `ExecutesOnce`
and `BundlesAreConsistent` follow, and `KeepsContract`: under the mapping of
`ActionRefinement` the initial states are those of `ActionContract` and each
step is one of its steps or a stutter. `OneExecutorNeverOverlaps` discharges the
hypothesis for a single executor thread, which is the instance of `action_serial`.

`VersionsCount`, in `WorldStateProofs`, is the fact an expected version rests
on: an entity's version is the number of its commits.

### The stored actions

`DurableProofs` has four invariants, each on top of the last.

* `Inv` holds in every deployment: any processes, crashes, failing inserts, rows
  in any order. None of the properties is inductive. That a row's cause is
  in an earlier row follows from the order of the log it was copied from, and
  that order from what the status of an action, its keys and its receipts say of
  that log. Also, whatever two places hold under one event identifier is one
  event, so that a row another process inserted can stand in for one's own.
  It gives `TypesHold`, `PredecessorsAreStored` and `CausesComeFirst`.
* `OrderInv` assumes that rows arrive as they were inserted (`InOrder`). Then
  `restore` drops none, so a handler that is ready knows every row up to where its
  query ended: `HistoryIsRead`, `AcceptancesAreHonoured`. With
  `InOrder = FALSE` TLC refutes the second.
* `OneApiInv` also assumes that the API threads share one process; workers may be
  many. Then all that others add are verdicts, the API process knows every
  decision when one of its threads decides, and no two decisions contradict each other:
  `RefusalsStand`, `KeysHaveOneAction`. A second API process breaks this
  (`MCTwoApis`, above).
* `SerialInv` is about the deployment of `durable_serial`: the API also serves one
  request at a time (`OneRequest`), and one process verifies, whether the API or a
  worker (`OneVerifyingProcess`). There may be any number of worker processes,
  actions and keys. The events of an action then have ranks
  (policy, decision, acceptance, polling, verdict) and come in their order in
  the table and in every log; a decision of the lifecycle, an acceptance and a
  verdict occur once (`EventsInOrder`). Two logs of one action may still differ, so the
  invariant says by how much: what a process has not saved comes after all rows
  (`UnsavedFollow`), and rows it does not know come after all it knows
  (`UnknownFollow`). These two need to know who can be ahead of whom: the
  verifying process knows every verdict once it is past its query,
  the others make none, and a call under way is for an action that nobody
  knows as accepted (`CallIsFirst`). A status is that of the last event, but for
  refused executions (`Current`). TLC checked each part on small instances
  before the proof. `VerdictsAreUnique` and `SameEventsSameAnswer` follow. With a
  second verifying process TLC refutes `OneVerdict` (above).

### The stored World State

`CompilerProofs` also goes from what holds everywhere to what holds in a quiet
deployment.

* `Inv` holds in every deployment. A memory may be ahead of the tables, after a rollback,
  or behind them; but a state in memory is a stored commit's, or the
  commit that made it is in memory too; commit ids that two processes both hold
  are stored; and a conflict's name tells its entity and attribute. Hence
  `TypesHold` and `ProjectionsAreBacked`.
* `QuietInv` assumes that no transaction fails and that the API only ingests and
  resolves; API processes, workers and commands may be any. Memory is then behind
  the tables, never ahead of them: seen ids, states and conflicts are stored or in
  the open transaction, and the head of the history is in memory, so that no
  `KeyError` interrupts. The observations that a memory or a transaction speaks of,
  in commits, candidates and attributes, are logged or in that transaction.
  The candidates and attributes are in it because a resolution takes its
  observations from the candidates, and a candidate from an attribute that an
  earlier request stored.
  `CommitsTrace` follows, for the commits of resolutions as for the others. Both
  hypotheses are needed: a rollback, or a refused verification, leaves a commit in
  memory whose observation is not logged. `OpenConflictsStored` also excludes
  workers: a worker's read opens conflicts that it does not store
  (`CompilerWorkerConflict.cfg`).
* `SoleInv` assumes one API process and nothing else, which may restart at any
  point; these are the constants of `compiler_api`, with any number of entities,
  attributes, values, connectors and observations. A pending commit starts
  from the stored values of its entity, the last row of an entity is what
  its projection shows, and a transaction leaves resolved rows as they are.
  `HistoryReplays` and `StoredVersionsCount` follow, and the action properties
  `ResolutionsAreFinal`, `ObservationsTakeEffect` and `FreshValuesStay`. With a
  second writer the read-modify-write of a projection loses commits; a command
  replaces fresh values (`CompilerObserve.cfg`).

### Workspaces

`WorkspacesProofs` proves `TypesHold` and two invariants for any number of
tenants, operators and requests. `GrantInv` (`OnlyGrantedEffects`): what rows, pending
values, requests and actions hold beyond the defaults was once asked for by
operators of the same tenant. `SettingsInv` (`SettingsHold`): a setting is
explained by what was asked for, and each command about to write overwrites
what it saw, or what commands that overlap it wrote. It rests on the creation
times of rows and running inits being distinct, so that a tenant's primary
workspace is unique; a tenant's rows are finitely many since their times are
bounded, though identifiers need not be.

### The loop

`ControlLoopProofs` proves `TypesHold`, `OverruledReadsStayOnRecord`,
`ProofCommitsShowTheVerdict` and the action property `ApprovalsRestOnTheSight`
for any number of actions, reports, polls and sources. Each relates an action to the
World State of an earlier moment. They hold because of what any step
of the World State keeps (`WorldKept`): commits are never rewritten,
candidates never taken away, and every change of the status and every resolution
moves the version. The invariant says, for each sight, reading in progress and
verdict, what of it is still true.

### Assumptions and limits

The assumptions on constants are the named `ASSUME`s of the modules proved about: bounds are
natural numbers, contexts and settings are well formed, the absent value is none
of the values it stands in for, the threads of DurableActions are finitely many
and each is the API's or a worker's, and all observations with one id are about one
entity. Hypotheses on the
deployment are in the statements of the theorems, as listed above.

**Only model-checked:**

* liveness (`ReadableActionsAreSettled`), which is out of the prover's reach;
* the violations, which are counterexamples.

Every safety property of the passing runs is stated by a theorem.

## 5. Plan

1. *Done:* the models, and theorems about every module with a state.
2. *Done:* a theorem about every safety property of the passing runs.
3. `LimitIsKept` of Workspaces for actions whose amount is in memory, and what
   `CommandsAreNotLost` needs (one init per tenant).
4. `OpenConflictsStored` with workers that only read undisputed orders.

## 6. Not modelled

* **Rehearsal and demo** (`rehearsal.py`, `demo.py`) drive the services once from
  start to end; each run is one behaviour of `ControlLoop`, with the rehearsal's
  provider faults among the outcomes of `Execute` and `BeginRead`.
* **MCP façade** (`mcp.py`, `mcp_server.py`): translates tools to HTTP requests
  and keeps nothing.
* **Hashing** (`reality_git/`): an identity stands for a hash; that a chain
  validates is a property of the commits (`HistoryIsOneChain`,
  `CommitChainValidates`).
* **Object store, database schema, sessions and migrations, dashboard, HTTP
  clients, the EasyPost payload**: I/O and presentation around the components
  above. The tables that carry behaviour are variables.
* **The commands of the CLI and the handlers that only print or list.**
* **Ageing**: freshness is computed when a value arrives and never again, in the
  code as in the models.
