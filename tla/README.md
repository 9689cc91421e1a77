# Durable agent runtime: TLA+ verification project

This directory holds TLA+ models of the durable agent runtime, the TLC
configurations that check them on small instances, and proofs, checked by TLAPS,
of the results that should hold for every size. Paths below are relative to the
repository root.

## The system

A tenant registers workflow definitions and creates runs through an HTTP API. A
run is a row in Postgres. A transactional outbox and a publisher turn it into a
JetStream message, and a worker claims the run under a lease and executes its
steps one after the other. Steps that need an approval park the run until an
operator approves it, which queues it again.

| Component | State it keeps | Operations | Source |
| --- | --- | --- | --- |
| Contract | none | run states, transition table, workflow schema | `packages/contracts/src/index.ts` |
| Control plane API | requests in flight | authenticate, register, create, read, approve, cancel, list audit records, consume credential | `services/control-plane/src/app.ts`, `server.ts` |
| Postgres store | `workflow_runs`, `run_events`, `run_step_results`, `effect_commits`, `workflow_outbox`, `tenant_runtime_limits`, `workflow_definitions`, `audit_records`, `api_keys`, `principals` | `bootstrap`, `authenticate`, `createWorkflow`, `createRun`, `readRun`, `transition`, `listAudit`, `claimRunLease`, `claimPendingOutbox`, `markOutboxPublished` | `services/control-plane/src/postgres-store.ts`, `db/migrations` |
| In-memory store | maps of the process | the same, without workers and quotas | `services/control-plane/src/store.ts` |
| Credential broker | an in-memory map of handles, five minutes to live | `issue`, `consume`, `discard`, `purge` | `credential-broker.ts` |
| Outbox publisher | the batch in hand | claim, publish, mark, every 250 ms | `outbox-publisher.ts`, `publish.ts` |
| JetStream (external) | stream and durable consumer | deliver, ack, nak, AckWait of two minutes | configured in `services/worker/main.go` |
| Worker pool | iterator, jobs channel, drain | receive, SIGTERM, drain, cancel | `main` in `services/worker/main.go` |
| Worker | goroutines that each hold a message | `process`, `claim`, `execute`, `recordStep`, `awaitApproval`, `fail`, `uncertain` | `services/worker/main.go` |
| Effect ledger | rows of `effect_commits` | insert unless present | `executeTool`, `services/worker/internal/effects` |
| Console | the last answer | poll, approve, cancel | `apps/console/src/App.tsx` |

How they interact: `createRun` and an approval insert the outbox row in the
transaction that queues the run. The publisher copies rows to the stream and
then marks them. The worker's claim, and every statement after it, writes the
run's row directly, outside the store's `transition`. The worker asks the
control plane for the credential of a run over HTTP.

What is hard here, and what correctness means:

- **Execution** has several handlers on one run, leases that run out under a live
  handler, and updates that name nothing but the run's id. Effects must be
  committed once and only behind their approval; evidence must be backed; a run
  must not run ahead of its evidence; decisions of operators must hold.
- **Delivery** is at least once across three systems, each of which can stop
  between any two steps. A run that needs a worker must have a message, and come
  to rest.
- **Shutdown** stops a process with messages in three places. Nothing it accepted
  may be left unsettled, no run may be lost, and it must end although handlers
  hang.
- **Access** outlives the process in one store and not in the other, while keys
  are seeded at every start and revoked in between. Tenants must stay apart, and
  the audit log must tell all that requests changed.
- **Creation** is concurrent with itself. One run per key, quotas, and no
  credential lost or left behind.

`PROJECT.json` lists every component, also those that are not modelled, and the
hazards with the line at which each bites.

## Modules

| Module | What it models |
| --- | --- |
| `Contracts` | Run states, `allowedTransitions`, the workflow schema. |
| `EffectLedger` | Abstract specification: each key inserted at most once, a gated key only after its grant. |
| `RunExecution` | One run: its row, its evidence, the handlers that execute it, the requests that approve and cancel it. |
| `Outbox` | Outbox rows, publishers and the stream. |
| `Runtime` | `RunExecution` and `Outbox` composed with the JetStream consumer. |
| `CredentialBroker` | The broker's map, as operators and actions that `RunCreation` uses. |
| `RunCreation` | Concurrent `POST /v1/runs` of one tenant with the broker. |
| `WorkerPool` | Worker processes around their handlers: iterator, jobs channel, goroutines, SIGTERM, drain, kill, restart. |
| `RunStore` | Abstract specification of both stores: workflows and runs of a tenant, one run per key and tenant, decisions by the table, each change with its one audit record. |
| `ControlPlane` | The API over either store: keys, roles, tenants, workflows, runs, audit log, and the process with its bootstrap. |
| `Console` | The operator's page, with the control plane and the workers as its environment. |
| `MC...` | Instances for TLC: definitions and symmetry. |
| `RunExecutionProofs`, `RunLeaseProofs` | The proofs about `RunExecution`: what holds whatever the leases do, and what a lease adds. |
| `OutboxProofs`, `RuntimeProofs`, `RunCreationProofs`, `WorkerPoolProofs`, `ControlPlaneProofs`, `ConsoleProofs` | The proofs about the module of that name. |

### RunExecution

The variables `state`, `current_step`, `lease`, `attempt_count` and
`last_error_code` are columns of the run's row. `lease` has three values:
null, ahead of now, past. `recorded`, `effects`, `events` and `outbox` are the
rows of other tables that belong to the run. `pc[h]` names the statement handler
`h` is about to execute and `index[h]` is its loop variable.

A handler runs its statements outside any transaction, so each statement is an
action and anything may happen between two of them: `recordStep`,
`commitEffect`, `advance`, `awaitApproval`, `fail`, `uncertain`, `complete`, and
`appendEvent` for the event insert that follows a state change. `Claim` is one
transaction. `ClaimNoRows` is the claim whose select returns nothing, because of
its where clause or because `skip locked` met a row that some other statement
holds (`RowLocked`). The fetch, the credential request and the provider call
have all the outcomes the code distinguishes. `DbError` is a statement that
reports an error, executed or not; `Crash` is the death of the process.

`Dispatch` and `AfterEvent` are the control flow of `execute`. As in the code,
`fail` and `uncertain` return to the loop, which then advances past the step,
except for an unsupported schema and a malformed step.

`CheckApprove`, `CheckCancel` are the read of the API handlers; `Approve`,
`Cancel` and `RequestRefused` the second transaction, which locks the row, reads
the state again and consults the transition table.

`approved`, `lapsed` and `providerCalls` are history variables that properties
use and no action reads. Left out: inputs, outputs, budgets, `lease_owner` and
`terminal_evidence`, which no statement reads, and messages that do not parse,
which are acknowledged without touching a run.

### Outbox and Runtime

A publisher claims up to `limit` rows, sends them in order and marks them. The
claim's `skip locked` may hide the batch of another publisher whose claim or mark
overlaps (`Locked`). A failure at any point ends the process, and the row being
sent may or may not have reached the stream.

`Runtime` gives each message of the stream a status (ready, out, acked) and ties
the actions of a handler to the message it holds: `Receive`, `Ack`, `Nak`,
`AckWaitExpires`. JetStream is external; it is modelled from the consumer's
configuration. `SlowHandlers` says whether AckWait may end while a handler is at
work or has just renewed its lease.

### RunCreation and CredentialBroker

`createRun` runs at read committed, so the select of the key, the lock of the
limits row, the count and the insert with its commit are separate actions.
`RunReopens` is the environment: a worker's update that is not fenced can make a
finished run active again (see `CancelIgnored`).

`retries` and `spurned` are history: a request is a retry if its run exists when
it comes, and none is answered 429. A request that comes before the run of its key
is committed, and waits for the lock behind it, may be.

### WorkerPool

`main[w]` is where the main goroutine of process `w` is: in `iterator.Next`, at the
`select` with the message `picked[w]`, behind the loop, draining, cancelled, or
stopped. `buffer`, `jobs` and `job` are the three places a message can be in a
process. The consumer is external: it counts messages that are delivered and not
acknowledged against `MaxAckPending`, and delivers again after a Nak or after
AckWait. An Ack or Nak counts whichever delivery it comes from.

Of a run only what its delivery depends on is kept: `queued`, `running` under a
lease, or `done`, which includes waiting for an approval, since an approval sends a
new message. A claim finds no row exactly when the run is not claimable; the row
locks that make it miss more are in `Runtime`.

`cut`, `overtaken` and `killed` record why a run may be lost. A handler that fails
after its claim, which is what the drain timeout does to every handler at work,
returns its message while its own lease is live; the next claim finds no row and
acknowledges it. So the runs a drain cuts off need an operator, and `NoneLost` says
that no other runs do. `docs/operations-runbook.md:15` says of work that the drain
timeout cancels: "A read-only step can recover after lease expiry." It cannot on its
own: when the lease is past, no message is left. This is the loss by a failed statement
that `Runtime` has too (`dbErrors`), reached in normal operation. The exception of a killed handler needs a message that had
been delivered again before.

### ControlPlane and RunStore

`backend` is chosen at the start, as `POSTGRES_URL` does. A request is
authenticated in one step, and what it learned there (`tenant`, `role`) is what its
handler uses later, whatever happens to the key in between. An approval or a
cancellation is two transactions, `check` and `transition`. `refuse` stands for
every answer that changes nothing: a refused role, an invalid body, an unknown id,
a conflict, a rollback. `sees` is the tenant predicate of the queries and, with
Postgres, the row level policy, which compares the same two values.

`start` runs `bootstrap`: the tenant's bootstrap owner is made owner again, whatever
role it was given since, a new key belongs to it, and a known key is made live again
and stays with its principal. `provision`, `revoke` and `regrade` are statements of an
administrator, who is external. The bootstrap owner of a tenant may have several keys
(`seed`), which share its role; any other principal has one. `ends` is a crash or the end of a graceful close,
with which the in-memory store loses everything. Workers write rows of Postgres
whatever their state (`RunExecution` shows they do), with every state a worker writes; `claimRunLease`, which only
tests call, is there as the store has it.

The mapping to `RunStore` forgets keys, roles, requests and the process, and nothing
else: its definitions are the workflows, its rows the runs, its log all audit records
(without the role), and it is durable if the store is Postgres. So a change and its
record are one step there, and the in-memory store forgets all tables at once.

### Console

The page is a set of requests in flight, the run it shows and the busy flag. An
action of the page sends a request; `receive` is what its handler does with the
answer. A request takes effect when it is served and is shown when it arrives, so
an older answer can overwrite a newer one. That heals as long as the older answer
keeps the page polling. An answer that shows the run awaiting approval again does
not: the page stops polling although the run has gone on or ended, until the operator
clicks. So `CatchesUp` promises only that a run at rest, which includes one that awaits
approval, is not shown as active for good.

The workers are those of `RunExecution` with their steps left out: a handler that
claimed a run (`working`) may park, complete or fail it at any time, by its id alone,
so a row that the page shows as cancelled or failed can be active again. The page may
therefore be ahead of the row as well as behind it, and no order of states is assumed.
A handler that crashes is one that takes no more steps.

## Runs

The bounds are the smallest ones in which each hazard occurs: two handlers are
enough for an overlap, and a further one would add the same kind of overlap; two
requests for a race of two decisions; `MaxAttempts` claims so that a run can
be claimed, approved, and claimed again by both handlers. Handlers, requests,
clients, keys and handles are interchangeable where the runs use symmetry.

| Run | Expected | What it shows |
| --- | --- | --- |
| `RunGated` | pass | Two approvals and two gated effects, two handlers, two requests, four claims: effects are approved and evidence is backed; one executor as long as no lease lapsed; the row does not run ahead of the evidence; a cancel wins against an approve that was checked earlier; a recorded success stays. |
| `RunFallible` | pass | Workflows that fetch, call the provider, have an undeclared effect or another schema version; the provider is called at most once, and `RunExecution` implements `EffectLedger`. |
| `FailedGoesOn` | violation | A failed step does not end the run: it continues, and ends in `succeeded`. |
| `CancelIgnored` | violation | A handler parks a run that was cancelled after its claim; the run can be approved and leased again. |
| `OutboxTwo` | pass | Three rows, batches of two, two publishers, one failure: marked rows are in the stream, duplicates are counted by `attempts` and bounded by publishers and failures, and every row is published in the end. |
| `RuntimeRecovers` | pass | Liveness: with a crash of a worker and one of the publisher, quick handlers and no database error, a run comes to rest. |
| `RuntimeGated` | pass | With an approval, a crash, a database error and slow handlers: an active run has a handler or a message, apart from the three causes of loss named in `NeverForgotten`. |
| `RuntimeSkipLocked` | violation | One of these causes, with no failure at all: the message of a quick approval meets the row lock of the previous handler's event insert and is acknowledged. |
| `Creation` | pass | Two clients, two keys, two handles, limits of one: one run per key, quotas, no retry refused for the quota, and the broker's credentials. |
| `Pool` | pass | Two processes of one goroutine, three messages, two places in each queue, one fault (a signal, a kill or an error) and one AckWait that ends during the work: a drain settles what it accepted, no run is lost that was not cut off, the receive loop is not held up, and a process that is told to stop stops. |
| `ControlPlane` | pass | Two tenants, two keys, two requests, two workflows, four events (audit records and changes of keys and roles), both stores: tenants apart, complete audit log, revocations that hold, refinement of `RunStore`. |
| `Console` | pass | Two requests in flight, two creates, two clicks, one lost answer, two claims: a run is approved once for each time it was parked, the page never stays disabled, and it catches up with a run that has come to rest. |

The other two causes of loss that `NeverForgotten` names: a statement that fails
after the claim (`dbErrors`), whose redelivery meets the handler's own live lease and
is acknowledged, as in `Pool`; and the crash of a handler whose message AckWait had
already delivered again (`overtaken /\ crashes > 0`).

`max_active_runs = max_runs_per_day = 1` makes every second request meet the
limit. Properties whose statement begins with `~lapsed` hold only while no lease
ran out under a running run. The condition is needed: afterwards, a handler that lost
the run can park it at an approval step that was already approved, while the one that
took it over advances, and the next approval skips the step under way.

The runs with `CHECK_DEADLOCK FALSE` are those whose system really stops: all
rows are published, the run has come to rest, all messages are acknowledged, or
nothing is left for the page to poll. In `Pool`, two places per queue are the least
with which a queue can be partly full, and the third message is the one that the
consumer's window of two keeps back: with a wider window it meets a full channel, as
the mutant of `SendNeverBlocks` shows. One fault is enough for a drain that times
out, since the failures it causes are not counted. In `ControlPlane`, four events are
enough for two tenants with a workflow and a run each, for one run that is approved and
cancelled, or for a key that is provisioned, revoked and brought back by a start. In
`Console`, two claims and two clicks are the least with which a run can be parked,
approved, and approved again from the old page.

Each property has a mutant: a variant of one definition with a plausible bug,
named after the definition it changes and marked `Mutant`, under which TLC finds
the property violated.

### Fairness

`OutboxSpec` assumes weak fairness of each publisher's next step: the loop polls
until it is stopped, and the deployment restarts the process. `RtFairness` adds
weak fairness of each handler's step and of its receiving a message, of AckWait
and of the lease (time passes), and of the second half of a request that was
begun. `ConsoleSpec` assumes that the interval fires while it exists and that
requests are served and answered. `PoolFairness` assumes that the main goroutine goes
on once SIGTERM has been received (its timer fires), and that statements fail in a
cancelled context; a handler whose context lives may hang for ever. Nothing is assumed of operators, crashes or errors. `RunExecution` alone
has no fairness; only safety is checked of it.

## Proofs

Every invariant and every action property of the passing runs is also a theorem, and
so are the refinements. `PROJECT.json` lists them with what each establishes.

| Module | Theorems (the property each states) |
| --- | --- |
| `RunExecutionProofs` | `TypeCorrect` (`TypeOK`), `EffectsAreApproved` (`ApprovalGate`), `EvidenceIsBacked` (`LedgerBeforeEvidence`), `RunImplementsLedger` (`ImplementsLedger`), `RunningIsLeased` (`RunningHasLease`), `CancelledIsNotRequeued` (`CancelBeatsApprove`) |
| `RunLeaseProofs` | `LeaseExcludes` (`OneExecutorWhileLeased`), `EvidenceKeepsUp` (`RecordedPrefix`), `SuccessStays` (`SuccessIsFinal`), `ProviderIsCalledOnce` (`ProviderCalledOnce`) |
| `OutboxProofs` | `OutboxFromAnyRows` (the invariant from any first rows), `OutboxTypeCorrect` (`OutboxTypeOK`), `MarksAreStreamed` (`MarkedIsStreamed`), `AttemptsCoverCopies` (`CopiesAreCounted`), `DuplicatesAreBounded` (`DuplicatesBounded`) |
| `RuntimeProofs` | `RuntimeExecutesRuns` (`RtSpec => Spec`), `RuntimeDrivesOutbox` (`RtSpec => OutboxOfRun`), `RtTypeCorrect` (`RtTypeOK`), `RunIsNotForgotten` (`NeverForgotten`) |
| `RunCreationProofs` | `CreationTypeCorrect` (`CreationTypeOK`), `RunsHaveTheirOwnKeys` (`OneRunPerKey`), `QuotaIsKept` (`QuotaHolds`), `RetriesAreAnswered` (`RetryIsAnswered`), `ReplaysLeaveNothing` (`BrokerHoldsRunHandles`), `CredentialsAreKept` (`CredentialSurvivesReplay`), `CredentialsAreHandedOnce` (`HandedOnceInTime`) |
| `WorkerPoolProofs` | `PoolTypeCorrect` (`PoolTypeOK`), `DeliveriesAreAccounted` (`OutIsAccounted`), `ChannelHasRoom` (`SendNeverBlocks`), `RunsAreNotLost` (`NoneLost`) |
| `ControlPlaneProofs` | `CpTypeCorrect` (`CpTypeOK`), `TenantsStayApart` (`TenantsApart`), `AuditIsComplete` (`AuditTrail`), `RevocationsHold` (`RevokedStaysOut`), `StoresImplementRunStore` (`ImplementsRunStore`) |
| `ConsoleProofs` | `ConsoleTypeCorrect` (`ConsoleTypeOK`), `ParksAreApprovedOnce` (`ApprovedOnce`), `BusyHasRequest` (`NeverStuckBusy`) |

### Assumptions

- `DefinitionsAssumption`: a definition has at most 20 steps, and a declared side
  effect stands right behind an approval step. The schema enforces both; nothing
  else of it is needed, so steps of unknown kinds are covered.
- `RowsAssumption`, `LimitAssumption`, `PublishersAssumption`: rows are numbered, a
  batch has at least one row, and the publishers are finitely many (their number
  bounds the duplicates).
- `HandlesAssumption`: a handle, which is a UUID, differs from the mark of a request
  without one. `CpAssumption` and `PoolAssumption` say the same of `None`.
- `PoolAssumption`: at least one goroutine per process and one message per goroutine.
- The bounds on claims, failures, crashes, errors, clicks, events and reopened runs,
  and the quotas, are natural numbers. Their values do not matter.

### RunExecution: what holds whatever the leases do

`ApprovalGate` is not inductive. Updates are not fenced, so the row tells a
handler nothing after its claim, and another handler can move `current_step` in
either direction at any time. The argument rests on what only grows, the set
`approved` and the ledger. `Passed(j)` says that every approval step below `j` was
approved. `Inv` states it for the row's `current_step` and for the `index` of each
handler that executes, and adds what each handler knows at each pc (`HandlerOK`):
that the step it leaves with `advance` is not an approval step, and that a ticket
about to be recorded is in the ledger. An approval extends `approved` by the
step it moves the row past; a handler that parks the run moves the row back to
its own index, which was passed before. `GateBeforeEffect` then gives the approval
in front of each declared effect. There is one lemma per action, and frame
lemmas for what an action leaves alone.

For the refinement, the row's ledger changes only in `commitEffect`, which is
`Commit` the first time and a stutter after that, and the grants only in
`Approve`, which is `Grant`.

`CancelledIsNotRequeued` is about one step; a cancelled run can still be revived
through a park (`CancelIgnored`).

### RunExecution: what a lease adds

Until a lease runs out under a running row, that row is a lock. The difficulty is
that `fail`, `uncertain` and a cancellation leave the executor at work behind a
terminal state, so "the row is running" does not tell whether somebody executes.
`Excluded` says what does: nobody executes while the row is queued, parked or
succeeded, which are the states from which a claim or an approval can follow.
`Aligned` says that the executor stands at the row's own step, and `Evident` what is
on record at each of its pcs. `ProviderCalledOnce` needs none of that: the broker
hands the credential out once (`Spent`), so it holds after a lapse too.

### Outbox

No lock outlives a claim, so a row can be in the batches of all publishers. `Owed(r)`
are the publishers that claimed `r` and have not sent it, each of which may still add
a copy; `Unmarked(r)` those that sent it and have not marked it. Before the mark,
every copy belongs to a publisher in `Unmarked` or to a failure; the mark ends the
claims of the row, and from then on copies and `Owed` together stay within the
bound (`BoundedOK`).

### Runtime

`RuntimeExecutesRuns` shows that each step of the composition is a step of
`RunExecution` or leaves its variables alone, which carries all theorems of the two
modules above over to it. `RuntimeDrivesOutbox` shows the same of `Outbox`, started with
the row of the new run; `OutboxFromAnyRows`, with `Rows <- 1..MaxRows`, then gives the bounds on
duplicates. That last substitution is not a theorem here, because the provers cannot use a
theorem of an instantiated module. `RunIsNotForgotten` then uses `Inv` and `RunningHasLease` of
the run with `RtInv`: a queued run has a message of its newest row, which nobody
acknowledges without claiming the run (`QueuedOK`); a running one has its executor
(`WorkedOK`) or, if that crashed, the executor's message, which is unclaimed
(`Left`) or comes back only once the lease is past (`Returning`, in `ReturnsOK`).
`HeldOK` says that until AckWait overtakes a handler its message is nobody else's.

### RunCreation

The invariant has layers. `Types` includes that the holder of the lock on the
limits row is the one request between its `select for update` and its commit.
`KeysOK` puts a retry at its first select, where its run is visible. `OwnersOK` and
`EntriesOK` give each credential one owner: a request in flight, runs, or a failed
request. `QuotaOK` says that a request past its count still has room at its insert;
it needs the lock, and the reopened runs on the other side of the inequality.

### WorkerPool

Unless AckWait overtook it, a message is in one place of one process and the consumer
waits for it (`Single`). So the messages in a channel and the one to be sent are
distinct members of the consumer's window, which gives `SendNeverBlocks` for
every concurrency by counting. `Kept` says what holds of a running run when its handler
is gone: it was cut off or killed, and if killed its message has not come back before the
lease ran out. That makes a claim that finds nothing, and acknowledges, harmless.

### ControlPlane

What carries the properties is what a request in flight knows (`RequestOK`): the tenant
it acts for owns the key it came with, a checked decision has a privileged role and a
run that exists; no change of keys or roles disturbs that. `AuditOK` says that the records of a
table's row are exactly one, and that none names a row that is not there, so a new
row's id is fresh. For `StoresImplementRunStore`, registration, creation and `transition`
map to `Register`, `Create` and `Decide`, workers to `Work`, the end of a process with
the in-memory store to `Forget`, and the rest to stutters.

### Console

`ApprovedOnce` is not inductive: that a run was approved at most as often as it was
parked does not tell that one more approval is covered. `ParksLeft` adds that a parked
run was parked once more than it was approved. An approval counts only for a parked run
and leaves it queued; no other request and no write of a handler but a park makes a run
parked. That a page names runs that exist, whose rows are never deleted, is `RequestOK`,
`Rows` and `ShownExists`.

### Only model-checked

Liveness, since fairness and `ENABLED` are out of the prover's reach:
`EventuallyPublished`, `RunsComeToRest`, `SignalEnds` and `CatchesUp`. The violation
runs are counterexamples of TLC. Each inductive invariant was checked by TLC on the
configurations above before it was proved.

## Not modelled

- Several control-plane processes at once: the deployment runs one, and the broker
  depends on it. `ControlPlane` has one process at a time.
- Grants of the database roles, the metrics endpoints, the read of the environment.
- Events of a run as rows: the audit records stand for them in `ControlPlane`,
  and `RunExecution` has those of the worker.
- The console's connection fields and texts.
- Metrics, telemetry, redaction, tools, deployment files: no effect on a run.
- The text of events, inputs and outputs, URLs and hosts: the fetch is allowed or
  refused.

## Plan

Modelled: contract, execution, ledger, outbox, composition, creation and broker,
worker pool, control plane with both stores, console. What is left of the repository
is observability, tools and deployment files.

Proved: every safety property of the passing runs, and the refinements. Worth proving
next: the bounds on duplicates in the variables of `Runtime`, which would show that
`Messages`, over which `AckWaitExpires` ranges, names every message of the stream.
