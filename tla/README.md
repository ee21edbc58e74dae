# Orket: TLA+ verification project

Orket runs agent workflows: it plans and executes cards with language models,
deploys what they build into Docker sandboxes, keeps a control plane of runs,
leases and reservations, and coordinates workers through leases. This directory
holds TLA+ specifications of the parts whose correctness depends on the order
in which concurrent tasks, processes and external services act: the sandbox
lifecycle, the coordinator's leases, the Gitea workers, outward runs and their
approvals, interaction turns and their event stream, the run ledgers, and the
scheduling of cards.

## 1. Inventory

| Component | State | Operations | What is hard | Module |
|---|---|---|---|---|
| Sandbox lifecycle (`core/domain/sandbox_lifecycle*.py`, `application/services/sandbox_*`, `services/sandbox_orchestrator.py`) | one record per sandbox in SQLite (state, cleanup state, owner, lease epoch, `record_version`), an operation-dedupe table, Docker resources | create, health check, heartbeat, reconcile, reacquire, delete, sweep, execute cleanup, discover orphans | several processes act on one record; every operation interleaves reads, Docker commands and compare-and-sets; crashes; late observations | `SandboxLifecycle` |
| Coordinator (`interfaces/coordinator_api.py`, `coordinator_store.py`, `coordinator_control_plane_*_service.py`, `adapters/execution/worker_client.py`) | cards with claims and leases in memory; lease, reservation and resource records in the control plane | list, claim, renew, complete, fail, expire, publish | expiry against a late completion; each request mirrors its change in many separate publications | `CoordinatorStore`, `CoordinatorApi` |
| Gitea state worker (`gitea_state_worker*.py`, `adapters/storage/gitea_*`) | a lease and a state inside an issue body, ETags | acquire, renew, transition, release | compare-and-set over HTTP, lost answers and retries, lease expiry during work | `GiteaWorker` |
| Outward runs and approvals (`outward_*`) | run, proposal and event stores | submit, propose, approve, deny, expire, continue | decisions that race, whole-row writes of stale copies, a stop between an effect and its record | `OutwardRun` |
| Streaming (`streaming/`, `interfaces/routers/sessions.py`, `streaming.py`) | turns, pending commit intents, a bus with bounded subscriber queues | begin, emit, cancel, finalize, commit, subscribe | who publishes the terminal event, full queues, cancel against completion | `StreamBus`, `InteractionManager` |
| Run ledgers (`async_protocol_run_ledger.py`, `protocol_append_only_ledger.py`, `async_dual_write_run_ledger.py`, `protocol_receipt_materializer.py`) | append-only file, commit registry, receipts, SQLite row, dual-write intents | start, append, finalize, recover, materialize | torn tail after a crash, one of two writes failing, reruns | `EventLog`, `RunLedger` |
| Cards and orchestrator (`core/domain/state_machine.py`, `workitem_transition.py`, `application/workflows/orchestrator_ops.py`, `orchestrator_*_service.py`, `decision_nodes/builtins.py`) | card rows, loop and turn locals | schedule, transition, verify, review, retry, rerun | turns write rows between awaits from stale copies; a failed turn ends the run and leaves its siblings running | `CardWorkflow`, `EpicRuns` |
| Control plane (`core/domain/control_plane_*`, `control_plane_*_service.py`, `async_control_plane_*_repository.py`) | append-only run, attempt, reservation, lease, effect and final-truth records | publish, promote, renew, release, expire, recover | record keys as the only concurrency control | as used by the coordinator and by sandbox creation |
| Nervous-system kernel (`kernel/v1/nervous_system_*`) | sessions, approvals, single-use tokens, event chain | admit, approve, commit, end session | sequences of legal calls; every call is synchronous | - |
| Kernel state (`kernel/v1/state`, `validator.py`) | staged and committed turn objects | stage, validate, promote | partial promotion, link integrity | - |
| Memory commit buffer (`memory_commit_buffer.py`) | buffered writes with a lease | stage, commit, abort, recover | crash between stage and commit | - |
| Sandbox registry, event spool | ports in memory, spooled events | allocate, release, replay | collisions, replay after a crash | - |
| Marshaller, rulesim, reforger, extensions, adapters, CLI, API | files, subprocesses, HTTP | batch runs, plumbing | not concurrent, or pure I/O | - |

How the parts meet. The orchestrator runs cards and deploys a sandbox for what
a build turn produced (`_trigger_sandbox`); the run pipeline around it records
every run in the ledgers. `SandboxOrchestrator` calls
`SandboxRuntimeLifecycleService`, which writes through
`SandboxLifecycleMutationService` to `AsyncSandboxLifecycleRepository`; recovery
and cleanup services work on the same repository from other processes. The
coordinator and the Gitea worker are two ways to share work between machines.
Interaction sessions and outward runs are driven by HTTP requests of their own.
The parts share storage and the control plane, not state that one of these
protocols reads from another, so each is modelled by itself, with its callers.

What makes them correct: a write never destroys another one; a sandbox in use
is never torn down and ownership is fenced by epoch; a lease has one holder and
a result is accepted only from it; nothing takes effect that was not approved,
and it does so once; a turn has one terminal event and one commit; a log says
everything once, whatever crashes; a card is worked on after its dependencies
and is done only by the guard's word.

## 2. Modules

| Module | Contents |
|---|---|
| `SandboxRecord` | the sandbox record, the transition tables, the guards and effects of the mutations, the cleanup policy and the reconciliation classes, as constant operators |
| `SandboxLifecycle` | one sandbox: its row, its Docker project, the clock, and workers running the operations |
| `MCSandboxLifecycle` | worker-to-process assignments and the states a finished creation leaves, for TLC |
| `SandboxLifecycleProofs` | its inductive invariant, lemmas and theorems |
| `JobLease` | abstract: what a leased job promises, whoever keeps it |
| `CoordinatorCard` | the coordinator's card and the guards and effects of the store's operations |
| `CoordinatorStore` | workers and the store; refines `JobLease` |
| `LeaseHistory` | the lease and reservation records of the control plane, and what one publication does to them |
| `CoordinatorApi` | the HTTP handlers with their publications, interleaved; refines `JobLease` too |
| `GiteaWorker` | workers over one Gitea issue, with the transport |
| `OutwardRun` | one outward run with concurrent requests |
| `StreamBus` | the turn's bus state, budgets, dropping and the law checker, as constant operators |
| `InteractionManager` | turns, clients, commits and a websocket on one event loop |
| `EventLog` | the framed event log: replay, torn tail, ordering contract, as constant operators |
| `RunLedger` | the dual-write ledger under the run pipeline, with crashes |
| `CardWorkflow` | the card state machine, planner, loop policy, evaluator and retry decision, as constant operators |
| `EpicRuns` | runs of one epic and their turns |
| `CoordinatorStoreProofs`, `CoordinatorApiProofs`, `GiteaWorkerProofs`, `OutwardRunProofs`, `InteractionManagerProofs`, `RunLedgerProofs`, `EpicRunsProofs` | inductive invariants and theorems of the modules they are named after |
| `MC...` | model values and inputs for TLC |

### Sandbox lifecycle

`rec` is the row of `sandbox_lifecycle_records` (`NoRecord` with version 0 when
there is none), `reserved` the allocation reservation, `dedupe` the rows of the
operation-dedupe table that can be hit again, `docker` the compose project
(`absent`; `residue`: networks or volumes are left and no container;
`degraded`; `up`), `now` the clock, `alive` the processes that have
not crashed. A worker is one asyncio task: `pc` is the await it stands at,
`snap` the record it holds in a local variable, `seen` and `at` the Docker
observation and the `observed_at` it made, `plan` the terminal outcome it is
recording, `ret` whether a health check was called by the creator.

One action is what a task does between two awaits that matter to others: a
database transaction or a Docker command. A read followed at once by the
compare-and-set on the version it returned is one action; a write that slips in
between makes the compare-and-set fail, which is the `Unwind` of the same
operation, or hits the dedupe table, which is modelled where two tasks can
present the same id and payload (`Row`, `ClaimRow`, `ApplyCopy`,
`ScheduleShared`, `ClaimCleanup`, `RecoverBlock`). Other operation ids carry a
timestamp, a token or a payload that cannot be repeated.

The code looks at Docker in two ways. Health assessments, in a health check or in
a reconciliation, ask `docker ps -a` for the project's containers
(`ObservedRows`), which shows a `residue` as an empty project; reconciliation,
reacquire and cleanup themselves count containers, networks and volumes
(`ReconcileObserve`, `ReacquireObserve`, `ObserveBefore`, `ObserveAfter`). A teardown, and somebody at the Docker command line, may leave any
part of what was there (`Remains`).

| Code | Actions |
|---|---|
| `create_sandbox`, `create_record`, `mark_create_accepted`, `_deploy_sandbox`, `_wait_for_initial_health`, `mark_start_failed`, `mark_requires_reconciliation` | `CreateCheck`, `CreateReserve`, `CreateSave`, `CreateAccept`, `Deploy`, `AwaitGivesUp`, `MarkStartFailed`, `MarkRequiresReconciliation` |
| `health_check`, `mark_deployment_verified`, `handle_healthy`, `handle_missing_runtime` | `HealthRead`, `HealthObserve`, `InventoryRead`, `RecordInventory`, `MarkVerified`, `HandleHealthy`, `ReconcileExisting` |
| `_record_terminal_outcome` | `Evidence`, `Terminalize` |
| `delete_sandbox` | `DeleteRead`, `DeleteSchedule`, `ClaimCleanup` |
| `sweep_due_cleanups`, `claim_next_due_cleanup` | `SweepRead`, `SweepSchedule`, `ClaimCleanup` |
| `execute_claimed_cleanup` | `CleanupAttempt`, `CleanupReread`, `ObserveBefore`, `CleanupInventory`, `TearDown`, `ObserveAfter`, `CompleteCleanup`, `MarkCleanupFailed` |
| `reconcile_sandbox`, `reconcile_existing_record` | `ReconcileRead`, `ReconcileObserve`, `ReconcileHealth`, `RecoverBlock`, `ReconcileDecide`, `RecoverStarting`, `RecoverReread`, `RecoverStarted`, `ReconcileExisting`, `ScheduleIfNeeded` |
| `reacquire_ownership` | `ReacquireRead`, `ReacquireObserve`, `ReacquireInventory`, `ReacquireTake` |
| every raise, cancellation, false return and no-op | `Unwind` |
| environment | `Crash`, `Tick`, `DockerDrift` |

Abstractions: one sandbox (records share nothing but the sweeper's candidate
list, which is re-read per candidate); times are natural numbers; `terminal_at`,
evidence and inventory are present or absent; the attempt counter, error texts
and events are left out; control-plane publications after a write project the
record and are outside the model (one that raises is an `Unwind`), but for the
reservation that serialises creators; whether health says *restart loop*, and
the authority decision before teardown, are free choices; a crash removes the
process for good (its identity is hostname and pid); containers may stop,
restart or be removed from outside, a project that is gone comes back only
through a deployment; orphan discovery is not modelled.

### Coordinator

`CoordinatorStore`: `card` is the card in memory, with what is left of its
lease; a worker has `pc`, `renewing` (its renewal thread) and `held` (what is
left of the lease it was last told of). `Poll`, `ClaimKnown`, `Claim`, `Renew`,
`Complete` and `Fail` are the client's calls with the store's operation behind
them (`CoordinatorCard`), `Die` and `Tick` the environment. Time is the
remaining duration, so the model needs no clock.

`CoordinatorApi`: a request is a task. `Begin` receives it; `ExpireRead`,
`PreflightRead`, `CheckResource` look before; `StoreList`, `StoreClaim`,
`StoreRenew`, `StoreFinish` change the card; `DrawStamp`, `ReadPrevious`,
`AppendLease`, `SaveResource` publish one lease record, and `RenewRead`,
`ReleaseRead`, `ClaimEpoch`, `ReserveRead`, `ReserveSave`, `Promote`,
`RollbackRead`, `Invalidate` are the steps that differ between requests. Any
two requests interleave between two repository calls. Hedged cards publish
nothing and are left to `CoordinatorStore`.

Both modules refine `JobLease` (`ImplementsJobLease`): a card is held by one
node at a time unless hedged, a result is accepted from a holder only, the
first accepted result is never replaced.

### Gitea worker

`card` is the snapshot in the issue body; a worker has the locals of `run_once`
(`pc`, `claim`, `out`) and of its renewal task (`rpc`, `rout`). Every write is a
read (`AcquireRead`, `ClaimRead`, `ReleaseRead`, `RenewRead`) and a patch under
the ETag read (`AcquireWrite`, `ClaimWrite`, `ReleaseWrite`, `RenewWrite`). The
transport may lose the answer of a patch, which is then retried and conflicts
with itself, give up, or leave a patch in the network (`stray`) that `Deliver`
applies later. `Fetch`, `Work`, `Join`, `Die`, `Tick` are the rest. One card;
the optional control-plane publications are off, as in the script that starts
the workers.

### Outward runs

`run`, `approvals`, `ledger` are the three stores, `effects` what connectors
did, `handler` the requests in progress with the copy of the run each one read.
`Submit`/`Create`, `StartIfReady`, `ModelCall`, `RequestApproval`, `Propose` lead to a
proposal; `Decide`, `DecideRead`, `DecideRun` resolve it; `ContinueAfterApproval`,
`Invoke`, `ContinueAfterDenial` carry it out; `Perform` is the next store
operation of a handler, `Stop` ends a handler anywhere. A step has the tool that
`governed_tool_sequence` gives it; texts and digests are the identity of the
call. A run's `plan` says whether its acceptance contract has governed steps:
one without any, or with invalid ones (whose submission is answered with 422
after the row is stored), stays queued for ever, as
`tests/interfaces/test_northstar_phase1_runs_api.py:20` and
`pipeline_requirements.md:134` (in the archived outward-pipeline closeout) expect; `StepTool` are the steps of the others.
The verification of a handoff package is a free choice, and the event
`trust_handoff_verified`, which nothing reads back, is left out.

### Interaction turns

Everything runs on one event loop: a task keeps it until it awaits something
that is not ready, which is what `loop` says. `BeginTurn`, `Emit`, `WorkDone`,
`WorkStops`, `WorkFails`, `WorkEscapes`, `ProviderFails`, `Requested`, `Manifest`,
`FailClosedIntent` are the turn's own task; `Cancel` and `Finalize` are called
by it and by clients; `StartCommit`, `CommitWritten`, `WriteFails`, `TurnOver`
commit the turn. `WorkFails` is an exception that `_run_turn` catches, `WorkEscapes`
any other, which ends the task on the spot (`history.escaped`). `Put` waits for room in a queue; `Subscribe`, `Receive`,
`Disconnect` are the websocket and `Evict` the bus's time-to-live. Payloads are
sizes. Locks of manager and bus are never held over a real wait and are left
out.

### Run ledgers

`log`, `winners`, `receipts`, `row`, `intents` are the five stores on disk, each
file with a flag for a torn tail; the process's position is `pc`. Recovery:
`Boot`, `LoadIntents`, `RecoverRow`, `RecoverLog`, `RewriteIntents` and their
failures. A dual write: `RecordIntent`, `WriteRow`, `AckRow`, `WriteLog`,
`AckLog`, `ClearIntent`, `NoteError` and failures. The run: `StartRun`,
`WriteTurnReceipt`, `Work`, `WorkRaises`, `FinalizeRun`, `RecordFacts`.
Receipts: `Materialize`, `CallRow`, `ReserveResult`, `AppendResult`,
`AppendReceipt`, `RowsDone`, `MaterializeFails`. `source` are the rows that the
turns left in their `protocol_receipts.log` files, in the order in which the
materializer reads the files. The id of an operation is made of session, issue,
turn index and tool index, and the turn index restarts with each run, so a
session that is run again appends rows that replay an operation, to files in
any place of the order: rows may repeat an operation and move the rows behind
them. A repeated row gets a receipt of its own for the events the operation
already has, or is refused (`ReceiptRefused`). `Crash` falls between two writes, `CrashInWrite` into one.
One session, run by one process at a time and possibly several times.

### Cards

`row` is the issues table (status and `retry_count`), `deps` the dependencies,
`run` where each run of the build stands in `execute_epic`, `turn` where each
turn stands in `_execute_issue_turn` with the copy of the card it works on,
`earned` (history) which run's guard made a card done.

| Code | Actions |
|---|---|
| `_ensure_session_and_cards`, `reset_build`, `_resume_stalled_issues`, `_resume_target_issue_if_existing` | `Start`, `PrepareCards` |
| `execute_epic`, `_propagate_dependency_blocks` | `ReadBacklog`, `Plan`, `Exhaust` |
| review preflight, `GuardController.decide`, `verify_issue` | `VerifierPasses`, `VerifierFails`, `VerifySaves` |
| turn preparation | `Dispatch`, `NotPrepared`, `MissingRole` |
| tools | `CallUpdateStatus`, `WriteStatus`, `RequestExcuse` |
| failure and success handlers | `TurnFails`, `SaveIssue`, `HandleSuccess`, `Promote` |

Abstractions: the team has a seat with the `integrity_guard` role; the
discussion stage before a build (ODR) is off, and nothing in the code requests
replanning; a tool call names the turn's own card; wait reasons are given; a run
starts when the previous one is over, though turns of that one may still run;
preparing the cards and propagating blocks are one step each; archiving is left
out. One writer outside the pipeline is not modelled: the pull-request webhook
(`adapters/vcs/gitea_webhook_handlers.py:249`) writes `code_review` on the card of
the pull request whatever its status is, and then runs that card; the properties
hold of builds whose cards get no such call.

## 3. Runs

| Run | Checks | Bounds |
|---|---|---|
| `startup` | `TypeOK`, `VersionsAdvance`, `BlockedFreezes` | from nothing; two processes, create, health, reconcile and crash; clock to 1, hard max age 1, versions to 6: create, flag, recover and terminalize all fit |
| `ownership` | `HeldRecordsFenced`, `NoLiveTeardown`, `TerminalHasEvidence`, `OwnershipByEpoch` | from a running sandbox at version 4; two processes with health, reconcile, reacquire and delete; versions to 9: expiry, reacquire and a full delete up to its first cleanup write |
| `sweepers` | `CleanupExclusive`, `DockerAccounted` | two processes with health, reconcile, sweep and crash, on a running sandbox and on one whose start failed; versions to 10 reach completion after a failed attempt |
| `coordinator_claims` | `TypeOK`, `SoleHolder`, `ImplementsJobLease`, `DeadHolderIsReplaced` | three nodes, leases of up to two ticks, two of the nodes may die; hedged and plain cards |
| `coordinator_requests` | `EpochGrantedOnce`, `PromotedIsGranted`, `ImplementsJobLease` | two nodes, two requests at a time, leases of one tick, three timestamps: two claims race for one epoch while a third request expires or releases |
| `gitea_leases` | `EpochHasOneOwner`, `LeaseNotStolen` | two workers, leases of one tick, epochs to 3 (the last stands for all later ones), one spoiled request, one death; workers are symmetric |
| `outward_requests` | `ApprovedBeforeEffect`, `DeniedNotInvoked`, `CallMatchesApproval`, `EffectOnce`, `LedgerOrdered`, `CompletedIsFinal`, `RunSettles` | two handlers at a time, up to five requests of which up to three overlap, a run of three steps with two model turns and two calls, or one without valid steps; one handler stops midway |
| `interaction_turns` | `StreamLaw`, `OneTerminal`, `CommittedOnce`, `FailClosed`, `TurnSettles` | one turn, one client with two requests, one connection, queues of one event per class (so that every queue is full at some point), two emitted events, one failing write |
| `run_ledgers` | `OnceInLog`, `CallsPaired`, `ReceiptsBacked`, `WinnersAccounted`, `OrphanNeedsFailure`, `OutcomeLogged`, `RecoveryNeverReopens` | two runs of one session; three operations, two receipt files and three rows, so that an operation is repeated in front of and behind the rest, and two operations use up the invocation limit of four; one crash, between writes or inside one, and one failing call; operations are symmetric. Longer instances with two crashes, and with rows of one operation that differ, give the same results |
| `card_scheduling` | `BuildOrder`, `DoneIsEarned`, `NeverExhausts` | two cards, independent or one after the other, symmetric; two runs of which the second may target a card; one retry; one turn of a run at a time, beside the turns that outlive an earlier run (two at a time give the same results in an instance too long for a regular run); nine iterations, one more than a build and a review for every attempt; one tool call per turn |
| `gitea_dead_worker` | `DeadWorkerIsResumed`, violated | two workers, leases of one tick, one death, no transport faults |
| `ledger_torn_tail` | `PartialTailIgnored`, violated | one operation and one row, two runs, two crashes of which one is inside a write |

Each module keeps a type invariant; it is listed where a mutation of the code
would really break it. Two workers, nodes or handlers suffice for races between
one operation and one other; where a third party matters (a hedged claim, an
expiry between two claims) there are three. All durations are one or two ticks,
so *before*, *at* and *after* a deadline occur. Deadlock is checked for the
coordinator and the Gitea workers, where time can always pass; in the other
runs everything may be done, or a bound on time, versions or requests used up,
and then there is legitimately nothing to do.

### What the violated runs show

1. `gitea_dead_worker`: the operational guide says that lease expiry lets
   another worker resume the work of one that died. The card stays
   `in_progress`; another worker gets the lease, but the claim transition
   `in_progress -> in_progress` is refused before anything else is looked at,
   so the lease runs out again, for ever.
2. `ledger_torn_tail`: the contract says that a partial record at the tail is
   ignored. A replay does, but `append_event` opens the file for appending and
   writes behind it, and the partial record's length swallows what follows.

### Divergences met while modelling, without a run

*Sandbox* (`docs/projects/archive/Docker/01-REQUIREMENTS.md`): a delete claims a
cleanup that is in progress (line 321); a lost runtime becomes terminal without
`terminal_at` (185); a reclaimable record past its hard maximum age cannot
become terminal by that rule (196); a reacquire and a second expiry between the
two writes of an unfenced reclaim outcome leave a terminal record without
evidence (176); a failing `docker ps` in the health check is taken for an empty
project, and the record ends up cleaned while containers run (273; the runs
`startup` and `ownership` let it fail, `sweepers` does not); and a `docker ps`
that works lists no networks and volumes, so a health check that finds no
container calls `handle_missing_runtime`, and if another health check made the
record terminal meanwhile it is marked `cleaned` and `cleaned_externally`
whatever networks and volumes are left (273 asks for the absence of all three;
TLC finds the behaviour when the exception in `DockerAccounted` is taken out); nothing
classifies a creating or starting record whose creator is gone (338).

*Coordinator*: a release may be published under a node that never held the
epoch, since handlers publish about the card they find; a reservation stays
active when `publish_claim` is refused.

*Gitea*: `release_or_fail` compares neither owner nor epoch, so a worker whose
renewal found another owner still writes its success; a release whose answer is
lost is retried, conflicts with itself and ends as blocked.

*Outward runs* (excluded by "unless requests overlap or stop midway" and by
`ToolsDiffer` in the properties, which therefore do not cover these hazards;
`ApprovedBeforeEffect`, and of `LedgerOrdered` the parts about repeated events
and commitments, hold in them too): `continue_after_approval` takes the call to
execute from the run and compares only its tool with the proposal's
(`outward_run_execution_service.py:112`), so in a run that calls a tool twice an
old proposal approved again executes the newer call, whose own proposal nobody
has decided, and the effect is counted for the old one; an
approval and a denial that race are both carried out; a stop after the
connector, followed by a new approval, repeats the effect; an expiry that races
can leave the run running; drift followed by a denial writes two terminal
events.

*Interaction turns*: `_run_turn` (`sessions.py:161`) catches five exception types;
another one, such as the `httpx.HTTPError` of the provider lookup of
`model_stream_v1` (`provider_runtime_inventory.py:103`), ends the task without
cancel, intent and finalize, so the turn has no terminal event, against
`docs/projects/archive/StreamEvents-2026-02-28/03-MODEL-STREAMING-INTEGRATION-PLAN.md:65`,
and keeps its
session until a client finalizes it; a turn of an extension workload never settles
(`emit_turn_final_if_needed` puts `turn_final` on the bus, `finalize` marks the
commit as started and is then refused by the bus, and nothing commits the turn
or frees its session), although
`docs/projects/archive/StreamEvents-2026-02-28/01-REQUIREMENTS.md:168` has a
finalized turn commit; a client that finalizes under a running workload makes
sequence numbers restart at 0 after the purge; publishers wait for ever on the
queue of a websocket that disconnected; a blocked publisher is overtaken; a
provider timeout inside a blocked put loses a sequence number; an `OSError` in
the commit leaves the session active; eviction restarts the numbering; the
queue capacity does not count must-deliver events. `history.disturbed`, `Hangs`,
`history.writeFailed` and `history.escaped` name these cases in the properties.
In particular `TurnSettles` promises nothing of an extension turn, of one whose
publisher hangs, whose write failed or whose exception escaped.

*Run ledgers*: a row that replays an operation gets a second receipt for the same
events, and a row that a rerun puts in front of others gives them receipt
numbers that are refused, which ends the materialization of all rows behind
them (`E_RECEIPT_SEQ_NON_MONOTONIC`); in a session that is done, then failed, then done again the third
`run_finalized` is not appended, so the log says failed and SQLite done; a
`start_run` replayed after `run_finalized` shows a running run; a rerun leaves
the log at done while SQLite says running; an open call can never be closed and
fails every later append; an intent file emptied or cut off loses intents or
blocks `initialize` (`lost`; `OutcomeLogged` excepts it); a torn receipts line blocks materialization; an odd
invocation limit would orphan a call; recovery happens once per process.

*Cards*: `gather` raises with the first failing turn and leaves the others
running, so a finalized run still writes cards and a rerun resets the build
under them (this is why `BuildOrder` and the second half of `DoneIsEarned` ask
for a run that is alone); a run with a target takes the target whatever its
dependencies say (hence "no target" in `BuildOrder`, which is false without it
as soon as there are three runs and three cards); every failure action raises, so even a scheduled retry
ends the run, and a retry after a guard turn is refused by the state machine
and its count is lost; dependents of an archived or guard-approved card stall; a
targeted run stalls once its target is done and other cards are ready; a target
in `awaiting_guard_review` always fails on resume; a guard that decides nothing,
or requests changes, strands its card; a missing role asset makes a targeted run
spin until its iterations are used up (hence "no target" in `NeverExhausts`); a
failure handler may write `done -> blocked`, outside the table, and
`request_excuse` is not validated at all; a catastrophic failure cancels the
API's task, so the run is never finalized; `retry_count` survives `reset_build`.
With the defaults (40 iterations, 3 retries) the bound of `NeverExhausts` covers
four cards in a chain.

### Fairness

- `coordinator_claims`: weak fairness of the clock and, for every node, of
  polling, claiming and reporting, since time passes and a worker that is alive
  goes on in its loop. Renewals and deaths need not happen.
- `gitea_dead_worker`: weak fairness of the clock and of each worker's steps;
  the statement fails even so.
- `outward_requests`: weak fairness of a handler's next step: the server goes on
  with a request it has begun. No request has to be made.
- `interaction_turns`: weak fairness of every task on the loop, and of the
  websocket, which sends or notices that it cannot. Clients do nothing unless
  they like.

No liveness is claimed for the sandbox part: nothing in the repository calls
reconcile or sweep periodically. Nor for the cards: a run may fail at any turn.

## 4. Proofs

Every theorem holds for all values of the constants that the named `ASSUME`s of
its module admit: any number of nodes, workers, handlers, cards or runs, any
duration and any bound. The assumptions give the constants their types, and TLC
evaluates them in the runs of the module; nothing else is assumed, but for the
hypotheses that four theorems state with their property (two on sandboxes, one
on run ledgers, one on cards). Where a property is not inductive, which is nearly always, the strengthened invariant
was checked by TLC first, on the instances of the runs and on some larger ones.

### Sandbox lifecycle

`SandboxLifecycleProofs` proves, for every set of workers and instances, every
assignment of workers to instances, every TTL and every bound:

| Theorem | Statement |
|---|---|
| `TypeCorrect` | `Spec => []TypeOK` |
| `CopiesAreFenced` | `Spec => []HeldRecordsFenced` |
| `TeardownIsFinal` | `Spec => []NoLiveTeardown` |
| `OutcomesAreEvidenced` | `Spec => []TerminalHasEvidence` |
| `NoLostWrite` | `Spec => VersionsAdvance` |
| `OwnersAreFenced` | `Spec => OwnershipByEpoch` |
| `BlockIsRespected` | `Spec => BlockedFreezes` |
| `SweepersAreExclusive` | `"delete" \notin Operation`: `Spec => []CleanupExclusive` |
| `ResourcesAreAccounted` | `~PsFails`: `Spec => []DockerAccounted` (what exists is accounted for by a live or terminal record; a cleaned record has nothing left, but for networks and volumes of one marked `cleaned_externally`) |

Assumptions: `RecordAssumption` and `LifecycleAssumption`, which give the
constants their types; TLC evaluates both in every run of the sandbox.

The argument. None of the properties is inductive. `IInv` adds to `TypeOK`:

- `RowInv`: a row exists only under a reservation, an absent row is exactly
  `NoRecord`, terminal records of fenced outcomes are justified, and once a
  claim is in the dedupe table the record is terminal or cleaned for good (this
  is what makes a *reused* claim harmless);
- `HeldInv(w)`: a held record is older than the row or equal to it, with an
  epoch that is not newer;
- `PlaceInv(w)`: what a worker's position implies: a saver faces no row, a
  cleaner an ended one, and at `terminalize` a plan whose fence still matches
  the row means that the evidence written under that fence is still there;
- `OneSaver`: at most one worker is about to insert the row.

All writes but the insertion are shown to be a `Moves(rec, rec')`: next
version, epoch not smaller and larger if the owner changes, ended stays ended,
blocked stays frozen, evidence kept or epoch raised. A step of a worker is
`Good` when the row stays, is inserted or moves, and the worker touches its own
locals only; `GoodPreserves` derives the whole invariant from that, and one
lemma per group of actions shows its steps to be good. `IInv` was first checked
by TLC on the instances of the runs.

The last two theorems have a hypothesis each, and an invariant of their own on
top of `IInv`. Without it the property is false and the code says why: a delete
by hand may claim a cleanup that is in progress, and a `docker ps` that exits
non-zero looks like an empty project. So `SweepersAreExclusive`, and the run
`sweepers`, say nothing of deletes: for them only `NoLiveTeardown` holds. The
exception that `DockerAccounted` makes for a residue is needed too (see the
divergences of section 3).

- `XInv` for `CleanupExclusive`: while a worker executes a cleanup the row says
  `in_progress` or `completed`, which is no due candidate; a sweeper about to
  claim holds a copy whose cleanup is `scheduled`, one about to schedule a copy
  with `none` or `failed`. A claim that succeeds compares versions, so by
  `HeldRecordsFenced` the row it claims is its copy and nobody executes. One
  lemma per action shows its steps to be `Exclusive`.
- `DInv` for `DockerAccounted`: a worker about to act on absence is right about
  it, or, if it counted containers only, right that no container is left
  (`SightInv`, `Bare`), although what it saw is older than the record it acts on;
  at most one worker deploys (`OneFounder`), and until it has done so nothing
  exists in Docker, the row is fresh and no other worker is past the places that
  such a row lets it reach (`FoundingInv`). Nothing brings resources back after
  the deployment, and nothing makes containers out of a residue
  (`RemainsFacts`), so what was seen to be gone stays gone. Steps are shown to
  be `Sound`.

TLC checked `XInv` completely (`MaxVersion` 7) before its proof.

### Coordinator

| Theorem | Statement |
|---|---|
| `CoordinatorStoreProofs!TypeCorrect` | `Spec => []TypeOK` |
| `LeasesAreExclusive` | `Spec => []SoleHolder` |
| `StoreIsAJobLease` | `Spec => ImplementsJobLease` |
| `ApiTypeCorrect` | `Spec => []TypeOK` |
| `EpochsGrantedOnce` | `Spec => []EpochGrantedOnce` |
| `PromotionsAreGranted` | `Spec => []PromotedIsGranted` |
| `ApiIsAJobLease` | `Spec => ImplementsJobLease` |

Both modules begin with what each operation of the store does to a card (who
holds it afterwards, when a result is accepted), and cite it. `SoleHolder` follows from an invariant that relates the two ends of the
wire (`LeasesCovered`): what a worker counts on is never more than what the store
has left for it, so the store never grants a lease that somebody still believes
in. The refinement is shown step by step: under the mapping of
`ImplementsJobLease` an action is a claim, a renewal, a release, an expiry or a
result of `JobLease`, or changes none of its variables. For the API, the
invariant says of every request between two repository calls where it came from
and goes on to (`FlowOK`), that claims have timestamps of their own (`StampOK`,
`StampsDiffer`), that the record it is about to append is at most one epoch ahead
of the latest (`EpochOK`), and that a claim past its reservation, like every
granted one, owns the first row of its epoch (`ReservationOK`, `GrantsReserved`):
two claims that interleave cannot both own it.

### Gitea worker

| Theorem | Statement |
|---|---|
| `GiteaTypeCorrect` | `Spec => []TypeOK` |
| `EpochsHaveOneOwner` | `Spec => []EpochHasOneOwner` |
| `LeasesAreNotStolen` | `Spec => LeaseNotStolen` |

`PatchesFit` says of every PATCH that a worker prepares, repeats or has left in
the network that, if its ETag still matches, its body keeps owner and epoch of
the card or takes over an expired lease under the next epoch. `GrantsFit` says
that no epoch beyond the card's is granted and the card's own only to its owner.
(The last epoch, where the bounded counter stays, stands for all later ones and
is left out of the property.) The server applies a PATCH only if the ETag matches, so each write
is one that fits the card as it is (`WritesFit`), late and repeated ones too.

### Outward runs

| Theorem | Statement |
|---|---|
| `OutwardTypeCorrect` | `Spec => []TypeOK` |
| `EffectsAreApproved` | `Spec => []ApprovedBeforeEffect` |
| `DeniedAreNotInvoked` | `Spec => []DeniedNotInvoked` |
| `CallsMatchApprovals` | `Spec => []CallMatchesApproval` |
| `EffectsHappenOnce` | `Spec => []EffectOnce` |
| `LedgerTellsInOrder` | `Spec => []LedgerOrdered` |
| `CompletedRunsAreFinal` | `Spec => CompletedIsFinal` |

The invariant has three layers, as the properties have.

- Whatever interleaves and stops (`HandlersFit`, `ProposalsFit`, `FreshRun`,
  `LedgerFits`): what a handler may rely on only grows. A proposal that is or was
  approved stays in `approved`, an event stays in the ledger, a started run is
  never queued again. A commitment is in a handler's list only behind its
  invocation, or with the invocation in the ledger.
- While requests do not overlap (`SoloInv`): one handler at most is at work, and
  the proposal it is about to store is new, or pending and decided by itself. So
  a denial that the ledger tells, or will tell, is the stored verdict.
- While requests are undisturbed and no tool is called twice (`OrderlyInv`): a
  handler stops being ahead of the stores once its list is empty, so the
  invariant speaks of the run as it will be when the list is stored (`IsLast`):
  a pending proposal is for its last call, each proposal for a call of its own,
  a call that took effect is not offered again, and every event of the list is
  behind the events that must precede it.

Each action has a lemma of its own; `Perform`, the only one that writes the three
stores, has one for each store. `HasLast` (there is a last run) takes the least
element from the well-foundedness of the natural numbers.

### Interaction turns

| Theorem | Statement |
|---|---|
| `TurnStateIsTyped` | `Spec => []TypeOK` |
| `TurnsCommitOnce` | `Spec => []CommittedOnce` |
| `TurnsEndOnce` | `Spec => []OneTerminal` |
| `FailuresCommitClosed` | `Spec => []FailClosed` |
| `StreamsAreLawful` | `Spec => []StreamLaw` |

They hold for any number of turns, clients and connections, every limit of the
bus, every stream budget and every bound. Assumptions: `BusLimits`,
`ClientsAreNotTurns`, `BudgetsAreNumbers` and `StreamBounds`.

The invariant `Inv` is `Shape` and four parts for each turn. A task that waits
for room in a queue goes on afterwards, so all of them speak of its `Place`:
where it is, or will be once the put it waits for is done.

- `Shape`: types; turns begin one after the other and nothing is known of one
  that has not begun; each task works on one turn, a turn's own task on its own;
  a waiting put has one event, for a connection that there is or was.
- `CommitInv`: at most one task is between the decision to commit and the end of
  the turn, nobody before `commitStarted`, and the commit is written exactly when
  that task is past it. So a second finalizer finds nothing to do.
- `TerminalInv`: nothing terminal was published of a turn whose record is
  undecided.
- `FailInv`: while a workload is at work its turn has neither failed nor begun to
  commit, and from the failure to the commit the fail_closed intent is on the way:
  among the turn's intents until `_run_commit` reads them, and then among those
  that the commit was given.
- `StreamInv`: one publisher at most waits to put an event of the turn, and for
  the connection that listened from the beginning, `Flows`: each queued event
  obeys the law behind the law checker's state and the events before it (`Fits`),
  so does a blocked one behind the whole queue, and the bus state is what the
  checker will reach behind both (`Reaches`): its next number is beyond all of
  them, every number in between was sent or will be announced as dropped, and its
  terminal and commit flags are what was sent.

A step of a task touches one turn (`Frame`): `FrameInv` derives from that, once,
that the other turns keep their parts, so that the lemma of an action looks at
its own turn only. `PublishOn` is used by seven actions; `Sends` says what it
does without its nested conditions, `PublishFrame` and `PublishStream` what that
means for the frame and the stream. `Receive`, `Disconnect`, `Subscribe` and
`Evict` belong to no task, and `BeginTurn` makes a turn out of nothing: they have
arguments of their own (`Idles`, `Begins`).

### Run ledgers

| Theorem | Statement |
|---|---|
| `LedgerTypeCorrect` | `Spec => []TypeOK` |
| `LogSaysOnce` | `Spec => []OnceInLog` |
| `CallsArePaired` | `Spec => []CallsPaired` |
| `ReceiptsAreBacked` | `Spec => []ReceiptsBacked` |
| `WinnersAreAccounted` | `Spec => []WinnersAccounted` |
| `OutcomesReachTheLog` | `Spec => []OutcomeLogged` |
| `RecoveryKeepsOutcomes` | `Spec => RecoveryNeverReopens` |
| `CallsAreOrphanedOnlyByFailure` | `MaxInvocations % 2 = 0` implies `Spec => []OrphanNeedsFailure` |

Assumptions: `OutcomesAreFinal`, `FailedIsAnOutcome`, `FilesAreOrdered` (the
files are numbered in the order they are read) and the bounds; operations and
payloads are any sets, rows any sequence in which files are in order.
`ReceiptsAreBacked` says of every receipt, replayed rows and reruns included,
that it names the call and the result of its own operation, that receipts of
one operation name the same events, and that their numbers grow. The last theorem has its
hypothesis because the property is false without it: the limit counts calls and
results alike, and an odd one falls between a call and its result. The default,
200, is even, and so is the limit of the run.

What a replay reads is the file up to the first torn frame (`ReplayCut`), and an
append shows in it only while there is none (`ReplayAppend`). The invariant has
four parts.

- `LogInv`: the replayed log is in order (`LogOK`); each entry of the registry is
  a result in the log or belongs to the call that is still open; receipts are
  backed by the events of their operation, and their numbers grow. Most steps are `Quiet`: they append nothing that is a
  call or a result.
- `MatInv`: while the materializer works, its table of ranges is what the log
  says, and between the reservation and the append of a result its call is open
  and the reserved number is that of the next event. A torn log needs care here:
  a call appended behind a torn frame is not in the replay, so its result is
  refused.
- `IntentInv`: one row per operation in the intent file, the rows that recovery
  holds are rows of the file until resolved, and a finalizing row has an outcome.
  `RecoveryNeverReopens` follows: a recovered `start_run` finds the row there.
- `OutcomeInv`: while no intent is lost and the log is not torn, an outcome in
  SQLite is in the log or some row still carries it (`Carried`), in the file and
  in what recovery holds; a row that claims to be in the log is right (`Honest`).
  This is why an intent may be cleared, and why recovery may drop one.

`Undisturbed` speaks of sessions without crash or error: calls and results
alternate, so the number of invocations is even outside of an invocation.

### Cards

| Theorem | Statement |
|---|---|
| `EpicTypeCorrect` | `Spec => []TypeOK` |
| `DoneCardsAreEarned` | `Spec => []DoneIsEarned` |
| `BuildsFollowDependencies` | `Spec => []BuildOrder` |
| `LoopNeverExhausts` | `Card` finite: `Spec => []NeverExhausts` |

A turn works on a copy of its card and writes it back later, so "done only by the
guard's word" must hold of every copy as well as of every row: `HeldIsEarned` and
`RowsAreEarned`. `TurnsFormed` and `RunsFormed` say which copies a turn and a run
hold at each place, `AloneIsAlone` that a run that counts as alone has no turns
of earlier runs beside it, and `SolePlans` that such a run plans with the rows as
they are and builds nothing that depends on a card one of its turns works on.

The bound on iterations needs a measure that each round of the loop decreases.
`Work` is the number of rounds a card may still need: a build and a review for
the attempt it is in and for every retry left to the guard. `Left` is what a
turn under way can leave of it, as a function of the turn alone. A sum over the
cards would call for an induction, so the rounds are the elements of a set,
`Tokens(r)`, one pair of a number and a card for each, inside
`1..Rounds \X Card`; a subset that is not the whole has fewer elements, which
the library's theorems on cardinality give without induction. `RunsFrugal` says
that iterations and tokens together stay within `Rounds * Cardinality(Card)`,
with one more allowed between the read and the plan it is for. Every step of a
turn either ends the run or `Pays`: it leaves no token that was not there
(`TurnStepSettles`, one lemma per action); a plan that starts turns or
propagates blocks loses at least one (`PlanTurnsSpend`, `PlanBlocksSpend`). For
that, `Knows` says what a turn may rely on of its row, which nobody else writes
while the run is alone: a build turn's row keeps the retries of its copy, and no
tool reopens a card, because the dispatcher's gate judges against the status of
the turn. TLC checked `RunsFrugal` on the whole instance of `card_scheduling`
(2.8 million states).

### Only model-checked

- Liveness, which is out of the prover's reach: `DeadHolderIsReplaced`,
  `RunSettles`, `TurnSettles`.

## 5. Plan

Every invariant and action property that a run checks has its theorem.

Models to add: orphan discovery and the port allocator of the sandbox part, the
composition of a claim in the coordinator with the control plane's run and
attempt records, archiving of cards, the memory commit buffer.

### Not modelled, and why

- Nervous-system kernel: its calls are synchronous and run to the end inside an
  async route, so they are atomic on the event loop; what is left are sequences
  of legal calls. Planned after the proofs.
- Kernel state promotion and the memory commit buffer: single-writer file
  protocols, planned.
- Control-plane domain beyond the lease and reservation records that the
  coordinator and sandbox creation use.
- Engine approvals: the pending-gate requests of card turns; a turn that meets
  one fails (`TurnFails`) and what the operator answers starts another run.
- Model output, prompting, formatting and HTTP plumbing carry no protocol state;
  marshaller, rulesim and reforger are single-process batch tools; extensions
  are import and subprocess handling, but for the turns they run; the scripts,
  benchmarks and governance checks under `scripts/` and `tools/` read files and
  print verdicts.
