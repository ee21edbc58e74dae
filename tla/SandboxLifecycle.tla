------------------------- MODULE SandboxLifecycle -------------------------
(***************************************************************************)
(* One sandbox, its durable record, its Docker resources, and the          *)
(* orchestrator workers that create, observe, reconcile, delete and clean  *)
(* it up concurrently.                                                     *)
(*                                                                         *)
(* A worker is one asyncio task of an orchestrator process (an instance);  *)
(* several workers may belong to one instance and share its identity.      *)
(* Every action is what a worker does between two awaits that other        *)
(* workers can interleave with: a database transaction or a Docker         *)
(* command.  A read that is followed at once by the compare-and-set on the *)
(* version just read is one action, because a write that slips in between  *)
(* only makes the compare-and-set fail.  Every such failure (lost CAS,     *)
(* rejected fence, illegal transition, I/O error, cancelled task) unwinds  *)
(* the operation, as does finding nothing to do: action Unwind.            *)
(***************************************************************************)
EXTENDS SandboxRecord

CONSTANTS
  Worker,          \* orchestrator tasks
  InstanceOf,      \* the process each task runs in
  Operation,       \* the operations the tasks may be asked to run
  HardMaxAge,      \* ttl_hard_max_age_hours
  MaxTime,         \* bound: the clock stops here
  MaxVersion,      \* bound: no record is written past this version
  PsFails          \* may the health check's "docker ps" exit non-zero?

ASSUME LifecycleAssumption ==
  /\ InstanceOf \in [Worker -> Instance]
  /\ Operation \subseteq {"create", "health", "reconcile", "reacquire",
                          "delete", "sweep", "crash"}
  /\ HardMaxAge \in Nat /\ MaxTime \in Nat /\ MaxVersion \in Nat
  /\ PsFails \in BOOLEAN

VARIABLES
  rec,        \* the row of sandbox_lifecycle_records
  reserved,   \* the allocation reservation of the sandbox id is published
  docker,     \* what exists of the compose project, see Resources
  now,        \* wall clock
  alive,      \* instances that have not crashed
  dedupe,     \* sandbox_operation_dedupe rows that can be hit again
  pc,         \* where each worker stands
  snap,       \* the record a worker holds in a local variable
  seen,       \* whether its last Docker observation found resources
  at,         \* the observed_at it took
  plan,       \* the terminal outcome it is recording
  ret         \* where a health check returns to when it does not succeed

store  == <<rec, reserved, dedupe>>
locals == <<pc, snap, seen, at, plan, ret>>
vars   == <<rec, reserved, docker, now, alive, dedupe, pc, snap, seen, at,
            plan, ret>>

-----------------------------------------------------------------------------
\* The compose project: nothing; only networks or volumes; containers too, not
\* all core services running; containers, all core services running.
Resources == {"absent", "residue", "degraded", "up"}

Executing == {"x_attempt", "x_reread", "x_before", "x_inventory", "x_reread2",
              "x_down", "x_after", "x_complete", "x_failed"}

Location ==
  {"idle", "reserve", "save", "accept", "deploy", "await", "start_failed",
   "flag", "h_observe", "h_inventory", "h_record", "h_verify", "h_healthy",
   "evidence", "terminalize", "schedule", "r_observe", "r_health", "r_decide",
   "r_starting", "r_reread", "r_started", "reconcile", "a_observe",
   "a_inventory", "a_take", "d_schedule", "d_claim", "s_schedule", "s_claim"}
  \cup Executing

Outcome == [event  : LifecycleEvent,
            reason : TerminalReason,
            fence  : Fence,
            due    : Time,
            next   : {"idle", "schedule", "d_schedule"}]

NoOutcome == [event |-> "cleanup_starts", reason |-> "none",
              fence |-> NoFence, due |-> NoTime, next |-> "idle"]

\* The operation ids that two workers can present with the same payload (no
\* timestamp or token in it), and their rows: the id, the record_version that
\* is part of the id or of the payload, and the claimant in a claim's payload.
SharedId == {"inventory", "reacquire-inventory", "reconcile-inventory",
             "cleanup-inventory", "cleanup-attempt", "cleanup-scheduled",
             "requires-reconciliation-clear"}

Row(id, version) == <<id, version, NoInstance>>
ClaimRow(version, i) == <<"cleanup-claim", version, i>>

DedupeRow == (SharedId \X Nat \X {NoInstance})
               \cup ({"cleanup-claim"} \X Nat \X Instance)

TypeOK ==
  /\ rec \in SandboxLifecycleRecord
  /\ reserved \in BOOLEAN
  /\ docker \in Resources
  /\ now \in Nat
  /\ alive \subseteq Instance
  /\ dedupe \subseteq DedupeRow
  /\ pc \in [Worker -> Location]
  /\ snap \in [Worker -> SandboxLifecycleRecord]
  /\ seen \in [Worker -> BOOLEAN]
  /\ at \in [Worker -> Nat]
  /\ plan \in [Worker -> Outcome]
  /\ ret \in [Worker -> {"idle", "await"}]

Init ==
  /\ rec = NoRecord
  /\ reserved = FALSE
  /\ docker = "absent"
  /\ now = 0
  /\ alive = Instance
  /\ dedupe = {}
  /\ pc = [w \in Worker |-> "idle"]
  /\ snap = [w \in Worker |-> NoRecord]
  /\ seen = [w \in Worker |-> FALSE]
  /\ at = [w \in Worker |-> 0]
  /\ plan = [w \in Worker |-> NoOutcome]
  /\ ret = [w \in Worker |-> "idle"]

-----------------------------------------------------------------------------
(* Control flow of a worker.                                                *)
Me(w) == InstanceOf[w]

At(w, p) == pc[w] = p /\ Me(w) \in alive

\* An operation is requested of an idle worker.
Begin(w, op) == At(w, "idle") /\ op \in Operation

\* Forget the locals: the coroutine has returned to p.
Return(w, p) ==
  /\ pc'   = [pc EXCEPT ![w] = p]
  /\ snap' = [snap EXCEPT ![w] = NoRecord]
  /\ seen' = [seen EXCEPT ![w] = FALSE]
  /\ at'   = [at EXCEPT ![w] = 0]
  /\ plan' = [plan EXCEPT ![w] = NoOutcome]
  /\ ret'  = [ret EXCEPT ![w] = "idle"]

Goto(w, p) == pc' = [pc EXCEPT ![w] = p]
Hold(w, r) == snap' = [snap EXCEPT ![w] = r]

\* Every mutation is bounded by MaxVersion so that the model is finite.
Write(r) == rec' = r /\ rec.version < MaxVersion

\* _apply_record_copy: the held record with an update is stored if the row
\* still has its version, owner, epoch and, where the caller names one, cleanup
\* state.  An operation that was already applied is "reused": nothing is
\* written and the caller goes on to read the record again.
ApplyCopy(w, id, cleanup, next) ==
  \/ /\ CanApplyCopy(rec, snap[w]) /\ rec.cleanup \in cleanup
     /\ Write([next EXCEPT !.version = @ + 1])
     /\ dedupe' = dedupe \cup {Row(id, snap[w].version)}
  \/ /\ Row(id, snap[w].version) \in dedupe
     /\ UNCHANGED <<rec, dedupe>>

\* The caller continues with terminal_outcomes._record_terminal_outcome.
RecordOutcome(w, event, reason, fence, due, next) ==
  /\ plan' = [plan EXCEPT ![w] = [event |-> event, reason |-> reason,
                                  fence |-> fence, due |-> due, next |-> next]]
  /\ Goto(w, "evidence")

-----------------------------------------------------------------------------
(* create_sandbox.                                                          *)

\* create_sandbox: refuse an id that already has a record.
CreateCheck(w) ==
  /\ Begin(w, "create") /\ rec.state = "none"
  /\ Goto(w, "reserve")
  /\ UNCHANGED <<store, docker, now, alive, snap, seen, at, plan, ret>>

\* Mutant: a reservation that is already active is not refused.
CreateReserveAgain(w) ==
  /\ At(w, "reserve")
  /\ reserved' = TRUE
  /\ Goto(w, "save")
  /\ UNCHANGED <<rec, dedupe, docker, now, alive, snap, seen, at, plan, ret>>

\* publish_allocation_reservation: the (reservation_id, status) key admits one
\* ACTIVE reservation; a second publication raises.
CreateReserve(w) ==
  /\ At(w, "reserve") /\ ~ reserved
  /\ reserved' = TRUE
  /\ Goto(w, "save")
  /\ UNCHANGED <<rec, dedupe, docker, now, alive, snap, seen, at, plan, ret>>

\* create_record: INSERT OR REPLACE of a fresh record.
CreateSave(w) ==
  /\ At(w, "save")
  /\ Write(NewRecord(Me(w), now))
  /\ Goto(w, "accept")
  /\ UNCHANGED <<reserved, dedupe, docker, now, alive, snap, seen, at, plan, ret>>

\* mark_create_accepted.
CreateAccept(w) ==
  /\ At(w, "accept")
  /\ CanTransition(rec, 1, <<Me(w), 1>>, "create_accepted", "starting",
                   "none", "keep")
  /\ Write(Transitioned(rec, "starting", "none", "keep", FALSE, NoTime))
  /\ Goto(w, "deploy")
  /\ UNCHANGED <<reserved, dedupe, docker, now, alive, snap, seen, at, plan, ret>>

\* _deploy_sandbox: docker-compose up.  A non-zero exit may leave part of the
\* project behind and raises RuntimeError; an OSError leaves the outcome unknown.
Deploy(w) ==
  /\ At(w, "deploy")
  /\ \/ docker' \in {"up", "degraded"} /\ Goto(w, "await")
     \/ docker' \in Resources \ {"up"} /\ Goto(w, "start_failed")
     \/ docker' \in Resources /\ Goto(w, "flag")
  /\ UNCHANGED <<store, now, alive, snap, seen, at, plan, ret>>

\* _wait_for_initial_health gives up, or its record read raises.
AwaitGivesUp(w) ==
  /\ At(w, "await")
  /\ \/ Goto(w, "start_failed")
     \/ Goto(w, "flag")
  /\ UNCHANGED <<store, docker, now, alive, snap, seen, at, plan, ret>>

\* mark_start_failed: only a record that is still starting is terminalized.
MarkStartFailed(w) ==
  /\ At(w, "start_failed")
  /\ IF rec.state = "starting"
     THEN /\ RecordOutcome(w, "startup_failure", "start_failed", FenceOf(rec),
                           now + CleanupDelta("start_failed"), "idle")
          /\ UNCHANGED <<snap, seen, at, ret>>
     ELSE Return(w, "idle")
  /\ UNCHANGED <<store, docker, now, alive>>

\* mark_requires_reconciliation.
MarkRequiresReconciliation(w) ==
  /\ At(w, "flag")
  /\ Write(WithBlocked(rec, TRUE))
  /\ Return(w, "idle")
  /\ UNCHANGED <<reserved, dedupe, docker, now, alive>>

Create(w) ==
  \/ CreateCheck(w) \/ CreateReserve(w) \/ CreateSave(w) \/ CreateAccept(w)
  \/ Deploy(w) \/ AwaitGivesUp(w) \/ MarkStartFailed(w)
  \/ MarkRequiresReconciliation(w)

-----------------------------------------------------------------------------
(* health_check, called on its own or by _wait_for_initial_health.          *)

HealthRead(w) ==
  /\ \/ Begin(w, "health") /\ ret' = [ret EXCEPT ![w] = "idle"]
     \/ At(w, "await") /\ ret' = [ret EXCEPT ![w] = "await"]
  /\ rec.state # "none"
  /\ Hold(w, rec)
  /\ Goto(w, "h_observe")
  /\ UNCHANGED <<store, docker, now, alive, seen, at, plan>>

\* What list_project_container_rows may report.  "docker ps -a" lists containers
\* only, so a project of networks and volumes reads as no rows, and so does a
\* command that exits non-zero.
ObservedRows ==
  {IF docker = "residue" THEN "absent" ELSE docker}
    \cup (IF PsFails THEN {"absent"} ELSE {})

\* observe_runtime_health: the owner's assessment of an active record says
\* restart loop (whether it does depends on restart counts and health over
\* time, and is a free choice here).
RestartLoop(w, rows, when, next) ==
  /\ rows # "absent"
  /\ rec.state = "active" /\ rec.owner \in {NoInstance, Me(w)}
  /\ RecordOutcome(w, "workflow_terminal_outcome", "restart_loop",
                   <<Me(w), rec.epoch>>,
                   when + CleanupDelta("restart_loop"), next)

\* The branch a health check takes on the containers it saw and the record it
\* had read before looking; the assessment reads the record once more and ends
\* the check when it is terminal.
HealthObserve(w) ==
  /\ At(w, "h_observe")
  /\ at' = [at EXCEPT ![w] = now]
  /\ seen' = [seen EXCEPT ![w] = FALSE]
  /\ \E rows \in ObservedRows :
       \/ RestartLoop(w, rows, now, "idle") /\ UNCHANGED <<snap, ret>>
       \/ /\ \/ /\ rows = "up" /\ rec.state # "terminal"
                /\ Goto(w, IF snap[w].state = "starting" THEN "h_inventory"
                                                         ELSE "h_healthy")
             \/ /\ rows = "absent" /\ snap[w].state = "active"
                /\ Goto(w, "reconcile")
          /\ UNCHANGED <<snap, plan, ret>>
  /\ UNCHANGED <<store, docker, now, alive>>

\* mark_deployment_verified, first half: read the record, then record the
\* inventory.  The operation id carries no version: once used, it is refused
\* for every record but the one it was used on.
InventoryRead(w) ==
  /\ At(w, "h_inventory")
  /\ Hold(w, rec) /\ Goto(w, "h_record")
  /\ UNCHANGED <<store, docker, now, alive, seen, at, plan, ret>>

RecordInventory(w) ==
  /\ At(w, "h_record")
  /\ \A v \in 0 .. rec.version :
       Row("inventory", v) \in dedupe => v = snap[w].version
  /\ ApplyCopy(w, "inventory", CleanupState,
               [snap[w] EXCEPT !.inventory = docker \in {"degraded", "up"}])
  /\ Goto(w, "h_verify")
  /\ UNCHANGED <<reserved, docker, now, alive, snap, seen, at, plan, ret>>

\* mark_deployment_verified, second half: only the creating owner activates.
MarkVerified(w) ==
  /\ At(w, "h_verify")
  /\ CanTransition(rec, rec.version, <<Me(w), 1>>, "health_verified", "active",
                   "none", "keep")
  /\ Write(Transitioned(rec, "active", "none", "keep", FALSE, NoTime))
  /\ Return(w, "idle")
  /\ UNCHANGED <<reserved, dedupe, docker, now, alive>>

\* Mutant: the heartbeat of a record that was active when the check started
\* makes it active again.
HandleHealthyRevives(w) ==
  /\ At(w, "h_healthy")
  /\ snap[w].state = "active" /\ snap[w].owner = Me(w)
  /\ Write([RenewedLease(rec, now) EXCEPT !.state = snap[w].state])
  /\ Return(w, "idle")
  /\ UNCHANGED <<reserved, dedupe, docker, now, alive>>

\* handle_healthy: activate a starting record, renew the owner's lease on an
\* active one, and do nothing otherwise.
HandleHealthy(w) ==
  /\ At(w, "h_healthy")
  /\ \/ /\ CanTransition(rec, rec.version, FenceOf(rec), "health_verified",
                         "active", "none", "keep")
        /\ Write(Transitioned(rec, "active", "none", "keep", FALSE, NoTime))
     \/ /\ rec.state = "active"
        /\ CanRenewLease(rec, rec.version, Me(w))
        /\ Write(RenewedLease(rec, now))
     \/ rec.state \notin {"starting", "active"} /\ UNCHANGED rec
  /\ Return(w, "idle")
  /\ UNCHANGED <<reserved, dedupe, docker, now, alive>>

HealthCheck(w) ==
  \/ HealthRead(w) \/ HealthObserve(w) \/ InventoryRead(w)
  \/ RecordInventory(w) \/ MarkVerified(w) \/ HandleHealthy(w)

-----------------------------------------------------------------------------
(* _record_terminal_outcome: write the evidence reference, then read the    *)
(* record again and transition whatever version it has by then.             *)

Evidence(w) ==
  /\ At(w, "evidence")
  /\ CanApplyCopy(rec, rec)
  /\ Write([rec EXCEPT !.evidence = TRUE, !.version = @ + 1])
  /\ Goto(w, "terminalize")
  /\ UNCHANGED <<reserved, dedupe, docker, now, alive, snap, seen, at, plan, ret>>

Terminalize(w) ==
  /\ At(w, "terminalize")
  /\ CanTransition(rec, rec.version, plan[w].fence, plan[w].event, "terminal",
                   plan[w].reason, "keep")
  /\ Write(Transitioned(rec, "terminal", plan[w].reason, "keep", TRUE,
                        plan[w].due))
  /\ IF plan[w].next = "idle"
     THEN Return(w, "idle")
     ELSE /\ Hold(w, rec') /\ Goto(w, plan[w].next)
          /\ plan' = [plan EXCEPT ![w] = NoOutcome]
          /\ UNCHANGED <<seen, at, ret>>
  /\ UNCHANGED <<reserved, dedupe, docker, now, alive>>

TerminalOutcome(w) == Evidence(w) \/ Terminalize(w)

-----------------------------------------------------------------------------
(* Cleanup scheduling and claiming.                                         *)

\* The CLEANUP_SCHEDULED transition from the record the worker holds.
ScheduleHeld(w) ==
  /\ CanTransition(rec, snap[w].version, NoFence, "cleanup_scheduled",
                   "terminal", "none", "scheduled")
  /\ Write(Transitioned(rec, "terminal", "none", "scheduled", FALSE,
                        IF snap[w].due = NoTime THEN at[w] ELSE snap[w].due))

\* The same under the id "cleanup-scheduled:<sandbox>:<version>", which deletes
\* and reconciliations share: a task that lost the race is told "reused".
ScheduleShared(w) ==
  \/ /\ ScheduleHeld(w)
     /\ dedupe' = dedupe \cup {Row("cleanup-scheduled", snap[w].version)}
  \/ /\ Row("cleanup-scheduled", snap[w].version) \in dedupe
     /\ snap[w].due # NoTime
     /\ UNCHANGED <<rec, dedupe>>

\* _schedule_cleanup_if_needed after a reconciliation terminalized the record.
ScheduleIfNeeded(w) ==
  /\ At(w, "schedule")
  /\ IF snap[w].state = "terminal" /\ snap[w].cleanup = "none"
     THEN ScheduleShared(w) ELSE UNCHANGED <<rec, dedupe>>
  /\ Return(w, "idle")
  /\ UNCHANGED <<reserved, docker, now, alive>>

\* delete_sandbox: a record that needs reconciliation is refused; an active or
\* reclaimable one is terminalized first.
DeleteRead(w) ==
  /\ Begin(w, "delete") /\ ~ rec.blocked
  /\ at' = [at EXCEPT ![w] = now]
  /\ \/ /\ rec.state = "active"
        /\ RecordOutcome(w, "workflow_terminal_outcome", "canceled",
                         FenceOf(rec), now, "d_schedule")
        /\ UNCHANGED snap
     \/ /\ rec.state = "reclaimable"
        /\ RecordOutcome(w, "reclaim_ttl_elapsed", "lease_expired", NoFence,
                         now, "d_schedule")
        /\ UNCHANGED snap
     \/ /\ rec.state = "terminal"
        /\ Hold(w, rec) /\ Goto(w, "d_schedule")
        /\ UNCHANGED plan
  /\ UNCHANGED <<store, docker, now, alive, seen, ret>>

DeleteSchedule(w) ==
  /\ At(w, "d_schedule")
  /\ IF snap[w].cleanup \in {"none", "failed"}
     THEN ScheduleShared(w) /\ Hold(w, rec')
     ELSE UNCHANGED <<rec, dedupe, snap>>
  /\ Goto(w, "d_claim")
  /\ UNCHANGED <<reserved, docker, now, alive, seen, at, plan, ret>>

\* sweep_due_cleanups: read a due candidate.
SweepRead(w) ==
  /\ Begin(w, "sweep") /\ DueCandidate(rec, now)
  /\ Hold(w, rec)
  /\ at' = [at EXCEPT ![w] = now]
  /\ Goto(w, IF rec.cleanup = "scheduled" THEN "s_claim" ELSE "s_schedule")
  /\ UNCHANGED <<store, docker, now, alive, seen, plan, ret>>

SweepSchedule(w) ==
  /\ At(w, "s_schedule")
  /\ ScheduleHeld(w) /\ Hold(w, rec')
  /\ Goto(w, "s_claim")
  /\ UNCHANGED <<reserved, dedupe, docker, now, alive, seen, at, plan, ret>>

\* claim_cleanup.  A delete's operation id is the same for every task of an
\* instance that claims from one version, so a second task gets the first one's
\* claim back as its own; a sweep's id carries a fresh token.
ClaimCleanup(w) ==
  /\ At(w, "d_claim") \/ At(w, "s_claim")
  /\ \/ /\ CanClaimCleanup(rec, snap[w].version)
        /\ Write(ClaimedCleanup(rec, Me(w)))
        /\ dedupe' = IF pc[w] = "d_claim"
                     THEN dedupe \cup {ClaimRow(snap[w].version, Me(w))}
                     ELSE dedupe
     \/ /\ pc[w] = "d_claim" /\ ClaimRow(snap[w].version, Me(w)) \in dedupe
        /\ UNCHANGED <<rec, dedupe>>
  /\ Hold(w, rec') /\ Goto(w, "x_attempt")
  /\ UNCHANGED <<reserved, docker, now, alive, seen, at, plan, ret>>

Claim(w) ==
  \/ ScheduleIfNeeded(w) \/ DeleteRead(w) \/ DeleteSchedule(w) \/ SweepRead(w)
  \/ SweepSchedule(w) \/ ClaimCleanup(w)

-----------------------------------------------------------------------------
(* execute_claimed_cleanup.                                                 *)

\* Count the attempt on the claimed record.
CleanupAttempt(w) ==
  /\ At(w, "x_attempt")
  /\ ApplyCopy(w, "cleanup-attempt", {"in_progress"}, snap[w])
  /\ Goto(w, "x_reread")
  /\ UNCHANGED <<reserved, docker, now, alive, snap, seen, at, plan, ret>>

\* The re-read that ends _apply_record_copy.
CleanupReread(w) ==
  /\ \/ At(w, "x_reread") /\ Goto(w, "x_before")
     \/ At(w, "x_reread2") /\ Goto(w, "x_down")
  /\ Hold(w, rec)
  /\ UNCHANGED <<store, docker, now, alive, seen, at, plan, ret>>

\* Observe the project before touching it; an observation error fails the
\* attempt, and resources are recorded first when the inventory lists no
\* containers.  Those seen may be networks and volumes alone.
ObserveBefore(w) ==
  /\ At(w, "x_before")
  /\ \/ /\ seen' = [seen EXCEPT ![w] = (docker # "absent")]
        /\ Goto(w, IF docker # "absent" /\ ~ snap[w].inventory
                   THEN "x_inventory" ELSE "x_down")
     \/ Goto(w, "x_failed") /\ UNCHANGED seen
  /\ UNCHANGED <<store, docker, now, alive, snap, at, plan, ret>>

CleanupInventory(w) ==
  /\ At(w, "x_inventory")
  /\ \E listed \in BOOLEAN :
       ApplyCopy(w, "cleanup-inventory", {"in_progress"},
                 [snap[w] EXCEPT !.inventory = listed])
  /\ Goto(w, "x_reread2")
  /\ UNCHANGED <<reserved, docker, now, alive, snap, seen, at, plan, ret>>

\* What a removal may leave of the resources d.
Remains(d) ==
  CASE d = "absent"  -> {"absent"}
    [] d = "residue" -> {"absent", "residue"}
    [] OTHER         -> {"absent", "residue", "degraded"}

\* Authority decision and removal: compose down, the label-scoped fallback when
\* the compose file is gone and resources were seen, or blocked.  The commands'
\* exit status is not consulted: any part of the project may survive.
TearDown(w) ==
  /\ At(w, "x_down")
  /\ \/ /\ docker' \in {docker} \cup Remains(docker)
        /\ Goto(w, "x_after")
     \/ UNCHANGED docker /\ Goto(w, "x_failed")
  /\ UNCHANGED <<store, now, alive, snap, seen, at, plan, ret>>

\* Mutant: the command's own success is taken for absence.
ObserveAfterTrusting(w) ==
  /\ At(w, "x_after")
  /\ Goto(w, "x_complete") \/ Goto(w, "x_failed")
  /\ UNCHANGED <<store, docker, now, alive, snap, seen, at, plan, ret>>

\* verify_absence: anything observed, or no observation, fails the attempt.
ObserveAfter(w) ==
  /\ At(w, "x_after")
  /\ \/ docker = "absent" /\ Goto(w, "x_complete")
     \/ Goto(w, "x_failed")
  /\ UNCHANGED <<store, docker, now, alive, snap, seen, at, plan, ret>>

\* Complete at whatever version the record has now.
CompleteCleanup(w) ==
  /\ At(w, "x_complete")
  /\ CanTransition(rec, rec.version, NoFence, "cleanup_verified_complete",
                   "cleaned", "none", "completed")
  /\ Write(Transitioned(rec, "cleaned", "none", "completed", FALSE, NoTime))
  /\ Return(w, "idle")
  /\ UNCHANGED <<reserved, dedupe, docker, now, alive>>

\* _mark_cleanup_failed.
MarkCleanupFailed(w) ==
  /\ At(w, "x_failed")
  /\ CanApplyCopy(rec, snap[w]) /\ rec.cleanup = "in_progress"
  /\ Write([snap[w] EXCEPT !.cleanup = "failed", !.version = @ + 1])
  /\ Return(w, "idle")
  /\ UNCHANGED <<reserved, dedupe, docker, now, alive>>

ExecuteCleanup(w) ==
  \/ CleanupAttempt(w) \/ CleanupReread(w) \/ ObserveBefore(w)
  \/ CleanupInventory(w) \/ TearDown(w) \/ ObserveAfter(w)
  \/ CompleteCleanup(w) \/ MarkCleanupFailed(w)

-----------------------------------------------------------------------------
(* reconcile_sandbox.                                                       *)

ReconcileRead(w) ==
  /\ Begin(w, "reconcile") /\ rec.state # "none"
  /\ at' = [at EXCEPT ![w] = now]
  /\ IF /\ now >= rec.created + HardMaxAge
        /\ rec.state \notin {"terminal", "cleaned", "orphaned"}
     THEN /\ RecordOutcome(w, "hard_max_age_reached", "hard_max_age",
                           FenceOf(rec), now, "schedule")
          /\ UNCHANGED snap
     ELSE /\ Hold(w, rec) /\ Goto(w, "r_observe")
          /\ UNCHANGED plan
  /\ UNCHANGED <<store, docker, now, alive, seen, ret>>

ReconcileObserve(w) ==
  /\ At(w, "r_observe")
  /\ seen' = [seen EXCEPT ![w] = (docker # "absent")]
  /\ Goto(w, IF snap[w].state = "active" /\ docker # "absent"
             THEN "r_health" ELSE "r_decide")
  /\ UNCHANGED <<store, docker, now, alive, snap, at, plan, ret>>

\* _terminalize_active_restart_loop_if_needed: the owner's assessment first,
\* then a runtime that is not fully running; otherwise read the record again.
ReconcileHealth(w) ==
  /\ At(w, "r_health")
  /\ \E rows \in ObservedRows :
       \/ RestartLoop(w, rows, at[w], "schedule") /\ UNCHANGED snap
       \/ /\ rows = "degraded"
          /\ RecordOutcome(w, "workflow_terminal_outcome", "restart_loop",
                           FenceOf(snap[w]),
                           at[w] + CleanupDelta("restart_loop"), "schedule")
          /\ UNCHANGED snap
       \/ /\ rows # "degraded"
          /\ Hold(w, rec) /\ Goto(w, "r_decide")
          /\ UNCHANGED plan
  /\ UNCHANGED <<store, docker, now, alive, seen, at, ret>>

\* _clear_requires_reconciliation, then recover by the state of the record it
\* returns, which is the current row when another worker cleared the flag.
RecoverBlock(w) ==
  /\ At(w, "r_decide") /\ snap[w].blocked
  /\ \/ /\ rec.version = snap[w].version
        /\ Write(WithBlocked(rec, FALSE))
        /\ dedupe' = dedupe \cup
             {Row("requires-reconciliation-clear", snap[w].version)}
     \/ /\ Row("requires-reconciliation-clear", snap[w].version) \in dedupe
        /\ UNCHANGED <<rec, dedupe>>
  /\ \/ /\ rec.state = "starting" /\ Goto(w, "r_starting")
        /\ Hold(w, rec') /\ UNCHANGED <<seen, at, plan, ret>>
     \/ /\ rec.state \in {"active", "terminal"} /\ Goto(w, "reconcile")
        /\ Hold(w, rec') /\ UNCHANGED <<seen, at, plan, ret>>
     \/ /\ rec.state \notin {"starting", "active", "terminal"}
        /\ Return(w, "idle")
  /\ UNCHANGED <<reserved, docker, now, alive>>

\* The rest of reconcile_sandbox, on the record the worker holds.
ReconcileDecide(w) ==
  /\ At(w, "r_decide") /\ ~ snap[w].blocked
  /\ \/ /\ snap[w].state = "reclaimable" /\ IsDue(snap[w].due, at[w])
        /\ RecordOutcome(w, "reclaim_ttl_elapsed", "lease_expired", NoFence,
                         at[w], "schedule")
        /\ UNCHANGED <<snap, seen, at, ret>>
     \/ /\ snap[w].state \in {"active", "terminal"}
        /\ Goto(w, "reconcile")
        /\ UNCHANGED <<snap, seen, at, plan, ret>>
     \/ /\ snap[w].state = "reclaimable" => ~ IsDue(snap[w].due, at[w])
        /\ snap[w].state \notin {"active", "terminal"}
        /\ Return(w, "idle")
  /\ UNCHANGED <<store, docker, now, alive>>

\* _recover_starting_record: an absent runtime failed to start; a present one
\* has its inventory recorded before its services are looked at.
RecoverStarting(w) ==
  /\ At(w, "r_starting")
  /\ IF seen[w]
     THEN /\ \E listed \in BOOLEAN :
               ApplyCopy(w, "reconcile-inventory", CleanupState,
                         [snap[w] EXCEPT !.inventory = listed])
          /\ Goto(w, "r_reread") /\ UNCHANGED plan
     ELSE /\ RecordOutcome(w, "startup_failure", "start_failed",
                           FenceOf(snap[w]),
                           at[w] + CleanupDelta("start_failed"), "schedule")
          /\ UNCHANGED <<rec, dedupe>>
  /\ UNCHANGED <<reserved, docker, now, alive, snap, seen, at, ret>>

RecoverReread(w) ==
  /\ At(w, "r_reread")
  /\ Hold(w, rec) /\ Goto(w, "r_started")
  /\ UNCHANGED <<store, docker, now, alive, seen, at, plan, ret>>

RecoverStarted(w) ==
  /\ At(w, "r_started")
  /\ \E rows \in ObservedRows :
       IF rows = "up"
       THEN /\ CanTransition(rec, snap[w].version, NoFence, "health_verified",
                             "active", "none", "keep")
            /\ Write(Transitioned(rec, "active", "none", "keep", FALSE, NoTime))
            /\ Return(w, "idle")
       ELSE /\ RecordOutcome(w, "startup_failure", "start_failed",
                             FenceOf(snap[w]),
                             at[w] + CleanupDelta("start_failed"), "schedule")
            /\ UNCHANGED <<rec, snap, seen, at, ret>>
  /\ UNCHANGED <<reserved, dedupe, docker, now, alive>>

\* reconcile_existing_record: read the record again and act on its class under
\* the Docker observation the worker made earlier.
Planned(w) == Classify(rec, seen[w], at[w])

ReconcileExisting(w) ==
  /\ At(w, "reconcile")
  /\ \/ /\ Planned(w) = "reclaimable"
        /\ CanTransition(rec, rec.version, NoFence, "lease_expired",
                         "reclaimable", "lease_expired", "keep")
        /\ Write(Transitioned(rec, "reclaimable", "lease_expired", "keep",
                              FALSE, at[w] + ReclaimTTL))
     \/ /\ Planned(w) = "terminal_lost_runtime"
        /\ CanTransition(rec, rec.version, NoFence, "runtime_missing",
                         "terminal", "lost_runtime", "keep")
        /\ Write(Transitioned(rec, "terminal", "lost_runtime", "keep", FALSE,
                              at[w] + CleanupDelta("lost_runtime")))
     \/ /\ Planned(w) = "cleaned_externally"
        /\ CanTransition(rec, rec.version, NoFence, "external_absence_verified",
                         "cleaned", "cleaned_externally", "completed")
        /\ Write(Transitioned(rec, "cleaned", "cleaned_externally", "completed",
                              FALSE, NoTime))
     \/ /\ Planned(w) \in {"terminal_awaiting_cleanup", "cleanup_overdue"}
        /\ rec.cleanup = "none"
        /\ CanTransition(rec, rec.version, NoFence, "cleanup_scheduled",
                         "terminal", "none", "scheduled")
        /\ Write(Transitioned(rec, "terminal", "none", "scheduled", FALSE,
                              rec.due))
  /\ Return(w, ret[w])
  /\ UNCHANGED <<reserved, dedupe, docker, now, alive>>

Reconcile(w) ==
  \/ ReconcileRead(w) \/ ReconcileObserve(w) \/ ReconcileHealth(w)
  \/ RecoverBlock(w) \/ ReconcileDecide(w) \/ RecoverStarting(w)
  \/ RecoverReread(w) \/ RecoverStarted(w) \/ ReconcileExisting(w)

-----------------------------------------------------------------------------
(* reacquire_ownership of a reclaimable sandbox that is still running.      *)

ReacquireRead(w) ==
  /\ Begin(w, "reacquire") /\ rec.state = "reclaimable"
  /\ Hold(w, rec) /\ Goto(w, "a_observe")
  /\ UNCHANGED <<store, docker, now, alive, seen, at, plan, ret>>

ReacquireObserve(w) ==
  /\ At(w, "a_observe") /\ docker # "absent"
  /\ Goto(w, "a_inventory")
  /\ UNCHANGED <<store, docker, now, alive, snap, seen, at, plan, ret>>

ReacquireInventory(w) ==
  /\ At(w, "a_inventory")
  /\ \E listed \in BOOLEAN :
       ApplyCopy(w, "reacquire-inventory", CleanupState,
                 [snap[w] EXCEPT !.inventory = listed])
  /\ Goto(w, "a_take")
  /\ UNCHANGED <<reserved, docker, now, alive, snap, seen, at, plan, ret>>

\* The record read again after the inventory write gives the epoch to exceed.
ReacquireTake(w) ==
  /\ At(w, "a_take")
  /\ CanReacquire(rec, rec.version, rec.epoch + 1)
  /\ Write(Reacquired(rec, Me(w), rec.epoch + 1, now))
  /\ Return(w, "idle")
  /\ UNCHANGED <<reserved, dedupe, docker, now, alive>>

Reacquire(w) ==
  \/ ReacquireRead(w) \/ ReacquireObserve(w) \/ ReacquireInventory(w)
  \/ ReacquireTake(w)

-----------------------------------------------------------------------------
(* Failure of an operation, crash of a process, and the environment.        *)

\* The operation ends here without further effect: it raised, was cancelled or
\* had nothing left to do.  A health check the creator waits on returns False.
Unwind(w) ==
  /\ Me(w) \in alive /\ pc[w] # "idle"
  /\ Return(w, ret[w])
  /\ UNCHANGED <<store, docker, now, alive>>

\* The process dies: its tasks are gone and its id (hostname:pid) never returns.
Gone(f, i, v) == [w \in Worker |-> IF Me(w) = i THEN v ELSE f[w]]

Crash(i) ==
  /\ "crash" \in Operation /\ i \in alive
  /\ alive' = alive \ {i}
  /\ pc'   = Gone(pc, i, "idle")
  /\ snap' = Gone(snap, i, NoRecord)
  /\ seen' = Gone(seen, i, FALSE)
  /\ at'   = Gone(at, i, 0)
  /\ plan' = Gone(plan, i, NoOutcome)
  /\ ret'  = Gone(ret, i, "idle")
  /\ UNCHANGED <<store, docker, now>>

Tick ==
  /\ now < MaxTime
  /\ now' = now + 1
  /\ UNCHANGED <<store, docker, alive, locals>>

\* Containers stop, come back, or are removed from outside, with or without
\* their networks and volumes; nothing but a deployment brings them back.
DockerDrift ==
  /\ docker # "absent"
  /\ docker' \in Remains(docker) \cup (IF docker = "degraded" THEN {"up"} ELSE {})
  /\ docker' # docker
  /\ UNCHANGED <<store, now, alive, locals>>

Step(w) ==
  \/ Create(w) \/ HealthCheck(w) \/ TerminalOutcome(w) \/ Claim(w)
  \/ ExecuteCleanup(w) \/ Reconcile(w) \/ Reacquire(w) \/ Unwind(w)

Next ==
  \/ \E w \in Worker : Step(w)
  \/ \E i \in Instance : Crash(i)
  \/ Tick
  \/ DockerDrift

Spec == Init /\ [][Next]_vars

-----------------------------------------------------------------------------
(* Properties.                                                              *)

\* A record a worker still holds is either superseded by a newer version or is
\* the stored row itself: comparing record_version alone is a sufficient fence
\* for every copy written back (apply_record_mutation, save_record).
HeldRecordsFenced ==
  \A w \in Worker : /\ snap[w].version <= rec.version
                    /\ snap[w].version = rec.version => snap[w] = rec

\* No worker is ever in the destructive part of a cleanup while the sandbox
\* is live: a claim survives every reacquire, heartbeat and recovery race
\* (claim_cleanup, execute_claimed_cleanup, reacquire_ownership).
NoLiveTeardown ==
  \A w \in Worker : pc[w] \in Executing => rec.state \in {"terminal", "cleaned"}

\* Docker resources exist only under a record that accounts for them: never
\* before create_record, and never once the record says cleaned, except for
\* networks and volumes that a health check did not see when it had the record
\* marked cleaned_externally (create_sandbox ordering, verify_absence,
\* handle_missing_runtime).
DockerAccounted ==
  docker # "absent" =>
    \/ rec.state \in {"starting", "active", "reclaimable", "terminal"}
    \/ /\ docker = "residue"
       /\ rec.state = "cleaned" /\ rec.reason = "cleaned_externally"

\* The outcomes whose terminal transition is fenced by owner and epoch leave
\* their evidence and terminal_at on the record, although the evidence write
\* and the transition are separate and a reacquire in between erases it
\* (_record_terminal_outcome).
FencedReason == {"canceled", "restart_loop", "hard_max_age", "start_failed"}

TerminalHasEvidence ==
  rec.state = "terminal" /\ rec.reason \in FencedReason =>
    rec.evidence /\ rec.stamped

\* Every change of the row, creation included, moves record_version by one:
\* no write of save_record or apply_record_mutation is overwritten unseen.
VersionsAdvance ==
  [][rec' # rec => rec'.version = rec.version + 1]_vars

\* Ownership changes hands only together with a newer lease epoch, and the
\* epoch never goes back (reacquire_ownership, renew_lease).
OwnershipByEpoch ==
  [][/\ rec'.epoch >= rec.epoch
     /\ rec'.owner # rec.owner => rec'.epoch > rec.epoch]_vars

\* While requires_reconciliation is set nothing moves the lifecycle state or
\* the ownership, whichever operation was already under way when it was set
\* (_ensure_not_reconciliation_blocked).
BlockedFreezes ==
  [][rec.blocked /\ rec'.blocked =>
       rec'.state = rec.state /\ FenceOf(rec') = FenceOf(rec)]_vars

\* docs/projects/archive/Docker/01-REQUIREMENTS.md R12.5: concurrent cleanup
\* attempts for one sandbox are prevented by durable fencing (claim_cleanup).
\* Sweepers keep to it; an operator's delete, which may claim a cleanup that is
\* in progress, does not.
CleanupExclusive ==
  \A v, w \in Worker :
    pc[v] \in Executing /\ pc[w] \in Executing => v = w
=============================================================================
