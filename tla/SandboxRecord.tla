--------------------------- MODULE SandboxRecord ---------------------------
(***************************************************************************)
(* The durable sandbox lifecycle record and the rules every write to it    *)
(* goes through: the lifecycle and cleanup transition tables of            *)
(* core/domain/sandbox_lifecycle.py, the compare-and-set mutations of      *)
(* sandbox_lifecycle_mutation_service.py and the reconciliation plan of    *)
(* sandbox_lifecycle_reconciliation_service.py, as operators on records.   *)
(*                                                                         *)
(* Data is abstracted to what control depends on: times are natural        *)
(* numbers, required_evidence_ref, terminal_at and the resource inventory  *)
(* are kept as "present or not".                                           *)
(***************************************************************************)
EXTENDS Integers

CONSTANTS
  Instance,      \* identities of orchestrator processes (hostname:pid)
  NoInstance,    \* owner_instance_id / cleanup_owner_instance_id = None
  LeaseTTL,      \* lease duration granted by create, heartbeat and reacquire
  ReclaimTTL,    \* ttl_reclaimable_hours
  CleanupTTL     \* the retention TTL of failed and lost runtimes

ASSUME RecordAssumption ==
  /\ NoInstance \notin Instance
  /\ LeaseTTL \in Nat /\ ReclaimTTL \in Nat /\ CleanupTTL \in Nat

-----------------------------------------------------------------------------
NoTime == -1                       \* an optional timestamp that is None
Time   == Nat \cup {NoTime}

SandboxState == {"none",           \* no row in sandbox_lifecycle_records
                 "creating", "starting", "active", "reclaimable",
                 "terminal", "orphaned", "cleaned"}

CleanupState == {"none", "scheduled", "in_progress", "completed", "failed"}

TerminalReason == {"none", "create_failed", "start_failed", "lost_runtime",
                   "success", "failed", "blocked", "canceled", "restart_loop",
                   "lease_expired", "hard_max_age", "cleaned_externally",
                   "orphan_detected", "orphan_unverified_ownership"}

LifecycleEvent == {"create_accepted", "create_failure", "health_verified",
                   "startup_failure", "lease_expired", "runtime_missing",
                   "workflow_terminal_outcome", "hard_max_age_reached",
                   "ownership_reacquired", "reclaim_ttl_elapsed",
                   "cleanup_scheduled", "cleanup_starts",
                   "cleanup_verified_complete", "external_absence_verified"}

SandboxLifecycleRecord ==
  [state       : SandboxState,
   cleanup     : CleanupState,
   reason      : TerminalReason,
   owner       : Instance \cup {NoInstance},
   cleaner     : Instance \cup {NoInstance},
   epoch       : Nat,                  \* lease_epoch
   version     : Nat,                  \* record_version, 0 = no row
   lease       : Time,                 \* lease_expires_at
   due         : Time,                 \* cleanup_due_at
   created     : Time,                 \* created_at
   stamped     : BOOLEAN,              \* terminal_at is not None
   evidence    : BOOLEAN,              \* required_evidence_ref is not None
   inventory   : BOOLEAN,              \* inventory lists containers
   blocked     : BOOLEAN]              \* requires_reconciliation

NoRecord ==
  [state |-> "none", cleanup |-> "none", reason |-> "none",
   owner |-> NoInstance, cleaner |-> NoInstance, epoch |-> 0, version |-> 0,
   lease |-> NoTime, due |-> NoTime, created |-> NoTime, stamped |-> FALSE,
   evidence |-> FALSE, inventory |-> FALSE, blocked |-> FALSE]

\* The record create_record saves for the creating instance.
NewRecord(i, at) ==
  [NoRecord EXCEPT !.state = "creating", !.owner = i, !.epoch = 1,
                   !.version = 1, !.lease = at + LeaseTTL, !.created = at]

-----------------------------------------------------------------------------
(* The lifecycle table: <<from, event, to, cleanup state written>>, where   *)
(* "keep" leaves cleanup_state alone, and the reasons each event carries.   *)
LifecycleTransitions ==
  {<<"creating",    "create_accepted",           "starting",    "keep">>,
   <<"creating",    "create_failure",            "terminal",    "keep">>,
   <<"starting",    "health_verified",           "active",      "keep">>,
   <<"starting",    "startup_failure",           "terminal",    "keep">>,
   <<"starting",    "lease_expired",             "reclaimable", "keep">>,
   <<"active",      "runtime_missing",           "terminal",    "keep">>,
   <<"active",      "workflow_terminal_outcome", "terminal",    "keep">>,
   <<"active",      "lease_expired",             "reclaimable", "keep">>,
   <<"active",      "hard_max_age_reached",      "terminal",    "keep">>,
   <<"reclaimable", "ownership_reacquired",      "active",      "keep">>,
   <<"reclaimable", "reclaim_ttl_elapsed",       "terminal",    "keep">>,
   <<"terminal",    "cleanup_scheduled",         "terminal",    "scheduled">>,
   <<"terminal",    "cleanup_starts",            "terminal",    "in_progress">>,
   <<"terminal",    "cleanup_verified_complete", "cleaned",     "completed">>,
   <<"orphaned",    "cleanup_verified_complete", "cleaned",     "completed">>,
   <<"terminal",    "external_absence_verified", "cleaned",     "completed">>}

AllowedReasons(event) ==
  CASE event = "create_failure"             -> {"create_failed"}
    [] event = "startup_failure"            -> {"start_failed"}
    [] event = "runtime_missing"            -> {"lost_runtime"}
    [] event = "workflow_terminal_outcome"  -> {"success", "failed", "blocked",
                                                "canceled", "restart_loop"}
    [] event \in {"lease_expired", "reclaim_ttl_elapsed"} -> {"lease_expired"}
    [] event = "hard_max_age_reached"       -> {"hard_max_age"}
    [] event = "external_absence_verified"  -> {"cleaned_externally"}
    [] OTHER                                -> {"none"}

CleanupTransitions ==
  {<<"none", "none">>, <<"none", "scheduled">>,
   <<"scheduled", "scheduled">>, <<"scheduled", "in_progress">>,
   <<"scheduled", "failed">>,
   <<"in_progress", "in_progress">>, <<"in_progress", "completed">>,
   <<"in_progress", "failed">>,
   <<"failed", "failed">>, <<"failed", "scheduled">>,
   <<"completed", "completed">>}

-----------------------------------------------------------------------------
(* Mutations.  A fence is the <<owner, epoch>> pair a caller expects, or    *)
(* NoFence when it passes neither and only record_version is compared.      *)
NoFence == <<NoInstance, 0>>
Fence   == (Instance \cup {NoInstance}) \X Nat
FenceOf(r) == <<r.owner, r.epoch>>

\* Mutant: the owner and epoch expectations are not compared.
FenceIgnored(r, fence) == TRUE

FenceHolds(r, fence) == fence \in {NoFence, FenceOf(r)}

\* Mutant: the requires_reconciliation gate is dropped.
CanTransitionUngated(r, version, fence, event, to, reason, cleanup) ==
  /\ r.version = version
  /\ FenceHolds(r, fence)
  /\ <<r.state, event, to, cleanup>> \in LifecycleTransitions
  /\ reason \in AllowedReasons(event)

CanTransition(r, version, fence, event, to, reason, cleanup) ==
  /\ ~ r.blocked
  /\ r.version = version
  /\ FenceHolds(r, fence)
  /\ <<r.state, event, to, cleanup>> \in LifecycleTransitions
  /\ reason \in AllowedReasons(event)

\* Mutant: "cleanup_state or current.cleanup_state" loses its fallback.
TransitionedClobbering(r, to, reason, cleanup, stamp, due) ==
  [r EXCEPT !.state = to, !.cleanup = cleanup, !.version = @ + 1]

Transitioned(r, to, reason, cleanup, stamp, due) ==
  [r EXCEPT !.state   = to,
            !.cleanup = IF cleanup = "keep" THEN @ ELSE cleanup,
            !.reason  = IF reason = "none" THEN @ ELSE reason,
            !.stamped = @ \/ stamp,
            !.due     = IF due = NoTime THEN @ ELSE due,
            !.version = @ + 1]

CanRenewLease(r, version, i) == r.version = version /\ r.owner = i
\* Mutant: a heartbeat does not count as a write of the record.
RenewedLeaseSameVersion(r, at) == [r EXCEPT !.lease = at + LeaseTTL]

RenewedLease(r, at) == [r EXCEPT !.lease = at + LeaseTTL, !.version = @ + 1]

\* Mutant: the claim is not compared with the version the claimant read.
CanClaimAnyVersion(r, version) ==
  /\ ~ r.blocked
  /\ r.state \in {"terminal", "orphaned"}
  /\ <<r.cleanup, "in_progress">> \in CleanupTransitions

CanClaimCleanup(r, version) ==
  /\ ~ r.blocked
  /\ r.version = version
  /\ r.state \in {"terminal", "orphaned"}
  /\ <<r.cleanup, "in_progress">> \in CleanupTransitions
ClaimedCleanup(r, i) ==
  [r EXCEPT !.cleanup = "in_progress", !.cleaner = i, !.version = @ + 1]

WithBlocked(r, b) == [r EXCEPT !.blocked = b, !.version = @ + 1]

CanReacquire(r, version, epoch) ==
  /\ ~ r.blocked
  /\ r.version = version
  /\ <<r.state, "ownership_reacquired", "active", "keep">> \in LifecycleTransitions
  /\ epoch > r.epoch

\* Mutant: the new owner keeps the old lease epoch.
ReacquiredSameEpoch(r, i, epoch, at) ==
  [r EXCEPT !.state = "active", !.cleanup = "none", !.reason = "none",
            !.owner = i, !.cleaner = NoInstance, !.lease = at + LeaseTTL,
            !.due = NoTime, !.stamped = FALSE, !.evidence = FALSE,
            !.version = @ + 1]

Reacquired(r, i, epoch, at) ==
  [r EXCEPT !.state = "active", !.cleanup = "none", !.reason = "none",
            !.owner = i, !.cleaner = NoInstance, !.epoch = epoch,
            !.lease = at + LeaseTTL, !.due = NoTime, !.stamped = FALSE,
            !.evidence = FALSE, !.version = @ + 1]

\* _apply_record_copy: the caller's own copy of the record, bumped, replaces
\* the row when version, owner and epoch are still the copy's.
CanApplyCopy(r, copy) ==
  /\ copy.version > 0
  /\ r.version = copy.version
  /\ FenceOf(r) = FenceOf(copy)

-----------------------------------------------------------------------------
(* Policy and planning.                                                     *)
IsDue(deadline, at) == deadline # NoTime /\ deadline <= at

CleanupDelta(reason) ==
  IF reason \in {"lease_expired", "hard_max_age"} THEN 0 ELSE CleanupTTL

\* _is_due_candidate: what the sweeper picks up.
DueCandidate(r, at) ==
  /\ ~ r.blocked
  /\ r.state \in {"terminal", "orphaned"}
  /\ \/ r.cleanup = "scheduled"
     \/ r.state = "terminal" /\ r.cleanup \in {"none", "failed"}
  /\ IsDue(r.due, at)

\* classify_reconciliation for an existing record.
Classify(r, present, at) ==
  CASE r.state = "active" /\ present /\ IsDue(r.lease, at) -> "reclaimable"
    [] r.state = "active" /\ present /\ ~IsDue(r.lease, at) -> "active"
    [] r.state = "active" /\ ~present -> "terminal_lost_runtime"
    [] r.state = "terminal" /\ present /\ IsDue(r.due, at) -> "cleanup_overdue"
    [] r.state = "terminal" /\ present /\ ~IsDue(r.due, at) ->
         "terminal_awaiting_cleanup"
    [] r.state = "terminal" /\ ~present -> "cleaned_externally"
    [] OTHER -> "unsupported"
=============================================================================
