---------------------- MODULE SandboxLifecycleProofs ----------------------
(***************************************************************************)
(* Theorems about SandboxLifecycle, for every set of workers and           *)
(* processes, every policy and every bound.                                *)
(***************************************************************************)
EXTENDS SandboxLifecycle, TLAPS

-----------------------------------------------------------------------------
(* The operators that build records build records.                          *)

\* The absence of a row is a well-typed record.
LEMMA NoRecordType == NoRecord \in SandboxLifecycleRecord
BY DEF NoRecord, SandboxLifecycleRecord, SandboxState, CleanupState,
       TerminalReason, Time, NoTime

\* A worker with no outcome to record is well typed.
LEMMA NoOutcomeType == NoOutcome \in Outcome
BY DEF NoOutcome, Outcome, LifecycleEvent, TerminalReason, Fence, NoFence,
       Time, NoTime

\* create_record saves a well-typed record.
LEMMA NewRecordType ==
  ASSUME NEW i \in Instance, NEW t \in Nat
  PROVE  NewRecord(i, t) \in SandboxLifecycleRecord
<1>1. t + LeaseTTL \in Nat
  BY RecordAssumption
<1> QED
  BY <1>1, NoRecordType
  DEF NewRecord, SandboxLifecycleRecord, SandboxState, Time

\* transition_state turns a record into a record.
LEMMA TransitionedType ==
  ASSUME NEW r \in SandboxLifecycleRecord, NEW to \in SandboxState,
         NEW reason \in TerminalReason,
         NEW cleanup \in CleanupState \cup {"keep"},
         NEW stamp \in BOOLEAN, NEW due \in Time
  PROVE  Transitioned(r, to, reason, cleanup, stamp, due)
           \in SandboxLifecycleRecord
<1> DEFINE c == IF cleanup = "keep" THEN r.cleanup ELSE cleanup
           e == IF reason = "none" THEN r.reason ELSE reason
           b == r.stamped \/ stamp
           d == IF due = NoTime THEN r.due ELSE due
<1>1. c \in CleanupState /\ e \in TerminalReason /\ d \in Time
  BY DEF SandboxLifecycleRecord
<1>2. b \in BOOLEAN
  OBVIOUS
<1>3. r.version + 1 \in Nat
  BY DEF SandboxLifecycleRecord
<1>4. Transitioned(r, to, reason, cleanup, stamp, due) =
       [r EXCEPT !.state = to, !.cleanup = c, !.reason = e, !.stamped = b,
                 !.due = d, !.version = r.version + 1]
  BY DEF Transitioned
<1> HIDE DEF c, e, b, d
<1> QED
  BY <1>1, <1>2, <1>3, <1>4 DEF SandboxLifecycleRecord

\* record_version stays a natural number when it is bumped.
LEMMA NextVersion ==
  ASSUME NEW r \in SandboxLifecycleRecord
  PROVE  r.version \in Nat /\ r.version + 1 \in Nat
BY DEF SandboxLifecycleRecord

\* renew_lease turns a record into a record.
LEMMA RenewedType ==
  ASSUME NEW r \in SandboxLifecycleRecord, NEW t \in Nat
  PROVE  RenewedLease(r, t) \in SandboxLifecycleRecord
<1>1. t + LeaseTTL \in Time
  BY RecordAssumption DEF Time
<1> QED
  BY <1>1, NextVersion DEF RenewedLease, SandboxLifecycleRecord

\* claim_cleanup turns a record into a record.
LEMMA ClaimedType ==
  ASSUME NEW r \in SandboxLifecycleRecord, NEW i \in Instance
  PROVE  ClaimedCleanup(r, i) \in SandboxLifecycleRecord
<1>1. "in_progress" \in CleanupState
  BY DEF CleanupState
<1> QED
  BY <1>1, NextVersion DEF ClaimedCleanup, SandboxLifecycleRecord

\* set_requires_reconciliation turns a record into a record.
LEMMA BlockedType ==
  ASSUME NEW r \in SandboxLifecycleRecord, NEW b \in BOOLEAN
  PROVE  WithBlocked(r, b) \in SandboxLifecycleRecord
BY NextVersion DEF WithBlocked, SandboxLifecycleRecord

\* reacquire_ownership turns a record into a record.
LEMMA ReacquiredType ==
  ASSUME NEW r \in SandboxLifecycleRecord, NEW i \in Instance,
         NEW e \in Nat, NEW t \in Nat
  PROVE  Reacquired(r, i, e, t) \in SandboxLifecycleRecord
<1>1. t + LeaseTTL \in Time /\ NoTime \in Time
  BY RecordAssumption DEF Time
<1>2. "active" \in SandboxState /\ "none" \in CleanupState /\ "none" \in TerminalReason
  BY DEF SandboxState, CleanupState, TerminalReason
<1> QED
  BY <1>1, <1>2, NextVersion DEF Reacquired, SandboxLifecycleRecord

\* What is left of the resources d: nothing new, and no containers without any.
LEMMA RemainsFacts ==
  ASSUME NEW d \in Resources,
         NEW e \in {d} \cup Remains(d) \cup (IF d = "degraded" THEN {"up"} ELSE {})
  PROVE  /\ e \in Resources
         /\ e # "absent" => d # "absent"
         /\ d = "residue" => e \in {"absent", "residue"}
<1>1. CASE d = "absent"
  BY <1>1 DEF Remains, Resources
<1>2. CASE d = "residue"
  BY <1>2 DEF Remains, Resources
<1>3. CASE d \in {"degraded", "up"}
  BY <1>3 DEF Remains, Resources
<1> QED
  BY <1>1, <1>2, <1>3 DEF Resources

\* The copies that are written back: an inventory, an evidence reference, a
\* failed attempt, and each with the next version.
LEMMA CopyType ==
  ASSUME NEW r \in SandboxLifecycleRecord, NEW b \in BOOLEAN
  PROVE  /\ [r EXCEPT !.version = @ + 1] \in SandboxLifecycleRecord
         /\ [r EXCEPT !.inventory = b] \in SandboxLifecycleRecord
         /\ [r EXCEPT !.evidence = b, !.version = @ + 1]
              \in SandboxLifecycleRecord
         /\ [r EXCEPT !.cleanup = "failed", !.version = @ + 1]
              \in SandboxLifecycleRecord
<1>1. "failed" \in CleanupState
  BY DEF CleanupState
<1>2. [r EXCEPT !.version = @ + 1] \in SandboxLifecycleRecord
  BY NextVersion DEF SandboxLifecycleRecord
<1>3. [r EXCEPT !.inventory = b] \in SandboxLifecycleRecord
  BY DEF SandboxLifecycleRecord
<1>4. [r EXCEPT !.evidence = b, !.version = @ + 1] \in SandboxLifecycleRecord
  BY NextVersion DEF SandboxLifecycleRecord
<1>5. [r EXCEPT !.cleanup = "failed", !.version = @ + 1]
        \in SandboxLifecycleRecord
  BY <1>1, NextVersion DEF SandboxLifecycleRecord
<1> QED
  BY <1>2, <1>3, <1>4, <1>5

-----------------------------------------------------------------------------
(* The control-flow helpers keep the workers' locals typed.                 *)

\* Moving a worker on keeps the program counters typed.
LEMMA GotoType ==
  ASSUME TypeOK, NEW w \in Worker, NEW p \in Location, Goto(w, p)
  PROVE  pc' \in [Worker -> Location]
BY DEF TypeOK, Goto

\* Returning from a coroutine keeps every local typed.
LEMMA ReturnType ==
  ASSUME TypeOK, NEW w \in Worker, NEW p \in Location, Return(w, p)
  PROVE  /\ pc' \in [Worker -> Location]
         /\ snap' \in [Worker -> SandboxLifecycleRecord]
         /\ seen' \in [Worker -> BOOLEAN]
         /\ at' \in [Worker -> Nat]
         /\ plan' \in [Worker -> Outcome]
         /\ ret' \in [Worker -> {"idle", "await"}]
<1>1. pc' \in [Worker -> Location] /\ at' \in [Worker -> Nat]
  BY DEF TypeOK, Return
<1>2. snap' \in [Worker -> SandboxLifecycleRecord]
  BY NoRecordType DEF TypeOK, Return
<1>3. seen' \in [Worker -> BOOLEAN] /\ ret' \in [Worker -> {"idle", "await"}]
  BY DEF TypeOK, Return
<1>4. plan' \in [Worker -> Outcome]
  BY NoOutcomeType DEF TypeOK, Return
<1> QED
  BY <1>1, <1>2, <1>3, <1>4

\* Holding a record keeps the held records typed.
LEMMA HoldType ==
  ASSUME TypeOK, NEW w \in Worker, NEW r \in SandboxLifecycleRecord, Hold(w, r)
  PROVE  snap' \in [Worker -> SandboxLifecycleRecord]
BY DEF TypeOK, Hold

\* Planning a terminal outcome keeps program counters and plans typed.
LEMMA OutcomeType ==
  ASSUME TypeOK, NEW w \in Worker, NEW e \in LifecycleEvent,
         NEW reason \in TerminalReason, NEW f \in Fence, NEW due \in Time,
         NEW next \in {"idle", "schedule", "d_schedule"},
         RecordOutcome(w, e, reason, f, due, next)
  PROVE  pc' \in [Worker -> Location] /\ plan' \in [Worker -> Outcome]
BY DEF TypeOK, RecordOutcome, Goto, Outcome, Location

\* The fence a record stands for is an owner and an epoch.
LEMMA FenceType ==
  ASSUME NEW r \in SandboxLifecycleRecord
  PROVE  FenceOf(r) \in Fence /\ NoFence \in Fence
BY DEF FenceOf, NoFence, Fence, SandboxLifecycleRecord

\* The deadlines the services compute are times.
LEMMA DueType ==
  ASSUME NEW t \in Nat, NEW reason
  PROVE  /\ t + CleanupDelta(reason) \in Time
         /\ t + ReclaimTTL \in Time
         /\ t \in Time /\ NoTime \in Time
BY RecordAssumption DEF CleanupDelta, Time

\* The row of a shared operation id is a dedupe row.
LEMMA RowType ==
  ASSUME NEW id \in SharedId, NEW v \in Nat, NEW i \in Instance
  PROVE  Row(id, v) \in DedupeRow /\ ClaimRow(v, i) \in DedupeRow
BY DEF Row, ClaimRow, DedupeRow

\* _apply_record_copy stores a record and, at most, a dedupe row.
LEMMA ApplyCopyType ==
  ASSUME TypeOK, NEW w \in Worker, NEW id \in SharedId, NEW cleanup,
         NEW next \in SandboxLifecycleRecord,
         ApplyCopy(w, id, cleanup, next)
  PROVE  rec' \in SandboxLifecycleRecord /\ dedupe' \subseteq DedupeRow
<1>1. snap[w].version \in Nat
  BY DEF TypeOK, SandboxLifecycleRecord
<1>2. Row(id, snap[w].version) \in DedupeRow
  BY <1>1 DEF Row, DedupeRow
<1>3. [next EXCEPT !.version = @ + 1] \in SandboxLifecycleRecord
  BY CopyType
<1> QED
  BY <1>2, <1>3 DEF ApplyCopy, Write, TypeOK

\* Every worker runs in an instance.
LEMMA MeType == \A w \in Worker : Me(w) \in Instance
BY LifecycleAssumption DEF Me

-----------------------------------------------------------------------------
(* Type correctness.                                                        *)

\* The initial state is well typed.
LEMMA InitType == Init => TypeOK
<1> SUFFICES ASSUME Init PROVE TypeOK
  OBVIOUS
<1> QED
  BY NoRecordType, NoOutcomeType DEF Init, TypeOK, Location, Resources

\* The steps of create_sandbox keep the types.
LEMMA CreateType ==
  ASSUME TypeOK, NEW w \in Worker, Create(w)
  PROVE  TypeOK'
<1> DEFINE P == {"reserve", "save", "accept", "deploy", "await",
                 "start_failed", "flag", "idle"}
<1>0. P \subseteq Location
  BY DEF Location
<1>1. CASE CreateCheck(w)
  BY <1>0, <1>1, GotoType DEF CreateCheck, TypeOK, store
<1>2. CASE CreateReserve(w)
  BY <1>0, <1>2, GotoType DEF CreateReserve, TypeOK
<1>3. CASE CreateSave(w)
  <2>2. NewRecord(Me(w), now) \in SandboxLifecycleRecord
    BY NewRecordType, MeType DEF TypeOK
  <2> QED
    BY <1>3, <1>0, <2>2, GotoType DEF CreateSave, TypeOK, Write
<1>4. CASE CreateAccept(w)
  <2>2. Transitioned(rec, "starting", "none", "keep", FALSE, NoTime)
          \in SandboxLifecycleRecord
    BY TransitionedType, DueType
    DEF TypeOK, SandboxState, TerminalReason, CleanupState, Time
  <2> QED
    BY <1>4, <1>0, <2>2, GotoType DEF CreateAccept, TypeOK, Write
<1>5. CASE Deploy(w)
  BY <1>0, <1>5, GotoType DEF Deploy, TypeOK, Resources, store
<1>6. CASE AwaitGivesUp(w)
  BY <1>0, <1>6, GotoType DEF AwaitGivesUp, TypeOK, store
<1>7. CASE MarkStartFailed(w)
  <2>2. CASE RecordOutcome(w, "startup_failure", "start_failed", FenceOf(rec),
                           now + CleanupDelta("start_failed"), "idle")
             /\ UNCHANGED <<snap, seen, at, ret>>
    <3>1. pc' \in [Worker -> Location] /\ plan' \in [Worker -> Outcome]
      BY <2>2, OutcomeType, FenceType, DueType
      DEF TypeOK, LifecycleEvent, TerminalReason
    <3> QED
      BY <1>7, <2>2, <3>1 DEF MarkStartFailed, TypeOK, store
  <2>3. CASE Return(w, "idle")
    BY <1>7, <1>0, <2>3, ReturnType DEF MarkStartFailed, TypeOK, store
  <2> QED
    BY <1>7, <2>2, <2>3 DEF MarkStartFailed
<1>8. CASE MarkRequiresReconciliation(w)
  <2>2. WithBlocked(rec, TRUE) \in SandboxLifecycleRecord
    BY BlockedType DEF TypeOK
  <2> QED
    BY <1>8, <1>0, <2>2, ReturnType
    DEF MarkRequiresReconciliation, TypeOK, Write
<1> QED
  BY <1>1, <1>2, <1>3, <1>4, <1>5, <1>6, <1>7, <1>8 DEF Create

\* The steps of health_check keep the types.
LEMMA HealthType ==
  ASSUME TypeOK, NEW w \in Worker, HealthCheck(w)
  PROVE  TypeOK'
<1> DEFINE P == {"h_observe", "h_inventory", "h_record", "h_verify",
                 "h_healthy", "reconcile", "evidence", "idle"}
<1>0. P \subseteq Location
  BY DEF Location
<1>1. CASE HealthRead(w)
  <2>1. snap' \in [Worker -> SandboxLifecycleRecord]
    BY <1>1, HoldType DEF HealthRead, TypeOK
  <2>2. ret' \in [Worker -> {"idle", "await"}]
    BY <1>1 DEF HealthRead, TypeOK
  <2> QED
    BY <1>0, <1>1, <2>1, <2>2, GotoType DEF HealthRead, TypeOK, store
<1>2. CASE HealthObserve(w)
  <2>1. at' \in [Worker -> Nat] /\ seen' \in [Worker -> BOOLEAN]
    BY <1>2 DEF HealthObserve, TypeOK
  <2>2. PICK rows \in ObservedRows :
          \/ RestartLoop(w, rows, now, "idle") /\ UNCHANGED <<snap, ret>>
          \/ (\E p \in P : Goto(w, p)) /\ UNCHANGED <<snap, plan, ret>>
    BY <1>2 DEF HealthObserve
  <2>3. pc' \in [Worker -> Location] /\ plan' \in [Worker -> Outcome]
    <3>1. CASE RestartLoop(w, rows, now, "idle")
      <4>1. <<Me(w), rec.epoch>> \in Fence
        BY MeType DEF Fence, TypeOK, SandboxLifecycleRecord
      <4> QED
        BY <3>1, <4>1, OutcomeType, DueType
        DEF RestartLoop, TypeOK, LifecycleEvent, TerminalReason
    <3>2. CASE (\E p \in P : Goto(w, p)) /\ UNCHANGED <<snap, plan, ret>>
      BY <1>0, <3>2, GotoType DEF TypeOK
    <3> QED
      BY <2>2, <3>1, <3>2
  <2> QED
    BY <1>2, <2>1, <2>2, <2>3 DEF HealthObserve, TypeOK, store
<1>3. CASE InventoryRead(w)
  <2>1. snap' \in [Worker -> SandboxLifecycleRecord]
    BY <1>3, HoldType DEF InventoryRead, TypeOK
  <2> QED
    BY <1>0, <1>3, <2>1, GotoType DEF InventoryRead, TypeOK, store
<1>4. CASE RecordInventory(w)
  <2> DEFINE b == docker \in {"degraded", "up"}
  <2>1. b \in BOOLEAN
    OBVIOUS
  <2>2. ApplyCopy(w, "inventory", CleanupState, [snap[w] EXCEPT !.inventory = b])
    BY <1>4 DEF RecordInventory
  <2> HIDE DEF b
  <2>3. [snap[w] EXCEPT !.inventory = b] \in SandboxLifecycleRecord
    BY <2>1, CopyType DEF TypeOK
  <2>4. rec' \in SandboxLifecycleRecord /\ dedupe' \subseteq DedupeRow
    BY <2>2, <2>3, ApplyCopyType DEF SharedId
  <2> QED
    BY <1>0, <1>4, <2>4, GotoType DEF RecordInventory, TypeOK
<1>5. CASE MarkVerified(w)
  <2>1. Transitioned(rec, "active", "none", "keep", FALSE, NoTime)
          \in SandboxLifecycleRecord
    BY TransitionedType, DueType
    DEF TypeOK, SandboxState, TerminalReason, CleanupState, Time
  <2> QED
    BY <1>0, <1>5, <2>1, ReturnType DEF MarkVerified, TypeOK, Write
<1>6. CASE HandleHealthy(w)
  <2>1. Transitioned(rec, "active", "none", "keep", FALSE, NoTime)
          \in SandboxLifecycleRecord
    BY TransitionedType, DueType
    DEF TypeOK, SandboxState, TerminalReason, CleanupState, Time
  <2>2. RenewedLease(rec, now) \in SandboxLifecycleRecord
    BY RenewedType DEF TypeOK
  <2> QED
    BY <1>0, <1>6, <2>1, <2>2, ReturnType DEF HandleHealthy, TypeOK, Write
<1> QED
  BY <1>1, <1>2, <1>3, <1>4, <1>5, <1>6 DEF HealthCheck

\* The steps of _record_terminal_outcome keep the types.
LEMMA TerminalOutcomeType ==
  ASSUME TypeOK, NEW w \in Worker, TerminalOutcome(w)
  PROVE  TypeOK'
<1>0. {"terminalize", "schedule", "d_schedule", "idle"} \subseteq Location
  BY DEF Location
<1>1. CASE Evidence(w)
  <2>1. [rec EXCEPT !.evidence = TRUE, !.version = @ + 1]
          \in SandboxLifecycleRecord
    BY CopyType DEF TypeOK
  <2> QED
    BY <1>0, <1>1, <2>1, GotoType DEF Evidence, TypeOK, Write
<1>2. CASE Terminalize(w)
  <2>1. plan[w].reason \in TerminalReason /\ plan[w].due \in Time
        /\ plan[w].next \in {"idle", "schedule", "d_schedule"}
    BY DEF TypeOK, Outcome
  <2>2. Transitioned(rec, "terminal", plan[w].reason, "keep", TRUE, plan[w].due)
          \in SandboxLifecycleRecord
    BY <2>1, TransitionedType
    DEF TypeOK, SandboxState, CleanupState
  <2>3. rec' \in SandboxLifecycleRecord
    BY <1>2, <2>2 DEF Terminalize, Write
  <2>4. CASE plan[w].next = "idle"
    BY <1>0, <1>2, <2>3, <2>4, ReturnType DEF Terminalize, TypeOK
  <2>5. CASE plan[w].next # "idle"
    <3>1. snap' \in [Worker -> SandboxLifecycleRecord]
      BY <1>2, <2>3, <2>5, HoldType DEF Terminalize
    <3>2. pc' \in [Worker -> Location]
      BY <1>0, <1>2, <2>1, <2>5, GotoType DEF Terminalize
    <3>3. plan' \in [Worker -> Outcome]
      BY <1>2, <2>5, NoOutcomeType DEF Terminalize, TypeOK
    <3> QED
      BY <1>2, <2>3, <2>5, <3>1, <3>2, <3>3 DEF Terminalize, TypeOK
  <2> QED
    BY <2>4, <2>5
<1> QED
  BY <1>1, <1>2 DEF TerminalOutcome

\* The CLEANUP_SCHEDULED transition keeps row and dedupe table typed.
LEMMA ScheduleType ==
  ASSUME TypeOK, NEW w \in Worker
  PROVE  /\ ScheduleHeld(w) => rec' \in SandboxLifecycleRecord
         /\ ScheduleShared(w) =>
              rec' \in SandboxLifecycleRecord /\ dedupe' \subseteq DedupeRow
<1> DEFINE d == IF snap[w].due = NoTime THEN at[w] ELSE snap[w].due
<1>1. snap[w] \in SandboxLifecycleRecord /\ at[w] \in Time
  BY DEF TypeOK, Time
<1>2. d \in Time /\ snap[w].version \in Nat
  BY <1>1 DEF SandboxLifecycleRecord
<1>3. Transitioned(rec, "terminal", "none", "scheduled", FALSE, d)
        \in SandboxLifecycleRecord
  <2> HIDE DEF d
  <2> QED
    BY <1>2, TransitionedType
    DEF TypeOK, SandboxState, TerminalReason, CleanupState
<1>4. ScheduleHeld(w) => rec' \in SandboxLifecycleRecord
  BY <1>3 DEF ScheduleHeld, Write
<1>5. Row("cleanup-scheduled", snap[w].version) \in DedupeRow
  BY <1>2 DEF Row, DedupeRow, SharedId
<1> QED
  BY <1>4, <1>5 DEF ScheduleShared, TypeOK

\* The steps that schedule and claim a cleanup keep the types.
LEMMA ClaimType ==
  ASSUME TypeOK, NEW w \in Worker, Claim(w)
  PROVE  TypeOK'
<1>0. {"schedule", "d_schedule", "d_claim", "s_schedule", "s_claim",
       "x_attempt", "idle"} \subseteq Location
  BY DEF Location, Executing
<1>1. CASE ScheduleIfNeeded(w)
  <2>1. rec' \in SandboxLifecycleRecord /\ dedupe' \subseteq DedupeRow
    BY <1>1, ScheduleType DEF ScheduleIfNeeded, TypeOK
  <2> QED
    BY <1>0, <1>1, <2>1, ReturnType DEF ScheduleIfNeeded, TypeOK
<1>2. CASE DeleteRead(w)
  <2>1. at' \in [Worker -> Nat]
    BY <1>2 DEF DeleteRead, TypeOK
  <2>2. FenceOf(rec) \in Fence /\ NoFence \in Fence /\ now \in Time
    BY FenceType, DueType DEF TypeOK
  <2>3. CASE RecordOutcome(w, "workflow_terminal_outcome", "canceled",
                           FenceOf(rec), now, "d_schedule") /\ UNCHANGED snap
    <3>1. pc' \in [Worker -> Location] /\ plan' \in [Worker -> Outcome]
      BY <2>2, <2>3, OutcomeType DEF LifecycleEvent, TerminalReason
    <3> QED
      BY <1>2, <2>1, <2>3, <3>1 DEF DeleteRead, TypeOK, store
  <2>4. CASE RecordOutcome(w, "reclaim_ttl_elapsed", "lease_expired", NoFence,
                           now, "d_schedule") /\ UNCHANGED snap
    <3>1. pc' \in [Worker -> Location] /\ plan' \in [Worker -> Outcome]
      BY <2>2, <2>4, OutcomeType DEF LifecycleEvent, TerminalReason
    <3> QED
      BY <1>2, <2>1, <2>4, <3>1 DEF DeleteRead, TypeOK, store
  <2>5. CASE Hold(w, rec) /\ Goto(w, "d_schedule") /\ UNCHANGED plan
    <3>1. snap' \in [Worker -> SandboxLifecycleRecord]
      BY <2>5, HoldType DEF TypeOK
    <3> QED
      BY <1>0, <1>2, <2>1, <2>5, <3>1, GotoType DEF DeleteRead, TypeOK, store
  <2> QED
    BY <1>2, <2>3, <2>4, <2>5 DEF DeleteRead
<1>3. CASE DeleteSchedule(w)
  <2>1. rec' \in SandboxLifecycleRecord /\ dedupe' \subseteq DedupeRow
    BY <1>3, ScheduleType DEF DeleteSchedule, TypeOK
  <2>2. snap' \in [Worker -> SandboxLifecycleRecord]
    BY <1>3, <2>1, HoldType DEF DeleteSchedule, TypeOK
  <2> QED
    BY <1>0, <1>3, <2>1, <2>2, GotoType DEF DeleteSchedule, TypeOK
<1>4. CASE SweepRead(w)
  <2>1. snap' \in [Worker -> SandboxLifecycleRecord] /\ at' \in [Worker -> Nat]
    BY <1>4, HoldType DEF SweepRead, TypeOK
  <2>2. pc' \in [Worker -> Location]
    BY <1>0, <1>4, GotoType DEF SweepRead
  <2> QED
    BY <1>4, <2>1, <2>2 DEF SweepRead, TypeOK, store
<1>5. CASE SweepSchedule(w)
  <2>1. rec' \in SandboxLifecycleRecord
    BY <1>5, ScheduleType DEF SweepSchedule
  <2>2. snap' \in [Worker -> SandboxLifecycleRecord]
    BY <1>5, <2>1, HoldType DEF SweepSchedule
  <2> QED
    BY <1>0, <1>5, <2>1, <2>2, GotoType DEF SweepSchedule, TypeOK
<1>6. CASE ClaimCleanup(w)
  <2>1. ClaimedCleanup(rec, Me(w)) \in SandboxLifecycleRecord
    BY ClaimedType, MeType DEF TypeOK
  <2>2. snap[w].version \in Nat
    BY NextVersion DEF TypeOK
  <2>3. ClaimRow(snap[w].version, Me(w)) \in DedupeRow
    BY <2>2, MeType DEF ClaimRow, DedupeRow
  <2>4. rec' \in SandboxLifecycleRecord /\ dedupe' \subseteq DedupeRow
    BY <1>6, <2>1, <2>3 DEF ClaimCleanup, Write, TypeOK
  <2>5. snap' \in [Worker -> SandboxLifecycleRecord]
    BY <1>6, <2>4, HoldType DEF ClaimCleanup
  <2> QED
    BY <1>0, <1>6, <2>4, <2>5, GotoType DEF ClaimCleanup, TypeOK
<1> QED
  BY <1>1, <1>2, <1>3, <1>4, <1>5, <1>6 DEF Claim

\* The steps of execute_claimed_cleanup keep the types.
LEMMA ExecuteType ==
  ASSUME TypeOK, NEW w \in Worker, ExecuteCleanup(w)
  PROVE  TypeOK'
<1>0. Executing \cup {"idle"} \subseteq Location
  BY DEF Location
<1>1. snap[w] \in SandboxLifecycleRecord
  BY DEF TypeOK
<1>2. CASE CleanupAttempt(w)
  <2>1. rec' \in SandboxLifecycleRecord /\ dedupe' \subseteq DedupeRow
    BY <1>1, <1>2, ApplyCopyType DEF CleanupAttempt, SharedId
  <2> QED
    BY <1>0, <1>2, <2>1, GotoType DEF CleanupAttempt, TypeOK, Executing
<1>3. CASE CleanupReread(w)
  <2>1. snap' \in [Worker -> SandboxLifecycleRecord]
    BY <1>3, HoldType DEF CleanupReread, TypeOK
  <2>2. pc' \in [Worker -> Location]
    BY <1>0, <1>3, GotoType DEF CleanupReread, Executing
  <2> QED
    BY <1>3, <2>1, <2>2 DEF CleanupReread, TypeOK, store
<1>4. CASE ObserveBefore(w)
  <2>1. pc' \in [Worker -> Location]
    BY <1>0, <1>4, GotoType DEF ObserveBefore, Executing
  <2> DEFINE b == docker # "absent"
  <2>2. b \in BOOLEAN
    OBVIOUS
  <2>3. seen' = [seen EXCEPT ![w] = b] \/ seen' = seen
    BY <1>4 DEF ObserveBefore
  <2> HIDE DEF b
  <2>4. seen' \in [Worker -> BOOLEAN]
    BY <2>2, <2>3 DEF TypeOK
  <2> QED
    BY <1>4, <2>1, <2>4 DEF ObserveBefore, TypeOK, store
<1>5. CASE CleanupInventory(w)
  <2>0. PICK b \in BOOLEAN : ApplyCopy(w, "cleanup-inventory", {"in_progress"},
                                      [snap[w] EXCEPT !.inventory = b])
    BY <1>5 DEF CleanupInventory
  <2>1. [snap[w] EXCEPT !.inventory = b] \in SandboxLifecycleRecord
    BY <1>1, CopyType
  <2>2. rec' \in SandboxLifecycleRecord /\ dedupe' \subseteq DedupeRow
    BY <2>0, <2>1, ApplyCopyType DEF SharedId
  <2> QED
    BY <1>0, <1>5, <2>2, GotoType DEF CleanupInventory, TypeOK, Executing
<1>6. CASE TearDown(w)
  <2>1. pc' \in [Worker -> Location]
    BY <1>0, <1>6, GotoType DEF TearDown, Executing
  <2> QED
    BY <1>6, <2>1, RemainsFacts DEF TearDown, TypeOK, store
<1>7. CASE ObserveAfter(w)
  <2>1. pc' \in [Worker -> Location]
    BY <1>0, <1>7, GotoType DEF ObserveAfter, Executing
  <2> QED
    BY <1>7, <2>1 DEF ObserveAfter, TypeOK, store
<1>8. CASE CompleteCleanup(w)
  <2>1. Transitioned(rec, "cleaned", "none", "completed", FALSE, NoTime)
          \in SandboxLifecycleRecord
    BY TransitionedType, DueType
    DEF TypeOK, SandboxState, TerminalReason, CleanupState, Time
  <2> QED
    BY <1>0, <1>8, <2>1, ReturnType DEF CompleteCleanup, TypeOK, Write
<1>9. CASE MarkCleanupFailed(w)
  <2>1. [snap[w] EXCEPT !.cleanup = "failed", !.version = @ + 1]
          \in SandboxLifecycleRecord
    BY <1>1, CopyType
  <2> QED
    BY <1>0, <1>9, <2>1, ReturnType DEF MarkCleanupFailed, TypeOK, Write
<1> QED
  BY <1>2, <1>3, <1>4, <1>5, <1>6, <1>7, <1>8, <1>9 DEF ExecuteCleanup

\* The steps of reconcile_sandbox keep the types.
LEMMA ReconcileType ==
  ASSUME TypeOK, NEW w \in Worker, Reconcile(w)
  PROVE  TypeOK'
<1>0. {"evidence", "schedule", "r_observe", "r_health", "r_decide",
       "r_starting", "r_reread", "r_started", "reconcile", "idle", "await"}
        \subseteq Location
  BY DEF Location
<1>1. /\ snap[w] \in SandboxLifecycleRecord
      /\ at[w] \in Nat
      /\ ret[w] \in Location
  BY <1>0 DEF TypeOK
<1>a. FenceOf(rec) \in Fence /\ FenceOf(snap[w]) \in Fence /\ NoFence \in Fence
  BY <1>1, FenceType DEF TypeOK
<1>b. <<Me(w), rec.epoch>> \in Fence
  BY MeType DEF Fence, TypeOK, SandboxLifecycleRecord
<1>c. \A reason : at[w] + CleanupDelta(reason) \in Time
  BY <1>1, DueType
<1>d. at[w] \in Time /\ at[w] + ReclaimTTL \in Time /\ now \in Time
      /\ NoTime \in Time
  BY <1>1, DueType DEF TypeOK
<1>2. CASE ReconcileRead(w)
  <2>1. at' \in [Worker -> Nat]
    BY <1>2 DEF ReconcileRead, TypeOK
  <2>2. CASE RecordOutcome(w, "hard_max_age_reached", "hard_max_age",
                           FenceOf(rec), now, "schedule") /\ UNCHANGED snap
    <3>1. pc' \in [Worker -> Location] /\ plan' \in [Worker -> Outcome]
      BY <1>a, <1>d, <2>2, OutcomeType DEF LifecycleEvent, TerminalReason
    <3> QED
      BY <1>2, <2>1, <2>2, <3>1 DEF ReconcileRead, TypeOK, store
  <2>3. CASE Hold(w, rec) /\ Goto(w, "r_observe") /\ UNCHANGED plan
    <3>1. snap' \in [Worker -> SandboxLifecycleRecord]
      BY <2>3, HoldType DEF TypeOK
    <3> QED
      BY <1>0, <1>2, <2>1, <2>3, <3>1, GotoType DEF ReconcileRead, TypeOK, store
  <2> QED
    BY <1>2, <2>2, <2>3 DEF ReconcileRead
<1>3. CASE ReconcileObserve(w)
  <2>1. pc' \in [Worker -> Location]
    BY <1>0, <1>3, GotoType DEF ReconcileObserve
  <2> DEFINE b == docker # "absent"
  <2>2. b \in BOOLEAN
    OBVIOUS
  <2>3. seen' = [seen EXCEPT ![w] = b]
    BY <1>3 DEF ReconcileObserve
  <2> HIDE DEF b
  <2>4. seen' \in [Worker -> BOOLEAN]
    BY <2>2, <2>3 DEF TypeOK
  <2> QED
    BY <1>3, <2>1, <2>4 DEF ReconcileObserve, TypeOK, store
<1>4. CASE ReconcileHealth(w)
  <2>1. PICK rows \in ObservedRows :
          \/ RestartLoop(w, rows, at[w], "schedule") /\ UNCHANGED snap
          \/ /\ RecordOutcome(w, "workflow_terminal_outcome", "restart_loop",
                              FenceOf(snap[w]),
                              at[w] + CleanupDelta("restart_loop"), "schedule")
             /\ UNCHANGED snap
          \/ Hold(w, rec) /\ Goto(w, "r_decide") /\ UNCHANGED plan
    BY <1>4 DEF ReconcileHealth
  <2>2. CASE RestartLoop(w, rows, at[w], "schedule") /\ UNCHANGED snap
    <3>1. pc' \in [Worker -> Location] /\ plan' \in [Worker -> Outcome]
      BY <1>b, <1>c, <2>2, OutcomeType
      DEF RestartLoop, LifecycleEvent, TerminalReason
    <3> QED
      BY <1>4, <2>2, <3>1 DEF ReconcileHealth, TypeOK, store
  <2>3. CASE /\ RecordOutcome(w, "workflow_terminal_outcome", "restart_loop",
                              FenceOf(snap[w]),
                              at[w] + CleanupDelta("restart_loop"), "schedule")
             /\ UNCHANGED snap
    <3>1. pc' \in [Worker -> Location] /\ plan' \in [Worker -> Outcome]
      BY <1>a, <1>c, <2>3, OutcomeType DEF LifecycleEvent, TerminalReason
    <3> QED
      BY <1>4, <2>3, <3>1 DEF ReconcileHealth, TypeOK, store
  <2>4. CASE Hold(w, rec) /\ Goto(w, "r_decide") /\ UNCHANGED plan
    <3>1. snap' \in [Worker -> SandboxLifecycleRecord]
      BY <2>4, HoldType DEF TypeOK
    <3> QED
      BY <1>0, <1>4, <2>4, <3>1, GotoType DEF ReconcileHealth, TypeOK, store
  <2> QED
    BY <2>1, <2>2, <2>3, <2>4
<1>5. CASE RecoverBlock(w)
  <2>1. WithBlocked(rec, FALSE) \in SandboxLifecycleRecord
    BY BlockedType DEF TypeOK
  <2>2. snap[w].version \in Nat
    BY <1>1, NextVersion
  <2>3. Row("requires-reconciliation-clear", snap[w].version) \in DedupeRow
    BY <2>2 DEF Row, DedupeRow, SharedId
  <2>4. rec' \in SandboxLifecycleRecord /\ dedupe' \subseteq DedupeRow
    BY <1>5, <2>1, <2>3 DEF RecoverBlock, Write, TypeOK
  <2>5. CASE /\ Goto(w, "r_starting") \/ Goto(w, "reconcile")
             /\ Hold(w, rec') /\ UNCHANGED <<seen, at, plan, ret>>
    <3>1. snap' \in [Worker -> SandboxLifecycleRecord]
      BY <2>4, <2>5, HoldType
    <3>2. pc' \in [Worker -> Location]
      BY <1>0, <2>5, GotoType
    <3> QED
      BY <1>5, <2>4, <2>5, <3>1, <3>2 DEF RecoverBlock, TypeOK
  <2>6. CASE Return(w, "idle")
    BY <1>0, <1>5, <2>4, <2>6, ReturnType DEF RecoverBlock, TypeOK
  <2> QED
    BY <1>5, <2>5, <2>6 DEF RecoverBlock
<1>6. CASE ReconcileDecide(w)
  <2>1. CASE /\ RecordOutcome(w, "reclaim_ttl_elapsed", "lease_expired", NoFence,
                              at[w], "schedule")
             /\ UNCHANGED <<snap, seen, at, ret>>
    <3>1. pc' \in [Worker -> Location] /\ plan' \in [Worker -> Outcome]
      BY <1>a, <1>d, <2>1, OutcomeType DEF LifecycleEvent, TerminalReason
    <3> QED
      BY <1>6, <2>1, <3>1 DEF ReconcileDecide, TypeOK, store
  <2>2. CASE Goto(w, "reconcile") /\ UNCHANGED <<snap, seen, at, plan, ret>>
    BY <1>0, <1>6, <2>2, GotoType DEF ReconcileDecide, TypeOK, store
  <2>3. CASE Return(w, "idle")
    BY <1>0, <1>6, <2>3, ReturnType DEF ReconcileDecide, TypeOK, store
  <2> QED
    BY <1>6, <2>1, <2>2, <2>3 DEF ReconcileDecide
<1>7. CASE RecoverStarting(w)
  <2>1. CASE seen[w]
    <3>1. PICK b \in BOOLEAN : ApplyCopy(w, "reconcile-inventory", CleanupState,
                                        [snap[w] EXCEPT !.inventory = b])
      BY <1>7, <2>1 DEF RecoverStarting
    <3>2. [snap[w] EXCEPT !.inventory = b] \in SandboxLifecycleRecord
      BY <1>1, CopyType
    <3>3. rec' \in SandboxLifecycleRecord /\ dedupe' \subseteq DedupeRow
      BY <3>1, <3>2, ApplyCopyType DEF SharedId
    <3> QED
      BY <1>0, <1>7, <2>1, <3>3, GotoType DEF RecoverStarting, TypeOK
  <2>2. CASE ~ seen[w]
    <3>1. RecordOutcome(w, "startup_failure", "start_failed", FenceOf(snap[w]),
                        at[w] + CleanupDelta("start_failed"), "schedule")
      BY <1>7, <2>2 DEF RecoverStarting
    <3>2. pc' \in [Worker -> Location] /\ plan' \in [Worker -> Outcome]
      BY <1>a, <1>c, <3>1, OutcomeType DEF LifecycleEvent, TerminalReason
    <3> QED
      BY <1>7, <2>2, <3>2 DEF RecoverStarting, TypeOK
  <2> QED
    BY <2>1, <2>2
<1>8. CASE RecoverReread(w)
  <2>1. snap' \in [Worker -> SandboxLifecycleRecord]
    BY <1>8, HoldType DEF RecoverReread, TypeOK
  <2> QED
    BY <1>0, <1>8, <2>1, GotoType DEF RecoverReread, TypeOK, store
<1>9. CASE RecoverStarted(w)
  <2>1. Transitioned(rec, "active", "none", "keep", FALSE, NoTime)
          \in SandboxLifecycleRecord
    BY TransitionedType, DueType
    DEF TypeOK, SandboxState, TerminalReason, CleanupState, Time
  <2>2. \/ Write(Transitioned(rec, "active", "none", "keep", FALSE, NoTime))
           /\ Return(w, "idle")
        \/ /\ RecordOutcome(w, "startup_failure", "start_failed",
                            FenceOf(snap[w]),
                            at[w] + CleanupDelta("start_failed"), "schedule")
           /\ UNCHANGED <<rec, snap, seen, at, ret>>
    BY <1>9 DEF RecoverStarted
  <2>3. CASE Write(Transitioned(rec, "active", "none", "keep", FALSE, NoTime))
             /\ Return(w, "idle")
    BY <1>0, <1>9, <2>1, <2>3, ReturnType DEF RecoverStarted, TypeOK, Write
  <2>4. CASE /\ RecordOutcome(w, "startup_failure", "start_failed",
                              FenceOf(snap[w]),
                              at[w] + CleanupDelta("start_failed"), "schedule")
             /\ UNCHANGED <<rec, snap, seen, at, ret>>
    <3>1. pc' \in [Worker -> Location] /\ plan' \in [Worker -> Outcome]
      BY <1>a, <1>c, <2>4, OutcomeType DEF LifecycleEvent, TerminalReason
    <3> QED
      BY <1>9, <2>4, <3>1 DEF RecoverStarted, TypeOK
  <2> QED
    BY <2>2, <2>3, <2>4
<1>10. CASE ReconcileExisting(w)
  <2>1. /\ Transitioned(rec, "reclaimable", "lease_expired", "keep", FALSE,
                        at[w] + ReclaimTTL) \in SandboxLifecycleRecord
        /\ Transitioned(rec, "terminal", "lost_runtime", "keep", FALSE,
                        at[w] + CleanupDelta("lost_runtime"))
             \in SandboxLifecycleRecord
        /\ Transitioned(rec, "cleaned", "cleaned_externally", "completed",
                        FALSE, NoTime) \in SandboxLifecycleRecord
    BY <1>c, <1>d, TransitionedType
    DEF TypeOK, SandboxState, TerminalReason, CleanupState
  <2>2. rec.due \in Time
    BY DEF TypeOK, SandboxLifecycleRecord
  <2>3. Transitioned(rec, "terminal", "none", "scheduled", FALSE, rec.due)
          \in SandboxLifecycleRecord
    BY <2>2, TransitionedType
    DEF TypeOK, SandboxState, TerminalReason, CleanupState
  <2>4. rec' \in SandboxLifecycleRecord
    BY <1>10, <2>1, <2>3 DEF ReconcileExisting, Write
  <2> QED
    BY <1>1, <1>10, <2>4, ReturnType DEF ReconcileExisting, TypeOK
<1> QED
  BY <1>2, <1>3, <1>4, <1>5, <1>6, <1>7, <1>8, <1>9, <1>10 DEF Reconcile

\* The steps of reacquire_ownership keep the types.
LEMMA ReacquireType ==
  ASSUME TypeOK, NEW w \in Worker, Reacquire(w)
  PROVE  TypeOK'
<1>0. {"a_observe", "a_inventory", "a_take", "idle"} \subseteq Location
  BY DEF Location
<1>1. CASE ReacquireRead(w)
  <2>1. snap' \in [Worker -> SandboxLifecycleRecord]
    BY <1>1, HoldType DEF ReacquireRead, TypeOK
  <2> QED
    BY <1>0, <1>1, <2>1, GotoType DEF ReacquireRead, TypeOK, store
<1>2. CASE ReacquireObserve(w)
  BY <1>0, <1>2, GotoType DEF ReacquireObserve, TypeOK, store
<1>3. CASE ReacquireInventory(w)
  <2>0. PICK b \in BOOLEAN : ApplyCopy(w, "reacquire-inventory", CleanupState,
                                      [snap[w] EXCEPT !.inventory = b])
    BY <1>3 DEF ReacquireInventory
  <2>1. [snap[w] EXCEPT !.inventory = b] \in SandboxLifecycleRecord
    BY CopyType DEF TypeOK
  <2>2. rec' \in SandboxLifecycleRecord /\ dedupe' \subseteq DedupeRow
    BY <2>0, <2>1, ApplyCopyType DEF SharedId
  <2> QED
    BY <1>0, <1>3, <2>2, GotoType DEF ReacquireInventory, TypeOK
<1>4. CASE ReacquireTake(w)
  <2>1. rec.epoch + 1 \in Nat
    BY DEF TypeOK, SandboxLifecycleRecord
  <2>2. Reacquired(rec, Me(w), rec.epoch + 1, now) \in SandboxLifecycleRecord
    BY <2>1, ReacquiredType, MeType DEF TypeOK
  <2> QED
    BY <1>0, <1>4, <2>2, ReturnType DEF ReacquireTake, TypeOK, Write
<1> QED
  BY <1>1, <1>2, <1>3, <1>4 DEF Reacquire

\* A crash leaves every local of the dead process's tasks at its initial value.
LEMMA CrashType ==
  ASSUME TypeOK, NEW i \in Instance, Crash(i)
  PROVE  TypeOK'
<1>1. \A S, f, v : f \in [Worker -> S] /\ v \in S => Gone(f, i, v) \in [Worker -> S]
  BY DEF Gone
<1>2. "idle" \in Location
  BY DEF Location
<1>3. pc' \in [Worker -> Location] /\ at' \in [Worker -> Nat]
  BY <1>1, <1>2 DEF Crash, TypeOK
<1>4. snap' \in [Worker -> SandboxLifecycleRecord]
  BY <1>1, NoRecordType DEF Crash, TypeOK
<1>5. plan' \in [Worker -> Outcome]
  BY <1>1, NoOutcomeType DEF Crash, TypeOK
<1>6. seen' \in [Worker -> BOOLEAN] /\ ret' \in [Worker -> {"idle", "await"}]
  BY <1>1 DEF Crash, TypeOK
<1> QED
  BY <1>3, <1>4, <1>5, <1>6 DEF Crash, TypeOK, store

\* Every step keeps the types.
LEMMA StepType == TypeOK /\ [Next]_vars => TypeOK'
<1> SUFFICES ASSUME TypeOK, [Next]_vars PROVE TypeOK'
  OBVIOUS
<1>1. ASSUME NEW w \in Worker, Step(w) PROVE TypeOK'
  <2>1. CASE Unwind(w)
    <3>1. ret[w] \in Location
      BY DEF TypeOK, Location
    <3> QED
      BY <2>1, <3>1, ReturnType DEF Unwind, TypeOK, store
  <2> QED
    BY <1>1, <2>1, CreateType, HealthType, TerminalOutcomeType, ClaimType,
       ExecuteType, ReconcileType, ReacquireType DEF Step
<1>2. CASE Tick
  BY <1>2 DEF Tick, TypeOK, store, locals
<1>3. CASE DockerDrift
  BY <1>3, RemainsFacts DEF DockerDrift, TypeOK, store, locals
<1>4. CASE UNCHANGED vars
  BY <1>4 DEF TypeOK, vars
<1> QED
  BY <1>1, <1>2, <1>3, <1>4, CrashType DEF Next

\* Every reachable state is well typed: no operation of the sandbox services
\* stores a record, a dedupe row or a local outside its declared domain.
THEOREM TypeCorrect == Spec => []TypeOK
BY InitType, StepType, PTL DEF Spec

-----------------------------------------------------------------------------
(* What a write to the row may do.  Every mutation but the first is a Moves *)
(* of the stored record: this is the whole of what the theorems below need  *)
(* to know about the record operators.                                      *)

Ended == {"terminal", "cleaned"}

\* The fenced outcomes leave their evidence.
Justified(r) ==
  r.state = "terminal" /\ r.reason \in FencedReason => r.evidence /\ r.stamped

Moves(r, s) ==
  /\ s.version = r.version + 1
  /\ s.epoch >= r.epoch
  /\ s.owner # r.owner => s.epoch > r.epoch
  /\ s.state \notin {"none", "orphaned"}
  /\ r.state \in Ended => s.state \in Ended
  /\ r.blocked /\ s.blocked => s.state = r.state /\ FenceOf(s) = FenceOf(r)
  /\ r.evidence => s.evidence \/ s.epoch > r.epoch
  /\ Justified(s)

\* What the transition table allows (_LIFECYCLE_TRANSITIONS).
LEMMA TableFacts ==
  ASSUME NEW from, NEW event, NEW to, NEW cleanup,
         <<from, event, to, cleanup>> \in LifecycleTransitions
  PROVE  /\ from # "none"
         /\ to \notin {"none", "orphaned"}
         /\ from \in Ended => to \in Ended
         /\ to = "terminal" /\ "none" \in AllowedReasons(event)
              => from = "terminal"
BY DEF LifecycleTransitions, AllowedReasons, Ended

\* Field by field, what transition_state writes.
LEMMA TransitionedFields ==
  ASSUME NEW r \in SandboxLifecycleRecord, NEW to, NEW reason, NEW cleanup,
         NEW stamp \in BOOLEAN, NEW due
  PROVE  LET t == Transitioned(r, to, reason, cleanup, stamp, due)
         IN  /\ t.state = to
             /\ t.version = r.version + 1
             /\ t.epoch = r.epoch /\ t.owner = r.owner
             /\ t.blocked = r.blocked /\ t.evidence = r.evidence
             /\ t.stamped = (r.stamped \/ stamp)
             /\ t.reason = IF reason = "none" THEN r.reason ELSE reason
<1> DEFINE c == IF cleanup = "keep" THEN r.cleanup ELSE cleanup
           e == IF reason = "none" THEN r.reason ELSE reason
           b == r.stamped \/ stamp
           d == IF due = NoTime THEN r.due ELSE due
           t == Transitioned(r, to, reason, cleanup, stamp, due)
<1>1. t = [r EXCEPT !.state = to, !.cleanup = c, !.reason = e, !.stamped = b,
                    !.due = d, !.version = r.version + 1]
  BY DEF Transitioned
<1> SUFFICES /\ t.state = to
             /\ t.version = r.version + 1
             /\ t.epoch = r.epoch /\ t.owner = r.owner
             /\ t.blocked = r.blocked /\ t.evidence = r.evidence
             /\ t.stamped = b
             /\ t.reason = e
  OBVIOUS
<1> HIDE DEF c, e, b, d, t
<1> QED
  BY <1>1 DEF SandboxLifecycleRecord

\* transition_state moves the row on.
LEMMA MovesTransition ==
  ASSUME NEW r \in SandboxLifecycleRecord, NEW version, NEW fence, NEW event,
         NEW to, NEW reason, NEW cleanup, NEW stamp \in BOOLEAN, NEW due,
         Justified(r),
         CanTransition(r, version, fence, event, to, reason, cleanup),
         to = "terminal" /\ reason \in FencedReason => r.evidence /\ stamp
  PROVE  /\ Moves(r, Transitioned(r, to, reason, cleanup, stamp, due))
         /\ r.state # "none"
<1> DEFINE t == Transitioned(r, to, reason, cleanup, stamp, due)
<1>1. /\ t.state = to
      /\ t.version = r.version + 1
      /\ t.epoch = r.epoch /\ t.owner = r.owner
      /\ t.blocked = r.blocked /\ t.evidence = r.evidence
      /\ t.stamped = (r.stamped \/ stamp)
      /\ t.reason = IF reason = "none" THEN r.reason ELSE reason
  BY TransitionedFields
<1>2. /\ r.state # "none"
      /\ to \notin {"none", "orphaned"}
      /\ r.state \in Ended => to \in Ended
      /\ to = "terminal" /\ reason = "none" => r.state = "terminal"
      /\ ~ r.blocked
  BY TableFacts DEF CanTransition
<1> HIDE DEF t
<1>3. Justified(t)
  BY <1>1, <1>2 DEF Justified
<1>4. r.epoch \in Nat
  BY DEF SandboxLifecycleRecord
<1>5. Moves(r, t)
  BY <1>1, <1>2, <1>3, <1>4 DEF Moves, FenceOf
<1> QED
  BY <1>2, <1>5 DEF t

\* renew_lease of an active record moves the row on.
LEMMA MovesRenewed ==
  ASSUME NEW r \in SandboxLifecycleRecord, NEW t, Justified(r),
         r.state = "active"
  PROVE  Moves(r, RenewedLease(r, t))
BY DEF Moves, RenewedLease, SandboxLifecycleRecord, Justified, FenceOf, Ended

\* claim_cleanup of a terminal record moves the row on.
LEMMA MovesClaimed ==
  ASSUME NEW r \in SandboxLifecycleRecord, NEW i, Justified(r),
         r.state = "terminal"
  PROVE  Moves(r, ClaimedCleanup(r, i))
BY DEF Moves, ClaimedCleanup, SandboxLifecycleRecord, Justified, FenceOf, Ended

\* set_requires_reconciliation moves the row on.
LEMMA MovesBlocked ==
  ASSUME NEW r \in SandboxLifecycleRecord, NEW b \in BOOLEAN, Justified(r),
         r.state \notin {"none", "orphaned"}
  PROVE  Moves(r, WithBlocked(r, b))
BY DEF Moves, WithBlocked, SandboxLifecycleRecord, Justified, FenceOf, Ended

\* reacquire_ownership moves the row on, under a newer epoch.
LEMMA MovesReacquired ==
  ASSUME NEW r \in SandboxLifecycleRecord, NEW version, NEW i, NEW e \in Nat,
         NEW t, CanReacquire(r, version, e)
  PROVE  Moves(r, Reacquired(r, i, e, t)) /\ r.state # "none"
<1>1. r.state = "reclaimable" /\ ~ r.blocked /\ e > r.epoch
  BY DEF CanReacquire, LifecycleTransitions
<1> QED
  BY <1>1 DEF Moves, Reacquired, SandboxLifecycleRecord, Justified, FenceOf, Ended

\* The copies _apply_record_copy stores move the row on.
LEMMA MovesCopy ==
  ASSUME NEW r \in SandboxLifecycleRecord, NEW b \in BOOLEAN, Justified(r),
         r.state \notin {"none", "orphaned"}
  PROVE  /\ Moves(r, [r EXCEPT !.version = @ + 1])
         /\ Moves(r, [[r EXCEPT !.inventory = b] EXCEPT !.version = @ + 1])
         /\ Moves(r, [r EXCEPT !.evidence = TRUE, !.version = @ + 1])
         /\ Moves(r, [r EXCEPT !.cleanup = "failed", !.version = @ + 1])
<1>1. Moves(r, [r EXCEPT !.version = @ + 1])
  BY DEF Moves, SandboxLifecycleRecord, Justified, FenceOf, Ended
<1>2. Moves(r, [[r EXCEPT !.inventory = b] EXCEPT !.version = @ + 1])
  BY DEF Moves, SandboxLifecycleRecord, Justified, FenceOf, Ended
<1>3. Moves(r, [r EXCEPT !.evidence = TRUE, !.version = @ + 1])
  BY DEF Moves, SandboxLifecycleRecord, Justified, FenceOf, Ended
<1>4. Moves(r, [r EXCEPT !.cleanup = "failed", !.version = @ + 1])
  BY DEF Moves, SandboxLifecycleRecord, Justified, FenceOf, Ended
<1> QED
  BY <1>1, <1>2, <1>3, <1>4

-----------------------------------------------------------------------------
(* The inductive invariant.                                                 *)

\* The row: a reservation precedes it, it is never seen half made, and a claim
\* of its cleanup is final.
RowInv ==
  /\ rec.version = 0 => rec = NoRecord
  /\ rec.version > 0 => /\ reserved /\ rec.epoch >= 1
                        /\ rec.state \notin {"none", "orphaned"}
  /\ Justified(rec)
  /\ \A v \in Nat, i \in Instance :
       ClaimRow(v, i) \in dedupe => rec.state \in Ended

\* What a worker holds is an older version or the row itself, and was owned
\* under an epoch that is not newer than the row's.
HeldInv(w) ==
  /\ snap[w].version <= rec.version
  /\ snap[w].version = rec.version => snap[w] = rec
  /\ snap[w].version > 0 => snap[w].epoch >= 1 /\ snap[w].epoch <= rec.epoch
  /\ snap[w].state # "none" => snap[w].version > 0

\* Where a worker stands says something of the row.
PlaceInv(w) ==
  /\ pc[w] = "save" => reserved /\ rec.version = 0
  /\ pc[w] \in {"accept", "deploy", "await", "start_failed", "flag"}
       => rec.version > 0
  /\ ret[w] = "await" => rec.version > 0
  /\ pc[w] \in {"r_health", "r_starting", "r_reread", "r_started"}
       => snap[w].version > 0
  /\ pc[w] \in Executing => rec.state \in Ended
  /\ pc[w] \in {"evidence", "terminalize"} =>
       /\ plan[w].fence[2] <= rec.epoch
       /\ plan[w].reason \in FencedReason => plan[w].fence[2] >= 1
  /\ pc[w] = "terminalize" /\ plan[w].fence = FenceOf(rec) => rec.evidence

OneSaver == \A v, w \in Worker : pc[v] = "save" /\ pc[w] = "save" => v = w

IInv ==
  /\ TypeOK
  /\ RowInv
  /\ OneSaver
  /\ \A w \in Worker : HeldInv(w) /\ PlaceInv(w)

-----------------------------------------------------------------------------
(* Steps, as the invariant sees them.                                       *)

\* The row is left alone, created, or moved on.
RowStep ==
  /\ reserved => reserved'
  /\ \/ rec' = rec
     \/ /\ rec.version = 0 /\ reserved'
        /\ rec'.version = 1 /\ rec'.epoch = 1 /\ rec'.state = "creating"
     \/ rec.version > 0 /\ reserved /\ Moves(rec, rec')

\* A worker touches its own locals, and holds what it held or the new row.
LocalStep(w) ==
  /\ snap'[w] \in {snap[w], NoRecord, rec'}
  /\ \A v \in Worker \ {w} : /\ pc'[v] = pc[v] /\ snap'[v] = snap[v]
                             /\ plan'[v] = plan[v] /\ ret'[v] = ret[v]

\* Returning touches only the locals of the worker that returns.
LEMMA ReturnLocal ==
  ASSUME TypeOK, NEW w \in Worker, NEW p, Return(w, p)
  PROVE  /\ LocalStep(w)
         /\ pc'[w] = p /\ ret'[w] = "idle"
BY DEF TypeOK, Return, LocalStep

\* So does going on with what it held or with the row.
LEMMA GotoLocal ==
  ASSUME TypeOK, NEW w \in Worker, NEW p, Goto(w, p),
         \/ snap' = snap
         \/ Hold(w, rec')
         \/ Hold(w, rec) /\ rec' = rec,
         \/ plan' = plan
         \/ \E o : plan' = [plan EXCEPT ![w] = o],
         \/ ret' = ret
         \/ \E q : ret' = [ret EXCEPT ![w] = q]
  PROVE  LocalStep(w) /\ pc'[w] = p
BY DEF TypeOK, Goto, Hold, LocalStep

\* So does turning to _record_terminal_outcome.
LEMMA OutcomeLocal ==
  ASSUME TypeOK, NEW w \in Worker, NEW e, NEW reason, NEW f, NEW due, NEW next,
         RecordOutcome(w, e, reason, f, due, next), snap' = snap, ret' = ret
  PROVE  /\ LocalStep(w)
         /\ pc'[w] = "evidence"
         /\ plan'[w].fence = f /\ plan'[w].reason = reason
BY DEF TypeOK, RecordOutcome, Goto, LocalStep

-----------------------------------------------------------------------------
(* Each part of the invariant, from RowStep and LocalStep.                  *)

\* The fields of the absent row.
LEMMA NoRecordFields ==
  NoRecord.version = 0 /\ NoRecord.state = "none" /\ NoRecord.epoch = 0
  /\ NoRecord.blocked = FALSE /\ NoRecord.evidence = FALSE
  /\ NoRecord.owner = NoInstance
BY DEF NoRecord

\* A row step keeps the invariant of the row.
LEMMA RowPreserved ==
  ASSUME TypeOK, TypeOK', RowInv, RowStep,
         \A v \in Nat, i \in Instance :
           ClaimRow(v, i) \in dedupe' \ dedupe => rec'.state \in Ended
  PROVE  RowInv'
<1>0. rec.version \in Nat /\ rec.epoch \in Nat /\ rec'.epoch \in Nat
  BY DEF TypeOK, SandboxLifecycleRecord
<1>1. CASE rec' = rec
  BY <1>1 DEF RowInv, RowStep, Justified
<1>2. CASE /\ rec.version = 0 /\ reserved'
           /\ rec'.version = 1 /\ rec'.epoch = 1 /\ rec'.state = "creating"
  <2>1. rec.state = "none"
    BY <1>2, NoRecordFields DEF RowInv
  <2> QED
    BY <1>2, <2>1 DEF RowInv, Justified, Ended
<1>3. CASE rec.version > 0 /\ reserved /\ Moves(rec, rec')
  <2>1. /\ rec'.version > 0 /\ rec'.epoch >= 1 /\ reserved'
        /\ rec'.state \notin {"none", "orphaned"}
        /\ rec.state \in Ended => rec'.state \in Ended
    BY <1>0, <1>3 DEF RowInv, RowStep, Moves
  <2>2. Justified(rec)'
    BY <1>3 DEF Moves, Justified
  <2>3. \A v \in Nat, i \in Instance :
          ClaimRow(v, i) \in dedupe' => rec'.state \in Ended
    BY <2>1 DEF RowInv
  <2> QED
    BY <1>0, <1>3, <2>1, <2>2, <2>3 DEF RowInv
<1> QED
  BY <1>1, <1>2, <1>3 DEF RowStep

\* A row step keeps the invariant of what a worker holds.
LEMMA HeldPreserved ==
  ASSUME TypeOK, TypeOK', RowInv, RowInv', RowStep, NEW w \in Worker, HeldInv(w),
         snap'[w] \in {snap[w], NoRecord, rec'}
  PROVE  HeldInv(w)'
<1>0. /\ rec.version \in Nat /\ rec.epoch \in Nat
      /\ rec'.version \in Nat /\ rec'.epoch \in Nat
      /\ snap[w].version \in Nat /\ snap[w].epoch \in Nat
  BY DEF TypeOK, SandboxLifecycleRecord
<1>1. CASE snap'[w] = NoRecord
  BY <1>0, <1>1, NoRecordFields DEF HeldInv, RowInv
<1>2. CASE snap'[w] = rec'
  BY <1>0, <1>2, NoRecordFields DEF HeldInv, RowInv
<1>3. CASE snap'[w] = snap[w]
  <2>1. CASE rec' = rec
    BY <1>3, <2>1 DEF HeldInv
  <2>2. CASE rec'.version = rec.version + 1 /\ rec'.epoch >= rec.epoch
    BY <1>0, <1>3, <2>2 DEF HeldInv
  <2>3. CASE rec.version = 0 /\ rec'.version = 1 /\ rec'.epoch = 1
    BY <1>0, <1>3, <2>3 DEF HeldInv
  <2> QED
    BY <2>1, <2>2, <2>3 DEF RowStep, Moves
<1> QED
  BY <1>1, <1>2, <1>3

\* A row step of another worker keeps what a place says of the row.
LEMMA PlacePreserved ==
  ASSUME TypeOK, TypeOK', RowInv, RowStep, NEW v \in Worker,
         HeldInv(v), PlaceInv(v),
         pc'[v] = pc[v], snap'[v] = snap[v], plan'[v] = plan[v], ret'[v] = ret[v],
         rec' # rec => pc[v] # "save"
  PROVE  PlaceInv(v)'
<1>0. /\ rec.version \in Nat /\ rec.epoch \in Nat
      /\ rec'.version \in Nat /\ rec'.epoch \in Nat
      /\ plan[v].fence \in Fence /\ plan[v].fence[2] \in Nat
  BY DEF TypeOK, SandboxLifecycleRecord, Outcome, Fence
<1>1. CASE rec' = rec
  BY <1>1 DEF PlaceInv, RowStep
<1>2. CASE /\ rec.version = 0 /\ reserved'
           /\ rec'.version = 1 /\ rec'.epoch = 1 /\ rec'.state = "creating"
           /\ rec' # rec
  <2>1. rec.state = "none" /\ rec.epoch = 0
    BY <1>2, NoRecordFields DEF RowInv
  <2>2. pc[v] = "terminalize" => plan[v].fence[2] # FenceOf(rec')[2]
    BY <1>0, <1>2, <2>1 DEF PlaceInv, FenceOf
  <2> QED
    BY <1>0, <1>2, <2>1, <2>2 DEF PlaceInv, Ended
<1>3. CASE rec.version > 0 /\ Moves(rec, rec') /\ rec' # rec
  <2>1. /\ rec'.version > 0 /\ rec'.epoch >= rec.epoch
        /\ rec.state \in Ended => rec'.state \in Ended
        /\ rec'.epoch > rec.epoch \/ rec'.owner = rec.owner
        /\ rec.evidence => rec'.evidence \/ rec'.epoch > rec.epoch
    BY <1>0, <1>3 DEF Moves
  <2>2. ASSUME pc[v] = "terminalize", plan[v].fence = FenceOf(rec')
        PROVE  rec'.evidence
    <3>1. plan[v].fence[2] <= rec.epoch /\ plan[v].fence[2] = rec'.epoch
      BY <2>2 DEF PlaceInv, FenceOf
    <3>2. rec'.epoch = rec.epoch
      BY <1>0, <2>1, <3>1
    <3>3. FenceOf(rec') = FenceOf(rec)
      BY <1>0, <2>1, <3>2 DEF FenceOf
    <3>4. rec.evidence
      BY <2>2, <3>3 DEF PlaceInv
    <3> QED
      BY <1>0, <2>1, <3>2, <3>4
  <2> QED
    BY <1>0, <1>3, <2>1, <2>2 DEF PlaceInv
<1> QED
  BY <1>1, <1>2, <1>3 DEF RowStep

-----------------------------------------------------------------------------
(* A step of a worker is good when it does the following, and good steps    *)
(* preserve the invariant.                                                  *)

NewClaimsEnded ==
  \A v \in Nat, i \in Instance :
    ClaimRow(v, i) \in dedupe' \ dedupe => rec'.state \in Ended

Good(w) ==
  /\ RowStep
  /\ LocalStep(w)
  /\ PlaceInv(w)'
  /\ NewClaimsEnded
  /\ pc'[w] = "save" => ~ reserved
  /\ rec' # rec /\ rec.version = 0 => pc[w] = "save"

\* A good step of one worker keeps the whole invariant.
LEMMA GoodPreserves ==
  ASSUME IInv, TypeOK', NEW w \in Worker, Good(w)
  PROVE  IInv'
<1>1. RowInv'
  BY RowPreserved DEF IInv, Good, NewClaimsEnded
<1>2. ASSUME NEW v \in Worker PROVE HeldInv(v)'
  <2>1. snap'[v] \in {snap[v], NoRecord, rec'}
    BY DEF Good, LocalStep
  <2> QED
    BY <1>1, <2>1, HeldPreserved DEF IInv, Good
<1>3. ASSUME NEW v \in Worker PROVE PlaceInv(v)'
  <2>1. CASE v = w
    BY <2>1 DEF Good
  <2>2. CASE v # w
    <3>1. rec' # rec => pc[v] # "save"
      BY <2>2 DEF IInv, PlaceInv, OneSaver, Good
    <3>2. pc'[v] = pc[v] /\ snap'[v] = snap[v] /\ plan'[v] = plan[v]
          /\ ret'[v] = ret[v]
      BY <2>2 DEF Good, LocalStep
    <3> QED
      BY <3>1, <3>2, PlacePreserved DEF IInv, Good
  <2> QED
    BY <2>1, <2>2
<1>4. OneSaver'
  <2>1. \A v \in Worker : v # w => pc'[v] = pc[v]
    BY DEF Good, LocalStep
  <2>2. \A v \in Worker : pc[v] = "save" => reserved
    BY DEF IInv, PlaceInv
  <2>3. pc'[w] = "save" => ~ reserved
    BY DEF Good
  <2> QED
    BY <2>1, <2>2, <2>3 DEF IInv, OneSaver
<1> QED
  BY <1>1, <1>2, <1>3, <1>4 DEF IInv

\* What the invariant says of a row that exists, and what a row step keeps.
LEMMA RowFacts ==
  ASSUME IInv
  PROVE  /\ rec \in SandboxLifecycleRecord
         /\ rec.version \in Nat /\ rec.epoch \in Nat
         /\ Justified(rec)
         /\ rec.state # "none" => rec.version > 0
         /\ rec.version > 0 => /\ reserved /\ rec.epoch >= 1
                               /\ rec.state \notin {"none", "orphaned"}
<1>1. rec \in SandboxLifecycleRecord /\ rec.version \in Nat /\ rec.epoch \in Nat
  BY DEF IInv, TypeOK, SandboxLifecycleRecord
<1> QED
  BY <1>1, NoRecordFields DEF IInv, RowInv

\* A row step loses neither the row, nor its epoch, nor its end.
LEMMA RowStepKeeps ==
  ASSUME IInv, TypeOK', RowStep
  PROVE  /\ rec'.version \in Nat /\ rec'.epoch \in Nat
         /\ rec.version > 0 => rec'.version > 0
         /\ rec'.epoch >= rec.epoch
         /\ rec.state \in Ended => rec'.state \in Ended
<1>1. rec'.version \in Nat /\ rec'.epoch \in Nat
  BY DEF TypeOK, SandboxLifecycleRecord
<1>2. CASE rec' = rec
  BY <1>1, <1>2
<1>3. CASE /\ rec.version = 0 /\ reserved'
           /\ rec'.version = 1 /\ rec'.epoch = 1 /\ rec'.state = "creating"
  <2>1. rec.state = "none" /\ rec.epoch = 0
    BY <1>3, NoRecordFields DEF IInv, RowInv
  <2> QED
    BY <1>1, <1>3, <2>1 DEF Ended
<1>4. CASE rec.version > 0 /\ reserved /\ Moves(rec, rec')
  BY <1>1, <1>4, RowFacts DEF Moves
<1> QED
  BY <1>2, <1>3, <1>4 DEF RowStep

\* Moving an existing row on is a row step.
LEMMA MovedRow ==
  ASSUME IInv, rec.state # "none", Moves(rec, rec'), reserved' = reserved
  PROVE  RowStep /\ (rec.version # 0)
BY RowFacts DEF RowStep

\* Leaving the row alone is a row step.
LEMMA SameRow ==
  ASSUME rec' = rec, reserved' = reserved
  PROVE  RowStep
BY DEF RowStep

\* The rows of the shared operation ids are no claims.
LEMMA SharedRowsAreNotClaims ==
  ASSUME NEW id \in SharedId, NEW n
  PROVE  \A v, i : ClaimRow(v, i) # Row(id, n)
BY DEF ClaimRow, Row, SharedId

\* _apply_record_copy of an updated copy that leaves state and ownership alone.
LEMMA ApplyCopyGood ==
  ASSUME IInv, NEW w \in Worker, NEW id \in SharedId, NEW cleanup,
         NEW b \in BOOLEAN, NEW next,
         next \in {snap[w], [snap[w] EXCEPT !.inventory = b]},
         ApplyCopy(w, id, cleanup, next), reserved' = reserved
  PROVE  /\ RowStep
         /\ NewClaimsEnded
         /\ rec' # rec => rec.version # 0
<1>1. CASE /\ Row(id, snap[w].version) \in dedupe
           /\ UNCHANGED <<rec, dedupe>>
  BY <1>1, SameRow DEF NewClaimsEnded
<1>2. CASE /\ CanApplyCopy(rec, snap[w]) /\ rec.cleanup \in cleanup
           /\ Write([next EXCEPT !.version = @ + 1])
           /\ dedupe' = dedupe \cup {Row(id, snap[w].version)}
  <2>1. snap[w] = rec /\ rec.version > 0
    BY <1>2 DEF CanApplyCopy, IInv, HeldInv
  <2>2. rec' \in {[rec EXCEPT !.version = @ + 1],
                  [[rec EXCEPT !.inventory = b] EXCEPT !.version = @ + 1]}
    BY <1>2, <2>1 DEF Write
  <2>3. Moves(rec, rec')
    <3>1. /\ rec \in SandboxLifecycleRecord /\ Justified(rec)
          /\ rec.state \notin {"none", "orphaned"}
      BY <2>1, RowFacts
    <3>2. /\ Moves(rec, [rec EXCEPT !.version = @ + 1])
          /\ Moves(rec, [[rec EXCEPT !.inventory = b] EXCEPT !.version = @ + 1])
      BY <3>1, MovesCopy
    <3> QED
      BY <2>2, <3>2
  <2>4. RowStep
    BY <2>1, <2>3, RowFacts, MovedRow
  <2>5. NewClaimsEnded
    BY <1>2, SharedRowsAreNotClaims DEF NewClaimsEnded
  <2> QED
    BY <2>1, <2>4, <2>5
<1> QED
  BY <1>1, <1>2 DEF ApplyCopy

\* A worker that returns to its caller.
LEMMA ReturnGood ==
  ASSUME IInv, TypeOK', NEW w \in Worker, NEW p \in {"idle", ret[w]},
         Return(w, p), RowStep, NewClaimsEnded, rec' # rec => rec.version # 0
  PROVE  Good(w)
<1>1. /\ LocalStep(w) /\ pc'[w] = p /\ ret'[w] = "idle"
  BY ReturnLocal DEF IInv
<1>2. ret[w] \in {"idle", "await"}
  BY DEF IInv, TypeOK
<1>3. ret[w] = "await" => rec'.version > 0
  BY RowStepKeeps DEF IInv, PlaceInv
<1>4. PlaceInv(w)'
  BY <1>1, <1>2, <1>3 DEF PlaceInv, Executing
<1> QED
  BY <1>1, <1>2, <1>4 DEF Good

\* A worker that goes to a place about which the invariant says nothing.
Plain == {"idle", "reserve", "h_observe", "h_inventory", "h_record", "h_verify",
          "h_healthy", "schedule", "r_observe", "r_decide", "reconcile",
          "a_observe", "a_inventory", "a_take", "d_schedule", "d_claim",
          "s_schedule", "s_claim"}

\* Going to a plain place is a good step.
LEMMA PlainGood ==
  ASSUME IInv, TypeOK', NEW w \in Worker, NEW p \in Plain, pc'[w] = p,
         ret'[w] \in {ret[w], "idle"} \/ pc[w] = "await",
         LocalStep(w), RowStep, NewClaimsEnded, rec' # rec => rec.version # 0
  PROVE  Good(w)
<1>1. ret'[w] = "await" => rec'.version > 0
  BY RowStepKeeps DEF IInv, PlaceInv
<1>2. PlaceInv(w)'
  BY <1>1 DEF PlaceInv, Plain, Executing
<1> QED
  BY <1>2 DEF Good, Plain

\* A worker that turns to _record_terminal_outcome.
LEMMA OutcomeGood ==
  ASSUME IInv, TypeOK', NEW w \in Worker, NEW e, NEW reason, NEW f, NEW due,
         NEW next, RecordOutcome(w, e, reason, f, due, next),
         UNCHANGED <<rec, reserved, dedupe, snap, ret>>,
         f[2] <= rec.epoch, reason \in FencedReason => f[2] >= 1
  PROVE  Good(w)
<1>1. /\ LocalStep(w) /\ pc'[w] = "evidence"
      /\ plan'[w].fence = f /\ plan'[w].reason = reason
  BY OutcomeLocal DEF IInv
<1>2. PlaceInv(w)'
  BY <1>1 DEF IInv, PlaceInv, Executing
<1> QED
  BY <1>1, <1>2, SameRow DEF Good, NewClaimsEnded

-----------------------------------------------------------------------------
(* Every action of a worker is good.                                        *)

\* The steps of create_sandbox are good.
LEMMA CreateGood ==
  ASSUME IInv, TypeOK', NEW w \in Worker, Create(w)
  PROVE  Good(w)
<1>0. TypeOK
  BY DEF IInv
<1>1. CASE CreateCheck(w)
  <2>1. LocalStep(w) /\ pc'[w] = "reserve"
    BY <1>0, <1>1, GotoLocal DEF CreateCheck
  <2> QED
    BY <1>1, <2>1, SameRow, PlainGood
    DEF CreateCheck, store, Plain, NewClaimsEnded
<1>2. CASE CreateReserve(w)
  <2>1. LocalStep(w) /\ pc'[w] = "save"
    BY <1>0, <1>2, GotoLocal DEF CreateReserve
  <2>2. rec.version = 0
    BY <1>2, RowFacts DEF CreateReserve
  <2>3. ret'[w] = "await" => rec'.version > 0
    BY <1>2 DEF CreateReserve, IInv, PlaceInv
  <2>4. PlaceInv(w)'
    BY <1>2, <2>1, <2>2, <2>3 DEF CreateReserve, PlaceInv, Executing
  <2>5. RowStep /\ NewClaimsEnded
    BY <1>2 DEF CreateReserve, RowStep, NewClaimsEnded
  <2> QED
    BY <1>2, <2>1, <2>4, <2>5 DEF CreateReserve, Good
<1>3. CASE CreateSave(w)
  <2>1. LocalStep(w) /\ pc'[w] = "accept"
    BY <1>0, <1>3, GotoLocal DEF CreateSave
  <2>2. pc[w] = "save" /\ reserved /\ rec.version = 0
    BY <1>3 DEF CreateSave, At, IInv, PlaceInv
  <2>3. rec'.version = 1 /\ rec'.epoch = 1 /\ rec'.state = "creating"
    BY <1>3 DEF CreateSave, Write, NewRecord, NoRecord
  <2>4. RowStep /\ NewClaimsEnded
    BY <1>3, <2>2, <2>3 DEF CreateSave, RowStep, NewClaimsEnded
  <2>5. PlaceInv(w)'
    BY <1>3, <2>1, <2>3 DEF CreateSave, PlaceInv, Executing
  <2> QED
    BY <2>1, <2>2, <2>4, <2>5 DEF Good
<1>4. CASE CreateAccept(w)
  <2>1. LocalStep(w) /\ pc'[w] = "deploy"
    BY <1>0, <1>4, GotoLocal DEF CreateAccept
  <2>2. Moves(rec, rec') /\ rec.state # "none"
    BY <1>4, MovesTransition, RowFacts DEF CreateAccept, Write, FencedReason
  <2>3. RowStep /\ rec.version # 0 /\ NewClaimsEnded
    BY <1>4, <2>2, MovedRow DEF CreateAccept, NewClaimsEnded
  <2>4. rec'.version > 0
    BY <2>3, RowFacts, RowStepKeeps
  <2>5. PlaceInv(w)'
    BY <1>4, <2>1, <2>4 DEF CreateAccept, PlaceInv, Executing
  <2> QED
    BY <2>1, <2>3, <2>5 DEF Good
<1>5. CASE Deploy(w)
  <2>1. LocalStep(w) /\ pc'[w] \in {"await", "start_failed", "flag"}
    BY <1>0, <1>5, GotoLocal DEF Deploy
  <2>2. rec.version > 0
    BY <1>5 DEF Deploy, At, IInv, PlaceInv
  <2>3. RowStep /\ NewClaimsEnded
    BY <1>5, SameRow DEF Deploy, store, NewClaimsEnded
  <2>4. PlaceInv(w)'
    BY <1>5, <2>1, <2>2 DEF Deploy, store, PlaceInv, Executing
  <2> QED
    BY <1>5, <2>1, <2>3, <2>4 DEF Good, Deploy, store
<1>6. CASE AwaitGivesUp(w)
  <2>1. LocalStep(w) /\ pc'[w] \in {"start_failed", "flag"}
    BY <1>0, <1>6, GotoLocal DEF AwaitGivesUp
  <2>2. rec.version > 0
    BY <1>6 DEF AwaitGivesUp, At, IInv, PlaceInv
  <2>3. RowStep /\ NewClaimsEnded
    BY <1>6, SameRow DEF AwaitGivesUp, store, NewClaimsEnded
  <2>4. PlaceInv(w)'
    BY <1>6, <2>1, <2>2 DEF AwaitGivesUp, store, PlaceInv, Executing
  <2> QED
    BY <1>6, <2>1, <2>3, <2>4 DEF Good, AwaitGivesUp, store
<1>7. CASE MarkStartFailed(w)
  <2>1. CASE rec.state = "starting"
    <3>1. FenceOf(rec)[2] = rec.epoch /\ rec.epoch >= 1
      BY <2>1, RowFacts DEF FenceOf
    <3>2. RecordOutcome(w, "startup_failure", "start_failed", FenceOf(rec),
                        now + CleanupDelta("start_failed"), "idle")
          /\ UNCHANGED <<rec, reserved, dedupe, snap, ret>>
      BY <1>7, <2>1 DEF MarkStartFailed, store
    <3> QED
      BY <3>1, <3>2, RowFacts, OutcomeGood
  <2>2. CASE rec.state # "starting"
    BY <1>7, <2>2, SameRow, ReturnGood DEF MarkStartFailed, store, NewClaimsEnded
  <2> QED
    BY <2>1, <2>2
<1>8. CASE MarkRequiresReconciliation(w)
  <2>1. rec.version > 0
    BY <1>8 DEF MarkRequiresReconciliation, At, IInv, PlaceInv
  <2>2. Moves(rec, rec') /\ rec.state # "none"
    BY <1>8, <2>1, RowFacts, MovesBlocked DEF MarkRequiresReconciliation, Write
  <2>3. RowStep /\ rec.version # 0 /\ NewClaimsEnded
    BY <1>8, <2>2, MovedRow DEF MarkRequiresReconciliation, NewClaimsEnded
  <2> QED
    BY <1>8, <2>3, ReturnGood DEF MarkRequiresReconciliation
<1> QED
  BY <1>1, <1>2, <1>3, <1>4, <1>5, <1>6, <1>7, <1>8 DEF Create

\* The steps of health_check are good.
LEMMA HealthGood ==
  ASSUME IInv, TypeOK', NEW w \in Worker, HealthCheck(w)
  PROVE  Good(w)
<1>0. TypeOK
  BY DEF IInv
<1>1. CASE HealthRead(w)
  <2>1. LocalStep(w) /\ pc'[w] = "h_observe"
    BY <1>0, <1>1, GotoLocal DEF HealthRead, store
  <2>2. ret'[w] = "idle" \/ pc[w] = "await"
    BY <1>0, <1>1 DEF HealthRead, TypeOK, At
  <2> QED
    BY <1>1, <2>1, <2>2, SameRow, PlainGood
    DEF HealthRead, store, Plain, NewClaimsEnded
<1>2. CASE HealthObserve(w)
  <2>0. UNCHANGED <<rec, reserved, dedupe>>
    BY <1>2 DEF HealthObserve, store
  <2>1. PICK rows \in ObservedRows :
          \/ RestartLoop(w, rows, now, "idle") /\ UNCHANGED <<snap, ret>>
          \/ (\E p \in Plain : Goto(w, p)) /\ UNCHANGED <<snap, plan, ret>>
    BY <1>2 DEF HealthObserve, Plain
  <2>2. CASE RestartLoop(w, rows, now, "idle") /\ UNCHANGED <<snap, ret>>
    <3>1. <<Me(w), rec.epoch>>[2] <= rec.epoch
          /\ <<Me(w), rec.epoch>>[2] >= 1
      BY <2>2, RowFacts DEF RestartLoop
    <3> QED
      BY <2>0, <2>2, <3>1, OutcomeGood DEF RestartLoop
  <2>3. CASE (\E p \in Plain : Goto(w, p)) /\ UNCHANGED <<snap, plan, ret>>
    <3>1. LocalStep(w) /\ pc'[w] \in Plain
      BY <1>0, <2>3, GotoLocal
    <3> QED
      BY <2>0, <2>3, <3>1, SameRow, PlainGood DEF NewClaimsEnded
  <2> QED
    BY <2>1, <2>2, <2>3
<1>3. CASE InventoryRead(w)
  <2>1. LocalStep(w) /\ pc'[w] = "h_record"
    BY <1>0, <1>3, GotoLocal DEF InventoryRead, store
  <2> QED
    BY <1>3, <2>1, SameRow, PlainGood
    DEF InventoryRead, store, Plain, NewClaimsEnded
<1>4. CASE RecordInventory(w)
  <2>1. LocalStep(w) /\ pc'[w] = "h_verify"
    BY <1>0, <1>4, GotoLocal DEF RecordInventory
  <2> DEFINE b == docker \in {"degraded", "up"}
  <2>2. b \in BOOLEAN
    OBVIOUS
  <2>3. ApplyCopy(w, "inventory", CleanupState, [snap[w] EXCEPT !.inventory = b])
    BY <1>4 DEF RecordInventory
  <2> HIDE DEF b
  <2>4. reserved' = reserved /\ ret' = ret
    BY <1>4 DEF RecordInventory
  <2>5. /\ RowStep
        /\ NewClaimsEnded
        /\ rec' # rec => rec.version # 0
    BY <2>2, <2>3, <2>4, ApplyCopyGood DEF SharedId
  <2> QED
    BY <2>1, <2>4, <2>5, PlainGood DEF Plain
<1>5. CASE MarkVerified(w)
  <2>1. Moves(rec, rec') /\ rec.state # "none"
    BY <1>5, MovesTransition, RowFacts DEF MarkVerified, Write, FencedReason
  <2>2. RowStep /\ rec.version # 0 /\ NewClaimsEnded
    BY <1>5, <2>1, MovedRow DEF MarkVerified, NewClaimsEnded
  <2> QED
    BY <1>5, <2>2, ReturnGood DEF MarkVerified
<1>6. CASE HandleHealthy(w)
  <2>1. \/ rec' = rec
        \/ Moves(rec, rec') /\ rec.state # "none"
    <3>1. CASE /\ CanTransition(rec, rec.version, FenceOf(rec),
                                "health_verified", "active", "none", "keep")
               /\ Write(Transitioned(rec, "active", "none", "keep", FALSE,
                                     NoTime))
      BY <3>1, MovesTransition, RowFacts DEF Write, FencedReason
    <3>2. CASE /\ rec.state = "active"
               /\ CanRenewLease(rec, rec.version, Me(w))
               /\ Write(RenewedLease(rec, now))
      BY <3>2, MovesRenewed, RowFacts DEF Write
    <3> QED
      BY <1>6, <3>1, <3>2 DEF HandleHealthy
  <2>2. RowStep /\ NewClaimsEnded /\ (rec' # rec => rec.version # 0)
    BY <1>6, <2>1, MovedRow, SameRow DEF HandleHealthy, NewClaimsEnded
  <2> QED
    BY <1>6, <2>2, ReturnGood DEF HandleHealthy
<1> QED
  BY <1>1, <1>2, <1>3, <1>4, <1>5, <1>6 DEF HealthCheck

\* The two writes of _record_terminal_outcome are good: the fence that admits
\* the transition is the one under which the evidence was written.
LEMMA TerminalOutcomeGood ==
  ASSUME IInv, TypeOK', NEW w \in Worker, TerminalOutcome(w)
  PROVE  Good(w)
<1>0. TypeOK
  BY DEF IInv
<1>1. CASE Evidence(w)
  <2>1. LocalStep(w) /\ pc'[w] = "terminalize"
    BY <1>0, <1>1, GotoLocal DEF Evidence
  <2>2. rec.version > 0 /\ rec' = [rec EXCEPT !.evidence = TRUE, !.version = @ + 1]
    BY <1>1 DEF Evidence, Write, CanApplyCopy
  <2>3. Moves(rec, rec') /\ rec.state # "none"
    BY <2>2, RowFacts, MovesCopy
  <2>4. RowStep /\ rec.version # 0 /\ NewClaimsEnded
    BY <1>1, <2>3, MovedRow DEF Evidence, NewClaimsEnded
  <2>5. rec'.evidence /\ rec'.epoch = rec.epoch /\ rec'.version > 0
    BY <2>2, RowFacts DEF SandboxLifecycleRecord
  <2>6. PlaceInv(w)'
    BY <1>1, <2>1, <2>5 DEF Evidence, At, IInv, PlaceInv, Executing
  <2> QED
    BY <2>1, <2>4, <2>6 DEF Good
<1>2. CASE Terminalize(w)
  <2>1. plan[w].reason \in TerminalReason /\ plan[w].fence \in Fence
        /\ plan[w].next \in {"idle", "schedule", "d_schedule"}
    BY <1>0 DEF TypeOK, Outcome
  <2>2. CanTransition(rec, rec.version, plan[w].fence, plan[w].event, "terminal",
                      plan[w].reason, "keep")
    BY <1>2 DEF Terminalize
  <2>3. plan[w].reason \in FencedReason => rec.evidence
    <3>1. ASSUME plan[w].reason \in FencedReason PROVE rec.evidence
      <4>1. plan[w].fence # NoFence
        BY <1>2, <3>1 DEF Terminalize, At, IInv, PlaceInv, NoFence
      <4>2. plan[w].fence = FenceOf(rec)
        BY <2>2, <4>1 DEF CanTransition, FenceHolds
      <4> QED
        BY <1>2, <4>2 DEF Terminalize, At, IInv, PlaceInv
    <3> QED
      BY <3>1
  <2>4. Moves(rec, rec') /\ rec.state # "none"
    BY <1>2, <2>2, <2>3, MovesTransition, RowFacts DEF Terminalize, Write
  <2>5. RowStep /\ rec.version # 0 /\ NewClaimsEnded
    BY <1>2, <2>4, MovedRow DEF Terminalize, NewClaimsEnded
  <2>6. CASE plan[w].next = "idle"
    BY <1>2, <2>5, <2>6, ReturnGood DEF Terminalize
  <2>7. CASE plan[w].next # "idle"
    <3>1. LocalStep(w) /\ pc'[w] = plan[w].next /\ ret' = ret
      BY <1>0, <1>2, <2>7, GotoLocal DEF Terminalize
    <3> QED
      BY <2>1, <2>5, <3>1, PlainGood DEF Plain
  <2> QED
    BY <2>6, <2>7
<1> QED
  BY <1>1, <1>2 DEF TerminalOutcome

\* The CLEANUP_SCHEDULED transition keeps the row terminal.
LEMMA ScheduleGood ==
  ASSUME IInv, NEW w \in Worker, reserved' = reserved,
         \/ ScheduleShared(w)
         \/ ScheduleHeld(w) /\ dedupe' = dedupe
  PROVE  /\ RowStep
         /\ NewClaimsEnded
         /\ rec' # rec => rec.version # 0
<1>1. CASE ScheduleHeld(w)
  <2>1. Moves(rec, rec') /\ rec.state # "none"
    BY <1>1, MovesTransition, RowFacts DEF ScheduleHeld, Write, FencedReason
  <2>2. dedupe' \subseteq dedupe \cup {Row("cleanup-scheduled", snap[w].version)}
    BY DEF ScheduleShared
  <2>3. NewClaimsEnded
    <3>1. "cleanup-scheduled" \in SharedId
      BY DEF SharedId
    <3> QED
      BY <2>2, <3>1, SharedRowsAreNotClaims DEF NewClaimsEnded
  <2> QED
    BY <2>1, <2>3, MovedRow
<1>2. CASE UNCHANGED <<rec, dedupe>>
  BY <1>2, SameRow DEF NewClaimsEnded
<1> QED
  BY <1>1, <1>2 DEF ScheduleShared

\* A worker that goes on with, or ends, a cleanup of a row that is ended.
LEMMA ExecutingGood ==
  ASSUME IInv, TypeOK', NEW w \in Worker, NEW p \in Executing, pc'[w] = p,
         ret' = ret, LocalStep(w), RowStep, NewClaimsEnded,
         rec' # rec => rec.version # 0, rec'.state \in Ended
  PROVE  Good(w)
<1>1. ret'[w] = "await" => rec'.version > 0
  BY RowStepKeeps DEF IInv, PlaceInv
<1>2. PlaceInv(w)'
  BY <1>1 DEF PlaceInv, Executing
<1> QED
  BY <1>2 DEF Good, Executing

\* Scheduling and claiming a cleanup is good: a claim, new or reused, is of a
\* row that is terminal or cleaned for good.
LEMMA ClaimGood ==
  ASSUME IInv, TypeOK', NEW w \in Worker, Claim(w)
  PROVE  Good(w)
<1>0. TypeOK
  BY DEF IInv
<1>1. CASE ScheduleIfNeeded(w)
  <2>1. /\ RowStep
        /\ NewClaimsEnded
        /\ rec' # rec => rec.version # 0
    BY <1>1, ScheduleGood, SameRow DEF ScheduleIfNeeded, NewClaimsEnded
  <2> QED
    BY <1>1, <2>1, ReturnGood DEF ScheduleIfNeeded
<1>2. CASE DeleteRead(w)
  <2>0. UNCHANGED <<rec, reserved, dedupe, ret>>
    BY <1>2 DEF DeleteRead, store
  <2>1. CASE /\ rec.state = "active"
             /\ RecordOutcome(w, "workflow_terminal_outcome", "canceled",
                              FenceOf(rec), now, "d_schedule")
             /\ UNCHANGED snap
    <3>1. FenceOf(rec)[2] <= rec.epoch /\ FenceOf(rec)[2] >= 1
      BY <2>1, RowFacts DEF FenceOf
    <3> QED
      BY <2>0, <2>1, <3>1, OutcomeGood
  <2>2. CASE /\ rec.state = "reclaimable"
             /\ RecordOutcome(w, "reclaim_ttl_elapsed", "lease_expired", NoFence,
                              now, "d_schedule")
             /\ UNCHANGED snap
    <3>1. NoFence[2] <= rec.epoch /\ "lease_expired" \notin FencedReason
      BY RowFacts DEF NoFence, FencedReason
    <3> QED
      BY <2>0, <2>2, <3>1, OutcomeGood
  <2>3. CASE Hold(w, rec) /\ Goto(w, "d_schedule") /\ UNCHANGED plan
    <3>1. LocalStep(w) /\ pc'[w] = "d_schedule"
      BY <1>0, <2>0, <2>3, GotoLocal
    <3> QED
      BY <2>0, <3>1, SameRow, PlainGood DEF Plain, NewClaimsEnded
  <2> QED
    BY <1>2, <2>1, <2>2, <2>3 DEF DeleteRead
<1>3. CASE DeleteSchedule(w)
  <2>1. /\ RowStep
        /\ NewClaimsEnded
        /\ rec' # rec => rec.version # 0
    BY <1>3, ScheduleGood, SameRow DEF DeleteSchedule, NewClaimsEnded
  <2>2. LocalStep(w) /\ pc'[w] = "d_claim" /\ ret' = ret
    BY <1>0, <1>3, GotoLocal DEF DeleteSchedule
  <2> QED
    BY <2>1, <2>2, PlainGood DEF Plain
<1>4. CASE SweepRead(w)
  <2>1. LocalStep(w) /\ pc'[w] \in {"s_claim", "s_schedule"}
    BY <1>0, <1>4, GotoLocal DEF SweepRead, store
  <2> QED
    BY <1>4, <2>1, SameRow, PlainGood DEF SweepRead, store, Plain, NewClaimsEnded
<1>5. CASE SweepSchedule(w)
  <2>1. /\ RowStep
        /\ NewClaimsEnded
        /\ rec' # rec => rec.version # 0
    BY <1>5, ScheduleGood DEF SweepSchedule
  <2>2. LocalStep(w) /\ pc'[w] = "s_claim" /\ ret' = ret
    BY <1>0, <1>5, GotoLocal DEF SweepSchedule
  <2> QED
    BY <2>1, <2>2, PlainGood DEF Plain
<1>6. CASE ClaimCleanup(w)
  <2>1. LocalStep(w) /\ pc'[w] = "x_attempt" /\ ret' = ret
        /\ reserved' = reserved
    BY <1>0, <1>6, GotoLocal DEF ClaimCleanup
  <2>2. CASE /\ CanClaimCleanup(rec, snap[w].version)
             /\ Write(ClaimedCleanup(rec, Me(w)))
    <3>1. rec.state = "terminal" /\ rec.version > 0
      BY <2>2, RowFacts DEF CanClaimCleanup
    <3>2. Moves(rec, rec')
      BY <2>2, <3>1, RowFacts, MovesClaimed DEF Write
    <3>3. rec'.state \in Ended
      BY <3>1, <3>2 DEF Moves, Ended
    <3>4. RowStep /\ NewClaimsEnded
      BY <2>1, <3>1, <3>2, <3>3, MovedRow DEF NewClaimsEnded
    <3> QED
      BY <2>1, <3>1, <3>3, <3>4, RowFacts, ExecutingGood DEF Executing
  <2>3. CASE /\ ClaimRow(snap[w].version, Me(w)) \in dedupe
             /\ UNCHANGED <<rec, dedupe>>
    <3>1. snap[w].version \in Nat /\ Me(w) \in Instance
      BY <1>0, MeType DEF TypeOK, SandboxLifecycleRecord
    <3>2. rec'.state \in Ended
      BY <2>3, <3>1 DEF IInv, RowInv
    <3>3. RowStep /\ NewClaimsEnded
      BY <2>1, <2>3, SameRow DEF NewClaimsEnded
    <3> QED
      BY <2>1, <2>3, <3>2, <3>3, ExecutingGood DEF Executing
  <2> QED
    BY <1>6, <2>2, <2>3 DEF ClaimCleanup
<1> QED
  BY <1>1, <1>2, <1>3, <1>4, <1>5, <1>6 DEF Claim

\* The steps of execute_claimed_cleanup are good.
LEMMA ExecuteGood ==
  ASSUME IInv, TypeOK', NEW w \in Worker, ExecuteCleanup(w)
  PROVE  Good(w)
<1>0. TypeOK
  BY DEF IInv
<1>a. pc[w] \in Executing
  BY DEF ExecuteCleanup, CleanupAttempt, CleanupReread, ObserveBefore,
         CleanupInventory, TearDown, ObserveAfter, CompleteCleanup,
         MarkCleanupFailed, At, Executing
<1>b. rec.state \in Ended /\ rec.state # "none"
  BY <1>a DEF IInv, PlaceInv, Ended
<1>c. ASSUME NEW p \in Executing, pc'[w] = p, ret' = ret, LocalStep(w), RowStep,
             NewClaimsEnded
      PROVE  Good(w)
  BY <1>b, <1>c, RowStepKeeps, RowFacts, ExecutingGood
<1>1. CASE CleanupAttempt(w)
  <2>1. RowStep /\ NewClaimsEnded
    BY <1>1, ApplyCopyGood DEF CleanupAttempt, SharedId
  <2>2. LocalStep(w) /\ pc'[w] = "x_reread" /\ ret' = ret
    BY <1>0, <1>1, GotoLocal DEF CleanupAttempt
  <2> QED
    BY <1>c, <2>1, <2>2 DEF Executing
<1>2. CASE CleanupReread(w)
  <2>1. LocalStep(w) /\ pc'[w] \in {"x_before", "x_down"} /\ ret' = ret
    BY <1>0, <1>2, GotoLocal DEF CleanupReread, store
  <2> QED
    BY <1>2, <1>c, <2>1, SameRow DEF CleanupReread, store, Executing, NewClaimsEnded
<1>3. CASE ObserveBefore(w)
  <2>1. LocalStep(w) /\ pc'[w] \in {"x_inventory", "x_down", "x_failed"}
        /\ ret' = ret
    BY <1>0, <1>3, GotoLocal DEF ObserveBefore, store
  <2> QED
    BY <1>3, <1>c, <2>1, SameRow DEF ObserveBefore, store, Executing, NewClaimsEnded
<1>4. CASE CleanupInventory(w)
  <2>1. RowStep /\ NewClaimsEnded
    BY <1>4, ApplyCopyGood DEF CleanupInventory, SharedId
  <2>2. LocalStep(w) /\ pc'[w] = "x_reread2" /\ ret' = ret
    BY <1>0, <1>4, GotoLocal DEF CleanupInventory
  <2> QED
    BY <1>c, <2>1, <2>2 DEF Executing
<1>5. CASE TearDown(w)
  <2>1. LocalStep(w) /\ pc'[w] \in {"x_after", "x_failed"} /\ ret' = ret
    BY <1>0, <1>5, GotoLocal DEF TearDown, store
  <2> QED
    BY <1>5, <1>c, <2>1, SameRow DEF TearDown, store, Executing, NewClaimsEnded
<1>6. CASE ObserveAfter(w)
  <2>1. LocalStep(w) /\ pc'[w] \in {"x_complete", "x_failed"} /\ ret' = ret
    BY <1>0, <1>6, GotoLocal DEF ObserveAfter, store
  <2> QED
    BY <1>6, <1>c, <2>1, SameRow DEF ObserveAfter, store, Executing, NewClaimsEnded
<1>7. CASE CompleteCleanup(w)
  <2>1. Moves(rec, rec')
    BY <1>7, MovesTransition, RowFacts DEF CompleteCleanup, Write, FencedReason
  <2>2. RowStep /\ rec.version # 0 /\ NewClaimsEnded
    BY <1>7, <1>b, <2>1, MovedRow DEF CompleteCleanup, NewClaimsEnded
  <2> QED
    BY <1>7, <2>2, ReturnGood DEF CompleteCleanup
<1>8. CASE MarkCleanupFailed(w)
  <2>1. snap[w] = rec
    BY <1>8 DEF MarkCleanupFailed, CanApplyCopy, IInv, HeldInv
  <2>2. Moves(rec, rec')
    BY <1>8, <1>b, <2>1, MovesCopy, RowFacts DEF MarkCleanupFailed, Write
  <2>3. RowStep /\ rec.version # 0 /\ NewClaimsEnded
    BY <1>8, <1>b, <2>2, MovedRow DEF MarkCleanupFailed, NewClaimsEnded
  <2> QED
    BY <1>8, <2>3, ReturnGood DEF MarkCleanupFailed
<1> QED
  BY <1>1, <1>2, <1>3, <1>4, <1>5, <1>6, <1>7, <1>8 DEF ExecuteCleanup

\* A worker that keeps, or takes, a record of an existing row.
LEMMA HoldingGood ==
  ASSUME IInv, TypeOK', NEW w \in Worker,
         NEW p \in {"r_health", "r_starting", "r_reread", "r_started"},
         pc'[w] = p, ret' = ret, snap'[w].version > 0, LocalStep(w), RowStep,
         NewClaimsEnded, rec' # rec => rec.version # 0
  PROVE  Good(w)
<1>1. ret'[w] = "await" => rec'.version > 0
  BY RowStepKeeps DEF IInv, PlaceInv
<1>2. PlaceInv(w)'
  BY <1>1 DEF PlaceInv, Executing
<1> QED
  BY <1>2 DEF Good

\* The steps of reconcile_sandbox are good.
LEMMA ReconcileGood ==
  ASSUME IInv, TypeOK', NEW w \in Worker, Reconcile(w)
  PROVE  Good(w)
<1>0. TypeOK
  BY DEF IInv
<1>a. FenceOf(rec)[2] = rec.epoch /\ FenceOf(snap[w])[2] = snap[w].epoch
      /\ NoFence[2] = 0 /\ "lease_expired" \notin FencedReason
  BY DEF FenceOf, NoFence, FencedReason
<1>b. snap[w].version > 0 => /\ snap[w].epoch >= 1 /\ snap[w].epoch <= rec.epoch
                             /\ rec.version > 0
  <2>1. snap[w].version \in Nat /\ rec.version \in Nat
    BY <1>0 DEF TypeOK, SandboxLifecycleRecord
  <2> QED
    BY <2>1 DEF IInv, HeldInv
<1>1. CASE ReconcileRead(w)
  <2>0. UNCHANGED <<rec, reserved, dedupe, ret>> /\ rec.state # "none"
    BY <1>1 DEF ReconcileRead, store
  <2>1. CASE RecordOutcome(w, "hard_max_age_reached", "hard_max_age",
                           FenceOf(rec), now, "schedule") /\ UNCHANGED snap
    BY <1>a, <2>0, <2>1, RowFacts, OutcomeGood
  <2>2. CASE Hold(w, rec) /\ Goto(w, "r_observe") /\ UNCHANGED plan
    <3>1. LocalStep(w) /\ pc'[w] = "r_observe"
      BY <1>0, <2>0, <2>2, GotoLocal
    <3> QED
      BY <2>0, <3>1, SameRow, PlainGood DEF Plain, NewClaimsEnded
  <2> QED
    BY <1>1, <2>1, <2>2 DEF ReconcileRead
<1>2. CASE ReconcileObserve(w)
  <2>0. UNCHANGED <<rec, reserved, dedupe, ret, snap, plan>>
    BY <1>2 DEF ReconcileObserve, store
  <2>1. RowStep /\ NewClaimsEnded
    BY <2>0, SameRow DEF NewClaimsEnded
  <2>2. CASE Goto(w, "r_health") /\ snap[w].state = "active"
    <3>1. LocalStep(w) /\ pc'[w] = "r_health"
      BY <1>0, <2>0, <2>2, GotoLocal
    <3>2. snap'[w].version > 0
      BY <2>0, <2>2 DEF IInv, HeldInv
    <3> QED
      BY <2>0, <2>1, <3>1, <3>2, HoldingGood
  <2>3. CASE Goto(w, "r_decide")
    <3>1. LocalStep(w) /\ pc'[w] = "r_decide"
      BY <1>0, <2>0, <2>3, GotoLocal
    <3> QED
      BY <2>0, <2>1, <3>1, PlainGood DEF Plain
  <2> QED
    BY <1>2, <2>2, <2>3 DEF ReconcileObserve
<1>3. CASE ReconcileHealth(w)
  <2>0. UNCHANGED <<rec, reserved, dedupe, ret>> /\ snap[w].version > 0
    BY <1>3 DEF ReconcileHealth, store, At, IInv, PlaceInv
  <2>1. PICK rows \in ObservedRows :
          \/ RestartLoop(w, rows, at[w], "schedule") /\ UNCHANGED snap
          \/ /\ RecordOutcome(w, "workflow_terminal_outcome", "restart_loop",
                              FenceOf(snap[w]),
                              at[w] + CleanupDelta("restart_loop"), "schedule")
             /\ UNCHANGED snap
          \/ Hold(w, rec) /\ Goto(w, "r_decide") /\ UNCHANGED plan
    BY <1>3 DEF ReconcileHealth
  <2>2. CASE RestartLoop(w, rows, at[w], "schedule") /\ UNCHANGED snap
    <3>1. <<Me(w), rec.epoch>>[2] <= rec.epoch
          /\ <<Me(w), rec.epoch>>[2] >= 1
      BY <2>2, RowFacts DEF RestartLoop
    <3> QED
      BY <2>0, <2>2, <3>1, OutcomeGood DEF RestartLoop
  <2>3. CASE /\ RecordOutcome(w, "workflow_terminal_outcome", "restart_loop",
                              FenceOf(snap[w]),
                              at[w] + CleanupDelta("restart_loop"), "schedule")
             /\ UNCHANGED snap
    BY <1>a, <1>b, <2>0, <2>3, OutcomeGood
  <2>4. CASE Hold(w, rec) /\ Goto(w, "r_decide") /\ UNCHANGED plan
    <3>1. LocalStep(w) /\ pc'[w] = "r_decide"
      BY <1>0, <2>0, <2>4, GotoLocal
    <3> QED
      BY <2>0, <3>1, SameRow, PlainGood DEF Plain, NewClaimsEnded
  <2> QED
    BY <2>1, <2>2, <2>3, <2>4
<1>4. CASE RecoverBlock(w)
  <2>0. reserved' = reserved
    BY <1>4 DEF RecoverBlock
  <2>1. /\ RowStep
        /\ NewClaimsEnded
        /\ rec' # rec => rec.version # 0
    <3>1. CASE /\ rec.version = snap[w].version
               /\ Write(WithBlocked(rec, FALSE))
               /\ dedupe' = dedupe \cup
                    {Row("requires-reconciliation-clear", snap[w].version)}
      <4>1. snap[w] = rec /\ rec.blocked
        BY <1>4, <3>1 DEF RecoverBlock, IInv, HeldInv
      <4>2. rec.version > 0
        BY <4>1, RowFacts, NoRecordFields DEF IInv, RowInv
      <4>3. Moves(rec, rec') /\ rec.state # "none"
        BY <3>1, <4>2, RowFacts, MovesBlocked DEF Write
      <4>4. "requires-reconciliation-clear" \in SharedId
        BY DEF SharedId
      <4>5. NewClaimsEnded
        BY <3>1, <4>4, SharedRowsAreNotClaims DEF NewClaimsEnded
      <4> QED
        BY <2>0, <4>3, <4>5, MovedRow
    <3>2. CASE UNCHANGED <<rec, dedupe>>
      BY <2>0, <3>2, SameRow DEF NewClaimsEnded
    <3> QED
      BY <1>4, <3>1, <3>2 DEF RecoverBlock
  <2>2. CASE /\ rec.state = "starting" /\ Goto(w, "r_starting")
             /\ Hold(w, rec') /\ UNCHANGED <<seen, at, plan, ret>>
    <3>1. LocalStep(w) /\ pc'[w] = "r_starting"
      BY <1>0, <2>2, GotoLocal
    <3>2. snap'[w] = rec'
      BY <1>0, <2>2 DEF Hold, TypeOK
    <3>3. rec'.version > 0
      BY <2>1, <2>2, RowFacts, RowStepKeeps
    <3> QED
      BY <2>1, <2>2, <3>1, <3>2, <3>3, HoldingGood
  <2>3. CASE /\ Goto(w, "reconcile")
             /\ Hold(w, rec') /\ UNCHANGED <<seen, at, plan, ret>>
    <3>1. LocalStep(w) /\ pc'[w] = "reconcile"
      BY <1>0, <2>3, GotoLocal
    <3> QED
      BY <2>1, <2>3, <3>1, PlainGood DEF Plain
  <2>4. CASE Return(w, "idle")
    BY <2>1, <2>4, ReturnGood
  <2> QED
    BY <1>4, <2>2, <2>3, <2>4 DEF RecoverBlock
<1>5. CASE ReconcileDecide(w)
  <2>0. UNCHANGED <<rec, reserved, dedupe>>
    BY <1>5 DEF ReconcileDecide, store
  <2>1. RowStep /\ NewClaimsEnded
    BY <2>0, SameRow DEF NewClaimsEnded
  <2>2. CASE /\ RecordOutcome(w, "reclaim_ttl_elapsed", "lease_expired", NoFence,
                              at[w], "schedule")
             /\ UNCHANGED <<snap, seen, at, ret>>
    BY <1>a, <2>0, <2>2, RowFacts, OutcomeGood
  <2>3. CASE Goto(w, "reconcile") /\ UNCHANGED <<snap, seen, at, plan, ret>>
    <3>1. LocalStep(w) /\ pc'[w] = "reconcile"
      BY <1>0, <2>3, GotoLocal
    <3> QED
      BY <2>0, <2>1, <2>3, <3>1, PlainGood DEF Plain
  <2>4. CASE Return(w, "idle")
    BY <2>0, <2>1, <2>4, ReturnGood
  <2> QED
    BY <1>5, <2>2, <2>3, <2>4 DEF ReconcileDecide
<1>6. CASE RecoverStarting(w)
  <2>0. UNCHANGED <<reserved, ret, snap>> /\ snap[w].version > 0
    BY <1>6 DEF RecoverStarting, At, IInv, PlaceInv
  <2>1. CASE seen[w]
    <3>1. /\ RowStep
          /\ NewClaimsEnded
          /\ rec' # rec => rec.version # 0
      BY <1>6, <2>0, <2>1, ApplyCopyGood DEF RecoverStarting, SharedId
    <3>2. LocalStep(w) /\ pc'[w] = "r_reread"
      BY <1>0, <1>6, <2>0, <2>1, GotoLocal DEF RecoverStarting
    <3> QED
      BY <2>0, <3>1, <3>2, HoldingGood
  <2>2. CASE ~ seen[w]
    <3>1. RecordOutcome(w, "startup_failure", "start_failed", FenceOf(snap[w]),
                        at[w] + CleanupDelta("start_failed"), "schedule")
          /\ UNCHANGED <<rec, dedupe>>
      BY <1>6, <2>2 DEF RecoverStarting
    <3> QED
      BY <1>a, <1>b, <2>0, <3>1, OutcomeGood
  <2> QED
    BY <2>1, <2>2
<1>7. CASE RecoverReread(w)
  <2>0. UNCHANGED <<rec, reserved, dedupe, ret>> /\ snap[w].version > 0
    BY <1>7 DEF RecoverReread, store, At, IInv, PlaceInv
  <2>1. LocalStep(w) /\ pc'[w] = "r_started"
    BY <1>0, <1>7, GotoLocal DEF RecoverReread, store
  <2>2. snap'[w] = rec
    BY <1>0, <1>7 DEF RecoverReread, Hold, TypeOK
  <2> QED
    BY <1>b, <2>0, <2>1, <2>2, SameRow, HoldingGood DEF NewClaimsEnded
<1>8. CASE RecoverStarted(w)
  <2>0. UNCHANGED <<reserved, dedupe>> /\ snap[w].version > 0
    BY <1>8 DEF RecoverStarted, At, IInv, PlaceInv
  <2>1. CASE /\ CanTransition(rec, snap[w].version, NoFence, "health_verified",
                              "active", "none", "keep")
             /\ Write(Transitioned(rec, "active", "none", "keep", FALSE, NoTime))
             /\ Return(w, "idle")
    <3>1. Moves(rec, rec') /\ rec.state # "none"
      BY <2>1, MovesTransition, RowFacts DEF Write, FencedReason
    <3>2. RowStep /\ rec.version # 0 /\ NewClaimsEnded
      BY <2>0, <3>1, MovedRow DEF NewClaimsEnded
    <3> QED
      BY <2>1, <3>2, ReturnGood
  <2>2. CASE /\ RecordOutcome(w, "startup_failure", "start_failed",
                              FenceOf(snap[w]),
                              at[w] + CleanupDelta("start_failed"), "schedule")
             /\ UNCHANGED <<rec, snap, seen, at, ret>>
    BY <1>a, <1>b, <2>0, <2>2, OutcomeGood
  <2> QED
    BY <1>8, <2>1, <2>2 DEF RecoverStarted
<1>9. CASE ReconcileExisting(w)
  <2>1. Moves(rec, rec') /\ rec.state # "none"
    <3>1. CASE /\ CanTransition(rec, rec.version, NoFence, "lease_expired",
                                "reclaimable", "lease_expired", "keep")
               /\ Write(Transitioned(rec, "reclaimable", "lease_expired", "keep",
                                     FALSE, at[w] + ReclaimTTL))
      BY <3>1, MovesTransition, RowFacts DEF Write, FencedReason
    <3>2. CASE /\ CanTransition(rec, rec.version, NoFence, "runtime_missing",
                                "terminal", "lost_runtime", "keep")
               /\ Write(Transitioned(rec, "terminal", "lost_runtime", "keep",
                                     FALSE,
                                     at[w] + CleanupDelta("lost_runtime")))
      BY <3>2, MovesTransition, RowFacts DEF Write, FencedReason
    <3>3. CASE /\ CanTransition(rec, rec.version, NoFence,
                                "external_absence_verified",
                                "cleaned", "cleaned_externally", "completed")
               /\ Write(Transitioned(rec, "cleaned", "cleaned_externally",
                                     "completed", FALSE, NoTime))
      BY <3>3, MovesTransition, RowFacts DEF Write, FencedReason
    <3>4. CASE /\ CanTransition(rec, rec.version, NoFence, "cleanup_scheduled",
                                "terminal", "none", "scheduled")
               /\ Write(Transitioned(rec, "terminal", "none", "scheduled",
                                     FALSE, rec.due))
      BY <3>4, MovesTransition, RowFacts DEF Write, FencedReason
    <3> QED
      BY <1>9, <3>1, <3>2, <3>3, <3>4 DEF ReconcileExisting
  <2>2. RowStep /\ rec.version # 0 /\ NewClaimsEnded
    BY <1>9, <2>1, MovedRow DEF ReconcileExisting, NewClaimsEnded
  <2> QED
    BY <1>9, <2>2, ReturnGood DEF ReconcileExisting
<1> QED
  BY <1>1, <1>2, <1>3, <1>4, <1>5, <1>6, <1>7, <1>8, <1>9 DEF Reconcile

\* The steps of reacquire_ownership are good.
LEMMA ReacquireGood ==
  ASSUME IInv, TypeOK', NEW w \in Worker, Reacquire(w)
  PROVE  Good(w)
<1>0. TypeOK
  BY DEF IInv
<1>1. CASE ReacquireRead(w)
  <2>1. LocalStep(w) /\ pc'[w] = "a_observe"
    BY <1>0, <1>1, GotoLocal DEF ReacquireRead, store
  <2> QED
    BY <1>1, <2>1, SameRow, PlainGood
    DEF ReacquireRead, store, Plain, NewClaimsEnded
<1>2. CASE ReacquireObserve(w)
  <2>1. LocalStep(w) /\ pc'[w] = "a_inventory"
    BY <1>0, <1>2, GotoLocal DEF ReacquireObserve, store
  <2> QED
    BY <1>2, <2>1, SameRow, PlainGood
    DEF ReacquireObserve, store, Plain, NewClaimsEnded
<1>3. CASE ReacquireInventory(w)
  <2>1. /\ RowStep
        /\ NewClaimsEnded
        /\ rec' # rec => rec.version # 0
    BY <1>3, ApplyCopyGood DEF ReacquireInventory, SharedId
  <2>2. LocalStep(w) /\ pc'[w] = "a_take" /\ ret' = ret
    BY <1>0, <1>3, GotoLocal DEF ReacquireInventory
  <2> QED
    BY <2>1, <2>2, PlainGood DEF Plain
<1>4. CASE ReacquireTake(w)
  <2>1. rec.epoch + 1 \in Nat
    BY RowFacts
  <2>2. Moves(rec, rec') /\ rec.state # "none"
    BY <1>4, <2>1, MovesReacquired, RowFacts DEF ReacquireTake, Write
  <2>3. RowStep /\ rec.version # 0 /\ NewClaimsEnded
    BY <1>4, <2>2, MovedRow DEF ReacquireTake, NewClaimsEnded
  <2> QED
    BY <1>4, <2>3, ReturnGood DEF ReacquireTake
<1> QED
  BY <1>1, <1>2, <1>3, <1>4 DEF Reacquire

\* A worker that unwinds returns to where its health check was called from.
LEMMA StepGood ==
  ASSUME IInv, TypeOK', NEW w \in Worker, Step(w)
  PROVE  Good(w)
<1>1. CASE Unwind(w)
  <2>1. RowStep /\ NewClaimsEnded /\ rec' = rec
    BY <1>1, SameRow DEF Unwind, store, NewClaimsEnded
  <2> QED
    BY <1>1, <2>1, ReturnGood DEF Unwind
<1> QED
  BY <1>1, CreateGood, HealthGood, TerminalOutcomeGood, ClaimGood, ExecuteGood,
     ReconcileGood, ReacquireGood DEF Step

-----------------------------------------------------------------------------
(* The invariant is inductive.                                              *)

\* The invariant holds initially.
LEMMA InitInv == Init => IInv
<1> SUFFICES ASSUME Init PROVE IInv
  OBVIOUS
<1>1. RowInv
  BY NoRecordFields DEF Init, RowInv, Justified
<1>2. ASSUME NEW w \in Worker PROVE HeldInv(w) /\ PlaceInv(w) /\ pc[w] # "save"
  <2>1. pc[w] = "idle" /\ snap[w] = NoRecord /\ ret[w] = "idle" /\ rec = NoRecord
    BY DEF Init
  <2> QED
    BY <2>1, NoRecordFields DEF HeldInv, PlaceInv, Executing
<1> QED
  BY <1>1, <1>2, InitType DEF IInv, OneSaver

\* A crash empties the locals of a process's tasks and leaves the row alone.
LEMMA CrashInv ==
  ASSUME IInv, TypeOK', NEW i \in Instance, Crash(i)
  PROVE  IInv'
<1>1. UNCHANGED <<rec, reserved, dedupe>>
  BY DEF Crash, store
<1>2. RowInv' /\ RowStep
  BY <1>1 DEF IInv, RowInv, RowStep, Justified
<1>3. ASSUME NEW w \in Worker
      PROVE  HeldInv(w)' /\ PlaceInv(w)' /\ (pc'[w] = "save" => pc[w] = "save")
  <2>1. CASE Me(w) = i
    <3>1. pc'[w] = "idle" /\ snap'[w] = NoRecord /\ ret'[w] = "idle"
      BY <2>1 DEF Crash, Gone
    <3>2. HeldInv(w)'
      BY <1>2, <3>1, HeldPreserved DEF IInv
    <3> QED
      BY <3>1, <3>2 DEF PlaceInv, Executing
  <2>2. CASE Me(w) # i
    <3>1. pc'[w] = pc[w] /\ snap'[w] = snap[w] /\ plan'[w] = plan[w]
          /\ ret'[w] = ret[w]
      BY <2>2 DEF Crash, Gone
    <3> QED
      BY <1>1, <3>1 DEF IInv, HeldInv, PlaceInv
  <2> QED
    BY <2>1, <2>2
<1> QED
  BY <1>2, <1>3 DEF IInv, OneSaver

\* The invariant is kept by every step, and every step is a row step.
LEMMA StepInv == IInv /\ [Next]_vars => IInv' /\ RowStep
<1> SUFFICES ASSUME IInv, [Next]_vars PROVE IInv' /\ RowStep
  OBVIOUS
<1>0. TypeOK'
  BY StepType DEF IInv
<1>1. ASSUME NEW w \in Worker, Step(w) PROVE IInv' /\ RowStep
  BY <1>0, <1>1, StepGood, GoodPreserves DEF Good
<1>2. ASSUME NEW i \in Instance, Crash(i) PROVE IInv' /\ RowStep
  BY <1>0, <1>2, CrashInv, SameRow DEF Crash, store
<1>3. CASE Tick \/ DockerDrift \/ UNCHANGED vars
  <2>1. UNCHANGED <<rec, reserved, dedupe, pc, snap, plan, ret>>
    BY <1>3 DEF Tick, DockerDrift, store, locals, vars
  <2>2. RowInv' /\ OneSaver' /\ RowStep
    BY <2>1 DEF IInv, RowInv, OneSaver, RowStep, Justified
  <2>3. \A w \in Worker : HeldInv(w)' /\ PlaceInv(w)'
    BY <2>1 DEF IInv, HeldInv, PlaceInv
  <2> QED
    BY <1>0, <2>2, <2>3 DEF IInv
<1> QED
  BY <1>1, <1>2, <1>3 DEF Next

\* The invariant holds of every reachable state.
LEMMA Inductive == Spec => []IInv
<1>1. Init => IInv
  BY InitInv
<1>2. IInv /\ [Next]_vars => IInv'
  BY StepInv
<1> QED
  BY <1>1, <1>2, PTL DEF Spec

-----------------------------------------------------------------------------
(* What follows for every number of workers, instances and versions.        *)

\* Comparing record_version is a sufficient fence for every record copy that a
\* task writes back: a copy whose version is the row's is the row
\* (apply_record_mutation, save_record, _apply_record_copy).
THEOREM CopiesAreFenced == Spec => []HeldRecordsFenced
<1>1. IInv => HeldRecordsFenced
  BY DEF IInv, HeldInv, HeldRecordsFenced
<1> QED
  BY <1>1, Inductive, PTL

\* No task tears a live sandbox down: from a claim to its completion or failure
\* the row stays terminal or cleaned, whatever reacquire_ownership,
\* handle_healthy and reconcile_sandbox do meanwhile (claim_cleanup,
\* execute_claimed_cleanup).
THEOREM TeardownIsFinal == Spec => []NoLiveTeardown
<1>1. IInv => NoLiveTeardown
  BY DEF IInv, PlaceInv, NoLiveTeardown, Ended
<1> QED
  BY <1>1, Inductive, PTL

\* A sandbox that became terminal under an owner-and-epoch fence carries the
\* evidence of that outcome, although evidence and transition are two writes
\* (_record_terminal_outcome).
THEOREM OutcomesAreEvidenced == Spec => []TerminalHasEvidence
<1>1. IInv => TerminalHasEvidence
  BY DEF IInv, RowInv, Justified, TerminalHasEvidence
<1> QED
  BY <1>1, Inductive, PTL

\* No write to the row is lost: every change of it is the next version of what
\* it replaces (save_record, apply_record_mutation).
THEOREM NoLostWrite == Spec => VersionsAdvance
<1>1. IInv /\ [Next]_vars
        => [rec' # rec => rec'.version = rec.version + 1]_vars
  <2> SUFFICES ASSUME IInv, [Next]_vars
               PROVE  rec' # rec => rec'.version = rec.version + 1
    OBVIOUS
  <2> QED
    BY StepInv DEF RowStep, Moves
<1> QED
  BY <1>1, Inductive, PTL DEF Spec, VersionsAdvance

\* A sandbox changes hands only under a newer lease epoch, so a former owner's
\* fence never matches again (reacquire_ownership, renew_lease, _assert_fence).
THEOREM OwnersAreFenced == Spec => OwnershipByEpoch
<1>1. IInv /\ [Next]_vars
        => [/\ rec'.epoch >= rec.epoch
            /\ rec'.owner # rec.owner => rec'.epoch > rec.epoch]_vars
  <2> SUFFICES ASSUME IInv, [Next]_vars
               PROVE  /\ rec'.epoch >= rec.epoch
                      /\ rec'.owner # rec.owner => rec'.epoch > rec.epoch
    OBVIOUS
  <2>1. RowStep /\ rec.epoch \in Nat
    BY StepInv, RowFacts
  <2>2. rec.version = 0 => rec.epoch = 0
    BY NoRecordFields DEF IInv, RowInv
  <2> QED
    BY <2>1, <2>2 DEF RowStep, Moves
<1> QED
  BY <1>1, Inductive, PTL DEF Spec, OwnershipByEpoch

\* Once requires_reconciliation is set, no operation already under way moves
\* the state or the ownership before the flag is cleared
\* (_ensure_not_reconciliation_blocked).
THEOREM BlockIsRespected == Spec => BlockedFreezes
<1>1. IInv /\ [Next]_vars
        => [rec.blocked /\ rec'.blocked =>
              rec'.state = rec.state /\ FenceOf(rec') = FenceOf(rec)]_vars
  <2> SUFFICES ASSUME IInv, [Next]_vars, rec.blocked, rec'.blocked
               PROVE  rec'.state = rec.state /\ FenceOf(rec') = FenceOf(rec)
    OBVIOUS
  <2>1. rec.version # 0
    BY NoRecordFields DEF IInv, RowInv
  <2> QED
    BY <2>1, StepInv DEF RowStep, Moves
<1> QED
  BY <1>1, Inductive, PTL DEF Spec, BlockedFreezes

-----------------------------------------------------------------------------
(* Sweepers exclude one another.  A claim is exclusive because a sweeper    *)
(* only claims a cleanup it has seen scheduled, and while a cleanup is      *)
(* executed the row says in progress or completed; only the executing task  *)
(* itself gives that up, when it fails.  An operator's delete does not keep *)
(* to it (it may claim a cleanup in progress), so it is left out here.      *)

Busy == {"in_progress", "completed"}

\* What a task is about to claim, schedule or execute, and the row's cleanup.
ClaimInv(w) ==
  /\ pc[w] \in Executing => rec.cleanup \in Busy
  /\ pc[w] = "s_claim" => snap[w].cleanup = "scheduled"
  /\ pc[w] = "s_schedule" => snap[w].cleanup \in {"none", "failed"}
  /\ pc[w] \notin {"d_schedule", "d_claim"}
  /\ plan[w].next # "d_schedule"

XInv == CleanupExclusive /\ \A w \in Worker : ClaimInv(w)

\* The row keeps saying that its cleanup is under way or done.
KeepsBusy == rec.cleanup \in Busy /\ rec.state \in Ended => rec'.cleanup \in Busy

\* A step of a worker that respects the claims.
Exclusive(w) ==
  /\ ClaimInv(w)'
  /\ KeepsBusy \/ (pc[w] \in Executing /\ pc'[w] \notin Executing)
  /\ pc'[w] \in Executing => pc[w] \in Executing \/ rec.cleanup \notin Busy

\* A step that respects the claims keeps the cleanups exclusive.
LEMMA ExclusivePreserves ==
  ASSUME IInv, XInv, NEW w \in Worker, LocalStep(w), Exclusive(w)
  PROVE  XInv'
<1>1. ASSUME NEW v \in Worker, v # w PROVE ClaimInv(v)'
  <2>1. pc'[v] = pc[v] /\ snap'[v] = snap[v] /\ plan'[v] = plan[v]
    BY <1>1 DEF LocalStep
  <2>2. ASSUME pc[v] \in Executing PROVE rec'.cleanup \in Busy
    <3>1. rec.cleanup \in Busy /\ rec.state \in Ended /\ pc[w] \notin Executing
      BY <1>1, <2>2 DEF IInv, PlaceInv, XInv, ClaimInv, CleanupExclusive
    <3> QED
      BY <3>1 DEF Exclusive, KeepsBusy
  <2> QED
    BY <2>1, <2>2 DEF XInv, ClaimInv
<1>2. \A v \in Worker : ClaimInv(v)'
  BY <1>1 DEF Exclusive
<1>3. ASSUME NEW v \in Worker, pc'[v] \in Executing, pc'[w] \in Executing
      PROVE  v = w
  <2> SUFFICES ASSUME v # w PROVE FALSE
    OBVIOUS
  <2>1. pc[v] \in Executing /\ rec.cleanup \in Busy
    BY <1>3 DEF LocalStep, XInv, ClaimInv
  <2>2. pc[w] \in Executing
    BY <1>3, <2>1 DEF Exclusive
  <2> QED
    BY <2>1, <2>2 DEF XInv, CleanupExclusive
<1>4. CleanupExclusive'
  <2> SUFFICES ASSUME NEW u \in Worker, NEW v \in Worker,
                      pc'[u] \in Executing, pc'[v] \in Executing
               PROVE  u = v
    BY DEF CleanupExclusive
  <2>1. CASE u = w \/ v = w
    BY <1>3, <2>1
  <2>2. CASE u # w /\ v # w
    BY <2>2 DEF LocalStep, XInv, CleanupExclusive
  <2> QED
    BY <2>1, <2>2
<1> QED
  BY <1>2, <1>4 DEF XInv

\* What the record operators do to the cleanup state.
LEMMA CleanupFields ==
  ASSUME NEW r \in SandboxLifecycleRecord
  PROVE  /\ \A t : RenewedLease(r, t).cleanup = r.cleanup
         /\ \A b : WithBlocked(r, b).cleanup = r.cleanup
         /\ \A i : ClaimedCleanup(r, i).cleanup = "in_progress"
         /\ [r EXCEPT !.version = @ + 1].cleanup = r.cleanup
         /\ \A b : [[r EXCEPT !.inventory = b] EXCEPT !.version = @ + 1].cleanup
                     = r.cleanup
         /\ [r EXCEPT !.evidence = TRUE, !.version = @ + 1].cleanup = r.cleanup
BY DEF RenewedLease, WithBlocked, ClaimedCleanup, SandboxLifecycleRecord

\* The places at which a task is about to claim, or executes, a cleanup.
ClaimPlace == Executing \cup {"s_claim", "s_schedule", "d_schedule", "d_claim"}

\* A step to another place that leaves the row's cleanup under way.
LEMMA QuietExclusive ==
  ASSUME NEW w \in Worker, KeepsBusy, pc'[w] \notin ClaimPlace,
         plan'[w].next # "d_schedule"
  PROVE  Exclusive(w)
BY DEF Exclusive, ClaimInv, ClaimPlace

\* A worker that returns plans nothing.
LEMMA ReturnPlan ==
  ASSUME TypeOK, NEW w \in Worker, NEW p, Return(w, p)
  PROVE  pc'[w] = p /\ plan'[w].next # "d_schedule"
BY DEF TypeOK, Return, NoOutcome

\* A worker that turns to _record_terminal_outcome.
LEMMA OutcomePlan ==
  ASSUME TypeOK, NEW w \in Worker, NEW e, NEW reason, NEW f, NEW due, NEW next,
         RecordOutcome(w, e, reason, f, due, next)
  PROVE  pc'[w] = "evidence" /\ plan'[w].next = next /\ plan'[w].event = e
BY DEF TypeOK, RecordOutcome, Goto

\* A worker that goes on.
LEMMA GotoPlace ==
  ASSUME TypeOK, NEW w \in Worker, NEW p, Goto(w, p)
  PROVE  pc'[w] = p
BY DEF TypeOK, Goto

\* _apply_record_copy leaves the cleanup state alone.
LEMMA ApplyCopyKeeps ==
  ASSUME IInv, NEW w \in Worker, NEW id, NEW cleanup, NEW b, NEW next,
         next \in {snap[w], [snap[w] EXCEPT !.inventory = b]},
         ApplyCopy(w, id, cleanup, next)
  PROVE  rec'.cleanup = rec.cleanup
<1>1. CASE UNCHANGED <<rec, dedupe>>
  BY <1>1
<1>2. CASE CanApplyCopy(rec, snap[w]) /\ Write([next EXCEPT !.version = @ + 1])
  <2>1. snap[w] = rec /\ rec \in SandboxLifecycleRecord
    BY <1>2 DEF CanApplyCopy, IInv, HeldInv, TypeOK
  <2>2. rec' \in {[rec EXCEPT !.version = @ + 1],
                  [[rec EXCEPT !.inventory = b] EXCEPT !.version = @ + 1]}
    BY <1>2, <2>1 DEF Write
  <2>3. CASE rec' = [rec EXCEPT !.version = @ + 1]
    BY <2>1, <2>3, CleanupFields
  <2>4. CASE rec' = [[rec EXCEPT !.inventory = b] EXCEPT !.version = @ + 1]
    BY <2>1, <2>4, CleanupFields
  <2> QED
    BY <2>2, <2>3, <2>4
<1> QED
  BY <1>1, <1>2 DEF ApplyCopy

\* create_sandbox claims nothing.
LEMMA CreateExclusive ==
  ASSUME IInv, XInv, NEW w \in Worker, Create(w)
  PROVE  Exclusive(w)
<1>0. /\ TypeOK /\ rec \in SandboxLifecycleRecord
      /\ plan[w].next # "d_schedule"
  BY DEF IInv, TypeOK, XInv, ClaimInv
<1>a. \A p \in {"reserve", "save", "accept", "deploy", "await", "start_failed",
                "flag", "evidence", "idle"} : p \notin ClaimPlace
  BY DEF ClaimPlace, Executing
<1>1. CASE CreateCheck(w) \/ CreateReserve(w) \/ Deploy(w) \/ AwaitGivesUp(w)
  <2>1. UNCHANGED <<rec, plan>> /\ pc'[w] \notin ClaimPlace
    BY <1>0, <1>1, <1>a, GotoPlace
    DEF CreateCheck, CreateReserve, Deploy, AwaitGivesUp, store
  <2> QED
    BY <1>0, <2>1, QuietExclusive DEF KeepsBusy
<1>2. CASE CreateSave(w)
  <2>1. rec.state = "none"
    BY <1>2, NoRecordFields DEF CreateSave, At, IInv, PlaceInv, RowInv
  <2>2. plan' = plan /\ pc'[w] \notin ClaimPlace
    BY <1>0, <1>2, <1>a, GotoPlace DEF CreateSave
  <2> QED
    BY <1>0, <2>1, <2>2, QuietExclusive DEF KeepsBusy, Ended
<1>3. CASE CreateAccept(w)
  <2>1. rec'.cleanup = rec.cleanup
    <3>1. rec' = Transitioned(rec, "starting", "none", "keep", FALSE, NoTime)
      BY <1>3 DEF CreateAccept, Write
    <3> QED
      BY <1>0, <3>1 DEF Transitioned, SandboxLifecycleRecord
  <2>2. plan' = plan /\ pc'[w] \notin ClaimPlace
    BY <1>0, <1>3, <1>a, GotoPlace DEF CreateAccept
  <2> QED
    BY <1>0, <2>1, <2>2, QuietExclusive DEF KeepsBusy
<1>4. CASE MarkStartFailed(w)
  <2>1. plan'[w].next # "d_schedule" /\ pc'[w] \notin ClaimPlace
    BY <1>0, <1>4, <1>a, OutcomePlan, ReturnPlan DEF MarkStartFailed
  <2> QED
    BY <1>4, <2>1, QuietExclusive DEF MarkStartFailed, store, KeepsBusy
<1>5. CASE MarkRequiresReconciliation(w)
  <2>1. rec'.cleanup = rec.cleanup
    BY <1>0, <1>5, CleanupFields DEF MarkRequiresReconciliation, Write
  <2>2. plan'[w].next # "d_schedule" /\ pc'[w] \notin ClaimPlace
    BY <1>0, <1>5, <1>a, ReturnPlan DEF MarkRequiresReconciliation
  <2> QED
    BY <2>1, <2>2, QuietExclusive DEF KeepsBusy
<1> QED
  BY <1>1, <1>2, <1>3, <1>4, <1>5 DEF Create

\* health_check claims nothing.
LEMMA HealthExclusive ==
  ASSUME IInv, XInv, NEW w \in Worker, HealthCheck(w)
  PROVE  Exclusive(w)
<1>0. /\ TypeOK /\ rec \in SandboxLifecycleRecord
      /\ plan[w].next # "d_schedule"
  BY DEF IInv, TypeOK, XInv, ClaimInv
<1>a. \A p \in {"h_observe", "h_inventory", "h_record", "h_verify", "h_healthy",
                "reconcile", "evidence", "idle"} : p \notin ClaimPlace
  BY DEF ClaimPlace, Executing
<1>1. CASE HealthRead(w) \/ InventoryRead(w)
  <2>1. UNCHANGED <<rec, plan>> /\ pc'[w] \notin ClaimPlace
    BY <1>0, <1>1, <1>a, GotoPlace DEF HealthRead, InventoryRead, store
  <2> QED
    BY <1>0, <2>1, QuietExclusive DEF KeepsBusy
<1>2. CASE HealthObserve(w)
  <2>1. plan'[w].next # "d_schedule" /\ pc'[w] \notin ClaimPlace
    BY <1>0, <1>2, <1>a, OutcomePlan, GotoPlace DEF HealthObserve, RestartLoop
  <2> QED
    BY <1>2, <2>1, QuietExclusive DEF HealthObserve, store, KeepsBusy
<1>3. CASE RecordInventory(w)
  <2>1. rec'.cleanup = rec.cleanup
    BY <1>3, ApplyCopyKeeps DEF RecordInventory
  <2>2. plan' = plan /\ pc'[w] \notin ClaimPlace
    BY <1>0, <1>3, <1>a, GotoPlace DEF RecordInventory
  <2> QED
    BY <1>0, <2>1, <2>2, QuietExclusive DEF KeepsBusy
<1>4. CASE MarkVerified(w) \/ HandleHealthy(w)
  <2>1. rec'.cleanup = rec.cleanup
    <3>1. \/ rec' = Transitioned(rec, "active", "none", "keep", FALSE, NoTime)
          \/ rec' = RenewedLease(rec, now)
          \/ rec' = rec
      BY <1>4 DEF MarkVerified, HandleHealthy, Write
    <3>2. Transitioned(rec, "active", "none", "keep", FALSE, NoTime).cleanup
            = rec.cleanup
      BY <1>0 DEF Transitioned, SandboxLifecycleRecord
    <3>3. CASE rec' = RenewedLease(rec, now)
      BY <1>0, <3>3, CleanupFields
    <3> QED
      BY <3>1, <3>2, <3>3
  <2>2. plan'[w].next # "d_schedule" /\ pc'[w] \notin ClaimPlace
    BY <1>0, <1>4, <1>a, ReturnPlan DEF MarkVerified, HandleHealthy
  <2> QED
    BY <2>1, <2>2, QuietExclusive DEF KeepsBusy
<1> QED
  BY <1>1, <1>2, <1>3, <1>4 DEF HealthCheck

\* Recording an outcome claims nothing.
LEMMA OutcomeExclusive ==
  ASSUME IInv, XInv, NEW w \in Worker, TerminalOutcome(w)
  PROVE  Exclusive(w)
<1>0. /\ TypeOK /\ rec \in SandboxLifecycleRecord
      /\ plan[w].next \in {"idle", "schedule"}
  BY DEF IInv, TypeOK, XInv, ClaimInv, Outcome
<1>a. \A p \in {"terminalize", "schedule", "idle"} : p \notin ClaimPlace
  BY DEF ClaimPlace, Executing
<1>1. CASE Evidence(w)
  <2>1. rec'.cleanup = rec.cleanup
    BY <1>0, <1>1, CleanupFields DEF Evidence, Write
  <2>2. plan' = plan /\ pc'[w] \notin ClaimPlace
    BY <1>0, <1>1, <1>a, GotoPlace DEF Evidence
  <2> QED
    BY <1>0, <2>1, <2>2, QuietExclusive DEF KeepsBusy
<1>2. CASE Terminalize(w)
  <2>1. rec'.cleanup = rec.cleanup
    <3>1. rec' = Transitioned(rec, "terminal", plan[w].reason, "keep", TRUE,
                              plan[w].due)
      BY <1>2 DEF Terminalize, Write
    <3> QED
      BY <1>0, <3>1 DEF Transitioned, SandboxLifecycleRecord
  <2>2. CASE Return(w, "idle")
    BY <1>0, <1>a, <2>1, <2>2, ReturnPlan, QuietExclusive DEF KeepsBusy
  <2>3. CASE Goto(w, plan[w].next) /\ plan' = [plan EXCEPT ![w] = NoOutcome]
    <3>1. pc'[w] \notin ClaimPlace
      BY <1>0, <1>a, <2>3, GotoPlace
    <3>2. plan'[w].next # "d_schedule"
      BY <1>0, <2>3 DEF TypeOK, NoOutcome
    <3> QED
      BY <2>1, <3>1, <3>2, QuietExclusive DEF KeepsBusy
  <2> QED
    BY <1>2, <2>2, <2>3 DEF Terminalize
<1> QED
  BY <1>1, <1>2 DEF TerminalOutcome

\* Scheduling a cleanup from the record a worker holds is from the row itself.
LEMMA ScheduleHeldFacts ==
  ASSUME IInv, NEW w \in Worker, ScheduleHeld(w)
  PROVE  snap[w] = rec /\ rec'.cleanup = "scheduled"
<1>1. snap[w] = rec
  BY DEF ScheduleHeld, CanTransition, IInv, HeldInv
<1> DEFINE due == IF snap[w].due = NoTime THEN at[w] ELSE snap[w].due
<1>2. rec' = Transitioned(rec, "terminal", "none", "scheduled", FALSE, due)
  BY DEF ScheduleHeld, Write
<1> HIDE DEF due
<1>3. rec'.cleanup = "scheduled"
  BY <1>2 DEF Transitioned, IInv, TypeOK, SandboxLifecycleRecord
<1> QED
  BY <1>1, <1>3

\* A sweeper claims a cleanup that is scheduled, hence nobody's.
LEMMA ClaimExclusive ==
  ASSUME "delete" \notin Operation, IInv, XInv, NEW w \in Worker, Claim(w)
  PROVE  Exclusive(w)
<1>0. /\ TypeOK /\ rec \in SandboxLifecycleRecord
      /\ plan[w].next # "d_schedule" /\ pc[w] \notin {"d_schedule", "d_claim"}
  BY DEF IInv, TypeOK, XInv, ClaimInv
<1>1. CASE ScheduleIfNeeded(w)
  <2>1. KeepsBusy
    <3>1. CASE ScheduleHeld(w) /\ snap[w].cleanup = "none"
      BY <3>1, ScheduleHeldFacts DEF KeepsBusy, Busy
    <3>2. CASE rec' = rec
      BY <3>2 DEF KeepsBusy
    <3> QED
      BY <1>1, <3>1, <3>2 DEF ScheduleIfNeeded, ScheduleShared
  <2>2. pc'[w] \notin ClaimPlace /\ plan'[w].next # "d_schedule"
    BY <1>0, <1>1, ReturnPlan DEF ScheduleIfNeeded, ClaimPlace, Executing
  <2> QED
    BY <2>1, <2>2, QuietExclusive
<1>2. CASE DeleteRead(w) \/ DeleteSchedule(w)
  BY <1>0, <1>2 DEF DeleteRead, DeleteSchedule, Begin, At
<1>3. CASE SweepRead(w)
  <2>1. UNCHANGED <<rec, plan>> /\ snap'[w] = rec
        /\ pc'[w] = IF rec.cleanup = "scheduled" THEN "s_claim" ELSE "s_schedule"
    BY <1>0, <1>3 DEF SweepRead, Hold, Goto, TypeOK, store
  <2>2. rec.cleanup \in {"scheduled", "none", "failed"}
    BY <1>3 DEF SweepRead, DueCandidate
  <2> QED
    BY <1>0, <2>1, <2>2 DEF Exclusive, ClaimInv, KeepsBusy, Executing
<1>4. CASE SweepSchedule(w)
  <2>1. snap[w] = rec /\ rec'.cleanup = "scheduled"
    BY <1>4, ScheduleHeldFacts DEF SweepSchedule
  <2>2. rec.cleanup \in {"none", "failed"}
    BY <1>4, <2>1 DEF SweepSchedule, At, XInv, ClaimInv
  <2>3. plan' = plan /\ snap'[w] = rec' /\ pc'[w] = "s_claim"
    BY <1>0, <1>4 DEF SweepSchedule, Hold, Goto, TypeOK
  <2> QED
    BY <1>0, <2>1, <2>2, <2>3 DEF Exclusive, ClaimInv, KeepsBusy, Busy, Executing
<1>5. CASE ClaimCleanup(w)
  <2>1. /\ pc[w] = "s_claim" /\ CanClaimCleanup(rec, snap[w].version)
        /\ rec' = ClaimedCleanup(rec, Me(w))
    BY <1>0, <1>5 DEF ClaimCleanup, At, Write
  <2>2. snap[w] = rec /\ snap[w].cleanup = "scheduled"
    BY <2>1 DEF CanClaimCleanup, IInv, HeldInv, XInv, ClaimInv
  <2>3. rec'.cleanup = "in_progress"
    BY <1>0, <2>1, CleanupFields
  <2>4. plan' = plan /\ pc'[w] = "x_attempt"
    BY <1>0, <1>5, GotoPlace DEF ClaimCleanup
  <2>5. ClaimInv(w)'
    BY <1>0, <2>3, <2>4 DEF ClaimInv, Busy
  <2>6. rec.cleanup \notin Busy
    BY <2>2 DEF Busy
  <2> QED
    BY <2>5, <2>6 DEF Exclusive, KeepsBusy
<1> QED
  BY <1>1, <1>2, <1>3, <1>4, <1>5 DEF Claim

\* An executor gives its cleanup up only by ending it.
LEMMA ExecuteExclusive ==
  ASSUME IInv, XInv, NEW w \in Worker, ExecuteCleanup(w)
  PROVE  Exclusive(w)
<1>0. /\ TypeOK /\ rec \in SandboxLifecycleRecord
      /\ plan[w].next # "d_schedule"
  BY DEF IInv, TypeOK, XInv, ClaimInv
<1>a. pc[w] \in Executing
  BY DEF ExecuteCleanup, CleanupAttempt, CleanupReread, ObserveBefore,
         CleanupInventory, TearDown, ObserveAfter, CompleteCleanup,
         MarkCleanupFailed, At, Executing
<1>b. rec.cleanup \in Busy
  BY <1>a DEF XInv, ClaimInv
<1>c. ASSUME plan' = plan, pc'[w] \in Executing, rec'.cleanup = rec.cleanup
      PROVE  Exclusive(w)
  <2>1. ClaimInv(w)'
    BY <1>0, <1>b, <1>c DEF ClaimInv, Executing
  <2> QED
    BY <1>a, <1>b, <1>c, <2>1 DEF Exclusive, KeepsBusy
<1>1. CASE CleanupAttempt(w)
  <2>1. rec'.cleanup = rec.cleanup
    BY <1>1, ApplyCopyKeeps DEF CleanupAttempt
  <2>2. plan' = plan /\ pc'[w] \in Executing
    BY <1>0, <1>1, GotoPlace DEF CleanupAttempt, Executing
  <2> QED
    BY <1>c, <2>1, <2>2
<1>2. CASE CleanupInventory(w)
  <2>1. rec'.cleanup = rec.cleanup
    BY <1>2, ApplyCopyKeeps DEF CleanupInventory
  <2>2. plan' = plan /\ pc'[w] \in Executing
    BY <1>0, <1>2, GotoPlace DEF CleanupInventory, Executing
  <2> QED
    BY <1>c, <2>1, <2>2
<1>3. CASE CleanupReread(w) \/ ObserveBefore(w) \/ TearDown(w) \/ ObserveAfter(w)
  <2>1. UNCHANGED <<rec, plan>> /\ pc'[w] \in Executing
    BY <1>0, <1>3, GotoPlace
    DEF CleanupReread, ObserveBefore, TearDown, ObserveAfter, store, Executing
  <2> QED
    BY <1>c, <2>1
<1>4. CASE CompleteCleanup(w) \/ MarkCleanupFailed(w)
  <2>1. pc'[w] = "idle" /\ plan'[w].next # "d_schedule"
    BY <1>0, <1>4, ReturnPlan DEF CompleteCleanup, MarkCleanupFailed
  <2> QED
    BY <1>a, <2>1 DEF Exclusive, ClaimInv, Executing
<1> QED
  BY <1>1, <1>2, <1>3, <1>4 DEF ExecuteCleanup

\* reconcile_sandbox schedules only a cleanup that nobody has scheduled yet.
LEMMA ReconcileExclusive ==
  ASSUME IInv, XInv, NEW w \in Worker, Reconcile(w)
  PROVE  Exclusive(w)
<1>0. /\ TypeOK /\ rec \in SandboxLifecycleRecord
      /\ plan[w].next # "d_schedule"
  BY DEF IInv, TypeOK, XInv, ClaimInv
<1>a. \A p \in {"r_observe", "r_health", "r_decide", "r_starting", "r_reread",
                "r_started", "reconcile", "evidence", "idle", "await"} :
        p \notin ClaimPlace
  BY DEF ClaimPlace, Executing
<1>1. CASE ReconcileRead(w) \/ ReconcileObserve(w) \/ ReconcileHealth(w)
             \/ ReconcileDecide(w) \/ RecoverReread(w)
  <2>1. rec' = rec
    BY <1>1 DEF ReconcileRead, ReconcileObserve, ReconcileHealth,
                ReconcileDecide, RecoverReread, store
  <2>2. plan'[w].next # "d_schedule" /\ pc'[w] \notin ClaimPlace
    <3>1. CASE ReconcileRead(w)
      BY <1>0, <1>a, <3>1, OutcomePlan, GotoPlace DEF ReconcileRead
    <3>2. CASE ReconcileObserve(w) \/ RecoverReread(w)
      BY <1>0, <1>a, <3>2, GotoPlace DEF ReconcileObserve, RecoverReread
    <3>3. CASE ReconcileHealth(w)
      BY <1>0, <1>a, <3>3, OutcomePlan, GotoPlace
      DEF ReconcileHealth, RestartLoop
    <3>4. CASE ReconcileDecide(w)
      BY <1>0, <1>a, <3>4, OutcomePlan, GotoPlace, ReturnPlan
      DEF ReconcileDecide
    <3> QED
      BY <1>1, <3>1, <3>2, <3>3, <3>4
  <2> QED
    BY <2>1, <2>2, QuietExclusive DEF KeepsBusy
<1>2. CASE RecoverBlock(w)
  <2>1. rec'.cleanup = rec.cleanup
    <3>1. CASE rec' = WithBlocked(rec, FALSE)
      BY <1>0, <3>1 DEF WithBlocked, SandboxLifecycleRecord
    <3> QED
      BY <1>2, <3>1 DEF RecoverBlock, Write
  <2>2. plan'[w].next # "d_schedule" /\ pc'[w] \notin ClaimPlace
    BY <1>0, <1>a, <1>2, GotoPlace, ReturnPlan DEF RecoverBlock
  <2> QED
    BY <2>1, <2>2, QuietExclusive DEF KeepsBusy
<1>3. CASE RecoverStarting(w)
  <2>1. rec'.cleanup = rec.cleanup
    BY <1>3, ApplyCopyKeeps DEF RecoverStarting
  <2>2. plan'[w].next # "d_schedule" /\ pc'[w] \notin ClaimPlace
    BY <1>0, <1>a, <1>3, GotoPlace, OutcomePlan DEF RecoverStarting
  <2> QED
    BY <2>1, <2>2, QuietExclusive DEF KeepsBusy
<1>4. CASE RecoverStarted(w)
  <2>1. rec'.cleanup = rec.cleanup
    <3>1. CASE rec' = Transitioned(rec, "active", "none", "keep", FALSE, NoTime)
      BY <1>0, <3>1 DEF Transitioned, SandboxLifecycleRecord
    <3> QED
      BY <1>4, <3>1 DEF RecoverStarted, Write
  <2>2. plan'[w].next # "d_schedule" /\ pc'[w] \notin ClaimPlace
    <3>1. \/ Return(w, "idle")
          \/ RecordOutcome(w, "startup_failure", "start_failed",
                           FenceOf(snap[w]),
                           at[w] + CleanupDelta("start_failed"), "schedule")
      BY <1>4 DEF RecoverStarted
    <3> QED
      BY <1>0, <1>a, <3>1, ReturnPlan, OutcomePlan
  <2> QED
    BY <2>1, <2>2, QuietExclusive DEF KeepsBusy
<1>5. CASE ReconcileExisting(w)
  <2>1. KeepsBusy
    <3>1. CASE rec' = Transitioned(rec, "reclaimable", "lease_expired", "keep",
                                   FALSE, at[w] + ReclaimTTL)
      BY <1>0, <3>1 DEF Transitioned, SandboxLifecycleRecord, KeepsBusy
    <3>2. CASE rec' = Transitioned(rec, "terminal", "lost_runtime", "keep", FALSE,
                                   at[w] + CleanupDelta("lost_runtime"))
      BY <1>0, <3>2 DEF Transitioned, SandboxLifecycleRecord, KeepsBusy
    <3>3. CASE rec' = Transitioned(rec, "cleaned", "cleaned_externally",
                                   "completed", FALSE, NoTime)
      BY <1>0, <3>3 DEF Transitioned, SandboxLifecycleRecord, KeepsBusy, Busy
    <3>4. CASE rec.cleanup = "none"
      BY <3>4 DEF KeepsBusy, Busy
    <3> QED
      BY <1>5, <3>1, <3>2, <3>3, <3>4 DEF ReconcileExisting, Write
  <2>2. ret[w] \in {"idle", "await"}
    BY <1>0 DEF TypeOK
  <2>3. plan'[w].next # "d_schedule" /\ pc'[w] \notin ClaimPlace
    BY <1>0, <1>a, <1>5, <2>2, ReturnPlan DEF ReconcileExisting
  <2> QED
    BY <2>1, <2>3, QuietExclusive
<1> QED
  BY <1>1, <1>2, <1>3, <1>4, <1>5 DEF Reconcile

\* reacquire_ownership is of a row that is not terminal.
LEMMA ReacquireExclusive ==
  ASSUME IInv, XInv, NEW w \in Worker, Reacquire(w)
  PROVE  Exclusive(w)
<1>0. /\ TypeOK /\ rec \in SandboxLifecycleRecord
      /\ plan[w].next # "d_schedule"
  BY DEF IInv, TypeOK, XInv, ClaimInv
<1>a. \A p \in {"a_observe", "a_inventory", "a_take", "idle"} : p \notin ClaimPlace
  BY DEF ClaimPlace, Executing
<1>1. CASE ReacquireRead(w) \/ ReacquireObserve(w)
  <2>1. UNCHANGED <<rec, plan>> /\ pc'[w] \notin ClaimPlace
    BY <1>0, <1>1, <1>a, GotoPlace DEF ReacquireRead, ReacquireObserve, store
  <2> QED
    BY <1>0, <2>1, QuietExclusive DEF KeepsBusy
<1>2. CASE ReacquireInventory(w)
  <2>1. rec'.cleanup = rec.cleanup
    BY <1>2, ApplyCopyKeeps DEF ReacquireInventory
  <2>2. plan' = plan /\ pc'[w] \notin ClaimPlace
    BY <1>0, <1>2, <1>a, GotoPlace DEF ReacquireInventory
  <2> QED
    BY <1>0, <2>1, <2>2, QuietExclusive DEF KeepsBusy
<1>3. CASE ReacquireTake(w)
  <2>1. rec.state \notin Ended
    BY <1>3 DEF ReacquireTake, CanReacquire, LifecycleTransitions, Ended
  <2>2. plan'[w].next # "d_schedule" /\ pc'[w] \notin ClaimPlace
    BY <1>0, <1>3, <1>a, ReturnPlan DEF ReacquireTake
  <2> QED
    BY <2>1, <2>2, QuietExclusive DEF KeepsBusy
<1> QED
  BY <1>1, <1>2, <1>3 DEF Reacquire

\* Every step of a worker respects the claims.
LEMMA StepExclusive ==
  ASSUME "delete" \notin Operation, IInv, XInv, NEW w \in Worker, Step(w)
  PROVE  Exclusive(w)
<1>1. CASE Unwind(w)
  <2>1. TypeOK /\ ret[w] \in {"idle", "await"}
    BY DEF IInv, TypeOK
  <2>2. plan'[w].next # "d_schedule" /\ pc'[w] \notin ClaimPlace
    BY <1>1, <2>1, ReturnPlan DEF Unwind, ClaimPlace, Executing
  <2> QED
    BY <1>1, <2>2, QuietExclusive DEF Unwind, store, KeepsBusy
<1> QED
  BY <1>1, CreateExclusive, HealthExclusive, OutcomeExclusive, ClaimExclusive,
     ExecuteExclusive, ReconcileExclusive, ReacquireExclusive DEF Step

\* Where nobody deletes, the claims of cleanups stay exclusive.
LEMMA StepXInv ==
  ASSUME "delete" \notin Operation
  PROVE  IInv /\ XInv /\ [Next]_vars => XInv'
<1> SUFFICES ASSUME IInv, XInv, [Next]_vars PROVE XInv'
  OBVIOUS
<1>0. TypeOK'
  BY StepType DEF IInv
<1>1. ASSUME NEW w \in Worker, Step(w) PROVE XInv'
  <2>1. LocalStep(w)
    BY <1>0, <1>1, StepGood DEF Good
  <2> QED
    BY <1>1, <2>1, StepExclusive, ExclusivePreserves
<1>2. ASSUME NEW i \in Instance, Crash(i) PROVE XInv'
  <2>1. ASSUME NEW w \in Worker
        PROVE  ClaimInv(w)' /\ (pc'[w] \in Executing => pc[w] \in Executing)
    <3>1. CASE Me(w) = i
      <4>1. pc'[w] = "idle" /\ plan'[w] = NoOutcome
        BY <1>2, <3>1 DEF Crash, Gone
      <4> QED
        BY <4>1 DEF ClaimInv, Executing, NoOutcome
    <3>2. CASE Me(w) # i
      <4>1. /\ pc'[w] = pc[w] /\ snap'[w] = snap[w] /\ plan'[w] = plan[w]
            /\ rec' = rec
        BY <1>2, <3>2 DEF Crash, Gone, store
      <4> QED
        BY <4>1 DEF XInv, ClaimInv
    <3> QED
      BY <3>1, <3>2
  <2> QED
    BY <2>1 DEF XInv, CleanupExclusive
<1>3. CASE Tick \/ DockerDrift \/ UNCHANGED vars
  <2>1. UNCHANGED <<rec, pc, snap, plan>>
    BY <1>3 DEF Tick, DockerDrift, store, locals, vars
  <2> QED
    BY <2>1 DEF XInv, ClaimInv, CleanupExclusive
<1> QED
  BY <1>1, <1>2, <1>3 DEF Next

\* At most one task is ever between the claim and the end of a cleanup, for any
\* number of sweepers in any number of processes, through every crash, failed
\* attempt and reschedule (sweep_due_cleanups, claim_cleanup,
\* execute_claimed_cleanup, _mark_cleanup_failed).  An operator's delete is
\* excluded: it may claim a cleanup that is in progress.
THEOREM SweepersAreExclusive ==
  ASSUME "delete" \notin Operation
  PROVE  Spec => []CleanupExclusive
<1>1. Init => XInv
  BY DEF Init, XInv, ClaimInv, CleanupExclusive, Executing, NoOutcome
<1>2. IInv /\ XInv /\ [Next]_vars => XInv'
  BY StepXInv
<1>3. XInv => CleanupExclusive
  BY DEF XInv
<1> QED
  BY <1>1, <1>2, <1>3, Inductive, PTL DEF Spec

-----------------------------------------------------------------------------
(* Docker resources and the record.  Nothing but the one deployment brings  *)
(* resources into being, and it runs under a record that is starting; the   *)
(* record becomes cleaned only on an observation of absence, which stays    *)
(* true because nothing deploys again.  A health check observes containers  *)
(* only, so what it has marked cleaned_externally may have left networks    *)
(* and volumes behind.  What could spoil it is a sighting made before the   *)
(* deployment: while a creation is under way (Founding) the records others  *)
(* hold are too young for a reconciliation to act on.  The one observation  *)
(* that cannot be relied on is a "docker ps" whose failure reads as no      *)
(* rows, so PsFails is excluded.                                            *)

Accounted == {"starting", "active", "reclaimable", "terminal"}

\* There are no containers.
Bare(d) == d \in {"absent", "residue"}

\* The record r accounts for the resources d, or they were overlooked.
Covers(d, r) ==
  \/ d = "absent"
  \/ r.state \in Accounted
  \/ d = "residue" /\ r.state = "cleaned" /\ r.reason = "cleaned_externally"

\* Nothing that Covers looks at changes.
SameRecord == rec'.state = rec.state /\ rec'.reason = rec.reason

\* A record no reconciliation acts on.
Fresh(r) == r.state \in {"none", "creating", "starting"} /\ ~ r.blocked

Founder    == {"save", "accept", "deploy"}
EarlyPlace == {"idle", "reserve", "h_observe", "r_observe", "r_decide",
               "evidence", "terminalize"} \cup Founder

\* The deployment is still to come.
Founding == ~ reserved \/ \E v \in Worker : pc[v] \in Founder

\* What a task may be doing until then.
Early(w) ==
  /\ Fresh(snap[w]) /\ pc[w] \in EarlyPlace /\ ret[w] = "idle"
  /\ pc[w] \in {"evidence", "terminalize"}
       => plan[w].event = "hard_max_age_reached"

\* A task about to act on absence is right about it, or about the containers.
SightInv(w) ==
  /\ pc[w] = "x_complete" => docker = "absent"
  /\ pc[w] = "reconcile" /\ ~ seen[w] => Bare(docker)
  /\ pc[w] = "r_decide" /\ ~ seen[w] => docker = "absent" \/ Fresh(snap[w])
  /\ pc[w] = "r_health" => seen[w]
  /\ pc[w] = "deploy" => rec.state = "starting"

OneFounder ==
  \A v, w \in Worker : pc[v] \in Founder /\ pc[w] \in Founder => v = w

FoundingInv ==
  Founding => /\ docker = "absent" /\ Fresh(rec)
              /\ \A w \in Worker : Early(w)

DInv ==
  /\ Covers(docker, rec)
  /\ \A w \in Worker : SightInv(w)
  /\ OneFounder
  /\ FoundingInv

\* The deployment.
Deploys(w) == pc[w] = "deploy" /\ pc'[w] \notin Founder

SeenLocal(w) == \A v \in Worker \ {w} : seen'[v] = seen[v]

\* A step of a worker that keeps resources and record together.
Sound(w) ==
  /\ SeenLocal(w)
  /\ SightInv(w)'
  /\ Covers(docker', rec')
  /\ docker' # "absent" => docker # "absent" \/ Deploys(w)
  /\ Bare(docker) => Bare(docker') \/ Deploys(w)
  /\ pc'[w] \in Founder => pc[w] \in Founder \/ ~ reserved
  /\ Founding => Deploys(w) \/ (Fresh(rec') /\ Early(w)')
  /\ rec.state = "starting" /\ Founding
       => rec'.state = "starting" \/ pc[w] = "save"

\* A founder works under a published reservation.
LEMMA FoundersReserved ==
  ASSUME IInv, NEW w \in Worker, pc[w] \in Founder
  PROVE  reserved
<1>1. rec.version \in Nat
  BY DEF IInv, TypeOK, SandboxLifecycleRecord
<1> QED
  BY <1>1 DEF IInv, PlaceInv, RowInv, Founder

\* Sound steps keep resources and record together.
LEMMA SoundPreserves ==
  ASSUME IInv, DInv, NEW w \in Worker, RowStep, LocalStep(w), Sound(w)
  PROVE  DInv'
<1>1. \A v \in Worker \ {w} :
        /\ pc'[v] = pc[v] /\ snap'[v] = snap[v]
        /\ plan'[v] = plan[v] /\ ret'[v] = ret[v] /\ seen'[v] = seen[v]
  BY DEF LocalStep, Sound, SeenLocal
<1>2. Covers(docker, rec)'
  BY DEF Sound, Covers
<1>3. OneFounder'
  <2>1. ASSUME NEW v \in Worker \ {w}, pc'[v] \in Founder, pc'[w] \in Founder
        PROVE  FALSE
    <3>1. pc[v] \in Founder /\ reserved
      BY <1>1, <2>1, FoundersReserved
    <3>2. pc[w] \in Founder
      BY <2>1, <3>1 DEF Sound
    <3> QED
      BY <3>1, <3>2 DEF DInv, OneFounder
  <2>2. ASSUME NEW u \in Worker \ {w}, NEW v \in Worker \ {w},
               pc'[u] \in Founder, pc'[v] \in Founder
        PROVE  u = v
    BY <1>1, <2>2 DEF DInv, OneFounder
  <2> QED
    BY <2>1, <2>2 DEF OneFounder
<1>4. Founding' => Founding
  <2>1. reserved => reserved'
    BY DEF RowStep
  <2>2. ASSUME NEW v \in Worker, pc'[v] \in Founder PROVE Founding
    BY <1>1, <2>2 DEF Sound, Founding
  <2> QED
    BY <2>1, <2>2 DEF Founding
<1>5. ASSUME Founding'
      PROVE  /\ docker' = "absent" /\ Fresh(rec)'
             /\ \A v \in Worker : Early(v)'
  <2>1. /\ docker = "absent" /\ Fresh(rec)
        /\ \A v \in Worker : Early(v)
    BY <1>4, <1>5 DEF DInv, FoundingInv
  <2>2. ~ Deploys(w)
    <3> SUFFICES ASSUME Deploys(w) PROVE FALSE
      OBVIOUS
    <3>1. pc[w] \in Founder /\ pc'[w] \notin Founder
      BY DEF Deploys, Founder
    <3>2. reserved'
      BY <3>1, FoundersReserved DEF RowStep
    <3>3. PICK v \in Worker : pc'[v] \in Founder
      BY <1>5, <3>2 DEF Founding
    <3>4. v # w /\ pc[v] \in Founder
      BY <1>1, <3>1, <3>3
    <3> QED
      BY <3>1, <3>4 DEF DInv, OneFounder
  <2>3. docker' = "absent" /\ Fresh(rec') /\ Early(w)'
    BY <1>4, <1>5, <2>1, <2>2 DEF Sound
  <2>4. ASSUME NEW v \in Worker \ {w} PROVE Early(v)'
    BY <1>1, <2>1 DEF Early
  <2> QED
    BY <2>3, <2>4 DEF Fresh
<1>6. ASSUME NEW v \in Worker \ {w} PROVE SightInv(v)'
  <2>1. SightInv(v)
    BY DEF DInv
  <2>2. ASSUME \/ docker = "absent" /\ docker' # "absent"
               \/ Bare(docker) /\ ~ Bare(docker')
        PROVE  Early(v)
    <3>1. pc[w] \in Founder
      BY <2>2 DEF Sound, Deploys, Founder
    <3> QED
      BY <3>1 DEF DInv, FoundingInv, Founding
  <2>3. ASSUME pc[v] = "deploy" PROVE rec'.state = "starting"
    <3>1. Founding /\ rec.state = "starting"
      BY <2>1, <2>3 DEF Founding, Founder, SightInv
    <3>2. pc[w] # "save"
      BY <2>3 DEF IInv, PlaceInv
    <3> QED
      BY <3>1, <3>2 DEF Sound
  <2>4. /\ pc[v] = "x_complete" => docker' = "absent"
        /\ pc[v] = "reconcile" /\ ~ seen[v] => Bare(docker')
        /\ pc[v] = "r_decide" /\ ~ seen[v] => docker' = "absent" \/ Fresh(snap[v])
        /\ pc[v] = "r_health" => seen[v]
    BY <2>1, <2>2 DEF SightInv, Early, EarlyPlace, Founder
  <2> QED
    BY <1>1, <2>3, <2>4 DEF SightInv, Fresh, Bare
<1>7. \A v \in Worker : SightInv(v)'
  BY <1>6 DEF Sound
<1> QED
  BY <1>2, <1>3, <1>5, <1>7 DEF DInv, FoundingInv

-----------------------------------------------------------------------------
(* Every action of a worker is sound.                                       *)

\* The places at which a task is about to act on what it saw.
Marked == {"x_complete", "reconcile", "r_decide", "r_health"} \cup Founder

\* A worker at a later place shows that nothing is being founded.
LEMMA LateNotFounding ==
  ASSUME DInv, NEW w \in Worker, pc[w] \notin EarlyPlace
  PROVE  ~ Founding
BY DEF DInv, FoundingInv, Early

\* A step after the deployment.
LEMMA LateSound ==
  ASSUME DInv, NEW w \in Worker, ~ Founding, SeenLocal(w), SightInv(w)',
         pc'[w] \notin Founder, Covers(docker', rec'),
         docker' # "absent" => docker # "absent", Bare(docker) => Bare(docker')
  PROVE  Sound(w)
BY DEF Sound

\* A step after the deployment to a place where nothing is acted on.
LEMMA QuietSound ==
  ASSUME DInv, NEW w \in Worker, ~ Founding, SeenLocal(w), pc'[w] \notin Marked,
         docker' = docker, SameRecord \/ rec'.state \in Accounted
  PROVE  Sound(w)
<1>1. SightInv(w)' /\ pc'[w] \notin Founder
  BY DEF SightInv, Marked, Founder
<1>2. Covers(docker', rec')
  BY DEF DInv, Covers, SameRecord
<1> QED
  BY <1>1, <1>2, LateSound

\* A step that may come before the deployment, and leaves the state alone.
LEMMA EarlySound ==
  ASSUME DInv, NEW w \in Worker, SeenLocal(w), SightInv(w)',
         pc'[w] \notin Founder, docker' = docker, SameRecord,
         rec'.blocked = rec.blocked, Founding => Early(w)'
  PROVE  Sound(w)
<1>1. Founding => Fresh(rec')
  BY DEF DInv, FoundingInv, Fresh, SameRecord
<1>2. Covers(docker', rec')
  BY DEF DInv, Covers, SameRecord
<1> QED
  BY <1>1, <1>2 DEF Sound, SameRecord

\* What a worker that returns has in hand.
LEMMA ReturnSight ==
  ASSUME TypeOK, NEW w \in Worker, NEW p, Return(w, p)
  PROVE  /\ pc'[w] = p /\ snap'[w] = NoRecord /\ ret'[w] = "idle"
         /\ SeenLocal(w)
BY DEF TypeOK, Return, SeenLocal

\* A worker that returns and leaves the row's state alone.
LEMMA ReturnSound ==
  ASSUME IInv, DInv, NEW w \in Worker, NEW p \in {"idle", "await"}, Return(w, p),
         docker' = docker, SameRecord, rec'.blocked = rec.blocked,
         Founding => p = "idle"
  PROVE  Sound(w)
<1>1. /\ pc'[w] = p /\ snap'[w] = NoRecord /\ ret'[w] = "idle" /\ SeenLocal(w)
  BY ReturnSight DEF IInv
<1>2. SightInv(w)' /\ pc'[w] \notin Founder
  BY <1>1 DEF SightInv, Founder
<1>3. Fresh(NoRecord)
  BY NoRecordFields DEF Fresh
<1>4. Founding => Early(w)'
  BY <1>1, <1>3 DEF Early, EarlyPlace, Fresh
<1> QED
  BY <1>1, <1>2, <1>4, EarlySound

\* _apply_record_copy leaves the lifecycle state and its reason alone.
LEMMA ApplyCopyState ==
  ASSUME IInv, NEW w \in Worker, NEW id, NEW cleanup, NEW b, NEW next,
         next \in {snap[w], [snap[w] EXCEPT !.inventory = b]},
         ApplyCopy(w, id, cleanup, next)
  PROVE  SameRecord
<1>1. CASE UNCHANGED <<rec, dedupe>>
  BY <1>1 DEF SameRecord
<1>2. CASE CanApplyCopy(rec, snap[w]) /\ Write([next EXCEPT !.version = @ + 1])
  <2>1. snap[w] = rec /\ rec \in SandboxLifecycleRecord
    BY <1>2 DEF CanApplyCopy, IInv, HeldInv, TypeOK
  <2>2. rec' \in {[rec EXCEPT !.version = @ + 1],
                  [[rec EXCEPT !.inventory = b] EXCEPT !.version = @ + 1]}
    BY <1>2, <2>1 DEF Write
  <2>3. CASE rec' = [rec EXCEPT !.version = @ + 1]
    BY <2>1, <2>3 DEF SandboxLifecycleRecord, SameRecord
  <2>4. CASE rec' = [[rec EXCEPT !.inventory = b] EXCEPT !.version = @ + 1]
    BY <2>1, <2>4 DEF SandboxLifecycleRecord, SameRecord
  <2> QED
    BY <2>2, <2>3, <2>4
<1> QED
  BY <1>1, <1>2 DEF ApplyCopy

\* create_sandbox deploys under the record it has saved and had accepted.
LEMMA CreateSound ==
  ASSUME IInv, DInv, NEW w \in Worker, Create(w)
  PROVE  Sound(w)
<1>0. /\ TypeOK /\ rec \in SandboxLifecycleRecord
      /\ SightInv(w) /\ (Founding => Early(w))
  BY DEF IInv, TypeOK, DInv, FoundingInv
<1>a. seen' = seen => SeenLocal(w)
  BY DEF SeenLocal
<1>b. pc[w] \in Founder
        => Founding /\ docker = "absent" /\ Fresh(rec) /\ Early(w)
  BY DEF Founding, DInv, FoundingInv
<1>1. CASE CreateCheck(w)
  <2>1. /\ pc'[w] = "reserve" /\ UNCHANGED <<rec, docker, seen, snap, ret>>
    BY <1>0, <1>1, GotoPlace DEF CreateCheck, store
  <2>2. SightInv(w)' /\ pc'[w] \notin Founder
    BY <2>1 DEF SightInv, Founder
  <2>3. Founding => Early(w)'
    BY <1>0, <2>1 DEF Early, EarlyPlace, Fresh
  <2> QED
    BY <1>a, <2>1, <2>2, <2>3, EarlySound DEF SameRecord
<1>2. CASE CreateReserve(w)
  <2>1. /\ pc[w] = "reserve" /\ ~ reserved /\ pc'[w] = "save"
        /\ UNCHANGED <<rec, docker, seen, snap, ret>>
    BY <1>0, <1>2, GotoPlace DEF CreateReserve, At
  <2>2. Founding /\ docker = "absent" /\ Fresh(rec) /\ Early(w)
    BY <2>1 DEF Founding, DInv, FoundingInv
  <2>3. SightInv(w)' /\ Fresh(rec') /\ Early(w)'
    BY <2>1, <2>2 DEF SightInv, Early, EarlyPlace, Founder, Fresh
  <2> QED
    BY <1>a, <2>1, <2>2, <2>3 DEF Sound, Covers, Bare
<1>3. CASE CreateSave(w)
  <2>1. /\ pc[w] = "save" /\ pc'[w] = "accept" /\ rec' = NewRecord(Me(w), now)
        /\ UNCHANGED <<docker, seen, snap, ret>>
    BY <1>0, <1>3, GotoPlace DEF CreateSave, At, Write
  <2>2. docker = "absent" /\ Early(w) /\ pc[w] \in Founder
    BY <1>b, <2>1 DEF Founder
  <2>3. Fresh(rec')
    BY <2>1 DEF NewRecord, NoRecord, Fresh
  <2>4. SightInv(w)' /\ Early(w)'
    BY <2>1, <2>2 DEF SightInv, Early, EarlyPlace, Founder, Fresh
  <2> QED
    BY <1>a, <2>1, <2>2, <2>3, <2>4 DEF Sound, Covers, Bare
<1>4. CASE CreateAccept(w)
  <2>1. /\ pc[w] = "accept" /\ pc'[w] = "deploy"
        /\ rec' = Transitioned(rec, "starting", "none", "keep", FALSE, NoTime)
        /\ UNCHANGED <<docker, seen, snap, ret>>
    BY <1>0, <1>4, GotoPlace DEF CreateAccept, At, Write
  <2>2. docker = "absent" /\ Early(w) /\ pc[w] \in Founder /\ Fresh(rec)
    BY <1>b, <2>1 DEF Founder
  <2>3. rec'.state = "starting" /\ rec'.blocked = rec.blocked
    BY <1>0, <2>1 DEF Transitioned, SandboxLifecycleRecord
  <2>4. SightInv(w)' /\ Early(w)' /\ Fresh(rec')
    BY <2>1, <2>2, <2>3 DEF SightInv, Early, EarlyPlace, Founder, Fresh
  <2> QED
    BY <1>a, <2>1, <2>2, <2>3, <2>4 DEF Sound, Covers, Bare
<1>5. CASE Deploy(w)
  <2>1. /\ pc[w] = "deploy" /\ pc'[w] \in {"await", "start_failed", "flag"}
        /\ UNCHANGED <<rec, seen>>
    BY <1>0, <1>5, GotoPlace DEF Deploy, At, store
  <2>2. Deploys(w) /\ SightInv(w)'
    BY <2>1 DEF Deploys, Founder, SightInv
  <2>3. rec'.state = "starting"
    BY <1>0, <2>1 DEF SightInv
  <2> QED
    BY <1>a, <2>1, <2>2, <2>3 DEF Sound, Deploys, Accounted, Covers
<1>6. CASE AwaitGivesUp(w) \/ MarkStartFailed(w) \/ MarkRequiresReconciliation(w)
  <2>1. ~ Founding
    BY <1>6, LateNotFounding
    DEF AwaitGivesUp, MarkStartFailed, MarkRequiresReconciliation, At,
        EarlyPlace, Founder
  <2>2. pc'[w] \notin Marked /\ SeenLocal(w)
    BY <1>0, <1>a, <1>6, GotoPlace, OutcomePlan, ReturnSight
    DEF AwaitGivesUp, MarkStartFailed, MarkRequiresReconciliation, Marked, Founder
  <2>3. SameRecord
    <3>1. CASE rec' = WithBlocked(rec, TRUE)
      BY <1>0, <3>1 DEF WithBlocked, SandboxLifecycleRecord, SameRecord
    <3> QED
      BY <1>6, <3>1
      DEF AwaitGivesUp, MarkStartFailed, MarkRequiresReconciliation, store, Write,
          SameRecord
  <2>4. docker' = docker
    BY <1>6 DEF AwaitGivesUp, MarkStartFailed, MarkRequiresReconciliation
  <2> QED
    BY <2>1, <2>2, <2>3, <2>4, QuietSound
<1> QED
  BY <1>1, <1>2, <1>3, <1>4, <1>5, <1>6 DEF Create

\* A health check that finds nothing where a record was active is right.
LEMMA HealthSound ==
  ASSUME ~ PsFails, IInv, DInv, NEW w \in Worker, HealthCheck(w)
  PROVE  Sound(w)
<1>0. /\ TypeOK /\ rec \in SandboxLifecycleRecord
      /\ SightInv(w) /\ (Founding => Early(w))
      /\ (Founding => docker = "absent" /\ Fresh(rec))
  BY DEF IInv, TypeOK, DInv, FoundingInv
<1>a. seen' = seen => SeenLocal(w)
  BY DEF SeenLocal
<1>1. CASE HealthRead(w)
  <2>1. /\ pc'[w] = "h_observe" /\ snap'[w] = rec
        /\ UNCHANGED <<rec, docker, seen>>
        /\ (pc[w] = "idle" /\ ret'[w] = "idle") \/ pc[w] = "await"
    BY <1>0, <1>1 DEF HealthRead, Begin, At, Hold, Goto, TypeOK, store
  <2>2. SightInv(w)' /\ pc'[w] \notin Founder
    BY <2>1 DEF SightInv, Founder
  <2>3. Founding => Early(w)'
    BY <1>0, <2>1 DEF Early, EarlyPlace, Fresh, Founder
  <2> QED
    BY <1>a, <2>1, <2>2, <2>3, EarlySound DEF SameRecord
<1>2. CASE HealthObserve(w)
  <2>1. UNCHANGED <<rec, docker>> /\ SeenLocal(w) /\ seen'[w] = FALSE
    BY <1>0, <1>2 DEF HealthObserve, SeenLocal, TypeOK, store
  <2>2. \A rows \in ObservedRows : IF Bare(docker) THEN rows = "absent" ELSE rows = docker
    BY DEF ObservedRows, Bare
  <2>3. \/ ~ Bare(docker) /\ pc'[w] \in {"evidence", "h_inventory", "h_healthy"}
        \/ Bare(docker) /\ snap[w].state = "active" /\ pc'[w] = "reconcile"
    <3>1. PICK rows \in ObservedRows :
            \/ RestartLoop(w, rows, now, "idle")
            \/ /\ rows = "up" /\ rec.state # "terminal"
               /\ Goto(w, IF snap[w].state = "starting" THEN "h_inventory"
                                                        ELSE "h_healthy")
            \/ rows = "absent" /\ snap[w].state = "active" /\ Goto(w, "reconcile")
      BY <1>2 DEF HealthObserve
    <3>2. CASE rows = "absent"
      <4>1. Bare(docker)
        BY <2>2, <3>2 DEF Bare
      <4>2. snap[w].state = "active" /\ Goto(w, "reconcile")
        BY <3>1, <3>2 DEF RestartLoop
      <4> QED
        BY <1>0, <4>1, <4>2, GotoPlace
    <3>3. CASE rows # "absent"
      <4>1. ~ Bare(docker)
        BY <2>2, <3>3
      <4>2. CASE RestartLoop(w, rows, now, "idle")
        BY <1>0, <4>1, <4>2, OutcomePlan DEF RestartLoop
      <4>3. CASE Goto(w, IF snap[w].state = "starting" THEN "h_inventory"
                                                       ELSE "h_healthy")
        BY <1>0, <4>1, <4>3, GotoPlace
      <4> QED
        BY <3>1, <3>3, <4>2, <4>3
    <3> QED
      BY <3>2, <3>3
  <2>4. ~ Founding
    BY <1>0, <2>3 DEF Early, Fresh, Bare
  <2>5. SightInv(w)' /\ pc'[w] \notin Founder
    BY <2>1, <2>3 DEF SightInv, Founder
  <2> QED
    BY <2>1, <2>4, <2>5, LateSound DEF DInv, Covers
<1>3. CASE InventoryRead(w) \/ RecordInventory(w)
  <2>1. ~ Founding
    BY <1>3, LateNotFounding
    DEF InventoryRead, RecordInventory, At, EarlyPlace, Founder
  <2>2. pc'[w] \notin Marked /\ SeenLocal(w) /\ docker' = docker
    BY <1>0, <1>a, <1>3, GotoPlace
    DEF InventoryRead, RecordInventory, Marked, Founder
  <2>3. SameRecord
    BY <1>3, ApplyCopyState DEF InventoryRead, RecordInventory, store, SameRecord
  <2> QED
    BY <2>1, <2>2, <2>3, QuietSound
<1>4. CASE MarkVerified(w) \/ HandleHealthy(w)
  <2>1. ~ Founding
    BY <1>4, LateNotFounding
    DEF MarkVerified, HandleHealthy, At, EarlyPlace, Founder
  <2>2. pc'[w] \notin Marked /\ SeenLocal(w) /\ docker' = docker
    BY <1>0, <1>4, ReturnSight DEF MarkVerified, HandleHealthy, Marked, Founder
  <2>3. SameRecord \/ rec'.state \in Accounted
    <3>1. \/ rec' = Transitioned(rec, "active", "none", "keep", FALSE, NoTime)
          \/ rec' = RenewedLease(rec, now)
          \/ rec' = rec
      BY <1>4 DEF MarkVerified, HandleHealthy, Write
    <3>2. Transitioned(rec, "active", "none", "keep", FALSE, NoTime).state
            = "active"
      BY <1>0 DEF Transitioned, SandboxLifecycleRecord
    <3>3. CASE rec' = RenewedLease(rec, now)
      BY <1>0, <3>3 DEF RenewedLease, SandboxLifecycleRecord, SameRecord
    <3> QED
      BY <3>1, <3>2, <3>3 DEF Accounted, SameRecord
  <2> QED
    BY <2>1, <2>2, <2>3, QuietSound
<1> QED
  BY <1>1, <1>2, <1>3, <1>4 DEF HealthCheck

\* Recording an outcome ends no record that is not deployed yet.
LEMMA OutcomeSound ==
  ASSUME IInv, DInv, NEW w \in Worker, TerminalOutcome(w)
  PROVE  Sound(w)
<1>0. /\ TypeOK /\ rec \in SandboxLifecycleRecord
      /\ SightInv(w) /\ (Founding => Early(w))
      /\ (Founding => docker = "absent" /\ Fresh(rec))
      /\ plan[w].next \in {"idle", "schedule", "d_schedule"}
  BY DEF IInv, TypeOK, DInv, FoundingInv, Outcome
<1>a. seen' = seen => SeenLocal(w)
  BY DEF SeenLocal
<1>1. CASE Evidence(w)
  <2>1. /\ pc[w] = "evidence" /\ pc'[w] = "terminalize"
        /\ UNCHANGED <<docker, seen, snap, plan, ret>>
        /\ rec' = [rec EXCEPT !.evidence = TRUE, !.version = @ + 1]
    BY <1>0, <1>1, GotoPlace DEF Evidence, At, Write
  <2>2. SameRecord /\ rec'.blocked = rec.blocked
    BY <1>0, <2>1 DEF SandboxLifecycleRecord, SameRecord
  <2>3. SightInv(w)' /\ pc'[w] \notin Founder
    BY <2>1 DEF SightInv, Founder
  <2>4. Founding => Early(w)'
    BY <1>0, <2>1 DEF Early, EarlyPlace, Fresh
  <2> QED
    BY <1>a, <2>1, <2>2, <2>3, <2>4, EarlySound
<1>2. CASE Terminalize(w)
  <2>1. /\ pc[w] = "terminalize" /\ docker' = docker
        /\ rec' = Transitioned(rec, "terminal", plan[w].reason, "keep", TRUE,
                               plan[w].due)
        /\ <<rec.state, plan[w].event, "terminal", "keep">>
             \in LifecycleTransitions
    BY <1>2 DEF Terminalize, At, Write, CanTransition
  <2>2. ~ Founding
    <3>1. plan[w].event = "hard_max_age_reached" => rec.state = "active"
      BY <2>1 DEF LifecycleTransitions
    <3> QED
      BY <1>0, <2>1, <3>1 DEF Early, Fresh
  <2>3. rec'.state = "terminal"
    BY <1>0, <2>1 DEF Transitioned, SandboxLifecycleRecord
  <2>4. pc'[w] \notin Marked /\ SeenLocal(w)
    BY <1>0, <1>a, <1>2, GotoPlace, ReturnSight DEF Terminalize, Marked, Founder
  <2> QED
    BY <2>1, <2>2, <2>3, <2>4, QuietSound DEF Accounted
<1> QED
  BY <1>1, <1>2 DEF TerminalOutcome

\* Scheduling, deleting and claiming are of records that were deployed.
LEMMA ClaimSound ==
  ASSUME IInv, DInv, NEW w \in Worker, Claim(w)
  PROVE  Sound(w)
<1>0. /\ TypeOK /\ rec \in SandboxLifecycleRecord
      /\ (Founding => Early(w)) /\ (Founding => Fresh(rec))
  BY DEF IInv, TypeOK, DInv, FoundingInv
<1>a. seen' = seen => SeenLocal(w)
  BY DEF SeenLocal
<1>b. docker' = docker
  BY DEF Claim, ScheduleIfNeeded, DeleteRead, DeleteSchedule, SweepRead,
         SweepSchedule, ClaimCleanup
<1>c. ScheduleHeld(w) => rec'.state = "terminal"
  <2> SUFFICES ASSUME ScheduleHeld(w) PROVE rec'.state = "terminal"
    OBVIOUS
  <2> DEFINE due == IF snap[w].due = NoTime THEN at[w] ELSE snap[w].due
  <2>1. rec' = Transitioned(rec, "terminal", "none", "scheduled", FALSE, due)
    BY DEF ScheduleHeld, Write
  <2> HIDE DEF due
  <2> QED
    BY <1>0, <2>1 DEF Transitioned, SandboxLifecycleRecord
<1>d. SameRecord \/ rec'.state \in Accounted
  <2>1. CASE rec' = ClaimedCleanup(rec, Me(w))
    BY <1>0, <2>1 DEF ClaimedCleanup, SandboxLifecycleRecord, SameRecord
  <2>2. CASE ScheduleHeld(w)
    BY <1>c, <2>2 DEF Accounted
  <2>3. \/ rec' = rec \/ rec' = ClaimedCleanup(rec, Me(w)) \/ ScheduleHeld(w)
    BY DEF Claim, ScheduleIfNeeded, DeleteRead, DeleteSchedule, SweepRead,
           SweepSchedule, ClaimCleanup, ScheduleShared, Write, store
  <2> QED
    BY <2>1, <2>2, <2>3 DEF SameRecord
<1>1. CASE ScheduleIfNeeded(w)
  <2>1. ~ Founding
    BY <1>1, LateNotFounding DEF ScheduleIfNeeded, At, EarlyPlace, Founder
  <2>2. pc'[w] \notin Marked /\ SeenLocal(w)
    BY <1>0, <1>1, ReturnSight DEF ScheduleIfNeeded, Marked, Founder
  <2> QED
    BY <1>b, <1>d, <2>1, <2>2, QuietSound
<1>2. CASE DeleteRead(w) \/ SweepRead(w)
  <2>1. ~ Founding
    BY <1>0, <1>2 DEF DeleteRead, SweepRead, DueCandidate, Fresh
  <2>2. pc'[w] \notin Marked /\ SeenLocal(w)
    BY <1>0, <1>2, <1>a, GotoPlace, OutcomePlan
    DEF DeleteRead, SweepRead, Marked, Founder
  <2> QED
    BY <1>b, <1>d, <2>1, <2>2, QuietSound
<1>3. CASE DeleteSchedule(w) \/ SweepSchedule(w) \/ ClaimCleanup(w)
  <2>1. ~ Founding
    BY <1>3, LateNotFounding
    DEF DeleteSchedule, SweepSchedule, ClaimCleanup, At, EarlyPlace, Founder
  <2>2. pc'[w] \notin Marked /\ SeenLocal(w)
    BY <1>0, <1>3, <1>a, GotoPlace
    DEF DeleteSchedule, SweepSchedule, ClaimCleanup, Marked, Founder
  <2> QED
    BY <1>b, <1>d, <2>1, <2>2, QuietSound
<1> QED
  BY <1>1, <1>2, <1>3 DEF Claim

\* A cleanup is completed only after its resources were seen to be gone.
LEMMA ExecuteSound ==
  ASSUME IInv, DInv, NEW w \in Worker, ExecuteCleanup(w)
  PROVE  Sound(w)
<1>0. TypeOK /\ rec \in SandboxLifecycleRecord /\ SightInv(w)
  BY DEF IInv, TypeOK, DInv
<1>a. seen' = seen => SeenLocal(w)
  BY DEF SeenLocal
<1>b. ~ Founding
  BY LateNotFounding
  DEF ExecuteCleanup, CleanupAttempt, CleanupReread, ObserveBefore,
      CleanupInventory, TearDown, ObserveAfter, CompleteCleanup,
      MarkCleanupFailed, At, EarlyPlace, Founder
<1>1. CASE CleanupAttempt(w) \/ CleanupInventory(w)
  <2>1. SameRecord
    BY <1>1, ApplyCopyState DEF CleanupAttempt, CleanupInventory
  <2>2. pc'[w] \notin Marked /\ SeenLocal(w) /\ docker' = docker
    BY <1>0, <1>1, <1>a, GotoPlace
    DEF CleanupAttempt, CleanupInventory, Marked, Founder
  <2> QED
    BY <1>b, <2>1, <2>2, QuietSound
<1>2. CASE CleanupReread(w) \/ ObserveBefore(w)
  <2>1. pc'[w] \notin Marked
    BY <1>0, <1>2, GotoPlace DEF CleanupReread, ObserveBefore, Marked, Founder
  <2>2. SeenLocal(w)
    BY <1>0, <1>2 DEF CleanupReread, ObserveBefore, SeenLocal, TypeOK
  <2>3. UNCHANGED <<rec, docker>>
    BY <1>2 DEF CleanupReread, ObserveBefore, store
  <2> QED
    BY <1>b, <2>1, <2>2, <2>3, QuietSound DEF SameRecord
<1>3. CASE TearDown(w)
  <2>1. /\ pc'[w] \in {"x_after", "x_failed"} /\ UNCHANGED <<rec, seen>>
        /\ docker' \in {docker} \cup Remains(docker)
    BY <1>0, <1>3, GotoPlace DEF TearDown, store
  <2>3. docker' # "absent" => docker # "absent"
    BY <1>0, <2>1, RemainsFacts DEF TypeOK
  <2>4. docker = "residue" => docker' \in {"absent", "residue"}
    BY <1>0, <2>1, RemainsFacts DEF TypeOK
  <2>2. SightInv(w)' /\ pc'[w] \notin Founder
    BY <2>1 DEF SightInv, Founder
  <2> QED
    BY <1>a, <1>b, <2>1, <2>2, <2>3, <2>4, LateSound DEF DInv, Covers, Bare
<1>4. CASE ObserveAfter(w)
  <2>1. /\ pc'[w] = "x_failed" \/ (pc'[w] = "x_complete" /\ docker = "absent")
        /\ UNCHANGED <<rec, seen, docker>>
    BY <1>0, <1>4, GotoPlace DEF ObserveAfter, store
  <2>2. SightInv(w)' /\ pc'[w] \notin Founder
    BY <2>1 DEF SightInv, Founder
  <2> QED
    BY <1>a, <1>b, <2>1, <2>2, LateSound DEF DInv, Covers
<1>5. CASE CompleteCleanup(w)
  <2>1. docker = "absent" /\ docker' = docker
    BY <1>0, <1>5 DEF CompleteCleanup, At, SightInv
  <2>2. pc'[w] = "idle" /\ SeenLocal(w)
    BY <1>0, <1>5, ReturnSight DEF CompleteCleanup
  <2>3. SightInv(w)' /\ pc'[w] \notin Founder
    BY <2>2 DEF SightInv, Founder
  <2> QED
    BY <1>b, <2>1, <2>2, <2>3, LateSound DEF Covers, Bare
<1>6. CASE MarkCleanupFailed(w)
  <2>1. snap[w] = rec
    BY <1>6 DEF MarkCleanupFailed, CanApplyCopy, IInv, HeldInv
  <2>2. rec' = [rec EXCEPT !.cleanup = "failed", !.version = @ + 1]
    BY <1>6, <2>1 DEF MarkCleanupFailed, Write
  <2>3. SameRecord
    BY <1>0, <2>2 DEF SandboxLifecycleRecord, SameRecord
  <2>4. pc'[w] \notin Marked /\ SeenLocal(w) /\ docker' = docker
    BY <1>0, <1>6, ReturnSight DEF MarkCleanupFailed, Marked, Founder
  <2> QED
    BY <1>b, <2>3, <2>4, QuietSound
<1> QED
  BY <1>1, <1>2, <1>3, <1>4, <1>5, <1>6 DEF ExecuteCleanup

\* reconcile_sandbox acts on an absence only when it still holds.
LEMMA ReconcileSound ==
  ASSUME IInv, DInv, NEW w \in Worker, Reconcile(w)
  PROVE  Sound(w)
<1>0. /\ TypeOK /\ rec \in SandboxLifecycleRecord
      /\ SightInv(w) /\ (Founding => Early(w)) /\ (Founding => Fresh(rec))
      /\ ret[w] \in {"idle", "await"}
  BY DEF IInv, TypeOK, DInv, FoundingInv
<1>a. seen' = seen => SeenLocal(w)
  BY DEF SeenLocal
<1>1. CASE ReconcileRead(w)
  <2>1. /\ UNCHANGED <<rec, docker, seen, ret>> /\ pc[w] = "idle"
        /\ \/ /\ pc'[w] = "evidence" /\ plan'[w].event = "hard_max_age_reached"
              /\ snap' = snap
           \/ pc'[w] = "r_observe" /\ snap'[w] = rec
    <3>1. UNCHANGED <<rec, docker, seen, ret>> /\ pc[w] = "idle"
      BY <1>1 DEF ReconcileRead, store, Begin, At
    <3>2. CASE /\ RecordOutcome(w, "hard_max_age_reached", "hard_max_age",
                                FenceOf(rec), now, "schedule")
               /\ UNCHANGED snap
      BY <1>0, <3>1, <3>2, OutcomePlan
    <3>3. CASE Hold(w, rec) /\ Goto(w, "r_observe")
      BY <1>0, <3>1, <3>3 DEF Hold, Goto, TypeOK
    <3> QED
      BY <1>1, <3>2, <3>3 DEF ReconcileRead
  <2>2. SightInv(w)' /\ pc'[w] \notin Founder
    BY <2>1 DEF SightInv, Founder
  <2>3. Founding => Early(w)'
    BY <1>0, <2>1 DEF Early, EarlyPlace, Fresh
  <2> QED
    BY <1>a, <2>1, <2>2, <2>3, EarlySound DEF SameRecord
<1>2. CASE ReconcileObserve(w)
  <2>1. /\ UNCHANGED <<rec, docker, snap, ret>> /\ SeenLocal(w)
        /\ seen'[w] = (docker # "absent")
    BY <1>0, <1>2 DEF ReconcileObserve, SeenLocal, TypeOK, store
  <2>2. pc'[w] = IF snap[w].state = "active" /\ docker # "absent"
                 THEN "r_health" ELSE "r_decide"
    BY <1>0, <1>2, GotoPlace DEF ReconcileObserve
  <2>3. SightInv(w)' /\ pc'[w] \notin Founder
    BY <2>1, <2>2 DEF SightInv, Founder
  <2>4. Founding => Early(w)'
    BY <1>0, <2>1, <2>2 DEF Early, EarlyPlace, Fresh
  <2> QED
    BY <2>1, <2>3, <2>4, EarlySound DEF SameRecord
<1>3. CASE ReconcileHealth(w)
  <2>1. ~ Founding /\ seen[w]
    BY <1>0, <1>3, LateNotFounding
    DEF ReconcileHealth, At, EarlyPlace, Founder, SightInv
  <2>2. UNCHANGED <<rec, docker, seen>> /\ pc'[w] \in {"evidence", "r_decide"}
    BY <1>0, <1>3, OutcomePlan, GotoPlace DEF ReconcileHealth, RestartLoop, store
  <2>3. SightInv(w)' /\ pc'[w] \notin Founder
    BY <2>1, <2>2 DEF SightInv, Founder
  <2> QED
    BY <1>a, <2>1, <2>2, <2>3, LateSound DEF DInv, Covers
<1>4. CASE RecoverBlock(w)
  <2>1. ~ Fresh(snap[w]) /\ pc[w] = "r_decide" /\ docker' = docker
    BY <1>4 DEF RecoverBlock, At, Fresh
  <2>2. ~ Founding /\ (~ seen[w] => docker = "absent")
    BY <1>0, <2>1 DEF Early, SightInv
  <2>3. SameRecord
    <3>1. CASE rec' = WithBlocked(rec, FALSE)
      BY <1>0, <3>1 DEF WithBlocked, SandboxLifecycleRecord, SameRecord
    <3> QED
      BY <1>4, <3>1 DEF RecoverBlock, Write, SameRecord
  <2>4. CASE Return(w, "idle")
    <3>1. pc'[w] \notin Marked /\ SeenLocal(w)
      BY <1>0, <2>4, ReturnSight DEF Marked, Founder
    <3> QED
      BY <2>1, <2>2, <2>3, <3>1, QuietSound
  <2>5. CASE seen' = seen /\ pc'[w] \in {"r_starting", "reconcile"}
    <3>1. SightInv(w)' /\ pc'[w] \notin Founder
      BY <2>1, <2>2, <2>5 DEF SightInv, Founder, Bare
    <3>2. Covers(docker', rec')
      BY <2>1, <2>3 DEF DInv, Covers, SameRecord
    <3> QED
      BY <1>a, <2>1, <2>2, <2>5, <3>1, <3>2, LateSound
  <2> QED
    BY <1>0, <1>4, <2>4, <2>5, GotoPlace DEF RecoverBlock
<1>5. CASE ReconcileDecide(w)
  <2>1. UNCHANGED <<rec, docker>> /\ pc[w] = "r_decide"
    BY <1>5 DEF ReconcileDecide, store, At
  <2>2. CASE Return(w, "idle")
    BY <2>1, <2>2, ReturnSound DEF SameRecord
  <2>3. CASE /\ snap[w].state = "reclaimable"
             /\ RecordOutcome(w, "reclaim_ttl_elapsed", "lease_expired", NoFence,
                              at[w], "schedule")
             /\ UNCHANGED seen
    <3>1. ~ Founding
      BY <1>0, <2>3 DEF Early, Fresh
    <3>2. pc'[w] \notin Marked
      BY <1>0, <2>3, OutcomePlan DEF Marked, Founder
    <3> QED
      BY <1>a, <2>1, <2>3, <3>1, <3>2, QuietSound DEF SameRecord
  <2>4. CASE /\ snap[w].state \in {"active", "terminal"}
             /\ Goto(w, "reconcile") /\ UNCHANGED seen
    <3>1. ~ Founding /\ (~ seen[w] => docker = "absent")
      BY <1>0, <2>1, <2>4 DEF Early, Fresh, SightInv
    <3>2. pc'[w] = "reconcile"
      BY <1>0, <2>4, GotoPlace
    <3>3. SightInv(w)' /\ pc'[w] \notin Founder
      BY <2>1, <2>4, <3>1, <3>2 DEF SightInv, Founder, Bare
    <3> QED
      BY <1>a, <2>1, <2>4, <3>1, <3>3, LateSound DEF DInv, Covers
  <2> QED
    BY <1>5, <2>2, <2>3, <2>4 DEF ReconcileDecide
<1>6. CASE RecoverStarting(w) \/ RecoverReread(w)
  <2>1. ~ Founding
    BY <1>6, LateNotFounding
    DEF RecoverStarting, RecoverReread, At, EarlyPlace, Founder
  <2>2. SameRecord
    BY <1>6, ApplyCopyState DEF RecoverStarting, RecoverReread, store, SameRecord
  <2>3. pc'[w] \notin Marked /\ SeenLocal(w) /\ docker' = docker
    BY <1>0, <1>a, <1>6, GotoPlace, OutcomePlan
    DEF RecoverStarting, RecoverReread, Marked, Founder
  <2> QED
    BY <2>1, <2>2, <2>3, QuietSound
<1>7. CASE RecoverStarted(w)
  <2>1. ~ Founding /\ docker' = docker
    BY <1>7, LateNotFounding DEF RecoverStarted, At, EarlyPlace, Founder
  <2>2. CASE /\ rec' = Transitioned(rec, "active", "none", "keep", FALSE, NoTime)
             /\ Return(w, "idle")
    <3>1. rec'.state \in Accounted
      BY <1>0, <2>2 DEF Transitioned, SandboxLifecycleRecord, Accounted
    <3>2. pc'[w] \notin Marked /\ SeenLocal(w)
      BY <1>0, <2>2, ReturnSight DEF Marked, Founder
    <3> QED
      BY <2>1, <3>1, <3>2, QuietSound
  <2>3. CASE /\ RecordOutcome(w, "startup_failure", "start_failed",
                              FenceOf(snap[w]),
                              at[w] + CleanupDelta("start_failed"), "schedule")
             /\ UNCHANGED <<rec, seen>>
    <3>1. pc'[w] \notin Marked
      BY <1>0, <2>3, OutcomePlan DEF Marked, Founder
    <3> QED
      BY <1>a, <2>1, <2>3, <3>1, QuietSound DEF SameRecord
  <2> QED
    BY <1>7, <2>2, <2>3 DEF RecoverStarted, Write
<1>8. CASE ReconcileExisting(w)
  <2>1. ~ Founding /\ docker' = docker /\ (~ seen[w] => Bare(docker))
    BY <1>0, <1>8, LateNotFounding
    DEF ReconcileExisting, At, EarlyPlace, Founder, SightInv
  <2>2. SightInv(w)' /\ pc'[w] \notin Founder /\ SeenLocal(w)
    <3>1. pc'[w] \in {"idle", "await"} /\ SeenLocal(w)
      BY <1>0, <1>8, ReturnSight DEF ReconcileExisting
    <3> QED
      BY <3>1 DEF SightInv, Founder
  <2>3. Covers(docker, rec')
    <3>1. CASE rec' = Transitioned(rec, "reclaimable", "lease_expired", "keep",
                                   FALSE, at[w] + ReclaimTTL)
      BY <1>0, <3>1 DEF Transitioned, SandboxLifecycleRecord, Accounted, Covers
    <3>2. CASE rec' = Transitioned(rec, "terminal", "lost_runtime", "keep", FALSE,
                                   at[w] + CleanupDelta("lost_runtime"))
      BY <1>0, <3>2 DEF Transitioned, SandboxLifecycleRecord, Accounted, Covers
    <3>3. CASE /\ Planned(w) = "cleaned_externally"
               /\ rec' = Transitioned(rec, "cleaned", "cleaned_externally", "completed",
                                      FALSE, NoTime)
      <4>1. seen[w] \in BOOLEAN /\ rec.state \in SandboxState
        BY <1>0 DEF TypeOK, SandboxLifecycleRecord
      <4>2. ~ seen[w]
        BY <3>3, <4>1 DEF Planned, Classify
      <4>3. rec'.state = "cleaned" /\ rec'.reason = "cleaned_externally"
        BY <1>0, <3>3 DEF Transitioned, SandboxLifecycleRecord
      <4> QED
        BY <2>1, <4>2, <4>3 DEF Covers, Bare
    <3>4. CASE rec' = Transitioned(rec, "terminal", "none", "scheduled", FALSE,
                                   rec.due)
      BY <1>0, <3>4 DEF Transitioned, SandboxLifecycleRecord, Accounted, Covers
    <3> QED
      BY <1>8, <3>1, <3>2, <3>3, <3>4 DEF ReconcileExisting, Write
  <2> QED
    BY <2>1, <2>2, <2>3, LateSound
<1> QED
  BY <1>1, <1>2, <1>3, <1>4, <1>5, <1>6, <1>7, <1>8 DEF Reconcile

\* reacquire_ownership is of a record that was deployed.
LEMMA ReacquireSound ==
  ASSUME IInv, DInv, NEW w \in Worker, Reacquire(w)
  PROVE  Sound(w)
<1>0. /\ TypeOK /\ rec \in SandboxLifecycleRecord
      /\ (Founding => Fresh(rec))
  BY DEF IInv, TypeOK, DInv, FoundingInv
<1>a. seen' = seen => SeenLocal(w)
  BY DEF SeenLocal
<1>1. CASE ReacquireRead(w)
  <2>1. ~ Founding
    BY <1>0, <1>1 DEF ReacquireRead, Fresh
  <2>2. pc'[w] \notin Marked /\ SeenLocal(w) /\ UNCHANGED <<rec, docker>>
    BY <1>0, <1>a, <1>1, GotoPlace DEF ReacquireRead, Marked, Founder, store
  <2> QED
    BY <2>1, <2>2, QuietSound DEF SameRecord
<1>2. CASE ReacquireObserve(w) \/ ReacquireInventory(w)
  <2>1. ~ Founding
    BY <1>2, LateNotFounding
    DEF ReacquireObserve, ReacquireInventory, At, EarlyPlace, Founder
  <2>2. SameRecord
    BY <1>2, ApplyCopyState DEF ReacquireObserve, ReacquireInventory, store, SameRecord
  <2>3. pc'[w] \notin Marked /\ SeenLocal(w) /\ docker' = docker
    BY <1>0, <1>a, <1>2, GotoPlace
    DEF ReacquireObserve, ReacquireInventory, Marked, Founder
  <2> QED
    BY <2>1, <2>2, <2>3, QuietSound
<1>3. CASE ReacquireTake(w)
  <2>1. ~ Founding
    BY <1>3, LateNotFounding DEF ReacquireTake, At, EarlyPlace, Founder
  <2>2. pc'[w] \notin Marked /\ SeenLocal(w) /\ docker' = docker
    BY <1>0, <1>3, ReturnSight DEF ReacquireTake, Marked, Founder
  <2>3. rec'.state \in Accounted
    BY <1>0, <1>3
    DEF ReacquireTake, Write, Reacquired, SandboxLifecycleRecord, Accounted
  <2> QED
    BY <2>1, <2>2, <2>3, QuietSound
<1> QED
  BY <1>1, <1>2, <1>3 DEF Reacquire

\* Every step of a worker is sound.
LEMMA StepSound ==
  ASSUME ~ PsFails, IInv, DInv, NEW w \in Worker, Step(w)
  PROVE  Sound(w)
<1>1. CASE Unwind(w)
  <2>1. ret[w] \in {"idle", "await"} /\ (Founding => ret[w] = "idle")
    BY DEF IInv, TypeOK, DInv, FoundingInv, Early
  <2> QED
    BY <1>1, <2>1, ReturnSound DEF Unwind, store, SameRecord
<1> QED
  BY <1>1, CreateSound, HealthSound, OutcomeSound, ClaimSound, ExecuteSound,
     ReconcileSound, ReacquireSound DEF Step

\* Resources and record stay together while "docker ps" answers.
LEMMA StepDInv ==
  ASSUME ~ PsFails
  PROVE  IInv /\ DInv /\ [Next]_vars => DInv'
<1> SUFFICES ASSUME IInv, DInv, [Next]_vars PROVE DInv'
  OBVIOUS
<1>0. TypeOK'
  BY StepType DEF IInv
<1>1. ASSUME NEW w \in Worker, Step(w) PROVE DInv'
  <2>1. LocalStep(w) /\ RowStep
    BY <1>0, <1>1, StepGood DEF Good
  <2> QED
    BY <1>1, <2>1, StepSound, SoundPreserves
<1>2. ASSUME NEW i \in Instance, Crash(i) PROVE DInv'
  <2>0. UNCHANGED <<rec, reserved, docker>>
    BY <1>2 DEF Crash, store
  <2>1. ASSUME NEW w \in Worker
        PROVE  /\ SightInv(w)' /\ (Early(w) => Early(w)')
               /\ pc'[w] \in Founder => pc[w] \in Founder
    <3>1. CASE Me(w) = i
      <4>1. pc'[w] = "idle" /\ snap'[w] = NoRecord /\ ret'[w] = "idle"
        BY <1>2, <3>1 DEF Crash, Gone
      <4> QED
        BY <4>1, NoRecordFields DEF SightInv, Early, EarlyPlace, Founder, Fresh
    <3>2. CASE Me(w) # i
      <4>1. /\ pc'[w] = pc[w] /\ snap'[w] = snap[w] /\ plan'[w] = plan[w]
            /\ ret'[w] = ret[w] /\ seen'[w] = seen[w]
        BY <1>2, <3>2 DEF Crash, Gone
      <4> QED
        BY <2>0, <4>1 DEF DInv, SightInv, Early, Fresh, Bare
    <3> QED
      BY <3>1, <3>2
  <2>2. Founding' => Founding
    BY <2>0, <2>1 DEF Founding
  <2>3. OneFounder'
    BY <2>1 DEF DInv, OneFounder
  <2>4. FoundingInv'
    BY <2>0, <2>1, <2>2 DEF DInv, FoundingInv, Fresh
  <2> QED
    BY <2>0, <2>1, <2>3, <2>4 DEF DInv, Covers
<1>3. CASE Tick \/ UNCHANGED vars
  <2>1. UNCHANGED <<rec, reserved, docker, pc, snap, seen, plan, ret>>
    BY <1>3 DEF Tick, store, locals, vars
  <2> QED
    BY <2>1 DEF DInv, SightInv, OneFounder, FoundingInv, Founding, Early, Fresh,
               Covers, Bare
<1>4. CASE DockerDrift
  <2>1. /\ docker # "absent"
        /\ UNCHANGED <<rec, reserved, pc, snap, seen, plan, ret>>
    BY <1>4 DEF DockerDrift, store, locals
  <2>a. docker \in Resources
    BY DEF IInv, TypeOK
  <2>b. docker = "residue" => docker' \in {"absent", "residue"}
    BY <1>4, <2>a, RemainsFacts DEF DockerDrift
  <2>2. ~ Founding /\ ~ Founding'
    BY <2>1 DEF DInv, FoundingInv, Founding
  <2>3. \A w \in Worker : SightInv(w)'
    BY <2>1, <2>b DEF DInv, SightInv, Fresh, Bare
  <2>4. OneFounder'
    BY <2>1 DEF DInv, OneFounder
  <2>5. Covers(docker, rec)'
    BY <2>1, <2>b DEF DInv, Covers
  <2> QED
    BY <2>2, <2>3, <2>4, <2>5 DEF DInv, FoundingInv
<1> QED
  BY <1>1, <1>2, <1>3, <1>4 DEF Next

\* The sandbox's Docker resources never exist without a record that is
\* starting, active, reclaimable or terminal, whatever creations, health
\* checks, reconciliations, deletes, sweeps and crashes interleave: they are
\* deployed under an accepted record and a record is cleaned only once they are
\* gone.  What may be left are networks and volumes, and only of a record that
\* is marked cleaned_externally (create_sandbox, verify_absence,
\* handle_missing_runtime).  PsFails is excluded: a "docker ps" that fails reads
\* as an absent runtime.
THEOREM ResourcesAreAccounted ==
  ASSUME ~ PsFails
  PROVE  Spec => []DockerAccounted
<1>1. Init => DInv
  <2> SUFFICES ASSUME Init PROVE DInv
    OBVIOUS
  <2>1. /\ docker = "absent" /\ rec = NoRecord
        /\ \A w \in Worker : /\ pc[w] = "idle" /\ snap[w] = NoRecord
                             /\ ret[w] = "idle"
    BY DEF Init
  <2>2. Fresh(NoRecord)
    BY NoRecordFields DEF Fresh
  <2>3. \A w \in Worker : SightInv(w) /\ Early(w) /\ pc[w] \notin Founder
    BY <2>1, <2>2 DEF SightInv, Early, EarlyPlace, Founder
  <2> QED
    BY <2>1, <2>2, <2>3 DEF DInv, OneFounder, FoundingInv, Covers
<1>2. IInv /\ DInv /\ [Next]_vars => DInv'
  BY StepDInv
<1>3. DInv => DockerAccounted
  BY DEF DInv, DockerAccounted, Accounted, Covers
<1> QED
  BY <1>1, <1>2, <1>3, Inductive, PTL DEF Spec

=============================================================================
