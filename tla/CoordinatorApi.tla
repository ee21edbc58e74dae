---------------------------- MODULE CoordinatorApi ----------------------------
(* The coordinator's HTTP handlers.  Each request changes the in-memory card   *)
(* in one step and mirrors that change into the control plane's reservation,   *)
(* lease and resource records, one repository call at a time; other requests   *)
(* run between any two calls.  Hedged cards publish nothing, so the model is   *)
(* about a card that is not hedged.                                            *)
EXTENDS CoordinatorCard, Sequences

INSTANCE LeaseHistory WITH NoHolder <- NoNode

CONSTANTS Task,         \* requests that can be in progress at one time
          MaxStamp,     \* how many timestamps requests may draw
          PromotionFails \* whether promoting a reservation can raise

ASSUME ApiAssumption ==
  /\ MaxStamp \in Nat \ {0}
  /\ PromotionFails \in BOOLEAN

VARIABLES card,       \* the card in the store
          latest,     \* the latest lease record
          resource,   \* the lease status in the latest resource record
          rows,       \* epoch -> the rows of the reservation of that epoch
          stamp,      \* the last timestamp drawn
          task,       \* request in progress: see Idle
          grants      \* history: <<epoch, node, timestamp>> of claim records

vars == <<card, latest, resource, rows, stamp, task, grants>>
control == <<latest, resource, rows, grants>>

Epoch == 1..MaxStamp

\* `snap' is the claim the handler first read (its holder and what is left of
\* it), `at' its timestamp, `lease' the record it read last, `new' the record it
\* is about to append and `then' where it goes on after the publication.
NoClaim == [holder |-> NoNode, left |-> 0]
Idle == [pc |-> "idle", kind |-> "none", node |-> NoNode, snap |-> NoClaim,
         at |-> 0, lease |-> NoLease, new |-> NoLease, epoch |-> 0,
         then |-> "none"]

Init ==
  /\ card = NewCard(FALSE)
  /\ latest = NoLease
  /\ resource = "none"
  /\ rows = [e \in Epoch |-> <<>>]
  /\ stamp = 0
  /\ task = [k \in Task |-> Idle]
  /\ grants = {}

-----------------------------------------------------------------------------
At(k, pc) == task[k].pc = pc
Update(k, t) == task' = [task EXCEPT ![k] = t]
Goto(k, pc) == task' = [task EXCEPT ![k].pc = pc]
\* The response is sent, or an error ends the request.
Return(k) == Update(k, Idle)

Stamp == stamp < MaxStamp /\ stamp' = stamp + 1

\* _should_require_active_authority
RequiresAuthority(c, n) == c.state = "CLAIMED" /\ c.holder = n

\* get_cards and claim_card read the card and the time first.
BeginObserve(k, kind, n) ==
  /\ At(k, "idle")
  /\ Stamp
  /\ Update(k, [Idle EXCEPT !.pc = "expire", !.kind = kind, !.node = n,
         !.snap = [holder |-> card.holder, left |-> card.left], !.at = stamp'])
  /\ UNCHANGED <<card, control>>

\* renew_card, complete_card and fail_card check the node's authority first if
\* the card says that the node holds it.
BeginHeld(k, kind, n) ==
  /\ At(k, "idle")
  /\ Update(k, [Idle EXCEPT
       !.pc = IF RequiresAuthority(card, n) THEN "preflight" ELSE "store",
       !.kind = kind, !.node = n])
  /\ UNCHANGED <<card, stamp, control>>

\* publish_expired_from_snapshot, up to the lease it reads.
ExpireRead(k) ==
  LET t == task[k]
      lapsed == t.snap.holder # NoNode /\ t.snap.left = 0
  IN  /\ At(k, "expire")
      /\ \/ /\ ~lapsed \/ latest.status \in {"none", "expired"}
            /\ Goto(k, "store")
         \/ /\ lapsed /\ latest.status = "active"
            /\ Update(k, [t EXCEPT !.pc = "resource", !.lease = latest,
                 !.new = Lease(latest.epoch, "expired", t.snap.holder, t.at,
                               latest.granted),
                 !.then = "store"])
         \/ /\ lapsed /\ latest.status \notin {"none", "expired", "active"}
            /\ Return(k)
      /\ UNCHANGED <<card, stamp, control>>

\* require_active_authority
PreflightRead(k) ==
  /\ At(k, "preflight")
  /\ IF latest.status = "active"
     THEN Update(k, [task[k] EXCEPT !.pc = "resource", !.lease = latest,
                                    !.then = "preflighted"])
     ELSE Return(k)
  /\ UNCHANGED <<card, stamp, control>>

\* _require_resource_authority: the resource record must agree with the lease.
CheckResource(k) ==
  /\ At(k, "resource")
  /\ IF resource # task[k].lease.status THEN Return(k)
     ELSE Goto(k, IF task[k].then = "preflighted" THEN "store" ELSE "previous")
  /\ UNCHANGED <<card, stamp, control>>

-----------------------------------------------------------------------------
\* The store operation, under the store's lock.
StoreList(k) ==
  /\ At(k, "store") /\ task[k].kind = "list"
  /\ card' = Reopened(card)
  /\ Return(k)
  /\ UNCHANGED <<stamp, control>>

StoreClaim(k, d) ==
  LET n == task[k].node
  IN  /\ At(k, "store") /\ task[k].kind = "claim"
      /\ \/ /\ CanClaim(card, n)
            /\ card' = Claimed(card, n, d)
            /\ Goto(k, "epoch")
         \/ /\ ~CanClaim(card, n)
            /\ card' = Reopened(card)
            /\ Return(k)
      /\ UNCHANGED <<stamp, control>>

StoreRenew(k, d) ==
  LET n == task[k].node
  IN  /\ At(k, "store") /\ task[k].kind = "renew"
      /\ \/ /\ CanRenew(card, n)
            /\ card' = Renewed(card, d)
            /\ Goto(k, "stamp")
         \/ /\ ~CanRenew(card, n)
            /\ card' = Reopened(card)
            /\ Return(k)
      /\ UNCHANGED <<stamp, control>>

\* A card that is already done answers every complete, and a final card every
\* fail, with success; the handler then publishes a release all the same.
StoreFinish(k) ==
  LET n == task[k].node
      done == IF task[k].kind = "complete" THEN AlreadyCompleted(card)
              ELSE AlreadyFailed(card)
  IN  /\ At(k, "store") /\ task[k].kind \in {"complete", "fail"}
      /\ \/ /\ done
            /\ UNCHANGED card
            /\ Goto(k, "stamp")
         \/ /\ ~done /\ CanFinish(card, n)
            /\ card' = Finished(card, n, IF task[k].kind = "complete"
                                         THEN "DONE" ELSE "FAILED")
            /\ Goto(k, "stamp")
         \/ /\ ~done /\ ~CanFinish(card, n)
            /\ card' = Reopened(card)
            /\ Return(k)
      /\ UNCHANGED <<stamp, control>>

\* renew, complete and fail draw their timestamp after the store operation.
DrawStamp(k) ==
  /\ At(k, "stamp")
  /\ Stamp
  /\ Update(k, [task[k] EXCEPT !.at = stamp',
       !.pc = IF task[k].kind = "renew" THEN "renew" ELSE "release"])
  /\ UNCHANGED <<card, control>>

-----------------------------------------------------------------------------
\* publish_renew, up to the lease it reads.
RenewRead(k) ==
  LET t == task[k]
  IN  /\ At(k, "renew")
      /\ IF latest.status = "active"
         THEN Update(k, [t EXCEPT !.pc = "resource", !.lease = latest,
                !.new = Lease(latest.epoch, "active", t.node, t.at,
                              latest.granted),
                !.then = "respond"])
         ELSE Return(k)
      /\ UNCHANGED <<card, stamp, control>>

\* publish_release, up to the lease it reads.
ReleaseRead(k) ==
  LET t == task[k]
  IN  /\ At(k, "release")
      /\ IF latest.status = "active"
         THEN Update(k, [t EXCEPT !.pc = "resource", !.lease = latest,
                !.new = Lease(latest.epoch, "released", t.node, t.at,
                              latest.granted),
                !.then = "respond"])
         ELSE Return(k)
      /\ UNCHANGED <<card, stamp, control>>

\* A mutation for the check of PromotedIsGranted: a refused record is skipped.
ReadPreviousSwallows(k) ==
  /\ At(k, "previous")
  /\ IF CanFollow(latest, task[k].new) THEN Goto(k, "append")
     ELSE Goto(k, IF task[k].then = "respond" THEN "snapshot" ELSE task[k].then)
  /\ UNCHANGED <<card, stamp, control>>

\* publish_lease reads the latest record again and builds its own on it ...
ReadPrevious(k) ==
  /\ At(k, "previous")
  /\ IF CanFollow(latest, task[k].new) THEN Goto(k, "append") ELSE Return(k)
  /\ UNCHANGED <<card, stamp, control>>

\* ... appends it ...
AppendLease(k) ==
  /\ At(k, "append")
  /\ latest' = LatestOf(latest, task[k].new)
  /\ grants' = IF task[k].then = "promote"
               THEN grants \cup {<<task[k].epoch, task[k].node, task[k].at>>}
               ELSE grants
  /\ Goto(k, "snapshot")
  /\ UNCHANGED <<card, stamp, resource, rows>>

\* ... and publish_resource_snapshot mirrors it.
SaveResource(k) ==
  /\ At(k, "snapshot")
  /\ resource' = task[k].new.status
  /\ IF task[k].then = "respond" THEN Return(k) ELSE Goto(k, task[k].then)
  /\ UNCHANGED <<card, stamp, latest, rows, grants>>

-----------------------------------------------------------------------------
\* next_claim_epoch
ClaimEpoch(k) ==
  LET same == latest.status = "active" /\ latest.holder = task[k].node
  IN  /\ At(k, "epoch")
      /\ Update(k, [task[k] EXCEPT !.pc = "reserve",
           !.epoch = IF same THEN latest.epoch ELSE latest.epoch + 1])
      /\ UNCHANGED <<card, stamp, control>>

\* publish_claim_reservation
ReserveRead(k) ==
  LET t == task[k]
  IN  /\ At(k, "reserve")
      /\ IF CanFollowReservation(LatestReservation(rows[t.epoch]),
                                 Reservation("active", t.node, t.at))
         THEN Goto(k, "reserve_save") ELSE Return(k)
      /\ UNCHANGED <<card, stamp, control>>

ReserveSave(k) ==
  LET t == task[k]
      r == Reservation("active", t.node, t.at)
  IN  /\ At(k, "reserve_save")
      /\ \/ /\ CanSaveReservation(rows[t.epoch], r)
            /\ rows' = [rows EXCEPT ![t.epoch] = Append(@, r)]
            /\ Update(k, [t EXCEPT !.pc = "previous", !.then = "promote",
                 !.new = Lease(t.epoch, "active", t.node, t.at, t.at)])
         \/ /\ ~CanSaveReservation(rows[t.epoch], r)
            /\ Return(k)
            /\ UNCHANGED rows
      /\ UNCHANGED <<card, stamp, latest, resource, grants>>

\* promote_claim_reservation; when it raises, _rollback_failed_promotion runs.
Promote(k) ==
  LET t == task[k]
      r == [LatestReservation(rows[t.epoch]) EXCEPT !.status = "promoted"]
  IN  /\ At(k, "promote")
      /\ \/ /\ CanFollowReservation(LatestReservation(rows[t.epoch]), r)
            /\ rows' = [rows EXCEPT ![t.epoch] = Append(@, r)]
            /\ Return(k)
         \/ /\ PromotionFails
            /\ Goto(k, "rollback")
            /\ UNCHANGED rows
      /\ UNCHANGED <<card, stamp, latest, resource, grants>>

\* The rollback releases whatever lease is the latest ...
RollbackRead(k) ==
  LET t == task[k]
      at == IF t.at >= latest.at THEN t.at ELSE latest.at
  IN  /\ At(k, "rollback")
      /\ IF latest.status = "active"
         THEN Update(k, [t EXCEPT !.pc = "previous", !.then = "invalidate",
                !.new = Lease(latest.epoch, "released", latest.holder, at,
                              latest.granted)])
         ELSE Goto(k, "invalidate")
      /\ UNCHANGED <<card, stamp, control>>

\* ... and invalidates the reservation.
Invalidate(k) ==
  LET t == task[k]
      r == [LatestReservation(rows[t.epoch]) EXCEPT !.status = "invalidated"]
  IN  /\ At(k, "invalidate")
      /\ rows' = IF LatestReservation(rows[t.epoch]).status = "active"
                 THEN [rows EXCEPT ![t.epoch] = Append(@, r)] ELSE rows
      /\ Return(k)
      /\ UNCHANGED <<card, stamp, latest, resource, grants>>

-----------------------------------------------------------------------------
Tick ==
  /\ card' = Older(card)
  /\ task' = [k \in Task |->
                [task[k] EXCEPT !.snap.left = IF @ = 0 THEN 0 ELSE @ - 1]]
  /\ UNCHANGED <<stamp, control>>

Step(k) ==
  \/ ExpireRead(k) \/ PreflightRead(k) \/ CheckResource(k)
  \/ StoreList(k) \/ StoreFinish(k)
  \/ \E d \in LeaseDuration : StoreClaim(k, d) \/ StoreRenew(k, d)
  \/ DrawStamp(k) \/ RenewRead(k) \/ ReleaseRead(k)
  \/ ReadPrevious(k) \/ AppendLease(k) \/ SaveResource(k)
  \/ ClaimEpoch(k) \/ ReserveRead(k) \/ ReserveSave(k)
  \/ Promote(k) \/ RollbackRead(k) \/ Invalidate(k)

Begin(k) ==
  \/ BeginObserve(k, "list", NoNode)
  \/ \E n \in Node :
       \/ BeginObserve(k, "claim", n)
       \/ \E kind \in {"renew", "complete", "fail"} : BeginHeld(k, kind, n)

Next == Tick \/ \E k \in Task : Begin(k) \/ Step(k)

Spec == Init /\ [][Next]_vars

-----------------------------------------------------------------------------
Records == [epoch : 0..MaxStamp, status : LeaseStatus \cup {"none"},
            holder : Node \cup {NoNode}, at : 0..MaxStamp, granted : 0..MaxStamp]

Row == [status : {"active", "promoted", "invalidated"},
        holder : Node, created : 1..MaxStamp]

Request ==
  [pc    : {"idle", "expire", "preflight", "resource", "store", "stamp", "renew",
            "release", "previous", "append", "snapshot", "epoch", "reserve",
            "reserve_save", "promote", "rollback", "invalidate"},
   kind  : {"none", "list", "claim", "renew", "complete", "fail"},
   node  : Node \cup {NoNode},
   snap  : [holder : Node \cup {NoNode}, left : 0..MaxLease],
   at    : 0..MaxStamp,
   lease : Records,
   new   : Records,
   epoch : 0..MaxStamp,
   then  : {"none", "store", "preflighted", "respond", "promote", "invalidate"}]

TypeOK ==
  /\ card \in Card
  /\ latest \in Records
  /\ resource \in LeaseStatus \cup {"none"}
  /\ rows \in [Epoch -> Seq(Row)]
  /\ stamp \in 0..MaxStamp
  /\ task \in [Task -> Request]
  /\ grants \subseteq Epoch \X Node \X (1..MaxStamp)

\* A lease epoch is granted to one claim only, although next_claim_epoch reads
\* the latest record long before the claim is appended: the reservation id, which
\* contains the epoch, lets one claim through (reservation_id_for).
EpochGrantedOnce ==
  \A g, h \in grants : g[1] = h[1] => g = h

\* A reservation is promoted only when the lease of its epoch has been granted to
\* the same node (promote_claim_reservation comes after publish_claim).
PromotedIsGranted ==
  \A e \in Epoch : LatestReservation(rows[e]).status = "promoted" =>
    \E g \in grants : g[1] = e /\ g[2] = LatestReservation(rows[e]).holder

Holders == IF card.state = "CLAIMED" /\ card.left > 0 THEN {card.holder} ELSE {}

Job == INSTANCE JobLease WITH holders <- Holders, outcome <- card.result,
                              shared <- FALSE

\* Requests in progress at the same time, stale snapshots and failed
\* publications included, leave the card a job lease.
ImplementsJobLease == Job!Spec

=============================================================================
