----------------------------- MODULE LeaseHistory -----------------------------
(* The control plane's lease and reservation records as append-only           *)
(* histories: which record may follow which (control_plane_leases,             *)
(* control_plane_reservations) and which one a reader gets back as the latest  *)
(* (AsyncControlPlaneRecordRepository).                                        *)
(*                                                                            *)
(* A lease record carries its epoch, status, holder, publication and grant     *)
(* timestamps; a reservation its status, holder and creation timestamp.  Ids,  *)
(* scopes and descriptions are fixed by the id and are left out.               *)
EXTENDS Naturals, Sequences

CONSTANT NoHolder

\* validate_lease_status_transition
LeaseTransitions ==
  ({"pending"} \X {"active", "released", "revoked", "expired", "uncertain"})
  \cup ({"active"} \X {"released", "revoked", "expired", "uncertain"})
  \cup ({"uncertain"} \X {"active", "released", "revoked", "expired"})

\* validate_reservation_status_transition
ReservationTransitions ==
  ({"pending"} \X {"active", "cancelled", "invalidated", "expired", "uncertain"})
  \cup ({"active"} \X {"promoted", "released", "expired", "cancelled",
                       "invalidated", "uncertain"})
  \cup ({"uncertain"} \X {"active", "released", "expired", "cancelled",
                          "invalidated"})

LeaseStatus == {"pending", "active", "released", "revoked", "expired", "uncertain"}

Lease(epoch, status, holder, at, granted) ==
  [epoch |-> epoch, status |-> status, holder |-> holder, at |-> at,
   granted |-> granted]

\* No record has been published.
NoLease == Lease(0, "none", NoHolder, 0, 0)

\* build_lease_record: epochs and timestamps do not go back, an epoch keeps its
\* grant and moves along the status table.
CanFollow(prev, new) ==
  prev # NoLease =>
    /\ new.epoch >= prev.epoch
    /\ new.at >= prev.at
    /\ ~(new.at = prev.at /\ new.epoch = prev.epoch /\ new.status = prev.status)
    /\ new.epoch = prev.epoch =>
         /\ new.granted = prev.granted
         /\ \/ new.status = prev.status
            \/ <<prev.status, new.status>> \in LeaseTransitions

\* append_lease_record followed by get_latest_lease_record, which orders by
\* epoch, then timestamp, then insertion: a record built on a stale predecessor
\* is kept but may not become the latest.
LatestOf(latest, new) ==
  IF \/ new.epoch > latest.epoch
     \/ new.epoch = latest.epoch /\ new.at >= latest.at
  THEN new ELSE latest

-----------------------------------------------------------------------------
Reservation(status, holder, created) ==
  [status |-> status, holder |-> holder, created |-> created]

\* The rows of one reservation, in insertion order, and the latest of them.
NoReservation == Reservation("none", NoHolder, 0)
LatestReservation(rows) == IF rows = <<>> THEN NoReservation ELSE rows[Len(rows)]

\* build_reservation_record
CanFollowReservation(prev, new) ==
  IF prev = NoReservation
  THEN new.status \in {"pending", "active"}
  ELSE /\ <<prev.status, new.status>> \in ReservationTransitions
       /\ new.holder = prev.holder
       /\ new.created = prev.created

\* A mutation for the check of EpochGrantedOnce: the key is not unique.
CanSaveAnyReservation(rows, new) == TRUE

\* save_reservation_record: (reservation_id, status) is the key, and a second
\* row under it is a conflict.
CanSaveReservation(rows, new) ==
  \A i \in DOMAIN rows : rows[i].status # new.status
=============================================================================
