--------------------------- MODULE CoordinatorCard ---------------------------
(* One card of InMemoryCoordinatorStore together with its lease metadata, and *)
(* what the store's operations make of it.  Every operation runs under the    *)
(* store's lock, so each is a function of the card.                           *)
(*                                                                            *)
(* Times are kept relative to the present: `left' is lease_expires_at - now   *)
(* (0 once the lease has expired), `age' is now - lease_start.  `early' says  *)
(* that the last renewal came at or before the hedge deadline; the deadline   *)
(* moves only with a renewal, so nothing else about it is ever read.          *)
(* `attempts' and `primary_claimant' are never read and are left out.         *)
EXTENDS Naturals

CONSTANTS Node, NoNode,
          MaxLease      \* longest lease_duration a node asks for

ASSUME CardAssumption ==
  /\ NoNode \notin Node
  /\ MaxLease \in Nat \ {0}

LeaseDuration == 1..MaxLease

Card == [state     : {"OPEN", "CLAIMED", "DONE", "FAILED"},
         hedged    : BOOLEAN,
         holder    : Node \cup {NoNode},
         left      : 0..MaxLease,
         result    : Node \cup {NoNode},
         age       : 0..MaxLease,
         duration  : 0..MaxLease,
         early     : BOOLEAN,
         claimants : SUBSET Node,
         winner    : Node \cup {NoNode}]

\* A card as it is added, with hedged_execution or without.
NewCard(h) ==
  [state |-> "OPEN", hedged |-> h, holder |-> NoNode, left |-> 0,
   result |-> NoNode, age |-> 0, duration |-> 0, early |-> FALSE,
   claimants |-> {}, winner |-> NoNode]

Final(c) == c.state \in {"DONE", "FAILED"}

\* A mutation for the check of SoleHolder: the lease ends one unit early.
ExpiredEarly(c) == c.state = "CLAIMED" /\ c.left <= 1

Expired(c) == c.state = "CLAIMED" /\ c.left = 0

\* _reopen_if_expired, the first thing every operation does.
Reopened(c) ==
  IF Expired(c)
  THEN [c EXCEPT !.state = "OPEN", !.holder = NoNode, !.left = 0, !.age = 0,
                 !.duration = 0, !.early = FALSE, !.claimants = {}]
  ELSE c

\* A unit of time passes.
Older(c) == [c EXCEPT !.left = IF @ = 0 THEN 0 ELSE @ - 1,
                      !.age = IF @ = MaxLease THEN @ ELSE @ + 1]

-----------------------------------------------------------------------------
\* A hedging node may join once half of the lease has passed without a renewal
\* in that half; a claimant may claim again.
AllowHedgedClaim(c, n) ==
  /\ c.hedged
  /\ n \in c.claimants \/ (2 * c.age >= c.duration /\ ~c.early)

CanClaim(c, n) ==
  LET r == Reopened(c)
  IN  r.state = "OPEN" \/ (r.state = "CLAIMED" /\ AllowHedgedClaim(r, n))

Claimed(c, n, d) ==
  LET r == Reopened(c)
  IN  IF r.state = "OPEN"
      THEN [r EXCEPT !.state = "CLAIMED", !.holder = n, !.left = d, !.age = 0,
                     !.duration = d, !.early = FALSE, !.claimants = {n}]
      ELSE [r EXCEPT !.claimants = @ \cup {n}, !.left = d]

\* Only a claimant may renew, complete or fail.
IsClaimant(c, n) == IF c.hedged THEN n \in c.claimants ELSE c.holder = n

CanRenew(c, n) == LET r == Reopened(c) IN r.state = "CLAIMED" /\ IsClaimant(r, n)

\* A mutation for the check of TypeOK: a renewal adds to what is left.
RenewedExtending(c, d) ==
  LET r == Reopened(c)
  IN  [r EXCEPT !.left = @ + d, !.early = (2 * r.age <= d), !.duration = d]

Renewed(c, d) ==
  LET r == Reopened(c)
  IN  [r EXCEPT !.left = d, !.early = (2 * r.age <= d), !.duration = d]

\* complete answers a card that is already done as if it had just completed it;
\* fail does the same with a final card of either kind.
AlreadyCompleted(c) == c.state = "DONE"
AlreadyFailed(c)    == Final(c)

\* A mutation for the check of ImplementsJobLease: expiry is not looked at.
CanFinishLate(c, n) == c.state = "CLAIMED" /\ IsClaimant(c, n)

CanFinish(c, n) == LET r == Reopened(c) IN r.state = "CLAIMED" /\ IsClaimant(r, n)

\* The result is identified with the node that produced it.
Finished(c, n, state) ==
  [Reopened(c) EXCEPT !.state = state, !.result = n, !.holder = NoNode,
                      !.left = 0, !.claimants = {},
                      !.winner = IF c.hedged /\ state = "DONE" THEN n ELSE @]
=============================================================================
