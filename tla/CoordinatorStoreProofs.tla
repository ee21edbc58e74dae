------------------------ MODULE CoordinatorStoreProofs ------------------------
(* Theorems about the coordinator store, for every set of nodes, every longest *)
(* lease and every number of crashes.                                          *)
EXTENDS CoordinatorStore, TLAPS

-----------------------------------------------------------------------------
(* What the operations of InMemoryCoordinatorStore make of a card, for every    *)
(* card, node and lease duration.                                              *)

\* _reopen_if_expired turns a card into a card, and keeps hedged_execution, the
\* result and the recorded winner.
LEMMA ReopenedFacts ==
  ASSUME NEW c \in Card
  PROVE  /\ Reopened(c) \in Card
         /\ Reopened(c).hedged = c.hedged
         /\ Reopened(c).result = c.result
         /\ c.state = "CLAIMED" /\ c.left = 0 => /\ Reopened(c).state = "OPEN"
                                                 /\ Reopened(c).left = 0
                                                 /\ Reopened(c).claimants = {}
         /\ ~(c.state = "CLAIMED" /\ c.left = 0) => Reopened(c) = c
BY CardAssumption DEF Reopened, Expired, Card

\* The passing of time touches only the two relative times.
LEMMA OlderFacts ==
  ASSUME NEW c \in Card
  PROVE  /\ Older(c) \in Card
         /\ Older(c).left = IF c.left = 0 THEN 0 ELSE c.left - 1
         /\ Older(c).state = c.state /\ Older(c).holder = c.holder
         /\ Older(c).hedged = c.hedged /\ Older(c).result = c.result
         /\ Older(c).claimants = c.claimants
<1> DEFINE l == IF c.left = 0 THEN 0 ELSE c.left - 1
           a == IF c.age = MaxLease THEN c.age ELSE c.age + 1
<1>1. l \in 0..MaxLease /\ a \in 0..MaxLease
  BY CardAssumption DEF Card
<1>2. Older(c) = [c EXCEPT !.left = l, !.age = a]
  BY DEF Older
<1> HIDE DEF l, a
<1>3. Older(c) \in Card
  BY <1>1, <1>2 DEF Card
<1>4. Older(c).left = l
  BY <1>2 DEF Card
<1>5. /\ Older(c).state = c.state /\ Older(c).holder = c.holder
      /\ Older(c).hedged = c.hedged /\ Older(c).result = c.result
      /\ Older(c).claimants = c.claimants
  BY <1>2 DEF Card
<1> QED
  BY <1>3, <1>4, <1>5 DEF l

\* claim: a card that is open after the reopening goes to the claimant alone;
\* one that is still claimed gains a hedging claimant.
LEMMA ClaimedFacts ==
  ASSUME NEW c \in Card, NEW n \in Node, NEW d \in LeaseDuration,
         CanClaim(c, n)
  PROVE  /\ Claimed(c, n, d) \in Card
         /\ Claimed(c, n, d).state = "CLAIMED"
         /\ Claimed(c, n, d).left = d
         /\ Claimed(c, n, d).hedged = c.hedged
         /\ Claimed(c, n, d).result = c.result
         /\ Reopened(c).state = "OPEN"
              => Claimed(c, n, d).holder = n /\ Claimed(c, n, d).claimants = {n}
         /\ Reopened(c).state # "OPEN"
              => /\ c.state = "CLAIMED" /\ c.left > 0 /\ c.hedged
                 /\ Claimed(c, n, d).claimants = c.claimants \cup {n}
                 /\ Claimed(c, n, d).holder = c.holder
<1> DEFINE r == Reopened(c)
<1>1. r \in Card /\ r.hedged = c.hedged /\ r.result = c.result
  BY ReopenedFacts
<1>2. d \in 0..MaxLease
  BY CardAssumption DEF LeaseDuration
<1>3. CASE r.state = "OPEN"
  <2>1. Claimed(c, n, d) =
          [r EXCEPT !.state = "CLAIMED", !.holder = n, !.left = d, !.age = 0,
                    !.duration = d, !.early = FALSE, !.claimants = {n}]
    BY <1>3 DEF Claimed
  <2> HIDE DEF r
  <2>2. Claimed(c, n, d) \in Card
    <3>1. 0 \in 0..MaxLease /\ {n} \in SUBSET Node /\ n \in Node \cup {NoNode}
      BY CardAssumption
    <3> QED
      BY <1>1, <1>2, <2>1, <3>1 DEF Card
  <2>3. /\ Claimed(c, n, d).state = "CLAIMED" /\ Claimed(c, n, d).left = d
        /\ Claimed(c, n, d).hedged = r.hedged /\ Claimed(c, n, d).result = r.result
        /\ Claimed(c, n, d).holder = n /\ Claimed(c, n, d).claimants = {n}
    BY <1>1, <2>1 DEF Card
  <2>4. Claimed(c, n, d).hedged = c.hedged /\ Claimed(c, n, d).result = c.result
    BY <1>1, <2>3
  <2>5. Reopened(c).state = "OPEN"
    BY <1>3 DEF r
  <2> QED
    BY <2>2, <2>3, <2>4, <2>5, Zenon
<1>4. CASE r.state # "OPEN"
  <2>1. r.state = "CLAIMED" /\ r.hedged
    BY <1>4 DEF CanClaim, AllowHedgedClaim
  <2>2. r = c /\ c.left > 0
    BY <1>4, <2>1, ReopenedFacts DEF Card
  <2>3. Claimed(c, n, d) = [c EXCEPT !.claimants = c.claimants \cup {n}, !.left = d]
    BY <1>4, <2>2 DEF Claimed
  <2>4. c.claimants \cup {n} \in SUBSET Node
    BY DEF Card
  <2>5. Claimed(c, n, d) \in Card
    BY <1>2, <2>3, <2>4 DEF Card
  <2> QED
    BY <1>4, <2>1, <2>2, <2>3, <2>5 DEF Card
<1> QED
  BY <1>3, <1>4

\* renew: an unexpired lease of a claimant gets a new end.
LEMMA RenewedFacts ==
  ASSUME NEW c \in Card, NEW n \in Node, NEW d \in LeaseDuration,
         CanRenew(c, n)
  PROVE  /\ Renewed(c, d) \in Card
         /\ c.state = "CLAIMED" /\ c.left > 0 /\ IsClaimant(c, n)
         /\ Renewed(c, d).left = d
         /\ Renewed(c, d).state = c.state /\ Renewed(c, d).holder = c.holder
         /\ Renewed(c, d).hedged = c.hedged /\ Renewed(c, d).result = c.result
         /\ Renewed(c, d).claimants = c.claimants
<1>1. Reopened(c).state = "CLAIMED" /\ IsClaimant(Reopened(c), n)
  BY DEF CanRenew
<1>2. Reopened(c) = c /\ c.left > 0
  BY <1>1, ReopenedFacts DEF Card
<1>3. d \in 0..MaxLease
  BY CardAssumption DEF LeaseDuration
<1> DEFINE e == 2 * c.age <= d
<1>4. e \in BOOLEAN
  OBVIOUS
<1>5. Renewed(c, d) = [c EXCEPT !.left = d, !.early = e, !.duration = d]
  BY <1>2 DEF Renewed
<1> HIDE DEF e
<1>6. Renewed(c, d) \in Card
  BY <1>3, <1>4, <1>5 DEF Card
<1> QED
  BY <1>1, <1>2, <1>5, <1>6 DEF Card

\* complete and fail: an unexpired claimant's result ends the card.
LEMMA FinishedFacts ==
  ASSUME NEW c \in Card, NEW n \in Node, NEW s \in {"DONE", "FAILED"},
         CanFinish(c, n)
  PROVE  /\ Finished(c, n, s) \in Card
         /\ c.state = "CLAIMED" /\ c.left > 0 /\ IsClaimant(c, n)
         /\ Finished(c, n, s).state = s
         /\ Finished(c, n, s).left = 0
         /\ Finished(c, n, s).result = n
         /\ Finished(c, n, s).hedged = c.hedged
<1>1. Reopened(c).state = "CLAIMED" /\ IsClaimant(Reopened(c), n)
  BY DEF CanFinish
<1>2. Reopened(c) = c /\ c.left > 0
  BY <1>1, ReopenedFacts DEF Card
<1> DEFINE w == IF c.hedged /\ s = "DONE" THEN n ELSE c.winner
<1>3. w \in Node \cup {NoNode}
  BY DEF Card
<1>4. Finished(c, n, s) =
        [c EXCEPT !.state = s, !.result = n, !.holder = NoNode, !.left = 0,
                  !.claimants = {}, !.winner = w]
  BY <1>2 DEF Finished
<1> HIDE DEF w
<1>5. Finished(c, n, s) \in Card
  <2>1. /\ {} \in SUBSET Node /\ 0 \in 0..MaxLease
        /\ NoNode \in Node \cup {NoNode} /\ n \in Node \cup {NoNode}
    BY CardAssumption
  <2> QED
    BY <1>3, <1>4, <2>1 DEF Card
<1> QED
  BY <1>1, <1>2, <1>4, <1>5 DEF Card

-----------------------------------------------------------------------------
(* Type correctness.                                                          *)

\* Every card the store keeps and everything a worker remembers is well typed,
\* whatever the nodes ask for and whenever they die.
THEOREM TypeCorrect == Spec => []TypeOK
<1>1. Init => TypeOK
  <2> SUFFICES ASSUME Init
               PROVE  TypeOK
    OBVIOUS
  <2>1. PICK h \in BOOLEAN : card = NewCard(h)
    BY DEF Init
  <2>2. card \in Card
    BY <2>1, CardAssumption DEF NewCard, Card
  <2> QED
    BY <2>2, CardAssumption DEF Init, TypeOK
<1>2. TypeOK /\ [Next]_vars => TypeOK'
  <2> SUFFICES ASSUME TypeOK, [Next]_vars
               PROVE  TypeOK'
    OBVIOUS
  <2>0. card \in Card /\ Reopened(card) \in Card
    BY ReopenedFacts DEF TypeOK
  <2>1. ASSUME NEW n \in Node, Poll(n)
        PROVE  TypeOK'
    <3>1. (IF card'.state = "OPEN" THEN "claiming" ELSE "idle")
            \in {"idle", "claiming", "working", "dead"}
      OBVIOUS
    <3> QED
      BY <2>0, <2>1, <3>1 DEF Poll, TypeOK
  <2>2. ASSUME NEW n \in Node, ClaimKnown(n)
        PROVE  TypeOK'
    BY <2>2 DEF ClaimKnown, TypeOK
  <2>3. ASSUME NEW n \in Node, NEW d \in LeaseDuration, Claim(n, d)
        PROVE  TypeOK'
    <3>1. d \in 0..MaxLease
      BY CardAssumption DEF LeaseDuration
    <3>2. CASE CanClaim(card, n)
      <4>1. card' \in Card
        BY <2>0, <2>3, <3>2, ClaimedFacts DEF Claim
      <4> QED
        BY <2>3, <3>1, <3>2, <4>1 DEF Claim, TypeOK
    <3>3. CASE ~CanClaim(card, n)
      BY <2>0, <2>3, <3>3 DEF Claim, TypeOK
    <3> QED
      BY <3>2, <3>3
  <2>4. ASSUME NEW n \in Node, NEW d \in LeaseDuration, Renew(n, d)
        PROVE  TypeOK'
    <3>1. d \in 0..MaxLease
      BY CardAssumption DEF LeaseDuration
    <3>2. CASE CanRenew(card, n)
      <4>1. card' \in Card
        BY <2>0, <2>4, <3>2, RenewedFacts DEF Renew
      <4> QED
        BY <2>4, <3>1, <3>2, <4>1 DEF Renew, TypeOK
    <3>3. CASE ~CanRenew(card, n)
      BY <2>0, <2>4, <3>3 DEF Renew, TypeOK
    <3> QED
      BY <3>2, <3>3
  <2>5. ASSUME NEW n \in Node, Complete(n) \/ Fail(n)
        PROVE  TypeOK'
    <3>1. card' \in Card
      BY <2>0, <2>5, FinishedFacts DEF Complete, Fail
    <3> QED
      BY <2>5, <3>1 DEF Complete, Fail, StopWork, TypeOK
  <2>6. ASSUME NEW n \in Node, Die(n)
        PROVE  TypeOK'
    BY <2>6 DEF Die, TypeOK
  <2>7. CASE Tick
    <3>1. card' \in Card
      BY <2>0, <2>7, OlderFacts DEF Tick
    <3>2. \A n \in Node : held[n] \in 0..MaxLease
      BY DEF TypeOK
    <3>3. \A n \in Node :
            (IF held[n] = 0 THEN 0 ELSE held[n] - 1) \in 0..MaxLease
      BY <3>2, CardAssumption
    <3>4. held' \in [Node -> 0..MaxLease]
      BY <2>7, <3>3 DEF Tick
    <3> QED
      BY <2>7, <3>1, <3>4 DEF Tick, TypeOK
  <2>8. CASE UNCHANGED vars
    BY <2>8 DEF vars, TypeOK
  <2> QED
    BY <2>1, <2>2, <2>3, <2>4, <2>5, <2>6, <2>7, <2>8 DEF Next
<1> QED
  BY <1>1, <1>2, PTL DEF Spec

-----------------------------------------------------------------------------
(* Why a lease is exclusive: the store never believes in a shorter lease than *)
(* the worker it granted it to.                                               *)

\* A card has a result exactly when it is final, and a node holds every claimed
\* card.
CardConsistent ==
  /\ Final(card) \/ card.result = NoNode
  /\ card.state = "CLAIMED" => card.holder \in Node

\* On a card that is not hedged, what a worker counts on is covered by what the
\* store still grants: nothing while the card is open, no more than the holder's
\* own lease while it is claimed, and one leftover lease once it is final.
LeasesCovered ==
  ~card.hedged =>
    /\ card.state = "OPEN" => \A n \in Node : held[n] = 0
    /\ card.state = "CLAIMED" =>
         \A n \in Node : held[n] > 0 => n = card.holder /\ held[n] <= card.left
    /\ Final(card) => \A m, n \in Node : held[m] > 0 /\ held[n] > 0 => m = n

\* Reopening a card keeps both: a lease that is over covers nothing.
LEMMA ReopeningCovers ==
  ASSUME TypeOK, CardConsistent, LeasesCovered,
         card' = Reopened(card), held' = held
  PROVE  CardConsistent' /\ LeasesCovered'
<1>1. card \in Card /\ \A n \in Node : held[n] \in 0..MaxLease
  BY DEF TypeOK
<1>2. CASE card.state = "CLAIMED" /\ card.left = 0
  <2>1. card'.state = "OPEN" /\ card'.result = card.result
        /\ card'.hedged = card.hedged
    BY <1>1, <1>2, ReopenedFacts
  <2>2. ~card.hedged => \A n \in Node : held[n] = 0
    BY <1>1, <1>2, CardAssumption DEF LeasesCovered
  <2>3. CardConsistent'
    BY <1>2, <2>1 DEF CardConsistent, Final
  <2>4. LeasesCovered'
    BY <2>1, <2>2 DEF LeasesCovered, Final
  <2> QED
    BY <2>3, <2>4
<1>3. CASE ~(card.state = "CLAIMED" /\ card.left = 0)
  <2>1. card' = card
    BY <1>1, <1>3, ReopenedFacts
  <2> QED
    BY <2>1 DEF CardConsistent, LeasesCovered, Final
<1> QED
  BY <1>2, <1>3

\* A granted claim starts the only lease of a card that is not hedged.
LEMMA ClaimCovers ==
  ASSUME TypeOK, CardConsistent, LeasesCovered,
         NEW n \in Node, NEW d \in LeaseDuration, CanClaim(card, n),
         card' = Claimed(card, n, d), held' = [held EXCEPT ![n] = d]
  PROVE  CardConsistent' /\ LeasesCovered'
<1>1. /\ card \in Card
      /\ \A m \in Node : held[m] \in 0..MaxLease
      /\ held \in [Node -> 0..MaxLease]
  BY DEF TypeOK
<1>2. /\ card'.state = "CLAIMED" /\ card'.left = d
      /\ card'.hedged = card.hedged /\ card'.result = card.result
  BY <1>1, ClaimedFacts
<1>3. CASE Reopened(card).state = "OPEN"
  <2>1. card'.holder = n
    BY <1>1, <1>3, ClaimedFacts
  <2>2. card.state = "OPEN" \/ (card.state = "CLAIMED" /\ card.left = 0)
    BY <1>1, <1>3, ReopenedFacts
  <2>3. ~card.hedged => \A m \in Node : held[m] = 0
    BY <1>1, <2>2, CardAssumption DEF LeasesCovered
  <2>4. CardConsistent'
    BY <1>2, <2>1, <2>2 DEF CardConsistent, Final
  <2>5. d \in Nat
    BY CardAssumption DEF LeaseDuration
  <2>6. LeasesCovered'
    BY <1>1, <1>2, <2>1, <2>3, <2>5 DEF LeasesCovered, Final
  <2> QED
    BY <2>4, <2>6
<1>4. CASE Reopened(card).state # "OPEN"
  <2>1. card.state = "CLAIMED" /\ card.hedged /\ card'.holder = card.holder
    BY <1>1, <1>4, ClaimedFacts
  <2>2. CardConsistent'
    BY <1>2, <2>1 DEF CardConsistent, Final
  <2>3. LeasesCovered'
    BY <1>2, <2>1 DEF LeasesCovered
  <2> QED
    BY <2>2, <2>3
<1> QED
  BY <1>3, <1>4

\* A granted renewal gives the holder and the store the same new end.
LEMMA RenewCovers ==
  ASSUME TypeOK, CardConsistent, LeasesCovered,
         NEW n \in Node, NEW d \in LeaseDuration, CanRenew(card, n),
         card' = Renewed(card, d), held' = [held EXCEPT ![n] = d]
  PROVE  CardConsistent' /\ LeasesCovered'
<1>1. card \in Card /\ held \in [Node -> 0..MaxLease]
  BY DEF TypeOK
<1>2. /\ card.state = "CLAIMED" /\ IsClaimant(card, n)
      /\ card'.left = d /\ card'.state = card.state
      /\ card'.holder = card.holder /\ card'.hedged = card.hedged
      /\ card'.result = card.result
  BY <1>1, RenewedFacts
<1>3. CardConsistent'
  BY <1>2 DEF CardConsistent, Final
<1>4. d \in Nat
  BY CardAssumption DEF LeaseDuration
<1>5. ASSUME ~card.hedged
      PROVE  LeasesCovered'
  <2>1. card.holder = n
    BY <1>2, <1>5 DEF IsClaimant
  <2> QED
    BY <1>1, <1>2, <1>4, <1>5, <2>1 DEF LeasesCovered, Final
<1>6. ASSUME card.hedged
      PROVE  LeasesCovered'
  BY <1>2, <1>6 DEF LeasesCovered
<1> QED
  BY <1>3, <1>5, <1>6

\* An accepted result leaves the finishing node's lease, if any, as the only one.
LEMMA FinishCovers ==
  ASSUME TypeOK, CardConsistent, LeasesCovered,
         NEW n \in Node, NEW s \in {"DONE", "FAILED"}, CanFinish(card, n),
         card' = Finished(card, n, s), held' = held
  PROVE  CardConsistent' /\ LeasesCovered'
<1>1. card \in Card
  BY DEF TypeOK
<1>2. card.state = "CLAIMED" /\ card'.state = s /\ card'.hedged = card.hedged
  BY <1>1, FinishedFacts
<1>3. card'.state \in {"DONE", "FAILED"}
  BY <1>2
<1>4. CardConsistent'
  BY <1>3 DEF CardConsistent, Final
<1>5. LeasesCovered'
  BY <1>2, <1>3 DEF LeasesCovered, Final
<1> QED
  BY <1>4, <1>5

\* Time runs equally for the store and for the workers.
LEMMA TickCovers ==
  ASSUME TypeOK, CardConsistent, LeasesCovered, Tick
  PROVE  CardConsistent' /\ LeasesCovered'
<1>1. card \in Card /\ \A n \in Node : held[n] \in 0..MaxLease
  BY DEF TypeOK
<1>2. /\ card'.left = IF card.left = 0 THEN 0 ELSE card.left - 1
      /\ card'.state = card.state /\ card'.holder = card.holder
      /\ card'.hedged = card.hedged /\ card'.result = card.result
  BY <1>1, OlderFacts DEF Tick
<1>3. CardConsistent'
  BY <1>2 DEF CardConsistent, Final
<1>4. \A n \in Node : held'[n] = IF held[n] = 0 THEN 0 ELSE held[n] - 1
  BY DEF Tick
<1>5. \A n \in Node : held'[n] > 0 => held[n] > 0
  BY <1>1, <1>4, CardAssumption
<1>6. card.left \in 0..MaxLease
  BY <1>1 DEF Card
<1>7. \A n \in Node : held[n] <= card.left => held'[n] <= card'.left
  BY <1>1, <1>2, <1>4, <1>6, CardAssumption
<1>8. \A n \in Node : held[n] = 0 => held'[n] = 0
  BY <1>4
<1>9. LeasesCovered'
  BY <1>2, <1>5, <1>7, <1>8 DEF LeasesCovered, Final
<1> QED
  BY <1>3, <1>9

\* Every step keeps the card consistent and the leases covered.
LEMMA StepCovers ==
  ASSUME TypeOK, CardConsistent, LeasesCovered, [Next]_vars
  PROVE  CardConsistent' /\ LeasesCovered'
<1>1. ASSUME NEW n \in Node, Poll(n)
      PROVE  CardConsistent' /\ LeasesCovered'
  BY <1>1, ReopeningCovers DEF Poll
<1>2. ASSUME NEW n \in Node, ClaimKnown(n) \/ Die(n)
      PROVE  CardConsistent' /\ LeasesCovered'
  BY <1>2 DEF ClaimKnown, Die, CardConsistent, LeasesCovered, Final
<1>3. ASSUME NEW n \in Node, NEW d \in LeaseDuration, Claim(n, d)
      PROVE  CardConsistent' /\ LeasesCovered'
  BY <1>3, ClaimCovers, ReopeningCovers DEF Claim
<1>4. ASSUME NEW n \in Node, NEW d \in LeaseDuration, Renew(n, d)
      PROVE  CardConsistent' /\ LeasesCovered'
  BY <1>4, RenewCovers, ReopeningCovers DEF Renew
<1>5. ASSUME NEW n \in Node, Complete(n) \/ Fail(n)
      PROVE  CardConsistent' /\ LeasesCovered'
  <2>1. held' = held
    BY <1>5 DEF Complete, Fail, StopWork
  <2>2. CASE CanFinish(card, n)
    <3>1. \E s \in {"DONE", "FAILED"} : card' = Finished(card, n, s)
      BY <1>5, <2>2 DEF Complete, Fail
    <3> QED
      BY <2>1, <2>2, <3>1, FinishCovers
  <2>3. CASE ~CanFinish(card, n)
    BY <1>5, <2>1, <2>3, ReopeningCovers DEF Complete, Fail
  <2> QED
    BY <2>2, <2>3
<1>6. CASE Tick
  BY <1>6, TickCovers
<1>7. CASE UNCHANGED vars
  BY <1>7 DEF vars, CardConsistent, LeasesCovered, Final
<1> QED
  BY <1>1, <1>2, <1>3, <1>4, <1>5, <1>6, <1>7 DEF Next

\* The leases of every reachable card are covered.
LEMMA LeasesAlwaysCovered == Spec => [](CardConsistent /\ LeasesCovered)
<1>1. Init => CardConsistent /\ LeasesCovered
  BY DEF Init, NewCard, CardConsistent, LeasesCovered, Final
<1>2. /\ TypeOK /\ CardConsistent /\ LeasesCovered /\ [Next]_vars
      => CardConsistent' /\ LeasesCovered'
  BY StepCovers
<1> QED
  BY <1>1, <1>2, TypeCorrect, PTL DEF Spec

\* Two workers never both count on an unexpired lease of a card that is not
\* hedged: claim, renew, complete and fail of InMemoryCoordinatorStore answer
\* with the expiry that _is_expired will be evaluated against.
THEOREM LeasesAreExclusive == Spec => []SoleHolder
<1>1. TypeOK /\ LeasesCovered => SoleHolder
  <2> SUFFICES ASSUME TypeOK, LeasesCovered, ~card.hedged,
                      NEW m \in Node, NEW n \in Node,
                      held[m] > 0, held[n] > 0
               PROVE  m = n
    BY DEF SoleHolder
  <2>1. card.state = "OPEN" \/ card.state = "CLAIMED" \/ Final(card)
    BY DEF TypeOK, Card, Final
  <2> QED
    BY <2>1 DEF LeasesCovered
<1> QED
  BY <1>1, TypeCorrect, LeasesAlwaysCovered, PTL

-----------------------------------------------------------------------------
(* The store implements a job lease.                                          *)

\* Reopening is invisible: an expired lease is held by nobody already.
LEMMA ReopeningStutters ==
  ASSUME TypeOK, card' = Reopened(card)
  PROVE  UNCHANGED <<Holders, card.result, card.hedged>>
<1>1. card \in Card
  BY DEF TypeOK
<1>2. CASE card.state = "CLAIMED" /\ card.left = 0
  <2>1. card'.state = "OPEN" /\ card'.result = card.result
        /\ card'.hedged = card.hedged
    BY <1>1, <1>2, ReopenedFacts
  <2>2. Holders = {} /\ Holders' = {}
    BY <1>2, <2>1 DEF Holders
  <2> QED
    BY <2>1, <2>2
<1>3. CASE ~(card.state = "CLAIMED" /\ card.left = 0)
  <2>1. card' = card
    BY <1>1, <1>3, ReopenedFacts
  <2> QED
    BY <2>1 DEF Holders
<1> QED
  BY <1>2, <1>3

\* A granted claim is a grant of the abstract job.
LEMMA ClaimGrants ==
  ASSUME TypeOK, CardConsistent, NEW n \in Node, NEW d \in LeaseDuration,
         CanClaim(card, n), card' = Claimed(card, n, d)
  PROVE  Job!Grant(n)
<1>1. card \in Card
  BY DEF TypeOK
<1>2. d > 0
  BY CardAssumption DEF LeaseDuration
<1>3. /\ card'.state = "CLAIMED" /\ card'.left = d
      /\ card'.hedged = card.hedged /\ card'.result = card.result
  BY <1>1, ClaimedFacts
<1>4. CASE Reopened(card).state = "OPEN"
  <2>1. card.state = "OPEN" \/ (card.state = "CLAIMED" /\ card.left = 0)
    BY <1>1, <1>4, ReopenedFacts
  <2>2. card'.holder = n /\ card'.claimants = {n}
    BY <1>1, <1>4, ClaimedFacts
  <2>3. Holders = {}
    BY <2>1 DEF Holders
  <2>4. Holders' = {n}
    BY <1>2, <1>3, <2>2 DEF Holders
  <2>5. card.result = NoNode
    BY <2>1 DEF CardConsistent, Final
  <2> QED
    BY <1>3, <2>3, <2>4, <2>5 DEF Job!Grant
<1>5. CASE Reopened(card).state # "OPEN"
  <2>1. /\ card.state = "CLAIMED" /\ card.left > 0 /\ card.hedged
        /\ card'.claimants = card.claimants \cup {n}
    BY <1>1, <1>5, ClaimedFacts
  <2>2. Holders = card.claimants
    BY <2>1 DEF Holders
  <2>3. Holders' = card.claimants \cup {n}
    BY <1>2, <1>3, <2>1 DEF Holders
  <2>4. card.result = NoNode
    BY <2>1 DEF CardConsistent, Final
  <2> QED
    BY <1>3, <2>1, <2>2, <2>3, <2>4 DEF Job!Grant
<1> QED
  BY <1>4, <1>5

\* A granted renewal grants the job to a node that holds it already.
LEMMA RenewGrants ==
  ASSUME TypeOK, CardConsistent, NEW n \in Node, NEW d \in LeaseDuration,
         CanRenew(card, n), card' = Renewed(card, d)
  PROVE  Job!Grant(n)
<1>1. card \in Card
  BY DEF TypeOK
<1>2. d > 0
  BY CardAssumption DEF LeaseDuration
<1>3. /\ card.state = "CLAIMED" /\ card.left > 0 /\ IsClaimant(card, n)
      /\ card'.left = d /\ card'.state = card.state
      /\ card'.holder = card.holder /\ card'.hedged = card.hedged
      /\ card'.result = card.result /\ card'.claimants = card.claimants
  BY <1>1, RenewedFacts
<1>4. card.result = NoNode
  BY <1>3 DEF CardConsistent, Final
<1>5. CASE card.hedged
  <2>1. n \in card.claimants /\ Holders = card.claimants
    BY <1>3, <1>5 DEF IsClaimant, Holders
  <2>2. Holders' = card.claimants
    BY <1>2, <1>3, <1>5 DEF Holders
  <2> QED
    BY <1>3, <1>4, <1>5, <2>1, <2>2 DEF Job!Grant
<1>6. CASE ~card.hedged
  <2>1. Holders = {n}
    BY <1>3, <1>6 DEF IsClaimant, Holders
  <2>2. Holders' = {n}
    BY <1>2, <1>3, <1>6 DEF IsClaimant, Holders
  <2> QED
    BY <1>3, <1>4, <2>1, <2>2 DEF Job!Grant
<1> QED
  BY <1>5, <1>6

\* An accepted result finishes the abstract job, by a node that holds it.
LEMMA FinishFinishes ==
  ASSUME TypeOK, CardConsistent, NEW n \in Node, NEW s \in {"DONE", "FAILED"},
         CanFinish(card, n), card' = Finished(card, n, s)
  PROVE  Job!Finish(n)
<1>1. card \in Card
  BY DEF TypeOK
<1>2. /\ card.state = "CLAIMED" /\ card.left > 0 /\ IsClaimant(card, n)
      /\ card'.state = s /\ card'.result = n /\ card'.hedged = card.hedged
  BY <1>1, FinishedFacts
<1>3. n \in Holders
  BY <1>2 DEF IsClaimant, Holders
<1>4. Holders' = {}
  BY <1>2 DEF Holders
<1>5. card.result = NoNode
  BY <1>2 DEF CardConsistent, Final
<1> QED
  BY <1>2, <1>3, <1>4, <1>5 DEF Job!Finish

\* The passing of time ends leases and does nothing else to the abstract job.
LEMMA TickLapses ==
  ASSUME TypeOK, Tick
  PROVE  Job!Lapse
<1>1. card \in Card
  BY DEF TypeOK
<1>2. /\ card'.left = IF card.left = 0 THEN 0 ELSE card.left - 1
      /\ card'.state = card.state /\ card'.holder = card.holder
      /\ card'.hedged = card.hedged /\ card'.result = card.result
      /\ card'.claimants = card.claimants
  BY <1>1, OlderFacts DEF Tick
<1>3. card.left \in Nat
  BY <1>1, CardAssumption DEF Card
<1>4. card'.left > 0 => card.left > 0
  BY <1>2, <1>3
<1>5. Holders' \subseteq Holders
  BY <1>2, <1>4 DEF Holders
<1> QED
  BY <1>2, <1>5 DEF Job!Lapse

\* InMemoryCoordinatorStore is a job lease: exclusive unless the card is hedged,
\* its result accepted only from a node that holds it, and accepted once.
THEOREM StoreIsAJobLease == Spec => ImplementsJobLease
<1>1. Init => Job!Init
  BY DEF Init, NewCard, Holders, Job!Init
<1>2. TypeOK /\ CardConsistent /\ [Next]_vars => [Job!Next]_(Job!vars)
  <2> SUFFICES ASSUME TypeOK, CardConsistent, [Next]_vars
               PROVE  [Job!Next]_(Job!vars)
    OBVIOUS
  <2>1. ASSUME card' = Reopened(card)
        PROVE  UNCHANGED Job!vars
    BY <2>1, ReopeningStutters DEF Job!vars
  <2>2. ASSUME card' = card
        PROVE  UNCHANGED Job!vars
    BY <2>2 DEF Job!vars, Holders
  <2>3. ASSUME NEW n \in Node, Poll(n)
        PROVE  [Job!Next]_(Job!vars)
    BY <2>1, <2>3 DEF Poll
  <2>4. ASSUME NEW n \in Node, ClaimKnown(n) \/ Die(n)
        PROVE  [Job!Next]_(Job!vars)
    BY <2>2, <2>4 DEF ClaimKnown, Die
  <2>5. ASSUME NEW n \in Node, NEW d \in LeaseDuration, Claim(n, d)
        PROVE  [Job!Next]_(Job!vars)
    BY <2>1, <2>5, ClaimGrants DEF Claim, Job!Next
  <2>6. ASSUME NEW n \in Node, NEW d \in LeaseDuration, Renew(n, d)
        PROVE  [Job!Next]_(Job!vars)
    BY <2>1, <2>6, RenewGrants DEF Renew, Job!Next
  <2>7. ASSUME NEW n \in Node, Complete(n) \/ Fail(n)
        PROVE  [Job!Next]_(Job!vars)
    <3>1. CASE CanFinish(card, n)
      <4>1. \E s \in {"DONE", "FAILED"} : card' = Finished(card, n, s)
        BY <2>7, <3>1 DEF Complete, Fail
      <4> QED
        BY <3>1, <4>1, FinishFinishes DEF Job!Next
    <3>2. CASE ~CanFinish(card, n)
      BY <2>1, <2>7, <3>2 DEF Complete, Fail
    <3> QED
      BY <3>1, <3>2
  <2>8. CASE Tick
    BY <2>8, TickLapses DEF Job!Next
  <2>9. CASE UNCHANGED vars
    BY <2>2, <2>9 DEF vars
  <2> QED
    BY <2>3, <2>4, <2>5, <2>6, <2>7, <2>8, <2>9 DEF Next
<1> QED
  BY <1>1, <1>2, TypeCorrect, LeasesAlwaysCovered, PTL
  DEF Spec, ImplementsJobLease, Job!Spec
=============================================================================
