------------------------- MODULE CoordinatorApiProofs -------------------------
(* Theorems about the coordinator's HTTP handlers, for every set of nodes, any *)
(* number of requests in progress, every longest lease and every number of     *)
(* timestamps.                                                                 *)
EXTENDS CoordinatorApi, TLAPS, FiniteSetTheorems

-----------------------------------------------------------------------------
(* What the operations of InMemoryCoordinatorStore make of a card, for every    *)
(* card, node and lease duration.                                              *)

\* _reopen_if_expired turns a card into a card, and keeps hedged_execution, the
\* result and the recorded winner.
LEMMA ReopenedFacts ==
  ASSUME NEW c \in Card
  PROVE  /\ Reopened(c) \in Card
         /\ Reopened(c).hedged = c.hedged
         /\ Reopened(c).result = c.result
         /\ c.state = "CLAIMED" /\ c.left = 0 => /\ Reopened(c).state = "OPEN"
                                                 /\ Reopened(c).left = 0
                                                 /\ Reopened(c).claimants = {}
         /\ ~(c.state = "CLAIMED" /\ c.left = 0) => Reopened(c) = c
BY CardAssumption DEF Reopened, Expired, Card

\* The passing of time touches only the two relative times.
LEMMA OlderFacts ==
  ASSUME NEW c \in Card
  PROVE  /\ Older(c) \in Card
         /\ Older(c).left = IF c.left = 0 THEN 0 ELSE c.left - 1
         /\ Older(c).state = c.state /\ Older(c).holder = c.holder
         /\ Older(c).hedged = c.hedged /\ Older(c).result = c.result
         /\ Older(c).claimants = c.claimants
<1> DEFINE l == IF c.left = 0 THEN 0 ELSE c.left - 1
           a == IF c.age = MaxLease THEN c.age ELSE c.age + 1
<1>1. l \in 0..MaxLease /\ a \in 0..MaxLease
  BY CardAssumption DEF Card
<1>2. Older(c) = [c EXCEPT !.left = l, !.age = a]
  BY DEF Older
<1> HIDE DEF l, a
<1>3. Older(c) \in Card
  BY <1>1, <1>2 DEF Card
<1>4. Older(c).left = l
  BY <1>2 DEF Card
<1>5. /\ Older(c).state = c.state /\ Older(c).holder = c.holder
      /\ Older(c).hedged = c.hedged /\ Older(c).result = c.result
      /\ Older(c).claimants = c.claimants
  BY <1>2 DEF Card
<1> QED
  BY <1>3, <1>4, <1>5 DEF l

\* claim: a card that is open after the reopening goes to the claimant alone;
\* one that is still claimed gains a hedging claimant.
LEMMA ClaimedFacts ==
  ASSUME NEW c \in Card, NEW n \in Node, NEW d \in LeaseDuration,
         CanClaim(c, n)
  PROVE  /\ Claimed(c, n, d) \in Card
         /\ Claimed(c, n, d).state = "CLAIMED"
         /\ Claimed(c, n, d).left = d
         /\ Claimed(c, n, d).hedged = c.hedged
         /\ Claimed(c, n, d).result = c.result
         /\ Reopened(c).state = "OPEN"
              => Claimed(c, n, d).holder = n /\ Claimed(c, n, d).claimants = {n}
         /\ Reopened(c).state # "OPEN"
              => /\ c.state = "CLAIMED" /\ c.left > 0 /\ c.hedged
                 /\ Claimed(c, n, d).claimants = c.claimants \cup {n}
                 /\ Claimed(c, n, d).holder = c.holder
<1> DEFINE r == Reopened(c)
<1>1. r \in Card /\ r.hedged = c.hedged /\ r.result = c.result
  BY ReopenedFacts
<1>2. d \in 0..MaxLease
  BY CardAssumption DEF LeaseDuration
<1>3. CASE r.state = "OPEN"
  <2>1. Claimed(c, n, d) =
          [r EXCEPT !.state = "CLAIMED", !.holder = n, !.left = d, !.age = 0,
                    !.duration = d, !.early = FALSE, !.claimants = {n}]
    BY <1>3 DEF Claimed
  <2> HIDE DEF r
  <2>2. Claimed(c, n, d) \in Card
    <3>1. 0 \in 0..MaxLease /\ {n} \in SUBSET Node /\ n \in Node \cup {NoNode}
      BY CardAssumption
    <3> QED
      BY <1>1, <1>2, <2>1, <3>1 DEF Card
  <2>3. /\ Claimed(c, n, d).state = "CLAIMED" /\ Claimed(c, n, d).left = d
        /\ Claimed(c, n, d).hedged = r.hedged /\ Claimed(c, n, d).result = r.result
        /\ Claimed(c, n, d).holder = n /\ Claimed(c, n, d).claimants = {n}
    BY <1>1, <2>1 DEF Card
  <2>4. Claimed(c, n, d).hedged = c.hedged /\ Claimed(c, n, d).result = c.result
    BY <1>1, <2>3
  <2>5. Reopened(c).state = "OPEN"
    BY <1>3 DEF r
  <2> QED
    BY <2>2, <2>3, <2>4, <2>5, Zenon
<1>4. CASE r.state # "OPEN"
  <2>1. r.state = "CLAIMED" /\ r.hedged
    BY <1>4 DEF CanClaim, AllowHedgedClaim
  <2>2. r = c /\ c.left > 0
    BY <1>4, <2>1, ReopenedFacts DEF Card
  <2>3. Claimed(c, n, d) = [c EXCEPT !.claimants = c.claimants \cup {n}, !.left = d]
    BY <1>4, <2>2 DEF Claimed
  <2>4. c.claimants \cup {n} \in SUBSET Node
    BY DEF Card
  <2>5. Claimed(c, n, d) \in Card
    BY <1>2, <2>3, <2>4 DEF Card
  <2> QED
    BY <1>4, <2>1, <2>2, <2>3, <2>5 DEF Card
<1> QED
  BY <1>3, <1>4

\* renew: an unexpired lease of a claimant gets a new end.
LEMMA RenewedFacts ==
  ASSUME NEW c \in Card, NEW n \in Node, NEW d \in LeaseDuration,
         CanRenew(c, n)
  PROVE  /\ Renewed(c, d) \in Card
         /\ c.state = "CLAIMED" /\ c.left > 0 /\ IsClaimant(c, n)
         /\ Renewed(c, d).left = d
         /\ Renewed(c, d).state = c.state /\ Renewed(c, d).holder = c.holder
         /\ Renewed(c, d).hedged = c.hedged /\ Renewed(c, d).result = c.result
         /\ Renewed(c, d).claimants = c.claimants
<1>1. Reopened(c).state = "CLAIMED" /\ IsClaimant(Reopened(c), n)
  BY DEF CanRenew
<1>2. Reopened(c) = c /\ c.left > 0
  BY <1>1, ReopenedFacts DEF Card
<1>3. d \in 0..MaxLease
  BY CardAssumption DEF LeaseDuration
<1> DEFINE e == 2 * c.age <= d
<1>4. e \in BOOLEAN
  OBVIOUS
<1>5. Renewed(c, d) = [c EXCEPT !.left = d, !.early = e, !.duration = d]
  BY <1>2 DEF Renewed
<1> HIDE DEF e
<1>6. Renewed(c, d) \in Card
  BY <1>3, <1>4, <1>5 DEF Card
<1> QED
  BY <1>1, <1>2, <1>5, <1>6 DEF Card

\* complete and fail: an unexpired claimant's result ends the card.
LEMMA FinishedFacts ==
  ASSUME NEW c \in Card, NEW n \in Node, NEW s \in {"DONE", "FAILED"},
         CanFinish(c, n)
  PROVE  /\ Finished(c, n, s) \in Card
         /\ c.state = "CLAIMED" /\ c.left > 0 /\ IsClaimant(c, n)
         /\ Finished(c, n, s).state = s
         /\ Finished(c, n, s).left = 0
         /\ Finished(c, n, s).result = n
         /\ Finished(c, n, s).hedged = c.hedged
<1>1. Reopened(c).state = "CLAIMED" /\ IsClaimant(Reopened(c), n)
  BY DEF CanFinish
<1>2. Reopened(c) = c /\ c.left > 0
  BY <1>1, ReopenedFacts DEF Card
<1> DEFINE w == IF c.hedged /\ s = "DONE" THEN n ELSE c.winner
<1>3. w \in Node \cup {NoNode}
  BY DEF Card
<1>4. Finished(c, n, s) =
        [c EXCEPT !.state = s, !.result = n, !.holder = NoNode, !.left = 0,
                  !.claimants = {}, !.winner = w]
  BY <1>2 DEF Finished
<1> HIDE DEF w
<1>5. Finished(c, n, s) \in Card
  <2>1. /\ {} \in SUBSET Node /\ 0 \in 0..MaxLease
        /\ NoNode \in Node \cup {NoNode} /\ n \in Node \cup {NoNode}
    BY CardAssumption
  <2> QED
    BY <1>3, <1>4, <2>1 DEF Card
<1> QED
  BY <1>1, <1>2, <1>4, <1>5 DEF Card

-----------------------------------------------------------------------------
(* The inductive invariant.                                                    *)

\* The timestamps of the claims that were granted.
GrantStamps == {g[3] : g \in grants}

\* The claim in progress has appended its lease record.
HasGrant(t) ==
  \/ t.then = "invalidate"
  \/ t.then = "promote" /\ t.pc \in {"snapshot", "promote", "rollback", "invalidate"}

\* Where a request stands tells what it is and where it goes on.
FlowOK(t) ==
  /\ t.pc \in {"idle", "expire", "preflight", "store", "stamp", "renew", "release",
               "epoch", "reserve", "reserve_save"}
       => t.then \notin {"promote", "invalidate"}
  /\ t.pc = "resource" => t.then \in {"store", "preflighted", "respond"}
  /\ t.pc \in {"previous", "append", "snapshot"}
       => t.then \in {"store", "respond", "promote", "invalidate"}
  /\ t.pc \in {"promote", "rollback"} => t.then = "promote"
  /\ t.pc = "invalidate" => t.then \in {"promote", "invalidate"}
  /\ t.pc \in {"epoch", "reserve", "reserve_save"} \/ t.then \in {"promote", "invalidate"}
       => t.kind = "claim"
  /\ t.pc \in {"preflight", "stamp", "renew", "release"} => t.kind # "claim"
  /\ t.kind \notin {"none", "list"} => t.node \in Node

\* A claim has a timestamp of its own, which no grant carries before its own does.
StampOK(t) ==
  /\ t.at <= stamp
  /\ t.kind = "claim" => /\ t.at > 0
                         /\ ~HasGrant(t) => t.at \notin GrantStamps

\* The record a request is about to append is at most one epoch ahead, and only a
\* claim's own record is ahead at all.
EpochOK(t) ==
  /\ t.then # "promote" => t.new.epoch <= latest.epoch
  /\ t.then = "promote" => t.new.epoch = t.epoch
  /\ t.epoch <= latest.epoch + 1
  /\ t.pc \in {"reserve", "reserve_save"} \/ t.then \in {"promote", "invalidate"}
       => t.epoch \in Epoch
  /\ t.new.status # "none" => t.new.epoch > 0

\* A claim that got past the reservation owns the first row of its epoch.
ReservationOK(t) ==
  t.then \in {"promote", "invalidate"} =>
    /\ rows[t.epoch] # <<>>
    /\ t.then = "promote" => rows[t.epoch][1] = Reservation("active", t.node, t.at)
    /\ HasGrant(t) => <<t.epoch, t.node, t.at>> \in grants

RequestOK(t) == FlowOK(t) /\ StampOK(t) /\ EpochOK(t) /\ ReservationOK(t)

\* Two claims never share a timestamp.
StampsDiffer ==
  \A j, k \in Task : j # k /\ task[j].kind = "claim" /\ task[k].kind = "claim"
                       => task[j].at # task[k].at

\* The first row of a reservation is the active one, and every row is its holder's.
RowsOK ==
  \A e \in Epoch : rows[e] # <<>> =>
    /\ rows[e][1].status = "active"
    /\ \A i \in DOMAIN rows[e] : rows[e][i].holder = rows[e][1].holder

\* A granted claim owns the first row of its epoch.
GrantsReserved ==
  \A g \in grants : /\ rows[g[1]] # <<>>
                    /\ rows[g[1]][1] = Reservation("active", g[2], g[3])
                    /\ g[3] <= stamp

\* Epochs advance one granted claim at a time, so timestamps do not run out
\* before epochs do.
EpochsCounted ==
  /\ latest.epoch <= Cardinality(GrantStamps)
  /\ latest.status # "none" => latest.epoch > 0

Inv ==
  /\ TypeOK
  /\ \A k \in Task : RequestOK(task[k])
  /\ StampsDiffer
  /\ RowsOK
  /\ GrantsReserved
  /\ PromotedIsGranted
  /\ EpochsCounted

-----------------------------------------------------------------------------
(* Facts about requests and grants.                                            *)

\* The types of the parts of a request.
LEMMA RequestParts ==
  ASSUME NEW t \in Request
  PROVE  /\ t.at \in Nat /\ t.epoch \in Nat
         /\ t.new \in Records /\ t.new.epoch \in Nat
BY ApiAssumption DEF Request, Records

\* A request that is over is well typed and promises nothing.
LEMMA IdleOK ==
  ASSUME TypeOK
  PROVE  Idle \in Request /\ RequestOK(Idle)
<1>1. 0 \in 0..MaxStamp /\ 0 \in 0..MaxLease
  BY ApiAssumption, CardAssumption
<1>2. NoLease \in Records /\ NoClaim \in [holder : Node \cup {NoNode}, left : 0..MaxLease]
  BY <1>1 DEF NoLease, Lease, Records, NoClaim
<1>3. Idle \in Request
  BY <1>1, <1>2 DEF Idle, Request
<1>4. latest.epoch \in Nat /\ stamp \in Nat
  BY ApiAssumption DEF TypeOK, Records
<1>5. FlowOK(Idle)
  BY DEF FlowOK, Idle
<1>6. StampOK(Idle) /\ EpochOK(Idle) /\ ReservationOK(Idle)
  BY <1>4 DEF StampOK, EpochOK, ReservationOK, Idle, NoLease, Lease
<1> QED
  BY <1>3, <1>5, <1>6 DEF RequestOK

\* There are no more granted claims than timestamps.
LEMMA GrantStampsBound ==
  ASSUME TypeOK
  PROVE  /\ GrantStamps \subseteq 1..MaxStamp
         /\ IsFiniteSet(GrantStamps)
         /\ Cardinality(GrantStamps) \in Nat
<1>1. GrantStamps \subseteq 1..MaxStamp
  BY DEF TypeOK, GrantStamps
<1>2. IsFiniteSet(1..MaxStamp)
  BY FS_Interval, ApiAssumption
<1>3. IsFiniteSet(GrantStamps)
  BY <1>1, <1>2, FS_Subset
<1> QED
  BY <1>1, <1>3, FS_CardinalityType

\* While a claim has not been granted, a timestamp is left for it, and so is an
\* epoch: next_claim_epoch never runs past the last one.
LEMMA NextEpochExists ==
  ASSUME TypeOK, EpochsCounted, NEW t \in Request, StampOK(t),
         t.kind = "claim", ~HasGrant(t)
  PROVE  latest.epoch + 1 \in Epoch
<1> DEFINE A == 1..MaxStamp
<1>1. t.at \in A /\ t.at \notin GrantStamps
  BY ApiAssumption DEF StampOK, Request
<1>2. IsFiniteSet(A) /\ Cardinality(A) = MaxStamp
  BY FS_Interval, ApiAssumption
<1>3. /\ IsFiniteSet(A \ {t.at})
      /\ Cardinality(A \ {t.at}) = MaxStamp - 1
  <2> HIDE DEF A
  <2> QED
    BY <1>1, <1>2, FS_RemoveElement
<1>4. GrantStamps \subseteq A \ {t.at}
  BY <1>1, GrantStampsBound
<1>5. Cardinality(GrantStamps) <= MaxStamp - 1
  <2>1. Cardinality(GrantStamps) <= Cardinality(A \ {t.at})
    <3> HIDE DEF A
    <3> QED
      BY <1>3, <1>4, FS_Subset
  <2> QED
    BY <1>3, <2>1
<1>6. latest.epoch \in Nat /\ Cardinality(GrantStamps) \in Nat
  BY GrantStampsBound, ApiAssumption DEF TypeOK, Records
<1> QED
  BY <1>5, <1>6, ApiAssumption DEF EpochsCounted, Epoch

-----------------------------------------------------------------------------
(* Steps that move one request and leave the control plane alone.              *)

\* Nothing is appended to the histories; the resource record may be replaced.
RecordsKept == UNCHANGED <<latest, rows, grants>> /\ resource' \in LeaseStatus \cup {"none"}

\* A step that leaves the control plane alone appends nothing.
LEMMA ControlKept ==
  ASSUME Inv, UNCHANGED control
  PROVE  RecordsKept
BY DEF Inv, TypeOK, control, RecordsKept

\* What was promised of a request still holds when only timestamps were drawn.
LEMMA PromiseKept ==
  ASSUME TypeOK, NEW t \in Request, RequestOK(t), UNCHANGED <<latest, rows, grants>>,
         stamp' \in Nat, stamp' >= stamp
  PROVE  RequestOK(t)'
<1>1. t.at \in Nat /\ stamp \in Nat
  BY RequestParts, ApiAssumption DEF TypeOK
<1>2. FlowOK(t)'
  BY DEF RequestOK, FlowOK
<1>3. StampOK(t)'
  BY <1>1 DEF RequestOK, StampOK, HasGrant, GrantStamps
<1>4. EpochOK(t)' /\ ReservationOK(t)'
  BY DEF RequestOK, EpochOK, ReservationOK, HasGrant
<1> QED
  BY <1>2, <1>3, <1>4 DEF RequestOK

\* What is promised of a state holds of the request that enters it.
LEMMA NewPromise ==
  ASSUME NEW k \in Task, NEW x \in Request, task'[k] = x, RequestOK(x)'
  PROVE  RequestOK(task[k])'
BY DEF RequestOK, FlowOK, StampOK, EpochOK, ReservationOK, HasGrant

\* A request may move to any state that keeps its promises, as long as a claim's
\* timestamp is its own.
LEMMA MoveKeeps ==
  ASSUME Inv, NEW k \in Task, NEW x \in Request, task' = [task EXCEPT ![k] = x],
         card' \in Card, RecordsKept, stamp' \in 0..MaxStamp, stamp' >= stamp,
         RequestOK(x)',
         x.kind = "claim" =>
           \A j \in Task \ {k} : task[j].kind = "claim" => task[j].at # x.at
  PROVE  Inv'
<1>1. task \in [Task -> Request] /\ TypeOK
  BY DEF Inv, TypeOK
<1>2. TypeOK'
  BY <1>1 DEF TypeOK, RecordsKept
<1>3. \A j \in Task : task'[j] = IF j = k THEN x ELSE task[j]
  BY <1>1
<1>4. ASSUME NEW j \in Task
      PROVE  RequestOK(task[j])'
  <2>1. CASE j = k
    BY <1>3, <2>1, NewPromise
  <2>2. CASE j # k
    <3>1. task[j] \in Request /\ RequestOK(task[j]) /\ stamp' \in Nat
      BY <1>1, <1>4, ApiAssumption DEF Inv
    <3>2. UNCHANGED <<latest, rows, grants>>
      BY DEF RecordsKept
    <3>3. PICK t \in Request : t = task[j]
      BY <3>1
    <3>4. RequestOK(t)'
      BY <1>1, <3>1, <3>2, <3>3, PromiseKept
    <3> QED
      BY <1>3, <2>2, <3>3, <3>4, NewPromise
  <2> QED
    BY <2>1, <2>2
<1>5. StampsDiffer'
  <2>1. StampsDiffer
    BY DEF Inv
  <2> QED
    BY <1>3, <2>1 DEF StampsDiffer
<1>6. RowsOK' /\ PromotedIsGranted' /\ EpochsCounted'
  BY DEF Inv, RowsOK, PromotedIsGranted, EpochsCounted, GrantStamps, RecordsKept
<1>7. GrantsReserved'
  <2>1. stamp \in Nat /\ stamp' \in Nat /\ \A g \in grants : g[3] \in Nat
    BY <1>1, ApiAssumption DEF TypeOK
  <2> QED
    BY <2>1 DEF Inv, GrantsReserved, RecordsKept
<1> QED
  BY <1>2, <1>4, <1>5, <1>6, <1>7 DEF Inv

\* The same when no timestamp is drawn.
LEMMA StepKeeps ==
  ASSUME Inv, NEW k \in Task, NEW x \in Request, task' = [task EXCEPT ![k] = x],
         card' \in Card, UNCHANGED stamp, RecordsKept, RequestOK(x),
         (x.kind = task[k].kind /\ x.at = task[k].at) \/ x.kind # "claim"
  PROVE  Inv'
<1>1. TypeOK /\ stamp \in 0..MaxStamp
  BY DEF Inv, TypeOK
<1>2. stamp' \in 0..MaxStamp /\ stamp' \in Nat /\ stamp' >= stamp
  BY <1>1, ApiAssumption
<1>3. UNCHANGED <<latest, rows, grants>>
  BY DEF RecordsKept
<1>4. RequestOK(x)'
  BY <1>1, <1>2, <1>3, PromiseKept
<1>5. x.kind = "claim" =>
        \A j \in Task \ {k} : task[j].kind = "claim" => task[j].at # x.at
  BY DEF Inv, StampsDiffer
<1> QED
  BY <1>2, <1>3, <1>4, <1>5, MoveKeeps

\* A request that ends keeps the invariant, whatever the store did.
LEMMA ReturnKeeps ==
  ASSUME Inv, NEW k \in Task, Return(k), card' \in Card, UNCHANGED stamp, RecordsKept
  PROVE  Inv'
<1>1. Idle \in Request /\ RequestOK(Idle)
  BY IdleOK DEF Inv
<1>2. Idle.kind # "claim"
  BY DEF Idle
<1> QED
  BY <1>1, <1>2, StepKeeps DEF Return, Update

\* Moving a request on is a state of its own.
LEMMA GotoKeeps ==
  ASSUME Inv, NEW k \in Task, NEW p, Goto(k, p), card' \in Card,
         UNCHANGED stamp, RecordsKept,
         [task[k] EXCEPT !.pc = p] \in Request,
         RequestOK([task[k] EXCEPT !.pc = p])
  PROVE  Inv'
<1> DEFINE x == [task[k] EXCEPT !.pc = p]
<1>1. task \in [Task -> Request] /\ task[k] \in Request
  BY DEF Inv, TypeOK
<1>2. task' = [task EXCEPT ![k] = x]
  BY <1>1 DEF Goto
<1>3. x.kind = task[k].kind /\ x.at = task[k].at
  BY <1>1 DEF Request
<1> HIDE DEF x
<1>4. x \in Request /\ RequestOK(x)
  BY DEF x
<1> QED
  BY <1>2, <1>3, <1>4, StepKeeps

\* The steps of a request before it publishes anything of its own move it on
\* without a promise to keep.
LEMMA PlainGoto ==
  ASSUME NEW t \in Request, RequestOK(t),
         NEW p \in {"store", "previous", "append", "stamp", "epoch",
                     "reserve_save"},
         p \in {"epoch", "reserve_save"} => t.kind = "claim",
         p = "reserve_save" => t.pc = "reserve",
         p = "stamp" => t.kind # "claim",
         p \in {"previous", "append"} =>
           /\ t.then \in {"store", "respond", "promote", "invalidate"}
           /\ t.pc \in {"resource", "previous"},
         p \notin {"previous", "append"} =>
           t.then \notin {"promote", "invalidate"}
  PROVE  /\ [t EXCEPT !.pc = p] \in Request
         /\ RequestOK([t EXCEPT !.pc = p])
<1> DEFINE x == [t EXCEPT !.pc = p]
<1>1. x \in Request
  BY DEF Request
<1>2. /\ x.pc = p /\ x.kind = t.kind /\ x.node = t.node /\ x.at = t.at
      /\ x.new = t.new /\ x.epoch = t.epoch /\ x.then = t.then
  BY DEF Request
<1> HIDE DEF x
<1>3. FlowOK(x)
  BY <1>2 DEF RequestOK, FlowOK
<1>4. HasGrant(t) <=> HasGrant(x)
  BY <1>2 DEF HasGrant
<1>5. StampOK(x)
  BY <1>2, <1>4 DEF RequestOK, StampOK
<1>6. EpochOK(x)
  BY <1>2 DEF RequestOK, EpochOK
<1>7. ReservationOK(x)
  BY <1>2, <1>4 DEF RequestOK, ReservationOK
<1> QED
  BY <1>1, <1>3, <1>5, <1>6, <1>7 DEF RequestOK, x

-----------------------------------------------------------------------------
(* Requests begin, read the records and use the store.                         *)

\* The card stays a card, whatever the store operation answers.
LEMMA CardKept ==
  ASSUME Inv, NEW k \in Task,
         \/ UNCHANGED card \/ card' = Reopened(card)
         \/ StoreFinish(k) \/ \E d \in LeaseDuration : StoreClaim(k, d) \/ StoreRenew(k, d)
  PROVE  card' \in Card
<1>1. card \in Card /\ Reopened(card) \in Card
  BY ReopenedFacts DEF Inv, TypeOK
<1>2. task[k] \in Request /\ FlowOK(task[k])
  BY DEF Inv, TypeOK, RequestOK
<1>3. ASSUME StoreFinish(k)
      PROVE  card' \in Card
  <2>1. task[k].node \in Node
    BY <1>2, <1>3 DEF StoreFinish, FlowOK
  <2> QED
    BY <1>1, <1>3, <2>1, FinishedFacts DEF StoreFinish
<1>4. ASSUME NEW d \in LeaseDuration, StoreClaim(k, d) \/ StoreRenew(k, d)
      PROVE  card' \in Card
  <2>1. task[k].node \in Node
    BY <1>2, <1>4 DEF StoreClaim, StoreRenew, FlowOK
  <2> QED
    BY <1>1, <1>4, <2>1, ClaimedFacts, RenewedFacts DEF StoreClaim, StoreRenew
<1> QED
  BY <1>1, <1>3, <1>4

\* get_cards and claim_card begin with a timestamp nobody else has.
LEMMA BeginObserveKeeps ==
  ASSUME Inv, NEW k \in Task, NEW kind \in {"list", "claim"},
         NEW n \in Node \cup {NoNode}, kind = "claim" => n \in Node,
         BeginObserve(k, kind, n)
  PROVE  Inv'
<1> DEFINE y == [Idle EXCEPT !.pc = "expire", !.kind = kind, !.node = n,
                   !.snap = [holder |-> card.holder, left |-> card.left],
                   !.at = stamp']
<1>1. TypeOK /\ stamp \in 0..MaxStamp /\ stamp < MaxStamp /\ stamp' = stamp + 1
  BY DEF Inv, TypeOK, BeginObserve, Stamp
<1>2. stamp' \in 0..MaxStamp /\ stamp' >= stamp /\ stamp' > 0 /\ stamp' \in Nat /\ stamp \in Nat
  BY <1>1, ApiAssumption
<1>3. [holder |-> card.holder, left |-> card.left]
        \in [holder : Node \cup {NoNode}, left : 0..MaxLease]
  BY <1>1 DEF TypeOK, Card
<1>4. Idle \in Request /\ RequestOK(Idle)
  BY <1>1, IdleOK
<1>5. y \in Request
  BY <1>2, <1>3, <1>4 DEF Request
<1>6. PICK x \in Request : x = y
  BY <1>5
<1>7. /\ x.pc = "expire" /\ x.kind = kind /\ x.node = n /\ x.at = stamp'
      /\ x.new = Idle.new /\ x.epoch = Idle.epoch /\ x.then = "none"
  BY <1>6 DEF Idle
<1>8. task' = [task EXCEPT ![k] = x] /\ UNCHANGED card /\ RecordsKept
  BY <1>6, ControlKept DEF BeginObserve, Update
<1> HIDE DEF y
<1>9. \A s \in GrantStamps : s <= stamp
  BY DEF Inv, GrantsReserved, GrantStamps
<1>10. GrantStamps' = GrantStamps /\ latest' = latest
  BY <1>8 DEF RecordsKept, GrantStamps
<1>11. RequestOK(x)'
  <2>1. FlowOK(x)'
    BY <1>7 DEF FlowOK
  <2>2. GrantStamps \subseteq Nat
    BY <1>1, GrantStampsBound
  <2>3. StampOK(x)'
    BY <1>1, <1>2, <1>7, <1>9, <1>10, <2>2 DEF StampOK
  <2>4. EpochOK(x)'
    BY <1>4, <1>7, <1>10 DEF RequestOK, EpochOK, Idle
  <2>5. ReservationOK(x)'
    BY <1>7 DEF ReservationOK
  <2> QED
    BY <2>1, <2>3, <2>4, <2>5 DEF RequestOK
<1>12. \A j \in Task : task[j].at <= stamp /\ task[j].at \in Nat
  BY RequestParts DEF Inv, TypeOK, RequestOK, StampOK
<1>13. \A j \in Task \ {k} : task[j].at # x.at
  BY <1>1, <1>2, <1>7, <1>12
<1> QED
  BY <1>2, <1>5, <1>8, <1>11, <1>13, CardKept, MoveKeeps

\* renew_card, complete_card and fail_card begin without a timestamp.
LEMMA BeginHeldKeeps ==
  ASSUME Inv, NEW k \in Task, NEW kind \in {"renew", "complete", "fail"},
         NEW n \in Node, BeginHeld(k, kind, n)
  PROVE  Inv'
<1> DEFINE p == IF RequiresAuthority(card, n) THEN "preflight" ELSE "store"
           x == [Idle EXCEPT !.pc = p, !.kind = kind, !.node = n]
<1>1. Idle \in Request /\ RequestOK(Idle)
  BY IdleOK DEF Inv
<1>2. task' = [task EXCEPT ![k] = x] /\ UNCHANGED <<card, stamp>> /\ RecordsKept
  BY ControlKept DEF BeginHeld, Update
<1>3. p \in {"preflight", "store"}
  OBVIOUS
<1> HIDE DEF p
<1>4. x \in Request
  BY <1>1, <1>3 DEF Request
<1>5. /\ x.pc = p /\ x.kind = kind /\ x.node = n /\ x.at = Idle.at
      /\ x.new = Idle.new /\ x.epoch = Idle.epoch /\ x.then = "none"
  BY DEF Idle
<1> HIDE DEF x
<1>6. FlowOK(x)
  BY <1>3, <1>5 DEF FlowOK
<1>7. StampOK(x) /\ EpochOK(x) /\ ReservationOK(x)
  BY <1>1, <1>3, <1>5 DEF RequestOK, StampOK, EpochOK, ReservationOK, Idle
<1> QED
  BY <1>2, <1>4, <1>5, <1>6, <1>7, CardKept, StepKeeps DEF RequestOK

\* A request that read the latest lease, about to append a record of that epoch.
Publishing(t, s, h, a, th) ==
  [t EXCEPT !.pc = "resource", !.lease = latest,
            !.new = Lease(latest.epoch, s, h, a, latest.granted), !.then = th]

\* Such a record is not ahead of the history.
LEMMA ReadLease ==
  ASSUME Inv, NEW t \in Request, RequestOK(t), latest.status = "active",
         NEW s \in LeaseStatus, NEW h \in Node \cup {NoNode}, NEW a \in 0..MaxStamp,
         NEW th \in {"store", "respond"}, t.then \notin {"promote", "invalidate"}
  PROVE  /\ Publishing(t, s, h, a, th) \in Request
         /\ RequestOK(Publishing(t, s, h, a, th))
         /\ Publishing(t, s, h, a, th).kind = t.kind
         /\ Publishing(t, s, h, a, th).at = t.at
<1> DEFINE l == Lease(latest.epoch, s, h, a, latest.granted)
           x == Publishing(t, s, h, a, th)
<1>1. latest \in Records /\ latest.epoch > 0 /\ latest.epoch \in Nat
  BY ApiAssumption DEF Inv, TypeOK, EpochsCounted, Records
<1>2. l \in Records /\ l.epoch = latest.epoch
  BY <1>1 DEF Lease, Records
<1> HIDE DEF l
<1>3. x = [t EXCEPT !.pc = "resource", !.lease = latest, !.new = l, !.then = th]
  BY DEF l, Publishing
<1> HIDE DEF x
<1>4. x \in Request
  BY <1>1, <1>2, <1>3 DEF Request
<1>5. /\ x.pc = "resource" /\ x.kind = t.kind /\ x.node = t.node /\ x.at = t.at
      /\ x.new = l /\ x.epoch = t.epoch /\ x.then = th
  BY <1>3 DEF Request
<1>6. FlowOK(x)
  BY <1>5 DEF RequestOK, FlowOK
<1>7. ~HasGrant(t)
  BY DEF HasGrant
<1>8. StampOK(x)
  BY <1>5, <1>7 DEF RequestOK, StampOK
<1>9. EpochOK(x) /\ ReservationOK(x)
  BY <1>1, <1>2, <1>5 DEF RequestOK, EpochOK, ReservationOK
<1> QED
  BY <1>4, <1>5, <1>6, <1>8, <1>9 DEF RequestOK, x

\* What is known of a request in progress.
LEMMA InProgress ==
  ASSUME Inv, NEW k \in Task
  PROVE  /\ TypeOK
         /\ task \in [Task -> Request]
         /\ task[k] \in Request
         /\ RequestOK(task[k])
BY DEF Inv, TypeOK

\* publish_expired_from_snapshot reads a lease and nothing else.
LEMMA ExpireReadKeeps ==
  ASSUME Inv, NEW k \in Task, ExpireRead(k)
  PROVE  Inv'
<1> DEFINE t == task[k]
<1>1. t \in Request /\ RequestOK(t) /\ t.pc = "expire"
      /\ t.then \notin {"promote", "invalidate"} /\ RecordsKept
      /\ UNCHANGED <<card, stamp>> /\ card' \in Card
  BY InProgress, ControlKept, CardKept DEF ExpireRead, At, RequestOK, FlowOK
<1>2. CASE Goto(k, "store")
  BY <1>1, <1>2, PlainGoto, GotoKeeps
<1>3. CASE Return(k)
  BY <1>1, <1>3, ReturnKeeps
<1>4. ASSUME latest.status = "active",
             Update(k, [t EXCEPT !.pc = "resource", !.lease = latest,
                          !.new = Lease(latest.epoch, "expired", t.snap.holder, t.at,
                                        latest.granted),
                          !.then = "store"])
      PROVE  Inv'
  <2> DEFINE x == Publishing(t, "expired", t.snap.holder, t.at, "store")
  <2>1. t.snap.holder \in Node \cup {NoNode} /\ t.at \in 0..MaxStamp
    BY <1>1 DEF Request
  <2>2. "expired" \in LeaseStatus
    BY DEF LeaseStatus
  <2>3. x \in Request /\ RequestOK(x) /\ x.kind = t.kind /\ x.at = t.at
    BY <1>1, <1>4, <2>1, <2>2, ReadLease
  <2>4. task' = [task EXCEPT ![k] = x]
    BY <1>4 DEF Update, Publishing
  <2>5. UNCHANGED stamp
    BY <1>1
  <2> HIDE DEF x
  <2> QED
    BY <1>1, <2>3, <2>4, <2>5, StepKeeps
<1> QED
  BY <1>2, <1>3, <1>4 DEF ExpireRead

\* publish_renew and publish_release read a lease and nothing else.
LEMMA PublishReadKeeps ==
  ASSUME Inv, NEW k \in Task, RenewRead(k) \/ ReleaseRead(k)
  PROVE  Inv'
<1> DEFINE t == task[k]
           s == IF t.pc = "renew" THEN "active" ELSE "released"
           x == Publishing(t, s, t.node, t.at, "respond")
<1>1. /\ t \in Request /\ RequestOK(t) /\ t.then \notin {"promote", "invalidate"}
      /\ RecordsKept /\ UNCHANGED <<card, stamp>> /\ card' \in Card
  BY InProgress, ControlKept, CardKept DEF RenewRead, ReleaseRead, At, RequestOK, FlowOK
<1>2. CASE latest.status = "active"
  <2>1. t.node \in Node \cup {NoNode} /\ t.at \in 0..MaxStamp
    BY <1>1 DEF Request
  <2>2. s \in LeaseStatus
    BY DEF LeaseStatus
  <2>3. x \in Request /\ RequestOK(x) /\ x.kind = t.kind /\ x.at = t.at
    BY <1>1, <1>2, <2>1, <2>2, ReadLease
  <2>4. task' = [task EXCEPT ![k] = x]
    BY <1>2 DEF RenewRead, ReleaseRead, At, Update, Publishing
  <2>5. UNCHANGED stamp
    BY <1>1
  <2> HIDE DEF x
  <2> QED
    BY <1>1, <2>3, <2>4, <2>5, StepKeeps
<1>3. CASE latest.status # "active"
  BY <1>1, <1>3, ReturnKeeps DEF RenewRead, ReleaseRead
<1> QED
  BY <1>2, <1>3

\* require_active_authority reads the lease it compares the resource with.
LEMMA PreflightReadKeeps ==
  ASSUME Inv, NEW k \in Task, PreflightRead(k)
  PROVE  Inv'
<1> DEFINE t == task[k]
           x == [t EXCEPT !.pc = "resource", !.lease = latest, !.then = "preflighted"]
<1>1. /\ t \in Request /\ RequestOK(t) /\ t.then \notin {"promote", "invalidate"}
      /\ t.pc = "preflight"
      /\ RecordsKept /\ UNCHANGED <<card, stamp>> /\ card' \in Card
  BY InProgress, ControlKept, CardKept DEF PreflightRead, At, RequestOK, FlowOK
<1>2. CASE latest.status = "active"
  <2>1. latest \in Records
    BY DEF Inv, TypeOK
  <2>2. x \in Request
    BY <1>1, <2>1 DEF Request
  <2>3. /\ x.pc = "resource" /\ x.kind = t.kind /\ x.node = t.node /\ x.at = t.at
        /\ x.new = t.new /\ x.epoch = t.epoch /\ x.then = "preflighted"
    BY <1>1 DEF Request
  <2>4. task' = [task EXCEPT ![k] = x]
    BY <1>2 DEF PreflightRead, Update
  <2> HIDE DEF x
  <2>5. FlowOK(x)
    BY <1>1, <2>3 DEF RequestOK, FlowOK
  <2>6. StampOK(x)
    BY <1>1, <2>3 DEF RequestOK, StampOK, FlowOK
  <2>7. EpochOK(x) /\ ReservationOK(x)
    BY <1>1, <2>3 DEF RequestOK, EpochOK, ReservationOK
  <2> QED
    BY <1>1, <2>2, <2>3, <2>4, <2>5, <2>6, <2>7, StepKeeps DEF RequestOK
<1>3. CASE latest.status # "active"
  BY <1>1, <1>3, ReturnKeeps DEF PreflightRead
<1> QED
  BY <1>2, <1>3

\* Comparing the records, reading the previous one and reading the reservation
\* only move a request on.
LEMMA CompareKeeps ==
  ASSUME Inv, NEW k \in Task, CheckResource(k) \/ ReadPrevious(k) \/ ReserveRead(k)
  PROVE  Inv'
<1> DEFINE t == task[k]
<1>1. /\ t \in Request /\ RequestOK(t) /\ FlowOK(t)
      /\ RecordsKept /\ UNCHANGED <<card, stamp>> /\ card' \in Card
  BY InProgress, ControlKept, CardKept
  DEF CheckResource, ReadPrevious, ReserveRead, RequestOK
<1>2. CASE Return(k)
  BY <1>1, <1>2, ReturnKeeps
<1>3. ASSUME NEW p \in {"store", "previous", "append", "reserve_save"}, Goto(k, p),
             p = "store" => t.then = "preflighted",
             p = "previous" => t.pc = "resource" /\ t.then # "preflighted",
             p = "append" => t.pc = "previous",
             p = "reserve_save" => t.pc = "reserve"
      PROVE  Inv'
  <2>1. /\ p = "reserve_save" => t.kind = "claim"
        /\ p \in {"previous", "append"} =>
             t.then \in {"store", "respond", "promote", "invalidate"}
        /\ p \notin {"previous", "append"} => t.then \notin {"promote", "invalidate"}
    BY <1>1, <1>3 DEF FlowOK
  <2>2. [t EXCEPT !.pc = p] \in Request /\ RequestOK([t EXCEPT !.pc = p])
    BY <1>1, <1>3, <2>1, PlainGoto
  <2> QED
    BY <1>1, <1>3, <2>2, GotoKeeps
<1> QED
  BY <1>2, <1>3 DEF CheckResource, ReadPrevious, ReserveRead, At

\* The store operation changes the card and moves the request on, or ends it.
LEMMA StoreKeeps ==
  ASSUME Inv, NEW k \in Task,
         \/ StoreList(k) \/ StoreFinish(k)
         \/ \E d \in LeaseDuration : StoreClaim(k, d) \/ StoreRenew(k, d)
  PROVE  Inv'
<1> DEFINE t == task[k]
<1>1. /\ t \in Request /\ RequestOK(t) /\ t.then \notin {"promote", "invalidate"}
      /\ RecordsKept /\ UNCHANGED stamp
  BY InProgress, ControlKept
  DEF StoreList, StoreFinish, StoreClaim, StoreRenew, At, RequestOK, FlowOK
<1>2. card' \in Card
  BY CardKept DEF StoreList
<1>3. CASE Return(k)
  BY <1>1, <1>2, <1>3, ReturnKeeps
<1>4. ASSUME NEW p \in {"epoch", "stamp"}, Goto(k, p),
             p = "epoch" => t.kind = "claim", p = "stamp" => t.kind # "claim"
      PROVE  Inv'
  <2>1. [t EXCEPT !.pc = p] \in Request /\ RequestOK([t EXCEPT !.pc = p])
    BY <1>1, <1>4, PlainGoto
  <2> QED
    BY <1>1, <1>2, <1>4, <2>1, GotoKeeps
<1> QED
  BY <1>3, <1>4 DEF StoreList, StoreFinish, StoreClaim, StoreRenew

\* renew, complete and fail draw a timestamp after the store operation.
LEMMA DrawStampKeeps ==
  ASSUME Inv, NEW k \in Task, DrawStamp(k)
  PROVE  Inv'
<1> DEFINE t == task[k]
           p == IF t.kind = "renew" THEN "renew" ELSE "release"
           y == [t EXCEPT !.at = stamp', !.pc = p]
<1>1. /\ t \in Request /\ RequestOK(t) /\ t.then \notin {"promote", "invalidate"}
      /\ t.kind # "claim" /\ RecordsKept /\ UNCHANGED card /\ card' \in Card
  BY InProgress, ControlKept, CardKept DEF DrawStamp, At, RequestOK, FlowOK
<1>2. TypeOK /\ stamp \in 0..MaxStamp /\ stamp < MaxStamp /\ stamp' = stamp + 1
  BY DEF Inv, TypeOK, DrawStamp, Stamp
<1>3. stamp' \in 0..MaxStamp /\ stamp' >= stamp /\ stamp' \in Nat
  BY <1>2, ApiAssumption
<1>4. p \in {"renew", "release"}
  OBVIOUS
<1>5. y \in Request
  BY <1>1, <1>3, <1>4 DEF Request
<1>6. PICK x \in Request : x = y
  BY <1>5
<1>7. /\ x.pc = p /\ x.kind = t.kind /\ x.node = t.node /\ x.at = stamp'
      /\ x.new = t.new /\ x.epoch = t.epoch /\ x.then = t.then
  BY <1>1, <1>6 DEF Request
<1>8. task' = [task EXCEPT ![k] = x]
  BY <1>6 DEF DrawStamp, Update
<1>9. latest' = latest
  BY <1>1 DEF RecordsKept
<1>10. FlowOK(x)'
  BY <1>1, <1>4, <1>7 DEF RequestOK, FlowOK
<1>11. StampOK(x)'
  BY <1>1, <1>3, <1>7 DEF StampOK
<1>12. EpochOK(x)' /\ ReservationOK(x)'
  BY <1>1, <1>4, <1>7, <1>9 DEF RequestOK, EpochOK, ReservationOK
<1> HIDE DEF y, p, t
<1> QED
  BY <1>1, <1>3, <1>7, <1>8, <1>10, <1>11, <1>12, MoveKeeps DEF RequestOK, t

\* next_claim_epoch yields an epoch, at most one ahead of the history.
LEMMA ClaimEpochKeeps ==
  ASSUME Inv, NEW k \in Task, ClaimEpoch(k)
  PROVE  Inv'
<1> DEFINE t == task[k]
           same == latest.status = "active" /\ latest.holder = t.node
           e == IF same THEN latest.epoch ELSE latest.epoch + 1
           x == [t EXCEPT !.pc = "reserve", !.epoch = e]
<1>1. /\ t \in Request /\ RequestOK(t) /\ t.then \notin {"promote", "invalidate"}
      /\ t.kind = "claim" /\ RecordsKept /\ UNCHANGED <<card, stamp>> /\ card' \in Card
  BY InProgress, ControlKept, CardKept DEF ClaimEpoch, At, RequestOK, FlowOK
<1>2. ~HasGrant(t)
  BY <1>1 DEF HasGrant
<1>3. latest.epoch + 1 \in Epoch /\ latest.epoch \in Nat
  BY <1>1, <1>2, NextEpochExists, ApiAssumption
  DEF Inv, RequestOK, TypeOK, Records
<1>4. latest.status = "active" => latest.epoch > 0
  BY DEF Inv, EpochsCounted
<1>5. e \in Epoch /\ e <= latest.epoch + 1 /\ e \in 0..MaxStamp
  BY <1>3, <1>4, ApiAssumption DEF Epoch
<1>6. task' = [task EXCEPT ![k] = x]
  BY DEF ClaimEpoch, Update
<1> HIDE DEF e
<1>7. x \in Request
  BY <1>1, <1>5 DEF Request
<1>8. /\ x.pc = "reserve" /\ x.kind = t.kind /\ x.node = t.node /\ x.at = t.at
      /\ x.new = t.new /\ x.epoch = e /\ x.then = t.then
  BY <1>1 DEF Request
<1> HIDE DEF x
<1>9. FlowOK(x)
  BY <1>1, <1>8 DEF RequestOK, FlowOK
<1>10. StampOK(x)
  BY <1>1, <1>2, <1>8 DEF RequestOK, StampOK
<1>11. EpochOK(x) /\ ReservationOK(x)
  BY <1>1, <1>5, <1>8 DEF RequestOK, EpochOK, ReservationOK
<1> QED
  BY <1>1, <1>6, <1>7, <1>8, <1>9, <1>10, <1>11, StepKeeps DEF RequestOK

\* _rollback_failed_promotion releases whatever lease is the latest; the claim's
\* reservation and grant stay where they are.
LEMMA RollbackReadKeeps ==
  ASSUME Inv, NEW k \in Task, RollbackRead(k)
  PROVE  Inv'
<1> DEFINE t == task[k]
           a == IF t.at >= latest.at THEN t.at ELSE latest.at
           l == Lease(latest.epoch, "released", latest.holder, a, latest.granted)
<1>1. /\ t \in Request /\ RequestOK(t) /\ t.then = "promote" /\ t.pc = "rollback"
      /\ RecordsKept /\ UNCHANGED <<card, stamp>> /\ card' \in Card /\ HasGrant(t)
  BY InProgress, ControlKept, CardKept DEF RollbackRead, At, RequestOK, FlowOK, HasGrant
<1>2. CASE latest.status = "active"
  <2> DEFINE x == [t EXCEPT !.pc = "previous", !.then = "invalidate", !.new = l]
  <2>1. latest \in Records /\ latest.epoch > 0 /\ latest.epoch \in Nat
    BY <1>2, ApiAssumption DEF Inv, TypeOK, EpochsCounted, Records
  <2>2. a \in 0..MaxStamp
    BY <1>1, <2>1 DEF Request, Records
  <2>3. l \in Records /\ l.epoch = latest.epoch
    <3> HIDE DEF a
    <3> QED
      BY <2>1, <2>2 DEF Lease, Records, LeaseStatus
  <2>4. task' = [task EXCEPT ![k] = x]
    BY <1>2 DEF RollbackRead, Update
  <2> HIDE DEF l
  <2>5. x \in Request
    BY <1>1, <2>3 DEF Request
  <2>6. /\ x.pc = "previous" /\ x.kind = t.kind /\ x.node = t.node /\ x.at = t.at
        /\ x.new = l /\ x.epoch = t.epoch /\ x.then = "invalidate"
    BY <1>1 DEF Request
  <2> HIDE DEF x
  <2>7. FlowOK(x)
    BY <1>1, <2>6 DEF RequestOK, FlowOK
  <2>8. StampOK(x)
    BY <1>1, <2>6 DEF RequestOK, StampOK, HasGrant
  <2>9. EpochOK(x)
    BY <1>1, <2>1, <2>3, <2>6 DEF RequestOK, EpochOK
  <2>10. ReservationOK(x)
    BY <1>1, <2>6 DEF RequestOK, ReservationOK
  <2> QED
    BY <1>1, <2>4, <2>5, <2>6, <2>7, <2>8, <2>9, <2>10, StepKeeps DEF RequestOK
<1>3. CASE latest.status # "active"
  <2> DEFINE x == [t EXCEPT !.pc = "invalidate"]
  <2>1. x \in Request
    BY <1>1 DEF Request
  <2>2. /\ x.pc = "invalidate" /\ x.kind = t.kind /\ x.node = t.node /\ x.at = t.at
        /\ x.new = t.new /\ x.epoch = t.epoch /\ x.then = t.then
    BY <1>1 DEF Request
  <2> HIDE DEF x
  <2>3. FlowOK(x)
    BY <1>1, <2>2 DEF RequestOK, FlowOK
  <2>4. StampOK(x) /\ EpochOK(x) /\ ReservationOK(x)
    BY <1>1, <2>2 DEF RequestOK, StampOK, EpochOK, ReservationOK, HasGrant
  <2>5. Goto(k, "invalidate")
    BY <1>3 DEF RollbackRead
  <2> QED
    BY <1>1, <2>1, <2>3, <2>4, <2>5, GotoKeeps DEF RequestOK, x
<1> QED
  BY <1>2, <1>3

\* publish_resource_snapshot mirrors the record and the request goes on.
LEMMA SaveResourceKeeps ==
  ASSUME Inv, NEW k \in Task, SaveResource(k)
  PROVE  Inv'
<1> DEFINE t == task[k]
<1>1. /\ t \in Request /\ RequestOK(t) /\ FlowOK(t) /\ t.pc = "snapshot"
      /\ UNCHANGED <<card, stamp>> /\ card' \in Card
      /\ t.then \in {"store", "respond", "promote", "invalidate"}
  BY InProgress, CardKept DEF SaveResource, At, RequestOK, FlowOK
<1>2. RecordsKept
  BY <1>1 DEF SaveResource, RecordsKept, Request, Records
<1>3. CASE t.then = "respond"
  BY <1>1, <1>2, <1>3, ReturnKeeps DEF SaveResource
<1>4. CASE t.then # "respond"
  <2> DEFINE x == [t EXCEPT !.pc = t.then]
  <2>1. x \in Request
    BY <1>1, <1>4 DEF Request
  <2>2. /\ x.pc = t.then /\ x.kind = t.kind /\ x.node = t.node /\ x.at = t.at
        /\ x.new = t.new /\ x.epoch = t.epoch /\ x.then = t.then
    BY <1>1 DEF Request
  <2>3. Goto(k, t.then)
    BY <1>4 DEF SaveResource
  <2> HIDE DEF x
  <2>4. FlowOK(x)
    BY <1>1, <1>4, <2>2 DEF FlowOK
  <2>5. HasGrant(x) <=> HasGrant(t)
    BY <1>1, <1>4, <2>2 DEF HasGrant
  <2>6. StampOK(x)
    BY <1>1, <2>2, <2>5 DEF RequestOK, StampOK
  <2>7. EpochOK(x)
    BY <1>1, <1>4, <2>2 DEF RequestOK, EpochOK
  <2>8. ReservationOK(x)
    BY <1>1, <2>2, <2>5 DEF RequestOK, ReservationOK
  <2> QED
    BY <1>1, <1>2, <2>1, <2>3, <2>4, <2>6, <2>7, <2>8, GotoKeeps DEF RequestOK, x
<1> QED
  BY <1>3, <1>4

-----------------------------------------------------------------------------
(* Steps that append to the histories.                                         *)

\* A row is appended at the end.
LEMMA AppendFacts ==
  ASSUME NEW S, NEW q \in Seq(S), NEW r \in S
  PROVE  /\ Append(q, r) \in Seq(S)
         /\ Append(q, r) # <<>>
         /\ Append(q, r)[Len(Append(q, r))] = r
         /\ q # <<>> => Append(q, r)[1] = q[1]
         /\ q = <<>> => Append(q, r)[1] = r
         /\ \A i \in DOMAIN Append(q, r) :
              Append(q, r)[i] = r \/ \E j \in DOMAIN q : Append(q, r)[i] = q[j]
OBVIOUS

\* The histories have only grown.
HistoriesGrow ==
  /\ \A e \in Epoch : rows[e] # <<>> => rows'[e] # <<>> /\ rows'[e][1] = rows[e][1]
  /\ grants \subseteq grants'
  /\ latest' \in Records /\ latest'.epoch >= latest.epoch

\* Requests that do not append keep their promises when the histories grow.
LEMMA PromiseSurvives ==
  ASSUME TypeOK, NEW t \in Request, RequestOK(t), HistoriesGrow, UNCHANGED stamp,
         t.kind = "claim" /\ ~HasGrant(t) => t.at \notin GrantStamps'
  PROVE  RequestOK(t)'
<1>1. /\ t.new.epoch \in Nat /\ t.epoch \in Nat
      /\ latest.epoch \in Nat /\ latest'.epoch \in Nat
  BY RequestParts, ApiAssumption DEF TypeOK, Records, HistoriesGrow
<1>2. FlowOK(t)'
  BY DEF RequestOK, FlowOK
<1>3. StampOK(t)'
  BY DEF RequestOK, StampOK, HasGrant
<1>4. EpochOK(t)'
  BY <1>1 DEF RequestOK, EpochOK, HistoriesGrow
<1>5. ReservationOK(t)'
  BY DEF RequestOK, ReservationOK, EpochOK, HistoriesGrow, HasGrant
<1> QED
  BY <1>2, <1>3, <1>4, <1>5 DEF RequestOK

\* One request appends, the others keep their promises.
LEMMA AppendKeeps ==
  ASSUME Inv, NEW k \in Task, NEW x \in Request, task' = [task EXCEPT ![k] = x],
         UNCHANGED <<card, stamp, resource>>, HistoriesGrow, RequestOK(x)',
         (x.kind = task[k].kind /\ x.at = task[k].at) \/ x.kind # "claim",
         \A j \in Task \ {k} : task[j].kind = "claim" /\ ~HasGrant(task[j])
                                 => task[j].at \notin GrantStamps',
         rows' \in [Epoch -> Seq(Row)],
         grants' \subseteq Epoch \X Node \X (1..MaxStamp)
  PROVE  TypeOK' /\ (\A j \in Task : RequestOK(task[j]))' /\ StampsDiffer'
<1>1. TypeOK /\ task \in [Task -> Request]
  BY DEF Inv, TypeOK
<1>2. TypeOK'
  BY <1>1 DEF TypeOK, HistoriesGrow
<1>3. \A j \in Task : task'[j] = IF j = k THEN x ELSE task[j]
  BY <1>1
<1>4. ASSUME NEW j \in Task
      PROVE  RequestOK(task[j])'
  <2>1. CASE j = k
    BY <1>3, <2>1, NewPromise
  <2>2. CASE j # k
    <3>1. PICK t \in Request : t = task[j]
      BY <1>1
    <3>2. RequestOK(t) /\ (t.kind = "claim" /\ ~HasGrant(t) => t.at \notin GrantStamps')
      BY <1>4, <2>2, <3>1 DEF Inv
    <3>3. RequestOK(t)'
      BY <1>1, <3>2, PromiseSurvives
    <3> QED
      BY <1>3, <2>2, <3>1, <3>3, NewPromise
  <2> QED
    BY <2>1, <2>2
<1>5. StampsDiffer'
  BY <1>3 DEF Inv, StampsDiffer
<1> QED
  BY <1>2, <1>4, <1>5

\* append_lease_record: the latest record never goes back an epoch, and a claim's
\* record advances it by at most one, for a timestamp that no grant had.
LEMMA AppendLeaseKeeps ==
  ASSUME Inv, NEW k \in Task, AppendLease(k)
  PROVE  Inv'
<1> DEFINE t == task[k]
           x == [t EXCEPT !.pc = "snapshot"]
           g == <<t.epoch, t.node, t.at>>
<1>1. /\ t \in Request /\ RequestOK(t) /\ FlowOK(t) /\ t.pc = "append"
      /\ UNCHANGED <<card, stamp, resource, rows>> /\ TypeOK
      /\ task \in [Task -> Request]
  BY InProgress DEF AppendLease, At, RequestOK
<1>2. /\ t.new \in Records /\ t.new.epoch \in Nat /\ t.epoch \in Nat /\ t.at \in Nat
      /\ latest \in Records /\ latest.epoch \in Nat
  BY <1>1, RequestParts, ApiAssumption DEF TypeOK, Records
<1>3. latest' \in Records /\ latest'.epoch >= latest.epoch /\ latest'.epoch \in Nat
      /\ (latest' = latest \/ latest' = t.new)
  BY <1>2 DEF AppendLease, LatestOf
<1>4. x \in Request
  BY <1>1 DEF Request
<1>5. /\ x.pc = "snapshot" /\ x.kind = t.kind /\ x.node = t.node /\ x.at = t.at
      /\ x.new = t.new /\ x.epoch = t.epoch /\ x.then = t.then
  BY <1>1 DEF Request
<1>6. task' = [task EXCEPT ![k] = x]
  BY <1>1 DEF AppendLease, Goto
<1>7. PICK y \in Request : y = x
  BY <1>4
<1>8. HistoriesGrow
  BY <1>1, <1>3 DEF HistoriesGrow, AppendLease
<1> HIDE DEF x
<1>9. FlowOK(y)'
  BY <1>1, <1>5, <1>7 DEF FlowOK
<1>10. latest'.status # "none" => latest'.epoch > 0
  BY <1>1, <1>3 DEF Inv, EpochsCounted, RequestOK, EpochOK
<1>11. RowsOK'
  BY <1>1 DEF Inv, RowsOK
<1>12. PromotedIsGranted'
  BY <1>1, <1>8 DEF Inv, PromotedIsGranted, HistoriesGrow
<1>13. EpochOK(y)'
  BY <1>1, <1>2, <1>3, <1>5, <1>7 DEF RequestOK, EpochOK
<1>14. CASE t.then = "promote"
  <2>1. grants' = grants \cup {g}
    BY <1>14 DEF AppendLease
  <2>2. GrantStamps' = GrantStamps \cup {t.at}
    <3>1. g[3] = t.at
      OBVIOUS
    <3> HIDE DEF g
    <3>2. \A s : s \in GrantStamps' <=> \E h \in grants \cup {g} : s = h[3]
      BY <2>1 DEF GrantStamps
    <3>3. \A s : s \in GrantStamps <=> \E h \in grants : s = h[3]
      BY DEF GrantStamps
    <3> QED
      BY <3>1, <3>2, <3>3
  <2>3. t.kind = "claim" /\ ~HasGrant(t) /\ t.epoch \in Epoch /\ t.node \in Node
        /\ t.at > 0 /\ t.at <= stamp
    BY <1>1, <1>14 DEF FlowOK, RequestOK, EpochOK, HasGrant, StampOK
  <2>4. t.at \notin GrantStamps
    BY <1>1, <2>3 DEF RequestOK, StampOK
  <2>5. t.at \in 1..MaxStamp
    BY <1>1, <2>3, ApiAssumption DEF Request
  <2>6. grants' \subseteq Epoch \X Node \X (1..MaxStamp)
    BY <1>1, <2>1, <2>3, <2>5 DEF TypeOK
  <2>7. StampOK(y)'
    BY <1>1, <1>5, <1>7, <1>14, <2>3 DEF StampOK, HasGrant
  <2>8. ReservationOK(y)'
    BY <1>1, <1>5, <1>7, <1>14, <2>1 DEF RequestOK, ReservationOK, HasGrant
  <2>9. \A j \in Task \ {k} : task[j].kind = "claim" /\ ~HasGrant(task[j])
                                => task[j].at \notin GrantStamps'
    BY <2>2, <2>3 DEF Inv, StampsDiffer, RequestOK, StampOK
  <2>10. GrantsReserved'
    <3>1. rows[t.epoch] # <<>> /\ rows[t.epoch][1] = Reservation("active", t.node, t.at)
      BY <1>1, <1>14 DEF RequestOK, ReservationOK
    <3>2. \A h \in grants' : h \in grants \/ h = g
      BY <2>1
    <3>3. g[1] = t.epoch /\ g[2] = t.node /\ g[3] = t.at
      OBVIOUS
    <3> HIDE DEF g
    <3> QED
      BY <1>1, <2>3, <3>1, <3>2, <3>3 DEF Inv, GrantsReserved
  <2>11. EpochsCounted'
    <3>1. /\ IsFiniteSet(GrantStamps)
          /\ Cardinality(GrantStamps) \in Nat
      BY <1>1, GrantStampsBound
    <3>2. Cardinality(GrantStamps') = Cardinality(GrantStamps) + 1
      BY <2>2, <2>4, <3>1, FS_AddElement
    <3>3. latest'.epoch <= latest.epoch + 1
      BY <1>1, <1>2, <1>3, <1>14 DEF RequestOK, EpochOK
    <3>4. latest.epoch <= Cardinality(GrantStamps)
      BY DEF Inv, EpochsCounted
    <3>5. latest'.epoch <= Cardinality(GrantStamps')
      BY <1>2, <1>3, <3>1, <3>2, <3>3, <3>4
    <3> QED
      BY <1>10, <3>5 DEF EpochsCounted
  <2>12. TypeOK' /\ (\A j \in Task : RequestOK(task[j]))' /\ StampsDiffer'
    <3>1. rows' \in [Epoch -> Seq(Row)]
      BY <1>1 DEF TypeOK
    <3>2. RequestOK(y)'
      BY <1>9, <1>13, <2>7, <2>8 DEF RequestOK
    <3>3. y.kind = task[k].kind /\ y.at = task[k].at /\ task' = [task EXCEPT ![k] = y]
      BY <1>5, <1>6, <1>7
    <3> QED
      BY <1>1, <1>8, <2>6, <2>9, <3>1, <3>2, <3>3, AppendKeeps
  <2> QED
    BY <1>11, <1>12, <2>10, <2>11, <2>12 DEF Inv
<1>15. CASE t.then # "promote"
  <2>1. grants' = grants
    BY <1>15 DEF AppendLease
  <2>2. GrantStamps' = GrantStamps
    BY <2>1 DEF GrantStamps
  <2>3. HasGrant(y) <=> HasGrant(t)
    BY <1>5, <1>7, <1>15 DEF HasGrant
  <2>4. StampOK(y)'
    BY <1>1, <1>5, <1>7, <1>15, <2>2 DEF RequestOK, StampOK, HasGrant
  <2>5. ReservationOK(y)'
    BY <1>1, <1>5, <1>7, <1>15, <2>1 DEF RequestOK, ReservationOK, HasGrant
  <2>6. \A j \in Task \ {k} : task[j].kind = "claim" /\ ~HasGrant(task[j])
                                => task[j].at \notin GrantStamps'
    BY <2>2 DEF Inv, RequestOK, StampOK
  <2>7. GrantsReserved'
    BY <1>1, <2>1 DEF Inv, GrantsReserved
  <2>8. latest'.epoch = latest.epoch
    BY <1>1, <1>2, <1>3, <1>15 DEF RequestOK, EpochOK
  <2>9. EpochsCounted'
    BY <1>10, <2>2, <2>8 DEF Inv, EpochsCounted
  <2>10. TypeOK' /\ (\A j \in Task : RequestOK(task[j]))' /\ StampsDiffer'
    <3>1. /\ rows' \in [Epoch -> Seq(Row)]
          /\ grants' \subseteq Epoch \X Node \X (1..MaxStamp)
      BY <1>1, <2>1 DEF TypeOK
    <3>2. RequestOK(y)'
      BY <1>9, <1>13, <2>4, <2>5 DEF RequestOK
    <3>3. y.kind = task[k].kind /\ y.at = task[k].at /\ task' = [task EXCEPT ![k] = y]
      BY <1>5, <1>6, <1>7
    <3> QED
      BY <1>1, <1>8, <2>6, <3>1, <3>2, <3>3, AppendKeeps
  <2> QED
    BY <1>11, <1>12, <2>7, <2>9, <2>10 DEF Inv
<1> QED
  BY <1>14, <1>15

\* A reservation history that has grown by one row still begins with its active
\* row, belongs to one holder, and ends with that row.
LEMMA RowAppended ==
  ASSUME Inv, NEW e \in Epoch, NEW r \in Row,
         rows' = [rows EXCEPT ![e] = Append(rows[e], r)],
         rows[e] = <<>> => r.status = "active",
         rows[e] # <<>> => r.holder = rows[e][1].holder
  PROVE  /\ rows' \in [Epoch -> Seq(Row)]
         /\ RowsOK'
         /\ \A f \in Epoch : f # e => rows'[f] = rows[f]
         /\ rows'[e] # <<>>
         /\ rows[e] = <<>> => rows'[e][1] = r
         /\ rows[e] # <<>> => rows'[e][1] = rows[e][1]
         /\ LatestReservation(rows'[e]) = r
<1>1. rows \in [Epoch -> Seq(Row)] /\ rows[e] \in Seq(Row)
  BY DEF Inv, TypeOK
<1>2. rows'[e] = Append(rows[e], r) /\ \A f \in Epoch : f # e => rows'[f] = rows[f]
  BY <1>1
<1>3. /\ rows'[e] \in Seq(Row)
      /\ rows'[e] # <<>>
      /\ rows'[e][Len(rows'[e])] = r
      /\ rows[e] # <<>> => rows'[e][1] = rows[e][1]
      /\ rows[e] = <<>> => rows'[e][1] = r
      /\ \A i \in DOMAIN rows'[e] :
           rows'[e][i] = r \/ \E j \in DOMAIN rows[e] : rows'[e][i] = rows[e][j]
  BY <1>1, <1>2, AppendFacts
<1>4. rows' \in [Epoch -> Seq(Row)]
  BY <1>1, <1>3
<1>5. RowsOK
  BY DEF Inv
<1>6. rows'[e][1].status = "active"
      /\ \A i \in DOMAIN rows'[e] : rows'[e][i].holder = rows'[e][1].holder
  <2>1. CASE rows[e] = <<>>
    BY <1>3, <2>1
  <2>2. CASE rows[e] # <<>>
    BY <1>3, <1>5, <2>2 DEF RowsOK
  <2> QED
    BY <2>1, <2>2
<1>7. RowsOK'
  BY <1>2, <1>5, <1>6 DEF RowsOK
<1> QED
  BY <1>2, <1>3, <1>4, <1>7 DEF LatestReservation

\* The latest row of a reservation that exists is its holder's.
LEMMA LatestRow ==
  ASSUME Inv, NEW e \in Epoch, rows[e] # <<>>
  PROVE  /\ LatestReservation(rows[e]) \in Row
         /\ LatestReservation(rows[e]).holder = rows[e][1].holder
<1>1. rows[e] \in Seq(Row) /\ RowsOK
  BY DEF Inv, TypeOK
<1>2. Len(rows[e]) \in DOMAIN rows[e] /\ rows[e][Len(rows[e])] \in Row
  BY <1>1
<1> QED
  BY <1>1, <1>2 DEF LatestReservation, RowsOK

\* What growing rows leave of the histories' invariants.
LEMMA GrownRows ==
  ASSUME Inv, NEW e \in Epoch, UNCHANGED <<latest, grants, stamp>>,
         \A f \in Epoch : f # e => rows'[f] = rows[f],
         rows'[e] # <<>>, rows[e] # <<>> => rows'[e][1] = rows[e][1]
  PROVE  /\ HistoriesGrow /\ GrantsReserved' /\ EpochsCounted'
         /\ GrantStamps' = GrantStamps
<1>1. latest \in Records /\ latest.epoch \in Nat
      /\ grants \subseteq Epoch \X Node \X (1..MaxStamp)
  BY ApiAssumption DEF Inv, TypeOK, Records
<1>2. \A f \in Epoch : rows[f] # <<>> => rows'[f] # <<>> /\ rows'[f][1] = rows[f][1]
  OBVIOUS
<1>3. HistoriesGrow
  BY <1>1, <1>2 DEF HistoriesGrow
<1>4. \A g \in grants : g[1] \in Epoch
  BY <1>1
<1>5. GrantsReserved'
  BY <1>2, <1>4 DEF Inv, GrantsReserved
<1>6. EpochsCounted' /\ GrantStamps' = GrantStamps
  BY DEF Inv, EpochsCounted, GrantStamps
<1> QED
  BY <1>3, <1>5, <1>6

\* save_reservation_record lets a second claim of an epoch down: a first row is
\* active, so the row that is saved is the first.
LEMMA ReserveSaveKeeps ==
  ASSUME Inv, NEW k \in Task, ReserveSave(k)
  PROVE  Inv'
<1> DEFINE t == task[k]
           r == Reservation("active", t.node, t.at)
           l == Lease(t.epoch, "active", t.node, t.at, t.at)
<1>1. /\ t \in Request /\ RequestOK(t) /\ FlowOK(t) /\ t.pc = "reserve_save"
      /\ UNCHANGED <<card, stamp, latest, resource, grants>> /\ TypeOK
      /\ task \in [Task -> Request]
  BY InProgress DEF ReserveSave, At, RequestOK
<1>2. /\ t.kind = "claim" /\ t.then \notin {"promote", "invalidate"} /\ ~HasGrant(t)
      /\ t.node \in Node /\ t.epoch \in Epoch /\ t.at > 0 /\ t.epoch <= latest.epoch + 1
  BY <1>1 DEF FlowOK, RequestOK, StampOK, EpochOK, HasGrant
<1>3. CASE CanSaveReservation(rows[t.epoch], r)
  <2> DEFINE x == [t EXCEPT !.pc = "previous", !.then = "promote", !.new = l]
  <2>1. rows' = [rows EXCEPT ![t.epoch] = Append(rows[t.epoch], r)]
        /\ task' = [task EXCEPT ![k] = x]
    BY <1>3 DEF ReserveSave, Update
  <2>2. rows[t.epoch] = <<>>
    <3>1. rows[t.epoch] \in Seq(Row)
      BY <1>1, <1>2 DEF TypeOK
    <3>2. r.status = "active"
      BY DEF Reservation
    <3>3. rows[t.epoch] # <<>> => rows[t.epoch][1].status = "active"
      BY <1>2 DEF Inv, RowsOK
    <3>4. rows[t.epoch] # <<>> => 1 \in DOMAIN rows[t.epoch]
      BY <3>1
    <3> QED
      BY <1>3, <3>2, <3>3, <3>4 DEF CanSaveReservation
  <2>3. t.at \in 1..MaxStamp /\ t.at \in 0..MaxStamp
    BY <1>1, <1>2, ApiAssumption DEF Request
  <2>4. r \in Row /\ r.status = "active"
    BY <1>2, <2>3 DEF Reservation, Row
  <2>5. /\ rows' \in [Epoch -> Seq(Row)]
        /\ RowsOK'
        /\ \A f \in Epoch : f # t.epoch => rows'[f] = rows[f]
        /\ rows'[t.epoch] # <<>> /\ rows'[t.epoch][1] = r
        /\ LatestReservation(rows'[t.epoch]) = r
    BY <1>2, <2>1, <2>2, <2>4, RowAppended
  <2>6. /\ HistoriesGrow /\ GrantsReserved' /\ EpochsCounted'
        /\ GrantStamps' = GrantStamps
    BY <1>1, <1>2, <2>2, <2>5, GrownRows
  <2>7. PromotedIsGranted'
    BY <1>1, <2>4, <2>5 DEF Inv, PromotedIsGranted
  <2>8. l \in Records /\ l.epoch = t.epoch
    BY <1>2, <2>3, ApiAssumption DEF Lease, Records, LeaseStatus, Epoch
  <2> HIDE DEF l
  <2>9. x \in Request
    BY <1>1, <2>8 DEF Request
  <2>10. /\ x.pc = "previous" /\ x.kind = t.kind /\ x.node = t.node /\ x.at = t.at
         /\ x.new = l /\ x.epoch = t.epoch /\ x.then = "promote"
    BY <1>1 DEF Request
  <2>11. PICK y \in Request : y = x
    BY <2>9
  <2> HIDE DEF x
  <2>12. FlowOK(y)'
    BY <1>1, <1>2, <2>10, <2>11 DEF FlowOK
  <2>13. StampOK(y)'
    BY <1>1, <1>2, <2>6, <2>10, <2>11 DEF RequestOK, StampOK
  <2>14. EpochOK(y)'
    BY <1>1, <1>2, <2>8, <2>10, <2>11, ApiAssumption DEF EpochOK, Epoch
  <2>15. ReservationOK(y)'
    BY <2>5, <2>10, <2>11 DEF ReservationOK, HasGrant
  <2>16. TypeOK' /\ (\A j \in Task : RequestOK(task[j]))' /\ StampsDiffer'
    <3>1. \A j \in Task \ {k} : task[j].kind = "claim" /\ ~HasGrant(task[j])
                                  => task[j].at \notin GrantStamps'
      BY <2>6 DEF Inv, RequestOK, StampOK
    <3>2. RequestOK(y)'
      BY <2>12, <2>13, <2>14, <2>15 DEF RequestOK
    <3>3. y.kind = task[k].kind /\ y.at = task[k].at /\ task' = [task EXCEPT ![k] = y]
      BY <2>1, <2>10, <2>11
    <3>4. grants' \subseteq Epoch \X Node \X (1..MaxStamp)
      BY <1>1 DEF TypeOK
    <3> QED
      BY <1>1, <2>5, <2>6, <3>1, <3>2, <3>3, <3>4, AppendKeeps
  <2> QED
    BY <2>5, <2>6, <2>7, <2>16 DEF Inv
<1>4. CASE ~CanSaveReservation(rows[t.epoch], r)
  <2>1. Return(k) /\ UNCHANGED <<rows, latest, grants, stamp>> /\ card' \in Card
    BY <1>1, <1>4, CardKept DEF ReserveSave
  <2>2. RecordsKept
    BY <1>1, <2>1 DEF RecordsKept, TypeOK
  <2> QED
    BY <2>1, <2>2, ReturnKeeps
<1> QED
  BY <1>3, <1>4

\* A claim that ends by writing the last row of its reservation.
LEMMA LastRowKeeps ==
  ASSUME Inv, NEW k \in Task, task[k].epoch \in Epoch, rows[task[k].epoch] # <<>>,
         NEW s \in {"promoted", "invalidated"},
         rows' = [rows EXCEPT ![task[k].epoch] =
           Append(rows[task[k].epoch],
                  [LatestReservation(rows[task[k].epoch]) EXCEPT !.status = s])],
         s = "promoted" =>
           \E g \in grants : /\ g[1] = task[k].epoch
                             /\ g[2] = rows[task[k].epoch][1].holder,
         Return(k), UNCHANGED <<card, stamp, latest, resource, grants>>
  PROVE  Inv'
<1> DEFINE e == task[k].epoch
           r == [LatestReservation(rows[e]) EXCEPT !.status = s]
<1>1. LatestReservation(rows[e]) \in Row
      /\ LatestReservation(rows[e]).holder = rows[e][1].holder
  BY LatestRow
<1>2. r \in Row /\ r.holder = rows[e][1].holder /\ r.status = s
  BY <1>1 DEF Row
<1> HIDE DEF r
<1>3. /\ rows' \in [Epoch -> Seq(Row)]
      /\ RowsOK'
      /\ \A f \in Epoch : f # e => rows'[f] = rows[f]
      /\ rows'[e] # <<>> /\ rows'[e][1] = rows[e][1]
      /\ LatestReservation(rows'[e]) = r
  BY <1>2, RowAppended DEF r
<1>4. /\ HistoriesGrow /\ GrantsReserved' /\ EpochsCounted'
      /\ GrantStamps' = GrantStamps
  BY <1>3, GrownRows
<1>5. PromotedIsGranted'
  BY <1>2, <1>3 DEF Inv, PromotedIsGranted
<1>6. TypeOK' /\ (\A j \in Task : RequestOK(task[j]))' /\ StampsDiffer'
  <2>1. \A j \in Task \ {k} : task[j].kind = "claim" /\ ~HasGrant(task[j])
                                => task[j].at \notin GrantStamps'
    BY <1>4 DEF Inv, RequestOK, StampOK
  <2>2. TypeOK /\ Idle \in Request /\ RequestOK(Idle)
    BY IdleOK DEF Inv
  <2>3. PICK y \in Request : y = Idle
    BY <2>2
  <2>4. RequestOK(y) /\ y.kind # "claim"
    BY <2>2, <2>3 DEF Idle
  <2>5. RequestOK(y)'
    BY <1>4, <2>2, <2>4, PromiseSurvives
  <2>6. task' = [task EXCEPT ![k] = y]
    BY <2>3 DEF Return, Update
  <2>7. grants' \subseteq Epoch \X Node \X (1..MaxStamp)
    BY <2>2 DEF TypeOK
  <2> QED
    BY <1>3, <1>4, <2>1, <2>4, <2>5, <2>6, <2>7, AppendKeeps
<1> QED
  BY <1>3, <1>4, <1>5, <1>6 DEF Inv

\* promote_claim_reservation promotes what this claim was granted.
LEMMA PromoteKeeps ==
  ASSUME Inv, NEW k \in Task, Promote(k)
  PROVE  Inv'
<1> DEFINE t == task[k]
           r == [LatestReservation(rows[t.epoch]) EXCEPT !.status = "promoted"]
<1>1. /\ t \in Request /\ RequestOK(t) /\ FlowOK(t) /\ t.pc = "promote"
      /\ UNCHANGED <<card, stamp, latest, resource, grants>> /\ TypeOK
  BY InProgress DEF Promote, At, RequestOK
<1>2. /\ t.then = "promote" /\ HasGrant(t) /\ t.epoch \in Epoch
      /\ rows[t.epoch] # <<>>
      /\ rows[t.epoch][1] = Reservation("active", t.node, t.at)
      /\ <<t.epoch, t.node, t.at>> \in grants
  BY <1>1 DEF FlowOK, RequestOK, EpochOK, ReservationOK, HasGrant
<1>3. ASSUME rows' = [rows EXCEPT ![t.epoch] = Append(rows[t.epoch], r)], Return(k)
      PROVE  Inv'
  <2>1. \E g \in grants : g[1] = t.epoch /\ g[2] = rows[t.epoch][1].holder
    <3>1. rows[t.epoch][1].holder = t.node
      BY <1>2 DEF Reservation
    <3> QED
      BY <1>2, <3>1
  <2> QED
    BY <1>1, <1>2, <1>3, <2>1, LastRowKeeps
<1>4. ASSUME Goto(k, "rollback"), UNCHANGED rows
      PROVE  Inv'
  <2> DEFINE x == [t EXCEPT !.pc = "rollback"]
  <2>1. x \in Request
    BY <1>1 DEF Request
  <2>2. /\ x.pc = "rollback" /\ x.kind = t.kind /\ x.node = t.node /\ x.at = t.at
        /\ x.new = t.new /\ x.epoch = t.epoch /\ x.then = t.then
    BY <1>1 DEF Request
  <2>3. RecordsKept /\ card' \in Card
    BY <1>1, <1>4 DEF RecordsKept, TypeOK
  <2> HIDE DEF x
  <2>4. FlowOK(x)
    BY <1>1, <2>2 DEF FlowOK
  <2>5. StampOK(x) /\ EpochOK(x) /\ ReservationOK(x)
    BY <1>1, <1>2, <2>2 DEF RequestOK, StampOK, EpochOK, ReservationOK, HasGrant
  <2> QED
    BY <1>1, <1>4, <2>1, <2>3, <2>4, <2>5, GotoKeeps DEF RequestOK, x
<1> QED
  BY <1>3, <1>4 DEF Promote

\* The rollback invalidates the claim's own reservation, if it is still active.
LEMMA InvalidateKeeps ==
  ASSUME Inv, NEW k \in Task, Invalidate(k)
  PROVE  Inv'
<1> DEFINE t == task[k]
<1>1. /\ t \in Request /\ RequestOK(t) /\ FlowOK(t) /\ t.pc = "invalidate"
      /\ UNCHANGED <<card, stamp, latest, resource, grants>> /\ TypeOK /\ Return(k)
  BY InProgress DEF Invalidate, At, RequestOK
<1>2. t.epoch \in Epoch /\ rows[t.epoch] # <<>>
  BY <1>1 DEF FlowOK, RequestOK, EpochOK, ReservationOK
<1>3. CASE LatestReservation(rows[t.epoch]).status = "active"
  BY <1>1, <1>2, <1>3, LastRowKeeps DEF Invalidate
<1>4. CASE LatestReservation(rows[t.epoch]).status # "active"
  <2>1. UNCHANGED rows /\ card' \in Card
    BY <1>1, <1>4 DEF Invalidate, TypeOK
  <2>2. RecordsKept
    BY <1>1, <2>1 DEF RecordsKept, TypeOK
  <2> QED
    BY <1>1, <2>1, <2>2, ReturnKeeps
<1> QED
  BY <1>3, <1>4

\* Time passes for the card and for what requests remember of it.
LEMMA TickKeeps ==
  ASSUME Inv, Tick
  PROVE  Inv'
<1>1. /\ TypeOK /\ task \in [Task -> Request] /\ card' \in Card
      /\ UNCHANGED <<stamp, latest, resource, rows, grants>>
  BY OlderFacts DEF Inv, TypeOK, Tick, control
<1>2. ASSUME NEW k \in Task
      PROVE  /\ task'[k] \in Request
             /\ task'[k].pc = task[k].pc /\ task'[k].kind = task[k].kind
             /\ task'[k].node = task[k].node /\ task'[k].at = task[k].at
             /\ task'[k].new = task[k].new /\ task'[k].epoch = task[k].epoch
             /\ task'[k].then = task[k].then
  <2> DEFINE t == task[k]
             l == IF t.snap.left = 0 THEN 0 ELSE t.snap.left - 1
  <2>1. t \in Request /\ t.snap \in [holder : Node \cup {NoNode}, left : 0..MaxLease]
    BY <1>1 DEF Request
  <2>2. l \in 0..MaxLease
    BY <2>1, CardAssumption
  <2>3. task'[k] = [t EXCEPT !.snap = [t.snap EXCEPT !.left = l]]
    BY DEF Tick
  <2> HIDE DEF l
  <2>4. [t.snap EXCEPT !.left = l] \in [holder : Node \cup {NoNode}, left : 0..MaxLease]
    BY <2>1, <2>2
  <2> QED
    BY <2>1, <2>3, <2>4 DEF Request
<1>3. TypeOK'
  <2>1. task' = [k \in Task |-> task'[k]]
    BY DEF Tick
  <2>2. task' \in [Task -> Request]
    BY <1>2, <2>1
  <2> QED
    BY <1>1, <2>2 DEF TypeOK
<1>4. ASSUME NEW k \in Task
      PROVE  RequestOK(task[k])'
  <2>1. PICK t \in Request : t = task[k]
    BY <1>1
  <2>2. PICK y \in Request : y = task'[k]
    BY <1>2
  <2>3. /\ y.pc = t.pc /\ y.kind = t.kind /\ y.node = t.node /\ y.at = t.at
        /\ y.new = t.new /\ y.epoch = t.epoch /\ y.then = t.then
    BY <1>2, <2>1, <2>2
  <2>4. RequestOK(t)
    BY <2>1 DEF Inv
  <2>5. RequestOK(y)
    BY <2>3, <2>4 DEF RequestOK, FlowOK, StampOK, EpochOK, ReservationOK, HasGrant
  <2>6. stamp' \in Nat /\ stamp' >= stamp
    BY <1>1, ApiAssumption DEF TypeOK
  <2>7. RequestOK(y)'
    BY <1>1, <2>5, <2>6, PromiseKept
  <2> QED
    BY <2>2, <2>7, NewPromise
<1>5. StampsDiffer'
  BY <1>2 DEF Inv, StampsDiffer
<1>6. RowsOK' /\ GrantsReserved' /\ PromotedIsGranted' /\ EpochsCounted'
  BY <1>1 DEF Inv, RowsOK, GrantsReserved, PromotedIsGranted, EpochsCounted, GrantStamps
<1> QED
  BY <1>3, <1>4, <1>5, <1>6 DEF Inv

-----------------------------------------------------------------------------
(* The theorems.                                                               *)

\* Every step of every handler keeps the invariant.
LEMMA StepInv ==
  ASSUME Inv, [Next]_vars
  PROVE  Inv'
<1>1. CASE Tick
  BY <1>1, TickKeeps
<1>2. ASSUME NEW k \in Task, Begin(k)
      PROVE  Inv'
  <2>1. CASE BeginObserve(k, "list", NoNode)
    BY <2>1, BeginObserveKeeps
  <2>2. ASSUME NEW n \in Node, BeginObserve(k, "claim", n)
        PROVE  Inv'
    BY <2>2, BeginObserveKeeps
  <2>3. ASSUME NEW n \in Node, NEW kind \in {"renew", "complete", "fail"},
               BeginHeld(k, kind, n)
        PROVE  Inv'
    BY <2>3, BeginHeldKeeps
  <2> QED
    BY <1>2, <2>1, <2>2, <2>3 DEF Begin
<1>3. ASSUME NEW k \in Task, Step(k)
      PROVE  Inv'
  <2>1. CASE ExpireRead(k) \/ PreflightRead(k)
    BY <2>1, ExpireReadKeeps, PreflightReadKeeps
  <2>2. CASE CheckResource(k) \/ ReadPrevious(k) \/ ReserveRead(k)
    BY <2>2, CompareKeeps
  <2>3. CASE \/ StoreList(k) \/ StoreFinish(k)
             \/ \E d \in LeaseDuration : StoreClaim(k, d) \/ StoreRenew(k, d)
    BY <2>3, StoreKeeps
  <2>4. CASE DrawStamp(k) \/ RenewRead(k) \/ ReleaseRead(k)
    BY <2>4, DrawStampKeeps, PublishReadKeeps
  <2>5. CASE AppendLease(k) \/ SaveResource(k)
    BY <2>5, AppendLeaseKeeps, SaveResourceKeeps
  <2>6. CASE ClaimEpoch(k) \/ ReserveSave(k)
    BY <2>6, ClaimEpochKeeps, ReserveSaveKeeps
  <2>7. CASE Promote(k) \/ RollbackRead(k) \/ Invalidate(k)
    BY <2>7, PromoteKeeps, RollbackReadKeeps, InvalidateKeeps
  <2> QED
    BY <1>3, <2>1, <2>2, <2>3, <2>4, <2>5, <2>6, <2>7 DEF Step
<1>4. CASE UNCHANGED vars
  <2>1. TypeOK'
    BY <1>4 DEF vars, Inv, TypeOK
  <2>2. ASSUME NEW k \in Task
        PROVE  RequestOK(task[k])'
    <3>1. RequestOK(task[k])
      BY DEF Inv
    <3> QED
      BY <1>4, <3>1
      DEF vars, RequestOK, FlowOK, StampOK, EpochOK, ReservationOK, HasGrant, GrantStamps
  <2>3. /\ StampsDiffer' /\ RowsOK' /\ GrantsReserved' /\ PromotedIsGranted'
        /\ EpochsCounted'
    BY <1>4 DEF vars, Inv, StampsDiffer, RowsOK, GrantsReserved, PromotedIsGranted,
                EpochsCounted, GrantStamps
  <2> QED
    BY <2>1, <2>2, <2>3 DEF Inv
<1> QED
  BY <1>1, <1>2, <1>3, <1>4 DEF Next

\* The invariant holds from the start.
LEMMA InitInv ==
  ASSUME Init
  PROVE  Inv
<1>1. 0 \in 0..MaxStamp /\ 0 \in 0..MaxLease
  BY ApiAssumption, CardAssumption
<1>2. card \in Card
  BY <1>1, CardAssumption DEF Init, NewCard, Card
<1>3. latest \in Records
  BY <1>1 DEF Init, NoLease, Lease, Records
<1>4. rows \in [Epoch -> Seq(Row)] /\ \A e \in Epoch : rows[e] = <<>>
  BY DEF Init
<1>5. Idle \in Request
  <2>1. NoLease \in Records
        /\ NoClaim \in [holder : Node \cup {NoNode}, left : 0..MaxLease]
    BY <1>1 DEF NoLease, Lease, Records, NoClaim
  <2> QED
    BY <1>1, <2>1 DEF Idle, Request
<1>6. TypeOK
  BY <1>1, <1>2, <1>3, <1>4, <1>5 DEF Init, TypeOK
<1>7. \A k \in Task : task[k] = Idle
  BY DEF Init
<1>8. \A k \in Task : RequestOK(task[k])
  BY <1>6, <1>7, IdleOK
<1>9. StampsDiffer
  BY <1>7 DEF StampsDiffer, Idle
<1>10. RowsOK /\ GrantsReserved
  BY <1>4 DEF RowsOK, GrantsReserved, Init
<1>11. PromotedIsGranted
  BY <1>4 DEF PromotedIsGranted, LatestReservation, NoReservation, Reservation
<1>12. EpochsCounted
  BY <1>6, GrantStampsBound DEF EpochsCounted, Init, NoLease, Lease
<1> QED
  BY <1>6, <1>8, <1>9, <1>10, <1>11, <1>12 DEF Inv

\* The invariant holds in every reachable state.
LEMMA InvAlways == Spec => []Inv
<1>1. Init => Inv
  BY InitInv
<1>2. Inv /\ [Next]_vars => Inv'
  BY StepInv
<1> QED
  BY <1>1, <1>2, PTL DEF Spec

\* Every card, record, row and request of the handlers is well typed; in
\* particular next_claim_epoch never yields an epoch that there are not enough
\* timestamps for.
THEOREM ApiTypeCorrect == Spec => []TypeOK
<1>1. Inv => TypeOK
  BY DEF Inv
<1> QED
  BY <1>1, InvAlways, PTL

\* A lease epoch is granted to one claim only, whatever requests run between
\* next_claim_epoch's read and the append of the lease record.
THEOREM EpochsGrantedOnce == Spec => []EpochGrantedOnce
<1>1. Inv => EpochGrantedOnce
  <2> SUFFICES ASSUME Inv, NEW g \in grants, NEW h \in grants, g[1] = h[1]
               PROVE  g = h
    BY DEF EpochGrantedOnce
  <2>1. g \in Epoch \X Node \X (1..MaxStamp) /\ h \in Epoch \X Node \X (1..MaxStamp)
    BY DEF Inv, TypeOK
  <2>2. Reservation("active", g[2], g[3]) = Reservation("active", h[2], h[3])
    BY DEF Inv, GrantsReserved
  <2>3. g[2] = h[2] /\ g[3] = h[3]
    BY <2>2 DEF Reservation
  <2> QED
    BY <2>1, <2>3
<1> QED
  BY <1>1, InvAlways, PTL

\* A promoted reservation's epoch was granted to its holder.
THEOREM PromotionsAreGranted == Spec => []PromotedIsGranted
<1>1. Inv => PromotedIsGranted
  BY DEF Inv
<1> QED
  BY <1>1, InvAlways, PTL

-----------------------------------------------------------------------------
(* The handlers implement a job lease.                                         *)

\* The card is not hedged and has a result only when it is final.
CardConsistent == card.hedged = FALSE /\ (Final(card) \/ card.result = NoNode)

\* What a step does to the card: nothing the abstract job sees, the end of a
\* lease, a grant to a node, or that node's result.
CardStep ==
  \/ UNCHANGED card
  \/ card' = Reopened(card)
  \/ card' = Older(card)
  \/ \E n \in Node :
       \/ \E d \in LeaseDuration :
            \/ CanClaim(card, n) /\ card' = Claimed(card, n, d)
            \/ CanRenew(card, n) /\ card' = Renewed(card, d)
       \/ \E s \in {"DONE", "FAILED"} : CanFinish(card, n) /\ card' = Finished(card, n, s)

\* Every step of every handler does one of these.
LEMMA EveryStepIsACardStep ==
  ASSUME Inv, [Next]_vars
  PROVE  CardStep
<1>1. CASE Tick \/ UNCHANGED vars
  BY <1>1 DEF Tick, vars, CardStep
<1>2. ASSUME NEW k \in Task, Begin(k)
      PROVE  CardStep
  BY <1>2 DEF Begin, BeginObserve, BeginHeld, CardStep
<1>3. ASSUME NEW k \in Task, Step(k)
      PROVE  CardStep
  <2>1. FlowOK(task[k])
    BY InProgress DEF RequestOK
  <2>2. CASE StoreList(k)
    BY <2>2 DEF StoreList, CardStep
  <2>3. CASE StoreFinish(k)
    <3>1. task[k].node \in Node
      BY <2>1, <2>3 DEF StoreFinish, FlowOK
    <3>2. ASSUME CanFinish(card, task[k].node),
                 card' = Finished(card, task[k].node, IF task[k].kind = "complete"
                                                      THEN "DONE" ELSE "FAILED")
          PROVE  CardStep
      <4>1. \E s \in {"DONE", "FAILED"} : card' = Finished(card, task[k].node, s)
        BY <3>2
      <4> QED
        BY <3>1, <3>2, <4>1 DEF CardStep
    <3> QED
      BY <2>3, <3>2 DEF StoreFinish, CardStep
  <2>4. ASSUME NEW d \in LeaseDuration, StoreClaim(k, d) \/ StoreRenew(k, d)
        PROVE  CardStep
    <3>1. task[k].node \in Node
      BY <2>1, <2>4 DEF StoreClaim, StoreRenew, FlowOK
    <3> QED
      BY <2>4, <3>1 DEF StoreClaim, StoreRenew, CardStep
  <2>5. CASE UNCHANGED card
    BY <2>5 DEF CardStep
  <2> QED
    BY <1>3, <2>2, <2>3, <2>4, <2>5
    DEF Step, ExpireRead, PreflightRead, CheckResource, DrawStamp, RenewRead,
        ReleaseRead, ReadPrevious, AppendLease, SaveResource, ClaimEpoch, ReserveRead,
        ReserveSave, Promote, RollbackRead, Invalidate
<1> QED
  BY <1>1, <1>2, <1>3 DEF Next

\* Every such step is one of the abstract job, or none, and keeps the card
\* consistent.
LEMMA CardStepRefines ==
  ASSUME Inv, CardConsistent, CardStep
  PROVE  CardConsistent' /\ [Job!Next]_(Job!vars)
<1>1. card \in Card
  BY DEF Inv, TypeOK
<1>2. CASE UNCHANGED card
  BY <1>2 DEF CardConsistent, Final, Holders, Job!vars
<1>3. CASE card' = Reopened(card)
  <2>1. CASE card.state = "CLAIMED" /\ card.left = 0
    <3>1. card'.state = "OPEN" /\ card'.result = card.result
          /\ card'.hedged = card.hedged
      BY <1>1, <1>3, <2>1, ReopenedFacts
    <3>2. CardConsistent'
      BY <2>1, <3>1 DEF CardConsistent, Final
    <3>3. Holders = {} /\ Holders' = {}
      BY <2>1, <3>1 DEF Holders
    <3> QED
      BY <3>1, <3>2, <3>3 DEF Job!vars
  <2>2. CASE ~(card.state = "CLAIMED" /\ card.left = 0)
    <3>1. card' = card
      BY <1>1, <1>3, <2>2, ReopenedFacts
    <3> QED
      BY <3>1 DEF CardConsistent, Final, Holders, Job!vars
  <2> QED
    BY <2>1, <2>2
<1>4. CASE card' = Older(card)
  <2>1. /\ card'.left = IF card.left = 0 THEN 0 ELSE card.left - 1
        /\ card'.state = card.state /\ card'.holder = card.holder
        /\ card'.hedged = card.hedged /\ card'.result = card.result
    BY <1>1, <1>4, OlderFacts
  <2>2. card.left \in Nat
    BY <1>1, CardAssumption DEF Card
  <2>3. card'.left > 0 => card.left > 0
    BY <2>1, <2>2
  <2>4. Holders' \subseteq Holders
    BY <2>1, <2>3 DEF Holders
  <2>5. CardConsistent'
    BY <2>1 DEF CardConsistent, Final
  <2> QED
    BY <2>1, <2>4, <2>5 DEF Job!Next, Job!Lapse
<1>5. ASSUME NEW n \in Node, NEW d \in LeaseDuration, CanClaim(card, n),
             card' = Claimed(card, n, d)
      PROVE  CardConsistent' /\ [Job!Next]_(Job!vars)
  <2>1. /\ card'.state = "CLAIMED" /\ card'.left = d
        /\ card'.hedged = card.hedged /\ card'.result = card.result
    BY <1>1, <1>5, ClaimedFacts
  <2>2. Reopened(card).state = "OPEN"
    BY <1>1, <1>5, ClaimedFacts DEF CardConsistent
  <2>3. card'.holder = n
    BY <1>1, <1>5, <2>2, ClaimedFacts
  <2>4. card.state = "OPEN" \/ (card.state = "CLAIMED" /\ card.left = 0)
    BY <1>1, <2>2, ReopenedFacts
  <2>5. d > 0
    BY CardAssumption DEF LeaseDuration
  <2>6. Holders = {} /\ Holders' = {n}
    BY <2>1, <2>3, <2>4, <2>5 DEF Holders
  <2>7. card.result = NoNode
    BY <2>4 DEF CardConsistent, Final
  <2>8. CardConsistent'
    BY <2>1, <2>7 DEF CardConsistent
  <2>9. Job!Grant(n)
    BY <2>1, <2>6, <2>7 DEF Job!Grant
  <2> QED
    BY <2>8, <2>9 DEF Job!Next
<1>6. ASSUME NEW n \in Node, NEW d \in LeaseDuration, CanRenew(card, n),
             card' = Renewed(card, d)
      PROVE  CardConsistent' /\ [Job!Next]_(Job!vars)
  <2>1. /\ card.state = "CLAIMED" /\ card.left > 0 /\ IsClaimant(card, n)
        /\ card'.left = d /\ card'.state = card.state
        /\ card'.holder = card.holder /\ card'.hedged = card.hedged
        /\ card'.result = card.result
    BY <1>1, <1>6, RenewedFacts
  <2>2. d > 0
    BY CardAssumption DEF LeaseDuration
  <2>3. card.holder = n
    BY <2>1 DEF CardConsistent, IsClaimant
  <2>4. Holders = {n} /\ Holders' = {n}
    BY <2>1, <2>2, <2>3 DEF Holders
  <2>5. card.result = NoNode
    BY <2>1 DEF CardConsistent, Final
  <2>6. CardConsistent'
    BY <2>1, <2>5 DEF CardConsistent
  <2>7. Job!Grant(n)
    BY <2>1, <2>4, <2>5 DEF Job!Grant
  <2> QED
    BY <2>6, <2>7 DEF Job!Next
<1>7. ASSUME NEW n \in Node, NEW s \in {"DONE", "FAILED"}, CanFinish(card, n),
             card' = Finished(card, n, s)
      PROVE  CardConsistent' /\ [Job!Next]_(Job!vars)
  <2>1. /\ card.state = "CLAIMED" /\ card.left > 0 /\ IsClaimant(card, n)
        /\ card'.state = s /\ card'.result = n /\ card'.hedged = card.hedged
    BY <1>1, <1>7, FinishedFacts
  <2>2. n \in Holders /\ Holders' = {}
    BY <2>1 DEF CardConsistent, IsClaimant, Holders
  <2>3. card.result = NoNode
    BY <2>1 DEF CardConsistent, Final
  <2>4. CardConsistent'
    BY <2>1 DEF CardConsistent, Final
  <2>5. Job!Finish(n)
    BY <2>1, <2>2, <2>3 DEF Job!Finish
  <2> QED
    BY <2>4, <2>5 DEF Job!Next
<1> QED
  BY <1>2, <1>3, <1>4, <1>5, <1>6, <1>7 DEF CardStep

\* The coordinator's handlers, stale snapshots, interleaved requests and failed
\* publications included, leave the card a job lease.
THEOREM ApiIsAJobLease == Spec => ImplementsJobLease
<1>1. Init => CardConsistent /\ Job!Init
  BY DEF Init, NewCard, CardConsistent, Holders, Job!Init
<1>2. Inv /\ CardConsistent /\ [Next]_vars => CardConsistent' /\ [Job!Next]_(Job!vars)
  BY EveryStepIsACardStep, CardStepRefines
<1> QED
  BY <1>1, <1>2, InvAlways, PTL DEF Spec, ImplementsJobLease, Job!Spec
=============================================================================
