--------------------------- MODULE GiteaWorkerProofs ---------------------------
(* Theorems about the lease of a card in a Gitea issue, for any set of workers *)
(* and every number of lost answers, delayed patches and crashes.              *)
EXTENDS GiteaWorker, FiniteSetTheorems, TLAPS

-----------------------------------------------------------------------------
(* The inductive invariant.                                                    *)

\* A body built from card c either leaves the lease with its owner, or gives it
\* up, or takes it over under the next epoch once it is free.
Keeps(c, b) == b.epoch = c.epoch /\ b.owner \in {c.owner, NoWorker}
Takes(c, b) == /\ b.epoch = NextEpoch(c.epoch) /\ b.owner # NoWorker
               /\ c.owner = NoWorker \/ c.left = 0

\* A patch whose ETag is current was built from the current card.
Fits(c, p) == p.fresh => Keeps(c, p.body) \/ Takes(c, p.body)

PatchesFit ==
  /\ \A w \in Worker : Fits(card, out[w]) /\ Fits(card, rout[w])
  /\ \A p \in stray : Fits(card, p)
  /\ \A w \in Worker : pc[w] = "acquiring" /\ out[w].fresh =>
       out[w].body.owner = w /\ Takes(card, out[w].body)

\* No epoch beyond the card's is granted, none twice, and the card's only to its
\* owner while it has one.  The last epoch, where the counter stays, is left out.
GrantsFit(c, g) ==
  \A e \in 1..(MaxEpoch - 1) :
    /\ e > c.epoch => g[e] = {}
    /\ \A v, w \in g[e] : v = w
    /\ e = c.epoch /\ c.owner # NoWorker => g[e] \subseteq {c.owner}

Inv == TypeOK /\ PatchesFit /\ GrantsFit(card, grants)

-----------------------------------------------------------------------------
(* Bodies and patches.                                                         *)

\* Epochs are counted within their bound.
LEMMA NextEpochType ==
  ASSUME NEW e \in 0..MaxEpoch
  PROVE  NextEpoch(e) \in 1..MaxEpoch /\ (e < MaxEpoch => NextEpoch(e) = e + 1)
                                      /\ (e = MaxEpoch => NextEpoch(e) = e)
BY GiteaAssumption DEF NextEpoch

\* A worker that has prepared no PATCH threatens no card.
LEMMA NoPatchFits ==
  ASSUME NEW c
  PROVE  NoPatch \in Patch /\ ~NoPatch.fresh /\ Fits(c, NoPatch) /\ NewCard \in Snapshot
<1>1. 0 \in 0..MaxLease /\ 0 \in 0..MaxEpoch /\ "ready" \in Status
      /\ NoWorker \in Worker \cup {NoWorker}
  BY GiteaAssumption DEF Status
<1>2. NewCard \in Snapshot
  BY <1>1 DEF NewCard, Snapshot
<1> QED
  BY <1>2 DEF NoPatch, Patch, Fits

\* A PATCH that carries the version it read is fresh and holds its body.
LEMMA FreshPatch ==
  ASSUME NEW b \in Snapshot
  PROVE  Fresh(b) \in Patch /\ Fresh(b).fresh /\ Fresh(b).body = b
BY DEF Fresh, Patch

\* acquire_lease builds a body that takes over a free lease.
LEMMA AcquireBody ==
  ASSUME NEW c \in Snapshot, NEW w \in Worker, NEW d \in 1..MaxLease,
         ~Own(c, w), ~HeldByOther(c, w),
         NEW b, b = [c EXCEPT !.owner = w, !.left = d, !.epoch = NextEpoch(c.epoch)]
  PROVE  b \in Snapshot /\ b.owner = w /\ Takes(c, b)
<1>1. c.left \in 0..MaxLease /\ c.epoch \in 0..MaxEpoch
  BY DEF Snapshot
<1>2. d \in 0..MaxLease /\ NextEpoch(c.epoch) \in 0..MaxEpoch
  BY <1>1, NextEpochType, GiteaAssumption
<1>3. c.owner = NoWorker \/ c.left = 0
  BY <1>1, GiteaAssumption DEF Own, HeldByOther
<1>4. b \in Snapshot /\ b.owner = w /\ b.epoch = NextEpoch(c.epoch)
  BY <1>2 DEF Snapshot
<1> QED
  BY <1>3, <1>4, GiteaAssumption DEF Takes

\* transition_state, renew_lease and release_or_fail build bodies that keep it or
\* give it up.
LEMMA ClaimBody ==
  ASSUME NEW c \in Snapshot, NEW b, b = [c EXCEPT !.state = "in_progress"]
  PROVE  b \in Snapshot /\ Keeps(c, b)
BY DEF Snapshot, Status, Keeps

\* renew_lease writes a snapshot with the owner and the epoch it read.
LEMMA RenewBody ==
  ASSUME NEW c \in Snapshot, NEW d \in 1..MaxLease, NEW b, b = [c EXCEPT !.left = d]
  PROVE  b \in Snapshot /\ Keeps(c, b)
<1>1. d \in 0..MaxLease
  BY GiteaAssumption
<1> QED
  BY <1>1 DEF Snapshot, Keeps

\* release_or_fail writes a snapshot that grants nothing new.
LEMMA ReleaseBody ==
  ASSUME NEW c \in Snapshot, NEW s \in Status, NEW b, b = Released(c, s)
  PROVE  b \in Snapshot /\ Keeps(c, b)
<1>1. 0 \in 0..MaxLease
  BY GiteaAssumption
<1> QED
  BY <1>1 DEF Snapshot, Keeps, Released

\* Time passes for the card and for what is on its way to it.
LEMMA OlderFits ==
  ASSUME NEW c \in Snapshot, NEW p \in Patch
  PROVE  /\ Older(c) \in Snapshot
         /\ Older(c).owner = c.owner /\ Older(c).epoch = c.epoch
         /\ OlderPatch(p) \in Patch /\ OlderPatch(p).fresh = p.fresh
         /\ OlderPatch(p).body.owner = p.body.owner
         /\ Fits(c, p) => Fits(Older(c), OlderPatch(p))
         /\ Takes(c, p.body) => Takes(Older(c), OlderPatch(p).body)
<1>1. ASSUME NEW x \in Snapshot
      PROVE  /\ Older(x) \in Snapshot
             /\ Older(x).owner = x.owner /\ Older(x).epoch = x.epoch
             /\ x.left = 0 => Older(x).left = 0
  <2>1. x.left \in 0..MaxLease /\ MaxLease \in Nat
    BY GiteaAssumption DEF Snapshot
  <2>2. (IF x.left = 0 THEN 0 ELSE x.left - 1) \in 0..MaxLease
    BY <2>1
  <2> QED
    BY <2>2 DEF Older, Snapshot
<1>2. p.body \in Snapshot
  BY DEF Patch
<1>3. /\ OlderPatch(p) \in Patch /\ OlderPatch(p).fresh = p.fresh
      /\ OlderPatch(p).body = Older(p.body)
  BY <1>1, <1>2 DEF OlderPatch, Patch
<1>4. Takes(c, p.body) => Takes(Older(c), OlderPatch(p).body)
  BY <1>1, <1>2, <1>3 DEF Takes
<1>5. Keeps(c, p.body) => Keeps(Older(c), OlderPatch(p).body)
  BY <1>1, <1>2, <1>3 DEF Keeps
<1> QED
  BY <1>1, <1>2, <1>3, <1>4, <1>5 DEF Fits

-----------------------------------------------------------------------------
(* Grants.                                                                     *)

\* A body that follows the card keeps the grants in order.
LEMMA GrantsFollow ==
  ASSUME NEW c \in Snapshot, NEW b \in Snapshot, NEW g, GrantsFit(c, g),
         Keeps(c, b) \/ Takes(c, b)
  PROVE  GrantsFit(b, g)
<1>1. c.epoch \in 0..MaxEpoch /\ b.epoch \in 0..MaxEpoch /\ MaxEpoch \in Nat
  BY GiteaAssumption DEF Snapshot
<1>2. CASE Keeps(c, b)
  BY <1>2 DEF Keeps, GrantsFit
<1>3. CASE Takes(c, b)
  <2>1. b.epoch = NextEpoch(c.epoch)
    BY <1>3 DEF Takes
  <2>2. CASE c.epoch = MaxEpoch
    <3>1. b.epoch = MaxEpoch
      BY <1>1, <2>1, <2>2, NextEpochType
    <3> QED
      BY <1>1, <2>2, <3>1 DEF GrantsFit
  <2>3. CASE c.epoch # MaxEpoch
    <3>1. b.epoch = c.epoch + 1
      BY <1>1, <2>1, <2>3, NextEpochType
    <3> QED
      BY <1>1, <3>1 DEF GrantsFit
  <2> QED
    BY <2>2, <2>3
<1> QED
  BY <1>2, <1>3

\* Telling the owner that it holds the card's epoch keeps them in order.
LEMMA GrantFits ==
  ASSUME NEW c \in Snapshot, NEW w \in Worker, c.owner = w,
         NEW g \in [1..MaxEpoch -> SUBSET Worker], GrantsFit(c, g),
         NEW e, e = c.epoch, NEW h, h = [g EXCEPT ![e] = @ \cup {w}]
  PROVE  h \in [1..MaxEpoch -> SUBSET Worker] /\ GrantsFit(c, h)
<1>1. w # NoWorker /\ MaxEpoch \in Nat
  BY GiteaAssumption
<1>2. h \in [1..MaxEpoch -> SUBSET Worker]
  OBVIOUS
<1>3. ASSUME NEW i \in 1..(MaxEpoch - 1)
      PROVE  /\ i > c.epoch => h[i] = {}
             /\ \A u, v \in h[i] : u = v
             /\ i = c.epoch /\ c.owner # NoWorker => h[i] \subseteq {c.owner}
  <2>1. i \in 1..MaxEpoch
    BY <1>1
  <2>2. CASE i = e
    <3>1. g[i] \subseteq {w}
      BY <1>1, <1>3, <2>2 DEF GrantsFit
    <3>2. h[i] = g[i] \cup {w}
      BY <2>1, <2>2
    <3>3. c.epoch \in Nat
      BY GiteaAssumption DEF Snapshot
    <3> QED
      BY <1>3, <2>2, <3>1, <3>2, <3>3
  <2>3. CASE i # e
    <3>1. h[i] = g[i]
      BY <2>1, <2>3
    <3> QED
      BY <1>3, <2>3, <3>1 DEF GrantsFit
  <2> QED
    BY <2>2, <2>3
<1> QED
  BY <1>2, <1>3 DEF GrantsFit

-----------------------------------------------------------------------------
(* What the steps are made of.                                                 *)

\* Types of what a worker keeps for itself.
LocalOK == /\ pc \in [Worker -> {"idle", "acquire", "acquiring", "claim", "claiming",
                                 "working", "release", "releasing", "joining", "dead"}]
           /\ claim \in [Worker -> Claim]
           /\ rpc \in [Worker -> {"off", "waiting", "renewing"}]

\* The same for the issue and what is on its way to it.
SharedOK == /\ card \in Snapshot
            /\ out \in [Worker -> Patch] /\ rout \in [Worker -> Patch]
            /\ stray \subseteq Patch
            /\ faults \in 0..MaxFaults

\* The types of the workers' locals, of what they share and of the grants, apart.
LEMMA TypeParts ==
  TypeOK <=> LocalOK /\ SharedOK /\ grants \in [1..MaxEpoch -> SUBSET Worker]
BY DEF TypeOK, LocalOK, SharedOK

\* A worker that goes to l, and only that worker.
LEMMA GotoFacts ==
  ASSUME LocalOK, NEW w \in Worker, NEW l, Goto(w, l)
  PROVE  pc'[w] = l /\ \A v \in Worker \ {w} : pc'[v] = pc[v]
BY DEF LocalOK, Goto

\* A worker that leaves a card is idle, and no other worker moves.
LEMMA LeaveFacts ==
  ASSUME LocalOK, NEW w \in Worker, Leave(w)
  PROVE  LocalOK' /\ pc'[w] = "idle" /\ \A v \in Worker \ {w} : pc'[v] = pc[v]
<1>1. 0 \in 0..MaxEpoch /\ "ready" \in Status
  BY GiteaAssumption DEF Status
<1>2. NoClaim \in Claim
  BY <1>1 DEF NoClaim, Claim
<1> QED
  BY <1>2 DEF Leave, Goto, LocalOK

\* A worker whose lease is granted goes on to claim its card.
LEMMA GrantedFacts ==
  ASSUME LocalOK, NEW w \in Worker, NEW e \in 0..MaxEpoch, Granted(w, e)
  PROVE  LocalOK' /\ pc'[w] = "claim" /\ \A v \in Worker \ {w} : pc'[v] = pc[v]
<1>1. claim[w] \in Claim
  BY DEF LocalOK
<1>2. [claim[w] EXCEPT !.epoch = e] \in Claim
  BY <1>1 DEF Claim
<1> QED
  BY <1>2 DEF Granted, Goto, LocalOK

\* A worker that starts to work has its renewal loop running.
LEMMA StartFacts ==
  ASSUME LocalOK, NEW w \in Worker, Start(w)
  PROVE  LocalOK' /\ pc'[w] = "working" /\ \A v \in Worker \ {w} : pc'[v] = pc[v]
BY DEF Start, Goto, LocalOK

\* A worker whose write is refused releases its card or waits for its renewal
\* loop.
LEMMA RefusedFacts ==
  ASSUME LocalOK, NEW w \in Worker, Refused(w), UNCHANGED rpc
  PROVE  /\ LocalOK' /\ pc'[w] \in {"release", "joining"}
         /\ \A v \in Worker \ {w} : pc'[v] = pc[v]
<1>1. claim[w] \in Claim
  BY DEF LocalOK
<1>2. [claim[w] EXCEPT !.target = "blocked"] \in Claim
  BY <1>1 DEF Claim
<1> QED
  BY <1>2 DEF Refused, Goto, LocalOK

\* An accepted patch makes every other one stale.
LEMMA AcceptFacts ==
  ASSUME Inv, NEW p \in Patch, Fits(card, p), NEW o, NEW r, Accept(p, o, r),
         faults' \in 0..MaxFaults
  PROVE  SharedOK' /\ PatchesFit' /\ GrantsFit(card', grants) /\ card' = p.body
<1>1. /\ p.fresh /\ card' = p.body /\ stray' = {}
      /\ out' = [w \in Worker |-> NoPatch] /\ rout' = [w \in Worker |-> NoPatch]
  BY DEF Accept
<1>2. NoPatch \in Patch /\ ~NoPatch.fresh /\ Fits(card', NoPatch)
  BY NoPatchFits
<1>3. p.body \in Snapshot /\ card \in Snapshot
  BY DEF Patch, Inv, TypeOK
<1>4. GrantsFit(card', grants)
  <2>1. Keeps(card, p.body) \/ Takes(card, p.body)
    BY <1>1 DEF Fits
  <2> QED
    BY <1>1, <1>3, <2>1, GrantsFollow DEF Inv
<1>5. SharedOK'
  BY <1>1, <1>2, <1>3 DEF SharedOK
<1>6. PatchesFit'
  BY <1>1, <1>2 DEF PatchesFit
<1> QED
  BY <1>1, <1>4, <1>5, <1>6

\* Whatever becomes of a request, the patches that are left fit the card.
LEMMA SendFacts ==
  ASSUME Inv, NEW p \in Patch, Fits(card, p),
         NEW o \in [Worker -> Patch], NEW r \in [Worker -> Patch],
         \A w \in Worker : Fits(card, o[w]) /\ Fits(card, r[w]),
         \A w \in Worker : pc'[w] = "acquiring" /\ o[w].fresh =>
           o[w].body.owner = w /\ Takes(card, o[w].body),
         NEW answer \in {"ok", "conflict", "error"}, Send(p, o, r, answer)
  PROVE  /\ SharedOK' /\ PatchesFit' /\ GrantsFit(card', grants)
         /\ answer = "ok" => card' = p.body /\ p.fresh
<1>1. faults' \in 0..MaxFaults
  BY GiteaAssumption DEF Send, Fault, Inv, TypeOK
<1>2. CASE Accept(p, o, r)
  BY <1>1, <1>2, AcceptFacts DEF Accept
<1>3. CASE /\ card' = card /\ out' = o /\ rout' = r /\ answer # "ok"
           /\ stray' \in {stray, stray \cup {q \in {p} : q.fresh}}
  <2>1. stray' \subseteq Patch /\ \A q \in stray' : Fits(card, q)
    BY <1>3 DEF Inv, TypeOK, PatchesFit
  <2>2. SharedOK'
    BY <1>1, <1>3, <2>1 DEF SharedOK, Inv, TypeOK
  <2>3. PatchesFit'
    BY <1>3, <2>1 DEF PatchesFit
  <2> QED
    BY <1>3, <2>2, <2>3 DEF Inv
<1> QED
  BY <1>2, <1>3 DEF Send

\* The request of worker w, which waits in no other place for it.
LEMMA SendOutFacts ==
  ASSUME Inv, NEW w \in Worker, NEW answer \in {"ok", "conflict", "error"},
         SendOut(w, answer), \A v \in Worker \ {w} : pc'[v] = pc[v]
  PROVE  /\ SharedOK' /\ PatchesFit' /\ GrantsFit(card', grants)
         /\ answer = "ok" => card' = out[w].body /\ out[w].fresh
<1> DEFINE o == [out EXCEPT ![w] = NoPatch]
<1>1. out \in [Worker -> Patch] /\ rout \in [Worker -> Patch] /\ out[w] \in Patch
  BY DEF Inv, TypeOK
<1>2. NoPatch \in Patch /\ ~NoPatch.fresh /\ Fits(card, NoPatch)
  BY NoPatchFits
<1>3. o \in [Worker -> Patch] /\ o[w] = NoPatch /\ \A v \in Worker \ {w} : o[v] = out[v]
  BY <1>1, <1>2
<1>4. Send(out[w], o, rout, answer)
  BY DEF SendOut
<1> HIDE DEF o
<1>5. \A v \in Worker : Fits(card, o[v]) /\ Fits(card, rout[v])
  BY <1>2, <1>3 DEF Inv, PatchesFit
<1>6. \A v \in Worker : pc'[v] = "acquiring" /\ o[v].fresh =>
        o[v].body.owner = v /\ Takes(card, o[v].body)
  BY <1>2, <1>3 DEF Inv, PatchesFit
<1>7. Fits(card, out[w])
  BY DEF Inv, PatchesFit
<1> QED
  BY <1>1, <1>3, <1>4, <1>5, <1>6, <1>7, SendFacts

\* Worker w builds a patch that fits, or none.
LEMMA BuildFacts ==
  ASSUME Inv, NEW w \in Worker, NEW b \in Snapshot, Keeps(card, b) \/ Takes(card, b),
         out' = [out EXCEPT ![w] = Fresh(b)], UNCHANGED <<card, rout, stray, faults>>,
         \A v \in Worker \ {w} : pc'[v] = pc[v],
         pc'[w] = "acquiring" => b.owner = w /\ Takes(card, b)
  PROVE  SharedOK' /\ PatchesFit'
<1>1. Fresh(b) \in Patch /\ Fresh(b).fresh /\ Fresh(b).body = b
  BY FreshPatch
<1>2. out' \in [Worker -> Patch] /\ out'[w] = Fresh(b)
      /\ \A v \in Worker \ {w} : out'[v] = out[v]
  BY <1>1 DEF Inv, TypeOK
<1>3. Fits(card, Fresh(b))
  BY <1>1 DEF Fits
<1>4. SharedOK'
  BY <1>2 DEF SharedOK, Inv, TypeOK
<1>5. PatchesFit'
  BY <1>1, <1>2, <1>3 DEF PatchesFit, Inv
<1> QED
  BY <1>4, <1>5

\* Nothing is built or sent, and nobody comes to send an acquisition.
LEMMA QuietFacts ==
  ASSUME Inv, UNCHANGED <<card, out, rout, stray, faults>>,
         \A v \in Worker : pc'[v] = "acquiring" => pc[v] = "acquiring"
  PROVE  SharedOK' /\ PatchesFit'
BY DEF Inv, TypeOK, SharedOK, PatchesFit

-----------------------------------------------------------------------------
(* The steps of a worker.                                                      *)

\* The invariant, put together from its parts.
LEMMA InvParts ==
  ASSUME LocalOK', SharedOK', PatchesFit', grants' \in [1..MaxEpoch -> SUBSET Worker],
         GrantsFit(card', grants')
  PROVE  Inv'
BY DEF Inv, TypeOK, LocalOK, SharedOK, GrantsFit

\* fetch_ready_cards keeps the invariant.
LEMMA FetchKeepsInv ==
  ASSUME Inv, NEW w \in Worker, Fetch(w)
  PROVE  Inv'
<1>1. LocalOK /\ claim[w] \in Claim /\ card.state \in Status
  BY DEF Inv, TypeOK, LocalOK, Snapshot
<1>2. [claim[w] EXCEPT !.from = card.state] \in Claim
  BY <1>1 DEF Claim
<1>3. LocalOK' /\ \A v \in Worker : pc'[v] = "acquiring" => pc[v] = "acquiring"
  BY <1>1, <1>2 DEF Fetch, Goto, LocalOK
<1> QED
  BY <1>3, QuietFacts, InvParts DEF Fetch, Inv, TypeOK

\* The reading half of acquire_lease prepares a PATCH that fits the card it read.
LEMMA AcquireReadKeepsInv ==
  ASSUME Inv, NEW w \in Worker, NEW d \in 1..MaxLease, AcquireRead(w, d)
  PROVE  Inv'
<1>1. /\ LocalOK /\ card \in Snapshot /\ card.epoch \in 0..MaxEpoch
      /\ grants \in [1..MaxEpoch -> SUBSET Worker] /\ GrantsFit(card, grants)
      /\ UNCHANGED <<card, rout, stray, faults>> /\ pc[w] = "acquire"
  BY DEF Inv, TypeOK, LocalOK, Snapshot, AcquireRead
<1>2. CASE Own(card, w) /\ Granted(w, card.epoch) /\ UNCHANGED out
  <2>1. LocalOK' /\ pc'[w] = "claim" /\ \A v \in Worker \ {w} : pc'[v] = pc[v]
    BY <1>1, <1>2, GrantedFacts
  <2>2. SharedOK' /\ PatchesFit'
    BY <1>1, <1>2, <2>1, QuietFacts
  <2>3. card.owner = w /\ grants' = [grants EXCEPT ![card.epoch] = @ \cup {w}]
    BY <1>2 DEF Own, Granted
  <2>4. grants' \in [1..MaxEpoch -> SUBSET Worker] /\ GrantsFit(card, grants')
    BY <1>1, <2>3, GrantFits
  <2> QED
    BY <1>1, <2>1, <2>2, <2>4, InvParts
<1>3. CASE Leave(w) /\ UNCHANGED <<out, grants>>
  <2>1. LocalOK' /\ pc'[w] = "idle" /\ \A v \in Worker \ {w} : pc'[v] = pc[v]
    BY <1>1, <1>3, LeaveFacts
  <2>2. SharedOK' /\ PatchesFit'
    BY <1>1, <1>3, <2>1, QuietFacts
  <2> QED
    BY <1>1, <1>3, <2>1, <2>2, InvParts
<1>4. CASE /\ ~Own(card, w) /\ ~HeldByOther(card, w)
           /\ out' = [out EXCEPT ![w] = Fresh([card EXCEPT !.owner = w, !.left = d,
                                                           !.epoch = NextEpoch(@)])]
           /\ Goto(w, "acquiring") /\ UNCHANGED <<claim, rpc, grants>>
  <2>1. PICK b : b = [card EXCEPT !.owner = w, !.left = d, !.epoch = NextEpoch(@)]
    OBVIOUS
  <2>2. b \in Snapshot /\ b.owner = w /\ Takes(card, b)
    <3>1. ~Own(card, w) /\ ~HeldByOther(card, w) /\ card \in Snapshot
      BY <1>1, <1>4
    <3>2. b = [card EXCEPT !.owner = w, !.left = d, !.epoch = NextEpoch(card.epoch)]
      BY <2>1
    <3> QED
      BY <3>1, <3>2, AcquireBody
  <2>3. out' = [out EXCEPT ![w] = Fresh(b)]
    BY <1>4, <2>1
  <2>4. LocalOK' /\ \A v \in Worker \ {w} : pc'[v] = pc[v]
    BY <1>1, <1>4 DEF LocalOK, Goto
  <2>5. SharedOK' /\ PatchesFit'
    BY <1>1, <2>2, <2>3, <2>4, BuildFacts
  <2> QED
    BY <1>1, <1>4, <2>4, <2>5, InvParts
<1> QED
  BY <1>2, <1>3, <1>4 DEF AcquireRead

\* The epoch of an accepted acquisition is told to the worker that is its owner.
LEMMA AcquireWriteKeepsInv ==
  ASSUME Inv, NEW w \in Worker, AcquireWrite(w)
  PROVE  Inv'
<1>1. PICK answer \in {"ok", "conflict", "error"} :
        /\ SendOut(w, answer)
        /\ \/ answer = "ok" /\ Granted(w, out[w].body.epoch)
           \/ answer # "ok" /\ Leave(w) /\ UNCHANGED grants
  BY DEF AcquireWrite
<1>2. /\ LocalOK /\ grants \in [1..MaxEpoch -> SUBSET Worker] /\ pc[w] = "acquiring"
      /\ out[w].body.epoch \in 0..MaxEpoch
  BY DEF Inv, TypeOK, LocalOK, Patch, Snapshot, AcquireWrite
<1>3. LocalOK' /\ pc'[w] # "acquiring" /\ \A v \in Worker \ {w} : pc'[v] = pc[v]
  BY <1>1, <1>2, GrantedFacts, LeaveFacts
<1>4. /\ SharedOK' /\ PatchesFit' /\ GrantsFit(card', grants)
      /\ answer = "ok" => card' = out[w].body /\ out[w].fresh
  BY <1>1, <1>3, SendOutFacts
<1>5. CASE answer = "ok"
  <2>1. PICK c : c = card'
    OBVIOUS
  <2>2. c.owner = w /\ c.epoch = out[w].body.epoch /\ c \in Snapshot /\ GrantsFit(c, grants)
    BY <1>2, <1>4, <1>5, <2>1 DEF Inv, PatchesFit, SharedOK
  <2>3. grants' = [grants EXCEPT ![c.epoch] = @ \cup {w}]
    BY <1>1, <1>5, <2>2 DEF Granted
  <2>4. grants' \in [1..MaxEpoch -> SUBSET Worker] /\ GrantsFit(c, grants')
    BY <1>2, <2>2, <2>3, GrantFits
  <2> QED
    BY <1>3, <1>4, <2>1, <2>4, InvParts
<1>6. CASE answer # "ok"
  BY <1>1, <1>2, <1>3, <1>4, <1>6, InvParts
<1> QED
  BY <1>5, <1>6

\* The reading half of the transition to in_progress keeps the invariant.
LEMMA ClaimReadKeepsInv ==
  ASSUME Inv, NEW w \in Worker, ClaimRead(w)
  PROVE  Inv'
<1>1. /\ LocalOK /\ card \in Snapshot
      /\ grants' \in [1..MaxEpoch -> SUBSET Worker] /\ GrantsFit(card', grants')
      /\ UNCHANGED <<card, rout, stray, faults>>
  BY DEF Inv, TypeOK, LocalOK, ClaimRead
<1>2. CASE /\ out' = [out EXCEPT ![w] = Fresh([card EXCEPT !.state = "in_progress"])]
           /\ Goto(w, "claiming") /\ UNCHANGED <<claim, rpc>>
  <2>1. PICK b : b = [card EXCEPT !.state = "in_progress"]
    OBVIOUS
  <2>2. b \in Snapshot /\ Keeps(card, b)
    BY <1>1, <2>1, ClaimBody
  <2>3. LocalOK' /\ pc'[w] = "claiming" /\ \A v \in Worker \ {w} : pc'[v] = pc[v]
    BY <1>1, <1>2 DEF LocalOK, Goto
  <2>4. SharedOK' /\ PatchesFit'
    BY <1>1, <1>2, <2>1, <2>2, <2>3, BuildFacts
  <2> QED
    BY <1>1, <2>3, <2>4, InvParts
<1>3. CASE (Start(w) \/ Leave(w)) /\ UNCHANGED out
  <2>1. LocalOK' /\ pc'[w] # "acquiring" /\ \A v \in Worker \ {w} : pc'[v] = pc[v]
    BY <1>1, <1>3, StartFacts, LeaveFacts
  <2> QED
    BY <1>1, <1>3, <2>1, QuietFacts, InvParts
<1> QED
  BY <1>2, <1>3 DEF ClaimRead

\* The PATCH that claims a card keeps the invariant.
LEMMA ClaimWriteKeepsInv ==
  ASSUME Inv, NEW w \in Worker, ClaimWrite(w)
  PROVE  Inv'
<1>1. PICK answer \in {"ok", "conflict", "error"} : SendOut(w, answer) /\ (Start(w) \/ Leave(w))
  BY DEF ClaimWrite
<1>2. LocalOK /\ grants' \in [1..MaxEpoch -> SUBSET Worker] /\ grants' = grants
  BY DEF Inv, TypeOK, LocalOK, ClaimWrite
<1>3. LocalOK' /\ \A v \in Worker \ {w} : pc'[v] = pc[v]
  BY <1>1, <1>2, StartFacts, LeaveFacts
<1>4. SharedOK' /\ PatchesFit' /\ GrantsFit(card', grants)
  BY <1>1, <1>3, SendOutFacts
<1> QED
  BY <1>2, <1>3, <1>4, InvParts

\* The reading half of renew_lease prepares a PATCH that fits the card it read.
LEMMA RenewReadKeepsInv ==
  ASSUME Inv, NEW w \in Worker, NEW d \in 1..MaxLease, RenewRead(w, d)
  PROVE  Inv'
<1>1. PICK b : b = [card EXCEPT !.left = d]
  OBVIOUS
<1>2. b \in Snapshot /\ Keeps(card, b)
  BY <1>1, RenewBody DEF Inv, TypeOK
<1>3. Fresh(b) \in Patch /\ Fits(card, Fresh(b))
  BY <1>2, FreshPatch DEF Fits
<1>4. /\ rout' = [rout EXCEPT ![w] = Fresh(b)]
      /\ UNCHANGED <<card, pc, claim, out, stray, faults, grants>>
  BY <1>1 DEF RenewRead
<1>5. rout' \in [Worker -> Patch] /\ \A v \in Worker : Fits(card, rout'[v])
  BY <1>3, <1>4 DEF Inv, TypeOK, PatchesFit
<1>6. LocalOK'
  BY <1>4 DEF RenewRead, LocalOK, Inv, TypeOK
<1>7. SharedOK'
  BY <1>4, <1>5 DEF SharedOK, Inv, TypeOK
<1>8. PatchesFit'
  BY <1>4, <1>5 DEF PatchesFit, Inv
<1> QED
  BY <1>4, <1>6, <1>7, <1>8, InvParts DEF Inv, TypeOK

\* The PATCH of a renewal keeps the invariant.
LEMMA RenewWriteKeepsInv ==
  ASSUME Inv, NEW w \in Worker, RenewWrite(w)
  PROVE  Inv'
<1> DEFINE r == [rout EXCEPT ![w] = NoPatch]
<1>1. PICK answer \in {"ok", "conflict", "error"} :
        /\ Send(rout[w], out, r, answer)
        /\ LET other == answer = "ok" /\ rout[w].body.epoch # claim[w].epoch
           IN /\ claim' = [claim EXCEPT ![w].expired = @ \/ other]
              /\ rpc' = [rpc EXCEPT ![w] = IF other \/ answer = "error"
                                           THEN "off" ELSE "waiting"]
  BY DEF RenewWrite
<1>2. UNCHANGED <<pc, grants>>
  BY DEF RenewWrite
<1>3. LocalOK'
  <2>1. claim \in [Worker -> Claim] /\ claim[w] \in Claim
    BY DEF Inv, TypeOK
  <2>2. PICK z \in BOOLEAN : claim' = [claim EXCEPT ![w].expired = z]
    <3>1. claim[w].expired \in BOOLEAN
      BY <2>1 DEF Claim
    <3> QED
      BY <1>1, <3>1
  <2>3. [claim[w] EXCEPT !.expired = z] \in Claim
    BY <2>1 DEF Claim
  <2>4. claim' \in [Worker -> Claim]
    BY <2>1, <2>2, <2>3
  <2>5. rpc' \in [Worker -> {"off", "waiting", "renewing"}]
    BY <1>1 DEF Inv, TypeOK
  <2> QED
    BY <1>2, <2>4, <2>5 DEF Inv, TypeOK, LocalOK
<1>4. out \in [Worker -> Patch] /\ rout \in [Worker -> Patch] /\ rout[w] \in Patch
  BY DEF Inv, TypeOK
<1>5. NoPatch \in Patch /\ Fits(card, NoPatch)
  BY NoPatchFits
<1>6. r \in [Worker -> Patch] /\ \A v \in Worker : r[v] = NoPatch \/ r[v] = rout[v]
  BY <1>4, <1>5
<1> HIDE DEF r
<1>7. \A v \in Worker : Fits(card, out[v]) /\ Fits(card, r[v])
  BY <1>5, <1>6 DEF Inv, PatchesFit
<1>8. \A v \in Worker : pc'[v] = "acquiring" /\ out[v].fresh =>
        out[v].body.owner = v /\ Takes(card, out[v].body)
  BY <1>2 DEF Inv, PatchesFit
<1>9. SharedOK' /\ PatchesFit' /\ GrantsFit(card', grants)
  <2>1. Fits(card, rout[w])
    BY DEF Inv, PatchesFit
  <2> QED
    BY <1>1, <1>4, <1>6, <1>7, <1>8, <2>1, SendFacts
<1> QED
  BY <1>2, <1>3, <1>9, InvParts DEF Inv, TypeOK

\* The work on a card, done or failed, keeps the invariant.
LEMMA WorkKeepsInv ==
  ASSUME Inv, NEW w \in Worker, NEW ok \in BOOLEAN, Work(w, ok)
  PROVE  Inv'
<1>1. LocalOK /\ claim[w] \in Claim
  BY DEF Inv, TypeOK, LocalOK
<1>2. PICK s \in {"code_review", "blocked"} : claim' = [claim EXCEPT ![w].target = s]
  BY DEF Work
<1>3. [claim[w] EXCEPT !.target = s] \in Claim
  BY <1>1 DEF Claim
<1>4. LocalOK' /\ \A v \in Worker : pc'[v] = "acquiring" => pc[v] = "acquiring"
  BY <1>1, <1>2, <1>3 DEF Work, Goto, LocalOK
<1> QED
  BY <1>4, QuietFacts, InvParts DEF Work, Inv, TypeOK

\* release_or_fail may release the card of another worker, and keeps its epoch.
LEMMA ReleaseReadKeepsInv ==
  ASSUME Inv, NEW w \in Worker, ReleaseRead(w)
  PROVE  Inv'
<1> DEFINE s == claim[w].target
<1>1. /\ LocalOK /\ card \in Snapshot
      /\ grants' \in [1..MaxEpoch -> SUBSET Worker] /\ GrantsFit(card', grants')
      /\ UNCHANGED <<card, rpc, rout, stray, faults>>
  BY DEF Inv, TypeOK, LocalOK, ReleaseRead
<1>2. CASE out' = [out EXCEPT ![w] = Fresh(Released(card, s))] /\ Goto(w, "releasing")
           /\ UNCHANGED claim
  <2>1. PICK b : b = Released(card, s)
    OBVIOUS
  <2>2. s \in Status
    BY <1>1 DEF LocalOK, Claim, Status
  <2>3. b \in Snapshot /\ Keeps(card, b)
    BY <1>1, <2>1, <2>2, ReleaseBody
  <2>4. LocalOK' /\ pc'[w] = "releasing" /\ \A v \in Worker \ {w} : pc'[v] = pc[v]
    BY <1>1, <1>2 DEF LocalOK, Goto
  <2>5. out' = [out EXCEPT ![w] = Fresh(b)]
    BY <1>2, <2>1
  <2>6. SharedOK' /\ PatchesFit'
    BY <1>1, <2>3, <2>4, <2>5, BuildFacts
  <2> QED
    BY <1>1, <2>4, <2>6, InvParts
<1>3. CASE Goto(w, "joining") /\ UNCHANGED <<out, claim>>
  <2>1. LocalOK' /\ \A v \in Worker : pc'[v] = "acquiring" => pc[v] = "acquiring"
    BY <1>1, <1>3 DEF LocalOK, Goto
  <2> QED
    BY <1>1, <1>3, <2>1, QuietFacts, InvParts
<1>4. CASE Refused(w) /\ UNCHANGED out
  <2>1. LocalOK' /\ \A v \in Worker : pc'[v] = "acquiring" => pc[v] = "acquiring"
    BY <1>1, <1>4, RefusedFacts
  <2> QED
    BY <1>1, <1>4, <2>1, QuietFacts, InvParts
<1> QED
  BY <1>2, <1>3, <1>4 DEF ReleaseRead

\* The PATCH of release_or_fail keeps the invariant.
LEMMA ReleaseWriteKeepsInv ==
  ASSUME Inv, NEW w \in Worker, ReleaseWrite(w)
  PROVE  Inv'
<1>1. PICK answer \in {"ok", "conflict", "error"} :
        SendOut(w, answer) /\ (Refused(w) \/ (Goto(w, "joining") /\ UNCHANGED claim))
  BY DEF ReleaseWrite
<1>2. LocalOK /\ grants \in [1..MaxEpoch -> SUBSET Worker] /\ UNCHANGED <<rpc, grants>>
  BY DEF Inv, TypeOK, LocalOK, ReleaseWrite
<1>3. LocalOK' /\ \A v \in Worker \ {w} : pc'[v] = pc[v]
  <2>1. CASE Refused(w)
    BY <1>2, <2>1, RefusedFacts
  <2>2. CASE Goto(w, "joining") /\ UNCHANGED claim
    BY <1>2, <2>2 DEF LocalOK, Goto
  <2> QED
    BY <1>1, <2>1, <2>2
<1>4. SharedOK' /\ PatchesFit' /\ GrantsFit(card', grants)
  BY <1>1, <1>3, SendOutFacts
<1> QED
  BY <1>2, <1>3, <1>4, InvParts

\* A worker that waits for its renewal loop keeps the invariant.
LEMMA JoinKeepsInv ==
  ASSUME Inv, NEW w \in Worker, Join(w)
  PROVE  Inv'
<1>1. LocalOK' /\ \A v \in Worker : pc'[v] = "acquiring" => pc[v] = "acquiring"
  <2>1. LocalOK
    BY DEF Inv, TypeOK, LocalOK
  <2> QED
    BY <2>1, LeaveFacts DEF Join
<1> QED
  BY <1>1, QuietFacts, InvParts DEF Join, Inv, TypeOK

\* What a dead worker was sending was built as before.
LEMMA DieKeepsInv ==
  ASSUME Inv, NEW w \in Worker, Die(w)
  PROVE  Inv'
<1>1. /\ card' = card /\ faults' = faults /\ grants' = grants
      /\ out' = [out EXCEPT ![w] = NoPatch] /\ rout' = [rout EXCEPT ![w] = NoPatch]
      /\ stray' \subseteq stray \cup {out[w], rout[w]}
  BY DEF Die
<1>2. LocalOK' /\ pc'[w] = "dead" /\ \A v \in Worker \ {w} : pc'[v] = pc[v]
  <2>1. 0 \in 0..MaxEpoch /\ "ready" \in Status
    BY GiteaAssumption DEF Status
  <2>2. NoClaim \in Claim
    BY <2>1 DEF NoClaim, Claim
  <2> QED
    BY <2>2 DEF Die, Goto, LocalOK, Inv, TypeOK
<1>3. NoPatch \in Patch /\ ~NoPatch.fresh /\ Fits(card, NoPatch)
  BY NoPatchFits
<1>4. /\ out' \in [Worker -> Patch] /\ rout' \in [Worker -> Patch] /\ stray' \subseteq Patch
      /\ \A v \in Worker : Fits(card, out'[v]) /\ Fits(card, rout'[v])
      /\ \A p \in stray' : Fits(card, p)
      /\ \A v \in Worker : pc'[v] = "acquiring" => v # w /\ out'[v] = out[v] /\ pc[v] = pc'[v]
  BY <1>1, <1>2, <1>3 DEF Inv, TypeOK, PatchesFit
<1>5. SharedOK'
  BY <1>1, <1>4 DEF SharedOK, Inv, TypeOK
<1>6. PatchesFit'
  BY <1>1, <1>4 DEF PatchesFit, Inv
<1> QED
  BY <1>1, <1>2, <1>5, <1>6, InvParts DEF Inv, TypeOK

\* A PATCH given up by its sender and delivered late keeps the invariant: the
\* server refuses it once the card has changed.
LEMMA DeliverKeepsInv ==
  ASSUME Inv, NEW p \in stray, Deliver(p)
  PROVE  Inv'
<1>1. p \in Patch /\ Fits(card, p)
  BY DEF Inv, TypeOK, PatchesFit
<1>2. /\ Accept(p, out, rout) /\ UNCHANGED <<pc, claim, rpc, faults, grants>>
      /\ faults' \in 0..MaxFaults
  BY DEF Deliver, Inv, TypeOK
<1>3. SharedOK' /\ PatchesFit' /\ GrantsFit(card', grants)
  BY <1>1, <1>2, AcceptFacts
<1>4. LocalOK'
  BY <1>2 DEF LocalOK, Inv, TypeOK
<1> QED
  BY <1>2, <1>3, <1>4, InvParts DEF Inv, TypeOK

\* The passing of time keeps the invariant.
LEMMA TickKeepsInv ==
  ASSUME Inv, Tick
  PROVE  Inv'
<1>1. /\ card' = Older(card) /\ UNCHANGED <<pc, claim, rpc, faults, grants>>
      /\ out' = [w \in Worker |-> OlderPatch(out[w])]
      /\ rout' = [w \in Worker |-> OlderPatch(rout[w])]
      /\ stray' = {OlderPatch(p) : p \in stray}
  BY DEF Tick
<1>2. /\ card \in Snapshot
      /\ \A w \in Worker : out[w] \in Patch /\ rout[w] \in Patch
      /\ \A p \in stray : p \in Patch
  BY DEF Inv, TypeOK
<1>3. card' \in Snapshot /\ card'.owner = card.owner /\ card'.epoch = card.epoch
  BY <1>1, <1>2, NoPatchFits, OlderFits
<1>4. \A w \in Worker : /\ out'[w] \in Patch /\ Fits(card', out'[w])
                        /\ rout'[w] \in Patch /\ Fits(card', rout'[w])
  BY <1>1, <1>2, OlderFits DEF Inv, PatchesFit
<1>5. \A p \in stray' : p \in Patch /\ Fits(card', p)
  BY <1>1, <1>2, OlderFits DEF Inv, PatchesFit
<1>6. ASSUME NEW w \in Worker, pc'[w] = "acquiring", out'[w].fresh
      PROVE  out'[w].body.owner = w /\ Takes(card', out'[w].body)
  <2>1. out'[w] = OlderPatch(out[w]) /\ pc[w] = "acquiring"
    BY <1>1, <1>6
  <2>2. out[w].fresh
    BY <1>2, <1>6, <2>1, OlderFits
  <2>3. out[w].body.owner = w /\ Takes(card, out[w].body)
    BY <2>1, <2>2 DEF Inv, PatchesFit
  <2> QED
    BY <1>1, <1>2, <2>1, <2>3, OlderFits
<1>7. SharedOK'
  BY <1>1, <1>3, <1>4, <1>5 DEF SharedOK, Inv, TypeOK
<1>8. PatchesFit'
  BY <1>4, <1>5, <1>6 DEF PatchesFit
<1>9. LocalOK' /\ GrantsFit(card', grants)
  BY <1>1, <1>3 DEF LocalOK, Inv, TypeOK, GrantsFit
<1> QED
  BY <1>1, <1>7, <1>8, <1>9, InvParts DEF Inv, TypeOK

-----------------------------------------------------------------------------
(* Theorems.                                                                   *)

\* The invariant holds of a new card.
LEMMA InitInv == Init => Inv
<1> SUFFICES ASSUME Init PROVE Inv
  OBVIOUS
<1>1. NoPatch \in Patch /\ ~NoPatch.fresh /\ Fits(card, NoPatch) /\ NewCard \in Snapshot
  BY NoPatchFits
<1>2. 0 \in 0..MaxEpoch /\ "ready" \in Status /\ 0 \in 0..MaxFaults
  BY GiteaAssumption DEF Status
<1>3. NoClaim \in Claim
  BY <1>2 DEF NoClaim, Claim
<1>4. TypeOK
  BY <1>1, <1>2, <1>3 DEF Init, TypeOK
<1>5. PatchesFit
  BY <1>1 DEF Init, PatchesFit
<1>6. GrantsFit(card, grants)
  BY GiteaAssumption DEF Init, GrantsFit, NewCard
<1> QED
  BY <1>4, <1>5, <1>6 DEF Inv

\* Every step of workers, server and clock keeps the invariant.
LEMMA NextInv == Inv /\ [Next]_vars => Inv'
<1> SUFFICES ASSUME Inv, [Next]_vars PROVE Inv'
  OBVIOUS
<1>1. ASSUME NEW w \in Worker, Step(w) PROVE Inv'
  BY <1>1, FetchKeepsInv, AcquireReadKeepsInv, AcquireWriteKeepsInv, ClaimReadKeepsInv,
     ClaimWriteKeepsInv, RenewWriteKeepsInv, WorkKeepsInv, ReleaseReadKeepsInv,
     ReleaseWriteKeepsInv, JoinKeepsInv DEF Step
<1>2. ASSUME NEW w \in Worker, Die(w) PROVE Inv'
  BY <1>2, DieKeepsInv
<1>3. ASSUME NEW w \in Worker, NEW d \in 1..MaxLease, RenewRead(w, d) PROVE Inv'
  BY <1>3, RenewReadKeepsInv
<1>4. ASSUME NEW p \in stray, Deliver(p) PROVE Inv'
  BY <1>4, DeliverKeepsInv
<1>5. CASE Tick
  BY <1>5, TickKeepsInv
<1>6. CASE UNCHANGED vars
  BY <1>6 DEF vars, Inv, TypeOK, PatchesFit, GrantsFit
<1> QED
  BY <1>1, <1>2, <1>3, <1>4, <1>5, <1>6 DEF Next

\* The issue, the workers and the patches keep their types.
THEOREM GiteaTypeCorrect == Spec => []TypeOK
<1>1. Inv => TypeOK
  BY DEF Inv
<1> QED
  BY InitInv, NextInv, <1>1, PTL DEF Spec

\* acquire_lease under If-Match tells no two workers that they hold the same
\* epoch, however many answers are lost and patches delayed.
THEOREM EpochsHaveOneOwner == Spec => []EpochHasOneOwner
<1>1. ASSUME Inv PROVE EpochHasOneOwner
  <2> SUFFICES ASSUME NEW e \in 1..(MaxEpoch - 1) PROVE Cardinality(grants[e]) <= 1
    BY DEF EpochHasOneOwner
  <2>1. \A v, w \in grants[e] : v = w
    BY <1>1 DEF Inv, GrantsFit
  <2>2. CASE grants[e] = {}
    <3>1. Cardinality(grants[e]) = 0
      BY <2>2, FS_EmptySet
    <3> QED
      BY <3>1
  <2>3. CASE grants[e] # {}
    <3>1. PICK w : w \in grants[e]
      BY <2>3
    <3>2. grants[e] = {w}
      BY <2>1, <3>1
    <3>3. Cardinality(grants[e]) = 1
      BY <3>2, FS_Singleton
    <3> QED
      BY <3>3
  <2> QED
    BY <2>2, <2>3
<1> QED
  BY InitInv, NextInv, <1>1, PTL DEF Spec

\* Every write of the card is an accepted patch that fits it.
LEMMA SendWrites ==
  ASSUME NEW p, NEW o, NEW r, NEW answer, Send(p, o, r, answer)
  PROVE  card' = card \/ (p.fresh /\ card' = p.body)
BY DEF Send, Accept

\* The card changes by the clock or by a PATCH made from the card as it is.
LEMMA WritesFit ==
  ASSUME Inv, Next
  PROVE  \/ card' = card \/ Tick
         \/ \E p : Fits(card, p) /\ p.fresh /\ card' = p.body
<1>1. ASSUME NEW w \in Worker, Step(w)
      PROVE  card' = card \/ \E p : Fits(card, p) /\ p.fresh /\ card' = p.body
  <2>1. CASE AcquireWrite(w) \/ ClaimWrite(w) \/ ReleaseWrite(w)
    <3>1. PICK answer : SendOut(w, answer)
      BY <2>1 DEF AcquireWrite, ClaimWrite, ReleaseWrite
    <3>2. card' = card \/ (out[w].fresh /\ card' = out[w].body)
      BY <3>1, SendWrites DEF SendOut
    <3> QED
      BY <3>2 DEF Inv, PatchesFit
  <2>2. CASE RenewWrite(w)
    <3>1. PICK answer : Send(rout[w], out, [rout EXCEPT ![w] = NoPatch], answer)
      BY <2>2 DEF RenewWrite
    <3>2. card' = card \/ (rout[w].fresh /\ card' = rout[w].body)
      BY <3>1, SendWrites
    <3> QED
      BY <3>2 DEF Inv, PatchesFit
  <2> QED
    BY <1>1, <2>1, <2>2 DEF Step, Fetch, AcquireRead, ClaimRead, ReleaseRead, Join, Work
<1>2. ASSUME NEW w \in Worker, Die(w) \/ \E d \in 1..MaxLease : RenewRead(w, d)
      PROVE  card' = card
  BY <1>2 DEF Die, RenewRead
<1>3. ASSUME NEW p \in stray, Deliver(p)
      PROVE  Fits(card, p) /\ p.fresh /\ card' = p.body
  BY <1>3 DEF Deliver, Accept, Inv, PatchesFit
<1> QED
  BY <1>1, <1>2, <1>3 DEF Next

\* A late or repeated write never moves an unexpired lease to another worker: a
\* patch that takes over was built when the lease was free, and is stale as soon
\* as anybody has written since.
THEOREM LeasesAreNotStolen == Spec => LeaseNotStolen
<1>1. ASSUME Inv, [Next]_vars
      PROVE  [card.left > 0 /\ card.owner # NoWorker
                => card'.owner \in {card.owner, NoWorker}]_vars
  <2> SUFFICES ASSUME Next, card.left > 0, card.owner # NoWorker
               PROVE  card'.owner \in {card.owner, NoWorker}
    BY <1>1
  <2>1. CASE card' = card
    BY <2>1
  <2>2. CASE Tick
    <3>1. card \in Snapshot /\ NoPatch \in Patch
      BY <1>1, NoPatchFits DEF Inv, TypeOK
    <3> QED
      BY <2>2, <3>1, OlderFits DEF Tick
  <2>3. ASSUME NEW p, Fits(card, p), p.fresh, card' = p.body
        PROVE  card'.owner \in {card.owner, NoWorker}
    <3>1. card.left \in Nat
      BY <1>1, GiteaAssumption DEF Inv, TypeOK, Snapshot
    <3> QED
      BY <2>3, <3>1 DEF Fits, Keeps, Takes
  <2> QED
    BY <1>1, <2>1, <2>2, <2>3, WritesFit
<1> QED
  BY InitInv, NextInv, <1>1, PTL DEF Spec, LeaseNotStolen
=============================================================================
