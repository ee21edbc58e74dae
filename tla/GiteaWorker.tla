----------------------------- MODULE GiteaWorker -----------------------------
(* Workers that share one card kept in the body of a Gitea issue.  Every write *)
(* reads the issue, builds the next snapshot and patches it under the ETag it  *)
(* read; the transport may lose an answer, retry, give up, or deliver a patch  *)
(* after its sender has gone on.  While a worker works, a task of its own      *)
(* renews the lease.  The optional control-plane publications are switched off *)
(* here, as the script that starts the workers leaves them.                    *)
EXTENDS Naturals, FiniteSets

CONSTANTS Worker, NoWorker,
          MaxLease,      \* the longest lease, in ticks
          MaxEpoch,      \* epochs are counted up to here and then stay
          MaxFaults,     \* how many requests the transport may spoil
          MaxCrashes     \* how many workers may die

ASSUME GiteaAssumption ==
  /\ NoWorker \notin Worker
  /\ MaxLease \in Nat \ {0}
  /\ MaxEpoch \in Nat \ {0}
  /\ MaxFaults \in Nat
  /\ MaxCrashes \in Nat

Status == {"ready", "in_progress", "code_review", "blocked"}

\* The moves of the issue state machine between the states the workers use.
Transitions ==
  [s \in Status |->
     CASE s = "ready"       -> {"in_progress", "blocked"}
       [] s = "in_progress" -> {"code_review", "blocked"}
       [] s = "code_review" -> {"ready", "in_progress", "blocked"}
       [] s = "blocked"     -> {"in_progress"}]

\* The issue body; "left" is the time to expires_at, 0 when past or absent.
Snapshot == [state : Status, owner : Worker \cup {NoWorker},
             left : 0..MaxLease, epoch : 0..MaxEpoch]

\* A patch on its way: its body, and whether the ETag it carries is current.  A
\* stale patch is as good as none.
Patch == [body : Snapshot, fresh : BOOLEAN]
NewCard == [state |-> "ready", owner |-> NoWorker, left |-> 0, epoch |-> 0]
NoPatch == [body |-> NewCard, fresh |-> FALSE]

VARIABLES card,      \* the snapshot in the issue
          pc,        \* worker: where run_once stands
          claim,     \* worker: the locals of run_once and _run_claimed
          out,       \* worker: the patch run_once has built
          rpc,       \* worker: where its renewal task stands
          rout,      \* worker: the patch the renewal task has built
          stray,     \* patches whose senders no longer wait for them
          faults,    \* spoiled requests so far
          grants     \* epoch: the workers that were told they hold it

vars == <<card, pc, claim, out, rpc, rout, stray, faults, grants>>

\* The listed state, lease_epoch, the final state being written and
\* lease_state["expired"].
Claim == [from : Status, epoch : 0..MaxEpoch, target : {"code_review", "blocked"},
          expired : BOOLEAN]
NoClaim == [from |-> "ready", epoch |-> 0, target |-> "blocked",
            expired |-> FALSE]

TypeOK ==
  /\ card \in Snapshot
  /\ pc \in [Worker -> {"idle", "acquire", "acquiring", "claim", "claiming",
                        "working", "release", "releasing", "joining", "dead"}]
  /\ claim \in [Worker -> Claim]
  /\ out \in [Worker -> Patch]
  /\ rpc \in [Worker -> {"off", "waiting", "renewing"}]
  /\ rout \in [Worker -> Patch]
  /\ stray \subseteq Patch
  /\ faults \in 0..MaxFaults
  /\ grants \in [1..MaxEpoch -> SUBSET Worker]

Init ==
  /\ card = NewCard
  /\ pc = [w \in Worker |-> "idle"]
  /\ claim = [w \in Worker |-> NoClaim]
  /\ out = [w \in Worker |-> NoPatch]
  /\ rpc = [w \in Worker |-> "off"]
  /\ rout = [w \in Worker |-> NoPatch]
  /\ stray = {}
  /\ faults = 0
  /\ grants = [e \in 1..MaxEpoch |-> {}]

-----------------------------------------------------------------------------
\* The server accepts a patch whose ETag is current; the other patches built
\* from the replaced body are stale from then on, whatever they say.
Accept(p, o, r) ==
  /\ p.fresh
  /\ card' = p.body
  /\ out' = [w \in Worker |-> NoPatch]
  /\ rout' = [w \in Worker |-> NoPatch]
  /\ stray' = {}

Fault == faults < MaxFaults /\ faults' = faults + 1

\* request_response_with_retry on a PATCH, and what its caller sees: "ok"; a
\* "conflict", met at once or by the retry of a write whose answer was lost; an
\* "error" once the retries are used up, the patch applied, dropped or delayed.
\* o and r are the pending patches without this one.
Send(p, o, r, answer) ==
  \/ answer = "ok" /\ Accept(p, o, r) /\ UNCHANGED faults
  \/ answer = "conflict" /\ ~p.fresh /\ out' = o /\ rout' = r /\ UNCHANGED <<card, stray, faults>>
  \/ answer \in {"conflict", "error"} /\ Accept(p, o, r) /\ Fault
  \/ /\ answer = "error" /\ Fault
     /\ stray' \in {stray, stray \cup {q \in {p} : q.fresh}}
     /\ out' = o /\ rout' = r /\ UNCHANGED card

SendOut(w, answer) == Send(out[w], [out EXCEPT ![w] = NoPatch], rout, answer)

\* A delayed patch reaches the server.
Deliver(p) ==
  /\ Accept(p, out, rout)
  /\ UNCHANGED <<pc, claim, rpc, faults, grants>>

Fresh(b) == [body |-> b, fresh |-> TRUE]
Goto(w, l) == pc' = [pc EXCEPT ![w] = l]

\* run_once ends, and with it the renewal task and the locals of the claim.
Leave(w) ==
  /\ Goto(w, "idle")
  /\ claim' = [claim EXCEPT ![w] = NoClaim]
  /\ rpc' = [rpc EXCEPT ![w] = "off"]

-----------------------------------------------------------------------------
\* fetch_ready_cards: the label is the only filter and nothing here removes it,
\* so the card is listed whatever its state.
Fetch(w) ==
  /\ pc[w] = "idle"
  /\ claim' = [claim EXCEPT ![w].from = card.state]
  /\ Goto(w, "acquire")
  /\ UNCHANGED <<card, out, rpc, rout, stray, faults, grants>>

\* The worker is told that it holds epoch e.
Granted(w, e) ==
  /\ claim' = [claim EXCEPT ![w].epoch = e]
  /\ grants' = [grants EXCEPT ![e] = @ \cup {w}]
  /\ Goto(w, "claim")
  /\ UNCHANGED rpc

NextEpoch(e) == IF e = MaxEpoch THEN e ELSE e + 1

\* A mutation for the check of LeaseNotStolen: any lease may be taken over.
HeldByNobody(c, w) == FALSE

Own(c, w) == c.owner = w /\ c.left > 0
HeldByOther(c, w) == c.owner \notin {NoWorker, w} /\ c.left > 0

\* acquire_lease up to its PATCH; an unexpired lease of its own is answered as it
\* is, another's makes the card unavailable.
AcquireRead(w, d) ==
  /\ pc[w] = "acquire"
  /\ \/ Own(card, w) /\ Granted(w, card.epoch) /\ UNCHANGED out
     \/ HeldByOther(card, w) /\ Leave(w) /\ UNCHANGED <<out, grants>>
     \/ /\ ~Own(card, w) /\ ~HeldByOther(card, w)
        /\ out' = [out EXCEPT ![w] = Fresh([card EXCEPT !.owner = w, !.left = d,
                                                        !.epoch = NextEpoch(@)])]
        /\ Goto(w, "acquiring")
        /\ UNCHANGED <<claim, rpc, grants>>
  /\ UNCHANGED <<card, rout, stray, faults>>

\* A conflict skips the card; an error stops the loop, which is started again.
AcquireWrite(w) ==
  /\ pc[w] = "acquiring"
  /\ \E answer \in {"ok", "conflict", "error"} :
       /\ SendOut(w, answer)
       /\ \/ answer = "ok" /\ Granted(w, out[w].body.epoch)
          \/ answer # "ok" /\ Leave(w) /\ UNCHANGED grants

\* The card counts as in progress: the work and the renewal task start.
Start(w) ==
  /\ Goto(w, "working")
  /\ rpc' = [rpc EXCEPT ![w] = "waiting"]
  /\ UNCHANGED claim

\* transition_state up to its PATCH.  The transition is validated against the
\* listed state; a card found in progress counts as moved; otherwise the claim
\* fails and the lease is left to run out.
ClaimRead(w) ==
  LET valid == "in_progress" \in Transitions[claim[w].from] IN
  /\ pc[w] = "claim"
  /\ \/ /\ valid /\ card.state = claim[w].from
        /\ out' = [out EXCEPT ![w] = Fresh([card EXCEPT !.state = "in_progress"])]
        /\ Goto(w, "claiming") /\ UNCHANGED <<claim, rpc>>
     \/ /\ valid /\ card.state = "in_progress"
        /\ Start(w) /\ UNCHANGED out
     \/ /\ ~(valid /\ card.state \in {claim[w].from, "in_progress"})
        /\ Leave(w) /\ UNCHANGED out
  /\ UNCHANGED <<card, rout, stray, faults, grants>>

ClaimWrite(w) ==
  /\ pc[w] = "claiming"
  /\ \E answer \in {"ok", "conflict", "error"} :
       /\ SendOut(w, answer)
       /\ \/ answer = "ok" /\ Start(w)
          \/ answer # "ok" /\ Leave(w)
  /\ UNCHANGED grants

-----------------------------------------------------------------------------
\* renew_lease up to its PATCH, by the renewal task, which runs until run_once
\* stops it on its way out: the owner is compared, the expiry and the epoch are
\* not.  Another owner is answered with None, which the loop passes over: a
\* stutter.
RenewRead(w, d) ==
  /\ pc[w] \in {"working", "release", "releasing"} /\ rpc[w] = "waiting"
  /\ card.owner = w
  /\ rout' = [rout EXCEPT ![w] = Fresh([card EXCEPT !.left = d])]
  /\ rpc' = [rpc EXCEPT ![w] = "renewing"]
  /\ UNCHANGED <<card, pc, claim, out, stray, faults, grants>>

\* A renewed lease of another epoch ends the loop with the lease expired; a
\* conflict is passed over; an error ends the loop.
RenewWrite(w) ==
  /\ rpc[w] = "renewing"
  /\ \E answer \in {"ok", "conflict", "error"} :
       /\ Send(rout[w], out, [rout EXCEPT ![w] = NoPatch], answer)
       /\ LET other == answer = "ok" /\ rout[w].body.epoch # claim[w].epoch
          IN /\ claim' = [claim EXCEPT ![w].expired = @ \/ other]
             /\ rpc' = [rpc EXCEPT ![w] = IF other \/ answer = "error"
                                          THEN "off" ELSE "waiting"]
  /\ UNCHANGED <<pc, grants>>

-----------------------------------------------------------------------------
\* work_fn returns, or raises.
Work(w, ok) ==
  /\ pc[w] = "working"
  /\ claim' = [claim EXCEPT ![w].target =
                 IF ok /\ ~claim[w].expired THEN "code_review" ELSE "blocked"]
  /\ Goto(w, "release")
  /\ UNCHANGED <<card, out, rpc, rout, stray, faults, grants>>

\* The exception handlers of _run_claimed: a failed release to the success state
\* is followed by one to the failure state, whose own failure ends run_once.
Refused(w) ==
  \/ /\ claim[w].target = "code_review"
     /\ claim' = [claim EXCEPT ![w].target = "blocked"]
     /\ Goto(w, "release")
  \/ /\ claim[w].target = "blocked"
     /\ Goto(w, "joining")
     /\ UNCHANGED claim

\* A mutation for the check of EpochHasOneOwner: the release forgets the epoch.
ReleasedForgetting(c, s) ==
  [c EXCEPT !.state = s, !.owner = NoWorker, !.left = 0, !.epoch = 0]

Released(c, s) == [c EXCEPT !.state = s, !.owner = NoWorker, !.left = 0]

\* release_or_fail up to its PATCH: neither the owner nor the epoch is compared.
ReleaseRead(w) ==
  LET s == claim[w].target
      done == card.state = s /\ card.owner = NoWorker IN
  /\ pc[w] = "release"
  /\ \/ done /\ Goto(w, "joining") /\ UNCHANGED <<out, claim>>
     \/ /\ s \in Transitions[card.state]
        /\ out' = [out EXCEPT ![w] = Fresh(Released(card, s))]
        /\ Goto(w, "releasing") /\ UNCHANGED claim
     \/ ~done /\ s \notin Transitions[card.state] /\ Refused(w) /\ UNCHANGED out
  /\ UNCHANGED <<card, rpc, rout, stray, faults, grants>>

\* The PATCH and the event comment after it: a comment that cannot be posted is
\* an error after an accepted patch.
ReleaseWrite(w) ==
  /\ pc[w] = "releasing"
  /\ \E answer \in {"ok", "conflict", "error"} :
       /\ SendOut(w, answer)
       /\ \/ answer = "ok" /\ Goto(w, "joining") /\ UNCHANGED claim
          \/ answer # "ok" /\ Refused(w)
  /\ UNCHANGED <<rpc, grants>>

\* The renewal task is awaited, never cancelled.
Join(w) ==
  /\ pc[w] = "joining" /\ rpc[w] # "renewing"
  /\ Leave(w)
  /\ UNCHANGED <<card, out, rout, stray, faults, grants>>

\* The process dies; what it was sending may still arrive.
Die(w) ==
  /\ pc[w] # "dead"
  /\ Cardinality({v \in Worker : pc[v] = "dead"}) < MaxCrashes
  /\ Goto(w, "dead")
  /\ claim' = [claim EXCEPT ![w] = NoClaim]
  /\ rpc' = [rpc EXCEPT ![w] = "off"]
  /\ stray' \in {stray, stray \cup {p \in {out[w], rout[w]} : p.fresh}}
  /\ out' = [out EXCEPT ![w] = NoPatch]
  /\ rout' = [rout EXCEPT ![w] = NoPatch]
  /\ UNCHANGED <<card, faults, grants>>

Older(c) == [c EXCEPT !.left = IF @ = 0 THEN 0 ELSE @ - 1]
OlderPatch(p) == [p EXCEPT !.body = Older(@)]

Tick ==
  /\ card' = Older(card)
  /\ out' = [w \in Worker |-> OlderPatch(out[w])]
  /\ rout' = [w \in Worker |-> OlderPatch(rout[w])]
  /\ stray' = {OlderPatch(p) : p \in stray}
  /\ UNCHANGED <<pc, claim, rpc, faults, grants>>

\* What a live worker goes on doing; when its renewal task wakes up is left open.
Step(w) ==
  \/ Fetch(w) \/ AcquireWrite(w) \/ ClaimRead(w) \/ ClaimWrite(w)
  \/ ReleaseRead(w) \/ ReleaseWrite(w) \/ Join(w) \/ RenewWrite(w)
  \/ \E d \in 1..MaxLease : AcquireRead(w, d)
  \/ \E ok \in BOOLEAN : Work(w, ok)

Next ==
  \/ \E w \in Worker : Step(w) \/ Die(w) \/ \E d \in 1..MaxLease : RenewRead(w, d)
  \/ \E p \in stray : Deliver(p)
  \/ Tick

Spec == Init /\ [][Next]_vars

LiveSpec == Spec /\ WF_vars(Tick) /\ \A w \in Worker : WF_vars(Step(w))

-----------------------------------------------------------------------------
\* An epoch belongs to one worker: whatever is lost, retried, delayed or races,
\* no two workers are ever told that they hold the same lease epoch (acquire_lease
\* under If-Match).  The last epoch stands for all later ones.
EpochHasOneOwner ==
  \A e \in 1..(MaxEpoch - 1) : Cardinality(grants[e]) <= 1

\* A lease changes hands only after it ran out or was given up: no write, however
\* late it arrives, moves an unexpired lease from one owner to another.
LeaseNotStolen ==
  [][ card.left > 0 /\ card.owner # NoWorker
        => card'.owner \in {card.owner, NoWorker} ]_vars

\* "If worker process dies, lease expiry enables another worker to resume
\* progress."
DeadWorkerIsResumed ==
  \A w \in Worker :
    (pc[w] = "dead" /\ card.owner = w /\ card.state = "in_progress")
      ~> \/ \E v \in Worker : pc[v] = "working"
         \/ card.state # "in_progress"
         \/ \A v \in Worker : pc[v] = "dead"
=============================================================================
