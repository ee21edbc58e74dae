-------------------------- MODULE CoordinatorStore --------------------------
(* The in-memory coordinator store and the workers that use it.  A worker     *)
(* polls for an open card, claims it, works while a thread of its own renews   *)
(* the lease, and reports completion or failure; it may also die at any time.  *)
EXTENDS CoordinatorCard, FiniteSets

CONSTANT MaxCrashes   \* how many workers may die

VARIABLES card,       \* the card in the store
          pc,         \* worker: "idle", "claiming", "working" or "dead"
          renewing,   \* worker: its renewal thread is still running
          held        \* worker: what is left of the lease it was last granted

vars == <<card, pc, renewing, held>>

TypeOK ==
  /\ card \in Card
  /\ pc \in [Node -> {"idle", "claiming", "working", "dead"}]
  /\ renewing \in [Node -> BOOLEAN]
  /\ held \in [Node -> 0..MaxLease]

Init ==
  /\ card \in {NewCard(h) : h \in BOOLEAN}
  /\ pc = [n \in Node |-> "idle"]
  /\ renewing = [n \in Node |-> FALSE]
  /\ held = [n \in Node |-> 0]

-----------------------------------------------------------------------------
\* A mutation for the check of DeadHolderIsReplaced: listing does not reopen.
PollWithoutReopening(n) ==
  /\ pc[n] = "idle"
  /\ pc' = [pc EXCEPT ![n] = IF card.state = "OPEN" THEN "claiming" ELSE "idle"]
  /\ UNCHANGED <<card, renewing, held>>

\* poll_open_cards: listing reopens an expired card before it looks at it.
Poll(n) ==
  /\ pc[n] = "idle"
  /\ card' = Reopened(card)
  /\ pc' = [pc EXCEPT ![n] = IF card'.state = "OPEN" THEN "claiming" ELSE "idle"]
  /\ UNCHANGED <<renewing, held>>

\* A node that knows the card's id can claim it without having listed it.
ClaimKnown(n) ==
  /\ pc[n] = "idle"
  /\ pc' = [pc EXCEPT ![n] = "claiming"]
  /\ UNCHANGED <<card, renewing, held>>

Claim(n, d) ==
  /\ pc[n] = "claiming"
  /\ \/ /\ CanClaim(card, n)
        /\ card' = Claimed(card, n, d)
        /\ pc' = [pc EXCEPT ![n] = "working"]
        /\ renewing' = [renewing EXCEPT ![n] = TRUE]
        /\ held' = [held EXCEPT ![n] = d]
     \/ /\ ~CanClaim(card, n)
        /\ card' = Reopened(card)
        /\ pc' = [pc EXCEPT ![n] = "idle"]
        /\ UNCHANGED <<renewing, held>>

\* The renewal thread gives up at the first refusal; the work goes on.
Renew(n, d) ==
  /\ pc[n] = "working" /\ renewing[n]
  /\ \/ /\ CanRenew(card, n)
        /\ card' = Renewed(card, d)
        /\ held' = [held EXCEPT ![n] = d]
        /\ UNCHANGED renewing
     \/ /\ ~CanRenew(card, n)
        /\ card' = Reopened(card)
        /\ renewing' = [renewing EXCEPT ![n] = FALSE]
        /\ UNCHANGED held
  /\ UNCHANGED pc

\* The renewal thread is joined before the outcome is reported, and whatever the
\* answer the worker goes back to polling.
StopWork(n) ==
  /\ pc[n] = "working"
  /\ pc' = [pc EXCEPT ![n] = "idle"]
  /\ renewing' = [renewing EXCEPT ![n] = FALSE]
  /\ UNCHANGED held

Complete(n) ==
  /\ StopWork(n)
  /\ card' = IF CanFinish(card, n) THEN Finished(card, n, "DONE")
             ELSE Reopened(card)

Fail(n) ==
  /\ StopWork(n)
  /\ card' = IF CanFinish(card, n) THEN Finished(card, n, "FAILED")
             ELSE Reopened(card)

\* A worker dies; the store learns of it only by the lease running out.
Die(n) ==
  /\ pc[n] # "dead"
  /\ Cardinality({m \in Node : pc[m] = "dead"}) < MaxCrashes
  /\ pc' = [pc EXCEPT ![n] = "dead"]
  /\ renewing' = [renewing EXCEPT ![n] = FALSE]
  /\ UNCHANGED <<card, held>>

Tick ==
  /\ card' = Older(card)
  /\ held' = [n \in Node |-> IF held[n] = 0 THEN 0 ELSE held[n] - 1]
  /\ UNCHANGED <<pc, renewing>>

Next ==
  \/ \E n \in Node :
       \/ Poll(n) \/ ClaimKnown(n) \/ Complete(n) \/ Fail(n) \/ Die(n)
       \/ \E d \in LeaseDuration : Claim(n, d) \/ Renew(n, d)
  \/ Tick

Spec == Init /\ [][Next]_vars

\* Time passes, and a live worker keeps polling, sends the claim it decided on
\* and finishes its work; the renewal thread is not assumed to be punctual.
Fairness ==
  /\ WF_vars(Tick)
  /\ \A n \in Node :
       /\ WF_vars(Poll(n))
       /\ WF_vars(\E d \in LeaseDuration : Claim(n, d))
       /\ WF_vars(Complete(n) \/ Fail(n))

LiveSpec == Spec /\ Fairness

-----------------------------------------------------------------------------
\* The nodes the store regards as holding the card.
Holders == IF card.state = "CLAIMED" /\ card.left > 0
           THEN IF card.hedged THEN card.claimants ELSE {card.holder}
           ELSE {}

Job == INSTANCE JobLease WITH holders <- Holders, outcome <- card.result,
                              shared <- card.hedged

\* The store is a job lease: a card is held by one node at a time unless it is
\* hedged, a result is accepted only from a node that holds it at that moment,
\* and the first accepted result is never replaced (claim, renew, complete and
\* fail of InMemoryCoordinatorStore).
ImplementsJobLease == Job!Spec

\* Two workers never both count on an unexpired lease of one card: the store
\* reopens a card only when the lease it told the last holder about is over
\* (_is_expired against the lease_expires_at it answered with).
SoleHolder ==
  ~card.hedged => \A m, n \in Node : held[m] > 0 /\ held[n] > 0 => m = n

\* A card whose holder died does not stay claimed by it: the lease runs out and
\* some poll or claim reopens the card.
DeadHolderIsReplaced ==
  \A n \in Node : (pc[n] = "dead" /\ card.holder = n) ~> (card.holder # n)
=============================================================================
