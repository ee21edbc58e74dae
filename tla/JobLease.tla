------------------------------- MODULE JobLease -------------------------------
(* What a leased job promises to the nodes that compete for it, whatever the   *)
(* protocol: nodes hold it for a while, exclusively unless the job is shared,  *)
(* and one node that holds it decides its outcome, once.                       *)
CONSTANTS Node, NoNode

VARIABLES holders,    \* the nodes that hold an unexpired lease
          outcome,    \* the node whose result was accepted
          shared      \* whether several nodes may hold the job at a time

vars == <<holders, outcome, shared>>

Init == holders = {} /\ outcome = NoNode /\ shared \in BOOLEAN

\* A lease is granted to a node on an open job.
Grant(n) ==
  /\ outcome = NoNode
  /\ holders = {} \/ shared \/ holders = {n}
  /\ holders' = holders \cup {n}
  /\ UNCHANGED <<outcome, shared>>

\* Leases run out.
Lapse ==
  /\ holders' \in SUBSET holders
  /\ UNCHANGED <<outcome, shared>>

\* A holder finishes the job, which ends every lease.
Finish(n) ==
  /\ n \in holders
  /\ outcome = NoNode
  /\ outcome' = n
  /\ holders' = {}
  /\ UNCHANGED shared

Next == Lapse \/ \E n \in Node : Grant(n) \/ Finish(n)

Spec == Init /\ [][Next]_vars
=============================================================================
