------------------------------ MODULE StreamBus ------------------------------
(***************************************************************************)
(* The event bus of one interaction session: what publish does to the      *)
(* bookkeeping of a turn, and the law checker that a subscriber runs over  *)
(* the events it receives.  orket/streaming/bus.py, contracts.py and       *)
(* law_checker.py.                                                         *)
(*                                                                         *)
(* An event is one byte long, and a list of dropped ranges is the set of   *)
(* the sequence numbers that it covers.                                    *)
(***************************************************************************)
EXTENDS Integers, FiniteSets

CONSTANTS
    MaxTurns,        \* bound: turns of the session
    BestEffortMax,   \* best_effort_max_events_per_turn, overrides included
    BoundedMax,      \* bounded_max_events_per_turn
    MaxBytes         \* max_bytes_per_turn_queue

ASSUME BusLimits == {MaxTurns, BestEffortMax, BoundedMax, MaxBytes} \subseteq Nat \ {0}

\* Turns are known by their turn_index.
Turn == 1..MaxTurns

MustDeliver == {"turn_accepted", "turn_interrupted", "turn_final", "commit_final"}
BestEffort == {"token_delta"}
Bounded == {"tool_call_result", "stream_truncated"}
EventType == MustDeliver \cup BestEffort \cup Bounded
Terminal == {"turn_interrupted", "turn_final"}

QueueMax == BestEffortMax + BoundedMax

BusState ==
    [nextSeq: Nat, terminal: BOOLEAN, commitFinal: BOOLEAN, truncated: BOOLEAN,
     dropped: SUBSET Nat, bestEffort: Nat, bounded: Nat, bytes: Nat, budget: Nat]

\* setdefault(..., _TurnBusState()): a turn without a state gets a new one.
NewBusState ==
    [nextSeq |-> 0, terminal |-> FALSE, commitFinal |-> FALSE, truncated |-> FALSE,
     dropped |-> {}, bestEffort |-> 0, bounded |-> 0, bytes |-> 0, budget |-> 0]

Event == [turn: Turn, seq: Nat, type: EventType, dropped: SUBSET Nat]

-----------------------------------------------------------------------------
(* publish *)

OverBytes(b) == b.bytes + 1 > MaxBytes

RefusedUnlessTerminal(b, type) ==
    type \in Bounded /\ (b.bounded >= BoundedMax \/ OverBytes(b))

\* publish raises: nothing but commit_final follows a terminal event,
\* commit_final comes once, and bounded events have a capacity.
Refused(b, type) ==
    \/ b.terminal /\ type # "commit_final"
    \/ b.commitFinal /\ type = "commit_final"
    \/ type \in Bounded /\ (b.bounded >= BoundedMax \/ OverBytes(b))

BestEffortLimit(b) == IF b.budget > 0 THEN b.budget ELSE BestEffortMax

IsDropped(b, type) ==
    type \in BestEffort /\ (b.bestEffort >= BestEffortLimit(b) \/ OverBytes(b))

\* The event of a publish, with the pending drops attached; for the first
\* dropped event a subscriber gets stream_truncated in its place.
Outgoing(b, t, type, listened) ==
    IF IsDropped(b, type)
    THEN IF listened /\ ~b.truncated
         THEN {[turn |-> t, seq |-> b.nextSeq + 1, type |-> "stream_truncated",
                dropped |-> b.dropped \cup {b.nextSeq}]}
         ELSE {}
    ELSE IF listened
         THEN {[turn |-> t, seq |-> b.nextSeq, type |-> type, dropped |-> b.dropped]}
         ELSE {}

Published(b, type, listened) ==
    IF IsDropped(b, type)
    THEN IF listened /\ ~b.truncated
         THEN [b EXCEPT !.nextSeq = @ + 2, !.dropped = {}, !.truncated = TRUE]
         ELSE [b EXCEPT !.nextSeq = @ + 1, !.dropped = @ \cup {b.nextSeq}]
    ELSE [b EXCEPT !.nextSeq = @ + 1,
                   !.dropped = {},
                   !.bestEffort = IF type \in BestEffort THEN @ + 1 ELSE @,
                   !.bounded = IF type \in Bounded THEN @ + 1 ELSE @,
                   !.bytes = @ + 1,
                   !.terminal = @ \/ type \in Terminal,
                   !.commitFinal = @ \/ type = "commit_final"]

-----------------------------------------------------------------------------
(* StreamLawChecker *)

LawState == [last: Int, terminal: BOOLEAN, commit: BOOLEAN, broken: BOOLEAN]

\* Before the first event of a turn.
NoEvents == [last |-> -1, terminal |-> FALSE, commit |-> FALSE, broken |-> FALSE]

Lawful(law, e) ==
    /\ e.seq > law.last
    /\ law.last >= 0 => (law.last + 1)..(e.seq - 1) \subseteq e.dropped
    /\ law.terminal => e.type = "commit_final" /\ ~law.commit
    /\ e.type = "commit_final" => law.terminal

\* consume of an event e.
Consumed(law, e) ==
    [last |-> e.seq,
     terminal |-> law.terminal \/ e.type \in Terminal,
     commit |-> law.commit \/ e.type = "commit_final",
     broken |-> law.broken \/ ~Lawful(law, e)]
=============================================================================
