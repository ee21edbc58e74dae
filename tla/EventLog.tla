------------------------------- MODULE EventLog -------------------------------
(***************************************************************************)
(* The protocol event log of one session: the LPJ-C32 file of              *)
(* protocol_append_only_ledger.py and the contract that                    *)
(* async_protocol_run_ledger.py puts on what is appended to it.            *)
(*                                                                         *)
(* A log is the sequence of frames in the file.  event_seq is not stored:  *)
(* it is the position of the frame, which append_event recomputes by       *)
(* replaying the file.  A frame whose write was cut off is "torn"; `need'  *)
(* is the number of later frames its length field still claims.            *)
(***************************************************************************)
EXTENDS Integers, Sequences, FiniteSets

CONSTANTS
    Op,              \* operation ids: the session, the issue and its turn, the tool index
    Outcome,         \* statuses a run is finalized with
    MaxNeed,         \* bound: frames a torn length field claims
    MaxInvocations   \* max_tool_invocations_per_run

ASSUME OutcomesAreFinal == "running" \notin Outcome /\ "none" \notin Outcome
ASSUME LogBounds == MaxNeed \in Nat \ {0} /\ MaxInvocations \in Nat \ {0}

\* What get_run reports of a session; "none" is no run.
Status == Outcome \cup {"running", "none"}

Frame ==
    [kind: {"run_started", "fact"}] \cup [kind: {"tool_call"}, op: Op]
        \cup [kind: {"operation_result"}, op: Op, call: Nat]
        \cup [kind: {"run_finalized"}, status: Outcome]
        \cup [kind: {"torn"}, need: 1..MaxNeed]

TornAt(log) == {i \in 1..Len(log) : log[i].kind = "torn"}

\* decode_lpj_c32_stream: a torn frame ends the log while the bytes after it
\* do not fill its length, and fails the checksum as soon as they do.
Corrupt(log) == \E i \in TornAt(log) : Len(log) - i >= log[i].need

\* replay_events, when it does not raise.
Replay(log) ==
    IF TornAt(log) = {} THEN log
    ELSE SubSeq(log, 1, (CHOOSE i \in TornAt(log) : \A j \in TornAt(log) : i <= j) - 1)

Kinds(events, kind) == {i \in 1..Len(events) : events[i].kind = kind}

\* _open_tool_calls
OpenCalls(events) ==
    {i \in Kinds(events, "tool_call") :
        ~ \E j \in Kinds(events, "operation_result") : events[j].call = i}

Invocations(events) ==
    Cardinality(Kinds(events, "tool_call") \cup Kinds(events, "operation_result"))

\* The results of an operation as _operation_event_ranges reads them: the
\* first and last event_seq of the operation, the latest result winning.
Ranges(events) ==
    [o \in {events[j].op : j \in Kinds(events, "operation_result")} |->
        LET last == CHOOSE j \in Kinds(events, "operation_result") :
                        /\ events[j].op = o
                        /\ \A k \in Kinds(events, "operation_result") :
                              events[k].op = o => k <= j
        IN <<events[last].call, last>>]

\* get_run: the later of a run_started and a run_finalized event decides.
RunStatus(events) ==
    LET marks == Kinds(events, "run_started") \cup Kinds(events, "run_finalized")
        last == CHOOSE i \in marks : \A j \in marks : j <= i
    IN IF Kinds(events, "run_started") = {} THEN "none"
       ELSE IF events[last].kind = "run_started" THEN "running" ELSE events[last].status

-----------------------------------------------------------------------------
(* Writes.  Each gives the frames it appends, <<>> when it appends none, and *)
(* whether it raised.  `at' is the number of events when finalized_at was    *)
(* read: an event appended since then has a later timestamp.                 *)

Nothing == [ok |-> TRUE, frames |-> <<>>]
Raised == [ok |-> FALSE, frames |-> <<>>]
Appends(frame) == [ok |-> TRUE, frames |-> <<frame>>]

\* A start_run that does not look for the event an earlier call wrote.
LogStartAgain(log) == IF Corrupt(log) THEN Raised ELSE Appends([kind |-> "run_started"])

\* start_run
LogStart(log) ==
    IF Corrupt(log) THEN Raised
    ELSE IF Kinds(Replay(log), "run_started") # {} THEN Nothing
    ELSE Appends([kind |-> "run_started"])

\* _matching_run_finalized_event
Finalized(events, status) ==
    \E i \in Kinds(events, "run_finalized") : events[i].status = status

\* A finalize_run that lets an open call be.
LogFinalizeOpen(log, status, at) ==
    IF Corrupt(log) \/ Len(Replay(log)) > at THEN Raised
    ELSE IF Finalized(Replay(log), status) THEN Nothing
    ELSE Appends([kind |-> "run_finalized", status |-> status])

\* finalize_run refuses while a call is open, and with a timestamp behind the
\* last event; a run_finalized event with the same outcome is not repeated.
LogFinalize(log, status, at) ==
    IF Corrupt(log) THEN Raised
    ELSE LET events == Replay(log)
         IN IF Finalized(events, status) THEN Nothing
            ELSE IF OpenCalls(events) # {} \/ Len(events) > at THEN Raised
            ELSE Appends([kind |-> "run_finalized", status |-> status])

\* append_event of a fact
LogFact(log) == IF Corrupt(log) THEN Raised ELSE Appends([kind |-> "fact"])

\* append_event of a tool_call: the limit, then no other call open, then the
\* first-commit-wins registry.
CallRefused(log) ==
    \/ Corrupt(log)
    \/ Invocations(Replay(log)) >= MaxInvocations
    \/ OpenCalls(Replay(log)) # {}

\* A limit that a result reaches one invocation before a call does.
ResultRefusedEarly(log, op, call, winners) ==
    \/ Corrupt(log)
    \/ Invocations(Replay(log)) + 1 >= MaxInvocations
    \/ op \in winners
    \/ call \notin OpenCalls(Replay(log))

\* append_event of an operation_result for the call at `call'.
ResultRefused(log, op, call, winners) ==
    \/ Corrupt(log)
    \/ Invocations(Replay(log)) >= MaxInvocations
    \/ op \in winners
    \/ call \notin OpenCalls(Replay(log))
===============================================================================
