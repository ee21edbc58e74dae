-------------------------- MODULE InteractionManager --------------------------
(***************************************************************************)
(* One interaction session: turns that run a workload in the background,   *)
(* clients that cancel and finalize them, the commit of a turn, and a      *)
(* websocket that subscribes to the event bus.  orket/streaming/manager.py *)
(* and bus.py, orket/interfaces/routers/sessions.py and streaming.py.      *)
(*                                                                         *)
(* Everything runs on one event loop.  A task keeps the loop until it      *)
(* awaits something that is not ready: a full subscriber queue, a file     *)
(* write in a thread, or whatever its workload waits for.  The locks of    *)
(* the manager and of the bus are never held over such an await, so they   *)
(* never make a task wait and are not modelled.                            *)
(***************************************************************************)
EXTENDS StreamBus, Sequences

CONSTANTS
    Client,          \* concurrent cancel and finalize requests
    TurnBudget,      \* values of stream_budget; 0 is none
    MaxEmits,        \* bound: events that workloads emit
    MaxRequests,     \* bound: client requests
    MaxConnections,  \* bound: websocket connections, one at a time
    MaxFaults        \* bound: failed writes, provider timeouts, evictions

ASSUME ClientsAreNotTurns == Client \cap Turn = {}
ASSUME BudgetsAreNumbers == TurnBudget \subseteq Nat
ASSUME StreamBounds == {MaxEmits, MaxRequests, MaxConnections, MaxFaults} \subseteq Nat

VARIABLES
    loop,       \* {the task that has the event loop}, or {} between tasks
    session,    \* active_turn_id: {} or {t}
    turn,       \* _turns
    intents,    \* _pending_commit_intents
    bus,        \* _turn_states: a set with the state, or {}
    task,       \* where each turn's background task and each request is
    conn,       \* the latest websocket connection, 0 before the first
    on,         \* whether that connection is subscribed
    queue,      \* the subscriber queue of each connection
    law,        \* the law checker of each connection
    commits,    \* outcomes of the authority commits written for each turn
    counts,     \* the bounded counters
    history     \* see History

manager == <<session, turn, intents>>
wire == <<conn, on, queue, law>>
vars == <<loop, manager, bus, task, wire, commits, counts, history>>

Task == Turn \cup Client
Connection == 1..MaxConnections
Kind == {"builtin", "extension"}
Intent == {"turn_finalize", "fail_closed"}

TurnState ==
    [kind: Kind \cup {"none"}, terminal: Terminal \cup {"none"},
     canceled: BOOLEAN, commitStarted: BOOLEAN]

NewTurn == [kind |-> "none", terminal |-> "none", canceled |-> FALSE, commitStarted |-> FALSE]

\* Where a task waits: for the loop, a workload, a thread or room in a queue.
Waiting == {"idle", "run", "manifest", "put", "commit", "trace", "done"}
PC == Waiting \cup {"requested", "failed", "cancelFirst", "failedCanceled",
                    "finalize", "startCommit"}

\* turn: what the task works on; event and to: the blocked put; then: what
\* follows it; error: where an exception in finalize leads; intents: what the
\* commit in progress was given.
TaskState ==
    [pc: PC, turn: SUBSET Turn, event: SUBSET Event, to: 0..MaxConnections,
     then: PC, error: PC, intents: SUBSET Intent]

IdleTask == [pc |-> "idle", turn |-> {}, event |-> {}, to |-> 0,
             then |-> "idle", error |-> "idle", intents |-> {}]

\* What only the properties look at: turns whose workload failed; those of them
\* whose exception the handler does not catch; turns that somebody finalized,
\* evicted or published to over the head of their own task; the terminal events put on the bus for each turn; the connection that
\* listened when the turn began, or 0; and whether a file write failed.
History ==
    [failed: SUBSET Turn, escaped: SUBSET Turn, disturbed: SUBSET Turn,
     terminals: [Turn -> Seq(Terminal)], since: [Turn -> 0..MaxConnections], writeFailed: BOOLEAN]

TypeOK ==
    /\ loop \in SUBSET Task /\ \A p, q \in loop: p = q
    /\ session \in SUBSET Turn /\ \A s, t \in session: s = t
    /\ turn \in [Turn -> TurnState]
    /\ intents \in [Turn -> SUBSET Intent]
    /\ bus \in [Turn -> SUBSET BusState] /\ \A t \in Turn: \A b, c \in bus[t]: b = c
    /\ task \in [Task -> TaskState]
    /\ conn \in 0..MaxConnections /\ on \in BOOLEAN
    /\ queue \in [Connection -> Seq(Event)]
    /\ \A c \in Connection: Len(queue[c]) <= QueueMax
    /\ law \in [Connection -> [Turn -> LawState]]
    /\ commits \in [Turn -> Seq({"ok", "fail_closed"})]
    /\ counts \in [requests: 0..MaxRequests, faults: 0..MaxFaults, emits: 0..MaxEmits]
    /\ history \in History

Init ==
    /\ loop = {} /\ session = {}
    /\ turn = [t \in Turn |-> NewTurn]
    /\ intents = [t \in Turn |-> {}]
    /\ bus = [t \in Turn |-> {}]
    /\ task = [p \in Task |-> IdleTask]
    /\ conn = 0 /\ on = FALSE
    /\ queue = [c \in Connection |-> <<>>]
    /\ law = [c \in Connection |-> [t \in Turn |-> NoEvents]]
    /\ commits = [t \in Turn |-> <<>>]
    /\ counts = [requests |-> 0, faults |-> 0, emits |-> 0]
    /\ history = [failed |-> {}, escaped |-> {}, disturbed |-> {},
                  terminals |-> [t \in Turn |-> <<>>], since |-> [t \in Turn |-> 0], writeFailed |-> FALSE]

-----------------------------------------------------------------------------
(* The event loop and publish *)

Has(p) == loop \subseteq {p}

\* The loop after task p went on to pc.
KeepsLoop(p, pc) == loop' = IF pc \in Waiting THEN {} ELSE {p}

\* Task p is now the record r.
Becomes(p, r) == task' = [task EXCEPT ![p] = r] /\ KeepsLoop(p, r.pc)

StateOf(t) == IF bus[t] = {} THEN NewBusState ELSE CHOOSE b \in bus[t]: TRUE

Overtakes(p, t) ==
    \E q \in Task \ {p}: task[q].pc = "put" /\ \E e \in task[q].event: e.turn = t

\* Task p publishes an event of its turn t on state b: it is refused and p goes
\* on at error, or it is queued, or p waits for room.  r is p's record
\* without its pc, h the history without this event.
PublishOn(b, p, t, type, r, then, error, h) ==
    IF Refused(b, type)
    THEN /\ bus' = [bus EXCEPT ![t] = {b}]
         /\ Becomes(p, [r EXCEPT !.pc = error])
         /\ history' = h
         /\ UNCHANGED queue
    ELSE LET out == Outgoing(b, t, type, on)
         IN  /\ bus' = [bus EXCEPT ![t] = {Published(b, type, on)}]
             /\ history' =
                  [h EXCEPT !.disturbed = IF Overtakes(p, t) THEN @ \cup {t} ELSE @,
                            !.terminals[t] = IF type \in Terminal THEN Append(@, type) ELSE @]
             /\ IF out # {} /\ Len(queue[conn]) >= QueueMax
                THEN /\ Becomes(p, [r EXCEPT !.pc = "put", !.event = out, !.to = conn,
                                             !.then = then])
                     /\ UNCHANGED queue
                ELSE /\ Becomes(p, [r EXCEPT !.pc = then])
                     /\ queue' = IF out = {} THEN queue
                                 ELSE [queue EXCEPT ![conn] = Append(@, CHOOSE e \in out: TRUE)]

Publish(p, t, type, r, then, error, h) ==
    PublishOn(StateOf(t), p, t, type, r, then, error, h)

\* The put of a blocked publisher; the queue it waits for may have lost its
\* subscriber.
Put(p) ==
    /\ loop = {} /\ task[p].pc = "put"
    /\ Len(queue[task[p].to]) < QueueMax
    /\ queue' = [queue EXCEPT ![task[p].to] = Append(@, CHOOSE e \in task[p].event: TRUE)]
    /\ Becomes(p, [task[p] EXCEPT !.pc = task[p].then, !.event = {}, !.to = 0, !.then = "idle"])
    /\ UNCHANGED <<manager, bus, conn, on, law, commits, counts, history>>

-----------------------------------------------------------------------------
(* A turn *)

\* begin_turn: refused while a turn is active.
BeginTurn(t, kind, budget) ==
    /\ loop = {} /\ session = {}
    /\ t = 1 + Cardinality({s \in Turn: turn[s].kind # "none"})
    /\ session' = {t}
    /\ turn' = [turn EXCEPT ![t].kind = kind]
    /\ intents' = [intents EXCEPT ![t] = {}]
    /\ PublishOn([NewBusState EXCEPT !.budget = budget], t, t, "turn_accepted",
                 [task[t] EXCEPT !.turn = {t}, !.error = "failed"], "run", "done",
                 [history EXCEPT !.since[t] = IF on THEN conn ELSE 0])
    /\ UNCHANGED <<conn, on, law, commits, counts>>

\* The workload of turn t emits an event; an exception is a failure.
Emit(t, type) ==
    /\ Has(t) /\ task[t].pc = "run" /\ counts.emits < MaxEmits
    /\ counts' = [counts EXCEPT !.emits = @ + 1]
    /\ Publish(t, t, type, task[t], "run", "failed",
               IF Refused(StateOf(t), type)
               THEN [history EXCEPT !.failed = @ \cup {t}] ELSE history)
    /\ UNCHANGED <<manager, conn, on, law, commits>>

\* The workload ends.  A built-in one leaves the terminal event to finalize,
\* the extension executor emits turn_final itself.
WorkDone(t) ==
    /\ Has(t) /\ task[t].pc = "run"
    /\ IF turn[t].kind = "builtin"
       THEN /\ intents' = [intents EXCEPT ![t] = @ \cup {"turn_finalize"}]
            /\ Becomes(t, [task[t] EXCEPT !.pc = "finalize"])
            /\ UNCHANGED <<bus, queue, history>>
       ELSE /\ Publish(t, t, "turn_final", task[t], "requested", "failed",
                       IF Refused(StateOf(t), "turn_final")
                       THEN [history EXCEPT !.failed = @ \cup {t}] ELSE history)
            /\ UNCHANGED intents
    /\ UNCHANGED <<session, turn, conn, on, law, commits, counts>>

\* A model stream that sees the cancellation stops and asks for a cancel.
WorkStops(t) ==
    /\ Has(t) /\ task[t].pc = "run" /\ turn[t].kind = "builtin" /\ turn[t].canceled
    /\ Becomes(t, [task[t] EXCEPT !.pc = "cancelFirst"])
    /\ UNCHANGED <<manager, bus, wire, commits, counts, history>>

\* The workload raises one of the five exceptions that _run_turn catches.
WorkFails(t) ==
    /\ Has(t) /\ task[t].pc = "run"
    /\ history' = [history EXCEPT !.failed = @ \cup {t}]
    /\ Becomes(t, [task[t] EXCEPT !.pc = "failed"])
    /\ UNCHANGED <<manager, bus, wire, commits, counts>>

\* It raises another one, such as the HTTP error of a model stream's provider
\* lookup: the task ends without cancel, intent or finalize.
WorkEscapes(t) ==
    /\ Has(t) /\ task[t].pc = "run"
    /\ history' = [history EXCEPT !.failed = @ \cup {t}, !.escaped = @ \cup {t}]
    /\ Becomes(t, [task[t] EXCEPT !.pc = "done"])
    /\ UNCHANGED <<manager, bus, wire, commits, counts>>

\* A model stream whose provider fails asks for a fail-closed commit and a
\* cancel.  When the turn timeout strikes in a blocked put the event is lost.
ProviderFails(t) ==
    /\ turn[t].kind = "builtin"
    /\ \/ Has(t) /\ task[t].pc = "run"
          /\ history' = [history EXCEPT !.failed = @ \cup {t}]
          /\ UNCHANGED counts
       \/ loop = {} /\ task[t].pc = "put" /\ task[t].then = "run"
          /\ \E e \in task[t].event: e.type # "turn_accepted"
          /\ counts.faults < MaxFaults
          /\ counts' = [counts EXCEPT !.faults = @ + 1]
          /\ history' = [history EXCEPT !.failed = @ \cup {t}, !.disturbed = @ \cup {t}]
    /\ intents' = [intents EXCEPT ![t] = @ \cup {"fail_closed"}]
    /\ Becomes(t, [task[t] EXCEPT !.pc = "cancelFirst", !.event = {}, !.to = 0, !.then = "idle"])
    /\ UNCHANGED <<session, turn, bus, wire, commits>>

\* The extension executor requests its commit and writes its manifest.
Requested(t) ==
    /\ Has(t) /\ task[t].pc = "requested"
    /\ intents' = [intents EXCEPT ![t] = @ \cup {"turn_finalize"}]
    /\ Becomes(t, [task[t] EXCEPT !.pc = "manifest"])
    /\ UNCHANGED <<session, turn, bus, wire, commits, counts, history>>

Manifest(t) ==
    /\ loop = {} /\ task[t].pc = "manifest"
    /\ \/ /\ Becomes(t, [task[t] EXCEPT !.pc = "finalize"])
          /\ UNCHANGED <<counts, history>>
       \/ /\ counts.faults < MaxFaults
          /\ counts' = [counts EXCEPT !.faults = @ + 1]
          /\ history' = [history EXCEPT !.failed = @ \cup {t}, !.writeFailed = TRUE]
          /\ Becomes(t, [task[t] EXCEPT !.pc = "failed"])
    /\ UNCHANGED <<manager, bus, wire, commits>>

-----------------------------------------------------------------------------
(* cancel and finalize, called by a turn's task or by a client *)

\* Task p may call a method on turn t, and its record while it does.
CallsFrom(p, t, pcs) ==
    \/ p = t /\ Has(p) /\ task[p].pc \in pcs /\ UNCHANGED counts
    \/ /\ p \in Client /\ loop = {} /\ task[p].pc = "idle"
       /\ turn[t].kind # "none" /\ counts.requests < MaxRequests
       /\ counts' = [counts EXCEPT !.requests = @ + 1]

Caller(p, t) == IF p = t THEN task[p] ELSE [IdleTask EXCEPT !.turn = {t}]

\* What follows: the exception handler of a turn finalizes once more and lets
\* an exception through.
AfterCancel(p) ==
    IF p \in Client THEN "idle"
    ELSE IF task[p].pc = "failed" THEN "failedCanceled" ELSE "finalize"

CancelAgain(p, t) ==
    /\ CallsFrom(p, t, {"failed", "cancelFirst"})
    /\ turn' = [turn EXCEPT ![t].canceled = TRUE, ![t].terminal = "turn_interrupted"]
    /\ Publish(p, t, "turn_interrupted", Caller(p, t), AfterCancel(p),
               IF p = t THEN "done" ELSE "idle", history)
    /\ UNCHANGED <<session, intents, conn, on, law, commits>>

Cancel(p, t) ==
    /\ CallsFrom(p, t, {"failed", "cancelFirst"})
    /\ IF turn[t].terminal # "none"
       THEN /\ Becomes(p, [Caller(p, t) EXCEPT !.pc = AfterCancel(p)])
            /\ UNCHANGED <<turn, bus, queue, history>>
       ELSE /\ turn' = [turn EXCEPT ![t].canceled = TRUE, ![t].terminal = "turn_interrupted"]
            /\ Publish(p, t, "turn_interrupted", Caller(p, t), AfterCancel(p),
                       IF p = t THEN (IF task[p].pc = "failed" THEN "done" ELSE "failed")
                       ELSE "idle", history)
    /\ UNCHANGED <<session, intents, conn, on, law, commits>>

FailSilently(t) ==
    /\ Has(t) /\ task[t].pc = "failedCanceled"
    /\ Becomes(t, [task[t] EXCEPT !.pc = "finalize", !.error = "done"])
    /\ UNCHANGED <<manager, bus, wire, commits, counts, history>>

\* The exception handler requests a fail-closed commit after the cancel.
FailClosedIntent(t) ==
    /\ Has(t) /\ task[t].pc = "failedCanceled"
    /\ intents' = [intents EXCEPT ![t] = @ \cup {"fail_closed"}]
    /\ Becomes(t, [task[t] EXCEPT !.pc = "finalize", !.error = "done"])
    /\ UNCHANGED <<session, turn, bus, wire, commits, counts, history>>

Finished(p) == IF p \in Client THEN "idle" ELSE "done"

StartsCommitAlways(t) == TRUE

StartsCommit(t) == ~turn[t].commitStarted

Finalize(p, t) ==
    /\ CallsFrom(p, t, {"finalize"})
    /\ turn' = [turn EXCEPT ![t].terminal = IF @ = "none" THEN "turn_final" ELSE @,
                            ![t].commitStarted = TRUE]
    /\ LET next == IF StartsCommit(t) THEN "startCommit" ELSE Finished(p)
           h == [history EXCEPT !.disturbed = IF p # t /\ StartsCommit(t) THEN @ \cup {t} ELSE @]
       IN  IF turn[t].terminal = "none"
           THEN Publish(p, t, "turn_final", Caller(p, t), next, Caller(p, t).error, h)
           ELSE /\ Becomes(p, [Caller(p, t) EXCEPT !.pc = next])
                /\ history' = h
                /\ UNCHANGED <<bus, queue>>
    /\ UNCHANGED <<session, intents, conn, on, law, commits>>

\* A turn without intents is not committed.
StartCommitIfAsked(p) ==
    /\ Has(p) /\ task[p].pc = "startCommit"
    /\ \E t \in task[p].turn:
          Becomes(p, [task[p] EXCEPT !.pc = IF intents[t] = {} THEN Finished(p) ELSE "commit",
                                     !.intents = intents[t]])
    /\ UNCHANGED <<manager, bus, wire, commits, counts, history>>

\* _run_commit: the intents are read, the artifact is written in a thread.
StartCommit(p) ==
    /\ Has(p) /\ task[p].pc = "startCommit"
    /\ \E t \in task[p].turn:
          Becomes(p, [task[p] EXCEPT !.pc = "commit", !.intents = intents[t]])
    /\ UNCHANGED <<manager, bus, wire, commits, counts, history>>

Outcome(I) == IF "fail_closed" \in I THEN "fail_closed" ELSE "ok"

CommitWritten(p) ==
    /\ loop = {} /\ task[p].pc = "commit"
    /\ \E t \in task[p].turn:
          /\ commits' = [commits EXCEPT ![t] = Append(@, Outcome(task[p].intents))]
          /\ Publish(p, t, "commit_final", [task[p] EXCEPT !.intents = {}], "trace",
                     task[p].error, history)
    /\ UNCHANGED <<manager, conn, on, law, counts>>

\* The trace is written; the turn is over and its bus state is purged.
TurnOver(p) ==
    /\ loop = {} /\ task[p].pc = "trace"
    /\ \E t \in task[p].turn:
          /\ session' = session \ {t}
          /\ bus' = [bus EXCEPT ![t] = {}]
          /\ Becomes(p, IF p \in Client THEN IdleTask ELSE [task[p] EXCEPT !.pc = "done"])
    /\ UNCHANGED <<turn, intents, wire, commits, counts, history>>

\* A file write of the commit or of the trace fails.
WriteFails(p) ==
    /\ loop = {} /\ task[p].pc \in {"commit", "trace"} /\ counts.faults < MaxFaults
    /\ counts' = [counts EXCEPT !.faults = @ + 1]
    /\ history' = [history EXCEPT !.writeFailed = TRUE]
    /\ Becomes(p, IF p \in Client THEN IdleTask
                  ELSE [task[p] EXCEPT !.pc = task[p].error, !.intents = {}])
    /\ UNCHANGED <<manager, bus, wire, commits>>

-----------------------------------------------------------------------------
(* The websocket, and the bus's housekeeping *)

Subscribe ==
    /\ loop = {} /\ ~on /\ conn < MaxConnections
    /\ conn' = conn + 1 /\ on' = TRUE
    /\ UNCHANGED <<loop, manager, bus, task, queue, law, commits, counts, history>>

Receive ==
    /\ loop = {} /\ on /\ queue[conn] # <<>>
    /\ LET e == Head(queue[conn])
       IN  law' = [law EXCEPT ![conn][e.turn] = Consumed(@, e)]
    /\ queue' = [queue EXCEPT ![conn] = Tail(@)]
    /\ UNCHANGED <<loop, manager, bus, task, conn, on, commits, counts, history>>

\* A disconnect is noticed when an event cannot be sent.
Disconnect ==
    /\ loop = {} /\ on /\ queue[conn] # <<>>
    /\ on' = FALSE
    /\ queue' = [queue EXCEPT ![conn] = Tail(@)]
    /\ UNCHANGED <<loop, manager, bus, task, conn, law, commits, counts, history>>

\* A turn state that was not used for its time to live, or that is one too
\* many, is evicted.
Evict(t) ==
    /\ loop = {} /\ bus[t] # {} /\ counts.faults < MaxFaults
    /\ bus' = [bus EXCEPT ![t] = {}]
    /\ counts' = [counts EXCEPT !.faults = @ + 1]
    /\ history' = [history EXCEPT !.disturbed = @ \cup {t}]
    /\ UNCHANGED <<loop, manager, task, wire, commits>>

-----------------------------------------------------------------------------
Work(t) ==
    \/ \E type \in {"token_delta", "tool_call_result"}: Emit(t, type)
    \/ WorkDone(t) \/ WorkStops(t) \/ WorkFails(t) \/ WorkEscapes(t) \/ ProviderFails(t)
    \/ Requested(t) \/ Manifest(t) \/ FailClosedIntent(t)

\* A step of p after its request began.
Step(p) ==
    \/ p \in Turn /\ Work(p)
    \/ p \in Turn /\ (Cancel(p, p) \/ Finalize(p, p))
    \/ Put(p) \/ StartCommit(p) \/ CommitWritten(p) \/ TurnOver(p) \/ WriteFails(p)

Next ==
    \/ \E t \in Turn, kind \in Kind, budget \in TurnBudget: BeginTurn(t, kind, budget)
    \/ \E p \in Task: Step(p)
    \/ \E c \in Client, t \in Turn: Cancel(c, t) \/ Finalize(c, t)
    \/ Subscribe \/ Receive \/ Disconnect
    \/ \E t \in Turn: Evict(t)

Spec == Init /\ [][Next]_vars

\* The loop runs every task that can go on, workloads end, threads finish their
\* writes, and the websocket sends or notices that it cannot.
LiveSpec ==
    /\ Spec
    /\ \A p \in Task: WF_vars(Step(p))
    /\ WF_vars(Receive \/ Disconnect)

-----------------------------------------------------------------------------
(* Properties *)

\* What a connection that listened from the beginning receives of a turn obeys
\* the law checker: increasing sequence numbers, every gap announced, nothing
\* but one commit_final after the terminal event.  It holds whatever is
\* dropped or canceled, unless the turn was disturbed: finalized by a client
\* under its running workload, evicted, cut by a provider timeout, or
\* published to by two tasks while one waits for room.
StreamLaw ==
    \A t \in Turn \ history.disturbed:
        history.since[t] # 0 => ~law[history.since[t]][t].broken

\* A built-in turn puts at most one terminal event on the bus, the one its turn
\* record says, however cancels and finalizations race: the second caller finds
\* the record decided.
OneTerminal ==
    \A t \in Turn:
        turn[t].kind = "builtin" =>
            history.terminals[t] \in {<<>>, <<turn[t].terminal>>}

\* A turn is committed at most once, whoever finalizes it, and the session is
\* free for another turn only after the commit was written.
CommittedOnce ==
    \A t \in Turn:
        /\ Len(commits[t]) <= 1
        /\ turn[t].kind # "none" /\ t \notin session => Len(commits[t]) = 1

\* A turn whose workload failed is committed fail_closed, although cancel,
\* intent and commit are separate steps, unless it was finalized by a client
\* before its own task could.
FailClosed ==
    \A t \in history.failed \ history.disturbed:
        commits[t] \in {<<>>, <<"fail_closed">>}

\* A publisher waits for a queue that nobody reads any more.
Hangs ==
    \E p \in Task:
        /\ task[p].pc = "put" /\ Len(queue[task[p].to]) = QueueMax
        /\ task[p].to # conn \/ ~on

\* An active built-in turn ends and frees its session, unless its exception
\* escapes the handler, a file write failed or a publisher hangs on the queue of
\* a connection that is gone.  It does not hold for an extension turn:
\* emit_turn_final_if_needed puts turn_final on the bus, so finalize starts the
\* commit, is refused there and never ends it.
TurnSettles ==
    \A t \in Turn:
        (session = {t} /\ turn[t].kind = "builtin")
            ~> (session # {t} \/ Hangs \/ history.writeFailed \/ t \in history.escaped)
=============================================================================
