------------------------------- MODULE RunLedger -------------------------------
(***************************************************************************)
(* The dual-write run ledger of one session: the SQLite row, the protocol  *)
(* event log and the intent file that ties them together                   *)
(* (async_dual_write_run_ledger.py), used by the run pipeline that starts  *)
(* a run, materializes its tool receipts and finalizes it                  *)
(* (epic_run_orchestrator.py, epic_run_finalize.py,                        *)
(* protocol_receipt_materializer.py).                                      *)
(*                                                                         *)
(* One process runs the session.  It may die between any two disk writes,  *)
(* and in the middle of one; a new process recovers from the intent file.  *)
(* A session may be run again under the same id (an approval continuation  *)
(* does that).  The run graph artifact that finalize_run draws from the    *)
(* log is never read back and is left out.                                 *)
(***************************************************************************)
EXTENDS EventLog, SequencesExt

CONSTANTS
    File,      \* the protocol_receipts.log files, numbered in the order they are read
    Payload,   \* the rest of a row: the call, its result, whether it was replayed
    MaxRows,   \* bound: rows that a session's turns leave
    MaxRuns, MaxCrashes, MaxTears, MaxFaults   \* bounds on the counters

ASSUME FailedIsAnOutcome == "failed" \in Outcome
ASSUME FilesAreOrdered == File \subseteq Nat
ASSUME LedgerBounds == {MaxRows, MaxRuns, MaxCrashes, MaxTears, MaxFaults} \subseteq Nat

VARIABLES
    log,            \* events.log
    winners,        \* operation_commits.json: operation -> event_seq
    receipts,       \* receipts.log
    receiptsTorn,   \* its last line was cut off
    row,            \* status of the run_ledger row in SQLite
    intents,        \* dual_write_intents.json
    intentsTorn,    \* that file does not parse
    source,         \* the rows of the turns' files, in the order they are read
    pc,             \* where the process is
    job,            \* the dual write in progress
    todo,           \* recovery: intents still to recover
    unresolved,     \* recovery: intents it could not resolve
    mat,            \* the materializer's locals
    outcome,        \* the status the run is finalized with
    counts,         \* the bounded counters
    lost            \* history: a write of the intent file was cut off

disk == <<log, winners, receipts, receiptsTorn, row, intents, intentsTorn, source>>
locals == <<job, todo, unresolved, mat, outcome>>
vars == <<disk, pc, locals, counts, lost>>

Operation == {"start_run", "finalize_run"}
Job == [op: Operation, status: Status, at: Nat]
Intent == [op: Operation, status: Status, at: Nat, sqlite: BOOLEAN, protocol: BOOLEAN]
SourceRow == [file: File, op: Op, payload: Payload]
Receipt == [seq: Nat, op: Op, payload: Payload, range: Nat \X Nat]

DualWrite == {"record", "sqlite", "ack", "protocol", "ackLog", "clear", "noteError"}
PC == {"down", "boot", "recover", "recoverLog", "rewrite", "idle", "work", "materialize",
       "row", "result", "commit", "facts", "finalize"} \cup DualWrite

NoJob == [op |-> "start_run", status |-> "running", at |-> 0]
NoMat == [item |-> 1, ranges |-> <<>>, call |-> 0]

Events == Replay(log)
ProtocolStatus == IF Corrupt(log) THEN "none" ELSE RunStatus(Events)

\* The assignment f[k] = v to a dict.
With(f, k, v) == [x \in DOMAIN f \cup {k} |-> IF x = k THEN v ELSE f[x]]

Fail(kind) == counts' = [counts EXCEPT ![kind] = @ + 1]
MayFail(kind, bound) == counts[kind] < bound

Init ==
    /\ log = <<>> /\ winners = <<>> /\ receipts = <<>> /\ receiptsTorn = FALSE
    /\ row = "none" /\ intents = <<>> /\ intentsTorn = FALSE /\ source = <<>>
    /\ pc = "boot" /\ job = NoJob /\ todo = <<>> /\ unresolved = <<>> /\ mat = NoMat
    /\ outcome = "failed"
    /\ counts = [runs |-> 0, crashes |-> 0, tears |-> 0, faults |-> 0]
    /\ lost = FALSE

-----------------------------------------------------------------------------
(* The two backends.                                                         *)

\* What start_run or finalize_run leaves in the SQLite row.
RowAfter(j) ==
    IF j.op = "start_run" THEN "running" ELSE IF row = "none" THEN "none" ELSE j.status

\* The protocol repository's start_run or finalize_run.
ProtocolWrite(j) ==
    IF j.op = "start_run" THEN LogStart(log) ELSE LogFinalize(log, j.status, j.at)

\* An acknowledgement check that trusts only the flags of the intent.
NotAcknowledged(status, i) == FALSE

\* _backend_acknowledged
Acknowledged(status, i) ==
    IF i.op = "start_run" THEN status # "none" ELSE status = i.status

\* The rows without the one of operation op: an intent_id is the operation and
\* the session, so there is at most one.
Without(rows, op) ==
    IF \E k \in DOMAIN rows : rows[k].op = op
      THEN RemoveAt(rows, CHOOSE k \in DOMAIN rows : rows[k].op = op)
      ELSE rows

\* _update_intent
Updated(rows, op, field) ==
    [k \in DOMAIN rows |-> IF rows[k].op = op THEN [rows[k] EXCEPT ![field] = TRUE] ELSE rows[k]]

-----------------------------------------------------------------------------
(* initialize: recovery, once per process, before the first ledger call.     *)

Boot ==
    /\ pc = "down"
    /\ pc' = "boot"
    /\ UNCHANGED <<disk, locals, counts, lost>>

LoadIntents ==
    /\ pc = "boot" /\ ~intentsTorn
    /\ pc' = IF intents = <<>> THEN "idle" ELSE "recover"
    /\ todo' = intents
    /\ unresolved' = <<>>
    /\ UNCHANGED <<disk, job, mat, outcome, counts, lost>>

\* _recover_intent, SQLite side.
RecoverRow ==
    LET i == Head(todo)
        acked == i.sqlite \/ Acknowledged(row, i)
    IN /\ pc = "recover"
       /\ row' = IF acked THEN row ELSE RowAfter(i)
       /\ todo' = <<[i EXCEPT !.sqlite = TRUE, !.protocol = @ \/ Acknowledged(ProtocolStatus, i)]>>
                    \o Tail(todo)
       /\ pc' = "recoverLog"
       /\ UNCHANGED <<log, winners, receipts, receiptsTorn, intents, intentsTorn, source,
                      job, unresolved, mat, outcome, counts, lost>>

\* A SQLite error is not one that recovery handles: initialize raises, and the
\* next ledger call starts it over.
RecoverRowFails ==
    /\ pc = "recover" /\ MayFail("faults", MaxFaults)
    /\ ~Head(todo).sqlite
    /\ pc' = "boot"
    /\ Fail("faults")
    /\ UNCHANGED <<disk, locals, lost>>

Recovered(resolved) ==
    /\ todo' = Tail(todo)
    /\ unresolved' = IF resolved THEN unresolved ELSE Append(unresolved, Head(todo))
    /\ pc' = IF Len(todo) = 1 THEN "rewrite" ELSE "recover"

\* _recover_intent, protocol side.
RecoverLog ==
    LET i == Head(todo)
        write == ProtocolWrite(i)
    IN /\ pc = "recoverLog"
       /\ IF i.protocol
            THEN UNCHANGED log /\ Recovered(TRUE)
            ELSE log' = log \o write.frames /\ Recovered(write.ok)
       /\ UNCHANGED <<winners, receipts, receiptsTorn, row, intents, intentsTorn, source,
                      job, mat, outcome, counts, lost>>

RecoverLogFails ==
    /\ pc = "recoverLog" /\ ~Head(todo).protocol /\ MayFail("faults", MaxFaults)
    /\ Recovered(FALSE)
    /\ Fail("faults")
    /\ UNCHANGED <<disk, job, mat, outcome, lost>>

RewriteIntents ==
    /\ pc = "rewrite"
    /\ intents' = unresolved
    /\ pc' = "idle"
    /\ UNCHANGED <<log, winners, receipts, receiptsTorn, row, intentsTorn, source,
                   locals, counts, lost>>

-----------------------------------------------------------------------------
(* start_run and finalize_run of the dual ledger, write by write.            *)

StartRun ==
    /\ pc = "idle" /\ counts.runs < MaxRuns
    /\ job' = [op |-> "start_run", status |-> "running", at |-> 0]
    /\ pc' = "record"
    /\ Fail("runs")
    /\ UNCHANGED <<disk, todo, unresolved, mat, outcome, lost>>

FinalizeRun ==
    /\ pc = "finalize"
    /\ job' = [op |-> "finalize_run", status |-> outcome, at |-> Len(Events)]
    /\ pc' = "record"
    /\ UNCHANGED <<disk, todo, unresolved, mat, outcome, counts, lost>>

\* A step of the dual write that only changes the intent file.
WriteIntents(from, rows, to) ==
    /\ pc = from
    /\ intents' = rows
    /\ pc' = to
    /\ UNCHANGED <<log, winners, receipts, receiptsTorn, row, intentsTorn, source,
                   locals, counts, lost>>

AfterJob == IF job.op = "start_run" THEN "work" ELSE "idle"

\* A _record_intent that keeps the file as it is.
RecordNothing == WriteIntents("record", intents, "sqlite")

\* _record_intent replaces an intent of the same operation.
RecordIntent ==
    WriteIntents("record",
        Append(Without(intents, job.op),
               [op |-> job.op, status |-> job.status, at |-> job.at,
                sqlite |-> FALSE, protocol |-> FALSE]),
        "sqlite")

AckRow == WriteIntents("ack", Updated(intents, job.op, "sqlite"), "protocol")
AckLog == WriteIntents("ackLog", Updated(intents, job.op, "protocol"), "clear")
ClearIntent == WriteIntents("clear", Without(intents, job.op), AfterJob)

\* protocol_error is recorded in the intent; recovery does not read it.
NoteError == WriteIntents("noteError", intents, AfterJob)

WriteRow ==
    /\ pc = "sqlite"
    /\ row' = RowAfter(job)
    /\ pc' = "ack"
    /\ UNCHANGED <<log, winners, receipts, receiptsTorn, intents, intentsTorn, source,
                   locals, counts, lost>>

\* A SQLite error leaves the ledger and the run: run_epic handles other errors.
WriteRowFails ==
    /\ pc = "sqlite" /\ MayFail("faults", MaxFaults)
    /\ pc' = "idle"
    /\ Fail("faults")
    /\ UNCHANGED <<disk, locals, lost>>

\* _try_protocol_write turns an error into a message.
WriteLog ==
    LET write == ProtocolWrite(job)
    IN /\ pc = "protocol"
       /\ log' = log \o write.frames
       /\ pc' = IF write.ok THEN "ackLog" ELSE "noteError"
       /\ UNCHANGED <<winners, receipts, receiptsTorn, row, intents, intentsTorn, source,
                      locals, counts, lost>>

WriteLogFails ==
    /\ pc = "protocol" /\ MayFail("faults", MaxFaults)
    /\ pc' = "noteError"
    /\ Fail("faults")
    /\ UNCHANGED <<disk, locals, lost>>

\* An infrastructure error on the way to a successful outcome is finalized as
\* a failure; one on the way to a failure, or in start_run, ends the run.
FailOver ==
    IF job.op = "finalize_run" /\ outcome # "failed"
      THEN outcome' = "failed" /\ pc' = "materialize"
      ELSE pc' = "idle" /\ UNCHANGED outcome

\* The intent file is opened for writing, which empties it, and then written.
WriteIntentsFails ==
    /\ pc \in {"record", "ack", "ackLog", "clear", "noteError"} /\ MayFail("faults", MaxFaults)
    /\ \/ UNCHANGED <<intents, lost>>
       \/ intents' = <<>> /\ lost' = TRUE
    /\ FailOver
    /\ Fail("faults")
    /\ UNCHANGED <<log, winners, receipts, receiptsTorn, row, intentsTorn, source,
                   job, todo, unresolved, mat>>

-----------------------------------------------------------------------------
(* The run between start_run and finalize_run.                               *)

\* append_protocol_receipt adds a row to the end of its turn's file.  The turns
\* of a second run have the numbers, and so the files and the operations, of
\* the first run's: rows may repeat an operation, and a row may come to stand
\* before rows that are older than it.
WriteTurnReceipt ==
    /\ pc = "work" /\ Len(source) < MaxRows
    /\ \E r \in SourceRow, n \in 0..Len(source) :
          /\ \A k \in 1..n : source[k].file <= r.file
          /\ \A k \in (n + 1)..Len(source) : source[k].file > r.file
          /\ source' = InsertAt(source, n + 1, r)
    /\ UNCHANGED <<log, winners, receipts, receiptsTorn, row, intents, intentsTorn, pc,
                   locals, counts, lost>>

\* The workload ends, and its outcome decides how the run ends.
Work ==
    /\ pc = "work"
    /\ outcome' \in Outcome
    /\ job' = [job EXCEPT !.op = "finalize_run"]
    /\ pc' = "materialize"
    /\ UNCHANGED <<disk, todo, unresolved, mat, counts, lost>>

\* An error run_epic does not handle ends the run without a finalize_run.
WorkRaises ==
    /\ pc = "work"
    /\ pc' = "idle"
    /\ UNCHANGED <<disk, locals, counts, lost>>

\* materialize_protocol_receipts; whatever it raises is logged and the run
\* goes on.
Materialize ==
    /\ pc = "materialize"
    /\ IF source = <<>> \/ Corrupt(log)
         THEN pc' = "facts" /\ UNCHANGED mat
         ELSE pc' = "row" /\ mat' = [NoMat EXCEPT !.ranges = Ranges(Events)]
    /\ UNCHANGED <<disk, job, todo, unresolved, outcome, counts, lost>>

MoreRows == mat.item <= Len(source)

\* The operation of the row being materialized.
RowOp == source[mat.item].op

RowsDone ==
    /\ pc = "row" /\ ~MoreRows
    /\ pc' = "facts"
    /\ UNCHANGED <<disk, locals, counts, lost>>

\* append_event of the tool_call of a row whose operation has no events yet.
CallRow ==
    /\ pc = "row" /\ MoreRows /\ RowOp \notin DOMAIN mat.ranges
    /\ IF CallRefused(log) THEN pc' = "facts" /\ UNCHANGED <<log, mat>>
       ELSE IF RowOp \in DOMAIN winners
              THEN /\ mat' = [mat EXCEPT !.ranges =
                                With(@, RowOp, <<winners[RowOp], winners[RowOp]>>)]
                   /\ UNCHANGED <<log, pc>>
              ELSE /\ log' = Append(log, [kind |-> "tool_call", op |-> RowOp])
                   /\ mat' = [mat EXCEPT !.call = Len(Events) + 1]
                   /\ pc' = "result"
    /\ UNCHANGED <<winners, receipts, receiptsTorn, row, intents, intentsTorn, source,
                   job, todo, unresolved, outcome, counts, lost>>

\* A reservation that records the sequence number of the event before.
ReserveResultBehind ==
    /\ pc = "result"
    /\ IF ResultRefused(log, RowOp, mat.call, DOMAIN winners)
         THEN pc' = "facts" /\ UNCHANGED winners
         ELSE winners' = With(winners, RowOp, Len(Events)) /\ pc' = "commit"
    /\ UNCHANGED <<log, receipts, receiptsTorn, row, intents, intentsTorn, source,
                   locals, counts, lost>>

\* append_event of the operation_result, up to the reservation of the
\* operation: OperationCommitRegistry.commit writes its file first.
ReserveResult ==
    /\ pc = "result"
    /\ IF ResultRefused(log, RowOp, mat.call, DOMAIN winners)
         THEN pc' = "facts" /\ UNCHANGED winners
         ELSE winners' = With(winners, RowOp, Len(Events) + 1) /\ pc' = "commit"
    /\ UNCHANGED <<log, receipts, receiptsTorn, row, intents, intentsTorn, source,
                   locals, counts, lost>>

AppendResult ==
    /\ pc = "commit"
    /\ log' = Append(log, [kind |-> "operation_result", op |-> RowOp, call |-> mat.call])
    /\ mat' = [mat EXCEPT !.ranges = With(@, RowOp, <<mat.call, Len(Events) + 1>>)]
    /\ pc' = "row"
    /\ UNCHANGED <<winners, receipts, receiptsTorn, row, intents, intentsTorn, source,
                   job, todo, unresolved, outcome, counts, lost>>

NextReceipt ==
    [seq |-> mat.item, op |-> RowOp, payload |-> source[mat.item].payload,
     range |-> mat.ranges[RowOp]]

\* _append_receipt_sync: a receipt with the same digest is returned, one
\* not past the last receipt_seq is refused and ends the materialization, a
\* torn line fails the load.  A row that repeats an operation gets a receipt
\* of its own, for the events that the operation already has.
ReceiptKnown == NextReceipt \in Range(receipts)

\* A comparison that lets the last receipt_seq be used again.
ReceiptRefusedBehind ==
    \/ receiptsTorn
    \/ ~ReceiptKnown /\ \E k \in DOMAIN receipts : receipts[k].seq > mat.item

ReceiptRefused ==
    \/ receiptsTorn
    \/ ~ReceiptKnown /\ \E k \in DOMAIN receipts : receipts[k].seq >= mat.item

AppendReceipt ==
    /\ pc = "row" /\ MoreRows /\ RowOp \in DOMAIN mat.ranges
    /\ IF ReceiptRefused THEN pc' = "facts" /\ UNCHANGED <<receipts, mat>>
       ELSE /\ receipts' = IF ReceiptKnown THEN receipts ELSE Append(receipts, NextReceipt)
            /\ mat' = [mat EXCEPT !.item = @ + 1]
            /\ UNCHANGED pc
    /\ UNCHANGED <<log, winners, receiptsTorn, row, intents, intentsTorn, source,
                   job, todo, unresolved, outcome, counts, lost>>

MaterializeFails ==
    /\ pc \in {"row", "result", "commit"} /\ MoreRows /\ MayFail("faults", MaxFaults)
    /\ pc' = "facts"
    /\ Fail("faults")
    /\ UNCHANGED <<disk, locals, lost>>

\* The facts recorded while the summary is built; their errors are ignored.
RecordFacts ==
    /\ pc = "facts"
    /\ \/ log' = log \o LogFact(log).frames
       \/ UNCHANGED log
    /\ pc' = "finalize"
    /\ UNCHANGED <<winners, receipts, receiptsTorn, row, intents, intentsTorn, source,
                   locals, counts, lost>>

InfrastructureFails ==
    /\ pc = "finalize" /\ MayFail("faults", MaxFaults)
    /\ FailOver
    /\ Fail("faults")
    /\ UNCHANGED <<disk, job, todo, unresolved, mat, lost>>

-----------------------------------------------------------------------------
(* The process dies.                                                         *)

Dies ==
    /\ pc # "down" /\ MayFail("crashes", MaxCrashes)
    /\ pc' = "down"
    /\ job' = NoJob /\ todo' = <<>> /\ unresolved' = <<>> /\ mat' = NoMat /\ outcome' = "failed"

Crash ==
    /\ Dies
    /\ Fail("crashes")
    /\ UNCHANGED <<disk, lost>>

\* The frames that the next step of the process appends to events.log.
NextFrames ==
    CASE pc = "protocol" -> ProtocolWrite(job).frames
      [] pc = "recoverLog" /\ ~Head(todo).protocol -> ProtocolWrite(Head(todo)).frames
      [] pc = "row" /\ MoreRows /\ RowOp \notin DOMAIN mat.ranges
            /\ ~CallRefused(log) /\ RowOp \notin DOMAIN winners -> <<"tool_call">>
      [] pc = "commit" -> <<"operation_result">>
      [] pc = "facts" -> LogFact(log).frames
      [] OTHER -> <<>>

TearLog ==
    /\ NextFrames # <<>>
    /\ \E n \in 1..MaxNeed : log' = Append(log, [kind |-> "torn", need |-> n])
    /\ UNCHANGED <<winners, receipts, receiptsTorn, row, intents, intentsTorn, source, lost>>

\* write_text and aiofiles "w" empty the file and then write it.
TearIntents ==
    /\ pc \in {"record", "ack", "ackLog", "clear", "noteError", "rewrite"}
    /\ \/ intents' = <<>> /\ UNCHANGED intentsTorn
       \/ intents' = <<>> /\ intentsTorn' = TRUE
    /\ lost' = TRUE
    /\ UNCHANGED <<log, winners, receipts, receiptsTorn, row, source>>

\* _ensure_loaded takes a file that does not parse for an empty registry.
TearRegistry ==
    /\ pc = "result" /\ ~ResultRefused(log, RowOp, mat.call, DOMAIN winners)
    /\ winners' = <<>>
    /\ UNCHANGED <<log, receipts, receiptsTorn, row, intents, intentsTorn, source, lost>>

TearReceipts ==
    /\ pc = "row" /\ MoreRows /\ RowOp \in DOMAIN mat.ranges
    /\ ~ReceiptRefused /\ ~ReceiptKnown
    /\ receiptsTorn' = TRUE
    /\ UNCHANGED <<log, winners, receipts, row, intents, intentsTorn, source, lost>>

CrashInWrite ==
    /\ Dies /\ MayFail("tears", MaxTears)
    /\ counts' = [counts EXCEPT !.crashes = @ + 1, !.tears = @ + 1]
    /\ TearLog \/ TearIntents \/ TearRegistry \/ TearReceipts

-----------------------------------------------------------------------------
Next ==
    \/ Boot \/ LoadIntents \/ RecoverRow \/ RecoverRowFails \/ RecoverLog \/ RecoverLogFails
    \/ RewriteIntents
    \/ StartRun \/ RecordIntent \/ WriteRow \/ WriteRowFails \/ AckRow \/ WriteLog
    \/ WriteLogFails \/ AckLog \/ ClearIntent \/ NoteError \/ WriteIntentsFails
    \/ WriteTurnReceipt \/ Work \/ WorkRaises \/ Materialize \/ RowsDone \/ CallRow \/ ReserveResult \/ AppendResult
    \/ AppendReceipt \/ MaterializeFails \/ RecordFacts \/ InfrastructureFails \/ FinalizeRun
    \/ Crash \/ CrashInWrite

Spec == Init /\ [][Next]_vars

-----------------------------------------------------------------------------
(* Properties.                                                               *)

\* The variables keep their types.
TypeOK ==
    /\ log \in Seq(Frame)
    /\ DOMAIN winners \subseteq Op /\ \A o \in DOMAIN winners : winners[o] \in Nat
    /\ receipts \in Seq(Receipt) /\ receiptsTorn \in BOOLEAN
    /\ row \in Status /\ intents \in Seq(Intent) /\ intentsTorn \in BOOLEAN
    /\ source \in Seq(SourceRow)
    /\ pc \in PC /\ job \in Job /\ todo \in Seq(Intent) /\ unresolved \in Seq(Intent)
    /\ DOMAIN mat = DOMAIN NoMat /\ mat.item \in Nat \ {0} /\ mat.call \in Nat
    /\ DOMAIN mat.ranges \subseteq Op /\ \A o \in DOMAIN mat.ranges : mat.ranges[o] \in Nat \X Nat
    /\ outcome \in Outcome
    /\ counts \in [runs: Nat, crashes: Nat, tears: Nat, faults: Nat]
    /\ lost \in BOOLEAN

\* The log that a replay reads says everything once, however often calls were
\* retried, recovered or run again: one run_started, one tool_call and one
\* operation_result per operation, one run_finalized per outcome.
OnceInLog ==
    LET events == Events IN
    \A i, j \in 1..Len(events) :
        events[i] = events[j] /\ events[i].kind # "fact" => i = j

\* In the log that a replay reads, nothing but facts comes between a call and
\* its result, and a result is of the operation that was called
\* (_validate_ordering_contract), crashes and reruns included.
CallsPaired ==
    LET events == Events IN
    /\ \A i \in Kinds(events, "operation_result") :
          /\ events[i].call \in Kinds(events, "tool_call")
          /\ events[events[i].call].op = events[i].op
    /\ \A i \in Kinds(events, "tool_call"), j \in 1..Len(events) :
          j > i /\ events[j].kind \in {"tool_call", "run_finalized"} =>
              \E k \in i..j : events[k].kind = "operation_result" /\ events[k].call = i

\* Every receipt names the call and the result of its own operation, receipt
\* numbers grow, and the receipts of one operation agree on its events: no
\* materialization after a crash or in a second run, which may replay
\* operations and shift rows, links a receipt to the events of another
\* operation or uses a number twice.
ReceiptsBacked ==
    LET events == Events IN
    /\ \A k \in DOMAIN receipts :
          /\ events[receipts[k].range[1]] = [kind |-> "tool_call", op |-> receipts[k].op]
          /\ events[receipts[k].range[2]].kind = "operation_result"
          /\ events[receipts[k].range[2]].op = receipts[k].op
    /\ \A j, k \in DOMAIN receipts :
          /\ j < k => receipts[j].seq < receipts[k].seq
          /\ receipts[j].op = receipts[k].op => receipts[j].range = receipts[k].range

\* An operation in the commit registry has its result in the log, or the call
\* the result belongs to is the one still open: the registry, written first,
\* is at most one append ahead of the log.
WinnersAccounted ==
    LET events == Events IN
    \A o \in DOMAIN winners :
        \/ winners[o] <= Len(events) /\ events[winners[o]].kind = "operation_result"
              /\ events[winners[o]].op = o
        \/ \E i \in OpenCalls(events) : events[i].op = o /\ winners[o] > i

\* A call is left open between runs only by an error or a crash, never by the
\* limit on invocations, which counts calls and results alike: an even limit,
\* as the default of 200 is, never falls between the two.
OrphanNeedsFailure ==
    pc = "idle" /\ OpenCalls(Events) # {} => counts.crashes + counts.faults > 0

\* When no run is in progress and no intent is pending, an outcome that SQLite
\* reports is in the event log too, through every crash, failed write and
\* rerun, unless a cut-off write emptied the intent file or tore the log.
OutcomeLogged ==
    pc = "idle" /\ intents = <<>> /\ row \in Outcome /\ ~lost /\ TornAt(log) = {}
        => Finalized(Events, row)

\* Recovery never reopens a run that SQLite has recorded as finished: a
\* replayed start_run is an INSERT OR REPLACE with status running.
RecoveryNeverReopens ==
    [][(pc \in {"recover", "recoverLog"} /\ row \in Outcome) => (row' \in Outcome)]_vars

\* A partial frame at the tail is ignored: what a crash in the middle of an
\* append leaves behind never makes a replay fail.
PartialTailIgnored == ~Corrupt(log)
===============================================================================
