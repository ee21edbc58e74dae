---------------------------- MODULE RunLedgerProofs ----------------------------
(***************************************************************************)
(* The dual-write ledger, for every set of operations and outcomes and     *)
(* every bound on runs, crashes, cut-off writes and errors: the event log  *)
(* says everything once and in order, receipts and commit registry agree   *)
(* with it, and no outcome that SQLite reports is lost on the way to it.   *)
(***************************************************************************)
EXTENDS RunLedger, TLAPS, WellFoundedInduction, FiniteSetTheorems,
        SequenceTheorems

-----------------------------------------------------------------------------
(* The inductive invariant, in named parts.                                    *)

\* A log that a replay reads: everything once; a result after the call it
\* answers, of the same operation; a call is answered before another call or
\* the end of the run.
LogOK(ev) ==
    /\ ev \in Seq(Frame)
    /\ \A i, j \in 1..Len(ev) : ev[i] = ev[j] /\ ev[i].kind # "fact" => i = j
    /\ \A j \in Kinds(ev, "operation_result") :
          /\ ev[j].call \in Kinds(ev, "tool_call")
          /\ ev[j].call < j
          /\ ev[ev[j].call].op = ev[j].op
    /\ \A i \in Kinds(ev, "tool_call"), j \in 1..Len(ev) :
          j > i /\ ev[j].kind \in {"tool_call", "run_finalized"} =>
              \E k \in i..j : ev[k].kind = "operation_result" /\ ev[k].call = i

\* r is the range of a call of operation o and its result.
Backed(ev, o, r) ==
    /\ r[1] \in Kinds(ev, "tool_call") /\ ev[r[1]].op = o
    /\ r[2] \in Kinds(ev, "operation_result") /\ ev[r[2]].op = o

\* The entry of operation o in the commit registry.
Accounted(ev, o, n) ==
    \/ n \in Kinds(ev, "operation_result") /\ ev[n].op = o
    \/ \E i \in OpenCalls(ev) : ev[i].op = o /\ n > i

LogInv ==
    /\ LogOK(Events)
    /\ \A o \in DOMAIN winners : Accounted(Events, o, winners[o])
    /\ \A k \in DOMAIN receipts : Backed(Events, receipts[k].op, receipts[k].range)
    /\ \A j, k \in DOMAIN receipts : j < k => receipts[j].seq < receipts[k].seq

\* While the materializer works: what it knows of the log is what the log says,
\* the call it has appended is open, and the registry entry it has written
\* names the next event.
MatInv ==
    /\ pc \in {"row", "result", "commit"} =>
          /\ \A j \in Kinds(Events, "operation_result") : Events[j].op \in DOMAIN mat.ranges
          /\ \A o \in DOMAIN mat.ranges : Backed(Events, o, mat.ranges[o])
    /\ pc \in {"result", "commit"} => MoreRows
    /\ pc = "result" /\ mat.call \in 1..Len(Events) =>
          Events[mat.call].op = RowOp /\ TornAt(log) = {}
    /\ pc = "commit" =>
          /\ TornAt(log) = {}
          /\ mat.call \in OpenCalls(Events) /\ Events[mat.call].op = RowOp
          /\ RowOp \in DOMAIN winners /\ winners[RowOp] = Len(Events) + 1

\* Before the first crash and the first error.
Undisturbed ==
    counts.crashes + counts.faults = 0 =>
        /\ TornAt(log) = {}
        /\ Invocations(Events) <= MaxInvocations
        /\ pc \notin {"result", "commit"} => OpenCalls(Events) = {} /\ Invocations(Events) % 2 = 0
        /\ pc \in {"result", "commit"} =>
              OpenCalls(Events) = {mat.call} /\ Invocations(Events) % 2 = 1
        /\ pc = "result" => RowOp \notin DOMAIN winners

\* A row of the intent file is of one operation, and one that finalizes a run
\* has the status of an outcome.
Rows(rows) ==
    /\ \A j, k \in DOMAIN rows : rows[j].op = rows[k].op => j = k
    /\ \A k \in DOMAIN rows : rows[k].op = "finalize_run" => rows[k].status \in Outcome

\* What recovery has read, and has not resolved, are rows of the file.
IntentInv ==
    /\ Rows(intents)
    /\ pc \in DualWrite /\ job.op = "finalize_run" => job.status \in Outcome
    /\ pc \in {"sqlite", "ack", "protocol", "ackLog", "clear", "noteError"} =>
          \A k \in DOMAIN intents : intents[k].op = job.op => intents[k].status = job.status
    /\ pc \in {"recover", "recoverLog"} =>
          /\ todo # <<>> /\ Rows(todo) /\ Rows(unresolved)
          /\ \A j \in DOMAIN todo, k \in DOMAIN unresolved : todo[j].op # unresolved[k].op
          /\ \A k \in DOMAIN todo :
                k > 1 \/ pc = "recover" => \E m \in DOMAIN intents : intents[m] = todo[k]
    /\ pc = "recoverLog" => todo[1].sqlite
    /\ pc = "rewrite" => Rows(unresolved)

\* A row that says that the log has the outcome is right.
Honest(rows) ==
    \A k \in DOMAIN rows :
        rows[k].op = "finalize_run" /\ rows[k].protocol => Finalized(Events, rows[k].status)

\* A row that will bring the outcome of SQLite to the log, or change it.
Carried(rows) ==
    \E k \in DOMAIN rows :
        rows[k].op = "finalize_run" /\ (rows[k].sqlite => rows[k].status = row)

\* The outcome that SQLite reports is in the log or some row carries it: the
\* file always, what recovery holds while it works, the row of the dual write
\* in progress.
Sound ==
    /\ Honest(intents)
    /\ row \in Outcome => Finalized(Events, row) \/ Carried(intents)
    /\ pc \in {"recover", "recoverLog", "rewrite"} => Honest(todo) /\ Honest(unresolved)
    /\ pc \in {"recover", "recoverLog"} /\ row \in Outcome =>
          Finalized(Events, row) \/ Carried(todo) \/ Carried(unresolved)
    /\ pc = "rewrite" /\ row \in Outcome => Finalized(Events, row) \/ Carried(unresolved)
    /\ pc \in {"sqlite", "ack", "protocol", "ackLog", "clear", "noteError"} =>
          \E k \in DOMAIN intents : intents[k].op = job.op /\ intents[k].status = job.status
    /\ pc \in {"ack", "protocol", "ackLog", "clear", "noteError"} =>
          row = IF job.op = "start_run" THEN "running"
                ELSE IF row = "none" THEN "none" ELSE job.status
    /\ pc \in {"ackLog", "clear"} /\ job.op = "finalize_run" => Finalized(Events, job.status)

\* All that, while no intent is lost and the event log is not torn.
OutcomeInv == ~lost /\ TornAt(log) = {} => Sound

-----------------------------------------------------------------------------
(* Frames, and the part of the file that a replay reads.                       *)

\* What the fields of a frame are, by its kind.
LEMMA FrameFields ==
  ASSUME NEW f \in Frame
  PROVE  /\ f.kind = "tool_call" => f.op \in Op
         /\ f.kind = "operation_result" => f.op \in Op /\ f.call \in Nat
         /\ f.kind = "run_finalized" => f.status \in Outcome
         /\ f.kind = "torn" => f.need \in 1..MaxNeed
BY DEF Frame

\* A tool_call frame is its operation.
LEMMA CallFrame ==
  ASSUME NEW f \in Frame, f.kind = "tool_call"
  PROVE  f = [kind |-> "tool_call", op |-> f.op]
BY DEF Frame

\* The frames that the ledger writes, and the ones that a crash leaves.
LEMMA FramesWritten ==
  /\ [kind |-> "run_started"] \in Frame
  /\ [kind |-> "fact"] \in Frame
  /\ \A o \in Op : [kind |-> "tool_call", op |-> o] \in Frame
  /\ \A o \in Op, c \in Nat : [kind |-> "operation_result", op |-> o, call |-> c] \in Frame
  /\ \A s \in Outcome : [kind |-> "run_finalized", status |-> s] \in Frame
  /\ \A n \in 1..MaxNeed : [kind |-> "torn", need |-> n] \in Frame
BY DEF Frame

\* A nonempty set of numbers has a least one.
LEMMA LeastOf ==
  ASSUME NEW T, T \subseteq Nat, T # {}
  PROVE  \E m \in T : \A n \in T : m <= n
<1>1. PICK R : R = OpToRel(<, Nat)
  OBVIOUS
<1>2. IsWellFoundedOn(R, Nat)
  BY <1>1, NatLessThanWellFounded, Zenon
<1>3. PICK m \in T : \A n \in T : ~(<<n, m>> \in R)
  BY <1>2, WFMin
<1>4. R = {ss \in Nat \X Nat : ss[1] < ss[2]}
  BY <1>1, Zenon DEF OpToRel
<1>5. \A n \in T : ~(n < m)
  BY <1>3, <1>4
<1> QED
  BY <1>3, <1>5

\* A nonempty set of numbers with an upper bound has a greatest one.
LEMMA GreatestOf ==
  ASSUME NEW n \in Nat, NEW T, T \subseteq 1..n, T # {}
  PROVE  \E m \in T : \A k \in T : k <= m
<1> DEFINE U == {n - k : k \in T}
<1>1. U \subseteq Nat /\ U # {}
  <2>1. PICK k0 : k0 \in T
    OBVIOUS
  <2>2. n - k0 \in U
    BY <2>1
  <2>3. \A k \in T : n - k \in Nat
    OBVIOUS
  <2> QED
    BY <2>2, <2>3
<1>2. PICK u \in U : \A v \in U : u <= v
  BY <1>1, LeastOf
<1>3. PICK m \in T : u = n - m
  OBVIOUS
<1>4. \A k \in T : k <= m
  <2> TAKE k \in T
  <2>1. n - k \in U
    OBVIOUS
  <2>2. n - m <= n - k
    BY <2>1, <1>2, <1>3
  <2> HIDE DEF U
  <2>3. n \in Int /\ k \in Int /\ m \in Int
    OBVIOUS
  <2> QED
    BY <2>2, <2>3
<1> QED
  BY <1>4

\* The first n frames of a file are whole and the next one is not.
Cut(lg, n) ==
    /\ n \in 0..Len(lg)
    /\ \A i \in 1..n : lg[i].kind # "torn"
    /\ n < Len(lg) => lg[n + 1].kind = "torn"

\* Every file has such an n.
LEMMA CutExists ==
  ASSUME NEW lg \in Seq(Frame)
  PROVE  \E n : Cut(lg, n)
<1>1. CASE TornAt(lg) = {}
  <2>1. Cut(lg, Len(lg))
    BY <1>1 DEF Cut, TornAt
  <2> QED
    BY <2>1
<1>2. CASE TornAt(lg) # {}
  <2>1. TornAt(lg) \subseteq Nat
    BY DEF TornAt
  <2>2. PICK m \in TornAt(lg) : \A k \in TornAt(lg) : m <= k
    BY <1>2, <2>1, LeastOf
  <2>3. Cut(lg, m - 1)
    BY <2>2 DEF Cut, TornAt
  <2> QED
    BY <2>3
<1> QED
  BY <1>1, <1>2

\* A replay reads the frames before the first torn one.
LEMMA ReplayCut ==
  ASSUME NEW lg \in Seq(Frame), NEW n, Cut(lg, n)
  PROVE  /\ Replay(lg) = SubSeq(lg, 1, n)
         /\ TornAt(lg) = {} <=> n = Len(lg)
<1>1. CASE n = Len(lg)
  <2>1. TornAt(lg) = {}
    BY <1>1 DEF Cut, TornAt
  <2>2. SubSeq(lg, 1, n) = lg
    BY <1>1
  <2> QED
    BY <1>1, <2>1, <2>2 DEF Replay
<1>2. CASE n # Len(lg)
  <2>1. n \in Nat /\ n < Len(lg) /\ n + 1 \in TornAt(lg)
    BY <1>2 DEF Cut, TornAt
  <2>2. \A j \in TornAt(lg) : n + 1 <= j
    BY DEF Cut, TornAt
  <2>3. TornAt(lg) \subseteq Int
    BY DEF TornAt
  <2>4. \A i \in TornAt(lg) : (\A j \in TornAt(lg) : i <= j) => i = n + 1
    BY <2>1, <2>2, <2>3
  <2>5. (CHOOSE i \in TornAt(lg) : \A j \in TornAt(lg) : i <= j) = n + 1
    BY <2>1, <2>2, <2>4
  <2>6. (n + 1) - 1 = n
    BY <2>1
  <2>7. TornAt(lg) # {}
    BY <2>1
  <2>8. Replay(lg) =
           SubSeq(lg, 1, (CHOOSE i \in TornAt(lg) : \A j \in TornAt(lg) : i <= j) - 1)
    BY <2>7, Zenon DEF Replay
  <2>9. Replay(lg) = SubSeq(lg, 1, n)
    BY <2>5, <2>6, <2>8, Zenon
  <2> QED
    BY <1>2, <2>7, <2>9
<1> QED
  BY <1>1, <1>2

\* A whole frame appended to a file without a torn one is replayed; behind a
\* torn frame it is not, and a torn frame never is.
LEMMA ReplayAppend ==
  ASSUME NEW lg \in Seq(Frame), NEW f \in Frame
  PROVE  /\ Append(lg, f) \in Seq(Frame)
         /\ TornAt(lg) = {} /\ f.kind # "torn" =>
               Replay(Append(lg, f)) = Append(Replay(lg), f) /\ TornAt(Append(lg, f)) = {}
         /\ TornAt(lg) # {} \/ f.kind = "torn" =>
               Replay(Append(lg, f)) = Replay(lg) /\ TornAt(Append(lg, f)) # {}
<1> DEFINE l2 == Append(lg, f)
<1>0. /\ l2 \in Seq(Frame) /\ Len(l2) = Len(lg) + 1
      /\ \A i \in 1..Len(lg) : l2[i] = lg[i]
      /\ l2[Len(lg) + 1] = f
      /\ Len(lg) \in Nat
  OBVIOUS
<1>1. PICK n : Cut(lg, n)
  BY CutExists
<1>2. n \in 0..Len(lg)
  BY <1>1 DEF Cut
<1>3. CASE n = Len(lg) /\ f.kind # "torn"
  <2>1. Cut(l2, n + 1)
    BY <1>0, <1>1, <1>3 DEF Cut
  <2>2. TornAt(lg) = {} /\ TornAt(l2) = {}
    BY <1>0, <1>1, <1>3, <2>1, ReplayCut
  <2>3. Replay(lg) = lg /\ Replay(l2) = l2
    BY <2>2 DEF Replay
  <2> QED
    BY <1>0, <1>3, <2>2, <2>3
<1>4. CASE n < Len(lg) \/ f.kind = "torn"
  <2>1. Cut(l2, n)
    BY <1>0, <1>1, <1>2, <1>4 DEF Cut
  <2>2. n # Len(l2)
    BY <1>0, <1>2
  <2>3. TornAt(l2) # {} /\ Replay(l2) = SubSeq(l2, 1, n) /\ Replay(lg) = SubSeq(lg, 1, n)
    BY <1>0, <1>1, <2>1, <2>2, ReplayCut
  <2>4. SubSeq(l2, 1, n) = SubSeq(lg, 1, n)
    BY <1>0, <1>2
  <2>5. n < Len(lg) => TornAt(lg) # {}
    BY <1>1, <1>2, ReplayCut
  <2> QED
    BY <1>0, <1>4, <2>3, <2>4, <2>5
<1>5. n = Len(lg) <=> TornAt(lg) = {}
  BY <1>1, ReplayCut
<1> QED
  BY <1>2, <1>3, <1>4, <1>5

-----------------------------------------------------------------------------
(* Appending to a log that a replay reads.                                     *)

\* An append keeps the order of the log when the frame is new, answers an open
\* call of its operation, and neither calls nor finalizes over an open call.
LEMMA AppendOK ==
  ASSUME NEW ev, LogOK(ev), NEW f \in Frame,
         f.kind # "fact" => \A k \in 1..Len(ev) : ev[k] # f,
         f.kind = "operation_result" => f.call \in OpenCalls(ev) /\ ev[f.call].op = f.op,
         f.kind \in {"tool_call", "run_finalized"} => OpenCalls(ev) = {}
  PROVE  LogOK(Append(ev, f))
<1> DEFINE e2 == Append(ev, f)
           n == Len(ev)
<1>0. ev \in Seq(Frame) /\ n \in Nat
  BY DEF LogOK
<1>1. /\ e2 \in Seq(Frame) /\ Len(e2) = n + 1
      /\ \A i \in 1..n : e2[i] = ev[i]
      /\ e2[n + 1] = f
  BY <1>0
<1> HIDE DEF e2, n
<1>2. \A i, j \in 1..Len(e2) : e2[i] = e2[j] /\ e2[i].kind # "fact" => i = j
  <2> SUFFICES ASSUME NEW i \in 1..Len(e2), NEW j \in 1..Len(e2),
                      e2[i] = e2[j], e2[i].kind # "fact"
               PROVE  i = j
    OBVIOUS
  <2>1. CASE i \in 1..n /\ j \in 1..n
    BY <1>1, <2>1 DEF LogOK, n
  <2>2. CASE i = n + 1 /\ j = n + 1
    BY <2>2
  <2>3. CASE i \in 1..n /\ j = n + 1
    BY <1>1, <2>3 DEF n
  <2>4. CASE i = n + 1 /\ j \in 1..n
    BY <1>1, <2>4 DEF n
  <2> QED
    BY <1>0, <1>1, <2>1, <2>2, <2>3, <2>4
<1>3. ASSUME NEW j \in Kinds(e2, "operation_result")
      PROVE  /\ e2[j].call \in Kinds(e2, "tool_call")
             /\ e2[j].call < j
             /\ e2[e2[j].call].op = e2[j].op
  <2>1. CASE j \in 1..n
    <3>1. j \in Kinds(ev, "operation_result") /\ e2[j] = ev[j]
      BY <1>1, <1>3, <2>1 DEF Kinds, n
    <3>2. /\ ev[j].call \in Kinds(ev, "tool_call") /\ ev[j].call < j
          /\ ev[ev[j].call].op = ev[j].op
      BY <3>1 DEF LogOK
    <3>3. ev[j].call \in 1..n
      BY <3>2 DEF Kinds, n
    <3> QED
      BY <1>0, <1>1, <3>1, <3>2, <3>3 DEF Kinds, n
  <2>2. CASE j = n + 1
    <3>1. e2[j] = f /\ f.kind = "operation_result"
      BY <1>1, <1>3, <2>2 DEF Kinds
    <3>2. f.call \in Kinds(ev, "tool_call") /\ ev[f.call].op = f.op
      BY <3>1 DEF OpenCalls
    <3>3. f.call \in 1..n
      BY <3>2 DEF Kinds, n
    <3> QED
      BY <1>0, <1>1, <2>2, <3>1, <3>2, <3>3 DEF Kinds, n
  <2> QED
    BY <1>0, <1>1, <1>3, <2>1, <2>2 DEF Kinds
<1>4. ASSUME NEW i \in Kinds(e2, "tool_call"), NEW j \in 1..Len(e2),
             j > i, e2[j].kind \in {"tool_call", "run_finalized"}
      PROVE  \E k \in i..j : e2[k].kind = "operation_result" /\ e2[k].call = i
  <2>1. i \in 1..n /\ i \in Kinds(ev, "tool_call")
    BY <1>0, <1>1, <1>4 DEF Kinds, n
  <2>2. CASE j \in 1..n
    <3>1. ev[j].kind \in {"tool_call", "run_finalized"} /\ j \in 1..Len(ev)
      BY <1>1, <1>4, <2>2 DEF n
    <3>2. PICK k \in i..j : ev[k].kind = "operation_result" /\ ev[k].call = i
      BY <1>4, <2>1, <3>1 DEF LogOK
    <3>3. k \in 1..n
      BY <1>0, <2>1, <2>2
    <3> QED
      BY <1>1, <3>2, <3>3
  <2>3. CASE j = n + 1
    <3>1. OpenCalls(ev) = {}
      BY <1>1, <1>4, <2>3
    <3>2. PICK k \in Kinds(ev, "operation_result") : ev[k].call = i
      BY <2>1, <3>1 DEF OpenCalls
    <3>3. k \in 1..n /\ i < k /\ ev[k].kind = "operation_result"
      BY <3>2 DEF LogOK, Kinds, n
    <3>4. k \in i..j
      BY <1>0, <2>1, <2>3, <3>3
    <3> QED
      BY <1>1, <3>2, <3>3, <3>4
  <2> QED
    BY <1>0, <1>1, <2>2, <2>3
<1> QED
  BY <1>1, <1>2, <1>3, <1>4 DEF LogOK, e2

\* e2 is ev, perhaps with more frames that are neither calls nor results.
Quiet(ev, e2) ==
    /\ Len(ev) <= Len(e2)
    /\ \A i \in 1..Len(ev) : e2[i] = ev[i]
    /\ Kinds(e2, "tool_call") = Kinds(ev, "tool_call")
    /\ Kinds(e2, "operation_result") = Kinds(ev, "operation_result")

\* A frame that starts or finalizes a run, or states a fact, is quiet.
LEMMA QuietAppend ==
  ASSUME NEW ev \in Seq(Frame), NEW f \in Frame,
         f.kind \in {"run_started", "fact", "run_finalized"}
  PROVE  Quiet(ev, Append(ev, f))
<1> DEFINE e2 == Append(ev, f)
<1>1. /\ Len(e2) = Len(ev) + 1 /\ Len(ev) \in Nat
      /\ \A i \in 1..Len(ev) : e2[i] = ev[i]
      /\ e2[Len(ev) + 1] = f
  OBVIOUS
<1> HIDE DEF e2
<1>2. \A k \in {"tool_call", "operation_result"} : Kinds(e2, k) = Kinds(ev, k)
  BY <1>1 DEF Kinds
<1> QED
  BY <1>1, <1>2 DEF Quiet, e2

\* What a quiet extension of the log leaves as it was.
LEMMA QuietFacts ==
  ASSUME NEW ev \in Seq(Frame), NEW e2 \in Seq(Frame), Quiet(ev, e2)
  PROVE  /\ OpenCalls(e2) = OpenCalls(ev)
         /\ Invocations(e2) = Invocations(ev)
         /\ \A o, r : Backed(ev, o, r) => Backed(e2, o, r)
         /\ \A o, m : Accounted(ev, o, m) => Accounted(e2, o, m)
         /\ \A s : Finalized(ev, s) => Finalized(e2, s)
<1>0. Len(ev) \in Nat /\ Len(e2) \in Nat
  OBVIOUS
<1>1. \A k : Kinds(ev, k) \subseteq 1..Len(ev)
  BY DEF Kinds
<1>2. OpenCalls(e2) = OpenCalls(ev)
  <2>1. \A j \in Kinds(ev, "operation_result") : e2[j] = ev[j]
    BY <1>1 DEF Quiet
  <2> QED
    BY <2>1 DEF Quiet, OpenCalls
<1>3. Invocations(e2) = Invocations(ev)
  BY DEF Quiet, Invocations
<1>4. \A o, r : Backed(ev, o, r) => Backed(e2, o, r)
  BY <1>1 DEF Quiet, Backed
<1>5. \A o, m : Accounted(ev, o, m) => Accounted(e2, o, m)
  <2>1. \A i \in OpenCalls(ev) : e2[i] = ev[i]
    BY <1>1 DEF Quiet, OpenCalls
  <2>2. \A i \in Kinds(ev, "operation_result") : e2[i] = ev[i]
    BY <1>1 DEF Quiet
  <2> QED
    BY <1>2, <2>1, <2>2 DEF Quiet, Accounted
<1>6. \A s : Finalized(ev, s) => Finalized(e2, s)
  <2> SUFFICES ASSUME NEW s, NEW i \in Kinds(ev, "run_finalized"), ev[i].status = s
               PROVE  Finalized(e2, s)
    BY DEF Finalized
  <2>1. i \in Kinds(e2, "run_finalized") /\ e2[i] = ev[i]
    BY <1>0 DEF Kinds, Quiet
  <2> QED
    BY <2>1 DEF Finalized
<1> QED
  BY <1>2, <1>3, <1>4, <1>5, <1>6

-----------------------------------------------------------------------------
(* The writes of the protocol repository.                                      *)

\* Nothing appended is quiet.
LEMMA QuietSelf ==
  ASSUME NEW ev \in Seq(Frame)
  PROVE  Quiet(ev, ev)
BY DEF Quiet

\* lg is a file that a run_started, a run_finalized, a fact or a torn frame may
\* have been appended to.
QuietFile(lg) ==
    /\ lg \in Seq(Frame)
    /\ LogOK(Replay(lg))
    /\ Quiet(Events, Replay(lg))
    /\ TornAt(lg) = {} => TornAt(log) = {}

\* One such frame keeps the log in order.
LEMMA QuietWrite ==
  ASSUME log \in Seq(Frame), LogOK(Events), NEW f \in Frame,
         f.kind \in {"run_started", "fact", "run_finalized"},
         f.kind # "fact" => \A k \in 1..Len(Events) : Events[k] # f,
         f.kind = "run_finalized" => OpenCalls(Events) = {}
  PROVE  QuietFile(Append(log, f))
<1>1. Events \in Seq(Frame)
  BY DEF LogOK
<1>2. CASE TornAt(log) = {}
  <2>1. Replay(Append(log, f)) = Append(Events, f)
    BY <1>2, ReplayAppend DEF Events
  <2>2. LogOK(Append(Events, f))
    BY AppendOK
  <2> QED
    BY <1>1, <1>2, <2>1, <2>2, ReplayAppend, QuietAppend DEF QuietFile
<1>3. CASE TornAt(log) # {}
  <2>1. Replay(Append(log, f)) = Events /\ TornAt(Append(log, f)) # {}
    BY <1>3, ReplayAppend DEF Events
  <2> QED
    BY <1>1, <2>1, ReplayAppend, QuietSelf DEF QuietFile
<1> QED
  BY <1>2, <1>3

\* The file as it is.
LEMMA QuietSame ==
  ASSUME log \in Seq(Frame), LogOK(Events)
  PROVE  QuietFile(log)
BY QuietSelf DEF QuietFile, LogOK, Events

\* A torn frame is never replayed.
LEMMA QuietTorn ==
  ASSUME log \in Seq(Frame), LogOK(Events), NEW n \in 1..MaxNeed
  PROVE  /\ QuietFile(Append(log, [kind |-> "torn", need |-> n]))
         /\ TornAt(Append(log, [kind |-> "torn", need |-> n])) # {}
<1> DEFINE f == [kind |-> "torn", need |-> n]
<1>1. f \in Frame /\ f.kind = "torn"
  BY FramesWritten
<1>2. Replay(Append(log, f)) = Events /\ TornAt(Append(log, f)) # {} /\ Append(log, f) \in Seq(Frame)
  BY <1>1, ReplayAppend DEF Events
<1> QED
  BY <1>2, QuietSelf DEF QuietFile, LogOK

\* A fact.
LEMMA QuietFact ==
  ASSUME log \in Seq(Frame), LogOK(Events)
  PROVE  QuietFile(log \o LogFact(log).frames)
<1>1. CASE Corrupt(log)
  <2>1. log \o LogFact(log).frames = log
    BY <1>1 DEF LogFact, Raised
  <2> QED
    BY <2>1, QuietSame
<1>2. CASE ~Corrupt(log)
  <2>1. log \o LogFact(log).frames = Append(log, [kind |-> "fact"])
    BY <1>2, FramesWritten DEF LogFact, Appends
  <2> QED
    BY <2>1, QuietWrite, FramesWritten
<1> QED
  BY <1>1, <1>2

\* start_run and finalize_run, in recovery and in the dual write: a quiet
\* change, after which the outcome is in the log unless the write raised.
LEMMA QuietProtocolWrite ==
  ASSUME log \in Seq(Frame), LogOK(Events), NEW j, j.op \in Operation,
         j.op = "finalize_run" => j.status \in Outcome
  PROVE  /\ QuietFile(log \o ProtocolWrite(j).frames)
         /\ j.op = "finalize_run" /\ ProtocolWrite(j).ok /\ TornAt(log) = {} =>
               Finalized(Replay(log \o ProtocolWrite(j).frames), j.status)
<1> DEFINE w == ProtocolWrite(j)
<1>0. Events \in Seq(Frame)
  BY DEF LogOK
<1>1. CASE w = Raised
  <2>1. log \o w.frames = log /\ ~w.ok
    BY <1>1 DEF Raised
  <2> QED
    BY <2>1, QuietSame
<1>2. CASE w = Nothing /\ (j.op = "finalize_run" => Finalized(Events, j.status))
  <2>1. log \o w.frames = log
    BY <1>2 DEF Nothing
  <2> QED
    BY <1>2, <2>1, QuietSame DEF Events
<1>3. CASE /\ j.op = "start_run" /\ w = Appends([kind |-> "run_started"])
           /\ Kinds(Events, "run_started") = {}
  <2> DEFINE f == [kind |-> "run_started"]
  <2>1. log \o w.frames = Append(log, f)
    BY <1>3 DEF Appends
  <2>2. f \in Frame /\ f.kind = "run_started"
    BY FramesWritten
  <2>3. \A k \in 1..Len(Events) : Events[k] # f
    BY <1>3 DEF Kinds
  <2>4. QuietFile(Append(log, f))
    BY <2>2, <2>3, QuietWrite
  <2> QED
    BY <1>3, <2>1, <2>4
<1>4. CASE /\ j.op = "finalize_run"
           /\ w = Appends([kind |-> "run_finalized", status |-> j.status])
           /\ ~Finalized(Events, j.status) /\ OpenCalls(Events) = {}
  <2> DEFINE f == [kind |-> "run_finalized", status |-> j.status]
  <2>1. log \o w.frames = Append(log, f)
    BY <1>4 DEF Appends
  <2>2. f \in Frame /\ f.kind = "run_finalized" /\ f.status = j.status
    BY <1>4, FramesWritten
  <2>3. \A k \in 1..Len(Events) : Events[k] # f
    BY <1>4, <2>2 DEF Kinds, Finalized
  <2>4. QuietFile(Append(log, f))
    BY <1>4, <2>2, <2>3, QuietWrite
  <2>5. ASSUME TornAt(log) = {}
        PROVE  Finalized(Replay(Append(log, f)), j.status)
    <3>1. Replay(Append(log, f)) = Append(Events, f)
      BY <2>2, <2>5, ReplayAppend DEF Events
    <3>2. Len(Events) + 1 \in Kinds(Append(Events, f), "run_finalized")
      BY <1>0, <2>2 DEF Kinds
    <3>3. Append(Events, f)[Len(Events) + 1].status = j.status
      BY <1>0, <2>2
    <3> QED
      BY <3>1, <3>2, <3>3 DEF Finalized
  <2> QED
    BY <2>1, <2>4, <2>5
<1>5. CASE j.op = "start_run"
  <2>1. w = LogStart(log)
    BY <1>5 DEF ProtocolWrite
  <2> QED
    BY <1>1, <1>2, <1>3, <1>5, <2>1 DEF LogStart, Events
<1>6. CASE j.op = "finalize_run"
  <2>1. w = LogFinalize(log, j.status, j.at)
    BY <1>6 DEF ProtocolWrite
  <2> QED
    BY <1>1, <1>2, <1>4, <1>6, <2>1 DEF LogFinalize, Events
<1> QED
  BY <1>5, <1>6 DEF Operation

-----------------------------------------------------------------------------
(* What is read from a log.                                                    *)

\* get_run reports an outcome only of a log that has it.
LEMMA StatusIsLogged ==
  ASSUME NEW ev \in Seq(Frame), RunStatus(ev) \in Outcome
  PROVE  Finalized(ev, RunStatus(ev))
<1> DEFINE marks == Kinds(ev, "run_started") \cup Kinds(ev, "run_finalized")
           last == CHOOSE i \in marks : \A j \in marks : j <= i
<1>1. Kinds(ev, "run_started") # {}
  BY OutcomesAreFinal DEF RunStatus
<1>2. marks \subseteq 1..Len(ev) /\ marks # {} /\ Len(ev) \in Nat
  BY <1>1 DEF Kinds
<1>3. \E i \in marks : \A j \in marks : j <= i
  BY <1>2, GreatestOf
<1>4. last \in marks
  BY <1>3
<1>5. RunStatus(ev) = IF ev[last].kind = "run_started" THEN "running" ELSE ev[last].status
  BY <1>1, Zenon DEF RunStatus
<1> HIDE DEF last
<1>6. ev[last].kind # "run_started" /\ RunStatus(ev) = ev[last].status
  BY <1>5, OutcomesAreFinal
<1>7. last \in Kinds(ev, "run_finalized")
  BY <1>4, <1>6 DEF Kinds
<1> QED
  BY <1>6, <1>7 DEF Finalized

\* _operation_event_ranges: the operations with a result, each with the range
\* of a call of the operation and its result.
LEMMA RangesFacts ==
  ASSUME NEW ev, LogOK(ev)
  PROVE  /\ DOMAIN Ranges(ev) = {ev[j].op : j \in Kinds(ev, "operation_result")}
         /\ DOMAIN Ranges(ev) \subseteq Op
         /\ \A o \in DOMAIN Ranges(ev) : Ranges(ev)[o] \in Nat \X Nat /\ Backed(ev, o, Ranges(ev)[o])
<1> DEFINE D == {ev[j].op : j \in Kinds(ev, "operation_result")}
           IsLast(o, j) == /\ ev[j].op = o
                           /\ \A k \in Kinds(ev, "operation_result") : ev[k].op = o => k <= j
           LastOf(o) == CHOOSE j \in Kinds(ev, "operation_result") : IsLast(o, j)
<1>1. ev \in Seq(Frame) /\ Len(ev) \in Nat
  BY DEF LogOK
<1>2. Ranges(ev) = [o \in D |-> <<ev[LastOf(o)].call, LastOf(o)>>]
  BY Zenon DEF Ranges
<1>3. DOMAIN Ranges(ev) = D
  BY <1>2
<1>4. D \subseteq Op
  BY <1>1, FrameFields DEF Kinds
<1>5. ASSUME NEW o \in D
      PROVE  Ranges(ev)[o] \in Nat \X Nat /\ Backed(ev, o, Ranges(ev)[o])
  <2> DEFINE T == {j \in Kinds(ev, "operation_result") : ev[j].op = o}
  <2>1. T \subseteq 1..Len(ev) /\ T # {}
    BY DEF Kinds
  <2>2. PICK m \in T : \A k \in T : k <= m
    BY <1>1, <2>1, GreatestOf
  <2>3. m \in Kinds(ev, "operation_result") /\ IsLast(o, m)
    BY <2>2
  <2> DEFINE l == LastOf(o)
  <2>4. l \in Kinds(ev, "operation_result") /\ IsLast(o, l)
    BY <2>3
  <2>5. Ranges(ev)[o] = <<ev[l].call, l>>
    BY <1>2
  <2> HIDE DEF l
  <2>6. /\ ev[l].op = o
        /\ ev[l].call \in Kinds(ev, "tool_call") /\ ev[ev[l].call].op = o
    BY <2>4 DEF LogOK
  <2>7. ev[l].call \in Nat /\ l \in Nat
    BY <1>1, <2>4, <2>6 DEF Kinds
  <2> QED
    BY <2>4, <2>5, <2>6, <2>7 DEF Backed
<1> QED
  BY <1>3, <1>4, <1>5

-----------------------------------------------------------------------------
(* The rows of the intent file.                                                *)

\* Without drops the row of the operation and keeps the others.
LEMMA WithoutFacts ==
  ASSUME NEW rows \in Seq(Intent), Rows(rows), NEW op
  PROVE  /\ Without(rows, op) \in Seq(Intent)
         /\ Rows(Without(rows, op))
         /\ \A k \in DOMAIN Without(rows, op) :
               /\ Without(rows, op)[k].op # op
               /\ \E m \in DOMAIN rows : Without(rows, op)[k] = rows[m]
         /\ \A m \in DOMAIN rows : rows[m].op # op =>
               \E k \in DOMAIN Without(rows, op) : Without(rows, op)[k] = rows[m]
<1>1. CASE \A k \in DOMAIN rows : rows[k].op # op
  <2>1. Without(rows, op) = rows
    BY <1>1, Zenon DEF Without
  <2> QED
    BY <1>1, <2>1
<1>2. CASE \E k \in DOMAIN rows : rows[k].op = op
  <2> DEFINE c == CHOOSE k \in DOMAIN rows : rows[k].op = op
             W == SubSeq(rows, 1, c - 1) \o SubSeq(rows, c + 1, Len(rows))
  <2>1. c \in DOMAIN rows /\ rows[c].op = op
    BY <1>2
  <2>2. Without(rows, op) = W
    BY <1>2, Zenon DEF Without, RemoveAt
  <2> HIDE DEF c
  <2> DEFINE n == Len(rows)
             A == SubSeq(rows, 1, c - 1)
             B == SubSeq(rows, c + 1, n)
  <2>a. n \in Nat /\ DOMAIN rows = 1..n /\ c \in 1..n /\ \A k \in 1..n : rows[k] \in Intent
    BY <2>1
  <2>b. A \in Seq(Intent) /\ Len(A) = c - 1 /\ \A k \in 1..(c - 1) : A[k] = rows[k]
    <3> HIDE DEF n
    <3>1. c - 1 \in Int /\ 1 \in Int /\ \A k \in 1..(c - 1) : rows[k] \in Intent
      BY <2>a
    <3>2. /\ A \in Seq(Intent) /\ Len(A) = IF 1 <= c - 1 THEN c - 1 - 1 + 1 ELSE 0
          /\ \A k \in 1..(c - 1 - 1 + 1) : A[k] = rows[1 + k - 1]
      BY <3>1, SubSeqProperties
    <3> HIDE DEF A
    <3> QED
      BY <2>a, <3>2
  <2>c. B \in Seq(Intent) /\ Len(B) = n - c /\ \A k \in 1..(n - c) : B[k] = rows[c + k]
    <3> HIDE DEF n
    <3>1. c + 1 \in Int /\ n \in Int /\ \A k \in (c + 1)..n : rows[k] \in Intent
      BY <2>a
    <3>2. /\ B \in Seq(Intent) /\ Len(B) = IF c + 1 <= n THEN n - (c + 1) + 1 ELSE 0
          /\ \A k \in 1..(n - (c + 1) + 1) : B[k] = rows[c + 1 + k - 1]
      BY <3>1, SubSeqProperties
    <3> HIDE DEF B
    <3>3. \A k \in 1..(n - c) : k \in 1..(n - (c + 1) + 1) /\ c + 1 + k - 1 = c + k
      BY <2>a
    <3>4. \A k \in 1..(n - c) : B[k] = rows[c + k]
      BY <3>2, <3>3
    <3> QED
      BY <2>a, <3>2, <3>4
  <2>d. W = A \o B
    OBVIOUS
  <2> HIDE DEF A, B, n, W
  <2>h. /\ W \in Seq(Intent) /\ Len(W) = Len(A) + Len(B)
        /\ \A k \in 1..(Len(A) + Len(B)) : W[k] = IF k <= Len(A) THEN A[k] ELSE B[k - Len(A)]
    BY <2>b, <2>c, <2>d, ConcatProperties
  <2>e. /\ W \in Seq(Intent) /\ Len(W) = n - 1 /\ DOMAIN W = 1..(n - 1)
        /\ \A k \in 1..(n - 1) : W[k] = IF k <= c - 1 THEN A[k] ELSE B[k - (c - 1)]
    BY <2>a, <2>b, <2>c, <2>h
  <2>f. \A k \in 1..(c - 1) : W[k] = rows[k]
    BY <2>a, <2>b, <2>e
  <2>g. ASSUME NEW k \in c..(n - 1)
        PROVE  W[k] = rows[k + 1]
    <3>1. /\ k - (c - 1) \in 1..(n - c) /\ c + (k - (c - 1)) = k + 1
          /\ k \in 1..(n - 1) /\ ~(k <= c - 1)
      BY <2>a
    <3>2. W[k] = B[k - (c - 1)]
      BY <2>e, <3>1
    <3> QED
      BY <2>c, <3>1, <3>2
  <2>3. /\ W \in Seq(Intent) /\ Len(rows) \in Nat /\ c \in 1..Len(rows)
        /\ DOMAIN rows = 1..Len(rows)
        /\ Len(W) = Len(rows) - 1 /\ DOMAIN W = 1..(Len(rows) - 1)
        /\ \A k \in 1..(c - 1) : W[k] = rows[k]
        /\ \A k \in c..(Len(rows) - 1) : W[k] = rows[k + 1]
    BY <2>a, <2>e, <2>f, <2>g DEF n
  <2>4. \A m \in DOMAIN rows : rows[m].op = op => m = c
    BY <2>1 DEF Rows
  <2>5. ASSUME NEW k \in DOMAIN W
        PROVE  /\ W[k] = rows[IF k < c THEN k ELSE k + 1]
               /\ (IF k < c THEN k ELSE k + 1) \in DOMAIN rows \ {c}
    BY <2>3, <2>5
  <2>6. ASSUME NEW m \in DOMAIN rows, m # c
        PROVE  /\ W[IF m < c THEN m ELSE m - 1] = rows[m]
               /\ (IF m < c THEN m ELSE m - 1) \in DOMAIN W
    <3>1. CASE m < c
      BY <2>3, <2>6, <3>1
    <3>2. CASE m > c
      <4>1. m - 1 \in c..(Len(rows) - 1) /\ (m - 1) + 1 = m
        BY <2>3, <2>6, <3>2
      <4>2. W[m - 1] = rows[m]
        BY <2>3, <4>1
      <4> QED
        BY <2>3, <3>2, <4>1, <4>2
    <3> QED
      BY <2>3, <2>6, <3>1, <3>2
  <2>7. Rows(W)
    <3>1. \A j, k \in DOMAIN W : W[j].op = W[k].op => j = k
      <4> SUFFICES ASSUME NEW j \in DOMAIN W, NEW k \in DOMAIN W, W[j].op = W[k].op
                   PROVE  j = k
        OBVIOUS
      <4>1. (IF j < c THEN j ELSE j + 1) = (IF k < c THEN k ELSE k + 1)
        BY <2>5 DEF Rows
      <4> QED
        BY <2>3, <4>1
    <3>2. \A k \in DOMAIN W : W[k].op = "finalize_run" => W[k].status \in Outcome
      BY <2>5 DEF Rows
    <3> QED
      BY <3>1, <3>2 DEF Rows
  <2>8. \A k \in DOMAIN W : W[k].op # op /\ \E m \in DOMAIN rows : W[k] = rows[m]
    <3> TAKE k \in DOMAIN W
    <3>1. PICK m \in DOMAIN rows \ {c} : W[k] = rows[m]
      BY <2>5
    <3> QED
      BY <2>4, <3>1
  <2>9. \A m \in DOMAIN rows : rows[m].op # op => \E k \in DOMAIN W : W[k] = rows[m]
    BY <2>1, <2>6
  <2> QED
    BY <2>2, <2>3, <2>7, <2>8, <2>9
<1> QED
  BY <1>1, <1>2

\* An acknowledgement changes one flag of the row of the operation.
LEMMA UpdatedFacts ==
  ASSUME NEW rows \in Seq(Intent), NEW op, NEW field \in {"sqlite", "protocol"}
  PROVE  /\ Updated(rows, op, field) \in Seq(Intent)
         /\ DOMAIN Updated(rows, op, field) = DOMAIN rows
         /\ \A k \in DOMAIN rows :
               /\ Updated(rows, op, field)[k].op = rows[k].op
               /\ Updated(rows, op, field)[k].status = rows[k].status
               /\ rows[k].op # op => Updated(rows, op, field)[k] = rows[k]
               /\ field = "sqlite" => Updated(rows, op, field)[k].protocol = rows[k].protocol
               /\ field = "protocol" => Updated(rows, op, field)[k].sqlite = rows[k].sqlite
<1> DEFINE U == Updated(rows, op, field)
           V(k) == IF rows[k].op = op THEN [rows[k] EXCEPT ![field] = TRUE] ELSE rows[k]
<1>1. Len(rows) \in Nat /\ DOMAIN rows = 1..Len(rows)
  OBVIOUS
<1>2. U = [k \in 1..Len(rows) |-> V(k)]
  BY <1>1 DEF Updated
<1>3. ASSUME NEW k \in 1..Len(rows)
      PROVE  /\ V(k) \in Intent /\ V(k).op = rows[k].op /\ V(k).status = rows[k].status
             /\ rows[k].op # op => V(k) = rows[k]
             /\ field = "sqlite" => V(k).protocol = rows[k].protocol
             /\ field = "protocol" => V(k).sqlite = rows[k].sqlite
  <2>1. rows[k] \in Intent
    OBVIOUS
  <2>2. CASE field = "sqlite"
    BY <2>1, <2>2 DEF Intent
  <2>3. CASE field = "protocol"
    BY <2>1, <2>3 DEF Intent
  <2> QED
    BY <2>2, <2>3
<1> HIDE DEF V
<1>4. U \in Seq(Intent)
  BY <1>1, <1>2, <1>3
<1>5. DOMAIN U = DOMAIN rows /\ \A k \in DOMAIN rows : U[k] = V(k)
  BY <1>1, <1>2
<1> QED
  BY <1>1, <1>3, <1>4, <1>5

\* Recording an intent: the file has one row of the operation, the new one.
LEMMA RecordedFacts ==
  ASSUME NEW rows \in Seq(Intent), Rows(rows), NEW i \in Intent,
         i.op = "finalize_run" => i.status \in Outcome
  PROVE  /\ Append(Without(rows, i.op), i) \in Seq(Intent)
         /\ Rows(Append(Without(rows, i.op), i))
         /\ \E k \in DOMAIN Append(Without(rows, i.op), i) : Append(Without(rows, i.op), i)[k] = i
         /\ \A k \in DOMAIN Append(Without(rows, i.op), i) :
               \/ Append(Without(rows, i.op), i)[k] = i
               \/ /\ Append(Without(rows, i.op), i)[k].op # i.op
                  /\ \E m \in DOMAIN rows : Append(Without(rows, i.op), i)[k] = rows[m]
         /\ \A m \in DOMAIN rows : rows[m].op # i.op =>
               \E k \in DOMAIN Append(Without(rows, i.op), i) : Append(Without(rows, i.op), i)[k] = rows[m]
<1> DEFINE W == Without(rows, i.op)
           A == Append(W, i)
<1>1. /\ W \in Seq(Intent) /\ Rows(W)
      /\ \A k \in DOMAIN W : W[k].op # i.op /\ \E m \in DOMAIN rows : W[k] = rows[m]
      /\ \A m \in DOMAIN rows : rows[m].op # i.op => \E k \in DOMAIN W : W[k] = rows[m]
  BY WithoutFacts
<1> HIDE DEF W
<1>2. /\ A \in Seq(Intent) /\ DOMAIN A = 1..(Len(W) + 1) /\ DOMAIN W = 1..Len(W) /\ Len(W) \in Nat
      /\ \A k \in DOMAIN W : A[k] = W[k]
      /\ A[Len(W) + 1] = i
  BY <1>1
<1> HIDE DEF A
<1>3. \A k \in DOMAIN A : k \in DOMAIN W \/ k = Len(W) + 1
  BY <1>2
<1>4. Rows(A)
  <2>1. \A j, k \in DOMAIN A : A[j].op = A[k].op => j = k
    BY <1>1, <1>2, <1>3 DEF Rows
  <2>2. \A k \in DOMAIN A : A[k].op = "finalize_run" => A[k].status \in Outcome
    BY <1>1, <1>2, <1>3 DEF Rows
  <2> QED
    BY <2>1, <2>2 DEF Rows
<1>5. \E k \in DOMAIN A : A[k] = i
  BY <1>2
<1>6. \A k \in DOMAIN A : A[k] = i \/ (A[k].op # i.op /\ \E m \in DOMAIN rows : A[k] = rows[m])
  BY <1>1, <1>2, <1>3
<1>7. \A m \in DOMAIN rows : rows[m].op # i.op => \E k \in DOMAIN A : A[k] = rows[m]
  BY <1>1, <1>2
<1> QED
  BY <1>2, <1>4, <1>5, <1>6, <1>7 DEF A, W

-----------------------------------------------------------------------------
(* Type correctness.                                                           *)

\* What recovery may hold at a step of its protocol side.
LEMMA HeadTodo ==
  ASSUME TypeOK, IntentInv, pc \in {"recover", "recoverLog"}
  PROVE  /\ todo # <<>> /\ Head(todo) \in Intent /\ Tail(todo) \in Seq(Intent)
         /\ Head(todo) = todo[1] /\ 1 \in DOMAIN todo
         /\ Head(todo).op \in Operation
         /\ Head(todo).op = "finalize_run" => Head(todo).status \in Outcome
<1>1. todo \in Seq(Intent) /\ todo # <<>>
  BY DEF TypeOK, IntentInv
<1>2. Head(todo) \in Intent /\ Tail(todo) \in Seq(Intent) /\ Head(todo) = todo[1] /\ 1 \in DOMAIN todo
  BY <1>1
<1> QED
  BY <1>1, <1>2 DEF IntentInv, Rows, Intent

\* The bounded counters count.
LEMMA FailTyped ==
  ASSUME counts \in [runs: Nat, crashes: Nat, tears: Nat, faults: Nat],
         NEW kind \in {"runs", "crashes", "tears", "faults"}, Fail(kind)
  PROVE  /\ counts' \in [runs: Nat, crashes: Nat, tears: Nat, faults: Nat]
         /\ counts'[kind] = counts[kind] + 1
         /\ \A k \in {"runs", "crashes", "tears", "faults"} : k # kind => counts'[k] = counts[k]
<1>1. CASE kind = "runs"
  BY <1>1 DEF Fail
<1>2. CASE kind = "crashes"
  BY <1>2 DEF Fail
<1>3. CASE kind = "tears"
  BY <1>3 DEF Fail
<1>4. CASE kind = "faults"
  BY <1>4 DEF Fail
<1> QED
  BY <1>1, <1>2, <1>3, <1>4

\* The row being materialized is a row, of an operation.
LEMMA ItemIsOperation ==
  ASSUME TypeOK, MoreRows
  PROVE  RowOp \in Op /\ source[mat.item].payload \in Payload
<1>1. source[mat.item] \in SourceRow
  BY DEF TypeOK, MoreRows
<1> QED
  BY <1>1 DEF RowOp, SourceRow

\* Every action but Crash and CrashInWrite keeps the types.
LEMMA TypeStepUp ==
  ASSUME TypeOK, LogOK(Events), MatInv, IntentInv, Next, ~Crash, ~CrashInWrite
  PROVE  TypeOK'
<1>0. Events \in Seq(Frame) /\ Len(Events) \in Nat
  BY DEF LogOK
<1> USE DEF TypeOK, disk, locals, PC, DualWrite
<1>1. CASE Boot
  BY <1>1 DEF Boot
<1>2. CASE LoadIntents
  BY <1>2 DEF LoadIntents
<1>3. CASE RecoverRow
  <2>1. Head(todo) \in Intent /\ Tail(todo) \in Seq(Intent)
    BY <1>3, HeadTodo DEF RecoverRow
  <2> DEFINE i == [Head(todo) EXCEPT !.sqlite = TRUE,
                      !.protocol = @ \/ Acknowledged(ProtocolStatus, Head(todo))]
  <2>2. i \in Intent
    BY <2>1, Zenon DEF Intent, Acknowledged
  <2> HIDE DEF i
  <2>3. <<i>> \o Tail(todo) \in Seq(Intent)
    BY <2>1, <2>2
  <2>4. todo' = <<i>> \o Tail(todo)
    BY <1>3 DEF RecoverRow, i
  <2>5. row' \in Status
    BY <1>3, <2>1 DEF RecoverRow, RowAfter, Intent, Status
  <2> QED
    BY <1>3, <2>3, <2>4, <2>5 DEF RecoverRow
<1>4. CASE RecoverRowFails
  <2>1. counts' \in [runs: Nat, crashes: Nat, tears: Nat, faults: Nat]
    BY <1>4, FailTyped DEF RecoverRowFails
  <2> QED
    BY <1>4, <2>1 DEF RecoverRowFails
<1>5. CASE RecoverLog
  <2>1. Head(todo) \in Intent /\ Tail(todo) \in Seq(Intent) /\ Head(todo).op \in Operation
        /\ (Head(todo).op = "finalize_run" => Head(todo).status \in Outcome)
    BY <1>5, HeadTodo DEF RecoverLog
  <2>2. log \o ProtocolWrite(Head(todo)).frames \in Seq(Frame)
    BY <2>1, QuietProtocolWrite DEF QuietFile
  <2>3. log' \in Seq(Frame)
    BY <1>5, <2>2 DEF RecoverLog
  <2>4. /\ todo' \in Seq(Intent) /\ unresolved' \in Seq(Intent) /\ pc' \in {"rewrite", "recover"}
    <3>1. CASE Recovered(TRUE)
      BY <2>1, <3>1 DEF Recovered
    <3>2. CASE Recovered(ProtocolWrite(Head(todo)).ok)
      BY <2>1, <3>2 DEF Recovered
    <3> QED
      BY <1>5, <3>1, <3>2 DEF RecoverLog
  <2> QED
    BY <1>5, <2>3, <2>4 DEF RecoverLog
<1>6. CASE RecoverLogFails
  <2>1. Head(todo) \in Intent /\ Tail(todo) \in Seq(Intent)
    BY <1>6, HeadTodo DEF RecoverLogFails
  <2>2. counts' \in [runs: Nat, crashes: Nat, tears: Nat, faults: Nat]
    BY <1>6, FailTyped DEF RecoverLogFails
  <2>3. Recovered(FALSE)
    BY <1>6 DEF RecoverLogFails
  <2> QED
    BY <1>6, <2>1, <2>2, <2>3 DEF RecoverLogFails, Recovered
<1>7. CASE RewriteIntents
  BY <1>7 DEF RewriteIntents
<1>8. CASE StartRun
  <2>1. counts' \in [runs: Nat, crashes: Nat, tears: Nat, faults: Nat]
    BY <1>8, FailTyped DEF StartRun
  <2> QED
    BY <1>8, <2>1 DEF StartRun, Job, Operation, Status
<1>9. CASE FinalizeRun
  BY <1>0, <1>9 DEF FinalizeRun, Job, Operation, Status
<1>10. CASE RecordIntent
  <2> DEFINE i == [op |-> job.op, status |-> job.status, at |-> job.at,
                   sqlite |-> FALSE, protocol |-> FALSE]
  <2>1. i \in Intent /\ i.op = job.op /\ i.status = job.status
    BY DEF Intent, Job
  <2>2. i.op = "finalize_run" => i.status \in Outcome
    BY <1>10, <2>1 DEF RecordIntent, WriteIntents, IntentInv
  <2>3. Append(Without(intents, job.op), i) \in Seq(Intent)
    BY <2>1, <2>2, RecordedFacts DEF IntentInv
  <2> QED
    BY <1>10, <2>3 DEF RecordIntent, WriteIntents
<1>11. CASE AckRow
  <2>1. Updated(intents, job.op, "sqlite") \in Seq(Intent)
    BY UpdatedFacts
  <2> QED
    BY <1>11, <2>1 DEF AckRow, WriteIntents
<1>12. CASE AckLog
  <2>1. Updated(intents, job.op, "protocol") \in Seq(Intent)
    BY UpdatedFacts
  <2> QED
    BY <1>12, <2>1 DEF AckLog, WriteIntents
<1>13. CASE ClearIntent
  <2>1. Without(intents, job.op) \in Seq(Intent)
    BY WithoutFacts DEF IntentInv
  <2> QED
    BY <1>13, <2>1 DEF ClearIntent, WriteIntents, AfterJob
<1>14. CASE NoteError
  BY <1>14 DEF NoteError, WriteIntents, AfterJob
<1>15. CASE WriteRow
  BY <1>15 DEF WriteRow, RowAfter, Job, Status
<1>16. CASE WriteRowFails
  <2>1. counts' \in [runs: Nat, crashes: Nat, tears: Nat, faults: Nat]
    BY <1>16, FailTyped DEF WriteRowFails
  <2> QED
    BY <1>16, <2>1 DEF WriteRowFails
<1>17. CASE WriteLog
  <2>1. job.op \in Operation /\ (job.op = "finalize_run" => job.status \in Outcome)
    BY <1>17 DEF WriteLog, IntentInv, Job
  <2>2. log \o ProtocolWrite(job).frames \in Seq(Frame)
    BY <2>1, QuietProtocolWrite DEF QuietFile
  <2> QED
    BY <1>17, <2>2 DEF WriteLog
<1>18. CASE WriteLogFails
  <2>1. counts' \in [runs: Nat, crashes: Nat, tears: Nat, faults: Nat]
    BY <1>18, FailTyped DEF WriteLogFails
  <2> QED
    BY <1>18, <2>1 DEF WriteLogFails
<1>19. CASE WriteIntentsFails
  <2>1. counts' \in [runs: Nat, crashes: Nat, tears: Nat, faults: Nat]
    BY <1>19, FailTyped DEF WriteIntentsFails
  <2>2. outcome' \in Outcome /\ pc' \in PC
    BY <1>19, FailedIsAnOutcome DEF WriteIntentsFails, FailOver
  <2>3. intents' \in Seq(Intent)
    <3>1. intents' = intents \/ intents' = <<>>
      BY <1>19 DEF WriteIntentsFails
    <3>2. intents \in Seq(Intent) /\ <<>> \in Seq(Intent)
      OBVIOUS
    <3> QED
      BY <3>1, <3>2, Zenon
  <2>4. lost' \in BOOLEAN
    BY <1>19, Zenon DEF WriteIntentsFails
  <2>5. UNCHANGED <<log, winners, receipts, receiptsTorn, row, intentsTorn, source,
                    job, todo, unresolved, mat>>
    BY <1>19 DEF WriteIntentsFails
  <2> QED
    BY <2>1, <2>2, <2>3, <2>4, <2>5
<1>31. CASE WriteTurnReceipt
  <2>1. PICK r \in SourceRow, n \in 0..Len(source) : source' = InsertAt(source, n + 1, r)
    BY <1>31 DEF WriteTurnReceipt
  <2>2. source' \in Seq(SourceRow)
    <3>1. source \in Seq(SourceRow) /\ Len(source) \in Nat
      OBVIOUS
    <3>2. /\ SubSeq(source, 1, n) \in Seq(SourceRow) /\ <<r>> \in Seq(SourceRow)
          /\ SubSeq(source, n + 1, Len(source)) \in Seq(SourceRow)
      BY <3>1
    <3>3. source' = (SubSeq(source, 1, n) \o <<r>>) \o SubSeq(source, n + 1, Len(source))
      <4>1. (n + 1) - 1 = n
        OBVIOUS
      <4> QED
        BY <2>1, <4>1 DEF InsertAt
    <3> QED
      BY <3>2, <3>3
  <2> QED
    BY <1>31, <2>2 DEF WriteTurnReceipt
<1>20. CASE Work
  BY <1>20 DEF Work, Job, Operation
<1>21. CASE WorkRaises
  BY <1>21 DEF WorkRaises
<1>22. CASE Materialize
  <2>1. /\ DOMAIN Ranges(Events) \subseteq Op
        /\ \A o \in DOMAIN Ranges(Events) : Ranges(Events)[o] \in Nat \X Nat
    BY RangesFacts
  <2>2. CASE mat' = mat
    BY <1>22, <2>2 DEF Materialize
  <2>3. CASE mat' = [NoMat EXCEPT !.ranges = Ranges(Events)]
    <3>1. mat' = [item |-> 1, ranges |-> Ranges(Events), call |-> 0]
      BY <2>3 DEF NoMat
    <3> QED
      BY <1>22, <2>1, <3>1 DEF Materialize, NoMat
  <2> QED
    BY <1>22, <2>2, <2>3 DEF Materialize
<1>23. CASE RowsDone
  BY <1>23 DEF RowsDone
<1>24. CASE CallRow
  <2>1. RowOp \in Op
    BY <1>24, ItemIsOperation DEF CallRow
  <2>5. pc' \in PC
    BY <1>24 DEF CallRow
  <2>6. UNCHANGED <<winners, receipts, receiptsTorn, row, intents, intentsTorn, source,
                   job, todo, unresolved, outcome, counts, lost>>
    BY <1>24 DEF CallRow
  <2>2. CASE UNCHANGED <<log, mat>>
    BY <2>2, <2>5, <2>6
  <2>3. CASE /\ RowOp \in DOMAIN winners /\ UNCHANGED log
             /\ mat' = [mat EXCEPT !.ranges =
                           With(@, RowOp, <<winners[RowOp], winners[RowOp]>>)]
    <3> DEFINE g == With(mat.ranges, RowOp, <<winners[RowOp], winners[RowOp]>>)
    <3>1. DOMAIN g \subseteq Op /\ \A o \in DOMAIN g : g[o] \in Nat \X Nat
      <4>1. <<winners[RowOp], winners[RowOp]>> \in Nat \X Nat
        BY <2>3
      <4> QED
        BY <2>1, <4>1 DEF With
    <3> HIDE DEF g
    <3>2. /\ DOMAIN mat' = DOMAIN NoMat /\ mat'.ranges = g
          /\ mat'.item = mat.item /\ mat'.call = mat.call
      BY <2>3 DEF NoMat, g
    <3> QED
      BY <2>3, <2>5, <2>6, <3>1, <3>2
  <2>4. CASE /\ log' = Append(log, [kind |-> "tool_call", op |-> RowOp])
             /\ mat' = [mat EXCEPT !.call = Len(Events) + 1]
    <3>1. log' \in Seq(Frame)
      BY <2>1, <2>4, FramesWritten
    <3>2. /\ DOMAIN mat' = DOMAIN NoMat /\ mat'.ranges = mat.ranges
          /\ mat'.item = mat.item /\ mat'.call = Len(Events) + 1
      BY <2>4 DEF NoMat
    <3> QED
      BY <1>0, <2>5, <2>6, <3>1, <3>2
  <2> QED
    BY <1>24, <2>2, <2>3, <2>4 DEF CallRow
<1>25. CASE ReserveResult
  <2>1. RowOp \in Op
    BY <1>25, ItemIsOperation DEF ReserveResult, MatInv
  <2>2. DOMAIN winners' \subseteq Op /\ \A o \in DOMAIN winners' : winners'[o] \in Nat
    <3>1. CASE winners' = winners
      BY <3>1
    <3>2. CASE winners' = With(winners, RowOp, Len(Events) + 1)
      <4>1. Len(Events) + 1 \in Nat
        BY <1>0
      <4> QED
        BY <2>1, <3>2, <4>1 DEF With
    <3> QED
      BY <1>25, <3>1, <3>2 DEF ReserveResult
  <2> QED
    BY <1>25, <2>2 DEF ReserveResult
<1>26. CASE AppendResult
  <2>1. RowOp \in Op
    BY <1>26, ItemIsOperation DEF AppendResult, MatInv
  <2>2. log' \in Seq(Frame)
    BY <1>26, <2>1, FramesWritten DEF AppendResult
  <2> DEFINE g == With(mat.ranges, RowOp, <<mat.call, Len(Events) + 1>>)
  <2>3. DOMAIN g \subseteq Op /\ \A o \in DOMAIN g : g[o] \in Nat \X Nat
    <3>1. <<mat.call, Len(Events) + 1>> \in Nat \X Nat
      BY <1>0
    <3> QED
      BY <2>1, <3>1 DEF With
  <2> HIDE DEF g
  <2>4. /\ DOMAIN mat' = DOMAIN NoMat /\ mat'.ranges = g
        /\ mat'.item = mat.item /\ mat'.call = mat.call
    BY <1>26 DEF AppendResult, NoMat, g
  <2> QED
    BY <1>26, <2>2, <2>3, <2>4 DEF AppendResult
<1>27. CASE AppendReceipt
  <2>1. RowOp \in Op
    BY <1>27, ItemIsOperation DEF AppendReceipt
  <2>2. NextReceipt \in Receipt
    BY <1>27, <2>1, ItemIsOperation DEF AppendReceipt, NextReceipt, Receipt
  <2>3. receipts' \in Seq(Receipt)
    <3>1. receipts' = receipts \/ receipts' = Append(receipts, NextReceipt)
      BY <1>27 DEF AppendReceipt
    <3>2. receipts \in Seq(Receipt)
      OBVIOUS
    <3>3. Append(receipts, NextReceipt) \in Seq(Receipt)
      BY <2>2, <3>2, AppendProperties
    <3> QED
      BY <3>1, <3>2, <3>3, Zenon
  <2>4. /\ DOMAIN mat' = DOMAIN NoMat /\ mat'.ranges = mat.ranges
        /\ mat'.item \in Nat \ {0} /\ mat'.call = mat.call
    BY <1>27 DEF AppendReceipt, NoMat
  <2> QED
    BY <1>27, <2>3, <2>4 DEF AppendReceipt
<1>28. CASE MaterializeFails
  <2>1. counts' \in [runs: Nat, crashes: Nat, tears: Nat, faults: Nat]
    BY <1>28, FailTyped DEF MaterializeFails
  <2> QED
    BY <1>28, <2>1 DEF MaterializeFails
<1>29. CASE RecordFacts
  <2>1. log' \in Seq(Frame)
    BY <1>29, QuietFact DEF RecordFacts, QuietFile
  <2> QED
    BY <1>29, <2>1 DEF RecordFacts
<1>30. CASE InfrastructureFails
  <2>1. counts' \in [runs: Nat, crashes: Nat, tears: Nat, faults: Nat]
    BY <1>30, FailTyped DEF InfrastructureFails
  <2> QED
    BY <1>30, <2>1, FailedIsAnOutcome DEF InfrastructureFails, FailOver
<1> QED
  BY <1>1, <1>2, <1>3, <1>4, <1>5, <1>6, <1>7, <1>8, <1>9, <1>10, <1>11, <1>12, <1>13, <1>14,
     <1>15, <1>16, <1>17, <1>18, <1>19, <1>20, <1>21, <1>22, <1>23, <1>24, <1>25, <1>26, <1>27,
     <1>28, <1>29, <1>30, <1>31 DEF Next

\* A crash keeps the types, and leaves of the process only the disk.
LEMMA TypeStepDown ==
  ASSUME TypeOK, LogOK(Events), Crash \/ CrashInWrite
  PROVE  TypeOK' /\ pc' = "down"
<1>0. Dies
  BY DEF Crash, CrashInWrite
<1>1. /\ pc' = "down" /\ pc' \in PC /\ job' \in Job /\ todo' \in Seq(Intent)
      /\ unresolved' \in Seq(Intent) /\ outcome' \in Outcome
  BY <1>0, FailedIsAnOutcome DEF Dies, PC, NoJob, Job, Operation, Status
<1>2. /\ DOMAIN mat' = DOMAIN NoMat /\ mat'.item \in Nat \ {0} /\ mat'.call \in Nat
      /\ DOMAIN mat'.ranges \subseteq Op
      /\ \A o \in DOMAIN mat'.ranges : mat'.ranges[o] \in Nat \X Nat
  <2>1. mat' = NoMat
    BY <1>0 DEF Dies
  <2> QED
    BY <2>1 DEF NoMat
<1>3. counts' \in [runs: Nat, crashes: Nat, tears: Nat, faults: Nat]
  <2>1. CASE Crash
    BY <2>1, FailTyped DEF Crash, TypeOK
  <2>2. CASE CrashInWrite
    <3>1. counts \in [runs: Nat, crashes: Nat, tears: Nat, faults: Nat]
      BY DEF TypeOK
    <3>2. counts' = [counts EXCEPT !.crashes = @ + 1, !.tears = @ + 1]
      BY <2>2 DEF CrashInWrite
    <3> DEFINE c == [counts EXCEPT !.crashes = @ + 1]
    <3>3. c \in [runs: Nat, crashes: Nat, tears: Nat, faults: Nat]
      BY <3>1
    <3>4. counts' = [c EXCEPT !.tears = @ + 1]
      BY <3>1, <3>2
    <3> HIDE DEF c
    <3> QED
      BY <3>3, <3>4
  <2> QED
    BY <2>1, <2>2
<1>4. CASE Crash
  BY <1>1, <1>2, <1>3, <1>4 DEF Crash, disk, TypeOK
<1>5. CASE CrashInWrite
  <2>1. CASE TearLog
    <3>1. log' \in Seq(Frame)
      BY <2>1, QuietTorn DEF TearLog, QuietFile, TypeOK
    <3> QED
      BY <1>1, <1>2, <1>3, <2>1, <3>1 DEF TearLog, TypeOK
  <2>2. CASE TearIntents
    <3>0. intents' = <<>>
      BY <2>2 DEF TearIntents
    <3>1. intents' \in Seq(Intent)
      BY <3>0
    <3>2. intentsTorn' \in BOOLEAN /\ lost' \in BOOLEAN
      BY <2>2, Zenon DEF TearIntents, TypeOK
    <3> QED
      BY <1>1, <1>2, <1>3, <2>2, <3>1, <3>2 DEF TearIntents, TypeOK
  <2>3. CASE TearRegistry
    BY <1>1, <1>2, <1>3, <2>3 DEF TearRegistry, TypeOK
  <2>4. CASE TearReceipts
    BY <1>1, <1>2, <1>3, <2>4 DEF TearReceipts, TypeOK
  <2> QED
    BY <1>5, <2>1, <2>2, <2>3, <2>4 DEF CrashInWrite
<1> QED
  BY <1>1, <1>4, <1>5

-----------------------------------------------------------------------------
(* The log, the registry, the receipts and the materializer.                   *)

\* What stays in a log that grows.
LEMMA GrowFacts ==
  ASSUME NEW ev \in Seq(Frame), NEW f \in Frame
  PROVE  /\ \A kind : Kinds(ev, kind) \subseteq Kinds(Append(ev, f), kind)
         /\ \A kind : \A i \in Kinds(ev, kind) : Append(ev, f)[i] = ev[i]
         /\ \A kind : \A i \in Kinds(Append(ev, f), kind) :
               i \in Kinds(ev, kind) \/ (i = Len(ev) + 1 /\ f.kind = kind)
         /\ Len(ev) + 1 \in Kinds(Append(ev, f), f.kind)
         /\ Append(ev, f)[Len(ev) + 1] = f
         /\ \A o, r : Backed(ev, o, r) => Backed(Append(ev, f), o, r)
<1> DEFINE e2 == Append(ev, f)
<1>1. /\ Len(e2) = Len(ev) + 1 /\ Len(ev) \in Nat
      /\ \A i \in 1..Len(ev) : e2[i] = ev[i]
      /\ e2[Len(ev) + 1] = f
  OBVIOUS
<1> HIDE DEF e2
<1>2. \A kind : Kinds(ev, kind) \subseteq Kinds(e2, kind)
  BY <1>1 DEF Kinds
<1>3. \A kind : \A i \in Kinds(ev, kind) : e2[i] = ev[i]
  BY <1>1 DEF Kinds
<1>4. \A kind : \A i \in Kinds(e2, kind) : i \in Kinds(ev, kind) \/ (i = Len(ev) + 1 /\ f.kind = kind)
  BY <1>1 DEF Kinds
<1>5. Len(ev) + 1 \in Kinds(e2, f.kind)
  BY <1>1 DEF Kinds
<1>6. \A o, r : Backed(ev, o, r) => Backed(e2, o, r)
  BY <1>2, <1>3 DEF Backed
<1> QED
  BY <1>1, <1>2, <1>3, <1>4, <1>5, <1>6 DEF e2

\* A step that neither calls nor answers, outside the materializer.
LEMMA QuietStep ==
  ASSUME TypeOK, LogInv, QuietFile(log'), receipts' = receipts,
         winners' = winners \/ winners' = <<>>,
         pc' \notin {"row", "result", "commit"}
  PROVE  LogInv' /\ MatInv'
<1> DEFINE ev == Events
           e2 == Replay(log')
<1>0. Events' = e2
  BY DEF Events
<1>1. ev \in Seq(Frame) /\ e2 \in Seq(Frame) /\ LogOK(e2) /\ Quiet(ev, e2)
  BY DEF LogInv, LogOK, QuietFile
<1>2. /\ \A o, r : Backed(ev, o, r) => Backed(e2, o, r)
      /\ \A o, m : Accounted(ev, o, m) => Accounted(e2, o, m)
  BY <1>1, QuietFacts
<1>3. \A k \in DOMAIN receipts : Backed(e2, receipts[k].op, receipts[k].range)
  BY <1>2 DEF LogInv
<1>4. \A o \in DOMAIN winners' : Accounted(e2, o, winners'[o])
  <2>1. CASE winners' = winners
    BY <1>2, <2>1 DEF LogInv
  <2>2. CASE winners' = <<>>
    <3>1. DOMAIN winners' = {}
      BY <2>2
    <3> QED
      BY <3>1
  <2> QED
    BY <2>1, <2>2
<1> HIDE DEF ev, e2
<1>5. LogInv'
  BY <1>0, <1>1, <1>3, <1>4 DEF LogInv
<1>6. MatInv'
  BY DEF MatInv
<1> QED
  BY <1>5, <1>6

\* The call of the next row: nothing was called for the operation before.
LEMMA CallRowStep ==
  ASSUME TypeOK, LogInv, MatInv, CallRow
  PROVE  LogInv' /\ MatInv'
<1> DEFINE ev == Events
           f == [kind |-> "tool_call", op |-> RowOp]
<1>0. ev \in Seq(Frame) /\ Len(ev) \in Nat /\ LogOK(ev) /\ log \in Seq(Frame)
  BY DEF LogInv, LogOK, TypeOK
<1>1. /\ pc = "row" /\ MoreRows /\ RowOp \notin DOMAIN mat.ranges
      /\ winners' = winners /\ receipts' = receipts /\ source' = source
  BY DEF CallRow
<1>2. f \in Frame /\ f.kind = "tool_call" /\ f.op = RowOp
  BY <1>1, ItemIsOperation, FramesWritten
<1>3. CASE CallRefused(log)
  <2>1. log' = log /\ pc' = "facts"
    BY <1>3 DEF CallRow
  <2>2. QuietFile(log')
    BY <1>0, <2>1, QuietSame
  <2> QED
    BY <1>1, <2>1, <2>2, QuietStep
<1>4. CASE ~CallRefused(log)
  <2>1. OpenCalls(ev) = {}
    BY <1>4 DEF CallRefused, Events
  <2>2. \A j \in Kinds(ev, "operation_result") : ev[j].op # RowOp
    BY <1>1 DEF MatInv
  <2>3. RowOp \notin DOMAIN winners
    BY <2>1, <2>2 DEF LogInv, Accounted
  <2>4. log' = Append(log, f) /\ mat' = [mat EXCEPT !.call = Len(ev) + 1] /\ pc' = "result"
    BY <1>4, <2>3 DEF CallRow
  <2>5. /\ mat'.item = mat.item /\ mat'.ranges = mat.ranges /\ mat'.call = Len(ev) + 1
        /\ RowOp' = RowOp /\ MoreRows'
    BY <1>1, <2>4 DEF TypeOK, NoMat, RowOp, MoreRows
  <2>6. \A k \in 1..Len(ev) : ev[k] # f
    <3> SUFFICES ASSUME NEW k \in 1..Len(ev), ev[k] = f
                 PROVE  FALSE
      OBVIOUS
    <3>1. k \in Kinds(ev, "tool_call") /\ ev[k].op = RowOp
      BY <1>2 DEF Kinds
    <3>2. PICK j \in Kinds(ev, "operation_result") : ev[j].call = k
      BY <2>1, <3>1 DEF OpenCalls
    <3>3. ev[j].op = RowOp
      BY <1>0, <3>1, <3>2 DEF LogOK
    <3> QED
      BY <2>2, <3>3
  <2>7. \A o \in DOMAIN winners :
           winners[o] \in Kinds(ev, "operation_result") /\ ev[winners[o]].op = o
    BY <2>1 DEF LogInv, Accounted
  <2>8. CASE TornAt(log) = {}
    <3> DEFINE e2 == Append(ev, f)
    <3>1. Events' = e2 /\ TornAt(log') = {}
      BY <1>0, <1>2, <2>4, <2>8, ReplayAppend DEF Events
    <3>2. LogOK(e2)
      BY <1>0, <1>2, <2>1, <2>6, AppendOK
    <3> HIDE DEF ev, f
    <3>3. /\ \A kind : Kinds(ev, kind) \subseteq Kinds(e2, kind)
          /\ \A kind : \A i \in Kinds(ev, kind) : e2[i] = ev[i]
          /\ \A i \in Kinds(e2, "operation_result") : i \in Kinds(ev, "operation_result")
          /\ e2[Len(ev) + 1] = f
          /\ \A o, r : Backed(ev, o, r) => Backed(e2, o, r)
      BY <1>0, <1>2, GrowFacts
    <3> HIDE DEF e2
    <3>4. \A o \in DOMAIN winners : Accounted(e2, o, winners[o])
      BY <2>7, <3>3 DEF Accounted
    <3>5. \A k \in DOMAIN receipts : Backed(e2, receipts[k].op, receipts[k].range)
      BY <3>3 DEF LogInv, ev
    <3>6. LogInv'
      BY <1>1, <3>1, <3>2, <3>4, <3>5 DEF LogInv
    <3>7. /\ \A j \in Kinds(e2, "operation_result") : e2[j].op \in DOMAIN mat.ranges
          /\ \A o \in DOMAIN mat.ranges : Backed(e2, o, mat.ranges[o])
      BY <1>1, <3>3 DEF MatInv, ev
    <3>8. e2[mat'.call].op = RowOp'
      BY <1>2, <2>5, <3>3
    <3>9. MatInv'
      BY <1>1, <2>4, <2>5, <3>1, <3>7, <3>8 DEF MatInv
    <3> QED
      BY <3>6, <3>9
  <2>9. CASE TornAt(log) # {}
    <3>1. Events' = ev /\ TornAt(log') # {}
      BY <1>0, <1>2, <2>4, <2>9, ReplayAppend DEF Events
    <3>2. LogInv'
      BY <1>1, <3>1 DEF LogInv
    <3>3. mat'.call \notin 1..Len(ev)
      BY <1>0, <2>5
    <3>4. MatInv'
      BY <1>1, <2>4, <2>5, <3>1, <3>3 DEF MatInv
    <3> QED
      BY <3>2, <3>4
  <2> QED
    BY <2>8, <2>9
<1> QED
  BY <1>3, <1>4

\* The reservation of an operation: its call is open and the result is the next
\* event.
LEMMA ReserveStep ==
  ASSUME TypeOK, LogInv, MatInv, ReserveResult
  PROVE  LogInv' /\ MatInv'
<1> DEFINE ev == Events
<1>0. ev \in Seq(Frame) /\ Len(ev) \in Nat /\ LogOK(ev) /\ log \in Seq(Frame)
  BY DEF LogInv, LogOK, TypeOK
<1>1. /\ pc = "result" /\ log' = log /\ receipts' = receipts /\ source' = source /\ mat' = mat
      /\ RowOp' = RowOp /\ MoreRows' = MoreRows
  BY DEF ReserveResult, locals, RowOp, MoreRows
<1>2. CASE ResultRefused(log, RowOp, mat.call, DOMAIN winners)
  <2>1. winners' = winners /\ pc' = "facts"
    BY <1>2 DEF ReserveResult
  <2> QED
    BY <1>0, <1>1, <2>1, QuietSame, QuietStep
<1>3. CASE ~ResultRefused(log, RowOp, mat.call, DOMAIN winners)
  <2>1. winners' = With(winners, RowOp, Len(ev) + 1) /\ pc' = "commit"
    BY <1>3 DEF ReserveResult
  <2>2. RowOp \notin DOMAIN winners /\ mat.call \in OpenCalls(ev)
    BY <1>3 DEF ResultRefused, Events
  <2>3. mat.call \in 1..Len(ev)
    BY <2>2 DEF OpenCalls, Kinds
  <2>4. ev[mat.call].op = RowOp /\ TornAt(log) = {}
    BY <1>1, <2>3 DEF MatInv
  <2>5. Events' = ev
    BY <1>1 DEF Events
  <2>6. /\ DOMAIN winners' = DOMAIN winners \cup {RowOp}
        /\ winners'[RowOp] = Len(ev) + 1
        /\ \A o \in DOMAIN winners : winners'[o] = winners[o]
    BY <2>1, <2>2 DEF With
  <2> HIDE DEF ev
  <2>7. Accounted(ev, RowOp, Len(ev) + 1)
    BY <1>0, <2>2, <2>3, <2>4 DEF Accounted
  <2>8. \A o \in DOMAIN winners' : Accounted(ev, o, winners'[o])
    BY <2>6, <2>7 DEF LogInv, ev
  <2>9. LogInv'
    BY <1>1, <2>5, <2>8 DEF LogInv, ev
  <2>10. MatInv'
    BY <1>1, <2>1, <2>2, <2>4, <2>5, <2>6 DEF MatInv, ev
  <2> QED
    BY <2>9, <2>10
<1> QED
  BY <1>2, <1>3

\* The result closes the call and gives the registry entry its event.
LEMMA AppendResultStep ==
  ASSUME TypeOK, LogInv, MatInv, AppendResult
  PROVE  LogInv' /\ MatInv'
<1> DEFINE ev == Events
           f == [kind |-> "operation_result", op |-> RowOp, call |-> mat.call]
           e2 == Append(ev, f)
<1>0. ev \in Seq(Frame) /\ Len(ev) \in Nat /\ LogOK(ev) /\ log \in Seq(Frame)
  BY DEF LogInv, LogOK, TypeOK
<1>1. /\ pc = "commit" /\ pc' = "row" /\ log' = Append(log, f)
      /\ winners' = winners /\ receipts' = receipts /\ source' = source
  BY DEF AppendResult
<1>2. /\ TornAt(log) = {} /\ MoreRows
      /\ mat.call \in OpenCalls(ev) /\ ev[mat.call].op = RowOp
      /\ RowOp \in DOMAIN winners /\ winners[RowOp] = Len(ev) + 1
  BY <1>1 DEF MatInv
<1>3. f \in Frame /\ f.kind = "operation_result" /\ f.op = RowOp /\ f.call = mat.call
  BY <1>2, ItemIsOperation, FramesWritten DEF TypeOK
<1>4. \A k \in 1..Len(ev) : ev[k] # f
  BY <1>2, <1>3 DEF OpenCalls, Kinds
<1>5. LogOK(e2)
  BY <1>0, <1>2, <1>3, <1>4, AppendOK
<1>6. Events' = e2 /\ TornAt(log') = {}
  BY <1>0, <1>1, <1>2, <1>3, ReplayAppend DEF Events
<1>7. mat'.ranges = With(mat.ranges, RowOp, <<mat.call, Len(ev) + 1>>)
  BY DEF AppendResult, TypeOK, NoMat
<1>8. mat.call \in Kinds(ev, "tool_call")
  BY <1>2 DEF OpenCalls
<1> HIDE DEF ev, f
<1>9. /\ \A kind : Kinds(ev, kind) \subseteq Kinds(e2, kind)
      /\ \A kind : \A i \in Kinds(ev, kind) : e2[i] = ev[i]
      /\ \A i \in Kinds(e2, "operation_result") :
            i \in Kinds(ev, "operation_result") \/ i = Len(ev) + 1
      /\ Len(ev) + 1 \in Kinds(e2, "operation_result")
      /\ e2[Len(ev) + 1] = f
      /\ \A o, r : Backed(ev, o, r) => Backed(e2, o, r)
  <2>0. ev \in Seq(Frame) /\ f \in Frame
    BY <1>0, <1>3
  <2>1. /\ \A kind : Kinds(ev, kind) \subseteq Kinds(e2, kind)
        /\ \A kind : \A i \in Kinds(ev, kind) : e2[i] = ev[i]
        /\ e2[Len(ev) + 1] = f
    BY <2>0, GrowFacts, Zenon
  <2>2. \A i \in Kinds(e2, "operation_result") :
           i \in Kinds(ev, "operation_result") \/ i = Len(ev) + 1
    BY <1>0, <1>3, GrowFacts
  <2>3. Len(ev) + 1 \in Kinds(e2, f.kind)
    BY <1>0, <1>3, GrowFacts
  <2>4. \A o, r : Backed(ev, o, r) => Backed(e2, o, r)
    BY <1>0, <1>3, GrowFacts
  <2> QED
    BY <1>3, <2>1, <2>2, <2>3, <2>4
<1> HIDE DEF e2
<1>10. ASSUME NEW o \in DOMAIN winners
       PROVE  Accounted(e2, o, winners[o])
  <2>0. Accounted(ev, o, winners[o])
    BY DEF LogInv, ev
  <2>1. CASE winners[o] \in Kinds(ev, "operation_result") /\ ev[winners[o]].op = o
    BY <1>9, <2>1 DEF Accounted
  <2>2. CASE o = RowOp
    BY <1>2, <1>3, <1>9, <2>2 DEF Accounted
  <2>3. CASE \E i \in OpenCalls(ev) : ev[i].op = o /\ winners[o] > i /\ i # mat.call
    <3>1. PICK i \in OpenCalls(ev) : ev[i].op = o /\ winners[o] > i /\ i # mat.call
      BY <2>3
    <3>2. i \in Kinds(e2, "tool_call") /\ e2[i] = ev[i]
      BY <1>9, <3>1 DEF OpenCalls
    <3>3. \A j \in Kinds(e2, "operation_result") : e2[j].call # i
      BY <1>3, <1>9, <3>1 DEF OpenCalls
    <3>4. i \in OpenCalls(e2)
      BY <3>2, <3>3 DEF OpenCalls
    <3> QED
      BY <3>1, <3>2, <3>4 DEF Accounted
  <2> QED
    BY <1>2, <2>0, <2>1, <2>2, <2>3 DEF Accounted
<1>11. \A k \in DOMAIN receipts : Backed(e2, receipts[k].op, receipts[k].range)
  BY <1>9 DEF LogInv, ev
<1>12. LogInv'
  BY <1>1, <1>5, <1>6, <1>10, <1>11 DEF LogInv
<1>13. DOMAIN mat'.ranges = DOMAIN mat.ranges \cup {RowOp}
  BY <1>7 DEF With
<1>14. \A j \in Kinds(e2, "operation_result") : e2[j].op \in DOMAIN mat'.ranges
  BY <1>1, <1>3, <1>9, <1>13 DEF MatInv, ev
<1>15. ASSUME NEW o \in DOMAIN mat'.ranges
       PROVE  Backed(e2, o, mat'.ranges[o])
  <2>1. CASE o = RowOp
    <3>1. mat'.ranges[o] = <<mat.call, Len(ev) + 1>>
      BY <1>7, <2>1 DEF With
    <3> QED
      BY <1>2, <1>3, <1>8, <1>9, <2>1, <3>1 DEF Backed
  <2>2. CASE o # RowOp
    <3>1. o \in DOMAIN mat.ranges /\ mat'.ranges[o] = mat.ranges[o]
      BY <1>7, <1>13, <2>2 DEF With
    <3> QED
      BY <1>1, <1>9, <3>1 DEF MatInv, ev
  <2> QED
    BY <2>1, <2>2
<1>16. MatInv'
  BY <1>1, <1>6, <1>14, <1>15 DEF MatInv
<1> QED
  BY <1>12, <1>16

\* A receipt names the range of its operation and comes after the others.
LEMMA AppendReceiptStep ==
  ASSUME TypeOK, LogInv, MatInv, AppendReceipt
  PROVE  LogInv' /\ MatInv'
<1>0. log \in Seq(Frame) /\ LogOK(Events)
  BY DEF LogInv, TypeOK
<1>1. /\ pc = "row" /\ log' = log /\ winners' = winners /\ source' = source
      /\ RowOp \in DOMAIN mat.ranges
  BY DEF AppendReceipt
<1>2. CASE ReceiptRefused
  <2>1. receipts' = receipts /\ pc' = "facts"
    BY <1>2 DEF AppendReceipt
  <2> QED
    BY <1>0, <1>1, <2>1, QuietSame, QuietStep
<1>3. CASE ~ReceiptRefused
  <2>1. /\ receipts' = IF ReceiptKnown THEN receipts ELSE Append(receipts, NextReceipt)
        /\ mat' = [mat EXCEPT !.item = @ + 1] /\ pc' = pc
    BY <1>3 DEF AppendReceipt
  <2>2. mat'.ranges = mat.ranges /\ Events' = Events
    BY <1>1, <2>1 DEF TypeOK, NoMat, Events
  <2>3. MatInv'
    BY <1>1, <2>1, <2>2 DEF MatInv
  <2>4. CASE ReceiptKnown
    BY <1>1, <2>1, <2>2, <2>3, <2>4 DEF LogInv
  <2>5. CASE ~ReceiptKnown
    <3> DEFINE rs == Append(receipts, NextReceipt)
               n == Len(receipts)
    <3>1. /\ NextReceipt.op = RowOp /\ NextReceipt.range = mat.ranges[RowOp]
          /\ NextReceipt.seq = mat.item
      BY DEF NextReceipt
    <3>2. /\ n \in Nat /\ DOMAIN receipts = 1..n
          /\ DOMAIN rs = 1..(n + 1)
          /\ \A k \in 1..n : rs[k] = receipts[k]
          /\ rs[n + 1] = NextReceipt
      BY DEF TypeOK
    <3>3. \A k \in DOMAIN receipts : receipts[k].seq < mat.item
      <4> TAKE k \in DOMAIN receipts
      <4>1. receipts[k].seq \in Nat /\ mat.item \in Nat
        <5>1. receipts[k] \in Receipt
          BY DEF TypeOK
        <5> QED
          BY <5>1 DEF TypeOK, Receipt
      <4>2. ~(receipts[k].seq >= mat.item)
        BY <1>3, <2>5 DEF ReceiptRefused
      <4> QED
        BY <4>1, <4>2
    <3>4. Backed(Events, RowOp, mat.ranges[RowOp])
      BY <1>1 DEF MatInv
    <3>5. receipts' = rs
      BY <2>1, <2>5
    <3> HIDE DEF rs, n
    <3>6. \A k \in DOMAIN rs : Backed(Events, rs[k].op, rs[k].range)
      <4> TAKE k \in DOMAIN rs
      <4>1. CASE k \in 1..n
        BY <3>2, <4>1 DEF LogInv
      <4>2. CASE k = n + 1
        BY <3>1, <3>2, <3>4, <4>2
      <4> QED
        BY <3>2, <4>1, <4>2
    <3>7. \A j, k \in DOMAIN rs : j < k => rs[j].seq < rs[k].seq
      <4> SUFFICES ASSUME NEW j \in DOMAIN rs, NEW k \in DOMAIN rs, j < k
                   PROVE  rs[j].seq < rs[k].seq
        OBVIOUS
      <4>1. j \in 1..n
        BY <3>2
      <4>2. CASE k \in 1..n
        BY <3>2, <4>1, <4>2 DEF LogInv
      <4>3. CASE k = n + 1
        BY <3>1, <3>2, <3>3, <4>1, <4>3
      <4> QED
        BY <3>2, <4>2, <4>3
    <3> QED
      BY <1>1, <2>2, <2>3, <3>5, <3>6, <3>7 DEF LogInv
  <2> QED
    BY <2>4, <2>5
<1> QED
  BY <1>2, <1>3

\* The start of the materializer: what it reads of the log.
LEMMA MaterializeStep ==
  ASSUME TypeOK, LogInv, Materialize
  PROVE  LogInv' /\ MatInv'
<1>0. log \in Seq(Frame) /\ LogOK(Events)
  BY DEF LogInv, TypeOK
<1>1. log' = log /\ winners' = winners /\ receipts' = receipts /\ Events' = Events
  BY DEF Materialize, disk, Events
<1>2. CASE pc' = "facts"
  BY <1>0, <1>1, <1>2, QuietSame, QuietStep
<1>3. CASE pc' = "row" /\ mat' = [NoMat EXCEPT !.ranges = Ranges(Events)]
  <2>1. mat'.ranges = Ranges(Events)
    BY <1>3 DEF NoMat
  <2>2. /\ \A j \in Kinds(Events, "operation_result") : Events[j].op \in DOMAIN mat'.ranges
        /\ \A o \in DOMAIN mat'.ranges : Backed(Events, o, mat'.ranges[o])
    BY <1>0, <2>1, RangesFacts
  <2>3. MatInv'
    BY <1>1, <1>3, <2>2 DEF MatInv
  <2>4. LogInv'
    BY <1>1 DEF LogInv
  <2> QED
    BY <2>3, <2>4
<1> QED
  BY <1>2, <1>3 DEF Materialize

\* Every step keeps the log in order, and registry, receipts and materializer
\* in agreement with it.
LEMMA LogStep ==
  ASSUME TypeOK, LogInv, MatInv, IntentInv, Next
  PROVE  LogInv' /\ MatInv'
<1>0. log \in Seq(Frame) /\ LogOK(Events)
  BY DEF LogInv, TypeOK
<1>1. QuietFile(log)
  BY <1>0, QuietSame
<1>2. CASE \/ Boot \/ LoadIntents \/ RecoverRow \/ RecoverRowFails \/ RecoverLogFails
           \/ RewriteIntents \/ StartRun \/ FinalizeRun
  <2>1. /\ log' = log /\ receipts' = receipts /\ winners' = winners
        /\ pc' \notin {"row", "result", "commit"}
    BY <1>2 DEF Boot, LoadIntents, RecoverRow, RecoverRowFails, RecoverLogFails, Recovered,
                RewriteIntents, StartRun, FinalizeRun, disk
  <2> QED
    BY <1>1, <2>1, QuietStep
<1>3. CASE \/ RecordIntent \/ WriteRow \/ WriteRowFails \/ AckRow \/ WriteLogFails \/ AckLog
           \/ ClearIntent \/ NoteError \/ WriteIntentsFails
  <2>1. /\ log' = log /\ receipts' = receipts /\ winners' = winners
        /\ pc' \notin {"row", "result", "commit"}
    BY <1>3 DEF RecordIntent, WriteRow, WriteRowFails, AckRow, WriteLogFails, AckLog,
                ClearIntent, NoteError, WriteIntentsFails, WriteIntents, AfterJob, FailOver, disk
  <2> QED
    BY <1>1, <2>1, QuietStep
<1>4. CASE WriteTurnReceipt \/ Work \/ WorkRaises \/ RowsDone \/ MaterializeFails \/ InfrastructureFails \/ Crash
  <2>1. /\ log' = log /\ receipts' = receipts /\ winners' = winners
        /\ pc' \notin {"row", "result", "commit"}
    BY <1>4 DEF WriteTurnReceipt, Work, WorkRaises, RowsDone, MaterializeFails, InfrastructureFails, Crash, Dies,
                FailOver, disk
  <2> QED
    BY <1>1, <2>1, QuietStep
<1>5. CASE RecoverLog
  <2>1. QuietFile(log \o ProtocolWrite(Head(todo)).frames)
    BY <1>0, <1>5, HeadTodo, QuietProtocolWrite DEF RecoverLog
  <2>2. log' = log \/ log' = log \o ProtocolWrite(Head(todo)).frames
    BY <1>5 DEF RecoverLog
  <2>3. receipts' = receipts /\ winners' = winners /\ pc' \notin {"row", "result", "commit"}
    BY <1>5 DEF RecoverLog, Recovered
  <2> QED
    BY <1>1, <2>1, <2>2, <2>3, QuietStep
<1>6. CASE WriteLog
  <2>1. job.op \in Operation /\ (job.op = "finalize_run" => job.status \in Outcome)
    BY <1>6 DEF WriteLog, IntentInv, Job, TypeOK, DualWrite
  <2>2. QuietFile(log \o ProtocolWrite(job).frames)
    BY <1>0, <2>1, QuietProtocolWrite
  <2>3. /\ log' = log \o ProtocolWrite(job).frames
        /\ receipts' = receipts /\ winners' = winners /\ pc' \notin {"row", "result", "commit"}
    BY <1>6 DEF WriteLog
  <2> QED
    BY <2>2, <2>3, QuietStep
<1>7. CASE RecordFacts
  <2>1. log' = log \/ log' = log \o LogFact(log).frames
    BY <1>7 DEF RecordFacts
  <2>2. receipts' = receipts /\ winners' = winners /\ pc' \notin {"row", "result", "commit"}
    BY <1>7 DEF RecordFacts
  <2> QED
    BY <1>0, <1>1, <2>1, <2>2, QuietFact, QuietStep
<1>8. CASE CrashInWrite
  <2>0. pc' = "down"
    BY <1>8 DEF CrashInWrite, Dies
  <2>1. CASE TearLog
    BY <1>0, <2>0, <2>1, QuietTorn, QuietStep DEF TearLog
  <2>2. CASE TearIntents \/ TearRegistry \/ TearReceipts
    <3>1. log' = log /\ receipts' = receipts /\ (winners' = winners \/ winners' = <<>>)
      BY <2>2 DEF TearIntents, TearRegistry, TearReceipts
    <3> QED
      BY <1>1, <2>0, <3>1, QuietStep
  <2> QED
    BY <1>8, <2>1, <2>2 DEF CrashInWrite
<1> QED
  BY <1>2, <1>3, <1>4, <1>5, <1>6, <1>7, <1>8, CallRowStep, ReserveStep, AppendResultStep,
     AppendReceiptStep, MaterializeStep DEF Next

-----------------------------------------------------------------------------
(* The intent file and recovery.                                               *)

Written == {"sqlite", "ack", "protocol", "ackLog", "clear", "noteError"}
Recovering == {"recover", "recoverLog"}

\* An empty file, and one without the row of an operation, are intent files.
LEMMA RowsEmpty == Rows(<<>>)
BY DEF Rows

\* Acknowledging changes neither operations nor statuses.
LEMMA RowsUpdated ==
  ASSUME NEW rows \in Seq(Intent), Rows(rows), NEW op, NEW field \in {"sqlite", "protocol"}
  PROVE  Rows(Updated(rows, op, field))
<1> DEFINE U == Updated(rows, op, field)
<1>1. /\ DOMAIN U = DOMAIN rows
      /\ \A k \in DOMAIN rows : U[k].op = rows[k].op /\ U[k].status = rows[k].status
  BY UpdatedFacts
<1> HIDE DEF U
<1> QED
  BY <1>1 DEF Rows, U

\* What recovery does to what it holds: the head goes, resolved or not.
LEMMA RecoveredFacts ==
  ASSUME TypeOK, IntentInv, pc \in Recovering, NEW resolved \in BOOLEAN, Recovered(resolved)
  PROVE  /\ pc' \in {"recover", "rewrite"}
         /\ pc' = "rewrite" <=> Len(todo) = 1
         /\ DOMAIN todo' = 1..(Len(todo) - 1) /\ Len(todo) \in Nat \ {0}
         /\ \A k \in DOMAIN todo' : k + 1 \in DOMAIN todo /\ todo'[k] = todo[k + 1]
         /\ \A k \in DOMAIN todo : k > 1 => k - 1 \in DOMAIN todo' /\ todo'[k - 1] = todo[k]
         /\ \A k \in DOMAIN unresolved : k \in DOMAIN unresolved' /\ unresolved'[k] = unresolved[k]
         /\ \A k \in DOMAIN unresolved' :
               \/ k \in DOMAIN unresolved /\ unresolved'[k] = unresolved[k]
               \/ ~resolved /\ k = Len(unresolved) + 1 /\ unresolved'[k] = Head(todo)
         /\ ~resolved => /\ Len(unresolved) + 1 \in DOMAIN unresolved'
                         /\ unresolved'[Len(unresolved) + 1] = Head(todo)
<1>1. todo \in Seq(Intent) /\ unresolved \in Seq(Intent) /\ todo # <<>>
  BY DEF TypeOK, IntentInv, Recovering
<1>2. /\ todo' = Tail(todo)
      /\ unresolved' = IF resolved THEN unresolved ELSE Append(unresolved, Head(todo))
      /\ pc' = IF Len(todo) = 1 THEN "rewrite" ELSE "recover"
  BY DEF Recovered
<1>3. /\ Len(todo) \in Nat \ {0} /\ DOMAIN todo = 1..Len(todo)
      /\ DOMAIN todo' = 1..(Len(todo) - 1)
      /\ \A k \in 1..(Len(todo) - 1) : todo'[k] = todo[k + 1]
  BY <1>1, <1>2
<1>4. \A k \in DOMAIN todo' : k + 1 \in DOMAIN todo /\ todo'[k] = todo[k + 1]
  BY <1>3
<1>5. \A k \in DOMAIN todo : k > 1 => k - 1 \in DOMAIN todo' /\ todo'[k - 1] = todo[k]
  <2> SUFFICES ASSUME NEW k \in DOMAIN todo, k > 1
               PROVE  k - 1 \in DOMAIN todo' /\ todo'[k - 1] = todo[k]
    OBVIOUS
  <2>1. k - 1 \in 1..(Len(todo) - 1) /\ (k - 1) + 1 = k
    BY <1>3
  <2> QED
    BY <1>3, <2>1
<1>6. CASE resolved
  <2>1. unresolved' = unresolved
    BY <1>2, <1>6
  <2> QED
    BY <1>2, <1>3, <1>4, <1>5, <1>6, <2>1
<1>7. CASE ~resolved
  <2>1. unresolved' = Append(unresolved, Head(todo))
    BY <1>2, <1>7
  <2>2. /\ DOMAIN unresolved' = 1..(Len(unresolved) + 1) /\ DOMAIN unresolved = 1..Len(unresolved)
        /\ Len(unresolved) \in Nat
        /\ \A k \in 1..Len(unresolved) : unresolved'[k] = unresolved[k]
        /\ unresolved'[Len(unresolved) + 1] = Head(todo)
    BY <1>1, <2>1
  <2>3. \A k \in DOMAIN unresolved' : k \in DOMAIN unresolved \/ k = Len(unresolved) + 1
    BY <2>2
  <2>4. \A k \in DOMAIN unresolved : k \in DOMAIN unresolved' /\ unresolved'[k] = unresolved[k]
    BY <2>2
  <2>5. Len(unresolved) + 1 \in DOMAIN unresolved'
    BY <2>2
  <2> QED
    BY <1>2, <1>3, <1>4, <1>5, <1>7, <2>2, <2>3, <2>4, <2>5
<1> QED
  BY <1>6, <1>7

\* A step out of the dual write and of recovery that keeps or empties the file.
LEMMA IntentIdle ==
  ASSUME IntentInv, Rows(intents'), pc' \in PC \ (DualWrite \cup Recovering \cup {"rewrite"})
  PROVE  IntentInv'
BY DEF IntentInv, DualWrite, Recovering

\* Recovery of one row, resolved or not.
LEMMA IntentRecovered ==
  ASSUME TypeOK, IntentInv, pc = "recoverLog", intents' = intents,
         NEW resolved \in BOOLEAN, Recovered(resolved)
  PROVE  IntentInv'
<1>1. pc \in Recovering
  BY DEF Recovering
<1>2. /\ todo # <<>> /\ Rows(todo) /\ Rows(unresolved)
      /\ \A j \in DOMAIN todo, k \in DOMAIN unresolved : todo[j].op # unresolved[k].op
      /\ \A k \in DOMAIN todo : k > 1 => \E m \in DOMAIN intents : intents[m] = todo[k]
  BY DEF IntentInv
<1>3. Head(todo) = todo[1] /\ 1 \in DOMAIN todo
  BY HeadTodo
<1>4. /\ DOMAIN todo' = 1..(Len(todo) - 1) /\ Len(todo) \in Nat \ {0}
      /\ \A k \in DOMAIN todo' : k + 1 \in DOMAIN todo /\ todo'[k] = todo[k + 1]
  BY <1>1, RecoveredFacts
<1>5. \A k \in DOMAIN unresolved' :
         \/ k \in DOMAIN unresolved /\ unresolved'[k] = unresolved[k]
         \/ k = Len(unresolved) + 1 /\ unresolved'[k] = todo[1]
  BY <1>1, <1>3, RecoveredFacts
<1>6. pc' \in {"recover", "rewrite"} /\ (pc' = "rewrite" <=> Len(todo) = 1)
  BY <1>1, RecoveredFacts
<1>7. \A k \in DOMAIN todo' : k \in Nat \ {0} /\ k + 1 > 1
  BY <1>4
<1>8. Rows(todo')
  <2>1. \A j, k \in DOMAIN todo' : todo'[j].op = todo'[k].op => j = k
    <3> SUFFICES ASSUME NEW j \in DOMAIN todo', NEW k \in DOMAIN todo', todo'[j].op = todo'[k].op
                 PROVE  j = k
      OBVIOUS
    <3>1. j + 1 = k + 1
      BY <1>2, <1>4 DEF Rows
    <3> QED
      BY <1>7, <3>1
  <2>2. \A k \in DOMAIN todo' : todo'[k].op = "finalize_run" => todo'[k].status \in Outcome
    BY <1>2, <1>4 DEF Rows
  <2> QED
    BY <2>1, <2>2 DEF Rows
<1>9. Rows(unresolved')
  <2>1. \A j, k \in DOMAIN unresolved' : unresolved'[j].op = unresolved'[k].op => j = k
    BY <1>2, <1>3, <1>5 DEF Rows
  <2>2. \A k \in DOMAIN unresolved' :
           unresolved'[k].op = "finalize_run" => unresolved'[k].status \in Outcome
    BY <1>2, <1>3, <1>5 DEF Rows
  <2> QED
    BY <2>1, <2>2 DEF Rows
<1>10. \A j \in DOMAIN todo', k \in DOMAIN unresolved' : todo'[j].op # unresolved'[k].op
  <2> SUFFICES ASSUME NEW j \in DOMAIN todo', NEW k \in DOMAIN unresolved'
               PROVE  todo'[j].op # unresolved'[k].op
    OBVIOUS
  <2>1. j + 1 \in DOMAIN todo /\ todo'[j] = todo[j + 1] /\ j + 1 # 1
    BY <1>4, <1>7
  <2>2. CASE k \in DOMAIN unresolved /\ unresolved'[k] = unresolved[k]
    BY <1>2, <2>1, <2>2
  <2>3. CASE unresolved'[k] = todo[1]
    BY <1>2, <1>3, <2>1, <2>3 DEF Rows
  <2> QED
    BY <1>5, <2>2, <2>3
<1>11. \A k \in DOMAIN todo' : \E m \in DOMAIN intents : intents[m] = todo'[k]
  BY <1>2, <1>4, <1>7
<1>12. pc' = "recover" => todo' # <<>>
  <2> SUFFICES ASSUME pc' = "recover"
               PROVE  todo' # <<>>
    OBVIOUS
  <2>0. Len(todo) # 1
    <3>1. pc' # "rewrite"
      OBVIOUS
    <3> QED
      BY <1>6, <3>1, Zenon
  <2>1. 1 \in DOMAIN todo'
    <3>1. Len(todo) \in Nat \ {0}
      BY <1>4
    <3>0. \A n \in Nat \ {0} : n # 1 => 1 \in 1..(n - 1)
      OBVIOUS
    <3>2. 1 \in 1..(Len(todo) - 1)
      BY <2>0, <3>0, <3>1, Zenon
    <3> QED
      BY <1>4, <3>2, Zenon
  <2>2. DOMAIN <<>> = {}
    OBVIOUS
  <2> QED
    BY <2>1, <2>2
<1>13. pc' \notin DualWrite /\ pc' # "recoverLog" /\ pc' \notin Written
  BY <1>6 DEF DualWrite, Written
<1>14. Rows(intents')
  BY DEF IntentInv
<1> QED
  BY <1>8, <1>9, <1>10, <1>11, <1>12, <1>13, <1>14 DEF IntentInv, Written

\* Every step keeps one row per operation, and in recovery only rows of the
\* file.
LEMMA IntentStep ==
  ASSUME TypeOK, IntentInv, Next, TypeOK'
  PROVE  IntentInv'
<1>0. Rows(intents) /\ intents \in Seq(Intent)
  BY DEF IntentInv, TypeOK
<1>1. CASE \/ Boot \/ RecoverRowFails \/ WriteRowFails \/ NoteError \/ WriteTurnReceipt \/ Work \/ WorkRaises
           \/ Materialize \/ RowsDone \/ CallRow
  <2>1. intents' = intents /\ pc' \in PC \ (DualWrite \cup Recovering \cup {"rewrite"})
    BY <1>1 DEF Boot, RecoverRowFails, WriteRowFails, NoteError, WriteIntents, AfterJob, WriteTurnReceipt, Work,
                WorkRaises, Materialize, RowsDone, CallRow, disk, PC, DualWrite, Recovering
  <2> QED
    BY <1>0, <2>1, IntentIdle
<1>2. CASE \/ ReserveResult \/ AppendResult \/ AppendReceipt \/ MaterializeFails \/ RecordFacts
           \/ InfrastructureFails \/ Crash
  <2>1. intents' = intents /\ pc' \in PC \ (DualWrite \cup Recovering \cup {"rewrite"})
    BY <1>2 DEF ReserveResult, AppendResult, AppendReceipt, MaterializeFails, RecordFacts,
                InfrastructureFails, FailOver, Crash, Dies, disk, PC, DualWrite, Recovering
  <2> QED
    BY <1>0, <2>1, IntentIdle
<1>3. CASE WriteIntentsFails \/ CrashInWrite
  <2>1. intents' = intents \/ intents' = <<>>
    BY <1>3 DEF WriteIntentsFails, CrashInWrite, TearLog, TearIntents, TearRegistry, TearReceipts
  <2>2. pc' \in PC \ (DualWrite \cup Recovering \cup {"rewrite"})
    BY <1>3 DEF WriteIntentsFails, FailOver, CrashInWrite, Dies, PC, DualWrite, Recovering
  <2> QED
    BY <1>0, <2>1, <2>2, RowsEmpty, IntentIdle
<1>4. CASE RewriteIntents
  <2>1. Rows(intents') /\ pc' \in PC \ (DualWrite \cup Recovering \cup {"rewrite"})
    BY <1>4 DEF RewriteIntents, IntentInv, PC, DualWrite, Recovering
  <2> QED
    BY <2>1, IntentIdle
<1>5. CASE ClearIntent
  <2>1. Rows(intents') /\ pc' \in PC \ (DualWrite \cup Recovering \cup {"rewrite"})
    BY <1>0, <1>5, WithoutFacts
       DEF ClearIntent, WriteIntents, AfterJob, PC, DualWrite, Recovering
  <2> QED
    BY <2>1, IntentIdle
<1>6. CASE StartRun \/ FinalizeRun
  <2>1. /\ intents' = intents /\ pc' = "record"
        /\ job'.op = "finalize_run" => job'.status \in Outcome
    BY <1>6 DEF StartRun, FinalizeRun, disk, TypeOK
  <2> QED
    BY <1>0, <2>1 DEF IntentInv, DualWrite
<1>7. CASE RecordIntent
  <2> DEFINE i == [op |-> job.op, status |-> job.status, at |-> job.at,
                   sqlite |-> FALSE, protocol |-> FALSE]
             A == Append(Without(intents, i.op), i)
  <2>1. i \in Intent /\ i.op = job.op /\ i.status = job.status
    BY DEF Intent, Job, TypeOK
  <2>2. pc = "record" /\ intents' = A /\ pc' = "sqlite" /\ job' = job
    BY <1>7 DEF RecordIntent, WriteIntents, locals
  <2>3. i.op = "finalize_run" => i.status \in Outcome
    BY <2>1, <2>2 DEF IntentInv, DualWrite
  <2> HIDE DEF i
  <2>4. Rows(A) /\ \A k \in DOMAIN A : A[k] = i \/ A[k].op # i.op
    BY <1>0, <2>1, <2>3, RecordedFacts
  <2> HIDE DEF A
  <2> QED
    BY <2>1, <2>2, <2>3, <2>4 DEF IntentInv, DualWrite
<1>8. CASE WriteRow \/ WriteLog \/ WriteLogFails
  <2>1. intents' = intents /\ job' = job /\ pc \in {"sqlite", "protocol"}
        /\ pc' \in {"ack", "ackLog", "noteError"}
    BY <1>8 DEF WriteRow, WriteLog, WriteLogFails, disk, locals
  <2> QED
    BY <2>1 DEF IntentInv, DualWrite
<1>9. CASE AckRow \/ AckLog
  <2>1. PICK field \in {"sqlite", "protocol"} :
           intents' = Updated(intents, job.op, field) /\ job' = job
    BY <1>9 DEF AckRow, AckLog, WriteIntents, locals
  <2>2. pc \in {"ack", "ackLog"} /\ pc' \in {"protocol", "clear"}
    BY <1>9 DEF AckRow, AckLog, WriteIntents
  <2> DEFINE U == Updated(intents, job.op, field)
  <2>3. /\ Rows(U) /\ DOMAIN U = DOMAIN intents
        /\ \A k \in DOMAIN intents : U[k].op = intents[k].op /\ U[k].status = intents[k].status
    BY <1>0, UpdatedFacts, RowsUpdated
  <2>4. intents' = U
    BY <2>1
  <2> HIDE DEF U
  <2> QED
    BY <2>1, <2>2, <2>3, <2>4 DEF IntentInv, DualWrite
<1>10. CASE LoadIntents
  <2>1. CASE intents = <<>>
    <3>1. intents' = intents /\ pc' = "idle"
      BY <1>10, <2>1 DEF LoadIntents, disk
    <3> QED
      BY <1>0, <3>1, IntentIdle DEF PC, DualWrite, Recovering
  <2>2. CASE intents # <<>>
    <3>1. intents' = intents /\ pc' = "recover" /\ todo' = intents /\ unresolved' = <<>>
      BY <1>10, <2>2 DEF LoadIntents, disk
    <3>2. DOMAIN unresolved' = {}
      BY <3>1
    <3> QED
      BY <1>0, <2>2, <3>1, <3>2, RowsEmpty DEF IntentInv, DualWrite
  <2> QED
    BY <2>1, <2>2
<1>11. CASE RecoverRow
  <2>1. /\ pc = "recover" /\ pc' = "recoverLog" /\ intents' = intents /\ unresolved' = unresolved
    BY <1>11 DEF RecoverRow
  <2>2. Head(todo) \in Intent /\ Head(todo) = todo[1] /\ todo \in Seq(Intent) /\ todo # <<>>
        /\ 1 \in DOMAIN todo
    BY <2>1, HeadTodo DEF TypeOK
  <2> DEFINE i == [Head(todo) EXCEPT !.sqlite = TRUE,
                      !.protocol = @ \/ Acknowledged(ProtocolStatus, Head(todo))]
  <2>3. i.op = todo[1].op /\ i.status = todo[1].status /\ i.sqlite
    BY <2>2 DEF Intent
  <2>4. todo' = <<i>> \o Tail(todo)
    BY <1>11 DEF RecoverRow
  <2> HIDE DEF i
  <2>5. /\ DOMAIN todo' = DOMAIN todo
        /\ todo'[1] = i
        /\ \A k \in DOMAIN todo : k > 1 => todo'[k] = todo[k]
    BY <2>2, <2>4
  <2>6. \A k \in DOMAIN todo : k = 1 \/ k > 1
    BY <2>2
  <2>7. \A k \in DOMAIN todo : todo'[k].op = todo[k].op /\ todo'[k].status = todo[k].status
    BY <2>3, <2>5, <2>6
  <2>8. /\ Rows(todo) /\ Rows(unresolved)
        /\ \A j \in DOMAIN todo, k \in DOMAIN unresolved : todo[j].op # unresolved[k].op
        /\ \A k \in DOMAIN todo : \E m \in DOMAIN intents : intents[m] = todo[k]
    BY <2>1 DEF IntentInv
  <2>9. Rows(todo')
    BY <2>5, <2>7, <2>8 DEF Rows
  <2>10. todo' # <<>>
    BY <2>2, <2>5
  <2> QED
    BY <1>0, <2>1, <2>3, <2>5, <2>7, <2>8, <2>9, <2>10 DEF IntentInv, DualWrite
<1>12. CASE RecoverLog
  <2>1. pc = "recoverLog" /\ intents' = intents
    BY <1>12 DEF RecoverLog
  <2>2. CASE Recovered(TRUE)
    BY <2>1, <2>2, IntentRecovered
  <2>3. CASE Recovered(ProtocolWrite(Head(todo)).ok)
    <3>1. ProtocolWrite(Head(todo)).ok \in BOOLEAN
      BY DEF ProtocolWrite, LogStart, LogFinalize, Raised, Nothing, Appends
    <3> QED
      BY <2>1, <2>3, <3>1, IntentRecovered
  <2> QED
    BY <1>12, <2>2, <2>3 DEF RecoverLog
<1>13. CASE RecoverLogFails
  <2>1. pc = "recoverLog" /\ intents' = intents /\ Recovered(FALSE)
    BY <1>13 DEF RecoverLogFails, disk
  <2> QED
    BY <2>1, IntentRecovered
<1> QED
  BY <1>1, <1>2, <1>3, <1>4, <1>5, <1>6, <1>7, <1>8, <1>9, <1>10, <1>11, <1>12, <1>13 DEF Next

-----------------------------------------------------------------------------
(* Outcomes on their way from SQLite to the log.                               *)

\* The file takes a quiet change or one more frame.
LEMMA LogMoves ==
  ASSUME TypeOK, LogInv, MatInv, IntentInv, Next
  PROVE  QuietFile(log') \/ \E f \in Frame : log' = Append(log, f)
<1>0. log \in Seq(Frame) /\ LogOK(Events)
  BY DEF LogInv, TypeOK
<1>1. QuietFile(log)
  BY <1>0, QuietSame
<1>2. CASE log' = log
  BY <1>1, <1>2
<1>3. CASE RecoverLog
  <2>1. QuietFile(log \o ProtocolWrite(Head(todo)).frames)
    BY <1>0, <1>3, HeadTodo, QuietProtocolWrite DEF RecoverLog
  <2>2. log' = log \/ log' = log \o ProtocolWrite(Head(todo)).frames
    BY <1>3 DEF RecoverLog
  <2> QED
    BY <1>1, <2>1, <2>2
<1>4. CASE WriteLog
  <2>1. job.op \in Operation /\ (job.op = "finalize_run" => job.status \in Outcome)
    BY <1>4 DEF WriteLog, IntentInv, Job, TypeOK, DualWrite
  <2> QED
    BY <1>0, <1>4, <2>1, QuietProtocolWrite DEF WriteLog
<1>5. CASE RecordFacts
  BY <1>0, <1>1, <1>5, QuietFact DEF RecordFacts
<1>6. CASE CallRow
  <2>1. RowOp \in Op
    BY <1>6, ItemIsOperation DEF CallRow
  <2>2. log' = log \/ log' = Append(log, [kind |-> "tool_call", op |-> RowOp])
    BY <1>6 DEF CallRow
  <2> QED
    BY <1>2, <2>1, <2>2, FramesWritten
<1>7. CASE AppendResult
  <2>1. RowOp \in Op /\ mat.call \in Nat
    BY <1>7, ItemIsOperation DEF AppendResult, MatInv, TypeOK
  <2>2. log' = Append(log, [kind |-> "operation_result", op |-> RowOp, call |-> mat.call])
    BY <1>7 DEF AppendResult
  <2> QED
    BY <2>1, <2>2, FramesWritten
<1>8. CASE CrashInWrite
  BY <1>0, <1>2, <1>8, QuietTorn
     DEF CrashInWrite, TearLog, TearIntents, TearRegistry, TearReceipts
<1>9. CASE \/ Boot \/ LoadIntents \/ RecoverRow \/ RecoverRowFails \/ RecoverLogFails
           \/ RewriteIntents \/ StartRun \/ FinalizeRun \/ RecordIntent \/ WriteRow
           \/ WriteRowFails \/ AckRow \/ WriteLogFails \/ AckLog \/ ClearIntent \/ NoteError
  BY <1>2, <1>9
     DEF Boot, LoadIntents, RecoverRow, RecoverRowFails, RecoverLogFails, RewriteIntents,
         StartRun, FinalizeRun, RecordIntent, WriteRow, WriteRowFails, AckRow, WriteLogFails,
         AckLog, ClearIntent, NoteError, WriteIntents, disk
<1>10. CASE \/ WriteIntentsFails \/ WriteTurnReceipt \/ Work \/ WorkRaises \/ Materialize \/ RowsDone
            \/ ReserveResult \/ AppendReceipt \/ MaterializeFails \/ InfrastructureFails \/ Crash
  BY <1>2, <1>10
     DEF WriteIntentsFails, WriteTurnReceipt, Work, WorkRaises, Materialize, RowsDone, ReserveResult,
         AppendReceipt, MaterializeFails, InfrastructureFails, Crash, disk
<1> QED
  BY <1>3, <1>4, <1>5, <1>6, <1>7, <1>8, <1>9, <1>10 DEF Next

\* A torn file stays torn, a lost intent stays lost and an outcome stays in the
\* log.
LEMMA Onward ==
  ASSUME TypeOK, LogInv, MatInv, IntentInv, Next
  PROVE  /\ TornAt(log') = {} => TornAt(log) = {}
         /\ ~lost' => ~lost
         /\ \A s : Finalized(Events, s) => Finalized(Events', s)
<1>0. log \in Seq(Frame) /\ Events \in Seq(Frame)
  BY DEF LogInv, TypeOK, LogOK
<1>1. ~lost' => ~lost
  BY DEF Next, Boot, LoadIntents, RecoverRow, RecoverRowFails, RecoverLog, RecoverLogFails,
         RewriteIntents, StartRun, FinalizeRun, RecordIntent, WriteRow, WriteRowFails, AckRow,
         WriteLog, WriteLogFails, AckLog, ClearIntent, NoteError, WriteIntents,
         WriteIntentsFails, WriteTurnReceipt, Work, WorkRaises, Materialize, RowsDone, CallRow, ReserveResult,
         AppendResult, AppendReceipt, MaterializeFails, RecordFacts, InfrastructureFails, Crash,
         CrashInWrite, TearLog, TearIntents, TearRegistry, TearReceipts
<1>2. CASE QuietFile(log')
  <2>1. Events' = Replay(log')
    BY DEF Events
  <2>2. Replay(log') \in Seq(Frame) /\ Quiet(Events, Replay(log')) /\ (TornAt(log') = {} => TornAt(log) = {})
    BY <1>2 DEF QuietFile, LogOK
  <2>3. \A s : Finalized(Events, s) => Finalized(Replay(log'), s)
    BY <1>0, <2>2, QuietFacts
  <2> QED
    BY <1>1, <2>1, <2>2, <2>3
<1>3. CASE \E f \in Frame : log' = Append(log, f)
  <2>1. PICK f \in Frame : log' = Append(log, f)
    BY <1>3
  <2>2. TornAt(log') = {} => TornAt(log) = {}
    BY <1>0, <2>1, ReplayAppend
  <2>3. Events' = Events \/ Events' = Append(Events, f)
    BY <1>0, <2>1, ReplayAppend DEF Events
  <2>4. \A s : Finalized(Events, s) => Finalized(Append(Events, f), s)
    <3>1. \A kind : Kinds(Events, kind) \subseteq Kinds(Append(Events, f), kind)
      BY <1>0, GrowFacts
    <3>2. \A kind : \A i \in Kinds(Events, kind) : Append(Events, f)[i] = Events[i]
      BY <1>0, GrowFacts
    <3> QED
      BY <3>1, <3>2 DEF Finalized
  <2> QED
    BY <1>1, <2>2, <2>3, <2>4
<1> QED
  BY <1>2, <1>3, LogMoves

\* A step that keeps file and row, out of the dual write and of recovery.
LEMMA SoundIdle ==
  ASSUME Sound, \A s : Finalized(Events, s) => Finalized(Events', s),
         intents' = intents, row' = row,
         pc' \notin Written \cup Recovering \cup {"rewrite"}
  PROVE  Sound'
<1>1. Honest(intents)'
  BY DEF Sound, Honest
<1>2. (row \in Outcome => Finalized(Events, row) \/ Carried(intents))'
  BY DEF Sound, Carried
<1> QED
  BY <1>1, <1>2 DEF Sound, Written, Recovering

\* Recovery of one row: it is resolved only when its outcome is in the log.
LEMMA SoundRecovered ==
  ASSUME TypeOK, IntentInv, Sound, \A s : Finalized(Events, s) => Finalized(Events', s),
         pc = "recoverLog", intents' = intents, row' = row,
         NEW resolved \in BOOLEAN, Recovered(resolved),
         resolved /\ Head(todo).op = "finalize_run" => Finalized(Events', Head(todo).status),
         ~resolved => ~Head(todo).protocol
  PROVE  Sound'
<1>0. pc \in Recovering
  BY DEF Recovering
<1>1. Head(todo) = todo[1] /\ 1 \in DOMAIN todo
  BY HeadTodo
<1>2. \A k \in DOMAIN todo' : k + 1 \in DOMAIN todo /\ todo'[k] = todo[k + 1]
  BY <1>0, RecoveredFacts
<1>3. \A k \in DOMAIN todo : k > 1 => k - 1 \in DOMAIN todo' /\ todo'[k - 1] = todo[k]
  BY <1>0, RecoveredFacts
<1>4. \A k \in DOMAIN unresolved : k \in DOMAIN unresolved' /\ unresolved'[k] = unresolved[k]
  BY <1>0, RecoveredFacts
<1>5. \A k \in DOMAIN unresolved' :
         \/ k \in DOMAIN unresolved /\ unresolved'[k] = unresolved[k]
         \/ ~resolved /\ unresolved'[k] = Head(todo)
  BY <1>0, RecoveredFacts
<1>6. ~resolved => \E k \in DOMAIN unresolved' : unresolved'[k] = Head(todo)
  BY <1>0, RecoveredFacts
<1>7. pc' \in {"recover", "rewrite"} /\ (pc' = "rewrite" <=> Len(todo) = 1)
  BY <1>0, RecoveredFacts
<1>8. DOMAIN todo = 1..Len(todo) /\ Len(todo) \in Nat
  BY DEF TypeOK
<1>9. Honest(todo)'
  BY <1>2 DEF Sound, Honest
<1>10. Honest(unresolved)'
  BY <1>5 DEF Sound, Honest
<1>11. Honest(intents)'
  BY DEF Sound, Honest
<1>12. (row \in Outcome => Finalized(Events, row) \/ Carried(intents))'
  BY DEF Sound, Carried
<1>13. (row \in Outcome => Finalized(Events, row) \/ Carried(todo) \/ Carried(unresolved))'
  <2> SUFFICES ASSUME row \in Outcome, ~Finalized(Events', row)
               PROVE  Carried(todo)' \/ Carried(unresolved)'
    OBVIOUS
  <2>1. CASE Carried(unresolved)
    <3>1. PICK k \in DOMAIN unresolved :
             unresolved[k].op = "finalize_run" /\ (unresolved[k].sqlite => unresolved[k].status = row)
      BY <2>1 DEF Carried
    <3> QED
      BY <1>4, <3>1 DEF Carried
  <2>2. CASE Carried(todo)
    <3>1. PICK k \in DOMAIN todo :
             todo[k].op = "finalize_run" /\ (todo[k].sqlite => todo[k].status = row)
      BY <2>2 DEF Carried
    <3>2. CASE k > 1
      BY <1>3, <3>1, <3>2 DEF Carried
    <3>3. CASE k = 1 /\ ~resolved
      BY <1>1, <1>6, <3>1, <3>3 DEF Carried
    <3>4. CASE k = 1 /\ resolved
      <4>1. Finalized(Events', todo[1].status)
        BY <1>1, <3>1, <3>4
      <4>2. todo[1].sqlite
        BY DEF IntentInv
      <4> QED
        BY <3>1, <3>4, <4>1, <4>2
    <3> QED
      BY <1>8, <3>1, <3>2, <3>3, <3>4
  <2> QED
    BY <2>1, <2>2 DEF Sound
<1>14. ASSUME pc' = "rewrite"
       PROVE  ~Carried(todo)'
  <2>1. Len(todo) = 1
    BY <1>7, <1>14
  <2>2. DOMAIN todo' = {}
    <3>1. DOMAIN todo' = 1..(Len(todo) - 1)
      BY <1>0, RecoveredFacts
    <3> QED
      BY <2>1, <3>1
  <2> QED
    BY <2>2 DEF Carried
<1> QED
  BY <1>7, <1>9, <1>10, <1>11, <1>12, <1>13, <1>14 DEF Sound

\* The remaining steps of recovery.
LEMMA SoundRecovery ==
  ASSUME TypeOK, LogInv, MatInv, IntentInv, Sound, Next, TornAt(log) = {},
         LoadIntents \/ RecoverRow \/ RecoverLog \/ RecoverLogFails \/ RewriteIntents
  PROVE  Sound'
<1>0. \A s : Finalized(Events, s) => Finalized(Events', s)
  BY Onward
<1>1. CASE LoadIntents
  <2>1. intents' = intents /\ row' = row /\ todo' = intents /\ unresolved' = <<>> /\ Events' = Events
    BY <1>1 DEF LoadIntents, disk, Events
  <2>2. CASE pc' = "idle"
    BY <1>0, <2>1, <2>2, SoundIdle DEF Written, Recovering
  <2>3. CASE pc' = "recover"
    <3>1. DOMAIN unresolved' = {}
      BY <2>1
    <3>2. Honest(intents)' /\ Honest(todo)' /\ Honest(unresolved)'
      BY <2>1, <3>1 DEF Sound, Honest
    <3>3. row' \in Outcome => Finalized(Events', row') \/ Carried(intents)'
      BY <2>1 DEF Sound, Carried
    <3>4. row' \in Outcome => Finalized(Events', row') \/ Carried(todo)'
      BY <2>1 DEF Sound, Carried
    <3> QED
      BY <2>3, <3>2, <3>3, <3>4 DEF Sound
  <2> QED
    BY <1>1, <2>2, <2>3 DEF LoadIntents
<1>2. CASE RecoverRow
  <2>1. /\ pc = "recover" /\ pc' = "recoverLog" /\ intents' = intents /\ unresolved' = unresolved
        /\ Events' = Events
    BY <1>2 DEF RecoverRow, Events
  <2>2. /\ Head(todo) \in Intent /\ Head(todo) = todo[1] /\ todo \in Seq(Intent) /\ todo # <<>>
        /\ 1 \in DOMAIN todo
        /\ Head(todo).op \in Operation
        /\ Head(todo).op = "finalize_run" => Head(todo).status \in Outcome
    BY <2>1, HeadTodo DEF TypeOK
  <2> DEFINE h == Head(todo)
             p == h.protocol \/ Acknowledged(ProtocolStatus, h)
             i == [h EXCEPT !.sqlite = TRUE, !.protocol = p]
  <2>3. todo' = <<i>> \o Tail(todo)
    BY <1>2 DEF RecoverRow
  <2>4. row' = IF h.sqlite \/ Acknowledged(row, h) THEN row ELSE RowAfter(h)
    BY <1>2 DEF RecoverRow
  <2> HIDE DEF p
  <2>5. i.op = h.op /\ i.status = h.status /\ i.sqlite = TRUE /\ i.protocol = p
    BY <2>2 DEF Intent
  <2> HIDE DEF i
  <2>6. /\ DOMAIN todo' = DOMAIN todo /\ todo'[1] = i
        /\ \A k \in DOMAIN todo : k > 1 => todo'[k] = todo[k]
        /\ \A k \in DOMAIN todo : k = 1 \/ k > 1
    BY <2>2, <2>3
  <2>7. p /\ h.op = "finalize_run" => Finalized(Events, h.status)
    <3> SUFFICES ASSUME p, h.op = "finalize_run"
                 PROVE  Finalized(Events, h.status)
      OBVIOUS
    <3>1. CASE h.protocol
      BY <2>1, <2>2, <3>1 DEF Sound, Honest
    <3>2. CASE Acknowledged(ProtocolStatus, h)
      <4>1. ProtocolStatus = h.status /\ h.status \in Outcome
        BY <2>2, <3>2 DEF Acknowledged
      <4>2. ProtocolStatus = RunStatus(Events)
        BY <4>1, OutcomesAreFinal DEF ProtocolStatus
      <4>3. Events \in Seq(Frame)
        BY DEF LogInv, LogOK
      <4> QED
        BY <4>1, <4>2, <4>3, StatusIsLogged
    <3> QED
      BY <3>1, <3>2 DEF p
  <2>8. Honest(todo)' /\ Honest(unresolved)' /\ Honest(intents)'
    <3>1. Honest(unresolved)' /\ Honest(intents)'
      BY <2>1 DEF Sound, Honest
    <3>2. ASSUME NEW k \in DOMAIN todo', todo'[k].op = "finalize_run", todo'[k].protocol
          PROVE  Finalized(Events', todo'[k].status)
      <4>1. CASE k = 1
        BY <2>1, <2>5, <2>6, <2>7, <3>2, <4>1
      <4>2. CASE k > 1
        BY <2>1, <2>6, <3>2, <4>2 DEF Sound, Honest
      <4> QED
        BY <2>6, <4>1, <4>2
    <3> QED
      BY <3>1, <3>2 DEF Honest
  <2>9. h.op = "start_run" \/ h.op = "finalize_run"
    BY <2>2 DEF Operation
  <2>10. CASE row' = row /\ h.op = "start_run"
    <3>1. Carried(intents) => Carried(intents)'
      BY <2>1, <2>10 DEF Carried
    <3>2. Carried(unresolved) => Carried(unresolved)'
      BY <2>1, <2>10 DEF Carried
    <3>3. Carried(todo) => Carried(todo)'
      BY <2>2, <2>6, <2>10 DEF Carried
    <3> QED
      BY <2>1, <2>8, <2>10, <3>1, <3>2, <3>3 DEF Sound
  <2>11. CASE row' = row /\ h.op = "finalize_run" /\ (h.sqlite \/ row = h.status)
    <3>1. Carried(intents) => Carried(intents)'
      BY <2>1, <2>11 DEF Carried
    <3>2. Carried(unresolved) => Carried(unresolved)'
      BY <2>1, <2>11 DEF Carried
    <3>3. ASSUME Carried(todo)
          PROVE  Carried(todo)'
      <4>1. PICK k \in DOMAIN todo :
               todo[k].op = "finalize_run" /\ (todo[k].sqlite => todo[k].status = row)
        BY <3>3 DEF Carried
      <4>2. CASE k > 1
        BY <2>6, <2>11, <4>1, <4>2 DEF Carried
      <4>3. CASE k = 1
        <5>1. i.status = row /\ i.op = "finalize_run"
          BY <2>2, <2>5, <2>11, <4>1, <4>3
        <5> QED
          BY <2>2, <2>6, <2>11, <5>1 DEF Carried
      <4> QED
        BY <2>6, <4>2, <4>3
    <3> QED
      BY <2>1, <2>8, <2>11, <3>1, <3>2, <3>3 DEF Sound
  <2>12. CASE h.op = "finalize_run" /\ ~h.sqlite /\ row' \in {"none", h.status}
    <3>1. row' \in Outcome => row' = h.status
      BY <2>12, OutcomesAreFinal
    <3>2. PICK m \in DOMAIN intents : intents[m] = todo[1]
      BY <2>1, <2>2 DEF IntentInv
    <3>3. Carried(intents)'
      BY <2>1, <2>2, <2>12, <3>2 DEF Carried
    <3>4. row' \in Outcome => Carried(todo)'
      BY <2>2, <2>5, <2>6, <2>12, <3>1 DEF Carried
    <3> QED
      BY <2>1, <2>8, <3>3, <3>4 DEF Sound
  <2>13. CASE h.op = "start_run" /\ row' \notin Outcome
    BY <2>1, <2>8, <2>13 DEF Sound
  <2> QED
    <3>1. CASE h.sqlite \/ Acknowledged(row, h)
      <4>1. row' = row
        BY <2>4, <3>1
      <4>2. h.op = "finalize_run" => h.sqlite \/ row = h.status
        BY <3>1 DEF Acknowledged
      <4> QED
        BY <2>9, <2>10, <2>11, <4>1, <4>2
    <3>2. CASE ~(h.sqlite \/ Acknowledged(row, h))
      <4>1. row' = RowAfter(h) /\ ~h.sqlite
        BY <2>4, <3>2
      <4>2. h.op = "start_run" => row' = "running"
        BY <4>1 DEF RowAfter
      <4>3. h.op = "finalize_run" => row' \in {"none", h.status}
        BY <4>1 DEF RowAfter
      <4> QED
        BY <2>9, <2>12, <2>13, <4>1, <4>2, <4>3, OutcomesAreFinal
    <3> QED
      BY <3>1, <3>2
<1>3. CASE RecoverLog
  <2>1. pc = "recoverLog" /\ intents' = intents /\ row' = row
    BY <1>3 DEF RecoverLog
  <2>2. /\ Head(todo).op \in Operation /\ Head(todo) = todo[1] /\ 1 \in DOMAIN todo
        /\ Head(todo).op = "finalize_run" => Head(todo).status \in Outcome
    BY <2>1, HeadTodo
  <2>3. CASE Head(todo).protocol
    <3>1. Recovered(TRUE)
      BY <1>3, <2>3 DEF RecoverLog
    <3>2. Head(todo).op = "finalize_run" => Finalized(Events, Head(todo).status)
      BY <2>1, <2>2, <2>3 DEF Sound, Honest
    <3> QED
      BY <1>0, <2>1, <3>1, <3>2, SoundRecovered
  <2>4. CASE ~Head(todo).protocol
    <3> DEFINE w == ProtocolWrite(Head(todo))
    <3>1. Recovered(w.ok) /\ log' = log \o w.frames
      BY <1>3, <2>4 DEF RecoverLog
    <3>2. w.ok \in BOOLEAN
      BY DEF ProtocolWrite, LogStart, LogFinalize, Raised, Nothing, Appends
    <3>3. log \in Seq(Frame) /\ LogOK(Events)
      BY DEF TypeOK, LogInv
    <3>4. w.ok /\ Head(todo).op = "finalize_run" =>
             Finalized(Replay(log \o w.frames), Head(todo).status)
      BY <2>2, <3>3, QuietProtocolWrite
    <3>5. Events' = Replay(log \o w.frames)
      BY <3>1 DEF Events
    <3> HIDE DEF w
    <3> QED
      BY <1>0, <2>1, <2>4, <3>1, <3>2, <3>4, <3>5, SoundRecovered
  <2> QED
    BY <2>3, <2>4
<1>4. CASE RecoverLogFails
  <2>1. /\ pc = "recoverLog" /\ intents' = intents /\ row' = row /\ Recovered(FALSE)
        /\ ~Head(todo).protocol
    BY <1>4 DEF RecoverLogFails, disk
  <2> QED
    BY <1>0, <2>1, SoundRecovered
<1>5. CASE RewriteIntents
  <2>1. pc = "rewrite" /\ pc' = "idle" /\ intents' = unresolved /\ row' = row /\ Events' = Events
    BY <1>5 DEF RewriteIntents, Events
  <2>2. Honest(intents)'
    BY <2>1 DEF Sound, Honest
  <2>3. row' \in Outcome => Finalized(Events', row') \/ Carried(intents)'
    BY <2>1 DEF Sound, Carried
  <2> QED
    BY <2>1, <2>2, <2>3 DEF Sound
<1> QED
  BY <1>1, <1>2, <1>3, <1>4, <1>5

\* The steps of a dual write.
LEMMA SoundWrites ==
  ASSUME TypeOK, LogInv, MatInv, IntentInv, Sound, Next, TornAt(log) = {},
         \/ RecordIntent \/ WriteRow \/ AckRow \/ WriteLog \/ WriteLogFails \/ AckLog \/ ClearIntent
  PROVE  Sound'
<1>0. \A s : Finalized(Events, s) => Finalized(Events', s)
  BY Onward
<1>a. intents \in Seq(Intent) /\ Rows(intents) /\ job.op \in Operation
  BY DEF TypeOK, IntentInv, Job
<1>b. job.op = "start_run" \/ job.op = "finalize_run"
  BY <1>a DEF Operation
<1>1. CASE RecordIntent
  <2> DEFINE i == [op |-> job.op, status |-> job.status, at |-> job.at,
                   sqlite |-> FALSE, protocol |-> FALSE]
             A == Append(Without(intents, i.op), i)
  <2>1. /\ i \in Intent /\ i.op = job.op /\ i.status = job.status
        /\ i.sqlite = FALSE /\ i.protocol = FALSE
    BY DEF Intent, Job, TypeOK
  <2>2. /\ pc = "record" /\ intents' = A /\ pc' = "sqlite" /\ job' = job /\ row' = row
        /\ Events' = Events
    BY <1>1 DEF RecordIntent, WriteIntents, locals, Events
  <2>3. i.op = "finalize_run" => i.status \in Outcome
    BY <2>1, <2>2 DEF IntentInv, DualWrite
  <2> HIDE DEF i
  <2>4. /\ \E k \in DOMAIN A : A[k] = i
        /\ \A k \in DOMAIN A : A[k] = i \/ \E m \in DOMAIN intents : A[k] = intents[m]
        /\ \A m \in DOMAIN intents : intents[m].op # i.op => \E k \in DOMAIN A : A[k] = intents[m]
    BY <1>a, <2>1, <2>3, RecordedFacts
  <2> HIDE DEF A
  <2>5. Honest(intents)'
    BY <2>1, <2>2, <2>4 DEF Sound, Honest
  <2>6. row' \in Outcome => Finalized(Events', row') \/ Carried(intents)'
    <3>1. CASE i.op = "finalize_run"
      BY <2>1, <2>2, <2>4, <3>1 DEF Carried
    <3>2. CASE i.op # "finalize_run"
      <4>1. Carried(intents) => Carried(intents)'
        BY <2>2, <2>4, <3>2 DEF Carried
      <4> QED
        BY <2>2, <4>1 DEF Sound
    <3> QED
      BY <3>1, <3>2
  <2>7. \E k \in DOMAIN intents' : intents'[k].op = job'.op /\ intents'[k].status = job'.status
    BY <2>1, <2>2, <2>4
  <2> QED
    BY <2>2, <2>5, <2>6, <2>7 DEF Sound
<1>2. CASE WriteRow
  <2>1. /\ pc = "sqlite" /\ pc' = "ack" /\ intents' = intents /\ job' = job
        /\ row' = RowAfter(job) /\ Events' = Events
    BY <1>2 DEF WriteRow, locals, Events
  <2>2. PICK k \in DOMAIN intents : intents[k].op = job.op /\ intents[k].status = job.status
    BY <2>1 DEF Sound
  <2>3. Honest(intents)'
    BY <2>1 DEF Sound, Honest
  <2>4. row' = IF job'.op = "start_run" THEN "running"
               ELSE IF row' = "none" THEN "none" ELSE job'.status
    BY <2>1 DEF RowAfter
  <2>5. row' \in Outcome => Carried(intents)'
    BY <1>b, <2>1, <2>2, <2>4, OutcomesAreFinal DEF Carried
  <2> QED
    BY <2>1, <2>2, <2>3, <2>4, <2>5 DEF Sound
<1>3. CASE AckRow
  <2> DEFINE U == Updated(intents, job.op, "sqlite")
  <2>1. /\ pc = "ack" /\ pc' = "protocol" /\ intents' = U /\ job' = job
        /\ row' = row /\ Events' = Events
    BY <1>3 DEF AckRow, WriteIntents, locals, Events
  <2>2. /\ DOMAIN U = DOMAIN intents
        /\ \A k \in DOMAIN intents :
              /\ U[k].op = intents[k].op /\ U[k].status = intents[k].status
              /\ U[k].protocol = intents[k].protocol
              /\ intents[k].op # job.op => U[k] = intents[k]
    BY <1>a, UpdatedFacts
  <2> HIDE DEF U
  <2>3. PICK k \in DOMAIN intents : intents[k].op = job.op /\ intents[k].status = job.status
    BY <2>1 DEF Sound
  <2>4. row = IF job.op = "start_run" THEN "running" ELSE IF row = "none" THEN "none" ELSE job.status
    BY <2>1 DEF Sound
  <2>5. Honest(intents)'
    BY <2>1, <2>2 DEF Sound, Honest
  <2>6. row' \in Outcome => Carried(intents)'
    BY <1>b, <2>1, <2>2, <2>3, <2>4, OutcomesAreFinal DEF Carried
  <2>7. \E m \in DOMAIN intents' : intents'[m].op = job'.op /\ intents'[m].status = job'.status
    BY <2>1, <2>2, <2>3
  <2> QED
    BY <2>1, <2>4, <2>5, <2>6, <2>7 DEF Sound
<1>4. CASE WriteLog \/ WriteLogFails
  <2>1. /\ pc = "protocol" /\ pc' \in {"ackLog", "noteError"} /\ intents' = intents /\ job' = job
        /\ row' = row
    BY <1>4 DEF WriteLog, WriteLogFails, disk, locals
  <2>2. Honest(intents)'
    BY <1>0, <2>1 DEF Sound, Honest
  <2>3. row' \in Outcome => Finalized(Events', row') \/ Carried(intents)'
    BY <1>0, <2>1 DEF Sound, Carried
  <2>4. /\ \E k \in DOMAIN intents : intents[k].op = job.op /\ intents[k].status = job.status
        /\ row = IF job.op = "start_run" THEN "running"
                 ELSE IF row = "none" THEN "none" ELSE job.status
    BY <2>1 DEF Sound
  <2>5. ASSUME pc' = "ackLog", job.op = "finalize_run"
        PROVE  Finalized(Events', job.status)
    <3>1. log' = log \o ProtocolWrite(job).frames /\ ProtocolWrite(job).ok
      BY <1>4, <2>5 DEF WriteLog, WriteLogFails
    <3>2. log \in Seq(Frame) /\ LogOK(Events) /\ job.status \in Outcome
      BY <2>1, <2>5 DEF TypeOK, LogInv, IntentInv, DualWrite
    <3> QED
      BY <1>a, <2>5, <3>1, <3>2, QuietProtocolWrite DEF Events
  <2> QED
    BY <2>1, <2>2, <2>3, <2>4, <2>5 DEF Sound
<1>5. CASE AckLog
  <2> DEFINE U == Updated(intents, job.op, "protocol")
  <2>1. /\ pc = "ackLog" /\ pc' = "clear" /\ intents' = U /\ job' = job
        /\ row' = row /\ Events' = Events
    BY <1>5 DEF AckLog, WriteIntents, locals, Events
  <2>2. /\ DOMAIN U = DOMAIN intents
        /\ \A k \in DOMAIN intents :
              /\ U[k].op = intents[k].op /\ U[k].status = intents[k].status
              /\ U[k].sqlite = intents[k].sqlite
              /\ intents[k].op # job.op => U[k] = intents[k]
    BY <1>a, UpdatedFacts
  <2> HIDE DEF U
  <2>3. PICK k \in DOMAIN intents : intents[k].op = job.op /\ intents[k].status = job.status
    BY <2>1 DEF Sound
  <2>4. /\ row = IF job.op = "start_run" THEN "running"
                 ELSE IF row = "none" THEN "none" ELSE job.status
        /\ job.op = "finalize_run" => Finalized(Events, job.status)
    BY <2>1 DEF Sound
  <2>5. \A m \in DOMAIN intents : intents[m].op = job.op => intents[m].status = job.status
    BY <2>1 DEF IntentInv
  <2>6. Honest(intents)'
    <3> SUFFICES ASSUME NEW m \in DOMAIN U, U[m].op = "finalize_run", U[m].protocol
                 PROVE  Finalized(Events, U[m].status)
      BY <2>1 DEF Honest
    <3>1. CASE intents[m].op = job.op
      BY <2>2, <2>4, <2>5, <3>1
    <3>2. CASE intents[m].op # job.op
      BY <2>2, <3>2 DEF Sound, Honest
    <3> QED
      BY <3>1, <3>2
  <2>7. Carried(intents) => Carried(intents)'
    BY <2>1, <2>2 DEF Carried
  <2>8. \E m \in DOMAIN intents' : intents'[m].op = job'.op /\ intents'[m].status = job'.status
    BY <2>1, <2>2, <2>3
  <2> QED
    BY <2>1, <2>4, <2>6, <2>7, <2>8 DEF Sound
<1>6. CASE ClearIntent
  <2> DEFINE W == Without(intents, job.op)
  <2>1. /\ pc = "clear" /\ pc' \in {"work", "idle"} /\ intents' = W /\ job' = job
        /\ row' = row /\ Events' = Events
    BY <1>6 DEF ClearIntent, WriteIntents, AfterJob, locals, Events
  <2>2. /\ \A k \in DOMAIN W : \E m \in DOMAIN intents : W[k] = intents[m]
        /\ \A m \in DOMAIN intents : intents[m].op # job.op => \E k \in DOMAIN W : W[k] = intents[m]
    BY <1>a, WithoutFacts
  <2> HIDE DEF W
  <2>3. /\ row = IF job.op = "start_run" THEN "running"
                 ELSE IF row = "none" THEN "none" ELSE job.status
        /\ job.op = "finalize_run" => Finalized(Events, job.status)
    BY <2>1 DEF Sound
  <2>4. Honest(intents)'
    BY <2>1, <2>2 DEF Sound, Honest
  <2>5. row' \in Outcome => Finalized(Events', row')
    BY <1>b, <2>1, <2>3, OutcomesAreFinal
  <2> QED
    BY <2>1, <2>4, <2>5 DEF Sound
<1> QED
  BY <1>1, <1>2, <1>3, <1>4, <1>5, <1>6

\* Every step keeps the outcomes on their way.
LEMMA OutcomeStep ==
  ASSUME TypeOK, LogInv, MatInv, IntentInv, OutcomeInv, Next
  PROVE  OutcomeInv'
<1> SUFFICES ASSUME ~lost', TornAt(log)' = {}
             PROVE  Sound'
  BY DEF OutcomeInv
<1>0. \A s : Finalized(Events, s) => Finalized(Events', s)
  BY Onward
<1>1. ~lost /\ TornAt(log) = {}
  BY Onward
<1>2. Sound
  BY <1>1 DEF OutcomeInv
<1>3. CASE \/ Boot \/ RecoverRowFails \/ StartRun \/ FinalizeRun \/ NoteError \/ WriteRowFails
           \/ WriteIntentsFails \/ WriteTurnReceipt \/ Work \/ WorkRaises \/ Materialize \/ RowsDone \/ CallRow
  <2>1. /\ intents' = intents /\ row' = row
        /\ pc' \notin Written \cup Recovering \cup {"rewrite"}
    BY <1>3 DEF Boot, RecoverRowFails, StartRun, FinalizeRun, NoteError, WriteIntents, AfterJob,
                WriteRowFails, WriteIntentsFails, FailOver, WriteTurnReceipt, Work, WorkRaises, Materialize,
                RowsDone, CallRow, disk, Written, Recovering
  <2> QED
    BY <1>0, <1>2, <2>1, SoundIdle
<1>4. CASE \/ ReserveResult \/ AppendResult \/ AppendReceipt \/ MaterializeFails \/ RecordFacts
           \/ InfrastructureFails \/ Crash \/ CrashInWrite
  <2>1. /\ intents' = intents /\ row' = row
        /\ pc' \notin Written \cup Recovering \cup {"rewrite"}
    BY <1>4 DEF ReserveResult, AppendResult, AppendReceipt, MaterializeFails, RecordFacts,
                InfrastructureFails, FailOver, Crash, CrashInWrite, Dies, TearLog, TearIntents,
                TearRegistry, TearReceipts, disk, Written, Recovering
  <2> QED
    BY <1>0, <1>2, <2>1, SoundIdle
<1>5. CASE LoadIntents \/ RecoverRow \/ RecoverLog \/ RecoverLogFails \/ RewriteIntents
  BY <1>1, <1>2, <1>5, SoundRecovery
<1>6. CASE \/ RecordIntent \/ WriteRow \/ AckRow \/ WriteLog \/ WriteLogFails \/ AckLog
           \/ ClearIntent
  BY <1>1, <1>2, <1>6, SoundWrites
<1> QED
  BY <1>3, <1>4, <1>5, <1>6 DEF Next

-----------------------------------------------------------------------------
(* Before the first crash and the first error.                                 *)

\* The writes of the protocol repository tear nothing.
LEMMA WholeWrites ==
  ASSUME log \in Seq(Frame), TornAt(log) = {}, NEW j, j.op \in Operation,
         j.op = "finalize_run" => j.status \in Outcome
  PROVE  /\ TornAt(log \o ProtocolWrite(j).frames) = {}
         /\ TornAt(log \o LogFact(log).frames) = {}
<1>1. ASSUME NEW f \in Frame, f.kind # "torn"
      PROVE  TornAt(log \o Appends(f).frames) = {}
  <2>1. log \o Appends(f).frames = Append(log, f)
    BY DEF Appends
  <2> QED
    BY <1>1, <2>1, ReplayAppend
<1>2. TornAt(log \o Nothing.frames) = {} /\ TornAt(log \o Raised.frames) = {}
  <2>1. log \o Nothing.frames = log /\ log \o Raised.frames = log
    BY DEF Nothing, Raised
  <2> QED
    BY <2>1
<1>3. TornAt(log \o Appends([kind |-> "fact"]).frames) = {}
  BY <1>1, FramesWritten
<1>4. TornAt(log \o Appends([kind |-> "run_started"]).frames) = {}
  BY <1>1, FramesWritten
<1>5. j.op = "finalize_run" =>
         TornAt(log \o Appends([kind |-> "run_finalized", status |-> j.status]).frames) = {}
  BY <1>1, FramesWritten
<1>6. ProtocolWrite(j) \in {Nothing, Raised, Appends([kind |-> "run_started"])}
      \/ (j.op = "finalize_run"
          /\ ProtocolWrite(j) \in
               {Nothing, Raised, Appends([kind |-> "run_finalized", status |-> j.status])})
  BY DEF Operation, ProtocolWrite, LogStart, LogFinalize
<1>7. LogFact(log) \in {Raised, Appends([kind |-> "fact"])}
  BY DEF LogFact
<1> QED
  BY <1>2, <1>3, <1>4, <1>5, <1>6, <1>7

\* A file without a torn frame is not corrupt.
LEMMA WholeIsReadable ==
  ASSUME TornAt(log) = {}
  PROVE  ~Corrupt(log)
BY DEF Corrupt

\* Even and odd numbers.
LEMMA Parity ==
  ASSUME NEW n \in Nat
  PROVE  /\ n % 2 = 0 => (n + 1) % 2 = 1
         /\ n % 2 = 1 => (n + 1) % 2 = 0
OBVIOUS

\* A log has a number of invocations.
LEMMA InvocationsCount ==
  ASSUME NEW ev \in Seq(Frame)
  PROVE  /\ IsFiniteSet(Kinds(ev, "tool_call") \cup Kinds(ev, "operation_result"))
         /\ Invocations(ev) \in Nat
<1> DEFINE K == Kinds(ev, "tool_call") \cup Kinds(ev, "operation_result")
<1>1. Len(ev) \in Int /\ K \in SUBSET (1..Len(ev))
  BY DEF Kinds
<1>2. IsFiniteSet(1..Len(ev))
  BY <1>1, FS_Interval
<1>3. IsFiniteSet(K)
  BY <1>1, <1>2, FS_Subset, Zenon
<1> QED
  BY <1>3, FS_CardinalityType DEF Invocations

\* A call and a result are one invocation each.
LEMMA OneMoreInvocation ==
  ASSUME NEW ev \in Seq(Frame), NEW f \in Frame,
         f.kind \in {"tool_call", "operation_result"}
  PROVE  Invocations(Append(ev, f)) = Invocations(ev) + 1
<1> DEFINE e2 == Append(ev, f)
           K(e) == Kinds(e, "tool_call") \cup Kinds(e, "operation_result")
           n == Len(ev)
<1>1. n \in Nat /\ K(ev) \in SUBSET (1..n) /\ n + 1 \notin K(ev)
  BY DEF Kinds
<1>2. IsFiniteSet(K(ev))
  BY InvocationsCount
<1>3. K(e2) = K(ev) \cup {n + 1}
  <2>1. /\ \A kind : Kinds(ev, kind) \subseteq Kinds(e2, kind)
        /\ \A kind : \A i \in Kinds(e2, kind) :
              i \in Kinds(ev, kind) \/ (i = n + 1 /\ f.kind = kind)
        /\ n + 1 \in Kinds(e2, f.kind)
    BY GrowFacts
  <2> QED
    BY <2>1
<1> HIDE DEF K, e2, n
<1>4. Cardinality(K(e2)) = Cardinality(K(ev)) + 1
  BY <1>1, <1>2, <1>3, FS_AddElement
<1> QED
  BY <1>4 DEF Invocations, K, e2

\* A step after which nothing has failed yet is not a failure, and nothing had
\* failed before it.
LEMMA NothingFailed ==
  ASSUME TypeOK, Next, counts'.crashes + counts'.faults = 0
  PROVE  /\ counts.crashes + counts.faults = 0
         /\ ~Crash /\ ~CrashInWrite /\ ~RecoverRowFails /\ ~RecoverLogFails /\ ~WriteRowFails
         /\ ~WriteLogFails /\ ~WriteIntentsFails /\ ~MaterializeFails /\ ~InfrastructureFails
<1>0. /\ counts \in [runs: Nat, crashes: Nat, tears: Nat, faults: Nat]
      /\ counts.crashes \in Nat /\ counts.faults \in Nat
  BY DEF TypeOK
<1>1. ~Fail("crashes") /\ ~Fail("faults")
  <2>1. ASSUME Fail("crashes") PROVE FALSE
    BY <1>0, <2>1, FailTyped
  <2>2. ASSUME Fail("faults") PROVE FALSE
    BY <1>0, <2>2, FailTyped
  <2> QED
    BY <2>1, <2>2
<1>2. ~CrashInWrite
  <2>1. ASSUME CrashInWrite PROVE FALSE
    <3>1. counts' = [counts EXCEPT !.crashes = @ + 1, !.tears = @ + 1]
      BY <2>1 DEF CrashInWrite
    <3>2. counts'.crashes = counts.crashes + 1 /\ counts'.faults = counts.faults
      BY <1>0, <3>1
    <3> QED
      BY <1>0, <3>2
  <2> QED
    BY <2>1
<1>3. /\ ~Crash /\ ~RecoverRowFails /\ ~RecoverLogFails /\ ~WriteRowFails /\ ~WriteLogFails
      /\ ~WriteIntentsFails /\ ~MaterializeFails /\ ~InfrastructureFails
  BY <1>1 DEF Crash, RecoverRowFails, RecoverLogFails, WriteRowFails, WriteLogFails,
              WriteIntentsFails, MaterializeFails, InfrastructureFails
<1>4. counts.crashes + counts.faults = 0
  <2>1. CASE StartRun
    <3>1. counts'.crashes = counts.crashes /\ counts'.faults = counts.faults
      BY <1>0, <2>1, FailTyped DEF StartRun
    <3> QED
      BY <3>1
  <2>2. CASE ~StartRun
    <3>1. counts' = counts
      BY <1>2, <1>3, <2>2
         DEF Next, Boot, LoadIntents, RecoverRow, RecoverLog, RewriteIntents, FinalizeRun,
             RecordIntent, WriteRow, AckRow, WriteLog, AckLog, ClearIntent, NoteError,
             WriteIntents, WriteTurnReceipt, Work, WorkRaises, Materialize, RowsDone, CallRow, ReserveResult,
             AppendResult, AppendReceipt, RecordFacts
    <3> QED
      BY <3>1
  <2> QED
    BY <2>1, <2>2
<1> QED
  BY <1>2, <1>3, <1>4

\* A quiet step outside of an invocation.
LEMMA UndisturbedQuiet ==
  ASSUME LogInv, Undisturbed, counts.crashes + counts.faults = 0,
         QuietFile(log'), TornAt(log') = {},
         pc \notin {"result", "commit"}, pc' \notin {"result", "commit"}
  PROVE  Undisturbed'
<1>1. Events' = Replay(log') /\ Events \in Seq(Frame) /\ Replay(log') \in Seq(Frame)
  BY DEF Events, LogInv, LogOK, QuietFile
<1>2. OpenCalls(Events') = OpenCalls(Events) /\ Invocations(Events') = Invocations(Events)
  BY <1>1, QuietFacts DEF QuietFile
<1> QED
  BY <1>2 DEF Undisturbed

\* With an even limit on invocations no call is left open before something
\* fails: a call and its result are counted alike, so the limit never falls
\* between them.
LEMMA UndisturbedStep ==
  ASSUME TypeOK, LogInv, MatInv, IntentInv, Undisturbed, Next, MaxInvocations % 2 = 0
  PROVE  Undisturbed'
<1> SUFFICES ASSUME counts'.crashes + counts'.faults = 0
             PROVE  Undisturbed'
  BY DEF Undisturbed
<1>a. /\ counts.crashes + counts.faults = 0
      /\ ~Crash /\ ~CrashInWrite /\ ~RecoverRowFails /\ ~RecoverLogFails /\ ~WriteRowFails
      /\ ~WriteLogFails /\ ~WriteIntentsFails /\ ~MaterializeFails /\ ~InfrastructureFails
  BY NothingFailed
<1>b. /\ log \in Seq(Frame) /\ LogOK(Events) /\ Events \in Seq(Frame) /\ TornAt(log) = {}
      /\ ~Corrupt(log) /\ MaxInvocations \in Nat
  BY <1>a, WholeIsReadable, LogBounds DEF LogInv, TypeOK, LogOK, Undisturbed
<1>c. QuietFile(log)
  BY <1>b, QuietSame
<1>1. CASE \/ Boot \/ LoadIntents \/ RecoverRow \/ RewriteIntents \/ StartRun \/ FinalizeRun
           \/ RecordIntent \/ WriteRow \/ AckRow \/ AckLog \/ ClearIntent \/ NoteError \/ WriteTurnReceipt \/ Work
           \/ WorkRaises \/ Materialize \/ RowsDone \/ AppendReceipt
  <2>1. log' = log /\ pc \notin {"result", "commit"} /\ pc' \notin {"result", "commit"}
    BY <1>1 DEF Boot, LoadIntents, RecoverRow, RewriteIntents, StartRun, FinalizeRun,
                RecordIntent, WriteRow, AckRow, AckLog, ClearIntent, NoteError, WriteIntents,
                AfterJob, WriteTurnReceipt, Work, WorkRaises, Materialize, RowsDone, AppendReceipt, disk
  <2> QED
    BY <1>a, <1>b, <1>c, <2>1, UndisturbedQuiet
<1>2. CASE RecoverLog
  <2>1. pc = "recoverLog" /\ pc' \notin {"result", "commit"}
    BY <1>2 DEF RecoverLog, Recovered
  <2>2. Head(todo).op \in Operation /\ (Head(todo).op = "finalize_run" => Head(todo).status \in Outcome)
    BY <2>1, HeadTodo
  <2>3. log' = log \/ log' = log \o ProtocolWrite(Head(todo)).frames
    BY <1>2 DEF RecoverLog
  <2>4. QuietFile(log')
    BY <1>b, <1>c, <2>2, <2>3, QuietProtocolWrite
  <2>5. TornAt(log') = {}
    BY <1>b, <2>2, <2>3, WholeWrites
  <2> QED
    BY <1>a, <2>1, <2>4, <2>5, UndisturbedQuiet
<1>3. CASE WriteLog
  <2>1. pc = "protocol" /\ pc' \notin {"result", "commit"} /\ log' = log \o ProtocolWrite(job).frames
    BY <1>3 DEF WriteLog
  <2>2. job.op \in Operation /\ (job.op = "finalize_run" => job.status \in Outcome)
    BY <2>1 DEF IntentInv, Job, TypeOK, DualWrite
  <2>3. QuietFile(log')
    BY <1>b, <2>1, <2>2, QuietProtocolWrite
  <2>4. TornAt(log') = {}
    BY <1>b, <2>1, <2>2, WholeWrites
  <2> QED
    BY <1>a, <2>1, <2>3, <2>4, UndisturbedQuiet
<1>4. CASE RecordFacts
  <2>1. /\ pc = "facts" /\ pc' = "finalize"
        /\ log' = log \/ log' = log \o LogFact(log).frames
    BY <1>4 DEF RecordFacts
  <2>2. QuietFile(log')
    BY <1>b, <1>c, <2>1, QuietFact
  <2>3. TornAt(log \o LogFact(log).frames) = {}
    <3>1. NoJob.op = "start_run" /\ NoJob.op \in Operation
      BY DEF NoJob, Operation
    <3> QED
      BY <1>b, <3>1, WholeWrites
  <2> QED
    BY <1>a, <1>b, <2>1, <2>2, <2>3, UndisturbedQuiet
<1>5. CASE CallRow
  <2> DEFINE f == [kind |-> "tool_call", op |-> RowOp]
             ev == Events
  <2>0. /\ pc = "row" /\ MoreRows /\ RowOp \notin DOMAIN mat.ranges
        /\ winners' = winners
        /\ OpenCalls(ev) = {} /\ Invocations(ev) % 2 = 0 /\ Invocations(ev) <= MaxInvocations
    BY <1>5, <1>a DEF CallRow, Undisturbed
  <2>1. CASE CallRefused(log)
    <3>1. log' = log /\ pc' = "facts"
      BY <1>5, <2>1 DEF CallRow
    <3> QED
      BY <1>a, <1>b, <1>c, <2>0, <3>1, UndisturbedQuiet
  <2>2. CASE ~CallRefused(log)
    <3>1. RowOp \notin DOMAIN winners
      BY <2>0 DEF MatInv, LogInv, Accounted
    <3>2. /\ log' = Append(log, f) /\ pc' = "result"
          /\ mat' = [mat EXCEPT !.call = Len(ev) + 1]
      BY <1>5, <2>2, <3>1 DEF CallRow
    <3>3. mat'.call = Len(ev) + 1 /\ RowOp' = RowOp
      BY <1>5, <3>2 DEF CallRow, RowOp, TypeOK, NoMat
    <3>4. f \in Frame /\ f.kind = "tool_call"
      BY <2>0, ItemIsOperation, FramesWritten
    <3>5. Events' = Append(ev, f) /\ TornAt(log') = {}
      BY <1>b, <3>2, <3>4, ReplayAppend DEF Events
    <3>6. /\ Invocations(ev) \in Nat
          /\ Invocations(Append(ev, f)) = Invocations(ev) + 1
      BY <1>b, <3>4, InvocationsCount, OneMoreInvocation
    <3>7. Invocations(ev) < MaxInvocations
      BY <1>b, <2>2, <3>6 DEF CallRefused, Events
    <3>8. OpenCalls(Append(ev, f)) = {Len(ev) + 1}
      <4> HIDE DEF ev, f
      <4>1. ev \in Seq(Frame) /\ Len(ev) \in Nat
        BY <1>b DEF ev
      <4>2. /\ \A i \in Kinds(Append(ev, f), "tool_call") :
                  i \in Kinds(ev, "tool_call") \/ i = Len(ev) + 1
            /\ Len(ev) + 1 \in Kinds(Append(ev, f), "tool_call")
            /\ Kinds(Append(ev, f), "operation_result") = Kinds(ev, "operation_result")
            /\ \A i \in Kinds(ev, "operation_result") : Append(ev, f)[i] = ev[i]
        <5>1. /\ \A kind : Kinds(ev, kind) \subseteq Kinds(Append(ev, f), kind)
              /\ \A kind : \A i \in Kinds(ev, kind) : Append(ev, f)[i] = ev[i]
              /\ \A kind : \A i \in Kinds(Append(ev, f), kind) :
                    i \in Kinds(ev, kind) \/ (i = Len(ev) + 1 /\ f.kind = kind)
              /\ Len(ev) + 1 \in Kinds(Append(ev, f), f.kind)
          BY <3>4, <4>1, GrowFacts, Zenon
        <5>2. /\ \A i \in Kinds(Append(ev, f), "operation_result") : i \in Kinds(ev, "operation_result")
              /\ \A i \in Kinds(ev, "operation_result") : i \in Kinds(Append(ev, f), "operation_result")
          BY <3>4, <5>1
        <5> QED
          BY <3>4, <5>1, <5>2
      <4>3. \A i \in Kinds(ev, "operation_result") : ev[i].call # Len(ev) + 1
        BY <1>b, <4>1 DEF ev, LogOK, Kinds
      <4>4. \A i \in Kinds(ev, "tool_call") : \E j \in Kinds(ev, "operation_result") : ev[j].call = i
        BY <2>0 DEF OpenCalls
      <4>5. \A i \in Kinds(ev, "tool_call") : i \notin OpenCalls(Append(ev, f))
        BY <4>2, <4>4 DEF OpenCalls
      <4>6. Len(ev) + 1 \in OpenCalls(Append(ev, f))
        BY <4>2, <4>3 DEF OpenCalls
      <4>7. OpenCalls(Append(ev, f)) \subseteq Kinds(Append(ev, f), "tool_call")
        BY DEF OpenCalls
      <4> QED
        BY <4>2, <4>5, <4>6, <4>7
    <3>9. (Invocations(ev) + 1) % 2 = 1 /\ Invocations(ev) + 1 <= MaxInvocations
      BY <1>b, <2>0, <3>6, <3>7, Parity
    <3> QED
      BY <2>0, <3>1, <3>2, <3>3, <3>5, <3>6, <3>8, <3>9 DEF Undisturbed
  <2> QED
    BY <2>1, <2>2
<1>6. CASE ReserveResult
  <2>0. /\ pc = "result" /\ log' = log /\ mat' = mat
        /\ OpenCalls(Events) = {mat.call} /\ Invocations(Events) % 2 = 1
        /\ Invocations(Events) <= MaxInvocations /\ RowOp \notin DOMAIN winners
    BY <1>6, <1>a DEF ReserveResult, Undisturbed, locals
  <2>1. Invocations(Events) # MaxInvocations
    BY <2>0
  <2>2. Invocations(Events) \in Nat
    BY <1>b, InvocationsCount, Zenon
  <2>3. ~ResultRefused(log, RowOp, mat.call, DOMAIN winners)
    BY <1>b, <2>0, <2>1, <2>2 DEF ResultRefused, Events
  <2>4. pc' = "commit" /\ Events' = Events
    BY <1>6, <2>0, <2>3 DEF ReserveResult, Events
  <2> QED
    BY <1>b, <2>0, <2>4 DEF Undisturbed
<1>7. CASE AppendResult
  <2> DEFINE f == [kind |-> "operation_result", op |-> RowOp, call |-> mat.call]
             ev == Events
  <2>0. /\ pc = "commit" /\ pc' = "row" /\ log' = Append(log, f)
        /\ OpenCalls(ev) = {mat.call} /\ Invocations(ev) % 2 = 1
        /\ Invocations(ev) <= MaxInvocations
    BY <1>7, <1>a DEF AppendResult, Undisturbed
  <2>1. f \in Frame /\ f.kind = "operation_result" /\ f.call = mat.call
    BY <2>0, ItemIsOperation, FramesWritten DEF MatInv, TypeOK
  <2>2. Events' = Append(ev, f) /\ TornAt(log') = {}
    BY <1>b, <2>0, <2>1, ReplayAppend DEF Events
  <2>3. Invocations(ev) \in Nat /\ Invocations(Append(ev, f)) = Invocations(ev) + 1
    BY <1>b, <2>1, InvocationsCount, OneMoreInvocation
  <2>4. Invocations(ev) + 1 <= MaxInvocations /\ (Invocations(ev) + 1) % 2 = 0
    <3>1. Invocations(ev) # MaxInvocations
      BY <2>0
    <3>2. (Invocations(ev) + 1) % 2 = 0
      BY <2>0, <2>3, Parity
    <3>3. Invocations(ev) <= MaxInvocations /\ Invocations(ev) \in Nat
      BY <2>0, <2>3
    <3> HIDE DEF ev, f
    <3> QED
      BY <3>1, <3>2, <3>3, LogBounds
  <2>5. OpenCalls(Append(ev, f)) = {}
    <3> HIDE DEF ev, f
    <3>1. ev \in Seq(Frame) /\ Len(ev) \in Nat
      BY <1>b DEF ev
    <3>2. /\ \A i \in Kinds(Append(ev, f), "tool_call") : i \in Kinds(ev, "tool_call")
          /\ \A i \in Kinds(ev, "operation_result") :
                i \in Kinds(Append(ev, f), "operation_result") /\ Append(ev, f)[i] = ev[i]
          /\ Len(ev) + 1 \in Kinds(Append(ev, f), "operation_result")
          /\ Append(ev, f)[Len(ev) + 1] = f
      <4>1. /\ \A kind : Kinds(ev, kind) \subseteq Kinds(Append(ev, f), kind)
            /\ \A kind : \A i \in Kinds(ev, kind) : Append(ev, f)[i] = ev[i]
            /\ \A kind : \A i \in Kinds(Append(ev, f), kind) :
                  i \in Kinds(ev, kind) \/ (i = Len(ev) + 1 /\ f.kind = kind)
            /\ Len(ev) + 1 \in Kinds(Append(ev, f), f.kind)
            /\ Append(ev, f)[Len(ev) + 1] = f
        BY <2>1, <3>1, GrowFacts, Zenon
      <4> QED
        BY <2>1, <4>1
    <3>3. \A i \in Kinds(ev, "tool_call") :
             i = mat.call \/ \E j \in Kinds(ev, "operation_result") : ev[j].call = i
      BY <2>0 DEF OpenCalls
    <3> QED
      BY <2>1, <3>2, <3>3 DEF OpenCalls
  <2> QED
    BY <2>0, <2>2, <2>3, <2>4, <2>5 DEF Undisturbed
<1> QED
  BY <1>a, <1>1, <1>2, <1>3, <1>4, <1>5, <1>6, <1>7 DEF Next

-----------------------------------------------------------------------------
(* The theorems.                                                               *)

Inv == TypeOK /\ LogInv /\ MatInv /\ IntentInv /\ OutcomeInv

\* A new session has an empty log, no run and nothing to recover.
LEMMA InitInv == Init => Inv /\ Undisturbed
<1> SUFFICES ASSUME Init
             PROVE  Inv /\ Undisturbed
  OBVIOUS
<1>1. TornAt(log) = {} /\ Events = <<>>
  <2>1. TornAt(log) = {}
    BY DEF Init, TornAt
  <2> QED
    BY <2>1 DEF Init, Events, Replay
<1>2. \A kind : Kinds(Events, kind) = {}
  BY <1>1 DEF Kinds
<1>3. OpenCalls(Events) = {} /\ Invocations(Events) = 0
  BY <1>2, FS_EmptySet DEF OpenCalls, Invocations
<1>4. TypeOK
  <2>1. /\ log \in Seq(Frame) /\ receipts \in Seq(Receipt) /\ intents \in Seq(Intent)
        /\ todo \in Seq(Intent) /\ unresolved \in Seq(Intent)
    BY DEF Init
  <2>2. receiptsTorn \in BOOLEAN /\ intentsTorn \in BOOLEAN /\ lost \in BOOLEAN
    BY Zenon DEF Init
  <2>3. row \in Status /\ source \in Seq(SourceRow) /\ outcome \in Outcome /\ pc \in PC
    BY FailedIsAnOutcome DEF Init, Status, PC
  <2>4. DOMAIN winners = {} /\ DOMAIN mat.ranges = {}
    BY DEF Init, NoMat
  <2>5. DOMAIN mat = DOMAIN NoMat /\ mat.item \in Nat \ {0} /\ mat.call \in Nat
    BY DEF Init, NoMat
  <2>6. counts \in [runs: Nat, crashes: Nat, tears: Nat, faults: Nat]
    BY DEF Init
  <2>7. job \in Job
    BY DEF Init, Status, NoJob, Job, Operation
  <2> QED
    BY <2>1, <2>2, <2>3, <2>4, <2>5, <2>6, <2>7 DEF TypeOK
<1>5. LogInv
  <2>1. LogOK(Events)
    BY <1>1, <1>2 DEF LogOK
  <2>2. DOMAIN winners = {} /\ DOMAIN receipts = {}
    BY DEF Init
  <2> QED
    BY <2>1, <2>2 DEF LogInv
<1>6. MatInv
  BY DEF Init, MatInv
<1>7. IntentInv
  <2>1. pc = "boot" /\ intents = <<>>
    BY DEF Init
  <2> QED
    BY <2>1, RowsEmpty DEF IntentInv, DualWrite
<1>8. OutcomeInv
  <2>1. pc = "boot" /\ row = "none" /\ DOMAIN intents = {}
    BY DEF Init
  <2>2. Honest(intents) /\ row \notin Outcome
    BY <2>1, OutcomesAreFinal DEF Honest
  <2> QED
    BY <2>1, <2>2 DEF OutcomeInv, Sound
<1>9. Undisturbed
  BY <1>1, <1>3, LogBounds DEF Init, Undisturbed
<1> QED
  BY <1>4, <1>5, <1>6, <1>7, <1>8, <1>9 DEF Inv

\* Every step keeps the invariant.
LEMMA NextInv == Inv /\ [Next]_vars => Inv'
<1> SUFFICES ASSUME Inv, [Next]_vars
             PROVE  Inv'
  OBVIOUS
<1> USE DEF Inv
<1>1. CASE Next
  <2>0. LogOK(Events)
    BY DEF LogInv
  <2>1. TypeOK'
    BY <1>1, <2>0, TypeStepUp, TypeStepDown
  <2>2. LogInv' /\ MatInv'
    BY <1>1, LogStep
  <2>3. IntentInv'
    BY <1>1, <2>1, IntentStep
  <2>4. OutcomeInv'
    BY <1>1, OutcomeStep
  <2> QED
    BY <2>1, <2>2, <2>3, <2>4
<1>2. CASE UNCHANGED vars
  <2>1. TypeOK'
    BY <1>2 DEF TypeOK, vars, disk, locals
  <2>2. LogInv' /\ MatInv'
    BY <1>2 DEF LogInv, MatInv, RowOp, MoreRows, Events, vars, disk, locals
  <2>3. IntentInv'
    BY <1>2 DEF IntentInv, vars, disk, locals
  <2>4. OutcomeInv'
    BY <1>2 DEF OutcomeInv, Sound, Honest, Carried, Events, vars, disk, locals
  <2> QED
    BY <2>1, <2>2, <2>3, <2>4
<1> QED
  BY <1>1, <1>2

\* The ledger keeps the types of its files and of the process's locals.
THEOREM LedgerTypeCorrect == Spec => []TypeOK
<1>1. Inv => TypeOK
  BY DEF Inv
<1> QED
  BY InitInv, NextInv, <1>1, PTL DEF Spec

\* start_run, finalize_run and append_event (async_protocol_run_ledger.py) put
\* everything into the log once, however often they are retried, recovered or
\* run again.
THEOREM LogSaysOnce == Spec => []OnceInLog
<1>1. Inv => OnceInLog
  BY DEF Inv, LogInv, LogOK, OnceInLog
<1> QED
  BY InitInv, NextInv, <1>1, PTL DEF Spec

\* The ordering contract of the log (_validate_ordering_contract) holds in
\* every log that a replay reads, whatever was cut off.
THEOREM CallsArePaired == Spec => []CallsPaired
<1>1. Inv => CallsPaired
  BY DEF Inv, LogInv, LogOK, CallsPaired
<1> QED
  BY InitInv, NextInv, <1>1, PTL DEF Spec

\* The log has one call of an operation, and one result.
LEMMA OneCall ==
  ASSUME NEW ev, LogOK(ev), NEW i \in Kinds(ev, "tool_call"), NEW j \in Kinds(ev, "tool_call"),
         ev[i].op = ev[j].op
  PROVE  i = j
<1>1. ev[i] \in Frame /\ ev[j] \in Frame /\ i \in 1..Len(ev) /\ j \in 1..Len(ev)
  BY DEF LogOK, Kinds
<1>2. ev[i].kind = "tool_call" /\ ev[j].kind = "tool_call"
  BY DEF Kinds
<1>3. ev[i] = ev[j]
  BY <1>1, <1>2, CallFrame
<1> QED
  BY <1>1, <1>2, <1>3 DEF LogOK

LEMMA OneResult ==
  ASSUME NEW ev, LogOK(ev), NEW i \in Kinds(ev, "operation_result"),
         NEW j \in Kinds(ev, "operation_result"), ev[i].op = ev[j].op
  PROVE  i = j
<1>1. ev[i] \in Frame /\ ev[j] \in Frame /\ i \in 1..Len(ev) /\ j \in 1..Len(ev)
  BY DEF LogOK, Kinds
<1>2. ev[i].kind = "operation_result" /\ ev[j].kind = "operation_result"
  BY DEF Kinds
<1>3. ev[i].call = ev[j].call
  BY OneCall DEF LogOK
<1>4. ev[i] = ev[j]
  BY <1>1, <1>2, <1>3 DEF Frame
<1> QED
  BY <1>1, <1>2, <1>4 DEF LogOK

\* materialize_protocol_receipts links every receipt to the call and the result
\* of its own operation and never uses a receipt number twice, also when a
\* second run replays operations and shifts the rows of the turns.
THEOREM ReceiptsAreBacked == Spec => []ReceiptsBacked
<1>1. ASSUME Inv PROVE ReceiptsBacked
  <2>1. Events \in Seq(Frame)
    BY <1>1 DEF Inv, LogInv, LogOK
  <2>2. ASSUME NEW k \in DOMAIN receipts
        PROVE  /\ Events[receipts[k].range[1]] = [kind |-> "tool_call", op |-> receipts[k].op]
               /\ Events[receipts[k].range[2]].kind = "operation_result"
               /\ Events[receipts[k].range[2]].op = receipts[k].op
    <3>1. Backed(Events, receipts[k].op, receipts[k].range)
      BY <1>1 DEF Inv, LogInv
    <3> DEFINE f == Events[receipts[k].range[1]]
    <3>2. f \in Frame /\ f.kind = "tool_call" /\ f.op = receipts[k].op
      BY <2>1, <3>1 DEF Backed, Kinds
    <3>3. f = [kind |-> "tool_call", op |-> f.op]
      BY <3>2, CallFrame
    <3> QED
      BY <3>1, <3>2, <3>3 DEF Backed, Kinds
  <2>3. \A j, k \in DOMAIN receipts : j < k => receipts[j].seq < receipts[k].seq
    BY <1>1 DEF Inv, LogInv
  <2>4. ASSUME NEW j \in DOMAIN receipts, NEW k \in DOMAIN receipts,
               receipts[j].op = receipts[k].op
        PROVE  receipts[j].range = receipts[k].range
    <3> DEFINE q == receipts[j].range
               r == receipts[k].range
               o == receipts[k].op
    <3>1. q \in Nat \X Nat /\ r \in Nat \X Nat
      <4>1. receipts[j] \in Receipt /\ receipts[k] \in Receipt
        BY <1>1 DEF Inv, TypeOK
      <4> QED
        BY <4>1 DEF Receipt
    <3>2. Backed(Events, o, q) /\ Backed(Events, o, r)
      BY <1>1, <2>4 DEF Inv, LogInv
    <3> HIDE DEF q, r, o
    <3>3. q[1] = r[1]
      BY <1>1, <3>2, OneCall DEF Inv, LogInv, Backed
    <3>4. q[2] = r[2]
      BY <1>1, <3>2, OneResult DEF Inv, LogInv, Backed
    <3>5. q = r
      BY <3>1, <3>3, <3>4
    <3> QED
      BY <3>5 DEF q, r
  <2> QED
    BY <2>2, <2>3, <2>4 DEF ReceiptsBacked
<1> QED
  BY InitInv, NextInv, <1>1, PTL DEF Spec

\* The commit registry, which OperationCommitRegistry.commit writes before the
\* event, is at most one append ahead of the log.
THEOREM WinnersAreAccounted == Spec => []WinnersAccounted
<1>1. Inv => WinnersAccounted
  BY DEF Inv, LogInv, Accounted, Kinds, WinnersAccounted
<1> QED
  BY InitInv, NextInv, <1>1, PTL DEF Spec

\* Between runs, with no intent pending, the outcome that SQLite reports is in
\* the event log (async_dual_write_run_ledger.py), unless a cut-off write
\* emptied the intent file or tore the log.
THEOREM OutcomesReachTheLog == Spec => []OutcomeLogged
<1>1. Inv => OutcomeLogged
  BY DEF Inv, OutcomeInv, Sound, Carried, OutcomeLogged
<1> QED
  BY InitInv, NextInv, <1>1, PTL DEF Spec

\* _recover_intent never turns a finished run back into a running one.
THEOREM RecoveryKeepsOutcomes == Spec => RecoveryNeverReopens
<1>1. ASSUME Inv, [Next]_vars, pc \in {"recover", "recoverLog"}, row \in Outcome
      PROVE  row' \in Outcome
  <2>1. CASE RecoverRow
    <3>1. Head(todo).op \in Operation
          /\ (Head(todo).op = "finalize_run" => Head(todo).status \in Outcome)
      BY <1>1, HeadTodo DEF Inv
    <3>2. row # "none"
      BY <1>1, OutcomesAreFinal
    <3> QED
      BY <1>1, <2>1, <3>1, <3>2 DEF RecoverRow, Acknowledged, RowAfter, Operation
  <2>2. CASE ~RecoverRow
    <3>1. row' = row
      BY <1>1, <2>2
         DEF Next, vars, disk, Boot, LoadIntents, RecoverRowFails, RecoverLog, RecoverLogFails,
             RewriteIntents, StartRun, FinalizeRun, RecordIntent, WriteRow, WriteRowFails,
             AckRow, WriteLog, WriteLogFails, AckLog, ClearIntent, NoteError, WriteIntents,
             WriteIntentsFails, WriteTurnReceipt, Work, WorkRaises, Materialize, RowsDone, CallRow,
             ReserveResult, AppendResult, AppendReceipt, MaterializeFails, RecordFacts,
             InfrastructureFails, Crash, CrashInWrite, TearLog, TearIntents, TearRegistry,
             TearReceipts
    <3> QED
      BY <1>1, <3>1
  <2> QED
    BY <2>1, <2>2
<1> QED
  BY InitInv, NextInv, <1>1, PTL DEF Spec, RecoveryNeverReopens

\* With an even limit on invocations (the default is 200), the limit never
\* falls between a call and its result: only a crash or an error leaves a call
\* open between runs.
THEOREM CallsAreOrphanedOnlyByFailure ==
  ASSUME MaxInvocations % 2 = 0
  PROVE  Spec => []OrphanNeedsFailure
<1>1. ASSUME Inv, Undisturbed, [Next]_vars
      PROVE  Undisturbed'
  <2>1. CASE Next
    BY <1>1, <2>1, UndisturbedStep DEF Inv
  <2>2. CASE UNCHANGED vars
    BY <1>1, <2>2 DEF Undisturbed, RowOp, Events, vars, disk, locals
  <2> QED
    BY <1>1, <2>1, <2>2
<1>2. ASSUME Inv, Undisturbed
      PROVE  OrphanNeedsFailure
  <2>1. counts.crashes \in Nat /\ counts.faults \in Nat
    BY <1>2 DEF Inv, TypeOK
  <2> QED
    BY <1>2, <2>1 DEF Undisturbed, OrphanNeedsFailure
<1> QED
  BY InitInv, NextInv, <1>1, <1>2, PTL DEF Spec

================================================================================
