----------------------- MODULE InteractionManagerProofs -----------------------
(***************************************************************************)
(* Interaction turns, for any number of turns, clients and connections,    *)
(* every limit of the bus and every bound: a turn has one terminal event   *)
(* and one commit, a failed one is committed fail_closed, and what a       *)
(* websocket receives of an undisturbed turn obeys the stream law.         *)
(***************************************************************************)
EXTENDS InteractionManager, TLAPS, FiniteSetTheorems

-----------------------------------------------------------------------------
(* The inductive invariant, in named parts.                                    *)

\* Where a task is, or will be once the put it waits for has room.
Place(x) == IF x.pc = "put" THEN x.then ELSE x.pc

Started(t) == turn[t].kind # "none"

\* Tasks at work on the commit of turn t.
Commits(p, t) == t \in task[p].turn /\ Place(task[p]) \in {"startCommit", "commit", "trace"}

\* A waiting put has one event of the task's turn, for a connection that there
\* is or was.
PutOK(x) ==
    x.pc = "put" =>
        /\ x.then # "put"
        /\ x.to \in 1..conn
        /\ \E e \in Event: x.event = {e} /\ x.turn = {e.turn} /\ history.since[e.turn] <= x.to

\* Where the task of a turn and a client can be, and which turn they work on.
TaskOK(p) ==
    /\ PutOK(task[p])
    /\ p \in Turn =>
          /\ ~Started(p) => task[p] = IdleTask
          /\ Started(p) => task[p].turn = {p} /\ task[p].error \in {"failed", "done"}
                           /\ Place(task[p]) # "idle"
    /\ p \in Client =>
          /\ Place(task[p]) \in {"idle", "startCommit", "commit", "trace"}
          /\ task[p].error = "idle"
          /\ task[p].turn = {} => Place(task[p]) = "idle"
          /\ \A t \in task[p].turn: Started(t) /\ task[p].turn = {t}

\* Turns begin one after the other, and nothing is known of one that has not
\* begun.
TurnsBegun ==
    /\ \E n \in 0..MaxTurns: \A t \in Turn: Started(t) <=> t <= n
    /\ \A t \in session: Started(t)
    /\ \A t \in Turn: ~Started(t) =>
          /\ turn[t] = NewTurn /\ commits[t] = <<>> /\ bus[t] = {}
          /\ t \notin history.failed /\ t \notin history.disturbed
          /\ history.terminals[t] = <<>> /\ history.since[t] = 0
          /\ \A c \in Connection:
                law[c][t] = NoEvents /\ \A i \in DOMAIN queue[c]: queue[c][i].turn # t

Shape ==
    /\ TypeOK
    /\ on => conn # 0
    /\ \A t \in Turn: history.since[t] <= conn
    /\ \A p \in Task: TaskOK(p)
    /\ TurnsBegun

\* The first finalizer of a turn, and only it, commits the turn.
CommitInv(t) ==
    /\ \A p, q \in Task: Commits(p, t) /\ Commits(q, t) => p = q
    /\ ~turn[t].commitStarted => commits[t] = <<>> /\ \A p \in Task: ~Commits(p, t)
    /\ turn[t].commitStarted => turn[t].terminal # "none"
    /\ \A p \in Task: Commits(p, t) =>
          IF Place(task[p]) = "trace" THEN Len(commits[t]) = 1 ELSE commits[t] = <<>>
    /\ Len(commits[t]) <= 1
    /\ Started(t) /\ t \notin session => Len(commits[t]) = 1

\* The terminal event is published by whoever decides the turn's record.
TerminalInv(t) ==
    turn[t].kind = "builtin" =>
        /\ turn[t].terminal = "none" => history.terminals[t] = <<>>
        /\ history.terminals[t] \in {<<>>, <<turn[t].terminal>>}

\* A turn that fails asks for a fail-closed commit on every way to its commit.
FailInv(t) ==
    t \notin history.disturbed =>
        /\ \A p \in Task: Commits(p, t) => p = t
        /\ Place(task[t]) \in {"run", "requested", "manifest"} =>
              ~turn[t].commitStarted /\ t \notin history.failed
        /\ t \in history.failed =>
              /\ commits[t] \in {<<>>, <<"fail_closed">>}
              /\ Place(task[t]) \in {"cancelFirst", "finalize", "startCommit"} =>
                    "fail_closed" \in intents[t]
              /\ Place(task[t]) = "commit" => "fail_closed" \in task[t].intents

\* Event e of turn t obeys the law behind law state l and the first n of the
\* events s.
Fits(l, s, n, e, t) ==
    /\ e.seq > l.last
    /\ \A i \in 1..n: s[i].turn = t => s[i].seq < e.seq
    /\ \A k \in (l.last + 1)..(e.seq - 1):
          k \in e.dropped \/ \E i \in 1..n: s[i].turn = t /\ k <= s[i].seq
    /\ e.type # "commit_final" =>
          ~l.terminal /\ \A i \in 1..n: s[i].turn = t => s[i].type \notin Terminal
    /\ e.type = "commit_final" =>
          /\ ~l.commit /\ \A i \in 1..n: s[i].turn = t => s[i].type # "commit_final"
          /\ l.terminal \/ \E i \in 1..n: s[i].turn = t /\ s[i].type \in Terminal

\* Task p waits to put an event of turn t.
Waits(p, t) == task[p].pc = "put" /\ \E e \in task[p].event: e.turn = t

\* The events of t that publishers wait to put.
Blocked(t) == {e \in UNION {task[q].event: q \in {p \in Task: task[p].pc = "put"}}: e.turn = t}

\* Bus state b is where law state l will be behind the events s and the
\* blocked ones B.
Reaches(l, s, B, t, b) ==
    /\ l.last < b.nextSeq
    /\ \A i \in DOMAIN s: s[i].turn = t => s[i].seq < b.nextSeq
    /\ \A e \in B: e.seq < b.nextSeq
    /\ \A k \in (l.last + 1)..(b.nextSeq - 1):
          \/ k \in b.dropped
          \/ \E i \in DOMAIN s: s[i].turn = t /\ k <= s[i].seq
          \/ \E e \in B: k <= e.seq
    /\ b.terminal <=> \/ l.terminal
                      \/ \E i \in DOMAIN s: s[i].turn = t /\ s[i].type \in Terminal
                      \/ \E e \in B: e.type \in Terminal
    /\ b.commitFinal <=> \/ l.commit
                         \/ \E i \in DOMAIN s: s[i].turn = t /\ s[i].type = "commit_final"
                         \/ \E e \in B: e.type = "commit_final"

\* What connection conn has of turn t, waits for, and will get.
Flows(t) ==
    /\ \A i \in DOMAIN queue[conn]:
          queue[conn][i].turn = t => Fits(law[conn][t], queue[conn], i - 1, queue[conn][i], t)
    /\ \A e \in Blocked(t): Fits(law[conn][t], queue[conn], Len(queue[conn]), e, t)
    /\ \A b \in bus[t]: Reaches(law[conn][t], queue[conn], Blocked(t), t, b)

\* The stream of an undisturbed turn.
StreamInv(t) ==
    t \notin history.disturbed =>
        /\ \A p, q \in Task: Waits(p, t) /\ Waits(q, t) => p = q
        /\ t \in session => bus[t] # {}
        /\ Started(t) /\ t \notin session => Place(task[t]) = "done"
        /\ turn[t].terminal # "none" => \A b \in bus[t]: b.terminal
        /\ history.since[t] # 0 => ~law[history.since[t]][t].broken
        /\ on /\ history.since[t] = conn => Flows(t)

Inv == Shape /\ \A t \in Turn: CommitInv(t) /\ TerminalInv(t) /\ FailInv(t) /\ StreamInv(t)

-----------------------------------------------------------------------------
(* The bus: what one publish does.                                             *)

\* A publish sends nothing or one event of its turn.
LEMMA OutgoingFacts ==
  ASSUME NEW b \in BusState, NEW t \in Turn, NEW type \in EventType, NEW l \in BOOLEAN
  PROVE  \/ Outgoing(b, t, type, l) = {}
         \/ \E e \in Event: l /\ Outgoing(b, t, type, l) = {e} /\ e.turn = t
<1>1. b.nextSeq \in Nat /\ b.nextSeq + 1 \in Nat /\ b.dropped \in SUBSET Nat
      /\ b.dropped \cup {b.nextSeq} \in SUBSET Nat
  BY DEF BusState
<1>2. [turn |-> t, seq |-> b.nextSeq + 1, type |-> "stream_truncated",
       dropped |-> b.dropped \cup {b.nextSeq}] \in Event
  BY <1>1 DEF Event, EventType, Bounded
<1>3. [turn |-> t, seq |-> b.nextSeq, type |-> type, dropped |-> b.dropped] \in Event
  BY <1>1 DEF Event
<1> QED
  BY <1>2, <1>3 DEF Outgoing

\* publish keeps the state of a turn well formed; it ends the stream with a
\* terminal event and closes it with commit_final, and never reopens it.
LEMMA PublishedFacts ==
  ASSUME NEW b \in BusState, NEW type \in EventType, NEW l \in BOOLEAN
  PROVE  /\ Published(b, type, l) \in BusState
         /\ Published(b, type, l).terminal = (b.terminal \/ type \in Terminal)
         /\ Published(b, type, l).commitFinal = (b.commitFinal \/ type = "commit_final")
<1>1. /\ b.nextSeq \in Nat /\ b.dropped \in SUBSET Nat /\ b.bestEffort \in Nat
      /\ b.bounded \in Nat /\ b.bytes \in Nat
      /\ b.terminal \in BOOLEAN /\ b.commitFinal \in BOOLEAN
  BY DEF BusState
<1>2. CASE IsDropped(b, type)
  <2>0. type \notin Terminal /\ type # "commit_final"
    BY <1>2 DEF IsDropped, BestEffort, Terminal
  <2>1. CASE l /\ ~b.truncated
    <3>1. Published(b, type, l) = [b EXCEPT !.nextSeq = b.nextSeq + 2, !.dropped = {}, !.truncated = TRUE]
      BY <1>2, <2>1 DEF Published
    <3>2. b.nextSeq + 2 \in Nat /\ {} \in SUBSET Nat
      BY <1>1
    <3> QED
      BY <1>1, <2>0, <3>1, <3>2 DEF BusState
  <2>2. CASE ~(l /\ ~b.truncated)
    <3>1. Published(b, type, l) =
            [b EXCEPT !.nextSeq = b.nextSeq + 1, !.dropped = b.dropped \cup {b.nextSeq}]
      BY <1>2, <2>2 DEF Published
    <3>2. b.nextSeq + 1 \in Nat /\ b.dropped \cup {b.nextSeq} \in SUBSET Nat
      BY <1>1
    <3> QED
      BY <1>1, <2>0, <3>1, <3>2 DEF BusState
  <2> QED
    BY <2>1, <2>2
<1>3. CASE ~IsDropped(b, type)
  <2> DEFINE be == IF type \in BestEffort THEN b.bestEffort + 1 ELSE b.bestEffort
             bd == IF type \in Bounded THEN b.bounded + 1 ELSE b.bounded
             te == b.terminal \/ type \in Terminal
             cf == b.commitFinal \/ type = "commit_final"
  <2>1. Published(b, type, l) =
          [b EXCEPT !.nextSeq = b.nextSeq + 1, !.dropped = {}, !.bestEffort = be,
                    !.bounded = bd, !.bytes = b.bytes + 1, !.terminal = te, !.commitFinal = cf]
    BY <1>3 DEF Published
  <2>2. b.nextSeq + 1 \in Nat /\ {} \in SUBSET Nat /\ be \in Nat /\ bd \in Nat /\ b.bytes + 1 \in Nat
    BY <1>1
  <2>3. te \in BOOLEAN /\ cf \in BOOLEAN
    OBVIOUS
  <2> HIDE DEF be, bd, te, cf
  <2>4. Published(b, type, l) \in BusState
    BY <2>1, <2>2, <2>3 DEF BusState
  <2>5. Published(b, type, l).terminal = te /\ Published(b, type, l).commitFinal = cf
    BY <2>1 DEF BusState
  <2> QED
    BY <2>4, <2>5 DEF te, cf
<1> QED
  BY <1>2, <1>3

-----------------------------------------------------------------------------
(* The stream: law states, queued events and the bus state behind them.        *)

\* What is behind the first n events depends on nothing after them.
LEMMA FitsPrefix ==
  ASSUME NEW l \in LawState, NEW s \in Seq(Event), NEW f \in Event, NEW n \in 0..Len(s),
         NEW e \in Event, NEW t \in Turn, Fits(l, s, n, e, t)
  PROVE  Fits(l, Append(s, f), n, e, t)
<1>1. \A i \in 1..n: Append(s, f)[i] = s[i]
  OBVIOUS
<1> QED
  BY <1>1 DEF Fits

\* An event of another turn at the end of the queue changes nothing.
LEMMA FitsOther ==
  ASSUME NEW l \in LawState, NEW s \in Seq(Event), NEW f \in Event,
         NEW e \in Event, NEW t \in Turn, f.turn # t, Fits(l, s, Len(s), e, t)
  PROVE  Fits(l, Append(s, f), Len(Append(s, f)), e, t)
<1>1. Len(Append(s, f)) = Len(s) + 1 /\ Append(s, f)[Len(s) + 1] = f /\ Len(s) \in Nat
  OBVIOUS
<1>2. \A i \in 1..Len(s): Append(s, f)[i] = s[i]
  OBVIOUS
<1> DEFINE s2 == Append(s, f)
           m == Len(s)
<1>3. \A i \in 1..(m + 1): s2[i].turn = t => i \in 1..m /\ s2[i] = s[i]
  BY <1>1, <1>2
<1>4. \A i \in 1..m: s2[i] = s[i] /\ i \in 1..(m + 1)
  BY <1>1, <1>2
<1>5. Fits(l, s, m, e, t) /\ m \in Nat /\ Len(s2) = m + 1
  BY <1>1
<1> HIDE DEF s2, m
<1>6. Fits(l, s2, m + 1, e, t)
  BY <1>3, <1>4, <1>5 DEF Fits
<1> QED
  BY <1>5, <1>6 DEF s2

\* Nor does it change what the bus state is behind.
LEMMA ReachesOther ==
  ASSUME NEW l \in LawState, NEW s \in Seq(Event), NEW f \in Event, NEW B \in SUBSET Event,
         NEW b \in BusState, NEW t \in Turn, f.turn # t, Reaches(l, s, B, t, b)
  PROVE  Reaches(l, Append(s, f), B, t, b)
<1> DEFINE s2 == Append(s, f)
<1>1. \A i \in DOMAIN s2: s2[i].turn = t => i \in DOMAIN s /\ s2[i] = s[i]
  OBVIOUS
<1>2. \A i \in DOMAIN s: s2[i] = s[i] /\ i \in DOMAIN s2
  OBVIOUS
<1> HIDE DEF s2
<1>3. Reaches(l, s2, B, t, b)
  BY <1>1, <1>2 DEF Reaches
<1> QED
  BY <1>3 DEF s2

\* The blocked event of the turn is put at the end of the queue.
LEMMA ReachesPut ==
  ASSUME NEW l \in LawState, NEW s \in Seq(Event), NEW f \in Event,
         NEW b \in BusState, NEW t \in Turn, f.turn = t, Reaches(l, s, {f}, t, b)
  PROVE  Reaches(l, Append(s, f), {}, t, b)
<1> DEFINE s2 == Append(s, f)
           m == Len(s) + 1
<1>1. \A i \in DOMAIN s2: i = m \/ (i \in DOMAIN s /\ s2[i] = s[i])
  OBVIOUS
<1>2. \A i \in DOMAIN s: s2[i] = s[i] /\ i \in DOMAIN s2
  OBVIOUS
<1>3. m \in DOMAIN s2 /\ s2[m] = f
  OBVIOUS
<1> HIDE DEF s2, m
<1>4. Reaches(l, s2, {}, t, b)
  BY <1>1, <1>2, <1>3 DEF Reaches
<1> QED
  BY <1>4 DEF s2

\* Numbers, drops and flags of the event e of turn t that takes the bus from b to
\* c.
Heard(b, c, t, type, e) ==
    /\ e.turn = t /\ e.seq \in Nat /\ b.nextSeq <= e.seq
    /\ c.nextSeq = e.seq + 1
    /\ \A k \in Nat: k < e.seq => k < b.nextSeq \/ k \in e.dropped
    /\ b.dropped \subseteq e.dropped
    /\ e.type \in Terminal <=> type \in Terminal
    /\ e.type = "commit_final" <=> type = "commit_final"

\* The event of a publish that a subscriber hears.
LEMMA HeardFacts ==
  ASSUME NEW b \in BusState, NEW t \in Turn, NEW type \in EventType,
         NEW e \in Event, Outgoing(b, t, type, TRUE) = {e}
  PROVE  Heard(b, Published(b, type, TRUE), t, type, e)
<1> DEFINE c == Published(b, type, TRUE)
<1>1. b.nextSeq \in Nat
  BY DEF BusState
<1>2. CASE IsDropped(b, type)
  <2>1. ~b.truncated
    BY <1>2 DEF Outgoing
  <2>2. e = [turn |-> t, seq |-> b.nextSeq + 1, type |-> "stream_truncated",
             dropped |-> b.dropped \cup {b.nextSeq}]
    BY <1>2, <2>1 DEF Outgoing
  <2>3. c = [b EXCEPT !.nextSeq = b.nextSeq + 2, !.dropped = {}, !.truncated = TRUE]
    BY <1>2, <2>1 DEF Published
  <2>4. c.nextSeq = b.nextSeq + 2
    BY <2>3 DEF BusState
  <2>5. type \notin Terminal /\ type # "commit_final" /\ "stream_truncated" \notin Terminal
    BY <1>2 DEF IsDropped, BestEffort, Terminal
  <2> HIDE DEF c
  <2>6. /\ e.turn = t /\ e.seq \in Nat /\ b.nextSeq <= e.seq /\ c.nextSeq = e.seq + 1
        /\ \A k \in Nat: k < e.seq => k < b.nextSeq \/ k \in e.dropped
    BY <1>1, <2>2, <2>4
  <2>7. b.dropped \subseteq e.dropped /\ e.type = "stream_truncated"
    BY <2>2
  <2> QED
    BY <2>5, <2>6, <2>7 DEF c, Heard
<1>3. CASE ~IsDropped(b, type)
  <2>1. e = [turn |-> t, seq |-> b.nextSeq, type |-> type, dropped |-> b.dropped]
    BY <1>3 DEF Outgoing
  <2>2. c.nextSeq = b.nextSeq + 1
    BY <1>3 DEF Published, BusState
  <2> HIDE DEF c
  <2>3. /\ e.turn = t /\ e.seq \in Nat /\ b.nextSeq <= e.seq /\ c.nextSeq = e.seq + 1
        /\ \A k \in Nat: k < e.seq => k < b.nextSeq \/ k \in e.dropped
    BY <1>1, <2>1, <2>2
  <2>4. b.dropped \subseteq e.dropped /\ e.type = type
    BY <2>1
  <2> QED
    BY <2>3, <2>4 DEF c, Heard
<1> QED
  BY <1>2, <1>3

\* A publish that a subscriber hears nothing of adds to the pending drops.
LEMMA UnheardFacts ==
  ASSUME NEW b \in BusState, NEW t \in Turn, NEW type \in EventType,
         Outgoing(b, t, type, TRUE) = {}
  PROVE  /\ Published(b, type, TRUE).nextSeq = b.nextSeq + 1
         /\ Published(b, type, TRUE).dropped = b.dropped \cup {b.nextSeq}
         /\ type \notin Terminal /\ type # "commit_final"
<1>1. IsDropped(b, type) /\ b.truncated
  BY DEF Outgoing
<1>2. type \notin Terminal /\ type # "commit_final"
  BY <1>1 DEF IsDropped, BestEffort, Terminal
<1>3. Published(b, type, TRUE) =
        [b EXCEPT !.nextSeq = b.nextSeq + 1, !.dropped = b.dropped \cup {b.nextSeq}]
  BY <1>1 DEF Published
<1> QED
  BY <1>2, <1>3 DEF BusState

\* An accepted event obeys the law behind everything that is queued, and leaves
\* the bus where it leads.
LEMMA HeardFits ==
  ASSUME NEW l \in LawState, NEW s \in Seq(Event), NEW b \in BusState, NEW t \in Turn,
         NEW type \in EventType, NEW e \in Event, Reaches(l, s, {}, t, b),
         ~Refused(b, type), type = "commit_final" => b.terminal,
         Outgoing(b, t, type, TRUE) = {e}
  PROVE  /\ Fits(l, s, Len(s), e, t)
         /\ Reaches(l, s, {e}, t, Published(b, type, TRUE))
<1> DEFINE c == Published(b, type, TRUE)
<1>1. /\ e.turn = t /\ e.seq \in Nat /\ b.nextSeq <= e.seq
      /\ c.nextSeq = e.seq + 1
      /\ \A k \in Nat: k < e.seq => k < b.nextSeq \/ k \in e.dropped
      /\ b.dropped \subseteq e.dropped
      /\ e.type \in Terminal <=> type \in Terminal
      /\ e.type = "commit_final" <=> type = "commit_final"
  <2>1. Heard(b, c, t, type, e)
    BY HeardFacts
  <2> QED
    BY <2>1 DEF Heard
<1>2. c.terminal = (b.terminal \/ type \in Terminal)
      /\ c.commitFinal = (b.commitFinal \/ type = "commit_final")
  BY PublishedFacts
<1>3a. DOMAIN s = 1..Len(s) /\ Len(s) \in Nat /\ \A i \in DOMAIN s: s[i] \in Event
  OBVIOUS
<1>3. l.last \in Int /\ b.nextSeq \in Nat /\ DOMAIN s = 1..Len(s) /\ Len(s) \in Nat
      /\ \A i \in DOMAIN s: s[i].seq \in Nat
  BY <1>3a DEF LawState, BusState, Event
<1>4. Fits(l, s, Len(s), e, t)
  <2>1. e.seq > l.last /\ \A i \in 1..Len(s): s[i].turn = t => s[i].seq < e.seq
    BY <1>1, <1>3 DEF Reaches
  <2>2. ASSUME NEW k \in (l.last + 1)..(e.seq - 1)
        PROVE  k \in e.dropped \/ \E i \in 1..Len(s): s[i].turn = t /\ k <= s[i].seq
    <3>0. k \in Int /\ l.last < k /\ k < e.seq
      BY <1>1, <1>3
    <3>1. CASE k \in (l.last + 1)..(b.nextSeq - 1)
      BY <1>1, <1>3, <3>1 DEF Reaches
    <3>2. CASE k >= b.nextSeq
      BY <1>1, <1>3, <3>0, <3>2
    <3> QED
      BY <1>1, <1>3, <3>0, <3>1, <3>2
  <2>3. e.type # "commit_final" =>
           ~l.terminal /\ \A i \in 1..Len(s): s[i].turn = t => s[i].type \notin Terminal
    BY <1>1, <1>3 DEF Reaches, Refused
  <2>4. e.type = "commit_final" =>
          /\ ~l.commit /\ \A i \in 1..Len(s): s[i].turn = t => s[i].type # "commit_final"
          /\ l.terminal \/ \E i \in 1..Len(s): s[i].turn = t /\ s[i].type \in Terminal
    BY <1>1, <1>3 DEF Reaches, Refused
  <2> QED
    BY <2>1, <2>2, <2>3, <2>4 DEF Fits
<1>5. Reaches(l, s, {e}, t, c)
  <2> HIDE DEF c
  <2>1. /\ l.last < c.nextSeq
        /\ \A i \in DOMAIN s: s[i].turn = t => s[i].seq < c.nextSeq
        /\ \A f \in {e}: f.seq < c.nextSeq
        /\ \A k \in (l.last + 1)..(c.nextSeq - 1): \E f \in {e}: k <= f.seq
    BY <1>1, <1>3 DEF Reaches
  <2>2. c.terminal <=> \/ l.terminal
                       \/ \E i \in DOMAIN s: s[i].turn = t /\ s[i].type \in Terminal
                       \/ \E f \in {e}: f.type \in Terminal
    BY <1>1, <1>2 DEF Reaches
  <2>3. c.commitFinal <=> \/ l.commit
                          \/ \E i \in DOMAIN s: s[i].turn = t /\ s[i].type = "commit_final"
                          \/ \E f \in {e}: f.type = "commit_final"
    BY <1>1, <1>2 DEF Reaches
  <2> QED
    BY <2>1, <2>2, <2>3 DEF Reaches
<1> QED
  BY <1>4, <1>5

\* A drop that a subscriber hears nothing of.
LEMMA UnheardReaches ==
  ASSUME NEW l \in LawState, NEW s \in Seq(Event), NEW b \in BusState, NEW t \in Turn,
         NEW type \in EventType, Reaches(l, s, {}, t, b), Outgoing(b, t, type, TRUE) = {}
  PROVE  Reaches(l, s, {}, t, Published(b, type, TRUE))
<1> DEFINE c == Published(b, type, TRUE)
<1>1. /\ c.nextSeq = b.nextSeq + 1 /\ c.dropped = b.dropped \cup {b.nextSeq}
      /\ type \notin Terminal /\ type # "commit_final"
  BY UnheardFacts
<1>2. c.terminal = (b.terminal \/ type \in Terminal)
      /\ c.commitFinal = (b.commitFinal \/ type = "commit_final")
  BY PublishedFacts
<1>3a. \A i \in DOMAIN s: s[i] \in Event
  OBVIOUS
<1>3. l.last \in Int /\ b.nextSeq \in Nat
      /\ \A i \in DOMAIN s: s[i].seq \in Nat
  BY <1>3a DEF LawState, BusState, Event
<1> HIDE DEF c
<1>4. /\ l.last < c.nextSeq
      /\ \A i \in DOMAIN s: s[i].turn = t => s[i].seq < c.nextSeq
  BY <1>1, <1>3 DEF Reaches
<1>5. ASSUME NEW k \in (l.last + 1)..(c.nextSeq - 1)
      PROVE  k \in c.dropped \/ \E i \in DOMAIN s: s[i].turn = t /\ k <= s[i].seq
  <2>1. CASE k = b.nextSeq
    BY <1>1, <2>1
  <2>2. CASE k # b.nextSeq
    <3>1. k \in (l.last + 1)..(b.nextSeq - 1)
      BY <1>1, <1>3, <2>2
    <3> QED
      BY <1>1, <3>1 DEF Reaches
  <2> QED
    BY <2>1, <2>2
<1>6. c.terminal <=> \/ l.terminal
                     \/ \E i \in DOMAIN s: s[i].turn = t /\ s[i].type \in Terminal
                     \/ \E f \in {}: f.type \in Terminal
  BY <1>1, <1>2 DEF Reaches
<1>7. c.commitFinal <=> \/ l.commit
                        \/ \E i \in DOMAIN s: s[i].turn = t /\ s[i].type = "commit_final"
                        \/ \E f \in {}: f.type = "commit_final"
  BY <1>1, <1>2 DEF Reaches
<1>8. Reaches(l, s, {}, t, c)
  BY <1>4, <1>5, <1>6, <1>7 DEF Reaches
<1> QED
  BY <1>8 DEF c

\* The subscriber takes an event of the turn that obeys the law: the checker
\* accepts it, and what was behind it still obeys the law.
LEMMA LawfulHead ==
  ASSUME NEW l \in LawState, NEW s \in Seq(Event), NEW t \in Turn, NEW f \in Event,
         Fits(l, s, 0, f, t)
  PROVE  /\ Lawful(l, f)
         /\ Consumed(l, f) \in LawState
         /\ ~l.broken => ~Consumed(l, f).broken
<1>1. Lawful(l, f)
  BY DEF Fits, Lawful, LawState, Event
<1>2. Consumed(l, f) \in LawState
  BY DEF Consumed, LawState, Event
<1>3. ~l.broken => ~Consumed(l, f).broken
  BY <1>1 DEF Consumed
<1> QED
  BY <1>1, <1>2, <1>3

\* Once the head of the queue is consumed, the events behind it fit the new law
\* state.
LEMMA FitsBehindOwn ==
  ASSUME NEW l \in LawState, NEW s \in Seq(Event), NEW t \in Turn, s # <<>>, Head(s).turn = t,
         NEW n \in 1..Len(s), NEW e \in Event, Fits(l, s, n, e, t), Fits(l, s, 0, Head(s), t)
  PROVE  Fits(Consumed(l, Head(s)), Tail(s), n - 1, e, t)
<1> DEFINE h == Head(s)
           r == Tail(s)
           m == Consumed(l, h)
<1>1. /\ h \in Event /\ s[1] = h /\ n \in Nat
      /\ \A i \in 1..(n - 1): r[i] = s[i + 1] /\ i + 1 \in 1..n
      /\ \A i \in 1..n: i = 1 \/ (i - 1 \in 1..(n - 1) /\ s[i] = r[i - 1])
  OBVIOUS
<1>2. /\ m.last = h.seq /\ m.terminal = (l.terminal \/ h.type \in Terminal)
      /\ m.commit = (l.commit \/ h.type = "commit_final") /\ h.seq \in Nat /\ l.last \in Int
      /\ e.seq \in Nat
  BY <1>1 DEF Consumed, LawState, Event
<1>3. h.turn = t /\ 1 \in 1..n
  OBVIOUS
<1>4. \A i \in 1..(n - 1): r[i].turn = t => r[i].seq < e.seq
  BY <1>1 DEF Fits
<1>5. h.seq < e.seq /\ l.last < e.seq
  BY <1>1, <1>2, <1>3 DEF Fits
<1>10. l.last < h.seq
  BY <1>2 DEF Fits
<1> HIDE DEF h, r, m
<1>6. ASSUME NEW k \in (m.last + 1)..(e.seq - 1)
      PROVE  k \in e.dropped \/ \E i \in 1..(n - 1): r[i].turn = t /\ k <= r[i].seq
  <2>1. CASE k \in (l.last + 1)..(e.seq - 1)
    <3>1. k \in e.dropped \/ \E i \in 1..n: s[i].turn = t /\ k <= s[i].seq
      BY <2>1 DEF Fits
    <3>2. ~(k <= h.seq)
      BY <1>2
    <3> QED
      BY <1>1, <3>1, <3>2
  <2>2. CASE k \notin (l.last + 1)..(e.seq - 1)
    <3>1. k \in Int /\ k <= l.last /\ h.seq < k
      BY <1>2, <2>2
    <3> QED
      BY <1>2, <1>10, <3>1
  <2> QED
    BY <2>1, <2>2
<1>7. e.type # "commit_final" =>
        ~m.terminal /\ \A i \in 1..(n - 1): r[i].turn = t => r[i].type \notin Terminal
  BY <1>1, <1>2, <1>3 DEF Fits
<1>8. e.type = "commit_final" =>
        /\ ~m.commit /\ \A i \in 1..(n - 1): r[i].turn = t => r[i].type # "commit_final"
        /\ m.terminal \/ \E i \in 1..(n - 1): r[i].turn = t /\ r[i].type \in Terminal
  BY <1>1, <1>2, <1>3 DEF Fits
<1>9. Fits(m, r, n - 1, e, t)
  BY <1>2, <1>4, <1>5, <1>6, <1>7, <1>8 DEF Fits
<1> QED
  BY <1>9 DEF m, r, h

\* Consuming an event of another turn changes nothing for this one.
LEMMA FitsBehindOther ==
  ASSUME NEW l \in LawState, NEW s \in Seq(Event), NEW t \in Turn, s # <<>>, Head(s).turn # t,
         NEW n \in 1..Len(s), NEW e \in Event, Fits(l, s, n, e, t)
  PROVE  Fits(l, Tail(s), n - 1, e, t)
<1> DEFINE r == Tail(s)
<1>1. /\ s[1].turn # t /\ n \in Nat
      /\ \A i \in 1..(n - 1): r[i] = s[i + 1] /\ i + 1 \in 1..n
      /\ \A i \in 1..n: i = 1 \/ (i - 1 \in 1..(n - 1) /\ s[i] = r[i - 1])
  OBVIOUS
<1> HIDE DEF r
<1>2. \A i \in 1..n: s[i].turn = t => i - 1 \in 1..(n - 1) /\ s[i] = r[i - 1]
  BY <1>1
<1>3. e.seq > l.last /\ \A i \in 1..(n - 1): r[i].turn = t => r[i].seq < e.seq
  BY <1>1 DEF Fits
<1>4. ASSUME NEW k \in (l.last + 1)..(e.seq - 1)
      PROVE  k \in e.dropped \/ \E i \in 1..(n - 1): r[i].turn = t /\ k <= r[i].seq
  <2>1. k \in e.dropped \/ \E i \in 1..n: s[i].turn = t /\ k <= s[i].seq
    BY DEF Fits
  <2> QED
    BY <1>2, <2>1
<1>5. e.type # "commit_final" =>
        ~l.terminal /\ \A i \in 1..(n - 1): r[i].turn = t => r[i].type \notin Terminal
  BY <1>1 DEF Fits
<1>6. e.type = "commit_final" =>
        /\ ~l.commit /\ \A i \in 1..(n - 1): r[i].turn = t => r[i].type # "commit_final"
        /\ l.terminal \/ \E i \in 1..(n - 1): r[i].turn = t /\ r[i].type \in Terminal
  BY <1>1, <1>2 DEF Fits
<1>7. Fits(l, r, n - 1, e, t)
  BY <1>3, <1>4, <1>5, <1>6 DEF Fits
<1> QED
  BY <1>7 DEF r

\* The bus state stays behind the law state and the rest of the queue.
LEMMA ReachesBehindOwn ==
  ASSUME NEW l \in LawState, NEW s \in Seq(Event), NEW t \in Turn, s # <<>>, Head(s).turn = t,
         NEW B \in SUBSET Event, NEW b \in BusState, Reaches(l, s, B, t, b), Fits(l, s, 0, Head(s), t)
  PROVE  Reaches(Consumed(l, Head(s)), Tail(s), B, t, b)
<1> DEFINE h == Head(s)
           r == Tail(s)
           m == Consumed(l, h)
<1>1. /\ h \in Event /\ s[1] = h /\ 1 \in DOMAIN s
      /\ \A i \in DOMAIN r: r[i] = s[i + 1] /\ i + 1 \in DOMAIN s
      /\ \A i \in DOMAIN s: i = 1 \/ (i - 1 \in DOMAIN r /\ s[i] = r[i - 1])
  OBVIOUS
<1>2. /\ m.last = h.seq /\ m.terminal = (l.terminal \/ h.type \in Terminal)
      /\ m.commit = (l.commit \/ h.type = "commit_final") /\ h.seq \in Nat /\ l.last \in Int
      /\ b.nextSeq \in Nat
  BY <1>1 DEF Consumed, LawState, Event, BusState
<1>3. h.turn = t
  OBVIOUS
<1>4. l.last < h.seq
  BY <1>2 DEF Fits
<1> HIDE DEF h, r, m
<1>5. /\ m.last < b.nextSeq
      /\ \A i \in DOMAIN r: r[i].turn = t => r[i].seq < b.nextSeq
      /\ \A e \in B: e.seq < b.nextSeq
  BY <1>1, <1>2, <1>3 DEF Reaches
<1>6. ASSUME NEW k \in (m.last + 1)..(b.nextSeq - 1)
      PROVE  \/ k \in b.dropped
             \/ \E i \in DOMAIN r: r[i].turn = t /\ k <= r[i].seq
             \/ \E e \in B: k <= e.seq
  <2>1. k \in (l.last + 1)..(b.nextSeq - 1) /\ ~(k <= h.seq)
    BY <1>2, <1>4
  <2>2. \/ k \in b.dropped
        \/ \E i \in DOMAIN s: s[i].turn = t /\ k <= s[i].seq
        \/ \E e \in B: k <= e.seq
    BY <2>1 DEF Reaches
  <2> QED
    BY <1>1, <2>1, <2>2
<1>7. b.terminal <=> \/ m.terminal
                     \/ \E i \in DOMAIN r: r[i].turn = t /\ r[i].type \in Terminal
                     \/ \E e \in B: e.type \in Terminal
  <2>1. b.terminal <=> \/ l.terminal
                       \/ \E i \in DOMAIN s: s[i].turn = t /\ s[i].type \in Terminal
                       \/ \E e \in B: e.type \in Terminal
    BY DEF Reaches
  <2>2. (\E i \in DOMAIN s: s[i].turn = t /\ s[i].type \in Terminal)
          <=> (h.type \in Terminal
               \/ \E i \in DOMAIN r: r[i].turn = t /\ r[i].type \in Terminal)
    BY <1>1, <1>3
  <2> QED
    BY <1>2, <2>1, <2>2
<1>8. b.commitFinal <=> \/ m.commit
                        \/ \E i \in DOMAIN r: r[i].turn = t /\ r[i].type = "commit_final"
                        \/ \E e \in B: e.type = "commit_final"
  <2>1. b.commitFinal <=> \/ l.commit
                          \/ \E i \in DOMAIN s: s[i].turn = t /\ s[i].type = "commit_final"
                          \/ \E e \in B: e.type = "commit_final"
    BY DEF Reaches
  <2>2. (\E i \in DOMAIN s: s[i].turn = t /\ s[i].type = "commit_final")
          <=> (h.type = "commit_final"
               \/ \E i \in DOMAIN r: r[i].turn = t /\ r[i].type = "commit_final")
    BY <1>1, <1>3
  <2> QED
    BY <1>2, <2>1, <2>2
<1>9. Reaches(m, r, B, t, b)
  BY <1>5, <1>6, <1>7, <1>8 DEF Reaches
<1> QED
  BY <1>9 DEF m, r, h

\* The same for an event of another turn.
LEMMA ReachesBehindOther ==
  ASSUME NEW l \in LawState, NEW s \in Seq(Event), NEW t \in Turn, s # <<>>, Head(s).turn # t,
         NEW B \in SUBSET Event, NEW b \in BusState, Reaches(l, s, B, t, b)
  PROVE  Reaches(l, Tail(s), B, t, b)
<1> DEFINE r == Tail(s)
<1>1. /\ s[1].turn # t
      /\ \A i \in DOMAIN r: r[i] = s[i + 1] /\ i + 1 \in DOMAIN s
      /\ \A i \in DOMAIN s: i = 1 \/ (i - 1 \in DOMAIN r /\ s[i] = r[i - 1])
  OBVIOUS
<1> HIDE DEF r
<1>2. \A i \in DOMAIN s: s[i].turn = t => i - 1 \in DOMAIN r /\ s[i] = r[i - 1]
  BY <1>1
<1>3. /\ \A i \in DOMAIN r: r[i].turn = t => r[i].seq < b.nextSeq
      /\ \A k \in (l.last + 1)..(b.nextSeq - 1):
            \/ k \in b.dropped
            \/ \E i \in DOMAIN r: r[i].turn = t /\ k <= r[i].seq
            \/ \E e \in B: k <= e.seq
  BY <1>1, <1>2 DEF Reaches
<1>4. (\E i \in DOMAIN s: s[i].turn = t /\ s[i].type \in Terminal)
        <=> (\E i \in DOMAIN r: r[i].turn = t /\ r[i].type \in Terminal)
  BY <1>1, <1>2
<1>5. (\E i \in DOMAIN s: s[i].turn = t /\ s[i].type = "commit_final")
        <=> (\E i \in DOMAIN r: r[i].turn = t /\ r[i].type = "commit_final")
  BY <1>1, <1>2
<1>6. Reaches(l, r, B, t, b)
  BY <1>3, <1>4, <1>5 DEF Reaches
<1> QED
  BY <1>6 DEF r

-----------------------------------------------------------------------------
(* What a step of one task may change.                                         *)

\* Task p becomes x and keeps the loop or gives it up.
Goes(p, x) == task' = [task EXCEPT ![p] = x] /\ loop' \in {{}, {p}}

\* Task p publishes an event of turn t on bus state b and becomes x: r with
\* another pc and perhaps a blocked put.
Sends(b, p, t, type, x, r, then, error, h) ==
    /\ x \in TaskState /\ Goes(p, x)
    /\ x.turn = r.turn /\ x.error = r.error /\ x.intents = r.intents
    /\ IF Refused(b, type)
       THEN /\ x.pc = error
            /\ bus' = [bus EXCEPT ![t] = {b}] /\ history' = h /\ queue' = queue
       ELSE /\ Place(x) = then
            /\ bus' = [bus EXCEPT ![t] = {Published(b, type, on)}]
            /\ history' \in History
            /\ history'.failed = h.failed /\ history'.since = h.since
            /\ h.disturbed \subseteq history'.disturbed
            /\ history'.disturbed \subseteq h.disturbed \cup {t}
            /\ Overtakes(p, t) => t \in history'.disturbed
            /\ history'.terminals =
                 [h.terminals EXCEPT ![t] = IF type \in Terminal THEN Append(h.terminals[t], type)
                                            ELSE h.terminals[t]]
            /\ \/ x.pc = then /\ queue' = queue /\ Outgoing(b, t, type, on) = {}
               \/ /\ on
                  /\ \E e \in Event:
                        /\ e.turn = t /\ Outgoing(b, t, type, TRUE) = {e}
                        /\ \/ /\ x.pc = "put" /\ x.event = {e} /\ x.to = conn /\ x.then = then
                              /\ queue' = queue
                           \/ /\ x.pc = then /\ Len(queue[conn]) < QueueMax
                              /\ queue' = [queue EXCEPT ![conn] = Append(queue[conn], e)]

\* PublishOn says just that.
LEMMA PublishSends ==
  ASSUME TypeOK, on => conn # 0, NEW b \in BusState, NEW p \in Task, NEW t \in Turn,
         NEW type \in EventType, NEW r \in TaskState, NEW then \in PC \ {"put"},
         NEW error \in PC \ {"put"}, NEW h \in History,
         PublishOn(b, p, t, type, r, then, error, h)
  PROVE  \E x \in TaskState: Sends(b, p, t, type, x, r, then, error, h)
<1>1. ASSUME NEW x \in TaskState, Becomes(p, x)
      PROVE  Goes(p, x)
  BY <1>1 DEF Becomes, Goes, KeepsLoop
<1>2. CASE Refused(b, type)
  <2> DEFINE x == [r EXCEPT !.pc = error]
  <2>1. x \in TaskState /\ x.pc = error /\ x.turn = r.turn /\ x.error = r.error /\ x.intents = r.intents
    BY DEF TaskState
  <2>2. Becomes(p, x) /\ bus' = [bus EXCEPT ![t] = {b}] /\ history' = h /\ queue' = queue
    BY <1>2 DEF PublishOn
  <2> HIDE DEF x
  <2>3. Goes(p, x)
    BY <1>1, <2>1, <2>2
  <2> QED
    BY <1>2, <2>1, <2>2, <2>3 DEF Sends
<1>3. CASE ~Refused(b, type)
  <2> DEFINE out == Outgoing(b, t, type, on)
             dist == IF Overtakes(p, t) THEN h.disturbed \cup {t} ELSE h.disturbed
             term == [h.terminals EXCEPT ![t] = IF type \in Terminal THEN Append(h.terminals[t], type)
                                                ELSE h.terminals[t]]
  <2>1. /\ bus' = [bus EXCEPT ![t] = {Published(b, type, on)}]
        /\ history' = [h EXCEPT !.disturbed = dist, !.terminals = term]
    <3>1. history' =
            [h EXCEPT !.disturbed = IF Overtakes(p, t) THEN @ \cup {t} ELSE @,
                      !.terminals[t] = IF type \in Terminal THEN Append(@, type) ELSE @]
      BY <1>3 DEF PublishOn
    <3>2. h.terminals \in [Turn -> Seq(Terminal)]
      BY DEF History
    <3> QED
      BY <1>3, <3>1, <3>2 DEF PublishOn, History
  <2>2. IF out # {} /\ Len(queue[conn]) >= QueueMax
        THEN /\ Becomes(p, [r EXCEPT !.pc = "put", !.event = out, !.to = conn, !.then = then])
             /\ UNCHANGED queue
        ELSE /\ Becomes(p, [r EXCEPT !.pc = then])
             /\ queue' = IF out = {} THEN queue
                         ELSE [queue EXCEPT ![conn] = Append(@, CHOOSE e \in out: TRUE)]
    BY <1>3 DEF PublishOn
  <2>3. dist \in SUBSET Turn /\ term \in [Turn -> Seq(Terminal)]
    BY DEF History
  <2>4. /\ h.disturbed \subseteq dist /\ dist \subseteq h.disturbed \cup {t}
        /\ Overtakes(p, t) => t \in dist
    OBVIOUS
  <2> HIDE DEF dist, term, out
  <2>5. /\ history' \in History
        /\ history'.failed = h.failed /\ history'.since = h.since
        /\ history'.disturbed = dist /\ history'.terminals = term
    BY <2>1, <2>3 DEF History
  <2>6. /\ h.disturbed \subseteq history'.disturbed
        /\ history'.disturbed \subseteq h.disturbed \cup {t}
        /\ Overtakes(p, t) => t \in history'.disturbed
    BY <2>4, <2>5
  <2>7. history'.terminals =
                 [h.terminals EXCEPT ![t] = IF type \in Terminal THEN Append(h.terminals[t], type)
                                            ELSE h.terminals[t]]
    BY <2>5 DEF term
  <2>8. CASE out = {}
    <3> DEFINE x == [r EXCEPT !.pc = then]
    <3>1. x \in TaskState /\ x.pc = then /\ x.turn = r.turn /\ x.error = r.error /\ x.intents = r.intents
      BY DEF TaskState
    <3>2. Becomes(p, x) /\ queue' = queue
      BY <2>2, <2>8
    <3> HIDE DEF x
    <3>3. Goes(p, x) /\ Place(x) = then
      BY <1>1, <3>1, <3>2 DEF Place
    <3> QED
      BY <1>3, <2>1, <2>5, <2>6, <2>7, <2>8, <3>1, <3>2, <3>3 DEF Sends, out
  <2>9. CASE out # {}
    <3>0. on \in BOOLEAN
      BY DEF TypeOK
    <3>1. PICK e \in Event: on /\ out = {e} /\ e.turn = t
      BY <2>9, <3>0, OutgoingFacts DEF out
    <3>2. Outgoing(b, t, type, TRUE) = {e}
      BY <3>0, <3>1 DEF out
    <3>3. conn \in Connection /\ conn \in 0..MaxConnections
      BY <3>1 DEF TypeOK, Connection
    <3>4. CASE Len(queue[conn]) >= QueueMax
      <4> DEFINE x == [r EXCEPT !.pc = "put", !.event = out, !.to = conn, !.then = then]
      <4>1. x \in TaskState
        BY <3>1, <3>3 DEF TaskState, PC, Waiting
      <4>2. /\ x.pc = "put" /\ x.turn = r.turn /\ x.error = r.error /\ x.intents = r.intents
            /\ x.event = {e} /\ x.to = conn /\ x.then = then
        BY <3>1 DEF TaskState
      <4>3. Becomes(p, x) /\ queue' = queue
        BY <2>2, <2>9, <3>4
      <4> HIDE DEF x
      <4>4. Goes(p, x) /\ Place(x) = then
        BY <1>1, <4>1, <4>2, <4>3 DEF Place
      <4> QED
        BY <1>3, <2>1, <2>5, <2>6, <2>7, <3>1, <3>2, <4>1, <4>2, <4>3, <4>4 DEF Sends
    <3>5. CASE ~(Len(queue[conn]) >= QueueMax)
      <4> DEFINE x == [r EXCEPT !.pc = then]
      <4>1. x \in TaskState /\ x.pc = then /\ x.turn = r.turn /\ x.error = r.error /\ x.intents = r.intents
        BY DEF TaskState
      <4>2. Becomes(p, x) /\ queue' = [queue EXCEPT ![conn] = Append(@, CHOOSE f \in out: TRUE)]
        BY <2>2, <2>9, <3>5
      <4>3. (CHOOSE f \in out: TRUE) = e
        BY <3>1
      <4>4. queue' = [queue EXCEPT ![conn] = Append(queue[conn], e)]
        BY <4>2, <4>3
      <4>5. Len(queue[conn]) < QueueMax
        <5>1. Len(queue[conn]) \in Nat /\ QueueMax \in Nat
          BY <3>3, BusLimits DEF TypeOK, QueueMax
        <5> QED
          BY <3>5, <5>1
      <4> HIDE DEF x
      <4>6. Goes(p, x) /\ Place(x) = then
        BY <1>1, <4>1, <4>2 DEF Place
      <4> QED
        BY <1>3, <2>1, <2>5, <2>6, <2>7, <3>1, <3>2, <4>1, <4>2, <4>4, <4>5, <4>6 DEF Sends
    <3> QED
      BY <3>4, <3>5
  <2> QED
    BY <2>8, <2>9
<1> QED
  BY <1>2, <1>3

\* History h marks turn t at most.
Marks(h, t) ==
    /\ h \in History /\ h.since = history.since
    /\ history.disturbed \subseteq h.disturbed
    /\ \A u \in Turn \ {t}:
          /\ u \in h.disturbed => u \in history.disturbed
          /\ u \in h.failed <=> u \in history.failed
          /\ h.terminals[u] = history.terminals[u]

\* At most an event of turn t joins a queue.
Queues(t) ==
    \/ queue' = queue
    \/ \E c \in 1..conn, e \in Event:
          /\ e.turn = t /\ Len(queue[c]) < QueueMax
          /\ queue' = [queue EXCEPT ![c] = Append(queue[c], e)]

\* Task p, at work on turn t or idle before, becomes x: the other tasks and the
\* other turns stay as they are, and the subscriber does nothing.
Frame(p, t, x) ==
    /\ x \in TaskState /\ Goes(p, x) /\ (x.turn \subseteq {t})
    /\ p \in Turn => p = t
    /\ task[p].turn = {t} \/ task[p].pc = "idle"
    /\ turn' \in [Turn -> TurnState] /\ \A u \in Turn: turn'[u].kind = turn[u].kind
    /\ intents' \in [Turn -> SUBSET Intent]
    /\ commits' \in [Turn -> Seq({"ok", "fail_closed"})]
    /\ bus' \in [Turn -> SUBSET BusState] /\ \A b, c \in bus'[t]: b = c
    /\ \A u \in Turn \ {t}: /\ turn'[u] = turn[u] /\ intents'[u] = intents[u]
                            /\ commits'[u] = commits[u] /\ bus'[u] = bus[u]
    /\ session' \subseteq session /\ session \ {t} \subseteq session'
    /\ conn' = conn /\ on' = on /\ law' = law
    /\ Queues(t)
    /\ counts' \in [requests: 0..MaxRequests, faults: 0..MaxFaults, emits: 0..MaxEmits]
    /\ Marks(history', t)

\* Queues stay within their capacity, and get events of turn t only.
LEMMA QueuesFacts ==
  ASSUME TypeOK, NEW t \in Turn, Queues(t)
  PROVE  /\ queue' \in [Connection -> Seq(Event)]
         /\ \A c \in Connection: Len(queue'[c]) <= QueueMax
         /\ \A c \in Connection: \/ queue'[c] = queue[c]
                                 \/ \E e \in Event: e.turn = t /\ queue'[c] = Append(queue[c], e)
         /\ \A c \in Connection, u \in Turn \ {t}:
               (\A i \in DOMAIN queue[c]: queue[c][i].turn # u)
                 => \A i \in DOMAIN queue'[c]: queue'[c][i].turn # u
<1>0. /\ queue \in [Connection -> Seq(Event)] /\ \A c \in Connection: Len(queue[c]) <= QueueMax
      /\ QueueMax \in Nat /\ 1..conn \subseteq Connection
  BY BusLimits, StreamBounds DEF TypeOK, QueueMax, Connection
<1>1. CASE queue' = queue
  BY <1>0, <1>1
<1>2. ASSUME NEW c \in 1..conn, NEW e \in Event, e.turn = t, Len(queue[c]) < QueueMax,
             queue' = [queue EXCEPT ![c] = Append(queue[c], e)]
      PROVE  /\ queue' \in [Connection -> Seq(Event)]
             /\ \A d \in Connection: Len(queue'[d]) <= QueueMax
             /\ \A d \in Connection: \/ queue'[d] = queue[d]
                                     \/ \E f \in Event: f.turn = t /\ queue'[d] = Append(queue[d], f)
  <2>0. c \in Connection /\ queue[c] \in Seq(Event)
    BY <1>0
  <2>1. Append(queue[c], e) \in Seq(Event) /\ Len(Append(queue[c], e)) = Len(queue[c]) + 1
        /\ Len(queue[c]) \in Nat
    BY <2>0
  <2> QED
    BY <1>0, <1>2, <2>0, <2>1
<1>3. /\ queue' \in [Connection -> Seq(Event)]
      /\ \A d \in Connection: Len(queue'[d]) <= QueueMax
      /\ \A d \in Connection: \/ queue'[d] = queue[d]
                              \/ \E f \in Event: f.turn = t /\ queue'[d] = Append(queue[d], f)
  BY <1>0, <1>1, <1>2 DEF Queues
<1>4. ASSUME NEW c \in Connection, NEW u \in Turn \ {t},
             \A i \in DOMAIN queue[c]: queue[c][i].turn # u,
             NEW i \in DOMAIN queue'[c]
      PROVE  queue'[c][i].turn # u
  <2>1. CASE queue'[c] = queue[c]
    BY <1>4, <2>1
  <2>2. ASSUME NEW f \in Event, f.turn = t, queue'[c] = Append(queue[c], f)
        PROVE  queue'[c][i].turn # u
    <3>1. queue[c] \in Seq(Event)
      BY <1>0
    <3> DEFINE s == queue[c]
    <3>2. i \in DOMAIN Append(s, f)
      BY <2>2
    <3>3. s \in Seq(Event)
      BY <3>1
    <3>4. queue'[c][i] = Append(s, f)[i]
      BY <2>2
    <3>5. \A j \in DOMAIN s: s[j].turn # u
      BY <1>4
    <3> HIDE DEF s
    <3>6. Append(s, f)[i] = f \/ (i \in DOMAIN s /\ Append(s, f)[i] = s[i])
      BY <3>2, <3>3
    <3> QED
      BY <2>2, <3>4, <3>5, <3>6
  <2> QED
    BY <1>3, <2>1, <2>2
<1> QED
  BY <1>3, <1>4

\* The shape of the state after the step of a task.
LEMMA FrameShape ==
  ASSUME Shape, NEW p \in Task, NEW t \in Turn, NEW x, Frame(p, t, x), Started(t), TaskOK(p)'
  PROVE  Shape'
<1>0. TypeOK /\ TurnsBegun /\ (on => conn # 0) /\ (\A u \in Turn: history.since[u] <= conn)
      /\ (\A q \in Task: TaskOK(q))
  BY DEF Shape
<1>1. TypeOK'
  <2>1. loop' \in SUBSET Task /\ \A q, r \in loop': q = r
    BY DEF Frame, Goes
  <2>2. task' \in [Task -> TaskState]
    BY <1>0 DEF Frame, Goes, TypeOK
  <2>3. session' \in SUBSET Turn /\ \A s, u \in session': s = u
    BY <1>0 DEF Frame, TypeOK
  <2>4. queue' \in [Connection -> Seq(Event)] /\ \A c \in Connection: Len(queue'[c]) <= QueueMax
    BY <1>0, QueuesFacts DEF Frame
  <2>5. /\ bus' \in [Turn -> SUBSET BusState]
        /\ \A u \in Turn: \A b, c \in bus'[u]: b = c
    BY <1>0 DEF Frame, TypeOK
  <2>6. /\ conn' \in 0..MaxConnections /\ on' \in BOOLEAN
        /\ law' \in [Connection -> [Turn -> LawState]]
    BY <1>0 DEF Frame, TypeOK
  <2>7. history' \in History
    BY DEF Frame, Marks
  <2> QED
    BY <2>1, <2>2, <2>3, <2>4, <2>5, <2>6, <2>7 DEF TypeOK, Frame
<1>2. (on => conn # 0)' /\ (\A u \in Turn: history.since[u] <= conn)'
  BY <1>0 DEF Frame, Marks
<1>3. \A u \in Turn: Started(u)' <=> Started(u)
  BY DEF Frame, Started
<1>4. ASSUME NEW q \in Task PROVE TaskOK(q)'
  <2>1. CASE q = p
    BY <2>1
  <2>2. CASE q # p
    <3>1. task'[q] = task[q] /\ conn' = conn /\ history'.since = history.since
      BY <1>0, <2>2 DEF Frame, Goes, TypeOK, Marks
    <3>2. TaskOK(q)
      BY <1>0
    <3>3. \A u \in task[q].turn: u \in Turn
      BY <1>0 DEF TypeOK, TaskState
    <3>4. PutOK(task[q])'
      BY <3>1, <3>2 DEF TaskOK, PutOK
    <3> QED
      BY <1>3, <3>1, <3>2, <3>3, <3>4 DEF TaskOK
  <2> QED
    BY <2>1, <2>2
<1>5. TurnsBegun'
  <2>1. (\E n \in 0..MaxTurns: \A u \in Turn: Started(u) <=> u <= n)'
    BY <1>0, <1>3 DEF TurnsBegun
  <2>2. (\A u \in session: Started(u))'
    BY <1>0, <1>3 DEF TurnsBegun, Frame, TypeOK
  <2>3. ASSUME NEW u \in Turn, ~Started(u)'
        PROVE  /\ turn'[u] = NewTurn /\ commits'[u] = <<>> /\ bus'[u] = {}
               /\ u \notin history'.failed /\ u \notin history'.disturbed
               /\ history'.terminals[u] = <<>> /\ history'.since[u] = 0
               /\ \A c \in Connection:
                     law'[c][u] = NoEvents /\ \A i \in DOMAIN queue'[c]: queue'[c][i].turn # u
    <3>1. u \in Turn \ {t} /\ ~Started(u)
      BY <1>3, <2>3
    <3>2. /\ turn[u] = NewTurn /\ commits[u] = <<>> /\ bus[u] = {}
          /\ u \notin history.failed /\ u \notin history.disturbed
          /\ history.terminals[u] = <<>> /\ history.since[u] = 0
      BY <1>0, <3>1 DEF TurnsBegun
    <3>3. \A c \in Connection:
             law[c][u] = NoEvents /\ \A i \in DOMAIN queue[c]: queue[c][i].turn # u
      BY <1>0, <3>1 DEF TurnsBegun
    <3>4. \A c \in Connection: \A i \in DOMAIN queue'[c]: queue'[c][i].turn # u
      <4>1. Queues(t)
        BY DEF Frame
      <4>2. \A c \in Connection, v \in Turn \ {t}:
               (\A i \in DOMAIN queue[c]: queue[c][i].turn # v)
                 => \A i \in DOMAIN queue'[c]: queue'[c][i].turn # v
        BY <1>0, <4>1, QueuesFacts
      <4> QED
        BY <3>1, <3>3, <4>2, Zenon
    <3>5. /\ turn'[u] = NewTurn /\ commits'[u] = <<>> /\ bus'[u] = {}
      BY <3>1, <3>2 DEF Frame
    <3>6. /\ u \notin history'.failed /\ u \notin history'.disturbed
          /\ history'.terminals[u] = <<>> /\ history'.since[u] = 0
      BY <3>1, <3>2 DEF Frame, Marks
    <3> QED
      BY <3>3, <3>4, <3>5, <3>6 DEF Frame
  <2> QED
    BY <2>1, <2>2, <2>3 DEF TurnsBegun
<1> QED
  BY <1>1, <1>2, <1>4, <1>5 DEF Shape

\* What the step of a task leaves as it was for another turn.
LEMMA OtherTurnFacts ==
  ASSUME Shape, NEW p \in Task, NEW t \in Turn, NEW x, Frame(p, t, x), TaskOK(p)',
         NEW u \in Turn, u # t
  PROVE  /\ u \in Task /\ task'[u] = task[u]
         /\ \A q \in Task: task'[q] = task[q] \/ q = p
         /\ ~Commits(p, u) /\ ~Commits(p, u)'
         /\ \A q \in Task: Commits(q, u)' <=> Commits(q, u)
         /\ \A q \in Task: Commits(q, u) => task'[q] = task[q]
         /\ \A q \in Task: Waits(q, u)' <=> Waits(q, u)
         /\ Blocked(u)' = Blocked(u)
<1>0. TypeOK /\ TaskOK(p) /\ task \in [Task -> TaskState]
  BY DEF Shape, TypeOK
<1>1. task' = [task EXCEPT ![p] = x] /\ task'[p] = x /\ x.turn \subseteq {t} /\ p # u
      /\ (task[p].turn = {t} \/ task[p].pc = "idle")
  BY <1>0 DEF Frame, Goes, Task
<1>2. \A q \in Task: task'[q] = task[q] \/ q = p
  BY <1>0, <1>1
<1>3. u \in Task /\ task'[u] = task[u]
  BY <1>1, <1>2 DEF Task
<1>4. ~Commits(p, u) /\ ~Commits(p, u)'
  BY <1>1 DEF Commits, Place
<1>5. \A q \in Task: Commits(q, u) => task'[q] = task[q]
  BY <1>2, <1>4
<1>6. \A q \in Task: Commits(q, u)' <=> Commits(q, u)
  BY <1>2, <1>4 DEF Commits
<1>7. task[p].pc = "put" => \A e \in task[p].event: e.turn # u
  BY <1>0, <1>1 DEF TaskOK, PutOK
<1>8. x.pc = "put" => \A e \in x.event: e.turn # u
  BY <1>1 DEF TaskOK, PutOK
<1>9. ~Waits(p, u) /\ ~Waits(p, u)'
  BY <1>1, <1>7, <1>8 DEF Waits
<1>10. \A q \in Task: Waits(q, u)' <=> Waits(q, u)
  BY <1>2, <1>9 DEF Waits
<1>11. Blocked(u)' = Blocked(u)
  <2>1. \A e: e \in Blocked(u) <=> \E q \in Task: task[q].pc = "put" /\ e \in task[q].event /\ e.turn = u
    BY DEF Blocked
  <2>2. \A e: e \in Blocked(u)' <=> \E q \in Task: task'[q].pc = "put" /\ e \in task'[q].event /\ e.turn = u
    BY DEF Blocked
  <2>3. ASSUME NEW e, NEW q \in Task
        PROVE  (task'[q].pc = "put" /\ e \in task'[q].event /\ e.turn = u)
                 <=> (task[q].pc = "put" /\ e \in task[q].event /\ e.turn = u)
    BY <1>1, <1>2, <1>7, <1>8
  <2> QED
    BY <2>1, <2>2, <2>3
<1> QED
  BY <1>2, <1>3, <1>4, <1>5, <1>6, <1>10, <1>11

\* An event of another turn leaves the stream of turn u as it was.
LEMMA OtherFlows ==
  ASSUME TypeOK, NEW u \in Turn, NEW t \in Turn, u # t, conn \in Connection,
         Queues(t), conn' = conn, law' = law, bus'[u] = bus[u], Blocked(u)' = Blocked(u),
         Blocked(u) \in SUBSET Event, Flows(u)
  PROVE  Flows(u)'
<1> DEFINE l == law[conn][u]
           s == queue[conn]
           r == queue'[conn]
           B == Blocked(u)
<1>1. l \in LawState /\ s \in Seq(Event) /\ B \in SUBSET Event /\ bus[u] \in SUBSET BusState
  BY DEF TypeOK
<1>2. r = s \/ \E e \in Event: e.turn = t /\ r = Append(s, e)
  BY QueuesFacts
<1>3. /\ \A i \in DOMAIN s: s[i].turn = u => Fits(l, s, i - 1, s[i], u)
      /\ \A e \in B: Fits(l, s, Len(s), e, u)
      /\ \A b \in bus[u]: Reaches(l, s, B, u, b)
  BY DEF Flows
<1> HIDE DEF l, s, r, B
<1>4. /\ \A i \in DOMAIN r: r[i].turn = u => Fits(l, r, i - 1, r[i], u)
      /\ \A e \in B: Fits(l, r, Len(r), e, u)
      /\ \A b \in bus[u]: Reaches(l, r, B, u, b)
  <2>1. CASE r = s
    BY <1>3, <2>1
  <2>2. ASSUME NEW f \in Event, f.turn = t, r = Append(s, f)
        PROVE  /\ \A i \in DOMAIN r: r[i].turn = u => Fits(l, r, i - 1, r[i], u)
               /\ \A e \in B: Fits(l, r, Len(r), e, u)
               /\ \A b \in bus[u]: Reaches(l, r, B, u, b)
    <3>0. f.turn # u
      BY <2>2
    <3>1. ASSUME NEW i \in DOMAIN r, r[i].turn = u
          PROVE  Fits(l, r, i - 1, r[i], u)
      <4>1. i \in DOMAIN s /\ r[i] = s[i] /\ r[i] \in Event /\ i - 1 \in 0..Len(s)
        BY <1>1, <2>2, <3>0, <3>1
      <4>2. Fits(l, s, i - 1, r[i], u)
        BY <1>3, <3>1, <4>1
      <4> QED
        BY <1>1, <2>2, <4>1, <4>2, FitsPrefix
    <3>2. \A e \in B: Fits(l, r, Len(r), e, u)
      BY <1>1, <1>3, <2>2, <3>0, FitsOther
    <3>3. \A b \in bus[u]: Reaches(l, r, B, u, b)
      BY <1>1, <1>3, <2>2, <3>0, ReachesOther
    <3> QED
      BY <3>1, <3>2, <3>3
  <2> QED
    BY <1>2, <2>1, <2>2
<1> QED
  BY <1>4 DEF Flows, l, s, r, B

\* Blocked events are events.
LEMMA BlockedEvents ==
  ASSUME TypeOK, NEW t \in Turn
  PROVE  Blocked(t) \in SUBSET Event
<1>1. \A q \in Task: task[q].event \in SUBSET Event
  BY DEF TypeOK, TaskState
<1> QED
  BY <1>1 DEF Blocked

\* What the properties of one turn ask for.
Good(t) == CommitInv(t) /\ TerminalInv(t) /\ FailInv(t) /\ StreamInv(t)

\* The step of a task on turn t leaves the other turns as they should be.
LEMMA FrameOthers ==
  ASSUME Shape, NEW p \in Task, NEW t \in Turn, NEW x, Frame(p, t, x), TaskOK(p)',
         NEW u \in Turn, u # t, Good(u)
  PROVE  Good(u)'
<1>0. TypeOK /\ (on => conn # 0)
  BY DEF Shape
<1>1. /\ u \in Task /\ task'[u] = task[u]
      /\ \A q \in Task: Commits(q, u)' <=> Commits(q, u)
      /\ \A q \in Task: Commits(q, u) => task'[q] = task[q]
      /\ \A q \in Task: Waits(q, u)' <=> Waits(q, u)
      /\ Blocked(u)' = Blocked(u)
  BY OtherTurnFacts
<1>2. /\ turn'[u] = turn[u] /\ intents'[u] = intents[u] /\ commits'[u] = commits[u]
      /\ bus'[u] = bus[u] /\ (u \in session' <=> u \in session)
      /\ conn' = conn /\ on' = on /\ law' = law /\ Queues(t)
  BY DEF Frame
<1>3. /\ u \in history'.disturbed <=> u \in history.disturbed
      /\ u \in history'.failed <=> u \in history.failed
      /\ history'.terminals[u] = history.terminals[u] /\ history'.since = history.since
  BY DEF Frame, Marks
<1>4. CommitInv(u)'
  BY <1>1, <1>2 DEF Good, CommitInv, Started
<1>5. TerminalInv(u)'
  BY <1>2, <1>3 DEF Good, TerminalInv
<1>6. FailInv(u)'
  BY <1>1, <1>2, <1>3 DEF Good, FailInv
<1>7. StreamInv(u)'
  <2>1. on /\ Flows(u) => Flows(u)'
    <3>1. on => conn \in Connection
      BY <1>0 DEF TypeOK, Connection
    <3>2. Blocked(u) \in SUBSET Event
      BY <1>0, BlockedEvents
    <3> QED
      BY <1>0, <1>1, <1>2, <3>1, <3>2, OtherFlows
  <2> QED
    BY <1>1, <1>2, <1>3, <2>1 DEF Good, StreamInv, Started
<1> QED
  BY <1>4, <1>5, <1>6, <1>7 DEF Good

\* So it is enough to look at turn t.
LEMMA FrameInv ==
  ASSUME Inv, NEW p \in Task, NEW t \in Turn, NEW x, Frame(p, t, x), Started(t), TaskOK(p)',
         CommitInv(t)', TerminalInv(t)', FailInv(t)', StreamInv(t)'
  PROVE  Inv'
<1>1. Shape /\ \A u \in Turn: Good(u)
  BY DEF Inv, Good
<1>2. Shape'
  BY <1>1, FrameShape
<1>3. \A u \in Turn: Good(u)'
  <2>1. Good(t)'
    BY DEF Good
  <2> QED
    BY <1>1, <2>1, FrameOthers
<1> QED
  BY <1>2, <1>3 DEF Inv, Good

-----------------------------------------------------------------------------
(* The turn that a step is about.                                              *)

\* The step neither begins nor writes a commit.
LEMMA CommitKept ==
  ASSUME Shape, NEW p \in Task, NEW t \in Turn, NEW x, Frame(p, t, x), CommitInv(t),
         Commits(p, t)' => Commits(p, t) /\ (Place(x) = "trace" <=> Place(task[p]) = "trace"),
         commits'[t] = commits[t], session' = session,
         turn'[t].commitStarted = turn[t].commitStarted,
         turn'[t].terminal = "none" => turn[t].terminal = "none"
  PROVE  CommitInv(t)'
<1>0. task \in [Task -> TaskState]
  BY DEF Shape, TypeOK
<1>1. task'[p] = x /\ \A q \in Task: task'[q] = task[q] \/ q = p
  BY <1>0 DEF Frame, Goes
<1>2. \A q \in Task: Commits(q, t)' => Commits(q, t)
  BY <1>1 DEF Commits
<1>3. \A q \in Task: Commits(q, t)' => (Place(task'[q]) = "trace" <=> Place(task[q]) = "trace")
  BY <1>1
<1>4. Started(t)' <=> Started(t)
  BY DEF Frame, Started
<1> HIDE DEF Commits, Place, Started
<1>5. /\ \A q, r \in Task: Commits(q, t)' /\ Commits(r, t)' => q = r
      /\ ~turn'[t].commitStarted => commits'[t] = <<>> /\ \A q \in Task: ~Commits(q, t)'
      /\ turn'[t].commitStarted => turn'[t].terminal # "none"
      /\ Len(commits'[t]) <= 1
      /\ Started(t)' /\ t \notin session' => Len(commits'[t]) = 1
  BY <1>2, <1>4 DEF CommitInv
<1>6. \A q \in Task: Commits(q, t)' =>
          IF Place(task'[q]) = "trace" THEN Len(commits'[t]) = 1 ELSE commits'[t] = <<>>
  BY <1>2, <1>3 DEF CommitInv
<1> QED
  BY <1>5, <1>6 DEF CommitInv

\* The step decides no terminal event and publishes none.
LEMMA TerminalKept ==
  ASSUME NEW p \in Task, NEW t \in Turn, NEW x, Frame(p, t, x), TerminalInv(t),
         turn'[t].terminal = turn[t].terminal,
         turn[t].kind = "builtin" => history'.terminals[t] = history.terminals[t]
  PROVE  TerminalInv(t)'
<1>1. turn'[t].kind = turn[t].kind
  BY DEF Frame
<1> QED
  BY <1>1 DEF TerminalInv

\* A client, not the turn's own task, takes the step.
LEMMA FailByClient ==
  ASSUME Shape, NEW p \in Task, NEW t \in Turn, NEW x, Frame(p, t, x), FailInv(t), p # t,
         t \notin history'.disturbed =>
            /\ Commits(p, t)' => Commits(p, t)
            /\ turn'[t].commitStarted = turn[t].commitStarted
            /\ commits'[t] = commits[t] /\ intents'[t] = intents[t]
            /\ t \in history'.failed <=> t \in history.failed
  PROVE  FailInv(t)'
<1>0. task \in [Task -> TaskState] /\ t \in Task
  BY DEF Shape, TypeOK, Task
<1>1. task'[t] = task[t] /\ \A q \in Task: task'[q] = task[q] \/ q = p
  BY <1>0 DEF Frame, Goes
<1>2. t \notin history'.disturbed => t \notin history.disturbed
  BY DEF Frame, Marks
<1>3. t \notin history'.disturbed => \A q \in Task: Commits(q, t)' => Commits(q, t)
  BY <1>1 DEF Commits
<1> HIDE DEF Commits
<1> QED
  BY <1>1, <1>2, <1>3 DEF FailInv

\* A task that neither waited nor waits to put leaves the waiting ones.
LEMMA WaitsKept ==
  ASSUME Shape, NEW p \in Task, NEW t \in Turn, NEW x, Frame(p, t, x),
         task[p].pc # "put", x.pc # "put"
  PROVE  /\ \A q \in Task: Waits(q, t)' <=> Waits(q, t)
         /\ Blocked(t)' = Blocked(t)
<1>0. task \in [Task -> TaskState]
  BY DEF Shape, TypeOK
<1>1. task'[p] = x /\ \A q \in Task: task'[q] = task[q] \/ q = p
  BY <1>0 DEF Frame, Goes
<1>2. \A q \in Task: Waits(q, t)' <=> Waits(q, t)
  BY <1>1 DEF Waits
<1>3. {q \in Task: task'[q].pc = "put"} = {q \in Task: task[q].pc = "put"}
  BY <1>1
<1>4. \A q \in Task: task'[q].pc = "put" => task'[q].event = task[q].event
  BY <1>1
<1>5. Blocked(t)' = Blocked(t)
  BY <1>3, <1>4 DEF Blocked
<1> QED
  BY <1>2, <1>5

\* The step publishes nothing.
LEMMA QuietStream ==
  ASSUME Shape, NEW p \in Task, NEW t \in Turn, NEW x, Frame(p, t, x), StreamInv(t),
         task[p].pc # "put", x.pc # "put", queue' = queue, bus'[t] = bus[t], session' = session,
         turn'[t].terminal # "none" => turn[t].terminal # "none" \/ \A b \in bus[t]: b.terminal,
         p = t /\ t \notin history.disturbed => t \in session
  PROVE  StreamInv(t)'
<1>0. task \in [Task -> TaskState] /\ t \in Task
  BY DEF Shape, TypeOK, Task
<1>1. /\ \A q \in Task: Waits(q, t)' <=> Waits(q, t)
      /\ Blocked(t)' = Blocked(t)
  BY WaitsKept
<1>2. /\ t \notin history'.disturbed => t \notin history.disturbed
      /\ history'.since = history.since /\ conn' = conn /\ on' = on /\ law' = law
      /\ (Started(t)' <=> Started(t))
  BY DEF Frame, Marks, Started
<1>3. p # t => task'[t] = task[t]
  BY <1>0 DEF Frame, Goes
<1>4. Flows(t) => Flows(t)'
  BY <1>1, <1>2 DEF Flows
<1> HIDE DEF Waits, Flows, Started, Place
<1> QED
  BY <1>1, <1>2, <1>3, <1>4 DEF StreamInv

\* The state that publish works on.
LEMMA StateFacts ==
  ASSUME TypeOK, NEW t \in Turn
  PROVE  /\ StateOf(t) \in BusState
         /\ bus[t] # {} => bus[t] = {StateOf(t)}
<1>1. bus[t] \in SUBSET BusState /\ \A b, c \in bus[t]: b = c
  BY DEF TypeOK
<1>2. NewBusState \in BusState
  BY DEF NewBusState, BusState
<1>3. bus[t] # {} => (CHOOSE b \in bus[t]: TRUE) \in bus[t]
  OBVIOUS
<1> QED
  BY <1>1, <1>2, <1>3 DEF StateOf

\* When nobody else waits to put an event of turn t, only p's is blocked.
LEMMA OnlyBlocked ==
  ASSUME Shape, NEW p \in Task, NEW t \in Turn, NEW x, Frame(p, t, x),
         \A q \in Task \ {p}: ~Waits(q, t)
  PROVE  /\ \A q \in Task \ {p}: ~Waits(q, t)'
         /\ x.pc # "put" => Blocked(t)' = {}
         /\ \A e \in Event: x.pc = "put" /\ x.event = {e} /\ e.turn = t => Blocked(t)' = {e}
<1>0. task \in [Task -> TaskState]
  BY DEF Shape, TypeOK
<1>1. task'[p] = x /\ \A q \in Task: task'[q] = task[q] \/ q = p
  BY <1>0 DEF Frame, Goes
<1>2. \A q \in Task \ {p}: ~Waits(q, t)'
  BY <1>1 DEF Waits
<1>3. \A e: e \in Blocked(t)' <=> \E q \in Task: task'[q].pc = "put" /\ e \in task'[q].event /\ e.turn = t
  BY DEF Blocked
<1>4. \A e: e \in Blocked(t)' <=> x.pc = "put" /\ e \in x.event /\ e.turn = t
  BY <1>1, <1>2, <1>3 DEF Waits
<1> QED
  BY <1>2, <1>4

\* The stream of turn t behind an accepted event that somebody listens to.
LEMMA FlowsOn ==
  ASSUME Shape, NEW p \in Task, NEW t \in Turn, NEW x, Frame(p, t, x),
         NEW type \in EventType, NEW r \in TaskState, NEW then \in PC \ {"put"},
         NEW error \in PC \ {"put"}, NEW h \in History,
         Sends(StateOf(t), p, t, type, x, r, then, error, h),
         ~Refused(StateOf(t), type), on, task[p].pc # "put",
         \A q \in Task \ {p}: ~Waits(q, t),
         bus[t] = {StateOf(t)}, type = "commit_final" => StateOf(t).terminal, Flows(t)
  PROVE  Flows(t)'
<1> DEFINE b == StateOf(t)
           l == law[conn][t]
           s == queue[conn]
           s2 == queue'[conn]
           c == Published(b, type, TRUE)
<1>0. TypeOK /\ conn \in Connection
  BY DEF Shape, TypeOK, Connection
<1>1. b \in BusState /\ l \in LawState /\ s \in Seq(Event) /\ queue \in [Connection -> Seq(Event)]
      /\ on = TRUE /\ bus \in [Turn -> SUBSET BusState]
  BY <1>0, StateFacts DEF TypeOK
<1>2. Blocked(t) = {}
  BY DEF Blocked, Waits
<1>3. Reaches(l, s, {}, t, b)
  BY <1>2 DEF Flows
<1>4. \A i \in DOMAIN s: s[i].turn = t => Fits(l, s, i - 1, s[i], t)
  BY DEF Flows
<1>5. conn' = conn /\ law' = law
  BY DEF Frame
<1>6. bus'[t] = {c}
  BY <1>1 DEF Sends
<1>7. c \in BusState
  BY <1>1, PublishedFacts
<1>8. \/ x.pc = then /\ queue' = queue /\ Outgoing(b, t, type, TRUE) = {}
      \/ \E e \in Event:
            /\ e.turn = t /\ Outgoing(b, t, type, TRUE) = {e}
            /\ \/ x.pc = "put" /\ x.event = {e} /\ queue' = queue
               \/ x.pc = then /\ queue' = [queue EXCEPT ![conn] = Append(s, e)]
  BY <1>1 DEF Sends
<1>9. SUFFICES /\ \A i \in DOMAIN s2: s2[i].turn = t => Fits(l, s2, i - 1, s2[i], t)
               /\ \A e \in Blocked(t)': Fits(l, s2, Len(s2), e, t)
               /\ Reaches(l, s2, Blocked(t)', t, c)
  BY <1>5, <1>6 DEF Flows
<1>10. CASE x.pc = then /\ queue' = queue /\ Outgoing(b, t, type, TRUE) = {}
  <2>1. Blocked(t)' = {} /\ s2 = s
    BY <1>10, OnlyBlocked
  <2> HIDE DEF b, l, s, s2, c
  <2>2. Reaches(l, s, {}, t, c)
    BY <1>1, <1>3, <1>10, UnheardReaches DEF c
  <2> QED
    BY <1>4, <2>1, <2>2
<1>11. ASSUME NEW e \in Event, e.turn = t, Outgoing(b, t, type, TRUE) = {e},
              x.pc = "put", x.event = {e}, queue' = queue
       PROVE  /\ \A i \in DOMAIN s2: s2[i].turn = t => Fits(l, s2, i - 1, s2[i], t)
              /\ \A f \in Blocked(t)': Fits(l, s2, Len(s2), f, t)
              /\ Reaches(l, s2, Blocked(t)', t, c)
  <2>1. Blocked(t)' = {e} /\ s2 = s
    BY <1>11, OnlyBlocked
  <2>0. ~Refused(b, type) /\ (type = "commit_final" => b.terminal)
    OBVIOUS
  <2> HIDE DEF b, l, s, s2, c
  <2>2. Fits(l, s, Len(s), e, t) /\ Reaches(l, s, {e}, t, c)
    BY <1>1, <1>3, <1>11, <2>0, HeardFits DEF c
  <2> QED
    BY <1>4, <2>1, <2>2
<1>12. ASSUME NEW e \in Event, e.turn = t, Outgoing(b, t, type, TRUE) = {e},
              x.pc = then, queue' = [queue EXCEPT ![conn] = Append(s, e)]
       PROVE  /\ \A i \in DOMAIN s2: s2[i].turn = t => Fits(l, s2, i - 1, s2[i], t)
              /\ \A f \in Blocked(t)': Fits(l, s2, Len(s2), f, t)
              /\ Reaches(l, s2, Blocked(t)', t, c)
  <2>1. Blocked(t)' = {}
    BY <1>12, OnlyBlocked
  <2>0. ~Refused(b, type) /\ (type = "commit_final" => b.terminal)
    OBVIOUS
  <2>2. s2 = Append(s, e)
    BY <1>0, <1>1, <1>12
  <2> HIDE DEF b, l, s, s2, c
  <2>3. Fits(l, s, Len(s), e, t) /\ Reaches(l, s, {e}, t, c)
    BY <1>1, <1>3, <1>12, <2>0, HeardFits DEF c
  <2>4. Reaches(l, s2, {}, t, c)
    BY <1>1, <1>7, <1>12, <2>2, <2>3, ReachesPut
  <2>5. ASSUME NEW i \in DOMAIN s2, s2[i].turn = t
        PROVE  Fits(l, s2, i - 1, s2[i], t)
    <3>1. i - 1 \in 0..Len(s) /\ s2[i] \in Event
          /\ ((i \in DOMAIN s /\ s2[i] = s[i]) \/ (i - 1 = Len(s) /\ s2[i] = e))
      BY <1>1, <2>2
    <3>2. Fits(l, s, i - 1, s2[i], t)
      BY <1>4, <2>3, <2>5, <3>1
    <3> QED
      BY <1>1, <2>2, <3>1, <3>2, FitsPrefix
  <2> QED
    BY <2>1, <2>4, <2>5
<1> QED
  BY <1>8, <1>10, <1>11, <1>12

\* The step publishes an event of its own turn.
LEMMA PublishStream ==
  ASSUME Shape, NEW p \in Task, NEW t \in Turn, NEW x, Frame(p, t, x), StreamInv(t),
         NEW type \in EventType, NEW r \in TaskState, NEW then \in PC \ {"put"},
         NEW error \in PC \ {"put"}, NEW h \in History,
         Sends(StateOf(t), p, t, type, x, r, then, error, h),
         task[p].pc # "put", session' = session,
         t \notin history.disturbed =>
            t \in session /\ (type = "commit_final" => StateOf(t).terminal),
         turn'[t].terminal # "none" => turn[t].terminal # "none" \/ type \in Terminal
  PROVE  StreamInv(t)'
<1> DEFINE b == StateOf(t)
<1>1. SUFFICES ASSUME t \notin history'.disturbed PROVE StreamInv(t)'
  BY DEF StreamInv
<1>0. TypeOK /\ t \notin history.disturbed /\ t \in session /\ bus \in [Turn -> SUBSET BusState]
      /\ on \in BOOLEAN
  BY <1>1 DEF Shape, Frame, Marks, TypeOK
<1>2. bus[t] = {b} /\ b \in BusState
  BY <1>0, StateFacts DEF StreamInv
<1>3. CASE Refused(b, type)
  <2>1. x.pc # "put" /\ bus'[t] = bus[t] /\ queue' = queue
    BY <1>0, <1>2, <1>3 DEF Sends
  <2>2. type \in Terminal => b.terminal
    BY <1>3 DEF Refused, Terminal, Bounded
  <2>3. turn'[t].terminal # "none" => turn[t].terminal # "none" \/ \A c \in bus[t]: c.terminal
    BY <1>2, <2>2
  <2> QED
    BY <1>0, <2>1, <2>3, QuietStream
<1>4. CASE ~Refused(b, type)
  <2>1. ~Overtakes(p, t) /\ bus'[t] = {Published(b, type, on)}
    BY <1>0, <1>1, <1>4 DEF Sends
  <2>2. \A q \in Task \ {p}: ~Waits(q, t)
    BY <2>1 DEF Overtakes, Waits
  <2>3. \A q \in Task \ {p}: ~Waits(q, t)'
    BY <2>2, OnlyBlocked
  <2>4. Published(b, type, on).terminal = (b.terminal \/ type \in Terminal)
    BY <1>0, <1>2, PublishedFacts
  <2>5. turn'[t].terminal # "none" => \A c \in bus'[t]: c.terminal
    BY <1>0, <1>2, <2>1, <2>4 DEF StreamInv
  <2>6. /\ history'.since = history.since /\ conn' = conn /\ on' = on /\ law' = law
    BY DEF Frame, Marks
  <2>7. on /\ history.since[t] = conn => Flows(t)'
    BY <1>0, <1>2, <1>4, <2>2, FlowsOn DEF StreamInv
  <2> HIDE DEF Waits, Flows, Place
  <2> QED
    BY <1>0, <2>1, <2>3, <2>5, <2>6, <2>7 DEF StreamInv
<1> QED
  BY <1>3, <1>4

\* A blocked event of turn t joins the queue it waits for.
LEMMA PutStream ==
  ASSUME Shape, NEW p \in Task, NEW t \in Turn, NEW x \in TaskState, Frame(p, t, x), StreamInv(t),
         NEW e \in Event, e.turn = t, task[p].pc = "put", task[p].event = {e},
         NEW d \in 1..conn, queue' = [queue EXCEPT ![d] = Append(queue[d], e)],
         history.since[t] <= d, task[p].to = d,
         x.pc # "put", Place(x) = Place(task[p]), bus' = bus, session' = session, turn' = turn,
         history' = history
  PROVE  StreamInv(t)'
<1>1. SUFFICES ASSUME t \notin history.disturbed PROVE StreamInv(t)'
  BY DEF StreamInv
<1>0. TypeOK /\ task \in [Task -> TaskState] /\ queue \in [Connection -> Seq(Event)]
      /\ 1..conn \subseteq Connection /\ conn \in Nat /\ t \in Task
  BY StreamBounds DEF Shape, TypeOK, Connection, Task
<1>2. Waits(p, t)
  BY DEF Waits
<1>3. \A q \in Task \ {p}: ~Waits(q, t)
  BY <1>1, <1>2 DEF StreamInv
<1>4. (\A q \in Task \ {p}: ~Waits(q, t)') /\ Blocked(t)' = {}
  BY <1>3, OnlyBlocked
<1>5. conn' = conn /\ on' = on /\ law' = law /\ (Started(t)' <=> Started(t))
  BY DEF Frame, Started
<1>6. Place(task'[t]) = Place(task[t])
  BY <1>0 DEF Frame, Goes
<1>7. ASSUME on, history.since[t] = conn PROVE Flows(t)'
  <2> DEFINE l == law[conn][t]
             s == queue[conn]
             s2 == queue'[conn]
  <2>1. d = conn
    BY <1>0, <1>7
  <2>2. conn \in Connection /\ l \in LawState /\ s \in Seq(Event) /\ bus[t] \in SUBSET BusState
    BY <1>0, <2>1 DEF TypeOK
  <2>3. s2 = Append(s, e)
    BY <1>0, <2>1, <2>2
  <2>4. Blocked(t) = {e}
    BY <1>3 DEF Blocked, Waits
  <2>5. /\ \A i \in DOMAIN s: s[i].turn = t => Fits(l, s, i - 1, s[i], t)
        /\ Fits(l, s, Len(s), e, t)
        /\ \A b \in bus[t]: Reaches(l, s, {e}, t, b)
    BY <1>1, <1>7, <2>4 DEF StreamInv, Flows
  <2>6. SUFFICES /\ \A i \in DOMAIN s2: s2[i].turn = t => Fits(l, s2, i - 1, s2[i], t)
                 /\ \A b \in bus[t]: Reaches(l, s2, {}, t, b)
    BY <1>4, <1>5 DEF Flows
  <2> HIDE DEF l, s, s2
  <2>7. \A b \in bus[t]: Reaches(l, s2, {}, t, b)
    BY <2>2, <2>3, <2>5, ReachesPut
  <2>8. ASSUME NEW i \in DOMAIN s2, s2[i].turn = t
        PROVE  Fits(l, s2, i - 1, s2[i], t)
    <3>1. i - 1 \in 0..Len(s) /\ s2[i] \in Event
          /\ ((i \in DOMAIN s /\ s2[i] = s[i]) \/ (i - 1 = Len(s) /\ s2[i] = e))
      BY <2>2, <2>3
    <3>2. Fits(l, s, i - 1, s2[i], t)
      BY <2>5, <2>8, <3>1
    <3> QED
      BY <2>2, <2>3, <3>1, <3>2, FitsPrefix
  <2> QED
    BY <2>7, <2>8
<1> HIDE DEF Waits, Flows, Place, Started
<1> QED
  BY <1>1, <1>4, <1>5, <1>6, <1>7 DEF StreamInv

-----------------------------------------------------------------------------
(* Steps that publish nothing, and steps that publish.                         *)

\* Becomes says which task goes on.
LEMMA BecomesGoes ==
  ASSUME NEW p, NEW x, Becomes(p, x)
  PROVE  Goes(p, x)
  BY DEF Becomes, Goes, KeepsLoop

\* Marks on turn t.
LEMMA MarkFacts ==
  ASSUME TypeOK, NEW t \in Turn, NEW h \in History, h.since = history.since,
         h.terminals = history.terminals,
         h.failed \in {history.failed, history.failed \cup {t}},
         h.disturbed \in {history.disturbed, history.disturbed \cup {t}}
  PROVE  Marks(h, t)
  BY DEF Marks

\* The counters stay within their bounds.
LEMMA CountFacts ==
  ASSUME TypeOK
  PROVE  /\ counts \in [requests: 0..MaxRequests, faults: 0..MaxFaults, emits: 0..MaxEmits]
         /\ counts.requests < MaxRequests => [counts EXCEPT !.requests = @ + 1] \in
               [requests: 0..MaxRequests, faults: 0..MaxFaults, emits: 0..MaxEmits]
         /\ counts.faults < MaxFaults => [counts EXCEPT !.faults = @ + 1] \in
               [requests: 0..MaxRequests, faults: 0..MaxFaults, emits: 0..MaxEmits]
         /\ counts.emits < MaxEmits => [counts EXCEPT !.emits = @ + 1] \in
               [requests: 0..MaxRequests, faults: 0..MaxFaults, emits: 0..MaxEmits]
<1>1. counts \in [requests: 0..MaxRequests, faults: 0..MaxFaults, emits: 0..MaxEmits]
  BY DEF TypeOK
<1>2. {MaxRequests, MaxFaults, MaxEmits} \subseteq Nat
  BY StreamBounds
<1> QED
  BY <1>1, <1>2

\* The task of a turn after its step.
LEMMA OwnTaskOK ==
  ASSUME NEW t \in Turn, Started(t)', PutOK(task[t])', task'[t].turn = {t},
         task'[t].error \in {"failed", "done"}, Place(task'[t]) # "idle"
  PROVE  TaskOK(t)'
<1>1. t \notin Client
  BY ClientsAreNotTurns
<1> QED
  BY <1>1 DEF TaskOK

\* A client after its step.
LEMMA ClientTaskOK ==
  ASSUME NEW c \in Client, NEW t \in Turn, Started(t)', PutOK(task[c])', task'[c].turn = {t},
         task'[c].error = "idle", Place(task'[c]) \in {"idle", "startCommit", "commit", "trace"}
  PROVE  TaskOK(c)'
<1>1. c \notin Turn
  BY ClientsAreNotTurns
<1> QED
  BY <1>1 DEF TaskOK

\* A step that publishes nothing, decides nothing and writes no commit.
LEMMA QuietStep ==
  ASSUME Inv, NEW p \in Task, NEW t \in Turn, NEW x \in TaskState, Goes(p, x),
         x.turn \subseteq {t}, p \in Turn => p = t, Started(t),
         task[p].turn = {t} \/ task[p].pc = "idle", task[p].pc \notin {"put", "done"},
         x.pc # "put", TaskOK(p)',
         turn' = turn, session' = session, bus' = bus, queue' = queue, conn' = conn, on' = on,
         law' = law, commits' = commits,
         intents' \in [Turn -> SUBSET Intent], \A u \in Turn \ {t}: intents'[u] = intents[u],
         counts' \in [requests: 0..MaxRequests, faults: 0..MaxFaults, emits: 0..MaxEmits],
         Marks(history', t), history'.terminals = history.terminals,
         Commits(p, t)' => Commits(p, t) /\ (Place(x) = "trace" <=> Place(task[p]) = "trace"),
         FailInv(t)'
  PROVE  Inv'
<1>0. Shape /\ TypeOK /\ CommitInv(t) /\ TerminalInv(t) /\ FailInv(t) /\ StreamInv(t)
  BY DEF Inv, Shape
<1>1. Frame(p, t, x)
  <2>1. turn \in [Turn -> TurnState] /\ commits \in [Turn -> Seq({"ok", "fail_closed"})]
        /\ bus \in [Turn -> SUBSET BusState] /\ \A b, c \in bus[t]: b = c
    BY <1>0 DEF TypeOK
  <2>2. Queues(t)
    BY DEF Queues
  <2> QED
    BY <2>1, <2>2 DEF Frame
<1>2. CommitInv(t)'
  BY <1>0, <1>1, CommitKept
<1>3. TerminalInv(t)'
  BY <1>0, <1>1, TerminalKept
<1>4. p = t /\ t \notin history.disturbed => t \in session
  BY <1>0 DEF StreamInv, Place
<1>5. StreamInv(t)'
  BY <1>0, <1>1, <1>4, QuietStream
<1> QED
  BY <1>1, <1>2, <1>3, <1>5, FrameInv

\* A step that publishes an event of turn t touches no other turn.
LEMMA PublishFrame ==
  ASSUME Shape, NEW p \in Task, NEW t \in Turn, NEW x \in TaskState,
         NEW type \in EventType, NEW r \in TaskState, NEW then \in PC \ {"put"},
         NEW error \in PC \ {"put"}, NEW h \in History,
         Sends(StateOf(t), p, t, type, x, r, then, error, h), r.turn = {t}, p \in Turn => p = t,
         task[p].turn = {t} \/ task[p].pc = "idle", Marks(h, t),
         turn' \in [Turn -> TurnState], \A u \in Turn: turn'[u].kind = turn[u].kind,
         \A u \in Turn \ {t}: turn'[u] = turn[u] /\ commits'[u] = commits[u],
         intents' = intents, commits' \in [Turn -> Seq({"ok", "fail_closed"})],
         session' = session, conn' = conn, on' = on, law' = law,
         counts' \in [requests: 0..MaxRequests, faults: 0..MaxFaults, emits: 0..MaxEmits]
  PROVE  Frame(p, t, x) /\ PutOK(task[p])'
<1> DEFINE b == StateOf(t)
<1>0. TypeOK /\ (on => conn # 0) /\ bus \in [Turn -> SUBSET BusState] /\ on \in BOOLEAN
      /\ intents \in [Turn -> SUBSET Intent] /\ task \in [Task -> TaskState]
      /\ history \in History /\ history.since[t] <= conn /\ conn \in Nat
  BY StreamBounds DEF Shape, TypeOK
<1>1. x \in TaskState /\ Goes(p, x) /\ x.turn = {t} /\ b \in BusState
  BY <1>0, StateFacts DEF Sends
<1>2. Published(b, type, on) \in BusState
  BY <1>0, <1>1, PublishedFacts
<1>3. /\ bus' \in [Turn -> SUBSET BusState] /\ \A c, d \in bus'[t]: c = d
      /\ \A u \in Turn \ {t}: bus'[u] = bus[u]
  <2>1. PICK c \in BusState: bus' = [bus EXCEPT ![t] = {c}]
    BY <1>1, <1>2 DEF Sends
  <2> QED
    BY <1>0, <2>1
<1>4. Queues(t)
  <2>1. on => conn \in 1..conn
    BY <1>0
  <2> QED
    BY <2>1 DEF Sends, Queues
<1>5. Marks(history', t)
  <2>1. CASE Refused(b, type)
    BY <2>1 DEF Sends
  <2>2. CASE ~Refused(b, type)
    <3>1. h.terminals \in [Turn -> Seq(Terminal)]
      BY DEF Marks, History
    <3>2. /\ history' \in History
          /\ history'.failed = h.failed /\ history'.since = h.since
          /\ h.disturbed \subseteq history'.disturbed
          /\ history'.disturbed \subseteq h.disturbed \cup {t}
          /\ history'.terminals =
                 [h.terminals EXCEPT ![t] = IF type \in Terminal THEN Append(h.terminals[t], type)
                                            ELSE h.terminals[t]]
      BY <2>2 DEF Sends
    <3>3. \A u \in Turn \ {t}: history'.terminals[u] = h.terminals[u]
      BY <3>1, <3>2
    <3> QED
      BY <3>2, <3>3 DEF Marks
  <2> QED
    BY <2>1, <2>2
<1>6. Frame(p, t, x)
  BY <1>0, <1>1, <1>3, <1>4, <1>5 DEF Frame
<1>7. task'[p] = x
  BY <1>0, <1>1 DEF Goes
<1>8. PutOK(task[p])'
  <2>1. SUFFICES ASSUME x.pc = "put" PROVE PutOK(x)'
    BY <1>7 DEF PutOK
  <2>2. ~Refused(b, type)
    BY <2>1 DEF Sends
  <2>3. PICK e \in Event: on /\ e.turn = t /\ x.event = {e} /\ x.to = conn /\ x.then = then
    BY <2>1, <2>2 DEF Sends
  <2>4. history'.since = history.since
    BY <1>5 DEF Marks
  <2>5. x.then # "put" /\ conn' = conn
    BY <2>3
  <2>6. x.to \in 1..conn /\ x.turn = {e.turn}
    BY <1>0, <1>1, <2>3
  <2>7. history'.since[e.turn] <= x.to
    BY <1>0, <2>3, <2>4
  <2> QED
    BY <2>3, <2>5, <2>6, <2>7 DEF PutOK
<1> QED
  BY <1>6, <1>8

\* Where the publisher goes on.
LEMMA SendsPlace ==
  ASSUME TypeOK, NEW b \in BusState, NEW p \in Task, NEW t \in Turn, NEW type \in EventType,
         NEW x \in TaskState, NEW r \in TaskState, NEW then \in PC \ {"put"},
         NEW error \in PC \ {"put"}, NEW h \in History,
         Sends(b, p, t, type, x, r, then, error, h)
  PROVE  /\ Goes(p, x) /\ task'[p] = x /\ x.turn = r.turn /\ x.error = r.error
         /\ Refused(b, type) => Place(x) = error
         /\ ~Refused(b, type) => Place(x) = then
<1>1. task \in [Task -> TaskState]
  BY DEF TypeOK
<1>2. Goes(p, x) /\ x.turn = r.turn /\ x.error = r.error
  BY DEF Sends
<1>3. task'[p] = x
  BY <1>1, <1>2 DEF Goes
<1>4. Refused(b, type) => Place(x) = error
  BY DEF Sends, Place
<1>5. ~Refused(b, type) => Place(x) = then
  BY DEF Sends
<1> QED
  BY <1>2, <1>3, <1>4, <1>5

\* The task of a turn that has begun.
LEMMA OwnTask ==
  ASSUME Shape, NEW t \in Turn, task[t].pc # "idle"
  PROVE  /\ t \in Task /\ t \notin Client /\ Started(t) /\ task[t] \in TaskState
         /\ task[t].turn = {t} /\ task[t].error \in {"failed", "done"}
<1>1. t \in Task /\ t \notin Client
  BY ClientsAreNotTurns DEF Task
<1>2. TaskOK(t) /\ task[t] \in TaskState
  BY <1>1 DEF Shape, TypeOK
<1> QED
  BY <1>1, <1>2 DEF TaskOK, IdleTask

\* The turn's own task takes the step.
LEMMA FailByOwn ==
  ASSUME Shape, NEW t \in Turn, NEW x, Goes(t, x), Marks(history', t), FailInv(t),
         t \notin history'.disturbed =>
            /\ Place(x) \in {"run", "requested", "manifest"} =>
                  ~turn'[t].commitStarted /\ t \notin history'.failed
            /\ t \in history'.failed =>
                  /\ commits'[t] \in {<<>>, <<"fail_closed">>}
                  /\ Place(x) \in {"cancelFirst", "finalize", "startCommit"} =>
                        "fail_closed" \in intents'[t]
                  /\ Place(x) = "commit" => "fail_closed" \in x.intents
  PROVE  FailInv(t)'
<1>0. task \in [Task -> TaskState] /\ t \in Task
  BY DEF Shape, TypeOK, Task
<1>1. task'[t] = x /\ \A q \in Task: task'[q] = task[q] \/ q = t
  BY <1>0 DEF Goes
<1>2. t \notin history'.disturbed => t \notin history.disturbed
  BY DEF Marks
<1>3. t \notin history'.disturbed => \A q \in Task: Commits(q, t)' => q = t
  BY <1>1, <1>2 DEF FailInv, Commits
<1> HIDE DEF Commits, Place
<1> QED
  BY <1>1, <1>3 DEF FailInv

\* A step of a turn's own task, at work on its workload or on the way to
\* finalize.
LEMMA OwnQuietStep ==
  ASSUME Inv, NEW t \in Turn, NEW x \in TaskState, Goes(t, x), x.turn = {t},
         x.error \in {"failed", "done"},
         task[t].pc \notin {"idle", "put", "done"}, x.pc \notin {"put", "idle", "startCommit", "trace"},
         x.pc = "commit" => task[t].pc = "startCommit",
         turn' = turn, session' = session, bus' = bus, queue' = queue, conn' = conn, on' = on,
         law' = law, commits' = commits,
         intents' \in [Turn -> SUBSET Intent], \A u \in Turn \ {t}: intents'[u] = intents[u],
         counts' \in [requests: 0..MaxRequests, faults: 0..MaxFaults, emits: 0..MaxEmits],
         Marks(history', t), history'.terminals = history.terminals,
         t \notin history'.disturbed =>
            /\ x.pc \in {"run", "requested", "manifest"} =>
                  ~turn[t].commitStarted /\ t \notin history'.failed
            /\ t \in history'.failed =>
                  /\ commits[t] \in {<<>>, <<"fail_closed">>}
                  /\ x.pc \in {"cancelFirst", "finalize", "startCommit"} =>
                        "fail_closed" \in intents'[t]
                  /\ x.pc = "commit" => "fail_closed" \in x.intents
  PROVE  Inv'
<1>0. Shape /\ TypeOK /\ FailInv(t)
  BY DEF Inv, Shape
<1>1. /\ t \in Task /\ t \notin Client /\ Started(t) /\ task[t] \in TaskState
      /\ task[t].turn = {t}
  BY <1>0, OwnTask
<1>2. task'[t] = x /\ Place(x) = x.pc /\ Place(task[t]) = task[t].pc
  BY <1>0, <1>1 DEF Goes, TypeOK, Place
<1>3. Started(t)'
  BY <1>1 DEF Started
<1>4. PutOK(task[t])'
  BY <1>2 DEF PutOK
<1>5. TaskOK(t)'
  BY <1>2, <1>3, <1>4, OwnTaskOK
<1>6. Commits(t, t)' => Commits(t, t) /\ (Place(x) = "trace" <=> Place(task[t]) = "trace")
  BY <1>1, <1>2 DEF Commits
<1>7. FailInv(t)'
  BY <1>0, <1>2, FailByOwn
<1> QED
  BY <1>1, <1>2, <1>5, <1>6, <1>7, QuietStep

-----------------------------------------------------------------------------
(* The steps of a turn's task that publish nothing.                            *)

\* A workload that runs undisturbed is not committed yet and has not failed.
LEMMA RunningFacts ==
  ASSUME Inv, NEW t \in Turn, Place(task[t]) \in {"run", "requested", "manifest"},
         t \notin history.disturbed
  PROVE  ~turn[t].commitStarted /\ t \notin history.failed /\ commits[t] = <<>>
<1>1. FailInv(t) /\ CommitInv(t)
  BY DEF Inv
<1> QED
  BY <1>1 DEF FailInv, CommitInv

\* The histories that steps write.
LEMMA HistoryFacts ==
  ASSUME TypeOK, NEW t \in Turn
  PROVE  /\ Marks(history, t)
         /\ LET h == [history EXCEPT !.failed = @ \cup {t}]
            IN  /\ Marks(h, t) /\ h.terminals = history.terminals
                /\ h.disturbed = history.disturbed /\ h.failed = history.failed \cup {t}
         /\ LET h == [history EXCEPT !.failed = @ \cup {t}, !.escaped = @ \cup {t}]
            IN  /\ Marks(h, t) /\ h.terminals = history.terminals
                /\ h.disturbed = history.disturbed /\ h.failed = history.failed \cup {t}
         /\ LET h == [history EXCEPT !.failed = @ \cup {t}, !.disturbed = @ \cup {t}]
            IN  Marks(h, t) /\ h.terminals = history.terminals /\ t \in h.disturbed
         /\ LET h == [history EXCEPT !.failed = @ \cup {t}, !.writeFailed = TRUE]
            IN  /\ Marks(h, t) /\ h.terminals = history.terminals
                /\ h.disturbed = history.disturbed /\ h.failed = history.failed \cup {t}
         /\ LET h == [history EXCEPT !.writeFailed = TRUE]
            IN  /\ Marks(h, t) /\ h.terminals = history.terminals
                /\ h.disturbed = history.disturbed /\ h.failed = history.failed
<1>0. history \in History
  BY DEF TypeOK
<1>1. Marks(history, t)
  BY DEF Marks, TypeOK
<1>2. ASSUME NEW h, h = [history EXCEPT !.failed = @ \cup {t}]
      PROVE  /\ Marks(h, t) /\ h.terminals = history.terminals
             /\ h.disturbed = history.disturbed /\ h.failed = history.failed \cup {t}
  <2>1. h \in History /\ h.terminals = history.terminals /\ h.since = history.since
        /\ h.disturbed = history.disturbed /\ h.failed = history.failed \cup {t}
    BY <1>0, <1>2 DEF History
  <2> QED
    BY <2>1, MarkFacts
<1>3. ASSUME NEW h, h = [history EXCEPT !.failed = @ \cup {t}, !.disturbed = @ \cup {t}]
      PROVE  Marks(h, t) /\ h.terminals = history.terminals /\ t \in h.disturbed
  <2>1. h \in History /\ h.terminals = history.terminals /\ h.since = history.since
        /\ h.disturbed = history.disturbed \cup {t} /\ h.failed = history.failed \cup {t}
    BY <1>0, <1>3 DEF History
  <2> QED
    BY <2>1, MarkFacts
<1>4. ASSUME NEW h, h = [history EXCEPT !.failed = @ \cup {t}, !.writeFailed = TRUE]
      PROVE  /\ Marks(h, t) /\ h.terminals = history.terminals
             /\ h.disturbed = history.disturbed /\ h.failed = history.failed \cup {t}
  <2>1. h \in History /\ h.terminals = history.terminals /\ h.since = history.since
        /\ h.disturbed = history.disturbed /\ h.failed = history.failed \cup {t}
    BY <1>0, <1>4 DEF History
  <2> QED
    BY <2>1, MarkFacts
<1>5. ASSUME NEW h, h = [history EXCEPT !.writeFailed = TRUE]
      PROVE  /\ Marks(h, t) /\ h.terminals = history.terminals
             /\ h.disturbed = history.disturbed /\ h.failed = history.failed
  <2>1. h \in History /\ h.terminals = history.terminals /\ h.since = history.since
        /\ h.disturbed = history.disturbed /\ h.failed = history.failed
    BY <1>0, <1>5 DEF History
  <2> QED
    BY <2>1, MarkFacts
<1>6. ASSUME NEW h, h = [history EXCEPT !.failed = @ \cup {t}, !.escaped = @ \cup {t}]
      PROVE  /\ Marks(h, t) /\ h.terminals = history.terminals
             /\ h.disturbed = history.disturbed /\ h.failed = history.failed \cup {t}
  <2>1. h \in History /\ h.terminals = history.terminals /\ h.since = history.since
        /\ h.disturbed = history.disturbed /\ h.failed = history.failed \cup {t}
    BY <1>0, <1>6 DEF History
  <2> QED
    BY <2>1, MarkFacts
<1> QED
  BY <1>1, <1>2, <1>3, <1>4, <1>5, <1>6

\* The record of a task that only goes on.
LEMMA PcFacts ==
  ASSUME NEW r \in TaskState, NEW pc \in PC
  PROVE  LET x == [r EXCEPT !.pc = pc]
         IN  /\ x \in TaskState /\ x.pc = pc /\ x.turn = r.turn /\ x.error = r.error
             /\ x.intents = r.intents
  BY DEF TaskState

\* An intent joins those of turn t.
LEMMA IntentFacts ==
  ASSUME TypeOK, NEW t \in Turn, NEW i \in Intent, intents' = [intents EXCEPT ![t] = @ \cup {i}]
  PROVE  /\ intents' \in [Turn -> SUBSET Intent] /\ i \in intents'[t]
         /\ \A u \in Turn \ {t}: intents'[u] = intents[u]
         /\ \A j \in intents[t]: j \in intents'[t]
<1>1. intents \in [Turn -> SUBSET Intent]
  BY DEF TypeOK
<1> QED
  BY <1>1

\* A canceled model stream stops; nothing failed.
LEMMA WorkStopsInv ==
  ASSUME Inv, NEW t \in Turn, WorkStops(t)
  PROVE  Inv'
<1>0. Shape /\ TypeOK /\ task[t].pc = "run" /\ Place(task[t]) = "run"
  BY DEF Inv, Shape, WorkStops, Place
<1>1. task[t] \in TaskState /\ task[t].turn = {t} /\ task[t].error \in {"failed", "done"}
  BY <1>0, OwnTask
<1> DEFINE x == [task[t] EXCEPT !.pc = "cancelFirst"]
<1>2. x \in TaskState /\ x.pc = "cancelFirst" /\ x.turn = {t} /\ x.error \in {"failed", "done"}
  BY <1>1, PcFacts DEF PC
<1>3. /\ Becomes(t, x) /\ turn' = turn /\ session' = session /\ bus' = bus /\ queue' = queue
      /\ conn' = conn /\ on' = on /\ law' = law /\ commits' = commits /\ intents' = intents
      /\ counts' = counts /\ history' = history
  BY DEF WorkStops, manager, wire
<1> HIDE DEF x
<1>4. Goes(t, x) /\ Marks(history', t)
  BY <1>0, <1>3, BecomesGoes, HistoryFacts
<1>5. intents' \in [Turn -> SUBSET Intent]
      /\ counts' \in [requests: 0..MaxRequests, faults: 0..MaxFaults, emits: 0..MaxEmits]
  BY <1>0, <1>3 DEF TypeOK
<1>6. t \notin history.disturbed => t \notin history.failed
  BY <1>0, RunningFacts
<1> QED
  BY <1>0, <1>2, <1>3, <1>4, <1>5, <1>6, OwnQuietStep

\* A workload raises: its handler is still to ask for fail_closed.
LEMMA WorkFailsInv ==
  ASSUME Inv, NEW t \in Turn, WorkFails(t)
  PROVE  Inv'
<1>0. Shape /\ TypeOK /\ task[t].pc = "run" /\ Place(task[t]) = "run"
  BY DEF Inv, Shape, WorkFails, Place
<1>1. task[t] \in TaskState /\ task[t].turn = {t} /\ task[t].error \in {"failed", "done"}
  BY <1>0, OwnTask
<1> DEFINE x == [task[t] EXCEPT !.pc = "failed"]
<1>2. x \in TaskState /\ x.pc = "failed" /\ x.turn = {t} /\ x.error \in {"failed", "done"}
  BY <1>1, PcFacts DEF PC
<1>3. /\ Becomes(t, x) /\ turn' = turn /\ session' = session /\ bus' = bus /\ queue' = queue
      /\ conn' = conn /\ on' = on /\ law' = law /\ commits' = commits /\ intents' = intents
      /\ counts' = counts /\ history' = [history EXCEPT !.failed = @ \cup {t}]
  BY DEF WorkFails, manager, wire
<1> HIDE DEF x
<1>4. Goes(t, x) /\ Marks(history', t) /\ history'.terminals = history.terminals
      /\ history'.disturbed = history.disturbed
  BY <1>0, <1>3, BecomesGoes, HistoryFacts
<1>5. intents' \in [Turn -> SUBSET Intent]
      /\ counts' \in [requests: 0..MaxRequests, faults: 0..MaxFaults, emits: 0..MaxEmits]
  BY <1>0, <1>3 DEF TypeOK
<1>6. t \notin history.disturbed => commits[t] = <<>>
  BY <1>0, RunningFacts
<1> QED
  BY <1>0, <1>2, <1>3, <1>4, <1>5, <1>6, OwnQuietStep

\* An exception escapes: the task ends, and only a client may finalize the turn.
LEMMA WorkEscapesInv ==
  ASSUME Inv, NEW t \in Turn, WorkEscapes(t)
  PROVE  Inv'
<1>0. Shape /\ TypeOK /\ task[t].pc = "run" /\ Place(task[t]) = "run"
  BY DEF Inv, Shape, WorkEscapes, Place
<1>1. task[t] \in TaskState /\ task[t].turn = {t} /\ task[t].error \in {"failed", "done"}
  BY <1>0, OwnTask
<1> DEFINE x == [task[t] EXCEPT !.pc = "done"]
<1>2. x \in TaskState /\ x.pc = "done" /\ x.turn = {t} /\ x.error \in {"failed", "done"}
  BY <1>1, PcFacts DEF PC, Waiting
<1>3. /\ Becomes(t, x) /\ turn' = turn /\ session' = session /\ bus' = bus /\ queue' = queue
      /\ conn' = conn /\ on' = on /\ law' = law /\ commits' = commits /\ intents' = intents
      /\ counts' = counts /\ history' = [history EXCEPT !.failed = @ \cup {t}, !.escaped = @ \cup {t}]
  BY DEF WorkEscapes, manager, wire
<1> HIDE DEF x
<1>4. Goes(t, x) /\ Marks(history', t) /\ history'.terminals = history.terminals
      /\ history'.disturbed = history.disturbed
  BY <1>0, <1>3, BecomesGoes, HistoryFacts
<1>5. intents' \in [Turn -> SUBSET Intent]
      /\ counts' \in [requests: 0..MaxRequests, faults: 0..MaxFaults, emits: 0..MaxEmits]
  BY <1>0, <1>3 DEF TypeOK
<1>6. t \notin history.disturbed => commits[t] = <<>>
  BY <1>0, RunningFacts
<1> QED
  BY <1>0, <1>2, <1>3, <1>4, <1>5, <1>6, OwnQuietStep

\* The extension executor requests its commit.
LEMMA RequestedInv ==
  ASSUME Inv, NEW t \in Turn, Requested(t)
  PROVE  Inv'
<1>0. Shape /\ TypeOK /\ task[t].pc = "requested" /\ Place(task[t]) = "requested"
  BY DEF Inv, Shape, Requested, Place
<1>1. task[t] \in TaskState /\ task[t].turn = {t} /\ task[t].error \in {"failed", "done"}
  BY <1>0, OwnTask
<1> DEFINE x == [task[t] EXCEPT !.pc = "manifest"]
<1>2. x \in TaskState /\ x.pc = "manifest" /\ x.turn = {t} /\ x.error \in {"failed", "done"}
  BY <1>1, PcFacts DEF PC, Waiting
<1>3. /\ Becomes(t, x) /\ turn' = turn /\ session' = session /\ bus' = bus /\ queue' = queue
      /\ conn' = conn /\ on' = on /\ law' = law /\ commits' = commits
      /\ intents' = [intents EXCEPT ![t] = @ \cup {"turn_finalize"}]
      /\ counts' = counts /\ history' = history
  BY DEF Requested, wire
<1> HIDE DEF x
<1>4. Goes(t, x) /\ Marks(history', t)
  BY <1>0, <1>3, BecomesGoes, HistoryFacts
<1>5. /\ intents' \in [Turn -> SUBSET Intent] /\ \A u \in Turn \ {t}: intents'[u] = intents[u]
      /\ counts' \in [requests: 0..MaxRequests, faults: 0..MaxFaults, emits: 0..MaxEmits]
  BY <1>0, <1>3, IntentFacts DEF TypeOK, Intent
<1>6. t \notin history.disturbed => ~turn[t].commitStarted /\ t \notin history.failed
  BY <1>0, RunningFacts
<1> QED
  BY <1>0, <1>2, <1>3, <1>4, <1>5, <1>6, OwnQuietStep

\* The manifest is written, or the write fails the turn.
LEMMA ManifestInv ==
  ASSUME Inv, NEW t \in Turn, Manifest(t)
  PROVE  Inv'
<1>0. Shape /\ TypeOK /\ task[t].pc = "manifest" /\ Place(task[t]) = "manifest"
  BY DEF Inv, Shape, Manifest, Place
<1>1. task[t] \in TaskState /\ task[t].turn = {t} /\ task[t].error \in {"failed", "done"}
  BY <1>0, OwnTask
<1>2. /\ turn' = turn /\ session' = session /\ bus' = bus /\ queue' = queue
      /\ conn' = conn /\ on' = on /\ law' = law /\ commits' = commits /\ intents' = intents
  BY DEF Manifest, manager, wire
<1>3. intents' \in [Turn -> SUBSET Intent] /\ \A u \in Turn \ {t}: intents'[u] = intents[u]
  BY <1>0, <1>2 DEF TypeOK
<1>4. t \notin history.disturbed => t \notin history.failed /\ commits[t] = <<>>
  BY <1>0, RunningFacts
<1>5. CASE /\ Becomes(t, [task[t] EXCEPT !.pc = "finalize"])
           /\ UNCHANGED <<counts, history>>
  <2> DEFINE x == [task[t] EXCEPT !.pc = "finalize"]
  <2>1. x \in TaskState /\ x.pc = "finalize" /\ x.turn = {t} /\ x.error \in {"failed", "done"}
    BY <1>1, PcFacts DEF PC
  <2>2. Becomes(t, x) /\ counts' = counts /\ history' = history
    BY <1>5
  <2> HIDE DEF x
  <2>3. Goes(t, x) /\ Marks(history', t)
        /\ counts' \in [requests: 0..MaxRequests, faults: 0..MaxFaults, emits: 0..MaxEmits]
    BY <1>0, <2>2, BecomesGoes, HistoryFacts, CountFacts
  <2> QED
    BY <1>0, <1>2, <1>3, <1>4, <2>1, <2>2, <2>3, OwnQuietStep
<1>6. CASE /\ counts.faults < MaxFaults
           /\ counts' = [counts EXCEPT !.faults = @ + 1]
           /\ history' = [history EXCEPT !.failed = @ \cup {t}, !.writeFailed = TRUE]
           /\ Becomes(t, [task[t] EXCEPT !.pc = "failed"])
  <2> DEFINE x == [task[t] EXCEPT !.pc = "failed"]
  <2>1. x \in TaskState /\ x.pc = "failed" /\ x.turn = {t} /\ x.error \in {"failed", "done"}
    BY <1>1, PcFacts DEF PC
  <2>2. Becomes(t, x)
    BY <1>6
  <2> HIDE DEF x
  <2>3. Goes(t, x) /\ Marks(history', t) /\ history'.terminals = history.terminals
        /\ history'.disturbed = history.disturbed
    BY <1>0, <1>6, <2>2, BecomesGoes, HistoryFacts
  <2>4. counts' \in [requests: 0..MaxRequests, faults: 0..MaxFaults, emits: 0..MaxEmits]
    BY <1>0, <1>6, CountFacts
  <2> QED
    BY <1>0, <1>2, <1>3, <1>4, <2>1, <2>3, <2>4, OwnQuietStep
<1> QED
  BY <1>5, <1>6 DEF Manifest

\* The exception handler asks for fail_closed before it finalizes.
LEMMA FailClosedIntentInv ==
  ASSUME Inv, NEW t \in Turn, FailClosedIntent(t)
  PROVE  Inv'
<1>0. Shape /\ TypeOK /\ FailInv(t) /\ task[t].pc = "failedCanceled"
  BY DEF Inv, Shape, FailClosedIntent
<1>1. task[t] \in TaskState /\ task[t].turn = {t}
  BY <1>0, OwnTask
<1> DEFINE x == [task[t] EXCEPT !.pc = "finalize", !.error = "done"]
<1>2. x \in TaskState /\ x.pc = "finalize" /\ x.turn = {t} /\ x.error = "done"
  BY <1>1 DEF PC, Waiting, TaskState
<1>3. /\ Becomes(t, x) /\ turn' = turn /\ session' = session /\ bus' = bus /\ queue' = queue
      /\ conn' = conn /\ on' = on /\ law' = law /\ commits' = commits
      /\ intents' = [intents EXCEPT ![t] = @ \cup {"fail_closed"}]
      /\ counts' = counts /\ history' = history
  BY DEF FailClosedIntent, wire
<1> HIDE DEF x
<1>4. Goes(t, x) /\ Marks(history', t)
  BY <1>0, <1>3, BecomesGoes, HistoryFacts
<1>5. /\ intents' \in [Turn -> SUBSET Intent] /\ \A u \in Turn \ {t}: intents'[u] = intents[u]
      /\ counts' \in [requests: 0..MaxRequests, faults: 0..MaxFaults, emits: 0..MaxEmits]
      /\ "fail_closed" \in intents'[t]
  BY <1>0, <1>3, IntentFacts DEF TypeOK, Intent
<1>6. t \notin history.disturbed /\ t \in history.failed => commits[t] \in {<<>>, <<"fail_closed">>}
  BY <1>0 DEF FailInv
<1> QED
  BY <1>0, <1>2, <1>3, <1>4, <1>5, <1>6, OwnQuietStep

\* A provider failure asks for fail_closed; one in a blocked put disturbs the
\* turn.
LEMMA ProviderFailsInv ==
  ASSUME Inv, NEW t \in Turn, ProviderFails(t)
  PROVE  Inv'
<1>0. Shape /\ TypeOK /\ CommitInv(t) /\ TerminalInv(t)
  BY DEF Inv, Shape
<1>1. task[t].pc \in {"run", "put"} /\ Place(task[t]) = "run"
  BY DEF ProviderFails, Place
<1>2. t \in Task /\ Started(t)
      /\ task[t] \in TaskState /\ task[t].turn = {t} /\ task[t].error \in {"failed", "done"}
  BY <1>0, <1>1, OwnTask
<1> DEFINE x == [task[t] EXCEPT !.pc = "cancelFirst", !.event = {}, !.to = 0, !.then = "idle"]
<1>3. x \in TaskState /\ x.pc = "cancelFirst" /\ x.turn = {t} /\ x.error \in {"failed", "done"}
  <2>1. 0 \in 0..MaxConnections /\ {} \in SUBSET Event
    BY StreamBounds
  <2> QED
    BY <1>2, <2>1 DEF PC, Waiting, TaskState
<1>4. /\ Becomes(t, x) /\ turn' = turn /\ session' = session /\ bus' = bus /\ queue' = queue
      /\ conn' = conn /\ on' = on /\ law' = law /\ commits' = commits
      /\ intents' = [intents EXCEPT ![t] = @ \cup {"fail_closed"}]
  BY DEF ProviderFails, wire
<1> HIDE DEF x
<1>5. Goes(t, x)
  BY <1>4, BecomesGoes
<1>6. /\ intents' \in [Turn -> SUBSET Intent] /\ \A u \in Turn \ {t}: intents'[u] = intents[u]
      /\ "fail_closed" \in intents'[t]
  BY <1>0, <1>4, IntentFacts DEF Intent
<1>7. CASE task[t].pc = "run"
  <2>1. counts' = counts /\ history' = [history EXCEPT !.failed = @ \cup {t}]
    BY <1>7 DEF ProviderFails
  <2>2. Marks(history', t) /\ history'.terminals = history.terminals
        /\ history'.disturbed = history.disturbed
    BY <1>0, <2>1, HistoryFacts
  <2>3. counts' \in [requests: 0..MaxRequests, faults: 0..MaxFaults, emits: 0..MaxEmits]
    BY <1>0, <2>1 DEF TypeOK
  <2>4. t \notin history.disturbed => commits[t] = <<>>
    BY <1>1, RunningFacts
  <2> QED
    BY <1>0, <1>3, <1>4, <1>5, <1>6, <1>7, <2>2, <2>3, <2>4, OwnQuietStep
<1>8. CASE task[t].pc = "put"
  <2>1. /\ counts.faults < MaxFaults /\ counts' = [counts EXCEPT !.faults = @ + 1]
        /\ history' = [history EXCEPT !.failed = @ \cup {t}, !.disturbed = @ \cup {t}]
    BY <1>8 DEF ProviderFails
  <2>2. Marks(history', t) /\ history'.terminals = history.terminals /\ t \in history'.disturbed
    BY <1>0, <2>1, HistoryFacts
  <2>3. counts' \in [requests: 0..MaxRequests, faults: 0..MaxFaults, emits: 0..MaxEmits]
    BY <1>0, <2>1, CountFacts
  <2>4. task'[t] = x /\ Place(x) = "cancelFirst"
    BY <1>0, <1>2, <1>3, <1>5 DEF Goes, TypeOK, Place
  <2>5. Frame(t, t, x)
    <3>1. turn \in [Turn -> TurnState] /\ commits \in [Turn -> Seq({"ok", "fail_closed"})]
          /\ bus \in [Turn -> SUBSET BusState] /\ \A b, c \in bus[t]: b = c
      BY <1>0 DEF TypeOK
    <3>2. Queues(t)
      BY <1>4 DEF Queues
    <3> QED
      BY <1>2, <1>3, <1>4, <1>5, <1>6, <2>2, <2>3, <3>1, <3>2 DEF Frame
  <2>6. TaskOK(t)'
    <3>1. PutOK(task[t])'
      BY <1>3, <2>4 DEF PutOK
    <3>2. Started(t)'
      BY <1>2, <1>4 DEF Started
    <3> QED
      BY <1>3, <2>4, <3>1, <3>2, OwnTaskOK
  <2>7. CommitInv(t)'
    <3>1. ~Commits(t, t)'
      BY <2>4 DEF Commits
    <3> QED
      BY <1>0, <1>2, <1>4, <2>5, <3>1, CommitKept
  <2>8. TerminalInv(t)'
    BY <1>0, <1>2, <1>4, <2>2, <2>5, TerminalKept
  <2>9. FailInv(t)' /\ StreamInv(t)'
    BY <2>2 DEF FailInv, StreamInv
  <2> QED
    BY <1>2, <2>5, <2>6, <2>7, <2>8, <2>9, FrameInv
<1> QED
  BY <1>1, <1>7, <1>8

\* A step of a client that publishes nothing, decides nothing and writes no
\* commit.
LEMMA ClientQuietStep ==
  ASSUME Inv, NEW c \in Client, NEW t \in Turn, NEW x \in TaskState, Goes(c, x),
         x.turn \subseteq {t}, Started(t), TaskOK(c)',
         task[c].turn = {t} \/ task[c].pc = "idle", task[c].pc \notin {"put", "done"},
         x.pc # "put", x.pc \in {"startCommit", "commit", "trace"} =>
                          x.pc = "commit" /\ task[c].pc = "startCommit",
         turn' = turn, session' = session, bus' = bus, queue' = queue, conn' = conn, on' = on,
         law' = law, commits' = commits, intents' = intents,
         counts' \in [requests: 0..MaxRequests, faults: 0..MaxFaults, emits: 0..MaxEmits],
         Marks(history', t), history'.terminals = history.terminals,
         history'.failed = history.failed
  PROVE  Inv'
<1>0. Shape /\ TypeOK /\ FailInv(t) /\ c \in Task /\ c \notin Turn /\ c # t
      /\ intents' \in [Turn -> SUBSET Intent]
  BY ClientsAreNotTurns DEF Inv, Shape, TypeOK, Task
<1>1. task'[c] = x /\ Place(x) = x.pc /\ Place(task[c]) = task[c].pc
  BY <1>0 DEF Goes, TypeOK, Place
<1>2. Commits(c, t)' => Commits(c, t) /\ (Place(x) = "trace" <=> Place(task[c]) = "trace")
  BY <1>1 DEF Commits
<1>3. Frame(c, t, x)
  <2>1. turn \in [Turn -> TurnState] /\ commits \in [Turn -> Seq({"ok", "fail_closed"})]
        /\ bus \in [Turn -> SUBSET BusState] /\ \A b, d \in bus[t]: b = d
    BY <1>0 DEF TypeOK
  <2>2. Queues(t)
    BY DEF Queues
  <2> QED
    BY <1>0, <2>1, <2>2 DEF Frame
<1>4. FailInv(t)'
  BY <1>0, <1>2, <1>3, FailByClient
<1> QED
  BY <1>0, <1>1, <1>2, <1>4, QuietStep

\* The commit is given the intents of its turn.
LEMMA StartCommitInv ==
  ASSUME Inv, NEW p \in Task, StartCommit(p)
  PROVE  Inv'
<1>0. Shape /\ TypeOK /\ task[p].pc = "startCommit" /\ TaskOK(p) /\ task[p] \in TaskState
  BY DEF Inv, Shape, TypeOK, StartCommit
<1>1. PICK t \in task[p].turn:
          Becomes(p, [task[p] EXCEPT !.pc = "commit", !.intents = intents[t]])
  BY DEF StartCommit
<1>2. t \in Turn /\ intents[t] \in SUBSET Intent
  BY <1>0, <1>1 DEF TypeOK, TaskState
<1> DEFINE x == [task[p] EXCEPT !.pc = "commit", !.intents = intents[t]]
<1>3. x \in TaskState /\ x.pc = "commit" /\ x.turn = task[p].turn /\ x.error = task[p].error
      /\ x.intents = intents[t]
  BY <1>0, <1>2 DEF TaskState, PC, Waiting
<1>4. Goes(p, x)
  BY <1>1, BecomesGoes
<1>5. /\ turn' = turn /\ session' = session /\ bus' = bus /\ queue' = queue
      /\ conn' = conn /\ on' = on /\ law' = law /\ commits' = commits /\ intents' = intents
      /\ counts' = counts /\ history' = history
  BY DEF StartCommit, manager, wire
<1> HIDE DEF x
<1>6. Marks(history', t) /\ intents' \in [Turn -> SUBSET Intent]
      /\ counts' \in [requests: 0..MaxRequests, faults: 0..MaxFaults, emits: 0..MaxEmits]
  BY <1>0, <1>2, <1>5, HistoryFacts DEF TypeOK
<1>7. CASE p \in Turn
  <2>1. p = t /\ task[p].turn = {t} /\ task[p].error \in {"failed", "done"}
    BY <1>0, <1>1, <1>7, OwnTask
  <2>2. FailInv(t) /\ Place(task[t]) = "startCommit"
    BY <1>0, <1>2, <2>1 DEF Inv, Place
  <2>3. t \notin history.disturbed /\ t \in history.failed =>
           commits[t] \in {<<>>, <<"fail_closed">>} /\ "fail_closed" \in intents[t]
    BY <2>2 DEF FailInv
  <2> QED
    BY <1>0, <1>2, <1>3, <1>4, <1>5, <1>6, <2>1, <2>3, OwnQuietStep
<1>8. CASE p \in Client
  <2>1. Started(t) /\ task[p].turn = {t} /\ task[p].error = "idle"
    BY <1>0, <1>1, <1>8 DEF TaskOK
  <2>2. task'[p] = x /\ Place(x) = "commit"
    BY <1>0, <1>3, <1>4 DEF Goes, TypeOK, Place
  <2>3. TaskOK(p)'
    <3>1. PutOK(task[p])' /\ Started(t)'
      BY <1>3, <1>5, <2>1, <2>2 DEF PutOK, Started
    <3> QED
      BY <1>2, <1>3, <1>8, <2>1, <2>2, <3>1, ClientTaskOK
  <2> QED
    BY <1>0, <1>2, <1>3, <1>4, <1>5, <1>6, <1>8, <2>1, <2>3, ClientQuietStep
<1> QED
  BY <1>7, <1>8 DEF Task

\* A failed write ends the commit: no other can start.
LEMMA WriteFailsInv ==
  ASSUME Inv, NEW p \in Task, WriteFails(p)
  PROVE  Inv'
<1>0. Shape /\ TypeOK /\ task[p].pc \in {"commit", "trace"} /\ TaskOK(p) /\ task[p] \in TaskState
  BY DEF Inv, Shape, TypeOK, WriteFails
<1>1. /\ turn' = turn /\ session' = session /\ bus' = bus /\ queue' = queue
      /\ conn' = conn /\ on' = on /\ law' = law /\ commits' = commits /\ intents' = intents
      /\ counts.faults < MaxFaults /\ counts' = [counts EXCEPT !.faults = @ + 1]
      /\ history' = [history EXCEPT !.writeFailed = TRUE]
  BY DEF WriteFails, manager, wire
<1>2. /\ intents' \in [Turn -> SUBSET Intent]
      /\ counts' \in [requests: 0..MaxRequests, faults: 0..MaxFaults, emits: 0..MaxEmits]
  BY <1>0, <1>1, CountFacts DEF TypeOK
<1>3. \A t \in Turn: /\ Marks(history', t) /\ history'.terminals = history.terminals
                     /\ history'.disturbed = history.disturbed /\ history'.failed = history.failed
  BY <1>0, <1>1, HistoryFacts
<1>4. CASE p \in Turn
  <2>1. p \notin Client /\ task[p].turn = {p} /\ task[p].error \in {"failed", "done"}
    BY <1>0, <1>4, OwnTask
  <2> DEFINE x == [task[p] EXCEPT !.pc = task[p].error, !.intents = {}]
  <2>2. x \in TaskState /\ x.pc \in {"failed", "done"} /\ x.turn = {p} /\ x.error \in {"failed", "done"}
    BY <1>0, <2>1 DEF TaskState
  <2>3. Goes(p, x)
    BY <2>1, BecomesGoes DEF WriteFails
  <2> HIDE DEF x
  <2>4. FailInv(p)
    BY <1>4 DEF Inv
  <2>5. p \notin history.disturbed /\ p \in history.failed => commits[p] \in {<<>>, <<"fail_closed">>}
    BY <2>4 DEF FailInv
  <2> QED
    BY <1>0, <1>1, <1>2, <1>3, <1>4, <2>2, <2>3, <2>5, OwnQuietStep
<1>5. CASE p \in Client
  <2>1. PICK t \in Turn: Started(t) /\ task[p].turn = {t}
    <3>1. Place(task[p]) # "idle"
      BY <1>0 DEF Place
    <3>2. task[p].turn # {}
      BY <1>0, <1>5, <3>1 DEF TaskOK
    <3>3. task[p].turn \subseteq Turn
      BY <1>0 DEF TaskState
    <3> QED
      BY <1>0, <1>5, <3>2, <3>3 DEF TaskOK
  <2>2. Goes(p, IdleTask)
    BY <1>5, BecomesGoes DEF WriteFails
  <2>3. IdleTask \in TaskState /\ IdleTask.pc = "idle" /\ IdleTask.turn = {} /\ IdleTask.error = "idle"
    BY StreamBounds DEF IdleTask, TaskState, PC, Waiting
  <2>4. task'[p] = IdleTask
    BY <1>0, <2>2 DEF Goes, TypeOK
  <2>5. TaskOK(p)'
    <3>1. p \notin Turn
      BY <1>5, ClientsAreNotTurns
    <3> QED
      BY <2>3, <2>4, <3>1 DEF TaskOK, PutOK, Place
  <2> QED
    BY <1>0, <1>1, <1>2, <1>3, <1>5, <2>1, <2>2, <2>3, <2>5, ClientQuietStep
<1> QED
  BY <1>4, <1>5 DEF Task

-----------------------------------------------------------------------------
(* The steps that publish.                                                     *)

\* Publish on the state of the turn.
LEMMA PublishFacts ==
  ASSUME Shape, NEW p \in Task, NEW t \in Turn, NEW type \in EventType, NEW r \in TaskState,
         NEW then \in PC \ {"put"}, NEW error \in PC \ {"put"}, NEW h \in History,
         Publish(p, t, type, r, then, error, h)
  PROVE  \E x \in TaskState: Sends(StateOf(t), p, t, type, x, r, then, error, h)
<1>1. TypeOK /\ (on => conn # 0) /\ StateOf(t) \in BusState
  BY StateFacts DEF Shape
<1>2. PublishOn(StateOf(t), p, t, type, r, then, error, h)
  BY DEF Publish
<1> QED
  BY <1>1, <1>2, PublishSends

\* What a publish leaves of the history h it is given.
LEMMA SendsHistory ==
  ASSUME NEW b \in BusState, NEW p \in Task, NEW t \in Turn, NEW type \in EventType,
         NEW x \in TaskState, NEW r \in TaskState, NEW then \in PC, NEW error \in PC,
         NEW h \in History, Sends(b, p, t, type, x, r, then, error, h)
  PROVE  /\ history'.failed = h.failed /\ h.disturbed \subseteq history'.disturbed
         /\ Refused(b, type) \/ type \notin Terminal => history'.terminals[t] = h.terminals[t]
         /\ ~Refused(b, type) /\ type \in Terminal =>
               history'.terminals[t] = Append(h.terminals[t], type)
<1>1. h.terminals \in [Turn -> Seq(Terminal)]
  BY DEF History
<1>2. CASE Refused(b, type)
  BY <1>2 DEF Sends
<1>3. CASE ~Refused(b, type)
  <2>1. history'.terminals =
                 [h.terminals EXCEPT ![t] = IF type \in Terminal THEN Append(h.terminals[t], type)
                                            ELSE h.terminals[t]]
    BY <1>3 DEF Sends
  <2>2. history'.terminals[t] = IF type \in Terminal THEN Append(h.terminals[t], type)
                                ELSE h.terminals[t]
    BY <1>1, <2>1
  <2> QED
    BY <1>3, <2>2 DEF Sends
<1> QED
  BY <1>2, <1>3

\* The workload of turn t publishes: an event of its own, or the turn_final of
\* the extension executor.
LEMMA EmitStep ==
  ASSUME Inv, NEW t \in Turn, task[t].pc = "run", NEW type \in EventType, type # "commit_final",
         type \in Terminal => turn[t].kind # "builtin", NEW then \in {"run", "requested"},
         Publish(t, t, type, task[t], then, "failed",
                 IF Refused(StateOf(t), type)
                 THEN [history EXCEPT !.failed = @ \cup {t}] ELSE history),
         turn' = turn, session' = session, intents' = intents, commits' = commits,
         conn' = conn, on' = on, law' = law,
         counts' \in [requests: 0..MaxRequests, faults: 0..MaxFaults, emits: 0..MaxEmits]
  PROVE  Inv'
<1> DEFINE b == StateOf(t)
           h == IF Refused(b, type) THEN [history EXCEPT !.failed = @ \cup {t}] ELSE history
           error == "failed"
<1>0. Shape /\ TypeOK /\ CommitInv(t) /\ TerminalInv(t) /\ FailInv(t) /\ StreamInv(t)
      /\ Place(task[t]) = "run"
  BY DEF Inv, Shape, Place
<1>1. t \in Task /\ Started(t) /\ task[t] \in TaskState /\ task[t].turn = {t}
      /\ task[t].error \in {"failed", "done"}
  BY <1>0, OwnTask
<1>2. /\ Marks(h, t) /\ h \in History /\ h.terminals = history.terminals
      /\ ~Refused(b, type) => h.failed = history.failed
  BY <1>0, HistoryFacts DEF Marks
<1>3. then \in PC \ {"put"} /\ error \in PC \ {"put"} /\ then \notin {"put", "idle"}
  BY DEF PC, Waiting
<1>4. Publish(t, t, type, task[t], then, error, h)
  OBVIOUS
<1> HIDE DEF h, b, error
<1>5. PICK x \in TaskState: Sends(b, t, t, type, x, task[t], then, error, h)
  BY <1>0, <1>1, <1>2, <1>3, <1>4, PublishFacts DEF b
<1>6. /\ turn' \in [Turn -> TurnState] /\ commits' \in [Turn -> Seq({"ok", "fail_closed"})]
      /\ \A u \in Turn: turn'[u].kind = turn[u].kind
      /\ \A u \in Turn \ {t}: turn'[u] = turn[u] /\ commits'[u] = commits[u]
  BY <1>0 DEF TypeOK
<1>7. /\ Frame(t, t, x) /\ PutOK(task[t])' /\ task'[t] = x
      /\ Refused(b, type) => Place(x) = error
      /\ ~Refused(b, type) => Place(x) = then
  <2>1. Sends(StateOf(t), t, t, type, x, task[t], then, error, h)
    BY <1>5 DEF b
  <2>2. Frame(t, t, x) /\ PutOK(task[t])'
    BY <1>0, <1>1, <1>2, <1>3, <1>6, <2>1, PublishFrame
  <2>3. b \in BusState
    BY <1>0, StateFacts DEF b
  <2>4. /\ task'[t] = x
        /\ Refused(b, type) => Place(x) = error
        /\ ~Refused(b, type) => Place(x) = then
    BY <1>0, <1>1, <1>2, <1>3, <1>5, <2>3, SendsPlace
  <2> QED
    BY <2>2, <2>4
<1>8. x.turn = {t} /\ x.error \in {"failed", "done"} /\ Place(x) \in {"failed", "run", "requested"}
      /\ Goes(t, x)
  BY <1>1, <1>5, <1>7 DEF Sends, error
<1>9. TaskOK(t)'
  <2>1. Started(t)'
    BY <1>1 DEF Started
  <2> QED
    BY <1>7, <1>8, <2>1, OwnTaskOK
<1>10. /\ history'.failed = h.failed
       /\ turn[t].kind = "builtin" => history'.terminals[t] = history.terminals[t]
  <2>1. b \in BusState
    BY <1>0, StateFacts DEF b
  <2> QED
    BY <1>1, <1>2, <1>3, <1>5, <2>1, SendsHistory
<1>11. CommitInv(t)'
  <2>1. ~Commits(t, t)'
    BY <1>7, <1>8 DEF Commits
  <2> QED
    BY <1>0, <1>1, <1>7, <2>1, CommitKept
<1>12. TerminalInv(t)'
  BY <1>0, <1>1, <1>7, <1>10, TerminalKept
<1>13. FailInv(t)'
  <2>1. Marks(history', t)
    BY <1>7 DEF Frame
  <2>2. t \notin history'.disturbed =>
          ~turn[t].commitStarted /\ t \notin history.failed /\ commits[t] = <<>>
    BY <1>0, <2>1, RunningFacts DEF Marks
  <2>3. Place(x) \in {"run", "requested"} => ~Refused(b, type)
    BY <1>7 DEF error
  <2> QED
    BY <1>0, <1>2, <1>8, <1>10, <2>1, <2>2, <2>3, FailByOwn
<1>14. StreamInv(t)'
  <2>1. t \notin history.disturbed => t \in session
    BY <1>0, <1>1 DEF StreamInv
  <2> QED
    BY <1>0, <1>1, <1>2, <1>3, <1>5, <1>7, <2>1, PublishStream DEF b
<1> QED
  BY <1>1, <1>7, <1>9, <1>11, <1>12, <1>13, <1>14, FrameInv

\* The workload emits an event of its own turn.
LEMMA EmitInv ==
  ASSUME Inv, NEW t \in Turn, NEW type \in {"token_delta", "tool_call_result"}, Emit(t, type)
  PROVE  Inv'
<1>1. /\ task[t].pc = "run" /\ type \in EventType /\ type # "commit_final" /\ type \notin Terminal
      /\ "run" \in {"run", "requested"}
  BY DEF Emit, EventType, MustDeliver, BestEffort, Bounded, Terminal
<1>2. counts' \in [requests: 0..MaxRequests, faults: 0..MaxFaults, emits: 0..MaxEmits]
  BY CountFacts DEF Emit, Inv, Shape
<1>3. /\ turn' = turn /\ session' = session /\ intents' = intents /\ commits' = commits
      /\ conn' = conn /\ on' = on /\ law' = law
  BY DEF Emit, manager
<1>4. Publish(t, t, type, task[t], "run", "failed",
              IF Refused(StateOf(t), type)
              THEN [history EXCEPT !.failed = @ \cup {t}] ELSE history)
  BY DEF Emit
<1> QED
  BY <1>1, <1>2, <1>3, <1>4, EmitStep

\* The workload ends: a built-in one leaves the terminal event to finalize.
LEMMA WorkDoneInv ==
  ASSUME Inv, NEW t \in Turn, WorkDone(t)
  PROVE  Inv'
<1>0. Shape /\ TypeOK /\ task[t].pc = "run" /\ Place(task[t]) = "run"
      /\ turn' = turn /\ session' = session /\ commits' = commits /\ counts' = counts
      /\ conn' = conn /\ on' = on /\ law' = law
  BY DEF Inv, Shape, WorkDone, Place
<1>1. counts' \in [requests: 0..MaxRequests, faults: 0..MaxFaults, emits: 0..MaxEmits]
  BY <1>0 DEF TypeOK
<1>2. CASE turn[t].kind = "builtin"
  <2>1. task[t] \in TaskState /\ task[t].turn = {t} /\ task[t].error \in {"failed", "done"}
    BY <1>0, OwnTask
  <2> DEFINE x == [task[t] EXCEPT !.pc = "finalize"]
  <2>2. x \in TaskState /\ x.pc = "finalize" /\ x.turn = {t} /\ x.error \in {"failed", "done"}
    BY <2>1, PcFacts DEF PC
  <2>3. /\ Becomes(t, x) /\ intents' = [intents EXCEPT ![t] = @ \cup {"turn_finalize"}]
        /\ bus' = bus /\ queue' = queue /\ history' = history
    BY <1>2 DEF WorkDone
  <2> HIDE DEF x
  <2>4. Goes(t, x) /\ Marks(history', t)
    BY <1>0, <2>3, BecomesGoes, HistoryFacts
  <2>5. intents' \in [Turn -> SUBSET Intent] /\ \A u \in Turn \ {t}: intents'[u] = intents[u]
    BY <1>0, <2>3, IntentFacts DEF Intent
  <2>6. t \notin history.disturbed => t \notin history.failed
    BY <1>0, RunningFacts
  <2> QED
    BY <1>0, <1>1, <2>2, <2>3, <2>4, <2>5, <2>6, OwnQuietStep
<1>3. CASE turn[t].kind # "builtin"
  <2>1. Publish(t, t, "turn_final", task[t], "requested", "failed",
                IF Refused(StateOf(t), "turn_final")
                THEN [history EXCEPT !.failed = @ \cup {t}] ELSE history)
        /\ intents' = intents
    BY <1>3 DEF WorkDone
  <2>2. "turn_final" \in EventType /\ "turn_final" # "commit_final"
        /\ "requested" \in {"run", "requested"}
    BY DEF EventType, MustDeliver
  <2> QED
    BY <1>0, <1>1, <1>3, <2>1, <2>2, EmitStep
<1> QED
  BY <1>2, <1>3

-----------------------------------------------------------------------------
(* cancel and finalize.                                                        *)

\* The caller is the turn's own task or an idle client.
LEMMA CallFacts ==
  ASSUME Shape, NEW p \in Task, NEW t \in Turn,
         NEW pcs \in SUBSET {"failed", "cancelFirst", "finalize"}, CallsFrom(p, t, pcs)
  PROVE  /\ Started(t) /\ Caller(p, t) \in TaskState /\ Caller(p, t).turn = {t}
         /\ p \in Turn => p = t
         /\ task[p].turn = {t} \/ task[p].pc = "idle"
         /\ task[p].pc \notin {"put", "done"} /\ Place(task[p]) = task[p].pc
         /\ Place(task[p]) \notin {"startCommit", "commit", "trace"}
         /\ counts' \in [requests: 0..MaxRequests, faults: 0..MaxFaults, emits: 0..MaxEmits]
         /\ \/ p = t /\ p \notin Client /\ task[p].pc \in pcs /\ Caller(p, t).error \in {"failed", "done"}
            \/ p \in Client /\ p # t /\ p \notin Turn /\ Caller(p, t).error = "idle"
<1>0. TypeOK
  BY DEF Shape
<1>1. CASE p = t /\ Has(p) /\ task[p].pc \in pcs /\ UNCHANGED counts
  <2>1. task[p].pc \in {"failed", "cancelFirst", "finalize"}
    BY <1>1
  <2>2. /\ t \notin Client /\ Started(t) /\ task[t] \in TaskState
        /\ task[t].turn = {t} /\ task[t].error \in {"failed", "done"}
    BY <1>1, <2>1, OwnTask
  <2>3. Caller(p, t) = task[t]
    BY <1>1 DEF Caller
  <2>4. counts' \in [requests: 0..MaxRequests, faults: 0..MaxFaults, emits: 0..MaxEmits]
    BY <1>0, <1>1, CountFacts
  <2> QED
    BY <1>1, <2>1, <2>2, <2>3, <2>4 DEF Place
<1>2. CASE /\ p \in Client /\ loop = {} /\ task[p].pc = "idle"
           /\ turn[t].kind # "none" /\ counts.requests < MaxRequests
           /\ counts' = [counts EXCEPT !.requests = @ + 1]
  <2>1. p \notin Turn /\ p # t
    BY <1>2, ClientsAreNotTurns
  <2>2. Caller(p, t) = [IdleTask EXCEPT !.turn = {t}]
    BY <2>1 DEF Caller
  <2>3. IdleTask \in TaskState
    BY StreamBounds DEF IdleTask, TaskState, PC, Waiting
  <2>4. Caller(p, t) \in TaskState /\ Caller(p, t).turn = {t} /\ Caller(p, t).error = "idle"
    BY <2>2, <2>3 DEF TaskState, IdleTask
  <2>5. counts' \in [requests: 0..MaxRequests, faults: 0..MaxFaults, emits: 0..MaxEmits]
    BY <1>0, <1>2, CountFacts
  <2> QED
    BY <1>2, <2>1, <2>4, <2>5 DEF Place, Started
<1> QED
  BY <1>1, <1>2 DEF CallsFrom

\* Whoever decides an undecided turn publishes its terminal event.
LEMMA DecideStep ==
  ASSUME Inv, NEW p \in Task, NEW t \in Turn, NEW type \in Terminal, NEW r \in TaskState,
         NEW x \in TaskState, NEW then \in PC \ {"put"}, NEW error \in PC \ {"put"}, NEW h \in History,
         turn[t].terminal = "none", Sends(StateOf(t), p, t, type, x, r, then, error, h),
         r.turn = {t}, p \in Turn => p = t, Started(t),
         task[p].turn = {t} \/ task[p].pc = "idle", task[p].pc # "put",
         Marks(h, t), h.terminals = history.terminals,
         turn' \in [Turn -> TurnState], \A u \in Turn: turn'[u].kind = turn[u].kind,
         \A u \in Turn \ {t}: turn'[u] = turn[u], turn'[t].terminal = type,
         intents' = intents, commits' = commits, session' = session,
         conn' = conn, on' = on, law' = law,
         counts' \in [requests: 0..MaxRequests, faults: 0..MaxFaults, emits: 0..MaxEmits]
  PROVE  Frame(p, t, x) /\ PutOK(task[p])' /\ TerminalInv(t)' /\ StreamInv(t)'
<1>0. Shape /\ TypeOK /\ CommitInv(t) /\ TerminalInv(t) /\ StreamInv(t)
  BY DEF Inv, Shape
<1>1. type \in EventType /\ type # "commit_final"
  BY DEF Terminal, EventType, MustDeliver
<1>2. commits' \in [Turn -> Seq({"ok", "fail_closed"})] /\ \A u \in Turn \ {t}: commits'[u] = commits[u]
  BY <1>0 DEF TypeOK
<1>3. Frame(p, t, x) /\ PutOK(task[p])'
  BY <1>0, <1>1, <1>2, PublishFrame
<1>4. t \in session
  BY <1>0 DEF CommitInv
<1>5. StreamInv(t)'
  BY <1>0, <1>1, <1>3, <1>4, PublishStream
<1>6. TerminalInv(t)'
  <2> DEFINE b == StateOf(t)
  <2>0. b \in BusState /\ Sends(b, p, t, type, x, r, then, error, h) /\ then \in PC /\ error \in PC
    BY <1>0, StateFacts
  <2> HIDE DEF b
  <2>1. history'.terminals[t] = h.terminals[t] \/ history'.terminals[t] = Append(h.terminals[t], type)
    BY <1>1, <2>0, SendsHistory
  <2>2. SUFFICES ASSUME turn[t].kind = "builtin" PROVE TerminalInv(t)'
    BY DEF TerminalInv
  <2>3. history.terminals[t] = <<>>
    BY <1>0, <2>2 DEF TerminalInv
  <2>6. Append(<<>>, type) = <<type>>
    OBVIOUS
  <2>4. history'.terminals[t] \in {<<>>, <<type>>}
    BY <2>1, <2>3, <2>6
  <2>5. type # "none"
    BY DEF Terminal
  <2> QED
    BY <2>4, <2>5 DEF TerminalInv
<1> QED
  BY <1>3, <1>5, <1>6

\* The first finalizer of a turn begins its commit.
LEMMA CommitStarts ==
  ASSUME Shape, NEW p \in Task, NEW t \in Turn, NEW x, Frame(p, t, x), CommitInv(t),
         ~turn[t].commitStarted, turn'[t].commitStarted, turn'[t].terminal # "none",
         commits'[t] = commits[t], session' = session, Place(x) # "trace"
  PROVE  CommitInv(t)'
<1>0. task \in [Task -> TaskState]
  BY DEF Shape, TypeOK
<1>1. task'[p] = x /\ \A q \in Task: task'[q] = task[q] \/ q = p
  BY <1>0 DEF Frame, Goes
<1>2. commits[t] = <<>> /\ \A q \in Task: ~Commits(q, t)
  BY DEF CommitInv
<1>3. \A q \in Task: Commits(q, t)' => q = p
  BY <1>1, <1>2 DEF Commits
<1>4. Started(t)' <=> Started(t)
  BY DEF Frame, Started
<1>5. commits'[t] = <<>> /\ Len(commits'[t]) <= 1
  BY <1>2 DEF CommitInv
<1>6. Started(t)' /\ t \notin session' => Len(commits'[t]) = 1
  BY <1>4 DEF CommitInv
<1> HIDE DEF Commits, Place, Started
<1> QED
  BY <1>1, <1>3, <1>5, <1>6 DEF CommitInv

\* The caller after its call: TaskOK for either kind.
LEMMA CallerTaskOK ==
  ASSUME NEW p \in Task, NEW t \in Turn, Started(t)', PutOK(task[p])', task'[p].turn = {t},
         \/ /\ p = t /\ task'[p].error \in {"failed", "done"} /\ Place(task'[p]) # "idle"
         \/ /\ p \in Client /\ task'[p].error = "idle"
            /\ Place(task'[p]) \in {"idle", "startCommit", "commit", "trace"}
  PROVE  TaskOK(p)'
<1>1. CASE p = t /\ task'[p].error \in {"failed", "done"} /\ Place(task'[p]) # "idle"
  BY <1>1, OwnTaskOK
<1>2. CASE p \in Client /\ task'[p].error = "idle"
           /\ Place(task'[p]) \in {"idle", "startCommit", "commit", "trace"}
  BY <1>2, ClientTaskOK
<1> QED
  BY <1>1, <1>2

\* Of racing cancels and finalizations only the first decides the record.
LEMMA CancelInv ==
  ASSUME Inv, NEW p \in Task, NEW t \in Turn, Cancel(p, t)
  PROVE  Inv'
<1> DEFINE pcs == {"failed", "cancelFirst"}
           r == Caller(p, t)
           then == AfterCancel(p)
           error == IF p = t THEN (IF task[p].pc = "failed" THEN "done" ELSE "failed") ELSE "idle"
<1>0. Shape /\ TypeOK /\ CommitInv(t) /\ TerminalInv(t) /\ FailInv(t) /\ StreamInv(t)
  BY DEF Inv, Shape
<1>1. /\ Started(t) /\ r \in TaskState /\ r.turn = {t}
      /\ p \in Turn => p = t
      /\ task[p].turn = {t} \/ task[p].pc = "idle"
      /\ task[p].pc \notin {"put", "done"} /\ Place(task[p]) = task[p].pc
      /\ Place(task[p]) \notin {"startCommit", "commit", "trace"}
      /\ counts' \in [requests: 0..MaxRequests, faults: 0..MaxFaults, emits: 0..MaxEmits]
      /\ \/ p = t /\ p \notin Client /\ task[p].pc \in pcs /\ r.error \in {"failed", "done"}
         \/ p \in Client /\ p # t /\ p \notin Turn /\ r.error = "idle"
  <2>1. pcs \in SUBSET {"failed", "cancelFirst", "finalize"} /\ CallsFrom(p, t, pcs)
    BY DEF Cancel
  <2> HIDE DEF pcs
  <2> QED
    BY <1>0, <2>1, CallFacts
<1>2. /\ then \in PC \ {"put"} /\ error \in PC \ {"put"}
      /\ then \in {"idle", "failedCanceled", "finalize"} /\ error \in {"idle", "done", "failed"}
      /\ p = t => then # "idle" /\ error # "idle"
      /\ p # t => then = "idle" /\ error = "idle"
      /\ p = t /\ then = "finalize" => task[p].pc = "cancelFirst"
  BY <1>1 DEF AfterCancel, PC, Waiting
<1>3. /\ session' = session /\ intents' = intents /\ conn' = conn /\ on' = on /\ law' = law
      /\ commits' = commits
  BY DEF Cancel
<1>4. t \notin history.disturbed /\ t \in history.failed =>
         /\ commits[t] \in {<<>>, <<"fail_closed">>}
         /\ p = t /\ then = "finalize" => "fail_closed" \in intents[t]
  BY <1>0, <1>1, <1>2 DEF FailInv
<1>5. CASE turn[t].terminal # "none"
  <2> DEFINE x == [r EXCEPT !.pc = then]
  <2> HIDE DEF pcs, r, then, error
  <2>1. x \in TaskState /\ x.pc = then /\ x.turn = {t} /\ x.error = r.error
    BY <1>1, <1>2, PcFacts
  <2>2. Goes(p, x)
    BY <1>5, BecomesGoes DEF Cancel, r, then
  <2>3. turn' = turn /\ bus' = bus /\ queue' = queue /\ history' = history
    BY <1>5 DEF Cancel
  <2> HIDE DEF x
  <2>4. Marks(history', t) /\ intents' \in [Turn -> SUBSET Intent]
    BY <1>0, <1>3, <2>3, HistoryFacts DEF TypeOK
  <2>5. task'[p] = x /\ Place(x) = then
    BY <1>0, <1>2, <2>1, <2>2 DEF Goes, TypeOK, Place
  <2>6. TaskOK(p)'
    <3>1. Started(t)' /\ PutOK(task[p])'
      BY <1>1, <1>2, <2>1, <2>3, <2>5 DEF Started, PutOK
    <3> QED
      BY <1>1, <1>2, <2>1, <2>5, <3>1, CallerTaskOK
  <2>7. CASE p = t
    BY <1>1, <1>2, <1>3, <1>4, <2>1, <2>2, <2>3, <2>4, <2>7, OwnQuietStep DEF pcs
  <2>8. CASE p # t
    BY <1>1, <1>2, <1>3, <2>1, <2>2, <2>3, <2>4, <2>6, <2>8, ClientQuietStep
  <2> QED
    BY <2>7, <2>8
<1>6. CASE turn[t].terminal = "none"
  <2>0. "turn_interrupted" \in Terminal /\ "turn_interrupted" \in EventType
    BY DEF Terminal, EventType, MustDeliver
  <2>1. /\ turn' = [turn EXCEPT ![t].canceled = TRUE, ![t].terminal = "turn_interrupted"]
        /\ Publish(p, t, "turn_interrupted", r, then, error, history)
    BY <1>6 DEF Cancel
  <2>2. /\ turn' \in [Turn -> TurnState] /\ \A u \in Turn: turn'[u].kind = turn[u].kind
        /\ \A u \in Turn \ {t}: turn'[u] = turn[u]
        /\ turn'[t].terminal = "turn_interrupted"
        /\ turn'[t].commitStarted = turn[t].commitStarted
    <3>1. turn \in [Turn -> TurnState]
      BY <1>0 DEF TypeOK
    <3> QED
      BY <2>0, <2>1, <3>1 DEF TurnState
  <2>3. history \in History /\ Marks(history, t)
    BY <1>0, HistoryFacts DEF TypeOK
  <2> DEFINE type == "turn_interrupted"
  <2> HIDE DEF pcs, r, then, error, type
  <2>4. type \in Terminal /\ type \in EventType /\ turn'[t].terminal = type
        /\ Publish(p, t, type, r, then, error, history)
    BY <2>0, <2>1, <2>2 DEF type
  <2>5. PICK x \in TaskState: Sends(StateOf(t), p, t, type, x, r, then, error, history)
    BY <1>0, <1>1, <1>2, <2>3, <2>4, PublishFacts
  <2>6. Frame(p, t, x) /\ PutOK(task[p])' /\ TerminalInv(t)' /\ StreamInv(t)'
    BY <1>1, <1>2, <1>3, <1>6, <2>2, <2>3, <2>4, <2>5, DecideStep
  <2>7. StateOf(t) \in BusState
    BY <1>0, StateFacts
  <2>8. /\ Goes(p, x) /\ task'[p] = x /\ x.turn = {t} /\ x.error = r.error
        /\ Place(x) \in {then, error}
    <3> DEFINE b == StateOf(t)
    <3>1. b \in BusState /\ Sends(b, p, t, type, x, r, then, error, history)
      BY <2>5, <2>7
    <3> HIDE DEF b
    <3> QED
      BY <1>0, <1>1, <1>2, <2>3, <2>4, <3>1, SendsPlace
  <2>9. TaskOK(p)'
    <3>1. Started(t)'
      BY <1>1, <2>2 DEF Started
    <3> QED
      BY <1>1, <1>2, <2>6, <2>8, <3>1, CallerTaskOK
  <2>10. CommitInv(t)'
    <3>1. ~Commits(p, t)'
      BY <1>2, <2>8 DEF Commits
    <3> QED
      BY <1>0, <1>3, <1>6, <2>2, <2>6, <3>1, CommitKept
  <2>11. FailInv(t)'
    <3>0. history'.failed = history.failed
      <4> DEFINE b == StateOf(t)
      <4>1. b \in BusState /\ Sends(b, p, t, type, x, r, then, error, history)
            /\ then \in PC /\ error \in PC
        BY <1>2, <2>5, <2>7
      <4> HIDE DEF b
      <4> QED
        BY <1>1, <2>3, <2>4, <4>1, SendsHistory
    <3>1. CASE p = t
      <4>1. Marks(history', t)
        BY <2>6 DEF Frame
      <4>2. t \notin history'.disturbed => t \notin history.disturbed
        BY <4>1 DEF Marks
      <4> QED
        BY <1>0, <1>2, <1>3, <1>4, <2>8, <3>0, <3>1, <4>1, <4>2, FailByOwn
    <3>2. CASE p # t
      <4>1. ~Commits(p, t)'
        BY <1>2, <2>8 DEF Commits
      <4> QED
        BY <1>0, <1>3, <2>2, <2>6, <3>0, <3>2, <4>1, FailByClient
    <3> QED
      BY <3>1, <3>2
  <2> QED
    BY <1>1, <2>6, <2>9, <2>10, <2>11, FrameInv
<1> QED
  BY <1>5, <1>6

\* Only the first finalizer starts the commit.
LEMMA FinalizeInv ==
  ASSUME Inv, NEW p \in Task, NEW t \in Turn, Finalize(p, t)
  PROVE  Inv'
<1> DEFINE pcs == {"finalize"}
           r == Caller(p, t)
           then == IF StartsCommit(t) THEN "startCommit" ELSE Finished(p)
           error == r.error
           type == "turn_final"
           h == [history EXCEPT !.disturbed = IF p # t /\ StartsCommit(t) THEN @ \cup {t} ELSE @]
<1>0. Shape /\ TypeOK /\ CommitInv(t) /\ TerminalInv(t) /\ FailInv(t) /\ StreamInv(t)
  BY DEF Inv, Shape
<1>1. /\ Started(t) /\ r \in TaskState /\ r.turn = {t}
      /\ p \in Turn => p = t
      /\ task[p].turn = {t} \/ task[p].pc = "idle"
      /\ task[p].pc \notin {"put", "done"} /\ Place(task[p]) = task[p].pc
      /\ Place(task[p]) \notin {"startCommit", "commit", "trace"}
      /\ counts' \in [requests: 0..MaxRequests, faults: 0..MaxFaults, emits: 0..MaxEmits]
      /\ \/ p = t /\ p \notin Client /\ task[p].pc \in pcs /\ r.error \in {"failed", "done"}
         \/ p \in Client /\ p # t /\ p \notin Turn /\ r.error = "idle"
  <2>1. pcs \in SUBSET {"failed", "cancelFirst", "finalize"} /\ CallsFrom(p, t, pcs)
    BY DEF Finalize
  <2> HIDE DEF pcs
  <2> QED
    BY <1>0, <2>1, CallFacts
<1>2. /\ then \in PC \ {"put"} /\ error \in PC \ {"put"}
      /\ ~turn[t].commitStarted => then = "startCommit"
      /\ turn[t].commitStarted /\ p = t => then = "done"
      /\ turn[t].commitStarted /\ p # t => then = "idle"
      /\ p = t => error \in {"failed", "done"}
      /\ p # t => error = "idle"
  BY <1>1 DEF StartsCommit, Finished, PC, Waiting
<1>3. /\ session' = session /\ intents' = intents /\ conn' = conn /\ on' = on /\ law' = law
      /\ commits' = commits
  BY DEF Finalize
<1>4. t \notin history.disturbed /\ t \in history.failed =>
         /\ commits[t] \in {<<>>, <<"fail_closed">>}
         /\ p = t => "fail_closed" \in intents[t]
  BY <1>0, <1>1 DEF FailInv
<1>5. /\ h \in History /\ Marks(h, t) /\ h.terminals = history.terminals
      /\ h.failed = history.failed
      /\ p # t /\ ~turn[t].commitStarted => t \in h.disturbed
  <2>1. history \in History
    BY <1>0 DEF TypeOK
  <2> DEFINE d == IF p # t /\ StartsCommit(t) THEN history.disturbed \cup {t} ELSE history.disturbed
  <2>2. h = [history EXCEPT !.disturbed = d]
    OBVIOUS
  <2>3. /\ d \in SUBSET Turn /\ d \in {history.disturbed, history.disturbed \cup {t}}
        /\ p # t /\ ~turn[t].commitStarted => t \in d
    BY <2>1 DEF History, StartsCommit
  <2> HIDE DEF d, h
  <2>4. /\ h \in History /\ h.terminals = history.terminals /\ h.failed = history.failed
        /\ h.since = history.since /\ h.disturbed = d
    BY <2>1, <2>2, <2>3 DEF History
  <2> QED
    BY <1>0, <2>3, <2>4, MarkFacts
<1>6. /\ turn' \in [Turn -> TurnState] /\ \A u \in Turn: turn'[u].kind = turn[u].kind
      /\ \A u \in Turn \ {t}: turn'[u] = turn[u]
      /\ turn[t].terminal = "none" => turn'[t].terminal = type
      /\ turn[t].terminal # "none" => turn'[t].terminal = turn[t].terminal
      /\ turn'[t].terminal # "none" /\ turn'[t].commitStarted
      /\ turn[t].commitStarted => turn' = turn
  <2>1. turn \in [Turn -> TurnState] /\ turn[t] \in TurnState
    BY <1>0 DEF TypeOK
  <2> DEFINE w == IF turn[t].terminal = "none" THEN "turn_final" ELSE turn[t].terminal
             v == [turn[t] EXCEPT !.terminal = w, !.commitStarted = TRUE]
  <2>2. turn' = [turn EXCEPT ![t] = v]
    BY <2>1 DEF Finalize
  <2>3. w \in Terminal
    BY <2>1 DEF TurnState, Terminal
  <2>4. turn[t].terminal = "none" => w = type
    OBVIOUS
  <2>5. turn[t].terminal # "none" => w = turn[t].terminal
    OBVIOUS
  <2> HIDE DEF w
  <2>6. v \in TurnState /\ v.kind = turn[t].kind /\ v.terminal = w /\ v.commitStarted
    BY <2>1, <2>3 DEF TurnState
  <2>7. turn[t].commitStarted => v = turn[t]
    <3>1. SUFFICES ASSUME turn[t].commitStarted PROVE v = turn[t]
      OBVIOUS
    <3>2. turn[t].terminal # "none" /\ turn[t].commitStarted = TRUE
      BY <1>0, <2>1, <3>1 DEF CommitInv, TurnState
    <3>3. w = turn[t].terminal
      BY <2>5, <3>2
    <3> QED
      BY <2>1, <3>2, <3>3 DEF TurnState
  <2> HIDE DEF v
  <2>8. w # "none"
    BY <2>3 DEF Terminal
  <2> QED
    BY <2>1, <2>2, <2>4, <2>5, <2>6, <2>7, <2>8
<1>7. CASE turn[t].terminal = "none"
  <2>0. type \in Terminal /\ type \in EventType
    BY DEF Terminal, EventType, MustDeliver
  <2>1. Publish(p, t, type, r, then, error, h)
    BY <1>7 DEF Finalize
  <2>2. ~turn[t].commitStarted
    BY <1>0, <1>7 DEF CommitInv
  <2> HIDE DEF pcs, r, then, error, type, h
  <2>3. then = "startCommit"
    BY <1>2, <2>2
  <2>4. PICK x \in TaskState: Sends(StateOf(t), p, t, type, x, r, then, error, h)
    BY <1>0, <1>1, <1>2, <1>5, <2>0, <2>1, PublishFacts
  <2>5. Frame(p, t, x) /\ PutOK(task[p])' /\ TerminalInv(t)' /\ StreamInv(t)'
    BY <1>1, <1>2, <1>3, <1>5, <1>6, <1>7, <2>0, <2>4, DecideStep
  <2>6. StateOf(t) \in BusState
    BY <1>0, StateFacts
  <2>7. /\ Goes(p, x) /\ task'[p] = x /\ x.turn = {t} /\ x.error = r.error
        /\ Place(x) \in {then, error}
        /\ history'.failed = history.failed /\ h.disturbed \subseteq history'.disturbed
    <3> DEFINE b == StateOf(t)
    <3>1. b \in BusState /\ Sends(b, p, t, type, x, r, then, error, h) /\ then \in PC /\ error \in PC
      BY <1>2, <2>4, <2>6
    <3> HIDE DEF b
    <3>2. history'.failed = h.failed /\ h.disturbed \subseteq history'.disturbed
      BY <1>1, <1>5, <2>0, <3>1, SendsHistory
    <3> QED
      BY <1>0, <1>1, <1>2, <1>5, <2>0, <3>1, <3>2, SendsPlace
  <2>8. TaskOK(p)'
    <3>1. Started(t)'
      BY <1>1, <1>6 DEF Started
    <3>2. x.error \in {"failed", "done"} \/ p # t
      BY <1>1, <2>7
    <3> QED
      BY <1>1, <1>2, <2>3, <2>5, <2>7, <3>1, CallerTaskOK
  <2>9. CommitInv(t)'
    <3>1. Place(x) # "trace"
      BY <1>1, <1>2, <2>3, <2>7
    <3> QED
      BY <1>0, <1>3, <1>6, <2>2, <2>5, <3>1, CommitStarts
  <2>10. FailInv(t)'
    <3>1. CASE p = t
      <4>1. Marks(history', t)
        BY <2>5 DEF Frame
      <4>2. t \notin history'.disturbed => t \notin history.disturbed
        BY <4>1 DEF Marks
      <4>3. Place(x) \in {"startCommit", "failed", "done"}
        BY <1>2, <2>3, <2>7, <3>1
      <4> QED
        BY <1>0, <1>3, <1>4, <2>7, <3>1, <4>1, <4>2, <4>3, FailByOwn
    <3>2. CASE p # t
      BY <1>5, <2>2, <2>7, <3>2 DEF FailInv
    <3> QED
      BY <3>1, <3>2
  <2> QED
    BY <1>1, <2>5, <2>8, <2>9, <2>10, FrameInv
<1>8. CASE turn[t].terminal # "none"
  <2> DEFINE x == [r EXCEPT !.pc = then]
  <2>1. Becomes(p, x) /\ history' = h /\ bus' = bus /\ queue' = queue
    BY <1>8 DEF Finalize
  <2> HIDE DEF pcs, r, then, error, type, h
  <2>2. x \in TaskState /\ x.pc = then /\ x.turn = {t} /\ x.error = r.error
    BY <1>1, <1>2, PcFacts
  <2> HIDE DEF x
  <2>3. Goes(p, x) /\ Marks(history', t) /\ history'.terminals = history.terminals
        /\ history'.failed = history.failed
    BY <1>5, <2>1, BecomesGoes
  <2>4. task'[p] = x /\ Place(x) = then
    BY <1>0, <1>2, <2>2, <2>3 DEF Goes, TypeOK, Place
  <2>5. intents' \in [Turn -> SUBSET Intent]
    BY <1>0, <1>3 DEF TypeOK
  <2>6. TaskOK(p)'
    <3>1. Started(t)' /\ PutOK(task[p])'
      BY <1>1, <1>2, <1>6, <2>2, <2>4 DEF Started, PutOK
    <3>2. p = t => then # "idle"
      BY <1>2
    <3>3. p # t => then \in {"idle", "startCommit"}
      BY <1>2
    <3> QED
      BY <1>1, <2>2, <2>4, <3>1, <3>2, <3>3, CallerTaskOK
  <2>7. CASE turn[t].commitStarted
    <3>1. turn' = turn
      BY <1>6, <2>7
    <3>2. CASE p = t
      <4>1. then = "done" /\ (t \notin history'.disturbed => t \notin history.disturbed)
        BY <1>2, <2>3, <2>7, <3>2 DEF Marks
      <4> QED
        BY <1>1, <1>3, <1>4, <2>1, <2>2, <2>3, <2>5, <3>1, <3>2, <4>1, OwnQuietStep DEF pcs
    <3>3. CASE p # t
      <4>1. then = "idle"
        BY <1>2, <2>7, <3>3
      <4> QED
        BY <1>1, <1>3, <2>1, <2>2, <2>3, <2>6, <3>1, <3>3, <4>1, ClientQuietStep
    <3> QED
      BY <3>2, <3>3
  <2>8. CASE ~turn[t].commitStarted
    <3>1. then = "startCommit"
      BY <1>2, <2>8
    <3>2. Frame(p, t, x)
      <4>1. commits \in [Turn -> Seq({"ok", "fail_closed"})]
            /\ bus \in [Turn -> SUBSET BusState] /\ \A b, c \in bus[t]: b = c
        BY <1>0 DEF TypeOK
      <4>2. Queues(t)
        BY <2>1 DEF Queues
      <4> QED
        BY <1>1, <1>3, <1>6, <2>1, <2>2, <2>3, <2>5, <4>1, <4>2 DEF Frame
    <3>3. CommitInv(t)'
      BY <1>0, <1>3, <1>6, <2>4, <2>8, <3>1, <3>2, CommitStarts
    <3>4. TerminalInv(t)'
      BY <1>0, <1>6, <1>8, <2>3, <3>2, TerminalKept
    <3>5. FailInv(t)'
      <4>1. CASE p = t
        <5>1. t \notin history'.disturbed => t \notin history.disturbed
          BY <2>3 DEF Marks
        <5> QED
          BY <1>0, <1>3, <1>4, <2>3, <2>4, <3>1, <4>1, <5>1, FailByOwn
      <4>2. CASE p # t
        BY <1>5, <2>1, <2>8, <4>2 DEF FailInv
      <4> QED
        BY <4>1, <4>2
    <3>6. StreamInv(t)'
      <4>1. p = t /\ t \notin history.disturbed => t \in session
        BY <1>0, <1>1 DEF StreamInv
      <4> QED
        BY <1>0, <1>1, <1>3, <1>8, <2>1, <2>2, <3>1, <3>2, <4>1, QuietStream
    <3> QED
      BY <1>1, <2>6, <3>2, <3>3, <3>4, <3>5, <3>6, FrameInv
  <2> QED
    BY <2>7, <2>8
<1> QED
  BY <1>7, <1>8

-----------------------------------------------------------------------------
(* The commit, and the puts that wait for room.                                *)

\* Who is at work on a commit, and for which turn.
LEMMA CommitterFacts ==
  ASSUME Inv, NEW p \in Task, task[p].pc \in {"startCommit", "commit", "trace"},
         NEW t \in task[p].turn
  PROVE  /\ t \in Turn /\ Started(t) /\ task[p].turn = {t} /\ Commits(p, t)
         /\ Place(task[p]) = task[p].pc /\ turn[t].commitStarted
         /\ \/ p = t /\ p \notin Client /\ task[p].error \in {"failed", "done"}
            \/ p \in Client /\ p # t /\ p \notin Turn /\ task[p].error = "idle" /\ t \in history.disturbed
<1>0. Shape /\ TypeOK /\ TaskOK(p) /\ task[p] \in TaskState
  BY DEF Inv, Shape, TypeOK
<1>1. t \in Turn
  BY <1>0 DEF TaskState
<1>2. Commits(p, t) /\ Place(task[p]) = task[p].pc
  BY DEF Commits, Place
<1>3. turn[t].commitStarted
  BY <1>1, <1>2 DEF Inv, CommitInv
<1>4. CASE p \in Turn
  <2>1. p = t /\ p \notin Client /\ Started(t) /\ task[p].turn = {t} /\ task[p].error \in {"failed", "done"}
    BY <1>0, <1>4, OwnTask
  <2> QED
    BY <1>1, <1>2, <1>3, <2>1
<1>5. CASE p \in Client
  <2>1. p \notin Turn /\ p # t
    BY <1>1, <1>5, ClientsAreNotTurns
  <2>2. Started(t) /\ task[p].turn = {t} /\ task[p].error = "idle"
    BY <1>0, <1>5 DEF TaskOK
  <2>3. t \in history.disturbed
    BY <1>1, <1>2, <2>1 DEF Inv, FailInv
  <2> QED
    BY <1>1, <1>2, <1>3, <1>5, <2>1, <2>2, <2>3
<1> QED
  BY <1>4, <1>5 DEF Task

\* The committer writes the one commit of its turn and publishes commit_final.
LEMMA CommitWrittenInv ==
  ASSUME Inv, NEW p \in Task, CommitWritten(p)
  PROVE  Inv'
<1> DEFINE r == [task[p] EXCEPT !.intents = {}]
           error == task[p].error
           then == "trace"
           type == "commit_final"
<1>0. PICK t \in task[p].turn:
          /\ commits' = [commits EXCEPT ![t] = Append(@, Outcome(task[p].intents))]
          /\ Publish(p, t, type, r, then, error, history)
  BY DEF CommitWritten
<1>1. task[p].pc = "commit" /\ task[p] \in TaskState
  BY DEF CommitWritten, Inv, Shape, TypeOK
<1>2. /\ t \in Turn /\ Started(t) /\ task[p].turn = {t} /\ Commits(p, t)
      /\ Place(task[p]) = "commit" /\ turn[t].commitStarted
      /\ \/ p = t /\ p \notin Client /\ task[p].error \in {"failed", "done"}
         \/ p \in Client /\ p # t /\ p \notin Turn /\ task[p].error = "idle" /\ t \in history.disturbed
  BY <1>0, <1>1, CommitterFacts
<1>3. Shape /\ TypeOK /\ CommitInv(t) /\ TerminalInv(t) /\ FailInv(t) /\ StreamInv(t)
  BY <1>2 DEF Inv, Shape
<1>4. /\ session' = session /\ intents' = intents /\ turn' = turn /\ conn' = conn /\ on' = on
      /\ law' = law /\ counts' = counts
  BY DEF CommitWritten, manager
<1>5. /\ r \in TaskState /\ r.turn = {t} /\ r.error = error
      /\ then \in PC \ {"put"} /\ error \in PC \ {"put"} /\ type \in EventType
      /\ type \notin Terminal /\ error \in {"failed", "done", "idle"}
  BY <1>1, <1>2 DEF TaskState, PC, Waiting, EventType, MustDeliver, Terminal
<1>6. history \in History /\ Marks(history, t)
  BY <1>2, <1>3, HistoryFacts DEF TypeOK
<1>7. commits[t] = <<>> /\ turn[t].terminal # "none" /\ t \in session
  <2>1. IF Place(task[p]) = "trace" THEN Len(commits[t]) = 1 ELSE commits[t] = <<>>
    BY <1>2, <1>3 DEF CommitInv
  <2>2. commits[t] = <<>> /\ Len(<<>>) # 1
    BY <1>2, <2>1
  <2>3. turn[t].terminal # "none" /\ (t \notin session => Len(commits[t]) = 1)
    BY <1>2, <1>3 DEF CommitInv
  <2> QED
    BY <2>2, <2>3
<1>8. /\ commits' \in [Turn -> Seq({"ok", "fail_closed"})]
      /\ \A u \in Turn \ {t}: commits'[u] = commits[u]
      /\ commits'[t] = <<Outcome(task[p].intents)>> /\ Len(commits'[t]) = 1
  <2>1. commits \in [Turn -> Seq({"ok", "fail_closed"})]
    BY <1>3 DEF TypeOK
  <2>2. Outcome(task[p].intents) \in {"ok", "fail_closed"}
    BY DEF Outcome
  <2> DEFINE o == Outcome(task[p].intents)
             s == Append(commits[t], o)
  <2>3. commits' = [commits EXCEPT ![t] = s]
    BY <1>0
  <2>4. o \in {"ok", "fail_closed"} /\ s = Append(<<>>, o)
    BY <1>7, <2>2
  <2> HIDE DEF o
  <2>5. s = <<o>> /\ Len(s) = 1 /\ s \in Seq({"ok", "fail_closed"})
    BY <2>4
  <2> HIDE DEF s
  <2> QED
    BY <1>2, <2>1, <2>3, <2>5 DEF o
<1>9. Publish(p, t, type, r, then, error, history)
  BY <1>0
<1>10. /\ turn' \in [Turn -> TurnState] /\ \A u \in Turn: turn'[u].kind = turn[u].kind
       /\ \A u \in Turn \ {t}: turn'[u] = turn[u] /\ commits'[u] = commits[u]
       /\ counts' \in [requests: 0..MaxRequests, faults: 0..MaxFaults, emits: 0..MaxEmits]
  BY <1>3, <1>4, <1>8 DEF TypeOK
<1> HIDE DEF r, error, then, type
<1>11. PICK x \in TaskState: Sends(StateOf(t), p, t, type, x, r, then, error, history)
  BY <1>2, <1>3, <1>5, <1>6, <1>9, PublishFacts
<1>12. Frame(p, t, x) /\ PutOK(task[p])'
  BY <1>2, <1>3, <1>4, <1>5, <1>6, <1>8, <1>10, <1>11, PublishFrame
<1>13. StateOf(t) \in BusState /\ (bus[t] # {} => bus[t] = {StateOf(t)})
  BY <1>2, <1>3, StateFacts
<1>14. /\ Goes(p, x) /\ task'[p] = x /\ x.turn = {t} /\ x.error = error
       /\ Place(x) \in {then, error}
       /\ history'.failed = history.failed /\ history'.terminals[t] = history.terminals[t]
  <2> DEFINE b == StateOf(t)
  <2>1. b \in BusState /\ Sends(b, p, t, type, x, r, then, error, history) /\ then \in PC /\ error \in PC
    BY <1>5, <1>11, <1>13
  <2> HIDE DEF b
  <2>2. history'.failed = history.failed /\ history'.terminals[t] = history.terminals[t]
    <3>0. t \in Turn /\ type \in EventType /\ r \in TaskState /\ history \in History
      BY <1>2, <1>5, <1>6
    <3>1. /\ history'.failed = history.failed
          /\ Refused(b, type) \/ type \notin Terminal => history'.terminals[t] = history.terminals[t]
      BY <2>1, <3>0, SendsHistory
    <3> QED
      BY <1>5, <3>1
  <2> QED
    BY <1>2, <1>3, <1>5, <1>6, <2>1, <2>2, SendsPlace
<1>15. Place(x) \in {"trace", "failed", "done", "idle"} /\ (p = t => Place(x) # "idle")
       /\ (p # t => Place(x) \in {"idle", "trace"})
  BY <1>2, <1>14 DEF then, error
<1>16. TaskOK(p)'
  <2>1. Started(t)'
    BY <1>2, <1>4 DEF Started
  <2> QED
    BY <1>2, <1>12, <1>14, <1>15, <2>1, CallerTaskOK DEF error
<1>17. CommitInv(t)'
  <2>1. \A q \in Task: task'[q] = task[q] \/ q = p
    BY <1>3, <1>14 DEF Goes, TypeOK
  <2>2. \A q \in Task: Commits(q, t)' => q = p
    BY <1>2, <1>3, <2>1 DEF CommitInv, Commits
  <2>3. Commits(p, t)' => Place(task'[p]) = "trace"
    BY <1>14, <1>15 DEF Commits
  <2>4. \A q, s \in Task: Commits(q, t)' /\ Commits(s, t)' => q = s
    BY <2>2
  <2>5. \A q \in Task: Commits(q, t)' => Place(task'[q]) = "trace"
    BY <2>2, <2>3
  <2>6. turn'[t].commitStarted /\ turn'[t].terminal # "none" /\ Len(commits'[t]) <= 1
    BY <1>2, <1>4, <1>7, <1>8
  <2> HIDE DEF Commits
  <2> QED
    BY <1>8, <2>4, <2>5, <2>6 DEF CommitInv
<1>18. TerminalInv(t)'
  BY <1>2, <1>3, <1>4, <1>12, <1>14, TerminalKept
<1>19. FailInv(t)'
  <2>1. Marks(history', t) /\ (t \notin history'.disturbed => t \notin history.disturbed)
    BY <1>12 DEF Frame, Marks
  <2>2. CASE p = t
    <3>1. t \notin history'.disturbed /\ t \in history'.failed => commits'[t] = <<"fail_closed">>
      BY <1>2, <1>3, <1>8, <1>14, <2>1, <2>2 DEF FailInv, Outcome
    <3> QED
      BY <1>2, <1>3, <1>14, <1>15, <2>1, <2>2, <3>1, FailByOwn
  <2>3. CASE p # t
    BY <1>2, <2>1, <2>3 DEF FailInv
  <2> QED
    BY <2>2, <2>3
<1>20. StreamInv(t)'
  <2>1. t \notin history.disturbed => StateOf(t).terminal
    BY <1>3, <1>7, <1>13 DEF StreamInv
  <2> QED
    BY <1>1, <1>2, <1>3, <1>4, <1>5, <1>6, <1>7, <1>11, <1>12, <2>1, PublishStream
<1> QED
  BY <1>2, <1>12, <1>16, <1>17, <1>18, <1>19, <1>20, FrameInv

\* The session is freed by the task that wrote the commit.
LEMMA TurnOverInv ==
  ASSUME Inv, NEW p \in Task, TurnOver(p)
  PROVE  Inv'
<1> DEFINE x == IF p \in Client THEN IdleTask ELSE [task[p] EXCEPT !.pc = "done"]
<1>0. PICK t \in task[p].turn: session' = session \ {t} /\ bus' = [bus EXCEPT ![t] = {}] /\ Becomes(p, x)
  BY DEF TurnOver
<1>1. task[p].pc = "trace" /\ task[p] \in TaskState
  BY DEF TurnOver, Inv, Shape, TypeOK
<1>2. /\ t \in Turn /\ Started(t) /\ task[p].turn = {t} /\ Commits(p, t)
      /\ Place(task[p]) = "trace" /\ turn[t].commitStarted
      /\ \/ p = t /\ p \notin Client /\ task[p].error \in {"failed", "done"}
         \/ p \in Client /\ p # t /\ p \notin Turn /\ task[p].error = "idle" /\ t \in history.disturbed
  BY <1>0, <1>1, CommitterFacts
<1>3. Shape /\ TypeOK /\ CommitInv(t) /\ TerminalInv(t) /\ FailInv(t) /\ StreamInv(t)
  BY <1>2 DEF Inv, Shape
<1>4. /\ turn' = turn /\ intents' = intents /\ conn' = conn /\ on' = on /\ law' = law
      /\ queue' = queue /\ commits' = commits /\ counts' = counts /\ history' = history
  BY DEF TurnOver, wire
<1>5. /\ x \in TaskState /\ (x.turn \subseteq {t}) /\ x.pc \in {"idle", "done"}
      /\ p = t => x.pc = "done" /\ x.turn = {t} /\ x.error \in {"failed", "done"}
      /\ p # t => x = IdleTask
  <2>1. CASE p = t
    <3>1. x = [task[p] EXCEPT !.pc = "done"]
      BY <1>2, <2>1
    <3> QED
      BY <1>1, <1>2, <2>1, <3>1, PcFacts DEF PC, Waiting
  <2>2. CASE p # t
    <3>1. x = IdleTask
      BY <1>2, <2>2
    <3>2. IdleTask \in TaskState /\ IdleTask.pc = "idle" /\ IdleTask.turn = {}
      BY StreamBounds DEF IdleTask, TaskState, PC, Waiting
    <3> QED
      BY <2>2, <3>1, <3>2
  <2> QED
    BY <2>1, <2>2
<1> HIDE DEF x
<1>6. Goes(p, x) /\ task'[p] = x /\ Place(x) = x.pc
  <2>1. Goes(p, x)
    BY <1>0, BecomesGoes
  <2> QED
    BY <1>3, <1>5, <2>1 DEF Goes, TypeOK, Place
<1>7. /\ bus' \in [Turn -> SUBSET BusState] /\ bus'[t] = {}
      /\ \A u \in Turn \ {t}: bus'[u] = bus[u]
  BY <1>0, <1>2, <1>3 DEF TypeOK
<1>8. Marks(history', t)
  BY <1>2, <1>3, <1>4, HistoryFacts
<1>9. Frame(p, t, x)
  <2>1. turn \in [Turn -> TurnState] /\ commits \in [Turn -> Seq({"ok", "fail_closed"})]
        /\ intents \in [Turn -> SUBSET Intent]
        /\ counts \in [requests: 0..MaxRequests, faults: 0..MaxFaults, emits: 0..MaxEmits]
    BY <1>3 DEF TypeOK
  <2>2. Queues(t) /\ (p \in Turn => p = t)
    BY <1>2, <1>4 DEF Queues
  <2>3. \A b, c \in bus'[t]: b = c
    BY <1>7
  <2> QED
    BY <1>0, <1>2, <1>4, <1>5, <1>6, <1>7, <1>8, <2>1, <2>2, <2>3 DEF Frame
<1>10. TaskOK(p)'
  <2>1. Started(t)' /\ PutOK(task[p])'
    BY <1>2, <1>4, <1>5, <1>6 DEF Started, PutOK
  <2>2. CASE p = t
    BY <1>2, <1>5, <1>6, <2>1, <2>2, OwnTaskOK
  <2>3. CASE p # t
    <3>1. p \in Client /\ p \notin Turn
      BY <1>2, <2>3
    <3> QED
      BY <1>5, <1>6, <2>1, <2>3, <3>1 DEF TaskOK, IdleTask, Place
  <2> QED
    BY <2>2, <2>3
<1>11. CommitInv(t)'
  <2>1. \A q \in Task: task'[q] = task[q] \/ q = p
    BY <1>3, <1>6 DEF Goes, TypeOK
  <2>2. \A q \in Task: ~Commits(q, t)'
    BY <1>2, <1>3, <1>5, <1>6, <2>1 DEF CommitInv, Commits
  <2>3. Len(commits[t]) = 1
    <3>1. IF Place(task[p]) = "trace" THEN Len(commits[t]) = 1 ELSE commits[t] = <<>>
      BY <1>2, <1>3 DEF CommitInv
    <3> QED
      BY <1>2, <3>1
  <2>4. turn[t].terminal # "none"
    BY <1>2, <1>3 DEF CommitInv
  <2> HIDE DEF Commits
  <2> QED
    BY <1>2, <1>4, <2>2, <2>3, <2>4 DEF CommitInv
<1>12. TerminalInv(t)'
  BY <1>2, <1>3, <1>4, <1>9, TerminalKept
<1>13. CASE p # t
  <2>1. FailInv(t)' /\ StreamInv(t)'
    BY <1>2, <1>4, <1>13 DEF FailInv, StreamInv
  <2> QED
    BY <1>2, <1>9, <1>10, <1>11, <1>12, <2>1, FrameInv
<1>14. CASE p = t
  <2>1. FailInv(t)'
    <3>1. t \notin history.disturbed /\ t \in history.failed =>
             commits[t] \in {<<>>, <<"fail_closed">>}
      BY <1>3 DEF FailInv
    <3> QED
      BY <1>2, <1>3, <1>4, <1>5, <1>6, <1>8, <1>14, <3>1, FailByOwn
  <2>2. StreamInv(t)'
    <3>1. SUFFICES ASSUME t \notin history.disturbed PROVE StreamInv(t)'
      BY <1>4 DEF StreamInv
    <3>2. /\ \A q \in Task: Waits(q, t)' <=> Waits(q, t)
          /\ Blocked(t)' = Blocked(t)
      BY <1>1, <1>2, <1>3, <1>5, <1>9, WaitsKept
    <3>3. Flows(t) => Flows(t)'
      BY <1>4, <1>7, <3>2 DEF Flows
    <3>4. Place(task'[t]) = "done" /\ t \notin session'
      BY <1>0, <1>5, <1>6, <1>14
    <3> HIDE DEF Waits, Flows, Place
    <3> QED
      BY <1>3, <1>4, <1>7, <3>1, <3>2, <3>3, <3>4 DEF StreamInv
  <2> QED
    BY <1>2, <1>9, <1>10, <1>11, <1>12, <2>1, <2>2, FrameInv
<1> QED
  BY <1>13, <1>14

\* A blocked event joins the queue behind all that was published before it.
LEMMA PutInv ==
  ASSUME Inv, NEW p \in Task, Put(p)
  PROVE  Inv'
<1>0. Shape /\ TypeOK /\ task[p].pc = "put" /\ task[p] \in TaskState /\ TaskOK(p)
  BY DEF Inv, Shape, TypeOK, Put
<1>1. PICK e \in Event: /\ task[p].event = {e} /\ task[p].turn = {e.turn}
                        /\ history.since[e.turn] <= task[p].to
  BY <1>0 DEF TaskOK, PutOK
<1> DEFINE t == e.turn
           d == task[p].to
           x == [task[p] EXCEPT !.pc = task[p].then, !.event = {}, !.to = 0, !.then = "idle"]
<1>2. t \in Turn /\ d \in 1..conn /\ task[p].then # "put" /\ (CHOOSE f \in task[p].event: TRUE) = e
  BY <1>0, <1>1 DEF TaskOK, PutOK, Event
<1>3. /\ x \in TaskState /\ x.pc = task[p].then /\ x.turn = {t} /\ x.error = task[p].error
      /\ x.intents = task[p].intents
  <2>1. 0 \in 0..MaxConnections /\ {} \in SUBSET Event
    BY StreamBounds
  <2> QED
    BY <1>0, <1>1, <2>1 DEF TaskState, PC, Waiting
<1>4. /\ session' = session /\ turn' = turn /\ intents' = intents /\ bus' = bus /\ conn' = conn
      /\ on' = on /\ law' = law /\ commits' = commits /\ counts' = counts /\ history' = history
      /\ Len(queue[d]) < QueueMax /\ queue' = [queue EXCEPT ![d] = Append(queue[d], e)]
      /\ Becomes(p, x)
  BY <1>2 DEF Put, manager
<1> HIDE DEF t, d, x
<1>5. Goes(p, x)
  BY <1>4, BecomesGoes
<1>6. task'[p] = x /\ Place(x) = Place(task[p]) /\ x.pc # "put"
  BY <1>0, <1>2, <1>3, <1>5 DEF Goes, TypeOK, Place
<1>7. /\ Started(t) /\ task[p].turn = {t} /\ (p \in Turn => p = t)
      /\ \/ p = t /\ task[p].error \in {"failed", "done"} /\ Place(task[p]) # "idle"
         \/ /\ p \in Client /\ p # t /\ task[p].error = "idle"
            /\ Place(task[p]) \in {"idle", "startCommit", "commit", "trace"}
  <2>1. task[p].turn = {t}
    BY <1>1 DEF t
  <2>2. CASE p \in Turn
    <3>1. Started(p) /\ task[p].turn = {p}
      BY <1>0, <2>2, OwnTask
    <3>2. p = t
      BY <2>1, <3>1
    <3> QED
      BY <1>0, <2>1, <2>2, <3>1, <3>2 DEF TaskOK
  <2>3. CASE p \in Client
    <3>1. p \notin Turn /\ p # t
      BY <1>2, <2>3, ClientsAreNotTurns
    <3> QED
      BY <1>0, <2>1, <2>3, <3>1 DEF TaskOK
  <2> QED
    BY <2>2, <2>3 DEF Task
<1>8. CommitInv(t) /\ TerminalInv(t) /\ FailInv(t) /\ StreamInv(t)
  BY <1>2 DEF Inv
<1>9. Marks(history', t)
  BY <1>0, <1>2, <1>4, HistoryFacts
<1>10. Frame(p, t, x)
  <2>1. turn \in [Turn -> TurnState] /\ commits \in [Turn -> Seq({"ok", "fail_closed"})]
        /\ intents \in [Turn -> SUBSET Intent]
        /\ counts \in [requests: 0..MaxRequests, faults: 0..MaxFaults, emits: 0..MaxEmits]
        /\ bus \in [Turn -> SUBSET BusState] /\ \A b, c \in bus[t]: b = c
    BY <1>0, <1>2 DEF TypeOK
  <2>2. Queues(t)
    BY <1>2, <1>4 DEF Queues, t
  <2> QED
    BY <1>3, <1>4, <1>5, <1>7, <1>9, <2>1, <2>2 DEF Frame
<1>11. TaskOK(p)'
  <2>1. Started(t)' /\ PutOK(task[p])'
    BY <1>4, <1>6, <1>7 DEF Started, PutOK
  <2> QED
    BY <1>2, <1>3, <1>6, <1>7, <2>1, CallerTaskOK
<1>12. Commits(p, t)' => Commits(p, t)
  BY <1>3, <1>6, <1>7 DEF Commits
<1>13. CommitInv(t)'
  BY <1>0, <1>2, <1>4, <1>6, <1>8, <1>10, <1>12, CommitKept
<1>14. TerminalInv(t)'
  BY <1>2, <1>4, <1>8, <1>10, TerminalKept
<1>15. FailInv(t)'
  <2>1. CASE p = t
    <3>1. t \notin history.disturbed =>
            /\ Place(x) \in {"run", "requested", "manifest"} =>
                  ~turn[t].commitStarted /\ t \notin history.failed
            /\ t \in history.failed =>
                  /\ commits[t] \in {<<>>, <<"fail_closed">>}
                  /\ Place(x) \in {"cancelFirst", "finalize", "startCommit"} =>
                        "fail_closed" \in intents[t]
                  /\ Place(x) = "commit" => "fail_closed" \in x.intents
      BY <1>3, <1>6, <1>8, <2>1 DEF FailInv
    <3> QED
      BY <1>0, <1>2, <1>4, <1>5, <1>8, <1>9, <2>1, <3>1, FailByOwn
  <2>2. CASE p # t
    BY <1>0, <1>2, <1>4, <1>8, <1>10, <1>12, <2>2, FailByClient
  <2> QED
    BY <2>1, <2>2
<1>16. StreamInv(t)'
  <2>1. e.turn = t /\ task[p].to = d /\ history.since[t] <= d
    BY <1>1 DEF t, d
  <2> QED
    BY <1>0, <1>1, <1>2, <1>3, <1>4, <1>6, <1>8, <1>10, <2>1, PutStream
<1> QED
  BY <1>2, <1>7, <1>10, <1>11, <1>13, <1>14, <1>15, <1>16, FrameInv

-----------------------------------------------------------------------------
(* The websocket and the housekeeping of the bus.                              *)

\* Steps that leave tasks and turns alone.
Idles == /\ loop' = loop /\ session' = session /\ turn' = turn /\ intents' = intents
         /\ task' = task /\ commits' = commits

\* They leave what is known of commits, terminals and failures.
LEMMA IdlesFacts ==
  ASSUME Idles, NEW t \in Turn, CommitInv(t), TerminalInv(t), FailInv(t),
         history'.terminals = history.terminals, history'.failed = history.failed,
         t \notin history'.disturbed => t \notin history.disturbed
  PROVE  /\ CommitInv(t)' /\ TerminalInv(t)' /\ FailInv(t)'
         /\ Blocked(t)' = Blocked(t) /\ \A p \in Task: Waits(p, t)' <=> Waits(p, t)
<1>1. task' = task /\ turn' = turn /\ commits' = commits /\ session' = session /\ intents' = intents
  BY DEF Idles
<1>2. \A p \in Task: Commits(p, t)' <=> Commits(p, t)
  BY <1>1 DEF Commits
<1>3. Started(t)' <=> Started(t)
  BY <1>1 DEF Started
<1>4. CommitInv(t)'
  BY <1>1, <1>2, <1>3 DEF CommitInv
<1>5. TerminalInv(t)'
  BY <1>1 DEF TerminalInv
<1>6. FailInv(t)'
  BY <1>1, <1>2 DEF FailInv
<1>7. Blocked(t)' = Blocked(t)
  BY <1>1 DEF Blocked
<1>8. \A p \in Task: Waits(p, t)' <=> Waits(p, t)
  BY <1>1 DEF Waits
<1> QED
  BY <1>4, <1>5, <1>6, <1>7, <1>8

\* Tasks and turns keep their shape when nothing but the wire, the bus and
\* the marks of begun turns change.
LEMMA IdlesShape ==
  ASSUME Shape, Idles, TypeOK', conn <= conn', on' => conn' # 0, history'.since = history.since,
         history'.terminals = history.terminals, history'.failed = history.failed,
         \A u \in Turn: ~Started(u) =>
            /\ bus'[u] = bus[u] /\ (u \in history'.disturbed => u \in history.disturbed)
            /\ \A c \in Connection:
                  law'[c][u] = law[c][u] /\ \A i \in DOMAIN queue'[c]: queue'[c][i].turn # u
  PROVE  Shape'
<1>0. TypeOK /\ TurnsBegun /\ (\A u \in Turn: history.since[u] <= conn)
      /\ (\A q \in Task: TaskOK(q)) /\ conn \in Nat /\ conn' \in Nat
      /\ (\A u \in Turn: history.since[u] \in Nat)
  BY StreamBounds DEF Shape, TypeOK, History
<1>1. task' = task /\ turn' = turn /\ commits' = commits /\ session' = session
  BY DEF Idles
<1>2. \A u: Started(u)' <=> Started(u)
  BY <1>1 DEF Started
<1>3. \A u \in Turn: history'.since[u] <= conn'
  BY <1>0
<1>4. ASSUME NEW q \in Task PROVE TaskOK(q)'
  <2>1. TaskOK(q)
    BY <1>0
  <2>2. PutOK(task[q])'
    <3>1. PutOK(task[q])
      BY <2>1 DEF TaskOK
    <3>2. task[q].to \in 1..conn => task[q].to \in 1..conn'
      BY <1>0
    <3> QED
      BY <1>1, <3>1, <3>2 DEF PutOK
  <2> QED
    BY <1>1, <1>2, <2>1, <2>2 DEF TaskOK
<1>5. TurnsBegun'
  <2>1. (\E n \in 0..MaxTurns: \A u \in Turn: Started(u) <=> u <= n)'
    BY <1>0, <1>2 DEF TurnsBegun
  <2>2. (\A u \in session: Started(u))'
    BY <1>0, <1>1, <1>2 DEF TurnsBegun
  <2>3. ASSUME NEW u \in Turn, ~Started(u)'
        PROVE  /\ turn'[u] = NewTurn /\ commits'[u] = <<>> /\ bus'[u] = {}
               /\ u \notin history'.failed /\ u \notin history'.disturbed
               /\ history'.terminals[u] = <<>> /\ history'.since[u] = 0
               /\ \A c \in Connection:
                     law'[c][u] = NoEvents /\ \A i \in DOMAIN queue'[c]: queue'[c][i].turn # u
    <3>1. ~Started(u)
      BY <1>2, <2>3
    <3> QED
      BY <1>0, <1>1, <3>1 DEF TurnsBegun
  <2> QED
    BY <2>1, <2>2, <2>3 DEF TurnsBegun
<1> QED
  BY <1>3, <1>4, <1>5 DEF Shape

\* A new connection has heard nothing, and no turn began with it.
LEMMA SubscribeInv ==
  ASSUME Inv, Subscribe
  PROVE  Inv'
<1>0. Shape /\ TypeOK /\ TurnsBegun /\ conn \in Nat
  BY StreamBounds DEF Inv, Shape, TypeOK
<1>1. /\ Idles /\ bus' = bus /\ queue' = queue /\ law' = law /\ counts' = counts
      /\ history' = history /\ conn' = conn + 1 /\ on' = TRUE /\ conn < MaxConnections
  BY DEF Subscribe, Idles, manager
<1>2. TypeOK'
  <2>1. conn' \in 0..MaxConnections /\ on' \in BOOLEAN
    BY <1>0, <1>1, StreamBounds DEF TypeOK
  <2>2. /\ loop' = loop /\ session' = session /\ turn' = turn /\ intents' = intents
        /\ task' = task /\ commits' = commits
    BY <1>1 DEF Idles
  <2> QED
    BY <1>0, <1>1, <2>1, <2>2 DEF TypeOK
<1>3. Shape'
  <2>1. conn <= conn' /\ conn' # 0
    BY <1>0, <1>1
  <2>2. \A u \in Turn: ~Started(u) => \A c \in Connection: \A i \in DOMAIN queue[c]: queue[c][i].turn # u
    BY <1>0 DEF TurnsBegun
  <2> QED
    BY <1>0, <1>1, <1>2, <2>1, <2>2, IdlesShape
<1>4. ASSUME NEW t \in Turn
      PROVE  (CommitInv(t) /\ TerminalInv(t) /\ FailInv(t) /\ StreamInv(t))'
  <2>0. CommitInv(t) /\ TerminalInv(t) /\ FailInv(t) /\ StreamInv(t)
    BY DEF Inv
  <2>1. /\ CommitInv(t)' /\ TerminalInv(t)' /\ FailInv(t)'
        /\ Blocked(t)' = Blocked(t) /\ \A p \in Task: Waits(p, t)' <=> Waits(p, t)
    BY <1>1, <2>0, IdlesFacts
  <2>2. history.since[t] # conn'
    <3>1. history.since[t] <= conn /\ history.since[t] \in Nat
      BY <1>0 DEF Shape, TypeOK, History
    <3> QED
      BY <1>0, <1>1, <3>1
  <2>3. task' = task /\ turn' = turn /\ session' = session
    BY <1>1 DEF Idles
  <2>4. Started(t)' <=> Started(t)
    BY <2>3 DEF Started
  <2> HIDE DEF Waits, Flows, Started, Place
  <2>5. StreamInv(t)'
    BY <1>1, <2>0, <2>1, <2>2, <2>3, <2>4 DEF StreamInv
  <2> QED
    BY <2>1, <2>5
<1> QED
  BY <1>3, <1>4 DEF Inv

\* An eviction disturbs the turn whose state is lost.
LEMMA EvictInv ==
  ASSUME Inv, NEW t \in Turn, Evict(t)
  PROVE  Inv'
<1>0. Shape /\ TypeOK /\ TurnsBegun /\ (on => conn # 0) /\ conn \in Nat
  BY StreamBounds DEF Inv, Shape, TypeOK
<1>1. /\ Idles /\ queue' = queue /\ law' = law /\ conn' = conn /\ on' = on /\ bus[t] # {}
      /\ bus' = [bus EXCEPT ![t] = {}] /\ counts.faults < MaxFaults
      /\ counts' = [counts EXCEPT !.faults = @ + 1]
      /\ history' = [history EXCEPT !.disturbed = @ \cup {t}]
  BY DEF Evict, Idles, manager, wire
<1>2. /\ history' \in History /\ history'.disturbed = history.disturbed \cup {t}
      /\ history'.failed = history.failed /\ history'.terminals = history.terminals
      /\ history'.since = history.since
  <2>1. history \in History
    BY <1>0 DEF TypeOK
  <2> QED
    BY <1>1, <2>1 DEF History
<1>3. /\ bus' \in [Turn -> SUBSET BusState] /\ bus'[t] = {}
      /\ \A u \in Turn \ {t}: bus'[u] = bus[u]
  BY <1>0, <1>1 DEF TypeOK
<1>4. TypeOK'
  <2>1. counts' \in [requests: 0..MaxRequests, faults: 0..MaxFaults, emits: 0..MaxEmits]
    BY <1>0, <1>1, CountFacts
  <2>2. /\ loop' = loop /\ session' = session /\ turn' = turn /\ intents' = intents
        /\ task' = task /\ commits' = commits
    BY <1>1 DEF Idles
  <2>3. \A u \in Turn: \A b, c \in bus'[u]: b = c
    BY <1>0, <1>3 DEF TypeOK
  <2> QED
    BY <1>0, <1>1, <1>2, <1>3, <2>1, <2>2, <2>3 DEF TypeOK
<1>5. Shape'
  <2>1. Started(t)
    BY <1>0, <1>1 DEF TurnsBegun
  <2>2. conn <= conn' /\ (on' => conn' # 0)
    BY <1>0, <1>1
  <2>3. \A u \in Turn: ~Started(u) => \A c \in Connection: \A i \in DOMAIN queue[c]: queue[c][i].turn # u
    BY <1>0 DEF TurnsBegun
  <2>4. \A u \in Turn: ~Started(u) =>
           bus'[u] = bus[u] /\ (u \in history'.disturbed => u \in history.disturbed)
    BY <1>2, <1>3, <2>1
  <2> QED
    BY <1>0, <1>1, <1>2, <1>4, <2>2, <2>3, <2>4, IdlesShape
<1>6. ASSUME NEW u \in Turn
      PROVE  (CommitInv(u) /\ TerminalInv(u) /\ FailInv(u) /\ StreamInv(u))'
  <2>0. CommitInv(u) /\ TerminalInv(u) /\ FailInv(u) /\ StreamInv(u)
    BY DEF Inv
  <2>1. /\ CommitInv(u)' /\ TerminalInv(u)' /\ FailInv(u)'
        /\ Blocked(u)' = Blocked(u) /\ \A p \in Task: Waits(p, u)' <=> Waits(p, u)
    BY <1>1, <1>2, <2>0, IdlesFacts
  <2>2. StreamInv(u)'
    <3>1. CASE u = t
      BY <1>2, <3>1 DEF StreamInv
    <3>2. CASE u # t
      <4>1. task' = task /\ turn' = turn /\ session' = session /\ bus'[u] = bus[u]
        BY <1>1, <1>3, <3>2 DEF Idles
      <4>2. (Started(u)' <=> Started(u)) /\ (Flows(u)' <=> Flows(u))
        BY <1>1, <2>1, <4>1 DEF Started, Flows
      <4>3. u \in history'.disturbed <=> u \in history.disturbed
        BY <1>2, <3>2
      <4> HIDE DEF Waits, Flows, Started, Place
      <4> QED
        BY <1>1, <1>2, <2>0, <2>1, <4>1, <4>2, <4>3 DEF StreamInv
    <3> QED
      BY <3>1, <3>2
  <2> QED
    BY <2>1, <2>2
<1> QED
  BY <1>5, <1>6 DEF Inv

\* An event leaves the queue of the connection.
LEMMA TailFacts ==
  ASSUME TypeOK, conn \in Connection, queue[conn] # <<>>,
         queue' = [queue EXCEPT ![conn] = Tail(queue[conn])]
  PROVE  /\ queue' \in [Connection -> Seq(Event)] /\ queue'[conn] = Tail(queue[conn])
         /\ \A c \in Connection: Len(queue'[c]) <= QueueMax
         /\ Head(queue[conn]) \in Event
         /\ \A u \in Turn, c \in Connection:
               (\A i \in DOMAIN queue[c]: queue[c][i].turn # u)
                 => \A i \in DOMAIN queue'[c]: queue'[c][i].turn # u
         /\ \A u \in Turn: (\A i \in DOMAIN queue[conn]: queue[conn][i].turn # u)
                 => Head(queue[conn]).turn # u
<1> DEFINE s == queue[conn]
           r == Tail(s)
<1>0. s \in Seq(Event) /\ s # <<>> /\ Len(s) <= QueueMax /\ QueueMax \in Nat
      /\ queue \in [Connection -> Seq(Event)] /\ \A c \in Connection: Len(queue[c]) <= QueueMax
  BY BusLimits DEF TypeOK, QueueMax
<1>1. /\ r \in Seq(Event) /\ Len(r) = Len(s) - 1 /\ Len(s) \in Nat /\ Head(s) \in Event
      /\ Head(s) = s[1] /\ 1 \in DOMAIN s
      /\ \A i \in DOMAIN r: r[i] = s[i + 1] /\ i + 1 \in DOMAIN s
  BY <1>0
<1>2. queue'[conn] = r /\ \A c \in Connection \ {conn}: queue'[c] = queue[c]
  BY <1>0
<1>3. queue' \in [Connection -> Seq(Event)]
  BY <1>0, <1>1
<1> HIDE DEF s, r
<1>4. Len(r) <= QueueMax
  BY <1>0, <1>1
<1>5. \A c \in Connection: Len(queue'[c]) <= QueueMax
  BY <1>0, <1>2, <1>4
<1>6. ASSUME NEW u \in Turn, NEW c \in Connection, \A i \in DOMAIN queue[c]: queue[c][i].turn # u,
             NEW i \in DOMAIN queue'[c]
      PROVE  queue'[c][i].turn # u
  <2>1. CASE c = conn
    BY <1>1, <1>2, <1>6, <2>1 DEF s
  <2>2. CASE c # conn
    BY <1>2, <1>6, <2>2
  <2> QED
    BY <2>1, <2>2
<1>7. \A u \in Turn: (\A i \in DOMAIN s: s[i].turn # u) => Head(s).turn # u
  BY <1>1
<1> QED
  BY <1>1, <1>2, <1>3, <1>5, <1>6, <1>7 DEF s, r

\* A disconnect loses the head of a queue that no law looks at any more.
LEMMA DisconnectInv ==
  ASSUME Inv, Disconnect
  PROVE  Inv'
<1>0. Shape /\ TypeOK /\ TurnsBegun /\ conn \in Nat
  BY StreamBounds DEF Inv, Shape, TypeOK
<1>1. /\ Idles /\ bus' = bus /\ law' = law /\ counts' = counts /\ history' = history
      /\ conn' = conn /\ on /\ on' = FALSE /\ queue[conn] # <<>>
      /\ queue' = [queue EXCEPT ![conn] = Tail(queue[conn])]
  BY DEF Disconnect, Idles, manager
<1>2. conn \in Connection
  BY <1>0, <1>1 DEF Shape, TypeOK, Connection
<1>3. /\ queue' \in [Connection -> Seq(Event)]
      /\ \A c \in Connection: Len(queue'[c]) <= QueueMax
      /\ \A u \in Turn, c \in Connection:
            (\A i \in DOMAIN queue[c]: queue[c][i].turn # u)
              => \A i \in DOMAIN queue'[c]: queue'[c][i].turn # u
  BY <1>0, <1>1, <1>2, TailFacts
<1>4. TypeOK'
  <2>2. /\ loop' = loop /\ session' = session /\ turn' = turn /\ intents' = intents
        /\ task' = task /\ commits' = commits
    BY <1>1 DEF Idles
  <2> QED
    BY <1>0, <1>1, <1>3, <2>2 DEF TypeOK
<1>5. Shape'
  <2>1. \A u \in Turn: ~Started(u) => \A c \in Connection: \A i \in DOMAIN queue[c]: queue[c][i].turn # u
    BY <1>0 DEF TurnsBegun
  <2>2. \A u \in Turn: ~Started(u) => \A c \in Connection: \A i \in DOMAIN queue'[c]: queue'[c][i].turn # u
    BY <1>3, <2>1
  <2>3. conn <= conn'
    BY <1>0, <1>1
  <2> QED
    BY <1>0, <1>1, <1>4, <2>2, <2>3, IdlesShape
<1>6. ASSUME NEW t \in Turn
      PROVE  (CommitInv(t) /\ TerminalInv(t) /\ FailInv(t) /\ StreamInv(t))'
  <2>0. CommitInv(t) /\ TerminalInv(t) /\ FailInv(t) /\ StreamInv(t)
    BY DEF Inv
  <2>1. /\ CommitInv(t)' /\ TerminalInv(t)' /\ FailInv(t)'
        /\ Blocked(t)' = Blocked(t) /\ \A p \in Task: Waits(p, t)' <=> Waits(p, t)
    BY <1>1, <2>0, IdlesFacts
  <2>2. task' = task /\ turn' = turn /\ session' = session
    BY <1>1 DEF Idles
  <2>3. Started(t)' <=> Started(t)
    BY <2>2 DEF Started
  <2> HIDE DEF Waits, Flows, Started, Place
  <2>4. StreamInv(t)'
    BY <1>1, <2>0, <2>1, <2>2, <2>3 DEF StreamInv
  <2> QED
    BY <2>1, <2>4
<1> QED
  BY <1>5, <1>6 DEF Inv

\* The stream of turn t when the connection takes the head of its queue.
LEMMA FlowsBehind ==
  ASSUME TypeOK, NEW t \in Turn, conn \in Connection, queue[conn] # <<>>, Flows(t),
         conn' = conn, bus'[t] = bus[t], Blocked(t)' = Blocked(t),
         queue'[conn] = Tail(queue[conn]),
         Head(queue[conn]).turn = t => law'[conn][t] = Consumed(law[conn][t], Head(queue[conn])),
         Head(queue[conn]).turn # t => law'[conn][t] = law[conn][t]
  PROVE  /\ Flows(t)'
         /\ ~law[conn][t].broken => ~law'[conn][t].broken
<1> DEFINE l == law[conn][t]
           m == law'[conn][t]
           s == queue[conn]
           r == queue'[conn]
           B == Blocked(t)
           f == Head(s)
<1>0. l \in LawState /\ s \in Seq(Event) /\ B \in SUBSET Event /\ bus[t] \in SUBSET BusState
  BY BlockedEvents DEF TypeOK
<1>1. /\ \A i \in DOMAIN s: s[i].turn = t => Fits(l, s, i - 1, s[i], t)
      /\ \A e \in B: Fits(l, s, Len(s), e, t)
      /\ \A b \in bus[t]: Reaches(l, s, B, t, b)
  BY DEF Flows
<1>2. /\ s # <<>> /\ r = Tail(s) /\ (f.turn = t => m = Consumed(l, f)) /\ (f.turn # t => m = l)
  OBVIOUS
<1>3. SUFFICES /\ \A i \in DOMAIN r: r[i].turn = t => Fits(m, r, i - 1, r[i], t)
               /\ \A e \in B: Fits(m, r, Len(r), e, t)
               /\ \A b \in bus[t]: Reaches(m, r, B, t, b)
               /\ ~l.broken => ~m.broken
  BY DEF Flows
<1> HIDE DEF l, m, s, r, B
<1>4. /\ f \in Event /\ s[1] = f /\ 1 \in DOMAIN s /\ Len(s) \in 1..Len(s) /\ Len(r) = Len(s) - 1
      /\ \A i \in DOMAIN r: i \in Nat /\ i + 1 \in DOMAIN s /\ r[i] = s[i + 1] /\ i \in 1..Len(s)
                            /\ r[i] \in Event
  BY <1>0, <1>2
<1>5. CASE f.turn = t
  <2>1. Fits(l, s, 0, f, t) /\ m = Consumed(l, f)
    BY <1>1, <1>2, <1>4, <1>5
  <2>2. ~l.broken => ~m.broken
    BY <1>0, <1>4, <2>1, LawfulHead
  <2>3. ASSUME NEW i \in DOMAIN r, r[i].turn = t
        PROVE  Fits(m, r, i - 1, r[i], t)
    <3>1. Fits(l, s, i, r[i], t)
      <4>1. Fits(l, s, (i + 1) - 1, s[i + 1], t) /\ (i + 1) - 1 = i
        BY <1>1, <1>4, <2>3
      <4> QED
        BY <1>4, <2>3, <4>1
    <3> QED
      BY <1>0, <1>2, <1>4, <1>5, <2>1, <2>3, <3>1, FitsBehindOwn
  <2>4. \A e \in B: Fits(m, r, Len(r), e, t)
    BY <1>0, <1>1, <1>2, <1>4, <1>5, <2>1, FitsBehindOwn
  <2>5. \A b \in bus[t]: Reaches(m, r, B, t, b)
    BY <1>0, <1>1, <1>2, <1>5, <2>1, ReachesBehindOwn
  <2> QED
    BY <2>2, <2>3, <2>4, <2>5
<1>6. CASE f.turn # t
  <2>1. m = l
    BY <1>2, <1>6
  <2>3. ASSUME NEW i \in DOMAIN r, r[i].turn = t
        PROVE  Fits(m, r, i - 1, r[i], t)
    <3>1. Fits(l, s, i, r[i], t)
      <4>1. Fits(l, s, (i + 1) - 1, s[i + 1], t) /\ (i + 1) - 1 = i
        BY <1>1, <1>4, <2>3
      <4> QED
        BY <1>4, <2>3, <4>1
    <3> QED
      BY <1>0, <1>2, <1>4, <1>6, <2>1, <2>3, <3>1, FitsBehindOther
  <2>4. \A e \in B: Fits(m, r, Len(r), e, t)
    BY <1>0, <1>1, <1>2, <1>4, <1>6, <2>1, FitsBehindOther
  <2>5. \A b \in bus[t]: Reaches(m, r, B, t, b)
    BY <1>0, <1>1, <1>2, <1>6, <2>1, ReachesBehindOther
  <2> QED
    BY <2>1, <2>3, <2>4, <2>5
<1> QED
  BY <1>5, <1>6

\* The subscriber receives the head of its queue, which obeys the law.
LEMMA ReceiveInv ==
  ASSUME Inv, Receive
  PROVE  Inv'
<1> DEFINE e == Head(queue[conn])
<1>0. Shape /\ TypeOK /\ TurnsBegun /\ conn \in Nat /\ (on => conn # 0)
      /\ law \in [Connection -> [Turn -> LawState]]
  BY StreamBounds DEF Inv, Shape, TypeOK
<1>1. /\ Idles /\ bus' = bus /\ counts' = counts /\ history' = history
      /\ conn' = conn /\ on /\ on' = on /\ queue[conn] # <<>>
      /\ law' = [law EXCEPT ![conn][e.turn] = Consumed(@, e)]
      /\ queue' = [queue EXCEPT ![conn] = Tail(queue[conn])]
  BY DEF Receive, Idles, manager
<1>2. conn \in Connection
  BY <1>0, <1>1 DEF Shape, TypeOK, Connection
<1>3. /\ queue' \in [Connection -> Seq(Event)] /\ queue'[conn] = Tail(queue[conn])
      /\ \A c \in Connection: Len(queue'[c]) <= QueueMax
      /\ \A u \in Turn, c \in Connection:
            (\A i \in DOMAIN queue[c]: queue[c][i].turn # u)
              => \A i \in DOMAIN queue'[c]: queue'[c][i].turn # u
      /\ \A u \in Turn: (\A i \in DOMAIN queue[conn]: queue[conn][i].turn # u) => e.turn # u
      /\ e \in Event
  BY <1>0, <1>1, <1>2, TailFacts
<1>4. e.turn \in Turn /\ e.seq \in Int
  BY <1>3 DEF Event
<1> HIDE DEF e
<1>5. /\ law' \in [Connection -> [Turn -> LawState]]
      /\ law'[conn][e.turn] = Consumed(law[conn][e.turn], e)
      /\ \A c \in Connection, u \in Turn: c # conn \/ u # e.turn => law'[c][u] = law[c][u]
  <2>1. law[conn] \in [Turn -> LawState] /\ law[conn][e.turn] \in LawState
    BY <1>0, <1>2, <1>4
  <2>2. Consumed(law[conn][e.turn], e) \in LawState
    BY <1>4, <2>1 DEF Consumed, LawState
  <2> DEFINE n == Consumed(law[conn][e.turn], e)
             g == [law[conn] EXCEPT ![e.turn] = n]
  <2>3. law' = [law EXCEPT ![conn] = g]
    BY <1>1
  <2> HIDE DEF n
  <2>4. g \in [Turn -> LawState] /\ g[e.turn] = n /\ \A u \in Turn: u # e.turn => g[u] = law[conn][u]
    BY <1>4, <2>1, <2>2 DEF n
  <2> HIDE DEF g
  <2> QED
    BY <1>0, <1>2, <2>3, <2>4 DEF n
<1>6. TypeOK'
  <2>2. /\ loop' = loop /\ session' = session /\ turn' = turn /\ intents' = intents
        /\ task' = task /\ commits' = commits
    BY <1>1 DEF Idles
  <2> QED
    BY <1>0, <1>1, <1>3, <1>5, <2>2 DEF TypeOK
<1>7. Shape'
  <2>1. \A u \in Turn: ~Started(u) => \A c \in Connection: \A i \in DOMAIN queue[c]: queue[c][i].turn # u
    BY <1>0 DEF TurnsBegun
  <2>2. \A u \in Turn: ~Started(u) => \A c \in Connection: \A i \in DOMAIN queue'[c]: queue'[c][i].turn # u
    BY <1>3, <2>1
  <2>3. \A u \in Turn: ~Started(u) => u # e.turn
    BY <1>2, <1>3, <2>1
  <2>4. \A u \in Turn: ~Started(u) => \A c \in Connection: law'[c][u] = law[c][u]
    BY <1>5, <2>3
  <2>5. conn <= conn' /\ (on' => conn' # 0)
    BY <1>0, <1>1
  <2> QED
    BY <1>0, <1>1, <1>6, <2>2, <2>4, <2>5, IdlesShape
<1>8. ASSUME NEW t \in Turn
      PROVE  (CommitInv(t) /\ TerminalInv(t) /\ FailInv(t) /\ StreamInv(t))'
  <2>0. CommitInv(t) /\ TerminalInv(t) /\ FailInv(t) /\ StreamInv(t)
    BY DEF Inv
  <2>1. /\ CommitInv(t)' /\ TerminalInv(t)' /\ FailInv(t)'
        /\ Blocked(t)' = Blocked(t) /\ \A p \in Task: Waits(p, t)' <=> Waits(p, t)
    BY <1>1, <2>0, IdlesFacts
  <2>2. task' = task /\ turn' = turn /\ session' = session
    BY <1>1 DEF Idles
  <2>3. Started(t)' <=> Started(t)
    BY <2>2 DEF Started
  <2>4. /\ e.turn = t => law'[conn][t] = Consumed(law[conn][t], e)
        /\ e.turn # t => law'[conn][t] = law[conn][t]
    BY <1>2, <1>5
  <2>5. Flows(t) => Flows(t)' /\ (~law[conn][t].broken => ~law'[conn][t].broken)
    BY <1>0, <1>1, <1>2, <1>3, <2>1, <2>4, FlowsBehind DEF e
  <2>6. history.since[t] # 0 /\ history.since[t] # conn =>
           law'[history.since[t]][t] = law[history.since[t]][t]
    <3>1. history.since[t] \in 0..MaxConnections
      BY <1>0 DEF TypeOK, History
    <3> QED
      BY <1>5, <3>1, StreamBounds DEF Connection
  <2>8. SUFFICES ASSUME t \notin history.disturbed PROVE StreamInv(t)'
    BY <1>1, <2>1 DEF StreamInv
  <2>9. history.since[t] # 0 => ~law'[history.since[t]][t].broken
    BY <1>1, <2>0, <2>5, <2>6, <2>8 DEF StreamInv
  <2> HIDE DEF Waits, Flows, Started, Place
  <2>7. StreamInv(t)'
    BY <1>1, <2>0, <2>1, <2>2, <2>3, <2>5, <2>8, <2>9 DEF StreamInv
  <2> QED
    BY <2>7
<1> QED
  BY <1>7, <1>8 DEF Inv

-----------------------------------------------------------------------------
(* A turn begins.                                                              *)

\* The turn that begins is the first that has not begun.
LEMMA NextTurnFacts ==
  ASSUME Shape, NEW t \in Turn, t = 1 + Cardinality({s \in Turn: turn[s].kind # "none"})
  PROVE  ~Started(t) /\ \A u \in Turn: Started(u) <=> u < t
<1>1. PICK n \in 0..MaxTurns: \A u \in Turn: Started(u) <=> u <= n
  BY DEF Shape, TurnsBegun
<1> DEFINE S == {s \in Turn: turn[s].kind # "none"}
<1>2. S = 1..n /\ n \in Nat
  BY <1>1, BusLimits DEF Started, Turn
<1>3. Cardinality(1..n) = n
  BY <1>1, FS_Interval
<1>4. t = 1 + Cardinality(S)
  OBVIOUS
<1> HIDE DEF S
<1>5. t = 1 + n /\ n \in Nat
  BY <1>2, <1>3, <1>4
<1> QED
  BY <1>1, <1>5 DEF Turn

\* Nobody works on a turn that has not begun.
LEMMA UnbegunFacts ==
  ASSUME Shape, NEW t \in Turn, ~Started(t)
  PROVE  /\ task[t] = IdleTask /\ t \in Task
         /\ \A q \in Task: ~Commits(q, t) /\ ~Waits(q, t)
<1>0. TypeOK /\ (\A q \in Task: TaskOK(q)) /\ t \in Task
  BY DEF Shape, Task
<1>1. task[t] = IdleTask
  BY <1>0 DEF TaskOK
<1>2. ASSUME NEW q \in Task PROVE t \notin task[q].turn
  <2>1. CASE q \in Turn
    <3>1. CASE Started(q)
      BY <1>0, <2>1, <3>1 DEF TaskOK
    <3>2. CASE ~Started(q)
      <4>1. task[q] = IdleTask
        BY <1>0, <2>1, <3>2 DEF TaskOK
      <4> QED
        BY <4>1 DEF IdleTask
    <3> QED
      BY <3>1, <3>2
  <2>2. CASE q \in Client
    BY <1>0, <2>2 DEF TaskOK
  <2> QED
    BY <2>1, <2>2 DEF Task
<1>3. \A q \in Task: ~Commits(q, t)
  BY <1>2 DEF Commits
<1>4. ASSUME NEW q \in Task, Waits(q, t) PROVE FALSE
  <2>1. task[q].pc = "put" /\ PutOK(task[q])
    BY <1>0, <1>4 DEF Waits, TaskOK
  <2>2. PICK e \in Event: task[q].event = {e} /\ task[q].turn = {e.turn}
    BY <2>1 DEF PutOK
  <2> QED
    BY <1>2, <1>4, <2>2 DEF Waits
<1> QED
  BY <1>0, <1>1, <1>3, <1>4

\* What begin_turn changes: turn t begins with task record x and bus state c.
Begins(t, x, c) ==
    /\ x \in TaskState /\ Goes(t, x) /\ x.turn = {t} /\ x.error = "failed" /\ Place(x) = "run"
    /\ x.pc = "put" => on /\ x.to = conn /\ \E e \in Event: x.event = {e} /\ e.turn = t
    /\ session = {} /\ session' = {t}
    /\ turn' \in [Turn -> TurnState] /\ turn'[t].kind \in Kind
    /\ turn'[t].terminal = "none" /\ ~turn'[t].commitStarted
    /\ intents' \in [Turn -> SUBSET Intent]
    /\ c \in BusState /\ bus' \in [Turn -> SUBSET BusState] /\ bus'[t] = {c}
    /\ \A u \in Turn \ {t}: turn'[u] = turn[u] /\ intents'[u] = intents[u] /\ bus'[u] = bus[u]
    /\ conn' = conn /\ on' = on /\ law' = law /\ commits' = commits /\ counts' = counts
    /\ Queues(t)
    /\ history' \in History /\ history'.failed = history.failed
    /\ history'.terminals = history.terminals
    /\ (on => history'.since[t] = conn) /\ (~on => history'.since[t] = 0)
    /\ \A u \in Turn \ {t}: /\ u \in history'.disturbed <=> u \in history.disturbed
                            /\ history'.since[u] = history.since[u]

\* The first event of a turn on a connection.
LEMMA FirstReaches ==
  ASSUME NEW s \in Seq(Event), NEW t \in Turn, NEW b \in BusState,
         \A i \in DOMAIN s: s[i].turn # t,
         b.nextSeq = 0, ~b.terminal, ~b.commitFinal
  PROVE  Reaches(NoEvents, s, {}, t, b)
BY DEF Reaches, NoEvents

\* begin_turn says just that.
LEMMA BeginBegins ==
  ASSUME Shape, NEW t \in Turn, ~Started(t), NEW kind \in Kind, NEW budget \in TurnBudget,
         BeginTurn(t, kind, budget)
  PROVE  \E x \in TaskState, c \in BusState: Begins(t, x, c) /\ (on => Flows(t)')
<1> DEFINE b == [NewBusState EXCEPT !.budget = budget]
           type == "turn_accepted"
           then == "run"
           error == "done"
           r == [task[t] EXCEPT !.turn = {t}, !.error = "failed"]
           since == IF on THEN conn ELSE 0
           h == [history EXCEPT !.since[t] = since]
           c == Published(b, type, on)
<1>0. /\ TypeOK /\ (on => conn # 0) /\ t \in Task /\ task[t] = IdleTask
      /\ \A q \in Task: ~Commits(q, t) /\ ~Waits(q, t)
  BY UnbegunFacts DEF Shape
<1>1. /\ turn[t] = NewTurn /\ history.terminals[t] = <<>>
      /\ \A d \in Connection: law[d][t] = NoEvents /\ \A i \in DOMAIN queue[d]: queue[d][i].turn # t
  BY DEF Shape, TurnsBegun
<1>2. /\ b \in BusState /\ b.nextSeq = 0 /\ b.terminal = FALSE /\ b.commitFinal = FALSE
  <2>1. budget \in Nat
    BY BudgetsAreNumbers
  <2> QED
    BY <2>1 DEF NewBusState, BusState
<1>3. type \in EventType /\ then \in PC \ {"put"} /\ error \in PC \ {"put"}
      /\ type \notin Terminal /\ type \notin Bounded /\ type # "commit_final"
  BY DEF EventType, MustDeliver, PC, Waiting, Terminal, Bounded
<1>4. r \in TaskState /\ r.turn = {t} /\ r.error = "failed"
  <2>1. IdleTask \in TaskState /\ "failed" \in PC
    BY StreamBounds DEF IdleTask, TaskState, PC, Waiting
  <2> QED
    BY <1>0, <2>1 DEF TaskState
<1>5. since \in 0..MaxConnections /\ (on => since = conn) /\ (~on => since = 0)
  BY <1>0, StreamBounds DEF TypeOK
<1> HIDE DEF since
<1>6. /\ h \in History /\ h.failed = history.failed /\ h.disturbed = history.disturbed
      /\ h.terminals = history.terminals
      /\ h.since = [history.since EXCEPT ![t] = since]
  <2>1. history \in History
    BY <1>0 DEF TypeOK
  <2> QED
    BY <1>5, <2>1 DEF History
<1>7. /\ session = {} /\ session' = {t}
      /\ turn' = [turn EXCEPT ![t].kind = kind] /\ intents' = [intents EXCEPT ![t] = {}]
      /\ conn' = conn /\ on' = on /\ law' = law /\ commits' = commits /\ counts' = counts
      /\ PublishOn(b, t, t, type, r, then, error, h)
  BY DEF BeginTurn, since
<1>8. ~Refused(b, type)
  BY <1>2, <1>3 DEF Refused
<1> HIDE DEF b, type, then, error, r, h
<1>9. PICK x \in TaskState: Sends(b, t, t, type, x, r, then, error, h)
  BY <1>0, <1>2, <1>3, <1>4, <1>6, <1>7, PublishSends
<1>10. c \in BusState
  BY <1>0, <1>2, <1>3, PublishedFacts DEF TypeOK
<1> HIDE DEF c
<1>11. /\ x \in TaskState /\ Goes(t, x) /\ x.turn = {t} /\ x.error = "failed" /\ Place(x) = "run"
       /\ bus' = [bus EXCEPT ![t] = {c}]
       /\ history' \in History
       /\ history'.failed = h.failed /\ history'.since = h.since
       /\ h.disturbed \subseteq history'.disturbed
       /\ history'.disturbed \subseteq h.disturbed \cup {t}
       /\ history'.terminals =
                 [h.terminals EXCEPT ![t] = IF type \in Terminal THEN Append(h.terminals[t], type)
                                            ELSE h.terminals[t]]
  BY <1>4, <1>8, <1>9 DEF Sends, then, c
<1>12. \/ x.pc = then /\ queue' = queue /\ Outgoing(b, t, type, on) = {}
       \/ /\ on
          /\ \E e \in Event:
                /\ e.turn = t /\ Outgoing(b, t, type, TRUE) = {e}
                /\ \/ /\ x.pc = "put" /\ x.event = {e} /\ x.to = conn /\ x.then = then
                      /\ queue' = queue
                   \/ /\ x.pc = then /\ Len(queue[conn]) < QueueMax
                      /\ queue' = [queue EXCEPT ![conn] = Append(queue[conn], e)]
  BY <1>8, <1>9 DEF Sends
<1>13. on => conn \in Connection /\ conn \in 1..conn
  BY <1>0, StreamBounds DEF TypeOK, Connection
<1>14. Begins(t, x, c)
  <2>1. x.pc = "put" => on /\ x.to = conn /\ \E e \in Event: x.event = {e} /\ e.turn = t
    BY <1>3, <1>12
  <2>2. /\ turn' \in [Turn -> TurnState] /\ turn'[t].kind \in Kind
        /\ turn'[t].terminal = "none" /\ ~turn'[t].commitStarted
        /\ \A u \in Turn \ {t}: turn'[u] = turn[u]
    <3>1. turn \in [Turn -> TurnState]
      BY <1>0 DEF TypeOK
    <3>2. turn'[t] = [NewTurn EXCEPT !.kind = kind]
      BY <1>1, <1>7, <3>1
    <3>3. [NewTurn EXCEPT !.kind = kind] \in TurnState
      BY DEF NewTurn, TurnState
    <3> QED
      BY <1>7, <3>1, <3>2, <3>3 DEF NewTurn
  <2>3. intents' \in [Turn -> SUBSET Intent] /\ \A u \in Turn \ {t}: intents'[u] = intents[u]
    BY <1>0, <1>7 DEF TypeOK
  <2>4. /\ bus' \in [Turn -> SUBSET BusState] /\ bus'[t] = {c}
        /\ \A u \in Turn \ {t}: bus'[u] = bus[u]
    BY <1>0, <1>10, <1>11 DEF TypeOK
  <2>5. Queues(t)
    BY <1>12, <1>13 DEF Queues
  <2>6. history'.terminals = history.terminals
    <3>1. history.terminals \in [Turn -> Seq(Terminal)]
      BY <1>0 DEF TypeOK, History
    <3> QED
      BY <1>3, <1>6, <1>11, <3>1
  <2>7. /\ (on => history'.since[t] = conn) /\ (~on => history'.since[t] = 0)
        /\ \A u \in Turn \ {t}: history'.since[u] = history.since[u]
    <3>1. history.since \in [Turn -> 0..MaxConnections]
      BY <1>0 DEF TypeOK, History
    <3> QED
      BY <1>5, <1>6, <1>11, <3>1
  <2>8. \A u \in Turn \ {t}: u \in history'.disturbed <=> u \in history.disturbed
    BY <1>6, <1>11
  <2> QED
    BY <1>6, <1>7, <1>10, <1>11, <2>1, <2>2, <2>3, <2>4, <2>5, <2>6, <2>7, <2>8 DEF Begins
<1>15. ASSUME on PROVE Flows(t)'
  <2> DEFINE l == NoEvents
             s == queue[conn]
             s2 == queue'[conn]
  <2>1. /\ conn \in Connection /\ s \in Seq(Event) /\ l \in LawState /\ l = law'[conn][t]
        /\ \A i \in DOMAIN s: s[i].turn # t
        /\ queue \in [Connection -> Seq(Event)] /\ on = TRUE
    BY <1>0, <1>1, <1>7, <1>13, <1>15 DEF TypeOK, LawState, NoEvents
  <2>2. task'[t] = x /\ \A q \in Task: task'[q] = task[q] \/ q = t
    BY <1>0, <1>11 DEF Goes, TypeOK
  <2>3. \A e: e \in Blocked(t)' <=> \E q \in Task: task'[q].pc = "put" /\ e \in task'[q].event /\ e.turn = t
    BY DEF Blocked
  <2>4. \A e: e \in Blocked(t)' <=> x.pc = "put" /\ e \in x.event /\ e.turn = t
    BY <1>0, <2>2, <2>3 DEF Waits
  <2>5. bus'[t] = {c} /\ c = Published(b, type, TRUE)
    BY <1>0, <1>11, <2>1 DEF TypeOK, c
  <2>6. SUFFICES /\ \A i \in DOMAIN s2: s2[i].turn = t => Fits(l, s2, i - 1, s2[i], t)
                 /\ \A e \in Blocked(t)': Fits(l, s2, Len(s2), e, t)
                 /\ Reaches(l, s2, Blocked(t)', t, c)
    BY <1>7, <2>1, <2>5 DEF Flows
  <2> HIDE DEF l
  <2>7. Reaches(l, s, {}, t, b)
    BY <1>2, <2>1, FirstReaches DEF l
  <2>8. PICK e \in Event:
                /\ e.turn = t /\ Outgoing(b, t, type, TRUE) = {e}
                /\ \/ x.pc = "put" /\ x.event = {e} /\ queue' = queue
                   \/ x.pc = then /\ queue' = [queue EXCEPT ![conn] = Append(s, e)]
    <3>1. Outgoing(b, t, type, on) # {}
      BY <1>3, <2>1 DEF Outgoing, IsDropped, BestEffort, type
    <3> QED
      BY <1>12, <3>1
  <2> HIDE DEF s, s2
  <2>9. Fits(l, s, Len(s), e, t) /\ Reaches(l, s, {e}, t, c)
    BY <1>2, <1>3, <1>8, <2>1, <2>5, <2>7, <2>8, HeardFits
  <2>10. CASE x.pc = "put" /\ x.event = {e} /\ queue' = queue
    <3>1. Blocked(t)' = {e} /\ s2 = s
      BY <2>4, <2>8, <2>10 DEF s, s2
    <3> QED
      BY <2>1, <2>9, <3>1
  <2>11. CASE x.pc = then /\ queue' = [queue EXCEPT ![conn] = Append(s, e)]
    <3>1. Blocked(t)' = {} /\ s2 = Append(s, e)
      BY <1>3, <2>1, <2>4, <2>11 DEF s2
    <3>2. Reaches(l, s2, {}, t, c)
      BY <1>10, <2>1, <2>8, <2>9, <3>1, ReachesPut
    <3>3. ASSUME NEW i \in DOMAIN s2, s2[i].turn = t
          PROVE  Fits(l, s2, i - 1, s2[i], t)
      <4>1. i - 1 = Len(s) /\ s2[i] = e
        BY <2>1, <3>1, <3>3
      <4>2. Len(s) \in 0..Len(s)
        BY <2>1
      <4> QED
        BY <2>1, <2>9, <3>1, <4>1, <4>2, FitsPrefix
    <3> QED
      BY <3>1, <3>2, <3>3
  <2> QED
    BY <2>8, <2>10, <2>11
<1> QED
  BY <1>10, <1>14, <1>15

\* The shape of the state after a turn began.
LEMMA BeginShape ==
  ASSUME Shape, NEW t \in Turn, ~Started(t), \A u \in Turn: Started(u) <=> u < t,
         NEW x \in TaskState, NEW c \in BusState, Begins(t, x, c)
  PROVE  Shape'
<1>0. /\ TypeOK /\ TurnsBegun /\ (on => conn # 0) /\ (\A u \in Turn: history.since[u] <= conn)
      /\ (\A q \in Task: TaskOK(q)) /\ t \in Task /\ t \notin Client /\ conn \in Nat
  BY ClientsAreNotTurns, StreamBounds DEF Shape, TypeOK, Task
<1>1. TypeOK'
  <2>1. loop' \in SUBSET Task /\ \A q, r \in loop': q = r
    BY <1>0 DEF Begins, Goes
  <2>2. task' \in [Task -> TaskState]
    BY <1>0 DEF Begins, Goes, TypeOK
  <2>3. session' \in SUBSET Turn /\ \A s, u \in session': s = u
    BY DEF Begins
  <2>4. queue' \in [Connection -> Seq(Event)] /\ \A d \in Connection: Len(queue'[d]) <= QueueMax
    BY <1>0, QueuesFacts DEF Begins
  <2>5. bus' \in [Turn -> SUBSET BusState] /\ \A u \in Turn: \A d, e \in bus'[u]: d = e
    <3>1. bus'[t] = {c} /\ (\A u \in Turn \ {t}: bus'[u] = bus[u])
          /\ bus' \in [Turn -> SUBSET BusState]
      BY DEF Begins
    <3>2. \A u \in Turn: \A d, e \in bus[u]: d = e
      BY <1>0 DEF TypeOK
    <3> QED
      BY <3>1, <3>2
  <2>6. /\ conn' \in 0..MaxConnections /\ on' \in BOOLEAN
        /\ law' \in [Connection -> [Turn -> LawState]]
        /\ commits' \in [Turn -> Seq({"ok", "fail_closed"})]
        /\ counts' \in [requests: 0..MaxRequests, faults: 0..MaxFaults, emits: 0..MaxEmits]
    BY <1>0 DEF Begins, TypeOK
  <2> QED
    BY <2>1, <2>2, <2>3, <2>4, <2>5, <2>6 DEF TypeOK, Begins
<1>2. (on => conn # 0)' /\ (\A u \in Turn: history.since[u] <= conn)'
  <2>1. \A u \in Turn: history'.since[u] <= conn
    BY <1>0 DEF Begins
  <2> QED
    BY <1>0, <2>1 DEF Begins
<1>3. \A u \in Turn: Started(u)' <=> Started(u) \/ u = t
  BY DEF Begins, Started, Kind
<1>4. ASSUME NEW q \in Task PROVE TaskOK(q)'
  <2>1. CASE q = t
    <3>1. task'[t] = x
      BY <1>0 DEF Begins, Goes, TypeOK
    <3>2. ASSUME x.pc = "put"
          PROVE  /\ x.then # "put" /\ x.to \in 1..conn'
                 /\ \E e \in Event: x.event = {e} /\ x.turn = {e.turn} /\ history'.since[e.turn] <= x.to
      <4>1. on /\ x.to = conn /\ conn' = conn /\ x.turn = {t} /\ Place(x) = "run"
            /\ history'.since[t] = conn
        BY <3>2 DEF Begins
      <4>2. PICK e \in Event: x.event = {e} /\ e.turn = t
        BY <3>2 DEF Begins
      <4>3. x.then # "put" /\ x.to \in 1..conn
        BY <1>0, <3>2, <4>1 DEF Place
      <4>4. x.turn = {e.turn} /\ history'.since[e.turn] <= x.to
        BY <1>0, <4>1, <4>2
      <4> QED
        BY <4>1, <4>2, <4>3, <4>4
    <3>3. PutOK(task[t])'
      BY <3>1, <3>2 DEF PutOK
    <3>4. x.turn = {t} /\ x.error = "failed" /\ Place(x) = "run" /\ Started(t)'
      BY <1>3 DEF Begins
    <3> QED
      BY <1>0, <2>1, <3>1, <3>3, <3>4 DEF TaskOK
  <2>2. CASE q # t
    <3>1. task'[q] = task[q] /\ conn' = conn
      BY <1>0, <2>2 DEF Begins, Goes, TypeOK
    <3>2. TaskOK(q)
      BY <1>0
    <3>3. \A u \in task[q].turn: u \in Turn
      BY <1>0 DEF TypeOK, TaskState
    <3>4. PutOK(task[q])'
      <4>1. SUFFICES ASSUME task[q].pc = "put" PROVE PutOK(task[q])'
        BY <3>1 DEF PutOK
      <4>2. PICK e \in Event: /\ task[q].event = {e} /\ task[q].turn = {e.turn}
                              /\ history.since[e.turn] <= task[q].to
        BY <3>2, <4>1 DEF TaskOK, PutOK
      <4>3. e.turn \in Turn /\ e.turn # t
        <5>1. ~Waits(q, t)
          BY UnbegunFacts
        <5> QED
          BY <4>1, <4>2, <5>1 DEF Waits, Event
      <4>4. history'.since[e.turn] = history.since[e.turn]
        BY <4>3 DEF Begins
      <4> QED
        BY <3>1, <3>2, <4>1, <4>2, <4>4 DEF TaskOK, PutOK
    <3> HIDE DEF PutOK, Place, Started
    <3>5. q \in Turn => /\ ~Started(q)' => task'[q] = IdleTask
                        /\ Started(q)' => task'[q].turn = {q} /\ task'[q].error \in {"failed", "done"}
                                          /\ Place(task'[q]) # "idle"
      BY <1>3, <2>2, <3>1, <3>2 DEF TaskOK
    <3>6. q \in Client =>
          /\ Place(task'[q]) \in {"idle", "startCommit", "commit", "trace"}
          /\ task'[q].error = "idle"
          /\ task'[q].turn = {} => Place(task'[q]) = "idle"
          /\ \A u \in task'[q].turn: Started(u)' /\ task'[q].turn = {u}
      BY <1>3, <3>1, <3>2, <3>3 DEF TaskOK
    <3> QED
      BY <3>4, <3>5, <3>6 DEF TaskOK
  <2> QED
    BY <2>1, <2>2
<1>5. TurnsBegun'
  <2>1. \E n \in 0..MaxTurns: \A u \in Turn: Started(u)' <=> u <= n
    <3>1. t \in 0..MaxTurns /\ \A u \in Turn: (u < t \/ u = t) <=> u <= t
      BY BusLimits DEF Turn
    <3>2. \A u \in Turn: Started(u)' <=> u <= t
      BY <1>3, <3>1
    <3> QED
      BY <3>1, <3>2
  <2>2. \A u \in session': Started(u)'
    BY <1>3 DEF Begins
  <2>3. ASSUME NEW u \in Turn, ~Started(u)'
        PROVE  /\ turn'[u] = NewTurn /\ commits'[u] = <<>> /\ bus'[u] = {}
               /\ u \notin history'.failed /\ u \notin history'.disturbed
               /\ history'.terminals[u] = <<>> /\ history'.since[u] = 0
               /\ \A d \in Connection:
                     law'[d][u] = NoEvents /\ \A i \in DOMAIN queue'[d]: queue'[d][i].turn # u
    <3>1. u \in Turn \ {t} /\ ~Started(u)
      BY <1>3, <2>3
    <3>2. /\ turn[u] = NewTurn /\ commits[u] = <<>> /\ bus[u] = {}
          /\ u \notin history.failed /\ u \notin history.disturbed
          /\ history.terminals[u] = <<>> /\ history.since[u] = 0
      BY <1>0, <3>1 DEF TurnsBegun
    <3>3. \A d \in Connection:
             law[d][u] = NoEvents /\ \A i \in DOMAIN queue[d]: queue[d][i].turn # u
      BY <1>0, <3>1 DEF TurnsBegun
    <3>4. \A d \in Connection: \A i \in DOMAIN queue'[d]: queue'[d][i].turn # u
      <4>1. Queues(t)
        BY DEF Begins
      <4>2. \A d \in Connection, v \in Turn \ {t}:
               (\A i \in DOMAIN queue[d]: queue[d][i].turn # v)
                 => \A i \in DOMAIN queue'[d]: queue'[d][i].turn # v
        BY <1>0, <4>1, QueuesFacts
      <4> QED
        BY <3>1, <3>3, <4>2, Zenon
    <3>5. /\ turn'[u] = NewTurn /\ commits'[u] = <<>> /\ bus'[u] = {}
      BY <3>1, <3>2 DEF Begins
    <3>6. /\ u \notin history'.failed /\ u \notin history'.disturbed
          /\ history'.terminals[u] = <<>> /\ history'.since[u] = 0
      BY <3>1, <3>2 DEF Begins
    <3> QED
      BY <3>3, <3>4, <3>5, <3>6 DEF Begins
  <2> QED
    BY <2>1, <2>2, <2>3 DEF TurnsBegun
<1> QED
  BY <1>1, <1>2, <1>4, <1>5 DEF Shape

\* The turns that began before keep what they have.
LEMMA BeginOthers ==
  ASSUME Shape, NEW t \in Turn, ~Started(t), NEW x \in TaskState, NEW c \in BusState,
         Begins(t, x, c), NEW u \in Turn, u # t, Good(u)
  PROVE  Good(u)'
<1>0. TypeOK /\ (on => conn # 0) /\ t \in Task /\ u \in Task /\ task[t] = IdleTask
  BY UnbegunFacts DEF Shape, Task
<1>1. task'[t] = x /\ \A q \in Task: task'[q] = task[q] \/ q = t
  BY <1>0 DEF Begins, Goes, TypeOK
<1>2. x.turn = {t} /\ (x.pc = "put" => \A e \in x.event: e.turn # u)
  BY DEF Begins
<1>3. \A q \in Task: Commits(q, u)' <=> Commits(q, u)
  BY <1>0, <1>1, <1>2 DEF Commits, IdleTask
<1>4. \A q \in Task: Commits(q, u) => task'[q] = task[q]
  BY <1>0, <1>1 DEF Commits, IdleTask
<1>5. \A q \in Task: Waits(q, u)' <=> Waits(q, u)
  BY <1>0, <1>1, <1>2 DEF Waits, IdleTask
<1>6. Blocked(u)' = Blocked(u)
  <2>1. \A e: e \in Blocked(u) <=> \E q \in Task: task[q].pc = "put" /\ e \in task[q].event /\ e.turn = u
    BY DEF Blocked
  <2>2. \A e: e \in Blocked(u)' <=> \E q \in Task: task'[q].pc = "put" /\ e \in task'[q].event /\ e.turn = u
    BY DEF Blocked
  <2>3. ASSUME NEW e, NEW q \in Task
        PROVE  (task'[q].pc = "put" /\ e \in task'[q].event /\ e.turn = u)
                 <=> (task[q].pc = "put" /\ e \in task[q].event /\ e.turn = u)
    BY <1>0, <1>1, <1>2 DEF IdleTask
  <2> QED
    BY <2>1, <2>2, <2>3
<1>7. /\ turn'[u] = turn[u] /\ intents'[u] = intents[u] /\ commits'[u] = commits[u]
      /\ bus'[u] = bus[u] /\ u \notin session' /\ u \notin session
      /\ conn' = conn /\ on' = on /\ law' = law /\ Queues(t) /\ task'[u] = task[u]
  BY <1>0, <1>1 DEF Begins
<1>8. /\ u \in history'.disturbed <=> u \in history.disturbed
      /\ u \in history'.failed <=> u \in history.failed
      /\ history'.terminals[u] = history.terminals[u] /\ history'.since[u] = history.since[u]
  BY DEF Begins
<1>9. CommitInv(u)'
  BY <1>3, <1>4, <1>7 DEF Good, CommitInv, Started
<1>10. TerminalInv(u)'
  BY <1>7, <1>8 DEF Good, TerminalInv
<1>11. FailInv(u)'
  BY <1>3, <1>7, <1>8 DEF Good, FailInv
<1>12. StreamInv(u)'
  <2>1. on /\ Flows(u) => Flows(u)'
    <3>1. on => conn \in Connection
      BY <1>0 DEF TypeOK, Connection
    <3>2. Blocked(u) \in SUBSET Event
      BY <1>0, BlockedEvents
    <3> QED
      BY <1>0, <1>6, <1>7, <3>1, <3>2, OtherFlows
  <2> QED
    BY <1>5, <1>7, <1>8, <2>1 DEF Good, StreamInv, Started
<1> QED
  BY <1>9, <1>10, <1>11, <1>12 DEF Good

\* Nothing has gone wrong with the new turn yet.
LEMMA BeginOwn ==
  ASSUME Shape, NEW t \in Turn, ~Started(t), NEW x \in TaskState, NEW c \in BusState,
         Begins(t, x, c), on => Flows(t)'
  PROVE  Good(t)'
<1>0. /\ TypeOK /\ t \in Task /\ (on => conn # 0) /\ conn \in Nat
      /\ \A q \in Task: ~Commits(q, t) /\ ~Waits(q, t)
  BY UnbegunFacts, StreamBounds DEF Shape, TypeOK
<1>1. /\ commits[t] = <<>> /\ t \notin history.failed /\ history.terminals[t] = <<>>
      /\ \A d \in Connection: law[d][t] = NoEvents
  BY DEF Shape, TurnsBegun
<1>2. task'[t] = x /\ \A q \in Task: task'[q] = task[q] \/ q = t
  BY <1>0 DEF Begins, Goes, TypeOK
<1>3. /\ Place(x) = "run" /\ session' = {t} /\ commits' = commits /\ law' = law /\ conn' = conn
      /\ on' = on /\ history'.failed = history.failed /\ history'.terminals = history.terminals
      /\ turn'[t].terminal = "none" /\ ~turn'[t].commitStarted /\ bus'[t] = {c}
      /\ (on => history'.since[t] = conn) /\ (~on => history'.since[t] = 0)
  BY DEF Begins
<1>4. \A q \in Task: ~Commits(q, t)'
  BY <1>0, <1>2, <1>3 DEF Commits
<1>5. \A q \in Task: Waits(q, t)' => q = t
  BY <1>0, <1>2 DEF Waits
<1>6. CommitInv(t)'
  <2>1. Len(commits'[t]) <= 1
    BY <1>1, <1>3
  <2> HIDE DEF Commits
  <2> QED
    BY <1>1, <1>3, <1>4, <2>1 DEF CommitInv
<1>7. TerminalInv(t)'
  BY <1>1, <1>3 DEF TerminalInv
<1>8. FailInv(t)'
  BY <1>1, <1>2, <1>3, <1>4 DEF FailInv
<1>9. StreamInv(t)'
  <2>1. history'.since[t] # 0 => ~law'[history'.since[t]][t].broken
    <3>1. on => conn \in Connection
      BY <1>0 DEF TypeOK, Connection
    <3> QED
      BY <1>0, <1>1, <1>3, <3>1 DEF NoEvents, TypeOK
  <2> HIDE DEF Waits, Flows, Place
  <2> QED
    BY <1>3, <1>5, <2>1 DEF StreamInv
<1> QED
  BY <1>6, <1>7, <1>8, <1>9 DEF Good

\* begin_turn keeps the invariant.
LEMMA BeginTurnInv ==
  ASSUME Inv, NEW t \in Turn, NEW kind \in Kind, NEW budget \in TurnBudget,
         BeginTurn(t, kind, budget)
  PROVE  Inv'
<1>0. Shape /\ \A u \in Turn: Good(u)
  BY DEF Inv, Good
<1>1. ~Started(t) /\ \A u \in Turn: Started(u) <=> u < t
  <2>1. t = 1 + Cardinality({s \in Turn: turn[s].kind # "none"})
    BY DEF BeginTurn
  <2> QED
    BY <1>0, <2>1, NextTurnFacts
<1>2. PICK x \in TaskState, c \in BusState: Begins(t, x, c) /\ (on => Flows(t)')
  BY <1>0, <1>1, BeginBegins
<1>3. Shape'
  BY <1>0, <1>1, <1>2, BeginShape
<1>4. \A u \in Turn: Good(u)'
  <2>1. Good(t)'
    BY <1>0, <1>1, <1>2, BeginOwn
  <2> QED
    BY <1>0, <1>1, <1>2, <2>1, BeginOthers
<1> QED
  BY <1>3, <1>4 DEF Inv, Good

-----------------------------------------------------------------------------
(* The theorems.                                                               *)

\* Nothing has begun.
LEMMA InitInv ==
  ASSUME Init
  PROVE  Inv
<1>0. /\ MaxTurns \in Nat /\ MaxConnections \in Nat /\ MaxRequests \in Nat
      /\ MaxFaults \in Nat /\ MaxEmits \in Nat /\ QueueMax \in Nat
  BY BusLimits, StreamBounds DEF QueueMax
<1>1. \A t \in Turn: turn[t] = NewTurn /\ bus[t] = {} /\ commits[t] = <<>>
  BY DEF Init
<1>2. \A p \in Task: task[p] = IdleTask
  BY DEF Init
<1>3. /\ history.failed = {} /\ history.disturbed = {} /\ history.writeFailed = FALSE
      /\ history.terminals = [t \in Turn |-> <<>>] /\ history.since = [t \in Turn |-> 0]
  BY DEF Init
<1>4. conn = 0 /\ on = FALSE /\ session = {} /\ loop = {}
  BY DEF Init
<1>5. TypeOK
  <2>1. turn \in [Turn -> TurnState]
    <3>1. NewTurn \in TurnState
      BY DEF NewTurn, TurnState
    <3> QED
      BY <3>1 DEF Init
  <2>2. task \in [Task -> TaskState]
    <3>1. IdleTask \in TaskState
      BY <1>0 DEF IdleTask, TaskState, PC, Waiting
    <3> QED
      BY <3>1 DEF Init
  <2>3. law \in [Connection -> [Turn -> LawState]]
    <3>1. NoEvents \in LawState
      BY DEF NoEvents, LawState
    <3> QED
      BY <3>1 DEF Init
  <2>4. queue \in [Connection -> Seq(Event)] /\ \A c \in Connection: Len(queue[c]) <= QueueMax
    BY <1>0 DEF Init
  <2>5. history \in History
    <3>1. [t \in Turn |-> <<>>] \in [Turn -> Seq(Terminal)]
      OBVIOUS
    <3>2. [t \in Turn |-> 0] \in [Turn -> 0..MaxConnections]
      BY <1>0
    <3> QED
      BY <3>1, <3>2 DEF Init, History
  <2>6. counts \in [requests: 0..MaxRequests, faults: 0..MaxFaults, emits: 0..MaxEmits]
    BY <1>0 DEF Init
  <2>7. commits \in [Turn -> Seq({"ok", "fail_closed"})] /\ intents \in [Turn -> SUBSET Intent]
        /\ bus \in [Turn -> SUBSET BusState]
    BY DEF Init
  <2> QED
    <3>1. /\ loop \in SUBSET Task /\ \A p, q \in loop: p = q
          /\ session \in SUBSET Turn /\ \A s, t \in session: s = t
          /\ on \in BOOLEAN
      BY <1>4
    <3>2. conn \in 0..MaxConnections
      BY <1>0, <1>4
    <3>3. \A t \in Turn: \A b, c \in bus[t]: b = c
      BY <1>1
    <3> QED
      BY <2>1, <2>2, <2>3, <2>4, <2>5, <2>6, <2>7, <3>1, <3>2, <3>3 DEF TypeOK
<1>6. \A t \in Turn: ~Started(t)
  BY <1>1 DEF Started, NewTurn
<1>7. Shape
  <2>1. \A t \in Turn: history.since[t] <= conn
    BY <1>3, <1>4
  <2>2. ASSUME NEW p \in Task PROVE TaskOK(p)
    BY <1>2, <1>6 DEF TaskOK, PutOK, IdleTask, Place
  <2>3. TurnsBegun
    <3>1. \E n \in 0..MaxTurns: \A t \in Turn: Started(t) <=> t <= n
      <4>1. 0 \in 0..MaxTurns /\ \A t \in Turn: Started(t) <=> t <= 0
        BY <1>0, <1>6 DEF Turn
      <4> QED
        BY <4>1
    <3>2. \A t \in Turn: history.terminals[t] = <<>> /\ history.since[t] = 0
      BY <1>3
    <3>3. \A t \in Turn, c \in Connection:
             law[c][t] = NoEvents /\ \A i \in DOMAIN queue[c]: queue[c][i].turn # t
      BY DEF Init
    <3> QED
      BY <1>1, <1>3, <1>4, <3>1, <3>2, <3>3 DEF TurnsBegun
  <2> QED
    BY <1>4, <1>5, <2>1, <2>2, <2>3 DEF Shape
<1>8. ASSUME NEW t \in Turn PROVE CommitInv(t) /\ TerminalInv(t) /\ FailInv(t) /\ StreamInv(t)
  <2>1. t \in Task /\ task[t] = IdleTask /\ \A q \in Task: ~Commits(q, t) /\ ~Waits(q, t)
    BY <1>6, <1>7, UnbegunFacts
  <2>2. turn[t].terminal = "none" /\ turn[t].commitStarted = FALSE /\ turn[t].kind = "none"
    BY <1>1 DEF NewTurn
  <2>3. Place(task[t]) = "idle"
    BY <2>1 DEF Place, IdleTask
  <2>4. history.since[t] = 0 /\ t \notin history.failed /\ commits[t] = <<>> /\ Len(commits[t]) = 0
    BY <1>1, <1>3
  <2> HIDE DEF Commits, Waits, Flows, Place, Started
  <2>5. CommitInv(t)
    BY <1>6, <2>1, <2>2, <2>4 DEF CommitInv
  <2>6. TerminalInv(t)
    BY <2>2 DEF TerminalInv
  <2>7. FailInv(t)
    BY <2>1, <2>3, <2>4 DEF FailInv
  <2>8. StreamInv(t)
    BY <1>1, <1>4, <1>6, <2>1, <2>2, <2>4 DEF StreamInv
  <2> QED
    BY <2>5, <2>6, <2>7, <2>8
<1> QED
  BY <1>7, <1>8 DEF Inv

\* A step that changes nothing.
LEMMA StutterInv ==
  ASSUME Inv, UNCHANGED vars
  PROVE  Inv'
<1>1. /\ loop' = loop /\ session' = session /\ turn' = turn /\ intents' = intents /\ bus' = bus
      /\ task' = task /\ conn' = conn /\ on' = on /\ queue' = queue /\ law' = law
      /\ commits' = commits /\ counts' = counts /\ history' = history
  BY DEF vars, manager, wire
<1>2. Shape'
  <2>1. TypeOK'
    BY <1>1 DEF Inv, Shape, TypeOK
  <2>2. \A p \in Task: TaskOK(p)'
    BY <1>1 DEF Inv, Shape, TaskOK, PutOK, Started
  <2>3. TurnsBegun'
    BY <1>1 DEF Inv, Shape, TurnsBegun, Started
  <2> QED
    BY <1>1, <2>1, <2>2, <2>3 DEF Inv, Shape
<1>3. \A t \in Turn: CommitInv(t)' /\ TerminalInv(t)' /\ FailInv(t)'
  BY <1>1 DEF Inv, CommitInv, TerminalInv, FailInv, Commits, Started
<1>4. ASSUME NEW t \in Turn PROVE StreamInv(t)'
  <2>1. Flows(t)' <=> Flows(t)
    BY <1>1 DEF Flows, Blocked
  <2>2. \A p \in Task: Waits(p, t)' <=> Waits(p, t)
    BY <1>1 DEF Waits
  <2> HIDE DEF Waits, Flows, Place
  <2> QED
    BY <1>1, <2>1, <2>2 DEF Inv, StreamInv, Started
<1> QED
  BY <1>2, <1>3, <1>4 DEF Inv

\* Every step keeps the invariant.
LEMMA NextInv ==
  ASSUME Inv, [Next]_vars
  PROVE  Inv'
<1>1. ASSUME NEW t \in Turn, Work(t) PROVE Inv'
  BY <1>1, EmitInv, WorkDoneInv, WorkStopsInv, WorkFailsInv, WorkEscapesInv, ProviderFailsInv,
     RequestedInv, ManifestInv, FailClosedIntentInv DEF Work
<1>2. ASSUME NEW p \in Task, NEW t \in Turn, Cancel(p, t) \/ Finalize(p, t) PROVE Inv'
  BY <1>2, CancelInv, FinalizeInv
<1>3. ASSUME NEW p \in Task, Step(p) PROVE Inv'
  BY <1>1, <1>2, <1>3, PutInv, StartCommitInv, CommitWrittenInv, TurnOverInv, WriteFailsInv DEF Step
<1>4. ASSUME NEW c \in Client, NEW t \in Turn, Cancel(c, t) \/ Finalize(c, t) PROVE Inv'
  BY <1>2, <1>4 DEF Task
<1>5. ASSUME NEW t \in Turn, NEW kind \in Kind, NEW budget \in TurnBudget, BeginTurn(t, kind, budget)
      PROVE  Inv'
  BY <1>5, BeginTurnInv
<1>6. ASSUME Subscribe \/ Receive \/ Disconnect PROVE Inv'
  BY <1>6, SubscribeInv, ReceiveInv, DisconnectInv
<1>7. ASSUME NEW t \in Turn, Evict(t) PROVE Inv'
  BY <1>7, EvictInv
<1>8. ASSUME UNCHANGED vars PROVE Inv'
  BY <1>8, StutterInv
<1> QED
  BY <1>3, <1>4, <1>5, <1>6, <1>7, <1>8 DEF Next

\* So the invariant holds in every reachable state.
LEMMA InvAlways == Spec => []Inv
<1>1. Init => Inv
  BY InitInv
<1>2. Inv /\ [Next]_vars => Inv'
  BY NextInv
<1> QED
  BY <1>1, <1>2, PTL DEF Spec

\* The interaction state is well formed: at most one task has the event loop,
\* the session has at most one active turn and a turn at most one bus state,
\* and no subscriber queue ever exceeds its capacity.
THEOREM TurnStateIsTyped == Spec => []TypeOK
<1>1. Inv => TypeOK
  BY DEF Inv, Shape
<1> QED
  BY <1>1, InvAlways, PTL

\* However the turn's task and its clients race to finalize: one commit per
\* turn, and the session is free only after the commit was written.
THEOREM TurnsCommitOnce == Spec => []CommittedOnce
<1>1. Inv => CommittedOnce
  BY DEF Inv, CommitInv, CommittedOnce, Started
<1> QED
  BY <1>1, InvAlways, PTL

\* However cancels and finalizations race: a built-in turn puts at most one
\* terminal event on the bus, the one that its record names.
THEOREM TurnsEndOnce == Spec => []OneTerminal
<1>1. Inv => OneTerminal
  BY DEF Inv, TerminalInv, OneTerminal
<1> QED
  BY <1>1, InvAlways, PTL

\* A turn whose workload failed is never committed ok, unless it was finalized
\* or evicted over the head of its own task.
THEOREM FailuresCommitClosed == Spec => []FailClosed
<1>1. Inv => FailClosed
  <2>1. ASSUME Inv, NEW t \in history.failed \ history.disturbed
        PROVE  commits[t] \in {<<>>, <<"fail_closed">>}
    <3>1. t \in Turn
      BY <2>1 DEF Inv, Shape, TypeOK, History
    <3> QED
      BY <2>1, <3>1 DEF Inv, FailInv
  <2> QED
    BY <2>1 DEF FailClosed
<1> QED
  BY <1>1, InvAlways, PTL

\* The law checker of a connection that listened from the beginning of an
\* undisturbed turn never finds a violation, whatever was dropped, canceled
\* or blocked on a full queue.
THEOREM StreamsAreLawful == Spec => []StreamLaw
<1>1. Inv => StreamLaw
  BY DEF Inv, StreamInv, StreamLaw
<1> QED
  BY <1>1, InvAlways, PTL

=============================================================================
