--------------------------- MODULE OutwardRunProofs ---------------------------
(* Theorems about an outward run, for any number of handlers, requests, model  *)
(* calls and handlers that stop midway, and every sequence of governed tools.  *)
EXTENDS OutwardRun, TLAPS, WellFoundedInduction

-----------------------------------------------------------------------------
(* The inductive invariant.                                                    *)

Elements(s) == {s[k] : k \in DOMAIN s}

Started(status) == status \notin {"none", "queued"}

\* Labels that a request reaches only once the run has been started.
Past == {"model", "request", "propose", "decide", "decided", "approval", "denial", "invoke"}

\* What holds of a request in progress, whatever the others do; s is the status of
\* the run, ap the proposals approved so far, led the ledger.
HandlerFits(x, s, ap, led) ==
  /\ x.pc \in {"propose", "decide", "decided", "approval", "denial", "invoke"} => x.p \in Proposal
  /\ x.pc = "model" => Started(x.run.status) /\ x.run.step < Steps
  /\ x.pc = "request" => Started(x.run.status)
  /\ x.pc = "invoke" => Started(x.run.status) /\ x.p \in ap
  /\ \A o \in Elements(x.todo) : o.op = "run" => Started(o.run.status)
  /\ x.pc \in Past \/ (\E o \in Elements(x.todo) : o.op = "approval")
       => Started(s) \/ (x.todo # << >> /\ x.todo[1].op = "run")
  /\ \A o \in Elements(x.todo) : o.op = "event" /\ o.event.type = "commitment_recorded" =>
       LET e == Event("tool_invoked", o.event.turn, o.event.p)
       IN  e \in Elements(led) \/ (x.todo # << >> /\ x.todo[1] = [op |-> "event", event |-> e])

HandlersFit == \A h \in Handler : HandlerFits(handler[h], run.status, approved, ledger)

\* The proposals of a run that is started, and those approved, are what they seem.
ProposalsFit ==
  \A p \in Proposal : /\ approvals[p].status # "none" => Started(run.status)
                      /\ approvals[p].status = "approved" => p \in approved

FreshRun == ~Started(run.status) => run.step = 0 /\ run.turn = 0 /\ run.call = 0

\* No event is told twice, and a commitment follows its invocation.
LedgerFits(led) ==
  /\ \A i, j \in DOMAIN led : led[i] = led[j] => i = j
  /\ \A i \in DOMAIN led : led[i].type = "commitment_recorded" =>
       \E k \in 1..(i - 1) : led[k] = Event("tool_invoked", led[i].turn, led[i].p)

-----------------------------------------------------------------------------
(* While requests do not overlap, one handler at most is at work, and what it  *)
(* has still to store agrees with the proposals.                               *)

IsRunOp(o) == o.op = "run"
IsApprovalOp(o) == o.op = "approval"

\* The ledger tells e, or will.
Told(e, led, todo) ==
  e \in Elements(led) \/ \E o \in Elements(todo) : o.op = "event" /\ o.event = e

OneAtWork == \A g, h \in Handler : handler[g] # Idle /\ handler[h] # Idle => g = h

\* Request x is the only one in progress.
SoloFits(x, apps, led, eff) ==
  /\ \A k \in DOMAIN x.todo : IsApprovalOp(x.todo[k]) => k = 1
  /\ \A o \in Elements(x.todo) : IsApprovalOp(o) =>
       \/ o.to.status = "pending" /\ apps[o.p].status = "none" /\ x.pc = "idle"
       \/ /\ o.to = [status |-> x.verdict, call |-> apps[o.p].call]
          /\ apps[o.p].status = "pending" /\ x.pc = "decided" /\ o.p = x.p
  /\ x.pc = "decided" /\ (\A o \in Elements(x.todo) : ~IsApprovalOp(o)) =>
       apps[x.p].status = x.verdict
  /\ x.pc = "invoke" => apps[x.p].status = "approved"
  /\ \A p \in Proposal : Told(Event("proposal_denied", 0, p), led, x.todo)
                           => apps[p].status = "denied"
  /\ \A i \in DOMAIN eff : apps[eff[i].p].status = "approved"

\* h alone may be at work.
Solo(h) == \A g \in Handler \ {h} : handler[g] = Idle

SoloInv ==
  ~overlapped => /\ OneAtWork
                 /\ \A h \in Handler : Solo(h) => SoloFits(handler[h], approvals, ledger, effects)

-----------------------------------------------------------------------------
(* While requests are undisturbed and no tool is called twice, the run is what *)
(* it will be once the request in progress has stored all it has to store.     *)

\* v is the run r once todo is stored.
IsLast(v, todo, r) ==
  \/ v = r /\ \A o \in Elements(todo) : ~IsRunOp(o)
  \/ \E k \in DOMAIN todo : /\ IsRunOp(todo[k]) /\ v = todo[k].run
                            /\ \A j \in DOMAIN todo : j > k => ~IsRunOp(todo[j])

Over(v) == v.status \in {"completed", "failed"}
Open(v) == v.status \in {"approval_required", "failed"}
Known(a) == a.status # "none"
Spent(c, eff) == \E i \in DOMAIN eff : eff[i].call = c

\* The calls: each proposal is for a call of its own, an open one for the last.
CallsFit(v, x, apps, cs) ==
  /\ v.call <= Len(cs)
  /\ \A p \in Proposal : Known(apps[p]) => apps[p].call \in 1..Len(cs)
  /\ \A p, q \in Proposal : Known(apps[p]) /\ Known(apps[q]) /\ apps[p].call = apps[q].call => p = q
  /\ \A p \in Proposal : apps[p].status = "pending" => Open(v) /\ v.call = apps[p].call
  /\ \A p \in Proposal : apps[p].status = "denied" => x.pc # "model" /\ v.call = apps[p].call
  /\ \A o \in Elements(x.todo) : IsApprovalOp(o) =>
       /\ Open(v) /\ v.call = o.to.call /\ o.to.call \in 1..Len(cs)
       /\ \A q \in Proposal \ {o.p} : Known(apps[q]) => apps[q].call # o.to.call

\* The request in progress works on the run as it is.
RequestFits(v, x, apps, eff) ==
  /\ x.pc \in {"model", "request", "propose"} => x.run = v /\ v.status = "running"
  /\ x.pc \in {"request", "propose"} =>
       v.call # 0 /\ \A q \in Proposal : Known(apps[q]) => apps[q].call # v.call
  /\ x.pc = "propose" => x.call = v.call
  /\ x.pc = "decided" => /\ Open(v) /\ v.call = apps[x.p].call /\ Known(apps[x.p])
                         /\ ~Spent(v.call, eff)
  /\ x.pc = "invoke" => /\ x.run = v /\ ~Over(v) /\ v.call = apps[x.p].call
                        /\ ~Spent(v.call, eff)

EffectsFit(v, x, apps, eff) ==
  /\ \A i \in DOMAIN eff : eff[i].call = apps[eff[i].p].call
  /\ \A i, j \in DOMAIN eff : eff[i].p = eff[j].p => i = j
  /\ Spent(v.call, eff) => x.pc = "model" \/ Over(v)

TurnsFit(v, x, led, eff) ==
  \A e \in LedgerEvent : Told(e, led, x.todo) =>
    /\ e.type = "turn_started" => e.turn <= v.turn
    /\ e.type = "turn_completed" =>
         /\ e.turn <= v.turn
         /\ e.turn = v.turn => x.pc # "model" /\ (v.status = "completed" \/ Spent(v.call, eff))

\* In the order in which the ledger tells a and b, b does not come after a.
Misplaced(a, b) ==
  \/ a.type = "turn_started" /\ b.type = "turn_completed" /\ a.turn = b.turn + 1
  \/ a.type = "turn_completed" /\ b.type = "commitment_recorded" /\ a.turn = b.turn

Orderly(led, todo) ==
  /\ \A i, j \in DOMAIN led : Misplaced(led[i], led[j]) => j < i
  /\ \A i \in DOMAIN led, o \in Elements(todo) : o.op = "event" => ~Misplaced(led[i], o.event)
  /\ \A i, j \in DOMAIN todo : /\ i < j /\ todo[i].op = "event" /\ todo[j].op = "event"
                               => ~Misplaced(todo[i].event, todo[j].event)

\* A completed run is the last one stored.
LastCompleted(todo, r) ==
  /\ r.status = "completed" => \A o \in Elements(todo) : ~IsRunOp(o)
  /\ \A i, j \in DOMAIN todo : i < j /\ IsRunOp(todo[i]) /\ todo[i].run.status = "completed"
                               => ~IsRunOp(todo[j])

OrderlyFits(x, r, apps, led, eff, cs) ==
  /\ \A v \in Run : IsLast(v, x.todo, r) =>
       /\ CallsFit(v, x, apps, cs) /\ RequestFits(v, x, apps, eff)
       /\ EffectsFit(v, x, apps, eff) /\ TurnsFit(v, x, led, eff)
  /\ Orderly(led, x.todo) /\ LastCompleted(x.todo, r)

OrderlyInv ==
  Undisturbed /\ ToolsDiffer =>
    \A h \in Handler : Solo(h) => OrderlyFits(handler[h], run, approvals, ledger, effects, calls)

-----------------------------------------------------------------------------
Inv == /\ TypeOK /\ HandlersFit /\ ProposalsFit /\ FreshRun
       /\ LedgerFits(ledger) /\ ApprovedBeforeEffect
       /\ SoloInv /\ OrderlyInv

-----------------------------------------------------------------------------
(* Lists of store operations.                                                  *)

\* The first element of a list and the others.
LEMMA ElementsOfTail ==
  ASSUME NEW S, NEW s \in Seq(S), s # << >>
  PROVE  /\ Tail(s) \in Seq(S) /\ Head(s) = s[1] /\ Head(s) \in Elements(s) /\ Head(s) \in S
         /\ Elements(Tail(s)) \subseteq Elements(s)
         /\ \A x \in Elements(s) : x = s[1] \/ x \in Elements(Tail(s))
<1>1. Tail(s) \in Seq(S) /\ Len(s) \in Nat \ {0} /\ Head(s) = s[1]
      /\ Len(Tail(s)) = Len(s) - 1 /\ \A i \in 1..(Len(s) - 1) : Tail(s)[i] = s[i + 1]
  OBVIOUS
<1>2. DOMAIN s = 1..Len(s) /\ DOMAIN Tail(s) = 1..(Len(s) - 1)
  BY <1>1
<1>3. Head(s) \in Elements(s) /\ Head(s) \in S
  BY <1>1, <1>2 DEF Elements
<1>4. ASSUME NEW x \in Elements(Tail(s)) PROVE x \in Elements(s)
  <2>1. PICK i \in 1..(Len(s) - 1) : x = s[i + 1]
    BY <1>1, <1>2, <1>4 DEF Elements
  <2>2. i + 1 \in 1..Len(s)
    BY <1>1, <2>1
  <2> QED
    BY <1>2, <2>1, <2>2 DEF Elements
<1>5. ASSUME NEW x \in Elements(s), x # s[1] PROVE x \in Elements(Tail(s))
  <2>1. PICK i \in 1..Len(s) : x = s[i]
    BY <1>2, <1>5 DEF Elements
  <2>2. i - 1 \in 1..(Len(s) - 1) /\ Tail(s)[i - 1] = x
    BY <1>1, <1>5, <2>1
  <2> QED
    BY <1>2, <2>2 DEF Elements
<1> QED
  BY <1>1, <1>3, <1>4, <1>5

\* What a list holds once an element is appended.
LEMMA ElementsOfAppend ==
  ASSUME NEW S, NEW s \in Seq(S), NEW a \in S
  PROVE  /\ Append(s, a) \in Seq(S) /\ Elements(Append(s, a)) = Elements(s) \cup {a}
         /\ Len(Append(s, a)) = Len(s) + 1 /\ Append(s, a)[Len(s) + 1] = a
         /\ \A i \in 1..Len(s) : Append(s, a)[i] = s[i]
<1>1. /\ Append(s, a) \in Seq(S) /\ Len(Append(s, a)) = Len(s) + 1 /\ Len(s) \in Nat
      /\ Append(s, a)[Len(s) + 1] = a /\ \A i \in 1..Len(s) : Append(s, a)[i] = s[i]
  OBVIOUS
<1>2. DOMAIN s = 1..Len(s) /\ DOMAIN Append(s, a) = 1..(Len(s) + 1)
  BY <1>1
<1>3. 1..(Len(s) + 1) = (1..Len(s)) \cup {Len(s) + 1}
  BY <1>1
<1>4. Elements(Append(s, a)) = Elements(s) \cup {a}
  BY <1>1, <1>2, <1>3 DEF Elements
<1> QED
  BY <1>1, <1>4

-----------------------------------------------------------------------------
(* Store operations.                                                           *)

\* The UPDATE of a run is a store operation.
LEMMA SaveRunOp ==
  ASSUME NEW r \in Run
  PROVE  SaveRun(r) \in Operation /\ SaveRun(r).op = "run" /\ SaveRun(r).run = r
BY DEF SaveRun, Operation

\* The write of a proposal is a store operation.
LEMMA SaveApprovalOp ==
  ASSUME NEW p \in Proposal, NEW s, s \in Verdict \/ s = "pending", NEW c \in Call
  PROVE  /\ SaveApproval(p, s, c) \in Operation /\ SaveApproval(p, s, c).op = "approval"
         /\ SaveApproval(p, s, c).p = p /\ SaveApproval(p, s, c).to.status = s
         /\ SaveApproval(p, s, c).to.call = c /\ SaveApproval(p, s, c).to \in Approval
<1>1. [status |-> s, call |-> c] \in Approval
  BY DEF Approval
<1> QED
  BY <1>1 DEF SaveApproval, Operation

\* The INSERT of an event is a store operation.
LEMMA AppendOp ==
  ASSUME NEW ty \in EventType, NEW n \in 0..MaxTurns, NEW p \in Call
  PROVE  /\ Append1(ty, n, p) \in Operation /\ Append1(ty, n, p).op = "event"
         /\ Append1(ty, n, p).event = Event(ty, n, p)
         /\ Event(ty, n, p) \in LedgerEvent
         /\ Event(ty, n, p).type = ty /\ Event(ty, n, p).turn = n /\ Event(ty, n, p).p = p
BY DEF Append1, Operation, LedgerEvent, Event

\* A store operation writes a run, a proposal or an event.
LEMMA OperationParts ==
  ASSUME NEW o \in Operation
  PROVE  /\ o.op \in {"run", "approval", "event"}
         /\ o.op = "run" => o.run \in Run
         /\ o.op = "approval" => o.p \in Proposal /\ o.to \in Approval
         /\ o.op = "event" => o.event \in LedgerEvent /\ o = [op |-> "event", event |-> o.event]
BY DEF Operation

\* What a list of one to six operations holds.
LEMMA ListOfSix ==
  ASSUME NEW S, NEW a \in S, NEW b \in S, NEW c \in S, NEW d \in S, NEW e \in S, NEW f \in S
  PROVE  /\ <<a, b, c, d, e, f>> \in Seq(S) /\ DOMAIN <<a, b, c, d, e, f>> = {1, 2, 3, 4, 5, 6}
         /\ Elements(<<a, b, c, d, e, f>>) = {a, b, c, d, e, f}
<1>0. PICK t : t = <<a, b, c, d, e, f>>
  OBVIOUS
<1>1. t \in Seq(S) /\ t # << >> /\ Len(t) = 6
      /\ t[1] = a /\ t[2] = b /\ t[3] = c /\ t[4] = d /\ t[5] = e /\ t[6] = f
  BY <1>0
<1>2. DOMAIN t = {1, 2, 3, 4, 5, 6}
  <2>1. DOMAIN t = 1..6
    BY <1>1
  <2> QED
    BY <2>1
<1>3. Elements(t) = {t[1], t[2], t[3], t[4], t[5], t[6]}
  BY <1>2 DEF Elements
<1> QED
  BY <1>0, <1>1, <1>2, <1>3

\* What a list of three holds.
LEMMA ListOfThree ==
  ASSUME NEW S, NEW a \in S, NEW b \in S, NEW c \in S, NEW t, t = <<a, b, c>>
  PROVE  /\ t \in Seq(S) /\ t # << >> /\ Len(t) = 3 /\ DOMAIN t = {1, 2, 3}
         /\ t[1] = a /\ t[2] = b /\ t[3] = c /\ Elements(t) = {a, b, c}
<1>1. t \in Seq(S) /\ t # << >> /\ Len(t) = 3 /\ t[1] = a /\ t[2] = b /\ t[3] = c
  OBVIOUS
<1>2. DOMAIN t = {1, 2, 3}
  <2>1. DOMAIN t = 1..3
    BY <1>1
  <2> QED
    BY <2>1
<1>3. Elements(t) = {t[1], t[2], t[3]}
  BY <1>2 DEF Elements
<1> QED
  BY <1>1, <1>2, <1>3

\* What a list of two holds.
LEMMA ListOfTwo ==
  ASSUME NEW S, NEW a \in S, NEW b \in S, NEW t, t = <<a, b>>
  PROVE  /\ t \in Seq(S) /\ t # << >> /\ Len(t) = 2 /\ DOMAIN t = {1, 2}
         /\ t[1] = a /\ t[2] = b /\ Elements(t) = {a, b}
<1>1. t \in Seq(S) /\ t # << >> /\ Len(t) = 2 /\ t[1] = a /\ t[2] = b
  OBVIOUS
<1>2. DOMAIN t = {1, 2}
  <2>1. DOMAIN t = 1..2
    BY <1>1
  <2> QED
    BY <2>1
<1>3. Elements(t) = {t[1], t[2]}
  BY <1>2 DEF Elements
<1> QED
  BY <1>1, <1>2, <1>3

\* What a list of one holds.
LEMMA ListOfOne ==
  ASSUME NEW S, NEW a \in S, NEW t, t = <<a>>
  PROVE  /\ t \in Seq(S) /\ t # << >> /\ Len(t) = 1 /\ DOMAIN t = {1}
         /\ t[1] = a /\ Elements(t) = {a}
<1>1. t \in Seq(S) /\ t # << >> /\ Len(t) = 1 /\ t[1] = a
  OBVIOUS
<1>2. DOMAIN t = {1}
  <2>1. DOMAIN t = 1..1
    BY <1>1
  <2> QED
    BY <2>1
<1>3. Elements(t) = {t[1]}
  BY <1>2 DEF Elements
<1> QED
  BY <1>1, <1>2, <1>3

\* The empty list holds nothing.
LEMMA EmptyList ==
  ASSUME NEW S
  PROVE  << >> \in Seq(S) /\ Len(<< >>) = 0 /\ DOMAIN << >> = {} /\ Elements(<< >>) = {}
BY DEF Elements

\* Lists that are joined.
LEMMA JoinOneOne ==
  ASSUME NEW S, NEW a \in S, NEW b \in S
  PROVE  <<a>> \o <<b>> = <<a, b>>
<1> DEFINE s == <<a>>
           t == <<b>>
           u == <<a, b>>
<1>1. s \in Seq(S) /\ t \in Seq(S) /\ u \in Seq(S) /\ Len(s) = 1 /\ Len(t) = 1 /\ Len(u) = 2
  OBVIOUS
<1>2. s \o t \in Seq(S) /\ Len(s \o t) = 2
      /\ \A i \in 1..2 : (s \o t)[i] = IF i <= 1 THEN s[i] ELSE t[i - 1]
  BY <1>1
<1>3. \A i \in 1..2 : (s \o t)[i] = u[i]
  BY <1>2
<1> HIDE DEF s, t, u
<1>4. s \o t = u
  BY <1>1, <1>2, <1>3
<1> QED
  BY <1>4 DEF s, t, u

\* One element before two.
LEMMA JoinOneTwo ==
  ASSUME NEW S, NEW a \in S, NEW b \in S, NEW c \in S
  PROVE  <<a>> \o <<b, c>> = <<a, b, c>>
<1> DEFINE s == <<a>>
           t == <<b, c>>
           u == <<a, b, c>>
<1>1. s \in Seq(S) /\ t \in Seq(S) /\ u \in Seq(S) /\ Len(s) = 1 /\ Len(t) = 2 /\ Len(u) = 3
  OBVIOUS
<1>2. s \o t \in Seq(S) /\ Len(s \o t) = 3
      /\ \A i \in 1..3 : (s \o t)[i] = IF i <= 1 THEN s[i] ELSE t[i - 1]
  BY <1>1
<1>3. \A i \in 1..3 : (s \o t)[i] = u[i]
  BY <1>2
<1> HIDE DEF s, t, u
<1>4. s \o t = u
  BY <1>1, <1>2, <1>3
<1> QED
  BY <1>4 DEF s, t, u

\* Two elements before two.
LEMMA JoinTwoTwo ==
  ASSUME NEW S, NEW a \in S, NEW b \in S, NEW c \in S, NEW d \in S
  PROVE  <<a, b>> \o <<c, d>> = <<a, b, c, d>>
<1> DEFINE s == <<a, b>>
           t == <<c, d>>
           u == <<a, b, c, d>>
<1>1. s \in Seq(S) /\ t \in Seq(S) /\ u \in Seq(S) /\ Len(s) = 2 /\ Len(t) = 2 /\ Len(u) = 4
  OBVIOUS
<1>2. s \o t \in Seq(S) /\ Len(s \o t) = 4
      /\ \A i \in 1..4 : (s \o t)[i] = IF i <= 2 THEN s[i] ELSE t[i - 2]
  BY <1>1
<1>3. \A i \in 1..4 : (s \o t)[i] = u[i]
  BY <1>2
<1> HIDE DEF s, t, u
<1>4. s \o t = u
  BY <1>1, <1>2, <1>3
<1> QED
  BY <1>4 DEF s, t, u

\* Four elements before two.
LEMMA JoinFourTwo ==
  ASSUME NEW S, NEW a \in S, NEW b \in S, NEW c \in S, NEW d \in S, NEW e \in S, NEW f \in S
  PROVE  <<a, b, c, d>> \o <<e, f>> = <<a, b, c, d, e, f>>
<1> DEFINE s == <<a, b, c, d>>
           t == <<e, f>>
           u == <<a, b, c, d, e, f>>
<1>1. s \in Seq(S) /\ t \in Seq(S) /\ u \in Seq(S) /\ Len(s) = 4 /\ Len(t) = 2 /\ Len(u) = 6
  OBVIOUS
<1>2. s \o t \in Seq(S) /\ Len(s \o t) = 6
      /\ \A i \in 1..6 : (s \o t)[i] = IF i <= 4 THEN s[i] ELSE t[i - 4]
  BY <1>1
<1>3. \A i \in 1..6 : (s \o t)[i] = u[i]
  BY <1>2
<1> HIDE DEF s, t, u
<1>4. s \o t = u
  BY <1>1, <1>2, <1>3
<1> QED
  BY <1>4 DEF s, t, u

-----------------------------------------------------------------------------
(* What every step has in common: it gives one handler a new state.            *)

\* What the other handlers rely on is kept when proposals are approved, events
\* recorded and the run started.
LEMMA FitsMonotone ==
  ASSUME NEW x, NEW s1, NEW s2, NEW ap1, NEW ap2, NEW led1, NEW led2,
         Started(s1) => Started(s2), ap1 \subseteq ap2, Elements(led1) \subseteq Elements(led2),
         HandlerFits(x, s1, ap1, led1)
  PROVE  HandlerFits(x, s2, ap2, led2)
BY DEF HandlerFits

\* A step of handler h keeps the invariant if the stores grow as they may and the
\* new state of h fits them: what the other handlers rely on only grows.
LEMMA StepKeeps ==
  ASSUME Inv, NEW h \in Handler, NEW y \in HandlerState, handler' = [handler EXCEPT ![h] = y],
         run' \in Run, approvals' \in [Proposal -> Approval], ledger' \in Seq(LedgerEvent),
         effects' \in Seq([p : Proposal, call : Call]),
         calls' \in Seq(STRING), Len(calls') <= MaxCalls, approved' \subseteq Proposal,
         requests' \in 0..MaxRequests, overlapped' \in BOOLEAN, stops' \in 0..MaxStops,
         Started(run.status) => Started(run'.status),
         approved \subseteq approved', Elements(ledger) \subseteq Elements(ledger'),
         HandlerFits(y, run'.status, approved', ledger'),
         ProposalsFit', FreshRun', LedgerFits(ledger'), ApprovedBeforeEffect',
         ~overlapped' => Solo(h) /\ SoloFits(y, approvals', ledger', effects'),
         Undisturbed' /\ ToolsDiffer' => OrderlyFits(y, run', approvals', ledger', effects', calls')
  PROVE  Inv'
<1> USE DEF Inv
<1>0. handler \in [Handler -> HandlerState] /\ handler' \in [Handler -> HandlerState]
      /\ handler'[h] = y /\ \A g \in Handler \ {h} : handler'[g] = handler[g]
  BY DEF TypeOK
<1>1. TypeOK'
  BY <1>0 DEF TypeOK
<1>2. HandlersFit'
  <2> SUFFICES ASSUME NEW g \in Handler
               PROVE  HandlerFits(handler'[g], run'.status, approved', ledger')
    BY DEF HandlersFit
  <2>1. CASE g = h
    BY <1>0, <2>1
  <2>2. CASE g # h
    <3>1. HandlerFits(handler[g], run.status, approved, ledger)
      BY DEF HandlersFit
    <3>2. HandlerFits(handler[g], run'.status, approved', ledger')
      BY <3>1, FitsMonotone
    <3> QED
      BY <1>0, <2>2, <3>2
  <2> QED
    BY <2>1, <2>2
<1>3. ASSUME ~overlapped' PROVE \A g \in Handler \ {h} : handler'[g] = Idle
  BY <1>0, <1>3 DEF Solo
<1>4. ASSUME NEW g \in Handler, Solo(g)', ~overlapped' PROVE handler'[g] = y
  <2>1. CASE g # h
    BY <1>0, <1>3, <1>4, <2>1 DEF Solo
  <2> QED
    BY <1>0, <2>1
<1>5. SoloInv'
  <2>1. ASSUME ~overlapped' PROVE OneAtWork'
    BY <1>0, <1>3, <2>1 DEF OneAtWork
  <2>2. ASSUME ~overlapped', NEW g \in Handler, Solo(g)'
        PROVE  SoloFits(handler'[g], approvals', ledger', effects')
    BY <1>4, <2>2
  <2> QED
    BY <2>1, <2>2 DEF SoloInv
<1>6. OrderlyInv'
  <2>1. ASSUME Undisturbed', ToolsDiffer', NEW g \in Handler, Solo(g)'
        PROVE  OrderlyFits(handler'[g], run', approvals', ledger', effects', calls')
    <3>1. ~overlapped'
      BY <2>1 DEF Undisturbed
    <3> QED
      BY <1>4, <2>1, <3>1
  <2> QED
    BY <2>1 DEF OrderlyInv
<1> QED
  BY <1>1, <1>2, <1>5, <1>6

\* The steps that only read the stores.
LEMMA LocalKeeps ==
  ASSUME Inv, NEW h \in Handler, NEW y \in HandlerState, handler' = [handler EXCEPT ![h] = y],
         UNCHANGED <<run, approvals, ledger, approved, effects>>,
         calls' \in Seq(STRING), Len(calls') <= MaxCalls,
         requests' \in 0..MaxRequests, overlapped' \in BOOLEAN, stops' \in 0..MaxStops,
         HandlerFits(y, run.status, approved, ledger),
         ~overlapped' => Solo(h) /\ SoloFits(y, approvals, ledger, effects),
         Undisturbed' /\ ToolsDiffer' => OrderlyFits(y, run, approvals, ledger, effects, calls')
  PROVE  Inv'
<1> USE DEF Inv
<1>1. run' \in Run /\ approvals' \in [Proposal -> Approval] /\ ledger' \in Seq(LedgerEvent)
      /\ effects' \in Seq([p : Proposal, call : Call]) /\ approved' \subseteq Proposal
  BY DEF TypeOK
<1>2. ProposalsFit' /\ FreshRun' /\ LedgerFits(ledger') /\ ApprovedBeforeEffect'
  BY DEF ProposalsFit, FreshRun, ApprovedBeforeEffect
<1>3. run' = run /\ approvals' = approvals /\ ledger' = ledger /\ approved' = approved
      /\ effects' = effects
  OBVIOUS
<1> HIDE DEF Inv
<1> QED
  BY <1>1, <1>2, <1>3, StepKeeps

\* The steps of a request in progress change neither what overlapped nor who stopped.
LEMMA GoingOn ==
  ASSUME Inv, NEW h \in Handler, handler[h] # Idle, UNCHANGED <<requests, overlapped, stops>>
  PROVE  /\ requests' \in 0..MaxRequests /\ overlapped' \in BOOLEAN /\ stops' \in 0..MaxStops
         /\ ~overlapped' => Solo(h) /\ SoloFits(handler[h], approvals, ledger, effects)
         /\ Undisturbed' => Undisturbed
         /\ Undisturbed' /\ ToolsDiffer =>
              OrderlyFits(handler[h], run, approvals, ledger, effects, calls)
<1>1. requests' \in 0..MaxRequests /\ overlapped' \in BOOLEAN /\ stops' \in 0..MaxStops
  BY DEF Inv, TypeOK
<1>2. ASSUME ~overlapped' PROVE Solo(h) /\ SoloFits(handler[h], approvals, ledger, effects)
  <2>1. Solo(h)
    BY <1>2 DEF Inv, SoloInv, OneAtWork, Solo
  <2> QED
    BY <1>2, <2>1 DEF Inv, SoloInv
<1>3. Undisturbed' => Undisturbed
  BY DEF Undisturbed
<1>4. ASSUME Undisturbed', ToolsDiffer
      PROVE  OrderlyFits(handler[h], run, approvals, ledger, effects, calls)
  <2>1. Solo(h) /\ Undisturbed
    BY <1>2, <1>3, <1>4 DEF Undisturbed
  <2> QED
    BY <1>4, <2>1 DEF Inv, OrderlyInv
<1> QED
  BY <1>1, <1>2, <1>3, <1>4

\* The state of a handler that answers once todo is stored.
LEMMA FinishState ==
  ASSUME NEW todo \in Seq(Operation), NEW y, y = [Idle EXCEPT !.todo = todo]
  PROVE  /\ y \in HandlerState /\ y.pc = "idle" /\ y.todo = todo
         /\ y.p = 0 /\ y.call = 0 /\ y.verdict = "approved" /\ y.run = NoRun
<1>1. 0 \in 0..MaxTurns /\ 0 \in Call /\ 0 \in Nat
  BY OutwardAssumption DEF Call
<1>2. NoRun \in Run
  BY <1>1 DEF NoRun, Run, Plan
<1>3. "idle" \in Label /\ "approved" \in Verdict
  BY DEF Label, Verdict
<1> QED
  BY <1>1, <1>2, <1>3 DEF Idle, HandlerState

\* Operations that concern neither a proposal nor a commitment.
Quiet(o) ==
  \/ o.op = "run" /\ Started(o.run.status)
  \/ o.op = "event" /\ o.event.type \notin {"commitment_recorded", "proposal_denied"}

\* A handler that has only such operations left, and waits for nothing, fits.
LEMMA QuietFits ==
  ASSUME NEW y, NEW s, NEW ap, NEW led, y.pc \notin Past, \A o \in Elements(y.todo) : Quiet(o)
  PROVE  HandlerFits(y, s, ap, led)
BY DEF HandlerFits, Quiet, Past

\* Such operations disagree with no proposal.
LEMMA QuietSolo ==
  ASSUME NEW x, NEW y, NEW apps, NEW led, NEW eff, SoloFits(x, apps, led, eff),
         y.pc \notin {"decided", "invoke"}, \A o \in Elements(y.todo) : Quiet(o)
  PROVE  SoloFits(y, apps, led, eff)
<1>1. \A k \in DOMAIN y.todo : y.todo[k] \in Elements(y.todo)
  BY DEF Elements
<1>2. \A o \in Elements(y.todo) : ~IsApprovalOp(o)
  BY DEF Quiet, IsApprovalOp
<1>3. ASSUME NEW p \in Proposal, Told(Event("proposal_denied", 0, p), led, y.todo)
      PROVE  apps[p].status = "denied"
  <2>1. PICK e : e = Event("proposal_denied", 0, p)
    OBVIOUS
  <2>2. e.type = "proposal_denied"
    BY <2>1 DEF Event
  <2>7. e \in Elements(led)
    BY <1>3, <2>1, <2>2 DEF Told, Quiet
  <2>8. Told(e, led, x.todo)
    BY <2>7 DEF Told
  <2> QED
    BY <2>1, <2>8 DEF SoloFits
<1>4. \A i \in DOMAIN eff : apps[eff[i].p].status = "approved"
  BY DEF SoloFits
<1> QED
  BY <1>1, <1>2, <1>3, <1>4 DEF SoloFits

-----------------------------------------------------------------------------
(* The run once everything is stored.                                          *)

\* The run once everything is stored is the last one in the list.
LEMMA IsLastAt ==
  ASSUME NEW todo, NEW k \in DOMAIN todo, NEW r, NEW v, IsRunOp(todo[k]),
         \A j \in DOMAIN todo : j \in Nat, \A j \in DOMAIN todo : j > k => ~IsRunOp(todo[j]),
         IsLast(v, todo, r)
  PROVE  v = todo[k].run
<1>1. todo[k] \in Elements(todo)
  BY DEF Elements
<1>2. PICK m \in DOMAIN todo : /\ IsRunOp(todo[m]) /\ v = todo[m].run
                               /\ \A j \in DOMAIN todo : j > m => ~IsRunOp(todo[j])
  BY <1>1 DEF IsLast
<1>3. m = k
  <2>1. ~(m > k) /\ ~(k > m)
    BY <1>2
  <2>2. m \in Nat /\ k \in Nat
    OBVIOUS
  <2> QED
    BY <2>1, <2>2
<1> QED
  BY <1>2, <1>3

\* A list that stores no run leaves the run as it is.
LEMMA IsLastSame ==
  ASSUME NEW todo, NEW r, NEW v, \A o \in Elements(todo) : ~IsRunOp(o)
  PROVE  IsLast(v, todo, r) <=> v = r
<1>1. \A k \in DOMAIN todo : todo[k] \in Elements(todo)
  BY DEF Elements
<1> QED
  BY <1>1 DEF IsLast

\* A request with nothing left to store.
LEMMA AtRest ==
  ASSUME NEW x, NEW r \in Run, NEW apps, NEW led, NEW eff, NEW cs, x.todo = << >>,
         OrderlyFits(x, r, apps, led, eff, cs)
  PROVE  /\ CallsFit(r, x, apps, cs) /\ RequestFits(r, x, apps, eff)
         /\ EffectsFit(r, x, apps, eff) /\ TurnsFit(r, x, led, eff)
         /\ \A i, j \in DOMAIN led : Misplaced(led[i], led[j]) => j < i
         /\ \A e : Told(e, led, x.todo) <=> e \in Elements(led)
<1>1. Elements(x.todo) = {}
  BY EmptyList
<1>2. IsLast(r, x.todo, r)
  BY <1>1, IsLastSame
<1>3. \A e : Told(e, led, x.todo) <=> e \in Elements(led)
  BY <1>1 DEF Told
<1> QED
  BY <1>2, <1>3 DEF OrderlyFits, Orderly

\* Events that the order of the turns does not depend on.
Aside(o) == o.op = "event" /\ o.event.type \notin {"turn_started", "turn_completed",
                                                   "commitment_recorded"}

\* Such events are out of order nowhere.
LEMMA AsideNotTurn ==
  ASSUME NEW o, Aside(o)
  PROVE  /\ ~IsRunOp(o) /\ ~IsApprovalOp(o)
         /\ \A a : ~Misplaced(a, o.event) /\ ~Misplaced(o.event, a)
         /\ o.event.type \notin {"turn_started", "turn_completed"}
<1>1. o.op = "event" /\ o.event.type \notin {"turn_started", "turn_completed", "commitment_recorded"}
  BY DEF Aside
<1>2. ~IsRunOp(o) /\ ~IsApprovalOp(o)
  BY <1>1 DEF IsRunOp, IsApprovalOp
<1>3. \A a : ~Misplaced(a, o.event) /\ ~Misplaced(o.event, a)
  BY <1>1 DEF Misplaced
<1> QED
  BY <1>1, <1>2, <1>3

\* A request that goes on, with at most such events to store, to a place where it
\* holds no copy of the run.
LEMMA AsideOrderly ==
  ASSUME NEW x, NEW y, NEW r \in Run, NEW apps, NEW led, NEW eff, NEW cs, x.todo = << >>,
         OrderlyFits(x, r, apps, led, eff, cs), x.pc # "model",
         y.pc \notin {"model", "request", "propose", "decided", "invoke"},
         \A o \in Elements(y.todo) : Aside(o)
  PROVE  OrderlyFits(y, r, apps, led, eff, cs)
<1>1. \A k \in DOMAIN y.todo : y.todo[k] \in Elements(y.todo)
  BY DEF Elements
<1>2. \A o \in Elements(y.todo) : ~IsRunOp(o) /\ ~IsApprovalOp(o)
  BY AsideNotTurn
<1>3. /\ CallsFit(r, x, apps, cs) /\ RequestFits(r, x, apps, eff)
      /\ EffectsFit(r, x, apps, eff) /\ TurnsFit(r, x, led, eff)
      /\ \A i, j \in DOMAIN led : Misplaced(led[i], led[j]) => j < i
      /\ \A e : Told(e, led, x.todo) <=> e \in Elements(led)
  BY AtRest
<1>4. \A e : Told(e, led, y.todo) => \/ Told(e, led, x.todo)
                                     \/ e.type \notin {"turn_started", "turn_completed"}
  BY AsideNotTurn DEF Told
<1>5. CallsFit(r, y, apps, cs)
  BY <1>2, <1>3 DEF CallsFit
<1>6. RequestFits(r, y, apps, eff)
  BY DEF RequestFits
<1>7. EffectsFit(r, y, apps, eff)
  BY <1>3 DEF EffectsFit
<1>8. TurnsFit(r, y, led, eff)
  BY <1>3, <1>4 DEF TurnsFit
<1>9. Orderly(led, y.todo)
  BY <1>1, <1>3, AsideNotTurn DEF Orderly
<1>10. LastCompleted(y.todo, r)
  BY <1>1, <1>2 DEF LastCompleted
<1>11. \A v \in Run : IsLast(v, y.todo, r) => v = r
  BY <1>2, IsLastSame
<1> QED
  BY <1>5, <1>6, <1>7, <1>8, <1>9, <1>10, <1>11 DEF OrderlyFits

-----------------------------------------------------------------------------
(* Submission.                                                                 *)

\* What holds when a request arrives.
LEMMA Arrives ==
  ASSUME Inv, NEW h \in Handler, Free(h), UNCHANGED stops
  PROVE  /\ requests' \in 0..MaxRequests /\ overlapped' \in BOOLEAN /\ stops' \in 0..MaxStops
         /\ handler[h] \in HandlerState /\ handler[h].pc = "idle" /\ handler[h].todo = << >>
         /\ ~overlapped' => Solo(h) /\ SoloFits(handler[h], approvals, ledger, effects)
         /\ Undisturbed' /\ ToolsDiffer =>
              OrderlyFits(handler[h], run, approvals, ledger, effects, calls)
<1>1. handler[h] \in HandlerState /\ handler[h].pc = "idle" /\ handler[h].todo = << >>
  BY DEF Inv, TypeOK, Free, At
<1>2. requests' \in 0..MaxRequests
  <2>1. requests \in 0..MaxRequests /\ requests < MaxRequests /\ requests' = requests + 1
    BY DEF Inv, TypeOK, Free
  <2>2. MaxRequests \in Nat
    BY OutwardAssumption
  <2> QED
    BY <2>1, <2>2
<1>3. overlapped' = (overlapped \/ \E g \in Handler \ {h} : handler[g] # Idle)
  BY DEF Free
<1>4. overlapped' \in BOOLEAN /\ (~overlapped' => ~overlapped)
  BY <1>3, Zenon DEF Inv, TypeOK
<1>5. stops' \in 0..MaxStops
  BY DEF Inv, TypeOK
<1>6. ASSUME ~overlapped' PROVE Solo(h) /\ SoloFits(handler[h], approvals, ledger, effects)
  <2>1. Solo(h)
    BY <1>3, <1>6 DEF Solo
  <2> QED
    BY <1>4, <1>6, <2>1 DEF Inv, SoloInv
<1>7. ASSUME Undisturbed', ToolsDiffer
      PROVE  OrderlyFits(handler[h], run, approvals, ledger, effects, calls)
  <2>1. Undisturbed /\ Solo(h)
    BY <1>4, <1>6, <1>7 DEF Undisturbed
  <2> QED
    BY <1>7, <2>1 DEF Inv, OrderlyInv
<1> QED
  BY <1>1, <1>2, <1>4, <1>5, <1>6, <1>7

\* The types that the invariant gives.
LEMMA Types ==
  ASSUME Inv
  PROVE  /\ run \in Run /\ calls \in Seq(STRING) /\ Len(calls) <= MaxCalls
         /\ Len(calls) \in Nat /\ handler \in [Handler -> HandlerState]
         /\ approvals \in [Proposal -> Approval] /\ approved \subseteq Proposal
         /\ ledger \in Seq(LedgerEvent) /\ effects \in Seq([p : Proposal, call : Call])
         /\ 0 \in 0..MaxTurns /\ 0 \in Call /\ 0 \in Nat /\ 1 \in 0..MaxTurns
         /\ NoRun \in Run
<1>1. /\ run \in Run /\ calls \in Seq(STRING) /\ Len(calls) <= MaxCalls
      /\ handler \in [Handler -> HandlerState]
      /\ approvals \in [Proposal -> Approval] /\ approved \subseteq Proposal
      /\ ledger \in Seq(LedgerEvent) /\ effects \in Seq([p : Proposal, call : Call])
  BY DEF Inv, TypeOK
<1>2. Len(calls) \in Nat
  BY <1>1
<1>3. 0 \in 0..MaxTurns /\ 0 \in Call /\ 0 \in Nat /\ 1 \in 0..MaxTurns
  BY OutwardAssumption DEF Call
<1>4. NoRun \in Run
  BY <1>3 DEF NoRun, Run, Plan
<1> QED
  BY <1>1, <1>2, <1>3, <1>4

\* A step that only reads the stores, of a request in progress.
LEMMA GoOnKeeps ==
  ASSUME Inv, NEW h \in Handler, NEW x, x = handler[h], x # Idle, NEW y \in HandlerState,
         handler' = [handler EXCEPT ![h] = y],
         UNCHANGED <<run, approvals, ledger, effects, calls, approved, requests, overlapped, stops>>,
         HandlerFits(y, run.status, approved, ledger),
         SoloFits(x, approvals, ledger, effects) => SoloFits(y, approvals, ledger, effects),
         ToolsDiffer /\ SoloFits(x, approvals, ledger, effects)
           /\ OrderlyFits(x, run, approvals, ledger, effects, calls)
           => OrderlyFits(y, run, approvals, ledger, effects, calls)
  PROVE  Inv'
<1>1. calls' = calls /\ (ToolsDiffer' => ToolsDiffer)
  BY DEF ToolsDiffer
<1>2. calls' \in Seq(STRING) /\ Len(calls') <= MaxCalls
  BY <1>1, Types
<1>3. /\ requests' \in 0..MaxRequests /\ overlapped' \in BOOLEAN /\ stops' \in 0..MaxStops
      /\ ~overlapped' => Solo(h) /\ SoloFits(x, approvals, ledger, effects)
      /\ Undisturbed' /\ ToolsDiffer => OrderlyFits(x, run, approvals, ledger, effects, calls)
  BY GoingOn
<1>4. Undisturbed' => ~overlapped'
  BY DEF Undisturbed
<1>5. UNCHANGED <<run, approvals, ledger, approved, effects>>
  OBVIOUS
<1>6. Undisturbed' /\ ToolsDiffer' => OrderlyFits(y, run, approvals, ledger, effects, calls')
  BY <1>1, <1>3, <1>4
<1>7. ~overlapped' => Solo(h) /\ SoloFits(y, approvals, ledger, effects)
  BY <1>3
<1> QED
  BY <1>2, <1>3, <1>5, <1>6, <1>7, LocalKeeps

\* The same for a request that arrives.
LEMMA ArriveKeeps ==
  ASSUME Inv, NEW h \in Handler, NEW x, x = handler[h], Free(h), NEW y \in HandlerState,
         handler' = [handler EXCEPT ![h] = y],
         UNCHANGED <<run, approvals, ledger, effects, calls, approved, stops>>,
         HandlerFits(y, run.status, approved, ledger),
         SoloFits(x, approvals, ledger, effects) => SoloFits(y, approvals, ledger, effects),
         OrderlyFits(x, run, approvals, ledger, effects, calls)
           => OrderlyFits(y, run, approvals, ledger, effects, calls)
  PROVE  Inv'
<1>1. calls' = calls /\ (ToolsDiffer' => ToolsDiffer)
  BY DEF ToolsDiffer
<1>2. calls' \in Seq(STRING) /\ Len(calls') <= MaxCalls
  BY <1>1, Types
<1>3. /\ requests' \in 0..MaxRequests /\ overlapped' \in BOOLEAN /\ stops' \in 0..MaxStops
      /\ ~overlapped' => Solo(h) /\ SoloFits(x, approvals, ledger, effects)
      /\ Undisturbed' /\ ToolsDiffer => OrderlyFits(x, run, approvals, ledger, effects, calls)
  BY Arrives
<1>4. UNCHANGED <<run, approvals, ledger, approved, effects>>
  OBVIOUS
<1>5. Undisturbed' /\ ToolsDiffer' => OrderlyFits(y, run, approvals, ledger, effects, calls')
  BY <1>1, <1>3
<1>6. ~overlapped' => Solo(h) /\ SoloFits(y, approvals, ledger, effects)
  BY <1>3
<1> QED
  BY <1>2, <1>3, <1>4, <1>5, <1>6, LocalKeeps

\* A request that submits the run keeps the invariant.
LEMMA SubmitKeeps ==
  ASSUME Inv, NEW h \in Handler, Submit(h)
  PROVE  Inv'
<1>0. /\ Free(h) /\ UNCHANGED <<run, approvals, ledger, effects, calls, approved, stops>>
      /\ Go(h, IF run.status = "none" THEN "create" ELSE "start",
            IF run.status = "none" THEN << >> ELSE <<Append1("run_submitted", 0, 0)>>, NoRun)
  BY DEF Submit
<1>1. PICK x : x = handler[h]
  OBVIOUS
<1>2. PICK m : m = IF run.status = "none" THEN "create" ELSE "start"
  OBVIOUS
<1>3. PICK todo : todo = IF run.status = "none" THEN << >> ELSE <<Append1("run_submitted", 0, 0)>>
  OBVIOUS
<1>4. PICK y : y = [x EXCEPT !.pc = m, !.todo = todo, !.run = NoRun]
  OBVIOUS
<1>5. handler' = [handler EXCEPT ![h] = y]
  BY <1>0, <1>1, <1>2, <1>3, <1>4, Types DEF Go
<1>6. todo \in Seq(Operation) /\ \A o \in Elements(todo) : Quiet(o) /\ Aside(o)
  <2>1. CASE run.status = "none"
    BY <1>3, <2>1, EmptyList
  <2>2. CASE run.status # "none"
    <3>1. "run_submitted" \in EventType
      BY DEF EventType
    <3>2. PICK o : o = Append1("run_submitted", 0, 0)
      OBVIOUS
    <3>3. o \in Operation /\ o.op = "event" /\ o.event.type = "run_submitted"
      BY <3>1, <3>2, AppendOp, Types
    <3>4. Quiet(o) /\ Aside(o)
      BY <3>3 DEF Quiet, Aside
    <3>5. todo = <<o>>
      BY <1>3, <2>2, <3>2
    <3> QED
      BY <3>3, <3>4, <3>5, ListOfOne
  <2> QED
    BY <2>1, <2>2
<1>7. m \in Label /\ m \in {"create", "start"}
  BY <1>2 DEF Label
<1>8. x \in HandlerState /\ x.pc = "idle" /\ x.todo = << >>
  BY <1>0, <1>1, Arrives
<1>9. y \in HandlerState /\ y.pc = m /\ y.todo = todo
  <2>1. NoRun \in Run
    BY Types
  <2> QED
    BY <1>4, <1>6, <1>7, <1>8, <2>1 DEF HandlerState
<1>10. HandlerFits(y, run.status, approved, ledger)
  BY <1>6, <1>7, <1>9, QuietFits DEF Past
<1>11. SoloFits(x, approvals, ledger, effects) => SoloFits(y, approvals, ledger, effects)
  BY <1>6, <1>7, <1>9, QuietSolo
<1>12. OrderlyFits(x, run, approvals, ledger, effects, calls)
         => OrderlyFits(y, run, approvals, ledger, effects, calls)
  BY <1>6, <1>7, <1>8, <1>9, AsideOrderly, Types
<1> QED
  BY <1>0, <1>1, <1>5, <1>9, <1>10, <1>11, <1>12, ArriveKeeps

\* A request that decides a proposal keeps the invariant.
LEMMA DecideKeeps ==
  ASSUME Inv, NEW h \in Handler, NEW p \in Proposal, NEW v \in Verdict, Decide(h, p, v)
  PROVE  Inv'
<1>0. /\ Free(h) /\ UNCHANGED <<run, approvals, ledger, effects, calls, approved, stops>>
      /\ handler' = [handler EXCEPT ![h] = [Idle EXCEPT !.pc = "decide", !.p = p, !.verdict = v]]
      /\ approvals[p].status # "none"
  BY DEF Decide
<1>1. PICK x : x = handler[h]
  OBVIOUS
<1>2. PICK y : y = [Idle EXCEPT !.pc = "decide", !.p = p, !.verdict = v]
  OBVIOUS
<1>3. y \in HandlerState /\ y.pc = "decide" /\ y.todo = << >> /\ y.p = p
  <2>1. "decide" \in Label /\ p \in Call /\ << >> \in Seq(Operation)
    BY EmptyList DEF Label, Call, Proposal
  <2> QED
    BY <1>2, <2>1, Types DEF Idle, HandlerState
<1>4. Elements(y.todo) = {}
  BY <1>3, EmptyList
<1>5. Started(run.status)
  BY <1>0 DEF Inv, ProposalsFit
<1>6. HandlerFits(y, run.status, approved, ledger)
  BY <1>3, <1>4, <1>5 DEF HandlerFits
<1>7. x \in HandlerState /\ x.pc = "idle" /\ x.todo = << >>
  BY <1>0, <1>1, Arrives
<1>8. SoloFits(x, approvals, ledger, effects) => SoloFits(y, approvals, ledger, effects)
  BY <1>3, <1>4, QuietSolo
<1>9. OrderlyFits(x, run, approvals, ledger, effects, calls)
         => OrderlyFits(y, run, approvals, ledger, effects, calls)
  BY <1>3, <1>4, <1>7, AsideOrderly, Types
<1> QED
  BY <1>0, <1>1, <1>2, <1>3, <1>6, <1>8, <1>9, ArriveKeeps

\* A handler that stops midway keeps the invariant: what it had still to store is
\* lost, and nobody relied on it.
LEMMA StopKeeps ==
  ASSUME Inv, NEW h \in Handler, Stop(h)
  PROVE  Inv'
<1>0. /\ handler[h] # Idle /\ stops < MaxStops /\ stops' = stops + 1
      /\ handler' = [handler EXCEPT ![h] = Idle]
      /\ UNCHANGED <<run, approvals, ledger, effects, calls, approved, requests, overlapped>>
  BY DEF Stop
<1>1. Idle \in HandlerState /\ Idle.pc = "idle" /\ Idle.todo = << >>
  <2>1. PICK y : y = [Idle EXCEPT !.todo = << >>]
    OBVIOUS
  <2>2. y \in HandlerState /\ y = Idle
    BY <2>1, EmptyList, FinishState DEF Idle
  <2> QED
    BY <2>2 DEF Idle
<1>2. Elements(Idle.todo) = {}
  BY <1>1, EmptyList
<1>3. stops' \in 0..MaxStops /\ stops' # 0
  <2>1. stops \in 0..MaxStops /\ MaxStops \in Nat
    BY OutwardAssumption DEF Inv, TypeOK
  <2> QED
    BY <1>0, <2>1
<1>4. ~Undisturbed'
  BY <1>3 DEF Undisturbed
<1>5. requests' \in 0..MaxRequests /\ overlapped' \in BOOLEAN
  BY <1>0 DEF Inv, TypeOK
<1>6. HandlerFits(Idle, run.status, approved, ledger)
  BY <1>1, <1>2, QuietFits DEF Past
<1>7. ASSUME ~overlapped' PROVE Solo(h) /\ SoloFits(Idle, approvals, ledger, effects)
  <2>1. Solo(h)
    BY <1>0, <1>7 DEF Inv, SoloInv, OneAtWork, Solo
  <2>2. SoloFits(handler[h], approvals, ledger, effects)
    BY <1>0, <1>7, <2>1 DEF Inv, SoloInv
  <2> QED
    BY <1>1, <1>2, <2>1, <2>2, QuietSolo
<1>8. calls' \in Seq(STRING) /\ Len(calls') <= MaxCalls
  BY <1>0, Types
<1>9. UNCHANGED <<run, approvals, ledger, approved, effects>>
  BY <1>0
<1> QED
  BY <1>0, <1>1, <1>3, <1>4, <1>5, <1>6, <1>7, <1>8, <1>9, LocalKeeps

\* Where a handler goes.
LEMMA GoTo ==
  ASSUME Inv, NEW h \in Handler, NEW m \in Label, NEW todo \in Seq(Operation), NEW r \in Run,
         Go(h, m, todo, r)
  PROVE  \E y \in HandlerState :
           /\ handler' = [handler EXCEPT ![h] = y]
           /\ y.pc = m /\ y.todo = todo /\ y.run = r
           /\ y.p = handler[h].p /\ y.call = handler[h].call /\ y.verdict = handler[h].verdict
<1>1. PICK y : y = [handler[h] EXCEPT !.pc = m, !.todo = todo, !.run = r]
  OBVIOUS
<1>2. handler' = [handler EXCEPT ![h] = y]
  BY <1>1, Types DEF Go
<1>3. handler[h] \in HandlerState
  BY Types
<1>4. y \in HandlerState /\ y.pc = m /\ y.todo = todo /\ y.run = r
      /\ y.p = handler[h].p /\ y.call = handler[h].call /\ y.verdict = handler[h].verdict
  BY <1>1, <1>3 DEF HandlerState
<1> QED
  BY <1>2, <1>4

\* The new state of a handler that finishes.
LEMMA FinishTo ==
  ASSUME NEW h \in Handler, NEW todo \in Seq(Operation), Finish(h, todo)
  PROVE  \E y \in HandlerState :
           /\ handler' = [handler EXCEPT ![h] = y] /\ y.pc = "idle" /\ y.todo = todo
<1>1. PICK y : y = [Idle EXCEPT !.todo = todo]
  OBVIOUS
<1>2. y \in HandlerState /\ y.pc = "idle" /\ y.todo = todo
  BY <1>1, FinishState
<1> QED
  BY <1>1, <1>2 DEF Finish

\* A handler that has something to do, or is at a label of its own, is not idle.
LEMMA Busy ==
  ASSUME NEW h \in Handler, NEW l, At(h, l), l # "idle"
  PROVE  handler[h] # Idle /\ handler[h].pc = l /\ handler[h].todo = << >>
BY DEF At, Idle

\* The INSERT of an event, by its parts.
LEMMA EventOp ==
  ASSUME NEW ty \in EventType, NEW n \in 0..MaxTurns, NEW p \in Call
  PROVE  \E o \in Operation : /\ o = Append1(ty, n, p) /\ o.op = "event"
                              /\ o = [op |-> "event", event |-> Event(ty, n, p)]
                              /\ o.event = Event(ty, n, p) /\ o.event \in LedgerEvent
                              /\ o.event.type = ty /\ o.event.turn = n /\ o.event.p = p
<1>1. PICK o : o = Append1(ty, n, p)
  OBVIOUS
<1>2. o \in Operation /\ o.op = "event" /\ o.event = Event(ty, n, p)
      /\ Event(ty, n, p) \in LedgerEvent
      /\ Event(ty, n, p).type = ty /\ Event(ty, n, p).turn = n /\ Event(ty, n, p).p = p
  BY <1>1, AppendOp
<1>3. o = [op |-> "event", event |-> Event(ty, n, p)]
  BY <1>1 DEF Append1
<1> QED
  BY <1>1, <1>2, <1>3

\* A request is answered and leaves nothing to store.
LEMMA FinishEmpty ==
  ASSUME Inv, NEW h \in Handler, NEW l, At(h, l), l \notin {"idle", "model"}, Finish(h, << >>),
         UNCHANGED <<run, approvals, ledger, effects, calls, approved, requests, overlapped, stops>>
  PROVE  Inv'
<1>1. PICK x : x = handler[h]
  OBVIOUS
<1>2. x # Idle /\ x.pc = l /\ x.todo = << >>
  BY <1>1, Busy
<1>3. << >> \in Seq(Operation)
  BY EmptyList
<1>4. PICK y \in HandlerState : handler' = [handler EXCEPT ![h] = y] /\ y.pc = "idle" /\ y.todo = << >>
  BY <1>3, FinishTo
<1>5. Elements(y.todo) = {}
  BY <1>4, EmptyList
<1>6. HandlerFits(y, run.status, approved, ledger)
  BY <1>4, <1>5, QuietFits DEF Past
<1>7. SoloFits(x, approvals, ledger, effects) => SoloFits(y, approvals, ledger, effects)
  BY <1>4, <1>5, QuietSolo
<1>8. OrderlyFits(x, run, approvals, ledger, effects, calls)
         => OrderlyFits(y, run, approvals, ledger, effects, calls)
  <2>1. run \in Run
    BY Types
  <2> QED
    BY <1>2, <1>4, <1>5, <2>1, AsideOrderly
<1> QED
  BY <1>1, <1>2, <1>4, <1>6, <1>7, <1>8, GoOnKeeps

\* The row of a new run.
LEMMA CreateKeeps ==
  ASSUME Inv, NEW h \in Handler, Create(h)
  PROVE  Inv'
<1>1. CASE run.status # "none"
  BY <1>1, FinishEmpty DEF Create
<1>2. CASE run.status = "none"
  <2>0. /\ At(h, "create")
        /\ \E plan \in Plan : run' = [NoRun EXCEPT !.status = "queued", !.plan = plan]
        /\ Go(h, "start", <<Append1("run_submitted", 0, 0)>>, NoRun)
        /\ UNCHANGED <<approvals, ledger, effects, calls, approved, requests, overlapped, stops>>
    BY <1>2 DEF Create
  <2>1. PICK x : x = handler[h]
    OBVIOUS
  <2>2. x # Idle /\ x.pc = "create" /\ x.todo = << >>
    BY <2>0, <2>1, Busy
  <2>3. PICK o \in Operation : /\ o = Append1("run_submitted", 0, 0) /\ o.op = "event"
                               /\ o.event.type = "run_submitted"
    <3>1. "run_submitted" \in EventType
      BY DEF EventType
    <3> QED
      BY <3>1, EventOp, Types
  <2>4. PICK todo : todo = <<o>>
    OBVIOUS
  <2>5. todo \in Seq(Operation) /\ Elements(todo) = {o}
    BY <2>4, ListOfOne
  <2>6. Quiet(o) /\ Aside(o)
    BY <2>3 DEF Quiet, Aside
  <2>7. PICK y \in HandlerState : /\ handler' = [handler EXCEPT ![h] = y]
                                  /\ y.pc = "start" /\ y.todo = todo
    <3>1. "start" \in Label /\ NoRun \in Run
      BY Types DEF Label
    <3>2. Go(h, "start", todo, NoRun)
      BY <2>0, <2>3, <2>4
    <3> QED
      BY <2>5, <3>1, <3>2, GoTo
  <2>8. /\ run' \in Run /\ run'.status = "queued" /\ run'.turn = 0 /\ run'.step = 0 /\ run'.call = 0
    <3>1. PICK plan \in Plan : run' = [NoRun EXCEPT !.status = "queued", !.plan = plan]
      BY <2>0
    <3> QED
      BY <3>1, Types DEF NoRun, Run
  <2>9. ~Started(run.status) /\ ~Started(run'.status) /\ run.turn = 0 /\ run.call = 0
    BY <1>2, <2>8 DEF Inv, FreshRun, Started
  <2>10. \A p \in Proposal : approvals[p].status = "none"
    BY <2>9 DEF Inv, ProposalsFit
  <2>11. ProposalsFit' /\ FreshRun' /\ LedgerFits(ledger') /\ ApprovedBeforeEffect'
    BY <2>0, <2>8, <2>9, <2>10 DEF Inv, ProposalsFit, FreshRun, ApprovedBeforeEffect
  <2>12. HandlerFits(y, run'.status, approved', ledger')
    BY <2>5, <2>6, <2>7, QuietFits DEF Past
  <2>13. /\ requests' \in 0..MaxRequests /\ overlapped' \in BOOLEAN /\ stops' \in 0..MaxStops
         /\ ~overlapped' => Solo(h) /\ SoloFits(x, approvals, ledger, effects)
         /\ Undisturbed' /\ ToolsDiffer => OrderlyFits(x, run, approvals, ledger, effects, calls)
    BY <2>0, <2>1, <2>2, GoingOn
  <2>14. SoloFits(x, approvals, ledger, effects) => SoloFits(y, approvals', ledger', effects')
    BY <2>0, <2>5, <2>6, <2>7, QuietSolo
  <2>15. ASSUME OrderlyFits(x, run, approvals, ledger, effects, calls)
         PROVE  OrderlyFits(y, run', approvals', ledger', effects', calls')
    <3>1. /\ CallsFit(run, x, approvals, calls) /\ EffectsFit(run, x, approvals, effects)
          /\ TurnsFit(run, x, ledger, effects)
      BY <2>2, <2>15, AtRest, Types
    <3>2. OrderlyFits(y, run, approvals, ledger, effects, calls)
      BY <2>2, <2>5, <2>6, <2>7, <2>15, AsideOrderly, Types
    <3>3. Elements(y.todo) = {o} /\ ~IsRunOp(o) /\ ~IsApprovalOp(o)
      BY <2>5, <2>6, <2>7, AsideNotTurn
    <3>4. \A v \in Run : IsLast(v, y.todo, run') => v = run'
      BY <3>3, IsLastSame
    <3>5. /\ CallsFit(run, y, approvals, calls) /\ EffectsFit(run, y, approvals, effects)
          /\ TurnsFit(run, y, ledger, effects) /\ Orderly(ledger, y.todo)
      <4>1. IsLast(run, y.todo, run)
        BY <3>3, IsLastSame
      <4> QED
        BY <3>2, <4>1, Types DEF OrderlyFits
    <3>6. CallsFit(run', y, approvals, calls)
      BY <2>8, <2>9, <2>10, <3>3, <3>5 DEF CallsFit, Known
    <3>7. RequestFits(run', y, approvals, effects)
      BY <2>7 DEF RequestFits
    <3>8. ~Spent(run'.call, effects)
      BY <1>2, <2>7, <2>8, <2>9, <3>5 DEF EffectsFit, Over
    <3>9. EffectsFit(run', y, approvals, effects)
      BY <3>5, <3>8 DEF EffectsFit
    <3>10. TurnsFit(run', y, ledger, effects)
      BY <1>2, <2>8, <2>9, <3>5 DEF TurnsFit
    <3>11. LastCompleted(y.todo, run')
      <4>1. \A k \in DOMAIN y.todo : y.todo[k] \in Elements(y.todo)
        BY DEF Elements
      <4> QED
        BY <3>3, <4>1 DEF LastCompleted
    <3> QED
      BY <2>0, <3>4, <3>5, <3>6, <3>7, <3>9, <3>10, <3>11 DEF OrderlyFits
  <2>16. /\ approvals' \in [Proposal -> Approval] /\ ledger' \in Seq(LedgerEvent)
         /\ effects' \in Seq([p : Proposal, call : Call]) /\ approved' \subseteq Proposal
         /\ calls' \in Seq(STRING) /\ Len(calls') <= MaxCalls
         /\ approved \subseteq approved' /\ Elements(ledger) \subseteq Elements(ledger')
    BY <2>0, Types
  <2>17. ToolsDiffer' => ToolsDiffer
    BY <2>0 DEF ToolsDiffer
  <2>18. Undisturbed' /\ ToolsDiffer' => OrderlyFits(y, run', approvals', ledger', effects', calls')
    BY <2>13, <2>15, <2>17
  <2>19. ~overlapped' => Solo(h) /\ SoloFits(y, approvals', ledger', effects')
    BY <2>13, <2>14
  <2> QED
    BY <2>7, <2>8, <2>9, <2>11, <2>12, <2>13, <2>16, <2>18, <2>19, StepKeeps
<1> QED
  BY <1>1, <1>2

\* The UPDATE of a run, by its parts.
LEMMA RunOp ==
  ASSUME NEW r \in Run
  PROVE  \E o \in Operation : /\ o = SaveRun(r) /\ o.op = "run" /\ o.run = r
                              /\ IsRunOp(o) /\ ~IsApprovalOp(o)
<1>1. PICK o : o = SaveRun(r)
  OBVIOUS
<1>2. o \in Operation /\ o.op = "run" /\ o.run = r
  BY <1>1, SaveRunOp
<1> QED
  BY <1>1, <1>2 DEF IsRunOp, IsApprovalOp

\* The two operations that end a run.
LEMMA TerminalList ==
  ASSUME NEW r \in Run, NEW s \in {"completed", "failed"}
  PROVE  \E a, b \in Operation :
           /\ Terminal(r, s) = <<a, b>>
           /\ a.op = "run" /\ a.run \in Run /\ a.run.status = s /\ a.run.turn = r.turn
           /\ a.run.call = r.call /\ IsRunOp(a) /\ ~IsApprovalOp(a) /\ Quiet(a)
           /\ Quiet(b) /\ Aside(b)
           /\ b.op = "event" /\ b.event.type \in {"run_completed", "run_failed"}
<1>1. PICK x : x = [r EXCEPT !.status = s]
  OBVIOUS
<1>2. x \in Run /\ x.status = s /\ x.turn = r.turn /\ x.call = r.call
  BY <1>1 DEF Run
<1>3. PICK a \in Operation : /\ a = SaveRun(x) /\ a.op = "run" /\ a.run = x
                             /\ IsRunOp(a) /\ ~IsApprovalOp(a)
  BY <1>2, RunOp
<1>4. PICK b : b = IF s = "completed" THEN Append1("run_completed", 0, 0)
                                      ELSE Append1("run_failed", 0, 0)
  OBVIOUS
<1>5. b \in Operation /\ b.op = "event" /\ b.event.type \in {"run_completed", "run_failed"}
  <2>0. 0 \in 0..MaxTurns /\ 0 \in Call
    BY OutwardAssumption DEF Call
  <2>1. "run_completed" \in EventType /\ "run_failed" \in EventType
    BY DEF EventType
  <2>2. /\ Append1("run_completed", 0, 0) \in Operation
        /\ Append1("run_completed", 0, 0).op = "event"
        /\ Append1("run_completed", 0, 0).event.type = "run_completed"
    BY <2>0, <2>1, AppendOp
  <2>3. /\ Append1("run_failed", 0, 0) \in Operation
        /\ Append1("run_failed", 0, 0).op = "event"
        /\ Append1("run_failed", 0, 0).event.type = "run_failed"
    BY <2>0, <2>1, AppendOp
  <2> QED
    BY <1>4, <2>2, <2>3
<1>6. Terminal(r, s) = <<a>> \o <<b>>
  BY <1>1, <1>3, <1>4 DEF Terminal
<1>7. Terminal(r, s) = <<a, b>>
  BY <1>3, <1>5, <1>6, JoinOneOne
<1>8. Quiet(a) /\ Quiet(b) /\ Aside(b)
  BY <1>2, <1>3, <1>5 DEF Quiet, Aside, Started
<1> QED
  BY <1>2, <1>3, <1>5, <1>7, <1>8

\* Turns, steps and calls are numbers.
LEMMA Turns ==
  /\ \A e \in LedgerEvent : e.turn \in Nat /\ e.p \in Nat
  /\ \A r \in Run : r.turn \in Nat /\ r.call \in Nat /\ r.step \in Nat
BY OutwardAssumption DEF LedgerEvent, Run, Call

\* start_if_ready keeps the invariant: it starts a queued run, whose copy is
\* fresh.
LEMMA StartKeeps ==
  ASSUME Inv, NEW h \in Handler, StartIfReady(h)
  PROVE  Inv'
<1>0. At(h, "start") /\ UNCHANGED <<run, approvals, ledger, effects, calls, approved, requests,
                                    overlapped, stops>>
  BY DEF StartIfReady
<1>1. CASE Finish(h, << >>)
  BY <1>0, <1>1, FinishEmpty
<1>2. ASSUME run.status = "queued"
      PROVE  /\ run \in Run /\ run.turn = 0 /\ run.step = 0 /\ run.call = 0 /\ ~Started(run.status)
             /\ \A p \in Proposal : approvals[p].status = "none"
  <2>1. ~Started(run.status)
    BY <1>2 DEF Started
  <2> QED
    BY <2>1, Types DEF Inv, FreshRun, ProposalsFit
<1>3. PICK x : x = handler[h]
  OBVIOUS
<1>4. x # Idle /\ x.pc = "start" /\ x.todo = << >>
  BY <1>0, <1>3, Busy
<1>5. CASE /\ run.status = "queued"
           /\ Finish(h, <<SaveRun([run EXCEPT !.status = "completed"]),
                          Append1("trust_handoff_rejected", 0, 0),
                          Append1("run_completed", 0, 0)>>)
  <2>1. PICK v : v = [run EXCEPT !.status = "completed"]
    OBVIOUS
  <2>2. v \in Run /\ v.status = "completed" /\ v.turn = 0 /\ v.call = 0
    BY <1>2, <1>5, <2>1 DEF Run
  <2>3. PICK a \in Operation : a = SaveRun(v) /\ a.op = "run" /\ a.run = v
                               /\ IsRunOp(a) /\ ~IsApprovalOp(a)
    BY <2>2, RunOp
  <2>4. "trust_handoff_rejected" \in EventType /\ "run_completed" \in EventType
    BY DEF EventType
  <2>5. PICK b \in Operation : /\ b = Append1("trust_handoff_rejected", 0, 0)
                               /\ b.op = "event" /\ b.event.type = "trust_handoff_rejected"
    BY <2>4, EventOp, Types
  <2>6. PICK c \in Operation : /\ c = Append1("run_completed", 0, 0)
                               /\ c.op = "event" /\ c.event.type = "run_completed"
    BY <2>4, EventOp, Types
  <2>7. PICK todo : todo = <<a, b, c>>
    OBVIOUS
  <2>8. /\ todo \in Seq(Operation) /\ DOMAIN todo = {1, 2, 3} /\ Elements(todo) = {a, b, c}
        /\ todo[1] = a /\ todo[2] = b /\ todo[3] = c
    BY <2>7, ListOfThree
  <2>9. Quiet(a) /\ Quiet(b) /\ Quiet(c) /\ Aside(b) /\ Aside(c)
    BY <2>2, <2>3, <2>5, <2>6 DEF Quiet, Aside, Started
  <2>10. PICK y \in HandlerState : handler' = [handler EXCEPT ![h] = y]
                                   /\ y.pc = "idle" /\ y.todo = todo
    <3>1. Finish(h, todo)
      BY <1>5, <2>1, <2>3, <2>5, <2>6, <2>7
    <3> QED
      BY <2>8, <3>1, FinishTo
  <2>11. HandlerFits(y, run.status, approved, ledger)
    BY <2>8, <2>9, <2>10, QuietFits DEF Past
  <2>12. SoloFits(x, approvals, ledger, effects) => SoloFits(y, approvals, ledger, effects)
    BY <2>8, <2>9, <2>10, QuietSolo
  <2>13. ASSUME OrderlyFits(x, run, approvals, ledger, effects, calls)
         PROVE  OrderlyFits(y, run, approvals, ledger, effects, calls)
    <3>1. /\ CallsFit(run, x, approvals, calls) /\ EffectsFit(run, x, approvals, effects)
          /\ TurnsFit(run, x, ledger, effects)
          /\ \A i, j \in DOMAIN ledger : Misplaced(ledger[i], ledger[j]) => j < i
          /\ \A e : Told(e, ledger, x.todo) <=> e \in Elements(ledger)
      BY <1>4, <2>13, AtRest, Types
    <3>2. ~IsRunOp(b) /\ ~IsRunOp(c) /\ ~IsApprovalOp(b) /\ ~IsApprovalOp(c)
      BY <2>9, AsideNotTurn
    <3>3. \A u \in Run : IsLast(u, y.todo, run) => u = v
      BY <2>3, <2>8, <2>10, <3>2, IsLastAt
    <3>4. CallsFit(v, y, approvals, calls)
      BY <1>2, <1>5, <2>2, <2>3, <2>8, <2>10, <3>1, <3>2 DEF CallsFit, Known
    <3>5. RequestFits(v, y, approvals, effects)
      BY <2>10 DEF RequestFits
    <3>6. EffectsFit(v, y, approvals, effects)
      BY <2>2, <3>1 DEF EffectsFit, Over
    <3>7. \A e : Told(e, ledger, y.todo) =>
            Told(e, ledger, x.todo) \/ e.type \notin {"turn_started", "turn_completed"}
      BY <2>3, <2>5, <2>6, <2>8, <2>10 DEF Told
    <3>8. TurnsFit(v, y, ledger, effects)
      BY <1>2, <1>5, <2>2, <2>10, <3>1, <3>7 DEF TurnsFit
    <3>9. Orderly(ledger, y.todo)
      BY <2>3, <2>8, <2>9, <2>10, <3>1, AsideNotTurn DEF Orderly
    <3>10. LastCompleted(y.todo, run)
      BY <1>5, <2>8, <2>10, <3>2 DEF LastCompleted
    <3> QED
      BY <3>3, <3>4, <3>5, <3>6, <3>8, <3>9, <3>10 DEF OrderlyFits
  <2> QED
    BY <1>0, <1>3, <1>4, <2>10, <2>11, <2>12, <2>13, GoOnKeeps
<1>6. CASE /\ run.status = "queued"
           /\ Go(h, "model", <<SaveRun([run EXCEPT !.status = "running", !.turn = 1]),
                               Append1("run_started", 0, 0), Append1("turn_started", 1, 0)>>,
                 [run EXCEPT !.status = "running", !.turn = 1])
  <2>1. PICK v : v = [run EXCEPT !.status = "running", !.turn = 1]
    OBVIOUS
  <2>2. v \in Run /\ v.status = "running" /\ v.turn = 1 /\ v.call = 0 /\ v.step = 0
    BY <1>2, <1>6, <2>1, Types DEF Run
  <2>3. PICK a \in Operation : a = SaveRun(v) /\ a.op = "run" /\ a.run = v
                               /\ IsRunOp(a) /\ ~IsApprovalOp(a)
    BY <2>2, RunOp
  <2>4. "run_started" \in EventType /\ "turn_started" \in EventType
    BY DEF EventType
  <2>5. PICK b \in Operation : /\ b = Append1("run_started", 0, 0)
                               /\ b.op = "event" /\ b.event.type = "run_started"
    BY <2>4, EventOp, Types
  <2>6. PICK c \in Operation : /\ c = Append1("turn_started", 1, 0) /\ c.op = "event"
                               /\ c.event.type = "turn_started" /\ c.event.turn = 1
    BY <2>4, EventOp, Types
  <2>7. PICK todo : todo = <<a, b, c>>
    OBVIOUS
  <2>8. /\ todo \in Seq(Operation) /\ DOMAIN todo = {1, 2, 3} /\ Elements(todo) = {a, b, c}
        /\ todo[1] = a /\ todo[2] = b /\ todo[3] = c /\ todo # << >>
    BY <2>7, ListOfThree
  <2>9. Quiet(a) /\ Quiet(b) /\ Quiet(c) /\ Aside(b)
    BY <2>2, <2>3, <2>5, <2>6 DEF Quiet, Aside, Started
  <2>10. PICK y \in HandlerState : handler' = [handler EXCEPT ![h] = y]
                                   /\ y.pc = "model" /\ y.todo = todo /\ y.run = v
    <3>1. Go(h, "model", todo, v)
      BY <1>6, <2>1, <2>3, <2>5, <2>6, <2>7
    <3>2. "model" \in Label
      BY DEF Label
    <3> QED
      BY <2>2, <2>8, <3>1, <3>2, GoTo
  <2>11. HandlerFits(y, run.status, approved, ledger)
    <3>1. v.step < Steps
      BY <2>2, OutwardAssumption DEF Steps
    <3>2. Started(v.status)
      BY <2>2 DEF Started
    <3> QED
      BY <2>3, <2>5, <2>6, <2>8, <2>10, <3>1, <3>2 DEF HandlerFits
  <2>12. SoloFits(x, approvals, ledger, effects) => SoloFits(y, approvals, ledger, effects)
    BY <2>8, <2>9, <2>10, QuietSolo
  <2>13. ASSUME OrderlyFits(x, run, approvals, ledger, effects, calls)
         PROVE  OrderlyFits(y, run, approvals, ledger, effects, calls)
    <3>1. /\ CallsFit(run, x, approvals, calls) /\ EffectsFit(run, x, approvals, effects)
          /\ TurnsFit(run, x, ledger, effects)
          /\ \A i, j \in DOMAIN ledger : Misplaced(ledger[i], ledger[j]) => j < i
          /\ \A e : Told(e, ledger, x.todo) <=> e \in Elements(ledger)
      BY <1>4, <2>13, AtRest, Types
    <3>2. ~IsRunOp(b) /\ ~IsRunOp(c) /\ ~IsApprovalOp(b) /\ ~IsApprovalOp(c)
      BY <2>5, <2>6 DEF IsRunOp, IsApprovalOp
    <3>3. \A u \in Run : IsLast(u, y.todo, run) => u = v
      BY <2>3, <2>8, <2>10, <3>2, IsLastAt
    <3>4. CallsFit(v, y, approvals, calls)
      BY <1>2, <1>6, <2>2, <2>3, <2>8, <2>10, <3>1, <3>2 DEF CallsFit, Known
    <3>5. RequestFits(v, y, approvals, effects)
      BY <2>2, <2>10 DEF RequestFits
    <3>6. EffectsFit(v, y, approvals, effects)
      BY <2>10, <3>1 DEF EffectsFit
    <3>7. \A e : Told(e, ledger, y.todo) =>
            \/ Told(e, ledger, x.todo) \/ e.type \notin {"turn_started", "turn_completed"}
            \/ e.type = "turn_started" /\ e.turn = 1
      BY <2>3, <2>5, <2>6, <2>8, <2>10 DEF Told
    <3>8. TurnsFit(v, y, ledger, effects)
      BY <1>2, <1>6, <2>2, <2>10, <3>1, <3>7, Turns DEF TurnsFit
    <3>9. Orderly(ledger, y.todo)
      <4>1. \A e : ~Misplaced(e, c.event)
        BY <2>6 DEF Misplaced
      <4> QED
        BY <2>3, <2>8, <2>9, <2>10, <3>1, <4>1, AsideNotTurn DEF Orderly
    <3>10. LastCompleted(y.todo, run)
      BY <1>6, <2>8, <2>10, <3>2 DEF LastCompleted
    <3> QED
      BY <3>3, <3>4, <3>5, <3>6, <3>8, <3>9, <3>10 DEF OrderlyFits
  <2> QED
    BY <1>0, <1>3, <1>4, <2>10, <2>11, <2>12, <2>13, GoOnKeeps
<1> QED
  BY <1>1, <1>5, <1>6 DEF StartIfReady

-----------------------------------------------------------------------------
(* Turns.                                                                      *)

\* A run that is not completed fails, and its request ends.
LEMMA FailOrderly ==
  ASSUME NEW x, NEW y, NEW r \in Run, NEW apps, NEW led, NEW eff, NEW cs, x.todo = << >>,
         OrderlyFits(x, r, apps, led, eff, cs), r.status # "completed",
         y.pc = "idle", y.todo = Terminal(r, "failed")
  PROVE  OrderlyFits(y, r, apps, led, eff, cs)
<1>1. PICK a \in Operation, b \in Operation :
           /\ y.todo = <<a, b>>
           /\ a.op = "run" /\ a.run \in Run /\ a.run.status = "failed" /\ a.run.turn = r.turn
           /\ a.run.call = r.call /\ IsRunOp(a) /\ ~IsApprovalOp(a) /\ Quiet(a)
           /\ Quiet(b) /\ Aside(b)
  BY TerminalList
<1>2. DOMAIN y.todo = {1, 2} /\ y.todo[1] = a /\ y.todo[2] = b /\ Elements(y.todo) = {a, b}
  <2>1. PICK t : t = <<a, b>>
    OBVIOUS
  <2>2. DOMAIN t = {1, 2} /\ t[1] = a /\ t[2] = b /\ Elements(t) = {a, b}
    BY <2>1, ListOfTwo
  <2> QED
    BY <1>1, <2>1, <2>2
<1>3. ~IsRunOp(b) /\ ~IsApprovalOp(b)
  BY <1>1, AsideNotTurn
<1>4. PICK v : v = a.run
  OBVIOUS
<1>5. \A u \in Run : IsLast(u, y.todo, r) => u = v
  BY <1>1, <1>2, <1>3, <1>4, IsLastAt
<1>6. /\ CallsFit(r, x, apps, cs) /\ EffectsFit(r, x, apps, eff) /\ TurnsFit(r, x, led, eff)
      /\ \A i, j \in DOMAIN led : Misplaced(led[i], led[j]) => j < i
      /\ \A e : Told(e, led, x.todo) <=> e \in Elements(led)
  BY AtRest
<1>7. CallsFit(v, y, apps, cs)
  BY <1>1, <1>2, <1>3, <1>4, <1>6 DEF CallsFit, Open
<1>8. RequestFits(v, y, apps, eff)
  BY DEF RequestFits
<1>9. EffectsFit(v, y, apps, eff)
  BY <1>1, <1>4, <1>6 DEF EffectsFit, Over
<1>10. \A e : Told(e, led, y.todo) =>
         Told(e, led, x.todo) \/ e.type \notin {"turn_started", "turn_completed"}
  BY <1>1, <1>2, AsideNotTurn DEF Told
<1>11. TurnsFit(v, y, led, eff)
  BY <1>1, <1>4, <1>6, <1>10 DEF TurnsFit
<1>12. Orderly(led, y.todo)
  BY <1>1, <1>2, <1>6, AsideNotTurn DEF Orderly
<1>13. LastCompleted(y.todo, r)
  BY <1>1, <1>2, <1>3 DEF LastCompleted
<1> QED
  BY <1>5, <1>7, <1>8, <1>9, <1>11, <1>12, <1>13 DEF OrderlyFits

\* Another model call leaves the tools of the earlier ones as they were.
LEMMA CallsGrow ==
  ASSUME Inv, NEW t \in STRING, calls' = Append(calls, t), Len(calls) + 1 <= MaxCalls
  PROVE  /\ calls' \in Seq(STRING) /\ Len(calls') = Len(calls) + 1 /\ Len(calls') <= MaxCalls
         /\ ToolsDiffer' => ToolsDiffer
<1>1. calls \in Seq(STRING) /\ Len(calls) \in Nat
  BY Types
<1>2. calls' \in Seq(STRING) /\ Len(calls') = Len(calls) + 1
      /\ \A i \in 1..Len(calls) : calls'[i] = calls[i]
  <2>1. PICK S : S = STRING
    OBVIOUS
  <2>2. calls \in Seq(S) /\ t \in S
    BY <1>1, <2>1
  <2>3. PICK s : s = Append(calls, t)
    OBVIOUS
  <2>4. s \in Seq(S) /\ Len(s) = Len(calls) + 1 /\ \A i \in 1..Len(calls) : s[i] = calls[i]
    BY <2>2, <2>3, ElementsOfAppend
  <2> QED
    BY <2>1, <2>3, <2>4
<1>3. DOMAIN calls = 1..Len(calls) /\ DOMAIN calls' = 1..(Len(calls) + 1)
  BY <1>1, <1>2
<1>4. \A i \in DOMAIN calls : i \in DOMAIN calls' /\ calls'[i] = calls[i]
  BY <1>1, <1>2, <1>3
<1>5. ToolsDiffer' => ToolsDiffer
  BY <1>4 DEF ToolsDiffer
<1> QED
  BY <1>2, <1>5

\* Every effect is of a proposal and a call.
LEMMA EffectTypes ==
  ASSUME Inv, NEW i \in DOMAIN effects
  PROVE  effects[i].p \in Proposal /\ effects[i].call \in Call
<1>1. PICK E : E = [p : Proposal, call : Call]
  OBVIOUS
<1>2. effects \in Seq(E)
  BY <1>1, Types
<1>3. effects[i] \in E
  BY <1>2
<1> QED
  BY <1>1, <1>3

\* _handle_model_tool_call keeps the invariant: the call it records is a new one,
\* which no proposal is for yet.
LEMMA ModelKeeps ==
  ASSUME Inv, NEW h \in Handler, ModelCall(h)
  PROVE  Inv'
<1>0. At(h, "model") /\ Len(calls) + 1 <= MaxCalls
      /\ UNCHANGED <<run, approvals, ledger, effects, approved, requests, overlapped, stops>>
  BY DEF ModelCall
<1>1. PICK x : x = handler[h]
  OBVIOUS
<1>2. x \in HandlerState /\ x # Idle /\ x.pc = "model" /\ x.todo = << >>
  BY <1>0, <1>1, Busy, Types
<1>3. PICK r : r = x.run
  OBVIOUS
<1>4. r \in Run /\ r.turn \in 0..MaxTurns /\ r.step \in Nat
  BY <1>2, <1>3 DEF HandlerState, Run
<1>5. Started(run.status) /\ Started(r.status) /\ r.step < Steps
  <2>1. HandlerFits(x, run.status, approved, ledger)
    BY <1>1 DEF Inv, HandlersFit
  <2> QED
    BY <1>2, <1>3, <2>1 DEF HandlerFits, Past
<1>6. PICK c : c = Len(calls) + 1
  OBVIOUS
<1>7. c \in Call /\ c \in 1..MaxCalls
  <2>1. Len(calls) \in Nat /\ MaxCalls \in Nat
    BY Types, OutwardAssumption
  <2> QED
    BY <1>0, <1>6, <2>1 DEF Call
<1>8. PICK made : made = [r EXCEPT !.call = c]
  OBVIOUS
<1>9. /\ made \in Run /\ made.call = c /\ made.turn = r.turn /\ made.status = r.status
      /\ made.step = r.step
  BY <1>4, <1>7, <1>8 DEF Run
<1>10. PICK a \in Operation : a = SaveRun(made) /\ a.op = "run" /\ a.run = made
                              /\ IsRunOp(a) /\ ~IsApprovalOp(a)
  BY <1>9, RunOp
<1>11. PICK b \in Operation : /\ b = Append1("proposal_made", r.turn, 0) /\ b.op = "event"
                              /\ b.event.type = "proposal_made"
  <2>1. "proposal_made" \in EventType
    BY DEF EventType
  <2> QED
    BY <1>4, <2>1, EventOp, Types
<1>12. Quiet(a) /\ Quiet(b) /\ Aside(b)
  BY <1>5, <1>9, <1>10, <1>11 DEF Quiet, Aside
<1>13. ~IsRunOp(b) /\ ~IsApprovalOp(b)
  BY <1>12, AsideNotTurn
<1>14. StepTool[r.step + 1] \in STRING
  BY <1>4, <1>5, OutwardAssumption DEF Steps
<1>15. /\ requests' \in 0..MaxRequests /\ overlapped' \in BOOLEAN /\ stops' \in 0..MaxStops
       /\ ~overlapped' => Solo(h) /\ SoloFits(x, approvals, ledger, effects)
       /\ Undisturbed' /\ ToolsDiffer => OrderlyFits(x, run, approvals, ledger, effects, calls)
  BY <1>0, <1>1, <1>2, GoingOn
<1>16. ASSUME OrderlyFits(x, run, approvals, ledger, effects, calls),
              SoloFits(x, approvals, ledger, effects)
       PROVE  /\ r = run /\ run.status = "running"
              /\ CallsFit(run, x, approvals, calls) /\ EffectsFit(run, x, approvals, effects)
              /\ TurnsFit(run, x, ledger, effects)
              /\ \A i, j \in DOMAIN ledger : Misplaced(ledger[i], ledger[j]) => j < i
              /\ \A e : Told(e, ledger, x.todo) <=> e \in Elements(ledger)
              /\ \A p \in Proposal : approvals[p].status \notin {"pending", "denied"}
              /\ ~Spent(c, effects) /\ \A p \in Proposal : Known(approvals[p]) => approvals[p].call # c
  <2>1. /\ CallsFit(run, x, approvals, calls) /\ EffectsFit(run, x, approvals, effects)
        /\ TurnsFit(run, x, ledger, effects) /\ RequestFits(run, x, approvals, effects)
        /\ \A i, j \in DOMAIN ledger : Misplaced(ledger[i], ledger[j]) => j < i
        /\ \A e : Told(e, ledger, x.todo) <=> e \in Elements(ledger)
    BY <1>2, <1>16, AtRest, Types
  <2>2. r = run /\ run.status = "running"
    BY <1>2, <1>3, <2>1 DEF RequestFits
  <2>3. \A p \in Proposal : approvals[p].status \notin {"pending", "denied"}
    BY <1>2, <2>1, <2>2 DEF CallsFit, Open
  <2>4. Len(calls) \in Nat
    BY Types
  <2>5. \A p \in Proposal : Known(approvals[p]) => approvals[p].call # c
    BY <1>6, <2>1, <2>4 DEF CallsFit
  <2>6. ASSUME NEW i \in DOMAIN effects PROVE effects[i].call # c
    <3>1. effects[i].p \in Proposal
      BY EffectTypes
    <3>2. Known(approvals[effects[i].p]) /\ effects[i].call = approvals[effects[i].p].call
      BY <1>16, <2>1 DEF SoloFits, EffectsFit, Known
    <3> QED
      BY <2>5, <3>1, <3>2
  <2>7. ~Spent(c, effects)
    BY <2>6 DEF Spent
  <2> QED
    BY <2>1, <2>2, <2>3, <2>5, <2>7
<1>17. CASE Finish(h, Terminal(r, "failed")) /\ UNCHANGED calls
  <2>1. PICK todo : todo = Terminal(r, "failed")
    OBVIOUS
  <2>2. todo \in Seq(Operation) /\ \A o \in Elements(todo) : Quiet(o)
    <3>1. PICK d \in Operation, e \in Operation : todo = <<d, e>> /\ Quiet(d) /\ Quiet(e)
      BY <1>4, <2>1, TerminalList
    <3>2. todo \in Seq(Operation) /\ Elements(todo) = {d, e}
      BY <3>1, ListOfTwo
    <3> QED
      BY <3>1, <3>2
  <2>3. PICK y \in HandlerState : handler' = [handler EXCEPT ![h] = y]
                                  /\ y.pc = "idle" /\ y.todo = todo
    BY <1>17, <2>1, <2>2, FinishTo
  <2>4. HandlerFits(y, run.status, approved, ledger)
    BY <2>2, <2>3, QuietFits DEF Past
  <2>5. SoloFits(x, approvals, ledger, effects) => SoloFits(y, approvals, ledger, effects)
    BY <2>2, <2>3, QuietSolo
  <2>6. ASSUME OrderlyFits(x, run, approvals, ledger, effects, calls),
               SoloFits(x, approvals, ledger, effects)
        PROVE  OrderlyFits(y, run, approvals, ledger, effects, calls)
    <3>1. r = run /\ run.status # "completed" /\ run \in Run
      BY <1>16, <2>6, Types
    <3>2. y.todo = Terminal(run, "failed")
      BY <2>1, <2>3, <3>1
    <3> QED
      BY <1>2, <2>3, <2>6, <3>1, <3>2, FailOrderly
  <2> QED
    BY <1>0, <1>1, <1>2, <1>17, <2>3, <2>4, <2>5, <2>6, GoOnKeeps
<1>18. ASSUME calls' = Append(calls, StepTool[r.step + 1])
       PROVE  /\ calls' \in Seq(STRING) /\ Len(calls') = c /\ Len(calls') <= MaxCalls
              /\ Undisturbed' /\ ToolsDiffer' =>
                   /\ OrderlyFits(x, run, approvals, ledger, effects, calls)
                   /\ SoloFits(x, approvals, ledger, effects)
  <2>1. /\ calls' \in Seq(STRING) /\ Len(calls') = c /\ Len(calls') <= MaxCalls
        /\ ToolsDiffer' => ToolsDiffer
    BY <1>0, <1>6, <1>14, <1>18, CallsGrow
  <2>2. Undisturbed' => ~overlapped'
    BY DEF Undisturbed
  <2> QED
    BY <1>15, <2>1, <2>2
<1>19. CASE /\ Finish(h, <<a, b>> \o <<Append1("proposal_policy_rejected", r.turn, 0),
                                      Append1("turn_completed", r.turn, 0)>>
                                  \o Terminal(made, "completed"))
            /\ calls' = Append(calls, StepTool[r.step + 1])
  <2>1. "proposal_policy_rejected" \in EventType /\ "turn_completed" \in EventType
    BY DEF EventType
  <2>2. PICK d \in Operation : /\ d = Append1("proposal_policy_rejected", r.turn, 0)
                               /\ d.op = "event" /\ d.event.type = "proposal_policy_rejected"
    BY <1>4, <2>1, EventOp, Types
  <2>3. PICK e \in Operation : /\ e = Append1("turn_completed", r.turn, 0) /\ e.op = "event"
                               /\ e.event.type = "turn_completed" /\ e.event.turn = r.turn
    BY <1>4, <2>1, EventOp, Types
  <2>4. PICK f \in Operation, g \in Operation :
           /\ Terminal(made, "completed") = <<f, g>>
           /\ f.op = "run" /\ f.run \in Run /\ f.run.status = "completed"
           /\ f.run.turn = made.turn /\ f.run.call = made.call
           /\ IsRunOp(f) /\ ~IsApprovalOp(f) /\ Quiet(f) /\ Quiet(g) /\ Aside(g)
    BY <1>9, TerminalList
  <2>5. PICK todo : todo = <<a, b, d, e, f, g>>
    OBVIOUS
  <2>6. /\ todo \in Seq(Operation) /\ DOMAIN todo = {1, 2, 3, 4, 5, 6}
        /\ Elements(todo) = {a, b, d, e, f, g} /\ todo[1] = a /\ todo[2] = b /\ todo[3] = d
        /\ todo[4] = e /\ todo[5] = f /\ todo[6] = g
    <3>1. /\ <<a, b, d, e, f, g>> \in Seq(Operation)
          /\ DOMAIN <<a, b, d, e, f, g>> = {1, 2, 3, 4, 5, 6}
          /\ Elements(<<a, b, d, e, f, g>>) = {a, b, d, e, f, g}
      BY ListOfSix
    <3>2. /\ todo[1] = a /\ todo[2] = b /\ todo[3] = d /\ todo[4] = e /\ todo[5] = f /\ todo[6] = g
      BY <2>5
    <3> QED
      BY <2>5, <3>1, <3>2
  <2>7. Finish(h, todo)
    <3>1. <<a, b>> \o <<d, e>> = <<a, b, d, e>>
      BY JoinTwoTwo
    <3>2. <<a, b, d, e>> \o <<f, g>> = <<a, b, d, e, f, g>>
      BY JoinFourTwo
    <3> QED
      BY <1>19, <2>2, <2>3, <2>4, <2>5, <3>1, <3>2
  <2>8. Quiet(d) /\ Aside(d) /\ Quiet(e)
    BY <2>2, <2>3 DEF Quiet, Aside
  <2>9. \A o \in Elements(todo) : Quiet(o)
    BY <1>12, <2>4, <2>6, <2>8
  <2>10. PICK y \in HandlerState : handler' = [handler EXCEPT ![h] = y]
                                   /\ y.pc = "idle" /\ y.todo = todo
    BY <2>6, <2>7, FinishTo
  <2>11. HandlerFits(y, run.status, approved, ledger)
    BY <2>9, <2>10, QuietFits DEF Past
  <2>12. SoloFits(x, approvals, ledger, effects) => SoloFits(y, approvals, ledger, effects)
    BY <2>9, <2>10, QuietSolo
  <2>13. ASSUME OrderlyFits(x, run, approvals, ledger, effects, calls),
                SoloFits(x, approvals, ledger, effects)
         PROVE  OrderlyFits(y, run, approvals, ledger, effects, calls')
    <3>1. PICK v : v = f.run
      OBVIOUS
    <3>2. v \in Run /\ v.status = "completed" /\ v.turn = run.turn /\ v.call = c /\ r = run
      BY <1>9, <1>16, <2>4, <2>13, <3>1
    <3>3. ~IsRunOp(d) /\ ~IsRunOp(e) /\ ~IsRunOp(g) /\ ~IsApprovalOp(d) /\ ~IsApprovalOp(e)
          /\ ~IsApprovalOp(g)
      BY <2>2, <2>3, <2>4, AsideNotTurn DEF IsRunOp, IsApprovalOp
    <3>4. \A u \in Run : IsLast(u, y.todo, run) => u = v
      BY <2>4, <2>6, <2>10, <3>1, <3>3, IsLastAt
    <3>5. CallsFit(v, y, approvals, calls')
      <4>1. CallsFit(run, x, approvals, calls)
            /\ \A p \in Proposal : approvals[p].status \notin {"pending", "denied"}
        BY <1>16, <2>13
      <4>2. \A o \in Elements(y.todo) : ~IsApprovalOp(o)
        BY <1>10, <1>13, <2>4, <2>6, <2>10, <3>3
      <4>3. Len(calls') = c /\ c = Len(calls) + 1 /\ Len(calls) \in Nat
        BY <1>6, <1>18, <1>19, Types
      <4> QED
        BY <3>2, <4>1, <4>2, <4>3 DEF CallsFit
    <3>6. RequestFits(v, y, approvals, effects)
      BY <2>10 DEF RequestFits
    <3>7. EffectsFit(v, y, approvals, effects)
      BY <1>16, <2>13, <3>2 DEF EffectsFit, Over
    <3>8. \A z : Told(z, ledger, y.todo) =>
            \/ Told(z, ledger, x.todo) \/ z.type \notin {"turn_started", "turn_completed"}
            \/ z.type = "turn_completed" /\ z.turn = run.turn
      BY <1>10, <1>11, <2>2, <2>3, <2>4, <2>6, <2>10, <3>2 DEF Told, Aside
    <3>9. TurnsFit(v, y, ledger, effects)
      BY <1>16, <2>10, <2>13, <3>2, <3>8, Turns, Types DEF TurnsFit
    <3>10. Orderly(ledger, y.todo)
      <4>1. ASSUME NEW i \in DOMAIN ledger PROVE ~Misplaced(ledger[i], e.event)
        <5>1. ledger[i] \in LedgerEvent /\ ledger[i] \in Elements(ledger)
          BY Types DEF Elements
        <5>2. ledger[i].type = "turn_started" => ledger[i].turn <= run.turn
          BY <1>16, <2>13, <5>1 DEF TurnsFit
        <5>3. ledger[i].turn \in Nat /\ run.turn \in Nat
          BY <5>1, Turns, Types
        <5> QED
          BY <2>3, <3>2, <5>2, <5>3 DEF Misplaced
      <4>2. \A z : ~Misplaced(e.event, g.event) /\ ~Misplaced(b.event, z) /\ ~Misplaced(d.event, z)
                   /\ ~Misplaced(z, b.event) /\ ~Misplaced(z, d.event) /\ ~Misplaced(z, g.event)
        BY <1>12, <2>4, <2>8, AsideNotTurn
      <4>3. a.op # "event" /\ f.op # "event"
        BY <1>10, <2>4
      <4> QED
        BY <1>16, <2>6, <2>10, <2>13, <4>1, <4>2, <4>3 DEF Orderly
    <3>11. LastCompleted(y.todo, run)
      <4>1. a.run.status # "completed" /\ run.status # "completed"
        BY <1>9, <1>10, <1>16, <2>13, <3>2
      <4> QED
        BY <1>13, <2>6, <2>10, <3>3, <4>1 DEF LastCompleted
    <3> QED
      BY <3>4, <3>5, <3>6, <3>7, <3>9, <3>10, <3>11 DEF OrderlyFits
  <2>14. UNCHANGED <<run, approvals, ledger, approved, effects>>
    BY <1>0
  <2>15. Undisturbed' /\ ToolsDiffer' => OrderlyFits(y, run, approvals, ledger, effects, calls')
    BY <1>18, <1>19, <2>13
  <2>16. ~overlapped' => Solo(h) /\ SoloFits(y, approvals, ledger, effects)
    BY <1>15, <2>12
  <2> QED
    BY <1>15, <1>18, <1>19, <2>10, <2>11, <2>14, <2>15, <2>16, LocalKeeps
<1>20. CASE Go(h, "request", <<a, b>>, made) /\ calls' = Append(calls, StepTool[r.step + 1])
  <2>1. PICK todo : todo = <<a, b>>
    OBVIOUS
  <2>2. /\ todo \in Seq(Operation) /\ DOMAIN todo = {1, 2} /\ Elements(todo) = {a, b}
        /\ todo[1] = a /\ todo[2] = b
    BY <2>1, ListOfTwo
  <2>3. PICK y \in HandlerState : handler' = [handler EXCEPT ![h] = y]
                                  /\ y.pc = "request" /\ y.todo = todo /\ y.run = made
    <3>1. "request" \in Label
      BY DEF Label
    <3>2. Go(h, "request", todo, made)
      BY <1>20, <2>1
    <3> QED
      BY <1>9, <2>2, <3>1, <3>2, GoTo
  <2>4. HandlerFits(y, run.status, approved, ledger)
    BY <1>5, <1>9, <1>10, <1>11, <2>2, <2>3 DEF HandlerFits
  <2>5. SoloFits(x, approvals, ledger, effects) => SoloFits(y, approvals, ledger, effects)
    BY <1>12, <2>2, <2>3, QuietSolo
  <2>6. ASSUME OrderlyFits(x, run, approvals, ledger, effects, calls),
               SoloFits(x, approvals, ledger, effects)
        PROVE  OrderlyFits(y, run, approvals, ledger, effects, calls')
    <3>1. made \in Run /\ made.status = "running" /\ made.turn = run.turn /\ made.call = c
      BY <1>9, <1>16, <2>6
    <3>2. \A u \in Run : IsLast(u, y.todo, run) => u = made
      BY <1>10, <1>13, <2>2, <2>3, IsLastAt
    <3>3. Len(calls') = c /\ c = Len(calls) + 1 /\ Len(calls) \in Nat
      BY <1>6, <1>18, <1>20, Types
    <3>4. CallsFit(made, y, approvals, calls')
      <4>1. CallsFit(run, x, approvals, calls)
            /\ \A p \in Proposal : approvals[p].status \notin {"pending", "denied"}
        BY <1>16, <2>6
      <4>2. \A o \in Elements(y.todo) : ~IsApprovalOp(o)
        BY <1>10, <1>13, <2>2, <2>3
      <4> QED
        BY <3>1, <3>3, <4>1, <4>2 DEF CallsFit
    <3>5. RequestFits(made, y, approvals, effects)
      <4>1. c # 0
        BY <1>7
      <4> QED
        BY <1>16, <2>3, <2>6, <3>1, <4>1 DEF RequestFits
    <3>6. EffectsFit(made, y, approvals, effects)
      BY <1>16, <2>6, <3>1 DEF EffectsFit
    <3>7. \A z : Told(z, ledger, y.todo) =>
            Told(z, ledger, x.todo) \/ z.type \notin {"turn_started", "turn_completed"}
      BY <1>10, <1>11, <2>2, <2>3 DEF Told
    <3>8. TurnsFit(made, y, ledger, effects)
      BY <1>2, <1>16, <2>6, <3>1, <3>7 DEF TurnsFit
    <3>9. Orderly(ledger, y.todo)
      BY <1>10, <1>12, <1>16, <2>2, <2>3, <2>6, AsideNotTurn DEF Orderly
    <3>10. LastCompleted(y.todo, run)
      BY <1>13, <1>16, <2>2, <2>3, <2>6 DEF LastCompleted
    <3> QED
      BY <3>2, <3>4, <3>5, <3>6, <3>8, <3>9, <3>10 DEF OrderlyFits
  <2>7. UNCHANGED <<run, approvals, ledger, approved, effects>>
    BY <1>0
  <2>8. Undisturbed' /\ ToolsDiffer' => OrderlyFits(y, run, approvals, ledger, effects, calls')
    BY <1>18, <1>20, <2>6
  <2>9. ~overlapped' => Solo(h) /\ SoloFits(y, approvals, ledger, effects)
    BY <1>15, <2>5
  <2> QED
    BY <1>15, <1>18, <1>20, <2>3, <2>4, <2>7, <2>8, <2>9, LocalKeeps
<1> QED
  BY <1>1, <1>3, <1>6, <1>8, <1>10, <1>11, <1>17, <1>19, <1>20 DEF ModelCall

\* A request with nothing to store.
LEMMA RestFits ==
  ASSUME NEW y, NEW r \in Run, NEW apps, NEW led, NEW eff, NEW cs, y.todo = << >>,
         CallsFit(r, y, apps, cs), RequestFits(r, y, apps, eff),
         EffectsFit(r, y, apps, eff), TurnsFit(r, y, led, eff),
         \A i, j \in DOMAIN led : Misplaced(led[i], led[j]) => j < i
  PROVE  OrderlyFits(y, r, apps, led, eff, cs)
<1>1. Elements(y.todo) = {} /\ DOMAIN y.todo = {}
  BY EmptyList
<1>2. \A v \in Run : IsLast(v, y.todo, r) => v = r
  BY <1>1, IsLastSame
<1>3. Orderly(led, y.todo) /\ LastCompleted(y.todo, r)
  BY <1>1 DEF Orderly, LastCompleted
<1> QED
  BY <1>2, <1>3 DEF OrderlyFits

\* The counting half of request_tool_approval keeps the invariant.
LEMMA RequestKeeps ==
  ASSUME Inv, NEW h \in Handler, RequestApproval(h)
  PROVE  Inv'
<1>1. PICK p : p = Cardinality({q \in Proposal : approvals[q].status # "none"}) + 1
  OBVIOUS
<1>2. /\ At(h, "request") /\ p \in Proposal
      /\ handler' = [handler EXCEPT ![h].pc = "propose", ![h].p = p,
                                    ![h].call = handler[h].run.call, ![h].run = run]
      /\ UNCHANGED <<run, approvals, ledger, effects, calls, approved, requests, overlapped, stops>>
  BY <1>1 DEF RequestApproval
<1>3. PICK x : x = handler[h]
  OBVIOUS
<1>4. x \in HandlerState /\ x # Idle /\ x.pc = "request" /\ x.todo = << >>
  BY <1>2, <1>3, Busy, Types
<1>5. PICK c : c = x.run.call
  OBVIOUS
<1>6. c \in Call /\ p \in Call /\ "propose" \in Label /\ run \in Run
  <2>1. x.run \in Run
    BY <1>4 DEF HandlerState
  <2>2. c \in Call
    BY <1>5, <2>1 DEF Run
  <2>3. p \in Call
    BY <1>2 DEF Proposal, Call
  <2> QED
    BY <2>2, <2>3, Types DEF Label
<1>7. PICK y : y = [x EXCEPT !.pc = "propose", !.p = p, !.call = c, !.run = run]
  OBVIOUS
<1>8. handler' = [handler EXCEPT ![h] = y]
  BY <1>2, <1>3, <1>5, <1>7, Types
<1>9. /\ y \in HandlerState /\ y.pc = "propose" /\ y.todo = << >> /\ y.p = p /\ y.call = c
      /\ y.run = run
  BY <1>4, <1>6, <1>7 DEF HandlerState
<1>10. Elements(y.todo) = {}
  BY <1>9, EmptyList
<1>11. Started(run.status)
  <2>1. HandlerFits(x, run.status, approved, ledger)
    BY <1>3 DEF Inv, HandlersFit
  <2> QED
    BY <1>4, <2>1 DEF HandlerFits, Past
<1>12. HandlerFits(y, run.status, approved, ledger)
  BY <1>2, <1>9, <1>10, <1>11 DEF HandlerFits
<1>13. SoloFits(x, approvals, ledger, effects) => SoloFits(y, approvals, ledger, effects)
  BY <1>9, <1>10, QuietSolo
<1>14. ASSUME OrderlyFits(x, run, approvals, ledger, effects, calls)
       PROVE  OrderlyFits(y, run, approvals, ledger, effects, calls)
  <2>1. /\ CallsFit(run, x, approvals, calls) /\ RequestFits(run, x, approvals, effects)
        /\ EffectsFit(run, x, approvals, effects) /\ TurnsFit(run, x, ledger, effects)
        /\ \A i, j \in DOMAIN ledger : Misplaced(ledger[i], ledger[j]) => j < i
    BY <1>4, <1>6, <1>14, AtRest
  <2>2. CallsFit(run, y, approvals, calls)
    BY <1>9, <1>10, <2>1 DEF CallsFit
  <2>3. RequestFits(run, y, approvals, effects)
    BY <1>4, <1>5, <1>9, <2>1 DEF RequestFits
  <2>4. EffectsFit(run, y, approvals, effects)
    BY <1>4, <2>1 DEF EffectsFit
  <2>5. TurnsFit(run, y, ledger, effects)
    BY <1>4, <1>9, <2>1 DEF TurnsFit
  <2> QED
    BY <1>6, <1>9, <2>1, <2>2, <2>3, <2>4, <2>5, RestFits
<1> QED
  BY <1>2, <1>3, <1>4, <1>8, <1>9, <1>12, <1>13, <1>14, GoOnKeeps

\* The write of a proposal, by its parts.
LEMMA ApprovalOp ==
  ASSUME NEW p \in Proposal, NEW s, s \in Verdict \/ s = "pending", NEW c \in Call
  PROVE  \E o \in Operation : /\ o = SaveApproval(p, s, c) /\ o.op = "approval" /\ o.p = p
                              /\ o.to = [status |-> s, call |-> c] /\ o.to.status = s
                              /\ o.to.call = c /\ IsApprovalOp(o) /\ ~IsRunOp(o)
<1>1. PICK o : o = SaveApproval(p, s, c)
  OBVIOUS
<1>2. o \in Operation /\ o.op = "approval" /\ o.p = p /\ o.to.status = s /\ o.to.call = c
  BY <1>1, SaveApprovalOp
<1>3. o.to = [status |-> s, call |-> c]
  BY <1>1 DEF SaveApproval
<1> QED
  BY <1>1, <1>2, <1>3 DEF IsApprovalOp, IsRunOp

\* The INSERT of a pending proposal, by its parts.
LEMMA PendingOp ==
  ASSUME NEW p \in Proposal, NEW c \in Call
  PROVE  \E o \in Operation : /\ o = SaveApproval(p, "pending", c) /\ o.op = "approval" /\ o.p = p
                              /\ o.to.status = "pending" /\ o.to.call = c
                              /\ IsApprovalOp(o) /\ ~IsRunOp(o)
<1>1. PICK o : o = SaveApproval(p, "pending", c)
  OBVIOUS
<1>2. [status |-> "pending", call |-> c] \in Approval
  BY DEF Approval
<1>3. /\ o \in Operation /\ o.op = "approval" /\ o.p = p /\ o.to.status = "pending"
      /\ o.to.call = c
  BY <1>1, <1>2 DEF SaveApproval, Operation
<1> QED
  BY <1>1, <1>3 DEF IsApprovalOp, IsRunOp

\* The storing half of request_tool_approval keeps the invariant: the new
\* proposal is for the last call of the run.
LEMMA ProposeKeeps ==
  ASSUME Inv, NEW h \in Handler, Propose(h)
  PROVE  Inv'
<1>0. At(h, "propose") /\ UNCHANGED <<run, approvals, ledger, effects, calls, approved, requests,
                                      overlapped, stops>>
  BY DEF Propose
<1>1. PICK x : x = handler[h]
  OBVIOUS
<1>2. x \in HandlerState /\ x # Idle /\ x.pc = "propose" /\ x.todo = << >>
  BY <1>0, <1>1, Busy, Types
<1>3. PICK p : p = x.p
  OBVIOUS
<1>4. CASE approvals[p].status # "none"
  <2>1. Finish(h, << >>)
    BY <1>1, <1>3, <1>4 DEF Propose
  <2> QED
    BY <1>0, <2>1, FinishEmpty
<1>5. CASE approvals[p].status = "none"
  <2>1. p \in Proposal /\ Started(run.status)
    <3>1. HandlerFits(x, run.status, approved, ledger)
      BY <1>1 DEF Inv, HandlersFit
    <3> QED
      BY <1>2, <1>3, <3>1 DEF HandlerFits, Past
  <2>2. PICK v : v = [x.run EXCEPT !.status = "approval_required"]
    OBVIOUS
  <2>3. x.run \in Run /\ x.call \in Call /\ v \in Run /\ v.status = "approval_required"
        /\ v.turn = x.run.turn /\ v.call = x.run.call
    BY <1>2, <2>2 DEF HandlerState, Run
  <2>4. PICK a \in Operation : /\ a = SaveApproval(p, "pending", x.call) /\ a.op = "approval"
                               /\ a.p = p /\ a.to.status = "pending" /\ a.to.call = x.call
                               /\ IsApprovalOp(a) /\ ~IsRunOp(a)
    BY <2>1, <2>3, PendingOp
  <2>5. PICK b \in Operation : b = SaveRun(v) /\ b.op = "run" /\ b.run = v
                               /\ IsRunOp(b) /\ ~IsApprovalOp(b)
    BY <2>3, RunOp
  <2>6. PICK c \in Operation : /\ c = Append1("proposal_pending_approval", 0, p) /\ c.op = "event"
                               /\ c.event.type = "proposal_pending_approval"
    <3>1. "proposal_pending_approval" \in EventType /\ p \in Call
      BY <2>1 DEF EventType, Proposal, Call
    <3> QED
      BY <3>1, EventOp, Types
  <2>7. PICK todo : todo = <<a, b, c>>
    OBVIOUS
  <2>8. /\ todo \in Seq(Operation) /\ DOMAIN todo = {1, 2, 3} /\ Elements(todo) = {a, b, c}
        /\ todo[1] = a /\ todo[2] = b /\ todo[3] = c
    BY <2>7, ListOfThree
  <2>9. Aside(c) /\ ~IsRunOp(c) /\ ~IsApprovalOp(c)
    BY <2>6 DEF Aside, IsRunOp, IsApprovalOp
  <2>10. PICK y \in HandlerState : handler' = [handler EXCEPT ![h] = y]
                                   /\ y.pc = "idle" /\ y.todo = todo
    <3>1. Finish(h, todo)
      BY <1>1, <1>3, <1>5, <2>2, <2>4, <2>5, <2>6, <2>7 DEF Propose
    <3> QED
      BY <2>8, <3>1, FinishTo
  <2>11. HandlerFits(y, run.status, approved, ledger)
    <3>1. Started(v.status)
      BY <2>3 DEF Started
    <3> QED
      BY <2>1, <2>4, <2>5, <2>6, <2>8, <2>10, <3>1 DEF HandlerFits
  <2>12. ASSUME SoloFits(x, approvals, ledger, effects)
         PROVE  SoloFits(y, approvals, ledger, effects)
    <3>1. \A k \in DOMAIN y.todo : IsApprovalOp(y.todo[k]) => k = 1
      BY <2>5, <2>8, <2>9, <2>10
    <3>2. \A e : Told(e, ledger, y.todo) => Told(e, ledger, x.todo) \/ e = c.event
      BY <2>4, <2>5, <2>8, <2>10 DEF Told
    <3>3. \A q : Event("proposal_denied", 0, q) # c.event
      <4>1. \A q : Event("proposal_denied", 0, q).type = "proposal_denied"
        BY DEF Event
      <4> QED
        BY <2>6, <4>1
    <3>4. \A o \in Elements(y.todo) : IsApprovalOp(o) => o = a
      BY <2>5, <2>8, <2>9, <2>10
    <3> QED
      BY <1>5, <2>4, <2>10, <2>12, <3>1, <3>2, <3>3, <3>4 DEF SoloFits
  <2>13. ASSUME OrderlyFits(x, run, approvals, ledger, effects, calls)
         PROVE  OrderlyFits(y, run, approvals, ledger, effects, calls)
    <3>1. /\ CallsFit(run, x, approvals, calls) /\ RequestFits(run, x, approvals, effects)
          /\ EffectsFit(run, x, approvals, effects) /\ TurnsFit(run, x, ledger, effects)
          /\ \A i, j \in DOMAIN ledger : Misplaced(ledger[i], ledger[j]) => j < i
          /\ \A e : Told(e, ledger, x.todo) <=> e \in Elements(ledger)
      BY <1>2, <2>13, AtRest, Types
    <3>2. x.run = run /\ run.status = "running" /\ x.call = run.call /\ run.call # 0
          /\ \A q \in Proposal : Known(approvals[q]) => approvals[q].call # run.call
      BY <1>2, <3>1 DEF RequestFits
    <3>3. \A u \in Run : IsLast(u, y.todo, run) => u = v
      BY <2>5, <2>8, <2>9, <2>10, IsLastAt
    <3>4. CallsFit(v, y, approvals, calls)
      <4>1. run.call \in 1..Len(calls)
        <5>1. run.call \in Nat /\ Len(calls) \in Nat
          BY Types, Turns
        <5>2. run.call <= Len(calls)
          BY <3>1 DEF CallsFit
        <5> QED
          BY <3>2, <5>1, <5>2
      <4>2. \A o \in Elements(y.todo) : IsApprovalOp(o) => o = a
        BY <2>5, <2>8, <2>9, <2>10
      <4>3. \A o \in Elements(y.todo) : IsApprovalOp(o) =>
              /\ Open(v) /\ v.call = o.to.call /\ o.to.call \in 1..Len(calls)
              /\ \A q \in Proposal \ {o.p} : Known(approvals[q]) => approvals[q].call # o.to.call
        BY <2>3, <2>4, <3>2, <4>1, <4>2 DEF Open
      <4> QED
        BY <2>3, <2>10, <3>1, <3>2, <4>3 DEF CallsFit, Open
    <3>5. RequestFits(v, y, approvals, effects)
      BY <2>10 DEF RequestFits
    <3>6. ~Spent(run.call, effects)
      BY <1>2, <3>1, <3>2 DEF EffectsFit, Over
    <3>7. EffectsFit(v, y, approvals, effects)
      BY <2>3, <3>1, <3>2, <3>6 DEF EffectsFit
    <3>8. \A e : Told(e, ledger, y.todo) =>
            Told(e, ledger, x.todo) \/ e.type \notin {"turn_started", "turn_completed"}
      BY <2>4, <2>5, <2>6, <2>8, <2>10 DEF Told
    <3>9. TurnsFit(v, y, ledger, effects)
      BY <2>3, <3>1, <3>2, <3>6, <3>8 DEF TurnsFit
    <3>10. Orderly(ledger, y.todo)
      BY <2>4, <2>5, <2>8, <2>9, <2>10, <3>1, AsideNotTurn DEF Orderly
    <3>11. LastCompleted(y.todo, run)
      BY <2>4, <2>8, <2>9, <2>10, <3>2 DEF LastCompleted
    <3> QED
      BY <3>3, <3>4, <3>5, <3>7, <3>9, <3>10, <3>11 DEF OrderlyFits
  <2> QED
    BY <1>0, <1>1, <1>2, <2>10, <2>11, <2>12, <2>13, GoOnKeeps
<1> QED
  BY <1>4, <1>5

-----------------------------------------------------------------------------
(* Decisions.                                                                  *)

\* What is known of the proposal that a request decides or executes.
LEMMA DecidesProposal ==
  ASSUME Inv, NEW h \in Handler, NEW x, x = handler[h], x.todo = << >>,
         x.pc \in {"decide", "decided", "approval", "denial", "invoke"}
  PROVE  x.p \in Proposal /\ Started(run.status)
<1>1. HandlerFits(x, run.status, approved, ledger)
  BY DEF Inv, HandlersFit
<1> QED
  BY <1>1 DEF HandlerFits, Past

\* The first half of _decide keeps the invariant: only a pending proposal is
\* decided.
LEMMA DecideReadKeeps ==
  ASSUME Inv, NEW h \in Handler, DecideRead(h)
  PROVE  Inv'
<1>0. At(h, "decide") /\ UNCHANGED <<run, approvals, ledger, effects, calls, approved, requests,
                                     overlapped, stops>>
  BY DEF DecideRead
<1>1. PICK x : x = handler[h]
  OBVIOUS
<1>2. x \in HandlerState /\ x # Idle /\ x.pc = "decide" /\ x.todo = << >>
  BY <1>0, <1>1, Busy, Types
<1>3. PICK p : p = x.p
  OBVIOUS
<1>4. PICK v : v = x.verdict
  OBVIOUS
<1>5. p \in Proposal /\ Started(run.status) /\ v \in Verdict
  BY <1>1, <1>2, <1>3, <1>4, DecidesProposal DEF HandlerState
<1>6. CASE approvals[p].status # "pending" /\ v = "expired"
  <2>1. Finish(h, << >>)
    BY <1>1, <1>3, <1>4, <1>6 DEF DecideRead
  <2> QED
    BY <1>0, <2>1, FinishEmpty
<1>7. CASE approvals[p].status # "pending" /\ v # "expired"
  <2>1. PICK m : m = Continuation(v)
    OBVIOUS
  <2>2. m \in {"approval", "denial"} /\ m \in Label /\ << >> \in Seq(Operation)
    BY <1>5, <1>7, <2>1, EmptyList DEF Continuation, Verdict, Label
  <2>3. Go(h, m, << >>, NoRun)
    BY <1>1, <1>3, <1>4, <1>7, <2>1 DEF DecideRead
  <2>4. NoRun \in Run /\ run \in Run
    BY Types
  <2>5. PICK y \in HandlerState : handler' = [handler EXCEPT ![h] = y]
                                  /\ y.pc = m /\ y.todo = << >> /\ y.p = p
    <3>1. PICK todo : todo = << >>
      OBVIOUS
    <3>2. PICK r : r = NoRun
      OBVIOUS
    <3>3. todo \in Seq(Operation) /\ r \in Run /\ Go(h, m, todo, r)
      BY <2>2, <2>3, <2>4, <3>1, <3>2
    <3>4. \E y \in HandlerState :
           /\ handler' = [handler EXCEPT ![h] = y]
           /\ y.pc = m /\ y.todo = todo /\ y.p = handler[h].p
      BY <2>2, <3>3, GoTo
    <3> QED
      BY <1>1, <1>3, <3>1, <3>4
  <2>6. Elements(y.todo) = {}
    BY <2>5, EmptyList
  <2>7. HandlerFits(y, run.status, approved, ledger)
    BY <1>5, <2>2, <2>5, <2>6 DEF HandlerFits
  <2>8. SoloFits(x, approvals, ledger, effects) => SoloFits(y, approvals, ledger, effects)
    BY <2>2, <2>5, <2>6, QuietSolo
  <2>9. OrderlyFits(x, run, approvals, ledger, effects, calls)
          => OrderlyFits(y, run, approvals, ledger, effects, calls)
    BY <1>2, <2>2, <2>4, <2>5, <2>6, AsideOrderly
  <2> QED
    BY <1>0, <1>1, <1>2, <2>5, <2>7, <2>8, <2>9, GoOnKeeps
<1>8. CASE approvals[p].status = "pending"
  <2>1. PICK c : c = approvals[p].call
    OBVIOUS
  <2>2. c \in Call /\ NoRun \in Run /\ run \in Run
    BY <1>5, <2>1, Types DEF Approval
  <2>3. PICK a \in Operation : /\ a = SaveApproval(p, v, c) /\ a.op = "approval"
                               /\ a.p = p /\ a.to = [status |-> v, call |-> c]
                               /\ a.to.status = v /\ a.to.call = c
                               /\ IsApprovalOp(a) /\ ~IsRunOp(a)
    BY <1>5, <2>2, ApprovalOp
  <2>4. PICK todo : todo = <<a>>
    OBVIOUS
  <2>5. todo \in Seq(Operation) /\ DOMAIN todo = {1} /\ todo[1] = a /\ Elements(todo) = {a}
    BY <2>4, ListOfOne
  <2>6. PICK y \in HandlerState : handler' = [handler EXCEPT ![h] = y]
                                  /\ y.pc = "decided" /\ y.todo = todo /\ y.p = p /\ y.verdict = v
    <3>1. "decided" \in Label
      BY DEF Label
    <3>2. Go(h, "decided", todo, NoRun)
      BY <1>1, <1>3, <1>4, <1>8, <2>1, <2>3, <2>4 DEF DecideRead
    <3> QED
      BY <1>1, <1>3, <1>4, <2>2, <2>5, <3>1, <3>2, GoTo
  <2>7. HandlerFits(y, run.status, approved, ledger)
    BY <1>5, <2>3, <2>5, <2>6 DEF HandlerFits
  <2>8. \A e : Told(e, ledger, y.todo) <=> Told(e, ledger, x.todo)
    <3>1. Elements(x.todo) = {}
      BY <1>2, EmptyList
    <3> QED
      BY <2>3, <2>5, <2>6, <3>1 DEF Told
  <2>9. SoloFits(x, approvals, ledger, effects) => SoloFits(y, approvals, ledger, effects)
    BY <1>8, <2>1, <2>3, <2>5, <2>6, <2>8 DEF SoloFits
  <2>10. ASSUME OrderlyFits(x, run, approvals, ledger, effects, calls),
                SoloFits(x, approvals, ledger, effects)
         PROVE  OrderlyFits(y, run, approvals, ledger, effects, calls)
    <3>1. /\ CallsFit(run, x, approvals, calls) /\ EffectsFit(run, x, approvals, effects)
          /\ TurnsFit(run, x, ledger, effects)
          /\ \A i, j \in DOMAIN ledger : Misplaced(ledger[i], ledger[j]) => j < i
      BY <1>2, <2>2, <2>10, AtRest
    <3>2. \A u \in Run : IsLast(u, y.todo, run) => u = run
      BY <2>3, <2>5, <2>6, IsLastSame
    <3>3. Open(run) /\ run.call = c /\ Known(approvals[p]) /\ c \in 1..Len(calls)
          /\ \A q \in Proposal \ {p} : Known(approvals[q]) => approvals[q].call # c
      BY <1>5, <1>8, <2>1, <3>1 DEF CallsFit, Known
    <3>4. CallsFit(run, y, approvals, calls)
      <4>1. \A o \in Elements(y.todo) : o = a
        BY <2>5, <2>6
      <4> QED
        BY <2>3, <2>6, <3>1, <3>3, <4>1 DEF CallsFit
    <3>5. RequestFits(run, y, approvals, effects)
      <4>1. ASSUME NEW i \in DOMAIN effects PROVE effects[i].call # c
        <5>1. effects[i].p \in Proposal
          BY EffectTypes
        <5>2. /\ effects[i].call = approvals[effects[i].p].call
              /\ approvals[effects[i].p].status = "approved"
          BY <2>10, <3>1 DEF SoloFits, EffectsFit
        <5> QED
          BY <1>8, <3>3, <5>1, <5>2 DEF Known
      <4>2. ~Spent(run.call, effects)
        BY <3>3, <4>1 DEF Spent
      <4> QED
        BY <2>1, <2>6, <3>3, <4>2 DEF RequestFits
    <3>6. EffectsFit(run, y, approvals, effects)
      BY <1>2, <3>1 DEF EffectsFit
    <3>7. TurnsFit(run, y, ledger, effects)
      BY <2>6, <2>8, <3>1 DEF TurnsFit
    <3>8. Orderly(ledger, y.todo)
      BY <2>3, <2>5, <2>6, <3>1 DEF Orderly
    <3>9. LastCompleted(y.todo, run)
      BY <2>3, <2>5, <2>6 DEF LastCompleted
    <3> QED
      BY <3>2, <3>4, <3>5, <3>6, <3>7, <3>8, <3>9 DEF OrderlyFits
  <2> QED
    BY <1>0, <1>1, <1>2, <2>6, <2>7, <2>9, <2>10, GoOnKeeps
<1> QED
  BY <1>6, <1>7, <1>8

\* The second half of _decide keeps the invariant: the ledger is told of the
\* verdict that is stored.
LEMMA DecideRunKeeps ==
  ASSUME Inv, NEW h \in Handler, DecideRun(h)
  PROVE  Inv'
<1>0. At(h, "decided") /\ UNCHANGED <<run, approvals, ledger, effects, calls, approved, requests,
                                      overlapped, stops>>
  BY DEF DecideRun
<1>1. PICK x : x = handler[h]
  OBVIOUS
<1>2. x \in HandlerState /\ x # Idle /\ x.pc = "decided" /\ x.todo = << >>
  BY <1>0, <1>1, Busy, Types
<1>3. PICK p : p = x.p
  OBVIOUS
<1>4. PICK v : v = x.verdict
  OBVIOUS
<1>5. p \in Proposal /\ Started(run.status) /\ v \in Verdict
  BY <1>1, <1>2, <1>3, <1>4, DecidesProposal DEF HandlerState
<1>6. PICK s : s = IF v = "approved" THEN "running" ELSE "failed"
  OBVIOUS
<1>7. PICK u : u = [run EXCEPT !.status = s]
  OBVIOUS
<1>8. u \in Run /\ u.status = s /\ u.turn = run.turn /\ u.call = run.call /\ run \in Run
      /\ s \in {"running", "failed"}
  BY <1>6, <1>7, Types DEF Run
<1>9. PICK a \in Operation : a = SaveRun(u) /\ a.op = "run" /\ a.run = u
                             /\ IsRunOp(a) /\ ~IsApprovalOp(a)
  BY <1>8, RunOp
<1>10. PICK ty : ty = DecisionEvent(v)
  OBVIOUS
<1>11. ty \in EventType /\ ty \in {"proposal_approved", "proposal_denied", "proposal_expired"}
       /\ (ty = "proposal_denied" => v = "denied")
  BY <1>5, <1>10 DEF DecisionEvent, Verdict, EventType
<1>12. PICK b \in Operation : /\ b = Append1(ty, 0, p) /\ b.op = "event"
                              /\ b.event = Event(ty, 0, p) /\ b.event.type = ty /\ b.event.p = p
  <2>1. p \in Call
    BY <1>5 DEF Proposal, Call
  <2> QED
    BY <1>11, <2>1, EventOp, Types
<1>13. PICK todo : todo = <<a, b>>
  OBVIOUS
<1>14. /\ todo \in Seq(Operation) /\ DOMAIN todo = {1, 2} /\ Elements(todo) = {a, b}
       /\ todo[1] = a /\ todo[2] = b
  BY <1>13, ListOfTwo
<1>15. Aside(b) /\ ~IsRunOp(b) /\ ~IsApprovalOp(b)
  BY <1>11, <1>12 DEF Aside, IsRunOp, IsApprovalOp
<1>16. PICK y \in HandlerState : /\ handler' = [handler EXCEPT ![h] = y] /\ y.todo = todo
                                 /\ \/ y.pc = "idle"
                                    \/ y.pc \in {"approval", "denial"} /\ y.p = p
  <2>1. IF v = "expired" THEN Finish(h, todo) ELSE Go(h, Continuation(v), todo, NoRun)
    BY <1>1, <1>3, <1>4, <1>6, <1>7, <1>9, <1>10, <1>12, <1>13 DEF DecideRun
  <2>2. CASE v = "expired"
    <3>1. Finish(h, todo)
      BY <2>1, <2>2
    <3>2. \E y \in HandlerState : handler' = [handler EXCEPT ![h] = y] /\ y.pc = "idle" /\ y.todo = todo
      BY <1>14, <3>1, FinishTo
    <3> QED
      BY <3>2
  <2>3. CASE v # "expired"
    <3>1. PICK m : m = Continuation(v)
      OBVIOUS
    <3>2. m \in {"approval", "denial"} /\ m \in Label
      BY <1>5, <2>3, <3>1 DEF Continuation, Verdict, Label
    <3>3. PICK r : r = NoRun
      OBVIOUS
    <3>4. r \in Run /\ Go(h, m, todo, r)
      BY <2>1, <2>3, <3>1, <3>3, Types
    <3>5. \E y \in HandlerState :
           /\ handler' = [handler EXCEPT ![h] = y]
           /\ y.pc = m /\ y.todo = todo /\ y.p = handler[h].p
      BY <1>14, <3>2, <3>4, GoTo
    <3> QED
      BY <1>1, <1>3, <3>2, <3>5
  <2> QED
    BY <2>2, <2>3
<1>17. HandlerFits(y, run.status, approved, ledger)
  <2>1. Started(u.status)
    BY <1>8 DEF Started
  <2> QED
    BY <1>5, <1>9, <1>11, <1>12, <1>14, <1>16, <2>1 DEF HandlerFits
<1>18. ASSUME SoloFits(x, approvals, ledger, effects)
       PROVE  approvals[p].status = v
  <2>1. Elements(x.todo) = {}
    BY <1>2, EmptyList
  <2> QED
    BY <1>2, <1>3, <1>4, <1>18, <2>1 DEF SoloFits
<1>19. ASSUME SoloFits(x, approvals, ledger, effects)
       PROVE  SoloFits(y, approvals, ledger, effects)
  <2>1. \A o \in Elements(y.todo) : ~IsApprovalOp(o)
    BY <1>9, <1>14, <1>15, <1>16
  <2>2. \A k \in DOMAIN y.todo : ~IsApprovalOp(y.todo[k])
    BY <1>9, <1>14, <1>15, <1>16
  <2>3. ASSUME NEW q \in Proposal, Told(Event("proposal_denied", 0, q), ledger, y.todo)
        PROVE  approvals[q].status = "denied"
    <3>1. PICK e : e = Event("proposal_denied", 0, q)
      OBVIOUS
    <3>2. e.type = "proposal_denied" /\ e.p = q
      BY <3>1 DEF Event
    <3>3. e \in Elements(ledger) \/ e = b.event
      BY <1>9, <1>14, <1>16, <2>3, <3>1 DEF Told
    <3>4. CASE e \in Elements(ledger)
      BY <1>19, <3>1, <3>4 DEF SoloFits, Told
    <3>5. CASE e = b.event
      BY <1>11, <1>12, <1>18, <1>19, <3>2, <3>5
    <3> QED
      BY <3>3, <3>4, <3>5
  <2>4. y.pc \notin {"decided", "invoke"}
    BY <1>16
  <2>5. \A i \in DOMAIN effects : approvals[effects[i].p].status = "approved"
    BY <1>19 DEF SoloFits
  <2> QED
    BY <2>1, <2>2, <2>3, <2>4, <2>5 DEF SoloFits
<1>20. ASSUME OrderlyFits(x, run, approvals, ledger, effects, calls),
              SoloFits(x, approvals, ledger, effects)
       PROVE  OrderlyFits(y, run, approvals, ledger, effects, calls)
  <2>1. /\ CallsFit(run, x, approvals, calls) /\ RequestFits(run, x, approvals, effects)
        /\ EffectsFit(run, x, approvals, effects) /\ TurnsFit(run, x, ledger, effects)
        /\ \A i, j \in DOMAIN ledger : Misplaced(ledger[i], ledger[j]) => j < i
        /\ \A e : Told(e, ledger, x.todo) <=> e \in Elements(ledger)
    BY <1>2, <1>8, <1>20, AtRest
  <2>2. Open(run) /\ run.call = approvals[p].call /\ Known(approvals[p]) /\ ~Spent(run.call, effects)
    BY <1>2, <1>3, <2>1 DEF RequestFits
  <2>3. \A w \in Run : IsLast(w, y.todo, run) => w = u
    BY <1>9, <1>14, <1>15, <1>16, IsLastAt
  <2>4. \A q \in Proposal : approvals[q].status # "pending"
    <3> SUFFICES ASSUME NEW q \in Proposal, approvals[q].status = "pending" PROVE FALSE
      OBVIOUS
    <3>1. Known(approvals[q]) /\ run.call = approvals[q].call
      BY <2>1 DEF CallsFit, Known
    <3>2. q = p
      BY <1>5, <2>1, <2>2, <3>1 DEF CallsFit
    <3> QED
      BY <1>5, <1>18, <1>20, <3>2 DEF Verdict
  <2>5. y.pc \in {"idle", "approval", "denial"}
    BY <1>16
  <2>6. CallsFit(u, y, approvals, calls)
    <3>1. \A o \in Elements(y.todo) : ~IsApprovalOp(o)
      BY <1>9, <1>14, <1>15, <1>16
    <3> QED
      BY <1>8, <2>1, <2>4, <2>5, <3>1 DEF CallsFit
  <2>7. RequestFits(u, y, approvals, effects)
    BY <2>5 DEF RequestFits
  <2>8. EffectsFit(u, y, approvals, effects)
    BY <1>8, <2>1, <2>2 DEF EffectsFit
  <2>9. \A e : Told(e, ledger, y.todo) =>
          Told(e, ledger, x.todo) \/ e.type \notin {"turn_started", "turn_completed"}
    BY <1>9, <1>11, <1>12, <1>14, <1>16 DEF Told
  <2>10. TurnsFit(u, y, ledger, effects)
    BY <1>8, <2>1, <2>2, <2>9 DEF TurnsFit, Open
  <2>11. Orderly(ledger, y.todo)
    BY <1>9, <1>14, <1>15, <1>16, <2>1, AsideNotTurn DEF Orderly
  <2>12. LastCompleted(y.todo, run)
    BY <1>14, <1>15, <1>16, <2>2 DEF LastCompleted, Open
  <2> QED
    BY <2>3, <2>6, <2>7, <2>8, <2>10, <2>11, <2>12 DEF OrderlyFits
<1> QED
  BY <1>0, <1>1, <1>2, <1>16, <1>17, <1>19, <1>20, GoOnKeeps

\* continue_after_approval, up to the connector, keeps the invariant: an effect
\* is prepared for the approved call of an unfinished run only.
LEMMA ApprovalKeeps ==
  ASSUME Inv, NEW h \in Handler, ContinueAfterApproval(h)
  PROVE  Inv'
<1>0. At(h, "approval") /\ UNCHANGED <<run, approvals, ledger, effects, calls, approved, requests,
                                       overlapped, stops>>
  BY DEF ContinueAfterApproval
<1>1. PICK x : x = handler[h]
  OBVIOUS
<1>2. x \in HandlerState /\ x # Idle /\ x.pc = "approval" /\ x.todo = << >> /\ run \in Run
  BY <1>0, <1>1, Busy, Types
<1>3. PICK p : p = x.p
  OBVIOUS
<1>4. p \in Proposal /\ Started(run.status)
  BY <1>1, <1>2, <1>3, DecidesProposal
<1>5. CASE Finish(h, << >>)
  BY <1>0, <1>5, FinishEmpty
<1>6. CASE MayExecute(p) /\ Finish(h, Terminal(run, "failed"))
  <2>1. PICK todo : todo = Terminal(run, "failed")
    OBVIOUS
  <2>2. todo \in Seq(Operation) /\ \A o \in Elements(todo) : Quiet(o)
    <3>1. PICK d \in Operation, e \in Operation : todo = <<d, e>> /\ Quiet(d) /\ Quiet(e)
      BY <1>2, <2>1, TerminalList
    <3>2. todo \in Seq(Operation) /\ Elements(todo) = {d, e}
      BY <3>1, ListOfTwo
    <3> QED
      BY <3>1, <3>2
  <2>3. PICK y \in HandlerState : handler' = [handler EXCEPT ![h] = y]
                                  /\ y.pc = "idle" /\ y.todo = todo
    BY <1>6, <2>1, <2>2, FinishTo
  <2>4. HandlerFits(y, run.status, approved, ledger)
    BY <2>2, <2>3, QuietFits DEF Past
  <2>5. SoloFits(x, approvals, ledger, effects) => SoloFits(y, approvals, ledger, effects)
    BY <2>2, <2>3, QuietSolo
  <2>6. run.status # "completed"
    BY <1>6 DEF MayExecute
  <2>7. OrderlyFits(x, run, approvals, ledger, effects, calls)
          => OrderlyFits(y, run, approvals, ledger, effects, calls)
    BY <1>2, <2>1, <2>3, <2>6, FailOrderly
  <2> QED
    BY <1>0, <1>1, <1>2, <2>3, <2>4, <2>5, <2>7, GoOnKeeps
<1>7. CASE MayExecute(p) /\ SameTool(p) /\ Go(h, "invoke", << >>, run)
  <2>1. PICK y \in HandlerState : /\ handler' = [handler EXCEPT ![h] = y] /\ y.pc = "invoke"
                                  /\ y.todo = << >> /\ y.run = run /\ y.p = p
    <3>0. PICK todo : todo = << >>
      OBVIOUS
    <3>1. "invoke" \in Label /\ todo \in Seq(Operation) /\ Go(h, "invoke", todo, run)
      BY <1>7, <3>0, EmptyList DEF Label
    <3>2. \E y \in HandlerState : /\ handler' = [handler EXCEPT ![h] = y] /\ y.pc = "invoke"
                                  /\ y.todo = todo /\ y.run = run /\ y.p = handler[h].p
      BY <1>2, <3>1, GoTo
    <3> QED
      BY <1>1, <1>3, <3>0, <3>2
  <2>2. Elements(y.todo) = {} /\ DOMAIN y.todo = {}
    BY <2>1, EmptyList
  <2>3. p \in approved /\ approvals[p].status = "approved" /\ ~Over(run)
    BY <1>4, <1>7 DEF MayExecute, Inv, ProposalsFit, Over
  <2>4. HandlerFits(y, run.status, approved, ledger)
    BY <1>4, <2>1, <2>2, <2>3 DEF HandlerFits
  <2>5. ASSUME SoloFits(x, approvals, ledger, effects)
        PROVE  SoloFits(y, approvals, ledger, effects)
    <3>1. \A e : Told(e, ledger, y.todo) => Told(e, ledger, x.todo)
      BY <2>2 DEF Told
    <3> QED
      BY <2>1, <2>2, <2>3, <2>5, <3>1 DEF SoloFits
  <2>6. ASSUME ToolsDiffer, OrderlyFits(x, run, approvals, ledger, effects, calls)
        PROVE  OrderlyFits(y, run, approvals, ledger, effects, calls)
    <3>1. /\ CallsFit(run, x, approvals, calls) /\ RequestFits(run, x, approvals, effects)
          /\ EffectsFit(run, x, approvals, effects) /\ TurnsFit(run, x, ledger, effects)
          /\ \A i, j \in DOMAIN ledger : Misplaced(ledger[i], ledger[j]) => j < i
          /\ \A e : Told(e, ledger, x.todo) <=> e \in Elements(ledger)
      BY <1>2, <2>6, AtRest
    <3>2. run.call = approvals[p].call
      <4>1. run.call # 0 /\ calls[run.call] = calls[approvals[p].call]
        BY <1>7 DEF SameTool
      <4>2. run.call \in Nat /\ Len(calls) \in Nat /\ DOMAIN calls = 1..Len(calls)
        BY Types, Turns
      <4>3. run.call <= Len(calls) /\ approvals[p].call \in 1..Len(calls)
        BY <1>4, <2>3, <3>1 DEF CallsFit, Known
      <4>4. run.call \in DOMAIN calls /\ approvals[p].call \in DOMAIN calls
        BY <4>1, <4>2, <4>3
      <4> QED
        BY <2>6, <4>1, <4>4 DEF ToolsDiffer
    <3>3. ~Spent(run.call, effects)
      BY <1>2, <2>3, <3>1 DEF EffectsFit
    <3>4. CallsFit(run, y, approvals, calls)
      BY <2>1, <2>2, <3>1 DEF CallsFit
    <3>5. RequestFits(run, y, approvals, effects)
      BY <2>1, <2>3, <3>2, <3>3 DEF RequestFits
    <3>6. EffectsFit(run, y, approvals, effects)
      BY <3>1, <3>3 DEF EffectsFit
    <3>7. TurnsFit(run, y, ledger, effects)
      <4>1. \A e : Told(e, ledger, y.todo) => Told(e, ledger, x.todo)
        BY <2>2 DEF Told
      <4> QED
        BY <2>1, <3>1, <4>1 DEF TurnsFit
    <3> QED
      BY <1>2, <2>1, <3>1, <3>4, <3>5, <3>6, <3>7, RestFits
  <2> QED
    BY <1>0, <1>1, <1>2, <2>1, <2>4, <2>5, <2>6, GoOnKeeps
<1> QED
  BY <1>1, <1>3, <1>5, <1>6, <1>7 DEF ContinueAfterApproval

\* continue_after_denial keeps the invariant: the run it completes has no call in
\* progress.
LEMMA DenialKeeps ==
  ASSUME Inv, NEW h \in Handler, ContinueAfterDenial(h)
  PROVE  Inv'
<1>0. At(h, "denial") /\ UNCHANGED <<run, approvals, ledger, effects, calls, approved, requests,
                                     overlapped, stops>>
  BY DEF ContinueAfterDenial
<1>1. PICK x : x = handler[h]
  OBVIOUS
<1>2. x \in HandlerState /\ x # Idle /\ x.pc = "denial" /\ x.todo = << >> /\ run \in Run
  BY <1>0, <1>1, Busy, Types
<1>3. PICK p : p = x.p
  OBVIOUS
<1>4. p \in Proposal /\ Started(run.status)
  BY <1>1, <1>2, <1>3, DecidesProposal
<1>5. CASE ~(approvals[p].status = "denied" /\ run.status # "completed")
  <2>1. Finish(h, << >>)
    BY <1>1, <1>3, <1>5 DEF ContinueAfterDenial
  <2> QED
    BY <1>0, <2>1, FinishEmpty
<1>6. CASE approvals[p].status = "denied" /\ run.status # "completed"
  <2>1. PICK d \in Operation : /\ d = Append1("turn_completed", run.turn, 0) /\ d.op = "event"
                               /\ d.event.type = "turn_completed" /\ d.event.turn = run.turn
    <3>1. "turn_completed" \in EventType /\ run.turn \in 0..MaxTurns
      BY <1>2 DEF EventType, Run
    <3> QED
      BY <3>1, EventOp, Types
  <2>2. PICK a \in Operation, b \in Operation :
           /\ Terminal(run, "completed") = <<a, b>>
           /\ a.op = "run" /\ a.run \in Run /\ a.run.status = "completed"
           /\ a.run.turn = run.turn /\ a.run.call = run.call
           /\ IsRunOp(a) /\ ~IsApprovalOp(a) /\ Quiet(a) /\ Quiet(b) /\ Aside(b)
    BY <1>2, TerminalList
  <2>3. PICK todo : todo = <<d, a, b>>
    OBVIOUS
  <2>4. /\ todo \in Seq(Operation) /\ DOMAIN todo = {1, 2, 3} /\ Elements(todo) = {d, a, b}
        /\ todo[1] = d /\ todo[2] = a /\ todo[3] = b
    BY <2>3, ListOfThree
  <2>5. PICK y \in HandlerState : handler' = [handler EXCEPT ![h] = y]
                                  /\ y.pc = "idle" /\ y.todo = todo
    <3>1. <<d>> \o <<a, b>> = <<d, a, b>>
      BY JoinOneTwo
    <3>2. Finish(h, todo)
      BY <1>1, <1>3, <1>6, <2>1, <2>2, <2>3, <3>1 DEF ContinueAfterDenial
    <3> QED
      BY <2>4, <3>2, FinishTo
  <2>6. Quiet(d) /\ ~IsRunOp(d) /\ ~IsApprovalOp(d) /\ ~IsRunOp(b) /\ ~IsApprovalOp(b)
    BY <2>1, <2>2, AsideNotTurn DEF Quiet, IsRunOp, IsApprovalOp
  <2>7. HandlerFits(y, run.status, approved, ledger)
    BY <2>2, <2>4, <2>5, <2>6, QuietFits DEF Past
  <2>8. SoloFits(x, approvals, ledger, effects) => SoloFits(y, approvals, ledger, effects)
    BY <2>2, <2>4, <2>5, <2>6, QuietSolo
  <2>9. ASSUME OrderlyFits(x, run, approvals, ledger, effects, calls)
        PROVE  OrderlyFits(y, run, approvals, ledger, effects, calls)
    <3>1. /\ CallsFit(run, x, approvals, calls) /\ RequestFits(run, x, approvals, effects)
          /\ EffectsFit(run, x, approvals, effects) /\ TurnsFit(run, x, ledger, effects)
          /\ \A i, j \in DOMAIN ledger : Misplaced(ledger[i], ledger[j]) => j < i
          /\ \A e : Told(e, ledger, x.todo) <=> e \in Elements(ledger)
      BY <1>2, <2>9, AtRest
    <3>2. PICK v : v = a.run
      OBVIOUS
    <3>3. v \in Run /\ v.status = "completed" /\ v.turn = run.turn /\ v.call = run.call
      BY <2>2, <3>2
    <3>4. \A u \in Run : IsLast(u, y.todo, run) => u = v
      BY <2>2, <2>4, <2>5, <2>6, <3>2, IsLastAt
    <3>5. \A q \in Proposal : approvals[q].status # "pending"
      <4> SUFFICES ASSUME NEW q \in Proposal, approvals[q].status = "pending" PROVE FALSE
        OBVIOUS
      <4>1. Known(approvals[q]) /\ Known(approvals[p]) /\ run.call = approvals[q].call
            /\ run.call = approvals[p].call
        BY <1>4, <1>6, <3>1 DEF CallsFit, Known
      <4>2. q = p
        BY <1>4, <3>1, <4>1 DEF CallsFit
      <4> QED
        BY <1>6, <4>2
    <3>6. CallsFit(v, y, approvals, calls)
      <4>1. \A o \in Elements(y.todo) : ~IsApprovalOp(o)
        BY <2>2, <2>4, <2>5, <2>6
      <4> QED
        BY <2>5, <3>1, <3>3, <3>5, <4>1 DEF CallsFit
    <3>7. RequestFits(v, y, approvals, effects)
      BY <2>5 DEF RequestFits
    <3>8. EffectsFit(v, y, approvals, effects)
      BY <3>1, <3>3 DEF EffectsFit, Over
    <3>9. \A e : Told(e, ledger, y.todo) =>
            \/ Told(e, ledger, x.todo) \/ e.type \notin {"turn_started", "turn_completed"}
            \/ e.type = "turn_completed" /\ e.turn = run.turn
      BY <2>1, <2>2, <2>4, <2>5 DEF Told, Aside
    <3>10. TurnsFit(v, y, ledger, effects)
      BY <1>2, <2>5, <3>1, <3>3, <3>9, Turns DEF TurnsFit
    <3>11. Orderly(ledger, y.todo)
      <4>1. ASSUME NEW i \in DOMAIN ledger PROVE ~Misplaced(ledger[i], d.event)
        <5>1. ledger[i] \in LedgerEvent /\ ledger[i] \in Elements(ledger)
          BY Types DEF Elements
        <5>2. ledger[i].type = "turn_started" => ledger[i].turn <= run.turn
          BY <3>1, <5>1 DEF TurnsFit
        <5>3. ledger[i].turn \in Nat /\ run.turn \in Nat
          BY <1>2, <5>1, Turns
        <5> QED
          BY <2>1, <5>2, <5>3 DEF Misplaced
      <4>2. a.op # "event" /\ \A z : ~Misplaced(z, b.event)
        BY <2>2, AsideNotTurn
      <4> QED
        BY <2>4, <2>5, <3>1, <4>1, <4>2 DEF Orderly
    <3>12. LastCompleted(y.todo, run)
      BY <1>6, <2>4, <2>5, <2>6 DEF LastCompleted
    <3> QED
      BY <3>4, <3>6, <3>7, <3>8, <3>10, <3>11, <3>12 DEF OrderlyFits
  <2> QED
    BY <1>0, <1>1, <1>2, <2>5, <2>7, <2>8, <2>9, GoOnKeeps
<1> QED
  BY <1>5, <1>6

-----------------------------------------------------------------------------
(* The invocation.                                                             *)

\* Another effect leaves the earlier ones as they were.
LEMMA EffectsGrow ==
  ASSUME Inv, NEW p \in Proposal, NEW c \in Call,
         effects' = Append(effects, [p |-> p, call |-> c])
  PROVE  /\ effects' \in Seq([p : Proposal, call : Call])
         /\ \A i \in DOMAIN effects' :
              \/ i \in DOMAIN effects /\ effects'[i] = effects[i]
              \/ i = Len(effects) + 1 /\ effects'[i].p = p /\ effects'[i].call = c
         /\ \A i \in DOMAIN effects : i \in DOMAIN effects' /\ effects'[i] = effects[i]
         /\ Len(effects) + 1 \in DOMAIN effects' /\ effects'[Len(effects) + 1].call = c
<1>1. PICK E : E = [p : Proposal, call : Call]
  OBVIOUS
<1>2. PICK new : new = [p |-> p, call |-> c]
  OBVIOUS
<1>3. new \in E /\ new.p = p /\ new.call = c
  BY <1>1, <1>2
<1>4. effects \in Seq(E) /\ effects' = Append(effects, new)
  BY <1>1, <1>2, Types
<1>5. /\ effects' \in Seq(E) /\ Len(effects') = Len(effects) + 1
      /\ effects'[Len(effects) + 1] = new /\ \A i \in 1..Len(effects) : effects'[i] = effects[i]
  BY <1>3, <1>4, ElementsOfAppend
<1>6. Len(effects) \in Nat /\ DOMAIN effects = 1..Len(effects)
      /\ DOMAIN effects' = 1..(Len(effects) + 1)
  BY <1>4, <1>5
<1>7. /\ \A i \in DOMAIN effects' : i \in DOMAIN effects \/ i = Len(effects) + 1
      /\ \A i \in DOMAIN effects : i \in DOMAIN effects'
      /\ Len(effects) + 1 \in DOMAIN effects'
  BY <1>6
<1> QED
  BY <1>1, <1>3, <1>5, <1>6, <1>7

\* What is known when the connector runs.
LEMMA Invoking ==
  ASSUME Inv, NEW x \in HandlerState, x.pc = "invoke", x.todo = << >>, x.p \in Proposal,
         OrderlyFits(x, run, approvals, ledger, effects, calls),
         SoloFits(x, approvals, ledger, effects)
  PROVE  /\ x.run = run /\ ~Over(run) /\ run.call = approvals[x.p].call
         /\ ~Spent(run.call, effects) /\ approvals[x.p].status = "approved"
         /\ CallsFit(run, x, approvals, calls) /\ EffectsFit(run, x, approvals, effects)
         /\ \A q \in Proposal : approvals[q].status \notin {"pending", "denied"}
         /\ \A i, j \in DOMAIN ledger : Misplaced(ledger[i], ledger[j]) => j < i
         /\ \A e \in LedgerEvent : e \in Elements(ledger) =>
              /\ e.type = "turn_started" => e.turn <= run.turn
              /\ e.type = "turn_completed" => e.turn < run.turn
<1>1. /\ CallsFit(run, x, approvals, calls) /\ RequestFits(run, x, approvals, effects)
      /\ EffectsFit(run, x, approvals, effects) /\ TurnsFit(run, x, ledger, effects)
      /\ \A i, j \in DOMAIN ledger : Misplaced(ledger[i], ledger[j]) => j < i
      /\ \A e : Told(e, ledger, x.todo) <=> e \in Elements(ledger)
  BY AtRest, Types
<1>2. /\ x.run = run /\ ~Over(run) /\ run.call = approvals[x.p].call
      /\ ~Spent(run.call, effects)
  BY <1>1 DEF RequestFits
<1>3. approvals[x.p].status = "approved"
  BY DEF SoloFits
<1>4. ASSUME NEW q \in Proposal, approvals[q].status \in {"pending", "denied"} PROVE FALSE
  <2>1. Known(approvals[q]) /\ Known(approvals[x.p]) /\ run.call = approvals[q].call
    BY <1>1, <1>3, <1>4 DEF CallsFit, Known
  <2>2. q = x.p
    BY <1>1, <1>2, <2>1 DEF CallsFit
  <2> QED
    BY <1>3, <1>4, <2>2
<1>5. ASSUME NEW e \in LedgerEvent, e \in Elements(ledger)
      PROVE  /\ e.type = "turn_started" => e.turn <= run.turn
             /\ e.type = "turn_completed" => e.turn < run.turn
  <2>1. Told(e, ledger, x.todo)
    BY <1>1, <1>5
  <2>2. e.turn \in Nat /\ run.turn \in Nat
    BY Turns, Types
  <2>3. run.status # "completed"
    BY <1>2 DEF Over
  <2> QED
    BY <1>1, <1>2, <2>1, <2>2, <2>3 DEF TurnsFit
<1> QED
  BY <1>1, <1>2, <1>3, <1>4, <1>5

\* The run that an invocation leads to, stored by a request that then ends or goes on
\* with the next turn.
LEMMA InvokeOrderly ==
  ASSUME Inv, NEW x \in HandlerState, x.pc = "invoke", x.todo = << >>, x.p \in Proposal,
         OrderlyFits(x, run, approvals, ledger, effects, calls),
         SoloFits(x, approvals, ledger, effects),
         effects' = Append(effects, [p |-> x.p, call |-> x.run.call]),
         NEW y, NEW u \in Run, \A w \in Run : IsLast(w, y.todo, run) => w = u,
         u.call = run.call,
         \/ y.pc = "idle" /\ Over(u) /\ u.turn = run.turn
         \/ y.pc = "model" /\ y.run = u /\ u.status = "running" /\ u.turn = run.turn + 1,
         \A o \in Elements(y.todo) : ~IsApprovalOp(o),
         \A o \in Elements(y.todo) : o.op = "event" =>
           \/ o.event.type \notin {"turn_started", "turn_completed"}
           \/ o.event.type = "turn_completed" /\ o.event.turn = run.turn
           \/ o.event.type = "turn_started" /\ o.event.turn = u.turn,
         Orderly(ledger, y.todo), LastCompleted(y.todo, run)
  PROVE  OrderlyFits(y, run, approvals, ledger, effects', calls)
<1>1. /\ x.run = run /\ ~Over(run) /\ run.call = approvals[x.p].call
      /\ ~Spent(run.call, effects) /\ approvals[x.p].status = "approved"
      /\ CallsFit(run, x, approvals, calls) /\ EffectsFit(run, x, approvals, effects)
      /\ \A q \in Proposal : approvals[q].status \notin {"pending", "denied"}
      /\ \A e \in LedgerEvent : e \in Elements(ledger) =>
           /\ e.type = "turn_started" => e.turn <= run.turn
           /\ e.type = "turn_completed" => e.turn < run.turn
  BY Invoking
<1>2. PICK c : c = run.call
  OBVIOUS
<1>3. /\ \A i \in DOMAIN effects' :
           \/ i \in DOMAIN effects /\ effects'[i] = effects[i]
           \/ i = Len(effects) + 1 /\ effects'[i].p = x.p /\ effects'[i].call = c
      /\ \A i \in DOMAIN effects : i \in DOMAIN effects' /\ effects'[i] = effects[i]
      /\ Len(effects) + 1 \in DOMAIN effects' /\ effects'[Len(effects) + 1].call = c
  <2>1. c \in Call /\ effects' = Append(effects, [p |-> x.p, call |-> c])
    BY <1>1, <1>2, Types DEF Run
  <2> QED
    BY <2>1, EffectsGrow
<1>4. Spent(c, effects')
  BY <1>3 DEF Spent
<1>5. CallsFit(u, y, approvals, calls)
  BY <1>1 DEF CallsFit
<1>6. RequestFits(u, y, approvals, effects')
  BY DEF RequestFits
<1>7. EffectsFit(u, y, approvals, effects')
  <2>1. \A i \in DOMAIN effects' : effects'[i].call = approvals[effects'[i].p].call
    BY <1>1, <1>2, <1>3 DEF EffectsFit
  <2>2. \A i \in DOMAIN effects : effects[i].p # x.p
    BY <1>1, <1>2 DEF EffectsFit, Spent
  <2>3. \A i, j \in DOMAIN effects' : effects'[i].p = effects'[j].p => i = j
    BY <1>1, <1>3, <2>2 DEF EffectsFit
  <2> QED
    BY <2>1, <2>3 DEF EffectsFit
<1>8. TurnsFit(u, y, ledger, effects')
  <2> SUFFICES ASSUME NEW e \in LedgerEvent, Told(e, ledger, y.todo)
               PROVE  /\ e.type = "turn_started" => e.turn <= u.turn
                      /\ e.type = "turn_completed" =>
                           /\ e.turn <= u.turn
                           /\ e.turn = u.turn => y.pc # "model" /\ Spent(u.call, effects')
    BY DEF TurnsFit
  <2>1. e.turn \in Nat /\ run.turn \in Nat /\ u.turn \in Nat /\ Spent(u.call, effects')
    BY <1>2, <1>4, Turns, Types
  <2>2. \/ e \in Elements(ledger) \/ e.type \notin {"turn_started", "turn_completed"}
        \/ e.type = "turn_completed" /\ e.turn = run.turn
        \/ e.type = "turn_started" /\ e.turn = u.turn
    BY DEF Told
  <2> QED
    BY <1>1, <2>1, <2>2
<1> QED
  BY <1>5, <1>6, <1>7, <1>8 DEF OrderlyFits

\* A step that invokes the connector and leaves the stores alone.
LEMMA InvokeStep ==
  ASSUME Inv, NEW h \in Handler, NEW x, x = handler[h], At(h, "invoke"), NEW y \in HandlerState,
         handler' = [handler EXCEPT ![h] = y], y.pc \in {"idle", "model"},
         effects' = Append(effects, [p |-> x.p, call |-> x.run.call]),
         UNCHANGED <<run, approvals, ledger, calls, approved, requests, overlapped, stops>>,
         HandlerFits(y, run.status, approved, ledger),
         \A o \in Elements(y.todo) : ~IsApprovalOp(o),
         \A o \in Elements(y.todo) : o.op = "event" => o.event.type # "proposal_denied",
         SoloFits(x, approvals, ledger, effects)
           /\ OrderlyFits(x, run, approvals, ledger, effects, calls)
           => OrderlyFits(y, run, approvals, ledger, effects', calls)
  PROVE  Inv'
<1>1. x \in HandlerState /\ x # Idle /\ x.pc = "invoke" /\ x.todo = << >>
  BY Busy, Types
<1>2. x.p \in Proposal /\ x.p \in approved
  <2>1. HandlerFits(x, run.status, approved, ledger)
    BY DEF Inv, HandlersFit
  <2> QED
    BY <1>1, <2>1 DEF HandlerFits
<1>3. PICK c : c = x.run.call
  OBVIOUS
<1>4. c \in Call
  BY <1>1, <1>3 DEF HandlerState, Run
<1>5. /\ effects' \in Seq([p : Proposal, call : Call])
      /\ \A i \in DOMAIN effects' :
           \/ i \in DOMAIN effects /\ effects'[i] = effects[i]
           \/ i = Len(effects) + 1 /\ effects'[i].p = x.p /\ effects'[i].call = c
  <2>1. effects' = Append(effects, [p |-> x.p, call |-> c])
    BY <1>3
  <2> QED
    BY <1>2, <1>4, <2>1, EffectsGrow
<1>6. ApprovedBeforeEffect'
  BY <1>2, <1>5 DEF Inv, ApprovedBeforeEffect
<1>7. run' = run /\ approvals' = approvals /\ ledger' = ledger /\ calls' = calls
      /\ approved' = approved
  OBVIOUS
<1>8. ProposalsFit' /\ FreshRun' /\ LedgerFits(ledger')
  BY <1>7 DEF Inv, ProposalsFit, FreshRun
<1>9. /\ requests' \in 0..MaxRequests /\ overlapped' \in BOOLEAN /\ stops' \in 0..MaxStops
      /\ ~overlapped' => Solo(h) /\ SoloFits(x, approvals, ledger, effects)
      /\ Undisturbed' /\ ToolsDiffer => OrderlyFits(x, run, approvals, ledger, effects, calls)
  BY <1>1, GoingOn
<1>10. ASSUME SoloFits(x, approvals, ledger, effects)
       PROVE  SoloFits(y, approvals, ledger, effects')
  <2>1. \A k \in DOMAIN y.todo : y.todo[k] \in Elements(y.todo)
    BY DEF Elements
  <2>2. ASSUME NEW q \in Proposal, Told(Event("proposal_denied", 0, q), ledger, y.todo)
        PROVE  Told(Event("proposal_denied", 0, q), ledger, x.todo)
    <3>1. Event("proposal_denied", 0, q).type = "proposal_denied"
      BY DEF Event
    <3> QED
      BY <2>2, <3>1 DEF Told
  <2>3. \A i \in DOMAIN effects' : approvals[effects'[i].p].status = "approved"
    BY <1>1, <1>5, <1>10 DEF SoloFits
  <2> QED
    BY <1>10, <2>1, <2>2, <2>3 DEF SoloFits
<1>11. ToolsDiffer' => ToolsDiffer
  BY <1>7 DEF ToolsDiffer
<1>12. Undisturbed' => ~overlapped'
  BY DEF Undisturbed
<1>13. Undisturbed' /\ ToolsDiffer' => OrderlyFits(y, run', approvals', ledger', effects', calls')
  BY <1>7, <1>9, <1>11, <1>12
<1>14. ~overlapped' => Solo(h) /\ SoloFits(y, approvals', ledger', effects')
  BY <1>7, <1>9, <1>10
<1>15. /\ run' \in Run /\ approvals' \in [Proposal -> Approval] /\ ledger' \in Seq(LedgerEvent)
       /\ approved' \subseteq Proposal /\ calls' \in Seq(STRING) /\ Len(calls') <= MaxCalls
       /\ approved \subseteq approved' /\ Elements(ledger) \subseteq Elements(ledger')
       /\ HandlerFits(y, run'.status, approved', ledger')
       /\ (Started(run.status) => Started(run'.status))
  BY <1>7, Types
<1> QED
  BY <1>5, <1>6, <1>8, <1>9, <1>13, <1>14, <1>15, StepKeeps

\* The connector call and what follows from its answer keep the invariant: the
\* call is spent, and the run goes on to another or ends.
LEMMA InvokeKeeps ==
  ASSUME Inv, NEW h \in Handler, Invoke(h)
  PROVE  Inv'
<1>0. At(h, "invoke")
      /\ UNCHANGED <<run, approvals, ledger, calls, approved, requests, overlapped, stops>>
  BY DEF Invoke
<1>1. PICK x : x = handler[h]
  OBVIOUS
<1>2. x \in HandlerState /\ x # Idle /\ x.pc = "invoke" /\ x.todo = << >> /\ run \in Run
  BY <1>0, <1>1, Busy, Types
<1>3. PICK p : p = x.p
  OBVIOUS
<1>4. PICK r : r = x.run
  OBVIOUS
<1>5. p \in Proposal /\ p \in Call /\ Started(run.status)
  BY <1>1, <1>2, <1>3, DecidesProposal DEF Proposal, Call
<1>6. r \in Run /\ r.turn \in 0..MaxTurns /\ r.step \in Nat /\ Started(r.status)
  <2>1. HandlerFits(x, run.status, approved, ledger)
    BY <1>1 DEF Inv, HandlersFit
  <2> QED
    BY <1>2, <1>4, <2>1 DEF HandlerFits, HandlerState, Run
<1>7. effects' = Append(effects, [p |-> x.p, call |-> x.run.call])
  BY <1>1 DEF Invoke
<1>8. PICK result : result = [r EXCEPT !.step = r.step + 1]
  OBVIOUS
<1>9. /\ result \in Run /\ result.status = r.status /\ result.turn = r.turn /\ result.call = r.call
      /\ result.step = r.step + 1
  BY <1>6, <1>8 DEF Run
<1>10. PICK a \in Operation : /\ a = Append1("tool_invoked", r.turn, p) /\ a.op = "event"
                              /\ a = [op |-> "event", event |-> Event("tool_invoked", r.turn, p)]
                              /\ a.event.type = "tool_invoked"
  <2>1. "tool_invoked" \in EventType
    BY DEF EventType
  <2> QED
    BY <1>5, <1>6, <2>1, EventOp
<1>11. PICK b \in Operation : b = SaveRun(result) /\ b.op = "run" /\ b.run = result
                              /\ IsRunOp(b) /\ ~IsApprovalOp(b)
  BY <1>9, RunOp
<1>12. PICK c \in Operation : /\ c = Append1("commitment_recorded", r.turn, p) /\ c.op = "event"
                              /\ c.event.type = "commitment_recorded" /\ c.event.turn = r.turn
                              /\ c.event.p = p
  <2>1. "commitment_recorded" \in EventType
    BY DEF EventType
  <2> QED
    BY <1>5, <1>6, <2>1, EventOp
<1>13. PICK d \in Operation : /\ d = Append1("turn_completed", r.turn, 0) /\ d.op = "event"
                              /\ d.event.type = "turn_completed" /\ d.event.turn = r.turn
  <2>1. "turn_completed" \in EventType
    BY DEF EventType
  <2> QED
    BY <1>6, <2>1, EventOp, Types
<1>14. ~IsRunOp(a) /\ ~IsRunOp(c) /\ ~IsRunOp(d) /\ ~IsApprovalOp(a) /\ ~IsApprovalOp(c)
       /\ ~IsApprovalOp(d) /\ Aside(a) /\ Quiet(a)
  BY <1>10, <1>12, <1>13 DEF IsRunOp, IsApprovalOp, Aside, Quiet
<1>15. <<a>> \o <<b>> \o <<c, d>> = <<a, b, c, d>>
  <2>1. <<a>> \o <<b>> = <<a, b>>
    BY JoinOneOne
  <2>2. <<a, b>> \o <<c, d>> = <<a, b, c, d>>
    BY JoinTwoTwo
  <2> QED
    BY <2>1, <2>2
<1>16. TurnDone(r, p) = <<c, d>>
  BY <1>12, <1>13 DEF TurnDone
\* A turn that is done, then the two operations f and g.
<1>17. ASSUME NEW f \in Operation, NEW g \in Operation, NEW y \in HandlerState,
              y.todo = <<a, b, c, d, f, g>>, handler' = [handler EXCEPT ![h] = y],
              f.op = "run", f.run \in Run, Started(f.run.status), f.run.call = r.call,
              g.op = "event", g.event.type \in {"run_completed", "run_failed", "turn_started"},
              g.event.type = "turn_started" => g.event.turn = f.run.turn,
              \/ y.pc = "idle" /\ Over(f.run) /\ f.run.turn = r.turn
              \/ /\ y.pc = "model" /\ y.run = f.run /\ f.run.status = "running"
                 /\ f.run.turn = r.turn + 1 /\ f.run.step < Steps
       PROVE  Inv'
  <2>1. PICK todo : todo = <<a, b, c, d, f, g>>
    OBVIOUS
  <2>2. /\ todo \in Seq(Operation) /\ DOMAIN todo = {1, 2, 3, 4, 5, 6}
        /\ Elements(todo) = {a, b, c, d, f, g} /\ todo[1] = a /\ todo[2] = b /\ todo[3] = c
        /\ todo[4] = d /\ todo[5] = f /\ todo[6] = g /\ todo # << >>
    <3>1. /\ <<a, b, c, d, f, g>> \in Seq(Operation)
          /\ DOMAIN <<a, b, c, d, f, g>> = {1, 2, 3, 4, 5, 6}
          /\ Elements(<<a, b, c, d, f, g>>) = {a, b, c, d, f, g}
      BY ListOfSix
    <3>2. /\ todo[1] = a /\ todo[2] = b /\ todo[3] = c /\ todo[4] = d /\ todo[5] = f /\ todo[6] = g
          /\ todo # << >>
      BY <2>1
    <3> QED
      BY <2>1, <3>1, <3>2
  <2>3. y.todo = todo
    BY <1>17, <2>1
  <2>4. ~IsApprovalOp(f) /\ ~IsApprovalOp(g) /\ IsRunOp(f) /\ ~IsRunOp(g)
    BY <1>17 DEF IsApprovalOp, IsRunOp
  <2>5. \A o \in Elements(y.todo) : ~IsApprovalOp(o)
    BY <1>11, <1>14, <2>2, <2>3, <2>4
  <2>6. \A o \in Elements(y.todo) : o.op = "event" => o.event.type # "proposal_denied"
    BY <1>10, <1>11, <1>12, <1>13, <1>17, <2>2, <2>3
  <2>7. HandlerFits(y, run.status, approved, ledger)
    <3>1. \A o \in Elements(y.todo) : o.op = "run" => Started(o.run.status)
      BY <1>6, <1>9, <1>10, <1>11, <1>12, <1>13, <1>17, <2>2, <2>3
    <3>2. \A o \in Elements(y.todo) : o.op = "event" /\ o.event.type = "commitment_recorded"
                                        => o.event.turn = r.turn /\ o.event.p = p
      BY <1>10, <1>11, <1>12, <1>13, <1>17, <2>2, <2>3
    <3>3. y.todo # << >> /\ y.todo[1] = [op |-> "event", event |-> Event("tool_invoked", r.turn, p)]
      BY <1>10, <2>2, <2>3
    <3>4. y.pc \in {"idle", "model"} /\ (y.pc = "model" => Started(y.run.status) /\ y.run.step < Steps)
      BY <1>17
    <3> QED
      BY <1>5, <3>1, <3>2, <3>3, <3>4 DEF HandlerFits
  <2>8. ASSUME SoloFits(x, approvals, ledger, effects),
               OrderlyFits(x, run, approvals, ledger, effects, calls)
        PROVE  OrderlyFits(y, run, approvals, ledger, effects', calls)
    <3>1. /\ x.run = run /\ ~Over(run)
          /\ \A i, j \in DOMAIN ledger : Misplaced(ledger[i], ledger[j]) => j < i
          /\ \A e \in LedgerEvent : e \in Elements(ledger) =>
               /\ e.type = "turn_started" => e.turn <= run.turn
               /\ e.type = "turn_completed" => e.turn < run.turn
      BY <1>2, <1>3, <1>5, <2>8, Invoking
    <3>2. r = run
      BY <1>4, <3>1
    <3>3. PICK u : u = f.run
      OBVIOUS
    <3>4. \A w \in Run : IsLast(w, y.todo, run) => w = u
      BY <2>2, <2>3, <2>4, <3>3, IsLastAt
    <3>5. \A o \in Elements(y.todo) : o.op = "event" =>
            \/ o.event.type \notin {"turn_started", "turn_completed"}
            \/ o.event.type = "turn_completed" /\ o.event.turn = run.turn
            \/ o.event.type = "turn_started" /\ o.event.turn = u.turn
      BY <1>10, <1>11, <1>12, <1>13, <1>17, <2>2, <2>3, <3>2, <3>3
    <3>6. Orderly(ledger, y.todo)
      <4>1. ASSUME NEW i \in DOMAIN ledger
            PROVE  ~Misplaced(ledger[i], c.event) /\ ~Misplaced(ledger[i], d.event)
        <5>1. ledger[i] \in LedgerEvent /\ ledger[i] \in Elements(ledger)
          BY Types DEF Elements
        <5>2. ledger[i].turn \in Nat /\ run.turn \in Nat
          BY <1>2, <5>1, Turns
        <5> QED
          BY <1>12, <1>13, <3>1, <3>2, <5>1, <5>2 DEF Misplaced
      <4>2. \A z : ~Misplaced(z, a.event) /\ ~Misplaced(a.event, z) /\ ~Misplaced(z, g.event)
        BY <1>10, <1>17 DEF Misplaced
      <4>3. ~Misplaced(c.event, d.event)
        BY <1>12 DEF Misplaced
      <4>4. b.op # "event" /\ f.op # "event"
        BY <1>11, <1>17
      <4> QED
        BY <2>2, <2>3, <3>1, <4>1, <4>2, <4>3, <4>4 DEF Orderly
    <3>7. LastCompleted(y.todo, run)
      <4>1. run.status # "completed" /\ b.run.status # "completed"
        BY <1>9, <1>11, <3>1, <3>2 DEF Over
      <4> QED
        BY <1>14, <2>2, <2>3, <2>4, <4>1 DEF LastCompleted
    <3>8. u \in Run /\ u.call = run.call
          /\ \/ y.pc = "idle" /\ Over(u) /\ u.turn = run.turn
             \/ y.pc = "model" /\ y.run = u /\ u.status = "running" /\ u.turn = run.turn + 1
      BY <1>17, <3>2, <3>3
    <3> QED
      BY <1>2, <1>3, <1>5, <1>7, <2>5, <2>8, <3>4, <3>5, <3>6, <3>7, <3>8, InvokeOrderly
  <2>9. y.pc \in {"idle", "model"}
    BY <1>17
  <2> QED
    BY <1>0, <1>1, <1>7, <1>17, <2>5, <2>6, <2>7, <2>8, <2>9, InvokeStep
\* The turn is done and the run ends.
<1>18. ASSUME NEW s \in {"completed", "failed"},
              Finish(h, <<a, b, c, d>> \o Terminal(result, s))
       PROVE  Inv'
  <2>1. PICK f \in Operation, g \in Operation :
           /\ Terminal(result, s) = <<f, g>> /\ f.op = "run" /\ f.run \in Run
           /\ f.run.status = s /\ f.run.turn = result.turn /\ f.run.call = result.call
           /\ g.op = "event" /\ g.event.type \in {"run_completed", "run_failed"}
    BY <1>9, TerminalList
  <2>2. PICK todo : todo = <<a, b, c, d, f, g>>
    OBVIOUS
  <2>3. todo \in Seq(Operation) /\ Finish(h, todo)
    <3>1. <<a, b, c, d>> \o <<f, g>> = <<a, b, c, d, f, g>>
      BY JoinFourTwo
    <3>2. <<a, b, c, d, f, g>> \in Seq(Operation)
      BY ListOfSix
    <3> QED
      BY <1>18, <2>1, <2>2, <3>1, <3>2
  <2>4. PICK y \in HandlerState : handler' = [handler EXCEPT ![h] = y]
                                  /\ y.pc = "idle" /\ y.todo = todo
    BY <2>3, FinishTo
  <2>5. Over(f.run) /\ Started(f.run.status) /\ f.run.turn = r.turn /\ f.run.call = r.call
    BY <1>9, <1>18, <2>1 DEF Over, Started
  <2>6. y.todo = <<a, b, c, d, f, g>>
    BY <2>2, <2>4
  <2> QED
    BY <1>17, <2>1, <2>4, <2>5, <2>6
\* The connector fails.
<1>19. CASE Finish(h, <<a>> \o Terminal(r, "failed"))
  <2>1. PICK f \in Operation, g \in Operation :
           /\ Terminal(r, "failed") = <<f, g>> /\ f.op = "run" /\ f.run \in Run
           /\ f.run.status = "failed" /\ f.run.turn = r.turn /\ f.run.call = r.call
           /\ IsRunOp(f) /\ ~IsApprovalOp(f) /\ Quiet(f) /\ Quiet(g) /\ Aside(g)
    BY <1>6, TerminalList
  <2>2. PICK todo : todo = <<a, f, g>>
    OBVIOUS
  <2>3. /\ todo \in Seq(Operation) /\ DOMAIN todo = {1, 2, 3} /\ Elements(todo) = {a, f, g}
        /\ todo[1] = a /\ todo[2] = f /\ todo[3] = g
    BY <2>2, ListOfThree
  <2>4. Finish(h, todo)
    <3>1. <<a>> \o <<f, g>> = <<a, f, g>>
      BY JoinOneTwo
    <3> QED
      BY <1>19, <2>1, <2>2, <3>1
  <2>5. PICK y \in HandlerState : handler' = [handler EXCEPT ![h] = y]
                                  /\ y.pc = "idle" /\ y.todo = todo
    BY <2>3, <2>4, FinishTo
  <2>6. ~IsRunOp(g) /\ ~IsApprovalOp(g)
    BY <2>1, AsideNotTurn
  <2>7. \A o \in Elements(y.todo) : ~IsApprovalOp(o)
    BY <1>14, <2>1, <2>3, <2>5, <2>6
  <2>8. \A o \in Elements(y.todo) : Quiet(o)
    BY <1>14, <2>1, <2>3, <2>5
  <2>9. \A o \in Elements(y.todo) : o.op = "event" => o.event.type # "proposal_denied"
    BY <2>8 DEF Quiet
  <2>10. HandlerFits(y, run.status, approved, ledger)
    BY <2>5, <2>8, QuietFits DEF Past
  <2>11. ASSUME SoloFits(x, approvals, ledger, effects),
                OrderlyFits(x, run, approvals, ledger, effects, calls)
         PROVE  OrderlyFits(y, run, approvals, ledger, effects', calls)
    <3>1. /\ x.run = run /\ ~Over(run)
          /\ \A i, j \in DOMAIN ledger : Misplaced(ledger[i], ledger[j]) => j < i
      BY <1>2, <1>3, <1>5, <2>11, Invoking
    <3>2. r = run
      BY <1>4, <3>1
    <3>3. PICK u : u = f.run
      OBVIOUS
    <3>4. \A w \in Run : IsLast(w, y.todo, run) => w = u
      BY <2>1, <2>3, <2>5, <2>6, <3>3, IsLastAt
    <3>5. \A o \in Elements(y.todo) : o.op = "event" =>
            o.event.type \notin {"turn_started", "turn_completed"}
      BY <1>14, <2>1, <2>3, <2>5 DEF Aside
    <3>6. Orderly(ledger, y.todo)
      <4>1. \A z : ~Misplaced(z, a.event) /\ ~Misplaced(a.event, z) /\ ~Misplaced(z, g.event)
        BY <1>14, <2>1, AsideNotTurn
      <4> QED
        BY <2>1, <2>3, <2>5, <3>1, <4>1 DEF Orderly
    <3>7. LastCompleted(y.todo, run)
      BY <1>14, <2>3, <2>5, <2>6, <3>1 DEF LastCompleted, Over
    <3>8. u \in Run /\ u.call = run.call /\ Over(u) /\ u.turn = run.turn
      BY <2>1, <3>2, <3>3 DEF Over
    <3> QED
      BY <1>2, <1>3, <1>5, <1>7, <2>5, <2>7, <2>11, <3>4, <3>5, <3>6, <3>7, <3>8, InvokeOrderly
  <2>12. y.pc \in {"idle", "model"}
    BY <2>5
  <2> QED
    BY <1>0, <1>1, <1>7, <2>5, <2>7, <2>9, <2>10, <2>11, <2>12, InvokeStep
<1>20. PICK next : next = [result EXCEPT !.status = "running", !.turn = result.turn + 1]
  OBVIOUS
<1>21. next.turn = r.turn + 1
  BY <1>9, <1>20 DEF Run
\* The next turn.
<1>22. CASE /\ r.step + 1 < Steps /\ TurnsLeft(next.turn)
            /\ Go(h, "model", <<a, b, c, d>> \o <<SaveRun(next),
                                                 Append1("turn_started", next.turn, 0)>>, next)
  <2>1. next.turn \in 0..MaxTurns
    <3>1. MaxTurns \in Nat
      BY OutwardAssumption
    <3> QED
      BY <1>6, <1>21, <1>22, <3>1 DEF TurnsLeft
  <2>2. next \in Run /\ next.status = "running" /\ next.call = r.call /\ next.step = r.step + 1
    <3>1. r.turn + 1 \in 0..MaxTurns
      BY <1>21, <2>1
    <3> QED
      BY <1>9, <1>20, <3>1 DEF Run
  <2>3. PICK f \in Operation : f = SaveRun(next) /\ f.op = "run" /\ f.run = next
    BY <2>2, RunOp
  <2>4. PICK g \in Operation : /\ g = Append1("turn_started", next.turn, 0) /\ g.op = "event"
                               /\ g.event.type = "turn_started" /\ g.event.turn = next.turn
    <3>1. "turn_started" \in EventType
      BY DEF EventType
    <3> QED
      BY <2>1, <3>1, EventOp, Types
  <2>5. PICK todo : todo = <<a, b, c, d, f, g>>
    OBVIOUS
  <2>6. todo \in Seq(Operation) /\ Go(h, "model", todo, next)
    <3>1. <<a, b, c, d>> \o <<f, g>> = <<a, b, c, d, f, g>>
      BY JoinFourTwo
    <3>2. <<a, b, c, d, f, g>> \in Seq(Operation)
      BY ListOfSix
    <3> QED
      BY <1>22, <2>3, <2>4, <2>5, <3>1, <3>2
  <2>7. PICK y \in HandlerState : handler' = [handler EXCEPT ![h] = y]
                                  /\ y.pc = "model" /\ y.todo = todo /\ y.run = next
    <3>1. "model" \in Label
      BY DEF Label
    <3> QED
      BY <2>2, <2>6, <3>1, GoTo
  <2>8. Started(next.status)
    BY <2>2 DEF Started
  <2>9. y.todo = <<a, b, c, d, f, g>>
    BY <2>5, <2>7
  <2> QED
    BY <1>17, <1>21, <1>22, <2>2, <2>3, <2>4, <2>7, <2>8, <2>9
<1>23. \/ Finish(h, <<a>> \o Terminal(r, "failed"))
       \/ Finish(h, <<a>> \o <<b>> \o <<c, d>> \o Terminal(result, "completed"))
       \/ Finish(h, <<a>> \o <<b>> \o <<c, d>> \o Terminal(result, "failed"))
       \/ /\ r.step + 1 < Steps /\ TurnsLeft(next.turn)
          /\ Go(h, "model", <<a>> \o <<b>> \o <<c, d>>
                            \o <<SaveRun(next), Append1("turn_started", next.turn, 0)>>, next)
  BY <1>1, <1>3, <1>4, <1>8, <1>10, <1>11, <1>16, <1>20 DEF Invoke
<1> QED
  BY <1>15, <1>18, <1>19, <1>22, <1>23

-----------------------------------------------------------------------------
(* Store operations, carried out one at a time.                                *)

\* The positions of a list and of the rest of it.
LEMMA TailIndex ==
  ASSUME NEW S, NEW s \in Seq(S), s # << >>
  PROVE  /\ 1 \in DOMAIN s
         /\ \A k \in DOMAIN s : k \in Nat /\ k >= 1
         /\ \A k \in DOMAIN Tail(s) : k \in Nat /\ k >= 1 /\ k + 1 \in DOMAIN s /\ Tail(s)[k] = s[k + 1]
         /\ \A k \in DOMAIN s : k # 1 => k - 1 \in DOMAIN Tail(s) /\ Tail(s)[k - 1] = s[k]
<1>1. Tail(s) \in Seq(S) /\ Len(s) \in Nat \ {0}
      /\ Len(Tail(s)) = Len(s) - 1 /\ \A i \in 1..(Len(s) - 1) : Tail(s)[i] = s[i + 1]
  OBVIOUS
<1>2. DOMAIN s = 1..Len(s) /\ DOMAIN Tail(s) = 1..(Len(s) - 1)
  BY <1>1
<1>3. 1 \in DOMAIN s /\ \A k \in DOMAIN s : k \in Nat /\ k >= 1
  BY <1>1, <1>2
<1>4. \A k \in DOMAIN Tail(s) : k \in Nat /\ k >= 1 /\ k + 1 \in DOMAIN s /\ Tail(s)[k] = s[k + 1]
  BY <1>1, <1>2
<1>5. ASSUME NEW k \in DOMAIN s, k # 1 PROVE k - 1 \in DOMAIN Tail(s) /\ Tail(s)[k - 1] = s[k]
  <2>1. k \in Nat /\ k > 1 /\ k <= Len(s)
    BY <1>1, <1>2, <1>5
  <2>2. k - 1 \in 1..(Len(s) - 1) /\ (k - 1) + 1 = k
    BY <1>1, <2>1
  <2> QED
    BY <1>1, <1>2, <2>2
<1> QED
  BY <1>3, <1>4, <1>5

\* What holds of a list holds of the rest of it.
LEMMA TailFits ==
  ASSUME NEW todo \in Seq(Operation), todo # << >>, NEW t, t = Head(todo), NEW rest, rest = Tail(todo)
  PROVE  /\ rest \in Seq(Operation) /\ t = todo[1] /\ t \in Operation /\ t \in Elements(todo)
         /\ Elements(rest) \subseteq Elements(todo)
         /\ \A o \in Elements(todo) : o = t \/ o \in Elements(rest)
         /\ (\A k \in DOMAIN todo : IsApprovalOp(todo[k]) => k = 1)
              => \A o \in Elements(rest) : ~IsApprovalOp(o)
         /\ \A r, v : IsLast(v, rest, IF IsRunOp(t) THEN t.run ELSE r) => IsLast(v, todo, r)
         /\ \A led : Orderly(led, todo) =>
              /\ Orderly(led, rest)
              /\ t.op = "event" => \A o \in Elements(rest) : o.op = "event" => ~Misplaced(t.event, o.event)
         /\ \A r : LastCompleted(todo, r) => LastCompleted(rest, IF IsRunOp(t) THEN t.run ELSE r)
<1>1. /\ rest \in Seq(Operation) /\ t = todo[1] /\ t \in Operation /\ t \in Elements(todo)
      /\ Elements(rest) \subseteq Elements(todo)
      /\ \A o \in Elements(todo) : o = t \/ o \in Elements(rest)
  BY ElementsOfTail
<1>2. /\ 1 \in DOMAIN todo
      /\ \A k \in DOMAIN todo : k \in Nat /\ k >= 1
      /\ \A k \in DOMAIN rest : k \in Nat /\ k >= 1 /\ k + 1 \in DOMAIN todo /\ rest[k] = todo[k + 1]
      /\ \A k \in DOMAIN todo : k # 1 => k - 1 \in DOMAIN rest /\ rest[k - 1] = todo[k]
  BY TailIndex
<1>3. \A o \in Elements(rest) : \E k \in DOMAIN todo : k > 1 /\ o = todo[k]
  <2> SUFFICES ASSUME NEW o \in Elements(rest) PROVE \E k \in DOMAIN todo : k > 1 /\ o = todo[k]
    OBVIOUS
  <2>1. PICK i \in DOMAIN rest : o = rest[i]
    BY DEF Elements
  <2>2. i + 1 \in DOMAIN todo /\ o = todo[i + 1] /\ i + 1 > 1
    BY <1>2, <2>1
  <2> QED
    BY <2>2
<1>4. (\A k \in DOMAIN todo : IsApprovalOp(todo[k]) => k = 1)
        => \A o \in Elements(rest) : ~IsApprovalOp(o)
  BY <1>2, <1>3
<1>5. ASSUME NEW r, NEW v, IsLast(v, rest, IF IsRunOp(t) THEN t.run ELSE r)
      PROVE  IsLast(v, todo, r)
  <2>1. CASE \A o \in Elements(rest) : ~IsRunOp(o)
    <3>1. v = IF IsRunOp(t) THEN t.run ELSE r
      BY <1>5, <2>1, IsLastSame
    <3>2. CASE IsRunOp(t)
      <4>1. \A j \in DOMAIN todo : j > 1 => ~IsRunOp(todo[j])
        <5> SUFFICES ASSUME NEW j \in DOMAIN todo, j > 1 PROVE ~IsRunOp(todo[j])
          OBVIOUS
        <5>1. j - 1 \in DOMAIN rest /\ rest[j - 1] = todo[j]
          BY <1>2
        <5> QED
          BY <2>1, <5>1 DEF Elements
      <4> QED
        BY <1>1, <1>2, <3>1, <3>2, <4>1 DEF IsLast
    <3>3. CASE ~IsRunOp(t)
      BY <1>1, <2>1, <3>1, <3>3 DEF IsLast
    <3> QED
      BY <3>2, <3>3
  <2>2. CASE ~\A o \in Elements(rest) : ~IsRunOp(o)
    <3>1. PICK k \in DOMAIN rest : /\ IsRunOp(rest[k]) /\ v = rest[k].run
                                   /\ \A j \in DOMAIN rest : j > k => ~IsRunOp(rest[j])
      BY <1>5, <2>2 DEF IsLast
    <3>2. k + 1 \in DOMAIN todo /\ todo[k + 1] = rest[k]
      BY <1>2
    <3>3. ASSUME NEW j \in DOMAIN todo, j > k + 1 PROVE ~IsRunOp(todo[j])
      <4>1. j # 1 /\ j - 1 > k
        BY <1>2, <3>3
      <4>2. j - 1 \in DOMAIN rest /\ rest[j - 1] = todo[j]
        BY <1>2, <4>1
      <4> QED
        BY <3>1, <4>1, <4>2
    <3> QED
      BY <3>1, <3>2, <3>3 DEF IsLast
  <2> QED
    BY <2>1, <2>2
<1>6. ASSUME NEW led, Orderly(led, todo)
      PROVE  /\ Orderly(led, rest)
             /\ t.op = "event" => \A o \in Elements(rest) : o.op = "event" => ~Misplaced(t.event, o.event)
  <2>1. ASSUME NEW i \in DOMAIN rest, NEW j \in DOMAIN rest, i < j, rest[i].op = "event",
               rest[j].op = "event"
        PROVE  ~Misplaced(rest[i].event, rest[j].event)
    <3>1. i + 1 \in DOMAIN todo /\ j + 1 \in DOMAIN todo /\ i + 1 < j + 1
          /\ rest[i] = todo[i + 1] /\ rest[j] = todo[j + 1]
      BY <1>2, <2>1
    <3> QED
      BY <1>6, <2>1, <3>1 DEF Orderly
  <2>2. Orderly(led, rest)
    BY <1>1, <1>6, <2>1 DEF Orderly
  <2>3. ASSUME t.op = "event", NEW o \in Elements(rest), o.op = "event"
        PROVE  ~Misplaced(t.event, o.event)
    <3>1. PICK k \in DOMAIN todo : k > 1 /\ o = todo[k]
      BY <1>3
    <3> QED
      BY <1>1, <1>2, <1>6, <2>3, <3>1 DEF Orderly
  <2> QED
    BY <2>2, <2>3
<1>7. ASSUME NEW r, LastCompleted(todo, r)
      PROVE  LastCompleted(rest, IF IsRunOp(t) THEN t.run ELSE r)
  <2>1. ASSUME NEW i \in DOMAIN rest, NEW j \in DOMAIN rest, i < j, IsRunOp(rest[i]),
               rest[i].run.status = "completed"
        PROVE  ~IsRunOp(rest[j])
    <3>1. i + 1 \in DOMAIN todo /\ j + 1 \in DOMAIN todo /\ i + 1 < j + 1
          /\ rest[i] = todo[i + 1] /\ rest[j] = todo[j + 1]
      BY <1>2, <2>1
    <3> QED
      BY <1>7, <2>1, <3>1 DEF LastCompleted
  <2>2. ASSUME IsRunOp(t), t.run.status = "completed", NEW o \in Elements(rest) PROVE ~IsRunOp(o)
    <3>1. PICK k \in DOMAIN todo : k > 1 /\ o = todo[k]
      BY <1>3
    <3> QED
      BY <1>1, <1>2, <1>7, <2>2, <3>1 DEF LastCompleted
  <2>3. ASSUME ~IsRunOp(t), r.status = "completed", NEW o \in Elements(rest) PROVE ~IsRunOp(o)
    BY <1>1, <1>7, <2>3 DEF LastCompleted
  <2> QED
    BY <2>1, <2>2, <2>3 DEF LastCompleted
<1> QED
  BY <1>1, <1>4, <1>5, <1>6, <1>7

\* y is x with the first of its store operations done.
Advanced(x, y) ==
  /\ y.todo = Tail(x.todo) /\ y.pc = x.pc /\ y.p = x.p /\ y.call = x.call
  /\ y.verdict = x.verdict /\ y.run = x.run

\* The state of a handler that has carried out one store operation.
LEMMA Performing ==
  ASSUME Inv, NEW h \in Handler, Perform(h), NEW x, x = handler[h]
  PROVE  /\ x \in HandlerState /\ x # Idle /\ x.todo \in Seq(Operation) /\ x.todo # << >>
         /\ \E y \in HandlerState : handler' = [handler EXCEPT ![h] = y] /\ Advanced(x, y)
<1>1. x \in HandlerState /\ x.todo # << >> /\ handler' = [handler EXCEPT ![h].todo = Tail(@)]
  BY Types DEF Perform
<1>2. x.todo \in Seq(Operation) /\ x # Idle
  BY <1>1 DEF HandlerState, Idle
<1>3. PICK rest : rest = Tail(x.todo)
  OBVIOUS
<1>4. rest \in Seq(Operation)
  BY <1>1, <1>2, <1>3
<1>5. PICK y : y = [x EXCEPT !.todo = rest]
  OBVIOUS
<1>6. y \in HandlerState /\ y.todo = rest /\ y.pc = x.pc /\ y.p = x.p /\ y.call = x.call
      /\ y.verdict = x.verdict /\ y.run = x.run
  BY <1>1, <1>4, <1>5 DEF HandlerState
<1>7. handler' = [handler EXCEPT ![h] = y]
  BY <1>1, <1>3, <1>5
<1> QED
  BY <1>1, <1>2, <1>3, <1>6, <1>7 DEF Advanced

\* A handler still fits when the first of its operations is done.
LEMMA AdvancedFits ==
  ASSUME NEW x, NEW y, x.todo \in Seq(Operation), x.todo # << >>, Advanced(x, y),
         NEW t, t = Head(x.todo), NEW s, NEW s2, NEW ap, NEW ap2, NEW led, NEW led2,
         HandlerFits(x, s, ap, led), Started(s) => Started(s2), ap \subseteq ap2,
         Elements(led) \subseteq Elements(led2), t.op = "run" => Started(s2),
         t.op = "event" => t.event \in Elements(led2)
  PROVE  HandlerFits(y, s2, ap2, led2)
<1>1. PICK todo : todo = x.todo
  OBVIOUS
<1>2. PICK rest : rest = Tail(todo)
  OBVIOUS
<1>3. /\ y.todo = rest /\ y.pc = x.pc /\ y.p = x.p /\ y.run = x.run
  BY <1>1, <1>2 DEF Advanced
<1>4. t = todo[1] /\ Elements(rest) \subseteq Elements(todo)
  BY <1>1, <1>2, TailFits
<1>5. ASSUME y.pc \in Past \/ (\E o \in Elements(y.todo) : o.op = "approval") PROVE Started(s2)
  <2>1. x.pc \in Past \/ (\E o \in Elements(x.todo) : o.op = "approval")
    BY <1>1, <1>3, <1>4, <1>5
  <2>2. Started(s) \/ t.op = "run"
    BY <1>1, <1>4, <2>1 DEF HandlerFits
  <2> QED
    BY <2>2
<1>6. ASSUME NEW o \in Elements(y.todo), o.op = "event", o.event.type = "commitment_recorded"
      PROVE  Event("tool_invoked", o.event.turn, o.event.p) \in Elements(led2)
  <2>1. PICK e : e = Event("tool_invoked", o.event.turn, o.event.p)
    OBVIOUS
  <2>2. o \in Elements(x.todo)
    BY <1>1, <1>3, <1>4, <1>6
  <2>3. e \in Elements(led) \/ t = [op |-> "event", event |-> e]
    BY <1>1, <1>4, <1>6, <2>1, <2>2 DEF HandlerFits
  <2>4. ASSUME t = [op |-> "event", event |-> e] PROVE e \in Elements(led2)
    <3>1. t.op = "event" /\ t.event = e
      BY <2>4
    <3> QED
      BY <3>1
  <2> QED
    BY <2>1, <2>3, <2>4
<1>7. \A o \in Elements(y.todo) : o.op = "run" => Started(o.run.status)
  BY <1>1, <1>3, <1>4 DEF HandlerFits
<1> QED
  BY <1>3, <1>5, <1>6, <1>7 DEF HandlerFits

\* A run that is stored, or an event, leaves the order of things as it was.
LEMMA AdvancedOrderly ==
  ASSUME NEW x, NEW y, x.todo \in Seq(Operation), x.todo # << >>, Advanced(x, y),
         NEW t, t = Head(x.todo), NEW r, NEW r2, r2 = IF IsRunOp(t) THEN t.run ELSE r,
         NEW apps, NEW led, NEW led2, NEW eff, NEW cs,
         Elements(led2) \subseteq Elements(led) \cup {t.event},
         t.op # "event" => led2 = led,
         OrderlyFits(x, r, apps, led, eff, cs), Orderly(led2, y.todo)
  PROVE  OrderlyFits(y, r2, apps, led2, eff, cs)
<1>1. PICK todo : todo = x.todo
  OBVIOUS
<1>2. PICK rest : rest = Tail(todo)
  OBVIOUS
<1>3. y.todo = rest /\ y.pc = x.pc /\ y.p = x.p /\ y.call = x.call /\ y.run = x.run
  BY <1>1, <1>2 DEF Advanced
<1>4. t \in Elements(todo) /\ Elements(rest) \subseteq Elements(todo)
  BY <1>1, <1>2, TailFits
<1>5. \A v : IsLast(v, rest, r2) => IsLast(v, todo, r)
  BY <1>1, <1>2, TailFits
<1>6. \A e : Told(e, led2, rest) => Told(e, led, todo)
  BY <1>4 DEF Told
<1>7. LastCompleted(rest, r2)
  BY <1>1, <1>2, TailFits DEF OrderlyFits
<1>8. ASSUME NEW v \in Run, IsLast(v, y.todo, r2)
      PROVE  /\ CallsFit(v, y, apps, cs) /\ RequestFits(v, y, apps, eff)
             /\ EffectsFit(v, y, apps, eff) /\ TurnsFit(v, y, led2, eff)
  <2>1. /\ CallsFit(v, x, apps, cs) /\ RequestFits(v, x, apps, eff)
        /\ EffectsFit(v, x, apps, eff) /\ TurnsFit(v, x, led, eff)
    BY <1>1, <1>3, <1>5, <1>8 DEF OrderlyFits
  <2>2. CallsFit(v, y, apps, cs)
    BY <1>1, <1>3, <1>4, <2>1 DEF CallsFit
  <2>3. RequestFits(v, y, apps, eff)
    BY <1>3, <2>1 DEF RequestFits
  <2>4. EffectsFit(v, y, apps, eff)
    BY <1>3, <2>1 DEF EffectsFit
  <2>5. TurnsFit(v, y, led2, eff)
    BY <1>1, <1>3, <1>6, <2>1 DEF TurnsFit
  <2> QED
    BY <2>2, <2>3, <2>4, <2>5
<1> QED
  BY <1>3, <1>7, <1>8 DEF OrderlyFits

\* A run that is stored, or an event, agrees with the proposals as before.
LEMMA AdvancedSolo ==
  ASSUME NEW x, NEW y, x.todo \in Seq(Operation), x.todo # << >>, Advanced(x, y),
         NEW t, t = Head(x.todo), ~IsApprovalOp(t), NEW apps, NEW led, NEW led2, NEW eff,
         Elements(led2) \subseteq Elements(led) \cup {t.event},
         t.op # "event" => led2 = led, SoloFits(x, apps, led, eff)
  PROVE  SoloFits(y, apps, led2, eff)
<1>1. PICK todo : todo = x.todo
  OBVIOUS
<1>2. PICK rest : rest = Tail(todo)
  OBVIOUS
<1>3. y.todo = rest /\ y.pc = x.pc /\ y.p = x.p /\ y.verdict = x.verdict
  BY <1>1, <1>2 DEF Advanced
<1>4. /\ t = todo[1] /\ t \in Elements(todo) /\ Elements(rest) \subseteq Elements(todo)
      /\ \A o \in Elements(todo) : o = t \/ o \in Elements(rest)
  BY <1>1, <1>2, TailFits
<1>5. \A o \in Elements(rest) : ~IsApprovalOp(o)
  <2>1. \A k \in DOMAIN todo : IsApprovalOp(todo[k]) => k = 1
    BY <1>1 DEF SoloFits
  <2> QED
    BY <1>1, <1>2, <2>1, TailFits
<1>6. \A o \in Elements(todo) : ~IsApprovalOp(o)
  BY <1>4, <1>5
<1>7. \A k \in DOMAIN rest : ~IsApprovalOp(rest[k])
  BY <1>5 DEF Elements
<1>8. \A e : Told(e, led2, rest) => Told(e, led, todo)
  BY <1>4 DEF Told
<1>9. \A p \in Proposal : Told(Event("proposal_denied", 0, p), led2, y.todo)
                            => apps[p].status = "denied"
  BY <1>1, <1>3, <1>8 DEF SoloFits
<1>10. y.pc = "decided" => apps[y.p].status = y.verdict
  BY <1>1, <1>3, <1>6 DEF SoloFits
<1>11. y.pc = "invoke" => apps[y.p].status = "approved"
  BY <1>3 DEF SoloFits
<1>12. \A i \in DOMAIN eff : apps[eff[i].p].status = "approved"
  BY DEF SoloFits
<1> QED
  BY <1>3, <1>5, <1>7, <1>9, <1>10, <1>11, <1>12 DEF SoloFits

\* The UPDATE of a run keeps the invariant.
LEMMA PerformRunKeeps ==
  ASSUME Inv, NEW h \in Handler, Perform(h), Head(handler[h].todo).op = "run"
  PROVE  Inv'
<1>1. PICK x : x = handler[h]
  OBVIOUS
<1>2. PICK t : t = Head(x.todo)
  OBVIOUS
<1>3. /\ x \in HandlerState /\ x # Idle /\ x.todo \in Seq(Operation) /\ x.todo # << >>
      /\ \E y \in HandlerState : handler' = [handler EXCEPT ![h] = y] /\ Advanced(x, y)
  BY <1>1, Performing
<1>4. PICK y \in HandlerState : handler' = [handler EXCEPT ![h] = y] /\ Advanced(x, y)
  BY <1>3
<1>5. t.op = "run" /\ IsRunOp(t) /\ ~IsApprovalOp(t)
  BY <1>1, <1>2 DEF IsRunOp, IsApprovalOp
<1>6. run' = t.run /\ approvals' = approvals /\ ledger' = ledger /\ approved' = approved
      /\ effects' = effects /\ calls' = calls
  BY <1>1, <1>2, <1>5 DEF Perform
<1>7. UNCHANGED <<requests, overlapped, stops>>
  BY DEF Perform
<1>8. t \in Operation /\ t \in Elements(x.todo)
  <2>1. PICK rest : rest = Tail(x.todo)
    OBVIOUS
  <2> QED
    BY <1>2, <1>3, <2>1, TailFits
<1>9. HandlerFits(x, run.status, approved, ledger)
  BY <1>1 DEF Inv, HandlersFit
<1>10. run' \in Run /\ Started(run'.status)
  BY <1>5, <1>6, <1>8, <1>9, OperationParts DEF HandlerFits
<1>11. HandlerFits(y, run'.status, approved', ledger')
  BY <1>2, <1>3, <1>4, <1>5, <1>6, <1>9, <1>10, AdvancedFits
<1>12. ProposalsFit' /\ FreshRun' /\ LedgerFits(ledger') /\ ApprovedBeforeEffect'
  BY <1>6, <1>10 DEF Inv, ProposalsFit, FreshRun, ApprovedBeforeEffect
<1>13. /\ requests' \in 0..MaxRequests /\ overlapped' \in BOOLEAN /\ stops' \in 0..MaxStops
       /\ ~overlapped' => Solo(h) /\ SoloFits(x, approvals, ledger, effects)
       /\ Undisturbed' /\ ToolsDiffer =>
            OrderlyFits(x, run, approvals, ledger, effects, calls)
  BY <1>1, <1>3, <1>7, GoingOn
<1>14. ASSUME SoloFits(x, approvals, ledger, effects)
       PROVE  SoloFits(y, approvals', ledger', effects')
  BY <1>2, <1>3, <1>4, <1>5, <1>6, <1>14, AdvancedSolo
<1>15. ASSUME OrderlyFits(x, run, approvals, ledger, effects, calls)
       PROVE  OrderlyFits(y, run', approvals', ledger', effects', calls')
  <2>1. Orderly(ledger, x.todo)
    BY <1>15 DEF OrderlyFits
  <2>2. PICK rest : rest = Tail(x.todo)
    OBVIOUS
  <2>3. Orderly(ledger, rest)
    BY <1>2, <1>3, <2>1, <2>2, TailFits
  <2>4. Orderly(ledger', y.todo)
    BY <1>4, <1>6, <2>2, <2>3 DEF Advanced
  <2>5. run' = IF IsRunOp(t) THEN t.run ELSE run
    BY <1>5, <1>6
  <2> QED
    BY <1>2, <1>3, <1>4, <1>5, <1>6, <1>15, <2>4, <2>5, AdvancedOrderly
<1>16. ToolsDiffer' => ToolsDiffer
  BY <1>6 DEF ToolsDiffer
<1>17. /\ approvals' \in [Proposal -> Approval] /\ ledger' \in Seq(LedgerEvent)
       /\ effects' \in Seq([p : Proposal, call : Call]) /\ approved' \subseteq Proposal
       /\ calls' \in Seq(STRING) /\ Len(calls') <= MaxCalls
  BY <1>6, Types
<1> QED
  BY <1>4, <1>6, <1>10, <1>11, <1>12, <1>13, <1>14, <1>15, <1>16, <1>17, StepKeeps

\* _append_once keeps the invariant: the event is new, and what must precede it
\* is in the ledger.
LEMMA PerformEventKeeps ==
  ASSUME Inv, NEW h \in Handler, Perform(h), Head(handler[h].todo).op = "event"
  PROVE  Inv'
<1>1. PICK x : x = handler[h]
  OBVIOUS
<1>2. PICK t : t = Head(x.todo)
  OBVIOUS
<1>3. /\ x \in HandlerState /\ x # Idle /\ x.todo \in Seq(Operation) /\ x.todo # << >>
      /\ \E y \in HandlerState : handler' = [handler EXCEPT ![h] = y] /\ Advanced(x, y)
  BY <1>1, Performing
<1>4. PICK y \in HandlerState : handler' = [handler EXCEPT ![h] = y] /\ Advanced(x, y)
  BY <1>3
<1>5. t.op = "event" /\ ~IsRunOp(t) /\ ~IsApprovalOp(t)
  BY <1>1, <1>2 DEF IsRunOp, IsApprovalOp
<1>6. AppendOnce(t.event) /\ run' = run /\ approvals' = approvals /\ approved' = approved
      /\ effects' = effects /\ calls' = calls
  BY <1>1, <1>2, <1>5 DEF Perform
<1>7. UNCHANGED <<requests, overlapped, stops>>
  BY DEF Perform
<1>8. t \in Operation /\ t \in Elements(x.todo)
  <2>1. PICK rest : rest = Tail(x.todo)
    OBVIOUS
  <2> QED
    BY <1>2, <1>3, <2>1, TailFits
<1>9. HandlerFits(x, run.status, approved, ledger)
  BY <1>1 DEF Inv, HandlersFit
<1>10. PICK e : e = t.event
  OBVIOUS
<1>11. e \in LedgerEvent /\ t = [op |-> "event", event |-> e]
  BY <1>5, <1>8, <1>10, OperationParts
<1>12. ledger \in Seq(LedgerEvent) /\ Len(ledger) \in Nat /\ DOMAIN ledger = 1..Len(ledger)
  <2>1. ledger \in Seq(LedgerEvent)
    BY Types
  <2> QED
    BY <2>1
<1>13. \/ ledger' = ledger /\ e \in Elements(ledger)
       \/ /\ ledger' = Append(ledger, e) /\ e \notin Elements(ledger)
  BY <1>6, <1>10 DEF AppendOnce, Recorded, Elements
<1>14. /\ Append(ledger, e) \in Seq(LedgerEvent)
       /\ Elements(Append(ledger, e)) = Elements(ledger) \cup {e}
       /\ Len(Append(ledger, e)) = Len(ledger) + 1 /\ Append(ledger, e)[Len(ledger) + 1] = e
       /\ \A i \in 1..Len(ledger) : Append(ledger, e)[i] = ledger[i]
  BY <1>11, <1>12, ElementsOfAppend
<1>15. ledger' \in Seq(LedgerEvent) /\ Elements(ledger') = Elements(ledger) \cup {e}
  BY <1>12, <1>13, <1>14
<1>16. PICK rest : rest = Tail(x.todo)
  OBVIOUS
<1>17. LedgerFits(ledger')
  <2>1. LedgerFits(ledger)
    BY DEF Inv
  <2>2. CASE ledger' = Append(ledger, e) /\ e \notin Elements(ledger)
    <3>1. PICK n : n = Len(ledger) + 1
      OBVIOUS
    <3>2. /\ n \in Nat /\ DOMAIN ledger' = 1..n /\ ledger'[n] = e
          /\ \A i \in 1..n : i # n => i \in 1..Len(ledger) /\ ledger'[i] = ledger[i]
      BY <1>12, <1>14, <1>15, <2>2, <3>1
    <3>3. \A i \in 1..n : i # n => ledger'[i] \in Elements(ledger)
      BY <1>12, <3>2 DEF Elements
    <3>4. ASSUME NEW i \in 1..n, NEW j \in 1..n, ledger'[i] = ledger'[j] PROVE i = j
      <4>1. CASE i # n /\ j # n
        BY <1>12, <2>1, <3>2, <3>4, <4>1 DEF LedgerFits
      <4>2. CASE i = n \/ j = n
        BY <2>2, <3>2, <3>3, <3>4, <4>2
      <4> QED
        BY <4>1, <4>2
    <3>5. ASSUME NEW i \in 1..n, ledger'[i].type = "commitment_recorded"
          PROVE  \E k \in 1..(i - 1) : ledger'[k] = Event("tool_invoked", ledger'[i].turn, ledger'[i].p)
      <4>1. PICK d : d = Event("tool_invoked", ledger'[i].turn, ledger'[i].p)
        OBVIOUS
      <4>2. d.type = "tool_invoked"
        BY <4>1 DEF Event
      <4>3. CASE i # n
        <5>1. i \in DOMAIN ledger /\ ledger'[i] = ledger[i]
          BY <1>12, <3>2, <4>3
        <5>2. PICK k \in 1..(i - 1) : ledger[k] = d
          BY <2>1, <3>5, <4>1, <5>1 DEF LedgerFits
        <5>3. k \in 1..n /\ k # n
          BY <3>2, <4>3, <5>2
        <5> QED
          BY <3>2, <4>1, <5>2, <5>3
      <4>4. CASE i = n
        <5>1. d \in Elements(ledger) \/ x.todo[1] = [op |-> "event", event |-> d]
          BY <1>5, <1>8, <1>9, <1>10, <3>2, <3>5, <4>1, <4>4 DEF HandlerFits
        <5>2. x.todo[1] = t
          BY <1>2, <1>3, <1>16, TailFits
        <5>3. t.event # d
          BY <1>10, <3>2, <3>5, <4>2, <4>4
        <5>4. d \in Elements(ledger)
          BY <5>1, <5>2, <5>3
        <5>5. PICK k \in 1..Len(ledger) : ledger[k] = d
          BY <1>12, <5>4 DEF Elements
        <5>6. k \in 1..(i - 1) /\ k \in 1..n /\ k # n
          BY <1>12, <3>1, <4>4, <5>5
        <5> QED
          BY <3>2, <4>1, <5>5, <5>6
      <4> QED
        BY <4>3, <4>4
    <3> QED
      BY <3>2, <3>4, <3>5 DEF LedgerFits
  <2> QED
    BY <1>13, <2>1, <2>2
<1>18. ASSUME Orderly(ledger, x.todo) PROVE Orderly(ledger', y.todo)
  <2>1. /\ Orderly(ledger, rest) /\ Elements(rest) \subseteq Elements(x.todo)
        /\ \A o \in Elements(rest) : o.op = "event" => ~Misplaced(e, o.event)
    BY <1>2, <1>3, <1>5, <1>10, <1>16, <1>18, TailFits
  <2>2. y.todo = rest
    BY <1>4, <1>16 DEF Advanced
  <2>3. CASE ledger' = Append(ledger, e) /\ e \notin Elements(ledger)
    <3>1. PICK n : n = Len(ledger) + 1
      OBVIOUS
    <3>2. /\ n \in Nat /\ DOMAIN ledger' = 1..n /\ ledger'[n] = e
          /\ \A i \in 1..n : i # n => i \in DOMAIN ledger /\ ledger'[i] = ledger[i]
      BY <1>12, <1>14, <1>15, <2>3, <3>1
    <3>3. \A i \in DOMAIN ledger : ~Misplaced(ledger[i], e)
      BY <1>5, <1>8, <1>10, <1>18 DEF Orderly
    <3>4. ~Misplaced(e, e)
      BY DEF Misplaced
    <3>5. ASSUME NEW i \in 1..n, NEW j \in 1..n, Misplaced(ledger'[i], ledger'[j]) PROVE j < i
      <4>1. CASE i # n /\ j # n
        BY <2>1, <3>2, <3>5, <4>1 DEF Orderly
      <4>2. CASE i = n /\ j # n
        BY <3>2, <4>2
      <4>3. CASE j = n
        BY <3>2, <3>3, <3>4, <3>5, <4>3
      <4> QED
        BY <4>1, <4>2, <4>3
    <3>6. ASSUME NEW i \in 1..n, NEW o \in Elements(rest), o.op = "event"
          PROVE  ~Misplaced(ledger'[i], o.event)
      <4>1. CASE i # n
        BY <2>1, <3>2, <3>6, <4>1 DEF Orderly
      <4>2. CASE i = n
        BY <2>1, <3>2, <3>6, <4>2
      <4> QED
        BY <4>1, <4>2
    <3>7. \A i, j \in DOMAIN rest : i < j /\ rest[i].op = "event" /\ rest[j].op = "event"
                                   => ~Misplaced(rest[i].event, rest[j].event)
      BY <2>1 DEF Orderly
    <3>8. Orderly(ledger', rest)
      BY <3>2, <3>5, <3>6, <3>7 DEF Orderly
    <3> QED
      BY <2>2, <3>8
  <2> QED
    BY <1>13, <2>1, <2>2, <2>3
<1>19. HandlerFits(y, run'.status, approved', ledger')
  <2>1. /\ Started(run.status) => Started(run'.status) /\ approved \subseteq approved'
        /\ Elements(ledger) \subseteq Elements(ledger')
    BY <1>6, <1>15
  <2>2. t.op # "run" /\ t.event \in Elements(ledger')
    BY <1>5, <1>10, <1>15
  <2> QED
    BY <1>2, <1>3, <1>4, <1>6, <1>9, <1>15, <2>1, <2>2, AdvancedFits
<1>20. ProposalsFit' /\ FreshRun' /\ ApprovedBeforeEffect'
  BY <1>6 DEF Inv, ProposalsFit, FreshRun, ApprovedBeforeEffect
<1>21. /\ requests' \in 0..MaxRequests /\ overlapped' \in BOOLEAN /\ stops' \in 0..MaxStops
       /\ ~overlapped' => Solo(h) /\ SoloFits(x, approvals, ledger, effects)
       /\ Undisturbed' /\ ToolsDiffer =>
            OrderlyFits(x, run, approvals, ledger, effects, calls)
  BY <1>1, <1>3, <1>7, GoingOn
<1>22. Elements(ledger') \subseteq Elements(ledger) \cup {t.event}
  BY <1>10, <1>15
<1>23. ASSUME SoloFits(x, approvals, ledger, effects)
       PROVE  SoloFits(y, approvals', ledger', effects')
  BY <1>2, <1>3, <1>4, <1>5, <1>6, <1>22, <1>23, AdvancedSolo
<1>24. ASSUME OrderlyFits(x, run, approvals, ledger, effects, calls)
       PROVE  OrderlyFits(y, run', approvals', ledger', effects', calls')
  <2>1. Orderly(ledger', y.todo)
    BY <1>18, <1>24 DEF OrderlyFits
  <2>2. run' = IF IsRunOp(t) THEN t.run ELSE run
    BY <1>5, <1>6
  <2> QED
    BY <1>2, <1>3, <1>4, <1>5, <1>6, <1>22, <1>24, <2>1, <2>2, AdvancedOrderly
<1>25. ToolsDiffer' => ToolsDiffer
  BY <1>6 DEF ToolsDiffer
<1>26. /\ run' \in Run /\ approvals' \in [Proposal -> Approval]
       /\ effects' \in Seq([p : Proposal, call : Call]) /\ approved' \subseteq Proposal
       /\ calls' \in Seq(STRING) /\ Len(calls') <= MaxCalls
  BY <1>6, Types
<1> QED
  BY <1>4, <1>6, <1>15, <1>17, <1>19, <1>20, <1>21, <1>23, <1>24, <1>25, <1>26, StepKeeps

\* The proposal a request stores: a new one, or the decision on a pending one.
LEMMA ApprovalStored ==
  ASSUME NEW x \in HandlerState, NEW t \in Elements(x.todo), t.op = "approval",
         NEW apps, NEW led, NEW eff, SoloFits(x, apps, led, eff)
  PROVE  /\ x.pc \in {"idle", "decided"} /\ apps[t.p].status \in {"none", "pending"}
         /\ x.pc = "decided" => t.p = x.p /\ t.to.status = x.verdict /\ x.verdict \in Verdict
<1>1. IsApprovalOp(t)
  BY DEF IsApprovalOp
<1>2. \/ t.to.status = "pending" /\ apps[t.p].status = "none" /\ x.pc = "idle"
      \/ /\ t.to = [status |-> x.verdict, call |-> apps[t.p].call]
         /\ apps[t.p].status = "pending" /\ x.pc = "decided" /\ t.p = x.p
  BY <1>1 DEF SoloFits
<1>3. x.verdict \in Verdict
  BY DEF HandlerState
<1> QED
  BY <1>2, <1>3

\* The write of a proposal keeps the invariant: it is new, or decided for the
\* first time, and for the last call.
LEMMA PerformApprovalKeeps ==
  ASSUME Inv, NEW h \in Handler, Perform(h), Head(handler[h].todo).op = "approval"
  PROVE  Inv'
<1>1. PICK x : x = handler[h]
  OBVIOUS
<1>2. PICK t : t = Head(x.todo)
  OBVIOUS
<1>3. /\ x \in HandlerState /\ x # Idle /\ x.todo \in Seq(Operation) /\ x.todo # << >>
      /\ \E y \in HandlerState : handler' = [handler EXCEPT ![h] = y] /\ Advanced(x, y)
  BY <1>1, Performing
<1>4. PICK y \in HandlerState : handler' = [handler EXCEPT ![h] = y] /\ Advanced(x, y)
  BY <1>3
<1>5. t.op = "approval" /\ ~IsRunOp(t) /\ IsApprovalOp(t)
  BY <1>1, <1>2 DEF IsRunOp, IsApprovalOp
<1>6. /\ approvals' = [approvals EXCEPT ![t.p] = t.to]
      /\ approved' = IF t.to.status = "approved" THEN approved \cup {t.p} ELSE approved
      /\ run' = run /\ ledger' = ledger /\ effects' = effects /\ calls' = calls
  BY <1>1, <1>2, <1>5 DEF Perform
<1>7. UNCHANGED <<requests, overlapped, stops>>
  BY DEF Perform
<1>8. PICK rest : rest = Tail(x.todo)
  OBVIOUS
<1>9. /\ t \in Operation /\ t \in Elements(x.todo) /\ t = x.todo[1]
      /\ Elements(rest) \subseteq Elements(x.todo)
  BY <1>2, <1>3, <1>8, TailFits
<1>10. HandlerFits(x, run.status, approved, ledger)
  BY <1>1 DEF Inv, HandlersFit
<1>11. PICK q : q = t.p
  OBVIOUS
<1>12. q \in Proposal /\ t.to \in Approval
  BY <1>5, <1>9, <1>11, OperationParts
<1>13. /\ approvals' \in [Proposal -> Approval] /\ approvals'[q] = t.to
       /\ \A p \in Proposal : p # q => approvals'[p] = approvals[p]
  BY <1>6, <1>11, <1>12, Types
<1>14. /\ approved' \subseteq Proposal /\ approved \subseteq approved'
       /\ t.to.status = "approved" => q \in approved'
  BY <1>6, <1>11, <1>12, Types
<1>15. Started(run.status)
  BY <1>5, <1>9, <1>10 DEF HandlerFits
<1>16. HandlerFits(y, run'.status, approved', ledger')
  BY <1>2, <1>3, <1>4, <1>5, <1>6, <1>10, <1>14, AdvancedFits
<1>17. ProposalsFit'
  BY <1>6, <1>13, <1>14, <1>15 DEF Inv, ProposalsFit
<1>18. FreshRun' /\ LedgerFits(ledger') /\ ApprovedBeforeEffect'
  BY <1>6, <1>14 DEF Inv, FreshRun, ApprovedBeforeEffect
<1>19. /\ requests' \in 0..MaxRequests /\ overlapped' \in BOOLEAN /\ stops' \in 0..MaxStops
       /\ ~overlapped' => Solo(h) /\ SoloFits(x, approvals, ledger, effects)
       /\ Undisturbed' /\ ToolsDiffer =>
            OrderlyFits(x, run, approvals, ledger, effects, calls)
  BY <1>1, <1>3, <1>7, GoingOn
<1>20. y.todo = rest /\ y.pc = x.pc /\ y.p = x.p /\ y.call = x.call /\ y.run = x.run
       /\ y.verdict = x.verdict
  BY <1>4, <1>8 DEF Advanced
<1>21. \A e : Told(e, ledger, rest) => Told(e, ledger, x.todo)
  BY <1>9 DEF Told
<1>22. effects \in Seq([p : Proposal, call : Call])
       /\ \A i \in DOMAIN effects : effects[i].p \in Proposal
  BY Types, EffectTypes
<1>23. ASSUME SoloFits(x, approvals, ledger, effects)
       PROVE  /\ \A o \in Elements(rest) : ~IsApprovalOp(o)
              /\ x.pc \in {"idle", "decided"} /\ approvals[q].status \in {"none", "pending"}
              /\ x.pc = "decided" => q = x.p /\ t.to.status = x.verdict /\ x.verdict \in Verdict
              /\ \A i \in DOMAIN effects : effects[i].p # q
  <2>1. \A k \in DOMAIN x.todo : IsApprovalOp(x.todo[k]) => k = 1
    BY <1>23 DEF SoloFits
  <2>2. \A o \in Elements(rest) : ~IsApprovalOp(o)
    BY <1>2, <1>3, <1>8, <2>1, TailFits
  <2>3. /\ x.pc \in {"idle", "decided"} /\ approvals[q].status \in {"none", "pending"}
        /\ x.pc = "decided" => q = x.p /\ t.to.status = x.verdict /\ x.verdict \in Verdict
    BY <1>3, <1>5, <1>9, <1>11, <1>23, ApprovalStored
  <2>4. \A i \in DOMAIN effects : effects[i].p # q
    BY <1>23, <2>3 DEF SoloFits
  <2> QED
    BY <2>2, <2>3, <2>4
<1>24. ASSUME SoloFits(x, approvals, ledger, effects)
       PROVE  SoloFits(y, approvals', ledger', effects')
  <2>1. /\ \A o \in Elements(rest) : ~IsApprovalOp(o)
        /\ x.pc \in {"idle", "decided"} /\ approvals[q].status \in {"none", "pending"}
        /\ x.pc = "decided" => q = x.p /\ t.to.status = x.verdict /\ x.verdict \in Verdict
        /\ \A i \in DOMAIN effects : effects[i].p # q
    BY <1>23, <1>24
  <2>2. \A k \in DOMAIN rest : ~IsApprovalOp(rest[k])
    BY <2>1 DEF Elements
  <2>3. y.pc # "invoke" /\ (y.pc = "decided" => approvals'[y.p].status = y.verdict)
    BY <1>13, <1>20, <2>1
  <2>4. ASSUME NEW p \in Proposal, Told(Event("proposal_denied", 0, p), ledger, y.todo)
        PROVE  approvals'[p].status = "denied"
    <3>1. approvals[p].status = "denied"
      BY <1>20, <1>21, <1>24, <2>4 DEF SoloFits
    <3> QED
      BY <1>13, <2>1, <3>1
  <2>5. \A i \in DOMAIN effects : approvals'[effects[i].p].status = "approved"
    BY <1>13, <1>22, <1>24, <2>1 DEF SoloFits
  <2> QED
    BY <1>6, <1>20, <2>1, <2>2, <2>3, <2>4, <2>5 DEF SoloFits
<1>25. ASSUME OrderlyFits(x, run, approvals, ledger, effects, calls),
              SoloFits(x, approvals, ledger, effects)
       PROVE  OrderlyFits(y, run', approvals', ledger', effects', calls')
  <2>1. /\ \A o \in Elements(rest) : ~IsApprovalOp(o)
        /\ x.pc \in {"idle", "decided"} /\ approvals[q].status \in {"none", "pending"}
        /\ x.pc = "decided" => q = x.p /\ t.to.status = x.verdict /\ x.verdict \in Verdict
        /\ \A i \in DOMAIN effects : effects[i].p # q
    BY <1>23, <1>25
  <2>2. \A v : IsLast(v, rest, run) => IsLast(v, x.todo, run)
    <3>1. PICK r : r = IF IsRunOp(t) THEN t.run ELSE run
      OBVIOUS
    <3>2. r = run
      BY <1>5, <3>1
    <3>3. \A v : IsLast(v, rest, r) => IsLast(v, x.todo, run)
      BY <1>2, <1>3, <1>8, <3>1, TailFits
    <3> QED
      BY <3>2, <3>3
  <2>3. Orderly(ledger, rest) /\ LastCompleted(rest, run)
    <3>1. PICK r : r = IF IsRunOp(t) THEN t.run ELSE run
      OBVIOUS
    <3>2. r = run
      BY <1>5, <3>1
    <3>3. Orderly(ledger, x.todo) /\ LastCompleted(x.todo, run)
      BY <1>25 DEF OrderlyFits
    <3>4. Orderly(ledger, rest) /\ LastCompleted(rest, r)
      BY <1>2, <1>3, <1>8, <3>1, <3>3, TailFits
    <3> QED
      BY <3>2, <3>4
  <2>4. ASSUME NEW v \in Run, IsLast(v, y.todo, run)
        PROVE  /\ CallsFit(v, y, approvals', calls) /\ RequestFits(v, y, approvals', effects)
               /\ EffectsFit(v, y, approvals', effects) /\ TurnsFit(v, y, ledger, effects)
    <3>1. /\ CallsFit(v, x, approvals, calls) /\ RequestFits(v, x, approvals, effects)
          /\ EffectsFit(v, x, approvals, effects) /\ TurnsFit(v, x, ledger, effects)
      BY <1>20, <1>25, <2>2, <2>4 DEF OrderlyFits
    <3>2. /\ Open(v) /\ v.call = t.to.call /\ t.to.call \in 1..Len(calls)
          /\ \A p \in Proposal \ {q} : Known(approvals[p]) => approvals[p].call # t.to.call
      BY <1>5, <1>9, <1>11, <3>1 DEF CallsFit
    <3>3. CallsFit(v, y, approvals', calls)
      <4>1. v.call <= Len(calls)
        BY <3>1 DEF CallsFit
      <4>2. \A p \in Proposal : Known(approvals'[p]) => approvals'[p].call \in 1..Len(calls)
        BY <1>13, <3>1, <3>2 DEF CallsFit
      <4>3. ASSUME NEW p1 \in Proposal, NEW p2 \in Proposal, Known(approvals'[p1]),
                   Known(approvals'[p2]), approvals'[p1].call = approvals'[p2].call
            PROVE  p1 = p2
        BY <1>13, <3>1, <3>2, <4>3 DEF CallsFit
      <4>4. \A p \in Proposal : approvals'[p].status = "pending" =>
                                  Open(v) /\ v.call = approvals'[p].call
        BY <1>13, <3>1, <3>2 DEF CallsFit
      <4>5. \A p \in Proposal : approvals'[p].status = "denied" =>
                                  y.pc # "model" /\ v.call = approvals'[p].call
        BY <1>13, <1>20, <2>1, <3>1, <3>2 DEF CallsFit
      <4> QED
        BY <1>20, <2>1, <4>1, <4>2, <4>3, <4>4, <4>5 DEF CallsFit
    <3>4. RequestFits(v, y, approvals', effects)
      <4>1. y.pc \notin {"model", "request", "propose", "invoke"}
        BY <1>20, <2>1
      <4>2. ASSUME y.pc = "decided"
            PROVE  /\ Open(v) /\ v.call = approvals'[y.p].call /\ Known(approvals'[y.p])
                   /\ ~Spent(v.call, effects)
        <5>1. y.p = q /\ approvals'[q].status \in Verdict
          BY <1>13, <1>20, <2>1, <4>2
        <5>2. Known(approvals'[q])
          BY <5>1 DEF Known, Verdict
        <5>3. ~Spent(v.call, effects)
          BY <1>20, <3>1, <4>2 DEF RequestFits
        <5> QED
          BY <1>13, <3>2, <5>1, <5>2, <5>3
      <4> QED
        BY <4>1, <4>2 DEF RequestFits
    <3>5. EffectsFit(v, y, approvals', effects)
      BY <1>13, <1>20, <1>22, <2>1, <3>1 DEF EffectsFit
    <3>6. TurnsFit(v, y, ledger, effects)
      BY <1>20, <1>21, <3>1 DEF TurnsFit
    <3> QED
      BY <3>3, <3>4, <3>5, <3>6
  <2> QED
    BY <1>6, <1>20, <2>3, <2>4 DEF OrderlyFits
<1>26. ToolsDiffer' => ToolsDiffer
  BY <1>6 DEF ToolsDiffer
<1>27. ~overlapped' => Solo(h) /\ SoloFits(y, approvals', ledger', effects')
  BY <1>19, <1>24
<1>28. Undisturbed' /\ ToolsDiffer' => OrderlyFits(y, run', approvals', ledger', effects', calls')
  <2>1. Undisturbed' => ~overlapped'
    BY DEF Undisturbed
  <2> QED
    BY <1>19, <1>25, <1>26, <2>1
<1>29. /\ run' \in Run /\ ledger' \in Seq(LedgerEvent)
       /\ effects' \in Seq([p : Proposal, call : Call])
       /\ calls' \in Seq(STRING) /\ Len(calls') <= MaxCalls
  BY <1>6, Types
<1> QED
  BY <1>4, <1>6, <1>13, <1>14, <1>16, <1>17, <1>18, <1>19, <1>27, <1>28, <1>29, StepKeeps

\* Every store operation keeps the invariant.
LEMMA PerformKeeps ==
  ASSUME Inv, NEW h \in Handler, Perform(h)
  PROVE  Inv'
<1>1. Head(handler[h].todo).op \in {"run", "approval", "event"}
  BY DEF Perform
<1> QED
  BY <1>1, PerformRunKeeps, PerformApprovalKeeps, PerformEventKeeps

-----------------------------------------------------------------------------
(* The invariant holds.                                                        *)

\* The invariant holds before the run is submitted.
LEMMA InitFits ==
  ASSUME Init
  PROVE  Inv
<1>1. 0 \in 0..MaxTurns /\ 0 \in Call /\ 0 \in Nat /\ 0 \in 0..MaxRequests /\ 0 \in 0..MaxStops
  BY OutwardAssumption DEF Call
<1>2. NoRun \in Run /\ run = NoRun /\ run.status = "none"
  BY <1>1 DEF Init, NoRun, Run, Plan
<1>3. [status |-> "none", call |-> 0] \in Approval
  BY <1>1 DEF Approval
<1>4. /\ approvals \in [Proposal -> Approval] /\ \A p \in Proposal : approvals[p].status = "none"
  BY <1>3 DEF Init
<1>5. << >> \in Seq(Operation) /\ Elements(<< >>) = {} /\ DOMAIN << >> = {}
  BY EmptyList
<1>6. PICK y : y = Idle
  OBVIOUS
<1>7. y \in HandlerState /\ y.pc = "idle" /\ y.todo = << >>
  <2>1. "idle" \in Label /\ "approved" \in Verdict
    BY DEF Label, Verdict
  <2> QED
    BY <1>1, <1>2, <1>5, <1>6, <2>1 DEF Idle, HandlerState
<1>8. handler \in [Handler -> HandlerState] /\ \A h \in Handler : handler[h] = y
  BY <1>6, <1>7 DEF Init
<1>9. ledger = << >> /\ effects = << >> /\ calls = << >> /\ approved = {} /\ DOMAIN effects = {}
      /\ DOMAIN ledger = {} /\ Len(calls) = 0
  BY DEF Init
<1>10. TypeOK
  <2>1. ledger \in Seq(LedgerEvent) /\ effects \in Seq([p : Proposal, call : Call])
        /\ calls \in Seq(STRING)
    BY <1>9
  <2>2. Len(calls) <= MaxCalls
    BY <1>9, OutwardAssumption
  <2> QED
    BY <1>1, <1>2, <1>4, <1>8, <1>9, <2>1, <2>2 DEF TypeOK, Init
<1>11. HandlersFit
  <2>1. Elements(y.todo) = {} /\ y.pc \notin Past
    BY <1>5, <1>7 DEF Past
  <2>2. HandlerFits(y, run.status, approved, ledger)
    BY <1>7, <2>1 DEF HandlerFits
  <2> QED
    BY <1>8, <2>2 DEF HandlersFit
<1>12. ProposalsFit /\ FreshRun /\ LedgerFits(ledger) /\ ApprovedBeforeEffect
  <2>1. FreshRun
    BY <1>2 DEF FreshRun, NoRun
  <2> QED
    BY <1>4, <1>9, <2>1 DEF ProposalsFit, LedgerFits, ApprovedBeforeEffect
<1>13. \A e : ~Told(e, ledger, y.todo)
  BY <1>5, <1>7, <1>9 DEF Told
<1>14. SoloInv
  <2>1. OneAtWork
    BY <1>6, <1>8 DEF OneAtWork
  <2>2. SoloFits(y, approvals, ledger, effects)
    BY <1>5, <1>7, <1>9, <1>13 DEF SoloFits
  <2> QED
    BY <1>8, <2>1, <2>2 DEF SoloInv
<1>15. OrderlyInv
  <2>1. ASSUME NEW v \in Run, IsLast(v, y.todo, run)
        PROVE  /\ CallsFit(v, y, approvals, calls) /\ RequestFits(v, y, approvals, effects)
               /\ EffectsFit(v, y, approvals, effects) /\ TurnsFit(v, y, ledger, effects)
    <3>1. v = run /\ v.call = 0
      BY <1>2, <1>5, <1>7, <2>1, IsLastSame DEF NoRun
    <3>2. CallsFit(v, y, approvals, calls)
      BY <1>4, <1>5, <1>7, <1>9, <3>1 DEF CallsFit, Known
    <3>3. RequestFits(v, y, approvals, effects)
      BY <1>7 DEF RequestFits
    <3>4. EffectsFit(v, y, approvals, effects)
      BY <1>9 DEF EffectsFit, Spent
    <3>5. TurnsFit(v, y, ledger, effects)
      BY <1>13 DEF TurnsFit
    <3> QED
      BY <3>2, <3>3, <3>4, <3>5
  <2>2. Orderly(ledger, y.todo) /\ LastCompleted(y.todo, run)
    BY <1>5, <1>7, <1>9 DEF Orderly, LastCompleted
  <2>3. OrderlyFits(y, run, approvals, ledger, effects, calls)
    BY <2>1, <2>2 DEF OrderlyFits
  <2> QED
    BY <1>8, <2>3 DEF OrderlyInv
<1> QED
  BY <1>10, <1>11, <1>12, <1>14, <1>15 DEF Inv

\* The invariant is about the variables alone.
LEMMA StutterKeeps ==
  ASSUME Inv, UNCHANGED vars
  PROVE  Inv'
<1>1. /\ run' = run /\ approvals' = approvals /\ ledger' = ledger /\ effects' = effects
      /\ calls' = calls /\ approved' = approved /\ handler' = handler /\ requests' = requests
      /\ overlapped' = overlapped /\ stops' = stops
  BY DEF vars
<1>2. TypeOK' /\ HandlersFit' /\ ProposalsFit' /\ FreshRun' /\ LedgerFits(ledger)'
      /\ ApprovedBeforeEffect'
  BY <1>1 DEF Inv, TypeOK, HandlersFit, ProposalsFit, FreshRun, LedgerFits, ApprovedBeforeEffect
<1>3. SoloInv'
  BY <1>1 DEF Inv, SoloInv, OneAtWork, Solo
<1>4. OrderlyInv'
  BY <1>1 DEF Inv, OrderlyInv, Solo, Undisturbed, ToolsDiffer
<1> QED
  BY <1>2, <1>3, <1>4 DEF Inv

\* With no handler nothing happens.
Unused == Handler = {} => ledger = << >> /\ effects = << >>

\* Every step of every request keeps the invariant.
LEMMA NextKeeps ==
  ASSUME Inv, [Next]_vars
  PROVE  Inv'
<1>1. CASE UNCHANGED vars
  BY <1>1, StutterKeeps
<1>2. CASE Next
  <2>1. PICK h \in Handler : \/ Step(h) \/ Submit(h) \/ Stop(h)
                             \/ \E p \in Proposal, v \in Verdict : Decide(h, p, v)
    BY <1>2 DEF Next
  <2>2. CASE Step(h)
    <3>1. CASE Perform(h)
      BY <3>1, PerformKeeps
    <3>2. CASE Create(h)
      BY <3>2, CreateKeeps
    <3>3. CASE StartIfReady(h)
      BY <3>3, StartKeeps
    <3>4. CASE ModelCall(h)
      BY <3>4, ModelKeeps
    <3>5. CASE RequestApproval(h)
      BY <3>5, RequestKeeps
    <3>6. CASE Propose(h)
      BY <3>6, ProposeKeeps
    <3>7. CASE DecideRead(h)
      BY <3>7, DecideReadKeeps
    <3>8. CASE DecideRun(h)
      BY <3>8, DecideRunKeeps
    <3>9. CASE ContinueAfterApproval(h)
      BY <3>9, ApprovalKeeps
    <3>10. CASE Invoke(h)
      BY <3>10, InvokeKeeps
    <3>11. CASE ContinueAfterDenial(h)
      BY <3>11, DenialKeeps
    <3> QED
      BY <2>2, <3>1, <3>2, <3>3, <3>4, <3>5, <3>6, <3>7, <3>8, <3>9, <3>10, <3>11 DEF Step
  <2>3. CASE Submit(h)
    BY <2>3, SubmitKeeps
  <2>4. CASE Stop(h)
    BY <2>4, StopKeeps
  <2>5. CASE \E p \in Proposal, v \in Verdict : Decide(h, p, v)
    BY <2>5, DecideKeeps
  <2> QED
    BY <2>1, <2>2, <2>3, <2>4, <2>5
<1> QED
  BY <1>1, <1>2

\* The invariant holds in every reachable state.
LEMMA Invariance == Spec => [](Inv /\ Unused)
<1>1. Init => Inv /\ Unused
  BY InitFits DEF Init, Unused
<1>2. Inv /\ Unused /\ [Next]_vars => Inv' /\ Unused'
  <2>1. Unused /\ [Next]_vars => Unused'
    BY DEF Unused, Next, vars
  <2> QED
    BY <2>1, NextKeeps
<1> QED
  BY <1>1, <1>2, PTL DEF Spec

-----------------------------------------------------------------------------
(* What follows from it.                                                       *)

\* A nonempty set of numbers has a least one.
LEMMA Least ==
  ASSUME NEW T, T \subseteq Nat, T # {}
  PROVE  \E m \in T : \A n \in T : m <= n
<1>1. PICK R : R = OpToRel(<, Nat)
  OBVIOUS
<1>2. IsWellFoundedOn(R, Nat)
  BY <1>1, NatLessThanWellFounded, Zenon
<1>3. PICK m \in T : \A n \in T : ~(<<n, m>> \in R)
  BY <1>2, WFMin
<1>4. R = {ss \in Nat \X Nat : ss[1] < ss[2]}
  BY <1>1, Zenon DEF OpToRel
<1>5. \A n \in T : ~(n < m)
  BY <1>3, <1>4
<1> QED
  BY <1>3, <1>5

\* There is a run once everything is stored.
LEMMA HasLast ==
  ASSUME NEW todo \in Seq(Operation), NEW r \in Run
  PROVE  \E v \in Run : IsLast(v, todo, r)
<1>1. CASE \A o \in Elements(todo) : ~IsRunOp(o)
  BY <1>1 DEF IsLast
<1>2. CASE ~\A o \in Elements(todo) : ~IsRunOp(o)
  <2>1. Len(todo) \in Nat /\ DOMAIN todo = 1..Len(todo)
        /\ \A k \in DOMAIN todo : todo[k] \in Operation
    OBVIOUS
  <2>2. PICK T : T = {n \in Nat : \E k \in DOMAIN todo : IsRunOp(todo[k]) /\ n = Len(todo) - k}
    OBVIOUS
  <2>3. PICK k \in DOMAIN todo : IsRunOp(todo[k])
    BY <1>2 DEF Elements
  <2>4. \A j \in DOMAIN todo : IsRunOp(todo[j]) => Len(todo) - j \in T
    BY <2>1, <2>2
  <2>5. T \subseteq Nat /\ T # {}
    BY <2>2, <2>3, <2>4
  <2>6. PICK m \in T : \A n \in T : m <= n
    BY <2>5, Least
  <2>7. PICK i \in DOMAIN todo : IsRunOp(todo[i]) /\ m = Len(todo) - i
    BY <2>2, <2>6
  <2>8. ASSUME NEW j \in DOMAIN todo, j > i PROVE ~IsRunOp(todo[j])
    <3>1. ASSUME IsRunOp(todo[j]) PROVE FALSE
      <4>1. m <= Len(todo) - j
        BY <2>4, <2>6, <3>1
      <4> QED
        BY <2>1, <2>7, <2>8, <4>1
    <3> QED
      BY <3>1
  <2>9. todo[i].run \in Run
    BY <2>1, <2>7, OperationParts DEF IsRunOp
  <2> QED
    BY <2>7, <2>8, <2>9 DEF IsLast
<1> QED
  BY <1>1, <1>2

\* While requests do not overlap, one handler at most is at work.
LEMMA SomeSolo ==
  ASSUME Inv, Handler # {}, ~overlapped
  PROVE  \E h \in Handler : Solo(h)
BY DEF Inv, SoloInv, OneAtWork, Solo

\* Every variable keeps its type: no handler, however requests interleave or stop,
\* stores a run, a proposal or an event the stores could not hold.
THEOREM OutwardTypeCorrect == Spec => []TypeOK
<1>1. Inv => TypeOK
  BY DEF Inv
<1> QED
  BY <1>1, Invariance, PTL

\* ApprovedBeforeEffect for every number of handlers, requests and stops: the
\* connector call of continue_after_approval runs only for an approved proposal.
THEOREM EffectsAreApproved == Spec => []ApprovedBeforeEffect
<1>1. Inv => ApprovedBeforeEffect
  BY DEF Inv
<1> QED
  BY <1>1, Invariance, PTL

\* DeniedNotInvoked for every number of requests and stops: once _decide has told
\* the ledger of a denial, the proposal has no effect and never gets one.
THEOREM DeniedAreNotInvoked == Spec => []DeniedNotInvoked
<1>1. Inv /\ Unused => DeniedNotInvoked
  <2> SUFFICES ASSUME Inv, Unused, ~overlapped, NEW p \in Proposal,
                      Recorded(Event("proposal_denied", 0, p)), Invoked(p)
               PROVE  FALSE
    BY DEF DeniedNotInvoked
  <2>1. PICK i \in DOMAIN effects : effects[i].p = p
    BY DEF Invoked
  <2>2. Handler # {}
    BY <2>1 DEF Unused
  <2>3. PICK h \in Handler : Solo(h)
    BY <2>2, SomeSolo
  <2>4. SoloFits(handler[h], approvals, ledger, effects)
    BY <2>3 DEF Inv, SoloInv
  <2>5. Told(Event("proposal_denied", 0, p), ledger, handler[h].todo)
    BY DEF Told, Recorded, Elements
  <2>6. approvals[p].status = "denied"
    BY <2>4, <2>5 DEF SoloFits
  <2>7. approvals[p].status = "approved"
    BY <2>1, <2>4 DEF SoloFits
  <2> QED
    BY <2>6, <2>7
<1> QED
  BY <1>1, Invariance, PTL

\* What the request that may be at work says of effects and ledger.
LEMMA OrderlyFacts ==
  ASSUME Inv, Undisturbed, ToolsDiffer, Handler # {}
  PROVE  /\ \A i \in DOMAIN effects : effects[i].call = approvals[effects[i].p].call
         /\ \A i, j \in DOMAIN effects : effects[i].p = effects[j].p => i = j
         /\ \A i, j \in DOMAIN ledger : Misplaced(ledger[i], ledger[j]) => j < i
<1>1. PICK h \in Handler : Solo(h)
  BY SomeSolo DEF Undisturbed
<1>2. PICK x : x = handler[h]
  OBVIOUS
<1>3. OrderlyFits(x, run, approvals, ledger, effects, calls)
  BY <1>1, <1>2 DEF Inv, OrderlyInv
<1>4. x.todo \in Seq(Operation)
  BY <1>2, Types DEF HandlerState
<1>5. PICK v \in Run : IsLast(v, x.todo, run)
  BY <1>4, HasLast, Types
<1>6. EffectsFit(v, x, approvals, effects) /\ Orderly(ledger, x.todo)
  BY <1>3, <1>5 DEF OrderlyFits
<1> QED
  BY <1>6 DEF EffectsFit, Orderly

\* CallMatchesApproval for every number of requests, calls and turns: an undisturbed
\* run executes the call whose proposal was approved, though continue_after_approval
\* takes it from the run and compares no more than its tool.
THEOREM CallsMatchApprovals == Spec => []CallMatchesApproval
<1>1. Inv /\ Unused => CallMatchesApproval
  <2> SUFFICES ASSUME Inv, Unused, Undisturbed, ToolsDiffer, NEW i \in DOMAIN effects
               PROVE  effects[i].call = approvals[effects[i].p].call
    BY DEF CallMatchesApproval
  <2>1. Handler # {}
    BY DEF Unused
  <2> QED
    BY <2>1, OrderlyFacts
<1> QED
  BY <1>1, Invariance, PTL

\* EffectOnce for every number of requests, calls and turns: approving a proposal
\* again, during the run or after it, invokes the connector no second time.
THEOREM EffectsHappenOnce == Spec => []EffectOnce
<1>1. Inv /\ Unused => EffectOnce
  <2> SUFFICES ASSUME Inv, Unused, Undisturbed, ToolsDiffer, NEW i \in DOMAIN effects,
                      NEW j \in DOMAIN effects, effects[i].p = effects[j].p
               PROVE  i = j
    BY DEF EffectOnce
  <2>1. Handler # {}
    BY DEF Unused
  <2> QED
    BY <2>1, OrderlyFacts
<1> QED
  BY <1>1, Invariance, PTL

\* LedgerOrdered for every number of handlers, requests and stops: _append_once
\* tells no event twice, and the events of a turn come in order.
THEOREM LedgerTellsInOrder == Spec => []LedgerOrdered
<1>1. Inv /\ Unused => LedgerOrdered
  <2> SUFFICES ASSUME Inv, Unused, NEW i \in DOMAIN ledger, NEW j \in DOMAIN ledger
               PROVE  LET a == ledger[i]
                          b == ledger[j] IN
                      /\ a = b => i = j
                      /\ a.type = "commitment_recorded" =>
                           \E k \in 1..(i - 1) : ledger[k] = Event("tool_invoked", a.turn, a.p)
                      /\ Undisturbed /\ ToolsDiffer /\ a.type = "turn_completed" =>
                           /\ (b.type = "turn_started" /\ b.turn = a.turn + 1) => i < j
                           /\ (b.type = "commitment_recorded" /\ b.turn = a.turn) => j < i
    BY DEF LedgerOrdered
  <2>1. Handler # {}
    BY DEF Unused
  <2>2. /\ ledger[i] = ledger[j] => i = j
        /\ ledger[i].type = "commitment_recorded" =>
             \E k \in 1..(i - 1) : ledger[k] = Event("tool_invoked", ledger[i].turn, ledger[i].p)
    BY DEF Inv, LedgerFits
  <2>3. ASSUME Undisturbed, ToolsDiffer, ledger[i].type = "turn_completed"
        PROVE  /\ (ledger[j].type = "turn_started" /\ ledger[j].turn = ledger[i].turn + 1) => i < j
               /\ (ledger[j].type = "commitment_recorded" /\ ledger[j].turn = ledger[i].turn) => j < i
    <3>1. Misplaced(ledger[i], ledger[j]) => j < i
      BY <2>1, <2>3, OrderlyFacts
    <3>2. Misplaced(ledger[j], ledger[i]) => i < j
      BY <2>1, <2>3, OrderlyFacts
    <3> QED
      BY <2>3, <3>1, <3>2 DEF Misplaced
  <2> QED
    BY <2>2, <2>3
<1> QED
  BY <1>1, Invariance, PTL

\* CompletedIsFinal for every number of requests, calls and turns: no handler of an
\* undisturbed run stores an older copy over a completed run.
THEOREM CompletedRunsAreFinal == Spec => CompletedIsFinal
<1>1. ASSUME Inv, [Next]_vars
      PROVE  [run.status = "completed" /\ Undisturbed' /\ ToolsDiffer'
                => run'.status = "completed"]_vars
  <2> SUFFICES ASSUME run.status = "completed", Undisturbed', ToolsDiffer', Next
               PROVE  run'.status = "completed"
    BY <1>1
  <2>1. PICK h \in Handler : \/ Step(h) \/ Submit(h) \/ Stop(h)
                             \/ \E p \in Proposal, v \in Verdict : Decide(h, p, v)
    BY DEF Next
  <2>2. CASE Perform(h)
    <3>1. PICK x : x = handler[h]
      OBVIOUS
    <3>2. PICK t : t = Head(x.todo)
      OBVIOUS
    <3>3. x # Idle /\ x.todo \in Seq(Operation) /\ x.todo # << >>
      BY <1>1, <2>2, <3>1, Performing
    <3>4. t.op = "run" \/ run' = run
      BY <2>2, <3>1, <3>2 DEF Perform
    <3>5. ASSUME t.op = "run" PROVE FALSE
      <4>1. UNCHANGED <<calls, requests, overlapped, stops>>
        BY <2>2 DEF Perform
      <4>2. ToolsDiffer
        BY <4>1 DEF ToolsDiffer
      <4>3. OrderlyFits(x, run, approvals, ledger, effects, calls)
        BY <1>1, <3>1, <3>3, <4>1, <4>2, GoingOn
      <4>4. t \in Elements(x.todo)
        <5>1. PICK rest : rest = Tail(x.todo)
          OBVIOUS
        <5> QED
          BY <3>2, <3>3, <5>1, TailFits
      <4> QED
        BY <3>5, <4>3, <4>4 DEF OrderlyFits, LastCompleted, IsRunOp
    <3> QED
      BY <3>4, <3>5
  <2>3. CASE Create(h)
    BY <2>3 DEF Create
  <2>4. CASE ~Perform(h) /\ ~Create(h)
    <3>1. run' = run
      BY <2>1, <2>4 DEF Step, StartIfReady, ModelCall, RequestApproval, Propose, DecideRead,
                        DecideRun, ContinueAfterApproval, Invoke, ContinueAfterDenial,
                        Submit, Stop, Decide
    <3> QED
      BY <3>1
  <2> QED
    BY <2>2, <2>3, <2>4
<1> QED
  BY <1>1, Invariance, PTL DEF Spec, CompletedIsFinal
=============================================================================
