---------------------------- MODULE EpicRunsProofs ----------------------------
(* Theorems about the runs of an epic, for every set of cards and dependency   *)
(* graphs, any number of runs and every limit.                                 *)
EXTENDS EpicRuns, FiniteSetTheorems, TLAPS

-----------------------------------------------------------------------------
(* The inductive invariant.                                                    *)

\* The run has the build for itself, no target, and has prepared its cards.
Sole(r) == run[r].alone /\ run[r].target = NoCard /\ Live(r) /\ run[r].pc # "start"

\* The copy that a turn works on has the status of the turn, and what it is going
\* to write is done only when a guard decided so.
Formed(t, x) ==
  /\ x.pc \in {"model", "tool", "promote"} => x.issue.status = TurnStatus(t[2])
  /\ x.pc = "save" => /\ x.issue.status \in {"ready", "blocked", TurnStatus(t[2])}
                      /\ x.then # ""
  /\ x.pc = "tool" /\ x.held.status = "done" => t[2] = "review"
TurnsFormed == \A t \in Turn : Formed(t, turn[t])

\* A run that is reading or planning waits for no turn, and has read the rows
\* when it prepares or plans.
RunsFormed ==
  \A r \in Run :
    /\ run[r].pc \in {"none", "start", "read", "plan"} => TurnsOf(r) = {}
    /\ run[r].pc \in {"start", "plan"} => run[r].backlog \in [Card -> Row]

\* While a run is alone, no other has a task.
AloneIsAlone ==
  \A r \in Run : run[r].alone /\ Live(r) => \A q \in Run \ {r} : ~Live(q)

\* A done row that verify_issue holds was earned when it was read, and is earned
\* still.
HeldIsEarned ==
  \A t \in Turn : turn[t].pc = "verify" /\ turn[t].held.status = "done" =>
    /\ earned[t[3]] # 0
    /\ Sole(t[1]) => earned[t[3]] = t[1]

\* What is done was earned, and under a sole run by that run.
RowsAreEarned ==
  \A c \in Card : row[c].status = "done" =>
    /\ earned[c] # 0
    /\ \A r \in Run : Sole(r) => earned[c] = r

\* A sole run plans with the rows as they are, and its build turns depend on
\* nothing that one of its turns works on.
SolePlans ==
  \A r \in Run : Sole(r) =>
    /\ run[r].pc = "plan" => run[r].backlog = row
    /\ \A t \in TurnsOf(r) : t[2] = "build" =>
         \A d \in deps[t[3]] : /\ row[d].status = "done"
                               /\ \A u \in TurnsOf(r) : u[3] # d

Inv == /\ TypeOK
       /\ TurnsFormed /\ RunsFormed
       /\ AloneIsAlone
       /\ HeldIsEarned /\ RowsAreEarned
       /\ SolePlans

-----------------------------------------------------------------------------
(* Types.                                                                      *)

\* The statuses that the orchestrator itself writes are statuses.
LEMMA Statuses ==
  {"ready", "blocked", "canceled", "in_progress", "code_review",
   "awaiting_guard_review", "waiting_for_developer", "done"} \subseteq CardStatus
BY DEF CardStatus, Transitions

\* Changing a row's status leaves a row.
LEMMA RowStatus ==
  ASSUME NEW x \in Row, NEW s \in CardStatus
  PROVE  [x EXCEPT !.status = s] \in Row /\ [x EXCEPT !.status = s].status = s
BY DEF Row

\* A turn's parts are typed.
LEMMA TurnParts ==
  ASSUME TypeOK, NEW t \in Turn, turn[t].pc # "none"
  PROVE  /\ turn[t] \in ActiveTurn
         /\ turn[t].issue \in Row /\ turn[t].held \in Row
         /\ turn[t].issue.retries \in Nat
         /\ t[1] \in Run /\ t[2] \in Kind /\ t[3] \in Card
         /\ row[t[3]] \in Row
<1>1. turn[t] \in ActiveTurn
  BY DEF TypeOK, TurnState, NoTurn
<1>2. t[1] \in Run /\ t[2] \in Kind /\ t[3] \in Card
  BY DEF Turn
<1> QED
  BY <1>1, <1>2 DEF ActiveTurn, Row, TypeOK

\* A turn that begins is well typed.
LEMMA NewTurnType ==
  ASSUME NEW p \in {"wait", "promote", "save"}, NEW x \in Row
  PROVE  /\ NewTurn(p, x) \in ActiveTurn
         /\ NewTurn(p, x).pc = p /\ NewTurn(p, x).issue = x
<1>1. NewRow \in Row /\ 0 \in 0..MaxCalls
  BY Statuses, EpicAssumption DEF NewRow, Row
<1> QED
  BY <1>1 DEF NewTurn, ActiveTurn

\* So is one that is about to save its card.
LEMMA SavesThenType ==
  ASSUME NEW t, NEW x \in Row, NEW th \in {"stop", "raise", "cancel"}
  PROVE  /\ SavesThen(t, x, th) \in ActiveTurn
         /\ SavesThen(t, x, th).pc = "save" /\ SavesThen(t, x, th).issue = x
         /\ SavesThen(t, x, th).then # ""
<1> DEFINE n == NewTurn("save", x)
<1>1. n \in ActiveTurn /\ n.pc = "save" /\ n.issue = x
  BY NewTurnType
<1>2. SavesThen(t, x, th) = [n EXCEPT !.then = th]
  BY DEF SavesThen
<1> HIDE DEF n
<1> QED
  BY <1>1, <1>2 DEF ActiveTurn

-----------------------------------------------------------------------------
(* What a step of a turn can do.                                               *)

\* Rows and history of other cards, and other runs, are left alone; turns of the
\* same run may be cancelled; what becomes done was held by verify_issue or is
\* earned by this turn.
RunEffect(r) ==
  /\ run' \in [Run -> RunState]
  /\ \A q \in Run : \/ run'[q] = run[q]
                    \/ /\ q = r /\ run[q].pc = "gather" /\ run'[q].pc = "over"
                       /\ run'[q].alone = run[q].alone
                       /\ run'[q].target = run[q].target

TurnsEffect(t) ==
  /\ turn' \in [Turn -> TurnState]
  /\ \A u \in Turn \ {t} : turn'[u] = turn[u] \/ (u[1] = t[1] /\ turn'[u] = NoTurn)
  /\ Formed(t, turn'[t])
  /\ turn'[t].pc = "verify" => turn'[t].held = row[t[3]] /\ UNCHANGED <<row, earned>>

RowEffect(t) ==
  /\ row' \in [Card -> Row] /\ earned' \in [Card -> 0..MaxRuns]
  /\ \A c \in Card \ {t[3]} : row'[c] = row[c] /\ earned'[c] = earned[c]
  /\ earned' = earned \/ earned'[t[3]] = t[1]
  /\ row'[t[3]].status = "done" =>
       \/ row[t[3]].status = "done"
       \/ earned'[t[3]] = t[1]
       \/ turn[t].pc = "verify" /\ turn[t].held.status = "done"

TurnEffect(t) == deps' = deps /\ RunEffect(t[1]) /\ TurnsEffect(t) /\ RowEffect(t)

\* A run that ends is over or exhausted, and keeps its identity.
LEMMA EndsKeeps ==
  ASSUME TypeOK, NEW r \in Run, NEW p \in Over, Ends(r, p)
  PROVE  /\ run' \in [Run -> RunState]
         /\ \A q \in Run \ {r} : run'[q] = run[q]
         /\ run'[r].pc = p /\ run'[r].alone = run[r].alone
         /\ run'[r].target = run[r].target
<1> DEFINE x == [run[r] EXCEPT !.pc = p, !.iteration = 0, !.backlog = Unread]
<1>1. run \in [Run -> RunState] /\ run[r] \in RunState
  BY DEF TypeOK
<1>2. 0 \in 0..MaxIterations /\ Unread \in [Card -> Row] \cup {Unread}
      /\ p \in {"none", "start", "read", "plan", "gather", "exhausted", "over"}
  BY EpicAssumption DEF Over
<1>3. x \in RunState
  BY <1>1, <1>2 DEF RunState
<1>4. x.pc = p /\ x.alone = run[r].alone /\ x.target = run[r].target
  BY <1>1 DEF RunState
<1>5. run' = [run EXCEPT ![r] = x]
  BY <1>1 DEF Ends
<1> HIDE DEF x
<1> QED
  BY <1>1, <1>3, <1>4, <1>5

\* A run that ends after its turns are gathered keeps its identity and leaves the
\* others alone.
LEMMA EndsEffect ==
  ASSUME TypeOK, NEW r \in Run, run[r].pc = "gather", Ends(r, "over")
  PROVE  RunEffect(r)
<1>1. "over" \in Over
  BY DEF Over
<1> QED
  BY <1>1, EndsKeeps DEF RunEffect

\* Runs that nothing happens to.
LEMMA NoRunEffect ==
  ASSUME TypeOK, UNCHANGED run, NEW r \in Run
  PROVE  RunEffect(r)
BY DEF TypeOK, RunEffect

\* A turn that goes on is the only one that changes.
LEMMA BecomesEffect ==
  ASSUME TypeOK, NEW t \in Turn, NEW x \in TurnState, Becomes(t, x), Formed(t, x),
         x.pc = "verify" => x.held = row[t[3]] /\ UNCHANGED <<row, earned>>
  PROVE  TurnsEffect(t)
<1>1. turn \in [Turn -> TurnState]
  BY DEF TypeOK
<1>2. turn' \in [Turn -> TurnState] /\ turn'[t] = x
      /\ \A u \in Turn \ {t} : turn'[u] = turn[u]
  BY <1>1 DEF Becomes
<1> QED
  BY <1>2 DEF TurnsEffect

\* A turn that is over.
LEMMA EndedTurn ==
  ASSUME NEW t \in Turn
  PROVE  NoTurn \in TurnState /\ Formed(t, NoTurn) /\ NoTurn.pc = "none"
BY DEF NoTurn, TurnState, Formed

\* A turn that raises ends, and gather with it.
LEMMA RaisesEffect ==
  ASSUME TypeOK, NEW t \in Turn, Raises(t)
  PROVE  RunEffect(t[1]) /\ TurnsEffect(t)
<1>1. t[1] \in Run
  BY DEF Turn
<1>2. TurnsEffect(t)
  BY EndedTurn, BecomesEffect DEF Raises
<1>3. RunEffect(t[1])
  BY <1>1, EndsEffect, NoRunEffect DEF Raises
<1> QED
  BY <1>2, <1>3

\* A status that is not done is written to the turn's card.
LEMMA SetsEffect ==
  ASSUME TypeOK, NEW t \in Turn, NEW s \in CardStatus, s # "done", Sets(t, s),
         UNCHANGED earned
  PROVE  RowEffect(t)
<1>1. row \in [Card -> Row] /\ t[3] \in Card
  BY DEF TypeOK, Turn
<1>2. row' = [row EXCEPT ![t[3]] = [row[t[3]] EXCEPT !.status = s]]
  BY <1>1 DEF Sets
<1>3. [row[t[3]] EXCEPT !.status = s] \in Row
      /\ [row[t[3]] EXCEPT !.status = s].status = s
  BY <1>1, RowStatus
<1>4. row' \in [Card -> Row] /\ row'[t[3]].status = s
      /\ \A c \in Card \ {t[3]} : row'[c] = row[c]
  BY <1>1, <1>2, <1>3
<1> QED
  BY <1>4 DEF RowEffect, TypeOK

\* Rows that nothing happens to.
LEMMA NoRowEffect ==
  ASSUME TypeOK, UNCHANGED <<row, earned>>, NEW t \in Turn
  PROVE  RowEffect(t)
BY DEF TypeOK, RowEffect

\* A transition that is accepted or refused.
LEMMA RequestsEffect ==
  ASSUME TypeOK, NEW t \in Turn, NEW to \in CardStatus, to # "done",
         NEW q, NEW x \in TurnState, Formed(t, x), x.pc # "verify",
         Requests(t, to, q, x), UNCHANGED <<deps, earned>>
  PROVE  TurnEffect(t)
<1>1. CASE Accepts(turn[t].issue.status, to, q)
  <2>1. Sets(t, to) /\ Becomes(t, x) /\ UNCHANGED run
    BY <1>1 DEF Requests
  <2>2. t[1] \in Run
    BY DEF Turn
  <2> QED
    BY <2>1, <2>2, SetsEffect, BecomesEffect, NoRunEffect DEF TurnEffect
<1>2. CASE ~Accepts(turn[t].issue.status, to, q)
  <2>1. Raises(t) /\ UNCHANGED row
    BY <1>2 DEF Requests
  <2> QED
    BY <2>1, RaisesEffect, NoRowEffect DEF TurnEffect
<1> QED
  BY <1>1, <1>2

-----------------------------------------------------------------------------
(* Every step of a turn has that effect.                                       *)

\* The status of a turn is a status, and not done.
LEMMA TurnStatuses ==
  ASSUME NEW k
  PROVE  TurnStatus(k) \in CardStatus /\ TurnStatus(k) # "done"
BY Statuses DEF TurnStatus

\* A turn that is about to save a card that is not done.
LEMMA SavesFormed ==
  ASSUME NEW t \in Turn, NEW x \in Row, NEW th \in {"stop", "raise", "cancel"},
         x.status \in {"ready", "blocked", TurnStatus(t[2])}
  PROVE  /\ SavesThen(t, x, th) \in TurnState /\ Formed(t, SavesThen(t, x, th))
         /\ SavesThen(t, x, th).pc # "verify"
<1>1. PICK s : s = SavesThen(t, x, th)
  OBVIOUS
<1>2. s \in ActiveTurn /\ s.pc = "save" /\ s.issue = x /\ s.then # ""
  BY <1>1, SavesThenType
<1>3. s \in TurnState /\ Formed(t, s) /\ s.pc # "verify"
  BY <1>2 DEF Formed, TurnState
<1> QED
  BY <1>1, <1>3

\* The runtime verifier passes: its turn holds the row it read, or goes on to prepare.
LEMMA VerifierPassesEffect ==
  ASSUME TypeOK, NEW t \in Turn, VerifierPasses(t)
  PROVE  TurnEffect(t)
<1> DEFINE x == IF t[3] \in Verified
                THEN [turn[t] EXCEPT !.pc = "verify", !.held = row[t[3]]]
                ELSE [turn[t] EXCEPT !.pc = "prepare"]
<1>1. turn[t] \in ActiveTurn /\ row[t[3]] \in Row /\ t[1] \in Run
  BY TurnParts DEF VerifierPasses, Begins
<1>2. x \in ActiveTurn /\ x.pc \in {"verify", "prepare"}
      /\ (x.pc = "verify" => x.held = row[t[3]])
  BY <1>1 DEF ActiveTurn
<1>3. Becomes(t, x) /\ UNCHANGED <<deps, row, run, earned>>
  BY DEF VerifierPasses
<1> HIDE DEF x
<1>4. x \in TurnState /\ Formed(t, x)
  BY <1>2 DEF TurnState, Formed
<1> QED
  BY <1>1, <1>2, <1>3, <1>4, BecomesEffect, NoRunEffect, NoRowEffect DEF TurnEffect

\* The runtime verifier fails: the card goes back to ready or is blocked, never done.
LEMMA VerifierFailsEffect ==
  ASSUME TypeOK, NEW t \in Turn, VerifierFails(t)
  PROVE  TurnEffect(t)
<1> DEFINE issue == turn[t].issue
           a == [status |-> "ready", retries |-> issue.retries + 1]
           b == [issue EXCEPT !.status = "blocked"]
<1>1. issue \in Row /\ issue.retries \in Nat
  BY TurnParts DEF VerifierFails, Begins
<1>2. a \in Row /\ a.status = "ready"
  BY <1>1, Statuses DEF Row
<1>3. b \in Row /\ b.status = "blocked"
  BY <1>1, RowStatus, Statuses
<1>4. \/ Requests(t, "ready", TRUE, SavesThen(t, a, "stop"))
      \/ Requests(t, "blocked", FALSE, SavesThen(t, b, "stop"))
  BY DEF VerifierFails
<1>5. UNCHANGED <<deps, earned>>
  BY DEF VerifierFails
<1> HIDE DEF a, b, issue
<1>6. /\ SavesThen(t, a, "stop") \in TurnState /\ Formed(t, SavesThen(t, a, "stop"))
      /\ SavesThen(t, a, "stop").pc # "verify"
  BY <1>2, SavesFormed
<1>7. /\ SavesThen(t, b, "stop") \in TurnState /\ Formed(t, SavesThen(t, b, "stop"))
      /\ SavesThen(t, b, "stop").pc # "verify"
  BY <1>3, SavesFormed
<1> QED
  BY <1>4, <1>5, <1>6, <1>7, Statuses, RequestsEffect

\* The save after a verification writes back the row its turn holds, stale or not.
LEMMA VerifySavesEffect ==
  ASSUME TypeOK, NEW t \in Turn, VerifySaves(t)
  PROVE  TurnEffect(t)
<1> DEFINE x == [turn[t] EXCEPT !.pc = "prepare", !.held = NewRow]
<1>1. /\ turn[t] \in ActiveTurn /\ turn[t].held \in Row /\ t[1] \in Run /\ t[3] \in Card
      /\ turn[t].pc = "verify"
  BY TurnParts DEF VerifySaves
<1>2. NewRow \in Row
  BY Statuses DEF NewRow, Row
<1>3. x \in ActiveTurn /\ x.pc = "prepare"
  BY <1>1, <1>2 DEF ActiveTurn
<1>4. Becomes(t, x) /\ UNCHANGED <<deps, run, earned>>
      /\ row' = [row EXCEPT ![t[3]] = turn[t].held]
  BY DEF VerifySaves
<1> HIDE DEF x
<1>5. x \in TurnState /\ Formed(t, x)
  BY <1>3 DEF TurnState, Formed
<1>6. TurnsEffect(t)
  BY <1>3, <1>4, <1>5, BecomesEffect
<1>7. RowEffect(t)
  BY <1>1, <1>4 DEF RowEffect, TypeOK
<1> QED
  BY <1>1, <1>4, <1>6, <1>7, NoRunEffect DEF TurnEffect

\* The dispatch of a turn moves its card to the status of that turn.
LEMMA DispatchEffect ==
  ASSUME TypeOK, NEW t \in Turn, Dispatch(t)
  PROVE  TurnEffect(t)
<1> DEFINE x == [turn[t] EXCEPT !.pc = "model", !.issue.status = TurnStatus(t[2])]
<1>1. turn[t] \in ActiveTurn /\ turn[t].issue \in Row /\ t[1] \in Run
  BY TurnParts DEF Dispatch, Prepares, Begins
<1>2. TurnStatus(t[2]) \in CardStatus /\ TurnStatus(t[2]) # "done"
  BY TurnStatuses
<1>3. x \in ActiveTurn /\ x.pc = "model" /\ x.issue.status = TurnStatus(t[2])
  BY <1>1, <1>2 DEF ActiveTurn, Row
<1>4. \/ /\ turn[t].issue.status = TurnStatus(t[2])
         /\ row' \in {row, [row EXCEPT ![t[3]] = turn[t].issue]}
         /\ Becomes(t, x) /\ UNCHANGED run
      \/ Requests(t, TurnStatus(t[2]), FALSE, x)
  BY DEF Dispatch
<1>5. UNCHANGED <<deps, earned>>
  BY DEF Dispatch
<1> HIDE DEF x
<1>6. x \in TurnState /\ Formed(t, x)
  BY <1>3 DEF TurnState, Formed
<1>7. CASE /\ turn[t].issue.status = TurnStatus(t[2])
           /\ row' \in {row, [row EXCEPT ![t[3]] = turn[t].issue]}
           /\ Becomes(t, x) /\ UNCHANGED run
  <2>1. CASE UNCHANGED row
    BY <1>1, <1>3, <1>5, <1>6, <1>7, <2>1, BecomesEffect, NoRunEffect, NoRowEffect DEF TurnEffect
  <2>2. CASE row' = [row EXCEPT ![t[3]] = turn[t].issue]
    <3>1. RowEffect(t)
      BY <1>1, <1>2, <1>5, <1>7, <2>2 DEF RowEffect, TypeOK, Turn
    <3> QED
      BY <1>1, <1>3, <1>5, <1>6, <1>7, <3>1, BecomesEffect, NoRunEffect DEF TurnEffect
  <2> QED
    BY <1>7, <2>1, <2>2
<1>8. CASE Requests(t, TurnStatus(t[2]), FALSE, x)
  BY <1>2, <1>3, <1>5, <1>6, <1>8, RequestsEffect
<1> QED
  BY <1>4, <1>7, <1>8

\* A turn that cannot be prepared blocks or cancels its card.
LEMMA NotPreparedEffect ==
  ASSUME TypeOK, NEW t \in Turn, NEW s \in {"blocked", "canceled"}, NotPrepared(t, s)
  PROVE  TurnEffect(t)
<1>1. Requests(t, s, FALSE, NoTurn) /\ UNCHANGED <<deps, earned>>
  BY DEF NotPrepared
<1>2. NoTurn \in TurnState /\ Formed(t, NoTurn) /\ NoTurn.pc # "verify"
  BY EndedTurn
<1> QED
  BY <1>1, <1>2, Statuses, RequestsEffect

\* A turn whose role has no asset leaves its card in progress.
LEMMA MissingRoleEffect ==
  ASSUME TypeOK, NEW t \in Turn, MissingRole(t)
  PROVE  TurnEffect(t)
<1>1. Requests(t, "in_progress", FALSE, NoTurn) /\ UNCHANGED <<deps, earned>>
  BY DEF MissingRole
<1>2. NoTurn \in TurnState /\ Formed(t, NoTurn) /\ NoTurn.pc # "verify"
  BY EndedTurn
<1> QED
  BY <1>1, <1>2, Statuses, RequestsEffect

\* A built card goes to code review.
LEMMA PromoteEffect ==
  ASSUME TypeOK, NEW t \in Turn, Promote(t)
  PROVE  TurnEffect(t)
<1>1. Requests(t, "code_review", FALSE, NoTurn) /\ UNCHANGED <<deps, earned>>
  BY DEF Promote
<1>2. NoTurn \in TurnState /\ Formed(t, NoTurn) /\ NoTurn.pc # "verify"
  BY EndedTurn
<1> QED
  BY <1>1, <1>2, Statuses, RequestsEffect

\* A turn that calls update_issue_status sets its own card, as the gate and the tool
\* allow.
LEMMA CallUpdateStatusEffect ==
  ASSUME TypeOK, TurnsFormed, NEW t \in Turn, NEW s \in BuilderAsks \cup GuardAsks,
         CallUpdateStatus(t, s)
  PROVE  TurnEffect(t)
<1> DEFINE a == [turn[t] EXCEPT !.pc = "tool", !.calls = @ + 1, !.held.status = s]
           b == [turn[t] EXCEPT !.calls = @ + 1, !.bad = TRUE]
<1>1. /\ turn[t] \in ActiveTurn /\ turn[t].held \in Row /\ t[1] \in Run
      /\ turn[t].pc = "model" /\ turn[t].calls < MaxCalls
  BY TurnParts DEF CallUpdateStatus
<1>2. s \in CardStatus /\ MaxCalls \in Nat /\ turn[t].calls \in 0..MaxCalls
  BY <1>1, EpicAssumption DEF ActiveTurn
<1>3. turn[t].calls + 1 \in 0..MaxCalls
  BY <1>1, <1>2
<1>4. turn[t].issue.status = TurnStatus(t[2])
  BY <1>1 DEF TurnsFormed, Formed
<1>5. /\ a \in ActiveTurn /\ a.pc = "tool" /\ a.held.status = s
      /\ a.issue = turn[t].issue
  BY <1>1, <1>2, <1>3 DEF ActiveTurn, Row
<1>6. b \in ActiveTurn /\ b.pc = "model" /\ b.issue = turn[t].issue
  BY <1>1, <1>3 DEF ActiveTurn
<1>7. ToolAllows(t, s) /\ s = "done" => t[2] = "review"
  BY DEF ToolAllows, ValidTransition, GuardOnly
<1>8. Becomes(t, IF ToolAllows(t, s) THEN a ELSE b) /\ UNCHANGED <<deps, row, run, earned>>
  BY DEF CallUpdateStatus
<1> HIDE DEF a, b
<1>9. TurnsEffect(t)
  <2>1. CASE ToolAllows(t, s)
    <3>1. Becomes(t, a) /\ a \in TurnState /\ Formed(t, a) /\ a.pc # "verify"
      BY <1>4, <1>5, <1>7, <1>8, <2>1 DEF TurnState, Formed
    <3> QED
      BY <3>1, BecomesEffect
  <2>2. CASE ~ToolAllows(t, s)
    <3>1. Becomes(t, b) /\ b \in TurnState /\ Formed(t, b) /\ b.pc # "verify"
      BY <1>4, <1>6, <1>8, <2>2 DEF TurnState, Formed
    <3> QED
      BY <3>1, BecomesEffect
  <2> QED
    BY <2>1, <2>2
<1> QED
  BY <1>1, <1>8, <1>9, NoRunEffect, NoRowEffect DEF TurnEffect

\* The only step that makes a card done: the tool of a guard turn.
LEMMA WriteStatusEffect ==
  ASSUME TypeOK, TurnsFormed, NEW t \in Turn, WriteStatus(t)
  PROVE  TurnEffect(t)
<1> DEFINE x == [turn[t] EXCEPT !.pc = "model", !.held = NewRow]
           s == turn[t].held.status
<1>1. /\ turn[t] \in ActiveTurn /\ turn[t].held \in Row /\ t[1] \in Run /\ t[3] \in Card
      /\ row[t[3]] \in Row /\ turn[t].pc = "tool"
  BY TurnParts DEF WriteStatus
<1>2. NewRow \in Row /\ s \in CardStatus
  BY <1>1, Statuses DEF NewRow, Row
<1>3. turn[t].issue.status = TurnStatus(t[2]) /\ (s = "done" => t[2] = "review")
  BY <1>1 DEF TurnsFormed, Formed
<1>4. x \in ActiveTurn /\ x.pc = "model" /\ x.issue = turn[t].issue
  BY <1>1, <1>2 DEF ActiveTurn
<1>5. /\ row' = [row EXCEPT ![t[3]] = [row[t[3]] EXCEPT !.status = s]]
      /\ Becomes(t, x) /\ UNCHANGED <<deps, run>>
  BY DEF WriteStatus, Sets
<1>6. earned' = IF s = "done" THEN [earned EXCEPT ![t[3]] = t[1]] ELSE earned
  BY <1>3 DEF WriteStatus
<1> HIDE DEF x, s
<1>7. TurnsEffect(t)
  <2>1. x \in TurnState /\ Formed(t, x) /\ x.pc # "verify"
    BY <1>3, <1>4 DEF TurnState, Formed
  <2> QED
    BY <1>5, <2>1, BecomesEffect
<1>8. RowEffect(t)
  <2>1. [row[t[3]] EXCEPT !.status = s] \in Row /\ [row[t[3]] EXCEPT !.status = s].status = s
    BY <1>1, <1>2, RowStatus
  <2>2. /\ row' \in [Card -> Row] /\ row'[t[3]].status = s
        /\ \A c \in Card \ {t[3]} : row'[c] = row[c]
    BY <1>1, <1>5, <2>1 DEF TypeOK
  <2>3. t[1] \in 0..MaxRuns
    BY <1>1, EpicAssumption DEF Run
  <2>4. /\ earned' \in [Card -> 0..MaxRuns]
        /\ \A c \in Card \ {t[3]} : earned'[c] = earned[c]
        /\ s = "done" => earned'[t[3]] = t[1]
        /\ s # "done" => earned' = earned
    BY <1>1, <1>6, <2>3 DEF TypeOK
  <2> QED
    BY <2>2, <2>4 DEF RowEffect
<1> QED
  BY <1>1, <1>5, <1>7, <1>8, NoRunEffect DEF TurnEffect

\* A seat that asks to be excused sets its own card to wait for the developer.
LEMMA RequestExcuseEffect ==
  ASSUME TypeOK, TurnsFormed, NEW t \in Turn, RequestExcuse(t)
  PROVE  TurnEffect(t)
<1> DEFINE x == [turn[t] EXCEPT !.calls = @ + 1]
<1>1. /\ turn[t] \in ActiveTurn /\ t[1] \in Run
      /\ turn[t].pc = "model" /\ turn[t].calls < MaxCalls
  BY TurnParts DEF RequestExcuse
<1>2. turn[t].calls + 1 \in 0..MaxCalls
  <2>1. MaxCalls \in Nat /\ turn[t].calls \in 0..MaxCalls
    BY <1>1, EpicAssumption DEF ActiveTurn
  <2> QED
    BY <1>1, <2>1
<1>3. x \in ActiveTurn /\ x.pc = "model" /\ x.issue = turn[t].issue
  BY <1>1, <1>2 DEF ActiveTurn
<1>4. Sets(t, "waiting_for_developer") /\ Becomes(t, x) /\ UNCHANGED <<deps, run, earned>>
  BY DEF RequestExcuse
<1> HIDE DEF x
<1>5. x \in TurnState /\ Formed(t, x) /\ x.pc # "verify"
  BY <1>1, <1>3 DEF TurnState, Formed, TurnsFormed
<1>6. TurnsEffect(t)
  BY <1>4, <1>5, BecomesEffect
<1>7. RowEffect(t)
  BY <1>4, Statuses, SetsEffect
<1> QED
  BY <1>1, <1>4, <1>6, <1>7, NoRunEffect DEF TurnEffect

\* A failed attempt is counted on the card and the card is retried or blocked.
LEMMA CountsAttemptEffect ==
  ASSUME TypeOK, NEW t \in Turn, turn[t].pc # "none", CountsAttempt(t),
         UNCHANGED <<deps, earned>>
  PROVE  TurnEffect(t)
<1> DEFINE issue == turn[t].issue
           a == [status |-> "ready", retries |-> issue.retries + 1]
           b == [status |-> "blocked", retries |-> issue.retries + 1]
<1>1. issue.retries \in Nat
  BY TurnParts
<1>2. a \in Row /\ a.status = "ready" /\ b \in Row /\ b.status = "blocked"
  BY <1>1, Statuses DEF Row
<1>3. \/ Requests(t, "ready", TRUE, SavesThen(t, a, "raise"))
      \/ Requests(t, "blocked", FALSE, SavesThen(t, b, "cancel"))
  BY DEF CountsAttempt
<1> HIDE DEF a, b, issue
<1>4. /\ SavesThen(t, a, "raise") \in TurnState /\ Formed(t, SavesThen(t, a, "raise"))
      /\ SavesThen(t, a, "raise").pc # "verify"
  BY <1>2, SavesFormed
<1>5. /\ SavesThen(t, b, "cancel") \in TurnState /\ Formed(t, SavesThen(t, b, "cancel"))
      /\ SavesThen(t, b, "cancel").pc # "verify"
  BY <1>2, SavesFormed
<1> QED
  BY <1>3, <1>4, <1>5, Statuses, RequestsEffect

\* A turn that fails is an attempt, or blocks the card.
LEMMA TurnFailsEffect ==
  ASSUME TypeOK, TurnsFormed, NEW t \in Turn, TurnFails(t)
  PROVE  TurnEffect(t)
<1> DEFINE issue == turn[t].issue
           b == [issue EXCEPT !.status = "blocked"]
<1>1. turn[t].pc = "model" /\ issue \in Row /\ t[1] \in Run /\ UNCHANGED <<deps, earned>>
  BY TurnParts DEF TurnFails
<1>2. b \in Row /\ b.status = "blocked"
  BY <1>1, RowStatus, Statuses
<1>3. issue.status = TurnStatus(t[2])
  BY <1>1 DEF TurnsFormed, Formed
<1>4. \/ Requests(t, "blocked", FALSE, SavesThen(t, b, "raise"))
      \/ CountsAttempt(t)
      \/ Becomes(t, SavesThen(t, issue, "raise")) /\ UNCHANGED <<row, run>>
  BY DEF TurnFails
<1> HIDE DEF b, issue
<1>5. CASE Requests(t, "blocked", FALSE, SavesThen(t, b, "raise"))
  <2>1. /\ SavesThen(t, b, "raise") \in TurnState /\ Formed(t, SavesThen(t, b, "raise"))
        /\ SavesThen(t, b, "raise").pc # "verify"
    BY <1>2, SavesFormed
  <2> QED
    BY <1>1, <1>5, <2>1, Statuses, RequestsEffect
<1>6. CASE CountsAttempt(t)
  BY <1>1, <1>6, CountsAttemptEffect
<1>7. CASE Becomes(t, SavesThen(t, issue, "raise")) /\ UNCHANGED <<row, run>>
  <2>1. /\ SavesThen(t, issue, "raise") \in TurnState
        /\ Formed(t, SavesThen(t, issue, "raise"))
        /\ SavesThen(t, issue, "raise").pc # "verify"
    BY <1>1, <1>3, SavesFormed
  <2>2. TurnsEffect(t)
    BY <1>7, <2>1, BecomesEffect
  <2> QED
    BY <1>1, <1>7, <2>2, NoRunEffect, NoRowEffect DEF TurnEffect
<1> QED
  BY <1>4, <1>5, <1>6, <1>7

\* Whatever follows the save, it writes a card that is not done.
LEMMA SaveIssueEffect ==
  ASSUME TypeOK, TurnsFormed, NEW t \in Turn, SaveIssue(t)
  PROVE  TurnEffect(t)
<1>1. /\ turn[t] \in ActiveTurn /\ turn[t].issue \in Row /\ t[1] \in Run /\ t[3] \in Card
      /\ turn[t].pc = "save"
  BY TurnParts DEF SaveIssue
<1>2. turn[t].issue.status # "done"
  BY <1>1, TurnStatuses DEF TurnsFormed, Formed
<1>3. row' = [row EXCEPT ![t[3]] = turn[t].issue] /\ UNCHANGED <<deps, earned>>
  BY DEF SaveIssue
<1>4. RowEffect(t)
  BY <1>1, <1>2, <1>3 DEF RowEffect, TypeOK
<1>5. Returns(t) \/ Raises(t) \/ Cancels(t)
  <2>1. turn[t].then \in {"stop", "raise", "cancel"}
    BY <1>1 DEF ActiveTurn, TurnsFormed, Formed
  <2> QED
    BY <2>1 DEF SaveIssue
<1>6. RunEffect(t[1]) /\ TurnsEffect(t)
  <2>1. CASE Returns(t)
    BY <1>1, <2>1, EndedTurn, BecomesEffect, NoRunEffect DEF Returns
  <2>2. CASE Raises(t)
    BY <2>2, RaisesEffect
  <2>3. CASE /\ run[t[1]].pc = "gather"
             /\ Ends(t[1], "over")
             /\ turn' = [u \in Turn |-> IF u[1] = t[1] THEN NoTurn ELSE turn[u]]
    <3>1. RunEffect(t[1])
      BY <1>1, <2>3, EndsEffect
    <3>2. NoTurn \in TurnState /\ Formed(t, NoTurn) /\ NoTurn.pc = "none"
      BY EndedTurn
    <3>3. turn' \in [Turn -> TurnState] /\ turn'[t] = NoTurn
          /\ \A u \in Turn : turn'[u] = turn[u] \/ (u[1] = t[1] /\ turn'[u] = NoTurn)
      BY <2>3, <3>2 DEF TypeOK
    <3> QED
      BY <3>1, <3>2, <3>3 DEF TurnsEffect
  <2> QED
    BY <1>5, <2>1, <2>2, <2>3 DEF Cancels
<1> QED
  BY <1>3, <1>4, <1>6 DEF TurnEffect

\* A turn that succeeds returns, sends its card to review, or was a failed attempt.
LEMMA HandleSuccessEffect ==
  ASSUME TypeOK, TurnsFormed, NEW t \in Turn, HandleSuccess(t)
  PROVE  TurnEffect(t)
<1> DEFINE x == NewTurn("promote", turn[t].issue)
<1>1. turn[t].pc = "model" /\ turn[t].issue \in Row /\ t[1] \in Run /\ UNCHANGED <<deps, earned>>
  BY TurnParts DEF HandleSuccess
<1>2. x \in ActiveTurn /\ x.pc = "promote" /\ x.issue = turn[t].issue
  BY <1>1, NewTurnType
<1>3. \/ CountsAttempt(t)
      \/ Becomes(t, x) /\ UNCHANGED <<row, run>>
      \/ Returns(t) /\ UNCHANGED row
  BY DEF HandleSuccess
<1> HIDE DEF x
<1>4. x \in TurnState /\ Formed(t, x)
  BY <1>1, <1>2 DEF TurnState, Formed, TurnsFormed
<1>5. CASE CountsAttempt(t)
  BY <1>1, <1>5, CountsAttemptEffect
<1>6. CASE Becomes(t, x) /\ UNCHANGED <<row, run>>
  BY <1>1, <1>2, <1>4, <1>6, BecomesEffect, NoRunEffect, NoRowEffect DEF TurnEffect
<1>7. CASE Returns(t) /\ UNCHANGED row
  BY <1>1, <1>7, EndedTurn, BecomesEffect, NoRunEffect, NoRowEffect DEF TurnEffect, Returns
<1> QED
  BY <1>3, <1>5, <1>6, <1>7

\* Every step of a turn has the effect of a turn.
LEMMA TurnStepEffect ==
  ASSUME TypeOK, TurnsFormed, NEW t \in Turn, TurnStep(t)
  PROVE  TurnEffect(t)
BY VerifierPassesEffect, VerifierFailsEffect, VerifySavesEffect, DispatchEffect,
   NotPreparedEffect, MissingRoleEffect, CallUpdateStatusEffect, WriteStatusEffect,
   RequestExcuseEffect, TurnFailsEffect, SaveIssueEffect, HandleSuccessEffect,
   PromoteEffect DEF TurnStep

-----------------------------------------------------------------------------
(* The steps of a turn keep the invariant.                                     *)

\* While one run has tasks, no other is sole.
LEMMA SoleIsLive ==
  ASSUME AloneIsAlone, NEW r \in Run, Live(r), NEW q \in Run, Sole(q)
  PROVE  q = r
BY DEF AloneIsAlone, Sole

\* A turn has no successors but itself, and starts no run: what is live after
\* its step was live, and what is sole was sole.
LEMMA TurnAddsNothing ==
  ASSUME NEW t \in Turn, turn[t].pc # "none", TurnEffect(t)
  PROVE  \A r \in Run : /\ TurnsOf(r)' \subseteq TurnsOf(r)
                        /\ Live(r)' => Live(r)
                        /\ Sole(r)' => Sole(r)
<1> SUFFICES ASSUME NEW r \in Run
             PROVE  /\ TurnsOf(r)' \subseteq TurnsOf(r)
                    /\ Live(r)' => Live(r)
                    /\ Sole(r)' => Sole(r)
  OBVIOUS
<1>1. TurnsOf(r)' \subseteq TurnsOf(r)
  BY DEF TurnsOf, TurnEffect, TurnsEffect, NoTurn
<1>2. \/ run'[r] = run[r]
      \/ /\ run[r].pc = "gather" /\ run'[r].pc = "over"
         /\ run'[r].alone = run[r].alone /\ run'[r].target = run[r].target
  BY DEF TurnEffect, RunEffect
<1>3. Live(r)' => Live(r)
  BY <1>1, <1>2 DEF Live, Over
<1>4. Sole(r)' => Sole(r)
  BY <1>2, <1>3 DEF Sole
<1> QED
  BY <1>1, <1>3, <1>4

\* Whatever has the effect of a turn keeps the invariant.
LEMMA TurnKeepsInv ==
  ASSUME Inv, NEW t \in Turn, turn[t].pc # "none", TurnEffect(t)
  PROVE  Inv'
<1>1. /\ t[1] \in Run /\ t[3] \in Card /\ t \in TurnsOf(t[1]) /\ Live(t[1])
      /\ t[1] # 0
  <2>1. t[1] \in Run /\ t[3] \in Card /\ t \in TurnsOf(t[1])
    BY DEF Turn, TurnsOf
  <2> QED
    BY <2>1, EpicAssumption DEF Live, Run
<1>2. \A r \in Run : /\ TurnsOf(r)' \subseteq TurnsOf(r)
                     /\ Live(r)' => Live(r)
                     /\ Sole(r)' => Sole(r)
  BY TurnAddsNothing
<1>3. \A r \in Run : Sole(r)' => r = t[1]
  BY <1>1, <1>2, SoleIsLive DEF Inv
<1>4. TypeOK'
  BY DEF Inv, TypeOK, TurnEffect, RunEffect, TurnsEffect, RowEffect
<1>5. TurnsFormed'
  <2> SUFFICES ASSUME NEW u \in Turn PROVE Formed(u, turn'[u])
    BY DEF TurnsFormed, Formed
  <2>1. CASE u = t
    BY <2>1 DEF TurnEffect, TurnsEffect
  <2>2. CASE u # t /\ turn'[u] = turn[u]
    BY <2>2 DEF Inv, TurnsFormed
  <2>3. CASE turn'[u] = NoTurn
    BY <2>3, EndedTurn
  <2> QED
    BY <2>1, <2>2, <2>3 DEF TurnEffect, TurnsEffect
<1>6. RunsFormed'
  <2> SUFFICES ASSUME NEW r \in Run
               PROVE  /\ run'[r].pc \in {"none", "start", "read", "plan"} => TurnsOf(r)' = {}
                      /\ run'[r].pc \in {"start", "plan"} => run'[r].backlog \in [Card -> Row]
    BY DEF RunsFormed
  <2>1. run'[r] = run[r] \/ run'[r].pc = "over"
    BY DEF TurnEffect, RunEffect
  <2> QED
    BY <1>2, <2>1 DEF Inv, RunsFormed
<1>7. AloneIsAlone'
  <2>1. \A r \in Run : run'[r].alone = run[r].alone
    BY DEF TurnEffect, RunEffect
  <2> QED
    BY <1>2, <2>1 DEF Inv, AloneIsAlone
<1>8. HeldIsEarned'
  <2> SUFFICES ASSUME NEW u \in Turn, turn'[u].pc = "verify", turn'[u].held.status = "done"
               PROVE  /\ earned'[u[3]] # 0
                      /\ Sole(u[1])' => earned'[u[3]] = u[1]
    BY DEF HeldIsEarned
  <2>1. u[1] \in Run /\ u[3] \in Card
    BY DEF Turn
  <2>2. CASE u = t
    BY <1>2, <2>1, <2>2 DEF Inv, RowsAreEarned, TurnEffect, TurnsEffect
  <2>3. CASE u # t
    <3>1. turn'[u] = turn[u]
      BY <2>3, EndedTurn DEF TurnEffect, TurnsEffect
    <3>2. earned[u[3]] # 0 /\ (Sole(u[1]) => earned[u[3]] = u[1])
      BY <3>1 DEF Inv, HeldIsEarned
    <3>3. earned'[u[3]] = earned[u[3]] \/ earned'[u[3]] = t[1]
      BY <2>1 DEF TurnEffect, RowEffect
    <3> QED
      BY <1>1, <1>2, <1>3, <2>1, <3>2, <3>3
  <2> QED
    BY <2>2, <2>3
<1>9. RowsAreEarned'
  <2> SUFFICES ASSUME NEW c \in Card, row'[c].status = "done"
               PROVE  /\ earned'[c] # 0
                      /\ \A r \in Run : Sole(r)' => earned'[c] = r
    BY DEF RowsAreEarned
  <2>1. CASE c # t[3]
    BY <1>2, <2>1 DEF Inv, RowsAreEarned, TurnEffect, RowEffect
  <2>2. CASE earned'[c] = t[1]
    BY <1>1, <1>3, <2>2
  <2>3. CASE c = t[3] /\ earned' = earned /\ row[c].status = "done"
    BY <1>2, <2>3 DEF Inv, RowsAreEarned
  <2>4. CASE c = t[3] /\ earned' = earned /\ turn[t].pc = "verify"
             /\ turn[t].held.status = "done"
    BY <1>2, <1>3, <2>4 DEF Inv, HeldIsEarned
  <2> QED
    BY <2>1, <2>2, <2>3, <2>4 DEF TurnEffect, RowEffect
<1>10. SolePlans'
  <2> SUFFICES ASSUME NEW r \in Run, Sole(r)'
               PROVE  /\ run'[r].pc = "plan" => run'[r].backlog = row'
                      /\ \A u \in TurnsOf(r)' : u[2] = "build" =>
                           \A d \in deps'[u[3]] : /\ row'[d].status = "done"
                                                  /\ \A v \in TurnsOf(r)' : v[3] # d
    BY DEF SolePlans
  <2>1. r = t[1] /\ Sole(r) /\ t \in TurnsOf(r)
    BY <1>1, <1>2, <1>3
  <2>2. run'[r].pc # "plan"
    BY <2>1 DEF Inv, RunsFormed, TurnEffect, RunEffect
  <2>3. ASSUME NEW u \in TurnsOf(r)', u[2] = "build", NEW d \in deps'[u[3]]
        PROVE  /\ row'[d].status = "done"
               /\ \A v \in TurnsOf(r)' : v[3] # d
    <3>1. u \in TurnsOf(r) /\ deps' = deps /\ u[3] \in Card
      BY <1>2, <2>3 DEF TurnEffect, TurnsOf, Turn
    <3>2. row[d].status = "done" /\ \A v \in TurnsOf(r) : v[3] # d
      BY <2>1, <2>3, <3>1 DEF Inv, SolePlans
    <3>3. d \in Card
      BY <2>3, <3>1, EpicAssumption DEF Inv, TypeOK
    <3>4. row'[d] = row[d]
      BY <2>1, <3>2, <3>3 DEF TurnEffect, RowEffect
    <3> QED
      BY <1>2, <3>2, <3>4
  <2> QED
    BY <2>2, <2>3
<1> QED
  BY <1>4, <1>5, <1>6, <1>7, <1>8, <1>9, <1>10 DEF Inv

-----------------------------------------------------------------------------
(* The steps of a run keep the invariant.                                      *)

\* A run that starts beside others takes them their solitude; until it has
\* prepared its cards no run is sole.
LEMMA StartKeepsInv ==
  ASSUME Inv, NEW r \in Run, NEW g \in Targets \cup {NoCard}, Start(r, g)
  PROVE  Inv'
<1> DEFINE others == {q \in Run \ {r} : Live(q)}
           resume == g # NoCard \/ \E c \in Card : row[c].status \in Stalled
           x == [NewRun("start", g, resume) EXCEPT !.backlog = row, !.alone = others = {}]
<1>1. run \in [Run -> RunState] /\ row \in [Card -> Row] /\ run[r].pc = "none"
      /\ UNCHANGED <<deps, row, turn, earned>>
  BY DEF Inv, TypeOK, Start
<1>2. x \in RunState /\ x.pc = "start" /\ x.backlog = row /\ (x.alone <=> others = {})
  <2>1. 0 \in 0..MaxIterations /\ g \in Card \cup {NoCard} /\ resume \in BOOLEAN
        /\ (others = {}) \in BOOLEAN /\ row \in [Card -> Row] \cup {Unread}
    BY <1>1, EpicAssumption
  <2> HIDE DEF others, resume
  <2> QED
    BY <2>1 DEF NewRun, RunState
<1>3. run' = [q \in Run |-> IF q = r THEN x
                            ELSE IF q \in others THEN [run[q] EXCEPT !.alone = FALSE]
                            ELSE run[q]]
  BY DEF Start
<1> HIDE DEF x, resume
<1>4. run'[r] = x /\ \A q \in Run \ {r} : /\ run'[q].pc = run[q].pc
                                          /\ run'[q].backlog = run[q].backlog
                                          /\ q \in others => ~run'[q].alone
                                          /\ run'[q] \in RunState
  <2>1. \A q \in Run : run[q] \in RunState
    BY <1>1
  <2> QED
    BY <1>3, <2>1 DEF RunState
<1>5. run' \in [Run -> RunState]
  BY <1>2, <1>3, <1>4
<1>6. \A q \in Run : TurnsOf(q)' = TurnsOf(q)
  BY <1>1 DEF TurnsOf
<1>7. \A q \in Run \ {r} : Live(q)' <=> Live(q)
  BY <1>4, <1>6 DEF Live
<1>8. \A q \in Run \ {r} : ~(run'[q].alone /\ Live(q)')
  BY <1>4, <1>7
<1>9. \A q \in Run : ~Sole(q)'
  BY <1>2, <1>4, <1>8 DEF Sole
<1>10. TypeOK' /\ TurnsFormed'
  BY <1>1, <1>5 DEF Inv, TypeOK, TurnsFormed, Formed
<1>11. RunsFormed'
  BY <1>1, <1>2, <1>4, <1>6 DEF Inv, RunsFormed
<1>12. AloneIsAlone'
  <2>1. x.alone => \A q \in Run \ {r} : ~Live(q)'
    BY <1>2, <1>7
  <2> QED
    BY <1>4, <1>8, <2>1 DEF AloneIsAlone
<1>13. HeldIsEarned' /\ RowsAreEarned' /\ SolePlans'
  <2>1. \A u \in Turn : u[1] \in Run
    BY DEF Turn
  <2> QED
    BY <1>1, <1>9, <2>1 DEF Inv, HeldIsEarned, RowsAreEarned, SolePlans
<1> QED
  BY <1>10, <1>11, <1>12, <1>13 DEF Inv

\* A step of run r that changes its place and its backlog only.
Moves(r, p) ==
  /\ run' \in [Run -> RunState]
  /\ \A q \in Run \ {r} : run'[q] = run[q]
  /\ run'[r].pc = p /\ run'[r].alone = run[r].alone /\ run'[r].target = run[r].target
  /\ deps' = deps /\ earned' = earned

\* A run that takes its next place in the loop, with the backlog it read, leaves
\* the cards alone.
LEMMA MovesTo ==
  ASSUME TypeOK, NEW r \in Run, NEW p \in {"read", "plan", "gather"},
         NEW i \in 0..MaxIterations, NEW b \in [Card -> Row] \cup {Unread},
         run' = [run EXCEPT ![r].pc = p, ![r].iteration = i, ![r].backlog = b],
         UNCHANGED <<deps, earned>>
  PROVE  Moves(r, p) /\ run'[r].backlog = b
<1> DEFINE x == [run[r] EXCEPT !.pc = p, !.iteration = i, !.backlog = b]
<1>1. run \in [Run -> RunState] /\ run[r] \in RunState
  BY DEF TypeOK
<1>2. x \in RunState
  BY <1>1 DEF RunState
<1>3. x.pc = p /\ x.alone = run[r].alone /\ x.target = run[r].target /\ x.backlog = b
  BY <1>1 DEF RunState
<1>4. run' = [run EXCEPT ![r] = x]
  BY <1>1
<1> HIDE DEF x
<1> QED
  BY <1>1, <1>2, <1>3, <1>4 DEF Moves

\* A run that drops its backlog and goes on leaves the cards alone.
LEMMA MovesOn ==
  ASSUME TypeOK, NEW r \in Run, NEW p \in {"read", "plan", "gather"},
         run' = [run EXCEPT ![r].pc = p, ![r].backlog = Unread],
         UNCHANGED <<deps, earned>>
  PROVE  Moves(r, p)
<1> DEFINE x == [run[r] EXCEPT !.pc = p, !.backlog = Unread]
<1>1. run \in [Run -> RunState] /\ run[r] \in RunState
      /\ Unread \in [Card -> Row] \cup {Unread}
  BY DEF TypeOK
<1>2. x \in RunState
  BY <1>1 DEF RunState
<1>3. x.pc = p /\ x.alone = run[r].alone /\ x.target = run[r].target
  BY <1>1 DEF RunState
<1>4. run' = [run EXCEPT ![r] = x]
  BY <1>1
<1> HIDE DEF x
<1> QED
  BY <1>1, <1>2, <1>3, <1>4 DEF Moves

\* What is live, and who else is sole, does not depend on where a run stands.
LEMMA MovesLive ==
  ASSUME Inv, NEW r \in Run, NEW p, Moves(r, p), run[r].pc \notin Over \cup {"none"},
         UNCHANGED turn
  PROVE  /\ \A q \in Run : TurnsOf(q)' = TurnsOf(q) /\ (Live(q)' => Live(q))
         /\ \A q \in Run : Sole(q)' => q = r
         /\ AloneIsAlone' /\ TurnsFormed'
<1>1. Live(r)
  BY DEF Live
<1>2. \A q \in Run : TurnsOf(q)' = TurnsOf(q)
  BY DEF TurnsOf
<1>3. \A q \in Run : Live(q)' => Live(q)
  BY <1>1, <1>2 DEF Live, Moves
<1>4. \A q \in Run : Sole(q)' => q = r
  <2>1. \A q \in Run \ {r} : Sole(q)' => Sole(q)
    BY <1>3 DEF Sole, Moves
  <2> QED
    BY <1>1, <2>1, SoleIsLive DEF Inv
<1>5. AloneIsAlone'
  <2>1. \A q \in Run : run'[q].alone = run[q].alone
    BY DEF Moves
  <2> QED
    BY <1>3, <2>1 DEF Inv, AloneIsAlone
<1>6. TurnsFormed'
  BY DEF Inv, TurnsFormed, Formed
<1> QED
  BY <1>2, <1>3, <1>4, <1>5, <1>6

\* Without a target every card is ready, and a run that is alone is sole from now.
LEMMA PrepareCardsKeepsInv ==
  ASSUME Inv, NEW r \in Run, PrepareCards(r)
  PROVE  Inv'
<1> DEFINE requeue(c) == \/ run[r].target = NoCard
                         \/ c # run[r].target /\ run[r].backlog[c].status \in Stalled
                         \/ c = run[r].target
                            /\ run[r].backlog[c].status \notin Stalled \cup {"ready"}
<1>1. /\ run[r].pc = "start" /\ UNCHANGED <<deps, turn, earned>>
      /\ row' = [c \in Card |-> IF requeue(c) THEN [row[c] EXCEPT !.status = "ready"] ELSE row[c]]
      /\ run' = [run EXCEPT ![r].pc = "read", ![r].backlog = Unread]
  BY DEF PrepareCards
<1>2. run[r].target = NoCard => \A c \in Card : requeue(c)
  OBVIOUS
<1> HIDE DEF requeue
<1>3. TypeOK /\ run[r].pc \notin Over \cup {"none"}
  BY <1>1 DEF Inv, Over
<1>4. Moves(r, "read")
  BY <1>1, <1>3, MovesOn
<1>5. /\ \A q \in Run : TurnsOf(q)' = TurnsOf(q)
      /\ \A q \in Run : Sole(q)' => q = r
      /\ AloneIsAlone' /\ TurnsFormed'
  BY <1>1, <1>3, <1>4, MovesLive
<1>6. TurnsOf(r) = {}
  BY <1>1 DEF Inv, RunsFormed
<1>7. \A c \in Card : /\ row'[c] \in Row
                      /\ requeue(c) => row'[c].status = "ready"
                      /\ ~requeue(c) => row'[c] = row[c]
  <2>1. \A c \in Card : row[c] \in Row
    BY <1>3 DEF TypeOK
  <2>2. "ready" \in CardStatus
    BY Statuses
  <2> QED
    BY <1>1, <2>1, <2>2, RowStatus
<1>8. TypeOK'
  <2>1. row' \in [Card -> Row]
    BY <1>1, <1>7
  <2> QED
    BY <1>1, <1>3, <1>4, <2>1 DEF TypeOK, Moves
<1>9. RunsFormed'
  BY <1>4, <1>5, <1>6 DEF Inv, RunsFormed, Moves
<1>10. HeldIsEarned'
  <2> SUFFICES ASSUME NEW u \in Turn, turn[u].pc = "verify", turn[u].held.status = "done"
               PROVE  /\ earned[u[3]] # 0
                      /\ Sole(u[1])' => earned[u[3]] = u[1]
    BY <1>1 DEF HeldIsEarned
  <2>1. u[1] \in Run /\ u \in TurnsOf(u[1])
    BY DEF Turn, TurnsOf
  <2> QED
    BY <1>5, <1>6, <2>1 DEF Inv, HeldIsEarned
<1>11. RowsAreEarned'
  <2> SUFFICES ASSUME NEW c \in Card, row'[c].status = "done"
               PROVE  /\ earned[c] # 0
                      /\ \A q \in Run : Sole(q)' => earned[c] = q
    BY <1>1 DEF RowsAreEarned
  <2>1. ~requeue(c) /\ row'[c] = row[c]
    BY <1>7
  <2>2. run'[r].target # NoCard
    BY <1>2, <1>4, <2>1 DEF Moves
  <2>3. ~Sole(r)'
    BY <2>2 DEF Sole
  <2> QED
    BY <1>5, <2>1, <2>3 DEF Inv, RowsAreEarned
<1>12. SolePlans'
  BY <1>4, <1>5, <1>6 DEF SolePlans, Moves
<1> QED
  BY <1>5, <1>8, <1>9, <1>10, <1>11, <1>12 DEF Inv

\* A run reads the rows when it waits for no turn.
LEMMA ReadBacklogKeepsInv ==
  ASSUME Inv, NEW r \in Run, ReadBacklog(r)
  PROVE  Inv'
<1> DEFINE n == run[r].iteration + 1
<1>1. /\ TypeOK /\ Loops(r) /\ run[r].iteration < MaxIterations
      /\ UNCHANGED <<deps, row, turn, earned>>
      /\ row \in [Card -> Row]
  BY DEF Inv, ReadBacklog, TypeOK
<1>2. n \in 0..MaxIterations
  <2>1. run[r].iteration \in 0..MaxIterations /\ MaxIterations \in Nat
    BY <1>1, EpicAssumption DEF TypeOK, RunState
  <2> QED
    BY <1>1, <2>1
<1>3. run' = [run EXCEPT ![r].pc = "plan", ![r].iteration = n, ![r].backlog = row]
  BY DEF ReadBacklog
<1> HIDE DEF n
<1>4. Moves(r, "plan") /\ run'[r].backlog = row
  BY <1>1, <1>2, <1>3, MovesTo
<1>5. run[r].pc \notin Over \cup {"none"} /\ TurnsOf(r) = {} /\ run[r].pc # "start"
  BY <1>1 DEF Loops, Over, Inv, RunsFormed
<1>6. /\ \A q \in Run : TurnsOf(q)' = TurnsOf(q) /\ (Live(q)' => Live(q))
      /\ \A q \in Run : Sole(q)' => q = r
      /\ AloneIsAlone' /\ TurnsFormed'
  BY <1>1, <1>4, <1>5, MovesLive
<1>7. Sole(r)' => Sole(r)
  BY <1>4, <1>5, <1>6 DEF Sole, Moves
<1>8. TypeOK'
  BY <1>1, <1>4 DEF TypeOK, Moves
<1>9. RunsFormed'
  BY <1>1, <1>4, <1>5, <1>6 DEF Inv, RunsFormed, Moves
<1>10. HeldIsEarned' /\ RowsAreEarned'
  <2>1. \A u \in Turn : u[1] \in Run
    BY DEF Turn
  <2> QED
    BY <1>1, <1>6, <1>7, <2>1 DEF Inv, HeldIsEarned, RowsAreEarned
<1>11. SolePlans'
  BY <1>1, <1>4, <1>5, <1>6 DEF SolePlans, Moves
<1> QED
  BY <1>6, <1>8, <1>9, <1>10, <1>11 DEF Inv

\* A run that ends while it waits for no turn is not live any more.
LEMMA EndsKeepsInv ==
  ASSUME Inv, NEW r \in Run, NEW p \in Over, Ends(r, p), TurnsOf(r) = {},
         run[r].pc \notin Over \cup {"none"},
         UNCHANGED <<deps, row, turn, earned>>
  PROVE  Inv'
<1>1. TypeOK
  BY DEF Inv
<1>2. Moves(r, p)
  BY <1>1, EndsKeeps DEF Moves
<1>3. /\ \A q \in Run : TurnsOf(q)' = TurnsOf(q)
      /\ \A q \in Run : Sole(q)' => q = r
      /\ AloneIsAlone' /\ TurnsFormed'
  BY <1>2, MovesLive
<1>4. ~Sole(r)'
  BY <1>2, <1>3 DEF Sole, Live, Moves
<1>5. TypeOK'
  BY <1>1, <1>2 DEF TypeOK, Moves
<1>6. RunsFormed'
  BY <1>2, <1>3 DEF Inv, RunsFormed, Moves, Over
<1>7. HeldIsEarned' /\ RowsAreEarned' /\ SolePlans'
  <2>1. \A u \in Turn : u[1] \in Run
    BY DEF Turn
  <2> QED
    BY <1>3, <1>4, <2>1 DEF Inv, HeldIsEarned, RowsAreEarned, SolePlans
<1> QED
  BY <1>3, <1>5, <1>6, <1>7 DEF Inv

\* A run that gives up at max_iterations keeps the invariant.
LEMMA ExhaustKeepsInv ==
  ASSUME Inv, NEW r \in Run, Exhaust(r)
  PROVE  Inv'
<1>1. PICK p \in Over : Ends(r, p)
  BY DEF Exhaust, Over
<1>2. /\ TurnsOf(r) = {} /\ run[r].pc \notin Over \cup {"none"}
      /\ UNCHANGED <<deps, row, turn, earned>>
  BY DEF Exhaust, Loops, Inv, RunsFormed, Over
<1> QED
  BY <1>1, <1>2, EndsKeepsInv

\* The planner chose the card of t for a turn of r.
Planned(r, t) ==
  /\ t[1] = r
  /\ t[3] \in IF t[2] = "build"
              THEN ToBuild(run[r].backlog, IndependentReady(row, deps), run[r].target)
              ELSE InReview(run[r].backlog, run[r].target)

\* The turns of a plan: a card that a sole run builds depends on rows that are
\* done, and the run has no turn for those.
LEMMA PlanTurnsKeepsInv ==
  ASSUME Inv, NEW r \in Run, run[r].pc = "plan",
         turn' \in [Turn -> TurnState],
         \A t \in Turn : /\ Planned(r, t) => turn'[t].pc = "wait"
                         /\ ~Planned(r, t) => turn'[t] = turn[t],
         run' = [run EXCEPT ![r].pc = "gather", ![r].backlog = Unread],
         UNCHANGED <<deps, row, earned>>
  PROVE  Inv'
<1> DEFINE build == ToBuild(run[r].backlog, IndependentReady(row, deps), run[r].target)
           review == InReview(run[r].backlog, run[r].target)
<1>1. TypeOK /\ TurnsOf(r) = {} /\ Live(r)
  BY DEF Inv, RunsFormed, Live, Over
<1>2. Moves(r, "gather")
  BY <1>1, MovesOn
<1>3. \A t \in Turn : t[1] \in Run /\ t[2] \in Kind /\ t[3] \in Card
  BY DEF Turn
<1>4. \A t \in Turn : turn'[t].pc = "wait" \/ turn'[t] = turn[t]
  OBVIOUS
<1>5. \A q \in Run \ {r} : TurnsOf(q)' = TurnsOf(q)
  BY DEF TurnsOf, Planned
<1>6. \A t \in TurnsOf(r)' : Planned(r, t)
  BY <1>1 DEF TurnsOf
<1>7. \A q \in Run : Live(q)' => Live(q)
  BY <1>1, <1>2, <1>5 DEF Live, Moves
<1>8. \A q \in Run : Sole(q)' => Sole(q) /\ q = r
  <2>1. \A q \in Run : Sole(q)' => Sole(q)
    BY <1>2, <1>7 DEF Sole, Moves
  <2> QED
    BY <1>1, <2>1, SoleIsLive DEF Inv
<1>9. TypeOK'
  BY <1>1, <1>2 DEF TypeOK, Moves
<1>10. TurnsFormed'
  BY <1>4 DEF Inv, TurnsFormed, Formed
<1>11. RunsFormed'
  BY <1>2, <1>5 DEF Inv, RunsFormed, Moves
<1>12. AloneIsAlone'
  BY <1>2, <1>7 DEF Inv, AloneIsAlone, Moves
<1>13. HeldIsEarned' /\ RowsAreEarned'
  BY <1>3, <1>4, <1>8 DEF Inv, HeldIsEarned, RowsAreEarned
<1>14. SolePlans'
  <2> SUFFICES ASSUME Sole(r)', NEW t \in TurnsOf(r)', t[2] = "build",
                      NEW d \in deps[t[3]]
               PROVE  row[d].status = "done" /\ \A u \in TurnsOf(r)' : u[3] # d
    BY <1>2, <1>8 DEF SolePlans, Moves
  <2>1. Sole(r) /\ run[r].target = NoCard /\ run[r].backlog = row
    BY <1>8 DEF Sole, Inv, SolePlans
  <2>2. t[3] \in build
    BY <1>6 DEF Planned
  <2>3. build = IndependentReady(row, deps)
    BY <2>1 DEF ToBuild
  <2>4. row[d].status = "done"
    BY <2>2, <2>3 DEF IndependentReady
  <2>5. ASSUME NEW u \in TurnsOf(r)' PROVE u[3] # d
    <3>1. u[3] \in build \/ u[3] \in review
      BY <1>6, <2>5 DEF Planned
    <3>2. row[u[3]].status \in {"ready", "code_review"}
      BY <2>1, <2>3, <3>1 DEF IndependentReady, InReview
    <3> QED
      BY <2>4, <3>2
  <2> QED
    BY <2>4, <2>5
<1> QED
  BY <1>9, <1>10, <1>11, <1>12, <1>13, <1>14 DEF Inv

\* The planning of a run keeps the invariant: a card joins the candidates of the
\* run only as the backlog it read allows.
LEMMA PlanKeepsInv ==
  ASSUME Inv, NEW r \in Run, Plan(r)
  PROVE  Inv'
<1> DEFINE backlog == run[r].backlog
           review == InReview(backlog, run[r].target)
           build == ToBuild(backlog, IndependentReady(row, deps), run[r].target)
           blocked == DependencyBlocked(backlog, deps)
           issue(k, c) == IF k = "build" /\ run[r].target = NoCard THEN row[c] ELSE backlog[c]
<1>1. /\ TypeOK /\ run[r].pc = "plan" /\ TurnsOf(r) = {} /\ backlog \in [Card -> Row]
      /\ run[r].pc \notin Over \cup {"none"} /\ UNCHANGED <<deps, earned>>
  BY DEF Plan, Inv, RunsFormed, Over
<1>2. \A k \in Kind, c \in Card : issue(k, c) \in Row
  BY <1>1 DEF TypeOK
<1>3. CASE /\ turn' = [t \in Turn |->
                IF t[1] = r /\ t[3] \in (IF t[2] = "build" THEN build ELSE review)
                THEN NewTurn("wait", issue(t[2], t[3])) ELSE turn[t]]
           /\ run' = [run EXCEPT ![r].pc = "gather", ![r].backlog = Unread]
           /\ UNCHANGED row
  <2>1. turn' = [t \in Turn |-> IF Planned(r, t) THEN NewTurn("wait", issue(t[2], t[3]))
                                ELSE turn[t]]
    BY <1>3 DEF Planned
  <2> HIDE DEF issue
  <2>2. ASSUME NEW t \in Turn
        PROVE  /\ turn'[t] \in TurnState
               /\ Planned(r, t) => turn'[t].pc = "wait"
               /\ ~Planned(r, t) => turn'[t] = turn[t]
    <3>1. t[2] \in Kind /\ t[3] \in Card
      BY DEF Turn
    <3>2. issue(t[2], t[3]) \in Row
      BY <1>2, <3>1
    <3>3. NewTurn("wait", issue(t[2], t[3])) \in TurnState
          /\ NewTurn("wait", issue(t[2], t[3])).pc = "wait"
      BY <3>2, NewTurnType DEF TurnState
    <3> QED
      BY <1>1, <2>1, <3>3 DEF TypeOK
  <2>3. turn' \in [Turn -> TurnState]
    BY <2>1, <2>2
  <2> QED
    BY <1>1, <1>3, <2>2, <2>3, PlanTurnsKeepsInv
<1>4. CASE /\ row' = [c \in Card |-> IF c \in blocked THEN [row[c] EXCEPT !.status = "blocked"]
                                     ELSE row[c]]
           /\ run' = [run EXCEPT ![r].pc = "read", ![r].backlog = Unread] /\ UNCHANGED turn
  <2> HIDE DEF blocked
  <2>1. Moves(r, "read")
    BY <1>1, <1>4, MovesOn
  <2>2. /\ \A q \in Run : TurnsOf(q)' = TurnsOf(q) /\ (Live(q)' => Live(q))
        /\ \A q \in Run : Sole(q)' => q = r
        /\ AloneIsAlone' /\ TurnsFormed'
    BY <1>1, <1>4, <2>1, MovesLive
  <2>3. Sole(r)' => Sole(r)
    BY <1>1, <2>1, <2>2 DEF Sole, Moves
  <2>4. \A c \in Card : row'[c] \in Row /\ (row'[c].status = "done" => row'[c] = row[c])
    <3>1. "blocked" \in CardStatus /\ \A c \in Card : row[c] \in Row
      BY <1>1, Statuses DEF TypeOK
    <3> QED
      BY <1>4, <3>1, RowStatus
  <2>5. TypeOK'
    <3>1. row' \in [Card -> Row]
      BY <1>4, <2>4
    <3> QED
      BY <1>1, <1>4, <2>1, <3>1 DEF TypeOK, Moves
  <2>6. RunsFormed'
    BY <1>1, <2>1, <2>2 DEF Inv, RunsFormed, Moves
  <2>7. HeldIsEarned' /\ RowsAreEarned'
    <3>1. \A u \in Turn : u[1] \in Run
      BY DEF Turn
    <3> QED
      BY <1>1, <1>4, <2>2, <2>3, <2>4, <3>1 DEF Inv, HeldIsEarned, RowsAreEarned
  <2>8. SolePlans'
    BY <1>1, <2>1, <2>2 DEF SolePlans, Moves
  <2> QED
    BY <2>2, <2>5, <2>6, <2>7, <2>8 DEF Inv
<1>5. CASE Ends(r, "over") /\ UNCHANGED <<row, turn>>
  <2>1. "over" \in Over
    BY DEF Over
  <2> QED
    BY <1>1, <1>5, <2>1, EndsKeepsInv
<1> QED
  BY <1>3, <1>4, <1>5 DEF Plan

-----------------------------------------------------------------------------
(* Theorems.                                                                   *)

\* The invariant holds before any run starts.
LEMMA InitInv == Init => Inv
<1> SUFFICES ASSUME Init PROVE Inv
  OBVIOUS
<1>1. \A r \in Run : /\ run[r] \in RunState /\ run[r].pc = (IF r = 1 THEN "read" ELSE "none")
                     /\ TurnsOf(r) = {}
  <2>1. 0 \in 0..MaxIterations /\ Unread \in [Card -> Row] \cup {Unread}
    BY EpicAssumption
  <2> QED
    BY <2>1 DEF Init, NewRun, RunState, TurnsOf, NoTurn
<1>2. NewRow \in Row /\ NewRow.status # "done" /\ 0 \in 0..MaxRuns
  BY Statuses, EpicAssumption DEF NewRow, Row
<1>3. NoTurn \in TurnState /\ NoTurn.pc = "none" /\ \A t \in Turn : Formed(t, NoTurn)
  BY EndedTurn DEF TurnState, NoTurn
<1>4. TypeOK
  BY <1>1, <1>2, <1>3 DEF Init, TypeOK
<1>5. TurnsFormed /\ RunsFormed
  BY <1>1, <1>3 DEF Init, TurnsFormed, RunsFormed
<1>6. \A r \in Run : Live(r) => r = 1
  BY <1>1 DEF Live
<1>7. AloneIsAlone
  BY <1>6 DEF AloneIsAlone
<1>8. HeldIsEarned /\ RowsAreEarned
  BY <1>2, <1>3 DEF Init, HeldIsEarned, RowsAreEarned
<1>9. SolePlans
  BY <1>1 DEF SolePlans
<1> QED
  BY <1>4, <1>5, <1>7, <1>8, <1>9 DEF Inv

\* Every step of runs, turns and operators keeps the invariant.
LEMMA NextInv == Inv /\ [Next]_vars => Inv'
<1> SUFFICES ASSUME Inv, [Next]_vars PROVE Inv'
  OBVIOUS
<1>1. ASSUME NEW r \in Run, RunStep(r) PROVE Inv'
  BY <1>1, PrepareCardsKeepsInv, ReadBacklogKeepsInv, ExhaustKeepsInv, PlanKeepsInv DEF RunStep
<1>2. ASSUME NEW r \in Run \ {1}, NEW g \in Targets \cup {NoCard}, Start(r, g) PROVE Inv'
  BY <1>2, StartKeepsInv
<1>3. ASSUME NEW r \in Run, NEW t \in TurnsOf(r), TurnStep(t) PROVE Inv'
  <2>1. t \in Turn /\ turn[t].pc # "none"
    BY DEF TurnsOf
  <2> QED
    BY <1>3, <2>1, TurnStepEffect, TurnKeepsInv DEF Inv
<1>4. CASE UNCHANGED vars
  <2>1. /\ deps' = deps /\ row' = row /\ run' = run /\ turn' = turn /\ earned' = earned
    BY <1>4 DEF vars
  <2>2. \A r : TurnsOf(r)' = TurnsOf(r)
    BY <2>1 DEF TurnsOf
  <2>3. \A r : (Live(r)' <=> Live(r)) /\ (Sole(r)' <=> Sole(r))
    BY <2>1, <2>2 DEF Live, Sole
  <2>4. TypeOK' /\ TurnsFormed'
    BY <2>1 DEF Inv, TypeOK, TurnsFormed, Formed
  <2>5. RunsFormed' /\ AloneIsAlone'
    BY <2>1, <2>2, <2>3 DEF Inv, RunsFormed, AloneIsAlone
  <2>6. HeldIsEarned' /\ RowsAreEarned' /\ SolePlans'
    BY <2>1, <2>2, <2>3 DEF Inv, HeldIsEarned, RowsAreEarned, SolePlans
  <2> QED
    BY <2>4, <2>5, <2>6 DEF Inv
<1> QED
  BY <1>1, <1>2, <1>3, <1>4 DEF Next

\* The rows, the runs and the turns keep their types, whichever of their writes
\* interleave.
THEOREM EpicTypeCorrect == Spec => []TypeOK
<1>1. Inv => TypeOK
  BY DEF Inv
<1> QED
  BY InitInv, NextInv, <1>1, PTL DEF Spec

\* Whatever stale row verify_issue or a handler saves (orchestrator_ops.py), a
\* card is done only when a guard turn's tool call made it so, and under a run
\* that has the build for itself only when a guard turn of that run did.
THEOREM DoneCardsAreEarned == Spec => []DoneIsEarned
<1>1. Inv => DoneIsEarned
  BY DEF Inv, RowsAreEarned, DoneIsEarned, Sole
<1> QED
  BY InitInv, NextInv, <1>1, PTL DEF Spec

\* A build turn of a run that has the build for itself works on a card whose
\* dependencies are done from the plan to the end of the turn.
THEOREM BuildsFollowDependencies == Spec => []BuildOrder
<1>1. ASSUME Inv PROVE BuildOrder
  <2> SUFFICES ASSUME NEW t \in Turn, run[t[1]].alone, run[t[1]].target = NoCard,
                      t[2] = "build", turn[t].pc \in {"model", "tool", "promote"},
                      NEW d \in deps[t[3]]
               PROVE  row[d].status = "done"
    BY DEF BuildOrder
  <2>1. t[1] \in Run /\ t \in TurnsOf(t[1])
    BY DEF Turn, TurnsOf
  <2>2. Live(t[1]) /\ run[t[1]].pc # "start"
    BY <1>1, <2>1 DEF Live, Inv, RunsFormed
  <2>3. Sole(t[1])
    BY <2>2 DEF Sole
  <2> QED
    BY <1>1, <2>1, <2>3 DEF Inv, SolePlans
<1> QED
  BY InitInv, NextInv, <1>1, PTL DEF Spec

-----------------------------------------------------------------------------
(* The rounds a sole run still needs.  A card that may be retried k more times  *)
(* costs a build and a review for each of them, and for the attempt it is in.  *)
(* A sum over the cards would need an induction; the rounds are counted as the *)
(* elements of a set instead, one pair for each round of each card.            *)

Rounds == 2 * (MaxRetries + 1)

\* The rounds that the retries of the guard can add.
Budget(k) == IF k < MaxRetries THEN 2 * (MaxRetries - k) ELSE 0

\* The rounds that a card with row x needs when no turn works on it.
Work(x) == CASE x.status = "ready" -> Budget(x.retries) + 2
             [] x.status = "code_review" -> Budget(x.retries) + 1
             [] OTHER -> 0

\* The rounds that its card needs at most once turn t, in state x, is over.  A
\* save that does not just stop ends the run.
Left(t, x) == CASE x.pc = "save" /\ x.then = "stop" -> Work(x.issue)
                [] x.pc = "save" /\ x.then # "stop" -> 0
                [] OTHER -> Budget(x.issue.retries) + (IF t[2] = "build" THEN 1 ELSE 0)

Tokens(r) ==
  {x \in (1..Rounds) \X Card :
     IF \E t \in TurnsOf(r) : t[3] = x[2]
     THEN \E t \in TurnsOf(r) : t[3] = x[2] /\ x[1] <= Left(t, turn[t])
     ELSE x[1] <= Work(row[x[2]])}

\* The statuses that a turn cannot leave a card in, but through promote or a save.
Reopens(k) == IF k = "build" THEN {"ready"} ELSE {"ready", "code_review"}

\* What turn t, in state x, knows of its card, whose row is y: nobody else writes it.
Knows(t, x, y) ==
  /\ x.pc \in {"wait", "verify", "prepare"} =>
       x.issue.status = (IF t[2] = "build" THEN "ready" ELSE "code_review")
  /\ x.pc \in {"verify", "prepare"} => t[2] = "review"
  /\ x.pc = "promote" => t[2] = "build"
  /\ t[2] = "build" /\ x.pc # "save" => y.retries = x.issue.retries
  /\ x.pc \in {"model", "tool", "promote"} => y.status \notin Reopens(t[2])
  /\ x.pc = "tool" => x.held.status \notin Reopens(t[2])

\* A run that has the build for itself and no target is in its loop.
Looping(r) == /\ run[r].alone /\ run[r].target = NoCard
              /\ run[r].pc \in {"read", "plan", "gather"}

\* Its turns work on different cards, and each round has used up a token.
Frugal(r) ==
  Looping(r) =>
    /\ \A t \in TurnsOf(r) : /\ Knows(t, turn[t], row[t[3]])
                             /\ \A u \in TurnsOf(r) : u[3] = t[3] => u = t
    /\ run[r].iteration + Cardinality(Tokens(r))
         <= Rounds * Cardinality(Card) + (IF run[r].pc = "plan" THEN 1 ELSE 0)

RunsFrugal == \A r \in Run : /\ Frugal(r)
                             /\ run[r].pc = "start" => run[r].iteration = 0

FInv == Inv /\ RunsFrugal /\ NeverExhausts

\* What a retry takes from the budget of a card is a build and a review.
LEMMA BudgetRule ==
  ASSUME NEW k \in Nat
  PROVE  /\ Budget(k) \in Nat /\ Budget(k) + 2 <= Rounds /\ Rounds \in Nat
         /\ k < MaxRetries => Budget(k + 1) + 2 = Budget(k)
BY WorkflowAssumption DEF Budget, Rounds

\* A card needs no more rounds than all its attempts do.
LEMMA WorkType ==
  ASSUME NEW x \in Row
  PROVE  /\ Work(x) \in Nat /\ Work(x) <= Rounds
         /\ x.status = "ready" => Work(x) = Budget(x.retries) + 2
         /\ x.status = "code_review" => Work(x) = Budget(x.retries) + 1
         /\ x.status \notin {"ready", "code_review"} => Work(x) = 0
<1>1. x.retries \in Nat
  BY DEF Row
<1>2. Budget(x.retries) \in Nat /\ Budget(x.retries) + 2 <= Rounds /\ Rounds \in Nat
  BY <1>1, BudgetRule
<1> QED
  BY <1>2 DEF Work

\* A turn leaves a number of rounds, by the place it is at.
LEMMA LeftType ==
  ASSUME NEW t \in Turn, NEW x \in ActiveTurn
  PROVE  /\ Left(t, x) \in Nat
         /\ x.pc = "save" /\ x.then = "stop" => Left(t, x) = Work(x.issue)
         /\ x.pc = "save" /\ x.then # "stop" => Left(t, x) = 0
         /\ x.pc # "save" /\ t[2] = "build" => Left(t, x) = Budget(x.issue.retries) + 1
         /\ x.pc # "save" /\ t[2] = "review" => Left(t, x) = Budget(x.issue.retries)
<1>1. x.issue \in Row /\ x.issue.retries \in Nat /\ t[2] \in {"build", "review"}
  BY DEF ActiveTurn, Row, Turn, Kind
<1>2. Work(x.issue) \in Nat /\ Budget(x.issue.retries) \in Nat
  BY <1>1, BudgetRule, WorkType
<1> QED
  BY <1>1, <1>2 DEF Left

\* Sets of tokens can be counted, there are no more than the rounds of all cards,
\* and a set that loses one has fewer.
LEMMA TokensCount ==
  ASSUME IsFiniteSet(Card), NEW S \in SUBSET ((1..Rounds) \X Card), NEW T \in SUBSET S
  PROVE  /\ Cardinality(S) \in Nat /\ Cardinality(T) \in Nat /\ Cardinality(Card) \in Nat
         /\ Cardinality(S) <= Rounds * Cardinality(Card)
         /\ Cardinality(T) <= Cardinality(S)
         /\ T # S => Cardinality(T) + 1 <= Cardinality(S)
<1>1. Rounds \in Nat
  BY WorkflowAssumption DEF Rounds
<1>2. IsFiniteSet(1..Rounds) /\ Cardinality(1..Rounds) = Rounds
  <2>1. /\ IsFiniteSet(1..Rounds)
        /\ Cardinality(1..Rounds) = IF 1 > Rounds THEN 0 ELSE Rounds - 1 + 1
    BY <1>1, FS_Interval
  <2> QED
    BY <1>1, <2>1
<1>3. /\ IsFiniteSet((1..Rounds) \X Card)
      /\ Cardinality((1..Rounds) \X Card) = Rounds * Cardinality(Card)
  BY <1>2, FS_Product
<1>4. /\ IsFiniteSet(S) /\ Cardinality(S) <= Rounds * Cardinality(Card)
  BY <1>3, FS_Subset
<1>5. /\ IsFiniteSet(T) /\ Cardinality(T) <= Cardinality(S)
      /\ Cardinality(S) = Cardinality(T) => S = T
  BY <1>4, FS_Subset
<1>6. Cardinality(S) \in Nat /\ Cardinality(T) \in Nat /\ Cardinality(Card) \in Nat
  BY <1>4, <1>5, FS_CardinalityType
<1> QED
  BY <1>4, <1>5, <1>6

-----------------------------------------------------------------------------
(* No step of a turn adds to the rounds of a looping run.                      *)

\* Turn t becomes x, and its card is not left with more rounds than t had left.
Pays(t, x) ==
  /\ x \in TurnState /\ Becomes(t, x)
  /\ x.pc # "none" => /\ Left(t, x) <= Left(t, turn[t])
                      /\ Knows(t, x, row'[t[3]])
  /\ x.pc = "none" => Work(row'[t[3]]) <= Left(t, turn[t])

Settles(t) == run'[t[1]].pc = "over" \/ \E x : Pays(t, x)

\* A looping run that has a turn gathers.
LEMMA LoopingGathers ==
  ASSUME Inv, NEW t \in Turn, turn[t].pc # "none", Looping(t[1])
  PROVE  t[1] \in Run /\ run[t[1]].pc = "gather"
<1>1. t[1] \in Run /\ t \in TurnsOf(t[1])
  BY DEF Turn, TurnsOf
<1> QED
  BY <1>1 DEF Inv, RunsFormed, Looping

\* A turn that raises ends the loop.
LEMMA RaisesSettles ==
  ASSUME Inv, NEW t \in Turn, turn[t].pc # "none", Looping(t[1]), Raises(t)
  PROVE  Settles(t)
<1>1. t[1] \in Run /\ run[t[1]].pc = "gather"
  BY LoopingGathers
<1>2. Ends(t[1], "over") /\ "over" \in Over /\ TypeOK
  BY <1>1 DEF Raises, Over, Inv
<1> QED
  BY <1>1, <1>2, EndsKeeps DEF Settles

\* So does one whose transition is refused; otherwise the card has its new status.
LEMMA RequestsSettles ==
  ASSUME Inv, NEW t \in Turn, turn[t].pc # "none", Looping(t[1]),
         NEW to \in CardStatus, NEW q, NEW x \in TurnState, Requests(t, to, q, x),
         NEW y, y = [row[t[3]] EXCEPT !.status = to],
         x.pc # "none" => Left(t, x) <= Left(t, turn[t]) /\ Knows(t, x, y),
         x.pc = "none" => Work(y) <= Left(t, turn[t])
  PROVE  Settles(t)
<1>1. CASE Accepts(turn[t].issue.status, to, q)
  <2>1. Sets(t, to) /\ Becomes(t, x)
    BY <1>1 DEF Requests
  <2>2. row'[t[3]] = y
    BY <2>1 DEF Sets, Inv, TypeOK, Turn
  <2> QED
    BY <2>1, <2>2 DEF Settles, Pays
<1>2. CASE ~Accepts(turn[t].issue.status, to, q)
  BY <1>2, RaisesSettles DEF Requests
<1> QED
  BY <1>1, <1>2

\* The status of a turn's card after a transition.
LEMMA NewStatus ==
  ASSUME Inv, NEW t \in Turn, NEW s \in CardStatus, NEW y,
         y = [row[t[3]] EXCEPT !.status = s]
  PROVE  y \in Row /\ y.status = s /\ y.retries = row[t[3]].retries
<1>1. row[t[3]] \in Row
  BY DEF Inv, TypeOK, Turn
<1> QED
  BY <1>1 DEF Row

\* A turn that is going to end its run has no rounds left to count.
LEMMA LastSave ==
  ASSUME NEW t \in Turn, NEW x \in Row, NEW th \in {"raise", "cancel"}, NEW y
  PROVE  /\ SavesThen(t, x, th) \in TurnState /\ SavesThen(t, x, th).pc = "save"
         /\ Left(t, SavesThen(t, x, th)) = 0
         /\ Knows(t, SavesThen(t, x, th), y)
<1>1. PICK s : s = SavesThen(t, x, th)
  OBVIOUS
<1>2. s \in ActiveTurn /\ s.pc = "save"
  <2>1. th \in {"stop", "raise", "cancel"}
    OBVIOUS
  <2> QED
    BY <1>1, <2>1, SavesThenType
<1>3. s.then = th
  BY <1>1 DEF SavesThen, NewTurn
<1>4. Left(t, s) = 0
  BY <1>2, <1>3, LeftType
<1>5. Knows(t, s, y)
  BY <1>2 DEF Knows
<1> QED
  BY <1>1, <1>2, <1>4, <1>5 DEF TurnState

\* The runtime verifier lets a review go on: the turn has the rounds it had.
LEMMA VerifierPassesSettles ==
  ASSUME Inv, NEW t \in Turn, turn[t].pc # "none", Looping(t[1]),
         Knows(t, turn[t], row[t[3]]), VerifierPasses(t)
  PROVE  Settles(t)
<1> DEFINE x == IF t[3] \in Verified
                THEN [turn[t] EXCEPT !.pc = "verify", !.held = row[t[3]]]
                ELSE [turn[t] EXCEPT !.pc = "prepare"]
<1>1. turn[t] \in ActiveTurn /\ row[t[3]] \in Row /\ turn[t].pc = "wait" /\ t[2] = "review"
  BY TurnParts DEF Inv, VerifierPasses, Begins
<1>2. x \in ActiveTurn /\ x.pc \in {"verify", "prepare"} /\ x.issue = turn[t].issue
  BY <1>1 DEF ActiveTurn
<1>3. Becomes(t, x) /\ row' = row
  BY DEF VerifierPasses
<1> HIDE DEF x
<1>4. Left(t, x) = Left(t, turn[t]) /\ Left(t, x) \in Nat
  BY <1>1, <1>2, LeftType
<1>5. Knows(t, x, row[t[3]])
  BY <1>1, <1>2 DEF Knows
<1>6. Pays(t, x)
  BY <1>2, <1>3, <1>4, <1>5 DEF Pays, TurnState
<1> QED
  BY <1>6 DEF Settles

\* The guard's retry: a build and a review more, for one retry less.
LEMMA VerifierFailsSettles ==
  ASSUME Inv, NEW t \in Turn, turn[t].pc # "none", Looping(t[1]),
         Knows(t, turn[t], row[t[3]]), VerifierFails(t)
  PROVE  Settles(t)
<1> DEFINE issue == turn[t].issue
           a == [status |-> "ready", retries |-> issue.retries + 1]
           b == [issue EXCEPT !.status = "blocked"]
<1>1. /\ turn[t] \in ActiveTurn /\ turn[t].pc = "wait" /\ t[2] = "review"
      /\ issue \in Row /\ issue.retries \in Nat
  BY TurnParts DEF Inv, VerifierFails, Begins
<1>2. Left(t, turn[t]) = Budget(issue.retries) /\ Budget(issue.retries) \in Nat
  BY <1>1, LeftType, BudgetRule
<1>3. ASSUME NEW z \in Row, NEW to \in CardStatus, NEW q,
             Work(z) <= Budget(issue.retries),
             Requests(t, to, q, SavesThen(t, z, "stop"))
      PROVE  Settles(t)
  <2>1. PICK x : x = SavesThen(t, z, "stop")
    OBVIOUS
  <2>2. x \in ActiveTurn /\ x.pc = "save" /\ x.issue = z
    BY <2>1, SavesThenType
  <2>3. x.then = "stop"
    BY <2>1 DEF SavesThen, NewTurn
  <2>4. PICK y : y = [row[t[3]] EXCEPT !.status = to]
    OBVIOUS
  <2>5. Knows(t, x, y)
    BY <1>1, <2>2 DEF Knows
  <2>6. Left(t, x) <= Left(t, turn[t])
    BY <1>2, <1>3, <2>2, <2>3, LeftType
  <2>7. Requests(t, to, q, x) /\ x \in TurnState /\ x.pc # "none"
    BY <1>3, <2>1, <2>2 DEF TurnState
  <2> QED
    BY <2>4, <2>5, <2>6, <2>7, RequestsSettles
<1>4. CASE GuardMayRetry(issue.retries) /\ Requests(t, "ready", TRUE, SavesThen(t, a, "stop"))
  <2>1. a \in Row /\ a.status = "ready" /\ a.retries = issue.retries + 1
    BY <1>1, Statuses DEF Row
  <2>2. issue.retries < MaxRetries
    BY <1>4 DEF GuardMayRetry
  <2>3. Requests(t, "ready", TRUE, SavesThen(t, a, "stop"))
    BY <1>4
  <2> HIDE DEF a, issue
  <2>4. Work(a) = Budget(issue.retries)
    BY <1>1, <2>1, <2>2, WorkType, BudgetRule
  <2>5. Work(a) <= Budget(issue.retries)
    BY <1>2, <2>4
  <2> QED
    BY <1>3, <2>1, <2>3, <2>5, Statuses
<1>5. CASE Requests(t, "blocked", FALSE, SavesThen(t, b, "stop"))
  <2>1. b \in Row /\ b.status = "blocked"
    BY <1>1, RowStatus, Statuses
  <2>2. Requests(t, "blocked", FALSE, SavesThen(t, b, "stop"))
    BY <1>5
  <2> HIDE DEF b, issue
  <2>3. Work(b) <= Budget(issue.retries)
    BY <1>2, <2>1, WorkType
  <2> QED
    BY <1>3, <2>1, <2>2, <2>3, Statuses
<1> QED
  BY <1>4, <1>5 DEF VerifierFails

\* verify_issue writes back the row of a review, which has its rounds still.
LEMMA VerifySavesSettles ==
  ASSUME Inv, NEW t \in Turn, turn[t].pc # "none", Looping(t[1]),
         Knows(t, turn[t], row[t[3]]), VerifySaves(t)
  PROVE  Settles(t)
<1> DEFINE x == [turn[t] EXCEPT !.pc = "prepare", !.held = NewRow]
<1>1. turn[t] \in ActiveTurn /\ turn[t].pc = "verify" /\ t[2] = "review"
  BY TurnParts DEF Inv, VerifySaves, Knows
<1>2. NewRow \in Row
  BY Statuses DEF NewRow, Row
<1>3. x \in ActiveTurn /\ x.pc = "prepare" /\ x.issue = turn[t].issue
  BY <1>1, <1>2 DEF ActiveTurn
<1>4. Becomes(t, x)
  BY DEF VerifySaves
<1> HIDE DEF x
<1>5. Left(t, x) = Left(t, turn[t]) /\ Left(t, x) \in Nat
  BY <1>1, <1>3, LeftType
<1>6. Knows(t, x, row'[t[3]])
  BY <1>1, <1>3 DEF Knows
<1>7. Pays(t, x)
  BY <1>3, <1>4, <1>5, <1>6 DEF Pays, TurnState
<1> QED
  BY <1>7 DEF Settles

\* A dispatched card has left the status that it was planned for.
LEMMA DispatchSettles ==
  ASSUME Inv, NEW t \in Turn, turn[t].pc # "none", Looping(t[1]),
         Knows(t, turn[t], row[t[3]]), Dispatch(t)
  PROVE  Settles(t)
<1> DEFINE x == [turn[t] EXCEPT !.pc = "model", !.issue.status = TurnStatus(t[2])]
<1>1. /\ turn[t] \in ActiveTurn /\ turn[t].issue \in Row /\ t[2] \in {"build", "review"}
      /\ turn[t].pc \in {"wait", "prepare"}
  BY TurnParts DEF Inv, Dispatch, Prepares, Begins, Kind
<1>2. TurnStatus(t[2]) \in CardStatus /\ TurnStatus(t[2]) \notin {"ready", "code_review"}
  BY Statuses DEF TurnStatus
<1>3. /\ x \in ActiveTurn /\ x.pc = "model" /\ x.issue.retries = turn[t].issue.retries
  BY <1>1, <1>2 DEF ActiveTurn, Row
<1>4. turn[t].issue.status \in {"ready", "code_review"}
  BY <1>1 DEF Knows
<1>5. Requests(t, TurnStatus(t[2]), FALSE, x)
  BY <1>2, <1>4 DEF Dispatch
<1> HIDE DEF x
<1>6. PICK y : y = [row[t[3]] EXCEPT !.status = TurnStatus(t[2])]
  OBVIOUS
<1>7. y.status = TurnStatus(t[2]) /\ y.retries = row[t[3]].retries
  BY <1>2, <1>6, NewStatus
<1>8. Left(t, x) = Left(t, turn[t]) /\ Left(t, x) \in Nat
  BY <1>1, <1>3, LeftType
<1>9. Knows(t, x, y)
  BY <1>1, <1>2, <1>3, <1>7 DEF Knows, Reopens
<1>10. x \in TurnState /\ x.pc # "none" /\ Left(t, x) <= Left(t, turn[t])
  BY <1>3, <1>8 DEF TurnState
<1> QED
  BY <1>2, <1>5, <1>6, <1>9, <1>10, RequestsSettles

\* A turn that ends with a status that needs no round.
LEMMA StopsSettles ==
  ASSUME Inv, NEW t \in Turn, turn[t].pc # "none", Looping(t[1]),
         NEW s \in CardStatus \ {"ready", "code_review"}, Requests(t, s, FALSE, NoTurn)
  PROVE  Settles(t)
<1>1. NoTurn \in TurnState /\ NoTurn.pc = "none" /\ turn[t] \in ActiveTurn
  BY EndedTurn, TurnParts DEF Inv
<1>2. PICK y : y = [row[t[3]] EXCEPT !.status = s]
  OBVIOUS
<1>3. y \in Row /\ y.status = s
  BY <1>2, NewStatus
<1>4. Work(y) <= Left(t, turn[t])
  BY <1>1, <1>3, WorkType, LeftType
<1> QED
  BY <1>1, <1>2, <1>4, RequestsSettles

\* A turn that cannot be prepared blocks or cancels its card, which needs no more.
LEMMA NotPreparedSettles ==
  ASSUME Inv, NEW t \in Turn, turn[t].pc # "none", Looping(t[1]),
         NEW s \in {"blocked", "canceled"}, NotPrepared(t, s)
  PROVE  Settles(t)
BY StopsSettles, Statuses DEF NotPrepared

\* Nor does a card that is left in progress.
LEMMA MissingRoleSettles ==
  ASSUME Inv, NEW t \in Turn, turn[t].pc # "none", Looping(t[1]), MissingRole(t)
  PROVE  Settles(t)
BY StopsSettles, Statuses DEF MissingRole

\* The dispatcher's gate keeps a turn from asking for a status that reopens its card.
LEMMA CallUpdateStatusSettles ==
  ASSUME Inv, NEW t \in Turn, turn[t].pc # "none", Looping(t[1]),
         Knows(t, turn[t], row[t[3]]),
         NEW s \in BuilderAsks \cup GuardAsks, CallUpdateStatus(t, s)
  PROVE  Settles(t)
<1> DEFINE a == [turn[t] EXCEPT !.pc = "tool", !.calls = @ + 1, !.held.status = s]
           b == [turn[t] EXCEPT !.calls = @ + 1, !.bad = TRUE]
<1>1. /\ turn[t] \in ActiveTurn /\ turn[t].held \in Row /\ t[2] \in {"build", "review"}
      /\ turn[t].pc = "model" /\ turn[t].calls < MaxCalls
  BY TurnParts DEF Inv, CallUpdateStatus, Kind
<1>2. s \in CardStatus /\ MaxCalls \in Nat /\ turn[t].calls \in 0..MaxCalls
  BY <1>1, EpicAssumption DEF ActiveTurn
<1>3. turn[t].calls + 1 \in 0..MaxCalls
  BY <1>1, <1>2
<1>4. /\ a \in ActiveTurn /\ a.pc = "tool" /\ a.held.status = s
      /\ a.issue = turn[t].issue
  BY <1>1, <1>2, <1>3 DEF ActiveTurn, Row
<1>5. b \in ActiveTurn /\ b.pc = "model" /\ b.issue = turn[t].issue
  BY <1>1, <1>3 DEF ActiveTurn
<1>6. ToolAllows(t, s) => s \notin {"ready"} /\ (t[2] = "review" => s # "code_review")
  <2>1. /\ Transitions["in_progress"] = {"blocked", "waiting_for_developer",
             "ready_for_testing", "code_review", "canceled", "archived"}
        /\ Transitions["awaiting_guard_review"] = {"guard_approved", "guard_rejected",
             "guard_requested_changes", "done", "blocked", "archived"}
    BY DEF Transitions
  <2> QED
    BY <1>1, <2>1 DEF ToolAllows, ValidTransition, TurnStatus
<1>7. Becomes(t, IF ToolAllows(t, s) THEN a ELSE b) /\ row' = row
  BY DEF CallUpdateStatus
<1> HIDE DEF a, b
<1>8. CASE ToolAllows(t, s)
  <2>1. Left(t, a) = Left(t, turn[t]) /\ Left(t, a) \in Nat
    BY <1>1, <1>4, LeftType
  <2>2. Knows(t, a, row[t[3]])
    BY <1>1, <1>4, <1>6, <1>8 DEF Knows, Reopens
  <2>3. Pays(t, a)
    BY <1>4, <1>7, <1>8, <2>1, <2>2 DEF Pays, TurnState
  <2> QED
    BY <2>3 DEF Settles
<1>9. CASE ~ToolAllows(t, s)
  <2>1. Left(t, b) = Left(t, turn[t]) /\ Left(t, b) \in Nat
    BY <1>1, <1>5, LeftType
  <2>2. Knows(t, b, row[t[3]])
    BY <1>1, <1>5 DEF Knows
  <2>3. Pays(t, b)
    BY <1>5, <1>7, <1>9, <2>1, <2>2 DEF Pays, TurnState
  <2> QED
    BY <2>3 DEF Settles
<1> QED
  BY <1>8, <1>9

\* So the tool writes none.
LEMMA WriteStatusSettles ==
  ASSUME Inv, NEW t \in Turn, turn[t].pc # "none", Looping(t[1]),
         Knows(t, turn[t], row[t[3]]), WriteStatus(t)
  PROVE  Settles(t)
<1> DEFINE x == [turn[t] EXCEPT !.pc = "model", !.held = NewRow]
           s == turn[t].held.status
<1>1. /\ turn[t] \in ActiveTurn /\ turn[t].held \in Row /\ t[2] \in {"build", "review"}
      /\ turn[t].pc = "tool" /\ t[3] \in Card
  BY TurnParts DEF Inv, WriteStatus, Kind
<1>2. NewRow \in Row /\ s \in CardStatus
  BY <1>1, Statuses DEF NewRow, Row
<1>3. x \in ActiveTurn /\ x.pc = "model" /\ x.issue = turn[t].issue
  BY <1>1, <1>2 DEF ActiveTurn
<1>4. Becomes(t, x) /\ Sets(t, s)
  BY DEF WriteStatus
<1>5. s \notin Reopens(t[2])
  BY <1>1 DEF Knows
<1> HIDE DEF x, s
<1>6. PICK y : y = [row[t[3]] EXCEPT !.status = s]
  OBVIOUS
<1>7. row'[t[3]] = y
  BY <1>1, <1>4, <1>6 DEF Sets, Inv, TypeOK
<1>8. y.status = s /\ y.retries = row[t[3]].retries
  BY <1>2, <1>6, NewStatus
<1>9. Left(t, x) = Left(t, turn[t]) /\ Left(t, x) \in Nat
  BY <1>1, <1>3, LeftType
<1>10. Knows(t, x, y)
  BY <1>1, <1>3, <1>5, <1>8 DEF Knows
<1>11. Pays(t, x)
  BY <1>3, <1>4, <1>7, <1>9, <1>10 DEF Pays, TurnState
<1> QED
  BY <1>11 DEF Settles

\* request_excuse does not reopen the card either.
LEMMA RequestExcuseSettles ==
  ASSUME Inv, NEW t \in Turn, turn[t].pc # "none", Looping(t[1]),
         Knows(t, turn[t], row[t[3]]), RequestExcuse(t)
  PROVE  Settles(t)
<1> DEFINE x == [turn[t] EXCEPT !.calls = @ + 1]
           s == "waiting_for_developer"
<1>1. /\ turn[t] \in ActiveTurn /\ t[2] \in {"build", "review"} /\ t[3] \in Card
      /\ turn[t].pc = "model" /\ turn[t].calls < MaxCalls
  BY TurnParts DEF Inv, RequestExcuse, Kind
<1>2. turn[t].calls + 1 \in 0..MaxCalls
  <2>1. MaxCalls \in Nat /\ turn[t].calls \in 0..MaxCalls
    BY <1>1, EpicAssumption DEF ActiveTurn
  <2> QED
    BY <1>1, <2>1
<1>3. x \in ActiveTurn /\ x.pc = "model" /\ x.issue = turn[t].issue
  BY <1>1, <1>2 DEF ActiveTurn
<1>4. Becomes(t, x) /\ Sets(t, s)
  BY DEF RequestExcuse
<1> HIDE DEF x
<1>5. PICK y : y = [row[t[3]] EXCEPT !.status = s]
  OBVIOUS
<1>6. row'[t[3]] = y
  BY <1>1, <1>4, <1>5 DEF Sets, Inv, TypeOK
<1>7. y.status = s /\ y.retries = row[t[3]].retries
  BY <1>5, NewStatus, Statuses
<1>8. Left(t, x) = Left(t, turn[t]) /\ Left(t, x) \in Nat
  BY <1>1, <1>3, LeftType
<1>9. Knows(t, x, y)
  BY <1>1, <1>3, <1>7 DEF Knows, Reopens
<1>10. Pays(t, x)
  BY <1>3, <1>4, <1>6, <1>8, <1>9 DEF Pays, TurnState
<1> QED
  BY <1>10 DEF Settles

\* A transition before a save that ends the run.
LEMMA LastRequestSettles ==
  ASSUME Inv, NEW t \in Turn, turn[t].pc # "none", Looping(t[1]),
         NEW to \in CardStatus, NEW q, NEW x \in Row, NEW th \in {"raise", "cancel"},
         Requests(t, to, q, SavesThen(t, x, th))
  PROVE  Settles(t)
<1>1. PICK y : y = [row[t[3]] EXCEPT !.status = to]
  OBVIOUS
<1>2. PICK z : z = SavesThen(t, x, th)
  OBVIOUS
<1>3. z \in TurnState /\ z.pc = "save" /\ Left(t, z) = 0 /\ Knows(t, z, y)
  BY <1>2, LastSave
<1>4. Left(t, z) <= Left(t, turn[t])
  BY <1>3, TurnParts, LeftType DEF Inv
<1>5. Requests(t, to, q, z)
  BY <1>2
<1> QED
  BY <1>1, <1>3, <1>4, <1>5, RequestsSettles

\* A counted attempt ends the run: the retry is for a later one.
LEMMA CountsAttemptSettles ==
  ASSUME Inv, NEW t \in Turn, turn[t].pc # "none", Looping(t[1]), CountsAttempt(t)
  PROVE  Settles(t)
<1> DEFINE issue == turn[t].issue
           a == [status |-> "ready", retries |-> issue.retries + 1]
           b == [status |-> "blocked", retries |-> issue.retries + 1]
<1>1. issue.retries \in Nat
  BY TurnParts DEF Inv
<1>2. a \in Row /\ b \in Row
  BY <1>1, Statuses DEF Row
<1>3. \/ Requests(t, "ready", TRUE, SavesThen(t, a, "raise"))
      \/ Requests(t, "blocked", FALSE, SavesThen(t, b, "cancel"))
  BY DEF CountsAttempt
<1> HIDE DEF a, b, issue
<1> QED
  BY <1>2, <1>3, Statuses, LastRequestSettles

\* So does every failure of a turn.
LEMMA TurnFailsSettles ==
  ASSUME Inv, NEW t \in Turn, turn[t].pc # "none", Looping(t[1]), TurnFails(t)
  PROVE  Settles(t)
<1> DEFINE issue == turn[t].issue
           b == [issue EXCEPT !.status = "blocked"]
<1>1. issue \in Row /\ turn[t] \in ActiveTurn
  BY TurnParts DEF Inv
<1>2. b \in Row
  BY <1>1, RowStatus, Statuses
<1>3. \/ Requests(t, "blocked", FALSE, SavesThen(t, b, "raise"))
      \/ CountsAttempt(t)
      \/ Becomes(t, SavesThen(t, issue, "raise"))
  BY DEF TurnFails
<1> HIDE DEF b, issue
<1>4. CASE Requests(t, "blocked", FALSE, SavesThen(t, b, "raise"))
  BY <1>2, <1>4, Statuses, LastRequestSettles
<1>5. CASE CountsAttempt(t)
  BY <1>5, CountsAttemptSettles
<1>6. CASE Becomes(t, SavesThen(t, issue, "raise"))
  <2>1. PICK z : z = SavesThen(t, issue, "raise")
    OBVIOUS
  <2>2. z \in TurnState /\ z.pc = "save" /\ Left(t, z) = 0 /\ Knows(t, z, row'[t[3]])
    BY <1>1, <2>1, LastSave
  <2>3. Left(t, z) <= Left(t, turn[t])
    BY <1>1, <2>2, LeftType
  <2>4. Pays(t, z)
    BY <1>6, <2>1, <2>2, <2>3 DEF Pays
  <2> QED
    BY <2>4 DEF Settles
<1> QED
  BY <1>3, <1>4, <1>5, <1>6

\* A save that only stops leaves the rounds that were counted for it.
LEMMA SaveIssueSettles ==
  ASSUME Inv, NEW t \in Turn, turn[t].pc # "none", Looping(t[1]), SaveIssue(t)
  PROVE  Settles(t)
<1>1. /\ turn[t] \in ActiveTurn /\ turn[t].issue \in Row /\ t[3] \in Card
      /\ turn[t].pc = "save"
  BY TurnParts DEF Inv, SaveIssue
<1>2. turn[t].then \in {"stop", "raise", "cancel"}
  BY <1>1 DEF ActiveTurn, Inv, TurnsFormed, Formed
<1>3. CASE turn[t].then = "stop"
  <2>1. row'[t[3]] = turn[t].issue /\ Becomes(t, NoTurn)
    BY <1>1, <1>3 DEF SaveIssue, Returns, Inv, TypeOK
  <2>2. NoTurn \in TurnState /\ NoTurn.pc = "none"
    BY EndedTurn
  <2>3. Work(row'[t[3]]) <= Left(t, turn[t])
    BY <1>1, <1>3, <2>1, LeftType
  <2>4. Pays(t, NoTurn)
    BY <2>1, <2>2, <2>3 DEF Pays
  <2> QED
    BY <2>4 DEF Settles
<1>4. CASE turn[t].then = "raise"
  BY <1>4, RaisesSettles DEF SaveIssue
<1>5. CASE turn[t].then = "cancel"
  <2>1. Raises(t) \/ Ends(t[1], "over")
    BY <1>5 DEF SaveIssue, Cancels
  <2>2. t[1] \in Run /\ "over" \in Over /\ TypeOK
    BY LoopingGathers DEF Over, Inv
  <2>3. CASE Ends(t[1], "over")
    BY <2>2, <2>3, EndsKeeps DEF Settles
  <2> QED
    BY <2>1, <2>3, RaisesSettles
<1> QED
  BY <1>2, <1>3, <1>4, <1>5

\* A turn that succeeds leaves a card that a build turn may have sent to review and
\* a review turn has closed.
LEMMA HandleSuccessSettles ==
  ASSUME Inv, NEW t \in Turn, turn[t].pc # "none", Looping(t[1]),
         Knows(t, turn[t], row[t[3]]), HandleSuccess(t)
  PROVE  Settles(t)
<1> DEFINE x == NewTurn("promote", turn[t].issue)
           sends == SendsToReview(turn[t].issue.status, row[t[3]].status, t[2])
<1>1. /\ turn[t] \in ActiveTurn /\ turn[t].issue \in Row /\ t[2] \in {"build", "review"}
      /\ turn[t].pc = "model" /\ row[t[3]] \in Row /\ turn[t].issue.retries \in Nat
  BY TurnParts DEF Inv, HandleSuccess, Kind
<1>2. x \in ActiveTurn /\ x.pc = "promote" /\ x.issue = turn[t].issue
  BY <1>1, NewTurnType
<1>3. \/ CountsAttempt(t)
      \/ Becomes(t, x) /\ row' = row /\ sends
      \/ Becomes(t, NoTurn) /\ row' = row
  BY DEF HandleSuccess, Returns
<1>4. sends => t[2] = "build"
  <2>1. turn[t].issue.status = TurnStatus(t[2])
    BY <1>1 DEF Inv, TurnsFormed, Formed
  <2> QED
    BY <1>1, <2>1 DEF SendsToReview, TurnStatus
<1> HIDE DEF x, sends
<1>5. CASE CountsAttempt(t)
  BY <1>5, CountsAttemptSettles
<1>6. CASE Becomes(t, x) /\ row' = row /\ sends
  <2>1. Left(t, x) = Left(t, turn[t]) /\ Left(t, x) \in Nat
    BY <1>1, <1>2, LeftType
  <2>2. Knows(t, x, row[t[3]])
    BY <1>1, <1>2, <1>4, <1>6 DEF Knows
  <2>3. Pays(t, x)
    BY <1>2, <1>6, <2>1, <2>2 DEF Pays, TurnState
  <2> QED
    BY <2>3 DEF Settles
<1>7. CASE Becomes(t, NoTurn) /\ row' = row
  <2>1. NoTurn \in TurnState /\ NoTurn.pc = "none"
    BY EndedTurn
  <2>2. Budget(turn[t].issue.retries) \in Nat
    BY <1>1, BudgetRule
  <2>3. Work(row[t[3]]) <= Left(t, turn[t])
    <3>1. CASE t[2] = "build"
      <4>1. /\ row[t[3]].status # "ready" /\ row[t[3]].retries = turn[t].issue.retries
            /\ Left(t, turn[t]) = Budget(turn[t].issue.retries) + 1
        BY <1>1, <3>1, LeftType DEF Knows, Reopens
      <4> QED
        BY <1>1, <2>2, <4>1, WorkType
    <3>2. CASE t[2] = "review"
      <4>1. /\ row[t[3]].status \notin {"ready", "code_review"}
            /\ Left(t, turn[t]) = Budget(turn[t].issue.retries)
        BY <1>1, <3>2, LeftType DEF Knows, Reopens
      <4> QED
        BY <1>1, <2>2, <4>1, WorkType
    <3> QED
      BY <1>1, <3>1, <3>2
  <2>4. Pays(t, NoTurn)
    BY <1>7, <2>1, <2>3 DEF Pays
  <2> QED
    BY <2>4 DEF Settles
<1> QED
  BY <1>3, <1>5, <1>6, <1>7

\* A promoted card has the review of its attempt left.
LEMMA PromoteSettles ==
  ASSUME Inv, NEW t \in Turn, turn[t].pc # "none", Looping(t[1]),
         Knows(t, turn[t], row[t[3]]), Promote(t)
  PROVE  Settles(t)
<1>1. /\ turn[t] \in ActiveTurn /\ turn[t].pc = "promote" /\ t[2] = "build"
      /\ row[t[3]].retries = turn[t].issue.retries
  BY TurnParts DEF Inv, Promote, Knows
<1>2. Requests(t, "code_review", FALSE, NoTurn)
  BY DEF Promote
<1>3. NoTurn \in TurnState /\ NoTurn.pc = "none"
  BY EndedTurn
<1>4. PICK y : y = [row[t[3]] EXCEPT !.status = "code_review"]
  OBVIOUS
<1>5. y \in Row /\ y.status = "code_review" /\ y.retries = turn[t].issue.retries
  BY <1>1, <1>4, NewStatus, Statuses
<1>6. Work(y) <= Left(t, turn[t])
  <2>1. Work(y) = Left(t, turn[t]) /\ Work(y) \in Nat
    BY <1>1, <1>5, WorkType, LeftType
  <2> QED
    BY <2>1
<1> QED
  BY <1>2, <1>3, <1>4, <1>6, Statuses, RequestsSettles

\* Every step of a turn ends the loop or pays for what it leaves.
LEMMA TurnStepSettles ==
  ASSUME Inv, NEW t \in Turn, turn[t].pc # "none", Looping(t[1]),
         Knows(t, turn[t], row[t[3]]), TurnStep(t)
  PROVE  Settles(t)
BY VerifierPassesSettles, VerifierFailsSettles, VerifySavesSettles, DispatchSettles,
   NotPreparedSettles, MissingRoleSettles, CallUpdateStatusSettles, WriteStatusSettles,
   RequestExcuseSettles, TurnFailsSettles, SaveIssueSettles, HandleSuccessSettles,
   PromoteSettles DEF TurnStep

-----------------------------------------------------------------------------
(* The rounds of a looping run bound its iterations.                           *)

\* Only one run loops alone, and whoever takes a step is that one.
LEMMA OneLoops ==
  ASSUME Inv, NEW r \in Run, Live(r), NEW q \in Run, Looping(q)
  PROVE  q = r
<1>1. Live(q)
  BY DEF Looping, Live, Over
<1> QED
  BY <1>1 DEF Looping, Inv, AloneIsAlone

\* Tokens are pairs of a round and a card.
LEMMA TokensType ==
  ASSUME NEW r
  PROVE  Tokens(r) \subseteq (1..Rounds) \X Card /\ Tokens(r)' \subseteq (1..Rounds) \X Card
BY DEF Tokens

\* The tokens of a run that has no turn are the rounds of its rows.
LEMMA IdleTokens ==
  ASSUME NEW r, TurnsOf(r) = {}
  PROVE  Tokens(r) = {x \in (1..Rounds) \X Card : x[1] <= Work(row[x[2]])}
BY DEF Tokens

\* A turn that pays leaves no token that was not there.
LEMMA PaidTokens ==
  ASSUME Inv, NEW t \in Turn, turn[t].pc # "none", NEW x, Pays(t, x), TurnEffect(t),
         \A u \in TurnsOf(t[1]) : u[3] = t[3] => u = t
  PROVE  /\ Tokens(t[1])' \subseteq Tokens(t[1])
         /\ \A u \in TurnsOf(t[1])' \ {t} : /\ turn'[u] = turn[u] /\ u \in TurnsOf(t[1])
                                            /\ row'[u[3]] = row[u[3]]
         /\ turn'[t] = x
<1>1. turn \in [Turn -> TurnState] /\ turn[t] \in ActiveTurn /\ t[3] \in Card
      /\ row'[t[3]] \in Row
  BY TurnParts DEF Inv, TypeOK, TurnEffect, RowEffect
<1>2. x \in TurnState /\ turn'[t] = x /\ \A u \in Turn \ {t} : turn'[u] = turn[u]
  BY <1>1 DEF Pays, Becomes
<1>3. \A u \in TurnsOf(t[1])' \ {t} : u \in TurnsOf(t[1]) /\ turn'[u] = turn[u] /\ u[3] # t[3]
  BY <1>2 DEF TurnsOf
<1>4. \A u \in TurnsOf(t[1]) \ {t} : u \in TurnsOf(t[1])' /\ turn'[u] = turn[u]
  BY <1>2 DEF TurnsOf
<1>5. t \in TurnsOf(t[1]) /\ (t \in TurnsOf(t[1])' <=> x.pc # "none")
  BY <1>2 DEF TurnsOf
<1>6. \A c \in Card \ {t[3]} : row'[c] = row[c]
  BY DEF TurnEffect, RowEffect
<1>7. ASSUME NEW z \in Tokens(t[1])' PROVE z \in Tokens(t[1])
  <2>1. z \in (1..Rounds) \X Card /\ z[1] \in Nat /\ z[2] \in Card
    BY <1>7, TokensType
  <2>2. IF \E u \in TurnsOf(t[1])' : u[3] = z[2]
        THEN \E u \in TurnsOf(t[1])' : u[3] = z[2] /\ z[1] <= Left(u, turn'[u])
        ELSE z[1] <= Work(row'[z[2]])
    BY <1>7 DEF Tokens, Left
  <2>3. CASE z[2] # t[3]
    <3>1. CASE \E u \in TurnsOf(t[1])' : u[3] = z[2]
      <4>1. PICK u \in TurnsOf(t[1])' : u[3] = z[2] /\ z[1] <= Left(u, turn'[u])
        BY <2>2, <3>1
      <4>2. u \in TurnsOf(t[1]) /\ turn'[u] = turn[u]
        BY <1>3, <2>3, <4>1
      <4> QED
        BY <2>1, <4>1, <4>2 DEF Tokens
    <3>2. CASE ~ \E u \in TurnsOf(t[1])' : u[3] = z[2]
      <4>1. ~ \E u \in TurnsOf(t[1]) : u[3] = z[2]
        BY <1>4, <2>3, <3>2
      <4>2. z[1] <= Work(row[z[2]])
        BY <1>6, <2>1, <2>2, <2>3, <3>2
      <4> QED
        BY <2>1, <4>1, <4>2 DEF Tokens
    <3> QED
      BY <3>1, <3>2
  <2>4. CASE z[2] = t[3]
    <3>1. Left(t, turn[t]) \in Nat
      BY <1>1, LeftType
    <3>2. CASE x.pc = "none"
      <4>1. z[1] <= Work(row'[t[3]])
        BY <1>3, <1>5, <2>2, <2>4, <3>2
      <4>2. Work(row'[t[3]]) \in Nat /\ Work(row'[t[3]]) <= Left(t, turn[t])
        BY <1>1, <3>2, WorkType DEF Pays
      <4>3. z[1] <= Left(t, turn[t])
        BY <2>1, <3>1, <4>1, <4>2
      <4> QED
        BY <1>5, <2>1, <2>4, <4>3 DEF Tokens
    <3>3. CASE x.pc # "none"
      <4>1. z[1] <= Left(t, x)
        BY <1>2, <1>3, <1>5, <2>2, <2>4, <3>3
      <4>2. x \in ActiveTurn
        BY <1>2, <3>3 DEF TurnState, NoTurn
      <4>3. Left(t, x) \in Nat /\ Left(t, x) <= Left(t, turn[t])
        BY <3>3, <4>2, LeftType DEF Pays
      <4>4. z[1] <= Left(t, turn[t])
        BY <2>1, <3>1, <4>1, <4>3
      <4> QED
        BY <1>5, <2>1, <2>4, <4>4 DEF Tokens
    <3> QED
      BY <3>2, <3>3
  <2> QED
    BY <2>3, <2>4
<1>8. \A u \in TurnsOf(t[1])' : u[3] \in Card
  BY DEF TurnsOf, Turn
<1> QED
  BY <1>2, <1>3, <1>6, <1>7, <1>8

\* A step of a turn keeps the account.
LEMMA TurnKeepsFrugal ==
  ASSUME IsFiniteSet(Card), FInv, NEW t \in Turn, turn[t].pc # "none", TurnStep(t)
  PROVE  RunsFrugal' /\ NeverExhausts'
<1>1. Inv /\ TurnEffect(t)
  BY TurnStepEffect DEF FInv, Inv
<1>2. t[1] \in Run /\ t \in TurnsOf(t[1]) /\ Live(t[1])
  BY DEF Turn, TurnsOf, Live
<1>3. \A q \in Run : run'[q] = run[q] \/ run'[q].pc = "over"
  BY <1>1 DEF TurnEffect, RunEffect
<1>4. ASSUME NEW q \in Run, Looping(q)' PROVE Looping(q) /\ run'[q] = run[q] /\ q = t[1]
  <2>1. run'[q] = run[q] /\ Looping(q)
    BY <1>3, <1>4 DEF Looping
  <2> QED
    BY <1>1, <1>2, <2>1, OneLoops
<1>5. ASSUME NEW q \in Run, Looping(q)'
      PROVE  /\ \A u \in TurnsOf(q)' : /\ Knows(u, turn'[u], row'[u[3]])
                                       /\ \A v \in TurnsOf(q)' : v[3] = u[3] => v = u
             /\ run'[q].iteration + Cardinality(Tokens(q)')
                  <= Rounds * Cardinality(Card) + (IF run'[q].pc = "plan" THEN 1 ELSE 0)
  <2>1. Looping(q) /\ run'[q] = run[q] /\ q = t[1]
    BY <1>4, <1>5
  <2>2. /\ \A u \in TurnsOf(q) : /\ Knows(u, turn[u], row[u[3]])
                                 /\ \A v \in TurnsOf(q) : v[3] = u[3] => v = u
        /\ run[q].iteration + Cardinality(Tokens(q))
             <= Rounds * Cardinality(Card) + (IF run[q].pc = "plan" THEN 1 ELSE 0)
    BY <2>1 DEF FInv, RunsFrugal, Frugal
  <2>3. Settles(t)
    BY <1>1, <1>2, <2>1, <2>2, TurnStepSettles
  <2>4. PICK x : Pays(t, x)
    BY <1>5, <2>1, <2>3 DEF Settles, Looping
  <2>5. /\ Tokens(q)' \subseteq Tokens(q)
        /\ \A u \in TurnsOf(q)' \ {t} : /\ turn'[u] = turn[u] /\ u \in TurnsOf(q)
                                        /\ row'[u[3]] = row[u[3]]
        /\ turn'[t] = x
    BY <1>1, <1>2, <2>1, <2>2, <2>4, PaidTokens
  <2>6. t \in TurnsOf(q)' => Knows(t, x, row'[t[3]])
    BY <2>4, <2>5 DEF Pays, TurnsOf
  <2>7. \A u \in TurnsOf(q)' : /\ Knows(u, turn'[u], row'[u[3]])
                               /\ \A v \in TurnsOf(q)' : v[3] = u[3] => v = u
    BY <1>2, <2>1, <2>2, <2>5, <2>6
  <2>8. Cardinality(Tokens(q)') <= Cardinality(Tokens(q))
        /\ Cardinality(Tokens(q)') \in Nat /\ Cardinality(Tokens(q)) \in Nat
        /\ Cardinality(Card) \in Nat
    BY <2>5, TokensType, TokensCount
  <2>9. run[q].iteration \in Nat /\ Rounds \in Nat
    BY <1>1, EpicAssumption, WorkflowAssumption DEF Inv, TypeOK, RunState, Rounds
  <2>10. Rounds * Cardinality(Card) \in Nat
    BY <2>8, <2>9
  <2>11. PICK n : n = Rounds * Cardinality(Card)
    OBVIOUS
  <2> QED
    BY <2>1, <2>2, <2>7, <2>8, <2>9, <2>10, <2>11
<1>6. \A q \in Run : Frugal(q)'
  BY <1>5 DEF Frugal
<1>7. \A q \in Run : run'[q].pc = "start" => run'[q].iteration = 0
  BY <1>3 DEF FInv, RunsFrugal
<1>8. NeverExhausts'
  BY <1>3 DEF FInv, NeverExhausts
<1> QED
  BY <1>6, <1>7, <1>8 DEF RunsFrugal

\* A step of one run keeps the account when it keeps its own.
LEMMA MovesFrugal ==
  ASSUME FInv, NEW r \in Run, NEW p, Moves(r, p), run[r].pc \notin Over \cup {"none"},
         p # "start",
         Looping(r)' =>
           /\ \A t \in TurnsOf(r)' : /\ Knows(t, turn'[t], row'[t[3]])
                                     /\ \A u \in TurnsOf(r)' : u[3] = t[3] => u = t
           /\ run'[r].iteration + Cardinality(Tokens(r)')
                <= Rounds * Cardinality(Card) + (IF p = "plan" THEN 1 ELSE 0)
  PROVE  RunsFrugal'
<1>1. Live(r) /\ Inv
  BY DEF Live, FInv
<1>2. ASSUME NEW q \in Run, q # r PROVE ~Looping(q)'
  <2>1. run'[q] = run[q]
    BY <1>2 DEF Moves
  <2> QED
    BY <1>1, <1>2, <2>1, OneLoops DEF Looping
<1>3. Frugal(r)'
  BY DEF Frugal, Moves
<1>4. \A q \in Run : Frugal(q)'
  BY <1>2, <1>3 DEF Frugal
<1>5. \A q \in Run : run'[q].pc = "start" => run'[q].iteration = 0
  BY DEF FInv, RunsFrugal, Moves
<1> QED
  BY <1>4, <1>5 DEF RunsFrugal

\* Nobody is exhausted by a step to another place.
LEMMA MovesExhaustsNobody ==
  ASSUME NeverExhausts, NEW r \in Run, NEW p, Moves(r, p), p # "exhausted"
  PROVE  NeverExhausts'
BY DEF NeverExhausts, Moves

\* A run that has prepared its cards has all their rounds before it.
LEMMA PrepareCardsKeepsFrugal ==
  ASSUME IsFiniteSet(Card), FInv, NEW r \in Run, PrepareCards(r)
  PROVE  RunsFrugal' /\ NeverExhausts'
<1>1. /\ TypeOK /\ run[r].pc = "start" /\ UNCHANGED <<deps, turn, earned>>
      /\ run' = [run EXCEPT ![r].pc = "read", ![r].backlog = Unread]
      /\ run[r].iteration = 0 /\ TurnsOf(r) = {}
  BY DEF PrepareCards, FInv, RunsFrugal, Inv, RunsFormed
<1>2. Moves(r, "read")
  BY <1>1, MovesOn
<1>3. run'[r].iteration = 0
  BY <1>1 DEF TypeOK, RunState
<1>4. TurnsOf(r)' = {}
  BY <1>1 DEF TurnsOf
<1>5. Cardinality(Tokens(r)') <= Rounds * Cardinality(Card) /\ Cardinality(Tokens(r)') \in Nat
      /\ Cardinality(Card) \in Nat
  BY TokensType, TokensCount
<1>6. Rounds * Cardinality(Card) \in Nat
  BY <1>5, WorkflowAssumption DEF Rounds
<1>7. PICK n : n = Rounds * Cardinality(Card)
  OBVIOUS
<1>8. run'[r].iteration + Cardinality(Tokens(r)') <= n + 0
  BY <1>3, <1>5, <1>6, <1>7
<1>9. RunsFrugal'
  BY <1>1, <1>2, <1>4, <1>7, <1>8, MovesFrugal DEF Over
<1> QED
  BY <1>2, <1>9, MovesExhaustsNobody DEF FInv

\* A read is paid for by the plan that follows it.
LEMMA ReadBacklogKeepsFrugal ==
  ASSUME IsFiniteSet(Card), FInv, NEW r \in Run, ReadBacklog(r)
  PROVE  RunsFrugal' /\ NeverExhausts'
<1> DEFINE i == run[r].iteration + 1
<1>1. /\ TypeOK /\ UNCHANGED <<deps, row, turn, earned>> /\ row \in [Card -> Row]
      /\ run[r].pc \in {"read", "gather"} /\ TurnsOf(r) = {}
      /\ run[r].iteration \in Nat /\ run[r].iteration < MaxIterations /\ MaxIterations \in Nat
  BY EpicAssumption DEF FInv, Inv, ReadBacklog, TypeOK, Loops, RunsFormed, RunState
<1>2. run' = [run EXCEPT ![r].pc = "plan", ![r].iteration = i, ![r].backlog = row]
      /\ i \in 0..MaxIterations
  BY <1>1 DEF ReadBacklog
<1>3. Moves(r, "plan")
  BY <1>1, <1>2, MovesTo
<1>4. run'[r].iteration = i
  BY <1>1, <1>2 DEF TypeOK, RunState
<1>5. TurnsOf(r)' = {} /\ Tokens(r)' = Tokens(r)
  <2>1. TurnsOf(r)' = {}
    BY <1>1 DEF TurnsOf
  <2> QED
    BY <1>1, <2>1 DEF Tokens
<1>6. Looping(r)' => run[r].iteration + Cardinality(Tokens(r)) <= Rounds * Cardinality(Card) + 0
  <2>1. Looping(r)' => Looping(r)
    BY <1>1, <1>3 DEF Looping, Moves
  <2> QED
    BY <1>1, <2>1 DEF FInv, RunsFrugal, Frugal
<1>7. Cardinality(Tokens(r)) \in Nat /\ Cardinality(Card) \in Nat
  BY TokensType, TokensCount
<1>8. Rounds * Cardinality(Card) \in Nat
  BY <1>7, WorkflowAssumption DEF Rounds
<1>9. PICK n : n = Rounds * Cardinality(Card)
  OBVIOUS
<1>10. Looping(r)' => run'[r].iteration + Cardinality(Tokens(r)') <= n + 1
  BY <1>1, <1>4, <1>5, <1>6, <1>7, <1>8, <1>9
<1>11. RunsFrugal'
  BY <1>1, <1>3, <1>5, <1>9, <1>10, MovesFrugal DEF Over
<1> QED
  BY <1>3, <1>11, MovesExhaustsNobody DEF FInv

\* A looping run does not come to its last iteration with cards left.
LEMMA ExhaustKeepsFrugal ==
  ASSUME IsFiniteSet(Card), FInv, NEW r \in Run, Exhaust(r)
  PROVE  RunsFrugal' /\ NeverExhausts'
<1>1. PICK p \in Over : Ends(r, p)
  BY DEF Exhaust, Over
<1>2. /\ TypeOK /\ run[r].pc \in {"read", "gather"} /\ UNCHANGED <<deps, earned>>
      /\ run[r].iteration = MaxIterations /\ MaxIterations \in Nat
  BY EpicAssumption DEF FInv, Inv, Exhaust, Loops
<1>3. Moves(r, p)
  BY <1>1, <1>2, EndsKeeps DEF Moves
<1>4. ~Looping(r)'
  BY <1>3 DEF Looping, Moves, Over
<1>5. RunsFrugal'
  BY <1>2, <1>3, <1>4, MovesFrugal DEF Over
<1>6. ASSUME MaxIterations > Rounds * Cardinality(Card) PROVE ~Looping(r)
  <2> SUFFICES ASSUME Looping(r) PROVE FALSE
    OBVIOUS
  <2>1. run[r].iteration + Cardinality(Tokens(r)) <= Rounds * Cardinality(Card) + 0
    BY <1>2 DEF FInv, RunsFrugal, Frugal
  <2>2. Cardinality(Tokens(r)) \in Nat /\ Cardinality(Card) \in Nat
    BY TokensType, TokensCount
  <2>3. Rounds * Cardinality(Card) \in Nat
    BY <2>2, WorkflowAssumption DEF Rounds
  <2>4. PICK n : n = Rounds * Cardinality(Card)
    OBVIOUS
  <2> QED
    BY <1>2, <1>6, <2>1, <2>2, <2>3, <2>4
<1>7. NeverExhausts'
  <2> SUFFICES ASSUME MaxIterations > 2 * (MaxRetries + 1) * Cardinality(Card),
                      NEW q \in Run, run'[q].alone, run'[q].target = NoCard
               PROVE  run'[q].pc # "exhausted"
    BY DEF NeverExhausts
  <2>1. CASE q = r
    BY <1>2, <1>3, <1>6, <2>1 DEF Looping, Moves, Rounds
  <2>2. CASE q # r
    BY <1>3, <2>2 DEF FInv, NeverExhausts, Moves
  <2> QED
    BY <2>1, <2>2
<1> QED
  BY <1>5, <1>7

\* The planner of a looping run decides on the rows as they are.
LEMMA LoopingPlans ==
  ASSUME Inv, NEW r \in Run, run[r].pc = "plan", Looping(r)
  PROVE  run[r].backlog = row /\ run[r].target = NoCard
<1>1. Sole(r)
  BY DEF Sole, Looping, Live, Over
<1> QED
  BY <1>1 DEF Inv, SolePlans, Looping

\* A plan that starts turns spends a round of each of their cards.
LEMMA PlanTurnsSpend ==
  ASSUME Inv, NEW r \in Run, run[r].pc = "plan", Looping(r), TurnsOf(r) = {},
         UNCHANGED row, turn' \in [Turn -> TurnState],
         \A t \in Turn : /\ Planned(r, t) => /\ turn'[t] \in ActiveTurn
                                             /\ turn'[t].pc = "wait"
                                             /\ turn'[t].issue = row[t[3]]
                         /\ ~Planned(r, t) => turn'[t] = turn[t],
         \E t \in Turn : Planned(r, t)
  PROVE  /\ Tokens(r)' \subseteq Tokens(r) /\ Tokens(r)' # Tokens(r)
         /\ \A t \in TurnsOf(r)' : /\ Knows(t, turn'[t], row'[t[3]])
                                   /\ \A u \in TurnsOf(r)' : u[3] = t[3] => u = t
<1>1. \A t \in Turn : t[1] \in Run /\ t[2] \in {"build", "review"} /\ t[3] \in Card
                      /\ row[t[3]] \in Row /\ t = <<t[1], t[2], t[3]>>
  BY DEF Turn, Kind, Inv, TypeOK
<1>2. run[r].backlog = row /\ run[r].target = NoCard
  BY LoopingPlans
<1>3. \A t \in Turn : Planned(r, t) =>
        /\ t[1] = r
        /\ row[t[3]].status = IF t[2] = "build" THEN "ready" ELSE "code_review"
  BY <1>1, <1>2 DEF Planned, ToBuild, IndependentReady, InReview
<1>4. \A t \in TurnsOf(r)' : t \in Turn /\ Planned(r, t)
  BY DEF TurnsOf
<1>5. \A t \in Turn : Planned(r, t) => t \in TurnsOf(r)'
  BY <1>3 DEF TurnsOf
<1>6. ASSUME NEW t \in Turn, Planned(r, t)
      PROVE  /\ Work(row[t[3]]) = Left(t, turn'[t]) + 1 /\ Left(t, turn'[t]) \in Nat
             /\ Work(row[t[3]]) \in 1..Rounds
  <2>1. turn'[t] \in ActiveTurn /\ turn'[t].pc = "wait" /\ turn'[t].issue = row[t[3]]
    BY <1>6
  <2>2. /\ Left(t, turn'[t]) \in Nat
        /\ t[2] = "build" => Left(t, turn'[t]) = Budget(row[t[3]].retries) + 1
        /\ t[2] = "review" => Left(t, turn'[t]) = Budget(row[t[3]].retries)
    BY <2>1, LeftType
  <2>3. Budget(row[t[3]].retries) \in Nat /\ Rounds \in Nat
    BY <1>1, BudgetRule DEF Row
  <2>4. Work(row[t[3]]) = Left(t, turn'[t]) + 1 /\ Work(row[t[3]]) <= Rounds
    BY <1>1, <1>3, <1>6, <2>2, <2>3, WorkType
  <2> QED
    BY <2>2, <2>3, <2>4
<1>7. \A t, u \in TurnsOf(r)' : t[3] = u[3] => t = u
  BY <1>1, <1>3, <1>4
<1>8. \A t \in TurnsOf(r)' : Knows(t, turn'[t], row'[t[3]])
  BY <1>1, <1>3, <1>4 DEF Knows
<1>9. Tokens(r) = {x \in (1..Rounds) \X Card : x[1] <= Work(row[x[2]])}
  BY IdleTokens
<1>10. ASSUME NEW z \in Tokens(r)' PROVE z \in Tokens(r)
  <2>1. z \in (1..Rounds) \X Card /\ z[1] \in Nat
    BY <1>10, TokensType
  <2>2. CASE \E t \in TurnsOf(r)' : t[3] = z[2]
    <3>1. PICK t \in TurnsOf(r)' : t[3] = z[2] /\ z[1] <= Left(t, turn'[t])
      BY <1>10, <2>2 DEF Tokens, Left
    <3>2. z[1] <= Work(row[z[2]])
      BY <1>4, <1>6, <2>1, <3>1
    <3> QED
      BY <1>9, <2>1, <3>2
  <2>3. CASE ~ \E t \in TurnsOf(r)' : t[3] = z[2]
    BY <1>9, <1>10, <2>1, <2>3 DEF Tokens
  <2> QED
    BY <2>2, <2>3
<1>11. Tokens(r)' # Tokens(r)
  <2>1. PICK t \in Turn : Planned(r, t)
    OBVIOUS
  <2>2. PICK z : z = <<Work(row[t[3]]), t[3]>>
    OBVIOUS
  <2>3. z \in (1..Rounds) \X Card /\ z[1] = Work(row[t[3]]) /\ z[2] = t[3]
        /\ Work(row[t[3]]) \in Nat
    BY <1>1, <1>6, <2>1, <2>2
  <2>4. z \in Tokens(r)
    BY <1>9, <2>3
  <2>5. z \notin Tokens(r)'
    <3> SUFFICES ASSUME z \in Tokens(r)' PROVE FALSE
      OBVIOUS
    <3>1. t \in TurnsOf(r)'
      BY <1>5, <2>1
    <3>2. PICK u \in TurnsOf(r)' : u[3] = z[2] /\ z[1] <= Left(u, turn'[u])
      BY <2>3, <3>1 DEF Tokens, Left
    <3>3. u = t
      BY <1>7, <2>3, <3>1, <3>2
    <3> QED
      BY <1>6, <2>1, <2>3, <3>2, <3>3
  <2> QED
    BY <2>4, <2>5
<1> QED
  BY <1>7, <1>8, <1>10, <1>11

\* So does a plan that propagates blocks.
LEMMA PlanBlocksSpend ==
  ASSUME Inv, NEW r \in Run, run[r].pc = "plan", Looping(r), TurnsOf(r) = {}, TurnsOf(r)' = {},
         NEW blocked \in SUBSET Card, blocked # {},
         \A c \in blocked : row[c].status = "ready",
         row' = [c \in Card |-> IF c \in blocked THEN [row[c] EXCEPT !.status = "blocked"]
                                ELSE row[c]]
  PROVE  Tokens(r)' \subseteq Tokens(r) /\ Tokens(r)' # Tokens(r)
<1>1. \A c \in Card : row[c] \in Row
  BY DEF Inv, TypeOK
<1>2. \A c \in blocked : row'[c] \in Row /\ row'[c].status = "blocked"
  <2>1. \A c \in blocked : row'[c] = [row[c] EXCEPT !.status = "blocked"]
    OBVIOUS
  <2> QED
    BY <1>1, <2>1, RowStatus, Statuses
<1>3. \A c \in Card : row'[c] = row[c] \/ c \in blocked
  OBVIOUS
<1>4. \A c \in blocked : Work(row'[c]) = 0
  BY <1>2, WorkType
<1>5. \A c \in blocked : Work(row[c]) \in 2..Rounds
  <2> SUFFICES ASSUME NEW c \in blocked PROVE Work(row[c]) \in 2..Rounds
    OBVIOUS
  <2>1. row[c] \in Row /\ row[c].retries \in Nat
    BY <1>1 DEF Row
  <2> QED
    BY <2>1, WorkType, BudgetRule
<1>6. /\ Tokens(r) = {x \in (1..Rounds) \X Card : x[1] <= Work(row[x[2]])}
      /\ Tokens(r)' = {x \in (1..Rounds) \X Card : x[1] <= Work(row'[x[2]])}
  <2>1. Tokens(r)' = {x \in (1..Rounds) \X Card : x[1] <= Work(row'[x[2]])}
    BY DEF Tokens, Work
  <2> QED
    BY <2>1, IdleTokens
<1>7. ASSUME NEW z \in Tokens(r)' PROVE z \in Tokens(r)
  <2>1. z \in (1..Rounds) \X Card /\ z[1] \in Nat /\ z[1] > 0 /\ z[2] \in Card
        /\ z[1] <= Work(row'[z[2]])
    BY <1>6, <1>7
  <2>2. z[2] \notin blocked
    BY <1>4, <2>1
  <2> QED
    BY <1>3, <1>6, <2>1, <2>2
<1>8. Tokens(r)' # Tokens(r)
  <2>1. PICK c \in blocked : TRUE
    OBVIOUS
  <2>2. Work(row[c]) \in 2..Rounds /\ Rounds \in Nat /\ Work(row'[c]) = 0
    <3>1. Rounds \in Nat
      BY WorkflowAssumption DEF Rounds
    <3> QED
      BY <1>4, <1>5, <3>1
  <2>3. PICK z : z = <<1, c>>
    OBVIOUS
  <2>4. z \in (1..Rounds) \X Card /\ z[1] = 1 /\ z[2] = c
    BY <2>2, <2>3
  <2>5. z \in Tokens(r)
    BY <1>6, <2>2, <2>4
  <2>6. z \notin Tokens(r)'
    BY <1>6, <2>2, <2>4
  <2> QED
    BY <2>5, <2>6
<1> QED
  BY <1>7, <1>8

\* A plan that goes on has spent a round for its iteration.
LEMMA PlanPays ==
  ASSUME IsFiniteSet(Card), FInv, NEW r \in Run, run[r].pc = "plan", Looping(r),
         Tokens(r)' \subseteq Tokens(r), Tokens(r)' # Tokens(r),
         run'[r].iteration = run[r].iteration
  PROVE  run'[r].iteration + Cardinality(Tokens(r)') <= Rounds * Cardinality(Card) + 0
<1>1. run[r].iteration + Cardinality(Tokens(r)) <= Rounds * Cardinality(Card) + 1
  BY DEF FInv, RunsFrugal, Frugal
<1>2. /\ Cardinality(Tokens(r)) \in Nat /\ Cardinality(Tokens(r)') \in Nat
      /\ Cardinality(Card) \in Nat
      /\ Cardinality(Tokens(r)') + 1 <= Cardinality(Tokens(r))
  BY TokensType, TokensCount
<1>3. run[r].iteration \in Nat
  BY EpicAssumption DEF FInv, Inv, TypeOK, RunState
<1>4. Rounds * Cardinality(Card) \in Nat
  BY <1>2, WorkflowAssumption DEF Rounds
<1>5. PICK n : n = Rounds * Cardinality(Card)
  OBVIOUS
<1> QED
  BY <1>1, <1>2, <1>3, <1>4, <1>5

\* The planning of a run keeps the account.
LEMMA PlanKeepsFrugal ==
  ASSUME IsFiniteSet(Card), FInv, NEW r \in Run, Plan(r)
  PROVE  RunsFrugal' /\ NeverExhausts'
<1> DEFINE backlog == run[r].backlog
           review == InReview(backlog, run[r].target)
           build == ToBuild(backlog, IndependentReady(row, deps), run[r].target)
           blocked == DependencyBlocked(backlog, deps)
           issue(k, c) == IF k = "build" /\ run[r].target = NoCard THEN row[c] ELSE backlog[c]
<1>1. /\ Inv /\ TypeOK /\ run[r].pc = "plan" /\ TurnsOf(r) = {} /\ backlog \in [Card -> Row]
      /\ run[r].pc \notin Over \cup {"none"} /\ UNCHANGED <<deps, earned>>
  BY DEF Plan, FInv, Inv, RunsFormed, Over
<1>2. ASSUME NEW p \in {"read", "gather"},
             run' = [run EXCEPT ![r].pc = p, ![r].backlog = Unread]
      PROVE  /\ Moves(r, p) /\ run'[r].iteration = run[r].iteration
             /\ Looping(r)' => Looping(r)
  <2>1. Moves(r, p)
    BY <1>1, <1>2, MovesOn
  <2>2. run'[r].iteration = run[r].iteration
    BY <1>1, <1>2 DEF TypeOK, RunState
  <2> QED
    BY <1>1, <2>1, <2>2 DEF Looping, Moves
<1>3. CASE /\ review \cup build # {}
           /\ turn' = [t \in Turn |->
                IF t[1] = r /\ t[3] \in (IF t[2] = "build" THEN build ELSE review)
                THEN NewTurn("wait", issue(t[2], t[3])) ELSE turn[t]]
           /\ run' = [run EXCEPT ![r].pc = "gather", ![r].backlog = Unread]
           /\ UNCHANGED row
  <2>1. Moves(r, "gather") /\ run'[r].iteration = run[r].iteration
        /\ (Looping(r)' => Looping(r))
    BY <1>2, <1>3
  <2>2. turn' = [t \in Turn |-> IF Planned(r, t) THEN NewTurn("wait", issue(t[2], t[3]))
                                ELSE turn[t]]
    BY <1>3 DEF Planned
  <2>3. \E t \in Turn : Planned(r, t)
    <3>1. build \subseteq Card /\ review \subseteq Card
      BY <1>1, EpicAssumption DEF ToBuild, IndependentReady, InReview, TypeOK, RunState
    <3>2. CASE build # {}
      <4>1. PICK c \in build : TRUE
        BY <3>2
      <4>2. <<r, "build", c>> \in Turn
        BY <3>1, <4>1 DEF Turn, Kind
      <4> QED
        BY <4>1, <4>2 DEF Planned
    <3>3. CASE review # {}
      <4>1. PICK c \in review : TRUE
        BY <3>3
      <4>2. <<r, "review", c>> \in Turn
        BY <3>1, <4>1 DEF Turn, Kind
      <4> QED
        BY <4>1, <4>2 DEF Planned
    <3> QED
      BY <1>3, <3>2, <3>3
  <2>4. ASSUME Looping(r)
        PROVE  /\ Tokens(r)' \subseteq Tokens(r) /\ Tokens(r)' # Tokens(r)
               /\ \A t \in TurnsOf(r)' : /\ Knows(t, turn'[t], row'[t[3]])
                                         /\ \A u \in TurnsOf(r)' : u[3] = t[3] => u = t
    <3>1. \A k, c : issue(k, c) = row[c]
      BY <1>1, <2>4, LoopingPlans
    <3> HIDE DEF issue
    <3>2. ASSUME NEW t \in Turn
          PROVE  /\ turn'[t] \in TurnState
                 /\ Planned(r, t) => /\ turn'[t] \in ActiveTurn /\ turn'[t].pc = "wait"
                                     /\ turn'[t].issue = row[t[3]]
                 /\ ~Planned(r, t) => turn'[t] = turn[t]
      <4>1. row[t[3]] \in Row
        BY <1>1 DEF TypeOK, Turn
      <4>2. PICK n : n = NewTurn("wait", row[t[3]])
        OBVIOUS
      <4>3. n \in ActiveTurn /\ n.pc = "wait" /\ n.issue = row[t[3]]
        BY <4>1, <4>2, NewTurnType
      <4>4. turn'[t] = IF Planned(r, t) THEN n ELSE turn[t]
        BY <2>2, <3>1, <4>2
      <4> QED
        BY <1>1, <4>3, <4>4 DEF TurnState, TypeOK
    <3>3. turn' \in [Turn -> TurnState]
      BY <2>2, <3>2
    <3> QED
      BY <1>1, <1>3, <2>3, <2>4, <3>2, <3>3, PlanTurnsSpend
  <2>5. Looping(r)' =>
          run'[r].iteration + Cardinality(Tokens(r)') <= Rounds * Cardinality(Card) + 0
    BY <1>1, <2>1, <2>4, PlanPays
  <2>6. RunsFrugal'
    BY <1>1, <2>1, <2>4, <2>5, MovesFrugal
  <2> QED
    BY <2>1, <2>6, MovesExhaustsNobody DEF FInv
<1>4. CASE /\ blocked # {}
           /\ row' = [c \in Card |-> IF c \in blocked THEN [row[c] EXCEPT !.status = "blocked"]
                                     ELSE row[c]]
           /\ run' = [run EXCEPT ![r].pc = "read", ![r].backlog = Unread] /\ UNCHANGED turn
  <2>1. Moves(r, "read") /\ run'[r].iteration = run[r].iteration
        /\ (Looping(r)' => Looping(r))
    BY <1>2, <1>4
  <2>2. TurnsOf(r)' = {}
    BY <1>1, <1>4 DEF TurnsOf
  <2>3. blocked \in SUBSET Card /\ \A c \in blocked : backlog[c].status = "ready"
    BY DEF DependencyBlocked
  <2> HIDE DEF blocked
  <2>4. ASSUME Looping(r) PROVE Tokens(r)' \subseteq Tokens(r) /\ Tokens(r)' # Tokens(r)
    <3>1. \A c \in blocked : row[c].status = "ready"
      BY <1>1, <2>3, <2>4, LoopingPlans
    <3> QED
      BY <1>1, <1>4, <2>2, <2>3, <2>4, <3>1, PlanBlocksSpend
  <2>5. Looping(r)' =>
          run'[r].iteration + Cardinality(Tokens(r)') <= Rounds * Cardinality(Card) + 0
    BY <1>1, <2>1, <2>4, PlanPays
  <2>6. RunsFrugal'
    BY <1>1, <2>1, <2>2, <2>5, MovesFrugal
  <2> QED
    BY <2>1, <2>6, MovesExhaustsNobody DEF FInv
<1>5. CASE Ends(r, "over")
  <2>1. "over" \in Over
    BY DEF Over
  <2>2. Moves(r, "over")
    BY <1>1, <1>5, <2>1, EndsKeeps DEF Moves
  <2>3. ~Looping(r)'
    BY <2>2 DEF Looping, Moves
  <2>4. RunsFrugal'
    BY <1>1, <2>2, <2>3, MovesFrugal
  <2> QED
    BY <2>2, <2>4, MovesExhaustsNobody DEF FInv
<1> QED
  BY <1>3, <1>4, <1>5 DEF Plan

\* A run that starts beside a looping one takes it its solitude.
LEMMA StartKeepsFrugal ==
  ASSUME FInv, NEW r \in Run, NEW g \in Targets \cup {NoCard}, Start(r, g)
  PROVE  RunsFrugal' /\ NeverExhausts'
<1> DEFINE others == {q \in Run \ {r} : Live(q)}
           resume == g # NoCard \/ \E c \in Card : row[c].status \in Stalled
           x == [NewRun("start", g, resume) EXCEPT !.backlog = row, !.alone = others = {}]
<1>1. run' = [q \in Run |-> IF q = r THEN x
                            ELSE IF q \in others THEN [run[q] EXCEPT !.alone = FALSE]
                            ELSE run[q]]
  BY DEF Start
<1>2. x.pc = "start" /\ x.iteration = 0
  BY DEF NewRun
<1> HIDE DEF x, resume
<1>3. run'[r].pc = "start" /\ run'[r].iteration = 0
  BY <1>1, <1>2
<1>4. ASSUME NEW q \in Run, q # r
      PROVE  /\ run'[q].pc = run[q].pc /\ run'[q].iteration = run[q].iteration
             /\ run'[q].target = run[q].target
             /\ run'[q].alone => run[q].alone /\ ~Live(q)
  <2>1. run[q] \in RunState
    BY DEF FInv, Inv, TypeOK
  <2>2. CASE q \in others
    <3>1. run'[q] = [run[q] EXCEPT !.alone = FALSE]
      BY <1>1, <1>4, <2>2
    <3> QED
      BY <2>1, <3>1 DEF RunState
  <2>3. CASE q \notin others
    BY <1>1, <1>4, <2>3
  <2> QED
    BY <2>2, <2>3
<1>5. \A q \in Run : ~Looping(q)'
  <2> SUFFICES ASSUME NEW q \in Run, Looping(q)' PROVE FALSE
    OBVIOUS
  <2>1. q # r
    BY <1>3 DEF Looping
  <2>2. Live(q)
    BY <1>4, <2>1 DEF Looping, Live, Over
  <2> QED
    BY <1>4, <2>1, <2>2 DEF Looping
<1>6. RunsFrugal'
  BY <1>3, <1>4, <1>5 DEF RunsFrugal, Frugal, FInv
<1>7. NeverExhausts'
  BY <1>3, <1>4 DEF NeverExhausts, FInv
<1> QED
  BY <1>6, <1>7

\* The first run has the rounds of all cards before it.
LEMMA InitFrugal ==
  ASSUME IsFiniteSet(Card), Init
  PROVE  FInv
<1>1. Inv
  BY InitInv
<1>2. \A r \in Run : /\ run[r].iteration = 0 /\ run[r].pc \in {"read", "none"}
                     /\ TurnsOf(r) = {}
  BY DEF Init, NewRun, TurnsOf, NoTurn
<1>3. ASSUME NEW r \in Run PROVE Frugal(r)
  <2>1. Cardinality(Tokens(r)) <= Rounds * Cardinality(Card) /\ Cardinality(Tokens(r)) \in Nat
        /\ Cardinality(Card) \in Nat
    BY TokensType, TokensCount
  <2>2. Rounds * Cardinality(Card) \in Nat
    BY <2>1, WorkflowAssumption DEF Rounds
  <2>3. PICK n : n = Rounds * Cardinality(Card)
    OBVIOUS
  <2>4. run[r].iteration + Cardinality(Tokens(r)) <= n + 0
    BY <1>2, <2>1, <2>2, <2>3
  <2> QED
    BY <1>2, <2>3, <2>4 DEF Frugal
<1> QED
  BY <1>1, <1>2, <1>3 DEF FInv, RunsFrugal, NeverExhausts

\* Every step of runs, turns and operators keeps the account.
LEMMA NextFrugal ==
  ASSUME IsFiniteSet(Card)
  PROVE  FInv /\ [Next]_vars => FInv'
<1> SUFFICES ASSUME FInv, [Next]_vars PROVE FInv'
  OBVIOUS
<1>1. Inv'
  BY NextInv DEF FInv
<1>2. ASSUME NEW r \in Run, RunStep(r) PROVE RunsFrugal' /\ NeverExhausts'
  BY <1>2, PrepareCardsKeepsFrugal, ReadBacklogKeepsFrugal, ExhaustKeepsFrugal,
     PlanKeepsFrugal DEF RunStep
<1>3. ASSUME NEW r \in Run \ {1}, NEW g \in Targets \cup {NoCard}, Start(r, g)
      PROVE  RunsFrugal' /\ NeverExhausts'
  BY <1>3, StartKeepsFrugal
<1>4. ASSUME NEW r \in Run, NEW t \in TurnsOf(r), TurnStep(t)
      PROVE  RunsFrugal' /\ NeverExhausts'
  <2>1. t \in Turn /\ turn[t].pc # "none"
    BY DEF TurnsOf
  <2> QED
    BY <1>4, <2>1, TurnKeepsFrugal
<1>5. CASE UNCHANGED vars
  <2>1. row' = row /\ run' = run /\ turn' = turn
    BY <1>5 DEF vars
  <2>2. \A r : TurnsOf(r)' = TurnsOf(r)
    BY <2>1 DEF TurnsOf
  <2>3. \A r : Tokens(r)' = Tokens(r) /\ (Looping(r)' <=> Looping(r))
    BY <2>1, <2>2 DEF Tokens, Looping
  <2>4. \A r \in Run : Frugal(r)'
    <3> SUFFICES ASSUME NEW r \in Run, Looping(r)
                 PROVE  /\ \A t \in TurnsOf(r) :
                             /\ Knows(t, turn[t], row[t[3]])
                             /\ \A u \in TurnsOf(r) : u[3] = t[3] => u = t
                        /\ run[r].iteration + Cardinality(Tokens(r))
                             <= Rounds * Cardinality(Card) + (IF run[r].pc = "plan" THEN 1 ELSE 0)
      BY <2>1, <2>2, <2>3 DEF Frugal
    <3> QED
      BY DEF FInv, RunsFrugal, Frugal
  <2>5. RunsFrugal'
    BY <2>1, <2>4 DEF FInv, RunsFrugal
  <2>6. NeverExhausts'
    BY <2>1 DEF FInv, NeverExhausts
  <2> QED
    BY <1>1, <2>5, <2>6 DEF FInv
<1> QED
  BY <1>1, <1>2, <1>3, <1>4, <1>5 DEF Next, FInv

\* However the guard's retries fall, a run that has the build for itself and no
\* target is not ended by max_iterations when that allows a build and a review for
\* every attempt at every card (execute_epic, should_raise_exhaustion).
THEOREM LoopNeverExhausts ==
  ASSUME IsFiniteSet(Card)
  PROVE  Spec => []NeverExhausts
<1>1. Init => FInv
  BY InitFrugal
<1>2. FInv /\ [Next]_vars => FInv'
  BY NextFrugal
<1>3. FInv => NeverExhausts
  BY DEF FInv
<1> QED
  BY <1>1, <1>2, <1>3, PTL DEF Spec
=============================================================================
