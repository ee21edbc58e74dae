------------------------------ MODULE OutwardRun ------------------------------
(* One outward run: its submission, the turns in which the model proposes a    *)
(* governed tool call, the operator's decisions and the execution of what was  *)
(* approved.  API requests are handled concurrently; each handler works on the *)
(* copy of the run it read, and every store operation is a transaction of its  *)
(* own, so handlers interleave, overwrite each other and may stop anywhere.    *)
EXTENDS Naturals, Sequences, FiniteSets

CONSTANTS Handler,       \* requests in progress at one time
          StepTool,      \* the tool of each governed step, if the run has valid ones
          MaxTurns,      \* max_turns of the run
          MaxCalls,      \* how many tool calls the model may produce
          MaxRequests,   \* how many requests arrive
          MaxRacing,     \* how many requests arrive if some of them overlap
          MaxStops       \* how many handlers stop midway

ASSUME OutwardAssumption ==
  /\ StepTool \in Seq(STRING) /\ StepTool # << >>
  /\ MaxTurns \in Nat \ {0} /\ MaxCalls \in Nat \ {0}
  /\ MaxRequests \in Nat /\ MaxRacing \in Nat /\ MaxStops \in Nat

Steps == Len(StepTool)
Call == 0..MaxCalls
Proposal == 1..MaxCalls
Verdict == {"approved", "denied", "expired"}

\* What the acceptance contract of a run says: governed steps, none at all, or
\* steps that are not valid (an empty sequence, a step without tool or args).
Plan == {"steps", "none", "invalid"}

\* The run row: the plan, current_turn, step_index and the last recorded model
\* call.  An effect that is repeated counts its step again.
Run == [status : {"none", "queued", "running", "approval_required", "completed",
                  "failed"},
        plan : Plan, turn : 0..MaxTurns, step : Nat, call : Call]
NoRun == [status |-> "none", plan |-> "none", turn |-> 0, step |-> 0, call |-> 0]

\* A proposal is for one tool call.
Approval == [status : {"none", "pending"} \cup Verdict, call : Call]

\* An event of the ledger, by what its id is made of.
EventType == {"run_submitted", "trust_handoff_rejected", "run_started", "turn_started",
              "proposal_made", "proposal_policy_rejected", "proposal_pending_approval",
              "proposal_approved", "proposal_denied", "proposal_expired", "tool_invoked",
              "commitment_recorded", "turn_completed", "run_completed", "run_failed"}
LedgerEvent == [type : EventType, turn : 0..MaxTurns, p : Call]
Event(type, turn, p) == [type |-> type, turn |-> turn, p |-> p]

VARIABLES run,        \* outward_runs
          approvals,  \* outward_approval_proposals
          ledger,     \* run_events, in the order of insertion
          effects,    \* the connector invocations, in order
          calls,      \* the tool of every call the model produced
          approved,   \* the proposals whose approval was ever stored
          handler,    \* the requests in progress
          requests,   \* requests so far
          overlapped, \* whether two requests were ever in progress together
          stops       \* handlers that stopped midway so far

vars == <<run, approvals, ledger, effects, calls, approved, handler, requests, overlapped, stops>>

\* Where a request is, what it has still to store, and its locals.
Label == {"idle", "create", "start", "model", "request", "propose", "decide", "decided",
          "approval", "denial", "invoke"}
Idle == [pc |-> "idle", todo |-> << >>, p |-> 0, call |-> 0,
         verdict |-> "approved", run |-> NoRun]

Init ==
  /\ run = NoRun
  /\ approvals = [p \in Proposal |-> [status |-> "none", call |-> 0]]
  /\ ledger = << >> /\ effects = << >> /\ calls = << >>
  /\ handler = [h \in Handler |-> Idle]
  /\ approved = {}
  /\ requests = 0 /\ overlapped = FALSE /\ stops = 0

-----------------------------------------------------------------------------
(* A handler carries out what it has decided on one store operation at a time.*)

SaveRun(r) == [op |-> "run", run |-> r]
SaveApproval(p, s, c) == [op |-> "approval", p |-> p, to |-> [status |-> s, call |-> c]]
Append1(type, turn, p) == [op |-> "event", event |-> Event(type, turn, p)]
Operation == [op : {"run"}, run : Run] \cup [op : {"approval"}, p : Proposal, to : Approval]
             \cup [op : {"event"}, event : LedgerEvent]

Recorded(e) == \E i \in DOMAIN ledger : ledger[i] = e

\* A mutation for the check of LedgerOrdered: the event is not looked up first.
AppendAlways(e) == ledger' = Append(ledger, e)

\* _append_once.  Two handlers that race past its lookup meet at the primary key,
\* which stops the loser.
AppendOnce(e) == ledger' = IF Recorded(e) THEN ledger ELSE Append(ledger, e)

Perform(h) ==
  LET t == Head(handler[h].todo) IN
  /\ handler[h].todo # << >>
  /\ \/ t.op = "run" /\ run' = t.run /\ UNCHANGED <<approvals, ledger, approved>>
     \/ /\ t.op = "approval"
        /\ approvals' = [approvals EXCEPT ![t.p] = t.to]
        /\ approved' = IF t.to.status = "approved" THEN approved \cup {t.p} ELSE approved
        /\ UNCHANGED <<run, ledger>>
     \/ t.op = "event" /\ AppendOnce(t.event) /\ UNCHANGED <<run, approvals, approved>>
  /\ handler' = [handler EXCEPT ![h].todo = Tail(@)]
  /\ UNCHANGED <<effects, calls, requests, overlapped, stops>>

\* Handler h, with nothing left to do at label l, goes on to label m.
At(h, l) == handler[h].pc = l /\ handler[h].todo = << >>
Go(h, m, todo, r) ==
  handler' = [handler EXCEPT ![h].pc = m, ![h].todo = todo, ![h].run = r]
\* The handler does the last of its work and answers.
Finish(h, todo) == handler' = [handler EXCEPT ![h] = [Idle EXCEPT !.todo = todo]]

\* A request arrives.
Free(h) ==
  /\ At(h, "idle")
  /\ requests < MaxRequests /\ requests' = requests + 1
  /\ overlapped' = (overlapped \/ \E g \in Handler \ {h} : handler[g] # Idle)
  /\ overlapped' => requests < MaxRacing

Terminal(r, s) ==
  <<SaveRun([r EXCEPT !.status = s])>> \o
  IF s = "completed" THEN <<Append1("run_completed", 0, 0)>>
                     ELSE <<Append1("run_failed", 0, 0)>>

-----------------------------------------------------------------------------
(* Submission.                                                                *)

\* submit: a known run_id is answered with the run that exists.
Submit(h) ==
  /\ Free(h)
  /\ Go(h, IF run.status = "none" THEN "create" ELSE "start",
        IF run.status = "none" THEN << >> ELSE <<Append1("run_submitted", 0, 0)>>, NoRun)
  /\ UNCHANGED <<run, approvals, ledger, effects, calls, approved, stops>>

\* The INSERT of create; a row that has appeared meanwhile fails the request.
Create(h) ==
  /\ At(h, "create")
  /\ \/ /\ run.status = "none"
        /\ \E plan \in Plan : run' = [NoRun EXCEPT !.status = "queued", !.plan = plan]
        /\ Go(h, "start", <<Append1("run_submitted", 0, 0)>>, NoRun)
     \/ run.status # "none" /\ Finish(h, << >>) /\ UNCHANGED run
  /\ UNCHANGED <<approvals, ledger, effects, calls, approved, requests, overlapped, stops>>

\* start_if_ready, up to the first model call; the handoff, if one is required,
\* is admitted or rejected first.  A run without governed steps is returned as it
\* is, one with invalid steps fails the request: both stay queued.
StartIfReady(h) ==
  LET started == [run EXCEPT !.status = "running", !.turn = 1] IN
  /\ At(h, "start")
  /\ \/ run.status # "queued" /\ Finish(h, << >>)
     \/ /\ run.status = "queued"
        /\ Finish(h, <<SaveRun([run EXCEPT !.status = "completed"]),
                       Append1("trust_handoff_rejected", 0, 0),
                       Append1("run_completed", 0, 0)>>)
     \/ run.status = "queued" /\ run.plan # "steps" /\ Finish(h, << >>)
     \/ /\ run.status = "queued" /\ run.plan = "steps"
        /\ Go(h, "model", <<SaveRun(started), Append1("run_started", 0, 0),
                            Append1("turn_started", 1, 0)>>, started)
  /\ UNCHANGED <<run, approvals, ledger, effects, calls, approved, requests, overlapped, stops>>

\* _handle_model_tool_call.  The model fails, proposes something the connector
\* policy rejects, or proposes a call, which is recorded and put up for approval.
ModelCall(h) ==
  LET r == handler[h].run
      c == Len(calls) + 1
      made == [r EXCEPT !.call = c]
      record == <<SaveRun(made), Append1("proposal_made", r.turn, 0)>>
  IN
  /\ At(h, "model") /\ c <= MaxCalls
  /\ \/ Finish(h, Terminal(r, "failed")) /\ UNCHANGED calls
     \/ /\ Finish(h, record \o
                  <<Append1("proposal_policy_rejected", r.turn, 0),
                    Append1("turn_completed", r.turn, 0)>> \o Terminal(made, "completed"))
        /\ calls' = Append(calls, StepTool[r.step + 1])
     \/ /\ Go(h, "request", record, made)
        /\ calls' = Append(calls, StepTool[r.step + 1])
  /\ UNCHANGED <<run, approvals, ledger, effects, approved, requests, overlapped, stops>>

\* request_tool_approval reads the run again and numbers the proposal by counting
\* the run's proposals.
RequestApproval(h) ==
  LET p == Cardinality({q \in Proposal : approvals[q].status # "none"}) + 1 IN
  /\ At(h, "request") /\ p \in Proposal
  /\ handler' = [handler EXCEPT ![h].pc = "propose", ![h].p = p,
                                 ![h].call = handler[h].run.call, ![h].run = run]
  /\ UNCHANGED <<run, approvals, ledger, effects, calls, approved, requests, overlapped, stops>>

\* A mutation for the check of RunSettles: the run is not told of its proposal.
ProposeSilently(h) ==
  /\ At(h, "propose")
  /\ Finish(h, <<SaveApproval(handler[h].p, "pending", handler[h].call)>>)
  /\ UNCHANGED <<run, approvals, ledger, effects, calls, approved, requests, overlapped, stops>>

\* A proposal that exists by now is returned as it is.
Propose(h) ==
  LET p == handler[h].p
      r == handler[h].run IN
  /\ At(h, "propose")
  /\ Finish(h, IF approvals[p].status # "none" THEN << >>
               ELSE <<SaveApproval(p, "pending", handler[h].call),
                      SaveRun([r EXCEPT !.status = "approval_required"]),
                      Append1("proposal_pending_approval", 0, p)>>)
  /\ UNCHANGED <<run, approvals, ledger, effects, calls, approved, requests, overlapped, stops>>

-----------------------------------------------------------------------------
(* Decisions.                                                                 *)

\* approve and deny of an operator, and expire_due, which every listing runs.
Decide(h, p, v) ==
  /\ Free(h)
  /\ approvals[p].status # "none"
  /\ v = "expired" => approvals[p].status = "pending"
  /\ handler' = [handler EXCEPT ![h] = [Idle EXCEPT !.pc = "decide", !.p = p,
                                                    !.verdict = v]]
  /\ UNCHANGED <<run, approvals, ledger, effects, calls, approved, stops>>

\* What the routes do once the decision is made.
Continuation(v) == CASE v = "approved" -> "approval"
                     [] v = "denied"   -> "denial"
                     [] v = "expired"  -> "idle"

\* A mutation for the check of CompletedIsFinal: a decision is taken again.
DecideAgain(h) ==
  LET p == handler[h].p IN
  /\ At(h, "decide")
  /\ Go(h, "decided", <<SaveApproval(p, handler[h].verdict, approvals[p].call)>>, NoRun)
  /\ UNCHANGED <<run, approvals, ledger, effects, calls, approved, requests, overlapped, stops>>

\* _decide: a decided proposal is left alone.
DecideRead(h) ==
  LET p == handler[h].p
      v == handler[h].verdict IN
  /\ At(h, "decide")
  /\ IF approvals[p].status = "pending"
     THEN Go(h, "decided", <<SaveApproval(p, v, approvals[p].call)>>, NoRun)
     ELSE IF v = "expired" THEN Finish(h, << >>) ELSE Go(h, Continuation(v), << >>, NoRun)
  /\ UNCHANGED <<run, approvals, ledger, effects, calls, approved, requests, overlapped, stops>>

DecisionEvent(v) == CASE v = "approved" -> "proposal_approved"
                      [] v = "denied"   -> "proposal_denied"
                      [] v = "expired"  -> "proposal_expired"

\* The second half of _decide, on the run as it is now.
DecideRun(h) ==
  LET p == handler[h].p
      v == handler[h].verdict
      s == IF v = "approved" THEN "running" ELSE "failed"
      todo == <<SaveRun([run EXCEPT !.status = s]), Append1(DecisionEvent(v), 0, p)>>
  IN
  /\ At(h, "decided")
  /\ IF v = "expired" THEN Finish(h, todo) ELSE Go(h, Continuation(v), todo, NoRun)
  /\ UNCHANGED <<run, approvals, ledger, effects, calls, approved, requests, overlapped, stops>>

\* Mutations for the checks of ApprovedBeforeEffect, EffectOnce and
\* DeniedNotInvoked: only the run, only the proposal, or nothing is looked at.
MayExecuteRunning(p) == run.status \notin {"completed", "failed"}
MayExecuteApproved(p) == approvals[p].status = "approved"
MayExecuteAlways(p) == TRUE

\* The early returns of continue_after_approval.
MayExecute(p) ==
  /\ run.status \notin {"completed", "failed"}
  /\ approvals[p].status = "approved"

\* A mutation for the check of CallMatchesApproval: the tool is not compared.
AnyTool(p) == run.call # 0

SameTool(p) == run.call # 0 /\ calls[run.call] = calls[approvals[p].call]

\* continue_after_approval up to the connector: the call to execute is the last
\* one recorded, and only its tool is compared with the proposal's.
ContinueAfterApproval(h) ==
  LET p == handler[h].p IN
  /\ At(h, "approval")
  /\ \/ ~MayExecute(p) /\ Finish(h, << >>)
     \/ /\ MayExecute(p) /\ ~SameTool(p)
        /\ Finish(h, Terminal(run, "failed"))
     \/ /\ MayExecute(p) /\ SameTool(p)
        /\ Go(h, "invoke", << >>, run)
  /\ UNCHANGED <<run, approvals, ledger, effects, calls, approved, requests, overlapped, stops>>

TurnsLeft(t) == t <= MaxTurns

TurnDone(r, p) == <<Append1("commitment_recorded", r.turn, p),
                    Append1("turn_completed", r.turn, 0)>>

\* The connector runs, and the rest of continue_after_approval follows from what
\* it answers: a failed run, a completed one, or the next turn.
Invoke(h) ==
  LET p == handler[h].p
      r == handler[h].run
      invoked == <<Append1("tool_invoked", r.turn, p)>>
      result == [r EXCEPT !.step = @ + 1]
      next == [result EXCEPT !.status = "running", !.turn = @ + 1]
      done == invoked \o <<SaveRun(result)>> \o TurnDone(r, p)
  IN
  /\ At(h, "invoke")
  /\ effects' = Append(effects, [p |-> p, call |-> r.call])
  /\ \/ Finish(h, invoked \o Terminal(r, "failed"))
     \/ r.step + 1 >= Steps /\ Finish(h, done \o Terminal(result, "completed"))
     \/ /\ r.step + 1 < Steps /\ ~TurnsLeft(next.turn)
        /\ Finish(h, done \o Terminal(result, "failed"))
     \/ /\ r.step + 1 < Steps /\ TurnsLeft(next.turn)
        /\ Go(h, "model", done \o <<SaveRun(next), Append1("turn_started", next.turn, 0)>>, next)
  /\ UNCHANGED <<run, approvals, ledger, calls, approved, requests, overlapped, stops>>

\* continue_after_denial completes the run, whatever state it failed in.
ContinueAfterDenial(h) ==
  LET p == handler[h].p IN
  /\ At(h, "denial")
  /\ Finish(h, IF approvals[p].status = "denied" /\ run.status # "completed"
               THEN <<Append1("turn_completed", run.turn, 0)>> \o Terminal(run, "completed")
               ELSE << >>)
  /\ UNCHANGED <<run, approvals, ledger, effects, calls, approved, requests, overlapped, stops>>

\* A handler stops midway: the process dies, or an exception ends the request.
Stop(h) ==
  /\ handler[h] # Idle /\ stops < MaxStops
  /\ stops' = stops + 1
  /\ handler' = [handler EXCEPT ![h] = Idle]
  /\ UNCHANGED <<run, approvals, ledger, effects, calls, approved, requests, overlapped>>

Step(h) ==
  \/ Perform(h) \/ Create(h) \/ StartIfReady(h) \/ ModelCall(h)
  \/ RequestApproval(h) \/ Propose(h) \/ DecideRead(h) \/ DecideRun(h)
  \/ ContinueAfterApproval(h) \/ Invoke(h) \/ ContinueAfterDenial(h)

Next ==
  \E h \in Handler :
    \/ Step(h) \/ Submit(h) \/ Stop(h)
    \/ \E p \in Proposal, v \in Verdict : Decide(h, p, v)

Spec == Init /\ [][Next]_vars

\* A request in progress goes on.
LiveSpec == Spec /\ \A h \in Handler : WF_vars(Step(h))

-----------------------------------------------------------------------------
HandlerState == [pc : Label, todo : Seq(Operation), p : Call, call : Call,
                 verdict : Verdict, run : Run]

\* Types of the variables.
TypeOK ==
  /\ run \in Run
  /\ approvals \in [Proposal -> Approval]
  /\ ledger \in Seq(LedgerEvent)
  /\ effects \in Seq([p : Proposal, call : Call])
  /\ calls \in Seq(STRING) /\ Len(calls) <= MaxCalls
  /\ approved \subseteq Proposal
  /\ handler \in [Handler -> HandlerState]
  /\ requests \in 0..MaxRequests /\ overlapped \in BOOLEAN /\ stops \in 0..MaxStops

\* Requests were handled one after the other and to their end.
Undisturbed == ~overlapped /\ stops = 0

\* No tool was called twice.  continue_after_approval tells the calls of a run apart
\* by their tools, so an approval given once more executes a later call of the
\* same tool, whose own proposal nobody has decided.
ToolsDiffer == \A i, j \in DOMAIN calls : calls[i] = calls[j] => i = j

Invoked(p) == \E i \in DOMAIN effects : effects[i].p = p

\* No connector runs for a proposal that no operator approved, whatever requests
\* interleave, overwrite each other or stop midway (ORP-INV-002).
ApprovedBeforeEffect == \A i \in DOMAIN effects : effects[i].p \in approved

\* A denied proposal has no effect after its denial (ORP-INV-013), unless requests
\* overlap; handlers that stop midway do not matter.
DeniedNotInvoked ==
  ~overlapped => \A p \in Proposal :
    Recorded(Event("proposal_denied", 0, p)) => ~Invoked(p)

\* What a connector executes is the call its proposal was approved for
\* (ORP-INV-009: "Invoked tool name and args digest must match approved proposal"),
\* unless requests overlap or stop midway or a tool is called again.
CallMatchesApproval ==
  Undisturbed /\ ToolsDiffer =>
    \A i \in DOMAIN effects : effects[i].call = approvals[effects[i].p].call

\* An approved proposal takes effect once: "resolves a pending outward proposal
\* idempotently", unless requests overlap or stop midway or a tool is called again.
EffectOnce ==
  Undisturbed /\ ToolsDiffer =>
    \A i, j \in DOMAIN effects : effects[i].p = effects[j].p => i = j

\* The ledger tells a run in order: whatever interleaves or stops, no event is
\* told twice and a commitment follows its invocation; if the requests were
\* undisturbed and no tool was called twice, a turn ends after its commitment and
\* before the next one starts (ORP-INV-003, 010, 011).
LedgerOrdered ==
  \A i, j \in DOMAIN ledger :
    LET a == ledger[i]
        b == ledger[j] IN
    /\ a = b => i = j
    /\ a.type = "commitment_recorded" =>
         \E k \in 1..(i - 1) : ledger[k] = Event("tool_invoked", a.turn, a.p)
    /\ Undisturbed /\ ToolsDiffer /\ a.type = "turn_completed" =>
         /\ (b.type = "turn_started" /\ b.turn = a.turn + 1) => i < j
         /\ (b.type = "commitment_recorded" /\ b.turn = a.turn) => j < i

\* A completed run stays completed, unless requests overlap or stop midway or a
\* tool is called again.
CompletedIsFinal ==
  [][run.status = "completed" /\ Undisturbed' /\ ToolsDiffer'
       => run'.status = "completed"]_vars

\* A run never stays in the middle of a step by itself: one that has started, or
\* that is queued with valid governed steps, comes to wait for an operator or to its
\* end, unless requests overlap or stop midway.  A run without such steps stays queued.
RunSettles ==
  (run.status = "running" \/ (run.status = "queued" /\ run.plan = "steps"))
    ~> \/ run.status \in {"approval_required", "completed", "failed"}
       \/ ~Undisturbed
=============================================================================
