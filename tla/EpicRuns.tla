------------------------------- MODULE EpicRuns -------------------------------
(* Runs of one epic over one build.  A run is an asyncio task: it prepares the *)
(* build's cards, then loops over plan, gather and read until nothing is left. *)
(* Every candidate becomes a turn, a task of its own that calls a model and    *)
(* its tools and writes the card's row between awaits.  gather raises with the *)
(* first turn that does and leaves the others running, so a run may be over    *)
(* while turns of it still write, and a later run of the build starts beside   *)
(* them.  The team has a seat with the integrity_guard role; the discussion    *)
(* stage before a build (ODR) and replanning are switched off.                 *)
EXTENDS CardWorkflow, FiniteSets

CONSTANTS Graphs,          \* the dependency graphs to look at
          Targets,         \* cards a later run may be started for alone
          Verified,        \* cards with a fixture or scenarios to verify
          BuilderAsks,     \* statuses a builder's model asks for
          GuardAsks,       \* statuses a guard's model asks for
          Concurrency,     \* concurrency_limit
          MaxIterations,   \* max_iterations
          MaxCalls,        \* tool calls that set a status, per turn
          MaxRuns

Run == 1..MaxRuns
Kind == {"build", "review"}
Turn == Run \X Kind \X Card

ASSUME EpicAssumption ==
  /\ Graphs \subseteq [Card -> SUBSET Card]
  /\ Verified \subseteq Card /\ Targets \subseteq Card
  /\ BuilderAsks \subseteq CardStatus /\ GuardAsks \subseteq CardStatus
  /\ {Concurrency, MaxIterations, MaxCalls, MaxRuns} \subseteq Nat \ {0}

VARIABLES deps,      \* depends_on of the cards
          row,       \* the issues table
          run,       \* run: where execute_epic and its caller stand
          turn,      \* turn: where _execute_issue_turn stands
          earned     \* card: the run whose guard turn made it done last, or 0

vars == <<deps, row, run, turn, earned>>

Unread == <<>>

\* "backlog" is the list read last, "alone" whether no task of another run has
\* been around since this run started.
RunState == [pc : {"none", "start", "read", "plan", "gather", "exhausted", "over"},
             target : Card \cup {NoCard}, resume : BOOLEAN, iteration : 0..MaxIterations,
             backlog : [Card -> Row] \cup {Unread}, alone : BOOLEAN]

NewRun(pc, target, resume) ==
  [pc |-> pc, target |-> target, resume |-> resume, iteration |-> 0,
   backlog |-> Unread, alone |-> TRUE]

\* "issue" is the copy of the card the turn works on, "held" the row that
\* verify_issue read or the status a tool is about to write, "then" what follows
\* the save, "bad" whether a tool call was refused.
NoTurn == [pc |-> "none"]
ActiveTurn == [pc : {"wait", "verify", "prepare", "model", "tool",
                     "promote", "save"},
               issue : Row, held : Row, then : {"", "stop", "raise", "cancel"},
               calls : 0..MaxCalls, bad : BOOLEAN]
TurnState == ActiveTurn \cup {NoTurn}

NewTurn(pc, issue) == [pc |-> pc, issue |-> issue, held |-> NewRow, then |-> "",
                       calls |-> 0, bad |-> FALSE]

\* Types of the variables.
TypeOK == /\ deps \in Graphs
          /\ row \in [Card -> Row]
          /\ run \in [Run -> RunState]
          /\ turn \in [Turn -> TurnState]
          /\ earned \in [Card -> 0..MaxRuns]

Over == {"over", "exhausted"}
TurnsOf(r) == {t \in Turn : t[1] = r /\ turn[t].pc # "none"}
Live(r) == run[r].pc \notin Over \cup {"none"} \/ TurnsOf(r) # {}

\* The first run of the build has just saved its cards.
Init == /\ deps \in Graphs
        /\ row = [c \in Card |-> NewRow]
        /\ run = [r \in Run |-> NewRun(IF r = 1 THEN "read" ELSE "none", NoCard, FALSE)]
        /\ turn = [t \in Turn |-> NoTurn]
        /\ earned = [c \in Card |-> 0]

-----------------------------------------------------------------------------
(* Before the loop: _ensure_session_and_cards over a build that has cards.    *)

\* The rows are read, and with them whether this run resumes a stalled one.
Start(r, g) ==
  LET others == {q \in Run \ {r} : Live(q)}
      resume == g # NoCard \/ \E c \in Card : row[c].status \in Stalled
  IN  /\ run[r].pc = "none" /\ run[r - 1].pc \in Over
      /\ run' = [q \in Run |->
           IF q = r THEN [NewRun("start", g, resume) EXCEPT !.backlog = row, !.alone = others = {}]
           ELSE IF q \in others THEN [run[q] EXCEPT !.alone = FALSE] ELSE run[q]]
      /\ UNCHANGED <<deps, row, turn, earned>>

\* A mutation for the check of DoneIsEarned: a rerun keeps what is done.
PrepareCardsKeepDone(r) ==
  /\ run[r].pc = "start"
  /\ row' = [c \in Card |-> IF row[c].status = "done" THEN row[c]
                            ELSE [row[c] EXCEPT !.status = "ready"]]
  /\ run' = [run EXCEPT ![r].pc = "read", ![r].backlog = Unread]
  /\ UNCHANGED <<deps, turn, earned>>

\* reset_build; with a target, _resume_stalled_issues for the others and
\* _resume_target_issue_if_existing.
PrepareCards(r) ==
  LET g == run[r].target
      requeue(c) == \/ g = NoCard
                    \/ c # g /\ run[r].backlog[c].status \in Stalled
                    \/ c = g /\ run[r].backlog[c].status \notin Stalled \cup {"ready"}
  IN  /\ run[r].pc = "start"
      /\ row' = [c \in Card |-> IF requeue(c) THEN [row[c] EXCEPT !.status = "ready"] ELSE row[c]]
      /\ run' = [run EXCEPT ![r].pc = "read", ![r].backlog = Unread]
      /\ UNCHANGED <<deps, turn, earned>>

-----------------------------------------------------------------------------
(* execute_epic.                                                              *)

\* The run is finalized, failed or cancelled: its session is closed and its
\* cards are left as they are.
Ends(r, pc) == run' = [run EXCEPT ![r].pc = pc, ![r].iteration = 0,
                                  ![r].backlog = Unread]

\* The head of the loop, at first or when gather has the results of all turns.
Loops(r) == run[r].pc = "read" \/ (run[r].pc = "gather" /\ TurnsOf(r) = {})

ReadBacklog(r) ==
  /\ Loops(r) /\ run[r].iteration < MaxIterations
  /\ run' = [run EXCEPT ![r].pc = "plan", ![r].iteration = @ + 1, ![r].backlog = row]
  /\ UNCHANGED <<deps, row, turn, earned>>

\* The loop has run out: should_raise_exhaustion over the final backlog.
Exhaust(r) ==
  /\ Loops(r) /\ run[r].iteration = MaxIterations
  /\ Ends(r, IF BacklogDone(row) THEN "over" ELSE "exhausted")
  /\ UNCHANGED <<deps, row, turn, earned>>

\* The second read and the plan: turns for the candidates; without any, blocks
\* are propagated, or the run is over: its backlog is done, or it has stalled.
Plan(r) ==
  LET backlog == run[r].backlog
      review == InReview(backlog, run[r].target)
      build == ToBuild(backlog, IndependentReady(row, deps), run[r].target)
      blocked == DependencyBlocked(backlog, deps)
      issue(k, c) == IF k = "build" /\ run[r].target = NoCard THEN row[c] ELSE backlog[c]
      to(pc) == run' = [run EXCEPT ![r].pc = pc, ![r].backlog = Unread]
  IN  /\ run[r].pc = "plan"
      /\ \/ /\ review \cup build # {}
            /\ turn' = [t \in Turn |->
                 IF t[1] = r /\ t[3] \in (IF t[2] = "build" THEN build ELSE review)
                 THEN NewTurn("wait", issue(t[2], t[3])) ELSE turn[t]]
            /\ to("gather") /\ UNCHANGED row
         \/ /\ review \cup build = {} /\ blocked # {}
            /\ row' = [c \in Card |-> IF c \in blocked THEN [row[c] EXCEPT !.status = "blocked"]
                                      ELSE row[c]]
            /\ to("read") /\ UNCHANGED turn
         \/ /\ review \cup build = {} /\ blocked = {}
            /\ Ends(r, "over")
            /\ UNCHANGED <<row, turn>>
      /\ UNCHANGED <<deps, earned>>

-----------------------------------------------------------------------------
(* A turn.  It ends by returning, by raising into gather, or by cancelling the *)
(* tasks of its session.                                                      *)

Sets(t, s) == row' = [row EXCEPT ![t[3]].status = s]
Becomes(t, new) == turn' = [turn EXCEPT ![t] = new]
Returns(t) == Becomes(t, NoTurn) /\ UNCHANGED run
Raises(t) == /\ Becomes(t, NoTurn)
             /\ IF run[t[1]].pc = "gather" THEN Ends(t[1], "over") ELSE UNCHANGED run

\* _cancel_runtime_tasks: the API registered the task of the run, whose gather
\* takes the other turns with it; nobody finalizes the run.  The CLI did not.
Cancels(t) ==
  \/ Raises(t)
  \/ /\ run[t[1]].pc = "gather"
     /\ Ends(t[1], "over")
     /\ turn' = [u \in Turn |-> IF u[1] = t[1] THEN NoTurn ELSE turn[u]]

\* _request_issue_transition and then what follows it; refused, it raises.
Requests(t, to, requeue, new) ==
  IF Accepts(turn[t].issue.status, to, requeue)
  THEN Sets(t, to) /\ Becomes(t, new) /\ UNCHANGED run
  ELSE Raises(t) /\ UNCHANGED row

SavesThen(t, issue, then) == [NewTurn("save", issue) EXCEPT !.then = then]

\* _semaphore_wrapper: a turn works once it has the semaphore of its run.
Begins(t) == /\ turn[t].pc = "wait"
             /\ Cardinality({u \in TurnsOf(t[1]) : turn[u].pc # "wait"}) < Concurrency
Prepares(t) == turn[t].pc = "prepare" \/ (Begins(t) /\ t[2] = "build")

\* The runtime verifier lets a review go on; verify_issue reads its row.
VerifierPasses(t) ==
  /\ Begins(t) /\ t[2] = "review"
  /\ Becomes(t, IF t[3] \in Verified
                THEN [turn[t] EXCEPT !.pc = "verify", !.held = row[t[3]]]
                ELSE [turn[t] EXCEPT !.pc = "prepare"])
  /\ UNCHANGED <<deps, row, run, earned>>

\* The runtime verifier fails: the card goes back for another build, or is
\* blocked (the retries are used up, or the failure repeats itself).
VerifierFails(t) ==
  LET issue == turn[t].issue
  IN  /\ Begins(t) /\ t[2] = "review"
      /\ \/ /\ GuardMayRetry(issue.retries)
            /\ Requests(t, "ready", TRUE,
                 SavesThen(t, [status |-> "ready", retries |-> issue.retries + 1], "stop"))
         \/ Requests(t, "blocked", FALSE,
                 SavesThen(t, [issue EXCEPT !.status = "blocked"], "stop"))
      /\ UNCHANGED <<deps, earned>>

\* The verification is over and verify_issue saves the row it read before.
VerifySaves(t) ==
  /\ turn[t].pc = "verify"
  /\ row' = [row EXCEPT ![t[3]] = turn[t].held]
  /\ Becomes(t, [turn[t] EXCEPT !.pc = "prepare", !.held = NewRow])
  /\ UNCHANGED <<deps, run, earned>>

TurnStatus(k) == IF k = "review" THEN "awaiting_guard_review" ELSE "in_progress"

\* prepare: the dispatch transition, skipped when a resumed card has that status;
\* a copy without an assignee is then saved with one, as a whole row.
Dispatch(t) ==
  LET issue == turn[t].issue
      ready == [turn[t] EXCEPT !.pc = "model", !.issue.status = TurnStatus(t[2])]
  IN  /\ Prepares(t)
      /\ IF run[t[1]].resume /\ issue.status = TurnStatus(t[2])
         THEN /\ row' \in {row, [row EXCEPT ![t[3]] = issue]}
              /\ Becomes(t, ready) /\ UNCHANGED run
         ELSE Requests(t, TurnStatus(t[2]), FALSE, ready)
      /\ UNCHANGED <<deps, earned>>

\* prepare stops: an invalid execution profile, or a seat the team lacks (the
\* guard's seat exists).
NotPrepared(t, to) ==
  /\ Prepares(t)
  /\ to = "canceled" => t[2] = "build"
  /\ Requests(t, to, FALSE, NoTurn)
  /\ UNCHANGED <<deps, earned>>

\* The role's asset is missing after the dispatch.
MissingRole(t) ==
  /\ turn[t].pc = "model" /\ turn[t].calls = 0 /\ ~turn[t].bad
  /\ Requests(t, "in_progress", FALSE, NoTurn)
  /\ UNCHANGED <<deps, earned>>

\* A mutation for the check of DoneIsEarned: the tool trusts the model.
ToolAllowsAny(t, s) == TRUE

\* The dispatcher's gate judges against the status of the turn, the tool
\* against the row.
ToolAllows(t, s) == /\ ValidTransition(TurnStatus(t[2]), s, t[2] = "review")
                    /\ ValidTransition(row[t[3]].status, s, t[2] = "review")

\* update_issue_status reads the row and decides ...
CallUpdateStatus(t, s) ==
  /\ turn[t].pc = "model" /\ turn[t].calls < MaxCalls
  /\ s \in (IF t[2] = "review" THEN GuardAsks ELSE BuilderAsks)
  /\ Becomes(t, IF ToolAllows(t, s)
                THEN [turn[t] EXCEPT !.pc = "tool", !.calls = @ + 1, !.held.status = s]
                ELSE [turn[t] EXCEPT !.calls = @ + 1, !.bad = TRUE])
  /\ UNCHANGED <<deps, row, run, earned>>

\* ... and writes the status.
WriteStatus(t) ==
  LET s == turn[t].held.status
  IN  /\ turn[t].pc = "tool"
      /\ Sets(t, s)
      /\ earned' = IF s = "done" THEN [earned EXCEPT ![t[3]] = IF t[2] = "review" THEN t[1] ELSE 0]
                   ELSE earned
      /\ Becomes(t, [turn[t] EXCEPT !.pc = "model", !.held = NewRow])
      /\ UNCHANGED <<deps, run>>

\* request_excuse asks nobody.
RequestExcuse(t) ==
  /\ turn[t].pc = "model" /\ turn[t].calls < MaxCalls
  /\ Sets(t, "waiting_for_developer")
  /\ Becomes(t, [turn[t] EXCEPT !.calls = @ + 1])
  /\ UNCHANGED <<deps, run, earned>>

\* OrchestratorFailureHandler for a failure that counts as an attempt.
CountsAttempt(t) ==
  LET issue == turn[t].issue
      next == issue.retries + 1
  IN  IF FailureAction(issue.retries) = "retry"
      THEN Requests(t, "ready", TRUE, SavesThen(t, [status |-> "ready", retries |-> next], "raise"))
      ELSE Requests(t, "blocked", FALSE,
                    SavesThen(t, [status |-> "blocked", retries |-> next], "cancel"))

\* The turn fails: a refused tool call or a broken contract blocks the card, a
\* pending approval saves it as it is, anything else is an attempt.
TurnFails(t) ==
  LET issue == turn[t].issue
  IN  /\ turn[t].pc = "model"
      /\ \/ Requests(t, "blocked", FALSE,
                     SavesThen(t, [issue EXCEPT !.status = "blocked"], "raise"))
         \/ /\ ~turn[t].bad
            /\ \/ CountsAttempt(t)
               \/ Becomes(t, SavesThen(t, issue, "raise")) /\ UNCHANGED <<row, run>>
      /\ UNCHANGED <<deps, earned>>

\* The whole row is written from the turn's copy.
SaveIssue(t) ==
  /\ turn[t].pc = "save"
  /\ row' = [row EXCEPT ![t[3]] = turn[t].issue]
  /\ CASE turn[t].then = "stop" -> Returns(t)
       [] turn[t].then = "raise" -> Raises(t)
       [] turn[t].then = "cancel" -> Cancels(t)
  /\ UNCHANGED <<deps, earned>>

\* The turn succeeds and OrchestratorTurnSuccessHandler rereads the row.  A rejection without a valid
\* payload is a failure after all; a build that changed nothing deploys the
\* sandbox and is then sent to review.
HandleSuccess(t) ==
  LET updated == row[t[3]].status
  IN  /\ turn[t].pc = "model" /\ ~turn[t].bad
      /\ \/ /\ t[2] = "review" /\ updated \in {"blocked", "guard_rejected"}
            /\ CountsAttempt(t)
         \/ /\ IF SendsToReview(turn[t].issue.status, updated, t[2])
               THEN Becomes(t, NewTurn("promote", turn[t].issue)) /\ UNCHANGED run
               ELSE Returns(t)
            /\ UNCHANGED row
      /\ UNCHANGED <<deps, earned>>

Promote(t) ==
  /\ turn[t].pc = "promote"
  /\ Requests(t, "code_review", FALSE, NoTurn)
  /\ UNCHANGED <<deps, earned>>

-----------------------------------------------------------------------------
RunStep(r) ==
  \/ PrepareCards(r) \/ ReadBacklog(r) \/ Exhaust(r) \/ Plan(r)

TurnStep(t) ==
  \/ VerifierPasses(t) \/ VerifierFails(t) \/ VerifySaves(t)
  \/ Dispatch(t) \/ (\E s \in {"blocked", "canceled"} : NotPrepared(t, s)) \/ MissingRole(t)
  \/ (\E s \in BuilderAsks \cup GuardAsks : CallUpdateStatus(t, s)) \/ WriteStatus(t) \/ RequestExcuse(t)
  \/ TurnFails(t) \/ SaveIssue(t) \/ HandleSuccess(t) \/ Promote(t)

Next == \/ \E r \in Run : RunStep(r)
        \/ \E r \in Run \ {1}, g \in Targets \cup {NoCard} : Start(r, g)
        \/ \E r \in Run : \E t \in TurnsOf(r) : TurnStep(t)

Spec == Init /\ [][Next]_vars

-----------------------------------------------------------------------------
\* execute_epic runs independent issues in parallel: while a build turn works on
\* its card, every card it depends on is done, unless tasks of another run of the
\* build are about or the run resumes a target, whose dependencies nobody looks at
\* when an earlier run left it in progress.
BuildOrder ==
  \A t \in Turn :
    /\ run[t[1]].alone /\ run[t[1]].target = NoCard /\ t[2] = "build"
    /\ turn[t].pc \in {"model", "tool", "promote"}
    => \A d \in deps[t[3]] : row[d].status = "done"

\* Nothing but a guard turn makes a card done, whatever stale row is saved; and
\* what is done under a run that has the build for itself and no target was
\* approved by a guard turn of that run, never by an earlier one.
DoneIsEarned ==
  \A c \in Card : row[c].status = "done" =>
    /\ earned[c] # 0
    /\ \A r \in Run : /\ run[r].alone /\ run[r].target = NoCard /\ Live(r)
                      /\ run[r].pc # "start"
                      => earned[c] = r

\* A run that has the build for itself and no target never exhausts the loop when
\* the bound allows a build and a review for every attempt at every card: the
\* retries of the guard cannot keep it busy.
NeverExhausts ==
  MaxIterations > 2 * (MaxRetries + 1) * Cardinality(Card)
    => \A r \in Run : run[r].alone /\ run[r].target = NoCard => run[r].pc # "exhausted"
=============================================================================
