----------------------------- MODULE CardWorkflow -----------------------------
(* The rules that decide what may happen to an issue card: its state machine,  *)
(* the transition service, the planner, the loop policy, the evaluator and the *)
(* guard's retry decision.  Constant operators only; a row is what the issues  *)
(* table keeps of a card that the scheduler looks at.                          *)
EXTENDS Naturals

CONSTANTS Card, NoCard,
          MaxRetries     \* max_retries of every card

ASSUME WorkflowAssumption == /\ NoCard \notin Card
                             /\ MaxRetries \in Nat

\* StateMachine._TRANSITIONS for CardType.ISSUE.
Transitions ==
  [ready |-> {"in_progress", "blocked", "canceled", "archived"},
   in_progress |-> {"blocked", "waiting_for_developer", "ready_for_testing",
                    "code_review", "canceled", "archived"},
   blocked |-> {"in_progress", "canceled", "archived"},
   waiting_for_developer |-> {"in_progress", "canceled", "archived"},
   ready_for_testing |-> {"code_review", "in_progress", "canceled", "archived"},
   code_review |-> {"done", "ready", "in_progress", "blocked", "ready_for_testing",
                    "awaiting_guard_review", "guard_approved", "guard_rejected",
                    "guard_requested_changes", "archived"},
   awaiting_guard_review |-> {"guard_approved", "guard_rejected",
                              "guard_requested_changes", "done", "blocked", "archived"},
   guard_requested_changes |-> {"in_progress", "code_review", "awaiting_guard_review",
                                "canceled", "archived"},
   guard_rejected |-> {"blocked", "in_progress", "canceled", "archived"},
   guard_approved |-> {"done", "archived"},
   done |-> {"archived"},
   canceled |-> {"archived"},
   archived |-> {}]

CardStatus == DOMAIN Transitions

\* The decisions that only a turn with the integrity_guard role may make.
GuardOnly == {"done", "guard_approved", "guard_rejected", "guard_requested_changes"}

\* StateMachine.validate_transition; a wait reason comes with the request.
ValidTransition(from, to, guard) == to \in Transitions[from] /\ (to \in GuardOnly => guard)

\* _request_issue_transition: the seat's roles first, then system_set_status,
\* which the same table judges but for the requeue of a retry.
Accepts(from, to, requeue) ==
  \/ from = to
  \/ ValidTransition(from, to, FALSE)
  \/ requeue /\ from = "in_progress" /\ to = "ready"

Row == [status : CardStatus, retries : Nat]
NewRow == [status |-> "ready", retries |-> 0]

-----------------------------------------------------------------------------
\* The statuses in which a card needs no more work.
WorkflowTerminal == {"done", "canceled", "archived", "blocked", "guard_rejected", "guard_approved"}

\* A mutation for the check of BuildOrder: a dependency that ended is enough.
IndependentReadyTerminal(rows, deps) ==
  {c \in Card : /\ rows[c].status = "ready"
                /\ \A d \in deps[c] : rows[d].status \in WorkflowTerminal}

\* get_independent_ready_issues
IndependentReady(rows, deps) ==
  {c \in Card : /\ rows[c].status = "ready"
                /\ \A d \in deps[c] : rows[d].status = "done"}

\* DefaultPlannerNode.plan: the cards to review, from the backlog as it was read,
\* and the cards to build, from the second read.  A target runs alone.
InReview(backlog, target) ==
  {c \in Card : backlog[c].status = "code_review" /\ target \in {NoCard, c}}

ToBuild(backlog, ready, target) ==
  IF target = NoCard THEN ready
  ELSE {c \in {target} : \/ backlog[c].status \in {"in_progress", "awaiting_guard_review"}
                         \/ backlog[c].status = "ready" /\ c \in ready}

\* _propagate_dependency_blocks
DependencyBlocked(backlog, deps) ==
  {c \in Card : /\ backlog[c].status = "ready"
                /\ \E d \in deps[c] :
                     backlog[d].status \in {"blocked", "canceled", "guard_rejected"}}

\* is_backlog_done
BacklogDone(rows) == \A c \in Card : rows[c].status \in WorkflowTerminal

\* The rows a stalled run left for _resume_stalled_issues.
Stalled == {"in_progress", "code_review", "awaiting_guard_review"}

-----------------------------------------------------------------------------
\* A mutation for the check of NeverExhausts: the retry limit is not enforced.
GuardMayRetryAlways(retries) == MaxRetries > 0

\* GuardController.decide after a failed verification: another attempt, while
\* there is one left.
GuardMayRetry(retries) == retries < MaxRetries

\* evaluate_failure, where a failure counts as an attempt.
FailureAction(retries) == IF retries + 1 > MaxRetries THEN "catastrophic" ELSE "retry"

\* evaluate_success and success_post_actions: a build turn that left the status
\* as it was sends its card to review.
SendsToReview(issue, updated, kind) ==
  updated = issue /\ (updated = "code_review" \/ kind = "build")
=============================================================================
