------------------------ MODULE MCSandboxLifecycle ------------------------
(* Instances of SandboxLifecycle for TLC.                                   *)
EXTENDS SandboxLifecycle, TLC

CONSTANTS w1, w2, i1, i2

\* Two tasks in two orchestrator processes.
TwoProcesses == (w1 :> i1) @@ (w2 :> i2)

\* No operation is under way.
Quiet ==
  /\ reserved = TRUE
  /\ now = 0
  /\ alive = Instance
  /\ pc = [w \in Worker |-> "idle"]
  /\ snap = [w \in Worker |-> NoRecord]
  /\ seen = [w \in Worker |-> FALSE]
  /\ at = [w \in Worker |-> 0]
  /\ plan = [w \in Worker |-> NoOutcome]
  /\ ret = [w \in Worker |-> "idle"]

\* The state i1 leaves behind when create_sandbox succeeds: the record has been
\* saved, accepted, inventoried and verified (versions 1 to 4) and is running.
ActiveInit ==
  /\ Quiet
  /\ rec = [NewRecord(i1, 0) EXCEPT !.state = "active", !.inventory = TRUE,
                                    !.version = 4]
  /\ docker = "up"
  /\ dedupe = {Row("inventory", 2)}

\* The state it leaves behind when part of the project comes up and the start
\* fails: saved, accepted, evidenced and terminalized, without an inventory.
FailedInit ==
  /\ Quiet
  /\ rec = [NewRecord(i1, 0) EXCEPT !.state = "terminal",
                                    !.reason = "start_failed",
                                    !.evidence = TRUE, !.stamped = TRUE,
                                    !.due = CleanupTTL, !.version = 4]
  /\ docker = "degraded"
  /\ dedupe = {}

ActiveSpec == ActiveInit /\ [][Next]_vars
CreatedSpec == (ActiveInit \/ FailedInit) /\ [][Next]_vars
=============================================================================
