-------------------------- MODULE RunStateMachine --------------------------
(***************************************************************************)
(* The pure run state machine of code_forge.state_machine and the status   *)
(* vocabulary of code_forge.contracts: which status may follow which, and  *)
(* the run-level event that announces each step.  Nothing here persists    *)
(* anything; RunStore applies these operators inside its transactions.     *)
(***************************************************************************)

\* RunStatus, terminal statuses, and the two statuses that wait for somebody.
Statuses == {"QUEUED", "RUNNING", "WAITING_USER", "WAITING_EXTERNAL", "RECOVERING",
             "CANCELLING", "SUCCEEDED", "FAILED", "CANCELLED", "TIMED_OUT"}
TerminalStatuses == {"SUCCEEDED", "FAILED", "CANCELLED", "TIMED_OUT"}
WaitingStatuses  == {"WAITING_USER", "WAITING_EXTERNAL"}
ActiveStatuses   == Statuses \ TerminalStatuses

\* ALLOWED_TRANSITIONS.
AllowedTransitions(s) ==
    CASE s = "QUEUED"      -> {"RUNNING", "CANCELLING", "FAILED", "TIMED_OUT"}
      [] s = "RUNNING"     -> WaitingStatuses \cup {"RECOVERING", "CANCELLING"}
                                  \cup (TerminalStatuses \ {"CANCELLED"})
      [] s \in WaitingStatuses -> {"QUEUED", "CANCELLING", "FAILED", "TIMED_OUT"}
      [] s = "RECOVERING"  -> {"QUEUED", "WAITING_USER", "CANCELLING", "FAILED", "TIMED_OUT"}
      [] s = "CANCELLING"  -> {"CANCELLED"}
      [] OTHER             -> {}

\* The event transition() attaches to a step that reaches `target'.
EventTypeByName(target) ==                    \* fault: an event of its own for a timeout
    CASE target = "TIMED_OUT"        -> "run.timed_out"
      [] target \in TerminalStatuses -> "run.finished"
      [] target = "QUEUED"           -> "run.resumed"
      [] target = "RUNNING"          -> "run.started"
      [] target \in WaitingStatuses  -> "run.waiting"
      [] target = "RECOVERING"       -> "run.recovering"
      [] target = "CANCELLING"       -> "run.cancel_requested"
EventTypeOf(target) ==
    CASE target \in TerminalStatuses -> "run.finished"
      [] target = "QUEUED"           -> "run.resumed"
      [] target = "RUNNING"          -> "run.started"
      [] target \in WaitingStatuses  -> "run.waiting"
      [] target = "RECOVERING"       -> "run.recovering"
      [] target = "CANCELLING"       -> "run.cancel_requested"

\* The run-level events, and one type standing for every other event a worker
\* appends (skills, tools, model output): the state machine never looks at those.
RunEventTypes == {"run.accepted", "run.resumed", "run.started", "run.waiting",
                  "run.recovering", "run.cancel_requested", "run.finished"}
EventTypes == RunEventTypes \cup {"progress"}
=============================================================================
