---------------------------- MODULE RuntimeState ----------------------------
(***************************************************************************)
(* The status vocabulary of the durable agent runtime and the pure part of *)
(* close_runtime_state (backend/app/services/runtime_state.py): which      *)
(* status an AgentRun, its ConversationTurn and its BrainTask carry after  *)
(* a transition was requested.  State machines over these rows extend this *)
(* module and apply the operators to their own variables.                  *)
(***************************************************************************)

ActiveStatuses   == {"claimed", "waiting_predecessor", "queued", "running",
                     "retry_wait"}
PausedStatuses   == {"waiting_permission", "waiting_decision", "waiting_user"}
TerminalStatuses == {"completed", "blocked", "failed", "dead_letter",
                     "cancelled", "stopped"}
RunStatuses      == ActiveStatuses \cup PausedStatuses \cup TerminalStatuses

\* The runs of a BrainTask that count as executable when a follow-up arrives.
ActiveTaskRunStatuses == {"claimed", "queued", "running", "retry_wait"}

TurnStatuses == RunStatuses \ {"claimed", "waiting_predecessor"}
TaskStatuses == {"running", "pending_confirmation", "completed", "failed"}

\* First terminal wins: a terminal run keeps its status whatever is requested.
\* Fault: the requested status always wins.
LastRequestWins(current, requested) == requested
EffectiveStatus(current, requested) ==
  IF current \in TerminalStatuses THEN current ELSE requested

\* Only an active, executing run keeps its lease columns.
\* Faults: the short list of ends that release_agent_run_failure knows is used,
\* so a blocked or stopped run keeps the lease; a running run loses it.
ShortListKeepsLease(effective) ==
  effective \notin {"completed", "failed", "dead_letter", "cancelled"}
RunningLosesLease(effective) == effective \in {"claimed", "queued"}
KeepsLease(effective) == effective \in ActiveStatuses \ {"retry_wait"}

\* Fault: the turn shows a run that waits for its retry as running.
TurnStatusHidesRetry(effective) ==
  IF effective = "retry_wait" THEN "running" ELSE effective
TurnStatus(effective) ==
  IF effective \in {"claimed", "waiting_predecessor"} THEN "queued"
  ELSE effective

\* brain_task_status: a pause and a wait for a predecessor both project
\* "pending confirmation"; every unsuccessful end projects "failed", but a run
\* stopped over an ambiguous tool result is left to be confirmed.
TaskProjections(effective) ==
  CASE effective \in ActiveTaskRunStatuses                    -> {"running"}
    [] effective \in PausedStatuses \cup {"waiting_predecessor"}
                                                -> {"pending_confirmation"}
    [] effective = "completed"                                -> {"completed"}
    [] effective = "stopped"                -> {"failed", "pending_confirmation"}
    [] OTHER                                                  -> {"failed"}
=============================================================================
