------------------------------ MODULE AgentRuns ------------------------------
(***************************************************************************)
(* The durable lifecycle of an AgentRun: submission by the API, delivery   *)
(* through the Redis queue, leases and heartbeats of the workers, retries, *)
(* cancellation, interrupts, serialisation of the runs of one BrainTask,   *)
(* and the recovery scan.                                                  *)
(*                                                                         *)
(* Every service function of backend/app/services/agent_runs.py is one     *)
(* database transaction under the run's advisory gate, so it is one        *)
(* action.  What lies between two transactions of one process (a worker    *)
(* between acquiring and closing a run, the API between claiming and       *)
(* queueing it) is a local state of that process, and it may crash there.  *)
(*                                                                         *)
(* Three kinds of run share the rows:                                      *)
(*   Turns      one conversation turn; it binds a task while it executes   *)
(*   Revisions  a supplement to a running turn; task mode, bound at birth  *)
(*   Messages   a follow-up sent to an existing task through /brain/       *)
(*              messages; task mode, executed after an inline preparation  *)
(***************************************************************************)
EXTENDS Naturals, FiniteSets, RuntimeState

CONSTANTS
  Turns, Revisions, Messages,  \* run ids by kind; ids grow in creation order
  Tasks,                       \* BrainTask rows
  TaskOf,                      \* the task a run is, or will be, bound to
  Workers,                     \* execution identities "hostname:job_id"
  NoWorker, NoRun,
  MaxAttempts,                 \* AgentRun.max_attempts
  MaxJobs,                     \* bound: queued Redis jobs per run
  MaxSkills,                   \* bound: SkillRuns of one turn
  Budget,                      \* bound: crashes, stalls, losses, resumptions
  TurnOutcomes, TaskOutcomes,  \* what an execution may report
  Failures                     \* exceptions the environment raises in it

Runs == Turns \cup Revisions \cup Messages

ASSUME RunsAssumption ==
  /\ Runs \subseteq Nat
  /\ Turns \cap Revisions = {} /\ Turns \cap Messages = {}
  /\ Revisions \cap Messages = {}
  /\ TaskOf \in [Runs -> Tasks]
ASSUME WorkersAssumption == NoWorker \notin Workers /\ NoRun \notin Runs
ASSUME BoundsAssumption ==
  /\ MaxAttempts \in Nat \ {0} /\ MaxJobs \in Nat \ {0}
  /\ MaxSkills \in Nat /\ Budget \in Nat
\* Only the release of a failed run declares it dead.
ASSUME OutcomesAssumption ==
  /\ TurnOutcomes \subseteq (PausedStatuses \cup TerminalStatuses) \ {"dead_letter"}
  /\ TaskOutcomes \subseteq ({"running"} \cup PausedStatuses \cup TerminalStatuses)
                               \ {"dead_letter"}
  /\ Failures \subseteq {"retryable", "terminal"}

VARIABLES
  status, owner, lease, retry, attempt, cancel, bound,  \* agent_runs columns
  skills,      \* SkillRuns created for the run, the root first
  turn,        \* status of the run's ConversationTurn, "none" without one
  task,        \* BrainTask status
  interrupt,   \* the run's latest TurnInterrupt
  jobs,        \* Redis jobs for the run, delivered at least once or lost
  api,         \* progress of the API request that submits a message
  pc, job, stamp, \* a worker's step, its run and the attempt it acquired
  result,      \* the status a skill returned to the worker, not yet recorded
  budget

rowVars    == <<status, owner, lease, retry, attempt, cancel, bound, skills>>
ledgerVars == <<turn, task, interrupt>>
workerVars == <<pc, job, stamp, result>>
vars == <<rowVars, ledgerVars, jobs, api, workerVars, budget>>

Recorded(r) == status[r] # "absent"
TurnMode(r) == r \in Turns
\* A turn may be executed by a skill, a revision always is.
SkillMode(r) == r \in Turns \cup Revisions
Executes(w, r) == pc[w] # "idle" /\ job[w] = r
SameTask(r, s) == bound[r] /\ bound[s] /\ TaskOf[r] = TaskOf[s]

Init ==
  /\ status    = [r \in Runs |-> "absent"]
  /\ owner     = [r \in Runs |-> NoWorker]
  /\ lease     = [r \in Runs |-> "none"]
  /\ retry     = [r \in Runs |-> "none"]
  /\ attempt   = [r \in Runs |-> 0]
  /\ cancel    = [r \in Runs |-> FALSE]
  /\ bound     = [r \in Runs |-> FALSE]
  /\ skills    = [r \in Runs |-> 0]
  /\ turn      = [r \in Runs |-> "none"]
  /\ task      = [t \in Tasks |-> "pending_confirmation"]
  /\ interrupt = [r \in Runs |-> "none"]
  /\ jobs      = [r \in Runs |-> 0]
  /\ api       = [r \in Runs |-> "idle"]
  /\ pc        = [w \in Workers |-> "idle"]
  /\ job       = [w \in Workers |-> NoRun]
  /\ stamp     = [w \in Workers |-> 0]
  /\ result    = [w \in Workers |-> "none"]
  /\ budget    = Budget

Spend == budget > 0 /\ budget' = budget - 1

\* Redis accepts the job, or the call fails and the error is only logged.
Enqueue(r) == \/ jobs' = jobs
              \/ jobs[r] < MaxJobs /\ jobs' = [jobs EXCEPT ![r] = @ + 1]

(***************************************************************************)
(* close_runtime_state: the run, its turn and its task move together.      *)
(* `own', `lse' and `rty' are the lease and retry columns the caller wrote *)
(* in the same transaction before closing.                                 *)
(***************************************************************************)
Close(r, requested, own, lse, rty) ==
  LET eff == EffectiveStatus(status[r], requested) IN
  /\ status' = [status EXCEPT ![r] = eff]
  /\ owner'  = [owner  EXCEPT ![r] = IF KeepsLease(eff) THEN own ELSE NoWorker]
  /\ lease'  = [lease  EXCEPT ![r] = IF KeepsLease(eff) THEN lse ELSE "none"]
  /\ retry'  = [retry  EXCEPT ![r] = IF eff \in TerminalStatuses THEN "none"
                                     ELSE rty]
  /\ turn'   = [turn   EXCEPT ![r] = IF @ = "none" THEN @ ELSE TurnStatus(eff)]
  /\ \E projected \in TaskProjections(eff) :
       task' = IF bound[r] THEN [task EXCEPT ![TaskOf[r]] = projected] ELSE task

CloseAs(r, requested) == Close(r, requested, owner[r], lease[r], retry[r])

\* The columns mark_agent_run_queued_record and its siblings reset.
Queued(r, st) ==
  /\ status' = [status EXCEPT ![r] = st]
  /\ owner'  = [owner  EXCEPT ![r] = NoWorker]
  /\ lease'  = [lease  EXCEPT ![r] = "none"]
  /\ retry'  = [retry  EXCEPT ![r] = "none"]

\* Runs of r's task that a follow-up r has to wait for.
Blockers(r) ==
  {s \in Runs \ {r} : /\ bound[s] /\ TaskOf[s] = TaskOf[r]
                      /\ status[s] \in ActiveTaskRunStatuses
                                        \cup {"waiting_predecessor"}}
-----------------------------------------------------------------------------
(* Submission of conversation turns and of revisions                       *)

\* The turn and its queued run are one transaction, then the run is enqueued.
SubmitTurn(r) ==
  /\ r \in Turns /\ ~Recorded(r)
  /\ Queued(r, "queued")
  /\ turn' = [turn EXCEPT ![r] = "queued"]
  /\ Enqueue(r)
  /\ UNCHANGED <<attempt, cancel, bound, skills, task, interrupt, api, workerVars, budget>>

(***************************************************************************)
(* A supplement to a live skill turn s creates a revision run r on the     *)
(* same task, with its root SkillRun.  A source that waits for the         *)
(* approval of its package is superseded: it is stopped in the same        *)
(* transaction.  The steering turn is already completed by its control run.*)
(***************************************************************************)
Supplement(r, s) ==
  LET superseded == status[s] = "waiting_permission"
      st == IF Blockers(r) = {} THEN "queued" ELSE "waiting_predecessor"
  IN
  /\ bound[s] /\ TaskOf[s] = TaskOf[r] /\ skills[s] > 0
  /\ status[s] \notin TerminalStatuses
  /\ status' = [status EXCEPT ![r] = st,
                              ![s] = IF superseded THEN "stopped" ELSE status[s]]
  /\ cancel' = [cancel EXCEPT ![s] = @ \/ superseded]
  /\ owner'  = [owner  EXCEPT ![s] = IF superseded THEN NoWorker ELSE @]
  /\ lease'  = [lease  EXCEPT ![s] = IF superseded THEN "none" ELSE @]
  /\ retry'  = [retry  EXCEPT ![s] = IF superseded THEN "none" ELSE @]
  /\ turn'   = [turn   EXCEPT ![r] = "completed",
                              ![s] = IF superseded THEN "stopped" ELSE turn[s]]
  /\ interrupt' = [interrupt EXCEPT ![s] = IF superseded /\ @ = "pending"
                                           THEN "superseded" ELSE @]
  /\ IF st = "queued" THEN Enqueue(r) ELSE UNCHANGED jobs

SubmitRevision(r) ==
  /\ r \in Revisions /\ ~Recorded(r)
  /\ \E s \in Turns : Supplement(r, s)
  /\ bound'  = [bound EXCEPT ![r] = TRUE]
  /\ skills' = [skills EXCEPT ![r] = 1]
  /\ UNCHANGED <<attempt, task, api, workerVars, budget>>
-----------------------------------------------------------------------------
(* Submission of a follow-up message to an existing task                   *)

ClaimMessage(r) ==
  /\ r \in Messages /\ ~Recorded(r)
  /\ status' = [status EXCEPT ![r] = "claimed"]
  /\ api'    = [api EXCEPT ![r] = "claimed"]
  /\ UNCHANGED <<owner, lease, retry, attempt, cancel, bound, skills, ledgerVars, jobs,
                 workerVars, budget>>

\* Behind an executable or waiting run of the task the message only waits.
QueueBehind(r) ==
  /\ api[r] = "claimed"
  /\ IF Blockers(r) # {}
     THEN /\ Queued(r, "waiting_predecessor")
          /\ bound' = [bound EXCEPT ![r] = TRUE]
          /\ api'   = [api EXCEPT ![r] = "behind"]
     ELSE /\ api'   = [api EXCEPT ![r] = "free"]
          /\ UNCHANGED <<status, owner, lease, retry, bound>>
  /\ UNCHANGED <<attempt, cancel, skills, ledgerVars, jobs, workerVars, budget>>

\* Otherwise the API prepares it inline, "running" without a lease.
StartInline(r) ==
  /\ api[r] = "free"
  /\ status' = [status EXCEPT ![r] = "running"]
  /\ api'    = [api EXCEPT ![r] = "inline"]
  /\ UNCHANGED <<owner, lease, retry, attempt, cancel, bound, skills, ledgerVars, jobs,
                 workerVars, budget>>

\* The preparation binds the run, classifies the message and restarts the task.
BindTask(r) ==
  /\ api[r] = "inline"
  /\ bound' = [bound EXCEPT ![r] = TRUE]
  /\ api'   = [api EXCEPT ![r] = "bound"]
  /\ UNCHANGED <<status, owner, lease, retry, attempt, cancel, skills, ledgerVars,
                 jobs, workerVars, budget>>

RestartTask(r) ==
  /\ api[r] = "bound"
  /\ task'  = [task EXCEPT ![TaskOf[r]] = "running"]
  /\ api'   = [api EXCEPT ![r] = "prepared"]
  /\ UNCHANGED <<rowVars, turn, interrupt, jobs, workerVars, budget>>

\* mark_agent_run_queued has no guard on the current status.
MarkQueued(r) ==
  /\ api[r] = "prepared"
  /\ Queued(r, "queued")
  /\ Enqueue(r)
  /\ api' = [api EXCEPT ![r] = "idle"]
  /\ UNCHANGED <<attempt, cancel, bound, skills, ledgerVars, workerVars, budget>>

\* An exception of the preparation is released as a terminal failure.
InlineFails(r) ==
  /\ Failures # {}
  /\ api[r] \in {"inline", "bound", "prepared"}
  /\ api' = [api EXCEPT ![r] = "idle"]
  /\ IF status[r] \in {"failed", "dead_letter", "cancelled", "completed"}
     THEN UNCHANGED <<status, owner, lease, retry, turn, task>>
     ELSE CloseAs(r, "failed")
  /\ UNCHANGED <<attempt, cancel, bound, skills, interrupt, jobs, workerVars, budget>>

ApiCrash(r) ==
  /\ api[r] \in {"claimed", "free", "inline", "bound", "prepared"}
  /\ Spend
  /\ api' = [api EXCEPT ![r] = "idle"]
  /\ UNCHANGED <<rowVars, ledgerVars, jobs, workerVars>>
-----------------------------------------------------------------------------
(* User control                                                            *)

\* STOP and REPLACE_GOAL steering, and the legacy generation stop, only mark.
RequestCancel(r) ==
  /\ Recorded(r) /\ status[r] \notin TerminalStatuses /\ ~cancel[r]
  /\ cancel' = [cancel EXCEPT ![r] = TRUE]
  /\ UNCHANGED <<status, owner, lease, retry, attempt, bound, skills, ledgerVars, jobs,
                 api, workerVars, budget>>

\* The stop button of a turn closes it at once and cancels its interrupt.
RequestStop(r) ==
  /\ r \in Turns \cup Revisions /\ Recorded(r)
  /\ cancel'    = [cancel EXCEPT ![r] = TRUE]
  /\ interrupt' = [interrupt EXCEPT ![r] = IF @ = "pending" THEN "cancelled"
                                           ELSE @]
  /\ CloseAs(r, "stopped")
  /\ UNCHANGED <<attempt, bound, skills, jobs, api, workerVars, budget>>

\* Answering a clarification re-queues the run in place, whatever its status,
\* and forgets a cancellation that was requested meanwhile.
ResolveInterrupt(r) ==
  /\ interrupt[r] = "pending"
  /\ Spend
  /\ interrupt' = [interrupt EXCEPT ![r] = "resolved"]
  /\ Queued(r, "queued")
  /\ cancel' = [cancel EXCEPT ![r] = FALSE]
  /\ turn'   = [turn EXCEPT ![r] = "queued"]
  /\ task'   = IF bound[r] THEN [task EXCEPT ![TaskOf[r]] = "running"] ELSE task
  /\ Enqueue(r)
  /\ UNCHANGED <<attempt, bound, skills, api, workerVars>>

\* resume_composite_parent queues the run of a waiting composite skill, and
\* leaves it to the scan to find it.
ResumeParent(r) ==
  /\ Queued(r, "queued")
  /\ turn' = [turn EXCEPT ![r] = "queued"]
  /\ task' = [task EXCEPT ![TaskOf[r]] = "running"]

\* The artifact for which a composite skill waits is accepted.
AcceptArtifact(r) ==
  /\ SkillMode(r) /\ skills[r] > 0 /\ status[r] \in PausedStatuses
  /\ Spend
  /\ ResumeParent(r)
  /\ UNCHANGED <<attempt, cancel, bound, skills, interrupt, jobs, api, workerVars>>

(***************************************************************************)
(* The decision on a package is an interrupt that is requested and         *)
(* resolved in one transaction.  It completes the skill of a paused run or *)
(* resumes the parent of that skill; a parent that did not pause yet only  *)
(* has its run paused; a rejection blocks the run.                         *)
(***************************************************************************)
DecidePackage(r) ==
  /\ SkillMode(r) /\ skills[r] > 0 /\ interrupt[r] # "pending"
  /\ Spend
  /\ interrupt' = [interrupt EXCEPT ![r] = "resolved"]
  /\ \/ /\ status[r] \in PausedStatuses
        /\ ResumeParent(r) \/ \E st \in {"completed", "blocked"} : CloseAs(r, st)
     \/ /\ skills[r] > 1 /\ status[r] \in ActiveStatuses
        /\ \E st \in {"waiting_permission", "blocked"} : CloseAs(r, st)
  /\ UNCHANGED <<attempt, cancel, bound, skills, jobs, api, workerVars>>
-----------------------------------------------------------------------------
(* Delivery of a job to a worker: acquire_agent_run                        *)

Delivered(w, r) ==
  /\ pc[w] = "idle" /\ jobs[r] > 0
  /\ jobs' = [jobs EXCEPT ![r] = @ - 1]

\* Refused: finished, not yet due, or leased to another live identity.
Refused(w, r) ==
  \/ status[r] \in {"completed", "cancelled", "dead_letter", "failed"}
  \/ status[r] = "retry_wait" /\ retry[r] = "later"
  \/ status[r] = "running" /\ owner[r] # w /\ lease[r] = "live"

\* A cancelled run is closed instead of started.
CloseCancelled(r) ==
  /\ cancel[r]
  /\ CloseAs(r, "cancelled")
  /\ UNCHANGED <<attempt, cancel, bound, skills, interrupt>>

\* Fault: a takeover of an expired lease continues the old attempt number.
NextAttemptOfFreshLease(r) == IF lease[r] = "expired" THEN attempt[r]
                              ELSE attempt[r] + 1
NextAttempt(r) == attempt[r] + 1

Take(w, r, step) ==
  /\ ~cancel[r] /\ ~Refused(w, r)
  /\ attempt' = [attempt EXCEPT ![r] = NextAttempt(r)]
  /\ Close(r, "running", w, "live", "none")
  /\ pc'    = [pc    EXCEPT ![w] = step]
  /\ job'   = [job   EXCEPT ![w] = r]
  /\ stamp' = [stamp EXCEPT ![w] = NextAttempt(r)]
  /\ UNCHANGED <<cancel, bound, skills, interrupt, result>>

AcquireCancelled(w, r) ==
  /\ Delivered(w, r)
  /\ CloseCancelled(r)
  /\ UNCHANGED <<api, workerVars, budget>>

AcquireRefused(w, r) ==
  /\ Delivered(w, r)
  /\ ~cancel[r] /\ Refused(w, r)
  /\ UNCHANGED <<rowVars, ledgerVars, api, workerVars, budget>>

Acquire(w, r) ==
  /\ Delivered(w, r)
  /\ Take(w, r, "running")
  /\ UNCHANGED <<api, budget>>

\* The loop renews the lease of the run it still owns, an expired one too.
Heartbeat(w) ==
  /\ pc[w] # "idle"
  /\ status[job[w]] = "running" /\ owner[job[w]] = w /\ lease[job[w]] = "expired"
  /\ lease' = [lease EXCEPT ![job[w]] = "live"]
  /\ UNCHANGED <<status, owner, retry, attempt, cancel, bound, skills, ledgerVars, jobs,
                 api, workerVars, budget>>
-----------------------------------------------------------------------------
(* Execution.  No step checks that the worker still holds the lease.       *)

\* Fault: the job slot is not emptied.
IdleKeepsJob(w) == /\ pc' = [pc EXCEPT ![w] = "idle"]
                   /\ result' = [result EXCEPT ![w] = "none"]
                   /\ UNCHANGED <<job, stamp>>

Idle(w) == /\ pc'     = [pc     EXCEPT ![w] = "idle"]
           /\ job'    = [job    EXCEPT ![w] = NoRun]
           /\ stamp'  = [stamp  EXCEPT ![w] = 0]
           /\ result' = [result EXCEPT ![w] = "none"]

At(w, step) == /\ pc'     = [pc     EXCEPT ![w] = step]
               /\ result' = [result EXCEPT ![w] = "none"]
               /\ UNCHANGED <<job, stamp>>

\* A message promoted after waiting runs "prepare_and_start"; that path raises
\* after it bound and restarted the task, because it is no regeneration.
CannotPrepare(r) == api[r] = "behind"
\* A root SkillRun is not created for a run that was closed meanwhile.
CannotStartSkill(r) == TurnMode(r) /\ skills[r] = 0 /\ status[r] \in TerminalStatuses

InSkill(w) == pc[w] \in {"running", "work"} /\ SkillMode(job[w])

With(w, step, st) == /\ pc'     = [pc     EXCEPT ![w] = step]
                     /\ result' = [result EXCEPT ![w] = st]
                     /\ UNCHANGED <<job, stamp>>

\* skill_runtime.execute returns; only for a turn that still runs its caller
\* has nothing to record.
Return(w, st) == IF TurnMode(job[w]) /\ st = "running" THEN Idle(w)
                 ELSE With(w, "report", st)

\* An operation turn creates its task, a retried one finds it.
StartTask(w) ==
  /\ pc[w] = "running" /\ TurnMode(job[w]) /\ ~bound[job[w]]
  /\ bound' = [bound EXCEPT ![job[w]] = TRUE]
  /\ task'  = [task EXCEPT ![TaskOf[job[w]]] = "running"]
  /\ At(w, "work")
  /\ UNCHANGED <<status, owner, lease, retry, attempt, cancel, skills, turn, interrupt,
                 jobs, api, budget>>

Holds(w, r) == status[r] = "running" /\ owner[r] = w

(***************************************************************************)
(* A skill turn creates its root SkillRun, and a composite skill of a turn *)
(* or a revision its children, under the run's lock.  Creation checks that *)
(* the run is not terminal, not who leases it, and writes lease and        *)
(* attempt like an acquisition.  A child leaves the run's status alone.    *)
(***************************************************************************)
CreatesSkill(w, r) ==
  /\ job[w] = r /\ status[r] \notin TerminalStatuses
  /\ skills[r] < MaxSkills
  /\ skills'  = [skills  EXCEPT ![r] = @ + 1]
  /\ attempt' = [attempt EXCEPT ![r] = @ + 1]
  /\ stamp'   = [stamp   EXCEPT ![w] = attempt[r] + 1]
  /\ owner'   = [owner   EXCEPT ![r] = w]
  /\ lease'   = [lease   EXCEPT ![r] = "live"]
  /\ retry'   = [retry   EXCEPT ![r] = "none"]
  /\ pc'      = [pc      EXCEPT ![w] = "work"]
  /\ UNCHANGED <<cancel, interrupt, jobs, api, job, result, budget>>

StartSkill(w) ==
  LET r == job[w] IN
  /\ pc[w] = "running" /\ TurnMode(r) /\ skills[r] = 0
  /\ CreatesSkill(w, r)
  /\ status' = [status EXCEPT ![r] = "running"]
  /\ turn'   = [turn   EXCEPT ![r] = "running"]
  /\ bound'  = [bound  EXCEPT ![r] = TRUE]
  /\ task'   = [task   EXCEPT ![TaskOf[r]] = "running"]

StartChildSkill(w) ==
  /\ pc[w] = "work" /\ SkillMode(job[w]) /\ skills[job[w]] > 0
  /\ CreatesSkill(w, job[w])
  /\ UNCHANGED <<status, bound, turn, task>>

\* What a SkillRun says of a run with that status; its output keeps the pauses
\* apart that its row does not.
SkillStatuses == ({"running", "retry_wait"} \cup PausedStatuses \cup TerminalStatuses)
                   \ {"dead_letter"}
SkillSays(st) == CASE st = "dead_letter"      -> "failed"
                   [] st \in SkillStatuses    -> st
                   [] OTHER                   -> "running"

\* What the row of the root says: what the run's last closure made of it, or
\* of a child of it, or the pause whose report it still has.
RootSays(r) == {SkillSays(status[r])}
                 \cup (IF skills[r] > 1 THEN {"running"} ELSE {})
                 \cup (TurnOutcomes \cap PausedStatuses)

\* A recovered skill goes on with the lease its worker has.
Resume(w) ==
  /\ pc[w] = "running" /\ SkillMode(job[w]) /\ skills[job[w]] > 0
  /\ Holds(w, job[w])
  /\ At(w, "work")
  /\ UNCHANGED <<rowVars, ledgerVars, jobs, api, budget>>

\* One that lost the lease meanwhile acquires the run again, or leaves it to
\* whoever has it.
Reacquire(w) ==
  LET r == job[w] IN
  /\ pc[w] = "running" /\ SkillMode(r) /\ skills[r] > 0 /\ ~Holds(w, r)
  /\ \/ Take(w, r, "work")
     \/ /\ CloseCancelled(r)
        /\ Return(w, SkillSays(EffectiveStatus(status[r], "cancelled")))
     \/ /\ ~cancel[r] /\ Refused(w, r)
        /\ \E st \in RootSays(r) : Return(w, st)
        /\ UNCHANGED <<rowVars, ledgerVars>>
  /\ UNCHANGED <<jobs, api, budget>>

(***************************************************************************)
(* A skill whose heartbeat fails closes nothing and returns what its row   *)
(* says.  Of a composite skill only the children have heartbeats; their    *)
(* parent takes the answer for its own, unless another executor finished   *)
(* the child meanwhile: then it goes on.                                   *)
(***************************************************************************)
LoseSkillLease(w) ==
  LET r == job[w] IN
  /\ pc[w] = "work" /\ ~Holds(w, r)
  /\ \/ skills[r] = 1 /\ TurnMode(r) /\ \E st \in RootSays(r) : Return(w, st)
     \/ /\ skills[r] > 1 /\ status[r] \notin PausedStatuses \cup {"queued"}
        /\ With(w, "close", SkillSays(status[r]))
  /\ UNCHANGED <<rowVars, ledgerVars, jobs, api, budget>>

\* The parent closes the run with the status of the child that lost the lease.
CloseParent(w) ==
  LET r == job[w] IN
  /\ pc[w] = "close"
  /\ CloseAs(r, result[w])
  /\ Return(w, SkillSays(EffectiveStatus(status[r], result[w])))
  /\ UNCHANGED <<attempt, cancel, bound, skills, interrupt, jobs, api, budget>>

\* A skill closes the ledgers of its run and returns the status they took; a
\* turn without a skill closes them and is over.
FinishTurn(w, st) ==
  LET r == job[w] IN
  /\ InSkill(w)
  /\ CloseAs(r, st)
  /\ IF skills[r] > 0 THEN Return(w, SkillSays(EffectiveStatus(status[r], st)))
     ELSE Idle(w)
  /\ UNCHANGED <<attempt, cancel, bound, skills, interrupt, jobs, api, budget>>

RequestInterrupt(w) ==
  LET r == job[w] IN
  /\ InSkill(w) /\ TurnMode(r)
  /\ interrupt[r] # "pending"
  /\ interrupt' = [interrupt EXCEPT ![r] = "pending"]
  /\ CloseAs(r, "waiting_user")
  /\ IF skills[r] > 0 THEN Return(w, SkillSays(EffectiveStatus(status[r], "waiting_user")))
     ELSE Idle(w)
  /\ UNCHANGED <<attempt, cancel, bound, skills, jobs, api, budget>>

\* complete_agent_run of a message, or of a revision that had nothing to
\* execute.  The graph of a message that ended without an outcome reports
\* "running".
Complete(w, st) ==
  LET r == job[w] IN
  /\ pc[w] = "running" /\ ~TurnMode(r) /\ ~CannotPrepare(r)
  /\ r \in Revisions => st \in TerminalStatuses
  /\ IF st = "running" THEN Spend ELSE UNCHANGED budget
  /\ CloseAs(r, st)
  /\ At(w, "promote")
  /\ UNCHANGED <<attempt, cancel, bound, skills, interrupt, jobs, api>>

\* The caller of a skill closes the run again, with the status it was
\* returned, whatever happened to the run since.
ReportResult(w) ==
  /\ pc[w] = "report"
  /\ CloseAs(job[w], result[w])
  /\ IF TurnMode(job[w]) THEN Idle(w) ELSE At(w, "promote")
  /\ UNCHANGED <<attempt, cancel, bound, skills, interrupt, jobs, api, budget>>

Waiting(t) == {r \in Runs : bound[r] /\ TaskOf[r] = t
                            /\ status[r] = "waiting_predecessor"}
Busy(t) == \E r \in Runs : /\ bound[r] /\ TaskOf[r] = t
                           /\ status[r] \in ActiveTaskRunStatuses
\* Fault: the newest waiting follow-up is promoted.
Newest(S) == CHOOSE r \in S : \A s \in S : r >= s
Oldest(S) == CHOOSE r \in S : \A s \in S : r <= s

\* promote_next_waiting_agent_run: the oldest follow-up of an idle task.
Promote(w) ==
  /\ pc[w] = "promote"
  /\ LET t == TaskOf[job[w]] IN
     IF Busy(t) \/ Waiting(t) = {}
     THEN UNCHANGED <<status, owner, lease, retry, jobs>>
     ELSE Queued(Oldest(Waiting(t)), "queued") /\ Enqueue(Oldest(Waiting(t)))
  /\ Idle(w)
  /\ UNCHANGED <<attempt, cancel, bound, skills, ledgerVars, api, budget>>

Disposition(w, kind) ==
  \/ kind \in Failures
  \/ /\ kind = "terminal" /\ pc[w] = "running"
     /\ CannotPrepare(job[w]) \/ CannotStartSkill(job[w])

\* Fault: the attempt that used up the budget is retried once more.
AttemptsLeftInclusive(r) == attempt[r] <= MaxAttempts
AttemptsLeft(r) == attempt[r] < MaxAttempts

\* release_agent_run_failure after an exception anywhere in the job.
Release(w, kind) ==
  LET r == job[w]
      ended == status[r] \in {"failed", "dead_letter", "cancelled", "completed"}
      retries == kind = "retryable" /\ ~ended /\ AttemptsLeft(r)
  IN
  /\ pc[w] \in {"running", "work", "close", "report", "promote"}
  /\ Disposition(w, kind)
  /\ CASE ended   -> UNCHANGED <<status, owner, lease, retry, turn, task>>
       [] retries -> Close(r, "retry_wait", owner[r], lease[r], "later")
       [] OTHER   -> CloseAs(r, IF kind = "terminal" THEN "failed"
                                ELSE "dead_letter")
  /\ IF retries THEN Enqueue(r) ELSE UNCHANGED jobs
  /\ Idle(w)
  /\ UNCHANGED <<attempt, cancel, bound, skills, interrupt, api, budget>>

\* asyncio.CancelledError: an abort, a cancel marker seen at a kernel
\* boundary, a job timeout or the shutdown of the worker process.
Interrupted(w) ==
  /\ pc[w] \in {"running", "work", "close", "report", "promote"}
  /\ cancel[job[w]] \/ budget > 0
  /\ budget' = IF cancel[job[w]] THEN budget ELSE budget - 1
  /\ CloseAs(job[w], "cancelled")
  /\ IF TurnMode(job[w]) THEN Idle(w) ELSE At(w, "stopping")
  /\ UNCHANGED <<attempt, cancel, bound, skills, interrupt, jobs, api>>

\* record_generation_stopped completes the task of the cancelled run.
RecordStopped(w) ==
  /\ pc[w] = "stopping"
  /\ task' = [task EXCEPT ![TaskOf[job[w]]] = "completed"]
  /\ Idle(w)
  /\ UNCHANGED <<rowVars, turn, interrupt, jobs, api, budget>>
-----------------------------------------------------------------------------
(* Time, faults and the recovery scan                                      *)

\* A lease runs out: freely once its holder is gone, as a stall otherwise.
Expire(r) ==
  /\ lease[r] = "live"
  /\ IF Executes(owner[r], r) THEN Spend ELSE UNCHANGED budget
  /\ lease' = [lease EXCEPT ![r] = "expired"]
  /\ UNCHANGED <<status, owner, retry, attempt, cancel, bound, skills, ledgerVars, jobs,
                 api, workerVars>>

RetryDue(r) ==
  /\ retry[r] = "later"
  /\ retry' = [retry EXCEPT ![r] = "due"]
  /\ UNCHANGED <<status, owner, lease, attempt, cancel, bound, skills, ledgerVars, jobs,
                 api, workerVars, budget>>

\* Fault: the scan misses running runs whose lease expired.
RecoverableWithoutLease(r) ==
  \/ status[r] = "queued"
  \/ status[r] = "retry_wait" /\ retry[r] = "due"

Recoverable(r) ==
  \/ status[r] = "queued"
  \/ status[r] = "retry_wait" /\ retry[r] = "due"
  \/ status[r] = "running" /\ lease[r] = "expired"

\* recover_agent_runs: one job per run and half-minute bucket.
Recover(r) ==
  /\ Recoverable(r) /\ jobs[r] < MaxJobs
  /\ jobs' = [jobs EXCEPT ![r] = @ + 1]
  /\ UNCHANGED <<rowVars, ledgerVars, api, workerVars, budget>>

\* The process dies: its job is redelivered, or lost with it.
Crash(w) ==
  /\ pc[w] # "idle"
  /\ Spend
  /\ Enqueue(job[w])
  /\ Idle(w)
  /\ UNCHANGED <<rowVars, ledgerVars, api>>

LoseJob(r) ==
  /\ jobs[r] > 0
  /\ Spend
  /\ jobs' = [jobs EXCEPT ![r] = @ - 1]
  /\ UNCHANGED <<rowVars, ledgerVars, api, workerVars>>
-----------------------------------------------------------------------------
Deliver(r) == \E w \in Workers : \/ AcquireCancelled(w, r)
                                 \/ AcquireRefused(w, r)
                                 \/ Acquire(w, r)

EndExecution(w) == \/ \E st \in TurnOutcomes : FinishTurn(w, st)
                   \/ \E st \in TaskOutcomes : Complete(w, st)
                   \/ \E kind \in {"retryable", "terminal"} : Release(w, kind)
                   \/ RequestInterrupt(w)
                   \/ LoseSkillLease(w)
                   \/ CloseParent(w)
                   \/ ReportResult(w)
                   \/ Promote(w)
                   \/ Interrupted(w)
                   \/ RecordStopped(w)

ApiStep(r) == \/ QueueBehind(r)
              \/ StartInline(r)
              \/ BindTask(r)
              \/ RestartTask(r)
              \/ MarkQueued(r)
              \/ InlineFails(r)

Next ==
  \/ \E r \in Runs : \/ SubmitTurn(r)
                     \/ SubmitRevision(r)
                     \/ ClaimMessage(r)
                     \/ ApiStep(r)
                     \/ ApiCrash(r)
                     \/ RequestCancel(r)
                     \/ RequestStop(r)
                     \/ ResolveInterrupt(r)
                     \/ AcceptArtifact(r)
                     \/ DecidePackage(r)
                     \/ Deliver(r)
                     \/ Expire(r)
                     \/ RetryDue(r)
                     \/ Recover(r)
                     \/ LoseJob(r)
  \/ \E w \in Workers : \/ Heartbeat(w)
                        \/ StartTask(w)
                        \/ StartSkill(w)
                        \/ StartChildSkill(w)
                        \/ Resume(w)
                        \/ Reacquire(w)
                        \/ EndExecution(w)
                        \/ Crash(w)

Spec == Init /\ [][Next]_vars

(***************************************************************************)
(* Time passes and the half-minute scan recurs; Redis delivers a job that  *)
(* stays queued, whatever other jobs the workers serve in between; every   *)
(* execution ends, at the latest when its job times out; the API request   *)
(* that is not killed finishes.  Users, faults and heartbeats owe nothing. *)
(***************************************************************************)
Fairness ==
  /\ \A r \in Runs : /\ WF_vars(Expire(r) /\ ~Executes(owner[r], r))
                     /\ WF_vars(RetryDue(r))
                     /\ WF_vars(Recover(r))
                     /\ SF_vars(Deliver(r))
                     /\ WF_vars(ApiStep(r))
  /\ \A w \in Workers : WF_vars(EndExecution(w))

FairSpec == Spec /\ Fairness
-----------------------------------------------------------------------------
(* Correctness                                                             *)

\* Every column holds a value of its enumeration and every worker that is not
\* idle serves a recorded run (the CHECK constraints of the models).
TypeOK ==
  /\ status \in [Runs -> RunStatuses \cup {"absent"}]
  /\ owner \in [Runs -> Workers \cup {NoWorker}]
  /\ lease \in [Runs -> {"none", "live", "expired"}]
  /\ retry \in [Runs -> {"none", "later", "due"}]
  /\ attempt \in [Runs -> Nat]
  /\ cancel \in [Runs -> BOOLEAN]
  /\ bound \in [Runs -> BOOLEAN]
  /\ skills \in [Runs -> Nat]
  /\ turn \in [Runs -> TurnStatuses \cup {"none"}]
  /\ task \in [Tasks -> TaskStatuses]
  /\ interrupt \in [Runs -> {"none", "pending", "resolved", "cancelled", "superseded"}]
  /\ jobs \in [Runs -> Nat]
  /\ api \in [Runs -> {"idle", "claimed", "free", "inline", "bound", "prepared",
                       "behind"}]
  /\ pc \in [Workers -> {"idle", "running", "work", "close", "report",
                          "promote", "stopping"}]
  /\ job \in [Workers -> Runs \cup {NoRun}]
  /\ \A w \in Workers : pc[w] = "idle" <=> job[w] = NoRun
  /\ stamp \in [Workers -> Nat]
  /\ result \in [Workers -> SkillStatuses \cup {"none"}]
  /\ \A w \in Workers : pc[w] \in {"close", "report"} <=> result[w] # "none"
  /\ budget \in Nat

\* A lease ends with its run: no interleaving of stops, stale closures,
\* takeovers and SkillRun creations leaves a finished run leased to somebody,
\* and a lease always names its holder.
LeaseEndsWithRun ==
  \A r \in Runs :
    /\ lease[r] # "none" <=> owner[r] # NoWorker
    /\ lease[r] # "none" =>
         status[r] \in (ActiveStatuses \cup PausedStatuses)
                        \ {"claimed", "waiting_predecessor"}

\* The attempt number fences executions: however often a run is redelivered,
\* taken over or resumed, two executors of it never carry the same attempt,
\* and an executor that holds the lease carries the current one.
AttemptsFence ==
  \A w \in Workers : pc[w] # "idle" =>
    /\ stamp[w] <= attempt[job[w]]
    /\ owner[job[w]] = w => stamp[w] = attempt[job[w]]
    /\ \A v \in Workers \ {w} : Executes(v, job[w]) => stamp[v] # stamp[w]

\* A retry is due only while the run has attempts left, and a run is declared
\* dead only when it has none, also when a stale executor reports the failure
\* or counts an attempt for a child SkillRun.
RetryBudget ==
  \A r \in Runs :
    /\ retry[r] # "none" => attempt[r] < MaxAttempts
    /\ status[r] = "dead_letter" => attempt[r] >= MaxAttempts

\* The turn a user looks at always tells what became of its run, after every
\* stop, interrupt, retry, takeover and late closure.
TurnMirrorsRun == \A r \in Turns : Recorded(r) => turn[r] = status[r]

\* The scan cannot find a run that claims to run without a lease that can
\* expire, or to wait for a retry without a retry time (unless a stale executor
\* leased it for a child SkillRun).
Lost(r) == \/ status[r] = "running" /\ lease[r] = "none"
           \/ status[r] = "retry_wait" /\ lease[r] = "none" /\ retry[r] = "none"

\* No crash, stop, retry, takeover, decision or stale closure loses a run;
\* only the caller of a skill can, when it records late that the run goes on.
NoLostRun ==
  [][\A r \in Turns \cup Revisions :
       ~Lost(r) /\ Lost(r)'
         => \E w \in Workers : /\ pc[w] \in {"close", "report"} /\ job[w] = r
                               /\ result[w] \in {"running", "retry_wait"}
                               /\ status'[r] = result[w]]_vars

\* A finished run changes only when the user answers an interrupt that was
\* still open: a late worker, a duplicate delivery, a retry or a failed
\* request never reopens or rewrites it.
FirstTerminalWins ==
  [][\A r \in Runs :
       status[r] \in TerminalStatuses /\ status'[r] # status[r]
         => interrupt[r] = "pending" /\ interrupt'[r] = "resolved"]_vars

\* A follow-up leaves its waiting line only when its task has no executable
\* run, and only the oldest one does.
PromotesInOrder ==
  [][\A r, s \in Runs :
       /\ status[r] = "waiting_predecessor" /\ status'[r] = "queued"
       /\ r # s /\ SameTask(r, s)
       => /\ status[s] \notin ActiveTaskRunStatuses
          /\ status[s] = "waiting_predecessor" => r < s]_vars

\* Every turn that was accepted ends or pauses for the user, through worker
\* crashes, lost jobs, retries and cancellations, as long as no second executor
\* of it reports late (see NoLostRun).
TurnsSettle ==
  \A r \in Turns :
    status[r] \in {"queued", "running", "retry_wait"}
      ~> status[r] \in PausedStatuses \cup TerminalStatuses
=============================================================================
