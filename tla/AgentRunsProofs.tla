--------------------------- MODULE AgentRunsProofs ---------------------------
(***************************************************************************)
(* Theorems about AgentRuns for every set of runs, tasks and workers and   *)
(* every value of the bounds: the types of all columns and the attempt     *)
(* number as a fence between the executors of a run.  Each is inductive    *)
(* once the types are known; the steps are split into those of users, API, *)
(* time and queue (about a run) and those of a worker.                     *)
(*                                                                         *)
(* The second half is about the rows kept for a run: the lease ends with   *)
(* the run, retries stay in their budget, a turn shows what its run is,    *)
(* only a late report loses a run to the scan, a terminal status stays,    *)
(* and follow-ups are promoted in their order.  Every one of the many      *)
(* actions moves a row in one of a few ways (RowMoves), so what a step     *)
(* does to a row is established once per action, and each invariant is     *)
(* then shown for a way and not an action.                                 *)
(***************************************************************************)
EXTENDS AgentRuns, WellFoundedInduction, TLAPS

\* The columns close_runtime_state and the queueing functions write.
ClosedTypes ==
  /\ status \in [Runs -> RunStatuses \cup {"absent"}]
  /\ owner \in [Runs -> Workers \cup {NoWorker}]
  /\ lease \in [Runs -> {"none", "live", "expired"}]
  /\ retry \in [Runs -> {"none", "later", "due"}]
LedgerTypes ==
  /\ turn \in [Runs -> TurnStatuses \cup {"none"}]
  /\ task \in [Tasks -> TaskStatuses]
\* The local state of the workers.
WorkerTypes ==
  /\ pc \in [Workers -> {"idle", "running", "work", "close", "report",
                          "promote", "stopping"}]
  /\ job \in [Workers -> Runs \cup {NoRun}]
  /\ \A w \in Workers : pc[w] = "idle" <=> job[w] = NoRun
  /\ stamp \in [Workers -> Nat]
  /\ result \in [Workers -> SkillStatuses \cup {"none"}]
  /\ \A w \in Workers : pc[w] \in {"close", "report"} <=> result[w] # "none"

\* The status a closure settles on is a status, and so are its projections.
LEMMA StatusTypes ==
  ASSUME NEW c \in RunStatuses \cup {"absent"}, NEW q \in RunStatuses
  PROVE  /\ EffectiveStatus(c, q) \in RunStatuses
         /\ TurnStatus(EffectiveStatus(c, q)) \in TurnStatuses
         /\ TaskProjections(EffectiveStatus(c, q)) \subseteq TaskStatuses
<1>1. EffectiveStatus(c, q) \in RunStatuses
  BY DEF EffectiveStatus, RunStatuses
<1>2. \A e \in RunStatuses : TurnStatus(e) \in TurnStatuses
  BY DEF TurnStatus, TurnStatuses, RunStatuses, ActiveStatuses, PausedStatuses,
         TerminalStatuses
<1>3. \A e \in RunStatuses : TaskProjections(e) \subseteq TaskStatuses
  BY DEF TaskProjections, TaskStatuses, ActiveTaskRunStatuses, PausedStatuses
<1> QED BY <1>1, <1>2, <1>3

\* A closure keeps the columns in their types.
LEMMA CloseTypes ==
  ASSUME TypeOK, NEW r \in Runs, NEW q \in RunStatuses,
         NEW own \in Workers \cup {NoWorker},
         NEW lse \in {"none", "live", "expired"},
         NEW rty \in {"none", "later", "due"},
         Close(r, q, own, lse, rty)
  PROVE  ClosedTypes' /\ LedgerTypes'
<1> DEFINE eff == EffectiveStatus(status[r], q)
<1>1. /\ eff \in RunStatuses
      /\ TurnStatus(eff) \in TurnStatuses
      /\ TaskProjections(eff) \subseteq TaskStatuses
  BY StatusTypes DEF TypeOK
<1>2. ClosedTypes'
  BY <1>1 DEF Close, TypeOK, ClosedTypes
<1>3. LedgerTypes'
  <2>1. PICK projected \in TaskProjections(eff) :
          task' = IF bound[r] THEN [task EXCEPT ![TaskOf[r]] = projected] ELSE task
    BY DEF Close
  <2>2. task' \in [Tasks -> TaskStatuses]
    BY <1>1, <2>1 DEF TypeOK
  <2> QED BY <1>1, <2>2 DEF Close, TypeOK, LedgerTypes
<1> QED BY <1>2, <1>3

\* Re-queueing keeps them too, also for a run that does not exist.
LEMMA QueuedTypes ==
  ASSUME TypeOK, NEW r, NEW q \in RunStatuses, Queued(r, q)
  PROVE  ClosedTypes'
BY DEF Queued, TypeOK, ClosedTypes

\* An enqueued or lost job leaves a natural number of jobs.
LEMMA EnqueueType ==
  ASSUME TypeOK, NEW r, Enqueue(r)
  PROVE  jobs' \in [Runs -> Nat]
BY DEF Enqueue, TypeOK

\* A release, a promotion and every other end of an execution empties the slot.
LEMMA IdleTypes ==
  ASSUME TypeOK, NEW w \in Workers, Idle(w)
  PROVE  WorkerTypes'
BY DEF Idle, TypeOK, WorkerTypes

\* A worker at work that goes on stays with its run and has no result.
LEMMA AtTypes ==
  ASSUME TypeOK, NEW w \in Workers, pc[w] # "idle", NEW step,
         step \in {"running", "work", "promote", "stopping"}, At(w, step)
  PROVE  WorkerTypes'
BY DEF At, TypeOK, WorkerTypes

\* So does one that was told a status, until it has recorded it.
LEMMA WithTypes ==
  ASSUME TypeOK, NEW w \in Workers, pc[w] # "idle", NEW step,
         step \in {"close", "report"}, NEW st \in SkillStatuses, With(w, step, st)
  PROVE  WorkerTypes'
<1>1. "none" \notin SkillStatuses
  BY DEF SkillStatuses, PausedStatuses, TerminalStatuses
<1> QED BY <1>1 DEF With, TypeOK, WorkerTypes

\* What a skill answers is a status of a SkillRun, whatever its run says.
LEMMA SkillAnswers ==
  /\ \A st : SkillSays(st) \in SkillStatuses
  /\ \A r : RootSays(r) \subseteq SkillStatuses
<1>1. \A st : SkillSays(st) \in SkillStatuses
  BY DEF SkillSays, SkillStatuses, TerminalStatuses
<1>2. {"running"} \cup PausedStatuses \subseteq SkillStatuses
  BY DEF SkillStatuses, PausedStatuses
<1> QED BY <1>1, <1>2 DEF RootSays

\* The return of a skill.
LEMMA ReturnTypes ==
  ASSUME TypeOK, NEW w \in Workers, pc[w] # "idle", NEW st \in SkillStatuses, Return(w, st)
  PROVE  WorkerTypes'
BY IdleTypes, WithTypes DEF Return

\* A busy worker serves a run of the system.
LEMMA ServedRun ==
  ASSUME TypeOK, NEW w \in Workers, pc[w] # "idle"
  PROVE  job[w] \in Runs
BY WorkersAssumption DEF TypeOK

\* The starting a run takes: acquisition and re-acquisition.
LEMMA TakeTypes ==
  ASSUME TypeOK, NEW w \in Workers, NEW r \in Runs, NEW step \in {"running", "work"},
         pc[w] \in {"idle", "running"}, Take(w, r, step), UNCHANGED <<api, budget>>,
         jobs' \in [Runs -> Nat]
  PROVE  TypeOK'
<1>1. ClosedTypes' /\ LedgerTypes'
  <2>1. Close(r, "running", w, "live", "none")
    BY DEF Take
  <2>2. "running" \in RunStatuses
    BY DEF RunStatuses, ActiveStatuses
  <2> QED BY <2>1, <2>2, CloseTypes
<1>2. attempt' \in [Runs -> Nat] /\ stamp' \in [Workers -> Nat]
  BY DEF Take, TypeOK, NextAttempt
<1>3. WorkerTypes'
  BY <1>2, WorkersAssumption DEF Take, TypeOK, WorkerTypes
<1> QED BY <1>1, <1>2, <1>3 DEF Take, TypeOK, ClosedTypes, LedgerTypes, WorkerTypes

\* Closing a cancelled run instead of starting it.
LEMMA CloseCancelledTypes ==
  ASSUME TypeOK, NEW r \in Runs, CloseCancelled(r)
  PROVE  ClosedTypes' /\ LedgerTypes'
<1>1. Close(r, "cancelled", owner[r], lease[r], retry[r])
  BY DEF CloseCancelled, CloseAs
<1>2. "cancelled" \in RunStatuses
  BY DEF RunStatuses, TerminalStatuses
<1>3. /\ owner[r] \in Workers \cup {NoWorker}
      /\ lease[r] \in {"none", "live", "expired"}
      /\ retry[r] \in {"none", "later", "due"}
  BY DEF TypeOK
<1> QED BY <1>1, <1>2, <1>3, CloseTypes

\* A closure that leaves the caller's columns as they are.
LEMMA CloseAsTypes ==
  ASSUME TypeOK, NEW r \in Runs, NEW q \in RunStatuses, CloseAs(r, q)
  PROVE  ClosedTypes' /\ LedgerTypes'
<1>1. Close(r, q, owner[r], lease[r], retry[r])
  BY DEF CloseAs
<1>2. /\ owner[r] \in Workers \cup {NoWorker}
      /\ lease[r] \in {"none", "live", "expired"}
      /\ retry[r] \in {"none", "later", "due"}
  BY DEF TypeOK
<1> QED BY <1>1, <1>2, CloseTypes

\* The literals the actions write belong to their enumerations.
LEMMA StatusNames ==
  /\ {"claimed", "waiting_predecessor", "queued", "running", "retry_wait",
      "waiting_user", "failed", "dead_letter", "cancelled", "stopped"}
       \subseteq RunStatuses
  /\ {"queued", "running", "completed", "stopped"} \subseteq TurnStatuses
  /\ {"running", "completed"} \subseteq TaskStatuses
  /\ TurnOutcomes \subseteq RunStatuses /\ TaskOutcomes \subseteq RunStatuses
BY OutcomesAssumption
   DEF RunStatuses, TurnStatuses, TaskStatuses, ActiveStatuses, PausedStatuses,
       TerminalStatuses

\* Users, the API, time and Redis: no step of a worker.
LEMMA RunStepTypes ==
  ASSUME TypeOK, NEW r \in Runs,
         \/ SubmitTurn(r) \/ SubmitRevision(r) \/ ClaimMessage(r) \/ ApiStep(r)
         \/ ApiCrash(r) \/ RequestCancel(r) \/ RequestStop(r)
         \/ ResolveInterrupt(r) \/ AcceptArtifact(r) \/ DecidePackage(r)
         \/ Expire(r) \/ RetryDue(r) \/ Recover(r)
         \/ LoseJob(r)
  PROVE  TypeOK'
<1> USE StatusNames DEF rowVars, ledgerVars, workerVars
<1>1. CASE SubmitTurn(r)
  <2>1. ClosedTypes' /\ jobs' \in [Runs -> Nat]
    BY <1>1, QueuedTypes, EnqueueType DEF SubmitTurn
  <2> QED BY <1>1, <2>1 DEF SubmitTurn, TypeOK, ClosedTypes
<1>2. CASE SubmitRevision(r)
  <2> PICK s \in Turns : Supplement(r, s)
    BY <1>2 DEF SubmitRevision
  <2>1. jobs' \in [Runs -> Nat]
    BY EnqueueType DEF Supplement, TypeOK
  <2>2. ClosedTypes'
    <3>1. status' \in [Runs -> RunStatuses \cup {"absent"}]
      <4> DEFINE st == IF Blockers(r) = {} THEN "queued" ELSE "waiting_predecessor"
                 mid == [status EXCEPT ![r] = st]
      <4>1. st \in RunStatuses
        OBVIOUS
      <4>2. mid \in [Runs -> RunStatuses \cup {"absent"}]
        BY <4>1 DEF TypeOK
      <4> DEFINE last == IF status[s] = "waiting_permission" THEN "stopped"
                         ELSE status[s]
      <4>3. status' = [mid EXCEPT ![s] = last]
        BY DEF Supplement
      <4>4. last \in RunStatuses \cup {"absent"}
        BY StatusNames DEF Runs, TypeOK
      <4> HIDE DEF mid, last
      <4> QED BY <4>2, <4>3, <4>4
    <3>2. /\ owner' \in [Runs -> Workers \cup {NoWorker}]
          /\ lease' \in [Runs -> {"none", "live", "expired"}]
          /\ retry' \in [Runs -> {"none", "later", "due"}]
      BY DEF Supplement, TypeOK
    <3> QED BY <3>1, <3>2 DEF ClosedTypes
  <2>3. cancel' \in [Runs -> BOOLEAN]
    <3>1. \A b \in BOOLEAN : (b \/ status[s] = "waiting_permission") \in BOOLEAN
      OBVIOUS
    <3> QED BY <3>1 DEF Supplement, TypeOK
  <2>4. bound' \in [Runs -> BOOLEAN] /\ skills' \in [Runs -> Nat]
    BY <1>2 DEF SubmitRevision, TypeOK
  <2>5. /\ turn' \in [Runs -> TurnStatuses \cup {"none"}]
        /\ interrupt' \in [Runs -> {"none", "pending", "resolved", "cancelled",
                                    "superseded"}]
    BY DEF Supplement, TypeOK
  <2> QED
    BY <1>2, <2>1, <2>2, <2>3, <2>4, <2>5 DEF SubmitRevision, TypeOK, ClosedTypes
<1>3. CASE ClaimMessage(r)
  BY <1>3 DEF ClaimMessage, TypeOK
<1>4. CASE ApiStep(r)
  <2>1. CASE QueueBehind(r)
    <3>1. ClosedTypes'
      BY <2>1, QueuedTypes DEF QueueBehind, TypeOK, ClosedTypes
    <3>2. bound' \in [Runs -> BOOLEAN]
      BY <2>1 DEF QueueBehind, TypeOK
    <3>3. api' \in [Runs -> {"idle", "claimed", "free", "inline", "bound", "prepared",
                             "behind"}]
      BY <2>1 DEF QueueBehind, TypeOK
    <3> QED BY <2>1, <3>1, <3>2, <3>3 DEF QueueBehind, TypeOK, ClosedTypes
  <2>2. CASE StartInline(r)
    BY <2>2 DEF StartInline, TypeOK
  <2>3. CASE BindTask(r)
    BY <2>3 DEF BindTask, TypeOK
  <2>4. CASE RestartTask(r)
    BY <2>4 DEF RestartTask, TypeOK
  <2>5. CASE MarkQueued(r)
    <3>1. ClosedTypes' /\ jobs' \in [Runs -> Nat]
      BY <2>5, QueuedTypes, EnqueueType DEF MarkQueued
    <3> QED BY <2>5, <3>1 DEF MarkQueued, TypeOK, ClosedTypes
  <2>6. CASE InlineFails(r)
    <3>1. ClosedTypes' /\ LedgerTypes'
      BY <2>6, CloseAsTypes DEF InlineFails, TypeOK, ClosedTypes, LedgerTypes
    <3> QED BY <2>6, <3>1 DEF InlineFails, TypeOK, ClosedTypes, LedgerTypes
  <2> QED BY <1>4, <2>1, <2>2, <2>3, <2>4, <2>5, <2>6 DEF ApiStep
<1>5. CASE ApiCrash(r)
  BY <1>5 DEF ApiCrash, Spend, TypeOK
<1>6. CASE RequestCancel(r)
  BY <1>6 DEF RequestCancel, TypeOK
<1>7. CASE RequestStop(r)
  <2>1. ClosedTypes' /\ LedgerTypes'
    BY <1>7, CloseAsTypes DEF RequestStop
  <2> QED BY <1>7, <2>1 DEF RequestStop, TypeOK, ClosedTypes, LedgerTypes
<1>8. CASE ResolveInterrupt(r)
  <2>1. ClosedTypes' /\ jobs' \in [Runs -> Nat]
    BY <1>8, QueuedTypes, EnqueueType DEF ResolveInterrupt
  <2>2. LedgerTypes'
    BY <1>8 DEF ResolveInterrupt, TypeOK, LedgerTypes
  <2> QED
    BY <1>8, <2>1, <2>2 DEF ResolveInterrupt, Spend, TypeOK, ClosedTypes, LedgerTypes
<1>13. ASSUME ResumeParent(r) PROVE ClosedTypes' /\ LedgerTypes'
  <2>1. ClosedTypes'
    BY <1>13, QueuedTypes DEF ResumeParent
  <2> QED BY <1>13, <2>1, RunsAssumption DEF ResumeParent, TypeOK, LedgerTypes
<1>14. CASE AcceptArtifact(r)
  BY <1>13, <1>14 DEF AcceptArtifact, Spend, TypeOK, ClosedTypes, LedgerTypes
<1>15. CASE DecidePackage(r)
  <2>1. \/ ResumeParent(r)
        \/ \E st \in {"completed", "blocked", "waiting_permission"} : CloseAs(r, st)
    BY <1>15 DEF DecidePackage
  <2>2. {"completed", "blocked", "waiting_permission"} \subseteq RunStatuses
    BY DEF RunStatuses, TerminalStatuses, PausedStatuses
  <2>3. ClosedTypes' /\ LedgerTypes'
    BY <1>13, <2>1, <2>2, CloseAsTypes
  <2>4. budget' \in Nat /\ interrupt' \in [Runs -> {"none", "pending", "resolved",
                                                    "cancelled", "superseded"}]
    BY <1>15 DEF DecidePackage, Spend, TypeOK
  <2> QED BY <1>15, <2>3, <2>4 DEF DecidePackage, TypeOK, ClosedTypes, LedgerTypes
<1>9. CASE Expire(r)
  BY <1>9 DEF Expire, Spend, TypeOK
<1>10. CASE RetryDue(r)
  BY <1>10 DEF RetryDue, TypeOK
<1>11. CASE Recover(r)
  BY <1>11 DEF Recover, TypeOK
<1>12. CASE LoseJob(r)
  <2>1. jobs' \in [Runs -> Nat]
    BY <1>12 DEF LoseJob, TypeOK
  <2> QED BY <1>12, <2>1 DEF LoseJob, Spend, TypeOK
<1> QED
  BY <1>1, <1>2, <1>3, <1>4, <1>5, <1>6, <1>7, <1>8, <1>9, <1>10, <1>11, <1>12, <1>14,
     <1>15

\* Deliveries and the steps of an execution.
LEMMA WorkerStepTypes ==
  ASSUME TypeOK, NEW w \in Workers,
         \/ \E r \in Runs : AcquireCancelled(w, r) \/ AcquireRefused(w, r) \/ Acquire(w, r)
         \/ Heartbeat(w) \/ StartTask(w) \/ StartSkill(w) \/ StartChildSkill(w)
         \/ Resume(w) \/ Reacquire(w) \/ EndExecution(w) \/ Crash(w)
  PROVE  TypeOK'
<1> USE StatusNames DEF rowVars, ledgerVars, workerVars
<1>1. CASE \E r \in Runs :
             AcquireCancelled(w, r) \/ AcquireRefused(w, r) \/ Acquire(w, r)
  <2> PICK r \in Runs : AcquireCancelled(w, r) \/ AcquireRefused(w, r) \/ Acquire(w, r)
    BY <1>1
  <2>1. CASE AcquireCancelled(w, r)
    <3>1. ClosedTypes' /\ LedgerTypes'
      BY <2>1, CloseCancelledTypes DEF AcquireCancelled
    <3>2. jobs' \in [Runs -> Nat]
      BY <2>1 DEF AcquireCancelled, Delivered, TypeOK
    <3> QED BY <2>1, <3>1, <3>2
            DEF AcquireCancelled, CloseCancelled, TypeOK, ClosedTypes, LedgerTypes
  <2>2. CASE AcquireRefused(w, r)
    <3>1. jobs' \in [Runs -> Nat]
      BY <2>2 DEF AcquireRefused, Delivered, TypeOK
    <3> QED BY <2>2, <3>1 DEF AcquireRefused, TypeOK
  <2>3. CASE Acquire(w, r)
    <3>1. jobs' \in [Runs -> Nat]
      BY <2>3 DEF Acquire, Delivered, TypeOK
    <3> QED BY <2>3, <3>1, TakeTypes DEF Acquire, Delivered
  <2> QED BY <2>1, <2>2, <2>3
<1>2. CASE Heartbeat(w)
  BY <1>2 DEF Heartbeat, TypeOK
<1>3. CASE StartTask(w)
  <2>1. job[w] \in Runs /\ TaskOf[job[w]] \in Tasks
    BY <1>3, ServedRun, RunsAssumption DEF StartTask
  <2>2. WorkerTypes'
    BY <1>3, AtTypes DEF StartTask
  <2> QED BY <1>3, <2>1, <2>2 DEF StartTask, TypeOK, WorkerTypes
<1>4. ASSUME pc[w] \in {"running", "work"}, CreatesSkill(w, job[w])
      PROVE  /\ skills' \in [Runs -> Nat] /\ attempt' \in [Runs -> Nat]
             /\ owner' \in [Runs -> Workers \cup {NoWorker}]
             /\ lease' \in [Runs -> {"none", "live", "expired"}]
             /\ retry' \in [Runs -> {"none", "later", "due"}]
             /\ WorkerTypes'
  <2>1. job[w] \in Runs /\ attempt[job[w]] + 1 \in Nat
    BY <1>4, ServedRun DEF TypeOK
  <2>2. WorkerTypes'
    BY <1>4, <2>1 DEF CreatesSkill, TypeOK, WorkerTypes
  <2> QED BY <1>4, <2>1, <2>2 DEF CreatesSkill, TypeOK
<1>5. CASE StartSkill(w)
  <2>1. CreatesSkill(w, job[w]) /\ pc[w] \in {"running", "work"}
    BY <1>5 DEF StartSkill
  <2>2. /\ status' \in [Runs -> RunStatuses \cup {"absent"}]
        /\ bound' \in [Runs -> BOOLEAN]
        /\ LedgerTypes'
    BY <1>5 DEF StartSkill, TypeOK, LedgerTypes
  <2> QED BY <1>4, <2>1, <2>2 DEF CreatesSkill, TypeOK, LedgerTypes, WorkerTypes
<1>6. CASE StartChildSkill(w)
  BY <1>4, <1>6 DEF StartChildSkill, CreatesSkill, TypeOK, WorkerTypes
<1>10. CASE Resume(w)
  <2>1. WorkerTypes'
    BY <1>10, AtTypes DEF Resume
  <2> QED BY <1>10, <2>1 DEF Resume, TypeOK, WorkerTypes
<1>7. CASE Reacquire(w)
  <2>1. /\ job[w] \in Runs /\ jobs' = jobs /\ UNCHANGED <<api, budget>>
        /\ pc[w] = "running"
    BY <1>7, ServedRun DEF Reacquire
  <2>2. CASE Take(w, job[w], "work")
    BY <2>1, <2>2, TakeTypes DEF TypeOK
  <2>3. CASE \E st \in SkillStatuses : CloseCancelled(job[w]) /\ Return(w, st)
    <3>1. ClosedTypes' /\ LedgerTypes' /\ WorkerTypes'
      BY <2>1, <2>3, CloseCancelledTypes, ReturnTypes
    <3> QED BY <2>1, <2>3, <3>1
            DEF CloseCancelled, TypeOK, ClosedTypes, LedgerTypes, WorkerTypes
  <2>4. CASE (\E st \in SkillStatuses : Return(w, st)) /\ UNCHANGED <<rowVars, ledgerVars>>
    <3>1. WorkerTypes'
      BY <2>1, <2>4, ReturnTypes
    <3> QED BY <2>1, <2>4, <3>1 DEF TypeOK, WorkerTypes
  <2> QED BY <1>7, <2>2, <2>3, <2>4, SkillAnswers DEF Reacquire
<1>8. CASE EndExecution(w)
  <2>0. ASSUME ClosedTypes', LedgerTypes', WorkerTypes',
               UNCHANGED <<attempt, cancel, bound, skills, interrupt, jobs, api, budget>>
        PROVE  TypeOK'
    BY <2>0 DEF TypeOK, ClosedTypes, LedgerTypes, WorkerTypes
  <2>1. ASSUME NEW st \in TurnOutcomes, FinishTurn(w, st)
        PROVE  TypeOK'
    <3>1. pc[w] # "idle" /\ job[w] \in Runs /\ st \in RunStatuses
      BY <2>1, ServedRun DEF FinishTurn, InSkill
    <3>2. ClosedTypes' /\ LedgerTypes'
      BY <2>1, <3>1, CloseAsTypes DEF FinishTurn
    <3>3. WorkerTypes'
      BY <2>1, <3>1, IdleTypes, ReturnTypes, SkillAnswers DEF FinishTurn
    <3> QED BY <2>0, <2>1, <3>2, <3>3 DEF FinishTurn
  <2>2. ASSUME NEW st \in TaskOutcomes, Complete(w, st)
        PROVE  TypeOK'
    <3>1. pc[w] # "idle" /\ job[w] \in Runs /\ st \in RunStatuses
      BY <2>2, ServedRun DEF Complete
    <3>2. ClosedTypes' /\ LedgerTypes'
      BY <2>2, <3>1, CloseAsTypes DEF Complete
    <3>3. budget' \in Nat
      BY <2>2 DEF Complete, Spend, TypeOK
    <3>4. WorkerTypes'
      BY <2>2, <3>1, AtTypes DEF Complete
    <3> QED BY <2>2, <3>2, <3>3, <3>4
            DEF Complete, TypeOK, ClosedTypes, LedgerTypes, WorkerTypes
  <2>3. ASSUME NEW kind \in {"retryable", "terminal"}, Release(w, kind)
        PROVE  TypeOK'
    <3>1. job[w] \in Runs
      BY <2>3, ServedRun DEF Release
    <3>2. jobs' \in [Runs -> Nat]
      BY <2>3, EnqueueType DEF Release, TypeOK
    <3>3. /\ owner[job[w]] \in Workers \cup {NoWorker}
          /\ lease[job[w]] \in {"none", "live", "expired"}
      BY <3>1 DEF TypeOK
    <3>4. \/ UNCHANGED <<status, owner, lease, retry, turn, task>>
          \/ Close(job[w], "retry_wait", owner[job[w]], lease[job[w]], "later")
          \/ CloseAs(job[w], "failed")
          \/ CloseAs(job[w], "dead_letter")
      BY <2>3 DEF Release
    <3>5. ClosedTypes' /\ LedgerTypes'
      <4>1. CASE UNCHANGED <<status, owner, lease, retry, turn, task>>
        BY <4>1 DEF TypeOK, ClosedTypes, LedgerTypes
      <4>2. CASE Close(job[w], "retry_wait", owner[job[w]], lease[job[w]], "later")
        BY <3>1, <3>3, <4>2, CloseTypes
      <4>3. CASE CloseAs(job[w], "failed") \/ CloseAs(job[w], "dead_letter")
        BY <3>1, <4>3, CloseAsTypes
      <4> QED BY <3>4, <4>1, <4>2, <4>3
    <3>6. WorkerTypes'
      BY <2>3, IdleTypes DEF Release
    <3> QED BY <2>3, <3>2, <3>5, <3>6
            DEF Release, TypeOK, ClosedTypes, LedgerTypes, WorkerTypes
  <2>4. CASE RequestInterrupt(w)
    <3>1. pc[w] # "idle" /\ job[w] \in Runs
      BY <2>4, ServedRun DEF RequestInterrupt, InSkill
    <3>2. ClosedTypes' /\ LedgerTypes'
      BY <2>4, <3>1, CloseAsTypes DEF RequestInterrupt
    <3>3. WorkerTypes'
      BY <2>4, <3>1, IdleTypes, ReturnTypes, SkillAnswers DEF RequestInterrupt
    <3>4. interrupt' \in [Runs -> {"none", "pending", "resolved", "cancelled",
                                   "superseded"}]
      BY <2>4 DEF RequestInterrupt, TypeOK
    <3> QED BY <2>4, <3>2, <3>3, <3>4
            DEF RequestInterrupt, TypeOK, ClosedTypes, LedgerTypes, WorkerTypes
  <2>5. CASE LoseSkillLease(w)
    <3>1. WorkerTypes'
      BY <2>5, ReturnTypes, WithTypes, SkillAnswers DEF LoseSkillLease
    <3> QED BY <2>5, <3>1 DEF LoseSkillLease, TypeOK, WorkerTypes
  <2>9. CASE CloseParent(w)
    <3>1. pc[w] # "idle" /\ job[w] \in Runs /\ result[w] \in SkillStatuses
      BY <2>9, ServedRun DEF CloseParent, TypeOK
    <3>2. result[w] \in RunStatuses
      BY <3>1 DEF SkillStatuses, RunStatuses, ActiveStatuses
    <3>3. ClosedTypes' /\ LedgerTypes'
      BY <2>9, <3>1, <3>2, CloseAsTypes DEF CloseParent
    <3>4. WorkerTypes'
      BY <2>9, <3>1, ReturnTypes, SkillAnswers DEF CloseParent
    <3> QED BY <2>0, <2>9, <3>3, <3>4 DEF CloseParent
  <2>10. CASE ReportResult(w)
    <3>1. pc[w] # "idle" /\ job[w] \in Runs /\ result[w] \in SkillStatuses
      BY <2>10, ServedRun DEF ReportResult, TypeOK
    <3>2. result[w] \in RunStatuses
      BY <3>1 DEF SkillStatuses, RunStatuses, ActiveStatuses
    <3>3. ClosedTypes' /\ LedgerTypes'
      BY <2>10, <3>1, <3>2, CloseAsTypes DEF ReportResult
    <3>4. WorkerTypes'
      BY <2>10, <3>1, IdleTypes, AtTypes DEF ReportResult
    <3> QED BY <2>0, <2>10, <3>3, <3>4 DEF ReportResult
  <2>6. CASE Promote(w)
    <3> DEFINE next == Oldest(Waiting(TaskOf[job[w]]))
    <3>1. \/ UNCHANGED <<status, owner, lease, retry, jobs>>
          \/ Queued(next, "queued") /\ Enqueue(next)
      BY <2>6 DEF Promote
    <3>2. ClosedTypes' /\ jobs' \in [Runs -> Nat]
      BY <3>1, QueuedTypes, EnqueueType DEF TypeOK, ClosedTypes
    <3>3. WorkerTypes'
      BY <2>6, IdleTypes DEF Promote
    <3> QED BY <2>6, <3>2, <3>3 DEF Promote, TypeOK, ClosedTypes, WorkerTypes
  <2>7. CASE Interrupted(w)
    <3>1. job[w] \in Runs
      BY <2>7, ServedRun DEF Interrupted
    <3>2. ClosedTypes' /\ LedgerTypes'
      BY <2>7, <3>1, CloseAsTypes DEF Interrupted
    <3>3. budget' \in Nat
      BY <2>7 DEF Interrupted, TypeOK
    <3>4. WorkerTypes'
      BY <2>7, IdleTypes, AtTypes DEF Interrupted
    <3> QED BY <2>7, <3>2, <3>3, <3>4
            DEF Interrupted, TypeOK, ClosedTypes, LedgerTypes, WorkerTypes
  <2>8. CASE RecordStopped(w)
    <3>1. WorkerTypes'
      BY <2>8, IdleTypes DEF RecordStopped
    <3> QED BY <2>8, <3>1 DEF RecordStopped, TypeOK, WorkerTypes
  <2> QED BY <1>8, <2>1, <2>2, <2>3, <2>4, <2>5, <2>6, <2>7, <2>8, <2>9, <2>10
          DEF EndExecution
<1>9. CASE Crash(w)
  <2>1. jobs' \in [Runs -> Nat]
    BY <1>9, EnqueueType DEF Crash
  <2>2. WorkerTypes'
    BY <1>9, IdleTypes DEF Crash
  <2> QED BY <1>9, <2>1, <2>2 DEF Crash, Spend, TypeOK, WorkerTypes
<1> QED BY <1>1, <1>2, <1>3, <1>5, <1>6, <1>7, <1>8, <1>9, <1>10
-----------------------------------------------------------------------------
\* Every step of the system is one of the two kinds.
LEMMA StepsOfNext ==
  ASSUME Next
  PROVE  \/ \E r \in Runs :
              \/ SubmitTurn(r) \/ SubmitRevision(r) \/ ClaimMessage(r) \/ ApiStep(r)
              \/ ApiCrash(r) \/ RequestCancel(r) \/ RequestStop(r)
              \/ ResolveInterrupt(r) \/ AcceptArtifact(r) \/ DecidePackage(r)
              \/ Expire(r) \/ RetryDue(r) \/ Recover(r)
              \/ LoseJob(r)
         \/ \E w \in Workers :
              \/ \E r \in Runs :
                   AcquireCancelled(w, r) \/ AcquireRefused(w, r) \/ Acquire(w, r)
              \/ Heartbeat(w) \/ StartTask(w) \/ StartSkill(w) \/ StartChildSkill(w)
              \/ Resume(w) \/ Reacquire(w) \/ EndExecution(w) \/ Crash(w)
BY DEF Next, Deliver

\* Every column keeps its type, for every instance: the CHECK constraints of
\* the tables are never violated and a busy worker always serves a run.
THEOREM TypeCorrect == Spec => []TypeOK
<1>1. Init => TypeOK
  BY BoundsAssumption, WorkersAssumption
     DEF Init, TypeOK, TaskStatuses
<1>2. TypeOK /\ [Next]_vars => TypeOK'
  <2> SUFFICES ASSUME TypeOK, [Next]_vars
               PROVE  TypeOK'
    OBVIOUS
  <2>1. CASE Next
    BY <2>1, StepsOfNext, RunStepTypes, WorkerStepTypes
  <2>2. CASE UNCHANGED vars
    BY <2>2 DEF vars, rowVars, ledgerVars, workerVars, TypeOK
  <2> QED BY <2>1, <2>2
<1> QED BY <1>1, <1>2, PTL DEF Spec
-----------------------------------------------------------------------------
(***************************************************************************)
(* The attempt number as a fence.  Only two kinds of step hand out an      *)
(* attempt, Take and CreatesSkill; both raise the number of the run and    *)
(* name its new executor in the same transaction.  All other steps leave   *)
(* attempts alone, at most clear an owner and at most end an execution.    *)
(***************************************************************************)
LeavesFence ==
  /\ attempt' = attempt
  /\ \A r \in Runs : owner'[r] \in {owner[r], NoWorker}
  /\ \A w \in Workers : \/ pc'[w] = "idle"
                        \/ pc[w] # "idle" /\ job'[w] = job[w] /\ stamp'[w] = stamp[w]

\* A step that hands out no attempt keeps the fence.
LEMMA FenceLeft ==
  ASSUME TypeOK, AttemptsFence, LeavesFence, TypeOK'
  PROVE  AttemptsFence'
<1> SUFFICES ASSUME NEW w \in Workers, pc'[w] # "idle"
             PROVE  /\ stamp'[w] <= attempt'[job'[w]]
                    /\ owner'[job'[w]] = w => stamp'[w] = attempt'[job'[w]]
                    /\ \A v \in Workers \ {w} :
                         (pc'[v] # "idle" /\ job'[v] = job'[w]) => stamp'[v] # stamp'[w]
  BY DEF AttemptsFence, Executes
<1>1. /\ pc[w] # "idle" /\ job'[w] = job[w] /\ stamp'[w] = stamp[w]
      /\ job[w] \in Runs
  BY ServedRun DEF LeavesFence
<1>2. owner'[job[w]] = w => owner[job[w]] = w
  BY <1>1, WorkersAssumption DEF LeavesFence
<1> QED BY <1>1, <1>2 DEF LeavesFence, AttemptsFence, Executes

\* A run whose attempt is raised for the executor that takes it is fenced.
LEMMA FenceRaised ==
  ASSUME TypeOK, AttemptsFence, TypeOK',
         NEW w \in Workers, NEW r \in Runs,
         attempt' = [attempt EXCEPT ![r] = @ + 1],
         stamp' = [stamp EXCEPT ![w] = attempt[r] + 1],
         job'[w] = r,
         \A v \in Workers \ {w} : pc'[v] = pc[v] /\ job'[v] = job[v],
         \A q \in Runs \ {r} : owner'[q] = owner[q],
         owner'[r] \in {w, NoWorker}
  PROVE  AttemptsFence'
<1> SUFFICES ASSUME NEW v \in Workers, pc'[v] # "idle"
             PROVE  /\ stamp'[v] <= attempt'[job'[v]]
                    /\ owner'[job'[v]] = v => stamp'[v] = attempt'[job'[v]]
                    /\ \A u \in Workers \ {v} :
                         (pc'[u] # "idle" /\ job'[u] = job'[v]) => stamp'[u] # stamp'[v]
  BY DEF AttemptsFence, Executes
<1>1. \A u \in Workers \ {w} : pc'[u] # "idle" =>
        /\ job'[u] = job[u] /\ stamp'[u] = stamp[u] /\ job[u] \in Runs
        /\ stamp[u] \in Nat /\ attempt[job[u]] \in Nat /\ stamp[u] <= attempt[job[u]]
  BY ServedRun DEF TypeOK, AttemptsFence
<1>2. job'[w] = r /\ stamp'[w] = attempt[r] + 1 /\ attempt'[r] = attempt[r] + 1
      /\ attempt[r] \in Nat
  BY DEF TypeOK
<1>3. \A u \in Workers \ {w} : (pc'[u] # "idle" /\ job'[u] = r) => stamp'[u] # stamp'[w]
  BY <1>1, <1>2
<1>4. CASE v = w
  BY <1>2, <1>3, <1>4
<1>5. CASE v # w
  <2>1. /\ pc[v] # "idle" /\ job'[v] = job[v] /\ stamp'[v] = stamp[v]
        /\ job[v] \in Runs /\ stamp[v] \in Nat /\ attempt[job[v]] \in Nat
        /\ stamp[v] <= attempt[job[v]]
    BY <1>1, <1>5
  <2>2. stamp'[v] <= attempt'[job'[v]]
    BY <1>2, <2>1 DEF TypeOK
  <2>3. owner'[job'[v]] = v => stamp'[v] = attempt'[job'[v]]
    <3>1. CASE job[v] = r
      BY <1>5, <2>1, <3>1, WorkersAssumption
    <3>2. CASE job[v] # r
      BY <2>1, <3>2 DEF AttemptsFence, TypeOK
    <3> QED BY <3>1, <3>2
  <2>4. ASSUME NEW u \in Workers \ {v}, pc'[u] # "idle", job'[u] = job'[v]
        PROVE  stamp'[u] # stamp'[v]
    <3>1. CASE u = w
      BY <1>2, <1>3, <1>5, <2>1, <2>4, <3>1
    <3>2. CASE u # w
      <4>1. pc[u] # "idle" /\ job'[u] = job[u] /\ stamp'[u] = stamp[u]
        BY <1>1, <2>4, <3>2
      <4>2. job[u] = job[v]
        BY <2>1, <2>4, <4>1
      <4>3. stamp[u] # stamp[v]
        BY <2>1, <4>1, <4>2 DEF AttemptsFence, Executes
      <4> QED BY <2>1, <4>1, <4>3
    <3> QED BY <3>1, <3>2
  <2> QED BY <2>2, <2>3, <2>4
<1> QED BY <1>4, <1>5

\* A closure that is given the current owner keeps or clears it.
LEMMA CloseLeavesOwner ==
  ASSUME TypeOK, NEW r \in Runs, NEW q, NEW lse, NEW rty, Close(r, q, owner[r], lse, rty)
  PROVE  \A s \in Runs : owner'[s] \in {owner[s], NoWorker}
BY DEF Close, TypeOK

\* So does one that leaves the caller's columns as they are.
LEMMA CloseAsLeavesOwner ==
  ASSUME TypeOK, NEW r \in Runs, NEW q, CloseAs(r, q)
  PROVE  \A s \in Runs : owner'[s] \in {owner[s], NoWorker}
BY CloseLeavesOwner DEF CloseAs

\* Re-queueing clears at most one owner.
LEMMA QueuedLeavesOwner ==
  ASSUME TypeOK, NEW r, NEW q, Queued(r, q)
  PROVE  \A s \in Runs : owner'[s] \in {owner[s], NoWorker}
BY DEF Queued, TypeOK

\* The end of an execution empties one slot and leaves the others.
LEMMA IdleLeavesFence ==
  ASSUME TypeOK, NEW w \in Workers, Idle(w)
  PROVE  \A v \in Workers : \/ pc'[v] = "idle"
                            \/ pc[v] # "idle" /\ job'[v] = job[v] /\ stamp'[v] = stamp[v]
BY DEF Idle, TypeOK

\* A worker that goes to its next step stays with its run and attempt.
LEMMA AtLeavesFence ==
  ASSUME TypeOK, NEW w \in Workers, NEW step, At(w, step), pc[w] # "idle"
  PROVE  \A v \in Workers : \/ pc'[v] = "idle"
                            \/ pc[v] # "idle" /\ job'[v] = job[v] /\ stamp'[v] = stamp[v]
BY DEF At, TypeOK

\* Nor does one that was told a status, or one that returns from its skill.
LEMMA WithLeavesFence ==
  ASSUME TypeOK, NEW w \in Workers, NEW step, NEW st, With(w, step, st), pc[w] # "idle"
  PROVE  \A v \in Workers : \/ pc'[v] = "idle"
                            \/ pc[v] # "idle" /\ job'[v] = job[v] /\ stamp'[v] = stamp[v]
BY DEF With, TypeOK

LEMMA ReturnLeavesFence ==
  ASSUME TypeOK, NEW w \in Workers, NEW st, Return(w, st), pc[w] # "idle"
  PROVE  \A v \in Workers : \/ pc'[v] = "idle"
                            \/ pc[v] # "idle" /\ job'[v] = job[v] /\ stamp'[v] = stamp[v]
BY IdleLeavesFence, WithLeavesFence DEF Return

\* Users, the API, time and Redis hand out no attempt.
LEMMA RunStepsLeaveFence ==
  ASSUME TypeOK, NEW r \in Runs,
         \/ SubmitTurn(r) \/ SubmitRevision(r) \/ ClaimMessage(r) \/ ApiStep(r)
         \/ ApiCrash(r) \/ RequestCancel(r) \/ RequestStop(r)
         \/ ResolveInterrupt(r) \/ AcceptArtifact(r) \/ DecidePackage(r)
         \/ Expire(r) \/ RetryDue(r) \/ Recover(r)
         \/ LoseJob(r)
  PROVE  LeavesFence
<1>1. attempt' = attempt /\ UNCHANGED <<pc, job, stamp>>
  BY DEF SubmitTurn, SubmitRevision, ClaimMessage, ApiStep, QueueBehind, StartInline,
         BindTask, RestartTask, MarkQueued, InlineFails, ApiCrash, RequestCancel, RequestStop,
         ResolveInterrupt, AcceptArtifact, DecidePackage, Expire, RetryDue, Recover, LoseJob,
         rowVars, workerVars
<1>2. \A s \in Runs : owner'[s] \in {owner[s], NoWorker}
  <2>1. CASE SubmitTurn(r) \/ MarkQueued(r) \/ ResolveInterrupt(r)
    BY <2>1, QueuedLeavesOwner DEF SubmitTurn, MarkQueued, ResolveInterrupt
  <2>2. CASE SubmitRevision(r)
    BY <2>2 DEF SubmitRevision, Supplement, TypeOK
  <2>3. CASE QueueBehind(r)
    BY <2>3, QueuedLeavesOwner DEF QueueBehind
  <2>4. CASE InlineFails(r)
    BY <2>4, CloseAsLeavesOwner DEF InlineFails
  <2>5. CASE RequestStop(r)
    BY <2>5, CloseAsLeavesOwner DEF RequestStop
  <2>7. CASE AcceptArtifact(r) \/ DecidePackage(r)
    BY <2>7, QueuedLeavesOwner, CloseAsLeavesOwner
       DEF AcceptArtifact, DecidePackage, ResumeParent
  <2>6. CASE \/ ClaimMessage(r) \/ StartInline(r) \/ BindTask(r) \/ RestartTask(r) \/ ApiCrash(r)
             \/ RequestCancel(r) \/ Expire(r) \/ RetryDue(r) \/ Recover(r) \/ LoseJob(r)
    BY <2>6 DEF ClaimMessage, StartInline, BindTask, RestartTask, ApiCrash, RequestCancel, Expire,
                RetryDue, Recover, LoseJob, rowVars
  <2> QED BY <2>1, <2>2, <2>3, <2>4, <2>5, <2>6, <2>7 DEF ApiStep
<1>3. \A w \in Workers : pc'[w] # "idle" => pc[w] # "idle"
  BY <1>1
<1> QED BY <1>1, <1>2, <1>3 DEF LeavesFence

\* Every end of an execution, also a late one.
LEMMA EndsLeaveFence ==
  ASSUME TypeOK, NEW w \in Workers, EndExecution(w)
  PROVE  LeavesFence
<1> DEFINE Slots == \A v \in Workers :
                      \/ pc'[v] = "idle"
                      \/ pc[v] # "idle" /\ job'[v] = job[v] /\ stamp'[v] = stamp[v]
           Owners == \A s \in Runs : owner'[s] \in {owner[s], NoWorker}
<1>1. ASSUME NEW st, FinishTurn(w, st)
      PROVE  attempt' = attempt /\ Owners /\ Slots
  <2>1. attempt' = attempt /\ Owners
    BY <1>1, ServedRun, CloseAsLeavesOwner DEF FinishTurn, InSkill
  <2>2. Slots
    BY <1>1, IdleLeavesFence, ReturnLeavesFence DEF FinishTurn, InSkill
  <2> QED BY <2>1, <2>2
<1>2. ASSUME NEW st, Complete(w, st)
      PROVE  attempt' = attempt /\ Owners /\ Slots
  BY <1>2, ServedRun, CloseAsLeavesOwner, AtLeavesFence DEF Complete
<1>3. ASSUME NEW kind, Release(w, kind)
      PROVE  attempt' = attempt /\ Owners /\ Slots
  <2>1. job[w] \in Runs
    BY <1>3, ServedRun DEF Release
  <2>2. \/ UNCHANGED owner
        \/ Close(job[w], "retry_wait", owner[job[w]], lease[job[w]], "later")
        \/ CloseAs(job[w], "failed")
        \/ CloseAs(job[w], "dead_letter")
    BY <1>3 DEF Release
  <2>3. Owners
    BY <2>1, <2>2, CloseLeavesOwner, CloseAsLeavesOwner
  <2>4. attempt' = attempt /\ Idle(w)
    BY <1>3 DEF Release
  <2> QED BY <2>3, <2>4, IdleLeavesFence
<1>4. CASE RequestInterrupt(w)
  <2>1. attempt' = attempt /\ Owners
    BY <1>4, ServedRun, CloseAsLeavesOwner DEF RequestInterrupt, InSkill
  <2>2. Slots
    BY <1>4, IdleLeavesFence, ReturnLeavesFence DEF RequestInterrupt, InSkill
  <2> QED BY <2>1, <2>2 DEF LeavesFence
<1>5. CASE LoseSkillLease(w) \/ RecordStopped(w)
  <2>1. attempt' = attempt /\ owner' = owner
    BY <1>5 DEF LoseSkillLease, RecordStopped, rowVars
  <2>2. Slots
    BY <1>5, IdleLeavesFence, WithLeavesFence, ReturnLeavesFence
       DEF LoseSkillLease, RecordStopped
  <2> QED BY <2>1, <2>2 DEF LeavesFence
<1>8. CASE CloseParent(w) \/ ReportResult(w)
  <2>1. attempt' = attempt /\ Owners
    BY <1>8, ServedRun, CloseAsLeavesOwner DEF CloseParent, ReportResult
  <2>2. Slots
    BY <1>8, IdleLeavesFence, AtLeavesFence, ReturnLeavesFence DEF CloseParent, ReportResult
  <2> QED BY <2>1, <2>2 DEF LeavesFence
<1>6. CASE Promote(w)
  <2>1. Owners
    BY <1>6, QueuedLeavesOwner DEF Promote
  <2> QED BY <1>6, <2>1, IdleLeavesFence DEF Promote, LeavesFence
<1>7. CASE Interrupted(w)
  <2>1. Owners
    BY <1>7, ServedRun, CloseAsLeavesOwner DEF Interrupted
  <2>2. Slots
    BY <1>7, IdleLeavesFence, AtLeavesFence DEF Interrupted
  <2> QED BY <1>7, <2>1, <2>2 DEF Interrupted, LeavesFence
<1> QED BY <1>1, <1>2, <1>3, <1>4, <1>5, <1>6, <1>7, <1>8 DEF EndExecution, LeavesFence

\* An acquisition raises the attempt for the worker it names.
LEMMA TakeRaisesFence ==
  ASSUME TypeOK, AttemptsFence, TypeOK', NEW w \in Workers, NEW r \in Runs, NEW step,
         Take(w, r, step)
  PROVE  AttemptsFence'
<1>1. /\ attempt' = [attempt EXCEPT ![r] = @ + 1]
      /\ stamp' = [stamp EXCEPT ![w] = attempt[r] + 1]
  BY DEF Take, NextAttempt
<1>2. /\ job'[w] = r
      /\ \A v \in Workers \ {w} : pc'[v] = pc[v] /\ job'[v] = job[v]
  BY DEF Take, TypeOK
<1>3. /\ \A q \in Runs \ {r} : owner'[q] = owner[q]
      /\ owner'[r] \in {w, NoWorker}
  BY DEF Take, Close, TypeOK
<1> QED BY <1>1, <1>2, <1>3, FenceRaised

\* So does the creation of a SkillRun, whoever held the lease.
LEMMA SkillRaisesFence ==
  ASSUME TypeOK, AttemptsFence, TypeOK', NEW w \in Workers, pc[w] # "idle",
         CreatesSkill(w, job[w])
  PROVE  AttemptsFence'
<1> DEFINE r == job[w]
<1>1. r \in Runs
  BY ServedRun
<1>2. /\ attempt' = [attempt EXCEPT ![r] = @ + 1]
      /\ stamp' = [stamp EXCEPT ![w] = attempt[r] + 1]
  BY DEF CreatesSkill
<1>3. /\ job'[w] = r
      /\ \A v \in Workers \ {w} : pc'[v] = pc[v] /\ job'[v] = job[v]
  BY DEF CreatesSkill, TypeOK
<1>4. /\ \A q \in Runs \ {r} : owner'[q] = owner[q]
      /\ owner'[r] \in {w, NoWorker}
  BY <1>1 DEF CreatesSkill, TypeOK
<1> QED BY <1>1, <1>2, <1>3, <1>4, FenceRaised

\* However often a run is delivered, taken over, resumed or given a SkillRun,
\* its attempt number tells its executors apart, and the one that holds the
\* lease carries the current number.
THEOREM AttemptsFenceExecutors == Spec => []AttemptsFence
<1>1. Init => AttemptsFence
  BY DEF Init, AttemptsFence
<1>2. TypeOK /\ TypeOK' /\ AttemptsFence /\ [Next]_vars => AttemptsFence'
  <2> SUFFICES ASSUME TypeOK, TypeOK', AttemptsFence, [Next]_vars
               PROVE  AttemptsFence'
    OBVIOUS
  <2>1. CASE UNCHANGED vars
    BY <2>1 DEF vars, rowVars, workerVars, AttemptsFence, Executes
  <2>2. ASSUME NEW r \in Runs,
               \/ SubmitTurn(r) \/ SubmitRevision(r) \/ ClaimMessage(r) \/ ApiStep(r)
               \/ ApiCrash(r) \/ RequestCancel(r) \/ RequestStop(r)
               \/ ResolveInterrupt(r) \/ AcceptArtifact(r) \/ DecidePackage(r)
               \/ Expire(r) \/ RetryDue(r) \/ Recover(r)
               \/ LoseJob(r)
        PROVE  AttemptsFence'
    BY <2>2, RunStepsLeaveFence, FenceLeft
  <2>3. ASSUME NEW w \in Workers,
               \/ \E r \in Runs :
                    AcquireCancelled(w, r) \/ AcquireRefused(w, r) \/ Acquire(w, r)
               \/ Heartbeat(w) \/ StartTask(w) \/ StartSkill(w) \/ StartChildSkill(w)
               \/ Resume(w) \/ Reacquire(w) \/ EndExecution(w) \/ Crash(w)
        PROVE  AttemptsFence'
    <3>1. ASSUME NEW r \in Runs, Acquire(w, r)
          PROVE  AttemptsFence'
      BY <3>1, TakeRaisesFence DEF Acquire
    <3>2. ASSUME NEW r \in Runs, AcquireCancelled(w, r) \/ AcquireRefused(w, r)
          PROVE  AttemptsFence'
      <4>1. \A s \in Runs : owner'[s] \in {owner[s], NoWorker}
        BY <3>2, CloseAsLeavesOwner
           DEF AcquireCancelled, AcquireRefused, CloseCancelled, rowVars
      <4>2. attempt' = attempt /\ UNCHANGED <<pc, job, stamp>>
        BY <3>2 DEF AcquireCancelled, AcquireRefused, CloseCancelled, rowVars, workerVars
      <4> QED BY <4>1, <4>2, FenceLeft DEF LeavesFence
    <3>3. CASE Heartbeat(w)
      BY <3>3, FenceLeft DEF Heartbeat, workerVars, LeavesFence
    <3>4. CASE StartTask(w) \/ Resume(w)
      BY <3>4, AtLeavesFence, FenceLeft DEF StartTask, Resume, rowVars, LeavesFence
    <3>5. CASE StartSkill(w) \/ StartChildSkill(w)
      BY <3>5, SkillRaisesFence DEF StartSkill, StartChildSkill
    <3>6. CASE Reacquire(w)
      <4> DEFINE r == job[w]
      <4>1. r \in Runs /\ pc[w] # "idle"
        BY <3>6, ServedRun DEF Reacquire
      <4>2. CASE Take(w, r, "work")
        BY <4>1, <4>2, TakeRaisesFence
      <4>3. CASE CloseCancelled(r) /\ \E st : Return(w, st)
        BY <4>1, <4>3, CloseAsLeavesOwner, ReturnLeavesFence, FenceLeft
           DEF CloseCancelled, LeavesFence
      <4>4. CASE (\E st : Return(w, st)) /\ UNCHANGED <<rowVars, ledgerVars>>
        BY <4>1, <4>4, ReturnLeavesFence, FenceLeft DEF rowVars, LeavesFence
      <4> QED BY <3>6, <4>2, <4>3, <4>4 DEF Reacquire
    <3>7. CASE EndExecution(w)
      BY <3>7, EndsLeaveFence, FenceLeft
    <3>8. CASE Crash(w)
      BY <3>8, IdleLeavesFence, FenceLeft DEF Crash, rowVars, LeavesFence
    <3> QED BY <2>3, <3>1, <3>2, <3>3, <3>4, <3>5, <3>6, <3>7, <3>8
  <2> QED BY <2>1, <2>2, <2>3, StepsOfNext
<1> QED BY <1>1, <1>2, TypeCorrect, PTL DEF Spec

------------------------------------------------------------------------------
\* The API still holds the row of a message between two of its transactions.
Preparing(r) == api[r] \in {"claimed", "free", "inline", "bound", "prepared"}
Live(r) == Recorded(r) /\ ~Preparing(r) /\ status[r] # "waiting_predecessor"

(***************************************************************************)
(* Where a row may come from.  Nothing reaches a run before its row is     *)
(* committed, the API has let go of it and it need not wait: no job, no    *)
(* lease, no worker.  Only turns wait for an answer, only messages are     *)
(* claimed, and turns wait for no predecessor.                             *)
(***************************************************************************)
Provenance(r) ==
  /\ api[r] # "idle" => r \in Messages
  /\ Preparing(r) => status[r] = IF api[r] \in {"claimed", "free"} THEN "claimed"
                                 ELSE "running"
  /\ ~Live(r) => jobs[r] = 0 /\ lease[r] = "none" /\ \A w \in Workers : job[w] # r
  /\ ~Recorded(r) => api[r] = "idle" /\ interrupt[r] = "none" /\ turn[r] = "none"
  /\ interrupt[r] = "pending" => r \in Turns
  /\ status[r] = "claimed" => r \in Messages
  /\ status[r] = "waiting_predecessor" => r \notin Turns
RowsKeepProvenance == \A r \in Runs : Provenance(r)

(***************************************************************************)
(* The ways in which one step may move one row.                            *)
(***************************************************************************)
SameAttempt(r) == attempt'[r] = attempt[r]
SameColumns(r) ==
  /\ status'[r] = status[r] /\ turn'[r] = turn[r] /\ owner'[r] = owner[r]
  /\ lease'[r] = lease[r] /\ retry'[r] = retry[r]
Cleared(r) == owner'[r] = NoWorker /\ lease'[r] = "none" /\ retry'[r] = "none"

\* Time and heartbeats touch the lease and the retry time but set or clear none.
Kept(r) ==
  /\ SameAttempt(r) /\ status'[r] = status[r] /\ turn'[r] = turn[r]
  /\ owner'[r] = owner[r] /\ interrupt'[r] = interrupt[r]
  /\ lease'[r] = "none" <=> lease[r] = "none"
  /\ retry'[r] = "none" <=> retry[r] = "none"
  /\ \/ api'[r] \in {api[r], "idle"}
     \/ <<api[r], api'[r]>> \in {<<"claimed", "free">>, <<"inline", "bound">>,
                                 <<"bound", "prepared">>}
Born(r) ==
  /\ ~Recorded(r) /\ SameAttempt(r) /\ interrupt'[r] = interrupt[r]
  /\ lease'[r] = "none" /\ owner'[r] \in {owner[r], NoWorker}
  /\ retry'[r] \in {retry[r], "none"}
  /\ \/ /\ r \in Turns /\ status'[r] = "queued" /\ turn'[r] = "queued"
        /\ api'[r] = api[r] /\ Cleared(r)
     \/ /\ r \in Revisions /\ status'[r] \in {"queued", "waiting_predecessor"}
        /\ api'[r] = api[r] /\ owner'[r] = owner[r]
     \/ /\ r \in Messages /\ status'[r] = "claimed" /\ api'[r] = "claimed"
        /\ owner'[r] = owner[r]
\* The API's own preparation of a message it has claimed.
Prepared(r) ==
  /\ SameAttempt(r) /\ turn'[r] = turn[r] /\ interrupt'[r] = interrupt[r]
  /\ \/ /\ api[r] = "claimed" /\ api'[r] = "behind"
        /\ status'[r] = "waiting_predecessor" /\ Cleared(r)
     \/ /\ api[r] = "free" /\ api'[r] = "inline" /\ status'[r] = "running"
        /\ owner'[r] = owner[r] /\ lease'[r] = lease[r] /\ retry'[r] = retry[r]
     \/ /\ api[r] = "prepared" /\ api'[r] = "idle"
        /\ status'[r] = "queued" /\ Cleared(r)
\* What Close does to its row.
CloseRow(r, q, own, lse, rty) ==
  LET eff == EffectiveStatus(status[r], q) IN
  /\ status'[r] = eff
  /\ owner'[r] = IF KeepsLease(eff) THEN own ELSE NoWorker
  /\ lease'[r] = IF KeepsLease(eff) THEN lse ELSE "none"
  /\ retry'[r] = IF eff \in TerminalStatuses THEN "none" ELSE rty
  /\ turn'[r]  = IF turn[r] = "none" THEN "none" ELSE TurnStatus(eff)
\* A worker records what a skill told it.
Reported(r, q) ==
  \E w \in Workers : pc[w] \in {"close", "report"} /\ job[w] = r /\ result[w] = q
\* The statuses anybody asks a closure for, and what each is asked under.
Requested(r, q) ==
  /\ q \in {"running", "retry_wait"} \cup PausedStatuses \cup TerminalStatuses
  /\ q = "running" => r \in Messages \/ Reported(r, q)
  /\ q = "dead_letter" => attempt[r] >= MaxAttempts
\* Only the release of a failure sets the time of a retry, within the budget.
RetryAsked(r, q, rty) ==
  \/ rty = retry[r] /\ (q = "retry_wait" => Reported(r, q))
  \/ rty = "later" /\ q = "retry_wait" /\ attempt[r] < MaxAttempts
Closed(r) ==
  /\ Recorded(r) /\ SameAttempt(r)
  /\ api'[r] \in {api[r], "idle"} /\ (Preparing(r) => api'[r] = "idle")
  /\ interrupt'[r] = "pending" => interrupt[r] = "pending" \/ r \in Turns
  /\ \E q \in RunStatuses, rty \in {retry[r], "later"} :
       /\ Requested(r, q) /\ RetryAsked(r, q, rty)
       /\ CloseRow(r, q, owner[r], lease[r], rty)
Raised(r) ==
  /\ Live(r) /\ attempt'[r] = attempt[r] + 1
  /\ interrupt'[r] = interrupt[r] /\ api'[r] = api[r]
Taken(r) == Raised(r) /\ \E w \in Workers : CloseRow(r, "running", w, "live", "none")
\* A SkillRun leases its run, whatever the status of the run.
Leased(r) ==
  /\ Raised(r) /\ SkillMode(r) /\ status[r] \notin TerminalStatuses
  /\ owner'[r] \in Workers /\ lease'[r] = "live" /\ retry'[r] = "none"
  /\ \/ status'[r] = status[r] /\ turn'[r] = turn[r]
     \/ status'[r] = "running" /\ turn'[r] = "running"
\* A person answers an interrupt or decides what a paused run waits for.
Resumed(r) ==
  /\ SameAttempt(r) /\ api'[r] = api[r]
  /\ \/ interrupt[r] = "pending" /\ interrupt'[r] = "resolved"
     \/ status[r] \in PausedStatuses /\ interrupt'[r] \in {interrupt[r], "resolved"}
  /\ status'[r] = "queued" /\ turn'[r] = "queued" /\ Cleared(r)
Promoted(r) ==
  /\ SameAttempt(r) /\ api'[r] = api[r] /\ interrupt'[r] = interrupt[r]
  /\ r \in Waiting(TaskOf[r]) /\ ~Busy(TaskOf[r])
  /\ \A s \in Waiting(TaskOf[r]) : r <= s
  /\ status'[r] = "queued" /\ turn'[r] = turn[r] /\ Cleared(r)
Superseded(r) ==
  /\ SameAttempt(r) /\ api'[r] = api[r] /\ interrupt'[r] \in {interrupt[r], "superseded"}
  /\ r \in Turns /\ status[r] = "waiting_permission"
  /\ status'[r] = "stopped" /\ turn'[r] = "stopped" /\ Cleared(r)

RowMoves(r) ==
  \/ Kept(r) \/ Born(r) \/ Prepared(r) \/ Closed(r) \/ Taken(r) \/ Leased(r)
  \/ Resumed(r) \/ Promoted(r) \/ Superseded(r)

\* A job or a worker comes to a run only if the run is live, before or after.
SlotMoves(r) ==
  \/ Live(r) \/ Live(r)'
  \/ jobs'[r] = jobs[r] /\ \A w \in Workers : job'[w] = r => job[w] = r

\* A row no action names.
Aside(r) ==
  /\ SameColumns(r) /\ SameAttempt(r) /\ interrupt'[r] = interrupt[r]
  /\ api'[r] = api[r]

\* A row whose columns a step leaves alone is one that is kept.
LEMMA AsideIsKept == ASSUME NEW r, Aside(r) PROVE RowMoves(r)
BY DEF Aside, RowMoves, Kept, SameColumns

\* A closure moves the row it names and no other.
LEMMA CloseMovesRow ==
  ASSUME TypeOK, NEW r \in Runs, NEW q, NEW own, NEW lse, NEW rty,
         Close(r, q, own, lse, rty)
  PROVE  /\ CloseRow(r, q, own, lse, rty)
         /\ \A s \in Runs \ {r} : SameColumns(s)
BY DEF Close, CloseRow, SameColumns, TypeOK

\* A closure of one row, with no more than the API's own state beside it, moves that
\* row as a closure and no other row.
LEMMA ClosureMoves ==
  ASSUME TypeOK, NEW r \in Runs, NEW q \in RunStatuses, Recorded(r), Requested(r, q),
         q = "retry_wait" => Reported(r, q),
         CloseAs(r, q), attempt' = attempt,
         api' = api \/ api' = [api EXCEPT ![r] = "idle"],
         Preparing(r) => api'[r] = "idle",
         interrupt'[r] = "pending" => interrupt[r] = "pending" \/ r \in Turns,
         \A s \in Runs \ {r} : interrupt'[s] = interrupt[s]
  PROVE  \A s \in Runs : RowMoves(s)
<1>1. /\ CloseRow(r, q, owner[r], lease[r], retry[r])
      /\ \A s \in Runs \ {r} : SameColumns(s)
  BY CloseMovesRow DEF CloseAs
<1>2. Closed(r)
  <2>1. RetryAsked(r, q, retry[r])
    BY DEF RetryAsked
  <2> QED BY <1>1, <2>1 DEF Closed, SameAttempt, TypeOK
<1>3. \A s \in Runs \ {r} : Aside(s)
  BY <1>1 DEF Aside, SameAttempt, TypeOK
<1> QED BY <1>2, <1>3, AsideIsKept DEF RowMoves
-----------------------------------------------------------------------------
\* The oldest waiting follow-up exists and is no younger than any other.
LEMMA OldestWaits ==
  ASSUME NEW S \in SUBSET Runs, S # {}
  PROVE  Oldest(S) \in S /\ \A s \in S : Oldest(S) <= s
<1>1. S \subseteq Nat
  BY RunsAssumption
<1> DEFINE Less == OpToRel(<, Nat)
<1>2. \A a, b \in Nat : a < b => <<a, b>> \in Less
  BY DEF OpToRel
<1>3. IsWellFoundedOn(Less, Nat)
  BY NatLessThanWellFounded
<1> HIDE DEF Less
<1>4. PICK m \in S : \A s \in S : ~ (<<s, m>> \in Less)
  BY <1>1, <1>3, WFMin
<1>5. \A s \in S : m <= s
  <2> TAKE s \in S
  <2>1. s \in Nat /\ m \in Nat /\ ~ (s < m)
    BY <1>1, <1>2, <1>4
  <2> QED BY <2>1
<1> QED BY <1>5 DEF Oldest

\* Submission, the steps of the API, users, time and the recovery scan.
LEMMA RunStepMoves ==
  ASSUME TypeOK, RowsKeepProvenance, NEW r \in Runs,
         \/ SubmitTurn(r) \/ SubmitRevision(r) \/ ClaimMessage(r) \/ ApiStep(r)
         \/ ApiCrash(r) \/ RequestCancel(r) \/ RequestStop(r)
         \/ ResolveInterrupt(r) \/ AcceptArtifact(r) \/ DecidePackage(r)
         \/ Expire(r) \/ RetryDue(r) \/ Recover(r)
         \/ LoseJob(r)
  PROVE  \A s \in Runs : RowMoves(s)
<1> USE DEF rowVars, ledgerVars, workerVars
<1> DEFINE Others == \A s \in Runs \ {r} : Aside(s)
<1>0. Provenance(r)
  BY DEF RowsKeepProvenance
<1>1. CASE SubmitTurn(r)
  <2>1. Born(r) /\ Others
    BY <1>1 DEF SubmitTurn, Queued, Born, Cleared, Aside, SameColumns, SameAttempt, TypeOK
  <2> QED BY <2>1, AsideIsKept DEF RowMoves
<1>2. CASE SubmitRevision(r)
  <2> PICK s \in Turns : Supplement(r, s)
    BY <1>2 DEF SubmitRevision
  <2>1. s \in Runs /\ r \in Revisions /\ s # r
    BY <1>2, RunsAssumption DEF SubmitRevision, Runs
  <2>2. SameAttempt(r) /\ SameAttempt(s) /\ api' = api
    BY <1>2 DEF SubmitRevision, SameAttempt
  <2>3. Born(r)
    <3>1. status'[r] \in {"queued", "waiting_predecessor"}
      BY <2>1 DEF Supplement, TypeOK
    <3>2. /\ interrupt'[r] = interrupt[r] /\ lease'[r] = lease[r]
          /\ owner'[r] = owner[r] /\ retry'[r] = retry[r]
      BY <2>1 DEF Supplement, TypeOK
    <3> QED BY <1>0, <1>2, <2>1, <2>2, <3>1, <3>2 DEF SubmitRevision, Born, Provenance, Live
  <2>4. CASE status[s] = "waiting_permission"
    <3>1. Superseded(s)
      BY <2>1, <2>2, <2>4 DEF Supplement, Superseded, Cleared, TypeOK
    <3>2. \A q \in Runs \ {r, s} : Aside(q)
      BY <1>2, <2>1 DEF SubmitRevision, Supplement, Aside, SameColumns, SameAttempt, TypeOK
    <3> QED BY <2>3, <3>1, <3>2, AsideIsKept DEF RowMoves
  <2>5. CASE status[s] # "waiting_permission"
    <3>1. Others
      BY <1>2, <2>1, <2>5 DEF SubmitRevision, Supplement, Aside, SameColumns, SameAttempt, TypeOK
    <3> QED BY <2>3, <3>1, AsideIsKept DEF RowMoves
  <2> QED BY <2>4, <2>5
<1>3. CASE ClaimMessage(r)
  <2>1. Born(r) /\ Others
    BY <1>0, <1>3 DEF ClaimMessage, Born, Provenance, Live, Aside, SameColumns, SameAttempt, TypeOK
  <2> QED BY <2>1, AsideIsKept DEF RowMoves
<1>4. CASE ApiStep(r)
  <2>1. CASE QueueBehind(r)
    <3>1. (Kept(r) \/ Prepared(r)) /\ Others
      BY <2>1 DEF QueueBehind, Queued, Prepared, Cleared, Kept, Aside, SameColumns, SameAttempt, TypeOK
    <3> QED BY <3>1, AsideIsKept DEF RowMoves
  <2>2. CASE StartInline(r) \/ MarkQueued(r)
    <3>1. Prepared(r) /\ Others
      BY <2>2 DEF StartInline, MarkQueued, Queued, Cleared, Prepared, Aside, SameColumns, SameAttempt, TypeOK
    <3> QED BY <3>1, AsideIsKept DEF RowMoves
  <2>3. CASE BindTask(r) \/ RestartTask(r)
    <3>1. Kept(r) /\ Others
      BY <2>3 DEF BindTask, RestartTask, Kept, Aside, SameColumns, SameAttempt, TypeOK
    <3> QED BY <3>1, AsideIsKept DEF RowMoves
  <2>6. CASE InlineFails(r)
    <3>1. CASE UNCHANGED <<status, owner, lease, retry, turn, task>>
      <4>1. Kept(r) /\ Others
        BY <2>6, <3>1 DEF InlineFails, Kept, Aside, SameColumns, SameAttempt, TypeOK
      <4> QED BY <4>1, AsideIsKept DEF RowMoves
    <3>2. CASE CloseAs(r, "failed")
      <4>1. Recorded(r) /\ Requested(r, "failed") /\ "failed" \in RunStatuses
        BY <1>0, <2>6 DEF InlineFails, Provenance, Preparing, Recorded, Requested, TerminalStatuses, RunStatuses
      <4>2. api' = [api EXCEPT ![r] = "idle"] /\ api'[r] = "idle"
        BY <2>6 DEF InlineFails, TypeOK
      <4> QED BY <2>6, <3>2, <4>1, <4>2, ClosureMoves DEF InlineFails
    <3> QED BY <2>6, <3>1, <3>2 DEF InlineFails
  <2> QED BY <1>4, <2>1, <2>2, <2>3, <2>6 DEF ApiStep
<1>5. CASE ApiCrash(r) \/ RequestCancel(r) \/ Recover(r) \/ LoseJob(r)
  <2>1. Kept(r) /\ Others
    BY <1>5 DEF ApiCrash, RequestCancel, Recover, LoseJob, Kept, Aside, SameColumns, SameAttempt, TypeOK
  <2> QED BY <2>1, AsideIsKept DEF RowMoves
<1>7. CASE RequestStop(r)
  <2>1. Requested(r, "stopped") /\ "stopped" \in RunStatuses
    BY DEF Requested, TerminalStatuses, RunStatuses
  <2>2. ~Preparing(r) /\ interrupt'[r] # "pending"
    BY <1>0, <1>7, RunsAssumption DEF RequestStop, Provenance, Preparing, TypeOK
  <2>3. \A s \in Runs \ {r} : interrupt'[s] = interrupt[s]
    BY <1>7 DEF RequestStop, TypeOK
  <2> QED BY <1>7, <2>1, <2>2, <2>3, ClosureMoves DEF RequestStop
<1>8. CASE ResolveInterrupt(r)
  <2>1. Resumed(r) /\ Others
    BY <1>8 DEF ResolveInterrupt, Queued, Resumed, Cleared, Aside, SameColumns, SameAttempt, TypeOK
  <2> QED BY <2>1, AsideIsKept DEF RowMoves
<1>9. CASE Expire(r) \/ RetryDue(r)
  <2>1. Kept(r) /\ Others
    BY <1>9 DEF Expire, RetryDue, Kept, Aside, SameColumns, SameAttempt, TypeOK
  <2> QED BY <2>1, AsideIsKept DEF RowMoves
<1>10. ASSUME ResumeParent(r), status[r] \in PausedStatuses, UNCHANGED <<attempt, api>>,
              interrupt' = interrupt \/ interrupt' = [interrupt EXCEPT ![r] = "resolved"]
       PROVE  Resumed(r) /\ Others
  BY <1>10 DEF ResumeParent, Queued, Resumed, Cleared, Aside, SameColumns, SameAttempt, TypeOK
<1>11. CASE AcceptArtifact(r)
  <2>1. Resumed(r) /\ Others
    BY <1>10, <1>11 DEF AcceptArtifact
  <2> QED BY <2>1, AsideIsKept DEF RowMoves
<1>12. CASE DecidePackage(r)
  <2>1. /\ SkillMode(r) /\ attempt' = attempt /\ api' = api
        /\ interrupt' = [interrupt EXCEPT ![r] = "resolved"]
    BY <1>12 DEF DecidePackage
  <2>2. CASE status[r] \in PausedStatuses /\ ResumeParent(r)
    <3>1. Resumed(r) /\ Others
      BY <1>10, <2>1, <2>2
    <3> QED BY <3>1, AsideIsKept DEF RowMoves
  <2>3. ASSUME NEW st \in {"completed", "blocked", "waiting_permission"}, CloseAs(r, st),
               status[r] \in ActiveStatuses \cup PausedStatuses
        PROVE  \A s \in Runs : RowMoves(s)
    <3>1. Recorded(r) /\ ~Preparing(r)
      BY <1>0, <2>1, <2>3, RunsAssumption
         DEF SkillMode, Provenance, Preparing, Recorded, ActiveStatuses, PausedStatuses
    <3>2. Requested(r, st) /\ st \in RunStatuses /\ st # "retry_wait"
      BY <2>3 DEF Requested, TerminalStatuses, PausedStatuses, RunStatuses
    <3>3. interrupt'[r] # "pending" /\ \A s \in Runs \ {r} : interrupt'[s] = interrupt[s]
      BY <2>1 DEF TypeOK
    <3> QED BY <2>1, <2>3, <3>1, <3>2, <3>3, ClosureMoves
  <2> QED BY <1>12, <2>2, <2>3 DEF DecidePackage
<1> QED
  BY <1>1, <1>2, <1>3, <1>4, <1>5, <1>7, <1>8, <1>9, <1>11, <1>12

\* A run that a worker serves is live.
LEMMA ServedIsLive ==
  ASSUME TypeOK, RowsKeepProvenance, NEW w \in Workers, pc[w] # "idle"
  PROVE  job[w] \in Runs /\ Live(job[w])
BY ServedRun DEF RowsKeepProvenance, Provenance

\* An acquisition moves the run it takes.
LEMMA TakeMoves ==
  ASSUME TypeOK, NEW w \in Workers, NEW r \in Runs, NEW step, Live(r),
         Take(w, r, step), api' = api
  PROVE  \A s \in Runs : RowMoves(s)
<1>1. /\ CloseRow(r, "running", w, "live", "none")
      /\ \A s \in Runs \ {r} : SameColumns(s)
  BY CloseMovesRow DEF Take
<1>2. Taken(r)
  BY <1>1 DEF Take, NextAttempt, Taken, Raised, TypeOK
<1>3. \A s \in Runs \ {r} : Aside(s)
  BY <1>1 DEF Take, Aside, SameAttempt, TypeOK
<1> QED BY <1>2, <1>3, AsideIsKept DEF RowMoves

\* The closure of a cancelled run instead of its start.
LEMMA CloseCancelledMoves ==
  ASSUME TypeOK, NEW r \in Runs, Live(r), CloseCancelled(r), api' = api
  PROVE  \A s \in Runs : RowMoves(s)
<1>1. Requested(r, "cancelled") /\ "cancelled" \in RunStatuses
  BY DEF Requested, TerminalStatuses, RunStatuses
<1>2. CloseAs(r, "cancelled") /\ attempt' = attempt /\ interrupt' = interrupt
  BY DEF CloseCancelled
<1> QED BY <1>1, <1>2, ClosureMoves DEF Live

\* A step that writes no row moves none.
LEMMA RestKeepsRows ==
  ASSUME UNCHANGED <<status, turn, owner, lease, retry, attempt, interrupt, api>>
  PROVE  \A s \in Runs : RowMoves(s)
BY AsideIsKept DEF Aside, SameColumns, SameAttempt

\* The creation of a SkillRun leases a run of a turn.
LEMMA SkillMoves ==
  ASSUME TypeOK, RowsKeepProvenance, NEW w \in Workers,
         StartSkill(w) \/ StartChildSkill(w)
  PROVE  \A s \in Runs : RowMoves(s)
<1> DEFINE r == job[w]
<1>1. CreatesSkill(w, r)
  BY DEF StartSkill, StartChildSkill
<1>2. r \in Runs /\ Live(r) /\ SkillMode(r)
  BY ServedIsLive DEF StartSkill, StartChildSkill, TurnMode, SkillMode
<1>3. /\ Raised(r) /\ status[r] \notin TerminalStatuses
      /\ owner'[r] \in Workers /\ lease'[r] = "live" /\ retry'[r] = "none"
  BY <1>1, <1>2 DEF CreatesSkill, Raised, TypeOK
<1>4. \/ status'[r] = status[r] /\ turn'[r] = turn[r]
      \/ status'[r] = "running" /\ turn'[r] = "running"
  BY <1>2 DEF StartSkill, StartChildSkill, TypeOK
<1>5. \A s \in Runs \ {r} : Aside(s)
  <2>1. \A s \in Runs \ {r} : status'[s] = status[s] /\ turn'[s] = turn[s]
    BY <1>2 DEF StartSkill, StartChildSkill, TypeOK
  <2> QED BY <1>1, <1>2, <2>1 DEF CreatesSkill, Aside, SameColumns, SameAttempt, TypeOK
<1> QED BY <1>2, <1>3, <1>4, <1>5, AsideIsKept DEF Leased, RowMoves

\* Every end of an execution, also a late one.
LEMMA EndMoves ==
  ASSUME TypeOK, RowsKeepProvenance, NEW w \in Workers, EndExecution(w)
  PROVE  \A s \in Runs : RowMoves(s)
<1> DEFINE r == job[w]
<1>0. ASSUME pc[w] # "idle", NEW q \in RunStatuses, Requested(r, q),
             q = "retry_wait" => Reported(r, q),
             CloseAs(r, q), attempt' = attempt, api' = api,
             interrupt'[r] = interrupt[r] \/ r \in Turns,
             \A s \in Runs \ {r} : interrupt'[s] = interrupt[s]
      PROVE  \A s \in Runs : RowMoves(s)
  BY <1>0, ServedIsLive, ClosureMoves DEF Live
<1>1. ASSUME NEW st \in TurnOutcomes, FinishTurn(w, st)
      PROVE  \A s \in Runs : RowMoves(s)
  <2>1. pc[w] # "idle" /\ st \in RunStatuses /\ Requested(r, st) /\ st # "retry_wait"
    BY <1>1, OutcomesAssumption, StatusNames
       DEF FinishTurn, InSkill, Requested, PausedStatuses, TerminalStatuses
  <2> QED BY <1>0, <1>1, <2>1 DEF FinishTurn
<1>2. ASSUME NEW st \in TaskOutcomes, Complete(w, st)
      PROVE  \A s \in Runs : RowMoves(s)
  <2>0. pc[w] # "idle" /\ (st = "running" => r \in Messages)
    <3>1. r \in Runs /\ ("running" \notin TerminalStatuses)
      BY <1>2, ServedRun DEF Complete, TerminalStatuses
    <3> QED BY <1>2, <3>1 DEF Complete, TurnMode, Runs
  <2>1. pc[w] # "idle" /\ st \in RunStatuses /\ Requested(r, st) /\ st # "retry_wait"
    BY <2>0, OutcomesAssumption, StatusNames
       DEF Requested, PausedStatuses, TerminalStatuses
  <2> QED BY <1>0, <1>2, <2>1 DEF Complete
<1>3. ASSUME NEW kind \in {"retryable", "terminal"}, Release(w, kind)
      PROVE  \A s \in Runs : RowMoves(s)
  <2>1. /\ pc[w] # "idle" /\ r \in Runs /\ Live(r) /\ Recorded(r) /\ ~Preparing(r)
        /\ attempt' = attempt /\ api' = api /\ interrupt' = interrupt
    BY <1>3, ServedIsLive DEF Release, Live
  <2>2. CASE UNCHANGED <<status, owner, lease, retry, turn, task>>
    BY <2>1, <2>2, RestKeepsRows
  <2>3. CASE /\ AttemptsLeft(r)
             /\ Close(r, "retry_wait", owner[r], lease[r], "later")
    <3>1. /\ CloseRow(r, "retry_wait", owner[r], lease[r], "later")
          /\ \A s \in Runs \ {r} : SameColumns(s)
      BY <2>1, <2>3, CloseMovesRow
    <3>2. /\ Requested(r, "retry_wait") /\ "retry_wait" \in RunStatuses
          /\ RetryAsked(r, "retry_wait", "later")
      BY <2>3 DEF Requested, RetryAsked, AttemptsLeft, RunStatuses, ActiveStatuses
    <3>3. Closed(r)
      BY <2>1, <3>1, <3>2 DEF Closed, SameAttempt
    <3>4. \A s \in Runs \ {r} : Aside(s)
      BY <2>1, <3>1 DEF Aside, SameAttempt
    <3> QED BY <3>3, <3>4, AsideIsKept DEF RowMoves
  <2>4. CASE CloseAs(r, "failed")
    BY <1>0, <2>1, <2>4 DEF Requested, TerminalStatuses, RunStatuses
  <2>5. CASE CloseAs(r, "dead_letter") /\ ~AttemptsLeft(r)
    <3>1. Requested(r, "dead_letter") /\ "dead_letter" \in RunStatuses
      BY <2>1, <2>5, BoundsAssumption
         DEF Requested, AttemptsLeft, TerminalStatuses, RunStatuses, TypeOK
    <3> QED BY <1>0, <2>1, <2>5, <3>1
  <2>6. \/ UNCHANGED <<status, owner, lease, retry, turn, task>>
        \/ /\ AttemptsLeft(r)
           /\ Close(r, "retry_wait", owner[r], lease[r], "later")
        \/ CloseAs(r, "failed")
        \/ CloseAs(r, "dead_letter") /\ ~AttemptsLeft(r)
    BY <1>3 DEF Release
  <2> QED BY <2>2, <2>3, <2>4, <2>5, <2>6
<1>4. CASE RequestInterrupt(w)
  <2>1. pc[w] # "idle" /\ r \in Turns /\ attempt' = attempt /\ api' = api
    BY <1>4 DEF RequestInterrupt, InSkill, TurnMode
  <2>2. CloseAs(r, "waiting_user") /\ \A s \in Runs \ {r} : interrupt'[s] = interrupt[s]
    BY <1>4 DEF RequestInterrupt, TypeOK
  <2>3. Requested(r, "waiting_user") /\ "waiting_user" \in RunStatuses
    BY DEF Requested, PausedStatuses, RunStatuses
  <2> QED BY <1>0, <2>1, <2>2, <2>3
<1>5. CASE LoseSkillLease(w) \/ RecordStopped(w)
  BY <1>5, RestKeepsRows DEF LoseSkillLease, RecordStopped, rowVars, ledgerVars
<1>8. CASE CloseParent(w) \/ ReportResult(w)
  <2>1. /\ pc[w] \in {"close", "report"} /\ r \in Runs /\ result[w] \in SkillStatuses
        /\ CloseAs(r, result[w]) /\ attempt' = attempt /\ api' = api
        /\ interrupt' = interrupt
    BY <1>8, ServedRun DEF CloseParent, ReportResult, TypeOK
  <2>2. Reported(r, result[w])
    BY <2>1 DEF Reported
  <2>3. Requested(r, result[w]) /\ result[w] \in RunStatuses
    BY <2>1, <2>2 DEF Requested, SkillStatuses, RunStatuses, ActiveStatuses
  <2> QED BY <1>0, <2>1, <2>2, <2>3
<1>6. CASE Promote(w)
  <2> DEFINE t == TaskOf[r]
             next == Oldest(Waiting(t))
  <2>1. CASE UNCHANGED <<status, owner, lease, retry, jobs>>
    BY <1>6, <2>1, RestKeepsRows DEF Promote, ledgerVars
  <2>2. CASE ~Busy(t) /\ Waiting(t) # {} /\ Queued(next, "queued")
    <3>1. next \in Waiting(t) /\ \A s \in Waiting(t) : next <= s
      <4>1. Waiting(t) \in SUBSET Runs
        BY DEF Waiting
      <4> QED BY <2>2, <4>1, OldestWaits
    <3>2. next \in Runs /\ TaskOf[next] = t
      BY <3>1 DEF Waiting
    <3>3. /\ attempt' = attempt /\ api' = api /\ UNCHANGED ledgerVars
      BY <1>6 DEF Promote
    <3> HIDE DEF next
    <3>4. Promoted(next)
      BY <2>2, <3>1, <3>2, <3>3
         DEF Promoted, SameAttempt, Queued, Cleared, ledgerVars, TypeOK
    <3>5. \A s \in Runs \ {next} : Aside(s)
      BY <2>2, <3>2, <3>3 DEF Queued, Aside, SameColumns, SameAttempt, ledgerVars, TypeOK
    <3> QED BY <3>4, <3>5, AsideIsKept DEF RowMoves
  <2> QED BY <1>6, <2>1, <2>2 DEF Promote
<1>7. CASE Interrupted(w)
  <2>1. pc[w] # "idle" /\ attempt' = attempt /\ api' = api /\ interrupt' = interrupt
        /\ CloseAs(r, "cancelled")
    BY <1>7 DEF Interrupted
  <2> QED BY <1>0, <2>1 DEF Requested, TerminalStatuses, RunStatuses
<1> QED BY <1>1, <1>2, <1>3, <1>4, <1>5, <1>6, <1>7, <1>8 DEF EndExecution

\* Deliveries and the steps of an execution.
LEMMA WorkerStepMoves ==
  ASSUME TypeOK, RowsKeepProvenance, NEW w \in Workers,
         \/ \E r \in Runs : AcquireCancelled(w, r) \/ AcquireRefused(w, r) \/ Acquire(w, r)
         \/ Heartbeat(w) \/ StartTask(w) \/ StartSkill(w) \/ StartChildSkill(w)
         \/ Resume(w) \/ Reacquire(w) \/ EndExecution(w) \/ Crash(w)
  PROVE  \A s \in Runs : RowMoves(s)
<1>1. ASSUME NEW r \in Runs, AcquireCancelled(w, r) \/ AcquireRefused(w, r) \/ Acquire(w, r)
      PROVE  \A s \in Runs : RowMoves(s)
  <2>1. Live(r)
    BY <1>1 DEF AcquireCancelled, AcquireRefused, Acquire, Delivered, RowsKeepProvenance,
                Provenance, TypeOK
  <2>2. CASE AcquireCancelled(w, r)
    BY <2>1, <2>2, CloseCancelledMoves DEF AcquireCancelled
  <2>3. CASE AcquireRefused(w, r)
    BY <2>3, RestKeepsRows DEF AcquireRefused, rowVars, ledgerVars
  <2>4. CASE Acquire(w, r)
    BY <2>1, <2>4, TakeMoves DEF Acquire
  <2> QED BY <1>1, <2>2, <2>3, <2>4
<1>2. CASE Heartbeat(w)
  <2>1. \A s \in Runs : Kept(s)
    BY <1>2, ServedIsLive DEF Heartbeat, Holds, Kept, SameAttempt, ledgerVars, TypeOK
  <2> QED BY <2>1 DEF RowMoves
<1>3. CASE StartTask(w) \/ Resume(w)
  BY <1>3, RestKeepsRows DEF StartTask, Resume, rowVars, ledgerVars
<1>4. CASE Crash(w)
  BY <1>4, RestKeepsRows DEF Crash, rowVars, ledgerVars
<1>5. CASE Reacquire(w)
  <2>1. job[w] \in Runs /\ Live(job[w]) /\ api' = api
    BY <1>5, ServedIsLive DEF Reacquire
  <2>2. CASE Take(w, job[w], "work")
    BY <2>1, <2>2, TakeMoves
  <2>3. CASE CloseCancelled(job[w])
    BY <2>1, <2>3, CloseCancelledMoves
  <2>4. CASE UNCHANGED <<rowVars, ledgerVars>>
    BY <2>1, <2>4, RestKeepsRows DEF rowVars, ledgerVars
  <2> QED BY <1>5, <2>2, <2>3, <2>4 DEF Reacquire
<1> QED BY <1>1, <1>2, <1>3, <1>4, <1>5, SkillMoves, EndMoves
-----------------------------------------------------------------------------
\* No step of users, API, time and Redis brings a job to a run that is not live.
LEMMA RunStepSlots ==
  ASSUME TypeOK, RowsKeepProvenance, NEW r \in Runs,
         \/ SubmitTurn(r) \/ SubmitRevision(r) \/ ClaimMessage(r) \/ ApiStep(r)
         \/ ApiCrash(r) \/ RequestCancel(r) \/ RequestStop(r)
         \/ ResolveInterrupt(r) \/ AcceptArtifact(r) \/ DecidePackage(r)
         \/ Expire(r) \/ RetryDue(r) \/ Recover(r)
         \/ LoseJob(r)
  PROVE  \A s \in Runs : SlotMoves(s)
<1>0. Provenance(r) /\ api[r] \in {"idle", "claimed", "free", "inline", "bound",
                                   "prepared", "behind"}
  BY DEF RowsKeepProvenance, TypeOK
<1>1. job' = job
  BY DEF SubmitTurn, SubmitRevision, ClaimMessage, ApiStep, QueueBehind, StartInline,
         BindTask, RestartTask, MarkQueued, InlineFails, ApiCrash, RequestCancel, RequestStop,
         ResolveInterrupt, AcceptArtifact, DecidePackage, Expire, RetryDue, Recover, LoseJob,
         rowVars, workerVars
<1>2. \/ jobs' = jobs
      \/ (Live(r) \/ Live(r)') /\ \A s \in Runs \ {r} : jobs'[s] = jobs[s]
  <2>1. CASE SubmitTurn(r) \/ SubmitRevision(r)
    <3>1. ~Preparing(r) /\ api' = api
      BY <1>0, <2>1, RunsAssumption DEF SubmitTurn, SubmitRevision, Provenance, Preparing
    <3>2. jobs' = jobs \/ status'[r] = "queued"
      <4>1. CASE SubmitTurn(r)
        BY <4>1 DEF SubmitTurn, Queued, TypeOK
      <4>2. CASE SubmitRevision(r)
        <5> PICK s \in Turns : Supplement(r, s)
          BY <4>2 DEF SubmitRevision
        <5>1. s # r /\ r \in Runs
          BY <4>2, RunsAssumption DEF SubmitRevision, Runs
        <5> QED BY <5>1 DEF Supplement, TypeOK
      <4> QED BY <2>1, <4>1, <4>2
    <3>3. \A s \in Runs \ {r} : jobs'[s] = jobs[s]
      BY <2>1 DEF SubmitTurn, SubmitRevision, Supplement, Enqueue, TypeOK
    <3> QED BY <3>1, <3>2, <3>3 DEF Live, Recorded, Preparing
  <2>2. CASE MarkQueued(r)
    BY <2>2 DEF MarkQueued, Queued, Enqueue, Live, Recorded, Preparing, TypeOK
  <2>3. CASE ResolveInterrupt(r)
    <3>1. Live(r)
      BY <1>0, <2>3, RunsAssumption
         DEF ResolveInterrupt, Provenance, Live, Recorded, Preparing
    <3> QED BY <2>3, <3>1 DEF ResolveInterrupt, Enqueue, TypeOK
  <2>4. CASE Recover(r)
    <3>1. Live(r)
      BY <1>0, <2>4 DEF Recover, Recoverable, Provenance, Live, Recorded
    <3> QED BY <2>4, <3>1 DEF Recover, TypeOK
  <2>5. CASE LoseJob(r)
    <3>1. Live(r)
      BY <1>0, <2>5 DEF LoseJob, Provenance, TypeOK
    <3> QED BY <2>5, <3>1 DEF LoseJob, TypeOK
  <2>6. CASE \/ ClaimMessage(r) \/ QueueBehind(r) \/ StartInline(r) \/ BindTask(r)
             \/ RestartTask(r) \/ InlineFails(r) \/ ApiCrash(r) \/ RequestCancel(r)
             \/ RequestStop(r) \/ AcceptArtifact(r) \/ DecidePackage(r)
             \/ Expire(r) \/ RetryDue(r)
    BY <2>6 DEF ClaimMessage, QueueBehind, StartInline, BindTask, RestartTask, InlineFails,
                ApiCrash, RequestCancel, RequestStop, AcceptArtifact, DecidePackage, Expire,
                RetryDue
  <2> QED BY <2>1, <2>2, <2>3, <2>4, <2>5, <2>6 DEF ApiStep
<1> QED BY <1>1, <1>2 DEF SlotMoves

\* Nor does a worker: it takes a delivered run and hands back its own.
LEMMA WorkerStepSlots ==
  ASSUME TypeOK, RowsKeepProvenance, NEW w \in Workers,
         \/ \E r \in Runs : AcquireCancelled(w, r) \/ AcquireRefused(w, r) \/ Acquire(w, r)
         \/ Heartbeat(w) \/ StartTask(w) \/ StartSkill(w) \/ StartChildSkill(w)
         \/ Resume(w) \/ Reacquire(w) \/ EndExecution(w) \/ Crash(w)
  PROVE  \A s \in Runs : SlotMoves(s)
<1>1. ASSUME NEW r \in Runs, AcquireCancelled(w, r) \/ AcquireRefused(w, r) \/ Acquire(w, r)
      PROVE  \A s \in Runs : SlotMoves(s)
  <2>1. Live(r)
    BY <1>1 DEF AcquireCancelled, AcquireRefused, Acquire, Delivered, RowsKeepProvenance,
                Provenance, TypeOK
  <2>2. /\ \A s \in Runs \ {r} : jobs'[s] = jobs[s]
        /\ \A v \in Workers : job'[v] \in {job[v], r}
    BY <1>1 DEF AcquireCancelled, AcquireRefused, Acquire, Delivered, Take, workerVars, TypeOK
  <2> QED BY <2>1, <2>2 DEF SlotMoves
<1>2. ASSUME /\ job[w] \in Runs => Live(job[w])
             /\ \A s \in Runs \ {job[w]} : jobs'[s] = jobs[s]
             /\ job[w] \in Runs \/ jobs' = jobs
             /\ \A v \in Workers : job'[v] \in {job[v], NoRun}
      PROVE  \A s \in Runs : SlotMoves(s)
  BY <1>2, WorkersAssumption DEF SlotMoves
<1>3. job[w] \in Runs => Live(job[w])
  BY ServedIsLive, WorkersAssumption DEF TypeOK
<1>4. CASE Heartbeat(w) \/ StartTask(w) \/ StartSkill(w) \/ StartChildSkill(w) \/ Resume(w)
  BY <1>2, <1>3, <1>4 DEF Heartbeat, StartTask, StartSkill, StartChildSkill, Resume,
                          CreatesSkill, At, workerVars
<1>5. ASSUME Idle(w) PROVE \A v \in Workers : job'[v] \in {job[v], NoRun}
  BY <1>5 DEF Idle, TypeOK
<1>9. ASSUME NEW st, Return(w, st) PROVE \A v \in Workers : job'[v] \in {job[v], NoRun}
  BY <1>5, <1>9 DEF Return, With, TypeOK
<1>6. CASE Crash(w)
  <2>1. job[w] \in Runs
    BY <1>6, ServedRun DEF Crash
  <2>2. \A s \in Runs \ {job[w]} : jobs'[s] = jobs[s]
    BY <1>6 DEF Crash, Enqueue, TypeOK
  <2>3. Idle(w)
    BY <1>6 DEF Crash
  <2> QED BY <1>2, <1>3, <1>5, <2>1, <2>2, <2>3
<1>7. CASE Reacquire(w)
  <2>1. jobs' = jobs /\ job[w] \in Runs
    BY <1>7, ServedRun DEF Reacquire
  <2>2. \A v \in Workers : job'[v] \in {job[v], NoRun}
    <3>1. CASE Take(w, job[w], "work")
      BY <3>1 DEF Take, TypeOK
    <3>2. CASE \E st : Return(w, st)
      BY <1>9, <3>2
    <3> QED BY <1>7, <3>1, <3>2 DEF Reacquire
  <2> QED BY <1>2, <1>3, <2>1, <2>2
<1>8. CASE EndExecution(w)
  <2>1. CASE Promote(w)
    <3> DEFINE next == Oldest(Waiting(TaskOf[job[w]]))
    <3>1. /\ UNCHANGED api
          /\ \A v \in Workers : job'[v] \in {job[v], NoRun}
      BY <1>5, <2>1 DEF Promote
    <3>2. CASE jobs' = jobs
      BY <1>2, <1>3, <3>1, <3>2
    <3>3. CASE Waiting(TaskOf[job[w]]) # {} /\ Queued(next, "queued") /\ Enqueue(next)
      <4>1. next \in Waiting(TaskOf[job[w]])
        <5>1. Waiting(TaskOf[job[w]]) \in SUBSET Runs
          BY DEF Waiting
        <5> QED BY <3>3, <5>1, OldestWaits
      <4>2. next \in Runs /\ status[next] = "waiting_predecessor"
        BY <4>1 DEF Waiting
      <4> HIDE DEF next
      <4>3. PICK n \in Runs : n = next
        BY <4>2
      <4>4. Live(n)'
        <5>1. ~Preparing(n)
          BY <4>2, <4>3 DEF RowsKeepProvenance, Provenance
        <5>2. status'[n] = "queued" /\ api' = api
          BY <2>1, <3>3, <4>3 DEF Promote, Queued, TypeOK
        <5> QED BY <5>1, <5>2 DEF Live, Recorded, Preparing
      <4>5. \A s \in Runs \ {n} : jobs'[s] = jobs[s]
        BY <3>3, <4>3 DEF Enqueue, TypeOK
      <4> QED BY <3>1, <4>4, <4>5, WorkersAssumption DEF SlotMoves
    <3> QED BY <2>1, <3>2, <3>3 DEF Promote
  <2>2. ASSUME NEW kind, Release(w, kind)
        PROVE  \A s \in Runs : SlotMoves(s)
    <3>1. job[w] \in Runs /\ Idle(w)
      BY <2>2, ServedRun DEF Release
    <3>2. \A s \in Runs \ {job[w]} : jobs'[s] = jobs[s]
      BY <2>2 DEF Release, Enqueue, TypeOK
    <3> QED BY <1>2, <1>3, <1>5, <3>1, <3>2
  <2>3. CASE \/ \E st \in TurnOutcomes : FinishTurn(w, st)
             \/ \E st \in TaskOutcomes : Complete(w, st)
             \/ RequestInterrupt(w) \/ LoseSkillLease(w) \/ CloseParent(w)
             \/ ReportResult(w) \/ Interrupted(w) \/ RecordStopped(w)
    <3>1. jobs' = jobs
      BY <2>3 DEF FinishTurn, Complete, RequestInterrupt, LoseSkillLease, CloseParent,
                  ReportResult, Interrupted, RecordStopped
    <3>2. Idle(w) \/ (\E st : Return(w, st)) \/ job' = job
      BY <2>3 DEF FinishTurn, Complete, At, RequestInterrupt, LoseSkillLease, With,
                  CloseParent, ReportResult, Interrupted, RecordStopped
    <3> QED BY <1>2, <1>3, <1>5, <1>9, <3>1, <3>2
  <2> QED BY <1>8, <2>1, <2>2, <2>3 DEF EndExecution
<1> QED BY <1>1, <1>4, <1>6, <1>7, <1>8

\* Every step of the system moves every row in one of these ways.
LEMMA EveryStepMoves ==
  ASSUME TypeOK, RowsKeepProvenance, [Next]_vars
  PROVE  \A r \in Runs : RowMoves(r) /\ SlotMoves(r)
<1>1. CASE Next
  BY <1>1, StepsOfNext, RunStepMoves, WorkerStepMoves, RunStepSlots, WorkerStepSlots
<1>2. CASE UNCHANGED vars
  <2>1. \A r \in Runs : SlotMoves(r)
    BY <1>2 DEF vars, workerVars, SlotMoves
  <2> QED BY <1>2, <2>1, RestKeepsRows DEF vars, rowVars, ledgerVars
<1> QED BY <1>1, <1>2

\* What is asked of a closure and what it settles on.
LEMMA SettledStatus ==
  ASSUME NEW c \in RunStatuses, NEW q \in RunStatuses,
         q \in {"running", "retry_wait"} \cup PausedStatuses \cup TerminalStatuses
  PROVE  LET eff == EffectiveStatus(c, q) IN
         /\ eff \in {c, q} /\ eff \in RunStatuses
         /\ eff \in {"running", "retry_wait"} \cup PausedStatuses \cup TerminalStatuses
         /\ eff = q \/ c \in TerminalStatuses
         /\ TurnStatus(eff) = eff
         /\ KeepsLease(eff) <=> eff = "running"
BY DEF EffectiveStatus, RunStatuses, TurnStatus, KeepsLease, ActiveStatuses, PausedStatuses,
       TerminalStatuses

\* Provenance is kept.
LEMMA ProvenanceKept ==
  ASSUME TypeOK, TypeOK', NEW r \in Runs, Provenance(r), RowMoves(r), SlotMoves(r)
  PROVE  Provenance(r)'
<1> USE RunsAssumption DEF Runs
<1>1. CASE Kept(r)
  BY <1>1 DEF Kept, Provenance, SlotMoves, Live, Preparing, Recorded, TypeOK
<1>2. CASE Born(r)
  BY <1>2 DEF Born, Cleared, Provenance, SlotMoves, Live, Preparing, Recorded, TypeOK
<1>3. CASE Prepared(r)
  BY <1>3 DEF Prepared, Cleared, Provenance, SlotMoves, Live, Preparing, Recorded, TypeOK
<1>4. CASE Closed(r)
  <2> PICK q \in RunStatuses, rty \in {retry[r], "later"} :
             Requested(r, q) /\ CloseRow(r, q, owner[r], lease[r], rty)
    BY <1>4 DEF Closed
  <2>1. status[r] \in RunStatuses
    BY <1>4 DEF Closed, Recorded, TypeOK
  <2>2. status'[r] \in {"running", "retry_wait"} \cup PausedStatuses \cup TerminalStatuses
    BY <2>1, SettledStatus DEF CloseRow, Requested
  <2>3. status'[r] \notin {"absent", "claimed", "waiting_predecessor"}
    BY <2>2 DEF PausedStatuses, TerminalStatuses
  <2>4. ~Preparing(r)'
    BY <1>4 DEF Closed, Preparing
  <2> QED BY <1>4, <2>3, <2>4 DEF Closed, Provenance, Live, Recorded, Preparing
<1>5. CASE Taken(r)
  <2>1. status[r] \in RunStatuses /\ "running" \in RunStatuses
    BY <1>5 DEF Taken, Raised, Live, Recorded, RunStatuses, ActiveStatuses, TypeOK
  <2>2. status'[r] \in {"running", "retry_wait"} \cup PausedStatuses \cup TerminalStatuses
    BY <1>5, <2>1, SettledStatus DEF Taken, CloseRow
  <2>3. status'[r] \notin {"absent", "claimed", "waiting_predecessor"}
    BY <2>2 DEF PausedStatuses, TerminalStatuses
  <2> QED BY <1>5, <2>3 DEF Taken, Raised, Provenance, Live, Recorded, Preparing
<1>6. CASE Leased(r)
  BY <1>6 DEF Leased, Raised, SkillMode, Provenance, Live, Recorded, Preparing
<1>7. CASE Resumed(r)
  BY <1>7 DEF Resumed, Cleared, Provenance, Live, Recorded, Preparing, PausedStatuses
<1>8. CASE Promoted(r)
  BY <1>8 DEF Promoted, Waiting, Cleared, Provenance, Live, Recorded, Preparing
<1>9. CASE Superseded(r)
  BY <1>9 DEF Superseded, Cleared, Provenance, Live, Recorded, Preparing
<1> QED BY <1>1, <1>2, <1>3, <1>4, <1>5, <1>6, <1>7, <1>8, <1>9 DEF RowMoves
-----------------------------------------------------------------------------
\* The invariants of AgentRuns, row by row.
LeaseOf(r) ==
  /\ lease[r] # "none" <=> owner[r] # NoWorker
  /\ lease[r] # "none" =>
       status[r] \in (ActiveStatuses \cup PausedStatuses)
                      \ {"claimed", "waiting_predecessor"}
BudgetOf(r) ==
  /\ retry[r] # "none" => attempt[r] < MaxAttempts
  /\ status[r] = "dead_letter" => attempt[r] >= MaxAttempts
MirrorOf(r) == r \in Turns /\ Recorded(r) => turn[r] = status[r]
RowSound(r) == Provenance(r) /\ LeaseOf(r) /\ BudgetOf(r) /\ MirrorOf(r)
RowsSound == \A r \in Runs : RowSound(r)

\* A closure leaves a sound row: what it asks for decides lease, turn and budget.
LEMMA ClosureSound ==
  ASSUME TypeOK, TypeOK', NEW r \in Runs, RowSound(r), Closed(r)
  PROVE  LeaseOf(r)' /\ BudgetOf(r)' /\ MirrorOf(r)'
<1> PICK q \in RunStatuses, rty \in {retry[r], "later"} :
           /\ Requested(r, q) /\ RetryAsked(r, q, rty)
           /\ CloseRow(r, q, owner[r], lease[r], rty)
  BY DEF Closed
<1> DEFINE eff == EffectiveStatus(status[r], q)
<1>1. status[r] \in RunStatuses
  BY DEF Closed, Recorded, TypeOK
<1>2. /\ eff = q \/ (eff = status[r] /\ eff \in TerminalStatuses)
      /\ eff \in {"running", "retry_wait"} \cup PausedStatuses \cup TerminalStatuses
      /\ TurnStatus(eff) = eff
      /\ KeepsLease(eff) <=> eff = "running"
  BY <1>1, SettledStatus DEF Requested, EffectiveStatus
<1>3. /\ status'[r] = eff
      /\ owner'[r] = IF eff = "running" THEN owner[r] ELSE NoWorker
      /\ lease'[r] = IF eff = "running" THEN lease[r] ELSE "none"
      /\ retry'[r] = IF eff \in TerminalStatuses THEN "none" ELSE rty
      /\ turn'[r]  = IF turn[r] = "none" THEN "none" ELSE eff
  BY <1>2 DEF CloseRow
<1>4. attempt'[r] = attempt[r] /\ Recorded(r)
  BY DEF Closed, SameAttempt
<1> HIDE DEF eff
<1>5. retry'[r] # "none" => attempt[r] < MaxAttempts
  BY <1>3 DEF RowSound, BudgetOf, RetryAsked
<1>7. LeaseOf(r)'
  BY <1>3 DEF RowSound, LeaseOf, ActiveStatuses
<1>8. BudgetOf(r)'
  BY <1>2, <1>3, <1>4, <1>5 DEF RowSound, BudgetOf, Requested
<1>9. MirrorOf(r)'
  <2>1. r \in Turns => turn[r] # "none"
    BY <1>1, <1>4
       DEF RowSound, MirrorOf, RunStatuses, ActiveStatuses, PausedStatuses, TerminalStatuses
  <2> QED BY <1>3, <2>1 DEF MirrorOf
<1> QED BY <1>7, <1>8, <1>9

\* A worker that takes a run leaves a sound row: a lease, and one attempt more.
LEMMA TakeSound ==
  ASSUME TypeOK, TypeOK', NEW r \in Runs, RowSound(r), Taken(r)
  PROVE  LeaseOf(r)' /\ BudgetOf(r)' /\ MirrorOf(r)'
<1> DEFINE eff == EffectiveStatus(status[r], "running")
<1> PICK w \in Workers : CloseRow(r, "running", w, "live", "none")
  BY DEF Taken
<1>1. status[r] \in RunStatuses /\ "running" \in RunStatuses /\ Recorded(r)
  BY DEF Taken, Raised, Live, Recorded, RunStatuses, ActiveStatuses, TypeOK
<1>2. /\ eff = "running" \/ (eff = status[r] /\ eff \in TerminalStatuses)
      /\ TurnStatus(eff) = eff
      /\ KeepsLease(eff) <=> eff = "running"
  BY <1>1, SettledStatus DEF EffectiveStatus
<1>3. /\ status'[r] = eff
      /\ owner'[r] = IF eff = "running" THEN w ELSE NoWorker
      /\ lease'[r] = IF eff = "running" THEN "live" ELSE "none"
      /\ retry'[r] = "none"
      /\ turn'[r]  = IF turn[r] = "none" THEN "none" ELSE eff
  BY <1>2 DEF CloseRow
<1>4. attempt'[r] = attempt[r] + 1 /\ attempt[r] \in Nat
  BY DEF Taken, Raised, TypeOK
<1> HIDE DEF eff
<1>5. LeaseOf(r)'
  BY <1>3, WorkersAssumption DEF LeaseOf, ActiveStatuses
<1>6. BudgetOf(r)'
  BY <1>2, <1>3, <1>4, BoundsAssumption DEF RowSound, BudgetOf, TerminalStatuses
<1>7. MirrorOf(r)'
  <2>1. r \in Turns => turn[r] # "none"
    BY <1>1
       DEF RowSound, MirrorOf, RunStatuses, ActiveStatuses, PausedStatuses, TerminalStatuses
  <2> QED BY <1>3, <2>1 DEF MirrorOf
<1> QED BY <1>5, <1>6, <1>7

\* Whichever way a sound row moves, it is sound afterwards.
LEMMA MoveSound ==
  ASSUME TypeOK, TypeOK', NEW r \in Runs, RowSound(r), RowMoves(r), SlotMoves(r)
  PROVE  RowSound(r)'
<1>1. Provenance(r)'
  BY ProvenanceKept DEF RowSound
<1>2. LeaseOf(r)' /\ BudgetOf(r)' /\ MirrorOf(r)'
  <2> USE DEF LeaseOf, BudgetOf, MirrorOf, SameAttempt
  <2>1. CASE Kept(r)
    BY <2>1 DEF Kept, RowSound, Recorded
  <2>2. CASE Born(r)
    <3>1. /\ lease[r] = "none" /\ owner[r] = NoWorker
          /\ retry[r] # "none" => attempt[r] < MaxAttempts
      BY <2>2 DEF Born, RowSound, Provenance, Live
    <3> QED BY <2>2, <3>1, RunsAssumption DEF Born, Cleared
  <2>3. CASE Prepared(r)
    <3>1. r \in Messages /\ r \notin Turns \cup Revisions
      BY <2>3, RunsAssumption DEF Prepared, RowSound, Provenance
    <3>2. lease[r] = "none"
      BY <2>3 DEF Prepared, RowSound, Provenance, Live, Preparing
    <3> QED BY <2>3, <3>1, <3>2 DEF Prepared, Cleared, RowSound
  <2>4. CASE Closed(r)
    BY <2>4, ClosureSound
  <2>5. CASE Taken(r)
    BY <2>5, TakeSound
  <2>6. CASE Leased(r)
    <3>1. status[r] \in RunStatuses \ {"claimed", "waiting_predecessor"}
      BY <2>6, RunsAssumption
         DEF Leased, SkillMode, Raised, Live, Recorded, RowSound, Provenance, TypeOK
    <3>2. status'[r] \in (ActiveStatuses \cup PausedStatuses)
                          \ {"claimed", "waiting_predecessor"}
      BY <2>6, <3>1 DEF Leased, RunStatuses, ActiveStatuses
    <3>3. status'[r] # "dead_letter"
      BY <2>6 DEF Leased, TerminalStatuses
    <3> QED BY <2>6, <3>2, <3>3, WorkersAssumption DEF Leased, Raised, Live, RowSound
  <2>7. CASE Resumed(r) \/ Promoted(r) \/ Superseded(r)
    <3>1. Promoted(r) => r \notin Turns
      BY DEF Promoted, Waiting, RowSound, Provenance
    <3> QED BY <2>7, <3>1 DEF Resumed, Promoted, Superseded, Cleared
  <2> QED BY <2>1, <2>2, <2>3, <2>4, <2>5, <2>6, <2>7 DEF RowMoves
<1> QED BY <1>1, <1>2 DEF RowSound

\* Rows are sound in every reachable state.
LEMMA RowsStaySound == Spec => []RowsSound
<1>1. Init => RowsSound
  BY WorkersAssumption
     DEF Init, RowsSound, RowSound, Provenance, Live, Preparing, Recorded, LeaseOf, BudgetOf,
         MirrorOf
<1>2. TypeOK /\ TypeOK' /\ RowsSound /\ [Next]_vars => RowsSound'
  <2> SUFFICES ASSUME TypeOK, TypeOK', RowsSound, [Next]_vars, NEW r \in Runs
               PROVE  RowSound(r)'
    BY DEF RowsSound
  <2>1. RowsKeepProvenance
    BY DEF RowsSound, RowSound, RowsKeepProvenance
  <2> QED BY <2>1, EveryStepMoves, MoveSound DEF RowsSound
<1> QED BY <1>1, <1>2, TypeCorrect, PTL DEF Spec

\* A lease ends with its run.
THEOREM LeasesEndWithRuns == Spec => []LeaseEndsWithRun
<1>1. RowsSound => LeaseEndsWithRun
  BY DEF RowsSound, RowSound, LeaseOf, LeaseEndsWithRun
<1> QED BY <1>1, RowsStaySound, PTL

\* A run waits for a retry only while attempts are left and is declared dead only when
\* none is, whatever was redelivered, expired or recovered in between.
THEOREM RetriesStayInBudget == Spec => []RetryBudget
<1>1. RowsSound => RetryBudget
  BY DEF RowsSound, RowSound, BudgetOf, RetryBudget
<1> QED BY <1>1, RowsStaySound, PTL

\* The turn of a run shows, whoever closed the run, the status of its run.
THEOREM TurnsMirrorRuns == Spec => []TurnMirrorsRun
<1>1. RowsSound => TurnMirrorsRun
  BY DEF RowsSound, RowSound, MirrorOf, TurnMirrorsRun, Runs
<1> QED BY <1>1, RowsStaySound, PTL

\* Whatever crashes, expires, is stopped, taken over, decided or closed late, a run stays
\* where the scan finds it, now or later; only the caller of a skill that records the
\* status it was returned, whatever became of the run since, can put it out of reach.
THEOREM NoRunIsLost == Spec => NoLostRun
<1> DEFINE Found == \A r \in Turns \cup Revisions :
       ~Lost(r) /\ Lost(r)'
         => \E w \in Workers : /\ pc[w] \in {"close", "report"} /\ job[w] = r
                               /\ result[w] \in {"running", "retry_wait"}
                               /\ status'[r] = result[w]
<1>1. TypeOK /\ RowsSound /\ [Next]_vars => Found
  <2> SUFFICES ASSUME TypeOK, RowsSound, [Next]_vars, NEW r \in Turns \cup Revisions,
                      ~Lost(r), Lost(r)'
               PROVE  \E w \in Workers : /\ pc[w] \in {"close", "report"} /\ job[w] = r
                                         /\ result[w] \in {"running", "retry_wait"}
                                         /\ status'[r] = result[w]
    OBVIOUS
  <2>0. r \in Runs /\ r \notin Messages
    BY RunsAssumption DEF Runs
  <2>1. RowsKeepProvenance /\ Provenance(r)
    BY <2>0 DEF RowsSound, RowSound, RowsKeepProvenance
  <2>2. RowMoves(r)
    BY <2>0, <2>1, EveryStepMoves
  <2>3. status'[r] \in {"running", "retry_wait"} /\ lease'[r] = "none"
    BY DEF Lost
  <2>4. ~Kept(r) /\ ~Born(r) /\ ~Leased(r) /\ ~Resumed(r) /\ ~Promoted(r) /\ ~Superseded(r)
    BY <2>0, <2>3 DEF Lost, Kept, Born, Leased, Resumed, Promoted, Superseded
  <2>5. ~Prepared(r)
    BY <2>0, <2>1 DEF Prepared, Provenance
  <2>6. ~Taken(r)
    <3> SUFFICES ASSUME NEW w \in Workers, CloseRow(r, "running", w, "live", "none"), Live(r)
                 PROVE  FALSE
      BY DEF Taken, Raised
    <3>1. status[r] \in RunStatuses /\ "running" \in RunStatuses
      BY <2>0 DEF Live, Recorded, RunStatuses, ActiveStatuses, TypeOK
    <3> QED BY <2>3, <3>1, SettledStatus DEF CloseRow, EffectiveStatus, TerminalStatuses
  <2>7. Closed(r)
    BY <2>2, <2>4, <2>5, <2>6 DEF RowMoves
  <2> PICK q \in RunStatuses, rty \in {retry[r], "later"} :
             /\ Requested(r, q) /\ RetryAsked(r, q, rty)
             /\ CloseRow(r, q, owner[r], lease[r], rty)
    BY <2>7 DEF Closed
  <2>8. status'[r] = q /\ q \in {"running", "retry_wait"}
    BY <2>3 DEF CloseRow, EffectiveStatus, TerminalStatuses
  <2>9. q = "retry_wait" => rty # "later"
    BY <2>8 DEF Lost, CloseRow, TerminalStatuses
  <2>10. Reported(r, q)
    BY <2>0, <2>8, <2>9 DEF Requested, RetryAsked
  <2> QED BY <2>8, <2>10 DEF Reported
<1>2. [](TypeOK /\ RowsSound) /\ [][Next]_vars => [][Found]_vars
  BY <1>1, PTL
<1> QED BY <1>2, TypeCorrect, RowsStaySound, PTL DEF Spec, NoLostRun

\* The first end of a run stays, but for the answer to an interrupt that was open.
THEOREM TerminalRunsStay == Spec => FirstTerminalWins
<1> DEFINE Wins == \A r \in Runs :
             status[r] \in TerminalStatuses /\ status'[r] # status[r]
               => interrupt[r] = "pending" /\ interrupt'[r] = "resolved"
<1>1. TypeOK /\ RowsSound /\ [Next]_vars => Wins
  <2> SUFFICES ASSUME TypeOK, RowsSound, [Next]_vars, NEW r \in Runs,
                      status[r] \in TerminalStatuses, status'[r] # status[r]
               PROVE  interrupt[r] = "pending" /\ interrupt'[r] = "resolved"
    OBVIOUS
  <2>1. RowsKeepProvenance /\ Provenance(r)
    BY DEF RowsSound, RowSound, RowsKeepProvenance
  <2>2. RowMoves(r)
    BY <2>1, EveryStepMoves
  <2>3. ~Born(r) /\ ~Leased(r) /\ ~Promoted(r) /\ ~Superseded(r)
    BY DEF Born, Recorded, Leased, Promoted, Waiting, Superseded, TerminalStatuses
  <2>4. ~Kept(r) /\ ~Closed(r) /\ ~Taken(r)
    BY DEF Kept, Closed, Taken, CloseRow, EffectiveStatus
  <2>5. ~Prepared(r)
    BY <2>1 DEF Prepared, Provenance, Preparing, TerminalStatuses
  <2> QED
    BY <2>2, <2>3, <2>4, <2>5 DEF RowMoves, Resumed, PausedStatuses, TerminalStatuses
<1>2. [](TypeOK /\ RowsSound) /\ [][Next]_vars => [][Wins]_vars
  BY <1>1, PTL
<1> QED BY <1>2, TypeCorrect, RowsStaySound, PTL DEF Spec, FirstTerminalWins

\* A follow-up is promoted only when its task has no executable run, and the oldest
\* one first.
THEOREM FollowUpsKeepOrder == Spec => PromotesInOrder
<1> DEFINE InOrder == \A r, s \in Runs :
       /\ status[r] = "waiting_predecessor" /\ status'[r] = "queued"
       /\ r # s /\ SameTask(r, s)
       => /\ status[s] \notin ActiveTaskRunStatuses
          /\ status[s] = "waiting_predecessor" => r < s
<1>1. TypeOK /\ RowsSound /\ [Next]_vars => InOrder
  <2> SUFFICES ASSUME TypeOK, RowsSound, [Next]_vars, NEW r \in Runs, NEW s \in Runs,
                      status[r] = "waiting_predecessor", status'[r] = "queued",
                      r # s, SameTask(r, s)
               PROVE  /\ status[s] \notin ActiveTaskRunStatuses
                      /\ status[s] = "waiting_predecessor" => r < s
    OBVIOUS
  <2>1. RowsKeepProvenance /\ Provenance(r)
    BY DEF RowsSound, RowSound, RowsKeepProvenance
  <2>2. RowMoves(r)
    BY <2>1, EveryStepMoves
  <2>3. ~Kept(r) /\ ~Born(r) /\ ~Leased(r) /\ ~Superseded(r)
    BY DEF Kept, Born, Recorded, Leased, Superseded
  <2>4. ~Closed(r) /\ ~Taken(r)
    BY DEF Closed, Requested, Taken, CloseRow, EffectiveStatus, PausedStatuses,
           TerminalStatuses
  <2>5. ~Prepared(r) /\ ~Resumed(r)
    BY <2>1 DEF Prepared, Resumed, Provenance, Preparing, PausedStatuses
  <2>6. Promoted(r)
    BY <2>2, <2>3, <2>4, <2>5 DEF RowMoves
  <2>7. status[s] \notin ActiveTaskRunStatuses
    BY <2>6 DEF Promoted, Busy, SameTask
  <2>8. status[s] = "waiting_predecessor" => r <= s
    BY <2>6 DEF Promoted, Waiting, SameTask
  <2> QED BY <2>7, <2>8, RunsAssumption
<1>2. [](TypeOK /\ RowsSound) /\ [][Next]_vars => [][InOrder]_vars
  BY <1>1, PTL
<1> QED BY <1>2, TypeCorrect, RowsStaySound, PTL DEF Spec, PromotesInOrder
=============================================================================
