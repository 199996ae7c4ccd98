---------------------------- MODULE CompositeSkills ----------------------------
(***************************************************************************)
(* The parent of an operation iteration and its children                   *)
(* (backend/app/orchestrator/skill_runtime.py _execute_operation_iteration *)
(* and services/composite_skill_runs.py).                                  *)
(*                                                                         *)
(* One executor works through a chain of child skills.  Each writes one    *)
(* artifact; some artifacts a person must accept before the chain goes on, *)
(* and the package of the last child needs a decision.  The parent pauses  *)
(* meanwhile, and whoever accepts queues its run again.  Every action is   *)
(* one transaction under the lock of the run's root, but for the executor, *)
(* which acts in several: it may be overtaken between them, or die.        *)
(* Two executors of one run at a time are the subject of AgentRuns.        *)
(***************************************************************************)
EXTENDS Naturals, Sequences

CONSTANTS
  Last,         \* number of children; the last one prepares the publication
  Gated,        \* children that, outside a weekly batch, start from accepted artifacts only
  MaxVersions,  \* bound: versions of an artifact
  MaxCrashes    \* bound: deaths of the executor and failures it is retried after

ASSUME ChainAssumption == Last \in Nat \ {0, 1} /\ Gated \subseteq 2..(Last - 1)
ASSUME BoundsAssumption == MaxVersions \in Nat \ {0} /\ MaxCrashes \in Nat

VARIABLES
  weekly,     \* whether the input asks for a weekly batch of five topics
  run,        \* status of the AgentRun
  parent,     \* the parent SkillRun: status and what its report says
  child,      \* status of the SkillRun of each node
  stream,     \* the versions of each node's artifact; a child writes the first
  plan,       \* execution plans the parent delivered
  schedule,   \* sets of five schedule entries
  decided,    \* whether the publication package was decided upon
  exec,       \* what the executor does
  crashes,
  accepted    \* history: nodes whose own artifact a person accepted at some time

rows == <<run, parent, child, stream, plan, schedule, decided, accepted>>
vars == <<weekly, rows, exec, crashes>>

Nodes    == 1..Last
Paused   == {"waiting_user", "waiting_permission"}
Terminal == {"completed", "blocked", "stopped", "failed"}
NoWait   == 0
Idle     == [at |-> "idle", node |-> 0, done |-> {}, answer |-> "none"]

Init ==
  /\ weekly \in BOOLEAN
  /\ run = "queued"
  /\ parent = [status |-> "running", waits |-> NoWait, done |-> {}]
  /\ child = [n \in Nodes |-> "none"]
  /\ stream = [n \in Nodes |-> <<>>]
  /\ plan = 0 /\ schedule = 0 /\ decided = FALSE /\ accepted = {}
  /\ exec = Idle /\ crashes = 0

\* Mutant: any version of the artifact will do.
AnyApproved(n) == \E v \in 1..Len(stream[n]) : stream[n][v] = "approved"
\* The artifact the child wrote is approved.
Approved(n) == stream[n] # <<>> /\ stream[n][1] = "approved"

\* close_runtime_state of the run with its root skill: the first end wins, and
\* the skill follows the run (_skill_status knows one way to wait).
Wins(status) == IF run \in Terminal THEN run ELSE status
\* Mutant: a skill takes the status as it is.
SameStatus(status) == status
SkillStatus(status) == IF status \in Paused THEN "waiting_permission" ELSE status

\* _close_skill_state of the parent; a replayed end keeps the report.
CloseParent(status, waits, done) ==
  /\ run' = Wins(status)
  /\ parent' = IF run \in Terminal
               THEN [parent EXCEPT !.status = SkillStatus(run)]
               ELSE [status |-> SkillStatus(status), waits |-> waits, done |-> done]

------------------------------------------------------------------------------
(* The executor. *)

\* The run is queued, or running for an executor that died; the scan finds both.
\* Mutant: only queued runs are found.
OnlyQueued == run = "queued"
Due == run \in {"queued", "running"}

\* execute() with the persisted root: a parent that is not running is answered as it is.
Take ==
  /\ exec.at = "idle" /\ Due
  /\ run' = "running"
  /\ exec' = IF parent.status = "running"
             THEN [Idle EXCEPT !.at = "plan", !.done = parent.done]
             ELSE Idle
  /\ UNCHANGED <<weekly, parent, child, stream, plan, schedule, decided, accepted, crashes>>

Next1 == CHOOSE n \in Nodes \ exec.done : \A m \in Nodes \ exec.done : n <= m
NeedsAccepted(n) == ~weekly /\ n \in Gated

\* The next child of the chain; a gated one whose source is not accepted waits.
Choose ==
  /\ exec.at = "plan" /\ exec.done # Nodes
  /\ exec' = [exec EXCEPT !.node = Next1,
                !.at = IF NeedsAccepted(Next1) /\ ~Approved(Next1 - 1) THEN "gate" ELSE "child"]
  /\ UNCHANGED <<weekly, rows, crashes>>

\* pause_composite_parent_for_artifacts reads the artifact again under the lock and
\* holds it until the pause is committed.
Gate ==
  /\ exec.at = "gate"
  /\ IF Approved(exec.node - 1)
     THEN /\ exec' = [exec EXCEPT !.at = "child"]
          /\ UNCHANGED <<run, parent>>
     ELSE /\ exec' = [exec EXCEPT !.at = "answer", !.answer = Wins("waiting_user")]
          /\ CloseParent("waiting_user", exec.node - 1, exec.done)
  /\ UNCHANGED <<weekly, child, stream, plan, schedule, decided, accepted, crashes>>

\* Mutant: a child that completed is executed again.
Unfinished(status) == status \in {"blocked", "stopped", "failed", "needs_review", "waiting_permission"}
\* execute(): a child that is paused or ended is answered as it is.
Settled(status) == status \in Terminal \cup {"needs_review", "waiting_permission"}

\* execute() for a child: an existing one is resumed or answered; a new one is
\* created under the lock unless the run ended.
StartChild ==
  LET n == exec.node IN
  /\ exec.at = "child"
  /\ \/ /\ Settled(child[n])
        /\ exec' = [exec EXCEPT !.at = "result", !.answer = child[n]]
        /\ UNCHANGED <<run, child>>
     \/ /\ child[n] # "none" /\ ~Settled(child[n])
        /\ exec' = [exec EXCEPT !.at = "work"]
        /\ UNCHANGED <<run, child>>
     \/ /\ child[n] = "none" /\ run \notin Terminal
        /\ child' = [child EXCEPT ![n] = "running"]
        /\ exec' = [exec EXCEPT !.at = "work"]
        /\ UNCHANGED run
     \/ /\ child[n] = "none" /\ run \in Terminal
        /\ exec' = Idle
        /\ UNCHANGED <<run, child>>
  /\ UNCHANGED <<weekly, parent, stream, plan, schedule, decided, accepted, crashes>>

\* What a child may end with: the package of the last one waits for a decision, the
\* others are reviewed when their quality check fails.
Outcomes(n) == {"blocked"} \cup IF n = Last THEN {"waiting_permission"} ELSE {"completed", "needs_review"}

\* The child's artifact and its nested closure are one transaction; a skill that was
\* stopped meanwhile stays stopped.
FinishChild ==
  LET n == exec.node IN
  /\ exec.at = "work"
  /\ \E outcome \in Outcomes(n) :
       /\ child' = [child EXCEPT ![n] = IF @ \in Terminal THEN @ ELSE outcome]
       /\ stream' = IF outcome = "blocked" THEN stream
                    ELSE [stream EXCEPT ![n] = Append(@, "pending")]
  /\ exec' = [exec EXCEPT !.at = "result", !.answer = child'[n]]
  /\ UNCHANGED <<weekly, run, parent, plan, schedule, decided, accepted, crashes>>

\* What the parent makes of a child that is not waiting for a review: the next one,
\* or the status of the child for itself.
UseResult ==
  /\ exec.at = "result"
  /\ \/ /\ exec.answer = "completed"
        /\ exec' = [exec EXCEPT !.at = "plan", !.done = @ \cup {exec.node}, !.answer = "none"]
        /\ UNCHANGED <<run, parent>>
     \/ /\ exec.answer = "needs_review"
        /\ exec' = [exec EXCEPT !.at = "review"]
        /\ UNCHANGED <<run, parent>>
     \/ /\ exec.answer \notin {"completed", "needs_review"}
        /\ exec' = [exec EXCEPT !.at = "answer", !.answer = Wins(exec.answer)]
        /\ CloseParent(exec.answer, IF stream[exec.node] = <<>> THEN NoWait ELSE exec.node, exec.done)
  /\ UNCHANGED <<weekly, child, stream, plan, schedule, decided, accepted, crashes>>

\* Mutant: an accepted artifact is taken for a completed child.
AcceptedNow(n) == Approved(n)
\* The review is over when the artifact was accepted and the child completed for it.
Reviewed(n) == Approved(n) /\ child[n] = "completed"

Review ==
  /\ exec.at = "review"
  /\ IF Reviewed(exec.node)
     THEN /\ exec' = [exec EXCEPT !.at = "plan", !.done = @ \cup {exec.node}, !.answer = "none"]
          /\ UNCHANGED <<run, parent>>
     ELSE /\ exec' = [exec EXCEPT !.at = "answer", !.answer = Wins("waiting_user")]
          /\ CloseParent("waiting_user", exec.node, exec.done)
  /\ UNCHANGED <<weekly, child, stream, plan, schedule, decided, accepted, crashes>>

\* All children are completed: the parent delivers its plan once and completes.
FinishParent ==
  /\ exec.at = "plan" /\ exec.done = Nodes
  /\ plan' = IF plan = 0 THEN 1 ELSE plan
  /\ exec' = [exec EXCEPT !.at = "answer", !.answer = Wins("completed")]
  /\ CloseParent("completed", NoWait, exec.done)
  /\ UNCHANGED <<weekly, child, stream, schedule, decided, accepted, crashes>>

\* _execute_composite_skill closes the run a second time, in a transaction of its
\* own, with the status the skill had when it returned.
Answer ==
  /\ exec.at = "answer"
  /\ run' = Wins(exec.answer)
  /\ parent' = [parent EXCEPT !.status = SkillStatus(run')]
  /\ exec' = Idle
  /\ UNCHANGED <<weekly, child, stream, plan, schedule, decided, accepted, crashes>>

\* The executor dies, or fails and is retried.
Crash ==
  /\ exec.at # "idle" /\ crashes < MaxCrashes
  /\ exec' = Idle /\ crashes' = crashes + 1
  /\ UNCHANGED <<weekly, rows>>

------------------------------------------------------------------------------
(* The people. *)

Latest(n) == Len(stream[n])

\* resume_composite_parent queues the run of a parent that waits.
Waiting == parent.status = "waiting_permission"
Resume ==
  /\ parent' = [parent EXCEPT !.status = "running"]
  /\ run' = "queued"

\* accept_artifact takes the latest version; the first is the one the parent may
\* wait for, and its report may name it long after it went on.
Accept(n) ==
  LET waited == Latest(n) = 1 /\ parent.waits = n
      after  == IF waited /\ child[n] = "needs_review" THEN "completed" ELSE child[n] IN
  /\ Latest(n) > 0 /\ stream[n][Latest(n)] # "superseded"
  /\ stream' = [stream EXCEPT ![n][Latest(n)] = "approved"]
  /\ accepted' = IF Latest(n) = 1 THEN accepted \cup {n} ELSE accepted
  /\ child' = [child EXCEPT ![n] = after]
  /\ IF waited /\ after = "completed" /\ Waiting
     THEN Resume ELSE UNCHANGED <<run, parent>>
  /\ UNCHANGED <<weekly, plan, schedule, decided, exec, crashes>>

\* create_artifact_revision: a new version supersedes the others.
Revise(n) ==
  /\ Latest(n) \in 1..(MaxVersions - 1)
  /\ stream[n][Latest(n)] # "superseded"
  /\ stream' = [stream EXCEPT ![n] = Append([v \in 1..Latest(n) |-> "superseded"], "pending")]
  /\ UNCHANGED <<weekly, run, parent, child, plan, schedule, decided, exec, crashes, accepted>>

\* approve_tool_call: request_interrupt pauses the run, whatever it was doing, and
\* finalize_skill_finish_approval completes the child and resumes the parent.
Approve ==
  /\ child[Last] = "waiting_permission" /\ ~decided /\ run \notin Terminal
  /\ decided' = TRUE
  /\ child' = [child EXCEPT ![Last] = "completed"]
  /\ stream' = [stream EXCEPT ![Last][1] = "approved"]
  /\ schedule' = IF weekly /\ schedule = 0 THEN 1 ELSE schedule
  /\ IF Waiting
     THEN Resume
     ELSE run' = "waiting_permission" /\ UNCHANGED parent
  /\ UNCHANGED <<weekly, plan, exec, crashes, accepted>>

\* ... or blocks the child and, with it, the parent.
Reject ==
  /\ child[Last] = "waiting_permission" /\ ~decided /\ run \notin Terminal
  /\ decided' = TRUE
  /\ child' = [child EXCEPT ![Last] = "blocked"]
  /\ stream' = [stream EXCEPT ![Last][1] = "rejected"]
  /\ CloseParent("blocked", NoWait, parent.done)
  /\ UNCHANGED <<weekly, plan, schedule, exec, crashes, accepted>>

\* request_stop stops the children that had not ended.
Stopped(n) == IF child[n] \in Terminal \cup {"none"} THEN child[n] ELSE "stopped"

\* request_stop
Stop ==
  /\ run \notin Terminal
  /\ child' = [n \in Nodes |-> Stopped(n)]
  /\ run' = "stopped"
  /\ parent' = [parent EXCEPT !.status = "stopped"]
  /\ UNCHANGED <<weekly, stream, plan, schedule, decided, exec, crashes, accepted>>

------------------------------------------------------------------------------

ExecutorStep ==
  Choose \/ Gate \/ StartChild \/ FinishChild \/ UseResult \/ Review \/ FinishParent \/ Answer

PersonStep == (\E n \in Nodes : Accept(n) \/ Revise(n)) \/ Approve \/ Reject \/ Stop

Next == Take \/ ExecutorStep \/ Crash \/ PersonStep

Spec == Init /\ [][Next]_vars

\* The scan finds due runs again and again, and an executor that lives goes on.
FairSpec == Spec /\ WF_vars(Take) /\ WF_vars(ExecutorStep)

------------------------------------------------------------------------------
(* Properties. *)

Statuses == {"none", "running", "needs_review", "waiting_permission"} \cup Terminal

\* Types.  A run and its parent pause and end together.
TypeOK ==
  /\ weekly \in BOOLEAN /\ decided \in BOOLEAN
  /\ run \in {"queued", "running"} \cup Paused \cup Terminal
  /\ parent.status \in {"running", "waiting_permission"} \cup Terminal
  /\ parent.waits \in 0..Last /\ parent.done \subseteq Nodes
  /\ child \in [Nodes -> Statuses]
  /\ \A n \in Nodes : Latest(n) <= MaxVersions
       /\ \A v \in 1..Latest(n) : stream[n][v] \in {"pending", "approved", "rejected", "superseded"}
  /\ plan \in 0..1 /\ schedule \in 0..1 /\ accepted \subseteq Nodes
  /\ exec.done \subseteq Nodes /\ exec.node \in 0..Last
  /\ run \in Terminal => parent.status = run

\* A child that must start from an accepted artifact has one: a person accepted, at
\* some time, the very artifact of the child before it, whoever revised it since.
GatesHold ==
  \A n \in Gated : ~weekly /\ child[n] # "none" => n - 1 \in accepted

\* The iteration completes for good reasons only: every child completed, in a weekly
\* batch with its five posts scheduled, and the plan delivered.  A stop, a rejection
\* or a late executor never yields a completed iteration with parts missing.
CompletionNeedsAll ==
  run = "completed" =>
    /\ \A n \in Nodes : child[n] = "completed"
    /\ decided /\ plan = 1 /\ (weekly <=> schedule = 1)

\* A child is executed once: whatever is resumed, repeated or recovered, one that
\* completed keeps its status and gets no further artifact but by a revision.
CompletedChildrenStay ==
  [][\A n \in Nodes : child[n] = "completed" =>
       /\ child'[n] = child[n]
       /\ Len(stream'[n]) > Len(stream[n]) => stream'[n][Len(stream[n])] = "superseded"]_vars

\* A run that is queued or running comes to rest: it ends or waits for a person,
\* also after its executor died.
ComesToRest == (run \in {"queued", "running"}) ~> (run \in Paused \cup Terminal)
=============================================================================
