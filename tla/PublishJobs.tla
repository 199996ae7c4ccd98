----------------------------- MODULE PublishJobs -----------------------------
(***************************************************************************)
(* Publishing through Douyin (backend/app/services/publishing.py, the      *)
(* LEGACY_DOUYIN_PUBLISH jobs, and the approval of their packages in       *)
(* api/brain.py): an approved package becomes a job, the job a handoff     *)
(* with a share id, and the platform reports the work that was published   *)
(* with it.                                                                *)
(*                                                                         *)
(* No handler locks the job.  Each reads the row, waits (for an access     *)
(* check, or for three calls of the platform), and commits the columns     *)
(* that then differ from what it had read.                                 *)
(*                                                                         *)
(* The specification has names of its own (HandoffInit, HandoffNext), so   *)
(* that a module can extend this one and WechatAuth.                       *)
(***************************************************************************)
EXTENDS Naturals, FiniteSets

CONSTANTS
  Jobs,        \* approved packages, one job each
  Handlers,    \* requests being served
  MaxShares,   \* bound: share ids the platform issues
  NoJob        \* no job

ASSUME MaxSharesAssumption == MaxShares \in Nat \ {0}
ASSUME NoJobAssumption == NoJob \notin Jobs

Shares == 1 .. MaxShares
Works  == Shares     \* a work is named for the share it was published with

VARIABLES
  decision,    \* the package's AgentToolCall: waiting, decided here, or by an interrupt
  job,         \* PlatformPublishJob: status, share_id, whether it expired, the bound work
  handler,     \* what each handler does, with the row it read
  issued,      \* shares the platform issued, and for which job
  reported     \* works the platform reports, any number of times

handoffVars == <<decision, job, handler, issued, reported>>

Statuses == {"absent", "pending_approval", "task_created", "handoff_ready", "waiting_bind",
             "bound", "failed", "expired", "cancelled"}
Decisions == {"waiting", "approved", "rejected", "interrupt"}
Handling == {"idle", "create", "decide", "check", "prepare", "launch", "callback", "retry", "cancel"}

NoRow  == [status |-> "absent", share |-> 0, expired |-> FALSE, work |-> 0]
Free   == [op |-> "idle", of |-> NoJob, seen |-> NoRow, arg |-> 0]

HandoffInit ==
  /\ decision = [j \in Jobs |-> "waiting"]
  /\ job      = [j \in Jobs |-> NoRow]
  /\ handler  = [h \in Handlers |-> Free]
  /\ issued   = [s \in Shares |-> {}]
  /\ reported = {}

------------------------------------------------------------------------------
(* Reading and writing a row. *)

Begin(h, j, op, arg) ==
  /\ handler[h].op = "idle"
  /\ handler' = [handler EXCEPT ![h] = [op |-> op, of |-> j, seen |-> job[j], arg |-> arg]]

Serving(h, op) == handler[h].op = op
Return(h) == handler' = [handler EXCEPT ![h] = Free]

\* The unit of work flushes the columns that differ from those that were read.
Flush(h, new) ==
  LET j == handler[h].of  seen == handler[h].seen IN
  job' = [job EXCEPT ![j] = [c \in DOMAIN NoRow |-> IF new[c] # seen[c] THEN new[c] ELSE job[j][c]]]

------------------------------------------------------------------------------
(* Approval, in api/brain.py. *)

\* create_publish_job reads the tool call, whatever was decided, then inserts; the key is unique.
Create(h, j) ==
  /\ job[j].status = "absent"
  /\ Begin(h, j, "create", IF decision[j] = "approved" THEN 1 ELSE 0)
  /\ UNCHANGED <<decision, job, issued, reported>>

Insert(h) ==
  LET j == handler[h].of IN
  /\ Serving(h, "create")
  /\ job' = IF job[j].status = "absent"
            THEN [job EXCEPT ![j].status =
                    IF handler[h].arg = 1 THEN "task_created" ELSE "pending_approval"]
            ELSE job
  /\ Return(h)
  /\ UNCHANGED <<decision, issued, reported>>

\* Mutant: the job copies the status of the tool call.
ToolCallStatus(verdict) == verdict
AfterDecision(verdict) == IF verdict = "approved" THEN "task_created" ELSE "cancelled"

\* approve_tool_call holds the lock of the tool call until it commits.
Undecided(j) ==
  decision[j] = "waiting" /\ \A h \in Handlers : ~(Serving(h, "decide") /\ handler[h].of = j)

\* It decides once; sync_publish_jobs_after_approval reads the jobs that are pending ...
Decide(h, j, approved) ==
  /\ Undecided(j) /\ Begin(h, j, "decide", IF approved THEN 1 ELSE 0)
  /\ UNCHANGED <<decision, job, issued, reported>>

\* ... and what it makes of them is flushed when the decision commits.
Sync(h) ==
  LET seen == handler[h].seen
      verdict == IF handler[h].arg = 1 THEN "approved" ELSE "rejected" IN
  /\ Serving(h, "decide")
  /\ decision' = [decision EXCEPT ![handler[h].of] = verdict]
  /\ IF seen.status = "pending_approval"
     THEN Flush(h, [seen EXCEPT !.status = AfterDecision(verdict)])
     ELSE UNCHANGED job
  /\ Return(h)
  /\ UNCHANGED <<issued, reported>>

\* In a conversation the tool call is decided by its interrupt: no job is told, and
\* publishing does not take the answer for an approval.
DecideByInterrupt(j) ==
  /\ Undecided(j)
  /\ decision' = [decision EXCEPT ![j] = "interrupt"]
  /\ UNCHANGED <<job, handler, issued, reported>>

------------------------------------------------------------------------------
(* The handoff. *)

\* What the row must say for the handler to go on; it refuses anything else, and returns.
Handable(row) == row.status \notin {"cancelled", "bound"}
Accepts(row) == [check  |-> Handable(row),
                 launch |-> row.status = "handoff_ready",
                 retry  |-> row.status \in {"failed", "expired"},
                 cancel |-> Handable(row)]

Read(h, j, op) ==
  /\ job[j].status # "absent" /\ Accepts(job[j])[op] /\ Begin(h, j, op, 0)
  /\ UNCHANGED <<decision, job, issued, reported>>

\* Mutant: the job's own status is taken for the approval.
SaysReady(j, seen) == seen.status # "cancelled"
\* _tool_call_is_approved: the tool call is the only source of the approval.
Approved(j, seen) == decision[j] = "approved"

\* Whether a handoff has expired is told by its row and the clock, which is read later.
Late(seen) == {seen.expired, seen.expired \/ seen.share # 0}

\* prepare_douyin_handoff, having read the job, checks the tool call, marks an expired
\* job, and goes on to call the platform for a ticket and a share.
Prepare(h) ==
  LET j == handler[h].of  seen == handler[h].seen IN
  /\ Serving(h, "check")
  /\ \/ /\ Approved(j, seen)
        /\ \E late \in Late(seen) :
             LET marked == [seen EXCEPT !.status = IF late THEN "expired" ELSE @] IN
             /\ Flush(h, marked)
             /\ handler' = [handler EXCEPT ![h] = [@ EXCEPT !.op = "prepare", !.seen = marked]]
     \/ ~Approved(j, seen) /\ Return(h) /\ UNCHANGED job
  /\ UNCHANGED <<decision, issued, reported>>

Issue(h) ==
  /\ Serving(h, "prepare") /\ handler[h].arg = 0
  /\ \E s \in Shares :
       /\ issued[s] = {}
       /\ issued'  = [issued EXCEPT ![s] = {handler[h].of}]
       /\ handler' = [handler EXCEPT ![h].arg = s]
  /\ UNCHANGED <<decision, job, reported>>

PlatformFails(h) ==
  /\ Serving(h, "prepare") /\ handler[h].arg = 0
  /\ Flush(h, [handler[h].seen EXCEPT !.status = "failed"])
  /\ Return(h)
  /\ UNCHANGED <<decision, issued, reported>>

HandOff(h) ==
  /\ Serving(h, "prepare") /\ handler[h].arg # 0
  /\ Flush(h, [handler[h].seen EXCEPT !.status = "handoff_ready", !.share = handler[h].arg,
                                      !.expired = FALSE])
  /\ Return(h)
  /\ UNCHANGED <<decision, issued, reported>>

Elapse(j) ==
  /\ job[j].share # 0 /\ ~job[j].expired
  /\ job' = [job EXCEPT ![j].expired = TRUE]
  /\ UNCHANGED <<decision, handler, issued, reported>>

\* mark_publish_job_launched, retry_publish_job and cancel_publish_job.
Launch(h) ==
  LET seen == handler[h].seen IN
  /\ Serving(h, "launch")
  /\ \E late \in Late(seen) :
       Flush(h, [seen EXCEPT !.status = IF late THEN "expired" ELSE "waiting_bind"])
  /\ Return(h)
  /\ UNCHANGED <<decision, issued, reported>>

Retry(h) ==
  /\ Serving(h, "retry")
  /\ Flush(h, [handler[h].seen EXCEPT !.status = "task_created", !.share = 0, !.expired = FALSE])
  /\ Return(h)
  /\ UNCHANGED <<decision, issued, reported>>

Cancel(h) ==
  /\ Serving(h, "cancel")
  /\ Flush(h, [handler[h].seen EXCEPT !.status = "cancelled"])
  /\ Return(h)
  /\ UNCHANGED <<decision, issued, reported>>

------------------------------------------------------------------------------
(* The platform and its callback. *)

\* The user publishes with a share that was handed out; the platform reports it.
UserPublishes(s) ==
  /\ issued[s] # {} /\ s \notin reported
  /\ reported' = reported \cup {s}
  /\ UNCHANGED <<decision, job, handler, issued>>

\* Mutant: the callback takes any job that waits for its work.
AnyWaiting(w) == {j \in Jobs : job[j].status \in {"handoff_ready", "waiting_bind"}}
\* The job that has the share now; a callback of one with a work is answered at once.
SharedBy(w) == {j \in Jobs : job[j].share = w}

Callback(h, w) ==
  /\ w \in reported
  /\ \E j \in SharedBy(w) : job[j].work = 0 /\ Begin(h, j, "callback", w)
  /\ UNCHANGED <<decision, job, issued, reported>>

\* Mutant: the status and the work are committed one after the other.
StatusFirst(seen, w) == [seen EXCEPT !.status = "bound"]
Bound(seen, w) == [seen EXCEPT !.status = "bound", !.work = w]

\* ingest_douyin_create_video_callback looked at the work that is bound, not at the status.
Bind(h) ==
  /\ Serving(h, "callback")
  /\ Flush(h, Bound(handler[h].seen, handler[h].arg))
  /\ Return(h)
  /\ UNCHANGED <<decision, issued, reported>>

Handle(h) ==
  \/ Insert(h) \/ Sync(h) \/ Prepare(h) \/ Issue(h) \/ PlatformFails(h) \/ HandOff(h)
  \/ Launch(h) \/ Retry(h) \/ Cancel(h) \/ Bind(h)

HandoffNext ==
  \/ \E h \in Handlers, j \in Jobs :
       \/ Create(h, j)
       \/ \E approved \in BOOLEAN : Decide(h, j, approved)
       \/ \E op \in {"check", "launch", "retry", "cancel"} : Read(h, j, op)
  \/ \E j \in Jobs : Elapse(j) \/ DecideByInterrupt(j)
  \/ \E h \in Handlers, w \in Works : Callback(h, w)
  \/ \E h \in Handlers : Handle(h)
  \/ \E s \in Shares : UserPublishes(s)

HandoffSpec == HandoffInit /\ [][HandoffNext]_handoffVars

------------------------------------------------------------------------------
(* Properties. *)

HandoffTypeOK ==
  /\ decision \in [Jobs -> Decisions]
  /\ job \in [Jobs -> [status: Statuses, share: 0 .. MaxShares, expired: BOOLEAN, work: 0 .. MaxShares]]
  /\ handler \in [Handlers -> [op: Handling, of: Jobs \cup {NoJob}, arg: 0 .. MaxShares,
       seen: [status: Statuses, share: 0 .. MaxShares, expired: BOOLEAN, work: 0 .. MaxShares]]]
  /\ issued \in [Shares -> SUBSET Jobs] /\ reported \subseteq Works

\* The work bound to a job was published with a share issued for this job, even
\* when handoffs are prepared anew while callbacks of earlier ones arrive.
BoundWorkIsOurs == \A j \in Jobs : job[j].work # 0 => issued[job[j].work] = {j}

\* The platform was asked for a share only for packages a human approved, in
\* whatever order the job is created, the approval decided and the handoff asked for.
SharesAreApproved == \A s \in Shares : \A j \in issued[s] : decision[j] = "approved"

\* Whoever commits last, a job that says it is bound names its work.
BoundNamesWork == \A j \in Jobs : job[j].status = "bound" => job[j].work # 0
=============================================================================
