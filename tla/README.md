# GEOzx: a verification development of the agent runtime

GEOzx is a multi-tenant service in which people talk to a "main agent" that
plans work, calls tools and experts, asks for approvals, and writes to the
accounts of social platforms. The interesting program is its durable runtime: a
FastAPI process accepts messages, PostgreSQL holds every piece of state, Redis
(through arq) delivers jobs at least once, and several workers execute runs under
leases that may expire while they work. This directory models that runtime in
TLA+, checks it with TLC on small instances, and proves its safety properties with TLAPS
for every instance.

`PROJECT.json` lists components, runs, properties, faults, theorems and, for
each definition, the source lines it stands for.

Paths below are relative to `src/backend/app/` unless they start with `src/`.

## 1. Inventory

### Components of the runtime

**Status vocabulary and closure** (`services/runtime_state.py`). Keeps no state;
`close_runtime_state` is the one way a run ends, pauses or starts. In one
transaction it writes the run, its conversation turn, its task, its SkillRun,
lease and retry columns and event rows. *Correct when:* the first terminal status
wins, the turn and the run say the same, a run that is over holds no lease.

**Agent run lifecycle** (`services/agent_runs.py`, `models/agent_runtime.py`).
State: one `AgentRun` row with status, lease owner and expiry, attempt and
maximum, next retry time, cancel marker, task. Operations: claim, queue, queue
behind a task, promote, acquire, heartbeat, complete, release after a failure,
cancel. Each is one transaction under the run's advisory gate. *Hard:* the same
run is delivered twice, taken over after its lease expired, and closed by an
executor that has not noticed. *Correct when:* a live executor is not replaced,
executors can be told apart, retries are bounded, nothing is lost, the follow-ups
of a task move in order.

**Workers and scan** (`worker.py`). State: one coroutine per job, a heartbeat
task, the arq queue. `execute_agent_run` acquires, executes and closes;
`recover_agent_runs` re-enqueues due, queued and expired runs every half minute.
*Hard:* crash at every await, cancellation from four sources, jobs lost or
doubled.

**Submission** (`api/conversations.py`, `services/conversation_submission.py`,
`api/brain.py`). A conversation turn and its run are inserted together and then
enqueued; a follow-up to an existing task is claimed, queued behind the task's
active run or prepared inline in the API process, and then queued. *Hard:* the
API dies between any two of these transactions; two follow-ups race.

**Steering** (`services/turn_steering.py`). Classifies a message sent to a live
turn as STOP, REPLACE_GOAL or SUPPLEMENT; the last creates a revision, a second
run on the same task, and may supersede an unapproved source.

**Interrupts** (`services/turn_interrupts.py`, `api/turn_interrupts.py`).
Questions and approvals that pause a run; resolve (queue again or end) and stop.
*Hard:* the question of a late worker arrives after the stop.

**Turn execution and skills** (`services/turn_execution.py`,
`orchestrator/skill_runtime.py`). Start the turn's task, create root and child
SkillRuns (each acquires the run again or writes its lease directly), heartbeat,
and finish in one of several statuses, which the caller of the skill records once more in a
transaction of its own. A revision is executed by a skill too. The recovery of a SkillRun decides what
becomes of tool calls its predecessor left open.

**Durable tool executor and account lane** (`orchestrator/tool_executor.py`,
`services/account_execution_lane.py`). State: `AgentToolCall` per logical call,
`ToolExecutionAttempt` per request to a provider, two advisory locks (run gate,
account) held by a session of their own. Operations: look up, ask for approval,
plan an attempt, wait for gate and account, claim, dispatch, record. *Hard:* the
request is not in the transaction: a crash, an exception or a failed commit after
it leaves a write whose effect is unknown. *Correct when:* an unrepeatable request
is sent at most once and never called failed once it may have arrived.

**Lock order** (`services/runtime_locking.py` and its callers). State: the row
locks and transaction-level advisory locks of PostgreSQL. A transaction that
changes a run takes the run's *gate* (an advisory lock) first and then rows by
family: run, turn, task, content, skills, revision, deliverables, calls. A forest
of several runs is locked family by family. *Hard:* a few services start
elsewhere; the write of a tool holds locks in two sessions at once. *Correct
when:* those that keep the order never deadlock, and no circle hides from the
database's detector.

**Composite skills** (`orchestrator/skill_runtime.py`,
`services/composite_skill_runs.py`, `services/skill_approvals.py`,
`services/artifacts.py`). State: a parent SkillRun with a chain of children, an
artifact stream for each, the status of the run. Operations: take the run, start,
finish and review a child, pause, accept, revise, approve, reject, stop.
*Hard:* people accept and revise while the executor decides whether to pause; the
executor dies between its transactions. *Correct when:* a gated child starts from
something a person accepted, completion is complete, nothing runs twice.

### Components with state machines of their own

**Account data import.** *Jobs* (`services/data_import/jobs.py`, `worker.py`): one
job row, its files, one batch per dataset; executed by whoever gets a message
about it, re-enqueued every few minutes. *Hard:* nothing keeps two workers from
executing one job side by side. *Correct when:* nothing is imported twice,
"completed" means imported, every job ends. *Ledger*
(`services/data_import/service.py`, `projection.py`, `merge.py`): batches add
field observations; snapshot rows show the winner of each field; batches are
committed, revoked and deleted. *Hard:* each of these rebuilds rows that others
rebuild at the same time, at READ COMMITTED. *Correct when:* what is shown
follows from what is left.

**Publishing** (`services/publishing.py`). *Handoffs* to Douyin: an approved
package becomes a job, the job a share, and a callback binds the published work.
*Hard:* no handler locks the job, and each waits for the platform between its
read and its write. *WeChat drafts*: a job is frozen, claimed by compare and set,
and performs up to four external calls, each between an intent and a result in
the event ledger. *Hard:* death between intent and result; the customer edits the
draft. *Correct when:* no write is repeated blindly and no known edit is lost.

**WeChat authorisation** (`api/platform_integrations.py`,
`services/wechat_component.py`). Sessions, callbacks, notices of revocation, and a
refresh token that several workers renew under an advisory lock. *Hard:* sessions are
stamped by the server's clock and revocations by WeChat's, both in whole seconds, and
notices come late. *Correct when:* a revocation is final as far as the two clocks agree,
and a rotated token is not lost.

### Components around them

**Run revisions and checkpoints** (`services/run_revisions.py`,
`services/skill_stage_checkpoints.py`): the barrier before a revision takes over
and the reuse of finished stages. **Event log** (`services/turn_events.py`,
`core/events.py`): sequence numbers of a turn's events. Deliverable actions, media,
knowledge and memory, users and access, model gateway, read models, the web client
and the OAuth callback worker. Each is an entry of `components` with its status
and, where it is left out, the reason.

### How they interact

    client --HTTP--> API --rows--> PostgreSQL <--rows-- workers --requests--> providers
                      |                                   ^
                      +-------job (at least once)--> Redis+   scan re-enqueues from the rows

The database is the only shared truth. A job says no more than "look at run r". A
worker reads the row again when it gets the run, and keeps a copy in memory while
it works. Everything that goes wrong goes wrong between two transactions of one
process, which is why the modules keep a program counter for each process and
make each transaction one action.

## 2. Modules

| module | what it is | instances |
|---|---|---|
| `RuntimeState` | the status vocabulary and the pure functions of a closure | |
| `AgentRuns` | the lifecycle of runs: API, queue, workers, scan, faults | `MCAgentRuns` |
| `AgentRunsProofs` | TLAPS theorems: every safety property of `AgentRuns` | |
| `WriteLedger` | abstract specification: what a durable write call promises | |
| `ToolExecution` | the tool executor, the account lane, the recovery of a skill | `MCToolExecution` |
| `ToolExecutionProofs` | TLAPS theorems: the locks of `ToolExecution`, its rows, the refinement | |
| `CompositeSkills` | the parent of an operation iteration and its children | `MCCompositeSkills` |
| `CompositeSkillsProofs` | TLAPS theorems about `CompositeSkills` | |
| `LockOrder` | which locks each kind of transaction asks for, in which order | `MCLockOrder` |
| `LockOrderProofs` | TLAPS theorems about `LockOrder` | |
| `ImportJobs` | a bulk import job, its files and messages | `MCImportJobs` |
| `ImportJobsProofs` | TLAPS theorems about `ImportJobs` | |
| `AccountLedger` | batches, observations and snapshots of an account | `MCAccountLedger` |
| `AccountLedgerProofs` | TLAPS theorems about `AccountLedger` | |
| `PublishJobs` | packages, handoffs to Douyin and their callbacks | `MCPublishJobs` |
| `DraftSync` | an article synchronised to a WeChat draft box | `MCDraftSync` |
| `DraftSyncProofs` | TLAPS theorems about `DraftSync` | |
| `WechatAuth` | authorisations and tokens of a WeChat account | `MCWechatAuth` |
| `PlatformProofs` | TLAPS theorems about `PublishJobs` and `WechatAuth` | |

`AgentRuns` extends `RuntimeState`; `ToolExecution` refines `WriteLedger`. The
others stand beside them and meet in the rows: `CompositeSkills` looks into what
`AgentRuns` calls an execution, with one executor at a time; `LockOrder` looks into
what both call one transaction; `ImportJobs` treats a batch as committed or not and
`AccountLedger` says what a commit does; `DraftSync` assumes the token that
`WechatAuth` renews.

### RuntimeState and AgentRuns

| in the model | in the code |
|---|---|
| `status`, `owner`, `attempt`, `cancel` | the columns of `agent_runs` (`cancel`: `cancel_requested_at` is set) |
| `lease` = none / live / expired | `leased_until` unset / in the future / past |
| `retry` = none / later / due | `next_retry_at` likewise |
| `bound`, `TaskOf` | `task_id` is set, and to which task |
| `turn`, `task`, `interrupt` | status of the conversation turn, the BrainTask, the latest TurnInterrupt |
| `skills` | SkillRuns created for the run, the root first |
| `jobs` | jobs in Redis for the run |
| `api` | where a request that submits a follow-up stands between two commits |
| `pc`, `job`, `stamp` | a worker's step, its run, and the attempt it remembers |
| `result` | the status a skill returned to the worker, before it is recorded |

An action is a transaction: `Acquire` is `acquire_agent_run` with the closure to
`running`, `Complete` is `complete_agent_run`, `Release` is
`release_agent_run_failure` with the enqueue of the retry, and so on. `Close`
stands for `close_runtime_state` and is used by every action that calls it.
A skill runs in a turn or a revision (`SkillMode`): it creates SkillRuns (`StartSkill`,
`StartChildSkill`), goes on with one that exists (`Resume`, `Reacquire`), closes the run
(`FinishTurn`) and returns a status, which its caller closes the run with a second time
(`ReportResult`). Between the two anything may happen to the run. One that lost its lease
returns what its row says (`LoseSkillLease`), and the parent of a child that did so closes
the run with the answer (`CloseParent`). `AcceptArtifact` and `DecidePackage` are what
people do to a composite skill as far as the run sees it; `CompositeSkills` has the rest.
`Crash`, `ApiCrash` and `LoseJob` are the faults; `Expire` of a lease whose holder
works is a stall. All four, and the answers of people that put a run back to work, are
paid from `Budget`. Time is the three values of
`lease` and `retry`. What an execution answers is chosen freely from
`TurnOutcomes` and `TaskOutcomes`. Heartbeats renew a lease that its owner
still holds, as the code does.

A run is identified by a natural number that grows in creation order, since the
waiting line is ordered by `created_at`.

### WriteLedger and ToolExecution

`WriteLedger` is small: per call an outcome (open, success, failed, ambiguous) and
the number of requests sent. `Fail` and `Doubt` take a set of calls: a recovery settles
every call its SkillRun left open in one transaction, so with two of them no step for one
call would match. A call in `Once` is sent at most once; it fails only
if nothing was sent; success is final; what was doubted may still turn out well;
failed calls may be retried if they may be sent. A call a person decides
(`Asked`) is never sent.

`ToolExecution` follows one executor through
`ToolExecutor.execute`: `Lookup`/`Create` → `Plan` → `TakeGate` → `TakeLane` →
`Claim` → `Answer` → `RecordSuccess`/`CommitFails`/`RecordException`. Rows of call
and attempts are `call` and `tries`, advisory locks `gate` and `lane`. `Claim` is
the transaction in which the row is read again under a lock: it replays, converges
on ambiguous, refuses, or dispatches. `Recover` is
`_interrupt_ambiguous_side_effects`, for the calls of the SkillRun that is executed again
(`CallsOf`). Of the run only status, lease and owner are
kept, and what others do to them (`Acquire`, `Heartbeat`, `Leave`, `Stop`, `Expire`) is any
behaviour that respects the gate, so the module does not depend on the details of
`AgentRuns`. "ended" stands for every terminal status: an execution of an ended run
is allowed for all of them, which the code does for stopped and blocked runs; paused
and retrying runs are "queued". The provider answers, or raises, in which case the request may or may
not have arrived. `Abandon` is a crash or a cancelled coroutine, `LoseGuard` the
loss of the session that holds both locks, from the moment it has the account on, `CommitFails` the failed commit of a
success; with the stall of an executor they are paid from `Budget`.

`Ledger == INSTANCE WriteLedger WITH outcome <- ..., sent <- ...` is the refinement
mapping: rows that are not settled are "open", and only writes are mapped. Reads
are executed by the module but promise nothing: two executors may dispatch the
same read, and the code means them to.

### CompositeSkills

| in the model | in the code |
|---|---|
| `run`, `parent`, `child` | status of the AgentRun and of the SkillRuns; `parent.waits` and `.done` are the report in its output |
| `stream` | the versions of each child's artifact and their status |
| `plan`, `schedule`, `decided` | the delivered plan, five schedule entries, the decision on the package |
| `exec` | where the executor stands between two transactions |
| `accepted` | history: nodes whose artifact a person accepted |

`Take` is the start of an execution, `Choose` the decision which child is next,
`Gate` the check whether its source is accepted, with the pause if it is not,
`StartChild` / `FinishChild` / `UseResult` / `Review` the life of a child,
`FinishParent` the end, `Answer` the closure of the run that
`_execute_composite_skill` makes in a transaction of its own. `Accept`, `Revise`, `Approve`,
`Reject`, `Stop` are what people do.

### LockOrder

A process is one coroutine with its transaction. Each operator under "Orders of
acquisition" is the sequence in which one service locks families of rows; `Steps` says
which of them a kind of transaction follows, and with which session. `todo` is the step a
transaction is at and the rows it still has to lock there, `held` what its sessions have.
`Asking` is the least row that is left, as the helpers lock the rows of a family by
ascending id; the queries of a deletion's second part order nothing, and the model lets
them ascend too. `Keeps` says that another session has the lock; `Grant` takes it when none does,
`Commit` gives everything back. `QueueBehind` and `DeleteRest` are second parts
of a transaction whose locks depend on what is committed by then. `Visible` is the edge
PostgreSQL's detector sees, from a waiting session to the session that has the lock, and
`WaitsFor` the edge between coroutines, which also runs through the session of
the lane's guard. `Abort` ends one transaction of a circle that is seen.

### ImportJobs and AccountLedger

In `ImportJobs` every commit of `process_import_job` is a step: take a message,
open a file, parse it, import one dataset after the other, finish the file,
finish the job. `file` keeps bytes as a model value (`sha`) and its creation; `taken` is history, the
batches as which each dataset of a file was counted as imported.
The scan delivers a job again when it was not written for half an hour, also while a worker
executes it. Faults are the death of a worker, an enqueue that never arrives, and an
execution that takes so long.

In `AccountLedger` a transaction has a step in which it takes its locks, one in
which it reads, and one in which it writes: at READ COMMITTED others commit in between.
`Stored` is SQLAlchemy's flush: only columns that differ from what was read are
written. A value of a field is the batch it is from, so the winner can
be compared with what the remaining observations say. `raced` remembers keys on
which a revocation overlapped another transaction (section 6).

### PublishJobs, DraftSync, WechatAuth

In `PublishJobs` a handler reads a row (`seen`), waits, and flushes the columns
that differ. The decision on a package (`Decide`, `Sync`) does so too: it reads the pending
jobs and writes them when it commits; the answer to an interrupt (`DecideByInterrupt`)
tells no job. A work is named for the share it was published with, so "its own work"
can be said. In `DraftSync` `ledger` is the set of events (attempt,
operation, phase) of a job, `calls` counts what took effect at WeChat, `drafts` is
the draft box. `Die` may strike between any two steps. In `WechatAuth` there
are two counters of seconds, `now` of the server, which stamps sessions, and `wechatNow` of
WeChat, which stamps revocations. Either may lag behind the other; `Ahead` bounds by how
much the server's may be in front. A token is a grant and how often it was rotated, and WeChat's side
(`wechat`, `revoked`) is modelled beside the rows.

## 3. Runs

| run | instance | states | properties |
|---|---|---|---|
| `lifecycle` | 1 turn and 1 revision of one task, by single or composite skills, 2 workers, 2 attempts, 1 job each, 2 SkillRuns, budget 1 | 1,172,899 | `TypeOK`, `LeaseEndsWithRun`, `AttemptsFence`, `RetryBudget`, `TurnMirrorsRun`, `NoLostRun`, `FirstTerminalWins` |
| `followups` | 3 messages to one task, 1 worker, budget 1 | 2,119,334 | `PromotesInOrder` |
| `settle` | 2 turns, 1 worker, 2 attempts, budget 1, fairness | 291,796 | `TurnsSettle` |
| `writes` | 2 runs, 1 account; an unrepeatable, a repeatable and a confirmed write; 2 executors, 2 attempts, 2 faults | 1,758,440 | `TypeOK`, `DispatchIsVisible`, `GuardedWriterOwnsRun`, `AccountWritesExclude` |
| `reads` | 1 run, a skill with an unrepeatable and a repeatable write and a read; 2 executors, 2 attempts, 1 fault | 2,052,372 | `KeepsLedger` |
| `composite` | 4 children of which one is gated, 2 versions, 1 death, weekly or not, fairness | 910,642 | `TypeOK`, `GatesHold`, `CompletionNeedsAll`, `CompletedChildrenStay`, `ComesToRest` |
| `locks` | 3 coroutines, 2 runs and one that may be born | 1,336,316 | `TypeOK`, `GatedNeverDeadlock`, `DatabaseSeesDeadlocks` |
| `imports` | 2 files of an ambiguous and an unreadable content, 2 datasets, 2 workers, 2 faults or long executions, fairness | 1,172,336 | `TypeOK`, `CompletedMeansImported`, `CommittedOnce`, `JobSettles` |
| `ledger` | 3 batches that overlap on an account day and a content, 2 fields, 2 requests | 1,045,982 | `TypeOK`, `SnapshotShowsWinners`, `ContentHasLiveOwner` |
| `handoffs` | 2 packages, 2 handlers, 2 shares | 4,456,476 | `HandoffTypeOK`, `BoundWorkIsOurs`, `SharesAreApproved`, `BoundNamesWork` |
| `drafts` | 2 jobs, 2 executors, a cover image, 2 attempts, 2 drafts, 1 fault | 2,811,509 | `TypeOK`, `OneExecutor`, `NeverRepeatedBlindly`, `EditsNeedConsent` |
| `tokens` | 2 organisations, 2 sessions, 2 workers, 3 seconds on each of two clocks, the server's at most 1 in front, 1 rotation, 1 lost answer | 1,949,527 | `TypeOK`, `RevocationWins`, `RotationKept` |

What the properties say:

- `AttemptsFence`: two executors of one run never remember the same attempt, and
  whoever holds the lease remembers the current one. The code numbers attempts and
  hands the number to nobody as a token; this invariant is what makes it one.
- `FirstTerminalWins`: a finished run changes only when a user answers a question
  that was still open.
- `LeaseEndsWithRun`, `TurnMirrorsRun`, `RetryBudget`: the columns a
  closure writes agree after every interleaving; a retry is due only while attempts are left.
- `NoLostRun` is what recovery rests on: a run that claims to run has a lease that can
  expire and one that waits for a retry its time, so the scan can find it. No crash, stop,
  retry, takeover or decision breaks this; what can is the caller of a skill that records
  late that the run goes on (section 6), and the property excepts exactly that step.
- `PromotesInOrder`: a follow-up leaves the waiting line only when no run of its
  task is executable, and only the oldest does.
- `TurnsSettle`: every accepted turn ends or pauses for the user.
- `DispatchIsVisible`: a write whose request may be on its way is marked on its row
  and on exactly one attempt. Recovery reads two tables and would miss it otherwise.
- `GuardedWriterOwnsRun`: while a guarded write is in flight nobody stops, closes or
  takes over its run, even after its lease expired.
- `AccountWritesExclude`: two guarded writes in flight are on different accounts.
- `KeepsLedger`: the executor implements `WriteLedger`.

- `GatesHold`, `CompletionNeedsAll`, `CompletedChildrenStay`: whatever people
  accept, revise, reject or stop while the executor works or dies, a gated child starts
  from something a person accepted, a completed iteration has all its
  parts, and a completed child is not executed again.
- `ComesToRest`: a run that is due ends or waits for a person.
- `GatedNeverDeadlock`: every deadlock involves a transaction that locked rows of
  a run before its gate, or in an order of its own; the others may lock one run or
  all of them, discovered before or after the birth of another.
- `DatabaseSeesDeadlocks`: coroutines that all wait for each other are seen to do so, and
  the database ends one of them: no circle closes through the two sessions of a write, where
  PostgreSQL would wait for ever. With the previous one, transactions
  that take the gates first never get stuck among themselves.
- `CommittedOnce`, `JobSettles`: see the inventory. `CompletedMeansImported`: a
  completed file, or the file it is a duplicate of, had every dataset counted as imported
  by a batch of its bytes that was committed (section 6 says why not more). `JobSettles` excepts a revoked batch and a dataset
  whose import raises by name (section 6).
- `SnapshotShowsWinners`, `ContentHasLiveOwner`: after every transaction each
  snapshot equals what the remaining observations say, except on raced keys.
- `BoundWorkIsOurs`, `SharesAreApproved`, `BoundNamesWork`: with stale reads and late
  callbacks, what is bound to a job was published with its own share, shares are
  only issued for approved packages, and a bound job names a work.
- `OneExecutor`, `NeverRepeatedBlindly`, `EditsNeedConsent`: the claim of a draft
  job is exclusive even after a death, a write is repeated only after a recorded
  failure, and a text the executor saw is overwritten only with consent.
- `RevocationWins`: once the last revocation was filed for an organisation, its row is
  authorised only by a session that was opened later, or less than the skew of the clocks
  before it. `RotationKept`: the refresh token issued last is never lost, unless an answer was.

*Bounds.* Two workers are enough for a stale and a fresh executor; a third would
have to be stale too, and a stale executor meets only rows. Two attempts reach the retry, the
last attempt and the dead letter. A budget of one is a stall, a crash, a lost job or an
answer of a person: the stall leaves a stale executor beside the one that took over, and an
answer does so without a stall, because the run is queued while the executor that asked has
still to record its result. Three messages are needed for an order among two
that wait. One account is the case in which lanes matter. Two attempts of a call
are a failure and its retry. Three coroutines are a deadlock of two beside a third that
delays them, and of three; three runs are two to lock in different orders and one
that is born between discovery and locking. Three batches leave two when one
goes, so an heir has to be chosen. Two handlers are a stale and a fresh one. Four
children are a first, an ungated, a gated and the last one with the package. Three
seconds hold events before, within and after the same second, and a second of skew is
enough for a revocation that one clock puts before a session and the other after it. The bounds are
constants and no property mentions one except `MaxAttempts`, which is a column, and `Ahead`, which is the skew.
`settle` uses one worker: with two, the late report of the first may lose the run, and a run
that is lost does not settle.

*Faults.* For each property of each run `PROJECT.json` names a mutant: an
operator marked "Fault:" or "Mutant:" in the module, such as `ShortListKeepsLease` or
`ContentFirst`, replaces the real one and TLC finds the property violated.

*Deadlock* of the model is checked in `locks`, where somebody can always go on
because the database breaks the circles it sees. The other systems may stop: every
run is over and the budgets of the environment are used up.

*Symmetry.* Where a run declares symmetry, no formula distinguishes the values
that are permuted and none of its properties is a liveness property.

### Fairness

`FairSpec` assumes: a lease whose holder is gone runs out (time passes); the retry
time arrives; the scan recurs (cron); a job that is offered again and again is
delivered some time (strong fairness of `Deliver`, as the one worker may be busy in
between); every execution ends, at the latest by arq's default job timeout; a
request of the API that is not killed finishes. Users, faults and
heartbeats owe nothing. The expiry of a lease whose holder works is a fault
and not fair.

`ImportJobs` assumes that messages are taken, that a worker that took one goes
on unless it dies, and that the cron job runs. `FairSpec` of `CompositeSkills`
assumes that a due run is taken and that its executor goes on (one
death per instance is a fault); people owe nothing. All other modules state
safety only.

## 4. What is proved

Every safety property of the runs is proved for all values of the constants. Each proof module has the same shape: an invariant that implies the properties
and is inductive, one step per action, one temporal step at the end. The assumptions are the
named ones of the modules, which TLC evaluates in the runs. They say no more than that kinds
are disjoint or subsets, that a null value is none of the values it stands beside, and that
bounds are numbers; the rest is named below.

### AgentRunsProofs

For every set of runs, tasks and workers, every number of attempts, jobs, SkillRuns and
faults. `OutcomesAssumption` says that an execution does not report `dead_letter` itself.

- `TypeCorrect`: `Spec => []TypeOK`. Inductive as it stands, because `TypeOK` says besides
  the types that a worker is idle exactly when it serves no run.
- `AttemptsFenceExecutors`: only two kinds of step hand out an attempt, the acquisition and
  the creation of a SkillRun. Both raise the attempt and name the new executor in one
  transaction, so the new stamp is larger than every remembered one (`FenceRaised`). Every
  other step leaves the attempt alone, can only clear the owner, and can only end an
  execution (`FenceLeft`). That an owner always holds the current attempt is the part that
  makes it inductive.
- `LeasesEndWithRuns`, `RetriesStayInBudget`, `TurnsMirrorRuns`. None is
  inductive alone: that a lease belongs to a run that goes on, say, rests on no worker having
  a message the API still prepares. The many actions move a row in few ways (`RowMoves`: it stays, is closed,
  leased, resumed, promoted, superseded, ...). What each action does to a row is established
  once; `RowsSound`, the conjunction of the three and of where a row may come from
  (`Provenance`: nothing reaches a run before the API let go of it), is then shown for a way
  to move and not for an action.
- `NoRunIsLost` (`NoLostRun`), `TerminalRunsStay` (`FirstTerminalWins`) and
  `FollowUpsKeepOrder` (`PromotesInOrder`) are
  properties of steps and follow from the same ways to move. For the first, a closure says
  who asked for it (`Reported`, `RetryAsked`): a run without lease is closed as running
  only by a report. The last needs that a set of
  waiting messages has an oldest one, whatever its size.

### ToolExecutionProofs

For every set of calls, runs, accounts and executors.

- `GuardsProtectRuns` and `LanesExclude` follow from `LocksHeld`, which says of each
  executor what it holds at which step: the gate and the ownership of the run from
  `TakeGate` on, the lock of the account from `TakeLane` on, and both from there on unless the
  guard was lost. The properties speak of executors in flight only and are not inductive:
  nothing would be known of one about to dispatch. `OthersHold` shows once that a step
  cannot disturb the executors it is not about.
- `ToolTypesCorrect`, `DispatchesStayVisible` and `ExecutorKeepsLedger`: the executor
  implements `WriteLedger`, initial state and every step. The invariant `LedgerKept` adds
  what the rows say of requests on their way: a call is "running" exactly when one of its
  attempts is dispatched, and only one is; two executors in flight have different calls; an
  unrepeatable call that was sent is running, successful or ambiguous and nobody is about to
  send it again. Most steps ask the provider of nothing and move a write in one of three
  ways (`Same`, `Unsent`, `Doubted`); dispatch, answer and recovery are treated by
  themselves.

### CompositeSkillsProofs

For a chain of any length, any gated children, versions and deaths of the executor:
`TypesCorrect`, `GatesAreHeld`, `CompletionIsComplete`, `CompletedStay`. The executor reads
in one transaction and acts in a later one. The invariant `ExecOk` says what it remembers at
each point between them, and holds because it only ever relies on what no person can undo:
an artifact that was accepted once, a child that is completed, a decision that is taken, a
plan that is delivered. `CompletionIsComplete` also needs that an ended run has a parent
that ended with it, or a dead executor's answer would be believed.

### DraftSyncProofs

For any keys, executors, images, attempts, drafts and faults: `TypesCorrect`,
`ExecutorsExclude`, `WritesAreCounted`, `EditsAreConfirmed`. Only the executor past its
claim makes a job "queued" again, as its last step, and whoever dies leaves a job nobody can
claim. `KeyOk` turns this into a count: a write took effect at most once more than its
failures on record, and not once more while it may still be asked for (`Open`: the job
waits, or the executor that claimed it has the operation in hand). Without `Open` the count
is not inductive: nothing would keep a call in hand from being the second.

### PlatformProofs

`WechatAuth`, for any organisations and callers, finitely many sessions
(`SessionsAssumption`) and any number of seconds, rotations and losses: `TypesCorrect`,
`RevocationsWin`, `RotationsAreKept`, `RevocationIsFinal`. A row that is authorised in spite
of a filed notice is so by a completed session of a later second (`FiledLast`). That second is of the
server's clock; `Stamps` relates it to the second WeChat's clock showed when the session was
opened, and `CompletedBy` names the session. So it was opened later than `Ahead` seconds
before the revocation, which is all that can be said of two clocks; `RevocationIsFinal`
adds that nothing is authorised while no grant stands if the server's clock is never in front
(`OldGrants`: then no session that could still authorise is younger than the last
revocation). For
the rotation, a grant belongs to the one organisation whose session obtained it (`Owns`),
one caller per organisation holds the lock (`OneCall`) and a token is not rotated before its
grant is in a row (`FirstTurn`).

`PublishJobs`, for any jobs and handlers and at least one share (`MaxSharesAssumption`):
`HandoffTypesCorrect`, `OnlyApprovedShares`, `WorkIsOwn`, `BoundHasWork`. No handler locks
its job, so what it read may be stale when it flushes. The invariant is about what a handler
carries (`Carries`) and what a row holds (`RowHolds`), and one decision at a time is under way
for a package (`OneDecides`): an approval that was seen cannot be
withdrawn, and the share or work in hand was issued for this very job. A flush mixes columns
of two of these and the mix has the property because each part has.

The two modules share no state and meet here only because both connect an organisation to a
platform; no theorem is about both.

### ImportJobsProofs

For any contents, datasets, workers, files and faults; there is at least one content
(`SizesAssumption`): `TypesCorrect`, `CommitsOnce`, `CompletedFilesAreImported`. Any number
of workers execute the job side by side, but everything a worker goes by only grows
(`Grows`): a file keeps its bytes, a committed batch stays so, a counted dataset stays
counted. So what a worker has counted so far (`WorkOk`) is true whatever the others do, and
is what it needs when it declares a file completed.

### AccountLedgerProofs

For finitely many batches (`BatchAssumption`), any keys, fields, cells, priorities and
requests: `TypesCorrect`, `SnapshotsShowWinners`, `ContentsHaveOwners`. The comparison of
observations (priority, clock, id) is shown to be a strict total order with a winner in
every finite set that is not empty. The invariant is `Planned`: what a transaction has read
and will write is right for the observations as they are now and stays so until it writes,
because whoever changes the observations of a key meanwhile makes the key raced, and two
commits cannot overlap: they hold the account. `SnapshotShowsWinners` alone says nothing
between the read and the write.

### LockOrderProofs

For any runs, of which the task has at least one (`RunsAssumption`), and finitely many
processes (`ProcsAssumption`): `TypesCorrect`, `GatesOrder`, `CirclesBreak`. The invariant
(`Good`) says exactly what a process holds: the locks of the steps it has passed (`Past`),
and what a deletion or the insertion of a run brought along (`Brought`).

- `GatesOrder` (`GatedNeverDeadlock`). Families are ranked once for all kinds of
  transaction: gate, account, run, turn, task, content, skill, revision, deliverable,
  approval, call, interrupt; within a family the row counts. Every kind that takes the gates
  first, and the two that need none, asks in ascending order (`StepsUp`; a child's
  second lock of the content is one it has). Who waits in a circle waits for a lock above all it holds
  (`WaitsAbove`), so of a finite set of them the one that waits for the highest lock waits
  for somebody who waits for a higher one (`NoCircle`).
- `CirclesBreak` (`DatabaseSeesDeadlocks`). An edge of a circle is invisible only if it
  leads to the guard of a write whose own session waits, which can only be for the call of
  its run. Only a deletion past its forest can have that call without the gate of the
  guard (`GateOfCall`). It has the task already and waits for a call or an
  interrupt, and whoever has one of these and waits in turn has the task or the turn that
  the deletion has (`TaskOrTurn`). So such a write is never part of a circle (`LaneMoves`).

### Only model-checked

- `TurnsSettle`, `JobSettles`, `ComesToRest`: liveness rests on fairness and on what is
  enabled, which the prover does not handle.

A proof says nothing of the code beyond the model: that an action is what the code does
rests on the correspondence in `PROJECT.json`.

## 5. Not modelled

- Contents: texts, plans, artifacts, costs, choices of a language model. Their
  effect on the rows is a free choice. This is the larger part of the code by
  lines (planner, brain graph, harness, prompts, gateway, read models, web client): it
  keeps no state on which two actors could disagree.
- In `AgentRuns`: steps, checkpoints and artifacts of skills, idempotency keys
  of the endpoints, event rows. Row locks inside one transaction, because the
  advisory gate makes transactions on one run atomic with respect to each other;
  `LockOrder` is about the ones that do not take it. Two functions of
  `orchestrator/brain_runtime.py` that close a turn (`deliver_task_free_turn`,
  `deliver_operation_turn_state`) have no callers.
- In `ToolExecution`: the SQLite fallback of tests, requests that are refused
  because their arguments or their provenance differ, an executor that re-enters
  its own call, a reused lock key (two accounts with the same hash).
- In `CompositeSkills`: pauses for missing evidence or tools, and checkpoints:
  `record_completed_stage` has no caller outside of tests, so no stage is ever
  reused that way.
- In `LockOrder`: the shared key locks of foreign keys, rows that are updated without
  having been locked (except where an operation names them), checkpoints, the
  seals that tie a lock token to its session and transaction, and the locks of imports and
  WeChat accounts, which lock no row the runtime locks (article and deliverable
  actions lock a content alone, as `AcceptPlain` does first).
- In `AccountLedger`: batches from before observations existed, audience and
  benchmark snapshots, parsing and matching of rows. Who owns a content record is kept per
  key of the projection; the code looks for an heir among the observations of the content
  for any date (`_reassign_or_delete_content_record`, `data_import/service.py:2184`). The two
  coincide as long as a content has one date, as in all templates in use.
- In `PublishJobs`: the content record a callback creates. In `DraftSync`: rendering and
  the check of the frozen package version (packages are never edited in place).
  In `WechatAuth`: ticket and token of the component itself.
- `run_revisions.py` beyond what a supplement and a barrier do to runs and locks,
  and the event log: each is a small state machine under the gate of its run.
- Components marked `not_modelled` in `PROJECT.json`, each with its reason.

## 6. Divergences met while modelling

Places where the code does not do what a document, a comment or a test says. Each was a
counterexample of TLC when its formula was checked. The formulas that do not hold are no
longer part of the runs, and the properties that are state what does hold, excepting these by
name where they must. Paths of documents are relative to the repository.

*Runs and workers*

- A worker stalls, its lease expires, another takes the run over; the first wakes
  up and completes the run. Completion, failure and cancellation never look at the
  owner (`agent_runs.py:754`;
  `src/docs/superpowers/specs/2026-07-21-production-agent-runtime-design.md:91`).
- A duplicate job of a paused, blocked or stopped run is executed: acquisition
  refuses four statuses only (`agent_runs.py:448`; same document, line 177).
- A supplement waits behind its turn; a turn returns before the promotion and the
  scan ignores waiting runs, so it waits for ever (`worker.py:260`).
- The API dies while it prepares a message inline: the run is "running" without a
  lease, no scan finds it, and it blocks its task (`api/brain.py:687`; same document, line 176).
- A follow-up that had to wait takes, once promoted, a path through the preparation
  that raises (`api/brain.py:917`; `src/backend/tests/test_agent_runs.py:703`).
- A worker that shuts down cancels its run for good, as if the user had done it
  (`worker.py:264`).
- A takeover after a crash starts an attempt beyond the maximum (`agent_runs.py:456`).
- Creating a SkillRun overwrites a live lease and erases a retry time
  (`skill_runtime.py:757`, `:799`), and each one consumes an attempt, so a
  composite skill can be a dead letter at its first transient error.
- The late failure of a run that is already dead leaves its task "running"
  (`agent_runs.py:512`).
- A stop sent by steering to a paused run sets a marker nobody reads
  (`turn_steering.py:863`); a late question reopens a stopped run
  (`turn_interrupts.py:112`).
- The caller of a skill closes the run once more with the status it was returned, and a
  composite parent with that of its child, without looking at the run
  (`turn_execution.py:857`, `skill_runtime.py:2388`). Worker 1 executes a
  child of a composite skill, stalls, and its lease expires; worker 2 takes the run over and
  pauses it; worker 1 had read its child's row while that said "running",
  takes it for the status of the parent and closes the run with it. The run is "running"
  without lease or job and no scan finds it, against the docstring of the scan
  (`worker.py:399`) and line 91 of the same document. `NoLostRun` excepts this step. A late
  pause stops a run that was resumed meanwhile, or that another executor has under lease.
- Two follow-ups submitted at once both start (`api/brain.py:672`, `:687`).
- A read whose executor died after the dispatch stays "running" for ever when no
  SkillRun owns it: a later lookup answers "running" and never reads again
  (`tool_executor.py:731`), although the design says reads are replayed.

*Locks*

- Steering locks the AgentRun and the turn of its target and asks for gates
  afterwards: the run's own for STOP and REPLACE_GOAL, those of all runs of the task
  for SUPPLEMENT. Any transaction that holds the gate and waits for the run closes
  the circle, which PostgreSQL breaks by aborting one of them. The comment at
  `turn_steering.py:785` says that the order "prevents stop/replace races from
  deadlocking workers".
- While it waits for the gate of a run that is writing to an account, steering keeps
  the AgentRun locked: the heartbeat of the writer waits for it, and the lease may run
  out during the write, against the comment at `account_execution_lane.py:121`.
- `execute_revision_task_run` locks its revision, then the turn, then updates the run, without
  the gate: the reverse of the order of a stop, which takes run, turn and revision.
- The second pass of `delete_conversation_thread` locks turns before runs, also of
  runs born after its forest was discovered, whose gates it does not have.
- If a tool that must not be repeated were registered, the barrier of a revision would wait
  for its doubtful call while the executor of that call waits for the lane of its own
  guard: a circle the database cannot see. None is registered today.

*Composite skills*

- The executor commits a pause and closes the run again in a later transaction
  (`turn_execution.py:857`); an acceptance in between has queued the run and
  is overwritten. Two more ways lose a wake-up: an acceptance between the child's
  review and the check for the pause, and a decision on the package before the parent
  paused. `src/backend/tests/test_composite_skill_runs_postgres.py:1008` is named
  `test_postgres_accept_pause_interleavings_never_lose_wakeup`.
- A person revises an artifact for which the parent waits: the second version is
  accepted, the parent waits for the first, for ever. An approval can mark a superseded
  first version approved.

*Data import*

- Revocation and deletion do not lock the account, so their rebuild may miss what another
  transaction commits (`data_import/service.py:936`;
  `src/docs/superpowers/specs/2026-07-31-bulk-account-data-ingestion-design.md`, section 10).
  `SnapshotShowsWinners` excepts the keys on which that happened.
- A row is loaded without a lock and resolved after another request resolved it or
  committed its batch: the first outcome is overwritten, and a committed row is ready again
  (`data_import/service.py:546`; `src/backend/tests/test_data_import_preview.py:609`).
- A batch the user revoked makes every later execution of its job raise outside of
  the handler, so the other files are never imported and the job never ends; so does any other
  dataset whose import raises, because the handler reads the job it rolled back
  (`data_import/jobs.py:440`; same design, section 9.1). `JobSettles` excepts both. A retried file can be
  forgotten when the job finishes meanwhile.
- Two datasets of one file that use the same template can share one preview
  (`data_import/service.py:315`). With three of them and two workers a dataset may be
  counted as imported through the open preview of another while a second worker creates its
  own preview, which is blocked: the file is completed though the rows of one sheet never
  entered. The first attempt to prove that a completed file has a committed batch for
  each of its datasets failed at this step; with two datasets it holds, so no run
  had shown it. `CompletedMeansImported` therefore speaks of the batch a dataset was counted by.

*Publishing and WeChat*

- A handler that waited for the platform takes a bound job back to an earlier status
  (`publishing.py:1993`, `:1882`;
  `src/docs/superpowers/specs/2026-07-27-ai-coo-douyin-publishing-loop-design.md:313`).
- A draft call that timed out is recorded as failed and tried again, though it may have
  taken effect: two drafts (`publishing.py:1293`;
  `src/docs/superpowers/specs/2026-08-11-wechat-official-account-agent-design.md:645`). A
  request that is repeated while the first still inserts does not get its job (line 629). A draft
  that the customer edits between the read and the update is overwritten.
- The second in which a session was opened, of the server's clock, is compared with the
  second of a revocation, of WeChat's (`platform_integrations.py:757`, `:1170`). A server
  whose clock is in front ignores a revocation that came within the skew after the opening, and
  the row stays authorised with its tokens; one that lags refuses an authorisation that was
  given after a revocation. `RevocationWins` excepts the first by `Ahead`.
- A package that is decided in a conversation, by the answer to its interrupt, can never be
  handed off: that path sets neither `publish_decision_status`, which
  `_tool_call_is_approved` asks for (`publishing.py:2406`; its one writer is
  `api/brain.py:1833`), nor the jobs that wait for the approval (`turn_interrupts.py:950`),
  against the docstring at `publishing.py:1773`.
- A notice of revocation that matches one row is filed for one organisation only, and a
  callback of another may store the revoked grant (`platform_integrations.py:1192`;
  `src/backend/tests/test_wechat_authorization_api.py:432`). Overlapping sessions can
  store the older of two grants. An answer that is lost after WeChat rotated the refresh token
  loses the token for good.

## 7. Plan

1. *Modelled and checked:* the modules of section 2. *Proved:* all their safety properties.
2. *Next modules:* the interrupts of single tool
   calls with both endpoints that decide them, revisions with checkpoints once something
   records them, the event log with its sequence numbers and replay.
