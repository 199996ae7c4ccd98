--------------------------- MODULE ToolExecution ---------------------------
(***************************************************************************)
(* Durable tool calls: the executor (backend/app/orchestrator/             *)
(* tool_executor.py) that records an attempt before it asks the provider,  *)
(* the account lane (services/account_execution_lane.py) that serialises   *)
(* the writes of one account, and the recovery of a skill that finds calls *)
(* of its predecessor.                                                     *)
(*                                                                         *)
(* Between two database transactions of an executor, and while it waits    *)
(* for a lock or for the provider, others run: its lease may end, the run  *)
(* may be taken over and executed again, and it may die.  Of the run only  *)
(* status, lease and owner are kept; module AgentRuns has all of it.       *)
(***************************************************************************)
EXTENDS Naturals, FiniteSets

CONSTANTS
  Calls,        \* logical calls: task, tool and idempotency key
  Reads,        \* calls with side_effect_level "read"
  Once,         \* calls with side_effect_level "non_idempotent_write"
  Confirmed,    \* writes of tools that need a human confirmation
  SkillRuns, NoSkill, SkillOf,  \* the SkillRun that makes a call, if one does
  Runs, RunOf,
  Accounts, AccountOf,
  Workers, Nobody, NoRun, NoCall,
  MaxTries,     \* bound: attempts of one call
  Budget        \* bound: crashes, lost guards, failed commits, stalls

Writes == Calls \ Reads
Tries  == 1 .. MaxTries

ASSUME CallsAssumption ==
  /\ Reads \subseteq Calls /\ Once \subseteq Writes
  /\ Confirmed \subseteq Writes /\ NoSkill \notin SkillRuns
  /\ SkillOf \in [Calls -> SkillRuns \cup {NoSkill}]
  /\ RunOf \in [Calls -> Runs] /\ AccountOf \in [Calls -> Accounts]
  /\ Nobody \notin Workers /\ NoRun \notin Runs /\ NoCall \notin Calls
ASSUME LimitsAssumption == MaxTries \in Nat \ {0} /\ Budget \in Nat

VARIABLES
  call,     \* AgentToolCall.status
  tries,    \* status of each ToolExecutionAttempt, by attempt number
  sent,     \* requests that reached the provider
  run, owner, live,  \* AgentRun: status, lease_owner, leased_until in the future
  gate,     \* holder of the run's advisory gate
  lane,     \* holder of the account's advisory lock
  pc, serves, hand, try,  \* an executor's step, run, call and attempt
  budget

rows  == <<call, tries>>
lease == <<run, owner, live>>
locks == <<gate, lane>>
local == <<pc, serves, hand, try>>
vars  == <<call, tries, sent, run, owner, live, gate, lane, pc, serves, hand, try, budget>>

CallStatuses == {"absent", "planned", "waiting_approval", "running", "success",
                 "failed", "ambiguous"}
TryStatuses  == {"none", "planned", "dispatched", "success", "failed", "ambiguous"}

Init ==
  /\ call   = [c \in Calls |-> "absent"]
  /\ tries  = [c \in Calls |-> [n \in Tries |-> "none"]]
  /\ sent   = [c \in Calls |-> 0]
  /\ run    = [r \in Runs |-> "queued"]
  /\ owner  = [r \in Runs |-> Nobody]
  /\ live   = [r \in Runs |-> FALSE]
  /\ gate   = [r \in Runs |-> Nobody]
  /\ lane   = [a \in Accounts |-> Nobody]
  /\ pc     = [w \in Workers |-> "idle"]
  /\ serves = [w \in Workers |-> NoRun]
  /\ hand   = [w \in Workers |-> NoCall]
  /\ try    = [w \in Workers |-> 1]
  /\ budget = Budget

Spend == budget > 0 /\ budget' = budget - 1

InState(c, s) == {n \in Tries : tries[c][n] = s}
Least(S) == CHOOSE n \in S : \A m \in S : n <= m

At(w, step) == pc' = [pc EXCEPT ![w] = step] /\ UNCHANGED <<serves, hand, try>>

\* Back from a call: ready for the next one, unwinding, or out of the run.
Back(w, step) ==
  /\ pc'     = [pc     EXCEPT ![w] = step]
  /\ serves' = [serves EXCEPT ![w] = IF step = "idle" THEN NoRun ELSE @]
  /\ hand'   = [hand   EXCEPT ![w] = NoCall]
  /\ try'    = [try    EXCEPT ![w] = 1]

Row(c, status) == call' = [call EXCEPT ![c] = status]
Try(c, n, status) == tries' = [tries EXCEPT ![c][n] = status]

\* Every attempt of c in state s goes to state t.
Turn(c, s, t) == [n \in Tries |-> IF tries[c][n] = s THEN t ELSE tries[c][n]]

\* The row and its attempt are written together.
Settles(c, n, rowStatus, tryStatus) == Row(c, rowStatus) /\ Try(c, n, tryStatus)

\* The guard session ends: both advisory locks are gone.
Released(w, held) == [x \in DOMAIN held |-> IF held[x] = w THEN Nobody ELSE held[x]]
Release(w) == gate' = Released(w, gate) /\ lane' = Released(w, lane)

\* The lock of the lane a call's account has.
\* Fault: the lock is keyed by the run.
LaneTakenByRun(c) == \E v \in Workers : lane[AccountOf[c]] = v /\ serves[v] = RunOf[c]
LaneTaken(c) == lane[AccountOf[c]] # Nobody

\* Fault: the gate of the run does not stop anybody else.
GateIgnored(r) == TRUE
GateFree(r) == gate[r] = Nobody
-----------------------------------------------------------------------------
(* The run: acquisition, expiry, the end of an execution                   *)

\* Unless somebody else leases it.  A run that was stopped or blocked is executed
\* too, but it stays what it is and is not leased.
Acquire(w, r) ==
  /\ pc[w] = "idle" /\ GateFree(r)
  /\ run[r] = "running" => ~live[r] \/ owner[r] = w
  /\ IF run[r] = "ended" THEN UNCHANGED lease
     ELSE /\ run'   = [run   EXCEPT ![r] = "running"]
          /\ owner' = [owner EXCEPT ![r] = w]
          /\ live'  = [live  EXCEPT ![r] = TRUE]
  /\ serves' = [serves EXCEPT ![w] = r]
  /\ pc'     = [pc     EXCEPT ![w] = "recover"]
  /\ UNCHANGED <<rows, sent, locks, hand, try, budget>>

\* The heartbeat renews the lease its owner still has, an expired one too; it
\* needs no gate.
Heartbeat(w) ==
  LET r == serves[w] IN
  /\ pc[w] # "idle" /\ run[r] = "running" /\ owner[r] = w /\ ~live[r]
  /\ live' = [live EXCEPT ![r] = TRUE]
  /\ UNCHANGED <<rows, sent, run, owner, locks, local, budget>>

EndAs(r, status) ==
  /\ run'   = [run   EXCEPT ![r] = IF @ = "ended" THEN @ ELSE status]
  /\ owner' = [owner EXCEPT ![r] = Nobody]
  /\ live'  = [live  EXCEPT ![r] = FALSE]

(***************************************************************************)
(* A SkillRun that is executed again first looks at the calls it left: a   *)
(* write that was dispatched is in doubt and stops the run, other          *)
(* unfinished calls fail it.  Nothing is asked of the provider again.      *)
(***************************************************************************)
CallsOf(r, s) == {c \in Calls : RunOf[c] = r /\ SkillOf[c] = s}

\* Fault: only a row that says so is in doubt, an attempt is not asked.
DoubtfulRows(r, s) == {c \in CallsOf(r, s) \cap Writes : call[c] = "ambiguous"}
Doubtful(r, s) == {c \in CallsOf(r, s) \cap Writes :
                     \/ call[c] = "ambiguous"
                     \/ (call[c] = "running" /\ InState(c, "dispatched") # {})}
Unfinished(r, s) == {c \in CallsOf(r, s) : call[c] \in {"planned", "running"}}

Recover(w, s) ==
  LET r == serves[w]  doubtful == Doubtful(r, s)  unfinished == Unfinished(r, s) IN
  /\ pc[w] = "recover" /\ GateFree(r)
  /\ \/ /\ doubtful # {}
        /\ call'  = [c \in Calls |-> IF c \in doubtful THEN "ambiguous" ELSE call[c]]
        /\ tries' = [c \in Calls |-> IF c \in doubtful
                                     THEN Turn(c, "dispatched", "ambiguous") ELSE tries[c]]
        /\ EndAs(r, "ended") /\ Back(w, "idle")
     \/ /\ doubtful = {} /\ unfinished # {}
        /\ call' = [c \in Calls |-> IF c \in unfinished THEN "failed" ELSE call[c]]
        /\ UNCHANGED tries
        /\ EndAs(r, "ended") /\ Back(w, "idle")
     \/ /\ doubtful = {} /\ unfinished = {}
        /\ Back(w, "ready")
        /\ UNCHANGED <<rows, lease>>
  /\ UNCHANGED <<sent, locks, budget>>

\* An execution ends: the run is retried or over, whoever leases it now.
Leave(w) ==
  /\ pc[w] \in {"ready", "leaving"} /\ GateFree(serves[w])
  /\ (EndAs(serves[w], "queued") \/ EndAs(serves[w], "ended"))
  /\ Back(w, "idle")
  /\ UNCHANGED <<rows, sent, locks, budget>>

Stop(r) ==
  /\ run[r] # "ended" /\ GateFree(r)
  /\ EndAs(r, "ended")
  /\ UNCHANGED <<rows, sent, locks, local, budget>>

\* The lease of a run nobody executes, or of a stalled executor, runs out.
Expire(r) ==
  /\ live[r]
  /\ IF pc[owner[r]] # "idle" /\ serves[owner[r]] = r THEN Spend ELSE UNCHANGED budget
  /\ live' = [live EXCEPT ![r] = FALSE]
  /\ UNCHANGED <<rows, sent, run, owner, locks, local>>
-----------------------------------------------------------------------------
(* execute: lookup, approval, planning                                     *)

\* An existing row answers without an execution.
Replays(c) == \/ call[c] \in {"success", "ambiguous", "waiting_approval"}
              \/ call[c] = "running"
              \/ call[c] = "failed" /\ c \in Once

\* A write that is running goes on to the lane, a read does not.
ReplaysAtLookup(c) == Replays(c) /\ ~(call[c] = "running" /\ c \in Writes)

\* A settled write closes the attempts nobody will use.
CloseUnused(c) ==
  tries' = [tries EXCEPT ![c] = IF c \in Writes /\ call[c] # "waiting_approval"
                                THEN Turn(c, "planned", "failed") ELSE @]

Replay(w, c) ==
  /\ pc[w] = "ready" /\ RunOf[c] = serves[w]
  /\ ReplaysAtLookup(c)
  /\ CloseUnused(c)
  /\ UNCHANGED <<call, sent, lease, locks, local, budget>>

AskApproval(w, c) ==
  /\ pc[w] = "ready" /\ RunOf[c] = serves[w]
  /\ ~Replays(c) /\ c \in Confirmed
  /\ Row(c, "waiting_approval")
  /\ UNCHANGED <<tries, sent, lease, locks, local, budget>>

\* A person decides the call itself; nothing is executed for it.
Decide(c) ==
  /\ call[c] = "waiting_approval"
  /\ Row(c, "success") \/ Row(c, "failed")
  /\ UNCHANGED <<tries, sent, lease, locks, local, budget>>

\* The row and its first attempt are inserted in one transaction, which the
\* unique key lets only one executor do.
Create(w, c) ==
  /\ pc[w] = "ready" /\ RunOf[c] = serves[w]
  /\ call[c] = "absent" /\ c \notin Confirmed
  /\ Row(c, "planned") /\ Try(c, 1, "planned")
  /\ pc'   = [pc   EXCEPT ![w] = "planned"]
  /\ hand' = [hand EXCEPT ![w] = c]
  /\ try'  = [try  EXCEPT ![w] = 1]
  /\ UNCHANGED <<sent, lease, locks, serves, budget>>

\* An existing row is read without a lock ...
Lookup(w, c) ==
  /\ pc[w] = "ready" /\ RunOf[c] = serves[w]
  /\ call[c] # "absent" /\ ~ReplaysAtLookup(c) /\ c \notin Confirmed
  /\ pc'   = [pc   EXCEPT ![w] = "planning"]
  /\ hand' = [hand EXCEPT ![w] = c]
  /\ UNCHANGED <<rows, sent, lease, locks, serves, try, budget>>

\* ... and may have changed when it is locked to plan an attempt.
\* Fault: a planned attempt is not found and a number is skipped.
NextTrySkips(c) == Least(InState(c, "none")) + 1
NextTry(c) == IF InState(c, "planned") # {} THEN Least(InState(c, "planned"))
              ELSE Least(InState(c, "none"))

Plan(w) ==
  LET c == hand[w] IN
  /\ pc[w] = "planning"
  /\ InState(c, "planned") \cup InState(c, "none") # {}
  /\ Try(c, NextTry(c), "planned")
  /\ Row(c, IF call[c] = "failed" THEN "planned" ELSE call[c])
  /\ try' = [try EXCEPT ![w] = NextTry(c)]
  /\ pc'  = [pc  EXCEPT ![w] = "planned"]
  /\ UNCHANGED <<sent, lease, locks, serves, hand, budget>>

\* A read is dispatched at once, without lane and without looking again.
DispatchRead(w) ==
  /\ pc[w] = "planned" /\ hand[w] \in Reads
  /\ Settles(hand[w], try[w], "running", "dispatched")
  /\ At(w, "dispatched")
  /\ UNCHANGED <<sent, lease, locks, budget>>
-----------------------------------------------------------------------------
(* The account lane and the dispatch of a write                            *)

Valid(w) == run[serves[w]] = "running" /\ owner[serves[w]] = w /\ live[serves[w]]

TakeGate(w) ==
  /\ pc[w] = "planned" /\ hand[w] \in Writes
  /\ gate[serves[w]] = Nobody /\ Valid(w)
  /\ gate' = [gate EXCEPT ![serves[w]] = w]
  /\ At(w, "gated")
  /\ UNCHANGED <<rows, sent, lease, lane, budget>>

TakeLane(w) ==
  /\ pc[w] = "gated"
  /\ ~LaneTaken(hand[w]) /\ Valid(w)
  /\ lane' = [lane EXCEPT ![AccountOf[hand[w]]] = w]
  /\ At(w, "lane")
  /\ UNCHANGED <<rows, sent, lease, gate, budget>>

\* Every acquisition is followed by a look at the lease.
Refused(w) ==
  /\ pc[w] \in {"planned", "gated"} /\ hand[w] \in Writes /\ ~Valid(w)
  /\ Release(w) /\ Back(w, "leaving")
  /\ UNCHANGED <<rows, sent, lease, budget>>

\* In the lane the row is read again, now locked.
Undecided(c) == InState(c, "dispatched") # {}

Claim(w) ==
  LET c == hand[w]  n == try[w] IN
  /\ pc[w] = "lane"
  /\ \/ /\ Replays(c) /\ call[c] # "running"
        /\ CloseUnused(c) /\ UNCHANGED call
        /\ Release(w) /\ Back(w, "ready")
     \/ /\ ~(Replays(c) /\ call[c] # "running") /\ Undecided(c)
        /\ Row(c, "ambiguous")
        /\ tries' = [tries EXCEPT ![c] =
             [m \in Tries |-> IF m = Least(InState(c, "dispatched"))
                                 \/ tries[c][m] = "planned"
                              THEN "ambiguous" ELSE tries[c][m]]]
        /\ Release(w) /\ Back(w, "ready")
     \/ /\ ~(Replays(c) /\ call[c] # "running") /\ ~Undecided(c)
        /\ tries[c][n] # "planned"
        /\ UNCHANGED rows
        /\ Release(w) /\ Back(w, "leaving")
     \/ /\ ~(Replays(c) /\ call[c] # "running") /\ ~Undecided(c)
        /\ tries[c][n] = "planned"
        /\ Settles(c, n, "running", "dispatched")
        /\ At(w, "dispatched") /\ UNCHANGED locks
  /\ UNCHANGED <<sent, lease, budget>>

\* The provider answers, or raises with the request delivered or not.
Answer(w) ==
  LET c == hand[w] IN
  /\ pc[w] = "dispatched"
  /\ \/ /\ sent' = [sent EXCEPT ![c] = @ + 1]
        /\ At(w, "answered") \/ At(w, "raised")
     \/ UNCHANGED sent /\ At(w, "raised")
  /\ UNCHANGED <<rows, lease, locks, budget>>

RecordSuccess(w) ==
  /\ pc[w] = "answered"
  /\ Settles(hand[w], try[w], "success", "success")
  /\ Release(w) /\ Back(w, "ready")
  /\ UNCHANGED <<sent, lease, budget>>

\* The commit of the success fails: an unrepeatable write is in doubt, another
\* leaves its dispatch as it is and raises.
CommitFails(w) ==
  /\ pc[w] = "answered" /\ Spend
  /\ \/ /\ hand[w] \in Once
        /\ Settles(hand[w], try[w], "ambiguous", "ambiguous")
        /\ Release(w) /\ Back(w, "ready")
     \/ /\ hand[w] \notin Once
        /\ UNCHANGED rows
        /\ Release(w) /\ Back(w, "leaving")
  /\ UNCHANGED <<sent, lease>>

\* Fault: an exception of an unrepeatable write counts as its failure.
FailsAll(c) == "failed"
FailsAs(c) == IF c \in Once THEN "ambiguous" ELSE "failed"

RecordException(w) ==
  LET c == hand[w] IN
  /\ pc[w] = "raised"
  /\ Settles(c, try[w], FailsAs(c), FailsAs(c))
  /\ Release(w)
  /\ Back(w, IF c \in Once THEN "ready" ELSE "leaving")
  /\ UNCHANGED <<sent, lease, budget>>
-----------------------------------------------------------------------------
(* Faults                                                                  *)

\* The process dies, or its coroutine is cancelled before it can record
\* anything; the connection of its guard closes with it.
Abandon(w) ==
  /\ pc[w] # "idle" /\ Spend
  /\ Release(w)
  /\ Back(w, "idle") \/ Back(w, "leaving")
  /\ UNCHANGED <<rows, sent, lease>>

\* Only the connection of the guard dies, once the executor has the lane and works
\* on a session of its own.
LoseGuard(w) ==
  /\ pc[w] \in {"lane", "dispatched", "answered", "raised"} /\ gate[serves[w]] = w
  /\ Spend
  /\ Release(w)
  /\ UNCHANGED <<rows, sent, lease, local>>
-----------------------------------------------------------------------------
Executor(w) == \/ \E s \in SkillRuns : Recover(w, s)
               \/ Plan(w)
               \/ DispatchRead(w)
               \/ TakeGate(w)
               \/ TakeLane(w)
               \/ Refused(w)
               \/ Claim(w)
               \/ Answer(w)
               \/ RecordSuccess(w)
               \/ RecordException(w)
               \/ Leave(w)

Ask(w, c) == \/ Replay(w, c)
             \/ AskApproval(w, c)
             \/ Create(w, c)
             \/ Lookup(w, c)

Next ==
  \/ \E w \in Workers : \/ \E r \in Runs : Acquire(w, r)
                        \/ \E c \in Calls : Ask(w, c)
                        \/ Executor(w)
                        \/ Heartbeat(w)
                        \/ CommitFails(w)
                        \/ Abandon(w)
                        \/ LoseGuard(w)
  \/ \E r \in Runs : Stop(r) \/ Expire(r)
  \/ \E c \in Calls : Decide(c)

Spec == Init /\ [][Next]_vars
-----------------------------------------------------------------------------
(* Correctness                                                             *)

\* Every row, attempt, lock and step has a value of its enumeration.
TypeOK ==
  /\ call \in [Calls -> CallStatuses]
  /\ tries \in [Calls -> [Tries -> TryStatuses]]
  /\ sent \in [Calls -> Nat]
  /\ run \in [Runs -> {"queued", "running", "ended"}]
  /\ owner \in [Runs -> Workers \cup {Nobody}]
  /\ live \in [Runs -> BOOLEAN]
  /\ gate \in [Runs -> Workers \cup {Nobody}]
  /\ lane \in [Accounts -> Workers \cup {Nobody}]
  /\ pc \in [Workers -> {"idle", "recover", "ready", "planning", "planned", "gated",
                         "lane", "dispatched", "answered", "raised", "leaving"}]
  /\ serves \in [Workers -> Runs \cup {NoRun}]
  /\ hand \in [Workers -> Calls \cup {NoCall}]
  /\ try \in [Workers -> Tries]
  /\ budget \in Nat

InFlight(w) == pc[w] \in {"dispatched", "answered", "raised"} /\ hand[w] \in Writes
Guarded(w)  == InFlight(w) /\ gate[serves[w]] = w

\* A write whose request may be on its way is marked twice, on its row and on
\* exactly one attempt, so that whoever comes next sees it.
DispatchIsVisible ==
  \A c \in Writes : /\ call[c] = "running" <=> InState(c, "dispatched") # {}
                    /\ Cardinality(InState(c, "dispatched")) <= 1

\* While a guarded write is in flight nobody stops, closes or takes over its
\* run: the executor that asked the provider also records the answer as its
\* owner, even when its lease runs out meanwhile.
GuardedWriterOwnsRun ==
  \A w \in Workers : Guarded(w) => run[serves[w]] = "running" /\ owner[serves[w]] = w

\* Two writes of one account are in flight together only after a guard was lost.
AccountWritesExclude ==
  \A v, w \in Workers :
    v # w /\ Guarded(v) /\ Guarded(w) => AccountOf[hand[v]] # AccountOf[hand[w]]

\* The ledger the executor promises (module WriteLedger).
Ledger == INSTANCE WriteLedger WITH
  Calls   <- Writes,
  Asked   <- Confirmed,
  sent    <- [c \in Writes |-> sent[c]],
  outcome <- [c \in Writes |-> IF call[c] \in {"success", "failed", "ambiguous"}
                               THEN call[c] ELSE "open"]

\* Whatever happens between its steps, the executor implements that ledger.
KeepsLedger == Ledger!Spec
=============================================================================
