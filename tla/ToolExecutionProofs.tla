------------------------- MODULE ToolExecutionProofs -------------------------
(***************************************************************************)
(* Theorems about the locks of ToolExecution, for every set of calls,      *)
(* runs, accounts and executors and every bound.  One invariant says, for  *)
(* each executor by itself, what it holds between its steps; others cannot *)
(* disturb it, because they take a lock only when it is free, give back    *)
(* only their own, and touch a run only when nobody holds its gate.        *)
(*                                                                         *)
(* The second half is about the ledger of external writes: rows keep their *)
(* types, a dispatch is visible in the ledger before anything is sent, and *)
(* the executor implements the abstract WriteLedger (KeepsLedger).  What a *)
(* worker is about to send is committed in the row of its call first, and  *)
(* the locks keep every other worker away from that row meanwhile          *)
(* (LedgerKept).  A step either leaves the outcome of every write, or is   *)
(* one of the moves of WriteLedger.                                        *)
(***************************************************************************)
EXTENDS ToolExecution, FiniteSetTheorems, WellFoundedInduction, TLAPS

\* Steps of an executor that has a call in its hand.
Calling == {"planning", "planned", "gated", "lane", "dispatched", "answered", "raised"}

LockTypes ==
  /\ owner \in [Runs -> Workers \cup {Nobody}]
  /\ run \in [Runs -> {"queued", "running", "ended"}]
  /\ gate \in [Runs -> Workers \cup {Nobody}]
  /\ lane \in [Accounts -> Workers \cup {Nobody}]
  /\ pc \in [Workers -> {"idle", "recover", "ready", "leaving"} \cup Calling]
  /\ serves \in [Workers -> Runs \cup {NoRun}]
  /\ hand \in [Workers -> Calls \cup {NoCall}]

\* What an executor knows of the locks it works under, unless it lost its guard.
Waits(w) == pc[w] \in {"gated", "lane"} /\ gate[serves[w]] = w
Holds(w) ==
  /\ pc[w] # "idle" => serves[w] \in Runs
  /\ pc[w] \in Calling => hand[w] \in Calls
  /\ pc[w] = "gated" => Waits(w)
  /\ pc[w] \in {"gated", "lane"} => hand[w] \in Writes
  /\ Waits(w) \/ Guarded(w) => run[serves[w]] = "running" /\ owner[serves[w]] = w
  /\ (pc[w] = "lane" /\ Waits(w)) \/ Guarded(w) => lane[AccountOf[hand[w]]] = w

LocksHeld == LockTypes /\ \A w \in Workers : Holds(w)

\* A step disturbs only the executors in X: those outside keep their place and
\* their locks, and a run whose gate is held keeps its status and owner.
Disturbs(X) ==
  /\ \A v \in Workers \ X :
       /\ pc'[v] = pc[v] /\ serves'[v] = serves[v] /\ hand'[v] = hand[v]
       /\ \A r \in Runs : gate'[r] = v <=> gate[r] = v
       /\ \A a \in Accounts : lane'[a] = v <=> lane[a] = v
  /\ \A r \in Runs : gate[r] # Nobody => run'[r] = run[r] /\ owner'[r] = owner[r]

\* What an executor holds survives the steps that do not disturb it.
LEMMA OthersHold ==
  ASSUME LocksHeld, NEW X \in SUBSET Workers, Disturbs(X), NEW v \in Workers \ X
  PROVE  Holds(v)'
<1>1. Holds(v) /\ v # Nobody
  BY CallsAssumption DEF LocksHeld
<1>2. pc'[v] = pc[v] /\ serves'[v] = serves[v] /\ hand'[v] = hand[v]
  BY DEF Disturbs
<1>3. pc[v] # "idle" => gate'[serves[v]] = v <=> gate[serves[v]] = v
  BY <1>1 DEF Holds, Disturbs
<1>4. pc[v] # "idle" /\ gate[serves[v]] = v
        => run'[serves[v]] = run[serves[v]] /\ owner'[serves[v]] = owner[serves[v]]
  BY <1>1 DEF Holds, Disturbs
<1>5. pc[v] \in Calling
        => lane'[AccountOf[hand[v]]] = v <=> lane[AccountOf[hand[v]]] = v
  BY <1>1, CallsAssumption DEF Holds, Disturbs
<1>6. (Waits(v)' <=> Waits(v)) /\ (Guarded(v)' <=> Guarded(v))
  BY <1>2, <1>3 DEF Waits, Guarded, InFlight
<1>7. Waits(v) \/ Guarded(v) => pc[v] # "idle" /\ pc[v] \in Calling /\ gate[serves[v]] = v
  BY <1>1 DEF Holds, Waits, Guarded, InFlight, Calling
<1> QED BY <1>1, <1>2, <1>3, <1>4, <1>5, <1>6, <1>7 DEF Holds

\* Giving back one's locks disturbs nobody else's.
LEMMA ReleaseKeepsOthers ==
  ASSUME LockTypes, NEW w \in Workers, Release(w)
  PROVE  /\ gate' \in [Runs -> Workers \cup {Nobody}]
         /\ lane' \in [Accounts -> Workers \cup {Nobody}]
         /\ \A v \in Workers \ {w} :
              /\ \A r \in Runs : gate'[r] = v <=> gate[r] = v
              /\ \A a \in Accounts : lane'[a] = v <=> lane[a] = v
         /\ \A r \in Runs : gate'[r] # w
BY CallsAssumption DEF Release, Released, LockTypes

\* So it is enough to look at the executors a step disturbs.
LEMMA LocksHeldBy ==
  ASSUME LocksHeld, LockTypes', NEW X \in SUBSET Workers, Disturbs(X),
         \A w \in X : Holds(w)'
  PROVE  LocksHeld'
<1>1. \A v \in Workers \ X : Holds(v)'
  BY OthersHold
<1> QED BY <1>1 DEF LocksHeld

\* Locks, runs and the places of other executors are left alone: calls are
\* looked up, planned and asked for.
Calmly(w) ==
  /\ UNCHANGED <<lease, locks>>
  /\ \A v \in Workers \ {w} :
       pc'[v] = pc[v] /\ serves'[v] = serves[v] /\ hand'[v] = hand[v]

LEMMA CalmStep ==
  ASSUME LocksHeld, LockTypes', NEW w \in Workers, Calmly(w), Holds(w)'
  PROVE  LocksHeld'
<1>1. Disturbs({w})
  BY DEF Disturbs, Calmly, lease, locks
<1> QED BY <1>1, LocksHeldBy

\* An executor that is back from a call, or has left, holds nothing.
LEMMA BackHolds ==
  ASSUME LocksHeld, NEW w \in Workers, NEW step \in {"idle", "ready", "leaving"},
         Back(w, step), step # "idle" => serves[w] \in Runs
  PROVE  Holds(w)'
<1>1. pc'[w] = step /\ (step # "idle" => serves'[w] = serves[w])
  BY DEF Back, LocksHeld, LockTypes
<1> QED BY <1>1 DEF Holds, Waits, Guarded, InFlight, Calling

\* Types of the local state after it.
LEMMA BackTypes ==
  ASSUME LockTypes, NEW w \in Workers, NEW step \in {"idle", "ready", "leaving"},
         Back(w, step)
  PROVE  /\ pc' \in [Workers -> {"idle", "recover", "ready", "leaving"} \cup Calling]
         /\ serves' \in [Workers -> Runs \cup {NoRun}]
         /\ hand' \in [Workers -> Calls \cup {NoCall}]
         /\ \A v \in Workers \ {w} :
              pc'[v] = pc[v] /\ serves'[v] = serves[v] /\ hand'[v] = hand[v]
BY DEF Back, LockTypes

\* Coming back from a call and giving the locks back keeps the invariant.
LEMMA ReleasedStep ==
  ASSUME LocksHeld, NEW w \in Workers, NEW step \in {"idle", "ready", "leaving"},
         Release(w), Back(w, step), step # "idle" => serves[w] \in Runs,
         UNCHANGED lease
  PROVE  LocksHeld'
<1>1. LockTypes'
  BY ReleaseKeepsOthers, BackTypes DEF LocksHeld, LockTypes, lease
<1>2. Disturbs({w})
  BY ReleaseKeepsOthers, BackTypes DEF LocksHeld, Disturbs, lease
<1> QED BY <1>1, <1>2, BackHolds, LocksHeldBy

\* A step of a run whose gate is free disturbs no executor that holds it.
LEMMA EndTypes ==
  ASSUME LockTypes, NEW r \in Runs, GateFree(r), NEW st \in {"queued", "ended"},
         EndAs(r, st)
  PROVE  /\ run' \in [Runs -> {"queued", "running", "ended"}]
         /\ owner' \in [Runs -> Workers \cup {Nobody}]
         /\ \A q \in Runs : gate[q] # Nobody => run'[q] = run[q] /\ owner'[q] = owner[q]
BY DEF EndAs, GateFree, LockTypes

LEMMA EndedStep ==
  ASSUME LocksHeld, NEW w \in Workers, pc[w] # "idle", GateFree(serves[w]),
         NEW st \in {"queued", "ended"}, EndAs(serves[w], st), Back(w, "idle"),
         UNCHANGED locks
  PROVE  LocksHeld'
<1>1. serves[w] \in Runs
  BY DEF LocksHeld, Holds
<1>2. LockTypes'
  BY <1>1, EndTypes, BackTypes DEF LocksHeld, LockTypes, locks
<1>3. Disturbs({w})
  BY <1>1, EndTypes, BackTypes DEF LocksHeld, Disturbs, locks
<1> QED BY <1>2, <1>3, BackHolds, LocksHeldBy
-----------------------------------------------------------------------------
(* The steps one by one                                                    *)

\* Looking up, asking and inserting a call.
LEMMA AskStep ==
  ASSUME LocksHeld, NEW w \in Workers, NEW c \in Calls, Ask(w, c)
  PROVE  LocksHeld'
<1>1. CASE Replay(w, c) \/ AskApproval(w, c)
  <2>1. UNCHANGED <<lease, locks, local>>
    BY <1>1 DEF Replay, AskApproval
  <2>2. LockTypes' /\ Calmly(w) /\ Holds(w)'
    BY <2>1 DEF LocksHeld, LockTypes, Calmly, Holds, Waits, Guarded, InFlight, lease,
                locks, local
  <2> QED BY <2>2, CalmStep
<1>2. CASE Create(w, c) \/ Lookup(w, c)
  <2>1. /\ UNCHANGED <<lease, locks, serves>> /\ serves[w] \in Runs
        /\ \E step \in {"planned", "planning"} : pc' = [pc EXCEPT ![w] = step]
        /\ hand' = [hand EXCEPT ![w] = c]
    BY <1>2 DEF Create, Lookup, LocksHeld, Holds
  <2>2. LockTypes' /\ Calmly(w)
    BY <2>1 DEF LocksHeld, LockTypes, Calmly, lease, locks, Calling
  <2>3. Holds(w)'
    BY <2>1 DEF LocksHeld, LockTypes, Holds, Waits, Guarded, InFlight, Calling
  <2> QED BY <2>2, <2>3, CalmStep
<1> QED BY <1>1, <1>2 DEF Ask

\* Taking a run over needs its gate.
LEMMA AcquireStep ==
  ASSUME LocksHeld, NEW w \in Workers, NEW r \in Runs, Acquire(w, r)
  PROVE  LocksHeld'
<1>1. LockTypes' /\ Disturbs({w})
  BY DEF Acquire, GateFree, LocksHeld, LockTypes, Disturbs, lease, locks, Calling
<1>2. pc'[w] = "recover" /\ serves'[w] \in Runs
  BY DEF Acquire, LocksHeld, LockTypes
<1>3. Holds(w)'
  BY <1>2 DEF Holds, Waits, Guarded, InFlight, Calling
<1> QED BY <1>1, <1>3, LocksHeldBy

\* The first look of a skill at the calls it left.
LEMMA RecoverStep ==
  ASSUME LocksHeld, NEW w \in Workers, NEW s \in SkillRuns, Recover(w, s)
  PROVE  LocksHeld'
<1>1. pc[w] # "idle" /\ GateFree(serves[w]) /\ UNCHANGED locks /\ serves[w] \in Runs
  BY DEF Recover, LocksHeld, Holds
<1>2. CASE EndAs(serves[w], "ended") /\ Back(w, "idle")
  BY <1>1, <1>2, EndedStep
<1>3. CASE Back(w, "ready") /\ UNCHANGED lease
  <2>1. LockTypes' /\ Calmly(w)
    BY <1>1, <1>3, BackTypes DEF LocksHeld, LockTypes, Calmly, lease, locks
  <2> QED BY <1>1, <1>3, <2>1, BackHolds, CalmStep
<1> QED BY <1>2, <1>3 DEF Recover

\* The end of an execution.
LEMMA LeaveStep ==
  ASSUME LocksHeld, NEW w \in Workers, Leave(w)
  PROVE  LocksHeld'
<1>1. PICK st \in {"queued", "ended"} : EndAs(serves[w], st)
  BY DEF Leave
<1> QED BY <1>1, EndedStep DEF Leave

\* Planning an attempt and dispatching a read take no lock.
LEMMA UnlockedStep ==
  ASSUME LocksHeld, NEW w \in Workers, Plan(w) \/ DispatchRead(w)
  PROVE  LocksHeld'
<1>1. /\ UNCHANGED <<lease, locks, serves, hand>>
      /\ \/ pc' = [pc EXCEPT ![w] = "planned"] /\ pc[w] = "planning"
         \/ /\ pc' = [pc EXCEPT ![w] = "dispatched"] /\ pc[w] = "planned"
            /\ hand[w] \in Reads
  BY DEF Plan, DispatchRead, At
<1>2. LockTypes' /\ Calmly(w)
  BY <1>1 DEF LocksHeld, LockTypes, Calmly, lease, locks, Calling
<1>3. Holds(w)'
  BY <1>1 DEF LocksHeld, LockTypes, Holds, Waits, Guarded, InFlight, Calling, Writes
<1> QED BY <1>2, <1>3, CalmStep

\* The gate is taken when it is free and the lease is still held.
LEMMA TakeGateStep ==
  ASSUME LocksHeld, NEW w \in Workers, TakeGate(w)
  PROVE  LocksHeld'
<1>1. /\ pc[w] = "planned" /\ hand[w] \in Writes /\ serves[w] \in Runs
      /\ hand[w] \in Calls
  BY DEF TakeGate, LocksHeld, Holds, Calling
<1>2. LockTypes' /\ Disturbs({w})
  BY <1>1, CallsAssumption
  DEF TakeGate, At, LocksHeld, LockTypes, Disturbs, lease, Calling
<1>3. /\ pc'[w] = "gated" /\ serves'[w] = serves[w] /\ hand'[w] = hand[w]
      /\ gate'[serves[w]] = w
      /\ run'[serves[w]] = "running" /\ owner'[serves[w]] = w
  BY <1>1 DEF TakeGate, At, Valid, LocksHeld, LockTypes, lease
<1>4. Holds(w)'
  BY <1>1, <1>3 DEF Holds, Waits, Guarded, InFlight, Calling
<1> QED BY <1>2, <1>4, LocksHeldBy

\* The account's lock is taken when it is free, under the gate.
LEMMA TakeLaneStep ==
  ASSUME LocksHeld, NEW w \in Workers, TakeLane(w)
  PROVE  LocksHeld'
<1>1. /\ pc[w] = "gated" /\ serves[w] \in Runs /\ hand[w] \in Calls
      /\ hand[w] \in Writes /\ gate[serves[w]] = w /\ AccountOf[hand[w]] \in Accounts
  BY CallsAssumption DEF TakeLane, LocksHeld, Holds, Calling, Waits
<1>2. LockTypes' /\ Disturbs({w})
  BY <1>1, CallsAssumption
  DEF TakeLane, LaneTaken, At, LocksHeld, LockTypes, Disturbs, lease, Calling
<1>3. /\ pc'[w] = "lane" /\ serves'[w] = serves[w] /\ hand'[w] = hand[w]
      /\ gate' = gate /\ lane'[AccountOf[hand[w]]] = w
      /\ run'[serves[w]] = "running" /\ owner'[serves[w]] = w
  BY <1>1 DEF TakeLane, At, Valid, LocksHeld, LockTypes, lease
<1>4. Holds(w)'
  BY <1>1, <1>3 DEF Holds, Waits, Guarded, InFlight, Calling
<1> QED BY <1>2, <1>4, LocksHeldBy

\* A step of an executor with the locks it has keeps them while it asks the
\* provider.
LEMMA InFlightStep ==
  ASSUME LocksHeld, NEW w \in Workers, UNCHANGED <<lease, locks>>,
         NEW step \in {"dispatched", "answered", "raised"}, At(w, step),
         pc[w] \in {"lane", "dispatched"}
  PROVE  LocksHeld'
<1>1. LockTypes' /\ Calmly(w)
  BY DEF At, LocksHeld, LockTypes, Calmly, lease, locks, Calling
<1>2. /\ pc'[w] = step /\ serves'[w] = serves[w] /\ hand'[w] = hand[w]
      /\ gate' = gate /\ lane' = lane /\ run' = run /\ owner' = owner
  BY DEF At, LocksHeld, LockTypes, lease, locks
<1>3. Holds(w)'
  BY <1>2 DEF LocksHeld, Holds, Waits, Guarded, InFlight, Calling
<1> QED BY <1>1, <1>3, CalmStep

\* The claim of a dispatch keeps the locks; every other way out returns them.
LEMMA ClaimStep ==
  ASSUME LocksHeld, NEW w \in Workers, Claim(w)
  PROVE  LocksHeld'
<1>1. pc[w] = "lane" /\ UNCHANGED lease /\ serves[w] \in Runs
  BY DEF Claim, LocksHeld, Holds
<1>2. CASE Release(w) /\ (Back(w, "ready") \/ Back(w, "leaving"))
  BY <1>1, <1>2, ReleasedStep
<1>3. CASE At(w, "dispatched") /\ UNCHANGED locks
  BY <1>1, <1>3, InFlightStep
<1> QED BY <1>2, <1>3 DEF Claim

\* The provider answers or raises.
LEMMA AnswerStep ==
  ASSUME LocksHeld, NEW w \in Workers, Answer(w)
  PROVE  LocksHeld'
<1>1. /\ pc[w] = "dispatched" /\ UNCHANGED <<lease, locks>>
      /\ At(w, "answered") \/ At(w, "raised")
  BY DEF Answer
<1> QED BY <1>1, InFlightStep

\* A refusal, a recorded outcome, a failed commit and a death give all back.
LEMMA ReleaseStep ==
  ASSUME LocksHeld, NEW w \in Workers,
         \/ Refused(w) \/ RecordSuccess(w) \/ RecordException(w)
         \/ CommitFails(w) \/ Abandon(w)
  PROVE  LocksHeld'
<1>1. pc[w] # "idle" /\ Release(w) /\ UNCHANGED lease
  BY DEF Refused, RecordSuccess, RecordException, CommitFails, Abandon
<1>2. serves[w] \in Runs
  BY <1>1 DEF LocksHeld, Holds
<1>3. Back(w, "idle") \/ Back(w, "ready") \/ Back(w, "leaving")
  BY DEF Refused, RecordSuccess, RecordException, CommitFails, Abandon
<1> QED BY <1>1, <1>2, <1>3, ReleasedStep

\* Without the session of its guard an executor holds nothing, so it is no
\* longer guarded.
LEMMA LoseGuardStep ==
  ASSUME LocksHeld, NEW w \in Workers, LoseGuard(w)
  PROVE  LocksHeld'
<1>1. /\ Release(w) /\ UNCHANGED <<lease, local>> /\ pc[w] \in Calling /\ pc[w] # "gated"
      /\ serves[w] \in Runs /\ hand[w] \in Calls /\ (pc[w] = "lane" => hand[w] \in Writes)
  BY DEF LoseGuard, Calling, LocksHeld, Holds
<1>2. LockTypes' /\ Disturbs({w})
  BY <1>1, ReleaseKeepsOthers DEF LocksHeld, LockTypes, Disturbs, lease, local
<1>3. gate'[serves[w]] # w
  BY <1>1, ReleaseKeepsOthers DEF LocksHeld
<1>4. Holds(w)'
  BY <1>1, <1>3 DEF Holds, Waits, Guarded, InFlight, local
<1> QED BY <1>2, <1>4, LocksHeldBy

\* Users, time and heartbeats change no lock, and a run only when its gate is free.
LEMMA OutsideStep ==
  ASSUME LocksHeld,
         \/ \E r \in Runs : Stop(r) \/ Expire(r)
         \/ \E c \in Calls : Decide(c)
         \/ \E w \in Workers : Heartbeat(w)
  PROVE  LocksHeld'
<1>1. UNCHANGED <<locks, local>>
  BY DEF Stop, Expire, Decide, Heartbeat
<1>2. /\ run' \in [Runs -> {"queued", "running", "ended"}]
      /\ owner' \in [Runs -> Workers \cup {Nobody}]
      /\ \A q \in Runs : gate[q] # Nobody => run'[q] = run[q] /\ owner'[q] = owner[q]
  <2>1. CASE \E r \in Runs : Stop(r)
    BY <2>1, EndTypes DEF Stop, LocksHeld
  <2>2. CASE (\E r \in Runs : Expire(r)) \/ (\E c \in Calls : Decide(c))
    BY <2>2 DEF Expire, Decide, lease, LocksHeld, LockTypes
  <2>3. CASE \E w \in Workers : Heartbeat(w)
    BY <2>3 DEF Heartbeat, LocksHeld, LockTypes
  <2> QED BY <2>1, <2>2, <2>3
<1>3. LockTypes' /\ Disturbs({})
  BY <1>1, <1>2 DEF LocksHeld, LockTypes, Disturbs, locks, local
<1> QED BY <1>3, LocksHeldBy

\* The invariant holds in every reachable state.
LEMMA LocksAreHeld == Spec => []LocksHeld
<1>1. Init => LocksHeld
  BY DEF Init, LocksHeld, LockTypes, Holds, Waits, Guarded, InFlight, Calling
<1>2. LocksHeld /\ [Next]_vars => LocksHeld'
  <2> SUFFICES ASSUME LocksHeld, [Next]_vars PROVE LocksHeld'
    OBVIOUS
  <2>1. CASE UNCHANGED vars
    BY <2>1 DEF vars, LocksHeld, LockTypes, Holds, Waits, Guarded, InFlight
  <2>2. ASSUME NEW w \in Workers, Executor(w) PROVE LocksHeld'
    BY <2>2, RecoverStep, UnlockedStep, TakeGateStep, TakeLaneStep, ReleaseStep,
       ClaimStep, AnswerStep, LeaveStep DEF Executor
  <2>3. CASE Next
    BY <2>2, <2>3, AcquireStep, AskStep, ReleaseStep, LoseGuardStep, OutsideStep DEF Next
  <2> QED BY <2>1, <2>3
<1> QED BY <1>1, <1>2, PTL DEF Spec

\* While a guarded write is in flight its executor owns the run: the gate
\* keeps every takeover, stop and closure out, whatever its lease does.
THEOREM GuardsProtectRuns == Spec => []GuardedWriterOwnsRun
<1>1. LocksHeld => GuardedWriterOwnsRun
  BY DEF LocksHeld, Holds, GuardedWriterOwnsRun
<1> QED BY <1>1, LocksAreHeld, PTL

\* Two guarded writes in flight write to different accounts: both hold the
\* lock of their account, and a lock has one holder.
THEOREM LanesExclude == Spec => []AccountWritesExclude
<1>1. LocksHeld => AccountWritesExclude
  BY DEF LocksHeld, Holds, AccountWritesExclude
<1> QED BY <1>1, LocksAreHeld, PTL

------------------------------------------------------------------------------
\* The least element of a set of attempt numbers is one of them.
LEMMA LeastIsIn ==
  ASSUME NEW S \in SUBSET Tries, S # {}
  PROVE  Least(S) \in S
<1>1. S \subseteq Nat
  BY DEF Tries
<1> DEFINE Less == OpToRel(<, Nat)
<1>2. \A a, b \in Nat : a < b => <<a, b>> \in Less
  BY DEF OpToRel
<1>3. IsWellFoundedOn(Less, Nat)
  BY NatLessThanWellFounded
<1> HIDE DEF Less
<1>4. PICK m \in S : \A n \in S : ~ (<<n, m>> \in Less)
  BY <1>1, <1>3, WFMin
<1>5. \A n \in S : m <= n
  <2> TAKE n \in S
  <2>1. n \in Nat /\ m \in Nat /\ ~ (n < m)
    BY <1>1, <1>2, <1>4
  <2> QED BY <2>1
<1> QED BY <1>5 DEF Least

\* A planned attempt has a number and was not dispatched yet.
LEMMA NextTryIsFree ==
  ASSUME NEW c \in Calls, InState(c, "planned") \cup InState(c, "none") # {}
  PROVE  NextTry(c) \in Tries /\ tries[c][NextTry(c)] \in {"planned", "none"}
<1>1. CASE InState(c, "planned") # {}
  <2>1. InState(c, "planned") \in SUBSET Tries
    BY DEF InState
  <2>2. NextTry(c) = Least(InState(c, "planned"))
    BY <1>1 DEF NextTry
  <2>3. NextTry(c) \in InState(c, "planned")
    BY <1>1, <2>1, <2>2, LeastIsIn
  <2> QED BY <2>3 DEF InState
<1>2. CASE InState(c, "planned") = {}
  <2>1. InState(c, "none") \in SUBSET Tries /\ InState(c, "none") # {}
    BY <1>2 DEF InState
  <2>2. NextTry(c) = Least(InState(c, "none"))
    BY <1>2 DEF NextTry
  <2>3. NextTry(c) \in InState(c, "none")
    BY <2>1, <2>2, LeastIsIn
  <2> QED BY <2>3 DEF InState
<1> QED BY <1>1, <1>2
-----------------------------------------------------------------------------
\* The columns a settlement writes.
RowTypes ==
  /\ call \in [Calls -> CallStatuses]
  /\ tries \in [Calls -> [Tries -> TryStatuses]]

\* A settlement writes statuses of its enumerations.
LEMMA SettlesTypes ==
  ASSUME RowTypes, NEW c \in Calls, NEW n \in Tries, NEW s \in CallStatuses,
         NEW t \in TryStatuses, Settles(c, n, s, t)
  PROVE  RowTypes'
BY DEF RowTypes, Settles, Row, Try

\* A worker that goes back starts with the first attempt.
LEMMA BackTryType ==
  ASSUME try \in [Workers -> Tries], NEW w, NEW step, Back(w, step)
  PROVE  try' \in [Workers -> Tries]
<1>1. 1 \in Tries
  BY LimitsAssumption DEF Tries
<1>2. try' = [try EXCEPT ![w] = 1]
  BY DEF Back
<1> QED BY <1>1, <1>2

RestTypes ==
  /\ RowTypes
  /\ sent \in [Calls -> Nat]
  /\ live \in [Runs -> BOOLEAN]
  /\ try \in [Workers -> Tries]
  /\ budget \in Nat

\* The types are those of the locks and those of everything else.
LEMMA TypesSplit == TypeOK <=> LockTypes /\ RestTypes
BY DEF TypeOK, LockTypes, RestTypes, RowTypes, Calling

\* Ending a run changes whether it is live, and nothing else about it.
LEMMA EndLive ==
  ASSUME live \in [Runs -> BOOLEAN], NEW r, NEW st, EndAs(r, st)
  PROVE  live' \in [Runs -> BOOLEAN]
BY DEF EndAs

\* Recovery settles the calls of a predecessor within their enumerations.
LEMMA RecoverTypes ==
  ASSUME LocksHeld, RestTypes, NEW w \in Workers, NEW s \in SkillRuns, Recover(w, s)
  PROVE  RestTypes'
<1> DEFINE r == serves[w]
<1>1. UNCHANGED <<sent, budget>> /\ try' \in [Workers -> Tries]
  BY BackTryType DEF Recover, RestTypes
<1>2. live' \in [Runs -> BOOLEAN]
  BY EndLive DEF Recover, RestTypes, lease
<1>3. RowTypes'
  <2>1. CASE /\ call'  = [c \in Calls |-> IF c \in Doubtful(r, s) THEN "ambiguous" ELSE call[c]]
             /\ tries' = [c \in Calls |-> IF c \in Doubtful(r, s)
                                     THEN Turn(c, "dispatched", "ambiguous") ELSE tries[c]]
    <3>1. \A c \in Calls : Turn(c, "dispatched", "ambiguous") \in [Tries -> TryStatuses]
      BY DEF Turn, RestTypes, RowTypes, TryStatuses
    <3> QED BY <2>1, <3>1 DEF RestTypes, RowTypes, CallStatuses
  <2>2. CASE /\ call' = [c \in Calls |-> IF c \in Unfinished(r, s) THEN "failed" ELSE call[c]]
             /\ UNCHANGED tries
    BY <2>2 DEF RestTypes, RowTypes, CallStatuses
  <2>3. CASE UNCHANGED rows
    BY <2>3 DEF rows, RestTypes, RowTypes
  <2> QED BY <2>1, <2>2, <2>3 DEF Recover
<1> QED BY <1>1, <1>2, <1>3 DEF RestTypes

\* Asking for a call keeps the types, whatever the executor answers.
LEMMA AskTypes ==
  ASSUME LocksHeld, RestTypes, NEW w \in Workers, NEW c \in Calls, Ask(w, c)
  PROVE  RestTypes'
<1> USE DEF RestTypes, RowTypes
<1>1. CASE Replay(w, c)
  <2>1. Turn(c, "planned", "failed") \in [Tries -> TryStatuses]
    BY DEF Turn, TryStatuses
  <2>2. tries' \in [Calls -> [Tries -> TryStatuses]]
    BY <1>1, <2>1 DEF Replay, CloseUnused
  <2> QED BY <1>1, <2>2 DEF Replay, lease, local
<1>2. CASE AskApproval(w, c)
  BY <1>2 DEF AskApproval, Row, lease, local, CallStatuses
<1>3. CASE Create(w, c)
  <2>1. 1 \in Tries
    BY LimitsAssumption DEF Tries
  <2>2. RowTypes'
    BY <1>3, <2>1 DEF Create, Row, Try, CallStatuses, TryStatuses
  <2>3. try' \in [Workers -> Tries]
    BY <1>3, <2>1 DEF Create
  <2> QED BY <1>3, <2>2, <2>3 DEF Create, lease
<1>4. CASE Lookup(w, c)
  BY <1>4 DEF Lookup, rows, lease
<1> QED BY <1>1, <1>2, <1>3, <1>4 DEF Ask

\* The steps of an execution keep the types.
LEMMA ExecutorTypes ==
  ASSUME LocksHeld, RestTypes, NEW w \in Workers,
         \/ Executor(w) \/ CommitFails(w) \/ Abandon(w) \/ LoseGuard(w)
  PROVE  RestTypes'
<1>0. pc[w] \in Calling => hand[w] \in Calls
  BY DEF LocksHeld, Holds
<1>1. CASE \E s \in SkillRuns : Recover(w, s)
  BY <1>1, RecoverTypes
<1>2. CASE Plan(w)
  <2> DEFINE c == hand[w]
  <2>1. c \in Calls /\ NextTry(c) \in Tries
    BY <1>0, <1>2, NextTryIsFree DEF Plan, Calling
  <2> HIDE DEF c
  <2>2. /\ Try(c, NextTry(c), "planned")
        /\ Row(c, IF call[c] = "failed" THEN "planned" ELSE call[c])
        /\ try' = [try EXCEPT ![w] = NextTry(c)]
        /\ UNCHANGED <<sent, lease, budget>>
    BY <1>2 DEF Plan, c
  <2>3. RowTypes'
    BY <2>1, <2>2 DEF Row, Try, RestTypes, RowTypes, CallStatuses, TryStatuses
  <2> QED BY <2>1, <2>2, <2>3 DEF RestTypes, lease
<1>3. CASE DispatchRead(w)
  <2>1. RowTypes'
    BY <1>0, <1>3, SettlesTypes DEF DispatchRead, Calling, RestTypes, CallStatuses, TryStatuses
  <2> QED BY <1>3, <2>1 DEF DispatchRead, At, RestTypes, lease
<1>4. CASE TakeGate(w) \/ TakeLane(w) \/ Refused(w)
  BY <1>4, BackTryType
     DEF TakeGate, TakeLane, Refused, At, RestTypes, RowTypes, rows, lease
<1>5. CASE Claim(w)
  <2> DEFINE c == hand[w]
  <2>1. c \in Calls
    BY <1>0, <1>5 DEF Claim, Calling
  <2>2. RowTypes'
    <3>1. CASE CloseUnused(c) /\ UNCHANGED call
      <4>1. Turn(c, "planned", "failed") \in [Tries -> TryStatuses]
        BY <2>1 DEF Turn, TryStatuses, RestTypes, RowTypes
      <4> QED BY <3>1, <4>1 DEF CloseUnused, RestTypes, RowTypes
    <3>2. CASE /\ Row(c, "ambiguous")
               /\ tries' = [tries EXCEPT ![c] =
                    [m \in Tries |-> IF m = Least(InState(c, "dispatched"))
                                        \/ tries[c][m] = "planned"
                                     THEN "ambiguous" ELSE tries[c][m]]]
      BY <2>1, <3>2 DEF Row, RestTypes, RowTypes, CallStatuses, TryStatuses
    <3>3. CASE UNCHANGED rows
      BY <3>3 DEF rows, RestTypes, RowTypes
    <3>4. CASE Settles(c, try[w], "running", "dispatched")
      BY <2>1, <3>4, SettlesTypes DEF RestTypes, CallStatuses, TryStatuses
    <3> QED BY <1>5, <3>1, <3>2, <3>3, <3>4 DEF Claim
  <2>3. try' \in [Workers -> Tries]
    BY <1>5, BackTryType DEF Claim, At, RestTypes
  <2> QED BY <1>5, <2>2, <2>3 DEF Claim, RestTypes, lease
<1>6. CASE Answer(w)
  <2>1. sent' \in [Calls -> Nat]
    BY <1>6 DEF Answer, RestTypes
  <2> QED BY <1>6, <2>1 DEF Answer, At, RestTypes, RowTypes, rows, lease
<1>7. CASE RecordSuccess(w) \/ CommitFails(w) \/ RecordException(w)
  <2>1. hand[w] \in Calls /\ try[w] \in Tries
    BY <1>0, <1>7 DEF RecordSuccess, CommitFails, RecordException, Calling, RestTypes
  <2>2. /\ FailsAs(hand[w]) \in CallStatuses /\ FailsAs(hand[w]) \in TryStatuses
        /\ {"success", "ambiguous"} \subseteq CallStatuses
        /\ {"success", "ambiguous"} \subseteq TryStatuses
    BY DEF FailsAs, CallStatuses, TryStatuses
  <2>3. RowTypes'
    <3>1. CASE UNCHANGED rows
      BY <3>1 DEF rows, RestTypes, RowTypes
    <3>2. CASE \/ Settles(hand[w], try[w], "success", "success")
               \/ Settles(hand[w], try[w], "ambiguous", "ambiguous")
               \/ Settles(hand[w], try[w], FailsAs(hand[w]), FailsAs(hand[w]))
      BY <2>1, <2>2, <3>2, SettlesTypes DEF RestTypes
    <3> QED BY <1>7, <3>1, <3>2 DEF RecordSuccess, CommitFails, RecordException
  <2>4. try' \in [Workers -> Tries]
    BY <1>7, BackTryType DEF RecordSuccess, CommitFails, RecordException, RestTypes
  <2>5. UNCHANGED <<sent, live>> /\ budget' \in Nat
    BY <1>7 DEF RecordSuccess, CommitFails, RecordException, Spend, lease, RestTypes
  <2> QED BY <2>3, <2>4, <2>5 DEF RestTypes
<1>8. CASE Leave(w)
  BY <1>8, BackTryType, EndLive DEF Leave, RestTypes, RowTypes, rows
<1>9. CASE Abandon(w) \/ LoseGuard(w)
  BY <1>9, BackTryType DEF Abandon, LoseGuard, Spend, RestTypes, RowTypes, rows, lease, local
<1> QED BY <1>1, <1>2, <1>3, <1>4, <1>5, <1>6, <1>7, <1>8, <1>9 DEF Executor

\* Every step keeps the types.
LEMMA NextTypes ==
  ASSUME LocksHeld, RestTypes, [Next]_vars
  PROVE  RestTypes'
<1>1. CASE UNCHANGED vars
  BY <1>1 DEF vars, RestTypes, RowTypes
<1>2. ASSUME NEW w \in Workers, NEW r \in Runs, Acquire(w, r)
      PROVE  RestTypes'
  BY <1>2 DEF Acquire, RestTypes, RowTypes, rows, lease
<1>3. ASSUME NEW w \in Workers, Heartbeat(w)
      PROVE  RestTypes'
  BY <1>3 DEF Heartbeat, RestTypes, RowTypes, rows, local
<1>4. ASSUME NEW r \in Runs, Stop(r) \/ Expire(r)
      PROVE  RestTypes'
  <2>1. CASE Stop(r)
    BY <2>1, EndLive DEF Stop, RestTypes, RowTypes, rows, local
  <2>2. CASE Expire(r)
    <3>1. budget' \in Nat
      BY <2>2 DEF Expire, Spend, RestTypes
    <3> QED BY <2>2, <3>1 DEF Expire, RestTypes, RowTypes, rows, local
  <2> QED BY <1>4, <2>1, <2>2
<1>5. ASSUME NEW c \in Calls, Decide(c)
      PROVE  RestTypes'
  BY <1>5 DEF Decide, Row, RestTypes, RowTypes, lease, local, CallStatuses
<1>6. CASE Next
  BY <1>2, <1>3, <1>4, <1>5, <1>6, AskTypes, ExecutorTypes DEF Next
<1> QED BY <1>1, <1>6

\* Every row, attempt and lock keeps its type.
THEOREM ToolTypesCorrect == Spec => []TypeOK
<1>1. Init => RestTypes
  BY LimitsAssumption DEF Init, RestTypes, RowTypes, CallStatuses, TryStatuses, Tries
<1>2. LocksHeld /\ RestTypes /\ [Next]_vars => RestTypes'
  BY NextTypes
<1>3. LocksHeld /\ RestTypes => TypeOK
  BY TypesSplit DEF LocksHeld
<1> QED BY <1>1, <1>2, <1>3, LocksAreHeld, PTL DEF Spec
-----------------------------------------------------------------------------
(***************************************************************************)
(* What the rows say of the requests that are on their way.                *)
(***************************************************************************)
IsDispatched(c, n) == tries[c][n] = "dispatched"
OneDispatch(c) ==
  /\ call[c] = "running" <=> \E n \in Tries : IsDispatched(c, n)
  /\ \A m, n \in Tries : IsDispatched(c, m) /\ IsDispatched(c, n) => m = n

\* A request on its way is still marked, unless somebody doubts it by now.
Traced(w) ==
  InFlight(w) =>
    /\ \/ call[hand[w]] = "running" /\ IsDispatched(hand[w], try[w])
       \/ call[hand[w]] = "ambiguous"
    /\ pc[w] = "answered" => sent[hand[w]] > 0
    /\ \A v \in Workers \ {w} : InFlight(v) => hand[v] # hand[w]

\* Nothing that reached the provider unrepeatably can be dispatched again.
SentOnce(c) ==
  sent[c] > 0 =>
    /\ call[c] \in {"running", "success", "ambiguous"}
    /\ \A w \in Workers : InFlight(w) /\ hand[w] = c => pc[w] # "dispatched"

HandsUnasked == \A w \in Workers : pc[w] \in Calling => hand[w] \in Calls \ Confirmed

LedgerKept ==
  /\ HandsUnasked
  /\ \A c \in Writes : /\ OneDispatch(c)
                       /\ call[c] = "waiting_approval" => c \in Confirmed
  /\ \A w \in Workers : Traced(w)
  /\ \A c \in Once : SentOnce(c)

\* The ways in which a step that asks the provider of nothing moves a write.
SameDispatch(c) == \A n \in Tries : IsDispatched(c, n)' <=> IsDispatched(c, n)
Same(c) == call'[c] = call[c] /\ SameDispatch(c)
Unsent(c) ==
  /\ call[c] \in {"absent", "planned", "failed", "waiting_approval"}
  /\ call'[c] \in {"planned", "failed", "waiting_approval", "success"}
  /\ call'[c] = "waiting_approval" => c \in Confirmed
  /\ SameDispatch(c)
Doubted(c) ==
  /\ call[c] = "running" /\ call'[c] = "ambiguous"
  /\ \A n \in Tries : ~IsDispatched(c, n)'

\* No request starts, is answered or changes hands; some may be abandoned.
FlightsOnlyEnd ==
  \A v \in Workers : InFlight(v)' =>
    InFlight(v) /\ pc'[v] = pc[v] /\ hand'[v] = hand[v] /\ try'[v] = try[v]

\* A step that sends nothing and opens no row keeps the ledger's invariant: rows stay,
\* are settled without having been sent, or become doubtful.
LEMMA QuietKeeps ==
  ASSUME LockTypes, RestTypes, LedgerKept, FlightsOnlyEnd, sent' = sent, HandsUnasked',
         \A c \in Writes : Same(c) \/ Unsent(c) \/ Doubted(c)
  PROVE  LedgerKept'
<1>1. ASSUME NEW c \in Writes
      PROVE  OneDispatch(c)' /\ (call'[c] = "waiting_approval" => c \in Confirmed)
  <2>1. OneDispatch(c) /\ (call[c] = "waiting_approval" => c \in Confirmed)
    BY DEF LedgerKept
  <2>2. CASE Same(c)
    BY <2>1, <2>2 DEF Same, SameDispatch, OneDispatch
  <2>3. CASE Unsent(c)
    BY <2>1, <2>3 DEF Unsent, SameDispatch, OneDispatch
  <2>4. CASE Doubted(c)
    BY <2>4 DEF Doubted, OneDispatch
  <2> QED BY <2>2, <2>3, <2>4
<1>2. ASSUME NEW w \in Workers
      PROVE  Traced(w)'
  <2> SUFFICES ASSUME InFlight(w)'
               PROVE  Traced(w)'
    BY DEF Traced
  <2>1. /\ InFlight(w) /\ pc'[w] = pc[w] /\ hand'[w] = hand[w] /\ try'[w] = try[w]
        /\ hand[w] \in Writes /\ try[w] \in Tries
    BY DEF FlightsOnlyEnd, InFlight, RestTypes
  <2>2. Traced(w)
    BY DEF LedgerKept
  <2>3. \/ call'[hand[w]] = "running" /\ IsDispatched(hand[w], try[w])'
        \/ call'[hand[w]] = "ambiguous"
    <3>1. Same(hand[w]) \/ Doubted(hand[w])
      BY <2>1, <2>2 DEF Traced, Unsent
    <3>2. CASE Same(hand[w])
      <4>1. tries'[hand[w]][try[w]] = "dispatched" <=> IsDispatched(hand[w], try[w])
        BY <2>1, <3>2 DEF Same, SameDispatch, IsDispatched
      <4> QED BY <2>1, <2>2, <3>2, <4>1 DEF Traced, Same, IsDispatched
    <3>3. CASE Doubted(hand[w])
      BY <3>3 DEF Doubted
    <3> QED BY <3>1, <3>2, <3>3
  <2>4. \A v \in Workers \ {w} : InFlight(v)' => hand'[v] # hand'[w]
    BY <2>1, <2>2 DEF FlightsOnlyEnd, Traced
  <2>5. pc'[w] = "answered" => sent'[hand'[w]] > 0
    BY <2>1, <2>2 DEF Traced
  <2> QED BY <2>1, <2>3, <2>4, <2>5 DEF Traced, IsDispatched
<1>3. ASSUME NEW c \in Once
      PROVE  SentOnce(c)'
  <2>1. c \in Writes /\ SentOnce(c)
    BY CallsAssumption DEF LedgerKept
  <2>2. sent[c] > 0 => call'[c] \in {"running", "success", "ambiguous"}
    BY <2>1 DEF SentOnce, Same, Unsent, Doubted
  <2>3. sent[c] > 0 => \A w \in Workers : InFlight(w)' /\ hand'[w] = c => pc'[w] # "dispatched"
    BY <2>1 DEF SentOnce, FlightsOnlyEnd
  <2> QED BY <2>2, <2>3 DEF SentOnce
<1> QED BY <1>1, <1>2, <1>3 DEF LedgerKept

\* A dispatch: the row and a planned attempt of a call nobody has dispatched.
LEMMA DispatchKeeps ==
  ASSUME LockTypes, RestTypes, LedgerKept, NEW w \in Workers, sent' = sent,
         pc[w] = "lane", hand[w] \in Writes, At(w, "dispatched"),
         ~(Replays(hand[w]) /\ call[hand[w]] # "running"), ~Undecided(hand[w]),
         Settles(hand[w], try[w], "running", "dispatched")
  PROVE  /\ LedgerKept'
         /\ call[hand[w]] \in {"absent", "planned", "failed"}
         /\ call[hand[w]] = "failed" => hand[w] \notin Once
<1> DEFINE c == hand[w]
           n == try[w]
<1>1. c \in Writes /\ c \in Calls /\ n \in Tries /\ OneDispatch(c) /\ pc[w] \in Calling
      /\ call[c] \in CallStatuses
  BY DEF LedgerKept, RestTypes, RowTypes, Writes, Calling
<1>2. \A m \in Tries : ~IsDispatched(c, m)
  BY DEF Undecided, InState, IsDispatched
<1>3. /\ call[c] \in {"absent", "planned", "failed"}
      /\ call[c] = "failed" => c \notin Once
  BY <1>1, <1>2 DEF OneDispatch, Replays, CallStatuses
<1>4. /\ call'[c] = "running" /\ \A d \in Calls \ {c} : call'[d] = call[d]
      /\ \A d \in Calls \ {c}, m \in Tries : tries'[d][m] = tries[d][m]
      /\ \A m \in Tries : tries'[c][m] = IF m = n THEN "dispatched" ELSE tries[c][m]
  BY <1>1 DEF Settles, Row, Try, RestTypes, RowTypes
<1>5. /\ pc'[w] = "dispatched" /\ hand' = hand /\ try' = try
      /\ \A v \in Workers \ {w} : pc'[v] = pc[v]
  BY DEF At, LockTypes
<1>6. \A v \in Workers : InFlight(v) => hand[v] # c
  BY <1>3 DEF LedgerKept, Traced
<1> HIDE DEF c, n
<1>7. HandsUnasked'
  BY <1>1, <1>5 DEF LedgerKept, HandsUnasked, c, Calling
<1>8. ASSUME NEW d \in Writes
      PROVE  OneDispatch(d)' /\ (call'[d] = "waiting_approval" => d \in Confirmed)
  <2>1. CASE d = c
    BY <1>1, <1>2, <1>4, <2>1 DEF OneDispatch, IsDispatched
  <2>2. CASE d # c
    <3>1. d \in Calls
      BY DEF Writes
    <3> QED BY <1>4, <2>2, <3>1 DEF LedgerKept, OneDispatch, IsDispatched
  <2> QED BY <2>1, <2>2
<1>9. ASSUME NEW v \in Workers
      PROVE  Traced(v)'
  <2>1. CASE v = w
    <3>1. InFlight(v)' /\ hand'[v] = c /\ try'[v] = n /\ pc'[v] # "answered"
      BY <1>1, <1>5, <2>1 DEF InFlight, c, n
    <3>2. \A u \in Workers \ {v} : InFlight(u)' => hand'[u] # c
      BY <1>5, <1>6, <2>1 DEF InFlight
    <3> QED BY <1>1, <1>4, <3>1, <3>2 DEF Traced, IsDispatched
  <2>2. CASE v # w
    <3> SUFFICES ASSUME InFlight(v)'
                 PROVE  Traced(v)'
      BY DEF Traced
    <3>1. InFlight(v) /\ hand[v] # c /\ pc'[v] = pc[v] /\ Traced(v)
          /\ hand[v] \in Writes /\ hand[v] \in Calls /\ try[v] \in Tries
      BY <1>5, <1>6, <2>2 DEF InFlight, LedgerKept, RestTypes, Writes
    <3>2. \A u \in Workers \ {v} : InFlight(u)' => hand'[u] # hand[v]
      <4> TAKE u \in Workers \ {v}
      <4>1. CASE u = w
        BY <1>5, <3>1, <4>1 DEF c
      <4>2. CASE u # w
        BY <1>5, <3>1, <4>2 DEF InFlight, Traced
      <4> QED BY <4>1, <4>2
    <3> QED BY <1>4, <1>5, <3>1, <3>2 DEF Traced, IsDispatched
  <2> QED BY <2>1, <2>2
<1>10. ASSUME NEW d \in Once
       PROVE  SentOnce(d)'
  <2>1. d \in Writes /\ d \in Calls /\ SentOnce(d)
    BY CallsAssumption DEF LedgerKept, Writes
  <2>2. CASE d = c
    BY <1>3, <2>1, <2>2 DEF SentOnce
  <2>3. CASE d # c
    <3>1. \A v \in Workers : InFlight(v)' /\ hand'[v] = d =>
            v # w /\ InFlight(v) /\ hand[v] = d /\ pc'[v] = pc[v]
      BY <1>5, <2>3 DEF InFlight, c
    <3> QED BY <1>4, <2>1, <2>3, <3>1 DEF SentOnce
  <2> QED BY <2>2, <2>3
<1> QED BY <1>3, <1>7, <1>8, <1>9, <1>10 DEF LedgerKept, c

\* The provider is asked: only the executor of the call is on its way with it.
LEMMA AnswerKeeps ==
  ASSUME LockTypes, RestTypes, LedgerKept, NEW w \in Workers, Answer(w)
  PROVE  LedgerKept'
<1> DEFINE c == hand[w]
<1>1. pc[w] = "dispatched" /\ c \in Calls \ Confirmed /\ UNCHANGED <<call, tries>>
  BY DEF Answer, rows, LedgerKept, HandsUnasked, Calling
<1>2. /\ pc'[w] \in {"answered", "raised"} /\ hand' = hand /\ try' = try
      /\ \A v \in Workers \ {w} : pc'[v] = pc[v]
  BY DEF Answer, At, LockTypes
<1>3. /\ \A d \in Calls : sent'[d] >= sent[d] /\ sent[d] \in Nat /\ sent'[d] \in Nat
      /\ \A d \in Calls \ {c} : sent'[d] = sent[d]
      /\ pc'[w] = "answered" => sent'[c] > 0
  BY <1>1 DEF Answer, At, RestTypes, LockTypes
<1>4. \A v \in Workers : InFlight(v)' <=> InFlight(v)
  BY <1>1, <1>2 DEF InFlight
<1> HIDE DEF c
<1>5. HandsUnasked'
  BY <1>1, <1>2 DEF LedgerKept, HandsUnasked, c, Calling
<1>6. \A d \in Writes : OneDispatch(d)' /\ (call'[d] = "waiting_approval" => d \in Confirmed)
  BY <1>1 DEF LedgerKept, OneDispatch, IsDispatched
<1>7. ASSUME NEW v \in Workers
      PROVE  Traced(v)'
  <2> SUFFICES ASSUME InFlight(v)'
               PROVE  Traced(v)'
    BY DEF Traced
  <2>1. InFlight(v) /\ Traced(v) /\ hand[v] \in Calls
    BY <1>4 DEF LedgerKept, InFlight, Writes
  <2>2. pc'[v] = "answered" => sent'[hand[v]] > 0
    <3>1. CASE v = w
      BY <1>3, <3>1 DEF c
    <3>2. CASE v # w
      BY <1>2, <1>3, <2>1, <3>2 DEF Traced
    <3> QED BY <3>1, <3>2
  <2> QED BY <1>1, <1>2, <1>4, <2>1, <2>2 DEF Traced, IsDispatched
<1>8. ASSUME NEW d \in Once
      PROVE  SentOnce(d)'
  <2>1. d \in Writes /\ d \in Calls /\ SentOnce(d)
    BY CallsAssumption DEF LedgerKept, Writes
  <2>2. CASE d # c
    <3>1. \A v \in Workers : InFlight(v) /\ hand[v] = d => v # w
      BY <2>2 DEF c
    <3> QED BY <1>1, <1>2, <1>3, <1>4, <2>1, <2>2, <3>1 DEF SentOnce
  <2>3. CASE d = c
    <3>1. InFlight(w) /\ Traced(w)
      BY <1>1, <2>1, <2>3 DEF InFlight, LedgerKept, c
    <3>2. call'[d] \in {"running", "success", "ambiguous"}
      BY <1>1, <2>3, <3>1 DEF Traced, c
    <3>3. \A v \in Workers : InFlight(v)' /\ hand'[v] = d => pc'[v] # "dispatched"
      BY <1>2, <1>4, <2>3, <3>1 DEF Traced, c
    <3> QED BY <3>2, <3>3 DEF SentOnce
  <2> QED BY <2>2, <2>3
<1> QED BY <1>5, <1>6, <1>7, <1>8 DEF LedgerKept

\* The outcome of a request is written to the row and the attempt it left.
LEMMA SettleKeeps ==
  ASSUME LockTypes, RestTypes, LedgerKept, NEW w \in Workers, sent' = sent,
         pc[w] \in {"answered", "raised"},
         NEW st \in {"success", "failed", "ambiguous"},
         Settles(hand[w], try[w], st, st), st = "failed" => hand[w] \notin Once,
         NEW step \in {"ready", "leaving"}, Back(w, step)
  PROVE  LedgerKept'
<1> DEFINE c == hand[w]
           n == try[w]
<1>1. c \in Calls \ Confirmed /\ n \in Tries /\ Traced(w)
  BY DEF LedgerKept, HandsUnasked, Calling, RestTypes
<1>2. /\ call'[c] = st /\ \A d \in Calls \ {c} : call'[d] = call[d]
      /\ \A d \in Calls \ {c}, m \in Tries : tries'[d][m] = tries[d][m]
      /\ \A m \in Tries : tries'[c][m] = IF m = n THEN st ELSE tries[c][m]
  BY <1>1 DEF Settles, Row, Try, RestTypes, RowTypes
<1>3. /\ ~InFlight(w)' /\ pc'[w] \notin Calling
      /\ \A v \in Workers \ {w} : pc'[v] = pc[v] /\ hand'[v] = hand[v] /\ try'[v] = try[v]
  BY DEF Back, InFlight, LockTypes, RestTypes, Calling
<1>4. c \in Writes => InFlight(w)
  BY DEF InFlight
<1> HIDE DEF c, n
<1>5. HandsUnasked'
  BY <1>3 DEF LedgerKept, HandsUnasked
<1>6. ASSUME NEW d \in Writes
      PROVE  OneDispatch(d)' /\ (call'[d] = "waiting_approval" => d \in Confirmed)
  <2>1. d \in Calls /\ OneDispatch(d) /\ (call[d] = "waiting_approval" => d \in Confirmed)
    BY DEF LedgerKept, Writes
  <2>2. CASE d # c
    BY <1>2, <2>1, <2>2 DEF OneDispatch, IsDispatched
  <2>3. CASE d = c
    <3>1. \A m \in Tries : IsDispatched(c, m) => m = n
      <4>1. \/ call[c] = "running" /\ IsDispatched(c, n)
            \/ call[c] = "ambiguous"
        BY <1>1, <1>4, <2>3 DEF Traced, c, n
      <4> QED BY <1>1, <2>1, <2>3, <4>1 DEF OneDispatch
    <3>2. \A m \in Tries : ~IsDispatched(d, m)'
      BY <1>2, <2>3, <3>1 DEF IsDispatched
    <3>3. call'[d] = st
      BY <1>2, <2>3
    <3> QED BY <3>2, <3>3 DEF OneDispatch
  <2> QED BY <2>2, <2>3
<1>7. ASSUME NEW v \in Workers
      PROVE  Traced(v)'
  <2> SUFFICES ASSUME InFlight(v)'
               PROVE  Traced(v)'
    BY DEF Traced
  <2>1. v # w /\ InFlight(v) /\ Traced(v) /\ hand[v] \in Calls /\ try[v] \in Tries
        /\ hand[v] \in Writes
    BY <1>3 DEF InFlight, LedgerKept, Writes, RestTypes
  <2>2. hand[v] # c
    BY <1>4, <2>1 DEF Traced, c
  <2>3. \A u \in Workers \ {v} : InFlight(u)' => hand'[u] # hand[v]
    BY <1>3, <2>1 DEF InFlight, Traced
  <2> QED BY <1>2, <1>3, <2>1, <2>2, <2>3 DEF Traced, IsDispatched
<1>8. ASSUME NEW d \in Once
      PROVE  SentOnce(d)'
  <2>1. d \in Writes /\ d \in Calls /\ SentOnce(d)
    BY CallsAssumption DEF LedgerKept, Writes
  <2>2. sent[d] > 0 => call'[d] \in {"running", "success", "ambiguous"}
    BY <1>2, <2>1 DEF SentOnce, c
  <2>3. sent[d] > 0 => \A v \in Workers : InFlight(v)' /\ hand'[v] = d => pc'[v] # "dispatched"
    BY <1>3, <2>1 DEF SentOnce, InFlight
  <2> QED BY <2>2, <2>3 DEF SentOnce
<1> QED BY <1>5, <1>6, <1>7, <1>8 DEF LedgerKept
-----------------------------------------------------------------------------
(***************************************************************************)
(* The refinement: what each step is to the ledger.                        *)
(***************************************************************************)
Outcome(c) == IF call[c] \in {"success", "failed", "ambiguous"} THEN call[c] ELSE "open"
outcomeMap == [c \in Writes |-> IF call[c] \in {"success", "failed", "ambiguous"}
                                THEN call[c] ELSE "open"]
sentMap == [c \in Writes |-> sent[c]]
LedgerStep == Ledger!Next \/ UNCHANGED <<outcomeMap, sentMap>>

\* A step that changes no outcome and sends nothing is a stutter of the ledger.
LEMMA LedgerStutters ==
  ASSUME \A c \in Writes : Outcome(c)' = Outcome(c), sent' = sent
  PROVE  LedgerStep
BY DEF LedgerStep, outcomeMap, sentMap, Outcome

\* One call is retried, or some calls are settled together.
LEMMA LedgerRetries ==
  ASSUME NEW c \in Writes, Outcome(c) = "failed", Outcome(c)' = "open",
         \A d \in Writes \ {c} : Outcome(d)' = Outcome(d),
         sent' = sent, c \in Once => sent[c] = 0
  PROVE  LedgerStep
<1>1. Ledger!Retry(c)
  BY DEF Ledger!Retry, Ledger!MaySend, Ledger!Becomes, Outcome
<1> QED BY <1>1 DEF LedgerStep, Ledger!Next

\* Writes that are settled together become ambiguous, or failed if they were not sent.
LEMMA LedgerSettles ==
  ASSUME NEW S \in SUBSET Writes, sent' = sent,
         \A d \in Writes \ S : Outcome(d)' = Outcome(d),
         \/ \A c \in S : Outcome(c) = "open" /\ Outcome(c)' = "ambiguous"
         \/ \A c \in S : /\ Outcome(c) \in {"open", "ambiguous"} /\ Outcome(c)' = "failed"
                         /\ c \in Once => sent[c] = 0
  PROVE  LedgerStep
<1>1. CASE \A c \in S : Outcome(c) = "open" /\ Outcome(c)' = "ambiguous"
  <2>1. Ledger!Doubt(S)
    BY <1>1 DEF Ledger!Doubt, Ledger!Become, Outcome
  <2> QED BY <2>1 DEF LedgerStep, Ledger!Next
<1>2. CASE \A c \in S : /\ Outcome(c) \in {"open", "ambiguous"} /\ Outcome(c)' = "failed"
                        /\ c \in Once => sent[c] = 0
  <2>1. Ledger!Fail(S)
    BY <1>2 DEF Ledger!Fail, Ledger!MaySend, Ledger!Become, Outcome
  <2> QED BY <2>1 DEF LedgerStep, Ledger!Next
<1> QED BY <1>1, <1>2

\* One write becomes ambiguous, or fails where a repetition is allowed.
LEMMA LedgerSettlesOne ==
  ASSUME NEW c \in Writes, sent' = sent,
         \A d \in Writes \ {c} : Outcome(d)' = Outcome(d),
         \/ Outcome(c) = "open" /\ Outcome(c)' = "ambiguous"
         \/ /\ Outcome(c) \in {"open", "ambiguous"} /\ Outcome(c)' = "failed"
            /\ c \notin Once
  PROVE  LedgerStep
<1>1. {c} \in SUBSET Writes
  OBVIOUS
<1>2. CASE Outcome(c) = "open" /\ Outcome(c)' = "ambiguous"
  <2>1. \A d \in {c} : Outcome(d) = "open" /\ Outcome(d)' = "ambiguous"
    BY <1>2
  <2> QED BY <1>1, <2>1, LedgerSettles
<1>3. CASE /\ Outcome(c) \in {"open", "ambiguous"} /\ Outcome(c)' = "failed"
           /\ c \notin Once
  <2>1. \A d \in {c} : /\ Outcome(d) \in {"open", "ambiguous"} /\ Outcome(d)' = "failed"
                       /\ d \in Once => sent[d] = 0
    BY <1>3
  <2> QED BY <1>1, <2>1, LedgerSettles
<1> QED BY <1>2, <1>3

\* A write that was sent and is reported done is a success of the ledger.
LEMMA LedgerSucceeds ==
  ASSUME NEW c \in Writes, Outcome(c) \in {"open", "ambiguous"}, Outcome(c)' = "success",
         \A d \in Writes \ {c} : Outcome(d)' = Outcome(d),
         sent' = sent, sent[c] > 0
  PROVE  LedgerStep
<1>1. Ledger!Succeed(c)
  BY DEF Ledger!Succeed, Ledger!Becomes, Outcome
<1> QED BY <1>1 DEF LedgerStep, Ledger!Next

\* A person's decision about a confirmed write is one of the ledger.
LEMMA LedgerDecides ==
  ASSUME NEW c \in Writes, c \in Confirmed, Outcome(c) = "open",
         Outcome(c)' \in {"success", "failed"},
         \A d \in Writes \ {c} : Outcome(d)' = Outcome(d), sent' = sent
  PROVE  LedgerStep
<1>1. Ledger!Decide(c)
  BY DEF Ledger!Decide, Ledger!Becomes, Outcome
<1> QED BY <1>1 DEF LedgerStep, Ledger!Next

\* A request sent for an open write is one of the ledger.
LEMMA LedgerSends ==
  ASSUME sent \in [Calls -> Nat], NEW c \in Writes, c \notin Confirmed,
         Outcome(c) \in {"open", "ambiguous"}, c \in Once => sent[c] = 0,
         call' = call, sent' = [sent EXCEPT ![c] = @ + 1]
  PROVE  LedgerStep
<1>1. Ledger!Send(c)
  BY DEF Ledger!Send, Ledger!MaySend, Outcome, Writes
<1> QED BY <1>1 DEF LedgerStep, Ledger!Next
-----------------------------------------------------------------------------
(* The steps one by one: each keeps the marks and is a step of the ledger. *)

\* Steps that leave every write as it is.
LEMMA SameSteps ==
  ASSUME LockTypes, RestTypes, LedgerKept, FlightsOnlyEnd, sent' = sent, HandsUnasked',
         \A c \in Writes : Same(c)
  PROVE  LedgerKept' /\ LedgerStep
<1>1. LedgerKept'
  BY QuietKeeps
<1>2. LedgerStep
  BY LedgerStutters DEF Same, Outcome
<1> QED BY <1>1, <1>2

\* Rows that are unchanged are the same for every write.
LEMMA SameRows == ASSUME UNCHANGED rows PROVE \A c \in Writes : Same(c)
BY DEF rows, Same, SameDispatch, IsDispatched

\* An executor that is back has nothing on its way.
LEMMA BackEndsFlight ==
  ASSUME LockTypes, RestTypes, HandsUnasked, NEW w \in Workers,
         NEW step \in {"idle", "ready", "leaving"}, Back(w, step)
  PROVE  FlightsOnlyEnd /\ HandsUnasked'
<1>1. /\ pc'[w] = step
      /\ \A v \in Workers \ {w} : pc'[v] = pc[v] /\ hand'[v] = hand[v] /\ try'[v] = try[v]
  BY DEF Back, LockTypes, RestTypes
<1>2. FlightsOnlyEnd
  BY <1>1 DEF FlightsOnlyEnd, InFlight
<1>3. HandsUnasked'
  BY <1>1 DEF HandsUnasked, Calling
<1> QED BY <1>2, <1>3

\* Nothing starts where only an executor between its calls moves.
LEMMA StepsBefore ==
  ASSUME LockTypes, RestTypes, HandsUnasked, NEW w \in Workers, NEW step,
         step \notin {"dispatched", "answered", "raised"},
         pc' = [pc EXCEPT ![w] = step],
         \A v \in Workers \ {w} : hand'[v] = hand[v] /\ try'[v] = try[v],
         step \in Calling => hand'[w] \in Calls \ Confirmed
  PROVE  FlightsOnlyEnd /\ HandsUnasked'
<1>1. pc'[w] = step /\ \A v \in Workers \ {w} : pc'[v] = pc[v]
  BY DEF LockTypes
<1>2. FlightsOnlyEnd
  BY <1>1 DEF FlightsOnlyEnd, InFlight
<1>3. HandsUnasked'
  BY <1>1 DEF HandsUnasked, Calling
<1> QED BY <1>2, <1>3

\* Workers that stay where they are start no flight and ask for nothing.
LEMMA LocalSame ==
  ASSUME HandsUnasked, UNCHANGED local
  PROVE  FlightsOnlyEnd /\ HandsUnasked'
BY DEF local, FlightsOnlyEnd, InFlight, HandsUnasked

\* Runs, locks and time.
LEMMA OutsideLedger ==
  ASSUME LocksHeld, RestTypes, LedgerKept,
         \/ \E r \in Runs : Stop(r) \/ Expire(r)
         \/ \E w \in Workers : Heartbeat(w) \/ LoseGuard(w) \/ TakeGate(w) \/ TakeLane(w)
                               \/ Refused(w) \/ Leave(w) \/ Abandon(w)
         \/ \E w \in Workers, r \in Runs : Acquire(w, r)
  PROVE  LedgerKept' /\ LedgerStep
<1>0. HandsUnasked /\ LockTypes
  BY DEF LedgerKept, LocksHeld
<1>1. UNCHANGED rows /\ sent' = sent
  BY DEF Stop, Expire, Heartbeat, LoseGuard, TakeGate, TakeLane, Refused, Leave, Abandon,
         Acquire
<1>2. FlightsOnlyEnd /\ HandsUnasked'
  <2>1. ASSUME NEW w \in Workers, NEW r \in Runs, Acquire(w, r)
        PROVE  FlightsOnlyEnd /\ HandsUnasked'
    BY <1>0, <2>1, StepsBefore DEF Acquire, Calling
  <2>2. ASSUME NEW w \in Workers, TakeGate(w) \/ TakeLane(w)
        PROVE  FlightsOnlyEnd /\ HandsUnasked'
    <3>1. hand[w] \in Calls \ Confirmed
      BY <1>0, <2>2 DEF TakeGate, TakeLane, HandsUnasked, Calling
    <3> QED BY <1>0, <2>2, <3>1, StepsBefore DEF TakeGate, TakeLane, At
  <2>3. ASSUME NEW w \in Workers, Refused(w) \/ Leave(w) \/ Abandon(w)
        PROVE  FlightsOnlyEnd /\ HandsUnasked'
    BY <1>0, <2>3, BackEndsFlight DEF Refused, Leave, Abandon
  <2>4. CASE UNCHANGED local
    BY <1>0, <2>4, LocalSame
  <2> QED BY <2>1, <2>2, <2>3, <2>4 DEF Stop, Expire, Heartbeat, LoseGuard
<1> QED BY <1>0, <1>1, <1>2, SameRows, SameSteps

\* An unsent call, alone, is retried, settled by a person or waits for one.
LEMMA UnsentStep ==
  ASSUME LockTypes, RestTypes, LedgerKept, FlightsOnlyEnd, sent' = sent, HandsUnasked',
         NEW c \in Calls, \A d \in Writes \ {c} : Same(d),
         c \in Writes =>
           /\ Unsent(c)
           /\ call[c] = "waiting_approval" => call'[c] \in {"success", "failed"}
           /\ call[c] # "waiting_approval" => call'[c] \in {"planned", "waiting_approval"}
  PROVE  LedgerKept' /\ LedgerStep
<1>1. LedgerKept'
  BY QuietKeeps
<1>2. LedgerStep
  <2>1. CASE c \notin Writes
    BY <2>1, LedgerStutters DEF Same, Outcome
  <2>2. CASE c \in Writes
    <3>1. \A d \in Writes \ {c} : Outcome(d)' = Outcome(d)
      BY DEF Same, Outcome
    <3>2. CASE call[c] \in {"absent", "planned"}
      <4>1. Outcome(c)' = Outcome(c)
        BY <2>2, <3>2 DEF Outcome
      <4> QED BY <3>1, <4>1, LedgerStutters
    <3>3. CASE call[c] = "failed"
      <4>1. Outcome(c) = "failed" /\ Outcome(c)' = "open"
        BY <2>2, <3>3 DEF Outcome
      <4>2. c \in Once => sent[c] = 0
        BY <3>3 DEF LedgerKept, SentOnce, RestTypes
      <4> QED BY <2>2, <3>1, <4>1, <4>2, LedgerRetries
    <3>4. CASE call[c] = "waiting_approval"
      <4>1. Outcome(c) = "open" /\ Outcome(c)' \in {"success", "failed"} /\ c \in Confirmed
        BY <2>2, <3>4 DEF Outcome, LedgerKept
      <4> QED BY <2>2, <3>1, <4>1, LedgerDecides
    <3> QED BY <2>2, <3>2, <3>3, <3>4 DEF Unsent
  <2> QED BY <2>1, <2>2
<1> QED BY <1>1, <1>2

\* Asking for a call keeps the invariant and is a step of the ledger.
LEMMA AskLedger ==
  ASSUME LocksHeld, RestTypes, LedgerKept, NEW w \in Workers, NEW c \in Calls, Ask(w, c)
  PROVE  LedgerKept' /\ LedgerStep
<1>0. HandsUnasked /\ LockTypes /\ sent' = sent /\ call[c] \in CallStatuses
  BY DEF LedgerKept, LocksHeld, Ask, Replay, AskApproval, Create, Lookup, RestTypes, RowTypes
<1>1. CASE Replay(w, c)
  <2>1. \A d \in Writes : Same(d)
    BY <1>1 DEF Replay, CloseUnused, Turn, Same, SameDispatch, IsDispatched, RestTypes,
                RowTypes
  <2> QED BY <1>0, <1>1, <2>1, LocalSame, SameSteps DEF Replay
<1>2. CASE AskApproval(w, c)
  <2>1. \A d \in Writes \ {c} : Same(d)
    BY <1>2 DEF AskApproval, Row, Same, SameDispatch, IsDispatched, RestTypes, RowTypes,
                Writes
  <2>2. Unsent(c) /\ call[c] # "waiting_approval" /\ call'[c] = "waiting_approval"
    BY <1>0, <1>2
       DEF AskApproval, Row, Replays, Unsent, SameDispatch, IsDispatched, RestTypes,
           RowTypes, CallStatuses
  <2>3. FlightsOnlyEnd /\ HandsUnasked'
    BY <1>0, <1>2, LocalSame DEF AskApproval
  <2> QED BY <1>0, <2>1, <2>2, <2>3, UnsentStep
<1>3. CASE Create(w, c)
  <2>1. \A d \in Writes \ {c} : Same(d)
    BY <1>3 DEF Create, Row, Try, Same, SameDispatch, IsDispatched, RestTypes, RowTypes,
                Writes
  <2>2. /\ call[c] = "absent" /\ call'[c] = "planned"
        /\ \A m \in Tries : tries'[c][m] = IF m = 1 THEN "planned" ELSE tries[c][m]
    BY <1>3, LimitsAssumption DEF Create, Row, Try, Tries, RestTypes, RowTypes
  <2>3. c \in Writes => Unsent(c)
    BY <2>2 DEF LedgerKept, OneDispatch, Unsent, SameDispatch, IsDispatched
  <2>4. FlightsOnlyEnd /\ HandsUnasked'
    <3>1. hand'[w] \in Calls \ Confirmed
      BY <1>3 DEF Create, LocksHeld, LockTypes
    <3>2. \A v \in Workers \ {w} : hand'[v] = hand[v] /\ try'[v] = try[v]
      BY <1>3 DEF Create, LocksHeld, LockTypes, RestTypes
    <3> QED BY <1>0, <1>3, <3>1, <3>2, StepsBefore DEF Create
  <2> QED BY <1>0, <2>1, <2>2, <2>3, <2>4, UnsentStep
<1>4. CASE Lookup(w, c)
  <2>1. \A d \in Writes : Same(d)
    BY <1>4, SameRows DEF Lookup
  <2>2. FlightsOnlyEnd /\ HandsUnasked'
    <3>1. hand'[w] \in Calls \ Confirmed
      BY <1>4 DEF Lookup, LocksHeld, LockTypes
    <3>2. \A v \in Workers \ {w} : hand'[v] = hand[v] /\ try'[v] = try[v]
      BY <1>4 DEF Lookup, LocksHeld, LockTypes
    <3> QED BY <1>0, <1>4, <3>1, <3>2, StepsBefore DEF Lookup
  <2> QED BY <1>0, <2>1, <2>2, SameSteps
<1> QED BY <1>1, <1>2, <1>3, <1>4 DEF Ask

\* A person's decision keeps the invariant and is a step of the ledger.
LEMMA DecideLedger ==
  ASSUME LocksHeld, RestTypes, LedgerKept, NEW c \in Calls, Decide(c)
  PROVE  LedgerKept' /\ LedgerStep
<1>0. HandsUnasked /\ LockTypes /\ sent' = sent
  BY DEF LedgerKept, LocksHeld, Decide
<1>1. \A d \in Writes \ {c} : Same(d)
  BY DEF Decide, Row, Same, SameDispatch, IsDispatched, RestTypes, RowTypes, Writes
<1>2. /\ Unsent(c) /\ call[c] = "waiting_approval"
      /\ call'[c] \in {"success", "failed"}
  BY DEF Decide, Row, Unsent, SameDispatch, IsDispatched, RestTypes, RowTypes
<1>3. FlightsOnlyEnd /\ HandsUnasked'
  BY <1>0, LocalSame DEF Decide
<1> QED BY <1>0, <1>1, <1>2, <1>3, UnsentStep

\* Planning an attempt revives a failed call.
LEMMA PlanLedger ==
  ASSUME LocksHeld, RestTypes, LedgerKept, NEW w \in Workers, Plan(w)
  PROVE  LedgerKept' /\ LedgerStep
<1> DEFINE c == hand[w]
           n == NextTry(c)
<1>0. /\ HandsUnasked /\ LockTypes /\ sent' = sent /\ UNCHANGED hand
      /\ c \in Calls \ Confirmed /\ n \in Tries /\ tries[c][n] \in {"planned", "none"}
      /\ call[c] \in CallStatuses
  <2>1. c \in Calls \ Confirmed
    BY DEF LedgerKept, HandsUnasked, Plan, Calling
  <2> QED BY <2>1, NextTryIsFree DEF LedgerKept, LocksHeld, Plan, RestTypes, RowTypes
<1>1. /\ \A d \in Calls \ {c} : call'[d] = call[d]
      /\ \A d \in Calls \ {c}, m \in Tries : tries'[d][m] = tries[d][m]
      /\ \A m \in Tries : tries'[c][m] = IF m = n THEN "planned" ELSE tries[c][m]
      /\ call'[c] = IF call[c] = "failed" THEN "planned" ELSE call[c]
  BY <1>0 DEF Plan, Row, Try, RestTypes, RowTypes
<1>2. FlightsOnlyEnd /\ HandsUnasked'
  <2>1. \A v \in Workers \ {w} : hand'[v] = hand[v] /\ try'[v] = try[v]
    BY <1>0 DEF Plan, RestTypes
  <2> QED BY <1>0, <2>1, StepsBefore DEF Plan
<1> HIDE DEF n
<1>3. PICK d \in Calls : d = c
  BY <1>0
<1>4. \A e \in Writes \ {d} : Same(e)
  BY <1>1, <1>3 DEF Same, SameDispatch, IsDispatched, Writes
<1>5. CASE call[d] = "failed"
  <2>1. Unsent(d) /\ call'[d] = "planned"
    BY <1>0, <1>1, <1>3, <1>5 DEF Unsent, SameDispatch, IsDispatched
  <2> QED BY <1>0, <1>2, <1>4, <1>5, <2>1, UnsentStep
<1>6. CASE call[d] # "failed"
  <2>1. Same(d)
    BY <1>0, <1>1, <1>3, <1>6 DEF Same, SameDispatch, IsDispatched
  <2> QED BY <1>0, <1>2, <1>4, <2>1, SameSteps
<1> QED BY <1>5, <1>6

\* A read is nobody's write.
LEMMA ReadLedger ==
  ASSUME LocksHeld, RestTypes, LedgerKept, NEW w \in Workers, DispatchRead(w)
  PROVE  LedgerKept' /\ LedgerStep
<1>0. /\ LockTypes /\ sent' = sent /\ UNCHANGED <<hand, try>>
      /\ hand[w] \in Calls \ Confirmed /\ hand[w] \in Reads
  BY DEF LedgerKept, HandsUnasked, LocksHeld, DispatchRead, At, Calling
<1>1. \A d \in Writes : Same(d)
  BY <1>0 DEF DispatchRead, Settles, Row, Try, Same, SameDispatch, IsDispatched, RestTypes,
              RowTypes, Writes
<1>2. pc'[w] = "dispatched" /\ \A v \in Workers \ {w} : pc'[v] = pc[v]
  BY DEF DispatchRead, At, LocksHeld, LockTypes
<1>3. FlightsOnlyEnd /\ HandsUnasked'
  BY <1>0, <1>2 DEF FlightsOnlyEnd, InFlight, Writes, LedgerKept, HandsUnasked
<1> QED BY <1>0, <1>1, <1>3, SameSteps

\* A recovery doubts or fails what it finds, all at once.
LEMMA RecoverLedger ==
  ASSUME LocksHeld, RestTypes, LedgerKept, NEW w \in Workers, NEW s \in SkillRuns, Recover(w, s)
  PROVE  LedgerKept' /\ LedgerStep
<1> DEFINE r == serves[w]
<1>0. LockTypes /\ sent' = sent /\ FlightsOnlyEnd /\ HandsUnasked'
  BY BackEndsFlight DEF LedgerKept, LocksHeld, Recover
<1>1. CASE /\ call'  = [c \in Calls |-> IF c \in Doubtful(r, s) THEN "ambiguous" ELSE call[c]]
           /\ tries' = [c \in Calls |-> IF c \in Doubtful(r, s)
                                        THEN Turn(c, "dispatched", "ambiguous") ELSE tries[c]]
  <2> DEFINE S == {c \in Doubtful(r, s) : call[c] = "running"}
  <2>1. S \in SUBSET Writes /\ Doubtful(r, s) \subseteq Writes /\ Writes \subseteq Calls
    BY DEF Doubtful, Writes
  <2>2. \A c \in S : Doubted(c)
    BY <1>1, <2>1 DEF Doubted, IsDispatched, Turn
  <2>3. \A c \in Writes \ S : Same(c)
    <3> TAKE c \in Writes \ S
    <3>1. CASE c \in Doubtful(r, s)
      <4>1. call[c] = "ambiguous"
        BY <3>1 DEF Doubtful
      <4>2. \A n \in Tries : ~IsDispatched(c, n)
        BY <4>1 DEF LedgerKept, OneDispatch
      <4> QED BY <1>1, <2>1, <3>1, <4>1, <4>2 DEF Same, SameDispatch, IsDispatched, Turn
    <3>2. CASE c \notin Doubtful(r, s)
      BY <1>1, <2>1, <3>2 DEF Same, SameDispatch, IsDispatched
    <3> QED BY <3>1, <3>2
  <2>4. LedgerKept'
    BY <1>0, <2>2, <2>3, QuietKeeps
  <2>5. \A c \in S : Outcome(c) = "open" /\ Outcome(c)' = "ambiguous"
    BY <2>2 DEF Doubted, Outcome
  <2>6. \A c \in Writes \ S : Outcome(c)' = Outcome(c)
    BY <2>3 DEF Same, Outcome
  <2> HIDE DEF S
  <2> QED BY <1>0, <2>1, <2>4, <2>5, <2>6, LedgerSettles
<1>2. CASE /\ Doubtful(r, s) = {}
           /\ call' = [c \in Calls |-> IF c \in Unfinished(r, s) THEN "failed" ELSE call[c]]
           /\ UNCHANGED tries
  <2> DEFINE S == Unfinished(r, s) \cap Writes
  <2>1. S \in SUBSET Writes /\ Writes \subseteq Calls
    BY DEF Writes
  <2>2. \A c \in S : call[c] = "planned" /\ Unsent(c) /\ call'[c] = "failed"
    <3> TAKE c \in S
    <3>1. call[c] # "running"
      <4> SUFFICES ASSUME call[c] = "running" PROVE FALSE
        OBVIOUS
      <4>1. c \in CallsOf(r, s) \cap Writes
        BY DEF Unfinished
      <4>2. PICK n \in Tries : IsDispatched(c, n)
        BY <4>1 DEF LedgerKept, OneDispatch
      <4>3. n \in InState(c, "dispatched")
        BY <4>2 DEF InState, IsDispatched
      <4>4. c \in Doubtful(r, s)
        BY <4>1, <4>3 DEF Doubtful
      <4> QED BY <1>2, <4>4
    <3>2. call[c] = "planned"
      BY <3>1 DEF Unfinished
    <3> QED BY <1>2, <2>1, <3>2 DEF Unsent, SameDispatch, IsDispatched
  <2>3. \A c \in Writes \ S : Same(c)
    BY <1>2, <2>1 DEF Same, SameDispatch, IsDispatched
  <2>4. LedgerKept'
    BY <1>0, <2>2, <2>3, QuietKeeps
  <2>5. \A c \in S : Outcome(c) = "open" /\ Outcome(c)' = "failed"
    BY <2>2 DEF Outcome
  <2>6. \A c \in Writes \ S : Outcome(c)' = Outcome(c)
    BY <2>3 DEF Same, Outcome
  <2>7. \A c \in S : c \in Once => sent[c] = 0
    BY <2>1, <2>2 DEF LedgerKept, SentOnce, RestTypes
  <2> HIDE DEF S
  <2> QED BY <1>0, <2>1, <2>4, <2>5, <2>6, <2>7, LedgerSettles
<1>3. CASE UNCHANGED rows
  BY <1>0, <1>3, SameRows, SameSteps
<1> QED BY <1>1, <1>2, <1>3 DEF Recover

\* In the lane: replayed, doubted, refused or dispatched.
LEMMA ClaimLedger ==
  ASSUME LocksHeld, RestTypes, LedgerKept, NEW w \in Workers, Claim(w)
  PROVE  LedgerKept' /\ LedgerStep
<1>0. /\ LockTypes /\ sent' = sent /\ HandsUnasked /\ pc[w] = "lane"
      /\ hand[w] \in Calls /\ hand[w] \in Writes
  BY DEF LedgerKept, LocksHeld, Claim, Holds, Waits, Calling
<1> PICK c \in Writes : c = hand[w]
  BY <1>0
<1>1. c \in Calls
  BY <1>0
<1>2. CASE CloseUnused(c) /\ UNCHANGED call /\ Back(w, "ready")
  <2>1. \A d \in Writes : Same(d)
    BY <1>2 DEF CloseUnused, Turn, Same, SameDispatch, IsDispatched, RestTypes, RowTypes
  <2>2. FlightsOnlyEnd /\ HandsUnasked'
    BY <1>0, <1>2, BackEndsFlight
  <2> QED BY <1>0, <2>1, <2>2, SameSteps
<1>3. CASE /\ Undecided(c) /\ Row(c, "ambiguous") /\ Back(w, "ready")
           /\ tries' = [tries EXCEPT ![c] =
                [m \in Tries |-> IF m = Least(InState(c, "dispatched"))
                                    \/ tries[c][m] = "planned"
                                 THEN "ambiguous" ELSE tries[c][m]]]
  <2>1. \A d \in Writes \ {c} : Same(d)
    BY <1>3 DEF Row, Same, SameDispatch, IsDispatched, RestTypes, RowTypes, Writes
  <2>2. /\ Least(InState(c, "dispatched")) \in InState(c, "dispatched")
    <3>1. InState(c, "dispatched") \in SUBSET Tries
      BY DEF InState
    <3> QED BY <1>3, <3>1, LeastIsIn DEF Undecided
  <2>3. call[c] = "running" /\ OneDispatch(c)
    BY <2>2 DEF LedgerKept, OneDispatch, InState, IsDispatched
  <2>4. \A m \in Tries : IsDispatched(c, m) => m = Least(InState(c, "dispatched"))
    BY <2>2, <2>3 DEF OneDispatch, InState, IsDispatched
  <2>5. Doubted(c)
    <3> DEFINE l == Least(InState(c, "dispatched"))
    <3>1. \A m \in Tries : IsDispatched(c, m) => m = l
      BY <2>4
    <3>2. tries' = [tries EXCEPT ![c] =
                [m \in Tries |-> IF m = l \/ tries[c][m] = "planned"
                                 THEN "ambiguous" ELSE tries[c][m]]]
      BY <1>3
    <3> HIDE DEF l
    <3>3. \A m \in Tries : tries'[c][m] # "dispatched"
      BY <1>1, <3>1, <3>2 DEF IsDispatched, RestTypes, RowTypes
    <3> QED BY <1>1, <1>3, <2>3, <3>3 DEF Doubted, Row, IsDispatched, RestTypes, RowTypes
  <2>6. FlightsOnlyEnd /\ HandsUnasked'
    BY <1>0, <1>3, BackEndsFlight
  <2>7. LedgerKept'
    BY <1>0, <2>1, <2>5, <2>6, QuietKeeps
  <2>8. Outcome(c) = "open" /\ Outcome(c)' = "ambiguous"
    BY <2>5 DEF Doubted, Outcome
  <2>9. \A d \in Writes \ {c} : Outcome(d)' = Outcome(d)
    BY <2>1 DEF Same, Outcome
  <2> QED BY <1>0, <2>7, <2>8, <2>9, LedgerSettlesOne
<1>4. CASE UNCHANGED rows /\ Back(w, "leaving")
  <2>1. FlightsOnlyEnd /\ HandsUnasked'
    BY <1>0, <1>4, BackEndsFlight
  <2> QED BY <1>0, <1>4, <2>1, SameRows, SameSteps
<1>5. CASE /\ ~(Replays(c) /\ call[c] # "running") /\ ~Undecided(c)
           /\ Settles(c, try[w], "running", "dispatched") /\ At(w, "dispatched")
  <2>1. /\ LedgerKept' /\ call[c] \in {"absent", "planned", "failed"}
        /\ call[c] = "failed" => c \notin Once
    BY <1>0, <1>5, DispatchKeeps
  <2>2. call'[c] = "running" /\ \A d \in Writes \ {c} : call'[d] = call[d]
    BY <1>1, <1>5 DEF Settles, Row, RestTypes, RowTypes, Writes
  <2>3. CASE call[c] = "failed"
    BY <1>0, <2>1, <2>2, <2>3, LedgerRetries DEF Outcome
  <2>4. CASE call[c] # "failed"
    BY <1>0, <2>1, <2>2, <2>4, LedgerStutters DEF Outcome
  <2> QED BY <2>1, <2>3, <2>4
<1> QED BY <1>2, <1>3, <1>4, <1>5 DEF Claim

\* The provider is asked.
LEMMA AnswerLedger ==
  ASSUME LocksHeld, RestTypes, LedgerKept, NEW w \in Workers, Answer(w)
  PROVE  LedgerKept' /\ LedgerStep
<1>0. LockTypes /\ UNCHANGED <<call, tries>> /\ pc[w] = "dispatched"
  BY DEF LocksHeld, Answer, rows
<1>1. LedgerKept'
  BY <1>0, AnswerKeeps
<1>2. CASE sent' = sent
  BY <1>0, <1>1, <1>2, LedgerStutters DEF Outcome
<1>3. CASE sent' = [sent EXCEPT ![hand[w]] = @ + 1]
  <2>1. hand[w] \in Calls \ Confirmed
    BY <1>0 DEF LedgerKept, HandsUnasked, Calling
  <2>2. CASE hand[w] \in Writes
    <3>1. InFlight(w) /\ Traced(w)
      BY <1>0, <2>2 DEF InFlight, LedgerKept
    <3>2. Outcome(hand[w]) \in {"open", "ambiguous"}
      BY <3>1 DEF Traced, Outcome
    <3>3. hand[w] \in Once => sent[hand[w]] = 0
      BY <1>0, <2>1, <3>1 DEF LedgerKept, SentOnce, RestTypes
    <3> QED BY <1>0, <1>1, <1>3, <2>1, <2>2, <3>2, <3>3, LedgerSends DEF RestTypes
  <2>3. CASE hand[w] \notin Writes
    <3>1. \A c \in Writes : sent'[c] = sent[c]
      BY <1>3, <2>3 DEF RestTypes, Writes
    <3>2. UNCHANGED <<outcomeMap, sentMap>>
      BY <1>0, <3>1 DEF outcomeMap, sentMap
    <3> QED BY <1>1, <3>2 DEF LedgerStep
  <2> QED BY <2>2, <2>3
<1> QED BY <1>1, <1>2, <1>3 DEF Answer

\* What came of it is recorded.
LEMMA RecordLedger ==
  ASSUME LocksHeld, RestTypes, LedgerKept, NEW w \in Workers,
         RecordSuccess(w) \/ CommitFails(w) \/ RecordException(w)
  PROVE  LedgerKept' /\ LedgerStep
<1>0. /\ LockTypes /\ HandsUnasked /\ sent' = sent /\ pc[w] \in {"answered", "raised"}
      /\ hand[w] \in Calls \ Confirmed
  BY DEF LocksHeld, LedgerKept, HandsUnasked, Calling, RecordSuccess, CommitFails,
         RecordException
<1> PICK c \in Calls : c = hand[w]
  BY <1>0
<1>1. c \in Writes => /\ Outcome(c) \in {"open", "ambiguous"}
                      /\ pc[w] = "answered" => sent[c] > 0
  <2> SUFFICES ASSUME c \in Writes
               PROVE  /\ Outcome(c) \in {"open", "ambiguous"}
                      /\ pc[w] = "answered" => sent[c] > 0
    OBVIOUS
  <2>1. InFlight(w) /\ Traced(w)
    BY <1>0 DEF InFlight, LedgerKept
  <2> QED BY <2>1 DEF Traced, Outcome
<1>2. ASSUME NEW st \in {"success", "failed", "ambiguous"}, Settles(c, try[w], st, st)
      PROVE  /\ call'[c] = st
             /\ \A d \in Writes \ {c} : Outcome(d)' = Outcome(d)
             /\ Outcome(c)' = st
  BY <1>2 DEF Settles, Row, RestTypes, RowTypes, Writes, Outcome
<1>3. CASE RecordSuccess(w)
  <2>1. Settles(c, try[w], "success", "success") /\ Back(w, "ready") /\ pc[w] = "answered"
    BY <1>3 DEF RecordSuccess
  <2>2. LedgerKept'
    BY <1>0, <2>1, SettleKeeps
  <2>3. CASE c \in Writes
    BY <1>0, <1>1, <1>2, <2>1, <2>2, <2>3, LedgerSucceeds
  <2>4. CASE c \notin Writes
    BY <1>0, <1>2, <2>1, <2>2, <2>4, LedgerStutters
  <2> QED BY <2>2, <2>3, <2>4
<1>4. ASSUME Settles(c, try[w], "ambiguous", "ambiguous"), Back(w, "ready")
      PROVE  LedgerKept' /\ LedgerStep
  <2>1. LedgerKept'
    BY <1>0, <1>4, SettleKeeps
  <2>2. CASE c \in Writes /\ Outcome(c) = "open"
    BY <1>0, <1>2, <1>4, <2>1, <2>2, LedgerSettlesOne
  <2>3. CASE c \notin Writes \/ Outcome(c) = "ambiguous"
    BY <1>0, <1>2, <1>4, <2>1, <2>3, LedgerStutters
  <2> QED BY <1>1, <2>1, <2>2, <2>3
<1>5. ASSUME UNCHANGED rows, Back(w, "leaving")
      PROVE  LedgerKept' /\ LedgerStep
  <2>1. FlightsOnlyEnd /\ HandsUnasked'
    BY <1>0, <1>5, BackEndsFlight
  <2> QED BY <1>0, <1>5, <2>1, SameRows, SameSteps
<1>6. CASE CommitFails(w)
  BY <1>4, <1>5, <1>6 DEF CommitFails
<1>7. CASE RecordException(w)
  <2>1. CASE c \in Once
    BY <1>4, <1>7, <2>1 DEF RecordException, FailsAs
  <2>2. CASE c \notin Once
    <3>1. Settles(c, try[w], "failed", "failed") /\ Back(w, "leaving")
      BY <1>7, <2>2 DEF RecordException, FailsAs
    <3>2. LedgerKept'
      BY <1>0, <2>2, <3>1, SettleKeeps
    <3>3. CASE c \in Writes
      BY <1>0, <1>1, <1>2, <2>2, <3>1, <3>2, <3>3, LedgerSettlesOne
    <3>4. CASE c \notin Writes
      BY <1>0, <1>2, <3>1, <3>2, <3>4, LedgerStutters
    <3> QED BY <3>2, <3>3, <3>4
  <2> QED BY <2>1, <2>2
<1> QED BY <1>3, <1>6, <1>7

\* Every step of the system keeps the marks and is a step of the ledger.
LEMMA EveryStepLedger ==
  ASSUME LocksHeld, RestTypes, LedgerKept, [Next]_vars
  PROVE  LedgerKept' /\ LedgerStep
<1>1. CASE UNCHANGED vars
  <2>1. /\ UNCHANGED rows /\ sent' = sent /\ LockTypes /\ FlightsOnlyEnd /\ HandsUnasked'
    BY <1>1, LocalSame DEF vars, rows, local, LocksHeld, LedgerKept
  <2> QED BY <2>1, SameRows, SameSteps
<1>2. CASE Next
  <2>1. ASSUME NEW w \in Workers, Executor(w)
        PROVE  LedgerKept' /\ LedgerStep
    BY <2>1, RecoverLedger, PlanLedger, ReadLedger, OutsideLedger, ClaimLedger, AnswerLedger,
       RecordLedger DEF Executor
  <2> QED BY <1>2, <2>1, OutsideLedger, AskLedger, RecordLedger, DecideLedger DEF Next
<1> QED BY <1>1, <1>2

\* The invariant holds in every reachable state.
LEMMA LedgerStaysKept == Spec => [](RestTypes /\ LedgerKept)
<1>1. Init => RestTypes /\ LedgerKept
  <2>1. Init => RestTypes
    BY LimitsAssumption DEF Init, RestTypes, RowTypes, CallStatuses, TryStatuses, Tries
  <2>2. Init => LedgerKept
    BY CallsAssumption DEF Init, LedgerKept, HandsUnasked, Calling, OneDispatch, IsDispatched,
                           Traced, InFlight, SentOnce, Writes
  <2> QED BY <2>1, <2>2
<1>2. LocksHeld /\ RestTypes /\ LedgerKept /\ [Next]_vars => (RestTypes /\ LedgerKept)'
  BY NextTypes, EveryStepLedger
<1> QED BY <1>1, <1>2, LocksAreHeld, PTL DEF Spec

\* A write on its way is visible on its row and on exactly one attempt.
THEOREM DispatchesStayVisible == Spec => []DispatchIsVisible
<1>1. RestTypes /\ LedgerKept => DispatchIsVisible
  <2> SUFFICES ASSUME RestTypes, LedgerKept, NEW c \in Writes
               PROVE  /\ call[c] = "running" <=> InState(c, "dispatched") # {}
                      /\ Cardinality(InState(c, "dispatched")) <= 1
    BY DEF DispatchIsVisible
  <2>1. OneDispatch(c)
    BY DEF LedgerKept
  <2>2. call[c] = "running" <=> InState(c, "dispatched") # {}
    BY <2>1 DEF OneDispatch, InState, IsDispatched
  <2>3. Cardinality(InState(c, "dispatched")) <= 1
    <3>1. CASE InState(c, "dispatched") = {}
      BY <3>1, FS_EmptySet
    <3>2. CASE InState(c, "dispatched") # {}
      <4>1. PICK n \in InState(c, "dispatched") : TRUE
        BY <3>2
      <4>2. InState(c, "dispatched") = {n}
        BY <2>1, <4>1 DEF OneDispatch, InState, IsDispatched
      <4>3. Cardinality({n}) = 1
        BY FS_Singleton
      <4> QED BY <4>2, <4>3
    <3> QED BY <3>1, <3>2
  <2> QED BY <2>2, <2>3
<1> QED BY <1>1, LedgerStaysKept, PTL

\* The executor implements the ledger.
THEOREM ExecutorKeepsLedger == Spec => KeepsLedger
<1>1. Init => Ledger!Init
  BY DEF Init, Ledger!Init, Writes
<1>2. LocksHeld /\ RestTypes /\ LedgerKept /\ [Next]_vars => LedgerStep
  BY EveryStepLedger
<1>3. LedgerStep =>
        [Ledger!Next]_<<[c \in Writes |-> IF call[c] \in {"success", "failed", "ambiguous"}
                                          THEN call[c] ELSE "open"],
                        [c \in Writes |-> sent[c]]>>
  BY DEF LedgerStep, outcomeMap, sentMap
<1> QED BY <1>1, <1>2, <1>3, LocksAreHeld, LedgerStaysKept, PTL
        DEF Spec, KeepsLedger, Ledger!Spec
=============================================================================
