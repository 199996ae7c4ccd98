----------------------------- MODULE LockOrder -----------------------------
(***************************************************************************)
(* The row and advisory locks of the runtime (backend/app/services/        *)
(* runtime_locking.py and its callers) on PostgreSQL.                      *)
(*                                                                         *)
(* A transaction asks for its locks one by one and keeps them until it     *)
(* ends.  The runs of one task share its BrainTask and its ContentItem;    *)
(* of the rows of one run the gate, AgentRun, ConversationTurn, SkillRuns, *)
(* RunRevision, Deliverables, the AgentToolCall that waits for a person    *)
(* and the others with their attempts, and TurnInterrupts are one lock     *)
(* each.  The content of the rows is left out: a transaction of any kind   *)
(* may start at any time, about any run.  Left out too are the shared key  *)
(* locks of foreign keys and rows that are updated without having been     *)
(* locked, except where an operation below names them.                     *)
(*                                                                         *)
(* A process is one coroutine.  The write of a tool uses two sessions at   *)
(* once, the guard that keeps the account lane and the executor's own: the *)
(* database does not know that the guard ends only after the other did.    *)
(***************************************************************************)
EXTENDS Naturals, Sequences, FiniteSets

CONSTANTS
  Procs,     \* coroutines with a transaction of their own
  Runs,      \* bound: ids of the runs of one task, in creation order
  Existing   \* runs that exist at the start

ASSUME RunsAssumption == /\ Runs \subseteq Nat \ {0}
                         /\ Existing \subseteq Runs /\ Existing # {}
ASSUME ProcsAssumption == IsFiniteSet(Procs)

VARIABLES
  born,   \* committed runs
  op,     \* what a process does, about which runs, and the run it brings
  todo,   \* the step it is at, and the rows it still has to lock there
  held    \* the locks its sessions have

vars == <<born, op, todo, held>>

Families == {"gate", "run", "turn", "skill", "revision", "deliverable",
             "approval", "call", "interrupt"}
Shared   == {"task", "content", "account"}
Locks    == (Families \X Runs) \cup (Shared \X {0})
Sessions == {"main", "guard"}

Idle    == [kind |-> "idle", rows |-> {}, new |-> 0]
Nothing == [at |-> 0, rows |-> {}]
Init ==
  /\ born = Existing
  /\ op   = [p \in Procs |-> Idle]
  /\ todo = [p \in Procs |-> Nothing]
  /\ held = [p \in Procs |-> {}]
-----------------------------------------------------------------------------
(* Orders of acquisition                                                   *)

\* A step is a session and a family of locks.  Most transactions have one session.
Main(families) == [i \in DOMAIN families |-> <<"main", families[i]>>]

\* lock_runtime_run_headers
Headers == <<"gate", "run", "turn", "task">>
\* The calls that wait for a person, then the others.
Calls   == <<"approval", "call">>

\* lock_runtime_root_scope and lock_runtime_root_forest: by family, never run by
\* run; and the part of it that a request to cancel locks.
\* Fault: the content is read before the headers.
ContentFirst == <<"content">> \o Headers \o <<"skill", "revision", "deliverable">> \o Calls
RootScope    == Headers \o <<"content", "skill", "revision", "deliverable">> \o Calls
RequestScope == Headers \o <<"content", "skill">>

\* The scope of a run, then its interrupts: request, resolve and stop.
Interrupts == RootScope \o <<"interrupt">>

\* The guard's gate and account, then the executor's rows.
\* Fault: the executor stores a result under the lock of the whole run.
LaneStoring == <<<<"guard", "gate">>, <<"guard", "account">>>>
                 \o Main(<<"call">> \o RequestScope)
Lane == <<<<"guard", "gate">>, <<"guard", "account">>>> \o Main(<<"call">>)

\* accept_artifact of a child of a composite skill, and of any other artifact.
AcceptChild == RootScope \o <<"content">>
AcceptPlain == <<"content", "deliverable">>

\* Steering reads its target under locks before anything else, without a gate.
Target == <<"run", "turn">>
Source == <<"skill", "deliverable", "approval", "interrupt">>

\* execute_revision_task_run, before its barrier.  It would lock an unrepeatable
\* call in doubt too, but no registered tool is unrepeatable.
Barrier == <<"revision", "turn", "run">>

\* The receipt of a turn by its executor: the changed run is flushed, then the
\* event locks the turn.
Receipt == <<"run", "turn">>

\* What a deletion locks when it has locked its forest.
Leftovers == <<"turn", "run", "skill">> \o Calls \o <<"interrupt", "task">>

\* What each kind of transaction locks, step by step.
Steps == [close |-> Main(RootScope),       cancel |-> Main(RequestScope),
          interrupt |-> Main(Interrupts),  requeue |-> Main(Headers),
          promote |-> Main(Headers),       heartbeat |-> Main(<<"run">>),
          receive |-> Main(Receipt),       write |-> Lane,
          child |-> Main(AcceptChild),     accept |-> Main(AcceptPlain),
          revise |-> Main(Barrier),        stop |-> Main(Target \o RequestScope),
          supplement |-> Main(Target \o Source), queue |-> Main(Headers),
          delete |-> Main(RootScope),      deleting |-> Main(Leftovers),
          purge |-> Main(RootScope)]
-----------------------------------------------------------------------------
(* Transactions                                                            *)

\* The rows that a transaction about the runs S locks in its ith step.
RowsOf(family, S) == IF family \in Shared THEN {0} ELSE S
Step(kind, S, i) ==
  IF i \in DOMAIN Steps[kind] THEN [at |-> i, rows |-> RowsOf(Steps[kind][i][2], S)] ELSE Nothing

Ask(p, kind, S, n) ==
  /\ op'   = [op   EXCEPT ![p] = [kind |-> kind, rows |-> S, new |-> n]]
  /\ todo' = [todo EXCEPT ![p] = Step(kind, S, 1)]
  /\ UNCHANGED <<born, held>>

Begin(p, kind, S) == op[p] = Idle /\ Ask(p, kind, S, 0)
Finished(p) == todo[p] = Nothing

\* acquire, release, complete, cancel, pause and resume, closure of the state,
\* creation and recovery of a SkillRun, a deliverable, the approval of a call
Close(p, r)     == Begin(p, "close", {r})
Interrupt(p, r) == Begin(p, "interrupt", {r})
Cancel(p, r)    == Begin(p, "cancel", {r})
Requeue(p, r)   == Begin(p, "requeue", {r})
Heartbeat(p, r) == Begin(p, "heartbeat", {r})
Receive(p, r)   == Begin(p, "receive", {r})
Write(p, r)     == Begin(p, "write", {r})
Revise(p, r)    == Begin(p, "revise", {r})
Stop(p, r)      == Begin(p, "stop", {r})
Promote(p)      == Begin(p, "promote", born)
Accept(p)       == Begin(p, "child", born) \/ Begin(p, "accept", born)

\* A supplement inserts the run of its revision, whose rows nobody else sees
\* yet, and queues it behind the runs that are there by then.
Fresh == Runs \ (born \cup {op[q].new : q \in {q \in Procs : op[q].kind = "queue"}})

Supplement(p, r) == Begin(p, "supplement", {r})

QueueBehind(p) ==
  /\ op[p].kind = "supplement" /\ Finished(p)
  /\ \E n \in Fresh : /\ \A r \in born : r < n
                      /\ Ask(p, "queue", born \cup {n}, n)

\* The deletion of a conversation locks what it discovered as a forest and
\* then whatever turns, runs, skills and calls the thread has by then.
Delete(p) == Begin(p, "delete", born)
DeleteRest(p) ==
  /\ op[p].kind = "delete" /\ Finished(p)
  /\ Ask(p, "deleting", born, 0)

\* The deletion of a user: the forest of everything that person asked for.
Purge(p) == Begin(p, "purge", born)

\* The lock a process asks for now: the least row that is left of its step.
Least(S) == {r \in S : \A s \in S : r <= s}
Asking(p) == LET step == Steps[op[p].kind][todo[p].at] IN
  {[by |-> step[1], on |-> <<step[2], r>>] : r \in Least(todo[p].rows)}

\* Session s of q has the lock that p asks for.  A lock of one's own is granted again.
Keeps(q, s, p, a) == <<s, a.on>> \in held[q] /\ <<q, s>> # <<p, a.by>>

\* Where a transaction is when it has locked row r too.
After(o, t, r) ==
  IF t.rows = {r} THEN Step(o.kind, o.rows, t.at + 1) ELSE [t EXCEPT !.rows = @ \ {r}]

Take(p, a) == /\ held' = [held EXCEPT ![p] = @ \cup {<<a.by, a.on>>}]
              /\ todo' = [todo EXCEPT ![p] = After(op[p], @, a.on[2])]
              /\ UNCHANGED <<born, op>>

\* Fault: a lock whose owner waits itself is not waited for.
GrantFromWaiting(p) == \E a \in Asking(p) :
  /\ \A q \in Procs, s \in Sessions : Keeps(q, s, p, a) => ~Finished(q)
  /\ Take(p, a)

Grant(p) == \E a \in Asking(p) :
  /\ \A q \in Procs, s \in Sessions : ~Keeps(q, s, p, a)
  /\ Take(p, a)

\* Commit or rollback: every lock is given back at once.
End(p) ==
  /\ op'   = [op   EXCEPT ![p] = Idle]
  /\ todo' = [todo EXCEPT ![p] = Nothing]
  /\ held' = [held EXCEPT ![p] = {}]

\* A supplement may change nothing, and a deletion give up over a conflict.
Commit(p) ==
  /\ op[p] # Idle /\ Finished(p)
  /\ End(p)
  /\ \/ born' = IF op[p].kind = "queue" THEN born \cup {op[p].new} ELSE born
     \/ UNCHANGED born
-----------------------------------------------------------------------------
(* Waiting                                                                 *)

\* p cannot go on before q ends.
WaitsFor(p, q) == \E a \in Asking(p), s \in Sessions : Keeps(q, s, p, a)

\* The database sees that only if the session of q that has the lock is the
\* one that waits itself.
Visible(p, q) == \E a \in Asking(p), s \in Sessions :
  /\ p # q /\ Keeps(q, s, p, a)
  /\ \E b \in Asking(q) : b.by = s

Stuck(D)    == D # {} /\ \A p \in D : \E q \in D : WaitsFor(p, q)
Detected(D) == D # {} /\ \A p \in D : \E q \in D : Visible(p, q)

\* The database ends one transaction of a deadlock it sees.
Abort(p) ==
  /\ \E D \in SUBSET Procs : p \in D /\ Detected(D)
  /\ End(p)
  /\ UNCHANGED born

About(p, r) == \/ Close(p, r)
               \/ Interrupt(p, r)
               \/ Cancel(p, r)
               \/ Requeue(p, r)
               \/ Heartbeat(p, r)
               \/ Receive(p, r)
               \/ Write(p, r)
               \/ Revise(p, r)
               \/ Stop(p, r)
               \/ Supplement(p, r)

Next == \E p \in Procs : \/ \E r \in born : About(p, r)
                         \/ Promote(p)
                         \/ Accept(p)
                         \/ Delete(p)
                         \/ Purge(p)
                         \/ QueueBehind(p)
                         \/ DeleteRest(p)
                         \/ Grant(p)
                         \/ Commit(p)
                         \/ Abort(p)

Spec == Init /\ [][Next]_vars
-----------------------------------------------------------------------------
(* Correctness                                                             *)

\* Locks are exclusive between sessions, and requests name locks that exist.
TypeOK ==
  /\ born \in SUBSET Runs
  /\ \A p \in Procs : /\ op[p].rows \subseteq Runs /\ op[p].new \in Runs \cup {0}
                      /\ todo[p].at \in Nat /\ todo[p].rows \subseteq Runs \cup {0}
                      /\ held[p] \subseteq Sessions \X Locks
  /\ \A p, q \in Procs, s \in Sessions : \A h \in held[p] :
       <<s, h[2]>> \in held[q] => q = p /\ s = h[1]

\* Transactions that lock a run before its gate, or in an order of their own.  (A
\* heartbeat and the receipt of a turn need no gate: they keep to the order.)
GateSkipped(p) ==
  op[p].kind \in {"stop", "supplement", "queue", "revise", "deleting"}

\* Transactions that take the gates first never deadlock among themselves,
\* whatever runs each of them locks and however they discovered them: a deadlock
\* needs steering, a revision before its barrier, or a deletion that found rows
\* after it had locked its forest.
GatedNeverDeadlock ==
  \A D \in SUBSET Procs : Detected(D) => \E p \in D : GateSkipped(p)

\* Whenever processes wait for each other in a circle, the database sees a
\* circle and can break it: nobody waits behind the account lane for an
\* executor that in turn waits for the lane's own guard.
DatabaseSeesDeadlocks ==
  \A D \in SUBSET Procs : Stuck(D) => Detected(D)
=============================================================================
