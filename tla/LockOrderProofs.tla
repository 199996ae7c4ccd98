---------------------------- MODULE LockOrderProofs ----------------------------
(***************************************************************************)
(* Theorems about LockOrder, for any number of processes and runs: locks   *)
(* are exclusive, transactions that take the gates first never deadlock    *)
(* among themselves, and the database sees every circle there is.          *)
(*                                                                         *)
(* The invariant says what a process holds from what it does: the locks of *)
(* the steps it has passed, and what a deletion or the insertion of a run  *)
(* brought with it.  Families are ranked once for all transactions, and    *)
(* whoever took the gate first waits for a lock above those it holds, so a *)
(* circle would go up for ever.  Other circles exist, but all of them are  *)
(* seen: behind the guard of the account lane is an executor that waits    *)
(* for a call of its own run, and the only one that can have that call     *)
(* without its gate is a deletion, which already has the task and the      *)
(* turns that stand before everything it may still wait for.               *)
(***************************************************************************)
EXTENDS LockOrder, FiniteSetTheorems, WellFoundedInduction, TLAPS

Session(k, i) == Steps[k][i][1]
Family(k, i)  == Steps[k][i][2]

Kinds == {"close", "cancel", "interrupt", "requeue", "promote", "heartbeat", "receive", "write",
  "child", "accept", "revise", "stop", "supplement", "queue", "delete", "deleting", "purge"}

\* A transaction with one session locks n families in the order of f.
Typed(f, n)      == DOMAIN f = 1 .. n /\ \A i \in 1 .. n : f[i] \in Families \cup Shared
Follows(k, f, n) == /\ n \in Nat \ {0} /\ Typed(f, n) /\ DOMAIN Steps[k] = 1 .. n
                    /\ \A i \in 1 .. n : Session(k, i) = "main" /\ Family(k, i) = f[i]

\* A transaction of one session locks the families in their order.
LEMMA MainSteps ==
  ASSUME NEW f, NEW n \in Nat \ {0}, Typed(f, n), NEW k, Steps[k] = Main(f)
  PROVE  Follows(k, f, n)
BY DEF Main, Session, Family, Typed, Follows

\* The orders of acquisition name families.
LEMMA FamilyTypes ==
  /\ Typed(RootScope, 10) /\ Typed(Interrupts, 11) /\ Typed(RequestScope, 6)
  /\ Typed(Headers, 4) /\ Typed(<<"run">>, 1) /\ Typed(Receipt, 2) /\ Typed(AcceptChild, 11)
  /\ Typed(AcceptPlain, 2) /\ Typed(Barrier, 3) /\ Typed(Target \o RequestScope, 8)
  /\ Typed(Target \o Source, 6) /\ Typed(Leftovers, 7)
<1> USE DEF Typed, Families, Shared
<1>1. /\ Typed(Headers, 4) /\ Typed(<<"run">>, 1) /\ Typed(Receipt, 2)
      /\ Typed(AcceptPlain, 2) /\ Typed(Barrier, 3)
  BY DEF Headers, Receipt, AcceptPlain, Barrier
<1>2. Typed(RootScope, 10)
  BY DEF RootScope, Headers, Calls
<1>3. Typed(Interrupts, 11)
  BY DEF RootScope, Headers, Calls, Interrupts
<1>4. Typed(RequestScope, 6)
  BY DEF RequestScope, Headers
<1>5. Typed(AcceptChild, 11)
  BY DEF AcceptChild, RootScope, Headers, Calls
<1>6. Typed(Target \o RequestScope, 8)
  BY DEF RequestScope, Headers, Target
<1>7. Typed(Target \o Source, 6)
  BY DEF Source, Target
<1>8. Typed(Leftovers, 7)
  BY DEF Leftovers, Calls
<1> QED BY <1>1, <1>2, <1>3, <1>4, <1>5, <1>6, <1>7, <1>8

\* The steps of each kind of transaction.
LEMMA StepsOf ==
  ASSUME NEW k \in Kinds
  PROVE  \/ /\ k = "write" /\ DOMAIN Steps[k] = 1 .. 3
            /\ Session(k, 1) = "guard" /\ Family(k, 1) = "gate"
            /\ Session(k, 2) = "guard" /\ Family(k, 2) = "account"
            /\ Session(k, 3) = "main"  /\ Family(k, 3) = "call"
         \/ k \in {"close", "delete", "purge"} /\ Follows(k, RootScope, 10)
         \/ k \in {"requeue", "promote", "queue"} /\ Follows(k, Headers, 4)
         \/ k \in {"cancel"} /\ Follows(k, RequestScope, 6)
         \/ k \in {"interrupt"} /\ Follows(k, Interrupts, 11)
         \/ k \in {"heartbeat"} /\ Follows(k, <<"run">>, 1)
         \/ k \in {"receive"} /\ Follows(k, Receipt, 2)
         \/ k \in {"child"} /\ Follows(k, AcceptChild, 11)
         \/ k \in {"accept"} /\ Follows(k, AcceptPlain, 2)
         \/ k \in {"revise"} /\ Follows(k, Barrier, 3)
         \/ k \in {"stop"} /\ Follows(k, Target \o RequestScope, 8)
         \/ k \in {"supplement"} /\ Follows(k, Target \o Source, 6)
         \/ k \in {"deleting"} /\ Follows(k, Leftovers, 7)
<1>1. CASE k = "write"
  BY <1>1 DEF Steps, Lane, Main, Session, Family
<1>2. CASE k \in {"close", "delete", "purge"}
  <2>1. Steps[k] = Main(RootScope)
    BY <1>2 DEF Steps
  <2> QED BY <1>2, <2>1, FamilyTypes, MainSteps
<1>3. CASE k \in {"requeue", "promote", "queue"}
  <2>1. Steps[k] = Main(Headers)
    BY <1>3 DEF Steps
  <2> QED BY <1>3, <2>1, FamilyTypes, MainSteps
<1>4. CASE k \in {"cancel"}
  <2>1. Steps[k] = Main(RequestScope)
    BY <1>4 DEF Steps
  <2> QED BY <1>4, <2>1, FamilyTypes, MainSteps
<1>5. CASE k \in {"interrupt"}
  <2>1. Steps[k] = Main(Interrupts)
    BY <1>5 DEF Steps
  <2> QED BY <1>5, <2>1, FamilyTypes, MainSteps
<1>6. CASE k \in {"heartbeat"}
  <2>1. Steps[k] = Main(<<"run">>)
    BY <1>6 DEF Steps
  <2> QED BY <1>6, <2>1, FamilyTypes, MainSteps
<1>7. CASE k \in {"receive"}
  <2>1. Steps[k] = Main(Receipt)
    BY <1>7 DEF Steps
  <2> QED BY <1>7, <2>1, FamilyTypes, MainSteps
<1>8. CASE k \in {"child"}
  <2>1. Steps[k] = Main(AcceptChild)
    BY <1>8 DEF Steps
  <2> QED BY <1>8, <2>1, FamilyTypes, MainSteps
<1>9. CASE k \in {"accept"}
  <2>1. Steps[k] = Main(AcceptPlain)
    BY <1>9 DEF Steps
  <2> QED BY <1>9, <2>1, FamilyTypes, MainSteps
<1>10. CASE k \in {"revise"}
  <2>1. Steps[k] = Main(Barrier)
    BY <1>10 DEF Steps
  <2> QED BY <1>10, <2>1, FamilyTypes, MainSteps
<1>11. CASE k \in {"stop"}
  <2>1. Steps[k] = Main(Target \o RequestScope)
    BY <1>11 DEF Steps
  <2> QED BY <1>11, <2>1, FamilyTypes, MainSteps
<1>12. CASE k \in {"supplement"}
  <2>1. Steps[k] = Main(Target \o Source)
    BY <1>12 DEF Steps
  <2> QED BY <1>12, <2>1, FamilyTypes, MainSteps
<1>13. CASE k \in {"deleting"}
  <2>1. Steps[k] = Main(Leftovers)
    BY <1>13 DEF Steps
  <2> QED BY <1>13, <2>1, FamilyTypes, MainSteps
<1> QED BY <1>1, <1>2, <1>3, <1>4, <1>5, <1>6, <1>7, <1>8, <1>9, <1>10, <1>11, <1>12, <1>13 DEF Kinds

\* Only the write of a tool has a second session.
LEMMA StepTypes ==
  ASSUME NEW k \in Kinds
  PROVE  \E n \in Nat \ {0} :
           /\ DOMAIN Steps[k] = 1 .. n
           /\ \A i \in 1 .. n : /\ Session(k, i) \in Sessions
                                /\ Family(k, i) \in Families \cup Shared
                                /\ k # "write" => Session(k, i) = "main"
<1>1. (k # "write" /\ \E f, n : Follows(k, f, n))
      \/ /\ k = "write" /\ DOMAIN Steps[k] = 1 .. 3
         /\ Session(k, 1) = "guard" /\ Family(k, 1) = "gate"
         /\ Session(k, 2) = "guard" /\ Family(k, 2) = "account"
         /\ Session(k, 3) = "main"  /\ Family(k, 3) = "call"
  BY StepsOf
<1>2. CASE k # "write" /\ \E f, n : Follows(k, f, n)
  BY <1>2 DEF Follows, Typed, Sessions
<1>3. CASE k = "write"
  <2>1. DOMAIN Steps[k] = 1 .. 3
    BY <1>1, <1>3
  <2>2. \A i \in 1 .. 3 : Session(k, i) \in Sessions /\ Family(k, i) \in Families \cup Shared
    BY <1>1, <1>3 DEF Sessions, Families, Shared
  <2> QED BY <1>3, <2>1, <2>2
<1> QED BY <1>2, <1>3, <1>1

\* Step by step.
LEMMA FamilyType ==
  ASSUME NEW k \in Kinds, NEW i \in DOMAIN Steps[k]
  PROVE  /\ Session(k, i) \in Sessions
         /\ Family(k, i) \in Families \cup Shared
         /\ k # "write" => Session(k, i) = "main"
<1> DEFINE Fine(j) == /\ Session(k, j) \in Sessions
                      /\ Family(k, j) \in Families \cup Shared
                      /\ k # "write" => Session(k, j) = "main"
<1>1. PICK n \in Nat \ {0} : DOMAIN Steps[k] = 1 .. n /\ \A j \in 1 .. n : Fine(j)
  BY StepTypes
<1> HIDE DEF Fine
<1>2. Fine(i)
  BY <1>1
<1> QED BY <1>2 DEF Fine

\* What a transaction about a whole scope locks, and in which order.
LEMMA Scoped ==
  ASSUME NEW k \in {"close", "delete", "purge", "interrupt", "child"}
  PROVE  /\ \E n \in {10, 11} : DOMAIN Steps[k] = 1 .. n
         /\ \A i \in DOMAIN Steps[k] : Session(k, i) = "main"
         /\ Family(k, 1) = "gate" /\ Family(k, 4) = "task"
         /\ \A i \in DOMAIN Steps[k] : /\ Family(k, i) = "call" => i > 4
                                       /\ Family(k, i) = "interrupt" => i > 4 /\ k = "interrupt"
<1>1. /\ RootScope[1] = "gate" /\ RootScope[4] = "task"
      /\ \A i \in 1 .. 10 : (RootScope[i] = "call" => i > 4) /\ RootScope[i] # "interrupt"
  BY DEF RootScope, Headers, Calls
<1>2. /\ Interrupts[1] = "gate" /\ Interrupts[4] = "task"
      /\ \A i \in 1 .. 11 : Interrupts[i] \in {"call", "interrupt"} => i > 4
  BY DEF Interrupts, RootScope, Headers, Calls
<1>3. /\ AcceptChild[1] = "gate" /\ AcceptChild[4] = "task"
      /\ \A i \in 1 .. 11 : /\ AcceptChild[i] = "call" => i > 4
                            /\ AcceptChild[i] # "interrupt"
  BY DEF AcceptChild, RootScope, Headers, Calls
<1>4. k \in Kinds
  BY DEF Kinds
<1>5. \/ k # "interrupt" /\ Follows(k, RootScope, 10)
      \/ k = "interrupt" /\ Follows(k, Interrupts, 11)
      \/ k # "interrupt" /\ Follows(k, AcceptChild, 11)
  BY <1>4, StepsOf
<1>6. CASE k # "interrupt" /\ Follows(k, RootScope, 10)
  BY <1>1, <1>6 DEF Follows
<1>7. CASE k = "interrupt" /\ Follows(k, Interrupts, 11)
  BY <1>2, <1>7 DEF Follows
<1>8. CASE k # "interrupt" /\ Follows(k, AcceptChild, 11)
  BY <1>3, <1>8 DEF Follows
<1> QED BY <1>5, <1>6, <1>7, <1>8

\* What a supplement reads.
LEMMA Supplements ==
  ASSUME NEW k, k = "supplement"
  PROVE  /\ DOMAIN Steps[k] = 1 .. 6 /\ Family(k, 2) = "turn"
         /\ \A i \in 1 .. 6 : /\ Session(k, i) = "main" /\ Family(k, i) # "call"
                              /\ Family(k, i) = "interrupt" => i = 6
<1> DEFINE f == Target \o Source
<1>1. /\ f[2] = "turn"
      /\ \A i \in 1 .. 6 : f[i] # "call" /\ (f[i] = "interrupt" => i = 6)
  BY DEF Target, Source
<1>2. Follows(k, f, 6)
  <2>1. k \in Kinds
    BY DEF Kinds
  <2> QED BY <2>1, StepsOf
<1> HIDE DEF f
<1> QED BY <1>1, <1>2 DEF Follows

------------------------------------------------------------------------------
(* What a process holds, given what it does. *)

Ops   == [kind : Kinds, rows : SUBSET Runs, new : Runs \cup {0}]
Todos == [at : Nat, rows : SUBSET (Runs \cup {0})]

Rows(o, i)   == RowsOf(Family(o.kind, i), o.rows)
Lock(o, i, r) == <<Session(o.kind, i), <<Family(o.kind, i), r>>>>

\* The ith step of a transaction that is at t has locked row r.
Past(t, i, r) == t = Nothing \/ i < t.at \/ (i = t.at /\ r \notin t.rows)

\* A call of a tool is about one run, a supplement inserts another.
Whole(o) == /\ o \in Ops /\ o.rows # {}
            /\ o.kind = "write" => \E r \in Runs : o.rows = {r}
            /\ o.kind = "queue" => o.new \in Runs

\* Where a transaction is: its rows are locked in their order.
At(o, t) ==
  t # Nothing =>
    /\ t.at \in DOMAIN Steps[o.kind] /\ t.rows # {} /\ t.rows \subseteq Rows(o, t.at)
    /\ \A r \in Rows(o, t.at) \ t.rows, s \in t.rows : r < s

\* What a transaction got before its steps: a deletion its forest, the insertion of
\* a run what its supplement read.
Brought(o, h, x) ==
  /\ o.kind \in {"deleting", "queue"} /\ x[1] = "main"
  /\ o.kind = "deleting" /\ x[2][1] = "call" => <<"main", <<"gate", x[2][2]>>>> \in h
  /\ o.kind = "queue" => /\ x[2][1] # "call"
                         /\ x[2][1] = "interrupt" => <<"main", <<"turn", x[2][2]>>>> \in h

Good(o, t, h) ==
  /\ Whole(o) /\ At(o, t)
  /\ \A i \in DOMAIN Steps[o.kind] : \A r \in Rows(o, i) : Past(t, i, r) => Lock(o, i, r) \in h
  /\ \A x \in h : Brought(o, h, x) \/ \E i \in DOMAIN Steps[o.kind] : \E r \in Rows(o, i) :
                                      Past(t, i, r) /\ x = Lock(o, i, r)
  /\ o.kind = "deleting" => <<"main", <<"task", 0>>>> \in h

Shapes == /\ born \in SUBSET Runs /\ born # {}
          /\ op \in [Procs -> Ops \cup {Idle}] /\ todo \in [Procs -> Todos]
          /\ held \in [Procs -> SUBSET (Sessions \X Locks)]
Kept(p) == IF op[p] = Idle THEN todo[p] = Nothing /\ held[p] = {}
           ELSE Good(op[p], todo[p], held[p])
Exclusive == \A p, q \in Procs, s \in Sessions : \A h \in held[p] :
               <<s, h[2]>> \in held[q] => q = p /\ s = h[1]
Inv == Shapes /\ (\A p \in Procs : Kept(p)) /\ Exclusive

\* Rows are runs, or 0 for the rows the runs share, and each step has some.
LEMMA RowTypes ==
  ASSUME NEW o \in Ops, o.rows # {}, NEW i \in DOMAIN Steps[o.kind]
  PROVE  /\ Rows(o, i) # {} /\ Rows(o, i) \subseteq Runs \cup {0}
         /\ \A r \in Rows(o, i) : Lock(o, i, r) \in Sessions \X Locks
<1>1. o.kind \in Kinds /\ o.rows \in SUBSET Runs
  BY DEF Ops
<1>2. /\ Session(o.kind, i) \in Sessions /\ Family(o.kind, i) \in Families \cup Shared
  BY <1>1, FamilyType
<1>3. CASE Family(o.kind, i) \in Shared
  BY <1>2, <1>3 DEF Rows, RowsOf, Lock, Locks
<1>4. CASE Family(o.kind, i) \notin Shared
  BY <1>1, <1>2, <1>4 DEF Rows, RowsOf, Lock, Locks
<1> QED BY <1>3, <1>4

\* A step is where the transaction begins, goes on, or ends.
LEMMA StepType ==
  ASSUME NEW o \in Ops, o.rows # {}, NEW i \in Nat
  PROVE  /\ Step(o.kind, o.rows, i) \in Todos /\ At(o, Step(o.kind, o.rows, i))
         /\ i \in DOMAIN Steps[o.kind] => /\ Step(o.kind, o.rows, i) # Nothing
                                          /\ Step(o.kind, o.rows, i).at = i
                                          /\ Step(o.kind, o.rows, i).rows = Rows(o, i)
<1>1. CASE i \in DOMAIN Steps[o.kind]
  <2>1. /\ Step(o.kind, o.rows, i) = [at |-> i, rows |-> Rows(o, i)]
        /\ Rows(o, i) # {} /\ Rows(o, i) \subseteq Runs \cup {0}
    BY <1>1, RowTypes DEF Step, Rows, Family
  <2>2. [at |-> i, rows |-> Rows(o, i)] # Nothing
    <3>1. [at |-> i, rows |-> Rows(o, i)].rows = Rows(o, i) /\ Nothing.rows = {}
      BY DEF Nothing
    <3> QED BY <2>1, <3>1
  <2> QED BY <1>1, <2>1, <2>2 DEF At, Todos
<1>2. CASE i \notin DOMAIN Steps[o.kind]
  BY <1>2 DEF Step, At, Todos, Nothing
<1> QED BY <1>1, <1>2

\* A transaction that begins holds nothing it did not bring.
LEMMA BeginGood ==
  ASSUME NEW o, Whole(o), NEW h, \A x \in h : Brought(o, h, x),
         o.kind = "deleting" => <<"main", <<"task", 0>>>> \in h
  PROVE  Good(o, Step(o.kind, o.rows, 1), h) /\ Step(o.kind, o.rows, 1) \in Todos
<1> DEFINE t == Step(o.kind, o.rows, 1)
<1>1. PICK n \in Nat \ {0} : DOMAIN Steps[o.kind] = 1 .. n
  BY StepTypes DEF Whole, Ops
<1>2. /\ t \in Todos /\ At(o, t) /\ t # Nothing /\ t.at = 1 /\ t.rows = Rows(o, 1)
  BY <1>1, StepType DEF Whole
<1>3. \A i \in DOMAIN Steps[o.kind] : \A r \in Rows(o, i) : ~Past(t, i, r)
  <2> HIDE DEF t
  <2> QED BY <1>1, <1>2 DEF Past
<1> HIDE DEF t
<1>4. Good(o, t, h)
  BY <1>2, <1>3 DEF Good
<1> QED BY <1>2, <1>4 DEF t

\* The least row that is left is granted.
LEMMA TakeGood ==
  ASSUME NEW o, NEW t \in Todos, NEW h, Good(o, t, h), t # Nothing, NEW r \in Least(t.rows),
         NEW u, u = After(o, t, r)
  PROVE  Good(o, u, h \cup {Lock(o, t.at, r)}) /\ u \in Todos
<1> DEFINE l == Lock(o, t.at, r)  g == h \cup {l}  k == o.kind
<1>1. /\ o \in Ops /\ o.rows # {} /\ k \in Kinds
      /\ t.at \in DOMAIN Steps[k] /\ t.rows # {} /\ t.rows \subseteq Rows(o, t.at)
      /\ r \in t.rows /\ \A s \in t.rows : r <= s
      /\ t.at \in Nat /\ t.rows \subseteq Runs \cup {0} /\ t = [at |-> t.at, rows |-> t.rows]
  BY DEF Good, Whole, At, Ops, Least, Todos
<1>2. PICK n \in Nat \ {0} : DOMAIN Steps[k] = 1 .. n
  BY <1>1, StepTypes
<1>3. At(o, u) /\ u \in Todos
  <2>1. CASE t.rows # {r}
    <3>1. u = [at |-> t.at, rows |-> t.rows \ {r}]
      BY <1>1, <2>1 DEF After
    <3>2. \A s \in t.rows \ {r} : r < s
      <4>1. \A s \in t.rows : s \in Nat
        BY <1>1, RunsAssumption
      <4> QED BY <1>1, <4>1
    <3> QED BY <1>1, <2>1, <3>1, <3>2 DEF At, Todos, Good
  <2>2. CASE t.rows = {r}
    BY <1>1, <2>2, StepType DEF After
  <2> QED BY <2>1, <2>2
<1>4. \A i \in DOMAIN Steps[k] : \A s \in Rows(o, i) :
        Past(u, i, s) <=> Past(t, i, s) \/ (i = t.at /\ s = r)
  <2>1. CASE t.rows # {r}
    <3>1. u.at = t.at /\ u.rows = t.rows \ {r} /\ u # Nothing
      <4>1. u.at = t.at /\ u.rows = t.rows \ {r}
        BY <1>1, <2>1 DEF After
      <4> QED BY <1>1, <2>1, <4>1 DEF Nothing
    <3> QED BY <1>1, <3>1 DEF Past
  <2>2. CASE t.rows = {r} /\ t.at + 1 \in DOMAIN Steps[k]
    <3>1. u # Nothing /\ u.at = t.at + 1 /\ u.rows = Rows(o, t.at + 1)
      BY <1>1, <2>2, StepType DEF After
    <3> QED BY <1>1, <1>2, <2>2, <3>1 DEF Past
  <2>3. CASE t.rows = {r} /\ t.at + 1 \notin DOMAIN Steps[k]
    <3>1. u = Nothing /\ t.at = n
      BY <1>1, <1>2, <2>3 DEF Step, After
    <3> QED BY <1>1, <1>2, <2>3, <3>1 DEF Past
  <2> QED BY <2>1, <2>2, <2>3
<1>5. \A i \in DOMAIN Steps[k] : \A s \in Rows(o, i) : Past(u, i, s) => Lock(o, i, s) \in g
  BY <1>4 DEF Good
<1>6. \A x \in g : Brought(o, g, x) \/ \E i \in DOMAIN Steps[k] : \E s \in Rows(o, i) :
                                       Past(u, i, s) /\ x = Lock(o, i, s)
  <2> SUFFICES ASSUME NEW x \in g
               PROVE  Brought(o, g, x) \/ \E i \in DOMAIN Steps[k] : \E s \in Rows(o, i) :
                                            Past(u, i, s) /\ x = Lock(o, i, s)
    OBVIOUS
  <2>1. CASE x = l
    <3>1. Past(u, t.at, r) /\ r \in Rows(o, t.at)
      BY <1>1, <1>4
    <3> QED BY <1>1, <2>1, <3>1
  <2>2. CASE x \in h
    <3>1. CASE Brought(o, h, x)
      BY <3>1 DEF Brought
    <3>2. CASE \E i \in DOMAIN Steps[k] : \E s \in Rows(o, i) : Past(t, i, s) /\ x = Lock(o, i, s)
      BY <1>4, <3>2
    <3> QED BY <2>2, <3>1, <3>2 DEF Good
  <2> QED BY <2>1, <2>2
<1> QED BY <1>1, <1>3, <1>5, <1>6 DEF Good

------------------------------------------------------------------------------
(* The invariant is inductive.                                             *)

\* A step of p changes only what p does and holds, and what p gets is free.
LEMMA StepOf ==
  ASSUME Inv, NEW p \in Procs, NEW o \in Ops \cup {Idle}, NEW t \in Todos, NEW h,
         op' = [op EXCEPT ![p] = o], todo' = [todo EXCEPT ![p] = t],
         held' = [held EXCEPT ![p] = h], born' \in SUBSET Runs, born' # {},
         IF o = Idle THEN t = Nothing /\ h = {} ELSE Good(o, t, h),
         \/ h \subseteq held[p]
         \/ \E l \in Sessions \X Locks :
              /\ h = held[p] \cup {l}
              /\ \A q \in Procs, s \in Sessions : <<s, l[2]>> \in held[q] => q = p /\ s = l[1]
  PROVE  Inv'
<1>1. /\ op \in [Procs -> Ops \cup {Idle}] /\ todo \in [Procs -> Todos]
      /\ held \in [Procs -> SUBSET (Sessions \X Locks)]
      /\ \A q \in Procs : Kept(q)
      /\ \A q, u \in Procs, s \in Sessions : \A x \in held[q] :
           <<s, x[2]>> \in held[u] => u = q /\ s = x[1]
  BY DEF Inv, Shapes, Exclusive
<1>2. h \in SUBSET (Sessions \X Locks)
  BY <1>1
<1>3. Shapes'
  BY <1>1, <1>2 DEF Shapes
<1>4. /\ op'[p] = o /\ todo'[p] = t /\ held'[p] = h
      /\ \A q \in Procs \ {p} : op'[q] = op[q] /\ todo'[q] = todo[q] /\ held'[q] = held[q]
  BY <1>1
<1>5. \A q \in Procs : Kept(q)'
  BY <1>1, <1>4 DEF Kept
<1>6. Exclusive'
  <2> SUFFICES ASSUME NEW q \in Procs, NEW u \in Procs, NEW s \in Sessions, NEW x \in held'[q],
                      <<s, x[2]>> \in held'[u]
               PROVE  u = q /\ s = x[1]
    BY DEF Exclusive
  <2>1. CASE h \subseteq held[p]
    <3>1. x \in held[q] /\ <<s, x[2]>> \in held[u]
      BY <1>4, <2>1
    <3> QED BY <1>1, <3>1
  <2>2. ASSUME NEW l \in Sessions \X Locks, h = held[p] \cup {l},
               \A v \in Procs, z \in Sessions : <<z, l[2]>> \in held[v] => v = p /\ z = l[1]
        PROVE  u = q /\ s = x[1]
    <3>1. x \in held[q] \/ (q = p /\ x = l)
      BY <1>4, <2>2
    <3>2. <<s, x[2]>> \in held[u] \/ (u = p /\ <<s, x[2]>> = l)
      BY <1>4, <2>2
    <3>3. x \in Sessions \X Locks
      BY <1>1, <3>1
    <3>4. x = <<x[1], x[2]>> /\ x[1] \in Sessions /\ l = <<l[1], l[2]>>
      BY <3>3
    <3>5. CASE x \in held[q] /\ <<s, x[2]>> \in held[u]
      BY <1>1, <3>5
    <3>6. CASE x = l /\ q = p /\ <<s, x[2]>> \in held[u]
      BY <2>2, <3>6
    <3>7. CASE x \in held[q] /\ u = p /\ <<s, x[2]>> = l
      <4>1. <<x[1], l[2]>> \in held[q] /\ s = l[1]
        BY <3>4, <3>7
      <4> QED BY <2>2, <3>4, <3>7, <4>1
    <3>8. CASE x = l /\ q = p /\ u = p /\ <<s, x[2]>> = l
      BY <3>4, <3>8
    <3> QED BY <3>1, <3>2, <3>5, <3>6, <3>7, <3>8
  <2> QED BY <2>1, <2>2
<1> QED BY <1>3, <1>5, <1>6 DEF Inv

\* A process that does nothing is in no transaction.
LEMMA Apart == Idle \notin Ops /\ Nothing \in Todos /\ Least({}) = {}
<1>1. \A o \in Ops : o.kind # "idle"
  BY DEF Ops, Kinds
<1> QED BY <1>1 DEF Idle, Nothing, Todos, Least

\* A transaction that brings nothing begins.
LEMMA BeginInv ==
  ASSUME Inv, NEW p \in Procs, NEW k \in Kinds \ {"queue", "deleting"},
         NEW S \in SUBSET Runs, S # {}, Begin(p, k, S),
         k = "write" => \E r \in Runs : S = {r}
  PROVE  Inv'
<1> DEFINE o == [kind |-> k, rows |-> S, new |-> 0]
           t == Step(k, S, 1)
<1>1. held[p] = {} /\ held \in [Procs -> SUBSET (Sessions \X Locks)]
  BY DEF Inv, Shapes, Kept, Begin
<1>2. Whole(o) /\ o \in Ops /\ o.kind = k /\ o.rows = S
  BY DEF Ops, Whole
<1>3. o # Idle
  BY <1>2, Apart
<1>4. Good(o, t, {}) /\ t \in Todos
  <2> HIDE DEF o
  <2> QED BY <1>2, BeginGood
<1>5. /\ op' = [op EXCEPT ![p] = o] /\ todo' = [todo EXCEPT ![p] = t]
      /\ held' = [held EXCEPT ![p] = {}] /\ born' = born
  BY <1>1 DEF Begin, Ask
<1>6. born' \in SUBSET Runs /\ born' # {}
  BY <1>5 DEF Inv, Shapes
<1> HIDE DEF o, t
<1> QED BY <1>2, <1>3, <1>4, <1>5, <1>6, StepOf

\* The supplement read nothing but its target and its source.
LEMMA QueueInv ==
  ASSUME Inv, NEW p \in Procs, QueueBehind(p)
  PROVE  Inv'
<1>1. PICK n \in Runs : Ask(p, "queue", born \cup {n}, n)
  BY DEF QueueBehind, Fresh
<1> DEFINE o == [kind |-> "queue", rows |-> born \cup {n}, new |-> n]
           t == Step("queue", born \cup {n}, 1)
           h == held[p]
<1>2. /\ op[p].kind = "supplement" /\ todo[p] = Nothing /\ op[p] # Idle
      /\ held \in [Procs -> SUBSET (Sessions \X Locks)] /\ born \in SUBSET Runs
      /\ Good(op[p], Nothing, h)
  BY DEF QueueBehind, Finished, Inv, Shapes, Kept, Idle
<1>3. /\ DOMAIN Steps[op[p].kind] = 1 .. 6 /\ Family(op[p].kind, 2) = "turn"
      /\ \A i \in 1 .. 6 : /\ Session(op[p].kind, i) = "main" /\ Family(op[p].kind, i) # "call"
                           /\ Family(op[p].kind, i) = "interrupt" => i = 6
  BY <1>2, Supplements
<1>4. Whole(o) /\ o \in Ops /\ o.kind = "queue" /\ o.rows = born \cup {n} /\ o # Idle
  <2>1. o \in Ops
    BY <1>2 DEF Ops, Kinds
  <2> QED BY <2>1, Apart DEF Whole
<1>5. \A x \in h : Brought(o, h, x)
  <2> SUFFICES ASSUME NEW x \in h PROVE Brought(o, h, x)
    OBVIOUS
  <2>0. PICK i \in 1 .. 6 : \E r \in Rows(op[p], i) : x = Lock(op[p], i, r)
    BY <1>2, <1>3 DEF Good, Brought
  <2>1. PICK r \in Rows(op[p], i) : x = Lock(op[p], i, r)
    BY <2>0
  <2>2. x = <<"main", <<Family(op[p].kind, i), r>>>>
    BY <1>2, <1>3, <2>1 DEF Lock
  <2>3. ASSUME Family(op[p].kind, i) = "interrupt"
        PROVE  <<"main", <<"turn", r>>>> \in h
    <3>1. r \in Rows(op[p], 2)
      BY <1>2, <1>3, <2>1, <2>3 DEF Rows, RowsOf, Shared
    <3>2. Lock(op[p], 2, r) \in h
      BY <1>2, <1>3, <3>1 DEF Good, Past
    <3> QED BY <1>2, <1>3, <3>2 DEF Lock
  <2> HIDE DEF o
  <2> QED BY <1>3, <1>4, <2>2, <2>3 DEF Brought
<1>6. Good(o, t, h) /\ t \in Todos
  <2>1. t = Step(o.kind, o.rows, 1)
    BY <1>4
  <2> HIDE DEF o, t
  <2> QED BY <1>4, <1>5, <2>1, BeginGood
<1>7. /\ op' = [op EXCEPT ![p] = o] /\ todo' = [todo EXCEPT ![p] = t]
      /\ held' = [held EXCEPT ![p] = h] /\ born' = born
  BY <1>1, <1>2 DEF Ask
<1>8. born' \in SUBSET Runs /\ born' # {}
  BY <1>7 DEF Inv, Shapes
<1> HIDE DEF o, t
<1> QED BY <1>4, <1>6, <1>7, <1>8, StepOf

\* The deletion keeps its forest, with the task that the runs share.
LEMMA DeleteInv ==
  ASSUME Inv, NEW p \in Procs, DeleteRest(p)
  PROVE  Inv'
<1> DEFINE o == [kind |-> "deleting", rows |-> born, new |-> 0]
           t == Step("deleting", born, 1)
           h == held[p]
<1>2. /\ op[p].kind = "delete" /\ todo[p] = Nothing /\ op[p] # Idle
      /\ held \in [Procs -> SUBSET (Sessions \X Locks)] /\ born \in SUBSET Runs /\ born # {}
      /\ Good(op[p], Nothing, h)
  BY DEF DeleteRest, Finished, Inv, Shapes, Kept, Idle
<1>3. /\ \E n \in {10, 11} : DOMAIN Steps[op[p].kind] = 1 .. n
      /\ \A i \in DOMAIN Steps[op[p].kind] : Session(op[p].kind, i) = "main"
      /\ Family(op[p].kind, 1) = "gate" /\ Family(op[p].kind, 4) = "task"
  BY <1>2, Scoped
<1>4. Whole(o) /\ o \in Ops /\ o.kind = "deleting" /\ o.rows = born /\ o # Idle
  <2>1. o \in Ops
    BY <1>2 DEF Ops, Kinds
  <2> QED BY <1>2, <2>1, Apart DEF Whole
<1>5. \A x \in h : Brought(o, h, x)
  <2> SUFFICES ASSUME NEW x \in h PROVE Brought(o, h, x)
    OBVIOUS
  <2>0. PICK i \in DOMAIN Steps[op[p].kind] : \E r \in Rows(op[p], i) : x = Lock(op[p], i, r)
    BY <1>2 DEF Good, Brought
  <2>1. PICK r \in Rows(op[p], i) : x = Lock(op[p], i, r)
    BY <2>0
  <2>2. x[1] = "main" /\ x[2] = <<Family(op[p].kind, i), r>>
    BY <1>3, <2>1 DEF Lock
  <2>3. ASSUME Family(op[p].kind, i) = "call"
        PROVE  <<"main", <<"gate", r>>>> \in h
    <3>1. r \in Rows(op[p], 1) /\ 1 \in DOMAIN Steps[op[p].kind]
      BY <1>3, <2>1, <2>3 DEF Rows, RowsOf, Shared
    <3>2. Lock(op[p], 1, r) \in h
      BY <1>2, <3>1 DEF Good, Past
    <3> QED BY <1>3, <3>1, <3>2 DEF Lock
  <2> HIDE DEF o
  <2> QED BY <1>4, <2>2, <2>3 DEF Brought
<1>6. <<"main", <<"task", 0>>>> \in h
  <2>1. 0 \in Rows(op[p], 4) /\ 4 \in DOMAIN Steps[op[p].kind]
    BY <1>3 DEF Rows, RowsOf, Shared
  <2>2. Lock(op[p], 4, 0) \in h
    BY <1>2, <2>1 DEF Good, Past
  <2> QED BY <1>3, <2>1, <2>2 DEF Lock
<1>7. Good(o, t, h) /\ t \in Todos
  <2>1. t = Step(o.kind, o.rows, 1)
    BY <1>4
  <2> HIDE DEF o, t
  <2> QED BY <1>2, <1>4, <1>5, <1>6, <2>1, BeginGood
<1>8. /\ op' = [op EXCEPT ![p] = o] /\ todo' = [todo EXCEPT ![p] = t]
      /\ held' = [held EXCEPT ![p] = h] /\ born' = born
  BY <1>2 DEF DeleteRest, Ask
<1>9. born' \in SUBSET Runs /\ born' # {}
  BY <1>8 DEF Inv, Shapes
<1> HIDE DEF o, t
<1> QED BY <1>4, <1>7, <1>8, <1>9, StepOf

\* Who asks is in a transaction, and asks for the least row left of its step.
LEMMA Asks ==
  ASSUME Inv, NEW p \in Procs, NEW a \in Asking(p)
  PROVE  /\ op[p] # Idle /\ op[p] \in Ops /\ Good(op[p], todo[p], held[p])
         /\ todo[p] # Nothing /\ todo[p] \in Todos /\ todo[p].at \in DOMAIN Steps[op[p].kind]
         /\ a.by = Session(op[p].kind, todo[p].at)
         /\ \E r \in Least(todo[p].rows) : /\ a.on = <<Family(op[p].kind, todo[p].at), r>>
                                           /\ a = [by |-> a.by, on |-> a.on]
<1>1. PICK r \in Least(todo[p].rows) :
        a = [by |-> Session(op[p].kind, todo[p].at), on |-> <<Family(op[p].kind, todo[p].at), r>>]
  BY DEF Asking, Session, Family
<1>2. todo[p] # Nothing
  BY <1>1 DEF Nothing, Least
<1>3. op[p] # Idle /\ op[p] \in Ops /\ todo[p] \in Todos /\ Good(op[p], todo[p], held[p])
  BY <1>2 DEF Inv, Shapes, Kept
<1>4. todo[p].at \in DOMAIN Steps[op[p].kind]
  BY <1>2, <1>3 DEF Good, At
<1> QED BY <1>1, <1>2, <1>3, <1>4

\* A lock that is granted was free, or the session's own.
LEMMA GrantInv ==
  ASSUME Inv, NEW p \in Procs, Grant(p)
  PROVE  Inv'
<1>1. PICK a \in Asking(p) : /\ \A q \in Procs, s \in Sessions : ~Keeps(q, s, p, a)
                             /\ Take(p, a)
  BY DEF Grant
<1>2. PICK r \in Least(todo[p].rows) : a.on = <<Family(op[p].kind, todo[p].at), r>>
  BY Asks
<1> DEFINE o == op[p]
           l == Lock(o, todo[p].at, r)
           t == After(o, todo[p], r)
<1>3. /\ o # Idle /\ o \in Ops /\ Good(o, todo[p], held[p]) /\ todo[p] # Nothing
      /\ todo[p] \in Todos /\ todo[p].at \in DOMAIN Steps[o.kind]
      /\ a.by = Session(o.kind, todo[p].at)
  BY Asks
<1>4. l = <<a.by, a.on>> /\ a.on[2] = r
  BY <1>2, <1>3 DEF Lock
<1>5. Good(o, t, held[p] \cup {l}) /\ t \in Todos
  <2> HIDE DEF o
  <2> QED BY <1>3, TakeGood
<1>6. r \in Rows(o, todo[p].at) /\ o.rows # {}
  BY <1>3, <1>2 DEF Good, Whole, At, Least
<1>7. l \in Sessions \X Locks
  BY <1>3, <1>6, RowTypes
<1>8. /\ op' = [op EXCEPT ![p] = o] /\ todo' = [todo EXCEPT ![p] = t]
      /\ held' = [held EXCEPT ![p] = held[p] \cup {l}] /\ born' = born
  <2>1. op \in [Procs -> Ops \cup {Idle}] /\ held \in [Procs -> SUBSET (Sessions \X Locks)]
        /\ todo \in [Procs -> Todos]
    BY DEF Inv, Shapes
  <2>2. op' = [op EXCEPT ![p] = o]
    BY <1>1, <2>1 DEF Take
  <2>3. held' = [held EXCEPT ![p] = held[p] \cup {l}] /\ born' = born
    BY <1>1, <1>4, <2>1 DEF Take
  <2>4. todo' = [todo EXCEPT ![p] = t]
    BY <1>1, <1>4, <2>1 DEF Take
  <2> QED BY <2>2, <2>3, <2>4
<1>9. \A q \in Procs, s \in Sessions : <<s, l[2]>> \in held[q] => q = p /\ s = l[1]
  BY <1>1, <1>4 DEF Keeps
<1>10. born' \in SUBSET Runs /\ born' # {}
  BY <1>8 DEF Inv, Shapes
<1> HIDE DEF o, t, l
<1> QED BY <1>3, <1>5, <1>7, <1>8, <1>9, <1>10, StepOf

\* A transaction that ends holds nothing any more.
LEMMA EndInv ==
  ASSUME Inv, NEW p \in Procs, End(p), born' \in SUBSET Runs, born' # {}
  PROVE  Inv'
<1>1. held[p] \in SUBSET (Sessions \X Locks)
  BY DEF Inv, Shapes
<1> QED BY <1>1, Apart, StepOf DEF End

\* The initial states, and the steps.
LEMMA InvInit == Init => Inv
<1> SUFFICES ASSUME Init PROVE Inv
  OBVIOUS
<1>1. Shapes
  BY RunsAssumption, Apart DEF Init, Shapes
<1>2. (\A p \in Procs : Kept(p)) /\ Exclusive
  BY DEF Init, Kept, Exclusive
<1> QED BY <1>1, <1>2 DEF Inv

LEMMA InvNext == Inv /\ [Next]_vars => Inv'
<1> SUFFICES ASSUME Inv, [Next]_vars PROVE Inv'
  OBVIOUS
<1>0. born \in SUBSET Runs /\ born # {}
  BY DEF Inv, Shapes
<1>1. CASE UNCHANGED vars
  BY <1>1 DEF vars, Inv, Shapes, Kept, Exclusive
<1>2. ASSUME NEW p \in Procs, NEW r \in born, About(p, r) PROVE Inv'
  <2>1. {r} \in SUBSET Runs /\ {r} # {} /\ r \in Runs
    BY <1>0
  <2>2. PICK k \in Kinds \ {"queue", "deleting"} : Begin(p, k, {r})
    BY <1>2 DEF About, Close, Interrupt, Cancel, Requeue, Heartbeat, Receive, Write, Revise, Stop,
                Supplement, Kinds
  <2> QED BY <2>1, <2>2, BeginInv
<1>3. ASSUME NEW p \in Procs, Promote(p) \/ Accept(p) \/ Delete(p) \/ Purge(p) PROVE Inv'
  <2>1. PICK k \in Kinds \ {"queue", "deleting", "write"} : Begin(p, k, born)
    BY <1>3 DEF Promote, Accept, Delete, Purge, Kinds
  <2> QED BY <1>0, <2>1, BeginInv
<1>4. ASSUME NEW p \in Procs, Commit(p) PROVE Inv'
  <2>1. /\ op[p].kind = "queue" => op[p].new \in Runs
        /\ End(p)
    BY <1>4 DEF Commit, Inv, Kept, Good, Whole
  <2>2. born' \in SUBSET Runs /\ born' # {}
    BY <1>0, <1>4, <2>1 DEF Commit
  <2> QED BY <2>1, <2>2, EndInv
<1>5. ASSUME NEW p \in Procs, Abort(p) PROVE Inv'
  BY <1>0, <1>5, EndInv DEF Abort
<1>6. CASE Next
  BY <1>2, <1>3, <1>4, <1>5, <1>6, QueueInv, DeleteInv, GrantInv DEF Next
<1> QED BY <1>1, <1>6

LEMMA InvAlways == Spec => []Inv
BY InvInit, InvNext, PTL DEF Spec

LEMMA InvTypes == Inv => TypeOK
<1> SUFFICES ASSUME Inv PROVE TypeOK
  OBVIOUS
<1>1. ASSUME NEW p \in Procs
      PROVE  /\ op[p].rows \subseteq Runs /\ op[p].new \in Runs \cup {0}
             /\ todo[p].at \in Nat /\ todo[p].rows \subseteq Runs \cup {0}
             /\ held[p] \subseteq Sessions \X Locks
  BY DEF Inv, Shapes, Ops, Todos, Idle
<1> QED BY <1>1 DEF TypeOK, Inv, Shapes, Exclusive

\* Locks are exclusive between sessions, and requests name locks that exist.
THEOREM TypesCorrect == Spec => []TypeOK
BY InvAlways, InvTypes, PTL

------------------------------------------------------------------------------
(* Transactions that take the gates first go up.                           *)

\* One order of all families; calls that wait for a person are before the others.
Rank(f) == CASE f = "gate" -> 1 [] f = "account" -> 2 [] f = "run" -> 3 [] f = "turn" -> 4
             [] f = "task" -> 5 [] f = "content" -> 6 [] f = "skill" -> 7 [] f = "revision" -> 8
             [] f = "deliverable" -> 9 [] f = "approval" -> 10 [] f = "call" -> 11
             [] f = "interrupt" -> 12
Below(l, m) == Rank(l[1]) < Rank(m[1]) \/ (l[1] = m[1] /\ l[2] < m[2])

\* The orders of acquisition go up, that of a child until its last step.
Up(f, n) == \A i, j \in 1 .. n : i < j => Rank(f[i]) < Rank(f[j])

\* They do go up.
LEMMA Ascending ==
  /\ Up(RootScope, 10) /\ Up(Interrupts, 11) /\ Up(RequestScope, 6) /\ Up(Headers, 4)
  /\ Up(<<"run">>, 1) /\ Up(Receipt, 2) /\ Up(AcceptPlain, 2)
  /\ Up(AcceptChild, 10) /\ AcceptChild[5] = "content" /\ AcceptChild[11] = "content"
<1> USE DEF Up, Rank
<1>1. Up(Headers, 4) /\ Up(<<"run">>, 1) /\ Up(Receipt, 2) /\ Up(AcceptPlain, 2)
  BY DEF Headers, Receipt, AcceptPlain
<1>2. Up(RootScope, 10)
  <2>1. /\ RootScope[1] = "gate" /\ RootScope[2] = "run" /\ RootScope[3] = "turn"
        /\ RootScope[4] = "task" /\ RootScope[5] = "content" /\ RootScope[6] = "skill"
        /\ RootScope[7] = "revision" /\ RootScope[8] = "deliverable"
        /\ RootScope[9] = "approval" /\ RootScope[10] = "call"
    BY DEF RootScope, Headers, Calls
  <2> QED BY <2>1
<1>3. Up(Interrupts, 11)
  <2>1. \A i \in 1 .. 10 : Interrupts[i] = RootScope[i]
    BY DEF Interrupts, RootScope, Headers, Calls
  <2>2. Rank(Interrupts[11]) = 12 /\ \A i \in 1 .. 10 : Rank(RootScope[i]) < 12
    BY DEF Interrupts, RootScope, Headers, Calls
  <2>3. ASSUME NEW i \in 1 .. 11, NEW j \in 1 .. 11, i < j
        PROVE  Rank(Interrupts[i]) < Rank(Interrupts[j])
    <3> HIDE DEF Rank
    <3>1. CASE j = 11
      BY <2>1, <2>2, <2>3, <3>1
    <3>2. CASE j # 11
      BY <1>2, <2>1, <2>3, <3>2
    <3> QED BY <3>1, <3>2
  <2> HIDE DEF Rank
  <2> QED BY <2>3
<1>4. Up(RequestScope, 6)
  BY DEF RequestScope, Headers
<1>5. Up(AcceptChild, 10) /\ AcceptChild[5] = "content" /\ AcceptChild[11] = "content"
  <2>1. \A i \in 1 .. 10 : AcceptChild[i] = RootScope[i]
    BY DEF AcceptChild, RootScope, Headers, Calls
  <2>2. AcceptChild[5] = "content" /\ AcceptChild[11] = "content"
    BY DEF AcceptChild, RootScope, Headers, Calls
  <2> QED BY <1>2, <2>1, <2>2
<1> QED BY <1>1, <1>2, <1>3, <1>4, <1>5

\* The steps of a transaction that takes the gates first go up, but for the content
\* that the acceptance of a child asks for again.
LEMMA StepsUp ==
  ASSUME NEW k \in Kinds \ {"stop", "supplement", "queue", "revise", "deleting"},
         NEW i \in DOMAIN Steps[k], NEW j \in DOMAIN Steps[k], i < j
  PROVE  \/ Rank(Family(k, i)) < Rank(Family(k, j))
         \/ /\ 5 \in DOMAIN Steps[k] /\ Family(k, 5) = "content" /\ Session(k, 5) = "main"
            /\ 5 < j /\ Family(k, j) = "content" /\ Session(k, j) = "main"
<1>0. k \in Kinds
  OBVIOUS
<1>1. CASE k = "write"
  <2>1. /\ DOMAIN Steps[k] = 1 .. 3 /\ Family(k, 1) = "gate" /\ Family(k, 2) = "account"
        /\ Family(k, 3) = "call"
    BY <1>0, <1>1, StepsOf
  <2>2. Rank("gate") = 1 /\ Rank("account") = 2 /\ Rank("call") = 11
    BY DEF Rank
  <2> QED BY <2>1, <2>2
<1>2. ASSUME NEW f, NEW n \in Nat, Follows(k, f, n), Up(f, n)
      PROVE  Rank(Family(k, i)) < Rank(Family(k, j))
  BY <1>2 DEF Follows, Up
<1>3. CASE k = "child"
  <2>1. Follows(k, AcceptChild, 11)
    BY <1>0, <1>3, StepsOf
  <2>2. CASE j = 11
    BY <2>1, <2>2, Ascending DEF Follows
  <2>3. CASE j # 11
    BY <2>1, <2>3, Ascending DEF Follows, Up
  <2> QED BY <2>2, <2>3
<1>4. CASE k \in {"close", "delete", "purge"}
  BY <1>0, <1>2, <1>4, StepsOf, Ascending
<1>5. CASE k \in {"requeue", "promote"}
  BY <1>0, <1>2, <1>5, StepsOf, Ascending
<1>6. CASE k = "cancel"
  BY <1>0, <1>2, <1>6, StepsOf, Ascending
<1>7. CASE k = "interrupt"
  BY <1>0, <1>2, <1>7, StepsOf, Ascending
<1>8. CASE k = "heartbeat"
  BY <1>0, <1>2, <1>8, StepsOf, Ascending
<1>9. CASE k = "receive"
  BY <1>0, <1>2, <1>9, StepsOf, Ascending
<1>10. CASE k = "accept"
  BY <1>0, <1>2, <1>10, StepsOf, Ascending
<1> QED BY <1>1, <1>3, <1>4, <1>5, <1>6, <1>7, <1>8, <1>9, <1>10 DEF Kinds

\* What a waiting transaction holds is below what it waits for.
LEMMA WaitsAbove ==
  ASSUME Inv, NEW p \in Procs, ~GateSkipped(p), NEW a \in Asking(p),
         NEW q \in Procs, NEW s \in Sessions, Keeps(q, s, p, a), NEW x \in held[p]
  PROVE  Below(x[2], a.on)
<1> DEFINE o == op[p]  t == todo[p]  k == op[p].kind
<1>1. /\ o \in Ops /\ Good(o, t, held[p]) /\ t # Nothing /\ t \in Todos
      /\ t.at \in DOMAIN Steps[k] /\ a.by = Session(k, t.at)
  BY Asks
<1>2. PICK r \in Least(t.rows) : a.on = <<Family(k, t.at), r>>
  BY Asks
<1>3. k \in Kinds \ {"stop", "supplement", "queue", "revise", "deleting"}
  BY <1>1 DEF GateSkipped, Ops
<1>4. PICK i \in DOMAIN Steps[k] : \E z \in Rows(o, i) : Past(t, i, z) /\ x = Lock(o, i, z)
  BY <1>1, <1>3 DEF Good, Brought
<1>5. PICK z \in Rows(o, i) : Past(t, i, z) /\ x = Lock(o, i, z)
  BY <1>4
<1>6. x[2] = <<Family(k, i), z>>
  BY <1>5 DEF Lock
<1>7. CASE i < t.at
  <2>1. CASE Rank(Family(k, i)) < Rank(Family(k, t.at))
    BY <1>2, <1>6, <2>1 DEF Below
  <2>2. CASE /\ 5 \in DOMAIN Steps[k] /\ Family(k, 5) = "content" /\ Session(k, 5) = "main"
             /\ 5 < t.at /\ Family(k, t.at) = "content" /\ Session(k, t.at) = "main"
    <3>1. r \in Rows(o, t.at)
      BY <1>1, <1>2 DEF Good, At, Least
    <3>2. Rows(o, 5) = {0} /\ Rows(o, t.at) = {0}
      BY <2>2 DEF Rows, RowsOf, Shared
    <3>3. Past(t, 5, 0)
      BY <2>2 DEF Past
    <3>4. Lock(o, 5, 0) \in held[p]
      BY <1>1, <2>2, <3>2, <3>3 DEF Good
    <3>5. a.on = <<"content", 0>> /\ a.by = "main" /\ <<"main", a.on>> \in held[p]
      BY <1>1, <1>2, <2>2, <3>1, <3>2, <3>4 DEF Lock
    <3>6. <<s, a.on>> \in held[q] /\ <<q, s>> # <<p, "main">>
      BY <3>5 DEF Keeps
    <3>7. q = p /\ s = "main"
      <4> DEFINE h == <<"main", a.on>>
      <4>1. h \in held[p] /\ h[1] = "main" /\ h[2] = a.on
        BY <3>5
      <4> HIDE DEF h
      <4> QED BY <3>6, <4>1 DEF Inv, Exclusive
    <3> QED BY <3>6, <3>7
  <2> QED BY <1>1, <1>3, <1>7, <2>1, <2>2, StepsUp
<1>8. CASE i = t.at /\ z \notin t.rows
  <2>1. z < r
    BY <1>1, <1>2, <1>5, <1>8 DEF Good, At, Least
  <2> QED BY <1>2, <1>6, <1>8, <2>1 DEF Below
<1> QED BY <1>1, <1>5, <1>7, <1>8 DEF Past

\* The lock that p waits for.
Awaited(p) == CHOOSE l : \E a \in Asking(p) : l = a.on

\* A process waits for one lock at a time.
LEMMA AwaitedOne ==
  ASSUME Inv, NEW p \in Procs, NEW a \in Asking(p)
  PROVE  a.on = Awaited(p) /\ \E r \in Nat : a.on = <<Family(op[p].kind, todo[p].at), r>>
<1>1. todo[p].rows \subseteq Runs \cup {0}
  BY Asks DEF Todos
<1>2. \A r, z \in Least(todo[p].rows) : r \in Nat /\ r = z
  <2>1. \A r \in Least(todo[p].rows) : r \in todo[p].rows /\ \A z \in todo[p].rows : r <= z
    BY DEF Least
  <2>2. \A r \in todo[p].rows : r \in Nat
    <3> DEFINE T == todo[p].rows
    <3>1. T \subseteq Runs \cup {0}
      BY <1>1
    <3> HIDE DEF T
    <3>2. Runs \cup {0} \subseteq Nat
      BY RunsAssumption
    <3>3. T \subseteq Nat
      BY <3>1, <3>2
    <3> QED BY <3>3 DEF T
  <2> QED BY <2>1, <2>2
<1>3. ASSUME NEW b \in Asking(p) PROVE b.on = a.on
  <2>1. PICK r \in Least(todo[p].rows) : a.on = <<Family(op[p].kind, todo[p].at), r>>
    BY Asks
  <2>2. PICK z \in Least(todo[p].rows) : b.on = <<Family(op[p].kind, todo[p].at), z>>
    BY Asks
  <2> QED BY <1>2, <2>1, <2>2
<1>4. \E l : \E b \in Asking(p) : l = b.on
  OBVIOUS
<1>5. Awaited(p) = a.on
  BY <1>3, <1>4 DEF Awaited
<1>6. PICK r \in Least(todo[p].rows) : a.on = <<Family(op[p].kind, todo[p].at), r>>
  BY Asks
<1> QED BY <1>2, <1>5, <1>6

\* Nobody is at the end of a circle of such transactions.
LEMMA NoCircle ==
  ASSUME Inv, NEW D \in SUBSET Procs, Detected(D), \A p \in D : ~GateSkipped(p)
  PROVE  FALSE
<1> DEFINE Above(p) == {q \in D : Below(Awaited(p), Awaited(q))}
<1>1. IsFiniteSet(D) /\ \A p \in D : IsFiniteSet(Above(p)) /\ Cardinality(Above(p)) \in Nat
  <2>1. IsFiniteSet(D)
    BY ProcsAssumption, FS_Subset
  <2> QED BY <2>1, FS_Subset, FS_CardinalityType
<1>2. \A p \in D : \E f, r : Awaited(p) = <<f, r>> /\ r \in Nat /\ Rank(f) \in Nat
  <2> SUFFICES ASSUME NEW p \in D
               PROVE  \E f, r : Awaited(p) = <<f, r>> /\ r \in Nat /\ Rank(f) \in Nat
    OBVIOUS
  <2>1. PICK a \in Asking(p) : TRUE
    BY DEF Detected, Visible
  <2>2. PICK r \in Nat : Awaited(p) = <<Family(op[p].kind, todo[p].at), r>>
    BY <2>1, AwaitedOne
  <2>3. Family(op[p].kind, todo[p].at) \in Families \cup Shared
    <3>1. op[p].kind \in Kinds /\ todo[p].at \in DOMAIN Steps[op[p].kind]
      BY <2>1, Asks DEF Ops
    <3> QED BY <3>1, FamilyType
  <2>4. \A f \in Families \cup Shared : Rank(f) \in Nat
    BY DEF Families, Shared, Rank
  <2> QED BY <2>2, <2>3, <2>4
<1>3. \A p \in D : \E q \in D : Below(Awaited(p), Awaited(q))
  <2> SUFFICES ASSUME NEW p \in D
               PROVE  \E q \in D : Below(Awaited(p), Awaited(q))
    OBVIOUS
  <2>1. PICK q \in D, a \in Asking(p), s \in Sessions : Keeps(q, s, p, a)
    BY DEF Detected, Visible
  <2>2. PICK u \in D, b \in Asking(q), v \in Sessions : Keeps(u, v, q, b)
    BY DEF Detected, Visible
  <2>3. PICK x \in held[q] : x[2] = a.on
    BY <2>1 DEF Keeps
  <2>4. Below(x[2], b.on)
    BY <2>2, WaitsAbove
  <2>5. a.on = Awaited(p) /\ b.on = Awaited(q)
    BY <2>1, <2>2, AwaitedOne
  <2> QED BY <2>3, <2>4, <2>5
<1>4. \A p, q, u \in D : Below(Awaited(p), Awaited(q)) /\ Below(Awaited(q), Awaited(u))
                           => Below(Awaited(p), Awaited(u))
  <2> SUFFICES ASSUME NEW p \in D, NEW q \in D, NEW u \in D,
                      Below(Awaited(p), Awaited(q)), Below(Awaited(q), Awaited(u))
               PROVE  Below(Awaited(p), Awaited(u))
    OBVIOUS
  <2>1. PICK f1, r1 : Awaited(p) = <<f1, r1>> /\ r1 \in Nat /\ Rank(f1) \in Nat
    BY <1>2
  <2>2. PICK f2, r2 : Awaited(q) = <<f2, r2>> /\ r2 \in Nat /\ Rank(f2) \in Nat
    BY <1>2
  <2>3. PICK f3, r3 : Awaited(u) = <<f3, r3>> /\ r3 \in Nat /\ Rank(f3) \in Nat
    BY <1>2
  <2> QED BY <2>1, <2>2, <2>3 DEF Below
<1>5. \A p \in D : ~Below(Awaited(p), Awaited(p))
  BY <1>2 DEF Below
<1> DEFINE Sizes == {Cardinality(Above(p)) : p \in D}
<1>6. Sizes \subseteq Nat /\ Sizes # {}
  BY <1>1 DEF Detected
<1>7. PICK m \in Sizes : \A n \in Sizes : m <= n
  <2> DEFINE Less == OpToRel(<, Nat)
  <2>1. \A x, y \in Nat : x < y => <<x, y>> \in Less
    BY DEF OpToRel
  <2>2. IsWellFoundedOn(Less, Nat)
    BY NatLessThanWellFounded
  <2> HIDE DEF Less, Sizes
  <2>3. \E m \in Sizes : \A n \in Sizes : ~(<<n, m>> \in Less)
    BY <1>6, <2>2, WFMin
  <2>4. PICK m \in Sizes : \A n \in Sizes : ~(<<n, m>> \in Less)
    BY <2>3
  <2>5. \A n \in Sizes : ~(n < m) /\ n \in Nat /\ m \in Nat
    BY <1>6, <2>1, <2>4
  <2> QED BY <2>5
<1>8. PICK p \in D : Cardinality(Above(p)) = m
  OBVIOUS
<1>9. PICK q \in D : Below(Awaited(p), Awaited(q))
  BY <1>3
<1>10. Above(q) \subseteq Above(p) /\ q \in Above(p) /\ q \notin Above(q)
  BY <1>4, <1>5, <1>9
<1>11. Cardinality(Above(q)) < Cardinality(Above(p))
  <2>1. Cardinality(Above(q)) <= Cardinality(Above(p))
        /\ (Cardinality(Above(p)) = Cardinality(Above(q)) => Above(q) = Above(p))
    BY <1>1, <1>10, FS_Subset
  <2> QED BY <1>1, <1>10, <2>1
<1>12. Cardinality(Above(q)) \in Sizes /\ Cardinality(Above(q)) \in Nat /\ m \in Nat
  BY <1>1, <1>8
<1> HIDE DEF Sizes, Above
<1> QED BY <1>7, <1>8, <1>11, <1>12

LEMMA InvNoDeadlock == Inv => GatedNeverDeadlock
BY NoCircle DEF GatedNeverDeadlock

\* Transactions that take the gates first never deadlock among themselves,
\* whatever runs each of them locks and however they discovered them: a deadlock
\* needs steering, a revision before its barrier, or a deletion that found rows
\* after it had locked its forest.
THEOREM GatesOrder == Spec => []GatedNeverDeadlock
BY InvAlways, InvNoDeadlock, PTL

------------------------------------------------------------------------------
(* Nobody in a circle waits behind the guard of the account lane.          *)

Scopes == {"close", "delete", "purge", "interrupt", "child"}

\* What the rest of a deletion locks.
LEMMA DeletingSteps ==
  ASSUME NEW k, k = "deleting"
  PROVE  /\ DOMAIN Steps[k] = 1 .. 7 /\ Family(k, 1) = "turn"
         /\ \A i \in 1 .. 7 : /\ Session(k, i) = "main"
                              /\ Family(k, i) = "call" => i = 5
                              /\ i > 5 => (i = 6 /\ Family(k, i) = "interrupt")
                                          \/ (i = 7 /\ Family(k, i) = "task")
         /\ Family(k, 5) = "call"
<1>1. /\ Leftovers[1] = "turn" /\ Leftovers[2] = "run" /\ Leftovers[3] = "skill"
      /\ Leftovers[4] = "approval" /\ Leftovers[5] = "call" /\ Leftovers[6] = "interrupt"
      /\ Leftovers[7] = "task"
  BY DEF Leftovers, Calls
<1>2. Follows(k, Leftovers, 7)
  <2>1. k \in Kinds
    BY DEF Kinds
  <2> QED BY <2>1, StepsOf
<1> QED BY <1>1, <1>2 DEF Follows

\* The guard of a write has the gate and the account, its executor the call.
LEMMA WriteSteps ==
  ASSUME NEW k, k = "write"
  PROVE  /\ DOMAIN Steps[k] = 1 .. 3
         /\ Session(k, 1) = "guard" /\ Family(k, 1) = "gate"
         /\ Session(k, 2) = "guard" /\ Family(k, 2) = "account"
         /\ Session(k, 3) = "main"  /\ Family(k, 3) = "call"
<1>1. k \in Kinds
  BY DEF Kinds
<1> QED BY <1>1, StepsOf

\* Who locks the calls or the interrupts of a run.
LEMMA CallKinds ==
  ASSUME NEW k \in Kinds, NEW i \in DOMAIN Steps[k], Family(k, i) \in {"call", "interrupt"}
  PROVE  k \in Scopes \cup {"write", "deleting", "supplement"}
<1> DEFINE Quiet(f, n) == \A j \in 1 .. n : f[j] \notin {"call", "interrupt"}
<1>1. Quiet(Headers, 4) /\ Quiet(<<"run">>, 1) /\ Quiet(Receipt, 2) /\ Quiet(AcceptPlain, 2)
      /\ Quiet(Barrier, 3)
  BY DEF Headers, Receipt, AcceptPlain, Barrier
<1>2. Quiet(RequestScope, 6)
  BY DEF RequestScope, Headers
<1>3. Quiet(Target \o RequestScope, 8)
  BY DEF Target, RequestScope, Headers
<1>4. ASSUME NEW f, NEW n, Follows(k, f, n), Quiet(f, n) PROVE FALSE
  BY <1>4 DEF Follows
<1> HIDE DEF Quiet
<1>5. ~ \/ Follows(k, Headers, 4)
        \/ Follows(k, <<"run">>, 1)
        \/ Follows(k, Receipt, 2)
        \/ Follows(k, AcceptPlain, 2)
        \/ Follows(k, Barrier, 3)
        \/ Follows(k, RequestScope, 6)
        \/ Follows(k, Target \o RequestScope, 8)
  BY <1>1, <1>2, <1>3, <1>4
<1> QED BY <1>5, StepsOf DEF Scopes

\* Locks are exclusive.
LEMMA OneOwner ==
  ASSUME Inv, NEW p \in Procs, NEW q \in Procs, NEW s, NEW z \in Sessions, NEW l,
         <<s, l>> \in held[p], <<z, l>> \in held[q]
  PROVE  p = q /\ s = z
<1> DEFINE h == <<s, l>>
<1>1. h \in held[p] /\ h[1] = s /\ h[2] = l
  OBVIOUS
<1> HIDE DEF h
<1> QED BY <1>1 DEF Inv, Exclusive

\* What a process holds it locked in a step of its own, or brought.
LEMMA Holds ==
  ASSUME Inv, NEW q \in Procs, NEW s, NEW f, NEW r, <<s, <<f, r>>>> \in held[q]
  PROVE  /\ op[q] \in Ops /\ op[q].kind \in Kinds /\ Good(op[q], todo[q], held[q])
         /\ \/ Brought(op[q], held[q], <<s, <<f, r>>>>)
            \/ \E i \in DOMAIN Steps[op[q].kind] :
                 /\ Session(op[q].kind, i) = s /\ Family(op[q].kind, i) = f
                 /\ r \in Rows(op[q], i) /\ Past(todo[q], i, r)
<1>1. op[q] # Idle
  BY DEF Inv, Kept
<1>2. op[q] \in Ops /\ op[q].kind \in Kinds /\ Good(op[q], todo[q], held[q])
  BY <1>1 DEF Inv, Shapes, Kept, Ops
<1>3. \/ Brought(op[q], held[q], <<s, <<f, r>>>>)
      \/ \E i \in DOMAIN Steps[op[q].kind] : \E z \in Rows(op[q], i) :
           Past(todo[q], i, z) /\ <<s, <<f, r>>>> = Lock(op[q], i, z)
  BY <1>2 DEF Good
<1> QED BY <1>2, <1>3 DEF Lock

\* A step that is passed has its locks.
LEMMA Passed ==
  ASSUME NEW o, NEW t, NEW h, Good(o, t, h), NEW i \in DOMAIN Steps[o.kind], NEW r,
         NEW j \in DOMAIN Steps[o.kind], i < j, r \in Rows(o, i), t = Nothing \/ j <= t.at,
         i \in Nat, j \in Nat, t # Nothing => t.at \in Nat
  PROVE  <<Session(o.kind, i), <<Family(o.kind, i), r>>>> \in h
<1>1. Past(t, i, r)
  BY DEF Past
<1> QED BY <1>1 DEF Good, Lock

\* Who has a call also has its gate, or is a deletion that locked what it had not
\* discovered before.
LEMMA GateOfCall ==
  ASSUME Inv, NEW q \in Procs, NEW s, NEW r, <<s, <<"call", r>>>> \in held[q]
  PROVE  /\ s = "main"
         /\ \/ \E z \in Sessions : <<z, <<"gate", r>>>> \in held[q]
            \/ op[q].kind = "deleting" /\ (todo[q] = Nothing \/ todo[q].at >= 5)
<1> DEFINE o == op[q]  k == op[q].kind  t == todo[q]
<1>1. o \in Ops /\ k \in Kinds /\ Good(o, t, held[q])
  BY Holds
<1>2. CASE Brought(o, held[q], <<s, <<"call", r>>>>)
  BY <1>2 DEF Brought, Sessions
<1>3. ASSUME NEW i \in DOMAIN Steps[k], Session(k, i) = s, Family(k, i) = "call",
             r \in Rows(o, i), Past(t, i, r)
      PROVE  /\ s = "main"
             /\ \/ \E z \in Sessions : <<z, <<"gate", r>>>> \in held[q]
                \/ k = "deleting" /\ (t = Nothing \/ t.at >= 5)
  <2>1. t # Nothing => t.at \in Nat
    BY DEF Inv, Shapes, Todos
  <2>2. ASSUME 1 \in DOMAIN Steps[k], Family(k, 1) = "gate", 1 < i, i \in Nat
        PROVE  <<Session(k, 1), <<"gate", r>>>> \in held[q]
    <3>1. r \in Rows(o, 1)
      BY <1>3, <2>2 DEF Rows, RowsOf, Shared
    <3>2. t = Nothing \/ i <= t.at
      BY <1>3, <2>1, <2>2 DEF Past
    <3> QED BY <1>1, <2>1, <2>2, <3>1, <3>2, Passed
  <2>3. CASE k \in Scopes
    BY <1>3, <2>2, <2>3, Scoped DEF Scopes, Sessions
  <2>4. CASE k = "write"
    <3>1. i = 3 /\ s = "main" /\ Session(k, 1) = "guard"
      BY <1>3, <2>4, WriteSteps
    <3> QED BY <2>2, <2>4, <3>1, WriteSteps DEF Sessions
  <2>5. CASE k = "deleting"
    BY <1>3, <2>1, <2>5, DeletingSteps DEF Past
  <2>6. k # "supplement"
    BY <1>3, Supplements
  <2> QED BY <1>1, <1>3, <2>3, <2>4, <2>5, <2>6, CallKinds
<1> QED BY <1>2, <1>3, Holds

\* Who has a call or an interrupt and waits for more also has the task, or the turn
\* of the interrupt.  A write that has its call waits no more.
LEMMA TaskOrTurn ==
  ASSUME Inv, NEW q \in Procs, NEW s, NEW f \in {"call", "interrupt"}, NEW r,
         <<s, <<f, r>>>> \in held[q], Asking(q) # {}
  PROVE  /\ s = "main"
         /\ \/ <<"main", <<"task", 0>>>> \in held[q]
            \/ <<"main", <<"turn", r>>>> \in held[q]
<1> DEFINE o == op[q]  k == op[q].kind  t == todo[q]
<1>1. o \in Ops /\ k \in Kinds /\ Good(o, t, held[q])
  BY Holds
<1>2. t # Nothing /\ t \in Todos /\ t.at \in DOMAIN Steps[k]
  BY Asks
<1>3. CASE Brought(o, held[q], <<s, <<f, r>>>>)
  <2>1. k = "deleting" => <<"main", <<"task", 0>>>> \in held[q]
    BY <1>1 DEF Good
  <2> QED BY <1>3, <2>1 DEF Brought
<1>4. ASSUME NEW i \in DOMAIN Steps[k], Session(k, i) = s, Family(k, i) = f,
             r \in Rows(o, i), Past(t, i, r)
      PROVE  /\ s = "main"
             /\ \/ <<"main", <<"task", 0>>>> \in held[q]
                \/ <<"main", <<"turn", r>>>> \in held[q]
  <2>1. t.at \in Nat /\ (i \in Nat => i <= t.at)
    BY <1>2, <1>4 DEF Todos, Past
  <2>2. CASE k \in Scopes
    <3>1. /\ \E n \in {10, 11} : DOMAIN Steps[k] = 1 .. n
          /\ i > 4 /\ Family(k, 4) = "task" /\ Session(k, 4) = "main" /\ s = "main"
      BY <1>4, <2>2, Scoped DEF Scopes
    <3>2. 4 \in DOMAIN Steps[k] /\ i \in Nat
      BY <3>1
    <3>3. 0 \in Rows(o, 4)
      BY <3>1 DEF Rows, RowsOf, Shared
    <3>4. <<Session(k, 4), <<Family(k, 4), 0>>>> \in held[q]
      BY <1>1, <2>1, <3>1, <3>2, <3>3, Passed
    <3> QED BY <3>1, <3>4
  <2>3. k # "write"
    <3> SUFFICES ASSUME k = "write" PROVE FALSE
      OBVIOUS
    <3>1. DOMAIN Steps[k] = 1 .. 3 /\ i = 3 /\ Family(k, i) = "call"
      BY <1>4, WriteSteps
    <3>2. t.at = 3 /\ r \notin t.rows
      BY <1>2, <1>4, <2>1, <3>1 DEF Past
    <3>3. PICK z \in Runs : o.rows = {z}
      BY <1>1 DEF Good, Whole
    <3>4. Rows(o, i) = {z}
      BY <3>1, <3>3 DEF Rows, RowsOf, Shared
    <3>5. t.rows # {} /\ t.rows \subseteq Rows(o, i)
      BY <1>1, <1>2, <3>1, <3>2 DEF Good, At
    <3> QED BY <1>4, <3>2, <3>4, <3>5
  <2>4. CASE k = "deleting"
    <3>1. <<"main", <<"task", 0>>>> \in held[q]
      BY <1>1, <2>4 DEF Good
    <3> QED BY <1>4, <2>4, <3>1, DeletingSteps
  <2>5. CASE k = "supplement"
    <3>1. /\ DOMAIN Steps[k] = 1 .. 6 /\ i = 6 /\ Family(k, 2) = "turn" /\ Session(k, 2) = "main"
          /\ s = "main" /\ Family(k, i) = "interrupt"
      BY <1>4, <2>5, Supplements
    <3>2. r \in Rows(o, 2)
      BY <1>4, <3>1 DEF Rows, RowsOf, Shared
    <3>3. <<Session(k, 2), <<Family(k, 2), r>>>> \in held[q]
      BY <1>1, <2>1, <3>1, <3>2, Passed
    <3> QED BY <3>1, <3>3
  <2> QED BY <1>1, <1>4, <2>2, <2>3, <2>4, <2>5, CallKinds
<1> QED BY <1>3, <1>4, Holds

\* An executor does not wait in a circle for a call of its own run.
LEMMA LaneMoves ==
  ASSUME Inv, NEW D \in SUBSET Procs, Stuck(D), NEW q \in D, op[q].kind = "write",
         NEW b \in Asking(q), b.by = "main"
  PROVE  FALSE
<1>1. PICK u \in D, a \in Asking(q), s \in Sessions : Keeps(u, s, q, a)
  BY DEF Stuck, WaitsFor
<1>2. /\ Good(op[q], todo[q], held[q]) /\ todo[q] # Nothing /\ todo[q] \in Todos
      /\ todo[q].at \in DOMAIN Steps[op[q].kind]
      /\ a.by = Session(op[q].kind, todo[q].at) /\ b.by = a.by
  BY Asks
<1>3. PICK r \in Least(todo[q].rows) : a.on = <<Family(op[q].kind, todo[q].at), r>>
  BY Asks
<1>4. todo[q].at = 3 /\ a.on = <<"call", r>>
  BY <1>2, <1>3, WriteSteps
<1>5. <<"guard", <<"gate", r>>>> \in held[q]
  <2>1. r \in Rows(op[q], 3)
    BY <1>2, <1>3, <1>4 DEF Good, At, Least
  <2>2. r \in Rows(op[q], 1)
    BY <2>1, WriteSteps DEF Rows, RowsOf, Shared
  <2>3. <<Session(op[q].kind, 1), <<Family(op[q].kind, 1), r>>>> \in held[q]
    BY <1>2, <1>4, <2>2, Passed, WriteSteps
  <2> QED BY <2>3, WriteSteps
<1>6. <<s, <<"call", r>>>> \in held[u] /\ <<u, s>> # <<q, "main">>
  BY <1>1, <1>2, <1>4 DEF Keeps
<1>7. s = "main" /\ op[u].kind = "deleting" /\ (todo[u] = Nothing \/ todo[u].at >= 5)
  <2>1. ASSUME NEW z \in Sessions, <<z, <<"gate", r>>>> \in held[u] PROVE u = q
    BY <1>5, <2>1, OneOwner
  <2> QED BY <1>6, <2>1, GateOfCall
<1>8. PICK v \in D, c \in Asking(u), z \in Sessions : Keeps(v, z, u, c)
  BY DEF Stuck, WaitsFor
<1>9. Asking(v) # {}
  BY DEF Stuck, WaitsFor
<1>10. /\ Good(op[u], todo[u], held[u]) /\ todo[u] # Nothing /\ todo[u] \in Todos
       /\ todo[u].at \in DOMAIN Steps[op[u].kind] /\ c.by = Session(op[u].kind, todo[u].at)
  BY <1>8, Asks
<1>11. PICK w \in Least(todo[u].rows) : c.on = <<Family(op[u].kind, todo[u].at), w>>
  BY <1>8, Asks
<1>12. c.by = "main" /\ <<z, c.on>> \in held[v] /\ <<v, z>> # <<u, "main">>
  BY <1>7, <1>8, <1>10, DeletingSteps DEF Keeps
<1>13. w \in Rows(op[u], todo[u].at)
  BY <1>10, <1>11 DEF Good, At, Least
<1>14. <<"main", <<"task", 0>>>> \in held[u]
  BY <1>7, <1>10 DEF Good
<1>15. CASE todo[u].at = 7
  <2>1. Family(op[u].kind, 7) = "task"
    BY <1>7, DeletingSteps
  <2>2. w = 0
    BY <1>13, <1>15, <2>1 DEF Rows, RowsOf, Shared
  <2>3. <<z, <<"task", 0>>>> \in held[v]
    BY <1>11, <1>12, <1>15, <2>1, <2>2
  <2>4. u = v /\ z = "main"
    BY <1>14, <2>3, OneOwner
  <2> QED BY <1>12, <2>4
<1>16. CASE todo[u].at \in {5, 6}
  <2>1. Family(op[u].kind, todo[u].at) \in {"call", "interrupt"}
    BY <1>7, <1>16, DeletingSteps
  <2>2. <<"main", <<"turn", w>>>> \in held[u]
    <3>1. w \in Rows(op[u], 1)
      BY <1>7, <1>13, <2>1, DeletingSteps DEF Rows, RowsOf, Shared
    <3>2. <<Session(op[u].kind, 1), <<Family(op[u].kind, 1), w>>>> \in held[u]
      BY <1>7, <1>10, <1>16, <3>1, Passed, DeletingSteps
    <3> QED BY <1>7, <3>2, DeletingSteps
  <2>3. /\ z = "main"
        /\ \/ <<"main", <<"task", 0>>>> \in held[v]
           \/ <<"main", <<"turn", w>>>> \in held[v]
    BY <1>9, <1>11, <1>12, <2>1, TaskOrTurn
  <2>4. u = v
    BY <1>14, <2>2, <2>3, OneOwner DEF Sessions
  <2> QED BY <1>12, <2>3, <2>4
<1> QED BY <1>7, <1>10, <1>15, <1>16, DeletingSteps

\* In a circle everyone waits for a session that waits.
LEMMA CirclesAreSeen ==
  ASSUME Inv, NEW D \in SUBSET Procs, Stuck(D), NEW p \in D, NEW q \in D, WaitsFor(p, q)
  PROVE  Visible(p, q)
<1>1. PICK a \in Asking(p), s \in Sessions : Keeps(q, s, p, a)
  BY DEF WaitsFor
<1>2. PICK b \in Asking(q) : TRUE
  BY DEF Stuck, WaitsFor
<1> DEFINE o == op[q]  k == op[q].kind  t == todo[q]
<1>3. /\ o \in Ops /\ k \in Kinds /\ Good(o, t, held[q]) /\ t # Nothing /\ t \in Todos
      /\ t.at \in DOMAIN Steps[k] /\ b.by = Session(k, t.at)
  BY <1>2, Asks DEF Ops
<1>4. p = q => a.by = b.by
  BY <1>1, <1>3, Asks
<1>5. PICK f, r : a.on = <<f, r>>
  BY <1>1, Asks
<1>6. <<s, <<f, r>>>> \in held[q] /\ <<q, s>> # <<p, a.by>>
  BY <1>1, <1>5 DEF Keeps
<1>7. b.by = s
  <2>1. CASE Brought(o, held[q], <<s, <<f, r>>>>)
    BY <1>3, <2>1, FamilyType DEF Brought
  <2>2. ASSUME NEW i \in DOMAIN Steps[k], Session(k, i) = s, Past(t, i, r)
        PROVE  b.by = s
    <3>1. CASE k # "write"
      BY <1>3, <2>2, <3>1, FamilyType
    <3>2. CASE k = "write"
      <4>1. b.by # "main"
        BY <1>2, <3>2, LaneMoves
      <4>2. DOMAIN Steps[k] = 1 .. 3 /\ t.at \in 1 .. 2
        BY <1>3, <3>2, <4>1, WriteSteps
      <4>3. i \in 1 .. 2
        BY <1>3, <2>2, <4>2 DEF Past
      <4> QED BY <1>3, <2>2, <3>2, <4>2, <4>3, WriteSteps
    <3> QED BY <3>1, <3>2
  <2> QED BY <1>6, <2>1, <2>2, Holds
<1>8. p # q
  BY <1>4, <1>6, <1>7
<1> QED BY <1>1, <1>2, <1>7, <1>8 DEF Visible

LEMMA InvSeen == Inv => DatabaseSeesDeadlocks
<1> SUFFICES ASSUME Inv, NEW D \in SUBSET Procs, Stuck(D) PROVE Detected(D)
  BY DEF DatabaseSeesDeadlocks
<1> QED BY CirclesAreSeen DEF Stuck, Detected

\* Whenever processes wait for each other in a circle, the database sees the
\* circle and can break it: nobody waits behind the account lane for an
\* executor that in turn waits for the lane's own guard.
THEOREM CirclesBreak == Spec => []DatabaseSeesDeadlocks
BY InvAlways, InvSeen, PTL

===============================================================================
