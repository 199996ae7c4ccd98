------------------------- MODULE CompositeSkillsProofs -------------------------
(***************************************************************************)
(* Theorems about CompositeSkills, for a chain of any length, any set of   *)
(* gated children, any number of versions and deaths: gated children start *)
(* from accepted artifacts, a completed iteration has all its parts, and   *)
(* what is completed stays so.                                             *)
(*                                                                         *)
(* The executor reads in one transaction and acts in a later one.  The     *)
(* argument is that it relies on facts only that no person can undo: an    *)
(* artifact that was accepted once, a child that is completed, a decision  *)
(* that is taken, a plan that is delivered.                                *)
(***************************************************************************)
EXTENDS CompositeSkills, SequenceTheorems, WellFoundedInduction, TLAPS

RunStatuses == {"queued", "running"} \cup Paused \cup Terminal
Parents == [status: {"running", "waiting_permission"} \cup Terminal, waits: 0..Last,
            done: SUBSET Nodes]
Marks == {"pending", "approved", "rejected", "superseded"}
Execs == [at: {"idle", "plan", "gate", "child", "work", "result", "review", "answer"},
          node: 0..Last, done: SUBSET Nodes, answer: Statuses \cup Paused]

Types ==
  /\ weekly \in BOOLEAN /\ decided \in BOOLEAN
  /\ run \in RunStatuses /\ parent \in Parents
  /\ child \in [Nodes -> Statuses] /\ stream \in [Nodes -> Seq(Marks)]
  /\ plan \in 0..1 /\ schedule \in 0..1 /\ accepted \in SUBSET Nodes
  /\ exec \in Execs

Completed == {n \in Nodes : child[n] = "completed"}

\* What a node has written, and where it started from.
NodeOk(n) ==
  /\ Len(stream[n]) <= MaxVersions
  /\ child[n] \in {"none", "running"} => stream[n] = <<>>
  /\ child[n] = "waiting_permission" => stream[n] # <<>>
  /\ n # Last /\ Approved(n) => n \in accepted
  /\ n \in Gated /\ ~weekly /\ child[n] # "none" => n - 1 \in accepted

\* Only the decision about the package completes the last child.
Decision ==
  /\ ~weekly => schedule = 0
  /\ child[Last] # "needs_review"
  /\ child[Last] = "completed" => decided /\ (weekly <=> schedule = 1)

Delivered == Completed = Nodes /\ plan = 1

\* The executor relies on what cannot change between two of its transactions.
ExecOk ==
  /\ exec.done \subseteq Completed /\ parent.done \subseteq Completed
  /\ exec.at \in {"gate", "child", "work", "result", "review"} => exec.node \in Nodes
  /\ exec.at = "gate" => NeedsAccepted(exec.node)
  /\ exec.at = "child" /\ NeedsAccepted(exec.node) => exec.node - 1 \in accepted
  /\ exec.at = "work" => stream[exec.node] = <<>> /\ child[exec.node] \in {"running", "stopped"}
  /\ exec.at = "result" =>
       /\ exec.answer \in Terminal \cup {"needs_review", "waiting_permission"}
       /\ exec.answer = "completed" => child[exec.node] = "completed"
  /\ exec.at = "answer" =>
       /\ exec.answer \in Paused \cup Terminal
       /\ exec.answer = "completed" => Delivered

Inv ==
  /\ Types
  /\ run \in Terminal => parent.status = run
  /\ run = "completed" => Delivered
  /\ \A n \in Nodes : NodeOk(n)
  /\ Decision
  /\ ExecOk

------------------------------------------------------------------------------
(* Operators. *)

\* The chain goes on with one of its children, and the first is not gated.
LEMMA NextIsNode ==
  ASSUME exec.done \in SUBSET Nodes, exec.done # Nodes
  PROVE  Next1 \in Nodes
<1> DEFINE Less == OpToRel(<, Nat)
<1> DEFINE Left == Nodes \ exec.done
<1>1. Left \subseteq Nat /\ Left # {}
  <2>1. \E n \in Nodes : n \notin exec.done
    OBVIOUS
  <2>2. Nodes \subseteq Nat
    BY ChainAssumption DEF Nodes
  <2> QED BY <2>1, <2>2
<1>2. \A a, b \in Nat : a < b => <<a, b>> \in Less
  BY DEF OpToRel
<1>3. IsWellFoundedOn(Less, Nat)
  BY NatLessThanWellFounded
<1> HIDE DEF Less
<1>4. PICK m \in Left : \A n \in Left : ~ (<<n, m>> \in Less)
  BY <1>1, <1>3, WFMin
<1>5. \A n \in Left : m <= n
  <2> TAKE n \in Left
  <2>1. n \in Nat /\ m \in Nat /\ ~ (n < m)
    BY <1>1, <1>2, <1>4
  <2> QED BY <2>1
<1> QED BY <1>5 DEF Next1

\* A closure of the parent: the first end wins, and run and parent end together.
LEMMA CloseParentKeeps ==
  ASSUME run \in RunStatuses, parent \in Parents, run \in Terminal => parent.status = run,
         NEW status \in Paused \cup Terminal, NEW waits \in 0..Last, NEW done \in SUBSET Nodes,
         CloseParent(status, waits, done)
  PROVE  /\ run' \in RunStatuses /\ parent' \in Parents
         /\ run' \in Terminal => parent'.status = run'
         /\ parent'.done \in {done, parent.done}
         /\ run' = "completed" => "completed" \in {run, status}
<1>1. CASE run \in Terminal
  <2>1. run' = run /\ parent' = [parent EXCEPT !.status = run]
    BY <1>1 DEF CloseParent, Wins, SkillStatus, Terminal, Paused
  <2> QED BY <1>1, <2>1 DEF Parents
<1>2. CASE run \notin Terminal
  <2>1. /\ run' = status
        /\ parent' = [status |-> SkillStatus(status), waits |-> waits, done |-> done]
    BY <1>2 DEF CloseParent, Wins
  <2>2. /\ SkillStatus(status) \in {"running", "waiting_permission"} \cup Terminal
        /\ status \in Terminal => SkillStatus(status) = status
    BY DEF SkillStatus, Terminal, Paused
  <2> QED BY <2>1, <2>2 DEF Parents, RunStatuses
<1> QED BY <1>1, <1>2

\* What an executor does to its run and parent leaves the chain as it is.
LEMMA ChainStays ==
  ASSUME Inv, UNCHANGED <<weekly, child, stream, schedule, decided, accepted>>,
         run' \in RunStatuses, parent' \in Parents, plan' \in {plan, 1}, exec' \in Execs,
         run' \in Terminal => parent'.status = run',
         run' = "completed" => Delivered',
         ExecOk'
  PROVE  Inv'
<1>1. Types'
  BY DEF Inv, Types
<1>2. \A n \in Nodes : NodeOk(n)'
  BY DEF Inv, NodeOk, Approved
<1>3. Decision'
  BY DEF Inv, Decision
<1> QED BY <1>1, <1>2, <1>3 DEF Inv

\* The executor moves on and the rows stay as they are.
LEMMA MovesOn ==
  ASSUME Inv, UNCHANGED <<weekly, rows>>, NEW x \in Execs, exec' = x,
         x.done \subseteq Completed,
         x.at \in {"gate", "child", "work", "result", "review"} => x.node \in Nodes,
         x.at = "gate" => NeedsAccepted(x.node),
         x.at = "child" /\ NeedsAccepted(x.node) => x.node - 1 \in accepted,
         x.at = "work" => stream[x.node] = <<>> /\ child[x.node] \in {"running", "stopped"},
         x.at = "result" =>
           /\ x.answer \in Terminal \cup {"needs_review", "waiting_permission"}
           /\ x.answer = "completed" => child[x.node] = "completed",
         x.at # "answer"
  PROVE  Inv'
<1>1. ExecOk'
  BY DEF Inv, ExecOk, rows, Completed, NeedsAccepted
<1>2. plan' = plan /\ run' = run /\ parent' = parent /\ (run' = "completed" => Delivered')
  BY DEF Inv, Delivered, Completed, rows
<1> QED BY <1>1, <1>2, ChainStays DEF Inv, Types, rows

\* The executor closes its parent and has its answer; only a chain that is delivered
\* is answered as completed.
LEMMA PausesKeep ==
  ASSUME Inv, NEW status \in Paused \cup Terminal, NEW waits \in 0..Last,
         CloseParent(status, waits, exec.done),
         exec' = [exec EXCEPT !.at = "answer", !.answer = Wins(status)],
         UNCHANGED <<weekly, child, stream, schedule, decided, accepted>>,
         plan' \in {plan, 1}, status = "completed" => Delivered'
  PROVE  Inv'
<1>1. /\ run \in RunStatuses /\ parent \in Parents /\ (run \in Terminal => parent.status = run)
      /\ exec \in Execs /\ plan \in 0..1
  BY DEF Inv, Types
<1>2. exec.done \in SUBSET Nodes /\ exec.done \subseteq Completed /\ parent.done \subseteq Completed
  BY DEF Inv, ExecOk, Completed
<1>3. /\ run' \in RunStatuses /\ parent' \in Parents
      /\ run' \in Terminal => parent'.status = run'
      /\ parent'.done \in {exec.done, parent.done}
      /\ run' = "completed" => "completed" \in {run, status}
  BY <1>1, <1>2, CloseParentKeeps
<1>4. run' = "completed" => Delivered'
  <2>1. run = "completed" => Delivered'
    BY <1>1 DEF Inv, Delivered, Completed
  <2> QED BY <1>3, <2>1
<1> PICK x : x = [exec EXCEPT !.at = "answer", !.answer = run']
  OBVIOUS
<1>5. run' = Wins(status) /\ run' \in Paused \cup Terminal
  BY DEF CloseParent, Wins
<1>6. x \in Execs /\ x.at = "answer" /\ x.answer = run' /\ x.done = exec.done
  BY <1>1, <1>5 DEF Execs, Statuses
<1>7. exec' = x
  BY <1>5
<1>8. ExecOk'
  BY <1>2, <1>3, <1>4, <1>5, <1>6, <1>7 DEF ExecOk, Completed
<1> QED BY <1>3, <1>4, <1>6, <1>7, <1>8, ChainStays

\* A child that completed is done.
LEMMA DoneKeeps ==
  ASSUME Inv, exec.node \in Completed, UNCHANGED <<weekly, rows>>,
         exec' = [exec EXCEPT !.at = "plan", !.done = @ \cup {exec.node}, !.answer = "none"]
  PROVE  Inv'
<1> PICK x : x = [exec EXCEPT !.at = "plan", !.done = @ \cup {exec.node}, !.answer = "none"]
  OBVIOUS
<1>1. exec \in Execs /\ exec.done \subseteq Completed /\ exec.node \in Nodes
  BY DEF Inv, Types, ExecOk, Completed
<1>2. x \in Execs /\ x.at = "plan" /\ x.done = exec.done \cup {exec.node}
  BY <1>1 DEF Execs, Statuses
<1> QED BY <1>1, <1>2, MovesOn

------------------------------------------------------------------------------
(* The executor's steps. *)

\* An idle executor relies on nothing.
LEMMA IdleTypes == Idle \in Execs /\ Idle.at = "idle" /\ Idle.done = {}
BY ChainAssumption DEF Idle, Execs, Statuses

\* Whoever takes the run starts with what the parent reports as done.
LEMMA TakeKeeps == ASSUME Inv, Take PROVE Inv'
<1>1. parent \in Parents /\ run' = "running" /\ UNCHANGED <<weekly, parent, child, stream, plan, schedule, decided, accepted>>
  BY DEF Take, Inv, Types
<1>2. PICK x \in Execs : exec' = x /\ x.at \in {"idle", "plan"} /\ x.done \in {{}, parent.done}
  <2>1. CASE parent.status = "running"
    <3> PICK x : x = [Idle EXCEPT !.at = "plan", !.done = parent.done]
      OBVIOUS
    <3>1. x \in Execs /\ x.at = "plan" /\ x.done = parent.done
      BY <1>1, IdleTypes DEF Execs, Parents
    <3>2. exec' = x
      BY <2>1 DEF Take
    <3> QED BY <3>1, <3>2
  <2>2. CASE parent.status # "running"
    BY <2>2, IdleTypes DEF Take
  <2> QED BY <2>1, <2>2
<1>3. ExecOk'
  BY <1>1, <1>2 DEF Inv, ExecOk, Completed
<1> QED BY <1>1, <1>2, <1>3, ChainStays DEF RunStatuses, Terminal

\* The next child waits at its gate unless it needs none, or what it needs is accepted.
LEMMA ChooseKeeps == ASSUME Inv, Choose PROVE Inv'
<1>1. exec \in Execs /\ exec.done \subseteq Completed /\ UNCHANGED <<weekly, rows>>
  BY DEF Inv, Types, ExecOk, Choose
<1>2. Next1 \in Nodes
  BY <1>1, NextIsNode DEF Choose, Execs
<1> PICK n \in Nodes : n = Next1
  BY <1>2
<1>3. PICK at \in {"gate", "child"} :
        /\ exec' = [exec EXCEPT !.node = n, !.at = at]
        /\ at = "gate" => NeedsAccepted(n)
        /\ at = "child" /\ NeedsAccepted(n) => Approved(n - 1)
  BY DEF Choose
<1>4. PICK x : x = [exec EXCEPT !.node = n, !.at = at]
  OBVIOUS
<1>5. x \in Execs /\ x.at = at /\ x.node = n /\ x.done = exec.done
  <2>1. n \in 0..Last
    BY ChainAssumption DEF Nodes
  <2> QED BY <1>1, <1>4, <2>1 DEF Execs
<1>6. at = "child" /\ NeedsAccepted(n) => n - 1 \in accepted
  BY <1>3, ChainAssumption DEF NeedsAccepted, Inv, NodeOk, Nodes
<1> QED BY <1>1, <1>3, <1>4, <1>5, <1>6, MovesOn

\* Under the lock of the gate the artifact is accepted, or the parent waits for it.
LEMMA GateKeeps == ASSUME Inv, Gate PROVE Inv'
<1>1. /\ exec \in Execs /\ exec.done \subseteq Completed /\ exec.node \in Nodes
      /\ NeedsAccepted(exec.node) /\ run \in RunStatuses /\ parent \in Parents
  BY DEF Inv, Types, ExecOk, Gate
<1>2. exec.node - 1 \in Nodes \ {Last} /\ exec.node - 1 \in 0..Last
  BY <1>1, ChainAssumption DEF NeedsAccepted, Nodes
<1>3. CASE Approved(exec.node - 1)
  <2>1. exec.node - 1 \in accepted
    BY <1>2, <1>3 DEF Inv, NodeOk
  <2> PICK x : x = [exec EXCEPT !.at = "child"]
    OBVIOUS
  <2>2. x \in Execs /\ x.at = "child" /\ x.node = exec.node /\ x.done = exec.done
    BY <1>1 DEF Execs
  <2>3. exec' = x /\ UNCHANGED <<weekly, rows>>
    BY <1>3 DEF Gate, rows
  <2> QED BY <1>1, <2>1, <2>2, <2>3, MovesOn
<1>4. CASE ~Approved(exec.node - 1)
  <2>1. /\ CloseParent("waiting_user", exec.node - 1, exec.done)
        /\ exec' = [exec EXCEPT !.at = "answer", !.answer = Wins("waiting_user")]
        /\ UNCHANGED <<weekly, child, stream, plan, schedule, decided, accepted, crashes>>
    BY <1>4 DEF Gate
  <2>2. "waiting_user" \in Paused \cup Terminal
    BY DEF Paused
  <2> QED BY <1>2, <2>1, <2>2, PausesKeep
<1> QED BY <1>3, <1>4

\* One node moves, and nothing that is completed or accepted is undone.
LEMMA NodeMoves ==
  ASSUME Inv, Types', UNCHANGED <<weekly, plan>>, accepted \subseteq accepted',
         NEW n \in Nodes,
         \A m \in Nodes \ {n} : child'[m] = child[m] /\ stream'[m] = stream[m],
         child[n] = "completed" => child'[n] = "completed",
         run' \in Terminal => parent'.status = run',
         run' = "completed" => run = "completed",
         NodeOk(n)', Decision', ExecOk'
  PROVE  Inv'
<1>1. \A m \in Nodes : NodeOk(m)'
  BY DEF Inv, NodeOk, Approved
<1>2. Delivered => Delivered'
  BY DEF Delivered, Completed
<1> QED BY <1>1, <1>2 DEF Inv

\* A child is answered as it is, resumed, or created unless the run ended.
LEMMA StartChildKeeps == ASSUME Inv, StartChild PROVE Inv'
<1> PICK n \in Nodes : n = exec.node
  BY DEF Inv, ExecOk, StartChild
<1>1. /\ Types /\ ExecOk /\ NodeOk(n) /\ Decision
      /\ exec \in Execs /\ exec.at = "child" /\ exec.done \subseteq Completed
      /\ child[n] \in Statuses
      /\ UNCHANGED <<weekly, parent, stream, plan, schedule, decided, accepted, crashes>>
  BY DEF Inv, Types, ExecOk, StartChild
<1>2. CASE Settled(child[n]) /\ exec' = [exec EXCEPT !.at = "result", !.answer = child[n]]
           /\ UNCHANGED <<run, child>>
  <2> PICK x : x = [exec EXCEPT !.at = "result", !.answer = child[n]]
    OBVIOUS
  <2>1. x \in Execs /\ x.at = "result" /\ x.answer = child[n] /\ x.node = n /\ x.done = exec.done
    BY <1>1 DEF Execs
  <2>2. UNCHANGED <<weekly, rows>>
    BY <1>1, <1>2 DEF rows
  <2> QED BY <1>1, <1>2, <2>1, <2>2, MovesOn DEF Settled
<1> PICK x : x = [exec EXCEPT !.at = "work"]
  OBVIOUS
<1>3. x \in Execs /\ x.at = "work" /\ x.node = n /\ x.done = exec.done
  BY <1>1 DEF Execs
<1>4. CASE child[n] # "none" /\ ~Settled(child[n]) /\ exec' = [exec EXCEPT !.at = "work"]
           /\ UNCHANGED <<run, child>>
  <2>1. child[n] = "running" /\ stream[n] = <<>>
    BY <1>1, <1>4 DEF Statuses, Settled, NodeOk
  <2>2. UNCHANGED <<weekly, rows>>
    BY <1>1, <1>4 DEF rows
  <2> QED BY <1>1, <1>3, <1>4, <2>1, <2>2, MovesOn
<1>5. CASE child[n] = "none" /\ child' = [child EXCEPT ![n] = "running"]
           /\ exec' = [exec EXCEPT !.at = "work"] /\ UNCHANGED run
  <2>1. child'[n] = "running" /\ \A m \in Nodes \ {n} : child'[m] = child[m]
    BY <1>1, <1>5 DEF Types
  <2>2. Types'
    BY <1>1, <1>3, <1>5 DEF Types, Statuses
  <2>3. stream[n] = <<>> /\ Len(stream[n]) = 0 /\ ~Approved(n)'
    BY <1>1, <1>5, EmptySeq DEF NodeOk, Approved
  <2>4. n \in Gated /\ ~weekly => n - 1 \in accepted
    BY <1>1 DEF ExecOk, NeedsAccepted
  <2>5. NodeOk(n)'
    BY <1>1, <2>1, <2>3, <2>4, BoundsAssumption DEF NodeOk
  <2>6. Decision'
    BY <1>1, <2>1, ChainAssumption DEF Decision, Nodes
  <2>7. Completed \subseteq Completed'
    BY <1>5, <2>1 DEF Completed
  <2>8. ExecOk'
    BY <1>1, <1>3, <1>5, <2>1, <2>3, <2>7 DEF ExecOk
  <2> QED BY <1>1, <1>5, <2>1, <2>2, <2>5, <2>6, <2>8, NodeMoves DEF Inv
<1>6. CASE exec' = Idle /\ UNCHANGED <<run, child>>
  <2>1. UNCHANGED <<weekly, rows>>
    BY <1>1, <1>6 DEF rows
  <2> QED BY <1>6, <2>1, IdleTypes, MovesOn
<1> QED BY <1>2, <1>4, <1>5, <1>6 DEF StartChild

\* A child writes its first artifact and ends, or stays stopped.
LEMMA FinishChildKeeps == ASSUME Inv, FinishChild PROVE Inv'
<1> PICK n \in Nodes : n = exec.node
  BY DEF Inv, ExecOk, FinishChild
<1>1. /\ Types /\ ExecOk /\ NodeOk(n) /\ Decision
      /\ exec \in Execs /\ exec.done \subseteq Completed
      /\ stream[n] = <<>> /\ child[n] \in {"running", "stopped"}
      /\ UNCHANGED <<weekly, run, parent, plan, schedule, decided, accepted, crashes>>
  BY DEF Inv, Types, ExecOk, FinishChild
<1>2. PICK outcome \in Outcomes(n) :
        /\ child' = [child EXCEPT ![n] = IF @ \in Terminal THEN @ ELSE outcome]
        /\ stream' = IF outcome = "blocked" THEN stream
                     ELSE [stream EXCEPT ![n] = Append(@, "pending")]
        /\ exec' = [exec EXCEPT !.at = "result", !.answer = child'[n]]
  BY DEF FinishChild
<1> PICK s \in Statuses : s = IF child[n] \in Terminal THEN child[n] ELSE outcome
  BY <1>1 DEF Outcomes, Statuses, Terminal, Types
<1>3. /\ s \in {"stopped", outcome} /\ (s # "stopped" => s = outcome)
      /\ s \in Terminal \cup {"needs_review", "waiting_permission"}
      /\ n = Last => s \in {"stopped", "blocked", "waiting_permission"}
      /\ outcome \in {"blocked", "completed", "needs_review", "waiting_permission"}
  BY <1>1 DEF Outcomes, Terminal
<1>4. child' = [child EXCEPT ![n] = s] /\ child'[n] = s /\ \A m \in Nodes \ {n} : child'[m] = child[m]
  BY <1>1, <1>2 DEF Types
<1>5. /\ stream' \in [Nodes -> Seq(Marks)] /\ \A m \in Nodes \ {n} : stream'[m] = stream[m]
      /\ Len(stream'[n]) <= 1 /\ ~Approved(n)' /\ (stream'[n] = <<>> => outcome = "blocked")
  <2>1. CASE outcome = "blocked"
    BY <1>1, <1>2, <2>1, EmptySeq DEF Types, Approved
  <2>2. CASE outcome # "blocked"
    <3>1. "pending" \in Marks /\ stream[n] \in Seq(Marks) /\ Len(stream[n]) = 0
      BY <1>1, EmptySeq DEF Marks, Types
    <3> PICK a : a = Append(stream[n], "pending")
      OBVIOUS
    <3>2. a \in Seq(Marks) /\ a # <<>> /\ Len(a) = 1 /\ a[1] = "pending"
      BY <3>1, AppendProperties
    <3>3. stream' = [stream EXCEPT ![n] = a]
      BY <1>2, <2>2
    <3>4. stream'[n] = a /\ stream' \in [Nodes -> Seq(Marks)]
          /\ \A m \in Nodes \ {n} : stream'[m] = stream[m]
      BY <1>1, <3>2, <3>3 DEF Types
    <3> QED BY <3>2, <3>4 DEF Approved
  <2> QED BY <2>1, <2>2
<1> PICK x : x = [exec EXCEPT !.at = "result", !.answer = s]
  OBVIOUS
<1>6. /\ x \in Execs /\ x.at = "result" /\ x.answer = s /\ x.node = n /\ x.done = exec.done
      /\ exec' = x
  BY <1>1, <1>2, <1>4 DEF Execs
<1>7. Types'
  BY <1>1, <1>4, <1>5, <1>6 DEF Types
<1>8. NodeOk(n)'
  <2>1. Len(stream'[n]) <= MaxVersions
    BY <1>5, <1>7, LenProperties, BoundsAssumption DEF Types
  <2>2. n \in Gated /\ ~weekly => n - 1 \in accepted
    BY <1>1 DEF NodeOk
  <2>3. s \notin {"none", "running"} /\ (s = "waiting_permission" => outcome # "blocked")
    BY <1>3 DEF Terminal
  <2> QED BY <1>1, <1>4, <1>5, <2>1, <2>2, <2>3 DEF NodeOk
<1>9. Decision'
  BY <1>1, <1>3, <1>4, ChainAssumption DEF Decision, Nodes
<1>10. Completed \subseteq Completed'
  BY <1>1, <1>4 DEF Completed
<1>11. ExecOk'
  BY <1>1, <1>3, <1>4, <1>6, <1>10 DEF ExecOk
<1> QED BY <1>1, <1>4, <1>5, <1>7, <1>8, <1>9, <1>11, NodeMoves DEF Inv

\* A completed child is done; another one ends or pauses the parent.
LEMMA UseResultKeeps == ASSUME Inv, UseResult PROVE Inv'
<1>1. /\ Types /\ ExecOk /\ exec \in Execs /\ exec.at = "result" /\ exec.node \in Nodes
      /\ exec.done \subseteq Completed
      /\ UNCHANGED <<weekly, child, stream, plan, schedule, decided, accepted, crashes>>
  BY DEF Inv, Types, ExecOk, UseResult
<1>2. CASE exec.answer = "completed" /\ UNCHANGED <<run, parent>>
           /\ exec' = [exec EXCEPT !.at = "plan", !.done = @ \cup {exec.node}, !.answer = "none"]
  BY <1>1, <1>2, DoneKeeps DEF ExecOk, Completed, rows
<1>3. CASE exec' = [exec EXCEPT !.at = "review"] /\ UNCHANGED <<run, parent>>
  <2> PICK x : x = [exec EXCEPT !.at = "review"]
    OBVIOUS
  <2>1. x \in Execs /\ x.at = "review" /\ x.node = exec.node /\ x.done = exec.done
    BY <1>1 DEF Execs
  <2>2. exec' = x /\ UNCHANGED <<weekly, rows>>
    BY <1>1, <1>3 DEF rows
  <2> QED BY <1>1, <2>1, <2>2, MovesOn
<1>4. CASE /\ exec.answer \notin {"completed", "needs_review"}
           /\ exec' = [exec EXCEPT !.at = "answer", !.answer = Wins(exec.answer)]
           /\ CloseParent(exec.answer, IF stream[exec.node] = <<>> THEN NoWait ELSE exec.node, exec.done)
  <2>1. exec.answer \in Paused \cup Terminal /\ exec.answer # "completed"
    BY <1>1, <1>4 DEF ExecOk, Paused
  <2>2. PICK waits \in 0..Last : waits = IF stream[exec.node] = <<>> THEN NoWait ELSE exec.node
    BY <1>1, ChainAssumption DEF NoWait, Nodes
  <2> QED BY <1>1, <1>4, <2>1, <2>2, PausesKeep
<1> QED BY <1>2, <1>3, <1>4 DEF UseResult

\* Under the lock the review is over, or the parent waits for it.
LEMMA ReviewKeeps == ASSUME Inv, Review PROVE Inv'
<1>1. /\ exec \in Execs /\ exec.node \in Nodes /\ exec.node \in 0..Last
      /\ UNCHANGED <<weekly, child, stream, plan, schedule, decided, accepted, crashes>>
  BY DEF Inv, Types, ExecOk, Review, Nodes
<1>2. CASE Reviewed(exec.node)
  BY <1>1, <1>2, DoneKeeps DEF Review, Reviewed, Completed, rows
<1>3. CASE ~Reviewed(exec.node)
  <2>1. /\ CloseParent("waiting_user", exec.node, exec.done)
        /\ exec' = [exec EXCEPT !.at = "answer", !.answer = Wins("waiting_user")]
    BY <1>3 DEF Review
  <2>2. "waiting_user" \in Paused \cup Terminal
    BY DEF Paused
  <2> QED BY <1>1, <2>1, <2>2, PausesKeep
<1> QED BY <1>2, <1>3

\* The parent completes when all children are done, and has its plan then.
LEMMA FinishParentKeeps == ASSUME Inv, FinishParent PROVE Inv'
<1>1. /\ exec.done = Nodes /\ exec.done \subseteq Completed /\ plan \in 0..1
      /\ UNCHANGED <<weekly, child, stream, schedule, decided, accepted, crashes>>
  BY DEF Inv, Types, ExecOk, FinishParent
<1>2. plan' = 1
  BY <1>1 DEF FinishParent
<1>3. Delivered'
  BY <1>1, <1>2 DEF Delivered, Completed
<1>4. NoWait \in 0..Last /\ "completed" \in Paused \cup Terminal
  BY ChainAssumption DEF NoWait, Terminal
<1> QED BY <1>1, <1>2, <1>3, <1>4, PausesKeep DEF FinishParent

\* The second closure confirms the first, or an end that came between.
LEMMA AnswerKeeps == ASSUME Inv, Answer PROVE Inv'
<1>1. /\ run \in RunStatuses /\ parent \in Parents /\ ExecOk
      /\ exec.answer \in Paused \cup Terminal /\ (exec.answer = "completed" => Delivered)
      /\ run' = Wins(exec.answer) /\ parent' = [parent EXCEPT !.status = SkillStatus(run')]
      /\ exec' = Idle
      /\ UNCHANGED <<weekly, child, stream, plan, schedule, decided, accepted, crashes>>
  BY DEF Inv, Types, ExecOk, Answer
<1>2. /\ run' \in Paused \cup Terminal /\ run' \in RunStatuses
      /\ run' = "completed" => "completed" \in {run, exec.answer}
  BY <1>1 DEF Wins, RunStatuses
<1>3. /\ SkillStatus(run') \in {"waiting_permission"} \cup Terminal
      /\ run' \in Terminal => SkillStatus(run') = run'
  BY <1>2 DEF SkillStatus, Paused, Terminal
<1>4. /\ parent' \in Parents /\ parent'.status = SkillStatus(run') /\ parent'.done = parent.done
  BY <1>1, <1>3 DEF Parents
<1>5. run' = "completed" => Delivered'
  <2>1. run' = "completed" => Delivered
    BY <1>1, <1>2 DEF Inv
  <2> QED BY <1>1, <2>1 DEF Delivered, Completed
<1>6. ExecOk'
  BY <1>1, <1>4, IdleTypes DEF ExecOk, Completed
<1> QED BY <1>1, <1>2, <1>3, <1>4, <1>5, <1>6, IdleTypes, ChainStays

LEMMA CrashKeeps == ASSUME Inv, Crash PROVE Inv'
BY IdleTypes, MovesOn DEF Crash
------------------------------------------------------------------------------
(* The people's steps. *)

\* A person does not disturb an executor, not even one that is about to write.
LEMMA ExecutorUndisturbed ==
  ASSUME ExecOk, UNCHANGED <<weekly, plan, exec>>, Completed \subseteq Completed',
         accepted \subseteq accepted', parent'.done = parent.done,
         exec.at = "work" =>
           /\ stream'[exec.node] = stream[exec.node]
           /\ child'[exec.node] \in {child[exec.node], "stopped"}
  PROVE  ExecOk'
<1>1. Delivered => Delivered'
  BY DEF Delivered, Completed
<1>2. \A n \in Nodes : child[n] = "completed" => child'[n] = "completed"
  BY DEF Completed
<1> QED BY <1>1, <1>2 DEF ExecOk, NeedsAccepted

\* The latest version is accepted; the first counts for good, and its reviewed
\* child is completed.
LEMMA AcceptKeeps == ASSUME Inv, NEW n \in Nodes, Accept(n) PROVE Inv'
<1>1. /\ Types /\ ExecOk /\ NodeOk(n) /\ Decision
      /\ stream[n] \in Seq(Marks) /\ Latest(n) \in 1..Len(stream[n])
      /\ child[n] \in Statuses /\ exec' = exec
      /\ UNCHANGED <<weekly, plan, schedule, decided, exec, crashes>>
  BY LenProperties DEF Inv, Types, Accept, Latest
<1> PICK s : s = [stream[n] EXCEPT ![Latest(n)] = "approved"]
  OBVIOUS
<1>2. /\ s \in Seq(Marks) /\ Len(s) = Len(stream[n]) /\ Len(s) > 0 /\ s # <<>>
      /\ Latest(n) # 1 => s[1] = stream[n][1]
  <2>1. "approved" \in Marks
    BY DEF Marks
  <2>2. /\ s \in Seq(Marks) /\ Len(s) = Len(stream[n])
        /\ \A j \in 1..Len(stream[n]) : s[j] = IF j = Latest(n) THEN "approved" ELSE stream[n][j]
    BY <1>1, <2>1, ExceptSeq
  <2>3. Len(stream[n]) \in Nat /\ 1 \in 1..Len(stream[n])
    BY <1>1, LenProperties
  <2> QED BY <1>1, <2>2, <2>3, EmptySeq
<1>3. stream' = [stream EXCEPT ![n] = s]
  BY <1>1 DEF Accept
<1>4. /\ stream'[n] = s /\ \A m \in Nodes \ {n} : stream'[m] = stream[m]
      /\ stream' \in [Nodes -> Seq(Marks)] /\ stream[n] # <<>>
  BY <1>1, <1>2, <1>3, EmptySeq DEF Types
<1>5. PICK t \in Statuses : /\ child' = [child EXCEPT ![n] = t]
                            /\ t = child[n] \/ (child[n] = "needs_review" /\ t = "completed")
  <2> PICK t : t = IF (Latest(n) = 1 /\ parent.waits = n) /\ child[n] = "needs_review"
                   THEN "completed" ELSE child[n]
    OBVIOUS
  <2>1. child' = [child EXCEPT ![n] = t]
    BY DEF Accept
  <2>2. t \in Statuses /\ (t = child[n] \/ (child[n] = "needs_review" /\ t = "completed"))
    BY <1>1 DEF Statuses, Terminal
  <2> QED BY <2>1, <2>2
<1>6. child'[n] = t /\ \A m \in Nodes \ {n} : child'[m] = child[m]
  BY <1>1, <1>5 DEF Types
<1>7. /\ accepted \subseteq accepted' /\ accepted' \in SUBSET Nodes
      /\ Latest(n) = 1 => n \in accepted'
  BY <1>1 DEF Accept, Types
<1>8. \/ UNCHANGED <<run, parent>>
      \/ Resume
  BY DEF Accept
<1>9. /\ run' \in RunStatuses /\ parent' \in Parents /\ parent'.done = parent.done
      /\ run' \in Terminal => parent'.status = run'
      /\ run' = "completed" => run = "completed"
  BY <1>1, <1>8 DEF Types, Inv, Resume, RunStatuses, Parents, Terminal
<1>10. Types'
  BY <1>1, <1>4, <1>5, <1>7, <1>9 DEF Types
<1>11. NodeOk(n)'
  <2>1. n # Last /\ Approved(n)' => n \in accepted'
    BY <1>1, <1>2, <1>4, <1>7 DEF Approved, NodeOk
  <2>2. n \in Gated /\ ~weekly => n - 1 \in accepted'
    BY <1>1, <1>4, <1>7 DEF NodeOk
  <2>3. child'[n] \notin {"none", "running"}
    BY <1>1, <1>4, <1>5, <1>6 DEF NodeOk
  <2> QED BY <1>1, <1>2, <1>4, <2>1, <2>2, <2>3 DEF NodeOk
<1>12. Decision'
  BY <1>1, <1>5, <1>6, ChainAssumption DEF Decision, Nodes
<1>13. Completed \subseteq Completed'
  BY <1>5, <1>6 DEF Completed
<1>14. ExecOk'
  <2>1. exec.at = "work" => exec.node \in Nodes \ {n}
    BY <1>1, <1>4 DEF ExecOk
  <2> QED BY <1>1, <1>4, <1>6, <1>7, <1>9, <1>13, <2>1, ExecutorUndisturbed
<1> QED BY <1>1, <1>4, <1>5, <1>6, <1>7, <1>9, <1>10, <1>11, <1>12, <1>14, NodeMoves

\* A revision supersedes the versions before it.
LEMMA ReviseKeeps == ASSUME Inv, NEW n \in Nodes, Revise(n) PROVE Inv'
<1>1. /\ Types /\ ExecOk /\ NodeOk(n) /\ Decision
      /\ stream[n] \in Seq(Marks) /\ Latest(n) \in 1..(MaxVersions - 1)
      /\ UNCHANGED <<weekly, run, parent, child, plan, schedule, decided, exec, crashes, accepted>>
  BY DEF Inv, Types, Revise
<1> PICK old : old = [v \in 1..Latest(n) |-> "superseded"]
  OBVIOUS
<1> PICK s : s = Append(old, "pending")
  OBVIOUS
<1>2. /\ s \in Seq(Marks) /\ Len(s) <= MaxVersions /\ s[1] = "superseded" /\ s # <<>>
  <2>1. Latest(n) \in Nat /\ "superseded" \in Marks /\ "pending" \in Marks
    BY <1>1, BoundsAssumption DEF Marks
  <2>2. old \in [1..Latest(n) -> Marks]
    BY <2>1
  <2>3. old \in Seq(Marks) /\ Len(old) = Latest(n)
    BY <2>1, <2>2, SeqDef, LenProperties
  <2>4. s \in Seq(Marks) /\ s # <<>> /\ Len(s) = Latest(n) + 1 /\ \A i \in 1..Latest(n) : s[i] = old[i]
    BY <2>1, <2>3, AppendProperties
  <2> QED BY <1>1, <2>4, BoundsAssumption
<1>3. stream' = [stream EXCEPT ![n] = s]
  BY DEF Revise
<1>4. /\ stream'[n] = s /\ \A m \in Nodes \ {n} : stream'[m] = stream[m]
      /\ stream' \in [Nodes -> Seq(Marks)]
  BY <1>1, <1>2, <1>3 DEF Types
<1>5. stream[n] # <<>>
  BY <1>1, EmptySeq, BoundsAssumption DEF Latest
<1>6. Types'
  BY <1>1, <1>4 DEF Types
<1>7. NodeOk(n)'
  BY <1>1, <1>2, <1>4, <1>5 DEF NodeOk, Approved
<1>8. Decision' /\ Completed' = Completed
  BY <1>1 DEF Decision, Completed
<1>9. ExecOk'
  <2>1. exec.at = "work" => exec.node \in Nodes \ {n}
    BY <1>1, <1>5 DEF ExecOk
  <2> QED BY <1>1, <1>4, <1>8, <2>1, ExecutorUndisturbed
<1> QED BY <1>1, <1>4, <1>6, <1>7, <1>8, <1>9, NodeMoves DEF Inv

\* A decision about the package marks the artifact that the last child wrote.
LEMMA PackageMarked ==
  ASSUME Types, NodeOk(Last), child[Last] = "waiting_permission",
         NEW mark \in Marks, stream' = [stream EXCEPT ![Last][1] = mark]
  PROVE  /\ stream' \in [Nodes -> Seq(Marks)]
         /\ Len(stream'[Last]) = Len(stream[Last]) /\ stream'[Last] # <<>>
         /\ \A m \in Nodes \ {Last} : stream'[m] = stream[m]
<1>1. stream[Last] \in Seq(Marks) /\ stream[Last] # <<>> /\ Last \in Nodes
  BY ChainAssumption DEF Types, NodeOk, Nodes
<1>2. 1 \in 1..Len(stream[Last])
  BY <1>1, EmptySeq
<1> PICK s : s = [stream[Last] EXCEPT ![1] = mark]
  OBVIOUS
<1>3. s \in Seq(Marks) /\ Len(s) = Len(stream[Last])
  BY <1>1, <1>2, ExceptSeq
<1>4. s # <<>>
  BY <1>1, <1>3, EmptySeq
<1>5. stream' = [stream EXCEPT ![Last] = s]
  OBVIOUS
<1> QED BY <1>1, <1>3, <1>4, <1>5 DEF Types

\* The package is approved: the last child completes, and its posts are scheduled.
LEMMA ApproveKeeps == ASSUME Inv, Approve PROVE Inv'
<1>0. Last \in Nodes
  BY ChainAssumption DEF Nodes
<1>1. /\ Types /\ ExecOk /\ NodeOk(Last) /\ Decision
      /\ child[Last] = "waiting_permission" /\ run \notin Terminal
      /\ decided' = TRUE /\ child' = [child EXCEPT ![Last] = "completed"]
      /\ schedule' = IF weekly /\ schedule = 0 THEN 1 ELSE schedule
      /\ stream' = [stream EXCEPT ![Last][1] = "approved"]
      /\ UNCHANGED <<weekly, plan, exec, crashes, accepted>>
  BY <1>0 DEF Inv, Approve
<1>2. /\ stream' \in [Nodes -> Seq(Marks)]
      /\ Len(stream'[Last]) = Len(stream[Last]) /\ stream'[Last] # <<>>
      /\ \A m \in Nodes \ {Last} : stream'[m] = stream[m]
  <2>1. "approved" \in Marks
    BY DEF Marks
  <2> QED BY <1>1, <2>1, PackageMarked
<1>3. child'[Last] = "completed" /\ \A m \in Nodes \ {Last} : child'[m] = child[m]
  BY <1>0, <1>1 DEF Types
<1>4. /\ run' \in RunStatuses /\ parent' \in Parents /\ parent'.done = parent.done
      /\ run' \notin Terminal
  <2>1. CASE Waiting
    BY <1>1, <2>1 DEF Types, Approve, Resume, RunStatuses, Parents, Terminal
  <2>2. CASE ~Waiting
    BY <1>1, <2>2 DEF Types, Approve, RunStatuses, Paused, Terminal
  <2> QED BY <2>1, <2>2
<1>5. schedule' \in 0..1 /\ (weekly <=> schedule' = 1)
  BY <1>1 DEF Types, Decision
<1>6. Types'
  <2>1. child' \in [Nodes -> Statuses]
    BY <1>1 DEF Types, Statuses, Terminal
  <2> QED BY <1>1, <1>2, <1>4, <1>5, <2>1 DEF Types
<1>7. NodeOk(Last)'
  <2>1. Last \notin Gated
    BY ChainAssumption
  <2> QED BY <1>1, <1>2, <1>3, <2>1 DEF NodeOk
<1>8. Decision'
  BY <1>1, <1>3, <1>5 DEF Decision
<1>9. Completed \subseteq Completed'
  BY <1>3 DEF Completed
<1>10. ExecOk'
  <2>1. exec.at = "work" => exec.node \in Nodes \ {Last}
    BY <1>1 DEF ExecOk
  <2> QED BY <1>1, <1>2, <1>3, <1>4, <1>9, <2>1, ExecutorUndisturbed
<1>11. run' # "completed"
  BY <1>4 DEF Terminal
<1> QED BY <1>0, <1>1, <1>2, <1>3, <1>4, <1>6, <1>7, <1>8, <1>10, <1>11, NodeMoves

\* The package is rejected: the last child is blocked, and the parent with it.
LEMMA RejectKeeps == ASSUME Inv, Reject PROVE Inv'
<1>0. Last \in Nodes
  BY ChainAssumption DEF Nodes
<1>1. /\ Types /\ ExecOk /\ NodeOk(Last) /\ Decision
      /\ child[Last] = "waiting_permission" /\ run \notin Terminal
      /\ decided' = TRUE /\ child' = [child EXCEPT ![Last] = "blocked"]
      /\ stream' = [stream EXCEPT ![Last][1] = "rejected"]
      /\ CloseParent("blocked", NoWait, parent.done)
      /\ UNCHANGED <<weekly, plan, schedule, exec, crashes, accepted>>
  BY <1>0 DEF Inv, Reject
<1>2. /\ stream' \in [Nodes -> Seq(Marks)]
      /\ Len(stream'[Last]) = Len(stream[Last]) /\ stream'[Last] # <<>>
      /\ \A m \in Nodes \ {Last} : stream'[m] = stream[m]
  <2>1. "rejected" \in Marks
    BY DEF Marks
  <2> QED BY <1>1, <2>1, PackageMarked
<1>3. child'[Last] = "blocked" /\ \A m \in Nodes \ {Last} : child'[m] = child[m]
  BY <1>0, <1>1 DEF Types
<1>4. /\ run' \in RunStatuses /\ parent' \in Parents /\ parent'.done = parent.done
      /\ run' \in Terminal => parent'.status = run'
      /\ run' = "completed" => run = "completed"
  <2>1. parent \in Parents /\ run \in RunStatuses /\ parent.done \in SUBSET Nodes
    BY <1>1 DEF Types, Parents
  <2>2. NoWait \in 0..Last /\ "blocked" \in Paused \cup Terminal
    BY ChainAssumption DEF NoWait, Terminal
  <2> QED BY <1>1, <2>1, <2>2, CloseParentKeeps
<1>5. Types'
  <2>1. child' \in [Nodes -> Statuses]
    BY <1>1 DEF Types, Statuses, Terminal
  <2> QED BY <1>1, <1>2, <1>4, <2>1 DEF Types
<1>6. NodeOk(Last)'
  <2>1. Last \notin Gated
    BY ChainAssumption
  <2> QED BY <1>1, <1>2, <1>3, <2>1 DEF NodeOk
<1>7. Decision'
  BY <1>1, <1>3 DEF Decision
<1>8. Completed \subseteq Completed'
  BY <1>1, <1>3 DEF Completed
<1>9. ExecOk'
  <2>1. exec.at = "work" => exec.node \in Nodes \ {Last}
    BY <1>1 DEF ExecOk
  <2> QED BY <1>1, <1>2, <1>3, <1>4, <1>8, <2>1, ExecutorUndisturbed
<1> QED BY <1>0, <1>1, <1>2, <1>3, <1>4, <1>5, <1>6, <1>7, <1>9, NodeMoves

\* A stop ends the run, its parent and every child that had not ended.
LEMMA StopKeeps == ASSUME Inv, Stop PROVE Inv'
<1>1. /\ Types /\ ExecOk /\ Decision
      /\ child' = [n \in Nodes |-> Stopped(n)] /\ run' = "stopped"
      /\ parent' = [parent EXCEPT !.status = "stopped"]
      /\ UNCHANGED <<weekly, stream, plan, schedule, decided, exec, crashes, accepted>>
  BY DEF Inv, Stop
<1>2. \A n \in Nodes : /\ child'[n] \in {child[n], "stopped"}
                       /\ child[n] \in Terminal \cup {"none"} => child'[n] = child[n]
                       /\ child'[n] \notin {"running", "waiting_permission", "needs_review"}
                       /\ child'[n] = "none" <=> child[n] = "none"
  BY <1>1 DEF Stopped, Types, Statuses, Terminal
<1>3. parent' \in Parents /\ parent'.status = "stopped" /\ parent'.done = parent.done
  BY <1>1 DEF Types, Parents, Terminal
<1>4. Types'
  <2>1. child' \in [Nodes -> Statuses] /\ run' \in RunStatuses
    BY <1>1 DEF Types, Statuses, Stopped, RunStatuses, Terminal
  <2> QED BY <1>1, <1>3, <2>1 DEF Types
<1>5. \A n \in Nodes : NodeOk(n)'
  BY <1>1, <1>2 DEF Inv, NodeOk, Approved
<1>6. Decision'
  <2>1. Last \in Nodes
    BY ChainAssumption DEF Nodes
  <2> QED BY <1>1, <1>2, <2>1 DEF Decision
<1>7. Completed \subseteq Completed'
  BY <1>2 DEF Completed, Terminal
<1>8. ExecOk'
  <2>1. exec.at = "work" => child'[exec.node] \in {child[exec.node], "stopped"}
    BY <1>1, <1>2 DEF ExecOk
  <2> QED BY <1>1, <1>3, <1>7, <2>1, ExecutorUndisturbed
<1> QED BY <1>1, <1>3, <1>4, <1>5, <1>6, <1>8 DEF Inv

------------------------------------------------------------------------------
\* The invariant is inductive.
LEMMA StepsKeep == Inv /\ [Next]_vars => Inv'
<1> SUFFICES ASSUME Inv, [Next]_vars PROVE Inv'
  OBVIOUS
<1>1. CASE UNCHANGED vars
  BY <1>1 DEF vars, rows, Inv, Types, NodeOk, Approved, Decision, ExecOk, Delivered, Completed, NeedsAccepted
<1>2. CASE Next
  BY <1>2, TakeKeeps, ChooseKeeps, GateKeeps, StartChildKeeps, FinishChildKeeps, UseResultKeeps,
     ReviewKeeps, FinishParentKeeps, AnswerKeeps, CrashKeeps, AcceptKeeps, ReviseKeeps,
     ApproveKeeps, RejectKeeps, StopKeeps DEF Next, ExecutorStep, PersonStep
<1> QED BY <1>1, <1>2

\* The invariant holds in every reachable state.
LEMMA InvIsKept == Spec => []Inv
<1>1. Init => Inv
  <2> SUFFICES ASSUME Init PROVE Inv
    OBVIOUS
  <2>1. <<>> \in Seq(Marks) /\ Len(<<>>) = 0
    BY EmptySeq
  <2>2. parent \in Parents /\ parent.done = {}
    BY ChainAssumption DEF Init, Parents, NoWait
  <2>3. Types
    <3>1. weekly \in BOOLEAN /\ decided \in BOOLEAN
      BY DEF Init
    <3>2. child \in [Nodes -> Statuses] /\ stream \in [Nodes -> Seq(Marks)]
      BY <2>1 DEF Init, Statuses
    <3>3. plan \in 0..1 /\ schedule \in 0..1 /\ accepted \in SUBSET Nodes /\ run \in RunStatuses
      BY DEF Init, RunStatuses
    <3> QED BY <2>2, <3>1, <3>2, <3>3, IdleTypes DEF Init, Types
  <2>4. \A n \in Nodes : NodeOk(n)
    BY <2>1, BoundsAssumption DEF Init, NodeOk, Approved
  <2>5. Decision /\ ExecOk
    <3>1. Last \in Nodes
      BY ChainAssumption DEF Nodes
    <3> QED BY <2>2, <3>1, IdleTypes DEF Init, Decision, ExecOk
  <2> QED BY <2>3, <2>4, <2>5 DEF Init, Inv, Terminal
<1> QED BY <1>1, StepsKeep, PTL DEF Spec

\* Every row keeps its type, and a run and its parent pause and end together.
THEOREM TypesCorrect == Spec => []TypeOK
<1>1. Inv => TypeOK
  <2> SUFFICES ASSUME Inv PROVE TypeOK
    OBVIOUS
  <2>1. ASSUME NEW n \in Nodes
        PROVE  /\ Latest(n) <= MaxVersions
               /\ \A v \in 1..Latest(n) : stream[n][v] \in {"pending", "approved", "rejected", "superseded"}
    <3>1. stream[n] \in Seq(Marks) /\ Len(stream[n]) <= MaxVersions
      BY DEF Inv, Types, NodeOk
    <3> QED BY <3>1, LenProperties DEF Latest, Marks
  <2> QED BY <2>1 DEF Inv, Types, TypeOK, RunStatuses, Parents, Execs
<1> QED BY <1>1, InvIsKept, PTL

\* A gated child starts from an artifact that a person accepted, whoever revised it
\* and however often the executor died since.
THEOREM GatesAreHeld == Spec => []GatesHold
<1>1. Inv => GatesHold
  BY ChainAssumption DEF Inv, NodeOk, GatesHold, Nodes
<1> QED BY <1>1, InvIsKept, PTL

\* A completed iteration has all its children, its decision, its plan and its posts.
THEOREM CompletionIsComplete == Spec => []CompletionNeedsAll
<1>1. Inv => CompletionNeedsAll
  <2> SUFFICES ASSUME Inv, run = "completed"
               PROVE  /\ \A n \in Nodes : child[n] = "completed"
                      /\ decided /\ plan = 1 /\ (weekly <=> schedule = 1)
    BY DEF CompletionNeedsAll
  <2>1. (\A n \in Nodes : child[n] = "completed") /\ plan = 1 /\ Last \in Nodes
    BY ChainAssumption DEF Inv, Delivered, Completed, Nodes
  <2> QED BY <2>1 DEF Inv, Decision
<1> QED BY <1>1, InvIsKept, PTL

ChildrenStay == \A n \in Nodes : child[n] = "completed" =>
  /\ child'[n] = child[n]
  /\ Len(stream'[n]) > Len(stream[n]) => stream'[n][Len(stream[n])] = "superseded"

\* A child that completed is not executed again: it keeps its status, and its
\* artifact is followed by revisions only.
THEOREM CompletedStay == Spec => CompletedChildrenStay
<1>1. Inv /\ [Next]_vars => ChildrenStay
  <2> SUFFICES ASSUME Inv, [Next]_vars, NEW n \in Nodes, child[n] = "completed"
               PROVE  /\ child'[n] = child[n]
                      /\ Len(stream'[n]) > Len(stream[n]) =>
                           stream'[n][Len(stream[n])] = "superseded"
    BY DEF ChildrenStay
  <2>0. stream[n] \in Seq(Marks) /\ child \in [Nodes -> Statuses] /\ stream \in [Nodes -> Seq(Marks)]
    BY DEF Inv, Types
  <2>1. ASSUME UNCHANGED <<child, stream>>
        PROVE  child'[n] = child[n] /\ stream'[n] = stream[n]
    BY <2>1
  <2>2. ASSUME StartChild
        PROVE  child'[n] = child[n] /\ stream'[n] = stream[n]
    BY <2>0, <2>2 DEF StartChild
  <2>3. ASSUME FinishChild
        PROVE  child'[n] = child[n] /\ stream'[n] = stream[n]
    <3>1. exec.node # n
      BY <2>3 DEF FinishChild, Inv, ExecOk
    <3> QED BY <2>0, <2>3, <3>1 DEF FinishChild
  <2>4. ASSUME NEW m \in Nodes, Accept(m)
        PROVE  /\ child'[n] = child[n]
               /\ stream'[n] = stream[n] \/ Len(stream'[n]) = Len(stream[n])
    <3>1. child'[n] = child[n]
      BY <2>0, <2>4 DEF Accept
    <3>2. CASE m # n
      BY <2>0, <2>4, <3>1, <3>2 DEF Accept
    <3>3. CASE m = n
      <4>1. Latest(n) \in 1..Len(stream[n]) /\ "approved" \in Marks
        BY <2>0, <2>4, <3>3, LenProperties DEF Accept, Latest, Marks
      <4> PICK s : s = [stream[n] EXCEPT ![Latest(n)] = "approved"]
        OBVIOUS
      <4>2. Len(s) = Len(stream[n])
        BY <2>0, <4>1, ExceptSeq
      <4>3. stream' = [stream EXCEPT ![n] = s]
        BY <2>4, <3>3 DEF Accept
      <4> QED BY <2>0, <3>1, <4>2, <4>3
    <3> QED BY <3>2, <3>3
  <2>5. ASSUME NEW m \in Nodes, Revise(m)
        PROVE  /\ child'[n] = child[n]
               /\ stream'[n] = stream[n] \/ stream'[n][Len(stream[n])] = "superseded"
    <3>1. CASE m # n
      BY <2>0, <2>5, <3>1 DEF Revise
    <3>2. CASE m = n
      <4>1. Len(stream[n]) \in Nat /\ Len(stream[n]) > 0 /\ "superseded" \in Marks /\ "pending" \in Marks
        BY <2>0, <2>5, <3>2, BoundsAssumption DEF Revise, Latest, Marks
      <4> PICK old : old = [v \in 1..Len(stream[n]) |-> "superseded"]
        OBVIOUS
      <4>2. old \in [1..Len(stream[n]) -> Marks]
        BY <4>1
      <4>3. old \in Seq(Marks) /\ Len(old) = Len(stream[n])
        BY <4>1, <4>2, SeqDef, LenProperties
      <4>4. Append(old, "pending")[Len(stream[n])] = "superseded"
        BY <4>1, <4>3, AppendProperties
      <4>5. stream' = [stream EXCEPT ![n] = Append(old, "pending")] /\ child' = child
        BY <2>5, <3>2 DEF Revise, Latest
      <4> QED BY <2>0, <4>4, <4>5
    <3> QED BY <3>1, <3>2
  <2>6. ASSUME Approve \/ Reject
        PROVE  child'[n] = child[n] /\ stream'[n] = stream[n]
    <3>1. n # Last
      BY <2>6 DEF Approve, Reject
    <3> QED BY <2>0, <2>6, <3>1 DEF Approve, Reject
  <2>7. ASSUME Stop
        PROVE  child'[n] = child[n] /\ stream'[n] = stream[n]
    BY <2>0, <2>7 DEF Stop, Stopped, Terminal
  <2>8. Next => \/ UNCHANGED <<child, stream>> \/ StartChild \/ FinishChild
                \/ \E m \in Nodes : Accept(m) \/ Revise(m)
                \/ Approve \/ Reject \/ Stop
    BY DEF Next, ExecutorStep, PersonStep, Take, Choose, Gate, UseResult, Review, FinishParent,
           Answer, Crash, rows
  <2>9. UNCHANGED vars => UNCHANGED <<child, stream>>
    BY DEF vars, rows
  <2>10. \A m \in Nodes : Len(stream'[n]) = Len(stream[n]) => ~(Len(stream'[n]) > Len(stream[n]))
    <3>1. Len(stream[n]) \in Nat
      BY <2>0, LenProperties
    <3> QED BY <3>1
  <2> QED BY <2>1, <2>2, <2>3, <2>4, <2>5, <2>6, <2>7, <2>8, <2>9, <2>10
<1>2. []Inv /\ [][Next]_vars => [][ChildrenStay]_vars
  BY <1>1, PTL
<1> QED BY <1>2, InvIsKept, PTL DEF Spec, CompletedChildrenStay, ChildrenStay
==============================================================================
