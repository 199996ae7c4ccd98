---------------------------- MODULE DraftSyncProofs ----------------------------
(***************************************************************************)
(* Theorems about DraftSync, for any number of keys, executors, images,    *)
(* attempts, drafts and faults: one executor at a time is past the claim   *)
(* of a job, no write is repeated unless it is known to have failed, and   *)
(* no text of the customer is overwritten without consent.                 *)
(*                                                                         *)
(* The argument is that only the executor past its claim makes a job       *)
(* "queued" again, as its last step; whoever dies leaves a job that nobody *)
(* can claim.  So a write may still be asked for ("Open") only in the hand *)
(* of that executor or after a recorded result of every earlier one.       *)
(***************************************************************************)
EXTENDS DraftSync, FiniteSetTheorems, TLAPS

JobRows == [status: Statuses, strategy: Strategies, expected: Hashes,
            initial: [media: 0 .. MaxDrafts, hash: Hashes], observed: Hashes,
            uploaded: SUBSET Uploads, attempt: 0 .. MaxAttempts]
Execs == [pc: {"idle", "start", "guard", "probe", "next", "call", "answer", "conflict", "failing"},
          key: Keys \cup {Nothing}, status: Statuses, attempt: 0 .. MaxAttempts,
          got: BOOLEAN, op: Ops, outcome: {"ok", "retryable", "final"},
          hash: Hashes, media: 0 .. MaxDrafts]
Entries == (1 .. MaxAttempts) \X Ops \X {"intent", "ok", "failed"}

Types ==
  /\ job \in [Keys -> JobRows]
  /\ ledger \in [Keys -> SUBSET Entries]
  /\ mapping \in [media: 0 .. MaxDrafts, hash: Hashes] /\ drafts \in [Media -> Hashes]
  /\ calls \in [Keys -> [Ops -> Nat]]
  /\ faults \in 0 .. Faults
  /\ exec \in [Executors -> Execs]

\* A mapping names a draft, and never a text of the customer.
Sound(m) == /\ m.hash # Edited
            /\ m # NoMapping => m.media \in Media

\* What an executor that did its "get" has seen is what the user confirmed.
Consented(j) == Accepted(j, j.observed)

ExecOk(e) ==
  LET k == exec[e].key IN
  exec[e].pc # "idle" =>
    /\ k \in Keys /\ job[k].status # "absent"
    /\ exec[e].pc \in Claimed =>
         /\ job[k].status # "queued" /\ exec[e].attempt = job[k].attempt
         /\ exec[e].attempt # 0
         /\ exec[e].pc # "failing" =>
              \A op \in Ops : <<exec[e].attempt, op, "failed">> \notin ledger[k]
    /\ exec[e].pc = "call" =>
         /\ exec[e].op \notin job[k].uploaded
         /\ exec[e].op \in {"get", "update"} => Updates(job[k])
         /\ exec[e].op = "update" => exec[e].got
    /\ exec[e].pc \in {"next", "call", "answer"} /\ exec[e].got => Consented(job[k])
    /\ exec[e].pc = "answer" /\ exec[e].op \in {"add", "update"} => exec[e].media \in Media

\* The operation may still be asked for: of a job that waits, or by the executor
\* that has it in hand.
Working(e, k, op) ==
  /\ exec[e].key = k
  /\ \/ exec[e].pc \in {"probe", "next", "call", "failing"}
     \/ exec[e].pc = "answer" /\ exec[e].op # op
Open(k, op) ==
  /\ op \notin job[k].uploaded
  /\ job[k].status \in {"absent", "queued"} \/ \E e \in Executors : Working(e, k, op)

Failed(k, op) == {a \in 1 .. MaxAttempts : <<a, op, "failed">> \in ledger[k]}
Fails(k, op)  == Cardinality(Failed(k, op))

KeyOk(k) ==
  /\ job[k].status = "absent" => job[k] = NoJob
  /\ Sound(job[k].initial)
  /\ \A a \in 1 .. MaxAttempts, op \in Ops :
       <<a, op, "failed">> \in ledger[k] => a <= job[k].attempt
  /\ \A op \in Ops \ {"get"} : /\ calls[k][op] <= 1 + Fails(k, op)
                               /\ Open(k, op) => calls[k][op] <= Fails(k, op)

Inv ==
  /\ Types
  /\ OneExecutor
  /\ Sound(mapping)
  /\ \A e \in Executors : ExecOk(e)
  /\ \A k \in Keys : KeyOk(k)

\* The types, with the sets of rows, executors and entries named.
LEMMA TypesSplit == Types <=> TypeOK
BY DEF Types, TypeOK, JobRows, Execs, Entries

------------------------------------------------------------------------------
(* Counting recorded failures. *)

\* The recorded failures of an operation are finitely many.
LEMMA FailsIsNat ==
  ASSUME NEW k, NEW op
  PROVE  IsFiniteSet(Failed(k, op)) /\ Fails(k, op) \in Nat
<1>1. IsFiniteSet(1 .. MaxAttempts)
  BY FS_Interval, BoundsAssumption
<1>2. IsFiniteSet(Failed(k, op))
  BY <1>1, FS_Subset DEF Failed
<1> QED BY <1>2, FS_CardinalityType DEF Fails

\* The ledger only grows, and so does the number of failures.
LEMMA FailsGrow ==
  ASSUME NEW k, NEW op, ledger[k] \subseteq ledger'[k]
  PROVE  /\ Fails(k, op) \in Nat /\ Fails(k, op)' \in Nat
         /\ Fails(k, op) <= Fails(k, op)'
<1> PICK old : old = Failed(k, op)
  OBVIOUS
<1> PICK new : new = Failed(k, op)'
  OBVIOUS
<1>1. old \subseteq new /\ old \subseteq 1 .. MaxAttempts /\ new \subseteq 1 .. MaxAttempts
  BY DEF Failed
<1>2. IsFiniteSet(1 .. MaxAttempts)
  BY FS_Interval, BoundsAssumption
<1>3. IsFiniteSet(old) /\ IsFiniteSet(new)
  BY <1>1, <1>2, FS_Subset
<1>4. Cardinality(old) \in Nat /\ Cardinality(new) \in Nat /\ Cardinality(old) <= Cardinality(new)
  BY <1>1, <1>3, FS_Subset, FS_CardinalityType
<1> QED BY <1>4 DEF Fails

\* A failure of an attempt that had none counts as one more.
LEMMA FailsAdd ==
  ASSUME NEW k, NEW op, NEW a \in 1 .. MaxAttempts, <<a, op, "failed">> \notin ledger[k],
         ledger'[k] = ledger[k] \cup {<<a, op, "failed">>}
  PROVE  Fails(k, op)' = Fails(k, op) + 1
<1> PICK old : old = Failed(k, op)
  OBVIOUS
<1> PICK new : new = Failed(k, op)'
  OBVIOUS
<1>1. new = old \cup {a} /\ a \notin old
  BY DEF Failed
<1>2. IsFiniteSet(old)
  BY FailsIsNat
<1>3. Cardinality(new) = Cardinality(old) + 1
  BY <1>1, <1>2, FS_AddElement
<1> QED BY <1>3 DEF Fails

------------------------------------------------------------------------------
(* Steps: of one executor, for one key. *)

\* A step of one executor about one key keeps the invariant, if it keeps that key's
\* and that executor's part: others cannot be past the claim of the same job.
LEMMA StepKeeps ==
  ASSUME Inv, Types', Sound(mapping)', NEW e \in Executors, NEW k \in Keys,
         \A f \in Executors \ {e} : exec'[f] = exec[f],
         \A i \in Keys \ {k} : /\ job'[i] = job[i] /\ ledger'[i] = ledger[i]
                               /\ calls'[i] = calls[i],
         exec'[e].pc # "idle" => exec'[e].key = k,
         exec'[e].pc \in Claimed =>
           \/ exec[e].pc \in Claimed /\ exec[e].key = k
           \/ job[k].status = "queued",
         \/ job'[k] = job[k] /\ ledger'[k] = ledger[k]
         \/ /\ job'[k].status # "absent"
            /\ \A f \in Executors \ {e} : ~(exec[f].pc \in Claimed /\ exec[f].key = k)
         \/ job'[k] = [job[k] EXCEPT !.status = "reconcile"] /\ ledger'[k] = ledger[k],
         ExecOk(e)', KeyOk(k)'
  PROVE  Inv'
<1>1. OneExecutor'
  <2> SUFFICES ASSUME NEW f \in Executors, NEW g \in Executors,
                      exec'[f].pc \in Claimed, exec'[g].pc \in Claimed,
                      exec'[f].key = exec'[g].key
               PROVE  f = g
    BY DEF OneExecutor
  <2>1. ASSUME NEW d \in Executors \ {e}, exec'[d].pc \in Claimed, exec'[d].key = k,
               exec'[e].pc \in Claimed
        PROVE  FALSE
    <3>1. exec[d].pc \in Claimed /\ exec[d].key = k
      BY <2>1
    <3>2. job[k].status # "queued"
      BY <3>1 DEF Inv, ExecOk, Claimed
    <3>3. exec[e].pc \in Claimed /\ exec[e].key = k
      BY <2>1, <3>2
    <3> QED BY <2>1, <3>1, <3>3 DEF Inv, OneExecutor
  <2>2. exec'[e].pc \in Claimed => exec'[e].key = k
    BY DEF Claimed
  <2>3. CASE f = e \/ g = e
    BY <2>1, <2>2, <2>3
  <2>4. CASE f # e /\ g # e
    BY <2>4 DEF Inv, OneExecutor
  <2> QED BY <2>3, <2>4
<1>2. ASSUME NEW f \in Executors
      PROVE  ExecOk(f)'
  <2>1. CASE f = e
    BY <2>1
  <2>2. CASE f # e
    <3>1. exec'[f] = exec[f] /\ ExecOk(f)
      BY <2>2 DEF Inv
    <3>2. CASE exec[f].pc = "idle"
      BY <3>1, <3>2 DEF ExecOk
    <3>3. CASE exec[f].pc # "idle" /\ exec[f].key # k
      <4>1. exec[f].key \in Keys \ {k}
        BY <3>1, <3>3 DEF ExecOk
      <4> QED BY <3>1, <3>3, <4>1 DEF ExecOk
    <3>4. CASE exec[f].pc # "idle" /\ exec[f].key = k
      <4>1. CASE job'[k] = job[k] /\ ledger'[k] = ledger[k]
        BY <3>1, <3>4, <4>1 DEF ExecOk
      <4>2. CASE /\ job'[k].status # "absent"
                 /\ \A d \in Executors \ {e} : ~(exec[d].pc \in Claimed /\ exec[d].key = k)
        <5>1. exec[f].pc \notin Claimed
          BY <2>2, <3>4, <4>2
        <5> QED BY <3>1, <3>4, <4>2, <5>1 DEF ExecOk, Claimed
      <4>3. CASE /\ job'[k] = [job[k] EXCEPT !.status = "reconcile"]
                 /\ ledger'[k] = ledger[k]
        <5>1. job[k] \in JobRows
          BY DEF Inv, Types
        <5>2. /\ job'[k].status = "reconcile" /\ job'[k].attempt = job[k].attempt
              /\ job'[k].uploaded = job[k].uploaded /\ job'[k].expected = job[k].expected
              /\ job'[k].observed = job[k].observed /\ job'[k].strategy = job[k].strategy
              /\ job'[k].initial = job[k].initial
          BY <4>3, <5>1 DEF JobRows
        <5> QED BY <3>1, <3>4, <4>3, <5>2 DEF ExecOk, Consented, Accepted, Updates
      <4> QED BY <4>1, <4>2, <4>3
    <3> QED BY <3>2, <3>3, <3>4
  <2> QED BY <2>1, <2>2
<1>3. ASSUME NEW i \in Keys
      PROVE  KeyOk(i)'
  <2>1. CASE i = k
    BY <2>1
  <2>2. CASE i # k
    <3>1. /\ job'[i] = job[i] /\ ledger'[i] = ledger[i] /\ calls'[i] = calls[i]
          /\ KeyOk(i)
      BY <2>2 DEF Inv
    <3>2. \A op \in Ops : Fails(i, op)' = Fails(i, op)
      BY <3>1 DEF Fails, Failed
    <3>3. ASSUME NEW op \in Ops, Open(i, op)'
          PROVE  Open(i, op)
      <4>1. ASSUME NEW f \in Executors, Working(f, i, op)'
            PROVE  Working(f, i, op)
        <5>1. f # e
          BY <2>2, <4>1 DEF Working
        <5> QED BY <4>1, <5>1 DEF Working
      <4> QED BY <3>1, <3>3, <4>1 DEF Open
    <3> QED BY <3>1, <3>2, <3>3 DEF KeyOk
  <2> QED BY <2>1, <2>2
<1> QED BY <1>1, <1>2, <1>3 DEF Inv

\* A key whose operations are not opened anew keeps its bounds.
LEMMA KeyKeeps ==
  ASSUME Inv, NEW k \in Keys, Types',
         job'[k].status = "absent" => job'[k] = NoJob,
         Sound(job'[k].initial),
         job'[k].attempt >= job[k].attempt,
         ledger[k] \subseteq ledger'[k],
         \A a \in 1 .. MaxAttempts, op \in Ops :
           <<a, op, "failed">> \in ledger'[k] =>
             <<a, op, "failed">> \in ledger[k] \/ a <= job'[k].attempt,
         calls'[k] = calls[k],
         \A op \in Ops \ {"get"} : Open(k, op)' =>
           Open(k, op) \/ calls[k][op] < Fails(k, op)' \/ Fails(k, op)' = Fails(k, op) + 1
  PROVE  KeyOk(k)'
<1>1. KeyOk(k) /\ job[k].attempt \in Nat /\ job'[k].attempt \in Nat
  BY DEF Inv, Types, JobRows
<1>2. \A a \in 1 .. MaxAttempts, op \in Ops :
        <<a, op, "failed">> \in ledger'[k] => a <= job'[k].attempt
  BY <1>1 DEF KeyOk
<1>3. ASSUME NEW op \in Ops \ {"get"}
      PROVE  /\ calls'[k][op] <= 1 + Fails(k, op)'
             /\ Open(k, op)' => calls'[k][op] <= Fails(k, op)'
  <2>1. /\ Fails(k, op) \in Nat /\ Fails(k, op)' \in Nat
        /\ Fails(k, op) <= Fails(k, op)'
    BY FailsGrow
  <2>2. calls[k][op] \in Nat
    BY DEF Inv, Types
  <2>3. /\ calls[k][op] <= 1 + Fails(k, op)
        /\ Open(k, op) => calls[k][op] <= Fails(k, op)
    BY <1>1 DEF KeyOk
  <2> QED BY <2>1, <2>2, <2>3
<1> QED BY <1>2, <1>3 DEF KeyOk

\* A step opens an operation only by the status of the job or in the hand of its executor.
LEMMA OpenKeeps ==
  ASSUME NEW e \in Executors, NEW k \in Keys, NEW op \in Ops,
         \A f \in Executors \ {e} : exec'[f] = exec[f],
         job[k].uploaded \subseteq job'[k].uploaded,
         op \notin job'[k].uploaded
           /\ (job'[k].status \in {"absent", "queued"} \/ Working(e, k, op)') => Open(k, op),
         Open(k, op)'
  PROVE  Open(k, op)
<1>1. ASSUME NEW f \in Executors \ {e}, Working(f, k, op)'
      PROVE  Open(k, op)
  BY <1>1 DEF Working, Open
<1> QED BY <1>1 DEF Open

\* An executor that rests, or goes on with the job it was given, is well typed.
LEMMA RestTypes == AtRest \in Execs /\ AtRest.pc = "idle"
BY BoundsAssumption DEF AtRest, Execs, Ops, Hashes, Statuses

Started(k, s, a) == [AtRest EXCEPT !.pc = "start", !.key = k, !.status = s, !.attempt = a]
Advanced(k, g, a) == [AtRest EXCEPT !.pc = "next", !.key = k, !.got = g, !.status = "running",
                                    !.attempt = a]

\* An executor that starts with a job is well typed.
LEMMA StartTypes ==
  ASSUME NEW k \in Keys, NEW s \in Statuses, NEW a \in 0 .. MaxAttempts
  PROVE  /\ Started(k, s, a) \in Execs /\ Started(k, s, a).pc = "start"
         /\ Started(k, s, a).key = k
<1> PICK x : x = [AtRest EXCEPT !.pc = "start"]
  OBVIOUS
<1> PICK y : y = [x EXCEPT !.key = k]
  OBVIOUS
<1>1. x \in Execs /\ x.pc = "start"
  BY RestTypes DEF Execs
<1>2. y \in Execs /\ y.pc = "start" /\ y.key = k
  BY <1>1 DEF Execs
<1>3. Started(k, s, a) = [y EXCEPT !.status = s, !.attempt = a]
  BY DEF Started
<1> QED BY <1>2, <1>3 DEF Execs

\* An executor that goes on to the next operation is well typed.
LEMMA NextTypes ==
  ASSUME NEW k \in Keys, NEW g \in BOOLEAN, NEW a \in 0 .. MaxAttempts, NEW x,
         x = Advanced(k, g, a)
  PROVE  /\ x \in Execs /\ x.pc = "next" /\ x.key = k
         /\ x.got = g /\ x.attempt = a
<1>1. x = [pc |-> "next", key |-> k, status |-> "running", attempt |-> a, got |-> g,
           op |-> "get", outcome |-> "ok", hash |-> Nothing, media |-> 0]
  BY DEF AtRest, Advanced
<1>2. "get" \in Ops /\ Nothing \in Hashes /\ 0 \in 0 .. MaxDrafts /\ "running" \in Statuses
  BY BoundsAssumption DEF Ops, Hashes, Statuses
<1> QED BY <1>1, <1>2 DEF Execs

\* The executor rests, and nothing else happens to its job.
LEMMA RestKeeps ==
  ASSUME Inv, NEW e \in Executors, exec[e].pc # "idle", Rest(e), faults' \in 0 .. Faults,
         UNCHANGED <<job, ledger, mapping, drafts, calls>>
  PROVE  Inv'
<1> PICK k \in Keys : k = exec[e].key
  BY DEF Inv, ExecOk
<1>1. exec'[e] = AtRest /\ \A f \in Executors \ {e} : exec'[f] = exec[f]
  BY DEF Rest, Inv, Types
<1>2. Types'
  BY RestTypes DEF Inv, Types, Rest
<1>3. ExecOk(e)' /\ exec'[e].pc = "idle"
  BY <1>1, RestTypes DEF ExecOk
<1>4. KeyOk(k)'
  <2>1. \A op \in Ops : Open(k, op)' => Open(k, op)
    BY <1>1, <1>3, OpenKeeps DEF Working, Open
  <2> QED BY <2>1 DEF KeyOk, Inv, Fails, Failed
<1> QED BY <1>1, <1>2, <1>3, <1>4, StepKeeps DEF Inv, Claimed

\* The executor ends with a status of its job: "queued" only while it has the job
\* in hand, and without a claim only "reconcile".
LEMMA SetKeeps ==
  ASSUME Inv, NEW e \in Executors, exec[e].pc # "idle", Rest(e),
         NEW s \in Statuses \ {"absent"}, Set(exec[e].key, s),
         UNCHANGED <<ledger, mapping, drafts, calls, faults>>,
         s = "queued" => exec[e].pc \in {"probe", "failing"},
         exec[e].pc \in Claimed \/ s = "reconcile"
  PROVE  Inv'
<1> PICK k \in Keys : k = exec[e].key /\ job[k].status # "absent"
  BY DEF Inv, ExecOk
<1> PICK row : row = [job[k] EXCEPT !.status = s]
  OBVIOUS
<1>1. exec'[e] = AtRest /\ \A f \in Executors \ {e} : exec'[f] = exec[f]
  BY DEF Rest, Inv, Types
<1>2. /\ row \in JobRows /\ row.status = s /\ row.attempt = job[k].attempt
      /\ row.uploaded = job[k].uploaded /\ row.initial = job[k].initial
  BY DEF Inv, Types, JobRows
<1>3. job' = [job EXCEPT ![k] = row]
  BY DEF Set
<1>4. job'[k] = row /\ \A i \in Keys \ {k} : job'[i] = job[i]
  BY <1>3 DEF Inv, Types
<1>5. Types'
  BY <1>2, <1>3, RestTypes DEF Inv, Types, Rest
<1>6. ExecOk(e)' /\ exec'[e].pc = "idle"
  BY <1>1, RestTypes DEF ExecOk
<1>7. KeyOk(k)'
  <2>1. ASSUME NEW op \in Ops, Open(k, op)'
        PROVE  Open(k, op)
    <3>1. s = "queued" => Working(e, k, op)
      BY DEF Working
    <3>2. ~Working(e, k, op)'
      BY <1>6 DEF Working
    <3> QED BY <1>1, <1>2, <1>4, <2>1, <3>1, <3>2, OpenKeeps DEF Open
  <2>2. Sound(job'[k].initial) /\ job'[k].attempt >= job[k].attempt
    BY <1>2, <1>4 DEF Inv, KeyOk, Types, JobRows
  <2>3. job'[k].status # "absent" /\ ledger'[k] = ledger[k] /\ calls'[k] = calls[k]
    BY <1>2, <1>4
  <2> QED BY <1>5, <2>1, <2>2, <2>3, KeyKeeps
<1>8. exec[e].pc \in Claimed => \A f \in Executors \ {e} : ~(exec[f].pc \in Claimed /\ exec[f].key = k)
  BY DEF Inv, OneExecutor
<1> QED BY <1>1, <1>2, <1>4, <1>5, <1>6, <1>7, <1>8, StepKeeps DEF Inv, Claimed

\* A job is frozen and handed to the executor of its request.
LEMMA SubmitKeeps ==
  ASSUME Inv, NEW e \in Executors, NEW k \in Keys, NEW s \in Strategies, NEW h \in Shown,
         Submit(e, k, s, h)
  PROVE  Inv'
<1> PICK new : new = Frozen(s, h)
  OBVIOUS
<1>1. Sound(mapping) /\ Types /\ KeyOk(k) /\ job[k].status = "absent"
  BY DEF Inv, Submit
<1>2. h \in Hashes
  BY <1>1 DEF Shown, Types, JobRows, Hashes
<1>3. /\ new \in JobRows /\ new.status = "queued" /\ new.attempt = 0 /\ new.uploaded = {}
      /\ new.initial = mapping
  <2>1. new = [status |-> "queued", strategy |-> s, expected |-> h, initial |-> mapping,
               observed |-> Nothing, uploaded |-> {}, attempt |-> 0]
    BY DEF Frozen, NoJob
  <2>2. "queued" \in Statuses /\ Nothing \in Hashes /\ 0 \in 0 .. MaxAttempts
    BY BoundsAssumption DEF Statuses, Hashes
  <2> QED BY <1>1, <1>2, <2>1, <2>2 DEF JobRows, Types
<1>4. job' = [job EXCEPT ![k] = new] /\ Continue(e, k, new)
      /\ UNCHANGED <<ledger, mapping, drafts, calls, faults>>
  BY DEF Submit
<1>5. job'[k] = new /\ \A i \in Keys \ {k} : job'[i] = job[i]
  BY <1>1, <1>4 DEF Types
<1>6. /\ \A f \in Executors \ {e} : exec'[f] = exec[f]
      /\ exec'[e].pc = "start" /\ exec'[e].key = k /\ exec' \in [Executors -> Execs]
  <2> PICK x : x = Started(k, new.status, new.attempt)
    OBVIOUS
  <2>1. x \in Execs /\ x.pc = "start" /\ x.key = k
    <3>1. new.status \in Statuses /\ new.attempt \in 0 .. MaxAttempts
      BY <1>3 DEF JobRows
    <3> QED BY <3>1, StartTypes
  <2>2. exec' = [exec EXCEPT ![e] = x]
    BY <1>4 DEF Continue, Started
  <2> QED BY <1>1, <2>1, <2>2 DEF Types
<1>7. Types'
  BY <1>1, <1>3, <1>4, <1>6 DEF Types
<1>8. ExecOk(e)'
  BY <1>3, <1>5, <1>6 DEF ExecOk, Claimed
<1>9. KeyOk(k)'
  <2>1. job[k].uploaded = {} /\ job[k].attempt = 0
    BY <1>1 DEF KeyOk, NoJob
  <2>2. ASSUME NEW op \in Ops, Open(k, op)'
        PROVE  Open(k, op)
    BY <1>1, <2>1 DEF Open
  <2> QED BY <1>1, <1>3, <1>4, <1>5, <1>7, <2>1, <2>2, KeyKeeps DEF Inv
<1>10. \A f \in Executors \ {e} : ~(exec[f].pc \in Claimed /\ exec[f].key = k)
  BY <1>1 DEF Inv, ExecOk, Claimed
<1> QED BY <1>1, <1>3, <1>4, <1>5, <1>6, <1>7, <1>8, <1>9, <1>10, StepKeeps DEF Claimed

\* Steps of one executor between its commits: its job stays as it is.
LEMMA LocalKeeps ==
  ASSUME Inv, NEW e \in Executors, NEW k \in Keys, NEW x \in Execs,
         exec' = [exec EXCEPT ![e] = x], x.key = k,
         UNCHANGED <<job, ledger, mapping, drafts, calls, faults>>,
         x.pc \in Claimed => exec[e].pc \in Claimed /\ exec[e].key = k,
         ExecOk(e)',
         \A op \in Ops : Working(e, k, op)' => Working(e, k, op)
  PROVE  Inv'
<1>1. exec'[e] = x /\ \A f \in Executors \ {e} : exec'[f] = exec[f]
  BY DEF Inv, Types
<1>2. Types'
  BY DEF Inv, Types
<1>3. KeyOk(k)'
  <2>1. \A op \in Ops : Open(k, op)' => Open(k, op)
    BY <1>1, OpenKeeps DEF Open
  <2> QED BY <2>1 DEF KeyOk, Inv, Fails, Failed
<1> QED BY <1>1, <1>2, <1>3, StepKeeps DEF Inv

\* A repeated request hands the job to one more executor, which has claimed nothing.
LEMMA SubmitAgainKeeps ==
  ASSUME Inv, NEW e \in Executors, NEW k \in Keys, SubmitAgain(e, k)
  PROVE  Inv'
<1> PICK x : x = Started(k, job[k].status, job[k].attempt)
  OBVIOUS
<1>1. job[k] \in JobRows
  BY DEF Inv, Types
<1>2. x \in Execs /\ x.pc = "start" /\ x.key = k
  <2>1. job[k].status \in Statuses /\ job[k].attempt \in 0 .. MaxAttempts
    BY <1>1 DEF JobRows
  <2> QED BY <2>1, StartTypes
<1>3. exec' = [exec EXCEPT ![e] = x] /\ UNCHANGED <<job, ledger, mapping, drafts, calls, faults>>
  BY DEF SubmitAgain, Continue, Started
<1>4. exec'[e] = x
  BY <1>3 DEF Inv, Types
<1>5. ExecOk(e)'
  BY <1>2, <1>3, <1>4 DEF ExecOk, Claimed, SubmitAgain
<1> QED BY <1>2, <1>3, <1>4, <1>5, LocalKeeps DEF Working, Claimed

\* The claim: of a queued job, which nobody has in hand, by one who read it so.
LEMMA ClaimKeeps ==
  ASSUME Inv, NEW e \in Executors, Claim(e)
  PROVE  Inv'
<1> PICK k \in Keys : k = exec[e].key /\ job[k].status # "absent"
  BY DEF Inv, ExecOk, Claim, At
<1> PICK a \in 0 .. MaxAttempts : a = exec[e].attempt
  BY DEF Inv, Types, Execs
<1>1. CASE Claimable(e)
  <2> PICK row : row = [job[k] EXCEPT !.status = "running", !.attempt = a + 1]
    OBVIOUS
  <2> PICK x : x = [exec[e] EXCEPT !.pc = "probe", !.attempt = a + 1]
    OBVIOUS
  <2>1. /\ job[k].status = "queued" /\ job[k].attempt = a /\ a + 1 \in 0 .. MaxAttempts
        /\ job[k] \in JobRows /\ exec[e] \in Execs /\ a \in Nat
    BY <1>1, BoundsAssumption DEF Claimable, Mine, Claim, Inv, Types
  <2>2. /\ row \in JobRows /\ row.status = "running" /\ row.attempt = a + 1
        /\ row.uploaded = job[k].uploaded /\ row.initial = job[k].initial
    BY <2>1 DEF JobRows, Statuses
  <2>3. x \in Execs /\ x.pc = "probe" /\ x.attempt = a + 1 /\ x.key = k
    BY <2>1 DEF Execs
  <2>4. job' = [job EXCEPT ![k] = row] /\ exec' = [exec EXCEPT ![e] = x]
        /\ UNCHANGED <<ledger, mapping, drafts, calls, faults>>
    BY <1>1 DEF Claim
  <2>5. /\ job'[k] = row /\ \A i \in Keys \ {k} : job'[i] = job[i]
        /\ exec'[e] = x /\ \A f \in Executors \ {e} : exec'[f] = exec[f]
    BY <2>4 DEF Inv, Types
  <2>6. Types'
    BY <2>2, <2>3, <2>4 DEF Inv, Types
  <2>7. ledger[k] \subseteq Entries /\ KeyOk(k)
    BY DEF Inv, Types
  <2>8. ExecOk(e)'
    <3>1. \A op \in Ops : <<a + 1, op, "failed">> \notin ledger[k]
      BY <2>1, <2>7 DEF KeyOk, Entries
    <3>2. /\ exec'[e].pc = "probe" /\ exec'[e].key = k /\ exec'[e].attempt = a + 1
          /\ job'[k].status = "running" /\ job'[k].attempt = a + 1
      BY <2>2, <2>3, <2>5
    <3>3. ledger' = ledger
      BY <2>4
    <3>4. a + 1 # 0
      BY <2>1
    <3> QED BY <3>1, <3>2, <3>3, <3>4 DEF ExecOk
  <2>9. KeyOk(k)'
    <3>1. ASSUME NEW op \in Ops, Open(k, op)'
          PROVE  Open(k, op)
      BY <2>1, <2>2, <2>5, <3>1, OpenKeeps DEF Open
    <3>2. Sound(job'[k].initial) /\ job'[k].attempt >= job[k].attempt
      BY <2>1, <2>2, <2>5, <2>7 DEF KeyOk
    <3>3. job'[k].status # "absent" /\ ledger'[k] = ledger[k] /\ calls'[k] = calls[k]
      BY <2>2, <2>4, <2>5
    <3> QED BY <2>6, <3>1, <3>2, <3>3, KeyKeeps
  <2>10. \A f \in Executors \ {e} : ~(exec[f].pc \in Claimed /\ exec[f].key = k)
    BY <2>1 DEF Inv, ExecOk, Claimed
  <2> QED BY <2>1, <2>2, <2>3, <2>4, <2>5, <2>6, <2>8, <2>9, <2>10, StepKeeps DEF Inv
<1>2. CASE ~Claimable(e)
  BY <1>2, RestKeeps DEF Claim, At, Inv, Types
<1> QED BY <1>1, <1>2

\* An executor that moves on, all else but its step being as it was.
LEMMA GotoKeeps ==
  ASSUME Inv, NEW e \in Executors, exec[e].pc # "idle", NEW x \in Execs,
         exec' = [exec EXCEPT ![e] = x], x.key = exec[e].key,
         UNCHANGED <<job, ledger, mapping, drafts, calls, faults>>,
         x.pc \in Claimed => exec[e].pc \in Claimed,
         ExecOk(e)',
         x.pc \in {"idle", "start", "guard", "conflict"}
           \/ exec[e].pc \in {"probe", "next", "call", "failing"}
  PROVE  Inv'
<1> PICK k \in Keys : k = exec[e].key
  BY DEF Inv, ExecOk
<1>1. exec'[e] = x
  BY DEF Inv, Types
<1>2. \A op \in Ops : Working(e, k, op)' => Working(e, k, op)
  BY <1>1 DEF Working
<1> QED BY <1>1, <1>2, LocalKeeps

\* The guard of a job that was running decides and writes nothing.
LEMMA GuardKeeps ==
  ASSUME Inv, NEW e \in Executors, Guard(e)
  PROVE  Inv'
<1>1. exec[e].pc = "start" /\ exec[e] \in Execs /\ ExecOk(e)
  BY DEF Guard, At, Inv, Types
<1>2. CASE Goto(e, "guard")
  <2> PICK x : x = [exec[e] EXCEPT !.pc = "guard"]
    OBVIOUS
  <2>1. x \in Execs /\ x.pc = "guard" /\ x.key = exec[e].key
    BY <1>1 DEF Execs
  <2>2. exec' = [exec EXCEPT ![e] = x] /\ exec'[e] = x
        /\ UNCHANGED <<job, ledger, mapping, drafts, calls, faults>>
    BY <1>2 DEF Goto, Inv, Types, Guard
  <2>3. ExecOk(e)'
    BY <1>1, <2>1, <2>2 DEF ExecOk, Claimed
  <2> QED BY <1>1, <2>1, <2>2, <2>3, GotoKeeps DEF Claimed
<1>3. CASE Rest(e)
  BY <1>1, <1>3, RestKeeps DEF Guard, Inv, Types
<1> QED BY <1>2, <1>3 DEF Guard

\* Statuses that an executor leaves behind.
LEMMA EndsKeep ==
  ASSUME Inv, NEW e \in Executors, GuardMarks(e) \/ MarkConflict(e) \/ EndFailure(e)
  PROVE  Inv'
<1>1. CASE GuardMarks(e)
  BY <1>1, SetKeeps DEF GuardMarks, At, Statuses
<1>2. CASE MarkConflict(e)
  BY <1>2, SetKeeps DEF MarkConflict, At, Statuses, Claimed
<1>3. CASE EndFailure(e)
  <2>1. AfterFailure(exec[e].outcome) \in Statuses \ {"absent"}
    BY DEF AfterFailure, Statuses
  <2> QED BY <1>3, <2>1, SetKeeps DEF EndFailure, At, Claimed
<1> QED BY <1>1, <1>2, <1>3

\* A probe goes on with the claimed job or gives it back before anything was written.
LEMMA ProbeKeeps ==
  ASSUME Inv, NEW e \in Executors, Probe(e)
  PROVE  Inv'
<1>1. exec[e].pc = "probe" /\ exec[e] \in Execs /\ ExecOk(e)
  BY DEF Probe, At, Inv, Types
<1>2. CASE Proceed(e, FALSE) /\ UNCHANGED job
  <2> PICK k \in Keys : k = exec[e].key
    BY <1>1 DEF ExecOk
  <2> PICK no \in BOOLEAN : no = FALSE
    OBVIOUS
  <2> PICK x : x = Advanced(k, no, exec[e].attempt)
    OBVIOUS
  <2>1. /\ x \in Execs /\ x.pc = "next" /\ x.key = k
        /\ ~x.got /\ x.attempt = exec[e].attempt
    <3>1. exec[e].attempt \in 0 .. MaxAttempts
      BY <1>1 DEF Execs
    <3> QED BY <3>1, NextTypes
  <2>2. exec' = [exec EXCEPT ![e] = x] /\ exec'[e] = x
        /\ UNCHANGED <<job, ledger, mapping, drafts, calls, faults>>
    BY <1>2 DEF Proceed, Advanced, Inv, Types, Probe
  <2>3. ExecOk(e)'
    BY <1>1, <2>1, <2>2 DEF ExecOk, Claimed
  <2> QED BY <1>1, <2>1, <2>2, <2>3, GotoKeeps DEF Claimed
<1>3. ASSUME NEW s \in {"queued", "blocked"}, Set(exec[e].key, s), Rest(e)
      PROVE  Inv'
  BY <1>1, <1>3, SetKeeps DEF Probe, Statuses, Claimed
<1> QED BY <1>2, <1>3 DEF Probe

\* Whoever dies or finds another image leaves everything as it is.
LEMMA FaultsKeep ==
  ASSUME Inv, NEW e \in Executors, AssetChanged(e) \/ Die(e)
  PROVE  Inv'
<1>1. faults' \in 0 .. Faults
  BY BoundsAssumption DEF AssetChanged, Die, Inv, Types
<1>2. exec[e].pc # "idle"
  BY DEF AssetChanged, Die, At
<1> QED BY <1>1, <1>2, RestKeeps DEF AssetChanged, Die

\* An edit of the customer concerns no job.
LEMMA EditKeeps ==
  ASSUME Inv, NEW m \in Media, CustomerEdits(m)
  PROVE  Inv'
<1>1. Types'
  BY BoundsAssumption DEF CustomerEdits, Inv, Types, Hashes
<1> QED BY <1>1 DEF CustomerEdits, Inv, OneExecutor, ExecOk, KeyOk, Open, Working, Fails, Failed

------------------------------------------------------------------------------
(* The operations. *)

\* What an executor chooses next is an operation, of an update only if it may.
LEMMA NextOpIs ==
  ASSUME Inv, NEW e \in Executors, exec[e].pc = "next"
  PROVE  LET op == NextOp(e)  j == job[exec[e].key] IN
         /\ op \in Ops /\ op \notin j.uploaded
         /\ op \in {"get", "update"} => Updates(j)
         /\ op = "update" => exec[e].got
<1> PICK k \in Keys : k = exec[e].key
  BY DEF Inv, ExecOk
<1>1. job[k].uploaded \subseteq Uploads
  BY DEF Inv, Types, JobRows
<1>2. CASE Updates(job[k]) /\ ~exec[e].got
  BY <1>1, <1>2, BoundsAssumption DEF NextOp, Mine, Ops
<1>3. CASE ~(Updates(job[k]) /\ ~exec[e].got) /\ Missing(e) # {}
  <2>1. NextOp(e) \in Missing(e)
    BY <1>3 DEF NextOp, Mine
  <2> QED BY <1>1, <2>1, BoundsAssumption DEF Missing, Mine, Ops
<1>4. CASE ~(Updates(job[k]) /\ ~exec[e].got) /\ Missing(e) = {}
  BY <1>1, <1>4, BoundsAssumption DEF NextOp, Mine, Ops
<1> QED BY <1>2, <1>3, <1>4

\* An intent is recorded for an operation that is still missing.
LEMMA IntendKeeps ==
  ASSUME Inv, NEW e \in Executors, Intend(e)
  PROVE  Inv'
<1> PICK op \in Ops : op = NextOp(e)
  BY NextOpIs DEF Intend, At
<1> PICK k \in Keys : k = exec[e].key /\ job[k].status # "absent"
  BY DEF Inv, ExecOk, Intend, At
<1> PICK x : x = [exec[e] EXCEPT !.pc = "call", !.op = op]
  OBVIOUS
<1>1. /\ exec[e].pc = "next" /\ exec[e] \in Execs /\ ExecOk(e) /\ job[k].status # "queued"
      /\ exec[e].attempt = job[k].attempt /\ exec[e].attempt \in 1 .. MaxAttempts
  BY BoundsAssumption DEF Intend, At, Inv, Types, ExecOk, Claimed, Execs
<1>2. /\ x \in Execs /\ x.pc = "call" /\ x.key = k /\ x.op = op /\ x.got = exec[e].got
      /\ x.attempt = exec[e].attempt
  BY <1>1 DEF Execs
<1>3. /\ exec' = [exec EXCEPT ![e] = x] /\ UNCHANGED <<job, mapping, drafts, calls, faults>>
      /\ ledger' = [ledger EXCEPT ![k] = @ \cup {<<exec[e].attempt, op, "intent">>}]
  BY DEF Intend
<1>4. /\ exec'[e] = x /\ \A f \in Executors \ {e} : exec'[f] = exec[f]
      /\ ledger'[k] = ledger[k] \cup {<<exec[e].attempt, op, "intent">>}
      /\ \A i \in Keys \ {k} : ledger'[i] = ledger[i]
  BY <1>3 DEF Inv, Types
<1>5. Types'
  <2>1. <<exec[e].attempt, op, "intent">> \in Entries
    BY <1>1 DEF Entries
  <2> QED BY <1>2, <1>3, <2>1 DEF Inv, Types
<1>6. \A a \in 1 .. MaxAttempts, o \in Ops :
        <<a, o, "failed">> \in ledger'[k] <=> <<a, o, "failed">> \in ledger[k]
  BY <1>4
<1>7. ExecOk(e)'
  <2>1. /\ op \notin job[k].uploaded
        /\ op \in {"get", "update"} => Updates(job[k])
        /\ op = "update" => exec[e].got
    BY <1>1, NextOpIs
  <2>2. \A o \in Ops : <<exec[e].attempt, o, "failed">> \notin ledger'[k]
    BY <1>1, <1>6 DEF ExecOk, Claimed
  <2>3. exec[e].got => Consented(job[k])
    BY <1>1 DEF ExecOk
  <2> QED BY <1>1, <1>2, <1>3, <1>4, <2>1, <2>2, <2>3 DEF ExecOk, Claimed
<1>8. KeyOk(k)'
  <2>1. ASSUME NEW o \in Ops, Open(k, o)'
        PROVE  Open(k, o)
    <3>1. Working(e, k, o)
      BY <1>1 DEF Working
    <3> QED BY <1>3, <1>4, <2>1, <3>1, OpenKeeps DEF Open
  <2>2. Sound(job'[k].initial) /\ job'[k].attempt >= job[k].attempt
    BY <1>3 DEF Inv, KeyOk, Types, JobRows
  <2>3. job'[k].status # "absent" /\ ledger[k] \subseteq ledger'[k] /\ calls'[k] = calls[k]
    BY <1>3, <1>4
  <2> QED BY <1>5, <1>6, <2>1, <2>2, <2>3, KeyKeeps
<1>9. \A f \in Executors \ {e} : ~(exec[f].pc \in Claimed /\ exec[f].key = k)
  BY <1>1 DEF Inv, OneExecutor, Claimed
<1> QED BY <1>1, <1>2, <1>3, <1>4, <1>5, <1>7, <1>8, <1>9, StepKeeps DEF Inv, Claimed

\* A draft that is updated or added is one of the box.
LEMMA TargetIs ==
  ASSUME Inv, NEW e \in Executors, exec[e].pc = "call", exec[e].op \in {"get", "add", "update"},
         exec[e].op = "add" => FreeMedia # {}
  PROVE  /\ Target(e) \in Media
         /\ exec[e].op = "add" => drafts[Target(e)] = Nothing
<1> PICK k \in Keys : k = exec[e].key
  BY DEF Inv, ExecOk
<1>1. CASE exec[e].op = "add"
  <2>1. Target(e) \in FreeMedia
    BY <1>1 DEF Target
  <2> QED BY <2>1 DEF FreeMedia
<1>2. CASE exec[e].op # "add"
  <2>1. Updates(job[k]) /\ Sound(job[k].initial)
    BY <1>2 DEF Inv, ExecOk, KeyOk
  <2> QED BY <1>2, <2>1 DEF Target, Mine, Updates, Sound
<1> QED BY <1>1, <1>2

\* A call counts as one more effect, and its operation is no longer open.
LEMMA CallKeeps ==
  ASSUME Inv, NEW e \in Executors, Call(e)
  PROVE  Inv'
<1> PICK k \in Keys : k = exec[e].key /\ job[k].status # "absent"
  BY DEF Inv, ExecOk, Call, At
<1> PICK op \in Ops : op = exec[e].op
  BY DEF Inv, Types, Execs
<1>1. /\ exec[e].pc = "call" /\ exec[e] \in Execs /\ ExecOk(e) /\ op \notin job[k].uploaded
      /\ op = "add" => FreeMedia # {}
  BY DEF Call, At, Inv, Types, ExecOk
<1>2. op \in {"get", "add", "update"} => Target(e) \in Media
  BY <1>1, TargetIs
<1>3. PICK outcome \in {"ok", "retryable", "final"} :
        exec' = [exec EXCEPT
                   ![e].pc = "answer", ![e].outcome = outcome,
                   ![e].hash = IF op = "get" THEN drafts[Target(e)] ELSE Nothing,
                   ![e].media = IF op \in {"add", "update"} THEN Target(e) ELSE 0]
  BY DEF Call
<1>4. /\ UNCHANGED <<job, ledger, mapping, faults>>
      /\ TakesEffect(e) \/ UNCHANGED <<calls, drafts>>
  BY DEF Call
<1>5. PICK x \in Execs :
        /\ x.pc = "answer" /\ x.key = k /\ x.op = op /\ x.got = exec[e].got
        /\ x.attempt = exec[e].attempt
        /\ op \in {"add", "update"} => x.media \in Media
        /\ exec' = [exec EXCEPT ![e] = x]
  <2>1. PICK h \in Hashes : h = IF op = "get" THEN drafts[Target(e)] ELSE Nothing
    BY <1>2 DEF Inv, Types, Hashes
  <2>2. PICK m \in 0 .. MaxDrafts :
          /\ m = IF op \in {"add", "update"} THEN Target(e) ELSE 0
          /\ op \in {"add", "update"} => m \in Media
    BY <1>2, BoundsAssumption DEF Media
  <2>3. PICK x : x = [exec[e] EXCEPT !.pc = "answer", !.outcome = outcome, !.hash = h,
                                     !.media = m]
    OBVIOUS
  <2>4. /\ x \in Execs /\ x.pc = "answer" /\ x.key = k /\ x.op = op /\ x.got = exec[e].got
        /\ x.attempt = exec[e].attempt /\ x.media = m
    BY <1>1, <2>3 DEF Execs
  <2>5. exec' = [exec EXCEPT ![e].pc = "answer", ![e].outcome = outcome, ![e].hash = h,
                             ![e].media = m]
    BY <1>3, <2>1, <2>2
  <2>6. exec' = [exec EXCEPT ![e] = x]
    BY <2>3, <2>5
  <2> QED BY <2>2, <2>4, <2>6
<1>12. exec'[e] = x /\ \A f \in Executors \ {e} : exec'[f] = exec[f]
  BY <1>5 DEF Inv, Types
<1>6. /\ \A i \in Keys \ {k} : calls'[i] = calls[i]
      /\ \A o \in Ops \ {op} : calls'[k][o] = calls[k][o]
      /\ calls'[k][op] \in {calls[k][op], calls[k][op] + 1}
      /\ calls' \in [Keys -> [Ops -> Nat]]
  <2>1. CASE UNCHANGED calls
    BY <2>1 DEF Inv, Types
  <2>2. CASE calls' = [calls EXCEPT ![k][op] = @ + 1]
    BY <2>2 DEF Inv, Types
  <2> QED BY <1>4, <2>1, <2>2 DEF TakesEffect
<1>7. drafts' \in [Media -> Hashes]
  <2>1. CASE UNCHANGED drafts
    BY <2>1 DEF Inv, Types
  <2>2. CASE drafts' = [drafts EXCEPT ![Target(e)] = k]
    BY <2>2 DEF Inv, Types, Hashes
  <2> QED BY <1>4, <2>1, <2>2 DEF TakesEffect
<1>8. Types'
  BY <1>4, <1>5, <1>6, <1>7 DEF Inv, Types
<1>9. ExecOk(e)'
  BY <1>1, <1>4, <1>5, <1>12 DEF ExecOk, Claimed
<1>10. KeyOk(k)'
  <2>1. KeyOk(k)
    BY DEF Inv
  <2>2. ASSUME NEW o \in Ops \ {"get"}
        PROVE  /\ calls'[k][o] <= 1 + Fails(k, o)'
               /\ Open(k, o)' => calls'[k][o] <= Fails(k, o)'
    <3>1. Fails(k, o)' = Fails(k, o) /\ Fails(k, o) \in Nat /\ calls[k][o] \in Nat
      <4>1. Fails(k, o)' = Fails(k, o)
        BY <1>4 DEF Fails, Failed
      <4>2. calls[k][o] \in Nat
        BY DEF Inv, Types
      <4> QED BY <4>1, <4>2, FailsIsNat
    <3>2. CASE o = op
      <4>1. Working(e, k, o)
        BY <1>1 DEF Working
      <4>2. calls[k][o] <= Fails(k, o)
        BY <1>1, <2>1, <3>2, <4>1 DEF KeyOk, Open
      <4>3. ~Open(k, o)'
        <5>1. \A f \in Executors : ~Working(f, k, o)'
          <6> TAKE f \in Executors
          <6>1. CASE f = e
            BY <1>5, <1>12, <3>2, <6>1 DEF Working
          <6>2. CASE f # e
            <7>1. exec[f].key = k => exec[f].pc \notin Claimed
              BY <1>1, <6>2 DEF Inv, OneExecutor, Claimed
            <7> QED BY <1>12, <6>2, <7>1 DEF Working, Claimed
          <6> QED BY <6>1, <6>2
        <5>2. job[k].status \notin {"absent", "queued"}
          BY <1>1 DEF ExecOk, Claimed
        <5> QED BY <1>4, <5>1, <5>2 DEF Open
      <4> QED BY <1>6, <3>1, <3>2, <4>2, <4>3
    <3>3. CASE o # op
      <4>1. Working(e, k, o)
        BY <1>1 DEF Working
      <4>2. Open(k, o)' => Open(k, o)
        BY <1>4, <1>12, <4>1, OpenKeeps DEF Open
      <4> QED BY <1>6, <2>1, <3>1, <3>3, <4>2 DEF KeyOk
    <3> QED BY <3>2, <3>3
  <2> QED BY <1>4, <2>1, <2>2 DEF KeyOk
<1>11. \A f \in Executors \ {e} : ~(exec[f].pc \in Claimed /\ exec[f].key = k)
  BY <1>1 DEF Inv, OneExecutor, Claimed
<1> QED BY <1>1, <1>4, <1>5, <1>12, <1>6, <1>8, <1>9, <1>10, <1>11, StepKeeps DEF Inv, Claimed

\* An answer is recorded in the ledger, together with what it means for the job.
LEMMA RecordKeeps ==
  ASSUME Inv, NEW e \in Executors, exec[e].pc = "answer",
         NEW k \in Keys, k = exec[e].key,
         NEW x \in Execs, exec' = [exec EXCEPT ![e] = x], x.pc = "idle" \/ x.key = k,
         NEW row \in JobRows, job' = [job EXCEPT ![k] = row],
         row.status \notin {"absent", "queued"}, row.attempt = job[k].attempt,
         row.initial = job[k].initial, job[k].uploaded \subseteq row.uploaded,
         NEW phase \in {"ok", "failed"}, Result(e, phase),
         mapping' \in [media: 0 .. MaxDrafts, hash: Hashes], Sound(mapping)',
         UNCHANGED <<drafts, calls, faults>>,
         ExecOk(e)', NEW op \in Ops, op = exec[e].op,
         phase = "ok" /\ op \notin row.uploaded /\ op # "get" => ~Working(e, k, op)'
  PROVE  Inv'
<1> PICK a \in 1 .. MaxAttempts : a = exec[e].attempt
  BY BoundsAssumption DEF Inv, Types, Execs, ExecOk, Claimed
<1>1. /\ exec'[e] = x /\ \A f \in Executors \ {e} : exec'[f] = exec[f]
      /\ job'[k] = row /\ \A i \in Keys \ {k} : job'[i] = job[i]
  BY DEF Inv, Types
<1>2. /\ ledger' = [ledger EXCEPT ![k] = @ \cup {<<a, op, phase>>}]
      /\ ledger'[k] = ledger[k] \cup {<<a, op, phase>>}
      /\ \A i \in Keys \ {k} : ledger'[i] = ledger[i]
  BY DEF Result, Inv, Types
<1>3. Types'
  <2>1. <<a, op, phase>> \in Entries
    BY DEF Entries
  <2> QED BY <1>2, <2>1 DEF Inv, Types
<1>4. /\ a = job[k].attempt /\ <<a, op, "failed">> \notin ledger[k]
      /\ job[k].status \notin {"absent", "queued"}
  BY DEF Inv, ExecOk, Claimed
<1>5. \A f \in Executors \ {e} : ~(exec[f].pc \in Claimed /\ exec[f].key = k)
  BY DEF Inv, OneExecutor, Claimed
<1>6. KeyOk(k)'
  <2>1. ASSUME NEW o \in Ops \ {"get"}, Open(k, o)'
        PROVE  Open(k, o) \/ Fails(k, o)' = Fails(k, o) + 1
    <3>1. CASE o # op
      <4>1. Working(e, k, o)
        BY <3>1 DEF Working
      <4>2. Open(k, o)
        BY <1>1, <2>1, <4>1, OpenKeeps DEF Open
      <4> QED BY <4>2
    <3>2. CASE o = op /\ phase = "failed"
      BY <1>2, <1>4, <3>2, FailsAdd
    <3>3. CASE o = op /\ phase = "ok"
      <4>1. \A f \in Executors \ {e} : ~Working(f, k, o)'
        BY <1>1, <1>5 DEF Working, Claimed
      <4>2. o \notin row.uploaded /\ Working(e, k, o)'
        BY <1>1, <2>1, <4>1 DEF Open
      <4> QED BY <3>3, <4>2
    <3> QED BY <3>1, <3>2, <3>3
  <2>2. ASSUME NEW b \in 1 .. MaxAttempts, NEW o \in Ops, <<b, o, "failed">> \in ledger'[k]
        PROVE  <<b, o, "failed">> \in ledger[k] \/ b <= job'[k].attempt
    <3>1. <<b, o, "failed">> \in ledger[k] \/ b = a
      BY <1>2, <2>2
    <3> QED BY <1>1, <1>4, <3>1
  <2>3. Sound(job'[k].initial) /\ job'[k].attempt >= job[k].attempt
    BY <1>1, <1>4 DEF Inv, KeyOk
  <2>4. job'[k].status # "absent" /\ ledger[k] \subseteq ledger'[k] /\ calls'[k] = calls[k]
    BY <1>1, <1>2
  <2> QED BY <1>3, <2>1, <2>2, <2>3, <2>4, KeyKeeps
<1>7. /\ exec'[e].pc # "idle" => exec'[e].key = k
      /\ exec[e].pc \in Claimed /\ exec[e].key = k
      /\ job'[k].status # "absent"
      /\ \A i \in Keys \ {k} : calls'[i] = calls[i]
  BY <1>1 DEF Claimed
<1> QED BY <1>1, <1>2, <1>3, <1>5, <1>6, <1>7, StepKeeps

\* What the box holds is recorded, and accepted or a conflict.
LEMMA RecordGetKeeps ==
  ASSUME Inv, NEW e \in Executors, RecordGet(e)
  PROVE  Inv'
<1> PICK k \in Keys : k = exec[e].key
  BY DEF Inv, ExecOk, RecordGet, At
<1> PICK row : row = [job[k] EXCEPT !.observed = exec[e].hash]
  OBVIOUS
<1>1. /\ exec[e].pc = "answer" /\ exec[e].op = "get" /\ exec[e] \in Execs /\ ExecOk(e)
      /\ job[k] \in JobRows /\ exec[e].attempt = job[k].attempt
      /\ job[k].status \notin {"absent", "queued"}
      /\ \A o \in Ops : <<exec[e].attempt, o, "failed">> \notin ledger[k]
  BY DEF RecordGet, At, Inv, Types, ExecOk, Claimed
<1>2. /\ row \in JobRows /\ row.status = job[k].status /\ row.attempt = job[k].attempt
      /\ row.initial = job[k].initial /\ row.uploaded = job[k].uploaded
      /\ row.expected = job[k].expected /\ row.strategy = job[k].strategy
      /\ row.observed = exec[e].hash
  BY <1>1 DEF JobRows, Execs
<1>3. /\ job' = [job EXCEPT ![k] = row] /\ Result(e, "ok")
      /\ UNCHANGED <<mapping, drafts, calls, faults>>
  BY DEF RecordGet
<1>4. /\ job'[k] = row
      /\ \A o \in Ops : <<exec[e].attempt, o, "failed">> \notin ledger'[k]
  BY <1>1, <1>3 DEF Result, Inv, Types
<1>5. PICK x \in Execs : /\ exec' = [exec EXCEPT ![e] = x] /\ exec'[e] = x
                         /\ x.key = k /\ x.attempt = exec[e].attempt
                         /\ x.pc \in {"next", "conflict"}
                         /\ x.pc = "next" => Accepted(job[k], exec[e].hash)
  <2>1. CASE Accepted(job[k], exec[e].hash)
    <3>0. PICK yes \in BOOLEAN : yes = TRUE
      OBVIOUS
    <3> PICK a \in 0 .. MaxAttempts : a = exec[e].attempt
      BY <1>1 DEF Execs
    <3> PICK x : x = Advanced(k, yes, a)
      OBVIOUS
    <3>1. x \in Execs /\ x.pc = "next" /\ x.key = k /\ x.got = yes /\ x.attempt = a
      BY NextTypes
    <3>2. exec' = [exec EXCEPT ![e] = x]
      BY <2>1, <3>0 DEF RecordGet, Mine, Proceed, Advanced
    <3> QED BY <2>1, <3>1, <3>2 DEF Inv, Types
  <2>2. CASE ~Accepted(job[k], exec[e].hash)
    <3> PICK x : x = [exec[e] EXCEPT !.pc = "conflict"]
      OBVIOUS
    <3>1. x \in Execs /\ x.pc = "conflict" /\ x.key = k /\ x.attempt = exec[e].attempt
      BY <1>1 DEF Execs
    <3>2. exec' = [exec EXCEPT ![e] = x]
      BY <2>2 DEF RecordGet, Mine, Goto
    <3> QED BY <3>1, <3>2 DEF Inv, Types
  <2> QED BY <2>1, <2>2
<1>6. ExecOk(e)'
  <2>1. x.pc = "next" => Consented(row)
    BY <1>2, <1>5 DEF Consented, Accepted
  <2>2. exec'[e].pc = "next" => Consented(job'[k])
    BY <1>4, <1>5, <2>1
  <2>3. /\ exec'[e].pc \in {"next", "conflict"} /\ exec'[e].key = k
        /\ exec'[e].attempt = job'[k].attempt /\ exec'[e].attempt = exec[e].attempt
        /\ job'[k].status \notin {"absent", "queued"} /\ exec[e].attempt # 0
    BY <1>1, <1>2, <1>4, <1>5 DEF ExecOk, Claimed
  <2> QED BY <1>4, <2>2, <2>3 DEF ExecOk, Claimed
<1>7. mapping' \in [media: 0 .. MaxDrafts, hash: Hashes] /\ Sound(mapping)'
  BY <1>3 DEF Inv, Types, Sound
<1>8. PICK op \in Ops : op = exec[e].op /\ op = "get"
  BY <1>1 DEF Execs
<1>9. /\ job[k].uploaded \subseteq row.uploaded /\ row.status \notin {"absent", "queued"}
      /\ x.key = k /\ exec' = [exec EXCEPT ![e] = x]
  BY <1>1, <1>2, <1>5
<1> QED BY <1>1, <1>2, <1>3, <1>6, <1>7, <1>8, <1>9, RecordKeeps

\* An upload that succeeded is not asked for again.
LEMMA RecordUploadKeeps ==
  ASSUME Inv, NEW e \in Executors, RecordUpload(e)
  PROVE  Inv'
<1> PICK k \in Keys : k = exec[e].key
  BY DEF Inv, ExecOk, RecordUpload, At
<1> PICK row : row = [job[k] EXCEPT !.uploaded = @ \cup {exec[e].op}]
  OBVIOUS
<1>1. /\ exec[e].pc = "answer" /\ exec[e].op \in Uploads /\ exec[e] \in Execs /\ ExecOk(e)
      /\ job[k] \in JobRows /\ exec[e].attempt = job[k].attempt
      /\ job[k].status \notin {"absent", "queued"}
      /\ \A o \in Ops : <<exec[e].attempt, o, "failed">> \notin ledger[k]
  BY DEF RecordUpload, At, Inv, Types, ExecOk, Claimed
<1>2. /\ row \in JobRows /\ row.status = job[k].status /\ row.attempt = job[k].attempt
      /\ row.initial = job[k].initial /\ row.uploaded = job[k].uploaded \cup {exec[e].op}
      /\ row.expected = job[k].expected /\ row.strategy = job[k].strategy
      /\ row.observed = job[k].observed
  BY <1>1 DEF JobRows
<1>3. /\ job' = [job EXCEPT ![k] = row] /\ Result(e, "ok")
      /\ UNCHANGED <<mapping, drafts, calls, faults>>
  BY DEF RecordUpload
<1>4. /\ job'[k] = row
      /\ \A o \in Ops : <<exec[e].attempt, o, "failed">> \notin ledger'[k]
  BY <1>1, <1>3 DEF Result, Inv, Types
<1> PICK got \in BOOLEAN : got = exec[e].got
  BY <1>1 DEF Execs
<1> PICK x : x = Advanced(k, got, exec[e].attempt)
  OBVIOUS
<1>5. /\ x \in Execs /\ x.pc = "next" /\ x.key = k
      /\ x.got = got /\ x.attempt = exec[e].attempt
  <2>1. exec[e].attempt \in 0 .. MaxAttempts
    BY <1>1 DEF Execs
  <2> QED BY <2>1, NextTypes
<1>6. exec' = [exec EXCEPT ![e] = x] /\ exec'[e] = x
  BY DEF RecordUpload, Proceed, Advanced, Inv, Types
<1>7. ExecOk(e)'
  <2>1. got => Consented(row)
    BY <1>1, <1>2 DEF ExecOk, Consented, Accepted
  <2>2. exec'[e].got => Consented(job'[k])
    BY <1>4, <1>5, <1>6, <2>1
  <2>3. /\ exec'[e].pc = "next" /\ exec'[e].key = k
        /\ exec'[e].attempt = job'[k].attempt /\ exec'[e].attempt = exec[e].attempt
        /\ job'[k].status \notin {"absent", "queued"} /\ exec[e].attempt # 0
    BY <1>1, <1>2, <1>4, <1>5, <1>6 DEF ExecOk, Claimed
  <2> QED BY <1>4, <2>2, <2>3 DEF ExecOk, Claimed
<1>8. mapping' \in [media: 0 .. MaxDrafts, hash: Hashes] /\ Sound(mapping)'
  BY <1>3 DEF Inv, Types, Sound
<1>9. PICK op \in Ops : op = exec[e].op /\ op \in row.uploaded
  BY <1>1, <1>2 DEF Execs
<1> QED BY <1>1, <1>2, <1>3, <1>5, <1>6, <1>7, <1>8, <1>9, RecordKeeps

\* A draft that was written ends the job and becomes the mapping.
LEMMA RecordDraftKeeps ==
  ASSUME Inv, NEW e \in Executors, RecordDraft(e)
  PROVE  Inv'
<1> PICK k \in Keys : k = exec[e].key
  BY DEF Inv, ExecOk, RecordDraft, At
<1> PICK row : row = [job[k] EXCEPT !.status = "synced", !.observed = k]
  OBVIOUS
<1>1. /\ exec[e].pc = "answer" /\ exec[e].op \in {"add", "update"}
      /\ job[k] \in JobRows /\ exec[e].media \in Media
  BY DEF RecordDraft, At, Inv, Types, ExecOk
<1>2. /\ row \in JobRows /\ row.status = "synced" /\ row.attempt = job[k].attempt
      /\ row.initial = job[k].initial /\ row.uploaded = job[k].uploaded
  BY <1>1 DEF JobRows, Statuses, Hashes
<1>3. /\ job' = [job EXCEPT ![k] = row] /\ Result(e, "ok") /\ UNCHANGED <<drafts, calls, faults>>
      /\ mapping' = [media |-> exec[e].media, hash |-> k]
      /\ exec' = [exec EXCEPT ![e] = AtRest] /\ exec'[e] = AtRest
  BY DEF RecordDraft, Rest, Inv, Types
<1>4. mapping' \in [media: 0 .. MaxDrafts, hash: Hashes] /\ Sound(mapping)'
  BY <1>1, <1>3, BoundsAssumption DEF Hashes, Media, Sound
<1> PICK op \in Ops : op = exec[e].op
  BY DEF Inv, Types, Execs
<1>5. ExecOk(e)' /\ ~Working(e, k, op)'
  BY <1>3, RestTypes DEF ExecOk, Working
<1>6. job[k].uploaded \subseteq row.uploaded /\ row.status \notin {"absent", "queued"}
  BY <1>2
<1> QED BY <1>1, <1>2, <1>3, <1>4, <1>5, <1>6, RestTypes, RecordKeeps

\* A failure is recorded before the job may be tried again.
LEMMA RecordFailureKeeps ==
  ASSUME Inv, NEW e \in Executors, RecordFailure(e)
  PROVE  Inv'
<1> PICK k \in Keys : k = exec[e].key
  BY DEF Inv, ExecOk, RecordFailure, At
<1> PICK x : x = [exec[e] EXCEPT !.pc = "failing"]
  OBVIOUS
<1> PICK row \in JobRows : row = job[k]
  BY DEF Inv, Types
<1>1. /\ exec[e].pc = "answer" /\ exec[e] \in Execs /\ ExecOk(e)
      /\ job[k].status \notin {"absent", "queued"}
  BY DEF RecordFailure, At, Inv, Types, ExecOk, Claimed
<1>2. x \in Execs /\ x.pc = "failing" /\ x.key = k /\ x.attempt = exec[e].attempt
  BY <1>1 DEF Execs
<1>3. /\ exec' = [exec EXCEPT ![e] = x] /\ exec'[e] = x /\ Result(e, "failed")
      /\ UNCHANGED <<job, mapping, drafts, calls, faults>>
  BY DEF RecordFailure, Goto, Inv, Types
<1>4. job' = [job EXCEPT ![k] = row]
  BY <1>3 DEF Inv, Types
<1>5. ExecOk(e)'
  BY <1>1, <1>2, <1>3 DEF ExecOk, Claimed
<1>6. mapping' \in [media: 0 .. MaxDrafts, hash: Hashes] /\ Sound(mapping)'
  BY <1>3 DEF Inv, Types, Sound
<1> PICK op \in Ops : op = exec[e].op
  BY <1>1 DEF Execs
<1>7. /\ row.status \notin {"absent", "queued"} /\ row.attempt = job[k].attempt
      /\ row.initial = job[k].initial /\ job[k].uploaded \subseteq row.uploaded
  BY <1>1
<1>8. exec' = [exec EXCEPT ![e] = x] /\ Result(e, "failed") /\ UNCHANGED <<drafts, calls, faults>>
  BY <1>3
<1> QED BY <1>1, <1>2, <1>4, <1>5, <1>6, <1>7, <1>8, RecordKeeps

------------------------------------------------------------------------------
\* The invariant is inductive.
LEMMA StepsKeep == Inv /\ [Next]_vars => Inv'
<1> SUFFICES ASSUME Inv, [Next]_vars PROVE Inv'
  OBVIOUS
<1>1. CASE UNCHANGED vars
  BY <1>1 DEF vars, Inv, Types, OneExecutor, ExecOk, KeyOk, Open, Working, Fails, Failed
<1>2. CASE Next
  <2>1. ASSUME NEW e \in Executors, NEW k \in Keys, NEW s \in Strategies, NEW h \in Shown,
               Submit(e, k, s, h)
        PROVE  Inv'
    BY <2>1, SubmitKeeps
  <2>2. ASSUME NEW e \in Executors, Execute(e)
        PROVE  Inv'
    BY <2>2, ClaimKeeps, GuardKeeps, EndsKeep, ProbeKeeps, IntendKeeps, CallKeeps,
       RecordGetKeeps, RecordUploadKeeps, RecordDraftKeeps, RecordFailureKeeps DEF Execute
  <2> QED BY <1>2, <2>1, <2>2, SubmitAgainKeeps, FaultsKeep, EditKeeps DEF Next
<1> QED BY <1>1, <1>2

\* The invariant holds in every reachable state.
LEMMA InvIsKept == Spec => []Inv
<1>1. Init => Inv
  <2> SUFFICES ASSUME Init PROVE Inv
    OBVIOUS
  <2>1. NoMapping \in [media: 0 .. MaxDrafts, hash: Hashes] /\ Sound(NoMapping)
    BY BoundsAssumption DEF NoMapping, Hashes, Sound
  <2>2. NoJob \in JobRows /\ NoJob.status = "absent" /\ NoJob.initial = NoMapping
        /\ NoJob.uploaded = {} /\ NoJob.attempt = 0
    BY <2>1, BoundsAssumption DEF NoJob, JobRows, Statuses, Strategies, Hashes
  <2>3. Types
    BY <2>1, <2>2, RestTypes, BoundsAssumption DEF Init, Types, Hashes
  <2>4. OneExecutor /\ \A e \in Executors : ExecOk(e)
    BY RestTypes DEF Init, OneExecutor, ExecOk, Claimed
  <2>5. ASSUME NEW k \in Keys
        PROVE  KeyOk(k)
    <3>1. \A op \in Ops : Fails(k, op) \in Nat
      BY FailsIsNat
    <3> QED BY <2>1, <2>2, <3>1 DEF Init, KeyOk
  <2> QED BY <2>1, <2>3, <2>4, <2>5 DEF Inv, Init
<1> QED BY <1>1, StepsKeep, PTL DEF Spec

\* Every row, entry and executor keeps its type.
THEOREM TypesCorrect == Spec => []TypeOK
<1>1. Inv => TypeOK
  BY TypesSplit DEF Inv
<1> QED BY <1>1, InvIsKept, PTL

\* However often a request is repeated and whoever died, one executor at a time
\* is past the claim of a job.
THEOREM ExecutorsExclude == Spec => []OneExecutor
<1>1. Inv => OneExecutor
  BY DEF Inv
<1> QED BY <1>1, InvIsKept, PTL

\* A write takes effect once, and once more for every failure of it on record.
THEOREM WritesAreCounted == Spec => []NeverRepeatedBlindly
<1>1. Inv => NeverRepeatedBlindly
  BY DEF Inv, KeyOk, Fails, Failed, NeverRepeatedBlindly
<1> QED BY <1>1, InvIsKept, PTL

EditsKeep == \A m \in Media, k \in Keys :
  (drafts[m] = Edited /\ drafts'[m] = k) =>
    (job[k].observed # Edited \/ (job[k].strategy = "overwrite_confirmed" /\ job[k].expected = Edited))

\* A text of the customer that an executor has seen is overwritten only if it is
\* the one that was confirmed: an executor writes over it only by an update, which
\* it does after its own look into the box, and the mapping never holds such a text.
THEOREM EditsAreConfirmed == Spec => EditsNeedConsent
<1>1. Inv /\ [Next]_vars => EditsKeep
  <2> SUFFICES ASSUME Inv, [Next]_vars, NEW m \in Media, NEW k \in Keys,
                      drafts[m] = Edited, drafts'[m] = k, job[k].observed = Edited
               PROVE  job[k].strategy = "overwrite_confirmed" /\ job[k].expected = Edited
    BY DEF EditsKeep
  <2>1. drafts'[m] # drafts[m] /\ k # Edited
    BY BoundsAssumption
  <2>2. PICK e \in Executors : Call(e) /\ TakesEffect(e)
    <3>1. ASSUME NEW n \in Media, CustomerEdits(n)
          PROVE  FALSE
      BY <2>1, <3>1 DEF CustomerEdits, Inv, Types
    <3>2. drafts' # drafts
      BY <2>1
    <3> QED BY <3>1, <3>2 DEF Next, vars, Submit, SubmitAgain, Execute, Claim, Guard, GuardMarks,
               Probe, Intend, Call, RecordGet, RecordUpload, RecordDraft, MarkConflict,
               RecordFailure, EndFailure, AssetChanged, Die
  <2>3. exec[e].op \in {"add", "update"} /\ m = Target(e) /\ k = exec[e].key
    BY <2>1, <2>2 DEF TakesEffect, Inv, Types
  <2>4. exec[e].pc = "call" /\ exec[e].op = "add" => FreeMedia # {}
    BY <2>2 DEF Call, At
  <2>5. exec[e].op = "update"
    BY <2>2, <2>3, <2>4, TargetIs, BoundsAssumption DEF Call, At
  <2>6. Updates(job[k]) /\ Consented(job[k]) /\ Sound(job[k].initial)
    BY <2>2, <2>3, <2>5 DEF Inv, ExecOk, KeyOk, Call, At
  <2>7. job[k].strategy \in Strategies
    BY DEF Inv, Types, JobRows
  <2> QED BY <2>6, <2>7 DEF Updates, Consented, Accepted, Sound, Strategies
<1>2. []Inv /\ [][Next]_vars => [][EditsKeep]_vars
  BY <1>1, PTL
<1> QED BY <1>2, InvIsKept, PTL DEF Spec, EditsNeedConsent, EditsKeep
=============================================================================
