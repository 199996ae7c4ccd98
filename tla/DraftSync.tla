------------------------------ MODULE DraftSync ------------------------------
(***************************************************************************)
(* Synchronising one article to a WeChat draft box                         *)
(* (backend/app/services/publishing.py, the WECHAT_DRAFT_SYNC jobs): a     *)
(* request freezes a job, an executor claims it and performs up to four    *)
(* external calls, each between an intent and a result in the event ledger.*)
(*                                                                         *)
(* Every commit is a step, and so is every call; an executor can die       *)
(* between any two.  A client that got no answer sends its request again   *)
(* under the same idempotency key, which executes the job again.           *)
(***************************************************************************)
EXTENDS Naturals, FiniteSets

CONSTANTS
  Keys,          \* idempotency keys, each the name of its job and of the text it writes
  Executors,     \* requests and workers that execute jobs
  Nothing,       \* no hash, no draft, no job
  Uploads,       \* images the article needs, body images and the cover
  Edited,        \* the hash of a text the customer wrote in the draft box
  MaxAttempts,   \* bound: claims of one job
  MaxDrafts,     \* bound: drafts in the box
  Faults         \* bound: deaths, changed images and edits by the customer

ASSUME BoundsAssumption ==
  /\ MaxAttempts \in Nat \ {0} /\ MaxDrafts \in Nat /\ Faults \in Nat
  /\ {"get", "add", "update"} \cap Uploads = {}
  /\ Nothing \notin Keys /\ Edited \notin Keys /\ Nothing # Edited

VARIABLES
  job,      \* PlatformPublishJob
  ledger,   \* Event rows of a job: <<attempt, operation, phase>>
  mapping,  \* WechatDraftMapping of the article
  drafts,   \* the customer's draft box
  calls,    \* how often a job's writing operation took effect at WeChat
  exec,     \* what each executor is doing
  faults

vars == <<job, ledger, mapping, drafts, calls, exec, faults>>

Statuses   == {"absent", "queued", "running", "synced", "conflict", "blocked", "reconcile"}
Strategies == {"fail", "create_new", "overwrite_confirmed"}
Hashes     == Keys \cup {Nothing, Edited}
Media      == 1 .. MaxDrafts
Ops        == Uploads \cup {"get", "add", "update"}

NoMapping == [media |-> 0, hash |-> Nothing]
NoJob == [status |-> "absent", strategy |-> "fail", expected |-> Nothing, initial |-> NoMapping,
          observed |-> Nothing, uploaded |-> {}, attempt |-> 0]
AtRest == [pc |-> "idle", key |-> Nothing, status |-> "absent", attempt |-> 0,
           got |-> FALSE, op |-> "get",
           outcome |-> "ok", hash |-> Nothing, media |-> 0]

Init ==
  /\ job     = [k \in Keys |-> NoJob]
  /\ ledger  = [k \in Keys |-> {}]
  /\ mapping = NoMapping
  /\ drafts  = [m \in Media |-> Nothing]
  /\ calls   = [k \in Keys |-> [op \in Ops |-> 0]]
  /\ exec    = [e \in Executors |-> AtRest]
  /\ faults  = Faults

------------------------------------------------------------------------------
(* prepare_wechat_draft_sync_job. *)

\* _validate_remote_strategy: an update needs the hash the user confirmed.
ValidStrategy(strategy, expected) ==
  IF mapping = NoMapping THEN strategy # "overwrite_confirmed" /\ expected = Nothing
  ELSE strategy = "create_new" \/ expected # Nothing

\* What the preflight shows the user: the mapping's hash or one a job observed.
Shown == {Nothing, mapping.hash} \cup {job[k].observed : k \in Keys}

\* The executor continues with the job it got, as it was when it was read; of a
\* job that is neither queued nor running it has nothing to do.
Continue(e, k, seen) ==
  exec' = [exec EXCEPT ![e] = [AtRest EXCEPT !.pc = "start", !.key = k,
                                             !.status = seen.status, !.attempt = seen.attempt]]

\* The package: what is written, and what the box held when it was frozen.
Frozen(strategy, expected) ==
  [NoJob EXCEPT !.status = "queued", !.strategy = strategy,
                !.expected = expected, !.initial = mapping]

Submit(e, k, strategy, expected) ==
  LET new == Frozen(strategy, expected) IN
  /\ exec[e].pc = "idle" /\ job[k].status = "absent"
  /\ ValidStrategy(strategy, expected)
  /\ job' = [job EXCEPT ![k] = new]
  /\ Continue(e, k, new)
  /\ UNCHANGED <<ledger, mapping, drafts, calls, faults>>

\* The same request again: it is validated and digested as if it were new, and
\* the digest contains the mapping, which the job may have changed.
Recognised(k) ==
  /\ ValidStrategy(job[k].strategy, job[k].expected)
  /\ job[k].initial = mapping

SubmitAgain(e, k) ==
  /\ exec[e].pc = "idle" /\ job[k].status \in {"queued", "running"} /\ Recognised(k)
  /\ Continue(e, k, job[k])
  /\ UNCHANGED <<job, ledger, mapping, drafts, calls, faults>>

------------------------------------------------------------------------------
(* execute_wechat_draft_sync_job. *)

Rest(e)      == exec' = [exec EXCEPT ![e] = AtRest]
Goto(e, pc)  == exec' = [exec EXCEPT ![e].pc = pc]
Proceed(e, got) ==
  exec' = [exec EXCEPT ![e] = [AtRest EXCEPT !.pc = "next", !.key = exec[e].key, !.got = got,
                                             !.status = "running", !.attempt = exec[e].attempt]]
Set(k, s)    == job' = [job EXCEPT ![k].status = s]
At(e, pc)    == exec[e].pc = pc
Mine(e)      == job[exec[e].key]
Updates(j)   == j.initial # NoMapping /\ j.strategy # "create_new"

\* Mutant: the claim does not compare the attempt and the status it read.
AnyClaim(e) == TRUE
\* UPDATE ... WHERE status = queued AND retry_count = the one that was read.
Claimable(e) == Mine(e).status = "queued" /\ Mine(e).attempt = exec[e].attempt

Claim(e) ==
  /\ At(e, "start") /\ exec[e].status = "queued" /\ exec[e].attempt < MaxAttempts
  /\ IF Claimable(e)
     THEN /\ job'  = [job EXCEPT ![exec[e].key].status = "running",
                                 ![exec[e].key].attempt = exec[e].attempt + 1]
          /\ exec' = [exec EXCEPT ![e].pc = "probe", ![e].attempt = @ + 1]
     ELSE Rest(e) /\ UNCHANGED job
  /\ UNCHANGED <<ledger, mapping, drafts, calls, faults>>

\* _guard_unresolved_sync_intent, of a job that was running when it was read.
Unresolved(k) == \E a \in 1 .. MaxAttempts, op \in Ops :
  <<a, op, "intent">> \in ledger[k] /\ {<<a, op, "ok">>, <<a, op, "failed">>} \cap ledger[k] = {}
FailedNow(e) == \E op \in Ops : <<exec[e].attempt, op, "failed">> \in ledger[exec[e].key]

Guard(e) ==
  /\ At(e, "start") /\ exec[e].status = "running"
  /\ IF Unresolved(exec[e].key) \/ FailedNow(e) THEN Goto(e, "guard") ELSE Rest(e)
  /\ UNCHANGED <<job, ledger, mapping, drafts, calls, faults>>

\* It writes the row it read, whatever its executor wrote meanwhile.
GuardMarks(e) ==
  /\ At(e, "guard")
  /\ Set(exec[e].key, "reconcile") /\ Rest(e)
  /\ UNCHANGED <<ledger, mapping, drafts, calls, faults>>

\* Capabilities and access token; the probe may fail for now or for good.
Probe(e) ==
  /\ At(e, "probe")
  /\ \/ Proceed(e, FALSE) /\ UNCHANGED job
     \/ \E s \in {"queued", "blocked"} : Set(exec[e].key, s) /\ Rest(e)
  /\ UNCHANGED <<ledger, mapping, drafts, calls, faults>>

\* Mutant: the images are uploaded again in every attempt.
AllUploads(e) == Uploads
Missing(e) == Uploads \ Mine(e).uploaded

NextOp(e) ==
  IF Updates(Mine(e)) /\ ~exec[e].got THEN "get"
  ELSE IF Missing(e) # {} THEN CHOOSE u \in Missing(e) : TRUE
  ELSE IF Updates(Mine(e)) THEN "update" ELSE "add"

\* _commit_external_intent.
Intend(e) ==
  LET op == NextOp(e) IN
  /\ At(e, "next")
  /\ ledger' = [ledger EXCEPT ![exec[e].key] = @ \cup {<<exec[e].attempt, op, "intent">>}]
  /\ exec'   = [exec EXCEPT ![e].pc = "call", ![e].op = op]
  /\ UNCHANGED <<job, mapping, drafts, calls, faults>>

\* _load_frozen_asset: the image is gone or another one; the job stays as it is.
AssetChanged(e) ==
  /\ At(e, "next") /\ NextOp(e) \in Uploads /\ faults > 0
  /\ faults' = faults - 1 /\ Rest(e)
  /\ UNCHANGED <<job, ledger, mapping, drafts, calls>>

FreeMedia == {m \in Media : drafts[m] = Nothing}

\* The draft an operation is about: the one the mapping named, or a new one.
Target(e) == IF exec[e].op = "add" THEN CHOOSE m \in FreeMedia : TRUE ELSE Mine(e).initial.media

\* WeChat executes the operation.
TakesEffect(e) ==
  /\ calls' = IF exec[e].op = "get" THEN calls
              ELSE [calls EXCEPT ![exec[e].key][exec[e].op] = @ + 1]
  /\ drafts' = IF exec[e].op \in {"add", "update"}
               THEN [drafts EXCEPT ![Target(e)] = exec[e].key] ELSE drafts

\* It answers, refuses, or says nothing in time: then it may have done it or not.
Call(e) ==
  /\ At(e, "call") /\ (exec[e].op = "add" => FreeMedia # {})
  /\ \E outcome \in {"ok", "retryable", "final"} :
       /\ exec' = [exec EXCEPT
                     ![e].pc = "answer", ![e].outcome = outcome,
                     ![e].hash = IF exec[e].op = "get" THEN drafts[Target(e)] ELSE Nothing,
                     ![e].media = IF exec[e].op \in {"add", "update"} THEN Target(e) ELSE 0]
       /\ \/ outcome \in {"ok", "retryable"} /\ TakesEffect(e)
          \/ outcome # "ok" /\ UNCHANGED <<calls, drafts>>
  /\ UNCHANGED <<job, ledger, mapping, faults>>

Result(e, phase) ==
  ledger' = [ledger EXCEPT ![exec[e].key] = @ \cup {<<exec[e].attempt, exec[e].op, phase>>}]

\* Mutant: an overwrite is accepted whatever is in the draft box.
AcceptsOverwrite(j, observed) ==
  j.strategy = "overwrite_confirmed" \/ observed = j.expected
\* A fresh remote hash has to be the confirmed one, and by default the stored one.
Accepted(j, observed) ==
  /\ observed = j.expected
  /\ j.strategy = "fail" => observed = j.initial.hash

RecordGet(e) ==
  /\ At(e, "answer") /\ exec[e].outcome = "ok" /\ exec[e].op = "get"
  /\ job'  = [job EXCEPT ![exec[e].key].observed = exec[e].hash]
  /\ IF Accepted(Mine(e), exec[e].hash) THEN Proceed(e, TRUE) ELSE Goto(e, "conflict")
  /\ Result(e, "ok")
  /\ UNCHANGED <<mapping, drafts, calls, faults>>

RecordUpload(e) ==
  /\ At(e, "answer") /\ exec[e].outcome = "ok" /\ exec[e].op \in Uploads
  /\ job' = [job EXCEPT ![exec[e].key].uploaded = @ \cup {exec[e].op}]
  /\ Proceed(e, exec[e].got) /\ Result(e, "ok")
  /\ UNCHANGED <<mapping, drafts, calls, faults>>

\* The draft's result, the mapping and the job's end are one commit.
RecordDraft(e) ==
  /\ At(e, "answer") /\ exec[e].outcome = "ok" /\ exec[e].op \in {"add", "update"}
  /\ mapping' = [media |-> exec[e].media, hash |-> exec[e].key]
  /\ job' = [job EXCEPT ![exec[e].key].status = "synced", ![exec[e].key].observed = exec[e].key]
  /\ Rest(e) /\ Result(e, "ok")
  /\ UNCHANGED <<drafts, calls, faults>>

MarkConflict(e) ==
  /\ At(e, "conflict")
  /\ Set(exec[e].key, "conflict") /\ Rest(e)
  /\ UNCHANGED <<ledger, mapping, drafts, calls, faults>>

\* Mutant: the status of a handoff job.
FailedHandoff(outcome) == IF outcome = "retryable" THEN "queued" ELSE "failed"
AfterFailure(outcome) == IF outcome = "retryable" THEN "queued" ELSE "blocked"

\* _commit_external_failure commits the result and the job's status one by one.
RecordFailure(e) ==
  /\ At(e, "answer") /\ exec[e].outcome # "ok"
  /\ Goto(e, "failing") /\ Result(e, "failed")
  /\ UNCHANGED <<job, mapping, drafts, calls, faults>>

EndFailure(e) ==
  /\ At(e, "failing")
  /\ Set(exec[e].key, AfterFailure(exec[e].outcome))
  /\ Rest(e)
  /\ UNCHANGED <<ledger, mapping, drafts, calls, faults>>

Die(e) ==
  /\ ~At(e, "idle") /\ faults > 0
  /\ faults' = faults - 1 /\ Rest(e)
  /\ UNCHANGED <<job, ledger, mapping, drafts, calls>>

CustomerEdits(m) ==
  /\ drafts[m] \in Keys /\ faults > 0
  /\ drafts' = [drafts EXCEPT ![m] = Edited]
  /\ faults' = faults - 1
  /\ UNCHANGED <<job, ledger, mapping, calls, exec>>

Execute(e) ==
  \/ Claim(e) \/ Guard(e) \/ GuardMarks(e) \/ Probe(e) \/ Intend(e) \/ Call(e)
  \/ RecordGet(e) \/ RecordUpload(e) \/ RecordDraft(e) \/ MarkConflict(e)
  \/ RecordFailure(e) \/ EndFailure(e)

Next ==
  \/ \E e \in Executors, k \in Keys :
       \/ \E s \in Strategies, h \in Shown : (s = "create_new" => h = Nothing) /\ Submit(e, k, s, h)
       \/ SubmitAgain(e, k)
  \/ \E e \in Executors : Execute(e) \/ AssetChanged(e) \/ Die(e)
  \/ \E m \in Media : CustomerEdits(m)

Spec == Init /\ [][Next]_vars

------------------------------------------------------------------------------
(* Properties. *)

TypeOK ==
  /\ job \in [Keys -> [status: Statuses, strategy: Strategies, expected: Hashes,
                       initial: [media: 0 .. MaxDrafts, hash: Hashes], observed: Hashes,
                       uploaded: SUBSET Uploads, attempt: 0 .. MaxAttempts]]
  /\ ledger \in [Keys -> SUBSET ((1 .. MaxAttempts) \X Ops \X {"intent", "ok", "failed"})]
  /\ mapping \in [media: 0 .. MaxDrafts, hash: Hashes] /\ drafts \in [Media -> Hashes]
  /\ calls \in [Keys -> [Ops -> Nat]]
  /\ faults \in 0 .. Faults
  /\ exec \in [Executors -> [pc: {"idle", "start", "guard", "probe", "next", "call", "answer",
                                  "conflict", "failing"},
                             key: Keys \cup {Nothing}, status: Statuses, attempt: 0 .. MaxAttempts,
                             got: BOOLEAN, op: Ops, outcome: {"ok", "retryable", "final"},
                             hash: Hashes, media: 0 .. MaxDrafts]]

\* One executor at a time is past the claim of a job, however often its request is
\* repeated, and whoever died in it before.
Claimed == {"probe", "next", "call", "answer", "conflict", "failing"}
OneExecutor == \A e, f \in Executors :
  (exec[e].pc \in Claimed /\ exec[f].pc \in Claimed /\ exec[e].key = exec[f].key) => e = f

\* A write that took effect is repeated only if its answer said, and the ledger
\* records, that it had failed: a death in between never leads to a second one.
NeverRepeatedBlindly == \A k \in Keys, op \in Ops \ {"get"} :
  calls[k][op] <= 1 + Cardinality({a \in 1 .. MaxAttempts : <<a, op, "failed">> \in ledger[k]})

\* The text of a customer that an executor saw in the draft box is overwritten
\* only if it is the text whose hash the user confirmed.
EditsNeedConsent == [][\A m \in Media, k \in Keys :
  (drafts[m] = Edited /\ drafts'[m] = k) =>
    (job[k].observed # Edited \/ (job[k].strategy = "overwrite_confirmed" /\ job[k].expected = Edited))]_vars
=============================================================================
