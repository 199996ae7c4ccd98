------------------------------ MODULE ImportJobs ------------------------------
(***************************************************************************)
(* A bulk import job (backend/app/services/data_import/jobs.py, the upload *)
(* and retry endpoints of api/account_data.py, and the worker's execution  *)
(* and recovery of import jobs): the job row, its files, the batches their *)
(* datasets become, and the Redis messages that ask for an execution.      *)
(*                                                                         *)
(* Every commit of process_import_job is a step; nothing stops a second    *)
(* worker from executing the same job between two of them.  What a batch   *)
(* does to the account's data is module AccountLedger.                     *)
(***************************************************************************)
EXTENDS Naturals, FiniteSets, FiniteSetsExt

CONSTANTS
  Contents,     \* files by sha256
  Datasets,     \* number of datasets in a file that can be read
  Unreadable,   \* contents that cannot be parsed
  Ambiguous,    \* <<content, dataset>>: some row needs a human
  Broken,       \* <<content, dataset>>: the import raises
  Uploads,      \* bound: files of an upload
  Workers,
  MaxFiles,     \* bound: files including retries
  MaxQueue,     \* bound: messages waiting in Redis
  Budget        \* bound: deaths of workers, lost messages, revocations, executions that
                \* go on for half an hour without a commit

Files == 1 .. MaxFiles
Sets  == 1 .. Datasets

ASSUME SizesAssumption ==
  /\ Uploads \in 1 .. MaxFiles /\ MaxFiles \in Nat /\ Datasets \in Nat \ {0}
  /\ MaxQueue \in Nat \ {0} /\ Budget \in Nat
  /\ Contents # {} /\ Unreadable \subseteq Contents
  /\ Ambiguous \subseteq Contents \X Sets /\ Broken \subseteq Contents \X Sets

VARIABLES
  job,       \* DataImportJob.status
  file,      \* the DataImportFile rows: status, sha256, creation
  batch,     \* the DataImportBatch of a file's dataset
  commits,   \* how often each batch was committed
  taken,     \* history: the batches that a file's dataset was counted as imported by
  queue,     \* messages that name the job
  work,      \* what each worker is doing
  budget

rows == <<job, file, batch, commits, taken>>
vars == <<rows, queue, work, budget>>

JobStatuses  == {"absent", "queued", "processing", "completed", "completed_with_errors", "failed"}
FileStatuses == {"absent", "queued", "processing", "completed", "partially_completed", "failed"}
Pending      == {"queued", "processing"}
Finished     == {"completed", "completed_with_errors", "failed"}

NoFile == [status |-> "absent", sha |-> CHOOSE c \in Contents : TRUE, at |-> 0]
AtRest == [pc |-> "idle", todo |-> 0, f |-> 0, seen |-> "queued", d |-> 1, wins |-> 0, fails |-> 0]

Init ==
  /\ job     = "absent"
  /\ file    = [f \in Files |-> NoFile]
  /\ batch   = [x \in Files \X Sets |-> "none"]
  /\ commits = [x \in Files \X Sets |-> 0]
  /\ taken   = [x \in Files \X Sets |-> {}]
  /\ queue   = 0
  /\ work    = [w \in Workers |-> AtRest]
  /\ budget  = Budget

Count    == Cardinality({f \in Files : file[f].status # "absent"})
Content(f) == file[f].sha

\* An enqueue after the commit; the process may die in between, or Redis be away.
Enqueue ==
  \/ queue' = (IF queue < MaxQueue THEN queue + 1 ELSE queue) /\ UNCHANGED budget
  \/ budget > 0 /\ budget' = budget - 1 /\ UNCHANGED queue

------------------------------------------------------------------------------
(* The API. *)

\* create_import_job commits the job with all its files.
Upload(shas) ==
  /\ job = "absent"
  /\ job' = "queued"
  /\ file' = [f \in Files |-> IF f \in DOMAIN shas
                              THEN [status |-> "queued", sha |-> shas[f], at |-> 1]
                              ELSE NoFile]
  /\ Enqueue
  /\ UNCHANGED <<batch, commits, taken, work>>

\* The same client_request_id again finds the job and only asks for its execution.
UploadAgain ==
  /\ job = "queued"
  /\ Enqueue
  /\ UNCHANGED <<rows, work>>

\* retry_import_file: a new file row, of the same bytes or of a replacement.
RetryFile(f, sha) ==
  /\ file[f].status \in {"failed", "partially_completed"}
  /\ Count < MaxFiles
  /\ file' = [file EXCEPT ![Count + 1] = [status |-> "queued", sha |-> sha, at |-> Count + 1]]
  /\ job' = "queued"
  /\ Enqueue
  /\ UNCHANGED <<batch, commits, taken, work>>

\* A user resolves the rows of a preview, commits it, or revokes it.
UserResolves(x) ==
  /\ batch[x] = "blocked"
  /\ batch' = [batch EXCEPT ![x] = "ready"]
  /\ UNCHANGED <<job, file, commits, taken, queue, work, budget>>

UserCommits(x) ==
  /\ batch[x] = "ready"
  /\ batch'   = [batch EXCEPT ![x] = "committed"]
  /\ commits' = [commits EXCEPT ![x] = @ + 1]
  /\ UNCHANGED <<job, file, taken, queue, work, budget>>

UserRevokes(x) ==
  /\ batch[x] = "committed" /\ budget > 0
  /\ batch'  = [batch EXCEPT ![x] = "revoked"]
  /\ budget' = budget - 1
  /\ UNCHANGED <<job, file, commits, taken, queue, work>>

------------------------------------------------------------------------------
(* process_import_job. *)

\* The loop goes through the files the job had when it was loaded, and looks at
\* their status as the last checkpoint read it.
NextFile(now, f, todo) ==
  LET open == {g \in f + 1 .. todo : now[g].status \in Pending}
      next == IF open = {} THEN 0 ELSE Min(open)
  IN [AtRest EXCEPT !.pc = "file", !.todo = todo, !.f = next,
                    !.seen = IF next = 0 THEN "queued" ELSE now[next].status]

TakeMessage(w) ==
  /\ queue > 0 /\ work[w].pc = "idle"
  /\ queue' = queue - 1
  /\ job' = "processing"
  /\ work' = [work EXCEPT ![w] = NextFile(file, 0, Count)]
  /\ UNCHANGED <<file, batch, commits, taken, budget>>

\* Mutant: any file with the same bytes counts, whatever became of it.
SameBytes(f, g) == g # f /\ Content(g) = Content(f) /\ file[g].at <= file[f].at
                   /\ file[g].status \in FileStatuses \ {"absent", "queued"}
\* Another file with the same bytes, not newer, that is completed.
Duplicates(f, g) == g # f /\ Content(g) = Content(f) /\ file[g].at <= file[f].at
                    /\ file[g].status = "completed"

HasDuplicate(f) == \E g \in 1 .. Count : Duplicates(f, g)

\* The file is done: its status is committed and the checkpoint refreshes the files.
Close(w, status) ==
  LET f == work[w].f  now == [file EXCEPT ![f].status = status]
  IN /\ file' = now
     /\ work' = [work EXCEPT ![w] = NextFile(now, f, work[w].todo)]

SkipDuplicate(w) ==
  /\ work[w].pc = "file" /\ work[w].f # 0 /\ HasDuplicate(work[w].f)
  /\ Close(w, "completed")
  /\ UNCHANGED <<job, batch, commits, taken, queue, budget>>

\* The status column is written only if the row in memory had another one.
OpenFile(w) ==
  /\ work[w].pc = "file" /\ work[w].f # 0 /\ ~HasDuplicate(work[w].f)
  /\ file' = [file EXCEPT ![work[w].f].status = IF work[w].seen = "queued" THEN "processing" ELSE @]
  /\ work' = [work EXCEPT ![w].pc = "parse"]
  /\ UNCHANGED <<job, batch, commits, taken, queue, budget>>

ParseFile(w) ==
  /\ work[w].pc = "parse"
  /\ IF Content(work[w].f) \in Unreadable THEN Close(w, "failed")
     ELSE work' = [work EXCEPT ![w].pc = "dataset"] /\ UNCHANGED file
  /\ UNCHANGED <<job, batch, commits, taken, queue, budget>>

\* create_job_dataset_preview: the file's own batch, or an open preview of the
\* same bytes and template (all datasets have one template here), or a new one.
OpenPreviews(f) == {x \in (1 .. Count) \X Sets : /\ Content(x[1]) = Content(f)
                                               /\ batch[x] \in {"ready", "blocked"}}
Preview(f, d) ==
  IF batch[<<f, d>>] # "none" \/ OpenPreviews(f) = {} THEN <<f, d>>
  ELSE CHOOSE x \in OpenPreviews(f) : TRUE

\* What commit_batch finds: a new preview is blocked if a row needs a human.
Found(f, d) ==
  LET x == Preview(f, d) IN
  IF batch[x] # "none" THEN batch[x]
  ELSE IF <<Content(f), d>> \in Ambiguous THEN "blocked" ELSE "ready"

Raises(f, d) == <<Content(f), d>> \in Broken \/ Found(f, d) = "revoked"

\* Mutant: a batch that is already committed is committed again.
AlwaysCommits(found) == found \in {"ready", "committed"}
\* commit_batch projects a batch once; later calls return it as it is.
Commits(found) == found = "ready"

Advance(w, won) == work' = [work EXCEPT ![w].d = @ + 1,
                                        ![w].wins  = IF won THEN @ + 1 ELSE @,
                                        ![w].fails = IF won THEN @ ELSE @ + 1]

ImportDataset(w) ==
  LET f == work[w].f  d == work[w].d  x == Preview(f, d)  found == Found(f, d) IN
  /\ work[w].pc = "dataset" /\ d <= Datasets /\ ~Raises(f, d)
  /\ batch'   = [batch EXCEPT ![x] = IF found = "ready" THEN "committed" ELSE found]
  /\ commits' = [commits EXCEPT ![x] = IF Commits(found) THEN @ + 1 ELSE @]
  /\ taken'   = [taken EXCEPT ![<<f, d>>] = IF found # "blocked" THEN @ \cup {x} ELSE @]
  /\ Advance(w, found # "blocked")
  /\ UNCHANGED <<job, file, queue, budget>>

\* Any other exception rolls back; the handler then reads job.id, which the
\* rollback expired, so it raises again and the execution ends where it is.
DatasetRaises(w) ==
  /\ work[w].pc = "dataset" /\ work[w].d <= Datasets /\ Raises(work[w].f, work[w].d)
  /\ work' = [work EXCEPT ![w] = AtRest]
  /\ UNCHANGED <<rows, queue, budget>>

Verdict(wins, fails) ==
  IF wins > 0 /\ fails > 0 THEN "partially_completed"
  ELSE IF wins > 0 THEN "completed" ELSE "failed"

FinishFile(w) ==
  /\ work[w].pc = "dataset" /\ work[w].d > Datasets
  /\ Close(w, Verdict(work[w].wins, work[w].fails))
  /\ UNCHANGED <<job, batch, commits, taken, queue, budget>>

\* Mutant: the job gets the status a file would get.
FileVerdict == IF \E f \in Files : file[f].status = "completed" THEN "partially_completed" ELSE "failed"
\* The terminal checkpoint.
JobVerdict ==
  LET Of(S) == {f \in Files : file[f].status \in S} IN
  IF Of({"failed", "partially_completed"}) = {} THEN "completed"
  ELSE IF Of({"completed"}) = {} THEN "failed" ELSE "completed_with_errors"

FinishJob(w) ==
  /\ work[w].pc = "file" /\ work[w].f = 0
  /\ job' = JobVerdict
  /\ work' = [work EXCEPT ![w] = AtRest]
  /\ UNCHANGED <<file, batch, commits, taken, queue, budget>>

\* The worker dies or its job runs into arq's timeout; the message is gone.
Die(w) ==
  /\ work[w].pc # "idle" /\ budget > 0
  /\ budget' = budget - 1
  /\ work' = [work EXCEPT ![w] = AtRest]
  /\ UNCHANGED <<rows, queue>>

\* Mutant: the scan looks at queued jobs only.
QueuedOnly == job = "queued"
\* A queued job, or one in processing that nobody has touched for half an hour, be it
\* that its worker died or that a dataset takes that long: the time is not modelled.
Recoverable == job \in Pending
\* Nobody is about to touch the job.
Abandoned == job = "queued" \/ \A w \in Workers : work[w].pc = "idle"

\* recover_account_data_import_jobs, every 30 seconds, each time under a new id.
Recover ==
  /\ Recoverable /\ queue < MaxQueue
  /\ queue' = queue + 1
  /\ \/ Abandoned /\ UNCHANGED budget
     \/ ~Abandoned /\ budget > 0 /\ budget' = budget - 1
  /\ UNCHANGED <<rows, work>>

Execute(w) ==
  \/ SkipDuplicate(w) \/ OpenFile(w) \/ ParseFile(w) \/ ImportDataset(w)
  \/ DatasetRaises(w) \/ FinishFile(w) \/ FinishJob(w)

Next ==
  \/ \E n \in 1 .. Uploads : \E shas \in [1 .. n -> Contents] : Upload(shas)
  \/ UploadAgain
  \/ \E f \in Files, sha \in Contents : RetryFile(f, sha)
  \/ \E x \in Files \X Sets : UserResolves(x) \/ UserCommits(x) \/ UserRevokes(x)
  \/ \E w \in Workers : TakeMessage(w) \/ Execute(w) \/ Die(w)
  \/ Recover

\* A worker takes messages and executes what it took; the cron job runs.
Fairness ==
  /\ WF_vars(\E w \in Workers : TakeMessage(w))
  /\ \A w \in Workers : WF_vars(Execute(w))
  /\ WF_vars(Abandoned /\ Recover)

Spec == Init /\ [][Next]_vars /\ Fairness

------------------------------------------------------------------------------
(* Properties. *)

TypeOK ==
  /\ job \in JobStatuses
  /\ file \in [Files -> [status: FileStatuses, sha: Contents, at: 0 .. MaxFiles]]
  /\ batch \in [Files \X Sets -> {"none", "ready", "blocked", "committed", "revoked"}]
  /\ commits \in [Files \X Sets -> Nat] /\ taken \in [Files \X Sets -> SUBSET (Files \X Sets)]
  /\ queue \in 0 .. MaxQueue /\ budget \in 0 .. Budget
  /\ work \in [Workers -> [pc: {"idle", "file", "parse", "dataset"}, todo: 0 .. MaxFiles,
                           f: 0 .. MaxFiles, seen: FileStatuses, d: 1 .. Datasets + 1,
                           wins: 0 .. Datasets, fails: 0 .. Datasets]]

\* A file that says it is completed stands for data: it, or the file it is a duplicate
\* of, had every dataset counted as imported by a batch of these bytes, and that batch
\* was committed, even when two workers executed the job side by side and users
\* resolved and retried.
Imported(g, d) == \E x \in taken[<<g, d>>] : Content(x[1]) = Content(g) /\ commits[x] > 0
CompletedMeansImported == \A f \in Files : file[f].status = "completed" =>
  \E g \in Files : Content(g) = Content(f) /\ \A d \in Sets : Imported(g, d)

\* No batch enters the account's data twice, however often the job is delivered.
CommittedOnce == \A x \in Files \X Sets : commits[x] <= 1

\* Every job that waits or runs comes to an end, whatever message is lost and
\* whichever worker dies: the cron job finds it again.  Excepted is what makes every
\* later execution of the job raise outside its handler: a batch that a user revoked,
\* and a dataset whose import raises (Broken, of which the instance has none).
JobSettles == job \in Pending ~>
  (job \in Finished \/ Broken # {} \/ \E x \in Files \X Sets : batch[x] = "revoked")
=============================================================================
