--------------------------- MODULE ImportJobsProofs ---------------------------
(***************************************************************************)
(* Theorems about ImportJobs, for any contents, datasets, workers, files   *)
(* and faults: rows have their types, no batch is committed twice, and a   *)
(* file that says it is completed stands for committed batches.            *)
(*                                                                         *)
(* Any number of workers execute the job side by side.  The argument is    *)
(* that everything a worker goes by only grows (Grows): a file keeps its   *)
(* bytes, a batch that was committed stays so, and a dataset that was      *)
(* counted as imported stays counted.  So what each worker has counted so  *)
(* far is true of the rows whatever the others do meanwhile (WorkOk).      *)
(***************************************************************************)
EXTENDS ImportJobs, FiniteSetTheorems, WellFoundedInduction, TLAPS

FileRows == [status: FileStatuses, sha: Contents, at: 0 .. MaxFiles]
Batches  == {"none", "ready", "blocked", "committed", "revoked"}
Tasks    == [pc: {"idle", "file", "parse", "dataset"}, todo: 0 .. MaxFiles, f: 0 .. MaxFiles,
             seen: FileStatuses, d: 1 .. Datasets + 1, wins: 0 .. Datasets, fails: 0 .. Datasets]

Present == {f \in Files : file[f].status # "absent"}

\* Files are numbered as they come.
FileInv ==
  /\ file \in [Files -> FileRows]
  /\ Present = 1 .. Count
  /\ job = "absent" => Present = {}

\* A batch was committed once if it is, or was and is revoked, and never otherwise.
BatchOk(x) ==
  /\ batch[x] \in {"committed", "revoked"} => commits[x] = 1
  /\ batch[x] \in {"none", "ready", "blocked"} => commits[x] = 0
BatchInv ==
  /\ batch \in [Files \X Sets -> Batches] /\ commits \in [Files \X Sets -> Nat]
  /\ \A x \in Files \X Sets : BatchOk(x)

\* What is counted as imported is.
TakenOk(f, d) == taken[<<f, d>>] # {} => f \in Present /\ Imported(f, d)
TakenInv ==
  /\ taken \in [Files \X Sets -> SUBSET (Files \X Sets)]
  /\ \A f \in Files, d \in Sets : \A x \in taken[<<f, d>>] : x[1] \in Present
  /\ \A f \in Files, d \in Sets : TakenOk(f, d)

\* What a worker has counted so far.
WorkOk(w) ==
  LET f == work[w].f  d == work[w].d IN
  /\ f # 0 => f \in Present
  /\ work[w].todo <= Count
  /\ work[w].pc \in {"parse", "dataset"} => f # 0
  /\ work[w].pc # "dataset" => d = 1
  /\ work[w].wins + work[w].fails = d - 1
  /\ work[w].fails = 0 => \A e \in Sets : e < d => taken[<<f, e>>] # {}
WorkInv ==
  /\ work \in [Workers -> Tasks]
  /\ \A w \in Workers : WorkOk(w)

Inv ==
  /\ job \in JobStatuses /\ queue \in 0 .. MaxQueue /\ budget \in 0 .. Budget
  /\ FileInv /\ BatchInv /\ TakenInv /\ WorkInv
  /\ CompletedMeansImported

------------------------------------------------------------------------------
\* The least of some numbers is one of them.
LEMMA MinIsIn ==
  ASSUME NEW S \in SUBSET Nat, S # {}
  PROVE  Min(S) \in S
<1> DEFINE Less == OpToRel(<, Nat)
<1>1. \A a, b \in Nat : a < b => <<a, b>> \in Less
  BY DEF OpToRel
<1>2. IsWellFoundedOn(Less, Nat)
  BY NatLessThanWellFounded
<1> HIDE DEF Less
<1>3. PICK m \in S : \A n \in S : ~ (<<n, m>> \in Less)
  BY <1>2, WFMin
<1>4. \A n \in S : m <= n
  <2> TAKE n \in S
  <2>1. n \in Nat /\ m \in Nat /\ ~ (n < m)
    BY <1>1, <1>3
  <2> QED BY <2>1
<1> QED BY <1>4 DEF Min

\* How many files there are.
LEMMA CountIsNat ==
  ASSUME FileInv
  PROVE  Count \in 0 .. MaxFiles /\ MaxFiles \in Nat /\ Present \subseteq Files
<1>1. Present \subseteq Files /\ Present = {f \in Files : file[f].status # "absent"}
  BY DEF Present
<1>2. MaxFiles \in Nat /\ IsFiniteSet(1 .. MaxFiles) /\ Cardinality(1 .. MaxFiles) = MaxFiles
  BY SizesAssumption, FS_Interval
<1>3. Cardinality(Present) \in Nat /\ Cardinality(Present) <= MaxFiles
  BY <1>1, <1>2, FS_Subset, FS_CardinalityType DEF Files
<1> QED BY <1>1, <1>2, <1>3 DEF Count, Present

\* What the loop goes on with is a file that waits, of those it had in the beginning.
LEMMA NextFileIs ==
  ASSUME NEW now \in [Files -> FileRows], NEW f \in 0 .. MaxFiles, NEW todo \in 0 .. MaxFiles
  PROVE  LET next == NextFile(now, f, todo) IN
         /\ next \in Tasks /\ next.pc = "file" /\ next.todo = todo /\ next.d = 1
         /\ next.wins = 0 /\ next.fails = 0
         /\ next.f # 0 => next.f \in 1 .. todo /\ now[next.f].status \in Pending
<1> DEFINE open == {g \in f + 1 .. todo : now[g].status \in Pending}
           next == IF open = {} THEN 0 ELSE Min(open)
<1>1. MaxFiles \in Nat /\ Datasets \in Nat \ {0}
  BY SizesAssumption
<1>2. open \in SUBSET Nat /\ open \subseteq Files
  BY <1>1 DEF Files
<1>3. next # 0 => next \in open
  BY <1>2, MinIsIn
<1>4. next \in 0 .. MaxFiles /\ (next # 0 => next \in Files)
  BY <1>1, <1>2, <1>3 DEF Files
<1>5. NextFile(now, f, todo) =
        [AtRest EXCEPT !.pc = "file", !.todo = todo, !.f = next,
                       !.seen = IF next = 0 THEN "queued" ELSE now[next].status]
  BY DEF NextFile
<1>6. (IF next = 0 THEN "queued" ELSE now[next].status) \in FileStatuses
  BY <1>4 DEF FileRows, FileStatuses
<1>7. next # 0 => next \in 1 .. todo /\ now[next].status \in Pending
  BY <1>1, <1>3
<1> HIDE DEF next, open
<1>9. PICK g, seen, task :
        /\ g = next /\ seen = (IF next = 0 THEN "queued" ELSE now[next].status)
        /\ task = [AtRest EXCEPT !.pc = "file", !.todo = todo, !.f = g, !.seen = seen]
  OBVIOUS
<1>10. task = NextFile(now, f, todo)
  BY <1>5, <1>9
<1>11. g \in 0 .. MaxFiles /\ seen \in FileStatuses
       /\ (g # 0 => g \in 1 .. todo /\ now[g].status \in Pending)
  BY <1>4, <1>6, <1>7, <1>9
<1>12. task = [pc |-> "file", todo |-> todo, f |-> g, seen |-> seen, d |-> 1, wins |-> 0, fails |-> 0]
  BY <1>9 DEF AtRest
<1>13. 1 \in 1 .. Datasets + 1 /\ 0 \in 0 .. Datasets
  BY <1>1
<1>14. task \in Tasks
  BY <1>11, <1>12, <1>13 DEF Tasks
<1> QED BY <1>10, <1>11, <1>12, <1>14

\* What happens to the files: one gets another status, one is added, or all are uploaded.
Marked == \E f \in Present, status \in FileStatuses \ {"absent"} :
            file' = [file EXCEPT ![f].status = status]
Added  == job' = "queued" /\ Count < MaxFiles /\ \E sha \in Contents :
            file' = [file EXCEPT ![Count + 1] = [status |-> "queued", sha |-> sha, at |-> Count + 1]]
Filled == job = "absent" /\ job' = "queued" /\ \E n \in 1 .. Uploads : \E shas \in [1 .. n -> Contents] :
            file' = [f \in Files |-> IF f \in DOMAIN shas
                                     THEN [status |-> "queued", sha |-> shas[f], at |-> 1]
                                     ELSE NoFile]

\* A worker has a file of the job.
LEMMA AtFile ==
  ASSUME Inv, NEW w \in Workers, work[w].f # 0
  PROVE  work[w].f \in Present /\ work[w].f \in Files /\ work[w] \in Tasks
BY DEF Inv, WorkInv, WorkOk, Present

\* Every step does one of these to the files.
LEMMA FileMoves ==
  ASSUME Inv, [Next]_vars
  PROVE  UNCHANGED file \/ Marked \/ Added \/ Filled
<1>1. ASSUME NEW w \in Workers, NEW status \in FileStatuses \ {"absent"}, Close(w, status),
             work[w].f # 0
      PROVE  Marked
  BY <1>1, AtFile DEF Close, Marked
<1>2. ASSUME NEW w \in Workers, SkipDuplicate(w) PROVE Marked
  <2>1. "completed" \in FileStatuses \ {"absent"}
    BY DEF FileStatuses
  <2> QED BY <1>1, <1>2, <2>1 DEF SkipDuplicate
<1>3. ASSUME NEW w \in Workers, OpenFile(w) PROVE Marked
  <2> PICK f : f = work[w].f
    OBVIOUS
  <2> PICK status : status = (IF work[w].seen = "queued" THEN "processing" ELSE file[f].status)
    OBVIOUS
  <2>1. f \in Present /\ f \in Files
    BY <1>3, AtFile DEF OpenFile
  <2>2. status \in FileStatuses \ {"absent"}
    BY <2>1 DEF FileStatuses, Present, Inv, FileInv, FileRows
  <2>3. file' = [file EXCEPT ![f].status = status]
    BY <1>3, <2>1 DEF OpenFile, Inv, FileInv, FileRows
  <2> QED BY <2>1, <2>2, <2>3 DEF Marked
<1>4. ASSUME NEW w \in Workers, ParseFile(w) PROVE UNCHANGED file \/ Marked
  <2>1. "failed" \in FileStatuses \ {"absent"}
    BY DEF FileStatuses
  <2>2. work[w].f # 0
    BY <1>4 DEF ParseFile, Inv, WorkInv, WorkOk
  <2> QED BY <1>1, <1>4, <2>1, <2>2 DEF ParseFile
<1>5. ASSUME NEW w \in Workers, FinishFile(w) PROVE Marked
  <2>1. Verdict(work[w].wins, work[w].fails) \in FileStatuses \ {"absent"}
    BY DEF Verdict, FileStatuses
  <2>2. work[w].f # 0
    BY <1>5 DEF FinishFile, Inv, WorkInv, WorkOk
  <2> QED BY <1>1, <1>5, <2>1, <2>2 DEF FinishFile
<1>6. ASSUME NEW w \in Workers, TakeMessage(w) \/ Execute(w) \/ Die(w)
      PROVE  UNCHANGED file \/ Marked
  BY <1>2, <1>3, <1>4, <1>5, <1>6 DEF TakeMessage, Execute, Die, ImportDataset, DatasetRaises,
                                  FinishJob, rows
<1>7. ASSUME NEW f \in Files, NEW sha \in Contents, RetryFile(f, sha) PROVE Added
  BY <1>7 DEF RetryFile, Added
<1>8. ASSUME NEW n \in 1 .. Uploads, NEW shas \in [1 .. n -> Contents], Upload(shas) PROVE Filled
  BY <1>8 DEF Upload, Filled
<1> QED BY <1>6, <1>7, <1>8 DEF Next, UploadAgain, UserResolves, UserCommits, UserRevokes, Recover,
                                rows, vars

\* What a worker goes by only grows.
FilesGrow == /\ \A f \in Present : f \in Present' /\ file'[f].sha = file[f].sha
             /\ Count <= Count'
Grows ==
  /\ FilesGrow
  /\ \A x \in Files \X Sets : commits[x] <= commits'[x] /\ taken[x] \subseteq taken'[x]

\* The files' part of the invariant, and that files only come.
LEMMA FilesKept ==
  ASSUME Inv, [Next]_vars
  PROVE  FileInv' /\ FilesGrow
<1>0. /\ file \in [Files -> FileRows] /\ Present = 1 .. Count /\ Present \subseteq Files
      /\ Count \in 0 .. MaxFiles /\ MaxFiles \in Nat
  BY CountIsNat DEF Inv, FileInv
<1>1. job' = "absent" => job = "absent"
  <2>1. JobVerdict # "absent"
    BY DEF JobVerdict
  <2> QED BY <2>1
      DEF Next, Upload, UploadAgain, RetryFile, UserResolves, UserCommits, UserRevokes, TakeMessage,
          Execute, SkipDuplicate, OpenFile, ParseFile, ImportDataset, DatasetRaises, FinishFile,
          FinishJob, Die, Recover, rows, vars
<1>2. CASE UNCHANGED file
  <2>1. Present' = Present /\ Count' = Count
    BY <1>2 DEF Present, Count
  <2> QED BY <1>0, <1>1, <1>2, <2>1 DEF Inv, FileInv, FilesGrow
<1>3. CASE Marked
  <2>1. PICK f \in Present, status \in FileStatuses \ {"absent"} :
          file' = [file EXCEPT ![f].status = status]
    BY <1>3 DEF Marked
  <2>2. f \in Files /\ file[f] \in FileRows /\ file[f].status # "absent"
    BY <1>0, <2>1 DEF Present
  <2>3. /\ [file[f] EXCEPT !.status = status] \in FileRows
        /\ [file[f] EXCEPT !.status = status].status = status
        /\ [file[f] EXCEPT !.status = status].sha = file[f].sha
    BY <2>1, <2>2 DEF FileRows
  <2>4. file' = [file EXCEPT ![f] = [file[f] EXCEPT !.status = status]]
    BY <1>0, <2>1, <2>2
  <2>5. file' \in [Files -> FileRows] /\ \A g \in Files : file'[g].sha = file[g].sha
    BY <1>0, <2>3, <2>4
  <2>6. Present' = Present
    BY <1>0, <2>1, <2>2, <2>3, <2>4 DEF Present
  <2>7. Count' = Count
    BY <2>6 DEF Count, Present
  <2> QED BY <1>0, <1>1, <2>1, <2>5, <2>6, <2>7 DEF Inv, FileInv, FilesGrow
<1>4. CASE Added
  <2> PICK n : n = Count + 1
    OBVIOUS
  <2>1. PICK sha \in Contents :
          file' = [file EXCEPT ![n] = [status |-> "queued", sha |-> sha, at |-> n]]
    BY <1>4 DEF Added
  <2>2. n \in 1 .. MaxFiles /\ n \in Files /\ n \notin Present /\ Count < MaxFiles
    BY <1>0, <1>4 DEF Added, Files
  <2>3. [status |-> "queued", sha |-> sha, at |-> n] \in FileRows
    BY <1>0, <2>2 DEF FileRows, FileStatuses
  <2>4. file' \in [Files -> FileRows] /\ \A g \in Files \ {n} : file'[g] = file[g]
    BY <1>0, <2>1, <2>2, <2>3
  <2>5. Present' = Present \cup {n}
    BY <1>0, <2>1, <2>2, <2>4 DEF Present
  <2>6. Present' = 1 .. n
    BY <1>0, <2>2, <2>5
  <2>7. Count' = n
    <3>1. IsFiniteSet(1 .. n) /\ Cardinality(1 .. n) = n
      BY <2>2, <1>0, FS_Interval
    <3> QED BY <2>6, <3>1 DEF Count, Present
  <2>8. job' # "absent"
    BY <1>4 DEF Added
  <2> QED BY <1>0, <2>2, <2>4, <2>6, <2>7, <2>8 DEF FileInv, FilesGrow
<1>5. CASE Filled
  <2>0. PICK n \in 1 .. Uploads : \E shas \in [1 .. n -> Contents] :
          file' = [f \in Files |-> IF f \in DOMAIN shas
                                   THEN [status |-> "queued", sha |-> shas[f], at |-> 1]
                                   ELSE NoFile]
    BY <1>5 DEF Filled
  <2>1. PICK shas \in [1 .. n -> Contents] :
          file' = [f \in Files |-> IF f \in DOMAIN shas
                                   THEN [status |-> "queued", sha |-> shas[f], at |-> 1]
                                   ELSE NoFile]
    BY <2>0
  <2>2. n \in 1 .. MaxFiles /\ 1 .. n \subseteq Files /\ DOMAIN shas = 1 .. n
    BY SizesAssumption DEF Files
  <2>3. shas[1] \in Contents
    BY <1>0, <2>2
  <2>4. NoFile \in FileRows /\ NoFile.status = "absent"
    <3>1. (CHOOSE c \in Contents : TRUE) \in Contents
      BY <2>3
    <3> QED BY <1>0, <3>1 DEF NoFile, FileRows, FileStatuses
  <2>5. \A f \in 1 .. n : [status |-> "queued", sha |-> shas[f], at |-> 1] \in FileRows
    BY <1>0, <2>2 DEF FileRows, FileStatuses
  <2>6. file' \in [Files -> FileRows]
    BY <2>1, <2>2, <2>4, <2>5
  <2>7. Present' = 1 .. n
    BY <2>1, <2>2, <2>4 DEF Present
  <2>8. Count' = n
    <3>1. IsFiniteSet(1 .. n) /\ Cardinality(1 .. n) = n
      BY <2>2, <1>0, FS_Interval
    <3> QED BY <2>7, <3>1 DEF Count, Present
  <2>9. Present = {}
    BY <1>5 DEF Filled, Inv, FileInv
  <2>10. job' # "absent"
    BY <1>5 DEF Filled
  <2> QED BY <1>0, <2>2, <2>6, <2>7, <2>8, <2>9, <2>10 DEF FileInv, FilesGrow
<1> QED BY <1>2, <1>3, <1>4, <1>5, FileMoves

\* The batch that a dataset goes to is one of its file's bytes.
LEMMA PreviewIs ==
  ASSUME FileInv, NEW f \in Present, NEW d \in Sets
  PROVE  /\ Preview(f, d) \in Files \X Sets /\ Preview(f, d)[1] \in Present
         /\ Content(Preview(f, d)[1]) = Content(f)
<1>1. Present = 1 .. Count /\ Present \subseteq Files
  BY CountIsNat DEF FileInv
<1>2. CASE batch[<<f, d>>] # "none" \/ OpenPreviews(f) = {}
  BY <1>1, <1>2 DEF Preview
<1>3. CASE ~(batch[<<f, d>>] # "none" \/ OpenPreviews(f) = {})
  <2>1. Preview(f, d) \in OpenPreviews(f)
    BY <1>3 DEF Preview
  <2> QED BY <1>1, <2>1 DEF OpenPreviews
<1> QED BY <1>2, <1>3

\* A dataset that is imported: the batch it goes to, and what becomes of it.
Taking(w, f, d, x, found) ==
  /\ w \in Workers /\ f = work[w].f /\ d = work[w].d /\ f \in Present /\ d \in Sets
  /\ x \in Files \X Sets /\ x[1] \in Present /\ Content(x[1]) = Content(f)
  /\ found \in {"ready", "blocked", "committed"}
  /\ batch[x] = found \/ (batch[x] = "none" /\ found \in {"ready", "blocked"})
  /\ batch' = [batch EXCEPT ![x] = IF found = "ready" THEN "committed" ELSE found]
  /\ commits' = [commits EXCEPT ![x] = IF found = "ready" THEN @ + 1 ELSE @]
  /\ taken' = [taken EXCEPT ![<<f, d>>] = IF found # "blocked" THEN @ \cup {x} ELSE @]

\* An imported dataset goes to a batch of its bytes, which is committed afterwards
\* unless it is blocked.
LEMMA ImportTakes ==
  ASSUME Inv, NEW w \in Workers, ImportDataset(w)
  PROVE  \E f, d, x, found : /\ Taking(w, f, d, x, found) /\ Advance(w, found # "blocked")
                             /\ work[w].pc = "dataset" /\ UNCHANGED <<job, file, queue, budget>>
<1> PICK f, d : f = work[w].f /\ d = work[w].d
  OBVIOUS
<1> PICK x, found : x = Preview(f, d) /\ found = Found(f, d)
  OBVIOUS
<1>1. f \in Present /\ work[w] \in Tasks
  BY AtFile DEF ImportDataset, Inv, WorkInv, WorkOk
<1>2. d \in Sets
  BY <1>1, SizesAssumption DEF ImportDataset, Tasks, Sets
<1>3. x \in Files \X Sets /\ x[1] \in Present /\ Content(x[1]) = Content(f)
  BY <1>1, <1>2, PreviewIs DEF Inv
<1>4. batch[x] \in Batches /\ found # "revoked"
  BY <1>3 DEF Inv, BatchInv, ImportDataset, Raises
<1>5. /\ found \in {"ready", "blocked", "committed"}
      /\ batch[x] = found \/ (batch[x] = "none" /\ found \in {"ready", "blocked"})
  <2>1. CASE batch[x] # "none"
    <3>1. found = batch[x]
      BY <2>1 DEF Found
    <3> QED BY <1>4, <2>1, <3>1 DEF Batches
  <2>2. CASE batch[x] = "none"
    BY <2>2 DEF Found
  <2> QED BY <2>1, <2>2
<1>6. Taking(w, f, d, x, found)
  BY <1>1, <1>2, <1>3, <1>5 DEF Taking, ImportDataset, Commits
<1> QED BY <1>6 DEF ImportDataset

\* The batches' part of the invariant, and that commits are never undone.
LEMMA BatchesKept ==
  ASSUME Inv, [Next]_vars
  PROVE  BatchInv' /\ \A x \in Files \X Sets : commits[x] <= commits'[x]
<1> DEFINE Kept == BatchInv' /\ \A x \in Files \X Sets : commits[x] <= commits'[x]
<1>0. /\ batch \in [Files \X Sets -> Batches] /\ commits \in [Files \X Sets -> Nat]
      /\ \A x \in Files \X Sets : BatchOk(x)
  BY DEF Inv, BatchInv
<1>1. CASE UNCHANGED <<batch, commits>>
  BY <1>0, <1>1 DEF BatchInv, BatchOk
<1>2. ASSUME NEW x \in Files \X Sets,
             batch' = [batch EXCEPT ![x] = batch'[x]], commits' = [commits EXCEPT ![x] = commits'[x]],
             batch'[x] \in Batches, commits'[x] \in Nat, commits[x] <= commits'[x], BatchOk(x)'
      PROVE  Kept
  <2>1. batch' \in [Files \X Sets -> Batches] /\ commits' \in [Files \X Sets -> Nat]
    BY <1>0, <1>2
  <2>2. \A y \in (Files \X Sets) \ {x} : BatchOk(y)' /\ commits[y] <= commits'[y]
    BY <1>0, <1>2 DEF BatchOk
  <2> QED BY <1>2, <2>1, <2>2 DEF BatchInv
<1>3. ASSUME NEW x \in Files \X Sets, UserResolves(x) \/ UserCommits(x) \/ UserRevokes(x)
      PROVE  Kept
  <2>0. BatchOk(x) /\ commits[x] \in Nat
    BY <1>0
  <2>1. /\ batch' = [batch EXCEPT ![x] = batch'[x]] /\ commits' = [commits EXCEPT ![x] = commits'[x]]
        /\ \/ batch[x] = "blocked" /\ batch'[x] = "ready" /\ commits'[x] = commits[x]
           \/ batch[x] = "ready" /\ batch'[x] = "committed" /\ commits'[x] = commits[x] + 1
           \/ batch[x] = "committed" /\ batch'[x] = "revoked" /\ commits'[x] = commits[x]
    BY <1>0, <1>3 DEF UserResolves, UserCommits, UserRevokes
  <2>2. batch'[x] \in Batches /\ commits'[x] \in Nat /\ commits[x] <= commits'[x] /\ BatchOk(x)'
    BY <2>0, <2>1 DEF Batches, BatchOk
  <2> QED BY <1>2, <2>1, <2>2
<1>4. ASSUME NEW w \in Workers, ImportDataset(w)
      PROVE  Kept
  <2>1. PICK f, d, x, found : Taking(w, f, d, x, found)
    BY <1>4, ImportTakes
  <2>2. x \in Files \X Sets /\ BatchOk(x) /\ commits[x] \in Nat
    BY <1>0, <2>1 DEF Taking
  <2>3. /\ batch' = [batch EXCEPT ![x] = batch'[x]] /\ commits' = [commits EXCEPT ![x] = commits'[x]]
        /\ \/ /\ batch[x] \in {"none", "ready"}
              /\ batch'[x] = "committed" /\ commits'[x] = commits[x] + 1
           \/ /\ batch[x] \in {"none", "blocked"}
              /\ batch'[x] = "blocked" /\ commits'[x] = commits[x]
           \/ /\ batch[x] = "committed"
              /\ batch'[x] = "committed" /\ commits'[x] = commits[x]
    <3>1. CASE found = "ready"
      BY <1>0, <2>1, <2>2, <3>1 DEF Taking
    <3>2. CASE found = "blocked"
      BY <1>0, <2>1, <2>2, <3>2 DEF Taking
    <3>3. CASE found = "committed"
      BY <1>0, <2>1, <2>2, <3>3 DEF Taking
    <3> QED BY <2>1, <3>1, <3>2, <3>3 DEF Taking
  <2>4. batch'[x] \in Batches /\ commits'[x] \in Nat /\ commits[x] <= commits'[x] /\ BatchOk(x)'
    BY <2>2, <2>3 DEF Batches, BatchOk
  <2> QED BY <1>2, <2>2, <2>3, <2>4
<1> QED BY <1>1, <1>3, <1>4
        DEF Next, Upload, UploadAgain, RetryFile, TakeMessage, Execute, SkipDuplicate, OpenFile,
            ParseFile, DatasetRaises, FinishFile, FinishJob, Die, Recover, rows, vars

\* The history's part of the invariant: what is counted stays counted, and is imported.
LEMMA TakenKept ==
  ASSUME Inv, [Next]_vars
  PROVE  TakenInv' /\ Grows
<1>0. /\ taken \in [Files \X Sets -> SUBSET (Files \X Sets)]
      /\ \A f \in Files, e \in Sets : \A x \in taken[<<f, e>>] : x[1] \in Present
      /\ \A f \in Files, e \in Sets : TakenOk(f, e)
      /\ commits \in [Files \X Sets -> Nat]
  BY DEF Inv, TakenInv, BatchInv
<1>1. /\ FilesGrow /\ \A x \in Files \X Sets : commits[x] <= commits'[x]
      /\ commits' \in [Files \X Sets -> Nat]
  BY FilesKept, BatchesKept DEF BatchInv
<1>2. ASSUME NEW f \in Files, NEW e \in Sets, taken'[<<f, e>>] = taken[<<f, e>>]
      PROVE  TakenOk(f, e)' /\ \A x \in taken'[<<f, e>>] : x[1] \in Present'
  <2>1. \A x \in taken[<<f, e>>] : x[1] \in Present' /\ x \in Files \X Sets
    BY <1>0, <1>1 DEF FilesGrow
  <2>2. ASSUME taken[<<f, e>>] # {}
        PROVE  f \in Present' /\ Imported(f, e)'
    <3>1. f \in Present /\ Imported(f, e)
      BY <1>0, <2>2 DEF TakenOk
    <3>2. PICK x \in taken[<<f, e>>] : file[x[1]].sha = file[f].sha /\ commits[x] > 0
      BY <3>1 DEF Imported, Content
    <3>3. x[1] \in Present /\ x \in Files \X Sets
      BY <1>0
    <3>4. file'[x[1]].sha = file'[f].sha /\ f \in Present'
      BY <1>1, <3>1, <3>2, <3>3 DEF FilesGrow
    <3>5. commits'[x] > 0
      BY <1>0, <1>1, <3>2, <3>3
    <3> QED BY <1>2, <3>4, <3>5 DEF Imported, Content
  <2> QED BY <1>2, <2>1, <2>2 DEF TakenOk
<1>3. CASE UNCHANGED taken
  BY <1>0, <1>1, <1>2, <1>3 DEF TakenInv, Grows
<1>4. ASSUME NEW w \in Workers, ImportDataset(w)
      PROVE  TakenInv' /\ Grows
  <2>1. PICK f, e, x, found : Taking(w, f, e, x, found) /\ UNCHANGED file
    BY <1>4, ImportTakes
  <2>2. /\ f \in Present /\ f \in Files /\ e \in Sets /\ x \in Files \X Sets /\ x[1] \in Present
        /\ file[x[1]].sha = file[f].sha /\ found \in {"ready", "blocked", "committed"}
        /\ taken' = [taken EXCEPT ![<<f, e>>] = IF found # "blocked" THEN @ \cup {x} ELSE @]
    BY <2>1 DEF Taking, Present, Content
  <2>3. CASE found = "blocked"
    BY <1>0, <1>3, <2>2, <2>3
  <2>4. CASE found # "blocked"
    <3>1. taken' = [taken EXCEPT ![<<f, e>>] = taken[<<f, e>>] \cup {x}]
      BY <2>2, <2>4
    <3>2. taken' \in [Files \X Sets -> SUBSET (Files \X Sets)]
      BY <1>0, <2>2, <3>1
    <3>3. \A y \in Files \X Sets : taken[y] \subseteq taken'[y]
      BY <1>0, <2>2, <3>1
    <3>4. ASSUME NEW g \in Files, NEW d \in Sets, <<g, d>> # <<f, e>>
          PROVE  TakenOk(g, d)' /\ \A y \in taken'[<<g, d>>] : y[1] \in Present'
      BY <1>0, <1>2, <3>1, <3>4
    <3>5. taken'[<<f, e>>] = taken[<<f, e>>] \cup {x}
      BY <1>0, <2>2, <3>1
    <3>6. commits'[x] > 0
      <4>1. BatchOk(x) /\ commits[x] \in Nat
        BY <1>0, <2>2 DEF Inv, BatchInv
      <4>2. CASE found = "ready"
        BY <1>0, <2>1, <2>2, <4>1, <4>2 DEF Taking
      <4>3. CASE found = "committed"
        BY <1>0, <2>1, <2>2, <4>1, <4>3 DEF Taking, BatchOk
      <4> QED BY <2>2, <2>4, <4>2, <4>3
    <3>7. Present' = Present
      BY <2>1 DEF Present
    <3>8. Imported(f, e)'
      BY <2>1, <2>2, <3>5, <3>6 DEF Imported, Content
    <3>9. TakenOk(f, e)' /\ \A y \in taken'[<<f, e>>] : y[1] \in Present'
      BY <1>0, <2>2, <3>5, <3>7, <3>8 DEF TakenOk
    <3> QED BY <1>1, <3>2, <3>3, <3>4, <3>9 DEF TakenInv, Grows
  <2> QED BY <2>3, <2>4
<1> QED BY <1>3, <1>4
        DEF Next, Upload, UploadAgain, RetryFile, UserResolves, UserCommits, UserRevokes, TakeMessage,
            Execute, SkipDuplicate, OpenFile, ParseFile, DatasetRaises, FinishFile, FinishJob, Die,
            Recover, rows, vars

\* The number of files is one, and does not fall.
LEMMA MoreFiles ==
  ASSUME Inv, [Next]_vars
  PROVE  Grows /\ Count \in Nat /\ Count' \in Nat
<1>1. Count \in Nat
  BY CountIsNat DEF Inv
<1>2. Count' \in Nat
  <2>1. FileInv'
    BY FilesKept
  <2>2. Present' \subseteq Files /\ Present' = 1 .. Count'
    BY <2>1 DEF FileInv, Present
  <2>3. Cardinality(Present') \in Nat
    <3>1. IsFiniteSet(Files)
      BY SizesAssumption, FS_Interval DEF Files
    <3> QED BY <2>2, <3>1, FS_Subset, FS_CardinalityType
  <2> QED BY <2>3 DEF Count, Present
<1> QED BY <1>1, <1>2, TakenKept

\* A worker that goes on with the next file, or rests, has counted nothing.
LEMMA FreshWork ==
  ASSUME Inv, [Next]_vars, NEW w \in Workers, work'[w] \in Tasks,
         work'[w].d = 1, work'[w].wins = 0, work'[w].fails = 0,
         work'[w].pc \in {"idle", "file"}, work'[w].todo <= Count,
         work'[w].f # 0 => work'[w].f \in Present
  PROVE  WorkOk(w)'
<1>1. Grows /\ Count \in Nat /\ Count' \in Nat
  BY MoreFiles
<1> PICK task : task = work'[w]
  OBVIOUS
<1>2. task.todo <= Count'
  BY <1>1, SizesAssumption DEF Tasks, Grows, FilesGrow
<1>3. \A e \in Sets : ~(e < 1)
  BY SizesAssumption DEF Sets
<1>4. task.f # 0 => task.f \in Present'
  BY <1>1 DEF Grows, FilesGrow
<1> QED BY <1>2, <1>3, <1>4 DEF WorkOk

\* A worker that the step does not move.
LEMMA OtherWork ==
  ASSUME Inv, [Next]_vars, NEW w \in Workers, work'[w] = work[w]
  PROVE  WorkOk(w)'
<1> PICK task : task = work[w]
  OBVIOUS
<1>1. Grows /\ Count \in Nat /\ Count' \in Nat
  BY MoreFiles
<1>2. WorkOk(w) /\ task \in Tasks
  BY DEF Inv, WorkInv
<1>3. task.f # 0 => task.f \in Present /\ task.f \in Present' /\ task.f \in Files
  BY <1>1, <1>2 DEF WorkOk, Grows, FilesGrow, Present
<1>4. task.todo <= Count'
  BY <1>1, <1>2, SizesAssumption DEF WorkOk, Tasks, Grows, FilesGrow
<1>5. \A f \in Files, e \in Sets : taken[<<f, e>>] # {} => taken'[<<f, e>>] # {}
  BY <1>1 DEF Grows
<1>6. ASSUME task.fails = 0, NEW e \in Sets, e < task.d
      PROVE  taken'[<<task.f, e>>] # {}
  <2>1. taken[<<task.f, e>>] # {}
    BY <1>2, <1>6 DEF WorkOk
  <2>2. CASE task.f # 0
    BY <1>3, <1>5, <2>1, <2>2
  <2>3. CASE task.f = 0
    <3>1. task.d = 1
      BY <1>2, <2>3 DEF WorkOk
    <3>2. ~(e < 1)
      BY SizesAssumption DEF Sets
    <3> QED BY <1>6, <3>1, <3>2
  <2> QED BY <2>2, <2>3
<1> QED BY <1>2, <1>3, <1>4, <1>6 DEF WorkOk

\* The workers' part of the invariant.
LEMMA WorkKept ==
  ASSUME Inv, [Next]_vars
  PROVE  WorkInv'
<1>0. /\ work \in [Workers -> Tasks] /\ \A w \in Workers : WorkOk(w)
      /\ file \in [Files -> FileRows] /\ Present = 1 .. Count
      /\ Count \in 0 .. MaxFiles /\ MaxFiles \in Nat /\ Datasets \in Nat \ {0}
  BY SizesAssumption, CountIsNat DEF Inv, WorkInv, FileInv
<1>1. CASE UNCHANGED work
  BY <1>0, <1>1, OtherWork DEF WorkInv
<1>2. ASSUME NEW w \in Workers, NEW task \in Tasks, work' = [work EXCEPT ![w] = task], WorkOk(w)'
      PROVE  WorkInv'
  <2>1. \A v \in Workers \ {w} : WorkOk(v)'
    BY <1>0, <1>2, OtherWork
  <2> QED BY <1>0, <1>2, <2>1 DEF WorkInv
<1>3. ASSUME NEW w \in Workers, NEW task \in Tasks, work' = [work EXCEPT ![w] = task],
             task.d = 1, task.wins = 0, task.fails = 0, task.pc \in {"idle", "file"},
             task.todo <= Count, task.f # 0 => task.f \in Present
      PROVE  WorkInv'
  <2>1. work'[w] = task
    BY <1>0, <1>3
  <2> QED BY <1>2, <1>3, <2>1, FreshWork
<1>4. ASSUME NEW w \in Workers, work' = [work EXCEPT ![w] = AtRest]
      PROVE  WorkInv'
  <2> PICK task : task = AtRest
    OBVIOUS
  <2>1. task = [pc |-> "idle", todo |-> 0, f |-> 0, seen |-> "queued", d |-> 1, wins |-> 0, fails |-> 0]
    BY DEF AtRest
  <2>2. task \in Tasks
    BY <1>0, <2>1 DEF Tasks, FileStatuses
  <2>3. /\ task.d = 1 /\ task.wins = 0 /\ task.fails = 0 /\ task.pc = "idle"
        /\ task.f = 0 /\ task.todo <= Count
    BY <1>0, <2>1
  <2> QED BY <1>3, <1>4, <2>2, <2>3
<1>5. ASSUME NEW w \in Workers, NEW now \in [Files -> FileRows], NEW f \in 0 .. MaxFiles,
             NEW todo \in 0 .. MaxFiles, todo <= Count, work' = [work EXCEPT ![w] = NextFile(now, f, todo)]
      PROVE  WorkInv'
  <2> PICK task : task = NextFile(now, f, todo)
    OBVIOUS
  <2>1. /\ task \in Tasks /\ task.pc = "file" /\ task.todo = todo /\ task.d = 1
        /\ task.wins = 0 /\ task.fails = 0 /\ (task.f # 0 => task.f \in 1 .. todo)
    BY <1>5, NextFileIs
  <2>2. task.f # 0 => task.f \in Present
    BY <1>0, <1>5, <2>1
  <2> QED BY <1>3, <1>5, <2>1, <2>2
<1>6. ASSUME NEW w \in Workers, TakeMessage(w) PROVE WorkInv'
  <2>1. 0 \in 0 .. MaxFiles /\ Count <= Count
    BY <1>0
  <2> QED BY <1>0, <1>5, <1>6, <2>1 DEF TakeMessage
<1>7. ASSUME NEW w \in Workers, NEW status, Close(w, status) PROVE WorkInv'
  <2> PICK now, f, todo : now = file' /\ f = work[w].f /\ todo = work[w].todo
    OBVIOUS
  <2>1. now \in [Files -> FileRows] /\ f \in 0 .. MaxFiles /\ todo \in 0 .. MaxFiles
    BY <1>0, FilesKept DEF FileInv, Tasks
  <2>2. todo <= Count
    BY <1>0 DEF WorkOk
  <2>3. work' = [work EXCEPT ![w] = NextFile(now, f, todo)]
    BY <1>7 DEF Close
  <2> QED BY <1>5, <2>1, <2>2, <2>3
<1>8. ASSUME NEW w \in Workers, NEW pc \in {"parse", "dataset"}, work[w].pc \in {"file", "parse"},
             work[w].f # 0, work' = [work EXCEPT ![w].pc = pc]
      PROVE  WorkInv'
  <2> PICK old, task : old = work[w] /\ task = [work[w] EXCEPT !.pc = pc]
    OBVIOUS
  <2>1. old \in Tasks /\ task = [old EXCEPT !.pc = pc] /\ work' = [work EXCEPT ![w] = task]
    BY <1>0, <1>8
  <2>2. /\ task \in Tasks /\ task.pc = pc /\ task.todo = old.todo /\ task.f = old.f
        /\ task.d = old.d /\ task.wins = old.wins /\ task.fails = old.fails
    BY <2>1 DEF Tasks
  <2>3. /\ old.f \in Present /\ old.todo <= Count /\ old.d = 1 /\ old.wins + old.fails = 0
        /\ old.todo \in Nat /\ old.wins + old.fails = old.d - 1
    BY <1>0, <1>8, <2>1 DEF WorkOk, Tasks
  <2>4. old.f \in Present' /\ old.todo <= Count'
    BY <2>3, MoreFiles DEF Grows, FilesGrow
  <2>5. \A e \in Sets : ~(e < 1)
    BY <1>0 DEF Sets
  <2>6. work'[w] = task
    BY <1>0, <2>1
  <2>7. WorkOk(w)'
    BY <1>8, <2>2, <2>3, <2>4, <2>5, <2>6 DEF WorkOk
  <2> QED BY <1>2, <2>1, <2>2, <2>7
<1>9. ASSUME NEW w \in Workers, ImportDataset(w) PROVE WorkInv'
  <2>1. PICK f, d, x, found : /\ Taking(w, f, d, x, found) /\ Advance(w, found # "blocked")
                              /\ work[w].pc = "dataset"
    BY <1>9, ImportTakes
  <2> PICK old, task : /\ old = work[w]
                       /\ task = [old EXCEPT !.d = @ + 1,
                                             !.wins  = IF found # "blocked" THEN @ + 1 ELSE @,
                                             !.fails = IF found # "blocked" THEN @ ELSE @ + 1]
    OBVIOUS
  <2>2. old \in Tasks /\ old.f = f /\ old.d = d /\ f \in Present /\ f \in Files /\ d \in Sets
        /\ old.pc = "dataset"
    BY <1>0, <2>1 DEF Taking, Present
  <2>3. work' = [work EXCEPT ![w] = task] /\ work'[w] = task
    BY <1>0, <2>1 DEF Advance
  <2>4. /\ old.todo <= Count /\ old.wins + old.fails = d - 1 /\ f # 0
        /\ old.fails = 0 => \A e \in Sets : e < d => taken[<<f, e>>] # {}
        /\ d \in 1 .. Datasets /\ old.wins \in Nat /\ old.fails \in Nat /\ old.todo \in Nat
    BY <1>0, <2>2 DEF WorkOk, Tasks, Sets
  <2>5. /\ task.d = d + 1 /\ task.f = f /\ task.todo = old.todo /\ task.pc = "dataset"
        /\ task.wins = IF found # "blocked" THEN old.wins + 1 ELSE old.wins
        /\ task.fails = IF found # "blocked" THEN old.fails ELSE old.fails + 1
        /\ task.seen = old.seen
    BY <2>2 DEF Tasks
  <2>6. /\ d + 1 \in 1 .. Datasets + 1 /\ task.wins \in 0 .. Datasets /\ task.fails \in 0 .. Datasets
        /\ task.wins + task.fails = task.d - 1
    <3>1. Datasets \in Nat /\ task.d = d + 1
      BY <1>0, <2>5
    <3>2. /\ d \in 1 .. Datasets /\ old.wins \in Nat /\ old.fails \in Nat
          /\ old.wins + old.fails = d - 1
      BY <2>4
    <3>3. \/ task.wins = old.wins /\ task.fails = old.fails + 1
          \/ task.wins = old.wins + 1 /\ task.fails = old.fails
      BY <2>5
    <3> QED BY <3>1, <3>2, <3>3
  <2>7. task \in Tasks
    <3> PICK wins, fails : /\ wins = (IF found # "blocked" THEN old.wins + 1 ELSE old.wins)
                           /\ fails = (IF found # "blocked" THEN old.fails ELSE old.fails + 1)
      OBVIOUS
    <3>1. task = [old EXCEPT !.d = d + 1, !.wins = wins, !.fails = fails]
      BY <2>2
    <3>2. wins \in 0 .. Datasets /\ fails \in 0 .. Datasets
      BY <2>5, <2>6
    <3> QED BY <2>2, <2>6, <3>1, <3>2 DEF Tasks
  <2>8. task.fails = 0 => \A e \in Sets : e < task.d => taken'[<<f, e>>] # {}
    <3> SUFFICES ASSUME task.fails = 0, NEW e \in Sets, e < d + 1
                 PROVE  taken'[<<f, e>>] # {}
      BY <2>5
    <3>1. found # "blocked" /\ old.fails = 0
      BY <2>4, <2>5
    <3>2. CASE e < d
      BY <2>2, <2>4, <3>1, <3>2, MoreFiles DEF Grows
    <3>3. CASE ~(e < d)
      <4>1. e = d
        BY <1>0, <2>4, <3>3 DEF Sets
      <4>2. x \in taken'[<<f, d>>]
        BY <2>1, <2>2, <3>1 DEF Taking, Inv, TakenInv
      <4> QED BY <4>1, <4>2
    <3> QED BY <3>2, <3>3
  <2>9. f \in Present' /\ old.todo <= Count'
    BY <2>2, <2>4, MoreFiles DEF Grows, FilesGrow
  <2>10. WorkOk(w)'
    BY <2>3, <2>4, <2>5, <2>6, <2>8, <2>9 DEF WorkOk
  <2> QED BY <1>2, <2>3, <2>7, <2>10
<1>10. ASSUME NEW w \in Workers, Execute(w) PROVE WorkInv'
  <2>1. CASE OpenFile(w)
    BY <1>8, <2>1 DEF OpenFile
  <2>2. CASE ParseFile(w)
    <3>1. work[w].f # 0
      BY <1>0, <2>2 DEF ParseFile, WorkOk
    <3> QED BY <1>7, <1>8, <2>2, <3>1 DEF ParseFile
  <2> QED BY <1>4, <1>7, <1>9, <1>10, <2>1, <2>2
          DEF Execute, SkipDuplicate, DatasetRaises, FinishFile, FinishJob
<1> QED BY <1>1, <1>4, <1>6, <1>10
        DEF Next, Upload, UploadAgain, RetryFile, UserResolves, UserCommits, UserRevokes, Die,
            Recover, rows, vars

\* A file of which every dataset was counted, or that has the bytes of one.
Whole(f) == \E g \in Files : Content(g) = Content(f) /\ \A d \in Sets : taken[<<g, d>>] # {}

\* With what is counted being imported, that is what a completed file stands for.
LEMMA WholeIsImported ==
  ASSUME TakenInv, NEW f \in Files
  PROVE  Whole(f) <=> \E g \in Files : Content(g) = Content(f) /\ \A d \in Sets : Imported(g, d)
BY DEF TakenInv, TakenOk, Whole, Imported

\* Nothing takes that back.
LEMMA WholeStays ==
  ASSUME Inv, [Next]_vars, NEW f \in Present, Whole(f)
  PROVE  Whole(f)'
<1>1. PICK g \in Files : file[g].sha = file[f].sha /\ \A d \in Sets : taken[<<g, d>>] # {}
  BY DEF Whole, Content
<1>2. 1 \in Sets
  BY SizesAssumption DEF Sets
<1>3. g \in Present
  BY <1>1, <1>2 DEF Inv, TakenInv, TakenOk
<1>4. file'[g].sha = file'[f].sha
  BY <1>1, <1>3, MoreFiles DEF Grows, FilesGrow
<1>5. \A d \in Sets : taken'[<<g, d>>] # {}
  BY <1>1, MoreFiles DEF Grows
<1> QED BY <1>4, <1>5 DEF Whole, Content

\* Whoever completes a file has every dataset of it, or a duplicate that had.
LEMMA CompletedKept ==
  ASSUME Inv, [Next]_vars
  PROVE  CompletedMeansImported'
<1>0. /\ file \in [Files -> FileRows] /\ Present = 1 .. Count /\ Present \subseteq Files
      /\ TakenInv /\ \A f \in Files : file[f].status = "completed" => f \in Present /\ Whole(f)
  <2>1. TakenInv /\ FileInv /\ CompletedMeansImported
    BY DEF Inv
  <2> QED BY <2>1, CountIsNat, WholeIsImported DEF FileInv, CompletedMeansImported, Present
<1> SUFFICES ASSUME NEW f \in Files, file'[f].status = "completed"
             PROVE  Whole(f)'
  <2>1. TakenInv'
    BY TakenKept
  <2>2. \A f \in Files : Whole(f)' =>
          (\E g \in Files : Content(g) = Content(f) /\ \A d \in Sets : Imported(g, d))'
    BY <2>1 DEF TakenInv, TakenOk, Whole, Imported
  <2> QED BY <2>2 DEF CompletedMeansImported
<1>1. CASE file[f].status = "completed"
  BY <1>0, <1>1, WholeStays
<1>2. CASE file[f].status # "completed"
  <2>1. ASSUME NEW w \in Workers, SkipDuplicate(w) PROVE Whole(f)'
    <3>1. f = work[w].f /\ f \in Present
      <4>1. work[w].f \in Present
        BY <2>1, AtFile DEF SkipDuplicate
      <4> QED BY <1>0, <1>2, <2>1, <4>1 DEF SkipDuplicate, Close
    <3>2. PICK g \in 1 .. Count : Content(g) = Content(f) /\ file[g].status = "completed"
      BY <2>1, <3>1 DEF SkipDuplicate, HasDuplicate, Duplicates
    <3>3. Whole(f)
      BY <1>0, <3>2 DEF Whole
    <3> QED BY <3>1, <3>3, WholeStays
  <2>2. ASSUME NEW w \in Workers, FinishFile(w) PROVE Whole(f)'
    <3>1. work[w].f \in Present /\ work[w] \in Tasks /\ WorkOk(w)
      BY <2>2, AtFile DEF FinishFile, Inv, WorkInv, WorkOk
    <3>2. f = work[w].f /\ Verdict(work[w].wins, work[w].fails) = "completed"
      BY <1>0, <1>2, <2>2, <3>1 DEF FinishFile, Close, FileRows
    <3>3. work[w].fails = 0
      BY <3>1, <3>2, SizesAssumption DEF Verdict, Tasks
    <3>4. \A e \in Sets : e < work[w].d
      BY <2>2, <3>1, SizesAssumption DEF FinishFile, Tasks, Sets
    <3>5. Whole(f)
      BY <3>1, <3>2, <3>3, <3>4 DEF WorkOk, Whole
    <3> QED BY <3>1, <3>2, <3>5, WholeStays
  <2>3. ASSUME NEW w \in Workers, OpenFile(w) PROVE FALSE
    BY <1>0, <1>2, <2>3 DEF OpenFile, FileRows
  <2>4. ASSUME NEW w \in Workers, ParseFile(w) PROVE FALSE
    <3>1. file' = file \/ file' = [file EXCEPT ![work[w].f].status = "failed"]
      BY <2>4 DEF ParseFile, Close
    <3> QED BY <1>0, <1>2, <3>1 DEF FileRows
  <2>5. CASE UNCHANGED file
    BY <1>2, <2>5
  <2>6. CASE Added
    BY <1>0, <1>2, <2>6 DEF Added
  <2>7. CASE Filled
    BY <2>7 DEF Filled, NoFile
  <2>8. ASSUME NEW w \in Workers, TakeMessage(w) \/ Execute(w) \/ Die(w) PROVE Whole(f)'
    BY <2>1, <2>2, <2>3, <2>4, <2>5, <2>8
       DEF TakeMessage, Execute, Die, ImportDataset, DatasetRaises, FinishJob, rows
  <2>9. ASSUME NEW n \in 1 .. Uploads, NEW shas \in [1 .. n -> Contents], Upload(shas) PROVE FALSE
    BY <1>2, <2>9 DEF Upload, NoFile
  <2>10. ASSUME NEW g \in Files, NEW sha \in Contents, RetryFile(g, sha) PROVE FALSE
    BY <1>0, <1>2, <2>10 DEF RetryFile
  <2> QED BY <2>5, <2>8, <2>9, <2>10
          DEF Next, UploadAgain, UserResolves, UserCommits, UserRevokes, Recover, rows, vars
<1> QED BY <1>1, <1>2

\* The job, the messages and the faults.
LEMMA ScalarsKept ==
  ASSUME Inv, [Next]_vars
  PROVE  job' \in JobStatuses /\ queue' \in 0 .. MaxQueue /\ budget' \in 0 .. Budget
<1>0. /\ job \in JobStatuses /\ queue \in 0 .. MaxQueue /\ budget \in 0 .. Budget
      /\ MaxQueue \in Nat /\ Budget \in Nat
  BY SizesAssumption DEF Inv
<1>1. JobVerdict \in JobStatuses /\ "queued" \in JobStatuses /\ "processing" \in JobStatuses
  BY DEF JobVerdict, JobStatuses
<1>2. job' = job \/ job' \in {"queued", "processing", JobVerdict}
  BY DEF Next, vars, rows, Upload, UploadAgain, RetryFile, UserResolves, UserCommits, UserRevokes,
         TakeMessage, Execute, SkipDuplicate, OpenFile, ParseFile, ImportDataset, DatasetRaises,
         FinishFile, FinishJob, Die, Recover
<1>3. \/ queue' = queue \/ (queue < MaxQueue /\ queue' = queue + 1)
      \/ (queue > 0 /\ queue' = queue - 1)
  BY DEF Next, vars, rows, Enqueue, Upload, UploadAgain, RetryFile, UserResolves, UserCommits,
         UserRevokes, TakeMessage, Execute, SkipDuplicate, OpenFile, ParseFile, ImportDataset,
         DatasetRaises, FinishFile, FinishJob, Die, Recover
<1>4. budget' = budget \/ (budget > 0 /\ budget' = budget - 1)
  BY DEF Next, vars, rows, Enqueue, Upload, UploadAgain, RetryFile, UserResolves, UserCommits,
         UserRevokes, TakeMessage, Execute, SkipDuplicate, OpenFile, ParseFile, ImportDataset,
         DatasetRaises, FinishFile, FinishJob, Die, Recover
<1> QED BY <1>0, <1>1, <1>2, <1>3, <1>4

\* Inv is inductive.
LEMMA InvIsKept == Spec => []Inv
<1>1. Init => Inv
  <2> SUFFICES ASSUME Init PROVE Inv
    OBVIOUS
  <2>1. file = [f \in Files |-> NoFile] /\ NoFile \in FileRows /\ NoFile.status = "absent"
    BY SizesAssumption DEF Init, NoFile, FileRows, FileStatuses
  <2>2. Present = {} /\ Count = 0
    <3>1. {f \in Files : file[f].status # "absent"} = {}
      BY <2>1
    <3> QED BY <3>1, FS_EmptySet DEF Present, Count
  <2>3. FileInv /\ CompletedMeansImported
    BY <2>1, <2>2 DEF FileInv, CompletedMeansImported
  <2>4. BatchInv /\ TakenInv
    BY DEF Init, BatchInv, BatchOk, Batches, TakenInv, TakenOk
  <2>5. WorkInv
    <3> PICK task : task = AtRest
      OBVIOUS
    <3>1. task = [pc |-> "idle", todo |-> 0, f |-> 0, seen |-> "queued", d |-> 1, wins |-> 0, fails |-> 0]
      BY DEF AtRest
    <3>2. task \in Tasks
      BY <3>1, SizesAssumption DEF Tasks, FileStatuses
    <3>3. work = [w \in Workers |-> task]
      BY DEF Init
    <3>4. \A e \in Sets : ~(e < 1)
      BY SizesAssumption DEF Sets
    <3> QED BY <2>2, <3>1, <3>2, <3>3, <3>4 DEF WorkInv, WorkOk
  <2>6. job \in JobStatuses /\ queue \in 0 .. MaxQueue /\ budget \in 0 .. Budget
    BY SizesAssumption DEF Init, JobStatuses
  <2> QED BY <2>3, <2>4, <2>5, <2>6 DEF Inv
<1>2. Inv /\ [Next]_vars => Inv'
  BY ScalarsKept, FilesKept, BatchesKept, TakenKept, WorkKept, CompletedKept DEF Inv
<1> QED BY <1>1, <1>2, PTL DEF Spec

\* The job, its files, batches, messages and workers have their types.
THEOREM TypesCorrect == Spec => []TypeOK
<1>1. Inv => TypeOK
  BY DEF Inv, FileInv, BatchInv, TakenInv, WorkInv, TypeOK, FileRows, Batches, Tasks
<1> QED BY <1>1, InvIsKept, PTL

\* However often the job is delivered and however many workers execute it, no batch
\* enters the account's data twice.
THEOREM CommitsOnce == Spec => []CommittedOnce
<1>1. Inv => CommittedOnce
  <2> SUFFICES ASSUME Inv, NEW x \in Files \X Sets PROVE commits[x] <= 1
    BY DEF CommittedOnce
  <2>1. batch[x] \in Batches /\ BatchOk(x)
    BY DEF Inv, BatchInv
  <2>2. commits[x] = 0 \/ commits[x] = 1
    BY <2>1 DEF BatchOk, Batches
  <2> QED BY <2>2
<1> QED BY <1>1, InvIsKept, PTL

\* A file that says it is completed, or the file it is a duplicate of, had every dataset
\* counted as imported by a batch of its bytes that was committed.
THEOREM CompletedFilesAreImported == Spec => []CompletedMeansImported
<1>1. Inv => CompletedMeansImported
  BY DEF Inv
<1> QED BY <1>1, InvIsKept, PTL
=============================================================================
