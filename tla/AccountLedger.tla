---------------------------- MODULE AccountLedger ----------------------------
(***************************************************************************)
(* The data of one account (backend/app/services/data_import/service.py,   *)
(* projection.py, merge.py): import batches, the field observations they   *)
(* record, and the snapshot rows that show for every field the observation *)
(* that wins.                                                              *)
(*                                                                         *)
(* commit_batch, revoke_batch and delete_batch_permanently are             *)
(* transactions at READ COMMITTED: they take their locks, read the         *)
(* committed observations and snapshots, and write what follows from that. *)
(* Others run between the read and the write.  A value is the batch it     *)
(* comes from; the observations of a batch come and go together.           *)
(***************************************************************************)
EXTENDS Naturals, FiniteSets, FiniteSetsExt

CONSTANTS
  Batches,
  Keys,        \* projection keys: domain, entity and date
  Contents,    \* keys of the domain content_metrics
  Fields,
  Cells,       \* what each batch brings: a set of <<key, field>>
  Priority,    \* source_priority of each batch's source_kind
  Ambiguous,   \* batches whose row needs a human to choose its content
  Requests,    \* API requests and workers, each one transaction at a time
  None,        \* no batch, no request
  MaxSeq       \* bound: distinct clock readings (confirmed_sequence)

KeysOf(b) == {c[1] : c \in Cells[b]}

ASSUME BatchAssumption ==
  /\ None \notin Batches \cup Requests /\ IsFiniteSet(Batches) /\ Contents \subseteq Keys /\ Ambiguous \subseteq Batches
  /\ Cells \in [Batches -> SUBSET (Keys \X Fields)]
  /\ Priority \in [Batches -> Nat] /\ MaxSeq \in Nat \ {0}

VARIABLES
  batch,     \* DataImportBatch.status
  seq,       \* DataImportBatch.confirmed_sequence
  born,      \* order in which the observations of a batch were inserted (their ids)
  active,    \* batches whose observations are active
  snapshot,  \* the projection row of each key
  row,       \* DataImportRow.status of the batch's row
  account,   \* holder of the lock on the Account row
  tx,        \* the transaction of each request
  raced      \* keys on which a revocation overlapped another transaction

data == <<batch, seq, born, active, snapshot>>
vars == <<batch, seq, born, active, snapshot, row, account, tx, raced>>

BatchStatuses == {"preview_ready", "committed", "revoked", "deleted"}
RowStatuses   == {"ready", "needs_resolution", "committed", "revoked"}

\* A snapshot row: the batch each field's value is from, import_batch_id, and
\* the canonical_import_batch_id of the content record it belongs to.
Rows    == [val: [Fields -> Batches \cup {None}],
            by: Batches \cup {None}, owner: Batches \cup {None}]
Missing == [val |-> [f \in Fields |-> None], by |-> None, owner |-> None]

Idle == [pc |-> "idle", op |-> "none", b |-> None,
         saw |-> [k \in Keys |-> Missing], next |-> [k \in Keys |-> Missing], pick |-> None]
Busy(t) == tx[t].pc # "idle"

Init ==
  /\ batch    = [b \in Batches |-> "preview_ready"]
  /\ seq      = [b \in Batches |-> 0]
  /\ born     = [b \in Batches |-> 0]
  /\ active   = {}
  /\ snapshot = [k \in Keys |-> Missing]
  /\ row      = [b \in Batches |-> IF b \in Ambiguous THEN "needs_resolution" ELSE "ready"]
  /\ account  = None
  /\ tx       = [t \in Requests |-> Idle]
  /\ raced    = {}

------------------------------------------------------------------------------
(* Which observation wins: source priority, then confirmed_sequence, then id. *)

Above(s, i, a, b) ==
  \/ Priority[a] > Priority[b]
  \/ Priority[a] = Priority[b] /\ s[a] > s[b]
  \/ Priority[a] = Priority[b] /\ s[a] = s[b] /\ i[a] > i[b]

Strongest(s, i, S) ==
  IF S = {} THEN None ELSE CHOOSE a \in S : \A b \in S \ {a} : Above(s, i, a, b)

OnField(S, k, f) == {b \in S : <<k, f>> \in Cells[b]}
OnKey(S, k)      == {b \in S : k \in KeysOf(b)}

\* commit_batch writes the winners over the row; a field without an observation
\* keeps what the row has.
Overlaid(s, i, S, k, old) ==
  [f \in Fields |-> IF OnField(S, k, f) = {} THEN old[f]
                    ELSE Strongest(s, i, OnField(S, k, f))]

\* The first batch that brings a content creates its record.
Adopted(k, old, b) == IF k \in Contents /\ old = None THEN b ELSE old

Upserted(s, i, S, k, old, b) ==
  [val |-> Overlaid(s, i, S, k, old.val), by |-> Strongest(s, i, OnKey(S, k)),
   owner |-> Adopted(k, old.owner, b)]

\* revoke and delete compute every field from what is left.
Recomputed(s, i, S, k) == [f \in Fields |-> Strongest(s, i, OnField(S, k, f))]

\* Mutant: the content record stays with the batch that is revoked.
Testator(s, i, S, k, old, b) == old
\* A content record of the batch goes to the strongest batch that is left.
Heir(s, i, S, k, old, b) == IF old = b THEN Strongest(s, i, OnKey(S, k)) ELSE old

Rebuilt(s, i, S, k, old, b) ==
  IF OnKey(S, k) = {} THEN Missing
  ELSE [val |-> Recomputed(s, i, S, k), by |-> Strongest(s, i, OnKey(S, k)),
        owner |-> Heir(s, i, S, k, old.owner, b)]

------------------------------------------------------------------------------
(* Transactions. *)

Locked(b) == \E t \in Requests : tx[t].b = b /\ tx[t].op # "resolve"

Open(t, op, b) == tx' = [tx EXCEPT ![t] = [Idle EXCEPT !.pc = "locked", !.op = op, !.b = b]]

\* No row of the batch is invalid or waits for a human.
Committable(b) == batch[b] = "preview_ready" /\ row[b] = "ready"

\* Mutant: the account is not locked.
NoAccountLock == TRUE
AccountFree == account = None

\* commit_batch up to the lock on the account: the batch's own rows are locked first.
BeginCommit(t, b) ==
  /\ ~Busy(t) /\ ~Locked(b)
  /\ Committable(b) /\ AccountFree
  /\ account' = t
  /\ Open(t, "commit", b)
  /\ UNCHANGED <<data, row, raced>>

BeginRevoke(t, b) ==
  /\ ~Busy(t) /\ ~Locked(b)
  /\ batch[b] = "committed"
  /\ Open(t, "revoke", b)
  /\ UNCHANGED <<data, row, account, raced>>

BeginDelete(t, b) ==
  /\ ~Busy(t) /\ ~Locked(b)
  /\ batch[b] # "deleted"
  /\ Open(t, "delete", b)
  /\ UNCHANGED <<data, row, account, raced>>

Rebuilds(t) == tx[t].op = "revoke" \/ (tx[t].op = "delete" /\ batch[tx[t].b] = "committed")

\* The projection rows a transaction writes; deleting a preview writes none.
Touched(t) == IF tx[t].op = "commit" \/ Rebuilds(t) THEN KeysOf(tx[t].b) ELSE {}

\* The observations a transaction sees: the committed ones and its own change.
Sight(t) == IF tx[t].op = "commit" THEN active \cup {tx[t].b} ELSE active \ {tx[t].b}

\* The reads, and the rows they lead to.  A commit stamps the batch with its clock.
Read(t, clock) ==
  LET b == tx[t].b
      s == IF tx[t].op = "commit" THEN [seq EXCEPT ![b] = clock] ELSE seq
      i == IF tx[t].op = "commit" THEN [born EXCEPT ![b] = Cardinality(Batches) + 1] ELSE born
      Result(k) == IF tx[t].op = "commit" THEN Upserted(s, i, Sight(t), k, snapshot[k], b)
                   ELSE Rebuilt(s, i, Sight(t), k, snapshot[k], b)
  IN
  /\ tx[t].pc = "locked" /\ tx[t].op # "resolve"
  /\ tx[t].op # "commit" => clock = 1
  /\ tx' = [tx EXCEPT ![t].pc = "read", ![t].saw = snapshot, ![t].pick = clock,
                      ![t].next = [k \in Keys |-> IF k \in Touched(t) THEN Result(k)
                                                  ELSE snapshot[k]]]
  /\ UNCHANGED <<data, row, account, raced>>

\* The flush of one row: INSERT what was not there, DELETE, or UPDATE of the
\* columns that differ from what was read.
Stored(saw, new, now) ==
  IF new = saw THEN now
  ELSE IF new = Missing \/ saw = Missing THEN new
  ELSE [val   |-> [f \in Fields |-> IF new.val[f] # saw.val[f] THEN new.val[f] ELSE now.val[f]],
        by    |-> IF new.by # saw.by THEN new.by ELSE now.by,
        owner |-> IF new.owner # saw.owner THEN new.owner ELSE now.owner]

\* An UPDATE of a row that is no longer there fails (StaleDataError).
Stale(t) == \E k \in Touched(t) :
  /\ tx[t].saw[k] # Missing /\ snapshot[k] = Missing
  /\ tx[t].next[k] # Missing /\ tx[t].next[k] # tx[t].saw[k]

Result(t, k) ==
  IF k \notin Touched(t) THEN snapshot[k]
  ELSE Stored(tx[t].saw[k], tx[t].next[k], snapshot[k])

Overlaps(t) == UNION {Touched(t) \cap Touched(u) :
                      u \in {u \in Requests \ {t} : /\ tx[u].pc = "read"
                                                    /\ Rebuilds(t) \/ Rebuilds(u)}}

Unlock(t) == account' = IF account = t THEN None ELSE account
Close(t)  == tx' = [tx EXCEPT ![t] = Idle] /\ Unlock(t)

WriteRows(t) ==
  /\ tx[t].pc = "read" /\ ~Stale(t)
  /\ snapshot' = [k \in Keys |-> Result(t, k)]
  /\ raced' = raced \cup Overlaps(t)
  /\ Close(t)

\* Mutant: an id beyond the observations there are.
SkippedId == 2 + Cardinality({a \in Batches : born[a] # 0})
NextId == 1 + Cardinality({a \in Batches : born[a] # 0})

Commit(t) ==
  /\ tx[t].op = "commit" /\ WriteRows(t)
  /\ LET b == tx[t].b IN
     /\ batch'  = [batch EXCEPT ![b] = "committed"]
     /\ seq'    = [seq EXCEPT ![b] = tx[t].pick]
     /\ born'   = [born EXCEPT ![b] = NextId]
     /\ active' = active \cup {b}
     /\ row'    = [row EXCEPT ![b] = "committed"]

Revoke(t) ==
  /\ tx[t].op = "revoke" /\ WriteRows(t)
  /\ batch'  = [batch EXCEPT ![tx[t].b] = "revoked"]
  /\ row'    = [row EXCEPT ![tx[t].b] = "revoked"]
  /\ active' = active \ {tx[t].b}
  /\ UNCHANGED <<seq, born>>

\* session.delete(batch): the observations go with it, and snapshots that still
\* name it; a content record that still names it refuses the deletion.
Delete(t) ==
  LET b == tx[t].b IN
  /\ tx[t].op = "delete" /\ tx[t].pc = "read" /\ ~Stale(t)
  /\ \A k \in Keys : Result(t, k).owner # b
  /\ snapshot' = [k \in Keys |-> IF Result(t, k).by = b THEN Missing ELSE Result(t, k)]
  /\ batch'  = [batch EXCEPT ![b] = "deleted"]
  /\ active' = active \ {b}
  /\ raced'  = raced \cup Overlaps(t)
  /\ Close(t)
  /\ UNCHANGED <<seq, born, row>>

\* A transaction that fails or dies leaves nothing.
Rollback(t) ==
  /\ tx[t].pc = "read"
  /\ Close(t)
  /\ UNCHANGED <<data, row, raced>>

------------------------------------------------------------------------------
(* A row that needs a human: resolve_row_match. *)

\* The API loads the batch with its rows, without a lock ...
LoadRow(t, b) ==
  /\ ~Busy(t) /\ batch[b] # "deleted"
  /\ row[b] = "needs_resolution"
  /\ tx' = [tx EXCEPT ![t] = [Idle EXCEPT !.pc = "locked", !.op = "resolve", !.b = b]]
  /\ UNCHANGED <<data, row, account, raced>>

\* ... and resolve_row_match locks them.  The locked read returns the objects
\* the session already holds, so what is checked is the row as it was loaded, and a
\* row that was resolved or committed meanwhile becomes ready again.
Resolve(t) ==
  /\ tx[t].op = "resolve" /\ ~Locked(tx[t].b)
  /\ batch[tx[t].b] # "deleted"
  /\ row' = [row EXCEPT ![tx[t].b] = "ready"]
  /\ Close(t)
  /\ UNCHANGED <<data, raced>>

ResolveGone(t) ==
  /\ tx[t].op = "resolve" /\ batch[tx[t].b] = "deleted"
  /\ Close(t)
  /\ UNCHANGED <<data, row, raced>>

Next == \E t \in Requests :
  \/ \E b \in Batches :
       \/ BeginCommit(t, b) \/ BeginRevoke(t, b) \/ BeginDelete(t, b)
       \/ LoadRow(t, b)
  \/ \E clock \in 1 .. MaxSeq : Read(t, clock)
  \/ Commit(t) \/ Revoke(t) \/ Delete(t) \/ Rollback(t)
  \/ Resolve(t) \/ ResolveGone(t)

Spec == Init /\ [][Next]_vars

------------------------------------------------------------------------------
(* Properties. *)

TypeOK ==
  /\ batch \in [Batches -> BatchStatuses] /\ seq \in [Batches -> 0 .. MaxSeq]
  /\ born \in [Batches -> 0 .. Cardinality(Batches)] /\ active \subseteq Batches
  /\ snapshot \in [Keys -> Rows]
  /\ row \in [Batches -> RowStatuses]
  /\ account \in Requests \cup {None} /\ raced \subseteq Keys
  /\ \A t \in Requests : tx[t].pc \in {"idle", "locked", "read"} /\ tx[t].b \in Batches \cup {None}

\* What every observation that is left says about a key.
Truth(k) ==
  [val |-> [f \in Fields |-> Strongest(seq, born, OnField(active, k, f))],
   by  |-> Strongest(seq, born, OnKey(active, k))]

\* Every snapshot shows, field by field, the strongest observation that is still
\* active, and names the strongest batch, whatever the order of commits,
\* revocations and deletions and whatever the clocks of the hosts say - as long
\* as no revocation overlaps another transaction on the key.
SnapshotShowsWinners == \A k \in Keys \ raced :
  snapshot[k].val = Truth(k).val /\ snapshot[k].by = Truth(k).by

\* A content record belongs to a committed batch that still has data on it, so
\* that deleting or revoking its owner never takes another batch's content along.
ContentHasLiveOwner == \A k \in Contents \ raced :
  IF OnKey(active, k) = {} THEN snapshot[k].owner = None
  ELSE snapshot[k].owner \in OnKey(active, k)
=============================================================================
