------------------------- MODULE AccountLedgerProofs -------------------------
(***************************************************************************)
(* Theorems about AccountLedger, for any batches, keys, fields, cells,     *)
(* priorities and requests: on every key that no revocation raced on, the  *)
(* snapshot shows the strongest observations that are left, and a content  *)
(* belongs to a batch that still has data on it.                           *)
(*                                                                         *)
(* The argument: what a transaction has read and will write is right for   *)
(* the observations as they are now, and stays so until it writes          *)
(* (Planned), because whoever changes the observations of the key          *)
(* meanwhile makes the key raced, and two commits cannot overlap: they     *)
(* hold the account.                                                       *)
(***************************************************************************)
EXTENDS AccountLedger, FiniteSetTheorems, WellFoundedInduction, TLAPS

Owner == Batches \cup {None}
Txs   == [pc: {"idle", "locked", "read"}, op: {"none", "commit", "revoke", "delete", "resolve"},
          b: Owner, saw: [Keys -> Rows], next: [Keys -> Rows], pick: (1 .. MaxSeq) \cup {None}]

\* The ids of the observations that were ever inserted are 1, 2, ..., in order.
Ranked  == {a \in Batches : born[a] # 0}
BornInv ==
  /\ batch \in [Batches -> BatchStatuses] /\ seq \in [Batches -> 0 .. MaxSeq]
  /\ born \in [Batches -> 0 .. Cardinality(Batches)]
  /\ active = {b \in Batches : batch[b] = "committed"} /\ active \subseteq Ranked
  /\ \A b \in Batches : batch[b] = "preview_ready" => born[b] = 0
  /\ \A b \in Batches : born[b] <= Cardinality(Ranked)
  /\ \A a, b \in Ranked : a # b => born[a] # born[b]

\* What the locks of a transaction ensure.
TxOk(t) ==
  /\ tx[t].pc = "idle" <=> tx[t].op = "none"
  /\ tx[t].pc = "idle" <=> tx[t].b = None
  /\ tx[t].op = "commit" => account = t /\ batch[tx[t].b] = "preview_ready"
  /\ tx[t].op = "revoke" => batch[tx[t].b] = "committed"
  /\ tx[t].pc = "read" => tx[t].op # "resolve" /\ tx[t].pick \in 1 .. MaxSeq
Locks(t) == tx[t].op \notin {"none", "resolve"}
LockInv ==
  /\ tx \in [Requests -> Txs] /\ account \in Requests \cup {None}
  /\ \A t \in Requests : TxOk(t)
  /\ \A t, u \in Requests : t # u /\ Locks(t) /\ Locks(u) => tx[t].b # tx[u].b

\* The row r of key k shows what the observations of the batches A say.
Shows(r, s, i, A, k) ==
  /\ \A f \in Fields : r.val[f] = Strongest(s, i, OnField(A, k, f))
  /\ r.by = Strongest(s, i, OnKey(A, k))
  /\ k \in Contents => IF OnKey(A, k) = {} THEN r.owner = None ELSE r.owner \in OnKey(A, k)

\* A commit reads its own observations with its clock, above the ids there are.
SeqOf(t)  == IF tx[t].op = "commit" THEN [seq EXCEPT ![tx[t].b] = tx[t].pick] ELSE seq
BornOf(t) == IF tx[t].op = "commit" THEN [born EXCEPT ![tx[t].b] = Cardinality(Batches) + 1]
             ELSE born

Shown(k) == Shows(snapshot[k], seq, born, active, k)
Planned(t, k) == /\ tx[t].saw[k] = snapshot[k]
                 /\ Shows(tx[t].next[k], SeqOf(t), BornOf(t), Sight(t), k)
ShownInv ==
  /\ snapshot \in [Keys -> Rows] /\ raced \subseteq Keys /\ row \in [Batches -> RowStatuses]
  /\ \A k \in Keys \ raced : Shown(k)
  /\ \A t \in Requests : \A k \in Touched(t) \ raced : tx[t].pc = "read" => Planned(t, k)

Inv == BornInv /\ LockInv /\ ShownInv

------------------------------------------------------------------------------
(* Which observation wins. *)

\* Clock readings and ids that decide between the batches of a set.
Decides(s, i, S) ==
  /\ s \in [Batches -> Nat] /\ i \in [Batches -> Nat] /\ S \subseteq Batches
  /\ \A a, b \in S : a # b => i[a] # i[b]

\* Above is a strict total order then.
LEMMA AboveOrders ==
  ASSUME NEW s, NEW i, NEW S, Decides(s, i, S)
  PROVE  /\ \A a \in S : ~Above(s, i, a, a)
         /\ \A a, b \in S : a # b => Above(s, i, a, b) \/ Above(s, i, b, a)
         /\ \A a, b \in S : ~(Above(s, i, a, b) /\ Above(s, i, b, a))
         /\ \A a, b, c \in S : Above(s, i, a, b) /\ Above(s, i, b, c) => Above(s, i, a, c)
<1>1. \A a \in S : Priority[a] \in Nat /\ s[a] \in Nat /\ i[a] \in Nat
  BY BatchAssumption DEF Decides
<1>2. \A a, b \in S : a # b => i[a] # i[b]
  BY DEF Decides
<1>3. \A a \in S : ~Above(s, i, a, a)
  BY <1>1 DEF Above
<1>4. ASSUME NEW a \in S, NEW b \in S
      PROVE  /\ a # b => Above(s, i, a, b) \/ Above(s, i, b, a)
             /\ ~(Above(s, i, a, b) /\ Above(s, i, b, a))
  <2>1. /\ Priority[a] \in Nat /\ s[a] \in Nat /\ i[a] \in Nat
        /\ Priority[b] \in Nat /\ s[b] \in Nat /\ i[b] \in Nat
    BY <1>1
  <2> QED BY <1>2, <2>1 DEF Above
<1>5. ASSUME NEW a \in S, NEW b \in S, NEW c \in S, Above(s, i, a, b), Above(s, i, b, c)
      PROVE  Above(s, i, a, c)
  <2>1. /\ Priority[a] \in Nat /\ s[a] \in Nat /\ i[a] \in Nat
        /\ Priority[b] \in Nat /\ s[b] \in Nat /\ i[b] \in Nat
        /\ Priority[c] \in Nat /\ s[c] \in Nat /\ i[c] \in Nat
    BY <1>1
  <2> QED BY <1>5, <2>1 DEF Above
<1>6. \A a, b \in S : a # b => Above(s, i, a, b) \/ Above(s, i, b, a)
  BY <1>4
<1>7. \A a, b \in S : ~(Above(s, i, a, b) /\ Above(s, i, b, a))
  BY <1>4
<1>8. \A a, b, c \in S : Above(s, i, a, b) /\ Above(s, i, b, c) => Above(s, i, a, c)
  BY <1>5
<1> QED BY <1>3, <1>6, <1>7, <1>8

\* A set of numbers has a least one.
LEMMA LeastOf ==
  ASSUME NEW T \in SUBSET Nat, T # {}
  PROVE  \E m \in T : \A n \in T : m <= n
<1> DEFINE Less == OpToRel(<, Nat)
<1>1. \A a, b \in Nat : a < b => <<a, b>> \in Less
  BY DEF OpToRel
<1>2. IsWellFoundedOn(Less, Nat)
  BY NatLessThanWellFounded
<1> HIDE DEF Less
<1>3. PICK m \in T : \A n \in T : ~ (<<n, m>> \in Less)
  BY <1>2, WFMin
<1>4. \A n \in T : n \in Nat /\ m \in Nat /\ ~ (n < m)
  BY <1>1, <1>3
<1> QED BY <1>4

\* So there is one that wins: the one that the fewest are above.
LEMMA StrongestWins ==
  ASSUME NEW s, NEW i, NEW S, Decides(s, i, S), S # {}
  PROVE  /\ Strongest(s, i, S) \in S
         /\ \A b \in S \ {Strongest(s, i, S)} : Above(s, i, Strongest(s, i, S), b)
<1> DEFINE Over(a) == {b \in S : Above(s, i, b, a)}
           Sizes   == {Cardinality(Over(a)) : a \in S}
<1>1. IsFiniteSet(S)
  BY BatchAssumption, FS_Subset DEF Decides
<1>2. \A a \in S : IsFiniteSet(Over(a)) /\ Cardinality(Over(a)) \in Nat
  BY <1>1, FS_Subset, FS_CardinalityType
<1>3. Sizes \in SUBSET Nat /\ Sizes # {}
  BY <1>2
<1>4. \E n \in Sizes : \A m \in Sizes : n <= m
  <2> HIDE DEF Sizes
  <2> QED BY <1>3, LeastOf
<1>5. PICK a \in S : \A b \in S : Cardinality(Over(a)) <= Cardinality(Over(b))
  <2> HIDE DEF Over
  <2> QED BY <1>4
<1>6. Over(a) = {}
  <2> SUFFICES ASSUME NEW b \in S, Above(s, i, b, a) PROVE FALSE
    OBVIOUS
  <2>1. Over(b) \subseteq Over(a) /\ b \in Over(a) /\ b \notin Over(b)
    BY AboveOrders
  <2>2. /\ Cardinality(Over(b)) <= Cardinality(Over(a))
        /\ Cardinality(Over(b)) # Cardinality(Over(a))
    BY <1>2, <2>1, FS_Subset
  <2>3. Cardinality(Over(b)) \in Nat /\ Cardinality(Over(a)) \in Nat
    BY <1>2
  <2>4. Cardinality(Over(a)) <= Cardinality(Over(b))
    BY <1>5
  <2> HIDE DEF Over
  <2> QED BY <2>2, <2>3, <2>4
<1>7. \A b \in S \ {a} : Above(s, i, a, b)
  BY <1>6, AboveOrders
<1> QED BY <1>7 DEF Strongest

\* Whoever orders a set in the same way has the same winner.
LEMMA SameWinner ==
  ASSUME NEW s, NEW i, NEW z, NEW j, NEW S, Decides(s, i, S), Decides(z, j, S),
         \A a, b \in S : Above(s, i, a, b) <=> Above(z, j, a, b)
  PROVE  Strongest(s, i, S) = Strongest(z, j, S)
<1>1. CASE S = {}
  BY <1>1 DEF Strongest
<1>2. CASE S # {}
  <2> PICK a, b : a = Strongest(s, i, S) /\ b = Strongest(z, j, S)
    OBVIOUS
  <2>1. a \in S /\ b \in S /\ (b # a => Above(s, i, a, b)) /\ (b # a => Above(z, j, b, a))
    BY <1>2, StrongestWins
  <2> QED BY <2>1, AboveOrders
<1> QED BY <1>1, <1>2

\* A winner is a batch, or there is none.
LEMMA WinnerType ==
  ASSUME NEW s, NEW i, NEW S, Decides(s, i, S)
  PROVE  Strongest(s, i, S) \in Owner /\ (S # {} => Strongest(s, i, S) \in S)
         /\ (S = {} => Strongest(s, i, S) = None)
<1>1. CASE S = {}
  BY <1>1 DEF Strongest, Owner
<1>2. CASE S # {}
  BY <1>2, StrongestWins DEF Owner, Decides
<1> QED BY <1>1, <1>2

\* What a set of batches says of a key depends on those that touch the key.
LEMMA ShowsSame ==
  ASSUME NEW s, NEW i, NEW z, NEW j, NEW A, NEW B, NEW k \in Keys, NEW r,
         Decides(s, i, OnKey(A, k)), Decides(z, j, OnKey(A, k)), OnKey(A, k) = OnKey(B, k),
         \A a, b \in OnKey(A, k) : Above(s, i, a, b) <=> Above(z, j, a, b),
         Shows(r, s, i, A, k)
  PROVE  Shows(r, z, j, B, k)
<1>1. ASSUME NEW f \in Fields
      PROVE  /\ OnField(A, k, f) = OnField(B, k, f) /\ OnField(A, k, f) \subseteq OnKey(A, k)
             /\ Strongest(s, i, OnField(A, k, f)) = Strongest(z, j, OnField(B, k, f))
  <2>1. \A b : <<k, f>> \in Cells[b] => k \in KeysOf(b)
    BY DEF KeysOf
  <2>2. OnField(A, k, f) = OnField(B, k, f) /\ OnField(A, k, f) \subseteq OnKey(A, k)
    BY <2>1 DEF OnField, OnKey
  <2>3. Decides(s, i, OnField(A, k, f)) /\ Decides(z, j, OnField(A, k, f))
    BY <2>2 DEF Decides
  <2> QED BY <2>2, <2>3, SameWinner
<1>2. Strongest(s, i, OnKey(A, k)) = Strongest(z, j, OnKey(B, k))
  BY SameWinner
<1> QED BY <1>1, <1>2 DEF Shows

------------------------------------------------------------------------------
(* What a transaction writes. *)

CommitSeq(b, c) == [seq EXCEPT ![b] = c]
CommitBorn(b)   == [born EXCEPT ![b] = Cardinality(Batches) + 1]

\* There are finitely many batches.
LEMMA BatchCount == Cardinality(Batches) \in Nat /\ Cardinality(Batches) + 1 \in Nat
BY BatchAssumption, FS_CardinalityType

\* Clock readings and ids decide between active batches, before a step
LEMMA ActiveDecides ==
  ASSUME BornInv
  PROVE  Decides(seq, born, active)
<1>1. seq \in [Batches -> Nat] /\ born \in [Batches -> Nat]
  BY BatchAssumption, BatchCount DEF BornInv
<1> QED BY <1>1 DEF BornInv, Decides, Ranked

\* and after it,
LEMMA ActiveDecideThen ==
  ASSUME BornInv'
  PROVE  Decides(seq', born', active')
<1>1. seq' \in [Batches -> Nat] /\ born' \in [Batches -> Nat]
  BY BatchAssumption, BatchCount DEF BornInv
<1> QED BY <1>1 DEF BornInv, Decides, Ranked

\* and also when one is committed, with an id above all that there are.
LEMMA AddDecides ==
  ASSUME NEW s, NEW i \in [Batches -> 0 .. Cardinality(Batches)], NEW A, Decides(s, i, A),
         NEW b \in Batches, NEW c \in 1 .. MaxSeq
  PROVE  Decides([s EXCEPT ![b] = c], [i EXCEPT ![b] = Cardinality(Batches) + 1], A \cup {b})
<1> PICK j : j = [i EXCEPT ![b] = Cardinality(Batches) + 1]
  OBVIOUS
<1>1. [s EXCEPT ![b] = c] \in [Batches -> Nat] /\ j \in [Batches -> Nat] /\ A \subseteq Batches
  BY BatchAssumption, BatchCount DEF Decides
<1>2. ASSUME NEW x \in A \cup {b}, NEW y \in A \cup {b}, x # y
      PROVE  j[x] # j[y]
  <2>1. \A z \in Batches : j[z] = IF z = b THEN Cardinality(Batches) + 1 ELSE i[z]
    OBVIOUS
  <2>2. \A z \in Batches : i[z] # Cardinality(Batches) + 1
    BY BatchCount
  <2> QED BY <1>1, <1>2, <2>1, <2>2 DEF Decides
<1> QED BY <1>1, <1>2 DEF Decides

\* So it is with a commit.
LEMMA CommitDecides ==
  ASSUME BornInv, NEW b \in Batches, NEW c \in 1 .. MaxSeq
  PROVE  Decides(CommitSeq(b, c), CommitBorn(b), active \cup {b})
<1>1. born \in [Batches -> 0 .. Cardinality(Batches)]
  BY DEF BornInv
<1> QED BY <1>1, ActiveDecides, AddDecides DEF CommitSeq, CommitBorn

\* They decide between those that touch a key or a field, too.
LEMMA Deciding ==
  ASSUME NEW s, NEW i, NEW A, Decides(s, i, A)
  PROVE  /\ \A k : Decides(s, i, OnKey(A, k))
         /\ \A k, f : Decides(s, i, OnField(A, k, f))
BY DEF Decides, OnKey, OnField

\* The row that commit_batch computes has the type of a row.
LEMMA UpsertedType ==
  ASSUME NEW s, NEW i, NEW A, Decides(s, i, A), NEW k \in Keys, NEW old \in Rows, NEW b \in Batches
  PROVE  Upserted(s, i, A, k, old, b) \in Rows
<1>1. Overlaid(s, i, A, k, old.val) \in [Fields -> Owner]
  BY Deciding, WinnerType DEF Overlaid, Rows, Owner
<1>2. Strongest(s, i, OnKey(A, k)) \in Owner /\ Adopted(k, old.owner, b) \in Owner
  BY Deciding, WinnerType DEF Adopted, Rows, Owner
<1> QED BY <1>1, <1>2 DEF Upserted, Rows, Owner

\* The row that a revocation or a deletion computes is one, too.
LEMMA RebuiltType ==
  ASSUME NEW s, NEW i, NEW A, Decides(s, i, A), NEW k \in Keys, NEW old \in Rows, NEW b \in Batches
  PROVE  Rebuilt(s, i, A, k, old, b) \in Rows /\ Missing \in Rows
<1>1. Recomputed(s, i, A, k) \in [Fields -> Owner]
  BY Deciding, WinnerType DEF Recomputed
<1>2. Strongest(s, i, OnKey(A, k)) \in Owner /\ Heir(s, i, A, k, old.owner, b) \in Owner
  BY Deciding, WinnerType DEF Heir, Rows, Owner
<1>3. Missing \in Rows
  BY DEF Missing, Rows
<1> QED BY <1>1, <1>2, <1>3 DEF Rebuilt, Rows, Owner

\* What a flush stores is a row: the new one, if the old one is still there.
LEMMA StoredType ==
  ASSUME NEW saw \in Rows, NEW new \in Rows, NEW now \in Rows
  PROVE  Stored(saw, new, now) \in Rows /\ Stored(saw, new, saw) = new
<1>1. Stored(saw, new, now) \in Rows
  BY DEF Stored, Rows
<1>2. Stored(saw, new, saw) = new
  <2>1. CASE new = saw \/ new = Missing \/ saw = Missing
    BY <2>1 DEF Stored
  <2>2. CASE ~(new = saw \/ new = Missing \/ saw = Missing)
    <3>1. /\ [f \in Fields |-> IF new.val[f] # saw.val[f] THEN new.val[f] ELSE saw.val[f]] = new.val
          /\ (IF new.by # saw.by THEN new.by ELSE saw.by) = new.by
          /\ (IF new.owner # saw.owner THEN new.owner ELSE saw.owner) = new.owner
      BY DEF Rows
    <3>2. new = [val |-> new.val, by |-> new.by, owner |-> new.owner]
      BY DEF Rows
    <3> QED BY <2>2, <3>1, <3>2 DEF Stored
  <2> QED BY <2>1, <2>2
<1> QED BY <1>1, <1>2

\* A commit that saw a right row writes a right one.
LEMMA UpsertedShows ==
  ASSUME BornInv, NEW b \in Batches, NEW c \in 1 .. MaxSeq, NEW k \in KeysOf(b), k \in Keys,
         snapshot[k] \in Rows, Shown(k)
  PROVE  Shows(Upserted(CommitSeq(b, c), CommitBorn(b), active \cup {b}, k, snapshot[k], b),
               CommitSeq(b, c), CommitBorn(b), active \cup {b}, k)
<1> PICK s, i, A, old, new :
      /\ s = CommitSeq(b, c) /\ i = CommitBorn(b) /\ A = active \cup {b} /\ old = snapshot[k]
      /\ new = Upserted(s, i, A, k, old, b)
  OBVIOUS
<1>1. Decides(s, i, A) /\ Decides(seq, born, active)
  BY CommitDecides, ActiveDecides
<1>2. /\ new.val = Overlaid(s, i, A, k, old.val) /\ new.by = Strongest(s, i, OnKey(A, k))
      /\ new.owner = Adopted(k, old.owner, b)
  BY DEF Upserted
<1>3. ASSUME NEW f \in Fields PROVE new.val[f] = Strongest(s, i, OnField(A, k, f))
  <2>1. CASE OnField(A, k, f) = {}
    <3>1. OnField(active, k, f) = {}
      BY <2>1 DEF OnField
    <3>2. old.val[f] = None
      BY <3>1 DEF Shown, Shows, Strongest
    <3> QED BY <1>2, <2>1, <3>2 DEF Overlaid, Strongest
  <2>2. CASE OnField(A, k, f) # {}
    BY <1>2, <2>2 DEF Overlaid
  <2> QED BY <2>1, <2>2
<1>4. ASSUME k \in Contents PROVE OnKey(A, k) # {} /\ new.owner \in OnKey(A, k)
  <2>1. b \in OnKey(A, k) /\ OnKey(active, k) \subseteq OnKey(A, k)
    BY DEF OnKey
  <2>2. old.owner = None \/ old.owner \in OnKey(active, k)
    BY <1>4 DEF Shown, Shows
  <2> QED BY <1>2, <1>4, <2>1, <2>2 DEF Adopted
<1> QED BY <1>2, <1>3, <1>4 DEF Shows

\* So does a revocation or a deletion.
LEMMA RebuiltShows ==
  ASSUME BornInv, NEW b \in Batches, NEW k \in Keys, snapshot[k] \in Rows, Shown(k)
  PROVE  Shows(Rebuilt(seq, born, active \ {b}, k, snapshot[k], b), seq, born, active \ {b}, k)
<1> PICK A, old, new :
      /\ A = active \ {b} /\ old = snapshot[k] /\ new = Rebuilt(seq, born, A, k, old, b)
  OBVIOUS
<1>1. Decides(seq, born, A)
  BY ActiveDecides DEF Decides
<1>2. CASE OnKey(A, k) = {}
  <2>1. new = Missing /\ \A f \in Fields : OnField(A, k, f) = {}
    BY <1>2 DEF Rebuilt, OnKey, OnField, KeysOf
  <2> QED BY <1>2, <2>1 DEF Shows, Missing, Strongest
<1>3. CASE OnKey(A, k) # {}
  <2>1. /\ new.val = Recomputed(seq, born, A, k) /\ new.by = Strongest(seq, born, OnKey(A, k))
        /\ new.owner = Heir(seq, born, A, k, old.owner, b)
    BY <1>3 DEF Rebuilt
  <2>2. Strongest(seq, born, OnKey(A, k)) \in OnKey(A, k)
    BY <1>1, <1>3, Deciding, WinnerType
  <2>3. k \in Contents => old.owner \in OnKey(active, k)
    BY <1>3 DEF Shown, Shows, OnKey
  <2>4. k \in Contents => new.owner \in OnKey(A, k)
    BY <2>1, <2>2, <2>3 DEF Heir, OnKey
  <2> QED BY <1>3, <2>1, <2>4 DEF Shows, Recomputed
<1> QED BY <1>2, <1>3

------------------------------------------------------------------------------
(* The steps. *)

\* A request begins a transaction, or loads a row; or it ends without a write.
Opens(t) ==
  /\ UNCHANGED <<data, row, raced>> /\ tx[t].pc = "idle"
  /\ \E b \in Batches, op \in {"commit", "revoke", "delete", "resolve"} :
       /\ tx' = [tx EXCEPT ![t] = [Idle EXCEPT !.pc = "locked", !.op = op, !.b = b]]
       /\ op # "resolve" => ~Locked(b)
       /\ IF op = "commit" THEN account = None /\ account' = t /\ batch[b] = "preview_ready"
          ELSE account' = account
       /\ op = "revoke" => batch[b] = "committed"
Quits(t) ==
  /\ UNCHANGED <<data, raced>> /\ Close(t)
  /\ row' = row \/ row' = [row EXCEPT ![tx[t].b] = "ready"]
Writes(t) == Commit(t) \/ Revoke(t) \/ Delete(t)

\* Every step is one of four kinds.
LEMMA StepsAre ==
  ASSUME [Next]_vars
  PROVE  \/ UNCHANGED vars
         \/ \E t \in Requests : \/ Opens(t) \/ Quits(t) \/ Writes(t)
                                \/ \E clock \in 1 .. MaxSeq : Read(t, clock)
<1> SUFFICES ASSUME NEW t \in Requests,
                    \/ \E b \in Batches : \/ BeginCommit(t, b) \/ BeginRevoke(t, b)
                                         \/ BeginDelete(t, b) \/ LoadRow(t, b)
                    \/ Rollback(t) \/ Resolve(t) \/ ResolveGone(t)
             PROVE  Opens(t) \/ Quits(t)
  BY DEF Next, Writes
<1>1. ASSUME NEW b \in Batches, BeginCommit(t, b) PROVE Opens(t)
  BY <1>1 DEF BeginCommit, Opens, Open, Busy, Committable, AccountFree
<1>2. ASSUME NEW b \in Batches, BeginRevoke(t, b) PROVE Opens(t)
  BY <1>2 DEF BeginRevoke, Opens, Open, Busy
<1>3. ASSUME NEW b \in Batches, BeginDelete(t, b) PROVE Opens(t)
  BY <1>3 DEF BeginDelete, Opens, Open, Busy
<1>4. ASSUME NEW b \in Batches, LoadRow(t, b) PROVE Opens(t)
  BY <1>4 DEF LoadRow, Opens, Busy
<1>5. CASE Rollback(t)
  BY <1>5 DEF Rollback, Quits
<1>6. CASE Resolve(t)
  BY <1>6 DEF Resolve, Quits
<1>7. CASE ResolveGone(t)
  BY <1>7 DEF ResolveGone, Quits
<1> QED BY <1>1, <1>2, <1>3, <1>4, <1>5, <1>6, <1>7

\* A transaction that writes changes its own batch, and leaves the others.
LEMMA WritesOwn ==
  ASSUME Inv, NEW t \in Requests, Writes(t)
  PROVE  /\ Locks(t) /\ tx[t].pc = "read" /\ tx[t].b \in Batches /\ Close(t)
         /\ raced' = raced \cup Overlaps(t)
         /\ \A b \in Batches \ {tx[t].b} : batch'[b] = batch[b] /\ seq'[b] = seq[b] /\ born'[b] = born[b]
         /\ active' = IF tx[t].op = "commit" THEN active \cup {tx[t].b} ELSE active \ {tx[t].b}
<1>1. tx[t] \in Txs /\ TxOk(t)
  BY DEF Inv, LockInv
<1>2. tx[t].pc = "read" /\ tx[t].op \in {"commit", "revoke", "delete"}
  BY DEF Writes, Commit, Revoke, Delete, WriteRows
<1>3. Locks(t) /\ tx[t].b \in Batches
  BY <1>1, <1>2 DEF Txs, TxOk, Locks, Owner
<1>4. batch \in [Batches -> BatchStatuses] /\ seq \in [Batches -> 0 .. MaxSeq]
      /\ born \in [Batches -> 0 .. Cardinality(Batches)]
  BY DEF Inv, BornInv
<1>5. CASE Commit(t)
  BY <1>2, <1>3, <1>4, <1>5 DEF Commit, WriteRows
<1>6. CASE Revoke(t)
  BY <1>2, <1>3, <1>4, <1>6 DEF Revoke, WriteRows
<1>7. CASE Delete(t)
  BY <1>2, <1>3, <1>4, <1>7 DEF Delete
<1> QED BY <1>5, <1>6, <1>7 DEF Writes

\* The batches' part of the invariant.
LEMMA BornKept ==
  ASSUME Inv, [Next]_vars
  PROVE  BornInv'
<1>1. CASE UNCHANGED <<batch, seq, born, active>>
  BY <1>1 DEF Inv, BornInv, Ranked
<1>2. ASSUME NEW t \in Requests, Writes(t) PROVE BornInv'
  <2> PICK b : b = tx[t].b
    OBVIOUS
  <2>1. b \in Batches /\ tx[t].pc = "read" /\ TxOk(t) /\ BornInv
    BY <1>2, WritesOwn DEF Inv, LockInv
  <2>2. IsFiniteSet(Ranked) /\ Cardinality(Ranked) \in Nat
    BY BatchAssumption, FS_Subset, FS_CardinalityType DEF Ranked
  <2>3. CASE Commit(t)
    <3>1. /\ batch' = [batch EXCEPT ![b] = "committed"] /\ seq' = [seq EXCEPT ![b] = tx[t].pick]
          /\ born' = [born EXCEPT ![b] = NextId] /\ active' = active \cup {b}
      BY <2>3 DEF Commit
    <3>2. batch[b] = "preview_ready" /\ born[b] = 0 /\ tx[t].pick \in 1 .. MaxSeq
      BY <2>1, <2>3 DEF Commit, TxOk, BornInv
    <3>3. NextId = Cardinality(Ranked) + 1
      BY <2>2 DEF NextId, Ranked
    <3>4. Ranked' = Ranked \cup {b} /\ b \notin Ranked
      <4>1. NextId # 0 /\ born \in [Batches -> 0 .. Cardinality(Batches)]
        BY <2>1, <2>2, <3>3 DEF BornInv
      <4>2. \A z \in Batches : born'[z] # 0 <=> born[z] # 0 \/ z = b
        BY <2>1, <3>1, <4>1
      <4> QED BY <2>1, <3>2, <4>2 DEF Ranked
    <3>5. Cardinality(Ranked \cup {b}) = Cardinality(Ranked) + 1
      BY <2>2, <3>4, FS_AddElement
    <3>6. Cardinality(Ranked \cup {b}) <= Cardinality(Batches)
      BY <2>1, BatchAssumption, FS_Subset DEF Ranked
    <3>7. NextId \in 1 .. Cardinality(Batches) /\ Cardinality(Ranked)' = NextId
      BY <2>2, <3>3, <3>4, <3>5, <3>6, BatchCount
    <3>8. /\ batch' \in [Batches -> BatchStatuses] /\ seq' \in [Batches -> 0 .. MaxSeq]
          /\ born' \in [Batches -> 0 .. Cardinality(Batches)]
      BY <2>1, <3>1, <3>2, <3>7, BatchAssumption, BatchCount DEF BornInv, BatchStatuses
    <3>9. /\ active' = {a \in Batches : batch'[a] = "committed"} /\ active' \subseteq Ranked'
          /\ \A a \in Batches : batch'[a] = "preview_ready" => born'[a] = 0
      BY <2>1, <3>1, <3>4 DEF BornInv
    <3>10. \A a \in Batches : born'[a] <= Cardinality(Ranked)'
      BY <2>1, <2>2, <3>1, <3>3, <3>7, BatchCount DEF BornInv
    <3>11. ASSUME NEW a \in Ranked', NEW c \in Ranked', a # c PROVE born'[a] # born'[c]
      <4>1. \A z \in Batches : born'[z] = IF z = b THEN Cardinality(Ranked) + 1 ELSE born[z]
        BY <2>1, <3>1, <3>3 DEF BornInv
      <4>2. \A z \in Ranked : born[z] # Cardinality(Ranked) + 1 /\ z \in Batches
        BY <2>1, <2>2, BatchCount DEF BornInv, Ranked
      <4> QED BY <2>1, <3>4, <3>11, <4>1, <4>2 DEF BornInv
    <3> QED BY <3>8, <3>9, <3>10, <3>11 DEF BornInv
  <2>4. CASE Revoke(t) \/ Delete(t)
    <3>1. /\ UNCHANGED <<seq, born>> /\ active' = active \ {b}
          /\ \E status \in {"revoked", "deleted"} : batch' = [batch EXCEPT ![b] = status]
      BY <2>4 DEF Revoke, Delete
    <3>2. Ranked' = Ranked
      BY <3>1 DEF Ranked
    <3>3. batch' \in [Batches -> BatchStatuses]
      BY <2>1, <3>1 DEF BornInv, BatchStatuses
    <3>4. /\ active' = {a \in Batches : batch'[a] = "committed"}
          /\ \A a \in Batches : batch'[a] = "preview_ready" => born'[a] = 0
      BY <2>1, <3>1 DEF BornInv
    <3> QED BY <2>1, <3>1, <3>2, <3>3, <3>4 DEF BornInv
  <2> QED BY <1>2, <2>3, <2>4 DEF Writes
<1> QED BY <1>1, <1>2, StepsAre DEF Opens, Quits, Read, data, vars

\* What a read leaves in the transaction.
LEMMA ReadIs ==
  ASSUME Inv, NEW t \in Requests, NEW clock \in 1 .. MaxSeq, Read(t, clock)
  PROVE  /\ UNCHANGED <<data, row, account, raced>> /\ tx[t].pc = "locked" /\ Locks(t)
         /\ tx[t] \in Txs /\ tx[t].b \in Batches
         /\ tx'[t] \in Txs /\ tx' = [tx EXCEPT ![t] = tx'[t]]
         /\ tx'[t].pc = "read" /\ tx'[t].op = tx[t].op /\ tx'[t].b = tx[t].b
         /\ tx'[t].pick = clock /\ tx'[t].saw = snapshot
         /\ \A k \in Touched(t) : tx'[t].next[k] =
              IF tx[t].op = "commit"
              THEN Upserted(CommitSeq(tx[t].b, clock), CommitBorn(tx[t].b), Sight(t), k, snapshot[k], tx[t].b)
              ELSE Rebuilt(seq, born, Sight(t), k, snapshot[k], tx[t].b)
<1> PICK old, b : old = tx[t] /\ b = tx[t].b
  OBVIOUS
<1>1. /\ old \in Txs /\ TxOk(t) /\ tx \in [Requests -> Txs] /\ BornInv
      /\ snapshot \in [Keys -> Rows]
  BY DEF Inv, LockInv, ShownInv
<1>2. old.pc = "locked" /\ old.op \notin {"none", "resolve"} /\ b \in Batches
  BY <1>1 DEF Read, TxOk, Txs, Owner
<1>3. PICK next : /\ next = [k \in Keys |-> IF k \notin Touched(t) THEN snapshot[k]
                                        ELSE IF old.op = "commit"
                                        THEN Upserted(CommitSeq(b, clock), CommitBorn(b), Sight(t), k, snapshot[k], b)
                                        ELSE Rebuilt(seq, born, Sight(t), k, snapshot[k], b)]
  OBVIOUS
<1>4. tx' = [tx EXCEPT ![t] = [old EXCEPT !.pc = "read", !.saw = snapshot, !.pick = clock, !.next = next]]
  <2>1. CASE old.op = "commit"
    BY <1>3, <2>1 DEF Read, CommitSeq, CommitBorn
  <2>2. CASE old.op # "commit"
    BY <1>3, <2>2 DEF Read
  <2> QED BY <2>1, <2>2
<1>5. next \in [Keys -> Rows]
  <2>1. CASE old.op = "commit"
    <3>1. Decides(CommitSeq(b, clock), CommitBorn(b), Sight(t))
      BY <1>1, <1>2, <2>1, CommitDecides DEF Sight
    <3>2. \A k \in Keys :
            Upserted(CommitSeq(b, clock), CommitBorn(b), Sight(t), k, snapshot[k], b) \in Rows
      BY <1>1, <1>2, <3>1, UpsertedType
    <3> QED BY <1>1, <1>3, <2>1, <3>2
  <2>2. CASE old.op # "commit"
    <3>1. Decides(seq, born, Sight(t))
      BY <1>1, <2>2, ActiveDecides DEF Sight, Decides
    <3>2. \A k \in Keys : Rebuilt(seq, born, Sight(t), k, snapshot[k], b) \in Rows
      BY <1>1, <1>2, <3>1, RebuiltType
    <3> QED BY <1>1, <1>3, <2>2, <3>2
  <2> QED BY <2>1, <2>2
<1> PICK new : new = [old EXCEPT !.pc = "read", !.saw = snapshot, !.pick = clock, !.next = next]
  OBVIOUS
<1>6. /\ new \in Txs /\ new.pc = "read" /\ new.op = old.op /\ new.b = b
      /\ new.pick = clock /\ new.saw = snapshot /\ new.next = next
  BY <1>1, <1>5 DEF Txs
<1>7. tx' = [tx EXCEPT ![t] = new] /\ tx'[t] = new
  BY <1>1, <1>4
<1>8. UNCHANGED <<data, row, account, raced>> /\ Locks(t) /\ Touched(t) \subseteq Keys
  BY <1>2, BatchAssumption DEF Read, Locks, Touched, KeysOf
<1> QED BY <1>1, <1>2, <1>3, <1>6, <1>7, <1>8

\* The locks' part of the invariant.
LEMMA LocksKept ==
  ASSUME Inv, [Next]_vars
  PROVE  LockInv'
<1>0. /\ tx \in [Requests -> Txs] /\ account \in Requests \cup {None} /\ BornInv
      /\ \A t \in Requests : TxOk(t)
      /\ \A t, u \in Requests : t # u /\ Locks(t) /\ Locks(u) => tx[t].b # tx[u].b
  BY DEF Inv, LockInv
<1>1. ASSUME UNCHANGED <<tx, account, batch>> PROVE LockInv'
  BY <1>0, <1>1 DEF LockInv, TxOk, Locks
<1>2. ASSUME NEW t \in Requests, NEW new \in Txs, tx' = [tx EXCEPT ![t] = new],
             account' \in Requests \cup {None}, account' = account \/ account \in {None, t},
             \A u \in Requests \ {t} : Locks(u) => batch'[tx[u].b] = batch[tx[u].b],
             TxOk(t)', Locks(t)' => \A u \in Requests \ {t} : Locks(u) => tx[u].b # new.b
      PROVE  LockInv'
  <2>1. tx' \in [Requests -> Txs] /\ tx'[t] = new /\ \A u \in Requests \ {t} : tx'[u] = tx[u]
    BY <1>0, <1>2
  <2>2. ASSUME NEW u \in Requests \ {t} PROVE TxOk(u)'
    <3>1. TxOk(u) /\ tx'[u] = tx[u]
      BY <1>0, <2>1
    <3>2. CASE tx[u].op = "commit"
      <4>1. account = u /\ u # None /\ u # t
        BY <3>1, <3>2, BatchAssumption DEF TxOk
      <4>2. account' = u /\ batch'[tx[u].b] = batch[tx[u].b]
        BY <1>2, <3>2, <4>1 DEF Locks
      <4> QED BY <3>1, <3>2, <4>2 DEF TxOk
    <3>3. CASE tx[u].op = "revoke"
      BY <1>2, <3>1, <3>3 DEF TxOk, Locks
    <3>4. CASE tx[u].op \notin {"commit", "revoke"}
      BY <3>1, <3>4 DEF TxOk
    <3> QED BY <3>2, <3>3, <3>4
  <2>3. \A u \in Requests \ {t} : Locks(u)' <=> Locks(u)
    BY <2>1 DEF Locks
  <2>4. \A u, v \in Requests : u # v /\ Locks(u)' /\ Locks(v)' => tx'[u].b # tx'[v].b
    BY <1>0, <1>2, <2>1, <2>3
  <2> QED BY <1>2, <2>1, <2>2, <2>4 DEF LockInv
<1>3. ASSUME NEW t \in Requests, Close(t),
             \A u \in Requests \ {t} : Locks(u) => batch'[tx[u].b] = batch[tx[u].b]
      PROVE  LockInv'
  <2> PICK new : new = Idle
    OBVIOUS
  <2>1. new \in Txs /\ new.pc = "idle" /\ new.op = "none" /\ new.b = None
    BY RebuiltType, BatchAssumption DEF Idle, Txs, Owner, Missing, Rows
  <2>2. tx' = [tx EXCEPT ![t] = new] /\ account' = IF account = t THEN None ELSE account
    BY <1>3 DEF Close, Unlock
  <2>3. TxOk(t)' /\ ~Locks(t)'
    BY <1>0, <2>1, <2>2 DEF TxOk, Locks
  <2> QED BY <1>0, <1>2, <1>3, <2>1, <2>2, <2>3
<1>4. ASSUME NEW t \in Requests, Opens(t) PROVE LockInv'
  <2>1. PICK b \in Batches, op \in {"commit", "revoke", "delete", "resolve"} :
       /\ tx' = [tx EXCEPT ![t] = [Idle EXCEPT !.pc = "locked", !.op = op, !.b = b]]
       /\ op # "resolve" => ~Locked(b)
       /\ IF op = "commit" THEN account = None /\ account' = t /\ batch[b] = "preview_ready"
          ELSE account' = account
       /\ op = "revoke" => batch[b] = "committed"
    BY <1>4 DEF Opens
  <2> PICK new : new = [Idle EXCEPT !.pc = "locked", !.op = op, !.b = b]
    OBVIOUS
  <2>2. new \in Txs /\ new.pc = "locked" /\ new.op = op /\ new.b = b
    BY RebuiltType DEF Idle, Txs, Owner, Missing, Rows
  <2>3. tx' = [tx EXCEPT ![t] = new] /\ tx'[t] = new /\ batch' = batch
    BY <1>0, <1>4, <2>1 DEF Opens, data
  <2>4. TxOk(t)'
    BY <2>1, <2>2, <2>3, BatchAssumption DEF TxOk
  <2>5. op # "resolve" => \A u \in Requests : Locks(u) => tx[u].b # b
    BY <2>1 DEF Locked, Locks
  <2>6. Locks(t)' => \A u \in Requests \ {t} : Locks(u) => tx[u].b # new.b
    BY <2>2, <2>3, <2>5 DEF Locks
  <2>7. account' \in Requests \cup {None} /\ (account' = account \/ account \in {None, t})
    BY <1>0, <2>1
  <2>8. \A u \in Requests \ {t} : Locks(u) => batch'[tx[u].b] = batch[tx[u].b]
    BY <2>3
  <2> QED BY <1>2, <2>2, <2>3, <2>4, <2>6, <2>7, <2>8
<1>5. ASSUME NEW t \in Requests, Quits(t) PROVE LockInv'
  BY <1>3, <1>5 DEF Quits, data
<1>6. ASSUME NEW t \in Requests, NEW clock \in 1 .. MaxSeq, Read(t, clock) PROVE LockInv'
  <2> PICK new : new = tx'[t]
    OBVIOUS
  <2>1. /\ new \in Txs /\ tx' = [tx EXCEPT ![t] = new] /\ account' = account /\ batch' = batch
        /\ new.pc = "read" /\ new.op = tx[t].op /\ new.b = tx[t].b /\ new.pick = clock
        /\ Locks(t) /\ tx[t].pc = "locked"
    BY <1>6, ReadIs DEF data
  <2>2. TxOk(t)'
    BY <1>0, <2>1 DEF TxOk, Locks
  <2>3. Locks(t)' => \A u \in Requests \ {t} : Locks(u) => tx[u].b # new.b
    BY <1>0, <2>1
  <2>4. account' \in Requests \cup {None} /\ (account' = account \/ account \in {None, t})
    BY <1>0, <2>1
  <2>5. \A u \in Requests \ {t} : Locks(u) => batch'[tx[u].b] = batch[tx[u].b]
    BY <2>1
  <2> QED BY <1>2, <2>1, <2>2, <2>3, <2>4, <2>5
<1>7. ASSUME NEW t \in Requests, Writes(t) PROVE LockInv'
  <2>1. Locks(t) /\ tx[t].b \in Batches /\ Close(t)
        /\ \A b \in Batches \ {tx[t].b} : batch'[b] = batch[b]
    BY <1>7, WritesOwn
  <2>2. ASSUME NEW u \in Requests \ {t}, Locks(u) PROVE batch'[tx[u].b] = batch[tx[u].b]
    <3>1. tx[u].b # tx[t].b /\ tx[u].b \in Batches
      BY <1>0, <2>1, <2>2 DEF TxOk, Locks, Txs, Owner
    <3> QED BY <2>1, <3>1
  <2> QED BY <1>3, <2>1, <2>2
<1> QED BY <1>1, <1>4, <1>5, <1>6, <1>7, StepsAre DEF vars

\* What a request sees of the observations decides between them.
LEMMA PlanDecides ==
  ASSUME Inv, NEW t \in Requests, tx[t].pc = "read"
  PROVE  Decides(SeqOf(t), BornOf(t), Sight(t))
<1>1. TxOk(t) /\ tx[t] \in Txs /\ BornInv
  BY DEF Inv, LockInv
<1>2. tx[t].b \in Batches /\ tx[t].pick \in 1 .. MaxSeq
  BY <1>1 DEF TxOk, Txs, Owner
<1>3. CASE tx[t].op = "commit"
  BY <1>1, <1>2, <1>3, CommitDecides DEF SeqOf, BornOf, Sight, CommitSeq, CommitBorn
<1>4. CASE tx[t].op # "commit"
  BY <1>1, <1>4, ActiveDecides DEF SeqOf, BornOf, Sight, Decides
<1> QED BY <1>3, <1>4

\* What it has just read leads to right rows.
LEMMA ReadPlans ==
  ASSUME Inv, NEW t \in Requests, NEW clock \in 1 .. MaxSeq, Read(t, clock),
         NEW k \in Touched(t)' \ raced'
  PROVE  Planned(t, k)'
<1> PICK b : b = tx[t].b
  OBVIOUS
<1>1. /\ UNCHANGED <<data, row, account, raced>> /\ b \in Batches
      /\ tx'[t].op = tx[t].op /\ tx'[t].b = b /\ tx'[t].pick = clock /\ tx'[t].saw = snapshot
  BY ReadIs
<1>2. Touched(t)' = Touched(t) /\ Sight(t)' = Sight(t)
  BY <1>1 DEF Touched, Rebuilds, Sight, data
<1>3. k \in Keys /\ k \in Touched(t) /\ k \notin raced /\ k \in KeysOf(b)
  BY <1>1, <1>2, BatchAssumption DEF Touched, KeysOf
<1>4. Shown(k) /\ BornInv /\ snapshot[k] \in Rows
  BY <1>3 DEF Inv, ShownInv
<1>5. CASE tx[t].op = "commit"
  <2>1. /\ SeqOf(t)' = CommitSeq(b, clock) /\ BornOf(t)' = CommitBorn(b)
        /\ Sight(t) = active \cup {b}
    BY <1>1, <1>5 DEF SeqOf, BornOf, CommitSeq, CommitBorn, Sight, data
  <2>2. tx'[t].next[k] = Upserted(CommitSeq(b, clock), CommitBorn(b), active \cup {b}, k, snapshot[k], b)
    BY <1>3, <1>5, <2>1, ReadIs
  <2>3. Shows(tx'[t].next[k], CommitSeq(b, clock), CommitBorn(b), active \cup {b}, k)
    BY <1>1, <1>3, <1>4, <2>2, UpsertedShows
  <2> QED BY <1>1, <1>2, <2>1, <2>3 DEF Planned, Shows, data
<1>6. CASE tx[t].op # "commit"
  <2>1. SeqOf(t)' = seq /\ BornOf(t)' = born /\ Sight(t) = active \ {b}
    BY <1>1, <1>6 DEF SeqOf, BornOf, Sight, data
  <2>2. tx'[t].next[k] = Rebuilt(seq, born, active \ {b}, k, snapshot[k], b)
    <3>1. tx'[t].next[k] = Rebuilt(seq, born, Sight(t), k, snapshot[k], tx[t].b)
      BY <1>3, <1>6, ReadIs
    <3> QED BY <2>1, <3>1
  <2>3. Shows(tx'[t].next[k], seq, born, active \ {b}, k)
    BY <1>1, <1>3, <1>4, <2>2, RebuiltShows
  <2> QED BY <1>1, <1>2, <2>1, <2>3 DEF Planned, Shows, data
<1> QED BY <1>5, <1>6

\* A write stores what was planned, on a key that nobody raced on.
LEMMA WriteStores ==
  ASSUME Inv, NEW t \in Requests, Writes(t), NEW k \in Keys \ raced
  PROVE  snapshot'[k] = IF k \in Touched(t) THEN tx[t].next[k] ELSE snapshot[k]
<1> PICK b : b = tx[t].b
  OBVIOUS
<1>0. /\ BornInv /\ tx[t] \in Txs /\ snapshot \in [Keys -> Rows] /\ Shown(k) /\ tx[t].pc = "read"
      /\ b \in Batches
      /\ k \in Touched(t) => Planned(t, k)
  BY WritesOwn DEF Inv, LockInv, ShownInv
<1>1. Result(t, k) = IF k \in Touched(t) THEN tx[t].next[k] ELSE snapshot[k]
  <2>1. CASE k \in Touched(t)
    <3>1. tx[t].saw[k] = snapshot[k] /\ tx[t].next[k] \in Rows /\ snapshot[k] \in Rows
      BY <1>0, <2>1 DEF Planned, Txs
    <3> QED BY <2>1, <3>1, StoredType DEF Result
  <2>2. CASE k \notin Touched(t)
    BY <2>2 DEF Result
  <2> QED BY <2>1, <2>2
<1>2. CASE Commit(t) \/ Revoke(t)
  BY <1>1, <1>2 DEF Commit, Revoke, WriteRows
<1>3. CASE Delete(t)
  <2>1. tx[t].op = "delete"
    BY <1>3 DEF Delete
  <2>2. Result(t, k).by # b
    <3>1. CASE k \in Touched(t)
      <4>1. Result(t, k).by = Strongest(SeqOf(t), BornOf(t), OnKey(Sight(t), k))
        BY <1>0, <1>1, <3>1 DEF Planned, Shows
      <4>2. Decides(SeqOf(t), BornOf(t), OnKey(Sight(t), k)) /\ b \notin OnKey(Sight(t), k)
        <5>1. Sight(t) = active \ {b}
          BY <2>1 DEF Sight
        <5>2. Decides(SeqOf(t), BornOf(t), OnKey(Sight(t), k))
          BY <1>0, PlanDecides, Deciding
        <5> QED BY <5>1, <5>2 DEF OnKey
      <4> QED BY <1>0, <4>1, <4>2, WinnerType, BatchAssumption
    <3>2. CASE k \notin Touched(t)
      <4>1. Result(t, k).by = Strongest(seq, born, OnKey(active, k))
        BY <1>1, <1>0, <3>2 DEF Shown, Shows
      <4>2. b \notin OnKey(active, k)
        BY <1>0, <2>1, <3>2 DEF Touched, Rebuilds, OnKey, BornInv
      <4>3. Decides(seq, born, OnKey(active, k))
        BY <1>0, ActiveDecides, Deciding
      <4> QED BY <1>0, <4>1, <4>2, <4>3, WinnerType, BatchAssumption
    <3> QED BY <3>1, <3>2
  <2>3. snapshot'[k] = Result(t, k)
    BY <1>3, <2>2 DEF Delete
  <2> QED BY <1>1, <2>3
<1> QED BY <1>2, <1>3 DEF Writes

\* It leaves the observations of keys that it does not write.
LEMMA WriteLeaves ==
  ASSUME Inv, NEW t \in Requests, Writes(t), NEW k \in Keys, k \notin Touched(t)
  PROVE  /\ \A X : OnKey(active' \cup X, k) = OnKey(active \cup X, k)
         /\ \A X : OnKey(active' \ X, k) = OnKey(active \ X, k)
         /\ tx[t].b \notin OnKey(active, k)
         /\ tx[t].op = "commit" => k \notin KeysOf(tx[t].b)
<1> PICK b : b = tx[t].b
  OBVIOUS
<1>1. /\ active' = IF tx[t].op = "commit" THEN active \cup {b} ELSE active \ {b}
      /\ b \in Batches /\ BornInv
  BY WritesOwn DEF Inv
<1>2. tx[t].op \in {"commit", "revoke", "delete"}
  BY DEF Writes, Commit, Revoke, Delete
<1>3. k \in KeysOf(b) => b \notin active /\ tx[t].op = "delete"
  BY <1>1, <1>2 DEF Touched, Rebuilds, BornInv
<1> QED BY <1>1, <1>2, <1>3 DEF OnKey

\* A row that the write does not touch stays right.
LEMMA UntouchedStay ==
  ASSUME Inv, BornInv', NEW t \in Requests, Writes(t), NEW k \in Keys \ raced, k \notin Touched(t)
  PROVE  Shown(k)'
<1>1. Shown(k) /\ BornInv /\ snapshot'[k] = snapshot[k]
  BY WriteStores DEF Inv, ShownInv
<1>2. OnKey(active', k) = OnKey(active, k) /\ tx[t].b \notin OnKey(active, k)
  <2>1. OnKey(active' \cup {}, k) = OnKey(active \cup {}, k)
    BY WriteLeaves
  <2>2. active' \cup {} = active' /\ active \cup {} = active
    OBVIOUS
  <2> QED BY <2>1, <2>2, WriteLeaves
<1>3. Decides(seq, born, OnKey(active, k)) /\ Decides(seq', born', OnKey(active', k))
  <2>1. Decides(seq, born, active) /\ Decides(seq', born', active')
    BY <1>1, ActiveDecides, ActiveDecideThen
  <2> QED BY <2>1, Deciding
<1>4. \A a \in OnKey(active, k) : seq'[a] = seq[a] /\ born'[a] = born[a]
  BY <1>1, <1>2, WritesOwn DEF OnKey, BornInv
<1>5. \A a, c \in OnKey(active, k) : Above(seq, born, a, c) <=> Above(seq', born', a, c)
  BY <1>4 DEF Above
<1>6. Shows(snapshot[k], seq', born', active', k)
  BY <1>1, <1>2, <1>3, <1>5, ShowsSame DEF Shown
<1> QED BY <1>1, <1>6 DEF Shown, Shows

\* A row that it writes is right afterwards.
LEMMA TouchedAreRight ==
  ASSUME Inv, BornInv', NEW t \in Requests, Writes(t), NEW k \in Keys \ raced, k \in Touched(t)
  PROVE  Shown(k)'
<1> PICK b : b = tx[t].b
  OBVIOUS
<1>1. /\ Planned(t, k) /\ BornInv /\ tx[t].pc = "read" /\ b \in Batches
      /\ snapshot'[k] = tx[t].next[k] /\ active' = Sight(t)
  BY WriteStores, WritesOwn DEF Inv, ShownInv, Sight
<1>2. Shows(snapshot'[k], SeqOf(t), BornOf(t), active', k)
  BY <1>1 DEF Planned
<1>3. Decides(SeqOf(t), BornOf(t), active') /\ Decides(seq', born', active')
  BY <1>1, PlanDecides, ActiveDecideThen
<1>4. \A x, y \in active' : Above(SeqOf(t), BornOf(t), x, y) <=> Above(seq', born', x, y)
  <2>1. CASE Commit(t)
    <3>1. /\ SeqOf(t) = seq' /\ born' = [born EXCEPT ![b] = NextId] /\ active' = active \cup {b}
          /\ BornOf(t) = [born EXCEPT ![b] = Cardinality(Batches) + 1] /\ batch[b] = "preview_ready"
      BY <2>1 DEF Commit, SeqOf, BornOf, Inv, LockInv, TxOk
    <3>2. /\ born \in [Batches -> 0 .. Cardinality(Batches)] /\ active \subseteq Batches
          /\ \A a \in Batches : born[a] <= Cardinality(Ranked)
      BY <1>1 DEF BornInv
    <3>3. b \notin active
      BY <1>1, <3>1 DEF BornInv
    <3>4. NextId = Cardinality(Ranked) + 1 /\ Cardinality(Ranked) \in Nat
      <4>1. IsFiniteSet(Ranked) /\ Cardinality(Ranked) \in Nat
        BY BatchAssumption, FS_Subset, FS_CardinalityType DEF Ranked
      <4> QED BY <4>1 DEF NextId, Ranked
    <3>5. \A a \in active : /\ BornOf(t)[a] = born[a] /\ born'[a] = born[a]
                            /\ born[a] \in Nat /\ born[a] < born'[b] /\ born[a] < BornOf(t)[b]
      <4> TAKE a \in active
      <4>1. BornOf(t)[a] = born[a] /\ born'[a] = born[a] /\ born'[b] = NextId
            /\ BornOf(t)[b] = Cardinality(Batches) + 1
        BY <1>1, <3>1, <3>2, <3>3
      <4>2. born[a] \in 0 .. Cardinality(Batches) /\ born[a] <= Cardinality(Ranked)
        BY <3>2
      <4> QED BY <4>1, <4>2, <3>4, BatchCount
    <3>6. born'[b] \in Nat /\ BornOf(t)[b] \in Nat
      BY <1>1, <3>1, <3>2, <3>4, BatchCount
    <3>7. ASSUME NEW x \in active', NEW y \in active'
          PROVE  BornOf(t)[x] > BornOf(t)[y] <=> born'[x] > born'[y]
      <4>1. (x = b \/ x \in active) /\ (y = b \/ y \in active)
        BY <3>1
      <4> QED BY <4>1, <3>5, <3>6
    <3> HIDE DEF SeqOf, BornOf
    <3> QED BY <3>1, <3>7 DEF Above
  <2>2. CASE Revoke(t) \/ Delete(t)
    <3>1. SeqOf(t) = seq' /\ BornOf(t) = born'
      BY <2>2 DEF Revoke, Delete, SeqOf, BornOf
    <3> QED BY <3>1
  <2> QED BY <2>1, <2>2 DEF Writes
<1>5. Shows(snapshot'[k], seq', born', active', k)
  <2>1. /\ Decides(SeqOf(t), BornOf(t), OnKey(active', k)) /\ Decides(seq', born', OnKey(active', k))
        /\ OnKey(active', k) \subseteq active'
    BY <1>3, Deciding DEF OnKey
  <2> QED BY <1>2, <1>4, <2>1, ShowsSame
<1> QED BY <1>5 DEF Shown, Shows

\* Nor does it disturb what another transaction has planned, unless the key becomes raced.
LEMMA PlansStay ==
  ASSUME Inv, BornInv', LockInv', NEW t \in Requests, Writes(t), NEW u \in Requests \ {t},
         tx[u].pc = "read", NEW k \in Touched(u)' \ raced'
  PROVE  Planned(u, k)'
<1> PICK b, c : b = tx[t].b /\ c = tx[u].b
  OBVIOUS
<1>1. /\ TxOk(t) /\ TxOk(u) /\ tx[u] \in Txs /\ tx \in [Requests -> Txs] /\ BornInv
      /\ b \in Batches /\ Locks(t) /\ Close(t) /\ tx[t].pc = "read"
  BY WritesOwn DEF Inv, LockInv
<1>2. c \in Batches /\ Locks(u) /\ c # b
  BY <1>1 DEF TxOk, Txs, Owner, Locks, Inv, LockInv
<1>3. tx'[u] = tx[u] /\ batch'[c] = batch[c] /\ seq'[c] = seq[c] /\ born'[c] = born[c]
  BY <1>1, <1>2, WritesOwn DEF Close
<1>4. Touched(u)' = Touched(u)
  BY <1>3 DEF Touched, Rebuilds
<1>5. k \in Touched(u) /\ k \in Keys \ raced /\ k \in KeysOf(c) /\ k \notin Overlaps(t)
  <2>1. k \in Touched(u) /\ k \notin raced /\ k \notin Overlaps(t)
    BY <1>4, WritesOwn
  <2>2. k \in KeysOf(c)
    BY <2>1 DEF Touched
  <2>3. KeysOf(c) \subseteq Keys
    BY <1>2, BatchAssumption DEF KeysOf
  <2> QED BY <2>1, <2>2, <2>3
<1>6. k \notin Touched(t)
  <2> SUFFICES ASSUME k \in Touched(t) PROVE FALSE
    OBVIOUS
  <2>1. ~Rebuilds(t) /\ ~Rebuilds(u)
    BY <1>5 DEF Overlaps
  <2>2. tx[t].op = "commit" /\ tx[u].op = "commit"
    BY <1>5, <2>1 DEF Touched
  <2> QED BY <1>1, <2>2 DEF TxOk
<1>7. Planned(u, k) /\ snapshot'[k] = snapshot[k]
  BY <1>5, <1>6, WriteStores DEF Inv, ShownInv
<1> PICK s, i, A : s = SeqOf(u) /\ i = BornOf(u) /\ A = Sight(u)
  OBVIOUS
<1> PICK z, j, B : z = SeqOf(u)' /\ j = BornOf(u)' /\ B = Sight(u)'
  OBVIOUS
<1>8. OnKey(A, k) = OnKey(B, k) /\ b \notin OnKey(A, k)
  <2>1. A = (IF tx[u].op = "commit" THEN active \cup {c} ELSE active \ {c})
        /\ B = (IF tx[u].op = "commit" THEN active' \cup {c} ELSE active' \ {c})
    BY <1>3 DEF Sight
  <2>2. /\ OnKey(active' \cup {c}, k) = OnKey(active \cup {c}, k)
        /\ OnKey(active' \ {c}, k) = OnKey(active \ {c}, k)
        /\ b \notin OnKey(active, k)
    BY <1>5, <1>6, WriteLeaves
  <2> QED BY <1>2, <2>1, <2>2 DEF OnKey
<1>9. Decides(s, i, OnKey(A, k)) /\ Decides(z, j, OnKey(A, k))
  <2>1. Decides(s, i, A)
    BY PlanDecides
  <2>2. Decides(z, j, B)
    <3>1. TxOk(u)' /\ tx'[u].pc = "read" /\ tx'[u].b = c /\ tx'[u].pick \in 1 .. MaxSeq
      BY <1>1, <1>3 DEF LockInv, TxOk
    <3>2. Decides(seq', born', active') /\ born' \in [Batches -> 0 .. Cardinality(Batches)]
      BY ActiveDecideThen DEF BornInv
    <3>3. CASE tx[u].op = "commit"
      <4>1. /\ z = [seq' EXCEPT ![c] = tx'[u].pick]
            /\ j = [born' EXCEPT ![c] = Cardinality(Batches) + 1] /\ B = active' \cup {c}
        BY <1>3, <3>3 DEF SeqOf, BornOf, Sight
      <4> PICK pick \in 1 .. MaxSeq : pick = tx'[u].pick
        BY <3>1
      <4>2. Decides([seq' EXCEPT ![c] = pick], [born' EXCEPT ![c] = Cardinality(Batches) + 1],
                    active' \cup {c})
        BY <1>2, <3>2, AddDecides
      <4> QED BY <4>1, <4>2
    <3>4. CASE tx[u].op # "commit"
      <4>1. z = seq' /\ j = born' /\ B = active' \ {c}
        BY <1>3, <3>4 DEF SeqOf, BornOf, Sight
      <4> QED BY <3>2, <4>1 DEF Decides
    <3> QED BY <3>3, <3>4
  <2> QED BY <1>8, <2>1, <2>2, Deciding
<1>10. \A a \in OnKey(A, k) : s[a] = z[a] /\ i[a] = j[a]
  <2> TAKE a \in OnKey(A, k)
  <2>1. a \in Batches /\ a # b
    BY <1>1, <1>2, <1>8 DEF OnKey, Sight, BornInv
  <2>2. seq'[a] = seq[a] /\ born'[a] = born[a]
    BY <2>1, WritesOwn
  <2>3. seq \in [Batches -> 0 .. MaxSeq] /\ born \in [Batches -> 0 .. Cardinality(Batches)]
        /\ seq' \in [Batches -> 0 .. MaxSeq] /\ born' \in [Batches -> 0 .. Cardinality(Batches)]
    BY <1>1 DEF BornInv
  <2> QED BY <1>2, <1>3, <2>1, <2>2, <2>3 DEF SeqOf, BornOf
<1>11. \A x, y \in OnKey(A, k) : Above(s, i, x, y) <=> Above(z, j, x, y)
  BY <1>10 DEF Above
<1>12. Shows(tx[u].next[k], z, j, B, k)
  BY <1>5, <1>7, <1>8, <1>9, <1>11, ShowsSame DEF Planned
<1> QED BY <1>3, <1>7, <1>12 DEF Planned, Shows

\* The rows and the raced keys.
LEMMA RowTypesKept ==
  ASSUME Inv, [Next]_vars
  PROVE  snapshot' \in [Keys -> Rows] /\ raced' \subseteq Keys /\ row' \in [Batches -> RowStatuses]
<1>0. /\ snapshot \in [Keys -> Rows] /\ raced \subseteq Keys /\ row \in [Batches -> RowStatuses]
      /\ \A t \in Requests : tx[t] \in Txs /\ TxOk(t)
  BY DEF Inv, LockInv, ShownInv
<1>1. ASSUME NEW t \in Requests, Writes(t)
      PROVE  snapshot' \in [Keys -> Rows] /\ raced' \subseteq Keys /\ row' \in [Batches -> RowStatuses]
  <2>1. \A k \in Keys : Result(t, k) \in Rows
    <3> TAKE k \in Keys
    <3>1. tx[t].saw[k] \in Rows /\ tx[t].next[k] \in Rows /\ snapshot[k] \in Rows
      BY <1>0 DEF Txs
    <3> QED BY <3>1, StoredType DEF Result
  <2>2. Missing \in Rows
    BY DEF Missing, Rows
  <2>3. snapshot' \in [Keys -> Rows]
    BY <1>1, <2>1, <2>2 DEF Writes, Commit, Revoke, Delete, WriteRows
  <2>4. tx[t].b \in Batches
    BY <1>1, WritesOwn
  <2>5. Touched(t) \subseteq Keys
    BY <2>4, BatchAssumption DEF Touched, KeysOf
  <2>6. Overlaps(t) \subseteq Keys
    BY <2>5 DEF Overlaps
  <2>7. raced' \subseteq Keys
    BY <1>0, <1>1, <2>6, WritesOwn
  <2>8. row' \in [Batches -> RowStatuses]
    BY <1>0, <1>1, <2>4 DEF Writes, Commit, Revoke, Delete, RowStatuses
  <2> QED BY <2>3, <2>7, <2>8
<1>2. ASSUME NEW t \in Requests, Quits(t) PROVE row' \in [Batches -> RowStatuses]
  BY <1>0, <1>2 DEF Quits, RowStatuses
<1> QED BY <1>0, <1>1, <1>2, StepsAre DEF Opens, Quits, Read, data, vars

\* The rows' part of the invariant.
LEMMA ShownKept ==
  ASSUME Inv, [Next]_vars
  PROVE  ShownInv'
<1>0. /\ \A k \in Keys \ raced : Shown(k)
      /\ \A t \in Requests : \A k \in Touched(t) \ raced : tx[t].pc = "read" => Planned(t, k)
      /\ tx \in [Requests -> Txs] /\ BornInv' /\ LockInv'
  BY BornKept, LocksKept DEF Inv, ShownInv, LockInv
<1>1. ASSUME UNCHANGED data, raced' = raced, NEW k \in Keys \ raced PROVE Shown(k)'
  BY <1>0, <1>1 DEF Shown, Shows, data
<1>2. ASSUME UNCHANGED data, raced' = raced, NEW u \in Requests, tx'[u] = tx[u], tx[u].pc = "read",
             NEW k \in Touched(u)' \ raced'
      PROVE  Planned(u, k)'
  <2>1. Touched(u)' = Touched(u) /\ Sight(u)' = Sight(u) /\ SeqOf(u)' = SeqOf(u)
        /\ BornOf(u)' = BornOf(u) /\ snapshot' = snapshot
    BY <1>2 DEF Touched, Rebuilds, Sight, SeqOf, BornOf, data
  <2>2. Planned(u, k)
    BY <1>0, <1>2, <2>1
  <2> QED BY <1>2, <2>1, <2>2 DEF Planned, Shows
<1>3. ASSUME UNCHANGED data, raced' = raced, NEW t \in Requests,
             \A u \in Requests \ {t} : tx'[u] = tx[u],
             tx'[t].pc = "read" => \A k \in Touched(t)' \ raced' : Planned(t, k)'
      PROVE  ShownInv'
  <2>1. \A k \in Keys \ raced' : Shown(k)'
    BY <1>1, <1>3
  <2>2. ASSUME NEW u \in Requests, NEW k \in Touched(u)' \ raced', tx'[u].pc = "read"
        PROVE  Planned(u, k)'
    <3>1. CASE u = t
      BY <1>3, <2>2, <3>1
    <3>2. CASE u # t
      BY <1>2, <1>3, <2>2, <3>2
    <3> QED BY <3>1, <3>2
  <2> QED BY <2>1, <2>2, RowTypesKept DEF ShownInv
<1>4. ASSUME NEW t \in Requests, Opens(t) PROVE ShownInv'
  <2>1. /\ UNCHANGED data /\ raced' = raced /\ \A u \in Requests \ {t} : tx'[u] = tx[u]
        /\ tx'[t].pc # "read"
    BY <1>0, <1>4 DEF Opens, Idle
  <2> QED BY <1>3, <2>1
<1>5. ASSUME NEW t \in Requests, Quits(t) PROVE ShownInv'
  <2>1. /\ UNCHANGED data /\ raced' = raced /\ \A u \in Requests \ {t} : tx'[u] = tx[u]
        /\ tx'[t].pc # "read"
    BY <1>0, <1>5 DEF Quits, Close, Idle
  <2> QED BY <1>3, <2>1
<1>6. ASSUME NEW t \in Requests, NEW clock \in 1 .. MaxSeq, Read(t, clock) PROVE ShownInv'
  <2>1. /\ UNCHANGED data /\ raced' = raced /\ tx' = [tx EXCEPT ![t] = tx'[t]]
    BY <1>6, ReadIs
  <2>2. \A u \in Requests \ {t} : tx'[u] = tx[u]
    BY <1>0, <2>1
  <2>3. \A k \in Touched(t)' \ raced' : Planned(t, k)'
    BY <1>6, ReadPlans
  <2> QED BY <1>3, <2>1, <2>2, <2>3
<1>7. ASSUME NEW t \in Requests, Writes(t) PROVE ShownInv'
  <2>1. raced \subseteq raced' /\ Close(t)
    BY <1>7, WritesOwn
  <2>2. \A k \in Keys \ raced' : Shown(k)'
    BY <1>0, <1>7, <2>1, UntouchedStay, TouchedAreRight
  <2>3. ASSUME NEW u \in Requests, NEW k \in Touched(u)' \ raced', tx'[u].pc = "read"
        PROVE  Planned(u, k)'
    <3>1. u # t /\ tx'[u] = tx[u]
      BY <1>0, <2>1, <2>3 DEF Close, Idle
    <3> QED BY <1>0, <1>7, <2>3, <3>1, PlansStay
  <2> QED BY <2>2, <2>3, RowTypesKept DEF ShownInv
<1>8. CASE UNCHANGED vars
  <2>1. UNCHANGED data /\ raced' = raced /\ tx' = tx
    BY <1>8 DEF vars, data
  <2>2. \A k \in Keys \ raced' : Shown(k)'
    BY <1>1, <2>1
  <2>3. \A u \in Requests : \A k \in Touched(u)' \ raced' : tx'[u].pc = "read" => Planned(u, k)'
    BY <1>2, <2>1
  <2> QED BY <2>2, <2>3, RowTypesKept DEF ShownInv
<1> QED BY <1>4, <1>5, <1>6, <1>7, <1>8, StepsAre

\* Inv is inductive.
LEMMA InvIsKept == Spec => []Inv
<1>1. Init => Inv
  <2> SUFFICES ASSUME Init PROVE Inv
    OBVIOUS
  <2>1. BornInv
    <3>1. Ranked = {} /\ active = {} /\ active = {b \in Batches : batch[b] = "committed"}
      BY DEF Init, Ranked
    <3>2. Cardinality(Ranked) = 0
      BY <3>1, FS_EmptySet
    <3>3. \A b \in Batches : batch[b] = "preview_ready" /\ born[b] = 0
      BY DEF Init
    <3>4. /\ batch \in [Batches -> BatchStatuses] /\ seq \in [Batches -> 0 .. MaxSeq]
          /\ born \in [Batches -> 0 .. Cardinality(Batches)]
      BY BatchAssumption, BatchCount DEF Init, BatchStatuses
    <3> QED BY <3>1, <3>2, <3>3, <3>4 DEF BornInv
  <2>2. Idle \in Txs /\ Idle.pc = "idle" /\ Idle.op = "none" /\ Idle.b = None
    BY DEF Idle, Txs, Owner, Missing, Rows
  <2>3. \A t \in Requests : tx[t] = Idle
    BY DEF Init
  <2>4. LockInv
    BY <2>2, <2>3 DEF Init, LockInv, TxOk, Locks
  <2>5. \A k \in Keys : Shown(k)
    BY <2>1 DEF Init, Shown, Shows, OnKey, OnField, Strongest, Missing
  <2>6. ShownInv
    BY <2>2, <2>3, <2>5 DEF Init, ShownInv, Missing, Rows, RowStatuses
  <2> QED BY <2>1, <2>4, <2>6 DEF Inv
<1>2. Inv /\ [Next]_vars => Inv'
  BY BornKept, LocksKept, ShownKept DEF Inv
<1> QED BY <1>1, <1>2, PTL DEF Spec

\* Batches, observations, snapshots and transactions have their types, and the ids of the
\* observations stay in their range.
THEOREM TypesCorrect == Spec => []TypeOK
<1>1. Inv => TypeOK
  BY DEF Inv, BornInv, LockInv, ShownInv, TypeOK, Txs, Owner
<1> QED BY <1>1, InvIsKept, PTL

\* Where no revocation overlapped another transaction, every snapshot shows field by
\* field the strongest observation that is active, whatever the order of commits,
\* revocations and deletions and whatever the clocks say.
THEOREM SnapshotsShowWinners == Spec => []SnapshotShowsWinners
<1>1. Inv => SnapshotShowsWinners
  <2> SUFFICES ASSUME Inv, NEW k \in Keys \ raced
               PROVE  snapshot[k].val = Truth(k).val /\ snapshot[k].by = Truth(k).by
    BY DEF SnapshotShowsWinners
  <2>1. Shown(k) /\ snapshot[k] \in Rows
    BY DEF Inv, ShownInv
  <2>2. snapshot[k].val = [f \in Fields |-> snapshot[k].val[f]]
    BY <2>1 DEF Rows
  <2> QED BY <2>1, <2>2 DEF Shown, Shows, Truth
<1> QED BY <1>1, InvIsKept, PTL

\* A content record belongs to a committed batch that still has data on it, or to none
\* where there is none, so that whoever deletes its batch takes nobody else's content.
THEOREM ContentsHaveOwners == Spec => []ContentHasLiveOwner
<1>1. Inv => ContentHasLiveOwner
  BY BatchAssumption DEF Inv, ShownInv, Shown, Shows, ContentHasLiveOwner
<1> QED BY <1>1, InvIsKept, PTL
=============================================================================
