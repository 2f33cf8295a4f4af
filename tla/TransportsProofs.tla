-------------------------- MODULE TransportsProofs --------------------------
(***************************************************************************)
(* Proofs about Transports for any next hops, requests, credentials,       *)
(* threads and number of transports.                                       *)
(***************************************************************************)
EXTENDS Transports, FiniteSetTheorems, TLAPS

(***************************************************************************)
(* What an open transaction still knows of the table.                      *)
(***************************************************************************)
\* AUTO_INCREMENT never comes back to an id.
UnusedIds == \A i \in Ids : i > lastId => rows[i] = NoRow

\* _check_conflicts() found no other transport of the next hop with another user
\* name among the rows that the statements will lock.
SnapshotInv ==
  \A w \in Workers : txn[w] # NoTxn =>
    \A i \in Ids \ {txn[w].id} :
      txn[w].snap[i] # NoRow /\ txn[w].snap[i].nexthop = txn[w].new.nexthop
        => txn[w].snap[i].username = txn[w].new.username

\* The request of w will give destination d another transport.
AddsTo(w, d) ==
  /\ txn[w] # NoTxn /\ txn[w].new.destination = d
  /\ txn[w].id = 0 \/ txn[w].snap[txn[w].id].destination # d

Adding(d) == {w \in Workers : AddsTo(w, d)}

Destinations == {a[1] : a \in Accepted}

\* The requests that will are counted with the transports there are.
CountInv ==
  \A d \in Destinations :
    Cardinality(TransportsOf(d)) + Cardinality(Adding(d)) <= Cardinality(Workers)

TransportsInv ==
  TypeOK /\ UnusedIds /\ SnapshotInv /\ SameCredentials /\ CountInv

----------------------------------------------------------------------------
(***************************************************************************)
(* The operators the actions are built from.                               *)
(***************************************************************************)
\* A row is not the absence of one.
LEMMA RowFacts == NoRow \notin Row
  BY DEF Row, NoRow

\* A transaction is not the absence of one.
LEMMA TxnFacts == NoTxn \notin Txn
  BY DEF Txn, NoTxn, Ids

\* A next hop in its normal form is a next hop.
LEMMA NormalizeType ==
  ASSUME NEW n \in Nexthop
  PROVE  NormalizeNexthop(n) \in Nexthop
  BY DEF NormalizeNexthop, Nexthop

\* To be one to SQL is an equivalence.
LEMMA SameFacts ==
  /\ \A n : SameInSql(n, n)
  /\ \A n, m : SameInSql(n, m) => SameInSql(m, n)
  /\ \A n, m, k : SameInSql(n, m) /\ SameInSql(m, k) => SameInSql(n, k)
  BY DEF SameInSql

\* _sync_nexthop_credentials() writes the credentials of the rows of the next hop of
\* r, and no other column: row "old" becomes row "new".
Synced(new, old, r) ==
  /\ new = NoRow <=> old = NoRow
  /\ old # NoRow =>
       /\ new \in Row /\ old \in Row
       /\ new.destination = old.destination /\ new.mx = old.mx
       /\ new.nexthop = old.nexthop
       /\ SameInSql(old.nexthop, r.nexthop) =>
            new.username = r.username /\ new.password = r.password
       /\ ~SameInSql(old.nexthop, r.nexthop) => new = old

\* _sync_nexthop_credentials() keeps the rows of the table and their next hops.
LEMMA SyncFacts ==
  ASSUME NEW t \in Table, NEW r \in Row
  PROVE  /\ SyncNexthopCredentials(t, r) \in Table
         /\ \A i \in Ids : Synced(SyncNexthopCredentials(t, r)[i], t[i], r)
  <1> USE RowFacts
  <1>1. ASSUME NEW i \in Ids, t[i] # NoRow, SameInSql(t[i].nexthop, r.nexthop)
        PROVE  LET s == [t[i] EXCEPT !.username = r.username, !.password = r.password] IN
               /\ s \in Row /\ s.destination = t[i].destination /\ s.mx = t[i].mx
               /\ s.nexthop = t[i].nexthop
               /\ s.username = r.username /\ s.password = r.password
    <2>1. t[i] \in Row
      BY <1>1 DEF Table
    <2> QED BY <2>1 DEF Row
  <1>2. \A i \in Ids : t[i] # NoRow => t[i] \in Row
    BY DEF Table
  <1> QED BY <1>1, <1>2 DEF SyncNexthopCredentials, Table, Synced

----------------------------------------------------------------------------
(***************************************************************************)
(* Steps that several actions share.                                       *)
(***************************************************************************)
\* The rows whose credentials a request overwrites have its user name already, its
\* own row apart: MariaDB granted the locks, so they are as the check saw them.
LEMMA GrantedFacts ==
  ASSUME TransportsInv, NEW w \in Workers, txn[w] # NoTxn, Granted(w),
         NEW i \in Ids \ {txn[w].id}, rows[i] # NoRow,
         rows[i].nexthop = txn[w].new.nexthop
  PROVE  rows[i].username = txn[w].new.username
  <1>1. rows[i] = txn[w].snap[i]
    BY SameFacts DEF Granted, Locked
  <1> QED BY <1>1 DEF TransportsInv, SnapshotInv

\* Transports and transactions that count for a destination are finitely many.
LEMMA CountFacts ==
  ASSUME NEW d
  PROVE  /\ IsFiniteSet(TransportsOf(d)) /\ Cardinality(TransportsOf(d)) \in Nat
         /\ IsFiniteSet(Adding(d)) /\ Cardinality(Adding(d)) \in Nat
         /\ IsFiniteSet(Workers) /\ Cardinality(Workers) \in Nat
         /\ Adding(d) \subseteq Workers
  <1>1. IsFiniteSet(Ids)
    BY FS_Interval, TransportsAssumption DEF Ids
  <1>2. TransportsOf(d) \subseteq Ids /\ Adding(d) \subseteq Workers
    BY DEF TransportsOf, Adding
  <1>3. IsFiniteSet(TransportsOf(d)) /\ IsFiniteSet(Adding(d)) /\ IsFiniteSet(Workers)
    BY <1>1, <1>2, FS_Subset, TransportsAssumption
  <1> QED BY <1>2, <1>3, FS_CardinalityType

\* A step that gives no destination a transport, or one that its request was counted
\* for.
LEMMA CountStep ==
  ASSUME CountInv,
         \A d \in Destinations :
           \/ TransportsOf(d)' \subseteq TransportsOf(d) /\ Adding(d)' \subseteq Adding(d)
           \/ \E k, w : /\ TransportsOf(d)' \subseteq TransportsOf(d) \cup {k}
                        /\ w \in Adding(d) /\ Adding(d)' \subseteq Adding(d) \ {w}
  PROVE  CountInv'
  <1> SUFFICES ASSUME NEW d \in Destinations
               PROVE  Cardinality(TransportsOf(d)') + Cardinality(Adding(d)') <= Cardinality(Workers)
    BY DEF CountInv, Destinations
  <1> DEFINE T == TransportsOf(d)
             A == Adding(d)
             U == TransportsOf(d)'
             B == Adding(d)'
  <1>1. /\ IsFiniteSet(T) /\ Cardinality(T) \in Nat /\ IsFiniteSet(A) /\ Cardinality(A) \in Nat
        /\ Cardinality(Workers) \in Nat /\ Cardinality(T) + Cardinality(A) <= Cardinality(Workers)
    BY CountFacts DEF CountInv
  <1>2. \/ U \subseteq T /\ B \subseteq A
        \/ \E k, w : U \subseteq T \cup {k} /\ w \in A /\ B \subseteq A \ {w}
    OBVIOUS
  <1> HIDE DEF T, A, U, B
  <1>3. CASE U \subseteq T /\ B \subseteq A
    <2>1. /\ Cardinality(U) <= Cardinality(T) /\ Cardinality(B) <= Cardinality(A)
          /\ IsFiniteSet(U) /\ IsFiniteSet(B)
      BY <1>1, <1>3, FS_Subset
    <2>2. Cardinality(U) \in Nat /\ Cardinality(B) \in Nat
      BY <2>1, FS_CardinalityType
    <2> QED BY <1>1, <2>1, <2>2 DEF U, B
  <1>4. CASE \E k, w : U \subseteq T \cup {k} /\ w \in A /\ B \subseteq A \ {w}
    <2>1. PICK k, w : U \subseteq T \cup {k} /\ w \in A /\ B \subseteq A \ {w}
      BY <1>4
    <2>2. /\ IsFiniteSet(T \cup {k}) /\ Cardinality(T \cup {k}) \in Nat
          /\ Cardinality(T \cup {k}) <= Cardinality(T) + 1
      <3>1. /\ IsFiniteSet(T \cup {k})
            /\ Cardinality(T \cup {k}) = IF k \in T THEN Cardinality(T) ELSE Cardinality(T) + 1
        BY <1>1, FS_AddElement
      <3> QED BY <1>1, <3>1
    <2>3. /\ IsFiniteSet(A \ {w}) /\ Cardinality(A \ {w}) = Cardinality(A) - 1
      BY <1>1, <2>1, FS_RemoveElement
    <2>4. /\ Cardinality(U) <= Cardinality(T \cup {k}) /\ Cardinality(B) <= Cardinality(A \ {w})
          /\ IsFiniteSet(U) /\ IsFiniteSet(B)
      BY <2>1, <2>2, <2>3, FS_Subset
    <2>5. Cardinality(U) \in Nat /\ Cardinality(B) \in Nat
      BY <2>4, FS_CardinalityType
    <2> QED BY <1>1, <2>2, <2>3, <2>4, <2>5 DEF U, B
  <1> QED BY <1>2, <1>3, <1>4

\* The end of a transaction leaves the others as they are.
LEMMA EndInv ==
  ASSUME TransportsInv, NEW w \in Workers, txn' = [txn EXCEPT ![w] = NoTxn]
  PROVE  /\ txn' \in [Workers -> Txn \cup {NoTxn}]
         /\ txn'[w] = NoTxn /\ \A v \in Workers : v # w => txn'[v] = txn[v]
         /\ \A v \in Workers : txn'[v] # NoTxn => Valid(txn'[v].new)
         /\ SnapshotInv'
         /\ \A d : Adding(d)' = Adding(d) \ {w}
  <1>1. TypeOK
    BY DEF TransportsInv
  <1>2. /\ txn' \in [Workers -> Txn \cup {NoTxn}]
        /\ txn'[w] = NoTxn /\ \A v \in Workers : v # w => txn'[v] = txn[v]
    BY <1>1 DEF TypeOK
  <1>3. \A v \in Workers : txn'[v] # NoTxn => Valid(txn'[v].new)
    BY <1>1, <1>2 DEF TypeOK, Valid
  <1>4. SnapshotInv'
    BY <1>2 DEF TransportsInv, SnapshotInv
  <1>5. \A d : Adding(d)' = Adding(d) \ {w}
    BY <1>2 DEF Adding, AddsTo
  <1> QED BY <1>2, <1>3, <1>4, <1>5

\* The checks of a request.
LEMMA BeginInv ==
  ASSUME TransportsInv, NEW w \in Workers, NEW id \in Ids \cup {0}, NEW r \in Row,
         id # 0 => rows[id] # NoRow, Begin(w, id, r)
  PROVE  TransportsInv'
  <1> DEFINE snap == [i \in Ids |-> IF Locked(i, id, r.nexthop) THEN rows[i] ELSE NoRow]
             t == [id |-> id, new |-> r, snap |-> snap]
  <1>1. TypeOK /\ UNCHANGED <<rows, lastId, applied>>
    BY DEF TransportsInv, Begin
  <1>2. snap \in Table
    BY <1>1 DEF Table, TypeOK
  <1>3. t \in Txn /\ t.id = id /\ t.new = r /\ t.snap = snap
    BY <1>2 DEF Txn
  <1> HIDE DEF t
  <1>4. txn' = [txn EXCEPT ![w] = t]
    BY DEF Begin, t
  <1>5. txn'[w] = t /\ \A v \in Workers : v # w => txn'[v] = txn[v]
    BY <1>1, <1>4 DEF TypeOK
  <1>6. TypeOK'
    <2>1. Valid(r)
      BY DEF Begin
    <2>2. \A v \in Workers : txn'[v] # NoTxn => Valid(txn'[v].new)
      BY <1>1, <1>3, <1>5, <2>1 DEF TypeOK
    <2> QED BY <1>1, <1>3, <1>4, <2>2 DEF TypeOK, Valid
  <1>7. SnapshotInv'
    <2>1. ASSUME NEW i \in Ids \ {id}, snap[i] # NoRow, snap[i].nexthop = r.nexthop
          PROVE  snap[i].username = r.username
      <3>1. snap[i] = rows[i]
        BY <2>1
      <3>2. ~Conflicts(r, id)
        BY DEF Begin
      <3> QED BY <2>1, <3>1, <3>2 DEF Conflicts
    <2> HIDE DEF snap
    <2> QED BY <1>3, <1>5, <2>1 DEF TransportsInv, SnapshotInv
  <1>8. CountInv'
    <2> SUFFICES ASSUME NEW d \in Destinations
                 PROVE  Cardinality(TransportsOf(d)') + Cardinality(Adding(d)') <= Cardinality(Workers)
      BY DEF CountInv, Destinations
    <2>1. TransportsOf(d)' = TransportsOf(d)
      BY <1>1 DEF TransportsOf
    <2>2. \A v \in Workers \ {w} : AddsTo(v, d)' <=> AddsTo(v, d)
      BY <1>5 DEF AddsTo
    <2>3. Cardinality(TransportsOf(d)) + Cardinality(Adding(d)) <= Cardinality(Workers)
      BY DEF TransportsInv, CountInv
    <2>4. CASE ~AddsTo(w, d)' /\ r.destination # d
      <3>1. ~AddsTo(w, d)
        BY DEF Begin, AddsTo
      <3>2. Adding(d)' = Adding(d)
        BY <2>2, <2>4, <3>1 DEF Adding
      <3> QED BY <2>1, <2>3, <3>2
    <2>5. CASE r.destination = d
      <3>1. TransportsOf(d) \subseteq {id}
        <4>1. ~Conflicts(r, id)
          BY DEF Begin
        <4> QED BY <2>5, <4>1 DEF Conflicts, TransportsOf
      <3>2. CASE TransportsOf(d) = {}
        <4>1. Cardinality(TransportsOf(d)) = 0
          BY <3>2, FS_EmptySet
        <4>2. IsFiniteSet(Workers) /\ Cardinality(Workers) \in Nat
          BY CountFacts
        <4>3. Adding(d)' \subseteq Workers
          BY DEF Adding
        <4>4. IsFiniteSet(Adding(d)') /\ Cardinality(Adding(d)') <= Cardinality(Workers)
          BY <4>2, <4>3, FS_Subset
        <4>5. Cardinality(Adding(d)') \in Nat
          BY <4>4, FS_CardinalityType
        <4> QED BY <2>1, <4>1, <4>2, <4>4, <4>5
      <3>3. CASE TransportsOf(d) = {id}
        <4>1. id \in Ids /\ rows[id] # NoRow /\ rows[id].destination = d
          BY <3>3 DEF TransportsOf
        <4>2. snap[id] = rows[id]
          BY <4>1 DEF Locked
        <4>3. ~AddsTo(w, d)'
          <5>1. txn'[w].id = id /\ txn'[w].snap = snap /\ id # 0
            BY <1>3, <1>5, <4>1 DEF Ids
          <5>2. txn'[w].snap[txn'[w].id].destination = d
            BY <4>1, <4>2, <5>1
          <5> QED BY <5>1, <5>2 DEF AddsTo
        <4>4. Cardinality(TransportsOf(d)) = 1
          BY <3>3, FS_Singleton
        <4>5. IsFiniteSet(Workers \ {w}) /\ Cardinality(Workers \ {w}) = Cardinality(Workers) - 1
          BY CountFacts, FS_RemoveElement
        <4>6. Adding(d)' \subseteq Workers \ {w}
          BY <4>3 DEF Adding
        <4>7. IsFiniteSet(Adding(d)') /\ Cardinality(Adding(d)') <= Cardinality(Workers \ {w})
          BY <4>5, <4>6, FS_Subset
        <4>8. Cardinality(Adding(d)') \in Nat /\ Cardinality(Workers) \in Nat
          BY <4>7, FS_CardinalityType, CountFacts
        <4> QED BY <2>1, <4>4, <4>5, <4>7, <4>8
      <3> QED BY <3>1, <3>2, <3>3
    <2>6. r.destination # d => ~AddsTo(w, d)'
      BY <1>3, <1>5 DEF AddsTo
    <2> QED BY <2>4, <2>5, <2>6
  <1>9. UnusedIds' /\ SameCredentials'
    BY <1>1 DEF TransportsInv, UnusedIds, SameCredentials
  <1> QED BY <1>6, <1>7, <1>8, <1>9 DEF TransportsInv

(***************************************************************************)
(* The commits.  A request writes its own row k and, of the other rows of  *)
(* its next hop, the credentials, which leaves their user names alone if   *)
(* they are written alike.                                                 *)
(***************************************************************************)
\* Row i after the UPDATE of the next hop of r by a request about another row.
SyncedRow(i, r) ==
  /\ rows'[i] = NoRow <=> rows[i] = NoRow
  /\ rows[i] # NoRow =>
       /\ rows'[i].destination = rows[i].destination /\ rows'[i].mx = rows[i].mx
       /\ rows'[i].nexthop = rows[i].nexthop
       /\ rows[i].nexthop = r.nexthop => rows'[i].username = rows[i].username
       /\ SameInSql(rows[i].nexthop, r.nexthop) =>
            rows'[i].username = r.username /\ rows'[i].password = r.password
       /\ ~SameInSql(rows[i].nexthop, r.nexthop) => rows'[i] = rows[i]

\* Row k becomes r, whose credentials may be lost if applied becomes FALSE.
WrittenRow(k, r) ==
  /\ rows'[k] # NoRow
  /\ rows'[k].destination = r.destination /\ rows'[k].mx = r.mx
  /\ rows'[k].nexthop = r.nexthop
  /\ applied' => rows'[k].username = r.username /\ rows'[k].password = r.password

\* A commit that writes row k keeps what the table is required to satisfy.
LEMMA CommitInv ==
  ASSUME TransportsInv, NEW w \in Workers, txn[w] # NoTxn, NEW k \in Ids,
         \/ k = txn[w].id /\ rows[k] # NoRow /\ txn[w].snap[k] = rows[k]
         \/ txn[w].id = 0 /\ rows[k] = NoRow,
         WrittenRow(k, txn[w].new),
         \A i \in Ids \ {k} : SyncedRow(i, txn[w].new),
         txn' = [txn EXCEPT ![w] = NoTxn],
         applied' => applied
  PROVE  /\ \A i \in Ids : rows'[i] # NoRow => Valid(rows'[i])
         /\ SameCredentials' /\ CountInv'
  <1> DEFINE r == txn[w].new
  <1>1. Valid(r) /\ \A i \in Ids : rows[i] # NoRow => Valid(rows[i])
    BY DEF TransportsInv, TypeOK
  <1>2. \A i \in Ids : rows'[i] # NoRow => Valid(rows'[i])
    BY <1>1 DEF WrittenRow, SyncedRow, Valid
  <1>3. SameCredentials'
    <2> SUFFICES ASSUME applied', NEW i \in Ids, NEW j \in Ids, rows'[i] # NoRow,
                        rows'[j] # NoRow, SameInSql(rows'[i].nexthop, rows'[j].nexthop)
                 PROVE  /\ rows'[i].username = rows'[j].username
                        /\ rows'[i].password = rows'[j].password
      BY DEF SameCredentials, SameInSql
    <2>1. CASE SameInSql(rows'[i].nexthop, r.nexthop)
      <3>1. ASSUME NEW l \in Ids, rows'[l] # NoRow, SameInSql(rows'[l].nexthop, r.nexthop)
            PROVE  rows'[l].username = r.username /\ rows'[l].password = r.password
        <4>1. CASE l = k
          BY <4>1 DEF WrittenRow
        <4>2. CASE l # k
          <5>1. SyncedRow(l, r)
            BY <4>2
          <5> QED BY <3>1, <5>1 DEF SyncedRow
        <4> QED BY <4>1, <4>2
      <3> HIDE DEF r
      <3> QED BY <2>1, <3>1, SameFacts
    <2>2. CASE ~SameInSql(rows'[i].nexthop, r.nexthop)
      <3>0. ~SameInSql(rows'[j].nexthop, r.nexthop)
        BY <2>2, SameFacts
      <3>1. i # k /\ j # k
        BY <2>2, <3>0, SameFacts DEF WrittenRow
      <3>2. rows'[i] = rows[i] /\ rows'[j] = rows[j]
        BY <2>2, <3>0, <3>1 DEF SyncedRow
      <3> QED BY <3>2 DEF TransportsInv, SameCredentials
    <2> QED BY <2>1, <2>2
  <1>4. CountInv'
    <2> SUFFICES ASSUME NEW d \in Destinations
                 PROVE  \/ TransportsOf(d)' \subseteq TransportsOf(d) /\ Adding(d)' \subseteq Adding(d)
                        \/ \E l, v : /\ TransportsOf(d)' \subseteq TransportsOf(d) \cup {l}
                                     /\ v \in Adding(d) /\ Adding(d)' \subseteq Adding(d) \ {v}
      BY CountStep DEF TransportsInv
    <2>1. Adding(d)' = Adding(d) \ {w}
      BY EndInv
    <2>2. \A i \in Ids \ {k} : i \in TransportsOf(d)' <=> i \in TransportsOf(d)
      BY DEF TransportsOf, SyncedRow
    <2>3. TransportsOf(d)' \subseteq TransportsOf(d) \cup {k}
      BY <2>2 DEF TransportsOf
    <2>4. k \in TransportsOf(d)' => r.destination = d
      BY DEF TransportsOf, WrittenRow
    <2>5. CASE w \in Adding(d)
      BY <2>1, <2>3, <2>5
    <2>6. CASE w \notin Adding(d)
      <3>1. k \in TransportsOf(d)' => k \in TransportsOf(d)
        BY <2>4, <2>6 DEF Adding, AddsTo, TransportsOf
      <3> QED BY <2>1, <2>3, <3>1
    <2> QED BY <2>5, <2>6
  <1> QED BY <1>2, <1>3, <1>4

\* create_transport() writes a new row.
LEMMA CreateCommitWrites ==
  ASSUME TransportsInv, NEW w \in Workers, CreateTransportCommit(w)
  PROVE  /\ txn[w] # NoTxn /\ txn[w].id = 0 /\ lastId + 1 \in Ids
         /\ rows[lastId + 1] = NoRow /\ rows' \in Table
         /\ WrittenRow(lastId + 1, txn[w].new)
         /\ \A i \in Ids \ {lastId + 1} : SyncedRow(i, txn[w].new)
  <1> DEFINE r == txn[w].new
             k == lastId + 1
             t == [rows EXCEPT ![k] = r]
  <1>1. txn[w] # NoTxn /\ txn[w].id = 0 /\ Granted(w) /\ rows' = SyncNexthopCredentials(t, r)
    BY DEF CreateTransportCommit
  <1>2. TypeOK
    BY DEF TransportsInv
  <1>3. lastId \in Nat /\ k \in Ids
    BY <1>2, TransportsAssumption DEF CreateTransportCommit, TypeOK, Ids
  <1>4. rows[k] = NoRow
    BY <1>3 DEF TransportsInv, UnusedIds
  <1>5. r \in Row /\ r # NoRow
    BY <1>1, <1>2, RowFacts DEF TypeOK, Txn
  <1>6. t \in Table /\ t[k] = r /\ \A i \in Ids \ {k} : t[i] = rows[i]
    BY <1>2, <1>3, <1>5 DEF TypeOK, Table
  <1> HIDE DEF t
  <1>7. Synced(rows'[k], r, r) /\ \A i \in Ids \ {k} : Synced(rows'[i], rows[i], r)
    BY <1>1, <1>3, <1>5, <1>6, SyncFacts
  <1>8. WrittenRow(k, r)
    BY <1>5, <1>7 DEF WrittenRow, Synced
  <1>9. ASSUME NEW i \in Ids \ {k} PROVE SyncedRow(i, r)
    <2>1. i \in Ids \ {txn[w].id}
      BY <1>1 DEF Ids
    <2>2. rows[i] # NoRow /\ rows[i].nexthop = r.nexthop => rows[i].username = r.username
      BY <1>1, <2>1, GrantedFacts
    <2> QED BY <1>7, <2>2, SameFacts DEF SyncedRow, Synced
  <1>10. rows' \in Table
    BY <1>1, <1>5, <1>6, SyncFacts
  <1> QED BY <1>1, <1>3, <1>4, <1>8, <1>9, <1>10

\* update_transport() writes the row it is about.
LEMMA UpdateCommitWrites ==
  ASSUME TransportsInv, NEW w \in Workers, UpdateTransportCommit(w)
  PROVE  /\ txn[w] # NoTxn /\ txn[w].id \in Ids /\ rows[txn[w].id] # NoRow
         /\ txn[w].snap[txn[w].id] = rows[txn[w].id]
         /\ rows' \in Table
         /\ applied' => applied
         /\ WrittenRow(txn[w].id, txn[w].new)
         /\ \A i \in Ids \ {txn[w].id} : SyncedRow(i, txn[w].new)
  <1> DEFINE r == txn[w].new
             k == txn[w].id
             s == SyncNexthopCredentials(rows, r)
             own == [r EXCEPT !.username = s[k].username, !.password = s[k].password]
  <1>1. /\ txn[w] # NoTxn /\ k # 0 /\ Granted(w) /\ rows[k] # NoRow
        /\ rows' = [s EXCEPT ![k] = own] /\ applied' = (applied /\ own = r)
    BY DEF UpdateTransportCommit
  <1>2. TypeOK
    BY DEF TransportsInv
  <1>3. r \in Row /\ k \in Ids
    BY <1>1, <1>2 DEF TypeOK, Txn
  <1>4. s \in Table /\ s[k] \in Row
    BY <1>1, <1>2, <1>3, SyncFacts DEF TypeOK, Synced
  <1>5. /\ own \in Row /\ own # NoRow
        /\ own.destination = r.destination /\ own.mx = r.mx /\ own.nexthop = r.nexthop
    <2> HIDE DEF s
    <2> QED BY <1>3, <1>4, RowFacts DEF Row
  <1> HIDE DEF own
  <1>6. rows' \in Table /\ rows'[k] = own /\ \A i \in Ids \ {k} : rows'[i] = s[i]
    <2> HIDE DEF s
    <2> QED BY <1>1, <1>3, <1>4, <1>5 DEF Table
  <1>7. WrittenRow(k, r)
    BY <1>1, <1>5, <1>6 DEF WrittenRow
  <1>8. ASSUME NEW i \in Ids \ {k} PROVE SyncedRow(i, r)
    <2>1. rows[i] # NoRow /\ rows[i].nexthop = r.nexthop => rows[i].username = r.username
      BY <1>1, GrantedFacts
    <2>2. Synced(rows'[i], rows[i], r)
      BY <1>2, <1>3, <1>6, SyncFacts DEF TypeOK
    <2> QED BY <2>1, <2>2, SameFacts DEF SyncedRow, Synced
  <1>9. txn[w].snap[k] = rows[k]
    BY <1>1, <1>3 DEF Granted, Locked
  <1> QED BY <1>1, <1>3, <1>6, <1>7, <1>8, <1>9

----------------------------------------------------------------------------
(***************************************************************************)
(* The theorems.                                                           *)
(***************************************************************************)
\* The empty table.
LEMMA TransportsInit == Init => TransportsInv
  <1> SUFFICES ASSUME Init PROVE TransportsInv
    OBVIOUS
  <1>1. \A i \in Ids : rows[i] = NoRow
    BY DEF Init
  <1>2. \A w \in Workers : txn[w] = NoTxn
    BY DEF Init
  <1>3. TypeOK
    BY <1>1, <1>2, TransportsAssumption DEF Init, TypeOK, Table
  <1>4. CountInv
    <2> SUFFICES ASSUME NEW d \in Destinations
                 PROVE  Cardinality(TransportsOf(d)) + Cardinality(Adding(d)) <= Cardinality(Workers)
      BY DEF CountInv
    <2>1. TransportsOf(d) = {} /\ Adding(d) = {}
      BY <1>1, <1>2 DEF TransportsOf, Adding, AddsTo
    <2>2. Cardinality(TransportsOf(d)) = 0 /\ Cardinality(Adding(d)) = 0
      BY <2>1, FS_EmptySet
    <2> QED BY <2>2, CountFacts
  <1> QED BY <1>1, <1>2, <1>3, <1>4 DEF TransportsInv, UnusedIds, SnapshotInv, SameCredentials

\* Every request, and every part of one, keeps the invariant.
LEMMA TransportsStep == TransportsInv /\ [Next]_vars => TransportsInv'
  <1> SUFFICES ASSUME TransportsInv, [Next]_vars PROVE TransportsInv'
    OBVIOUS
  <1>0. TypeOK
    BY DEF TransportsInv
  <1>1. ASSUME NEW w \in Workers, NEW q \in Requests, CreateTransport(w, q)
        PROVE  TransportsInv'
    <2>1. q \in Row
      BY TransportsAssumption
    <2>2. [q EXCEPT !.nexthop = NormalizeNexthop(@)] \in Row
      BY <2>1, NormalizeType DEF Row
    <2>3. 0 \in Ids \cup {0} /\ Begin(w, 0, [q EXCEPT !.nexthop = NormalizeNexthop(@)])
      BY <1>1 DEF CreateTransport
    <2> QED BY <2>2, <2>3, BeginInv
  <1>2. ASSUME NEW w \in Workers, NEW id \in Ids, NEW q \in Requests,
               UpdateTransport(w, id, q)
        PROVE  TransportsInv'
    <2>1. q \in Row /\ Empty \in Passwords
      BY TransportsAssumption
    <2>2. [q EXCEPT !.nexthop = NormalizeNexthop(@),
                    !.password = IF q.username = Empty THEN Empty ELSE @] \in Row
      BY <2>1, NormalizeType DEF Row
    <2> QED BY <1>2, <2>2, BeginInv DEF UpdateTransport
  <1>3. ASSUME NEW w \in Workers, CreateTransportCommit(w) PROVE TransportsInv'
    <2>1. /\ lastId' = lastId + 1 /\ lastId < MaxTransports /\ applied' = applied
          /\ txn' = [txn EXCEPT ![w] = NoTxn]
      BY <1>3 DEF CreateTransportCommit
    <2>2. /\ \A i \in Ids : rows'[i] # NoRow => Valid(rows'[i])
          /\ SameCredentials' /\ CountInv'
      BY <1>3, <2>1, CreateCommitWrites, CommitInv
    <2>3. TypeOK'
      <3>1. lastId' \in 0..MaxTransports
        BY <1>0, <2>1, TransportsAssumption DEF TypeOK
      <3> QED BY <1>0, <1>3, <2>1, <2>2, <3>1, EndInv, CreateCommitWrites DEF TypeOK, Valid
    <2>4. UnusedIds'
      <3>1. \A i \in Ids : i > lastId + 1 => i # lastId + 1 /\ i > lastId
        BY <1>0, TransportsAssumption DEF TypeOK, Ids
      <3>2. \A i \in Ids \ {lastId + 1} : rows'[i] = NoRow <=> rows[i] = NoRow
        BY <1>3, CreateCommitWrites DEF SyncedRow
      <3> QED BY <2>1, <3>1, <3>2 DEF TransportsInv, UnusedIds
    <2> QED BY <2>1, <2>2, <2>3, <2>4, EndInv DEF TransportsInv
  <1>4. ASSUME NEW w \in Workers, UpdateTransportCommit(w) PROVE TransportsInv'
    <2>1. lastId' = lastId /\ txn' = [txn EXCEPT ![w] = NoTxn]
      BY <1>4 DEF UpdateTransportCommit
    <2>2. applied' \in BOOLEAN
      BY <1>4 DEF UpdateTransportCommit
    <2>3. /\ \A i \in Ids : rows'[i] # NoRow => Valid(rows'[i])
          /\ SameCredentials' /\ CountInv'
      <3> DEFINE k == txn[w].id
      <3>1. /\ txn[w] # NoTxn /\ k \in Ids /\ WrittenRow(k, txn[w].new)
            /\ rows[k] # NoRow /\ txn[w].snap[k] = rows[k]
            /\ \A i \in Ids \ {k} : SyncedRow(i, txn[w].new)
            /\ applied' => applied
        BY <1>4, UpdateCommitWrites
      <3>2. k = txn[w].id
        OBVIOUS
      <3> HIDE DEF k
      <3> QED BY <2>1, <3>1, <3>2, CommitInv
    <2>4. TypeOK'
      BY <1>0, <1>4, <2>1, <2>2, <2>3, EndInv, UpdateCommitWrites DEF TypeOK, Valid
    <2>5. UnusedIds'
      <3>1. \A i \in Ids : rows'[i] = NoRow <=> rows[i] = NoRow
        BY <1>4, UpdateCommitWrites DEF SyncedRow, WrittenRow
      <3> QED BY <2>1, <3>1 DEF TransportsInv, UnusedIds
    <2> QED BY <2>1, <2>3, <2>4, <2>5, EndInv DEF TransportsInv
  <1>5. ASSUME NEW w \in Workers, NEW id \in Ids, DeleteTransport(w, id) PROVE TransportsInv'
    <2>1. rows' = [rows EXCEPT ![id] = NoRow] /\ UNCHANGED <<lastId, txn, applied>>
      BY <1>5 DEF DeleteTransport
    <2>2. rows' \in Table /\ \A i \in Ids : rows'[i] = NoRow \/ rows'[i] = rows[i]
      BY <1>0, <2>1 DEF TypeOK, Table
    <2>3. TypeOK'
      BY <1>0, <2>1, <2>2 DEF TypeOK, Valid
    <2>4. SameCredentials' /\ UnusedIds' /\ SnapshotInv'
      BY <2>1, <2>2 DEF TransportsInv, SameCredentials, UnusedIds, SnapshotInv
    <2>5. CountInv'
      <3>1. \A d : TransportsOf(d)' \subseteq TransportsOf(d) /\ Adding(d)' = Adding(d)
        BY <2>1, <2>2 DEF TransportsOf, Adding, AddsTo
      <3> QED BY <3>1, CountStep DEF TransportsInv
    <2> QED BY <2>3, <2>4, <2>5 DEF TransportsInv
  <1>6. ASSUME NEW w \in Workers, Rollback(w) PROVE TransportsInv'
    <2>1. txn' = [txn EXCEPT ![w] = NoTxn] /\ UNCHANGED <<rows, lastId, applied>>
      BY <1>6 DEF Rollback
    <2>2. TypeOK'
      BY <1>0, <2>1, EndInv DEF TypeOK, Valid
    <2>3. CountInv'
      <3>1. \A d : TransportsOf(d)' = TransportsOf(d)
        BY <2>1 DEF TransportsOf
      <3>2. \A d : Adding(d)' = Adding(d) \ {w}
        BY <2>1, EndInv
      <3>3. \A d : TransportsOf(d)' \subseteq TransportsOf(d) /\ Adding(d)' \subseteq Adding(d)
        BY <3>1, <3>2
      <3> QED BY <3>3, CountStep DEF TransportsInv
    <2>4. SameCredentials' /\ UnusedIds'
      BY <2>1 DEF TransportsInv, SameCredentials, UnusedIds
    <2> QED BY <2>1, <2>2, <2>3, <2>4, EndInv DEF TransportsInv
  <1>7. CASE UNCHANGED vars
    <2>1. \A d : TransportsOf(d)' = TransportsOf(d) /\ Adding(d)' = Adding(d)
      BY <1>7 DEF vars, TransportsOf, Adding, AddsTo
    <2>2. CountInv'
      BY <2>1, CountStep DEF TransportsInv
    <2> QED BY <1>7, <2>2 DEF vars, TransportsInv, TypeOK, SameCredentials, UnusedIds,
                              SnapshotInv, Valid
  <1> QED BY <1>1, <1>2, <1>3, <1>4, <1>5, <1>6, <1>7 DEF Next

\* The invariant holds throughout.
LEMMA TransportsAlways == Spec => []TransportsInv
  BY TransportsInit, TransportsStep, PTL DEF Spec

\* Tables and transactions are well formed, and _validate_destination() has passed
\* every destination that is stored or about to be.
THEOREM TypeCorrect == Spec => []TypeOK
  <1>1. TransportsInv => TypeOK
    BY DEF TransportsInv
  <1> QED BY <1>1, TransportsAlways, PTL

\* "Postfix requires identical credentials per nexthop": all transports of a next hop
\* have the same credentials, until an update drops those it was asked to store.
THEOREM CredentialsAlways == Spec => []SameCredentials
  <1>1. TransportsInv => SameCredentials
    BY DEF TransportsInv
  <1> QED BY <1>1, TransportsAlways, PTL

\* However requests race, a destination never has more transports than the API
\* serves requests at a time.
THEOREM DuplicatesBoundedAlways == Spec => []DuplicatesBounded
  <1>1. TransportsInv => DuplicatesBounded
    <2> SUFFICES ASSUME TransportsInv, NEW d \in Destinations
                 PROVE  Cardinality(TransportsOf(d)) <= Cardinality(Workers)
      BY DEF DuplicatesBounded, Destinations
    <2>1. Cardinality(TransportsOf(d)) + Cardinality(Adding(d)) <= Cardinality(Workers)
      BY DEF TransportsInv, CountInv
    <2> QED BY <2>1, CountFacts
  <1> QED BY <1>1, TransportsAlways, PTL

\* Even then, _sync_nexthop_credentials() renames the user of no transport but the
\* one the request is about and those whose next hop differs in case alone: the
\* locks see to that.
THEOREM UsernamesKept == Spec => OthersKeepUsername
  <1> DEFINE Kept == \A w \in Workers, i \in Ids :
               txn[w] # NoTxn /\ txn'[w] = NoTxn /\ i # txn[w].id /\ Renamed(i) =>
                 /\ rows[i].nexthop # txn[w].new.nexthop
                 /\ SameInSql(rows[i].nexthop, txn[w].new.nexthop)
  <1>1. ASSUME TransportsInv, [Next]_vars PROVE [Kept]_vars
    <2> SUFFICES ASSUME Next PROVE Kept
      BY <1>1
    <2>1. ASSUME rows' = rows PROVE Kept
      BY <2>1 DEF Renamed
    <2>2. ASSUME NEW w \in Workers, txn' = [txn EXCEPT ![w] = NoTxn], NEW k,
                 k = txn[w].id \/ (k \in Ids /\ rows[k] = NoRow),
                 \A i \in Ids \ {k} : SyncedRow(i, txn[w].new)
          PROVE  Kept
      <3> SUFFICES ASSUME NEW v \in Workers, NEW i \in Ids, txn[v] # NoTxn,
                          txn'[v] = NoTxn, i # txn[v].id, Renamed(i)
                   PROVE  /\ rows[i].nexthop # txn[v].new.nexthop
                          /\ SameInSql(rows[i].nexthop, txn[v].new.nexthop)
        OBVIOUS
      <3>1. v = w
        BY <1>1, <2>2, EndInv
      <3>2. i # k
        BY <2>2, <3>1 DEF Renamed
      <3>3. SyncedRow(i, txn[w].new)
        BY <2>2, <3>2
      <3> QED BY <3>1, <3>3 DEF SyncedRow, Renamed
    <2>3. ASSUME NEW w \in Workers, CreateTransportCommit(w) PROVE Kept
      <3>1. txn' = [txn EXCEPT ![w] = NoTxn]
        BY <2>3 DEF CreateTransportCommit
      <3> HIDE DEF Kept
      <3> QED BY <1>1, <2>2, <2>3, <3>1, CreateCommitWrites
    <2>4. ASSUME NEW w \in Workers, UpdateTransportCommit(w) PROVE Kept
      <3>1. txn' = [txn EXCEPT ![w] = NoTxn]
        BY <2>4 DEF UpdateTransportCommit
      <3> HIDE DEF Kept
      <3> QED BY <1>1, <2>2, <2>4, <3>1, UpdateCommitWrites
    <2>5. ASSUME NEW w \in Workers, NEW id \in Ids, DeleteTransport(w, id) PROVE Kept
      BY <1>1, <2>5 DEF DeleteTransport, Renamed, TransportsInv, TypeOK, Table
    <2> HIDE DEF Kept
    <2> QED BY <2>1, <2>3, <2>4, <2>5
            DEF Next, CreateTransport, UpdateTransport, Begin, Rollback
  <1> QED BY <1>1, TransportsAlways, PTL DEF Spec, OthersKeepUsername
=============================================================================
