--------------------------- MODULE AccountsProofs ---------------------------
(***************************************************************************)
(* Proofs about Accounts for any domains, addresses, rows, limits and      *)
(* threads, of requests that overlap as they like.                         *)
(***************************************************************************)
EXTENDS Accounts, FiniteSetTheorems, WellFoundedInduction, TLAPS

\* The sum of f over S.
Total(f, S) == FoldFunctionOnSet(+, 0, f, S)

\* The mailboxes of a domain, and their quotas, in a snapshot of table mailbox.
UsersIn(m, d) == {u \in DOMAIN m : DomainOf[u] = d}
QuotaOf(m, d) == Total([u \in DOMAIN m |-> m[u].quota], UsersIn(m, d))

(***************************************************************************)
(* The invariant: the tables have their types, and what the checks of an   *)
(* open request established holds of the snapshot it keeps, whatever the   *)
(* tables are by now.                                                      *)
(***************************************************************************)
\* Rows of f belong to keys in S and are in T.
Table(f, S, T) ==
  /\ f = [x \in DOMAIN f |-> f[x]]
  /\ DOMAIN f \subseteq S
  /\ \A x \in DOMAIN f : f[x] \in T

RowsOk(m) == Table(m, User, Mailbox) /\ IsFiniteSet(DOMAIN m)

TablesOk ==
  /\ Table(domain, Domain, Limit)
  /\ RowsOk(mailbox)
  /\ DOMAIN alias \subseteq Address
  /\ txn = [w \in Workers |-> txn[w]]

SnapOk(s) == Table(s.domain, Domain, Limit) /\ RowsOk(s.mailbox)

UpdateDomainOk(t) ==
  /\ SnapOk(t.snap) /\ t.dom \in Domain /\ t.new \in Limit
  /\ Cardinality(UsersIn(t.snap.mailbox, t.dom)) <= t.new.mailboxes
  /\ QuotaOf(t.snap.mailbox, t.dom) <= t.new.quota

CreateMailboxOk(t) ==
  LET d == DomainOf[t.user] IN
  /\ SnapOk(t.snap) /\ t.user \in User /\ t.new \in Mailbox
  /\ d \in DOMAIN t.snap.domain
  /\ Cardinality(UsersIn(t.snap.mailbox, d)) < t.snap.domain[d].mailboxes
  /\ QuotaOf(t.snap.mailbox, d) + t.new.quota <= t.snap.domain[d].quota

UpdateMailboxOk(t) ==
  LET d == DomainOf[t.user]
      old == t.snap.mailbox[t.user].quota
  IN  /\ SnapOk(t.snap) /\ t.user \in DOMAIN t.snap.mailbox /\ t.new \in Mailbox
      /\ t.new.quota # old =>
           QuotaOf(t.snap.mailbox, d) - old + t.new.quota <= t.snap.domain[d].quota

CreateAliasOk(t) == t.addr \in Address /\ DomainOf[t.addr] \in DOMAIN t.snap.domain

TxnOk(t) ==
  /\ t.op = "update_domain" => UpdateDomainOk(t)
  /\ t.op = "create_mailbox" => CreateMailboxOk(t)
  /\ t.op = "update_mailbox" => UpdateMailboxOk(t)
  /\ t.op = "create_alias" => CreateAliasOk(t)

TxnInv == \A w \in Workers : TxnOk(txn[w])

AccountsInv == TablesOk /\ TxnInv

----------------------------------------------------------------------------
(***************************************************************************)
(* Sums over finite sets.                                                  *)
(***************************************************************************)
\* The element a fold takes from s first.
Some(s) == CHOOSE x \in s : TRUE

\* Function g adds up f over every subset of S.
Adds(g, f, S) ==
  g = [s \in SUBSET S |-> IF s = {} THEN 0 ELSE f[Some(s)] + g[s \ {Some(s)}]]

\* The fold of the community modules, as one of those functions.
LEMMA TotalDef ==
  ASSUME NEW f, NEW S
  PROVE  Total(f, S) = (CHOOSE g : Adds(g, f, S))[S]
  BY DEF Total, FoldFunctionOnSet, MapThenFoldSet, Adds, Some

\* Induction over finite sets: among sets that fail there is a least one.
LEMMA MinimalSet ==
  ASSUME NEW S, IsFiniteSet(S), NEW T \in SUBSET SUBSET S, T # {}
  PROVE  \E t \in T : \A s \in T : s \subseteq t => s = t
  <1>1. \A s \in SUBSET S : IsFiniteSet(s)
    BY FS_Subset
  <1>2. T \subseteq FiniteSubsetsOf(S)
    BY <1>1 DEF FiniteSubsetsOf
  <1>3. IsWellFoundedOn(StrictSubsetOrdering(S), FiniteSubsetsOf(S))
    BY FS_StrictSubsetOrderingWellFounded
  <1>4. PICK t \in T : \A s \in T : ~ (<<s, t>> \in StrictSubsetOrdering(S))
    BY <1>2, <1>3, WFMin
  <1> QED BY <1>4 DEF StrictSubsetOrdering

\* One step of the addition.
LEMMA AddsAt ==
  ASSUME NEW g, NEW f, NEW S, Adds(g, f, S), NEW s \in SUBSET S
  PROVE  g[s] = IF s = {} THEN 0 ELSE f[Some(s)] + g[s \ {Some(s)}]
  BY DEF Adds

\* A set that is not empty has an element to take.
LEMMA SomeIn == \A s : s # {} => Some(s) \in s
  BY DEF Some

\* Additions of functions that agree on s agree on its sum, whatever else they add up.
LEMMA AddsAgree ==
  ASSUME NEW S, NEW T, NEW f, NEW e, NEW g, NEW h, Adds(g, f, S), Adds(h, e, T),
         NEW s \in SUBSET S, s \in SUBSET T, IsFiniteSet(s), \A x \in s : f[x] = e[x]
  PROVE  g[s] = h[s]
  <1> SUFFICES ASSUME g[s] # h[s] PROVE FALSE
    OBVIOUS
  <1> DEFINE B == {t \in SUBSET s : g[t] # h[t]}
  <1>1. PICK t \in B : \A u \in B : u \subseteq t => u = t
    <2>1. B \in SUBSET SUBSET s /\ B # {}
      OBVIOUS
    <2> HIDE DEF B
    <2> QED BY <2>1, MinimalSet
  <1>2. t \in SUBSET S /\ t \in SUBSET T /\ t \in SUBSET s /\ g[t] # h[t]
    OBVIOUS
  <1>3. CASE t = {}
    BY <1>2, <1>3, AddsAt
  <1>4. CASE t # {}
    <2> DEFINE x == Some(t)
    <2>1. x \in t
      BY <1>4, SomeIn
    <2>2. t \ {x} \notin B
      BY <1>1, <2>1
    <2>3. g[t \ {x}] = h[t \ {x}]
      BY <1>2, <2>2
    <2>4. g[t] = f[x] + g[t \ {x}] /\ h[t] = e[x] + h[t \ {x}]
      BY <1>2, <1>4, AddsAt
    <2> QED BY <1>2, <2>1, <2>3, <2>4
  <1> QED BY <1>3, <1>4

\* There is an addition for every finite set, so the fold is one.
LEMMA AddsExists ==
  ASSUME NEW S, IsFiniteSet(S), NEW f
  PROVE  \E g : Adds(g, f, S)
  <1> SUFFICES ASSUME ~ \E g : Adds(g, f, S) PROVE FALSE
    OBVIOUS
  <1> DEFINE B == {t \in SUBSET S : ~ \E g : Adds(g, f, t)}
  <1>1. PICK t \in B : \A u \in B : u \subseteq t => u = t
    <2>1. B \in SUBSET SUBSET S /\ B # {}
      OBVIOUS
    <2> HIDE DEF B
    <2> QED BY <2>1, MinimalSet
  <1> DEFINE G(s) == CHOOSE g : Adds(g, f, s)
             V(s) == G(s)[s]
  <1>2. ASSUME NEW s \in SUBSET t, s # t PROVE Adds(G(s), f, s)
    <2>1. s \notin B /\ s \in SUBSET S
      BY <1>1, <1>2
    <2>2. \E g : Adds(g, f, s)
      BY <2>1
    <2> QED BY <2>2
  <1>3. ASSUME NEW s \in SUBSET t, s # t, s # {}
        PROVE  V(s) = f[Some(s)] + V(s \ {Some(s)})
    <2> DEFINE r == s \ {Some(s)}
    <2>1. r \in SUBSET t /\ r # t /\ r \in SUBSET s /\ IsFiniteSet(r)
      BY <1>1, <1>3, FS_Subset
    <2>2. Adds(G(s), f, s) /\ Adds(G(r), f, r)
      BY <1>2, <1>3, <2>1
    <2>3. G(s)[s] = f[Some(s)] + G(s)[r]
      BY <1>3, <2>2, AddsAt
    <2> HIDE DEF G, r
    <2>4. G(s)[r] = G(r)[r]
      BY <2>1, <2>2, AddsAgree
    <2> QED BY <2>3, <2>4 DEF r
  <1>4. t # {} => V({}) = 0
    BY <1>2, AddsAt
  <1> DEFINE W == [s \in SUBSET t |-> IF s = {} THEN 0
                     ELSE IF s = t THEN f[Some(s)] + V(s \ {Some(s)}) ELSE V(s)]
  <1> HIDE DEF V
  <1>5. ASSUME NEW s \in SUBSET t, s # {}
        PROVE  W[s] = f[Some(s)] + W[s \ {Some(s)}]
    <2> DEFINE r == s \ {Some(s)}
    <2>1. Some(s) \in s /\ r \in SUBSET t /\ r # t
      BY <1>5, SomeIn
    <2>2. W[s] = f[Some(s)] + V(r)
      BY <1>3, <1>5
    <2>3. V(r) = W[r]
      BY <1>4, <1>5, <2>1
    <2> QED BY <2>2, <2>3
  <1>6. Adds(W, f, t)
    BY <1>5 DEF Adds
  <1> QED BY <1>1, <1>6

\* The total is the sum some addition gives.
LEMMA TotalIs ==
  ASSUME NEW S, IsFiniteSet(S), NEW f
  PROVE  \E g : Adds(g, f, S) /\ Total(f, S) = g[S]
  BY AddsExists, TotalDef

\* The empty sum.
LEMMA TotalEmpty == ASSUME NEW f PROVE Total(f, {}) = 0
  BY TotalIs, AddsAt, FS_EmptySet

\* The total depends on the values over the set only.
LEMMA TotalSame ==
  ASSUME NEW S, IsFiniteSet(S), NEW f, NEW e, \A x \in S : f[x] = e[x]
  PROVE  Total(f, S) = Total(e, S)
  BY TotalIs, AddsAgree

Ints(f, S) == \A x \in S : f[x] \in Int

\* Sums of integers are integers.
LEMMA AddsInt ==
  ASSUME NEW S, IsFiniteSet(S), NEW f, Ints(f, S), NEW g, Adds(g, f, S)
  PROVE  \A s \in SUBSET S : g[s] \in Int
  <1> DEFINE B == {t \in SUBSET S : g[t] \notin Int}
  <1> SUFFICES ASSUME B # {} PROVE FALSE
    OBVIOUS
  <1>1. PICK t \in B : \A u \in B : u \subseteq t => u = t
    <2> HIDE DEF B
    <2>1. B \in SUBSET SUBSET S
      BY DEF B
    <2> QED BY <2>1, MinimalSet
  <1>2. t # {}
    <2>1. t \in SUBSET S /\ g[t] \notin Int
      OBVIOUS
    <2>2. t = {} => g[t] = 0
      BY <2>1, AddsAt
    <2> QED BY <2>1, <2>2
  <1>3. Some(t) \in t /\ t \ {Some(t)} \notin B
    BY <1>1, <1>2, SomeIn
  <1>4. g[t] = f[Some(t)] + g[t \ {Some(t)}]
    BY <1>2, AddsAt
  <1> QED BY <1>3, <1>4 DEF Ints

AnyOrder(g, f, S) == \A s \in SUBSET S : \A y \in s : g[s] = f[y] + g[s \ {y}]

\* The order of the addition does not matter: any element may come first.
LEMMA AddsAny ==
  ASSUME NEW S, IsFiniteSet(S), NEW f, Ints(f, S), NEW g, Adds(g, f, S)
  PROVE  AnyOrder(g, f, S)
  <1> DEFINE B == {t \in SUBSET S : \E y \in t : g[t] # f[y] + g[t \ {y}]}
  <1> SUFFICES ASSUME B # {} PROVE FALSE
    BY DEF AnyOrder
  <1>1. PICK t \in B : \A u \in B : u \subseteq t => u = t
    <2> HIDE DEF B
    <2>1. B \in SUBSET SUBSET S
      BY DEF B
    <2> QED BY <2>1, MinimalSet
  <1>2. PICK y \in t : g[t] # f[y] + g[t \ {y}]
    OBVIOUS
  <1> DEFINE x == Some(t)
             r == (t \ {x}) \ {y}
  <1>3. x \in t /\ g[t] = f[x] + g[t \ {x}]
    <2>1. t # {} /\ t \in SUBSET S
      BY <1>2
    <2>2. x \in t
      BY <2>1, SomeIn
    <2>3. g[t] = IF t = {} THEN 0 ELSE f[Some(t)] + g[t \ {Some(t)}]
      BY <2>1, AddsAt
    <2> QED BY <2>1, <2>2, <2>3
  <1>4. x # y
    BY <1>2, <1>3
  <1>5. t \ {x} \notin B /\ t \ {y} \notin B
    BY <1>1, <1>3
  <1>6. g[t \ {x}] = f[y] + g[r]
    BY <1>4, <1>5
  <1>7. g[t \ {y}] = f[x] + g[r]
    <2>1. (t \ {y}) \ {x} = r
      OBVIOUS
    <2> QED BY <1>3, <1>4, <1>5, <2>1
  <1>8. g[r] \in Int /\ f[x] \in Int /\ f[y] \in Int
    <2>1. r \in SUBSET S /\ x \in S /\ y \in S
      BY <1>3
    <2> QED BY <2>1, AddsInt DEF Ints
  <1> QED BY <1>2, <1>3, <1>6, <1>7, <1>8

\* The same of the total.
LEMMA TotalInt ==
  ASSUME NEW S, IsFiniteSet(S), NEW f, \A x \in S : f[x] \in Int
  PROVE  Total(f, S) \in Int
  <1>1. Ints(f, S)
    BY DEF Ints
  <1>2. PICK g : Adds(g, f, S) /\ Total(f, S) = g[S]
    BY TotalIs
  <1>3. \A s \in SUBSET S : g[s] \in Int
    BY <1>1, <1>2, AddsInt
  <1> QED BY <1>2, <1>3

\* One element more adds its value to the total.
LEMMA TotalAdd ==
  ASSUME NEW S, IsFiniteSet(S), NEW y \in S, NEW f, \A x \in S : f[x] \in Int
  PROVE  Total(f, S) = f[y] + Total(f, S \ {y})
  <1>1. PICK g : Adds(g, f, S) /\ Total(f, S) = g[S]
    BY TotalIs
  <1>2. IsFiniteSet(S \ {y})
    BY FS_Subset
  <1>3. PICK h : Adds(h, f, S \ {y}) /\ Total(f, S \ {y}) = h[S \ {y}]
    BY <1>2, TotalIs
  <1>4. g[S \ {y}] = h[S \ {y}]
    BY <1>1, <1>2, <1>3, AddsAgree
  <1>5. g[S] = f[y] + g[S \ {y}]
    <2>1. Ints(f, S)
      BY DEF Ints
    <2>2. AnyOrder(g, f, S)
      BY <1>1, <2>1, AddsAny
    <2> QED BY <2>2 DEF AnyOrder
  <1> QED BY <1>1, <1>3, <1>4, <1>5

\* Less adds up to less, if what is missing is not negative.
LEMMA TotalSubset ==
  ASSUME NEW S, IsFiniteSet(S), NEW T \in SUBSET S, NEW f, \A x \in S : f[x] \in Int,
         \A x \in S \ T : 0 <= f[x]
  PROVE  Total(f, T) <= Total(f, S)
  <1> DEFINE B == {R \in SUBSET S : T \subseteq R /\ ~ (Total(f, T) <= Total(f, R))}
  <1> SUFFICES ASSUME B # {} PROVE FALSE
    OBVIOUS
  <1>1. PICK R \in B : \A Q \in B : Q \subseteq R => Q = R
    <2> HIDE DEF B
    <2>1. B \in SUBSET SUBSET S
      BY DEF B
    <2> QED BY <2>1, MinimalSet
  <1>2. R \in SUBSET S /\ T \subseteq R /\ ~ (Total(f, T) <= Total(f, R))
    OBVIOUS
  <1>3. IsFiniteSet(T) /\ IsFiniteSet(R)
    BY <1>2, FS_Subset
  <1>4. Total(f, T) \in Int /\ Total(f, R) \in Int
    BY <1>2, <1>3, TotalInt
  <1>5. PICK y \in R : y \notin T
    BY <1>2, <1>4
  <1>6. R \ {y} \notin B
    BY <1>1, <1>5
  <1>7. Total(f, T) <= Total(f, R \ {y})
    BY <1>2, <1>5, <1>6
  <1>8. Total(f, R) = f[y] + Total(f, R \ {y})
    BY <1>2, <1>3, TotalAdd
  <1>9. Total(f, R \ {y}) \in Int
    <2>1. IsFiniteSet(R \ {y})
      BY <1>3, FS_RemoveElement
    <2> QED BY <1>2, <2>1, TotalInt
  <1>10. 0 <= f[y] /\ f[y] \in Int
    BY <1>2, <1>5
  <1> QED BY <1>2, <1>4, <1>7, <1>8, <1>9, <1>10

----------------------------------------------------------------------------
(***************************************************************************)
(* Tables.                                                                 *)
(***************************************************************************)
\* What the requests count and add up.
LEMMA Counted ==
  \A d : MailboxesIn(d) = UsersIn(mailbox, d) /\ QuotaIn(d) = QuotaOf(mailbox, d)
  BY DEF MailboxesIn, QuotaIn, UsersIn, QuotaOf, Total

\* The quotas of a snapshot.
Quotas(m) == [u \in DOMAIN m |-> m[u].quota]

\* They add up over the finitely many users of a domain.
LEMMA SnapFacts ==
  ASSUME NEW m, RowsOk(m), NEW d
  PROVE  /\ IsFiniteSet(UsersIn(m, d)) /\ Cardinality(UsersIn(m, d)) \in Nat
         /\ \A u \in DOMAIN m : Quotas(m)[u] = m[u].quota /\ m[u].quota \in Int
         /\ QuotaOf(m, d) = Total(Quotas(m), UsersIn(m, d)) /\ QuotaOf(m, d) \in Int
  <1>1. UsersIn(m, d) \in SUBSET DOMAIN m
    BY DEF UsersIn
  <1>2. IsFiniteSet(UsersIn(m, d))
    BY <1>1, FS_Subset DEF RowsOk
  <1>3. Cardinality(UsersIn(m, d)) \in Nat
    BY <1>2, FS_CardinalityType
  <1>4. \A u \in DOMAIN m : Quotas(m)[u] = m[u].quota /\ m[u].quota \in Int
    BY DEF RowsOk, Table, Mailbox, Quotas
  <1>5. QuotaOf(m, d) = Total(Quotas(m), UsersIn(m, d))
    BY DEF QuotaOf, Quotas
  <1>6. Total(Quotas(m), UsersIn(m, d)) \in Int
    BY <1>1, <1>2, <1>4, TotalInt
  <1> QED BY <1>2, <1>3, <1>4, <1>5, <1>6

\* A domain whose users keep their rows keeps its sums.
LEMMA SameUsers ==
  ASSUME NEW m, RowsOk(m), NEW n, RowsOk(n), NEW d, UsersIn(n, d) = UsersIn(m, d),
         \A u \in UsersIn(m, d) : n[u] = m[u]
  PROVE  QuotaOf(n, d) = QuotaOf(m, d)
  <1>1. \A u \in UsersIn(m, d) : u \in DOMAIN m /\ u \in DOMAIN n
    BY DEF UsersIn
  <1>2. \A u \in UsersIn(m, d) : Quotas(n)[u] = Quotas(m)[u]
    BY <1>1, SnapFacts
  <1>3. Total(Quotas(n), UsersIn(m, d)) = Total(Quotas(m), UsersIn(m, d))
    BY <1>2, SnapFacts, TotalSame
  <1> QED BY <1>3, SnapFacts

\* A new mailbox.
LEMMA PutMailbox ==
  ASSUME NEW m, RowsOk(m), NEW u \in User, u \notin DOMAIN m, NEW r \in Mailbox
  PROVE  LET n == Put(m, u, r)
             e == DomainOf[u]
         IN  /\ RowsOk(n) /\ DOMAIN n = DOMAIN m \cup {u}
             /\ Cardinality(UsersIn(n, e)) = Cardinality(UsersIn(m, e)) + 1
             /\ QuotaOf(n, e) = QuotaOf(m, e) + r.quota
             /\ \A d : d # e => /\ UsersIn(n, d) = UsersIn(m, d)
                                /\ QuotaOf(n, d) = QuotaOf(m, d)
  <1> DEFINE n == Put(m, u, r)
             e == DomainOf[u]
  <1>1. /\ DOMAIN n = DOMAIN m \cup {u} /\ n[u] = r /\ n = [x \in DOMAIN n |-> n[x]]
        /\ \A x \in DOMAIN m : n[x] = m[x]
    BY DEF Put
  <1>2. RowsOk(n)
    <2>1. IsFiniteSet(DOMAIN n)
      BY <1>1, FS_AddElement DEF RowsOk
    <2> HIDE DEF n
    <2> QED BY <1>1, <2>1 DEF RowsOk, Table
  <1> HIDE DEF n
  <1>3. UsersIn(n, e) = UsersIn(m, e) \cup {u} /\ \A d : d # e => UsersIn(n, d) = UsersIn(m, d)
    BY <1>1 DEF UsersIn
  <1>4. u \notin UsersIn(m, e) /\ UsersIn(n, e) \ {u} = UsersIn(m, e)
    BY <1>3 DEF UsersIn
  <1>5. Cardinality(UsersIn(n, e)) = Cardinality(UsersIn(m, e)) + 1
    BY <1>3, <1>4, SnapFacts, FS_AddElement
  <1>6. \A d : d # e => QuotaOf(n, d) = QuotaOf(m, d)
    <2> SUFFICES ASSUME NEW d, d # e PROVE QuotaOf(n, d) = QuotaOf(m, d)
      OBVIOUS
    <2>1. \A x \in UsersIn(m, d) : n[x] = m[x]
      BY <1>1 DEF UsersIn
    <2> QED BY <1>2, <1>3, <2>1, SameUsers
  <1>7. QuotaOf(n, e) = QuotaOf(m, e) + r.quota
    <2>1. u \in UsersIn(n, e) /\ IsFiniteSet(UsersIn(n, e))
      BY <1>2, <1>3, SnapFacts
    <2>2. \A x \in UsersIn(n, e) : Quotas(n)[x] \in Int
      BY <1>2, SnapFacts DEF UsersIn
    <2>3. Total(Quotas(n), UsersIn(n, e)) = Quotas(n)[u] + Total(Quotas(n), UsersIn(m, e))
      BY <1>4, <2>1, <2>2, TotalAdd
    <2>4. \A x \in UsersIn(m, e) : Quotas(n)[x] = Quotas(m)[x]
      BY <1>1 DEF UsersIn, Quotas
    <2>5. Total(Quotas(n), UsersIn(m, e)) = Total(Quotas(m), UsersIn(m, e))
      BY <2>4, SnapFacts, TotalSame
    <2>6. Quotas(n)[u] = r.quota
      BY <1>1 DEF Quotas
    <2>7. QuotaOf(n, e) = Total(Quotas(n), UsersIn(n, e))
      BY <1>2, SnapFacts
    <2>8. QuotaOf(m, e) = Total(Quotas(m), UsersIn(m, e)) /\ QuotaOf(m, e) \in Int
      BY SnapFacts
    <2>9. r.quota \in Int
      BY DEF Mailbox
    <2> QED BY <2>3, <2>5, <2>6, <2>7, <2>8, <2>9
  <1> QED BY <1>1, <1>2, <1>3, <1>5, <1>6, <1>7 DEF n

\* A mailbox with another row.
LEMMA ChangeRow ==
  ASSUME NEW m, RowsOk(m), NEW u \in DOMAIN m, NEW r \in Mailbox
  PROVE  RowsOk([m EXCEPT ![u] = r])
  BY DEF RowsOk, Table

\* The sums after such a change.
LEMMA ChangeMailbox ==
  ASSUME NEW m, RowsOk(m), NEW u \in DOMAIN m, NEW r \in Mailbox, NEW n, RowsOk(n),
         DOMAIN n = DOMAIN m, n[u] = r, \A x \in DOMAIN m : x # u => n[x] = m[x]
  PROVE  LET e == DomainOf[u]
         IN  /\ \A d : UsersIn(n, d) = UsersIn(m, d)
             /\ QuotaOf(n, e) = QuotaOf(m, e) - m[u].quota + r.quota
             /\ \A d : d # e => QuotaOf(n, d) = QuotaOf(m, d)
  <1> DEFINE e == DomainOf[u]
             S == UsersIn(m, e)
  <1>1. /\ DOMAIN n = DOMAIN m /\ n[u] = r
        /\ \A x \in DOMAIN m : x # u => n[x] = m[x]
    OBVIOUS
  <1>2. RowsOk(n)
    OBVIOUS
  <1>3. \A d : UsersIn(n, d) = UsersIn(m, d)
    BY <1>1 DEF UsersIn
  <1>4. \A d : d # e => QuotaOf(n, d) = QuotaOf(m, d)
    <2> SUFFICES ASSUME NEW d, d # e PROVE QuotaOf(n, d) = QuotaOf(m, d)
      OBVIOUS
    <2>1. \A x \in UsersIn(m, d) : n[x] = m[x]
      BY <1>1 DEF UsersIn
    <2> QED BY <1>2, <1>3, <2>1, SameUsers
  <1>5. QuotaOf(n, e) = QuotaOf(m, e) - m[u].quota + r.quota
    <2>1. u \in S /\ IsFiniteSet(S) /\ IsFiniteSet(S \ {u}) /\ UsersIn(n, e) = S
      <3>1. u \in S
        BY DEF UsersIn
      <3>2. IsFiniteSet(S)
        BY SnapFacts
      <3> HIDE DEF S
      <3>3. IsFiniteSet(S \ {u})
        BY <3>2, FS_RemoveElement
      <3> QED BY <1>3, <3>1, <3>2, <3>3 DEF S
    <2>2. (\A x \in S : Quotas(n)[x] \in Int) /\ \A x \in S : Quotas(m)[x] \in Int
      BY <1>1, <1>2, SnapFacts DEF UsersIn
    <2> HIDE DEF S
    <2>3. Total(Quotas(n), S) = Quotas(n)[u] + Total(Quotas(n), S \ {u})
      BY <2>1, <2>2, TotalAdd
    <2>4. Total(Quotas(m), S) = Quotas(m)[u] + Total(Quotas(m), S \ {u})
      BY <2>1, <2>2, TotalAdd
    <2>5. \A x \in S \ {u} : Quotas(n)[x] = Quotas(m)[x]
      BY <1>1 DEF UsersIn, Quotas, S
    <2>6. Total(Quotas(n), S \ {u}) = Total(Quotas(m), S \ {u})
      BY <2>1, <2>5, TotalSame
    <2>7. Total(Quotas(m), S \ {u}) \in Int
      BY <2>1, <2>2, TotalInt
    <2>8. Quotas(n)[u] = r.quota /\ Quotas(m)[u] = m[u].quota
      BY <1>1 DEF Quotas
    <2>9. r.quota \in Int /\ m[u].quota \in Int
      BY SnapFacts DEF Mailbox
    <2>10. QuotaOf(n, e) = Total(Quotas(n), S) /\ QuotaOf(m, e) = Total(Quotas(m), S)
      BY <1>2, <2>1, SnapFacts DEF S
    <2> QED BY <2>3, <2>4, <2>6, <2>7, <2>8, <2>9, <2>10
  <1> QED BY <1>3, <1>4, <1>5

\* A table with fewer mailboxes of a domain, the others unchanged.
LEMMA FewerMailboxes ==
  ASSUME NEW m, RowsOk(m), NEW n, RowsOk(n), NEW d,
         \A u \in UsersIn(n, d) : u \in DOMAIN m /\ n[u] = m[u],
         \A u \in UsersIn(m, d) : u \notin DOMAIN n => 0 <= m[u].quota
  PROVE  /\ UsersIn(n, d) \subseteq UsersIn(m, d)
         /\ Cardinality(UsersIn(n, d)) <= Cardinality(UsersIn(m, d))
         /\ QuotaOf(n, d) <= QuotaOf(m, d)
  <1> DEFINE S == UsersIn(m, d)
             T == UsersIn(n, d)
  <1>1. T \in SUBSET S /\ \A u \in S \ T : u \notin DOMAIN n
    BY DEF UsersIn
  <1>2. IsFiniteSet(S) /\ IsFiniteSet(T)
    BY SnapFacts
  <1>3. \A u \in S : Quotas(m)[u] \in Int
    BY SnapFacts DEF UsersIn
  <1>4. \A u \in S \ T : 0 <= Quotas(m)[u]
    BY <1>1, SnapFacts DEF UsersIn
  <1>5. \A u \in T : Quotas(n)[u] = Quotas(m)[u]
    BY SnapFacts DEF UsersIn
  <1>6. QuotaOf(m, d) = Total(Quotas(m), S) /\ QuotaOf(n, d) = Total(Quotas(n), T)
    BY SnapFacts
  <1> HIDE DEF S, T
  <1>7. Cardinality(T) <= Cardinality(S)
    BY <1>1, <1>2, FS_Subset
  <1>8. Total(Quotas(n), T) = Total(Quotas(m), T)
    BY <1>2, <1>5, TotalSame
  <1>9. Total(Quotas(m), T) <= Total(Quotas(m), S)
    BY <1>1, <1>2, <1>3, <1>4, TotalSubset
  <1> QED BY <1>1, <1>6, <1>7, <1>8, <1>9 DEF S, T

\* A mailbox less.
LEMMA DropMailbox ==
  ASSUME NEW m, RowsOk(m), NEW u
  PROVE  LET n == Drop(m, {u})
         IN  /\ RowsOk(n) /\ DOMAIN n = DOMAIN m \ {u}
             /\ \A x \in DOMAIN n : n[x] = m[x]
  <1> DEFINE n == Drop(m, {u})
  <1>1. /\ DOMAIN n = DOMAIN m \ {u} /\ n = [x \in DOMAIN n |-> n[x]]
        /\ \A x \in DOMAIN n : n[x] = m[x]
    BY DEF Drop, Restrict
  <1> HIDE DEF n
  <1>2. IsFiniteSet(DOMAIN n)
    BY <1>1, FS_RemoveElement DEF RowsOk
  <1>3. RowsOk(n)
    BY <1>1, <1>2 DEF RowsOk, Table
  <1> QED BY <1>1, <1>3 DEF n

----------------------------------------------------------------------------
(***************************************************************************)
(* The invariant is kept.                                                  *)
(***************************************************************************)
\* No request is open, no check outstanding.
LEMMA NoTxnOk == TxnOk(NoTxn)
  BY DEF TxnOk, NoTxn

\* Initially there are no rows and no requests.
LEMMA AccountsInit == Init => AccountsInv
  <1> SUFFICES ASSUME Init PROVE AccountsInv
    OBVIOUS
  <1>1. DOMAIN NoRows = {} /\ NoRows = [x \in {} |-> NoRows[x]]
    BY DEF NoRows
  <1>2. TablesOk
    BY <1>1, FS_EmptySet DEF Init, TablesOk, RowsOk, Table
  <1>3. TxnInv
    BY NoTxnOk DEF Init, TxnInv
  <1> QED BY <1>2, <1>3 DEF AccountsInv

\* A step that leaves the tables well typed and every open request checked.
LEMMA Kept ==
  ASSUME Table(domain', Domain, Limit), RowsOk(mailbox'), DOMAIN alias' \subseteq Address,
         txn' = [w \in Workers |-> txn'[w]], \A w \in Workers : TxnOk(txn'[w])
  PROVE  AccountsInv'
  <1>1. TablesOk'
    BY DEF TablesOk, RowsOk, Table
  <1>2. TxnInv'
    BY DEF TxnInv, TxnOk, UpdateDomainOk, CreateMailboxOk, UpdateMailboxOk, CreateAliasOk
  <1> QED BY <1>1, <1>2 DEF AccountsInv

\* A request begins, ends or goes on: the others are what they were.
LEMMA Requests ==
  ASSUME AccountsInv, NEW w \in Workers, NEW t, TxnOk(t),
         txn' = txn \/ txn' = [txn EXCEPT ![w] = t]
  PROVE  txn' = [v \in Workers |-> txn'[v]] /\ \A v \in Workers : TxnOk(txn'[v])
  BY DEF AccountsInv, TablesOk, TxnInv

\* A request begins.
LEMMA BeginStep ==
  ASSUME AccountsInv, NEW w \in Workers, NEW t, Begin(w, t), TxnOk(t)
  PROVE  AccountsInv'
  <1>1. txn' = [txn EXCEPT ![w] = t] /\ domain' = domain /\ mailbox' = mailbox /\ alias' = alias
    BY DEF Begin
  <1>2. txn' = [v \in Workers |-> txn'[v]] /\ \A v \in Workers : TxnOk(txn'[v])
    BY <1>1, Requests
  <1> QED BY <1>1, <1>2, Kept DEF AccountsInv, TablesOk

\* The checks of the requests that begin.
LEMMA RequestsBegin ==
  ASSUME AccountsInv, NEW w \in Workers,
         \/ \E d \in Domain, l \in Limits : UpdateDomain(w, d, l)
         \/ \E d \in Domain : DeleteDomain(w, d)
         \/ \E u \in User, m \in Rows : CreateMailbox(w, u, m) \/ UpdateMailbox(w, u, m)
         \/ \E a \in Address, g \in Gotos : CreateAlias(w, a, g) \/ UpdateAlias(w, a, g)
  PROVE  AccountsInv'
  <1>1. Limits \subseteq Limit /\ Rows \subseteq Mailbox
    BY AccountsAssumption
  <1>2. SnapOk(Snapshot) /\ Snapshot.domain = domain /\ Snapshot.mailbox = mailbox
    BY DEF AccountsInv, TablesOk, SnapOk, Snapshot
  <1>3. ASSUME NEW d \in Domain, NEW l \in Limits, UpdateDomain(w, d, l) PROVE AccountsInv'
    <2> DEFINE t == [op |-> "update_domain", dom |-> d, new |-> l, snap |-> Snapshot]
    <2>1. Begin(w, t) /\ QuotaIn(d) <= l.quota /\ Cardinality(MailboxesIn(d)) <= l.mailboxes
      BY <1>3 DEF UpdateDomain
    <2>2. UpdateDomainOk(t)
      BY <1>1, <1>2, <2>1, Counted DEF UpdateDomainOk
    <2>3. TxnOk(t)
      BY <2>2 DEF TxnOk
    <2> HIDE DEF t
    <2> QED BY <2>1, <2>3, BeginStep
  <1>4. ASSUME NEW d \in Domain, DeleteDomain(w, d) PROVE AccountsInv'
    <2> DEFINE t == [op |-> "delete_domain", dom |-> d, rows |-> RowsOf(d)]
    <2>1. Begin(w, t)
      BY <1>4 DEF DeleteDomain
    <2>2. TxnOk(t)
      BY DEF TxnOk
    <2> HIDE DEF t
    <2> QED BY <2>1, <2>2, BeginStep
  <1>5. ASSUME NEW u \in User, NEW m \in Rows, CreateMailbox(w, u, m) PROVE AccountsInv'
    <2> DEFINE t == [op |-> "create_mailbox", user |-> u, new |-> m, snap |-> Snapshot]
    <2>1. /\ Begin(w, t) /\ DomainOf[u] \in DOMAIN domain
          /\ Cardinality(MailboxesIn(DomainOf[u])) < domain[DomainOf[u]].mailboxes
          /\ QuotaIn(DomainOf[u]) + m.quota <= domain[DomainOf[u]].quota
      BY <1>5 DEF CreateMailbox
    <2>2. CreateMailboxOk(t)
      BY <1>1, <1>2, <2>1, Counted DEF CreateMailboxOk
    <2>3. TxnOk(t)
      BY <2>2 DEF TxnOk
    <2> HIDE DEF t
    <2> QED BY <2>1, <2>3, BeginStep
  <1>6. ASSUME NEW u \in User, NEW m \in Rows, UpdateMailbox(w, u, m) PROVE AccountsInv'
    <2> DEFINE t == [op |-> "update_mailbox", user |-> u, new |-> m, snap |-> Snapshot]
               d == DomainOf[u]
    <2>1. /\ Begin(w, t) /\ u \in DOMAIN mailbox
          /\ m.quota # mailbox[u].quota =>
               /\ d \in DOMAIN domain
               /\ m.quota <= domain[d].quota - (QuotaIn(d) - mailbox[u].quota)
      BY <1>6 DEF UpdateMailbox
    <2>2. m.quota # mailbox[u].quota =>
            QuotaOf(mailbox, d) - mailbox[u].quota + m.quota <= domain[d].quota
      <3>1. m.quota \in Int /\ mailbox[u].quota \in Int
        BY <1>1, <2>1 DEF AccountsInv, TablesOk, RowsOk, Table, Mailbox
      <3>2. QuotaIn(d) = QuotaOf(mailbox, d)
        BY Counted
      <3>3. QuotaOf(mailbox, d) \in Int
        BY SnapFacts DEF AccountsInv, TablesOk
      <3>4. d \in DOMAIN domain => domain[d].quota \in Int
        BY DEF AccountsInv, TablesOk, Table, Limit
      <3> QED BY <2>1, <3>1, <3>2, <3>3, <3>4
    <2>3. UpdateMailboxOk(t)
      BY <1>1, <1>2, <2>1, <2>2 DEF UpdateMailboxOk
    <2>4. TxnOk(t)
      BY <2>3 DEF TxnOk
    <2> HIDE DEF t
    <2> QED BY <2>1, <2>4, BeginStep
  <1>7. ASSUME NEW a \in Address, NEW g \in Gotos, CreateAlias(w, a, g) PROVE AccountsInv'
    <2> DEFINE t == [op |-> "create_alias", addr |-> a, goto |-> g, snap |-> [domain |-> domain]]
    <2>1. Begin(w, t) /\ DomainOf[a] \in DOMAIN domain
      BY <1>7 DEF CreateAlias
    <2>2. TxnOk(t)
      BY <2>1 DEF TxnOk, CreateAliasOk
    <2> HIDE DEF t
    <2> QED BY <2>1, <2>2, BeginStep
  <1>8. ASSUME NEW a \in Address, NEW g \in Gotos, UpdateAlias(w, a, g) PROVE AccountsInv'
    <2> DEFINE t == [op |-> "update_alias", addr |-> a, goto |-> g, old |-> alias[a]]
    <2>1. Begin(w, t)
      BY <1>8 DEF UpdateAlias
    <2>2. TxnOk(t)
      BY DEF TxnOk
    <2> HIDE DEF t
    <2> QED BY <2>1, <2>2, BeginStep
  <1> QED BY <1>3, <1>4, <1>5, <1>6, <1>7, <1>8

\* The tables after the steps that change them.
LEMMA TablesStep ==
  ASSUME AccountsInv, NEW w \in Workers,
         \/ \E d \in Domain, l \in Limits : CreateDomain(w, d, l)
         \/ \E u \in User : DeleteMailbox(w, u)
         \/ \E a \in Address : DeleteAlias(w, a)
         \/ UpdateDomainCommit(w) \/ DeleteDomainCommit(w)
         \/ CreateMailboxCommit(w) \/ UpdateMailboxCommit(w)
         \/ CreateAliasCommit(w) \/ UpdateAliasCommit(w) \/ Rollback(w)
  PROVE  AccountsInv'
  <1>1. txn' = [v \in Workers |-> txn'[v]] /\ \A v \in Workers : TxnOk(txn'[v])
    <2>1. txn' = txn \/ txn' = [txn EXCEPT ![w] = NoTxn]
      BY DEF CreateDomain, DeleteMailbox, DeleteAlias, UpdateDomainCommit, DeleteDomainCommit,
             CreateMailboxCommit, UpdateMailboxCommit, CreateAliasCommit, UpdateAliasCommit,
             Rollback, Free, Ending
    <2> QED BY <2>1, NoTxnOk, Requests
  <1>2. TxnOk(txn[w])
    BY DEF AccountsInv, TxnInv
  <1>3. Table(domain, Domain, Limit) /\ RowsOk(mailbox) /\ DOMAIN alias \subseteq Address
    BY DEF AccountsInv, TablesOk
  <1>4. ASSUME NEW d \in Domain, NEW l \in Limits, CreateDomain(w, d, l) PROVE AccountsInv'
    <2>1. domain' = Put(domain, d, l) /\ mailbox' = mailbox /\ alias' = alias /\ l \in Limit
      BY <1>4, AccountsAssumption DEF CreateDomain
    <2>2. Table(domain', Domain, Limit)
      BY <1>3, <2>1 DEF Put, Table
    <2> QED BY <1>1, <1>3, <2>1, <2>2, Kept
  <1>5. ASSUME NEW u \in User, DeleteMailbox(w, u) PROVE AccountsInv'
    <2>1. domain' = domain /\ mailbox' = Drop(mailbox, {u}) /\ DOMAIN alias' \subseteq DOMAIN alias
      BY <1>5 DEF DeleteMailbox
    <2>2. RowsOk(mailbox')
      BY <1>3, <2>1, DropMailbox
    <2> QED BY <1>1, <1>3, <2>1, <2>2, Kept
  <1>6. ASSUME NEW a \in Address, DeleteAlias(w, a) PROVE AccountsInv'
    <2>1. domain' = domain /\ mailbox' = mailbox /\ DOMAIN alias' \subseteq DOMAIN alias
      BY <1>6 DEF DeleteAlias, Drop, Restrict
    <2> QED BY <1>1, <1>3, <2>1, Kept
  <1>7. CASE UpdateDomainCommit(w)
    <2>1. /\ domain' = [domain EXCEPT ![txn[w].dom] = txn[w].new] /\ mailbox' = mailbox
          /\ alias' = alias /\ txn[w].op = "update_domain"
      BY <1>7 DEF UpdateDomainCommit, Ending
    <2>2. txn[w].new \in Limit
      BY <1>2, <2>1 DEF TxnOk, UpdateDomainOk
    <2>3. Table(domain', Domain, Limit)
      BY <1>3, <2>1, <2>2 DEF Table
    <2> QED BY <1>1, <1>3, <2>1, <2>3, Kept
  <1>8. CASE DeleteDomainCommit(w)
    <2>1. domain' = Drop(domain, {txn[w].dom}) /\ mailbox' = mailbox /\ DOMAIN alias' \subseteq DOMAIN alias
      BY <1>8 DEF DeleteDomainCommit, Drop, Restrict
    <2>2. Table(domain', Domain, Limit)
      BY <1>3, <2>1 DEF Table, Drop, Restrict
    <2> QED BY <1>1, <1>3, <2>1, <2>2, Kept
  <1>9. CASE CreateMailboxCommit(w)
    <2>1. /\ domain' = domain /\ mailbox' = Put(mailbox, txn[w].user, txn[w].new)
          /\ alias' = Put(alias, txn[w].user, <<txn[w].user>>)
          /\ txn[w].op = "create_mailbox" /\ txn[w].user \notin DOMAIN mailbox
      BY <1>9 DEF CreateMailboxCommit, Ending
    <2>2. txn[w].user \in User /\ txn[w].new \in Mailbox
      BY <1>2, <2>1 DEF TxnOk, CreateMailboxOk
    <2>3. RowsOk(mailbox')
      BY <1>3, <2>1, <2>2, PutMailbox
    <2>4. DOMAIN alias' \subseteq Address
      BY <1>3, <2>1, <2>2, AccountsAssumption DEF Put
    <2> QED BY <1>1, <1>3, <2>1, <2>3, <2>4, Kept
  <1>10. CASE UpdateMailboxCommit(w)
    <2>1. /\ domain' = domain /\ mailbox' = [mailbox EXCEPT ![txn[w].user] = txn[w].new]
          /\ alias' = alias /\ txn[w].op = "update_mailbox" /\ txn[w].user \in DOMAIN mailbox
      BY <1>10 DEF UpdateMailboxCommit, Ending, Active
    <2>2. txn[w].new \in Mailbox
      BY <1>2, <2>1 DEF TxnOk, UpdateMailboxOk
    <2>3. RowsOk(mailbox')
      BY <1>3, <2>1, <2>2, ChangeRow
    <2> QED BY <1>1, <1>3, <2>1, <2>3, Kept
  <1>11. CASE CreateAliasCommit(w)
    <2>1. /\ domain' = domain /\ mailbox' = mailbox /\ txn[w].op = "create_alias"
          /\ alias' = Put(alias, txn[w].addr, txn[w].goto)
      BY <1>11 DEF CreateAliasCommit, Ending
    <2>2. DOMAIN alias' \subseteq Address
      BY <1>2, <1>3, <2>1 DEF TxnOk, CreateAliasOk, Put
    <2> QED BY <1>1, <1>3, <2>1, <2>2, Kept
  <1>12. CASE UpdateAliasCommit(w) \/ Rollback(w)
    <2>1. domain' = domain /\ mailbox' = mailbox /\ DOMAIN alias' \subseteq DOMAIN alias
      BY <1>12 DEF UpdateAliasCommit, Rollback
    <2> QED BY <1>1, <1>3, <2>1, Kept
  <1> QED BY <1>4, <1>5, <1>6, <1>7, <1>8, <1>9, <1>10, <1>11, <1>12

\* Every step keeps the invariant.
LEMMA AccountsStep ==
  ASSUME AccountsInv, [Next]_vars
  PROVE  AccountsInv'
  <1>1. CASE UNCHANGED vars
    BY <1>1 DEF vars, AccountsInv, TablesOk, RowsOk, Table, TxnInv, TxnOk, UpdateDomainOk,
                CreateMailboxOk, UpdateMailboxOk, CreateAliasOk
  <1>2. CASE Next
    <2>1. PICK w \in Workers : DomainRequest(w) \/ MailboxRequest(w) \/ AliasRequest(w) \/ Rollback(w)
      BY <1>2 DEF Next
    <2>2. CASE DomainRequest(w)
      BY <2>2, RequestsBegin, TablesStep DEF DomainRequest
    <2>3. CASE MailboxRequest(w)
      BY <2>3, RequestsBegin, TablesStep DEF MailboxRequest
    <2>4. CASE AliasRequest(w) \/ Rollback(w)
      BY <2>4, RequestsBegin, TablesStep DEF AliasRequest
    <2> QED BY <2>1, <2>2, <2>3, <2>4
  <1> QED BY <1>1, <1>2

----------------------------------------------------------------------------
(***************************************************************************)
(* The limits of a domain.                                                 *)
(***************************************************************************)
\* Domain d with limits l is within them in table m.
Fits(l, m, d) ==
  UsersIn(m, d) # {} =>
    /\ Cardinality(UsersIn(m, d)) <= l.mailboxes
    /\ QuotaOf(m, d) <= l.quota

\* This is what Within says, before and after a step.
LEMMA WithinIsFits ==
  ASSUME NEW d
  PROVE  /\ Within(d) <=> Fits(domain[d], mailbox, d)
         /\ Within(d)' <=> Fits(domain'[d], mailbox', d)
  <1>1. Within(d) <=> Fits(domain[d], mailbox, d)
    BY DEF Within, Fits, MailboxesIn, QuotaIn, UsersIn, QuotaOf, Total
  <1>2. (MailboxesIn(d))' = UsersIn(mailbox', d)
    BY DEF MailboxesIn, UsersIn
  <1>3. (QuotaIn(d))' = QuotaOf(mailbox', d)
    <2> DEFINE f == [u \in DOMAIN mailbox' |-> mailbox'[u].quota]
               S == (MailboxesIn(d))'
    <2>1. (QuotaIn(d))' = (CHOOSE g : Adds(g, f, S))[S]
      BY DEF QuotaIn, FoldFunctionOnSet, MapThenFoldSet, Adds, Some
    <2>2. S = UsersIn(mailbox', d)
      BY <1>2
    <2>3. QuotaOf(mailbox', d) = Total(f, S)
      BY <2>2 DEF QuotaOf
    <2> HIDE DEF f, S
    <2> QED BY <2>1, <2>3, TotalDef
  <1>4. Within(d)' <=> Fits(domain'[d], mailbox', d)
    BY <1>2, <1>3 DEF Within, Fits
  <1> QED BY <1>1, <1>4

\* A snapshot that is not outdated has the limits of the domain, and no fewer
\* mailboxes and no smaller sum than there are now.
LEMMA NotOutdated ==
  ASSUME NEW s, SnapOk(s), RowsOk(mailbox), NEW d, ~ Outdated(s, d)
  PROVE  /\ d \in DOMAIN s.domain /\ s.domain[d] = domain[d]
         /\ UsersIn(mailbox, d) \subseteq UsersIn(s.mailbox, d)
         /\ Cardinality(UsersIn(mailbox, d)) <= Cardinality(UsersIn(s.mailbox, d))
         /\ QuotaOf(mailbox, d) <= QuotaOf(s.mailbox, d)
         /\ Cardinality(UsersIn(mailbox, d)) \in Nat /\ QuotaOf(mailbox, d) \in Int
         /\ Cardinality(UsersIn(s.mailbox, d)) \in Nat /\ QuotaOf(s.mailbox, d) \in Int
  <1>1. d \in DOMAIN s.domain /\ s.domain[d] = domain[d]
    BY DEF Outdated
  <1>2. RowsOk(s.mailbox)
    BY DEF SnapOk
  <1>3. \A u \in Touched(s.mailbox, mailbox) :
          DomainOf[u] = d => u \notin DOMAIN mailbox /\ ~ (s.mailbox[u].quota < 0)
    BY DEF Outdated
  <1>4. \A u \in UsersIn(mailbox, d) : u \in DOMAIN s.mailbox /\ mailbox[u] = s.mailbox[u]
    BY <1>3 DEF UsersIn, Touched
  <1>5. ASSUME NEW u \in UsersIn(s.mailbox, d), u \notin DOMAIN mailbox
        PROVE  0 <= s.mailbox[u].quota
    <2>1. u \in Touched(s.mailbox, mailbox) /\ DomainOf[u] = d /\ u \in DOMAIN s.mailbox
      BY <1>5 DEF UsersIn, Touched
    <2>2. s.mailbox[u].quota \in Int
      BY <1>2, <2>1, SnapFacts
    <2> QED BY <1>3, <2>1, <2>2
  <1>6. /\ UsersIn(mailbox, d) \subseteq UsersIn(s.mailbox, d)
        /\ Cardinality(UsersIn(mailbox, d)) <= Cardinality(UsersIn(s.mailbox, d))
        /\ QuotaOf(mailbox, d) <= QuotaOf(s.mailbox, d)
    BY <1>2, <1>4, <1>5, FewerMailboxes
  <1> QED BY <1>1, <1>2, <1>6, SnapFacts

\* update_domain() sets limits that the mailboxes of its snapshot are within.
LEMMA UpdateDomainFits ==
  ASSUME AccountsInv, NEW w \in Workers, UpdateDomainCommit(w), NEW d \in DOMAIN domain,
         Fits(domain[d], mailbox, d), ~ Outdated(txn[w].snap, d)
  PROVE  Fits(domain'[d], mailbox', d)
  <1> DEFINE t == txn[w]
  <1>1. /\ t.op = "update_domain" /\ t.dom \in DOMAIN domain
        /\ domain' = [domain EXCEPT ![t.dom] = t.new] /\ mailbox' = mailbox
    BY DEF UpdateDomainCommit, Ending
  <1>2. UpdateDomainOk(t)
    BY <1>1 DEF AccountsInv, TxnInv, TxnOk
  <1> HIDE DEF t
  <1>3. CASE d # t.dom
    BY <1>1, <1>3 DEF AccountsInv, TablesOk, Table
  <1>4. CASE d = t.dom
    <2>1. domain'[d] = t.new
      BY <1>1, <1>4 DEF AccountsInv, TablesOk, Table
    <2>2. t.new.mailboxes \in Int /\ t.new.quota \in Int
      BY <1>2 DEF UpdateDomainOk, Limit
    <2>3. /\ Cardinality(UsersIn(mailbox, d)) <= Cardinality(UsersIn(t.snap.mailbox, d))
          /\ QuotaOf(mailbox, d) <= QuotaOf(t.snap.mailbox, d)
          /\ Cardinality(UsersIn(mailbox, d)) \in Nat /\ QuotaOf(mailbox, d) \in Int
          /\ Cardinality(UsersIn(t.snap.mailbox, d)) \in Nat /\ QuotaOf(t.snap.mailbox, d) \in Int
      BY <1>2, NotOutdated DEF UpdateDomainOk, AccountsInv, TablesOk, t
    <2>4. /\ Cardinality(UsersIn(t.snap.mailbox, d)) <= t.new.mailboxes
          /\ QuotaOf(t.snap.mailbox, d) <= t.new.quota
      BY <1>2, <1>4 DEF UpdateDomainOk
    <2>5. Cardinality(UsersIn(mailbox, d)) <= t.new.mailboxes /\ QuotaOf(mailbox, d) <= t.new.quota
      BY <2>2, <2>3, <2>4
    <2> QED BY <1>1, <2>1, <2>5 DEF Fits
  <1> QED BY <1>3, <1>4

\* create_mailbox() found room for one more.
LEMMA CreateMailboxFits ==
  ASSUME AccountsInv, NEW w \in Workers, CreateMailboxCommit(w), NEW d \in DOMAIN domain,
         Fits(domain[d], mailbox, d), ~ Outdated(txn[w].snap, d)
  PROVE  Fits(domain'[d], mailbox', d)
  <1> DEFINE t == txn[w]
             e == DomainOf[t.user]
  <1>1. /\ t.op = "create_mailbox" /\ domain' = domain /\ t.user \notin DOMAIN mailbox
        /\ mailbox' = Put(mailbox, t.user, t.new)
    BY DEF CreateMailboxCommit, Ending
  <1>2. CreateMailboxOk(t)
    BY <1>1 DEF AccountsInv, TxnInv, TxnOk
  <1>3. SnapOk(t.snap) /\ t.user \in User /\ t.new \in Mailbox /\ RowsOk(mailbox)
    BY <1>2 DEF CreateMailboxOk, AccountsInv, TablesOk
  <1>4. /\ d \in DOMAIN t.snap.domain /\ t.snap.domain[d] = domain[d]
        /\ Cardinality(UsersIn(mailbox, d)) <= Cardinality(UsersIn(t.snap.mailbox, d))
        /\ QuotaOf(mailbox, d) <= QuotaOf(t.snap.mailbox, d)
        /\ Cardinality(UsersIn(mailbox, d)) \in Nat /\ QuotaOf(mailbox, d) \in Int
        /\ Cardinality(UsersIn(t.snap.mailbox, d)) \in Nat /\ QuotaOf(t.snap.mailbox, d) \in Int
    BY <1>3, NotOutdated
  <1> HIDE DEF t
  <1>5. /\ Cardinality(UsersIn(mailbox', e)) = Cardinality(UsersIn(mailbox, e)) + 1
        /\ QuotaOf(mailbox', e) = QuotaOf(mailbox, e) + t.new.quota
        /\ \A x : x # e => /\ UsersIn(mailbox', x) = UsersIn(mailbox, x)
                           /\ QuotaOf(mailbox', x) = QuotaOf(mailbox, x)
    <2> DEFINE u == t.user
               r == t.new
    <2>1. u \in User /\ u \notin DOMAIN mailbox /\ r \in Mailbox /\ RowsOk(mailbox)
      BY <1>1, <1>3
    <2>2. mailbox' = Put(mailbox, u, r) /\ e = DomainOf[u]
      BY <1>1
    <2> HIDE DEF u, r, e
    <2>3. LET n == Put(mailbox, u, r)
              c == DomainOf[u]
          IN  /\ Cardinality(UsersIn(n, c)) = Cardinality(UsersIn(mailbox, c)) + 1
              /\ QuotaOf(n, c) = QuotaOf(mailbox, c) + r.quota
              /\ \A x : x # c => /\ UsersIn(n, x) = UsersIn(mailbox, x)
                                 /\ QuotaOf(n, x) = QuotaOf(mailbox, x)
      BY <2>1, PutMailbox
    <2> QED BY <2>2, <2>3 DEF r
  <1>6. CASE d # e
    BY <1>1, <1>5, <1>6 DEF Fits
  <1>7. CASE d = e
    <2>1. domain[d].mailboxes \in Int /\ domain[d].quota \in Int /\ t.new.quota \in Int
      BY <1>3 DEF AccountsInv, TablesOk, Table, Limit, Mailbox
    <2>2. /\ Cardinality(UsersIn(t.snap.mailbox, d)) < domain[d].mailboxes
          /\ QuotaOf(t.snap.mailbox, d) + t.new.quota <= domain[d].quota
      BY <1>2, <1>4, <1>7 DEF CreateMailboxOk
    <2> HIDE DEF e
    <2>3. /\ Cardinality(UsersIn(mailbox', d)) <= domain[d].mailboxes
          /\ QuotaOf(mailbox', d) <= domain[d].quota
      BY <1>4, <1>5, <1>7, <2>1, <2>2
    <2> QED BY <1>1, <2>3 DEF Fits
  <1> QED BY <1>6, <1>7

\* update_mailbox() found room for the quota it changes.
LEMMA UpdateMailboxFits ==
  ASSUME AccountsInv, NEW w \in Workers, UpdateMailboxCommit(w), NEW d \in DOMAIN domain,
         Fits(domain[d], mailbox, d), ~ Outdated(txn[w].snap, d)
  PROVE  Fits(domain'[d], mailbox', d)
  <1> DEFINE t == txn[w]
             e == DomainOf[t.user]
  <1>1. /\ t.op = "update_mailbox" /\ domain' = domain /\ t.user \in DOMAIN mailbox
        /\ mailbox' = [mailbox EXCEPT ![t.user] = t.new]
        /\ Lockable(t, DOMAIN view \cup {t.user})
    BY DEF UpdateMailboxCommit, Ending, Active
  <1>2. UpdateMailboxOk(t)
    BY <1>1 DEF AccountsInv, TxnInv, TxnOk
  <1>3. SnapOk(t.snap) /\ t.new \in Mailbox /\ RowsOk(mailbox)
    BY <1>2 DEF UpdateMailboxOk, AccountsInv, TablesOk
  <1>4. /\ d \in DOMAIN t.snap.domain /\ t.snap.domain[d] = domain[d]
        /\ QuotaOf(mailbox, d) <= QuotaOf(t.snap.mailbox, d)
        /\ QuotaOf(mailbox, d) \in Int /\ QuotaOf(t.snap.mailbox, d) \in Int
    BY <1>3, NotOutdated
  <1> HIDE DEF t
  <1>5. /\ \A x : UsersIn(mailbox', x) = UsersIn(mailbox, x)
        /\ QuotaOf(mailbox', e) = QuotaOf(mailbox, e) - mailbox[t.user].quota + t.new.quota
        /\ \A x : x # e => QuotaOf(mailbox', x) = QuotaOf(mailbox, x)
    <2>1. RowsOk(mailbox')
      BY <1>1, <1>3, ChangeRow
    <2>2. DOMAIN mailbox' = DOMAIN mailbox /\ mailbox'[t.user] = t.new
          /\ \A x \in DOMAIN mailbox : x # t.user => mailbox'[x] = mailbox[x]
      BY <1>1, <1>3 DEF RowsOk, Table
    <2> DEFINE n == mailbox'
    <2>3. RowsOk(n) /\ DOMAIN n = DOMAIN mailbox /\ n[t.user] = t.new
          /\ \A x \in DOMAIN mailbox : x # t.user => n[x] = mailbox[x]
      BY <2>1, <2>2
    <2> HIDE DEF n
    <2>4. /\ \A x : UsersIn(n, x) = UsersIn(mailbox, x)
          /\ QuotaOf(n, e) = QuotaOf(mailbox, e) - mailbox[t.user].quota + t.new.quota
          /\ \A x : x # e => QuotaOf(n, x) = QuotaOf(mailbox, x)
      BY <1>1, <1>3, <2>3, ChangeMailbox
    <2> QED BY <2>4 DEF n
  <1>6. CASE d # e
    BY <1>1, <1>5, <1>6 DEF Fits
  <1>7. CASE d = e
    <2>1. /\ domain[d].quota \in Int /\ t.new.quota \in Int /\ mailbox[t.user].quota \in Int
      BY <1>1, <1>3 DEF AccountsInv, TablesOk, RowsOk, Table, Limit, Mailbox
    <2>2. mailbox[t.user] = t.snap.mailbox[t.user]
      BY <1>1 DEF Lockable, Touched
    <2>3. UsersIn(mailbox, d) # {} /\ UsersIn(mailbox', d) = UsersIn(mailbox, d)
      BY <1>1, <1>5, <1>7 DEF UsersIn
    <2>4. CASE t.new.quota # mailbox[t.user].quota
      <3>1. QuotaOf(t.snap.mailbox, d) - mailbox[t.user].quota + t.new.quota <= domain[d].quota
        BY <1>2, <1>4, <1>7, <2>2, <2>4 DEF UpdateMailboxOk
      <3> HIDE DEF e
      <3>2. QuotaOf(mailbox', d) <= domain[d].quota
        BY <1>4, <1>5, <1>7, <2>1, <3>1
      <3> QED BY <1>1, <2>3, <3>2 DEF Fits
    <2>5. CASE t.new.quota = mailbox[t.user].quota
      <3> HIDE DEF e
      <3>1. QuotaOf(mailbox', d) = QuotaOf(mailbox, d)
        BY <1>4, <1>5, <1>7, <2>1, <2>5
      <3> QED BY <1>1, <2>3, <3>1 DEF Fits
    <2> QED BY <2>4, <2>5
  <1> QED BY <1>6, <1>7

\* delete_mailbox() makes room, unless the quota it frees is negative.
LEMMA DeleteMailboxFits ==
  ASSUME AccountsInv, NEW w \in Workers, NEW u \in User, DeleteMailbox(w, u),
         NEW d \in DOMAIN domain, Fits(domain[d], mailbox, d),
         ~ \E x \in MailboxesIn(d) : x \notin DOMAIN mailbox' /\ mailbox[x].quota < 0
  PROVE  Fits(domain'[d], mailbox', d)
  <1>1. domain' = domain /\ mailbox' = Drop(mailbox, {u}) /\ RowsOk(mailbox)
    BY DEF DeleteMailbox, AccountsInv, TablesOk
  <1>2. RowsOk(mailbox') /\ DOMAIN mailbox' = DOMAIN mailbox \ {u}
        /\ \A x \in DOMAIN mailbox' : mailbox'[x] = mailbox[x]
    BY <1>1, DropMailbox
  <1>3. ASSUME NEW x \in UsersIn(mailbox, d), x \notin DOMAIN mailbox'
        PROVE  0 <= mailbox[x].quota
    <2>1. x \in MailboxesIn(d) /\ x \in DOMAIN mailbox
      BY <1>3 DEF UsersIn, MailboxesIn
    <2>2. mailbox[x].quota \in Int
      BY <1>1, <2>1, SnapFacts
    <2> QED BY <1>3, <2>1, <2>2
  <1>4. \A x \in UsersIn(mailbox', d) : x \in DOMAIN mailbox /\ mailbox'[x] = mailbox[x]
    BY <1>2 DEF UsersIn
  <1> DEFINE m == mailbox
             n == mailbox'
  <1>5. /\ UsersIn(n, d) \subseteq UsersIn(m, d)
        /\ Cardinality(UsersIn(n, d)) <= Cardinality(UsersIn(m, d))
        /\ QuotaOf(n, d) <= QuotaOf(m, d)
    <2> HIDE DEF m, n
    <2>1. RowsOk(m) /\ RowsOk(n)
      BY <1>1, <1>2 DEF m, n
    <2>2. \A x \in UsersIn(n, d) : x \in DOMAIN m /\ n[x] = m[x]
      BY <1>4 DEF m, n
    <2>3. \A x \in UsersIn(m, d) : x \notin DOMAIN n => 0 <= m[x].quota
      BY <1>3 DEF m, n
    <2> QED BY <2>1, <2>2, <2>3, FewerMailboxes
  <1>6. /\ Cardinality(UsersIn(m, d)) \in Nat /\ QuotaOf(m, d) \in Int
        /\ Cardinality(UsersIn(n, d)) \in Nat /\ QuotaOf(n, d) \in Int
    BY <1>1, <1>2, SnapFacts
  <1>7. domain[d].mailboxes \in Int /\ domain[d].quota \in Int
    BY DEF AccountsInv, TablesOk, Table, Limit
  <1> HIDE DEF m, n
  <1>8. CASE UsersIn(n, d) = {}
    BY <1>1, <1>8 DEF Fits, n
  <1>9. CASE UsersIn(n, d) # {}
    <2>1. Cardinality(UsersIn(m, d)) <= domain[d].mailboxes /\ QuotaOf(m, d) <= domain[d].quota
      BY <1>5, <1>9 DEF Fits, m
    <2>2. Cardinality(UsersIn(n, d)) <= domain[d].mailboxes /\ QuotaOf(n, d) <= domain[d].quota
      BY <1>5, <1>6, <1>7, <2>1
    <2> QED BY <1>1, <2>2 DEF Fits, n
  <1> QED BY <1>8, <1>9

\* All other steps leave the mailboxes and the limits of existing domains alone.
LEMMA OtherSteps ==
  ASSUME [Next]_vars
  PROVE  \/ \E w \in Workers :
              \/ UpdateDomainCommit(w) \/ CreateMailboxCommit(w) \/ UpdateMailboxCommit(w)
              \/ \E u \in User : DeleteMailbox(w, u)
         \/ mailbox' = mailbox /\ \A d \in DOMAIN domain \cap DOMAIN domain' : domain'[d] = domain[d]
  <1> DEFINE Quiet == mailbox' = mailbox /\ \A d \in DOMAIN domain \cap DOMAIN domain' : domain'[d] = domain[d]
  <1>1. CASE UNCHANGED vars
    BY <1>1 DEF vars
  <1>2. CASE Next
    <2>1. PICK w \in Workers : DomainRequest(w) \/ MailboxRequest(w) \/ AliasRequest(w) \/ Rollback(w)
      BY <1>2 DEF Next
    <2>2. CASE DomainRequest(w)
      <3>1. ASSUME NEW d \in Domain, NEW l \in Limits, CreateDomain(w, d, l) PROVE Quiet
        BY <3>1 DEF CreateDomain, Put
      <3>2. ASSUME NEW d \in Domain, NEW l \in Limits, UpdateDomain(w, d, l) PROVE Quiet
        BY <3>2 DEF UpdateDomain, Begin
      <3>3. ASSUME NEW d \in Domain, DeleteDomain(w, d) PROVE Quiet
        BY <3>3 DEF DeleteDomain, Begin
      <3>4. ASSUME DeleteDomainCommit(w) PROVE Quiet
        BY <3>4 DEF DeleteDomainCommit, Drop, Restrict
      <3> HIDE DEF Quiet
      <3>5. UpdateDomainCommit(w) \/ Quiet
        BY <2>2, <3>1, <3>2, <3>3, <3>4 DEF DomainRequest
      <3> QED BY <3>5 DEF Quiet
    <2>3. CASE MailboxRequest(w)
      <3>1. ASSUME NEW u \in User, NEW m \in Rows, CreateMailbox(w, u, m) \/ UpdateMailbox(w, u, m)
            PROVE  Quiet
        BY <3>1 DEF CreateMailbox, UpdateMailbox, Begin
      <3> QED BY <2>3, <3>1 DEF MailboxRequest
    <2>4. CASE AliasRequest(w) \/ Rollback(w)
      BY <2>4 DEF AliasRequest, CreateAlias, UpdateAlias, CreateAliasCommit, UpdateAliasCommit,
                  DeleteAlias, Begin, Rollback
    <2> QED BY <2>1, <2>2, <2>3, <2>4
  <1> QED BY <1>1, <1>2

\* What takes a domain beyond its limits.
Excused(d) ==
  \/ \E w \in Workers :
       /\ txn[w].op \in {"update_domain", "create_mailbox", "update_mailbox"}
       /\ txn'[w] = NoTxn
       /\ Outdated(txn[w].snap, d)
  \/ \E u \in MailboxesIn(d) : u \notin DOMAIN mailbox' /\ mailbox[u].quota < 0

\* Nothing else does.
LEMMA LimitsStep ==
  ASSUME AccountsInv, [Next]_vars, NEW d \in DOMAIN domain \cap DOMAIN domain',
         Within(d), ~ Within(d)'
  PROVE  Excused(d)
  <1>1. Fits(domain[d], mailbox, d) /\ ~ Fits(domain'[d], mailbox', d)
    BY WithinIsFits
  <1>2. ~ (mailbox' = mailbox /\ domain'[d] = domain[d])
    BY <1>1
  <1>3. PICK w \in Workers :
          \/ UpdateDomainCommit(w) \/ CreateMailboxCommit(w) \/ UpdateMailboxCommit(w)
          \/ \E u \in User : DeleteMailbox(w, u)
    BY <1>2, OtherSteps
  <1>4. ASSUME NEW op, txn[w].op = op, txn' = [txn EXCEPT ![w] = NoTxn],
               op \in {"update_domain", "create_mailbox", "update_mailbox"},
               Outdated(txn[w].snap, d)
        PROVE  Excused(d)
    <2>1. txn'[w] = NoTxn
      BY <1>4 DEF AccountsInv, TablesOk
    <2> QED BY <1>4, <2>1 DEF Excused
  <1>5. CASE UpdateDomainCommit(w)
    <2>1. Outdated(txn[w].snap, d)
      BY <1>1, <1>5, UpdateDomainFits
    <2> QED BY <1>4, <1>5, <2>1 DEF UpdateDomainCommit, Ending
  <1>6. CASE CreateMailboxCommit(w)
    <2>1. Outdated(txn[w].snap, d)
      BY <1>1, <1>6, CreateMailboxFits
    <2> QED BY <1>4, <1>6, <2>1 DEF CreateMailboxCommit, Ending
  <1>7. CASE UpdateMailboxCommit(w)
    <2>1. Outdated(txn[w].snap, d)
      BY <1>1, <1>7, UpdateMailboxFits
    <2> QED BY <1>4, <1>7, <2>1 DEF UpdateMailboxCommit, Ending
  <1>8. ASSUME NEW u \in User, DeleteMailbox(w, u) PROVE Excused(d)
    BY <1>1, <1>8, DeleteMailboxFits DEF Excused
  <1> QED BY <1>3, <1>5, <1>6, <1>7, <1>8

----------------------------------------------------------------------------
(***************************************************************************)
(* The theorems.                                                           *)
(***************************************************************************)
\* Whatever requests overlap, of however many threads, a domain goes from within its
\* number of mailboxes and its quota to beyond them only by the commit of an
\* update_domain(), create_mailbox() or update_mailbox() whose snapshot of this
\* domain is outdated, or by the removal of a mailbox with a negative quota: the
\* checks of each of the three requests establish both limits on its snapshot, and
\* MariaDB's locks are not needed for that.
THEOREM LimitsKeptAlways == Spec => LimitsKept
  <1>1. AccountsInv /\ [Next]_vars => AccountsInv'
    BY AccountsStep
  <1>2. AccountsInv /\ [Next]_vars =>
          [\A d \in DOMAIN domain \cap DOMAIN domain' :
             Within(d) /\ ~ Within(d)' =>
               \/ \E w \in Workers :
                    /\ txn[w].op \in {"update_domain", "create_mailbox", "update_mailbox"}
                    /\ txn'[w] = NoTxn
                    /\ Outdated(txn[w].snap, d)
               \/ \E u \in MailboxesIn(d) : u \notin DOMAIN mailbox' /\ mailbox[u].quota < 0]_vars
    BY LimitsStep DEF Excused
  <1> QED BY AccountsInit, <1>1, <1>2, PTL DEF Spec, LimitsKept

\* A step that leaves no address behind adds no orphan.
LEMMA OrphansStay ==
  ASSUME DOMAIN domain \subseteq DOMAIN domain', DOMAIN mailbox' \subseteq DOMAIN mailbox,
         DOMAIN alias' \subseteq DOMAIN alias
  PROVE  Orphans' \subseteq Orphans
  BY DEF Orphans

\* The steps that orphan an address.
LEMMA OrphansStep ==
  ASSUME AccountsInv, [Next]_vars, NEW a \in Orphans', a \notin Orphans
  PROVE  \E w \in Workers :
           /\ \/ txn[w].op = "create_mailbox" /\ txn[w].user = a
              \/ txn[w].op = "create_alias" /\ txn[w].addr = a
           /\ txn'[w] = NoTxn
           /\ DomainOf[a] \in DOMAIN txn[w].snap.domain
  <1> DEFINE Raced == \E w \in Workers :
                        /\ \/ txn[w].op = "create_mailbox" /\ txn[w].user = a
                           \/ txn[w].op = "create_alias" /\ txn[w].addr = a
                        /\ txn'[w] = NoTxn
                        /\ DomainOf[a] \in DOMAIN txn[w].snap.domain
             Shrinks == /\ DOMAIN domain \subseteq DOMAIN domain'
                        /\ DOMAIN mailbox' \subseteq DOMAIN mailbox
                        /\ DOMAIN alias' \subseteq DOMAIN alias
  <1>1. ~ Shrinks
    BY OrphansStay
  <1>2. ~ UNCHANGED vars
    BY <1>1 DEF vars
  <1>3. PICK w \in Workers : DomainRequest(w) \/ MailboxRequest(w) \/ AliasRequest(w) \/ Rollback(w)
    BY <1>2 DEF Next
  <1>4. ASSUME NEW t, Begin(w, t) PROVE Shrinks
    BY <1>4 DEF Begin
  <1>5. TxnOk(txn[w])
    BY DEF AccountsInv, TxnInv
  <1>6. ASSUME DeleteDomainCommit(w) PROVE FALSE
    <2>1. /\ MailboxesIn(txn[w].dom) = {} /\ mailbox' = mailbox
          /\ DOMAIN domain' = DOMAIN domain \ {txn[w].dom}
          /\ DOMAIN alias' = {x \in DOMAIN alias : DomainOf[x] # txn[w].dom}
      BY <1>6 DEF DeleteDomainCommit, Drop, Restrict
    <2>2. a \in DOMAIN mailbox \cup DOMAIN alias' /\ DomainOf[a] \notin DOMAIN domain'
      BY <2>1 DEF Orphans
    <2>3. DomainOf[a] # txn[w].dom
      BY <2>1, <2>2 DEF MailboxesIn
    <2> QED BY <2>1, <2>2, <2>3 DEF Orphans
  <1>7. ASSUME CreateMailboxCommit(w) PROVE Raced
    <2>1. /\ txn[w].op = "create_mailbox" /\ txn' = [txn EXCEPT ![w] = NoTxn] /\ domain' = domain
          /\ DOMAIN mailbox' = DOMAIN mailbox \cup {txn[w].user}
          /\ DOMAIN alias' = DOMAIN alias \cup {txn[w].user}
      BY <1>7 DEF CreateMailboxCommit, Ending, Put
    <2>2. a = txn[w].user
      BY <2>1 DEF Orphans
    <2>3. txn'[w] = NoTxn
      BY <2>1 DEF AccountsInv, TablesOk
    <2>4. DomainOf[a] \in DOMAIN txn[w].snap.domain
      BY <1>5, <2>1, <2>2 DEF TxnOk, CreateMailboxOk
    <2> QED BY <2>1, <2>2, <2>3, <2>4
  <1>8. ASSUME CreateAliasCommit(w) PROVE Raced
    <2>1. /\ txn[w].op = "create_alias" /\ txn' = [txn EXCEPT ![w] = NoTxn] /\ domain' = domain
          /\ mailbox' = mailbox /\ DOMAIN alias' = DOMAIN alias \cup {txn[w].addr}
      BY <1>8 DEF CreateAliasCommit, Ending, Put
    <2>2. a = txn[w].addr
      BY <2>1 DEF Orphans
    <2>3. txn'[w] = NoTxn
      BY <2>1 DEF AccountsInv, TablesOk
    <2>4. DomainOf[a] \in DOMAIN txn[w].snap.domain
      BY <1>5, <2>1, <2>2 DEF TxnOk, CreateAliasOk
    <2> QED BY <2>1, <2>2, <2>3, <2>4
  <1>9. ASSUME NEW d \in Domain, NEW l \in Limits, CreateDomain(w, d, l) PROVE Shrinks
    BY <1>9 DEF CreateDomain, Put
  <1>10. ASSUME NEW u \in User, DeleteMailbox(w, u) PROVE Shrinks
    BY <1>10 DEF DeleteMailbox, Drop, Restrict
  <1>11. ASSUME NEW x \in Address, DeleteAlias(w, x) PROVE Shrinks
    BY <1>11 DEF DeleteAlias, Drop, Restrict
  <1>12. ASSUME UpdateDomainCommit(w) \/ UpdateMailboxCommit(w) \/ UpdateAliasCommit(w) \/ Rollback(w)
         PROVE  Shrinks
    BY <1>12 DEF UpdateDomainCommit, UpdateMailboxCommit, UpdateAliasCommit, Rollback
  <1> SUFFICES Raced
    OBVIOUS
  <1> HIDE DEF Raced, Shrinks
  <1>13. CASE DomainRequest(w)
    BY <1>1, <1>4, <1>6, <1>9, <1>12, <1>13 DEF DomainRequest, UpdateDomain, DeleteDomain
  <1>14. CASE MailboxRequest(w)
    BY <1>1, <1>4, <1>7, <1>10, <1>12, <1>14 DEF MailboxRequest, CreateMailbox, UpdateMailbox
  <1>15. CASE AliasRequest(w) \/ Rollback(w)
    BY <1>1, <1>4, <1>8, <1>11, <1>12, <1>15 DEF AliasRequest, CreateAlias, UpdateAlias
  <1> QED BY <1>3, <1>13, <1>14, <1>15

\* Whatever requests overlap, delete_domain() leaves no mailbox and no alias of the
\* domain behind; only a create that read the domain before it was deleted, and
\* commits after, makes a mailbox or an alias without a domain.
THEOREM OrphansOnlyByRaceAlways == Spec => OrphansOnlyByRace
  <1>1. AccountsInv /\ [Next]_vars => AccountsInv'
    BY AccountsStep
  <1>2. AccountsInv /\ [Next]_vars =>
          [\A a \in Orphans' \ Orphans :
             \E w \in Workers :
               /\ \/ txn[w].op = "create_mailbox" /\ txn[w].user = a
                  \/ txn[w].op = "create_alias" /\ txn[w].addr = a
               /\ txn'[w] = NoTxn
               /\ DomainOf[a] \in DOMAIN txn[w].snap.domain]_vars
    BY OrphansStep
  <1> QED BY AccountsInit, <1>1, <1>2, PTL DEF Spec, OrphansOnlyByRace

\* A user is touched or keeps the row.
LEMMA ActiveKept ==
  ASSUME NEW m, NEW n, NEW u
  PROVE  /\ u \in Active(m) => u \in Active(n) \cup Touched(m, n)
         /\ u \in Active(n) \ Touched(m, n) => u \in Active(m) /\ n[u] = m[u]
  BY DEF Active, Touched

\* Only three steps change table mailbox, and each refreshes the view.
LEMMA MailboxSteps ==
  ASSUME [Next]_vars, mailbox' # mailbox
  PROVE  \E w \in Workers :
           \/ CreateMailboxCommit(w) \/ UpdateMailboxCommit(w)
           \/ \E u \in User : DeleteMailbox(w, u)
  <1>1. Next
    BY DEF vars
  <1>2. PICK w \in Workers : DomainRequest(w) \/ MailboxRequest(w) \/ AliasRequest(w) \/ Rollback(w)
    BY <1>1 DEF Next
  <1>3. ~ DomainRequest(w)
    BY DEF DomainRequest, CreateDomain, UpdateDomain, DeleteDomain, UpdateDomainCommit,
       DeleteDomainCommit, Begin
  <1>4. ~ AliasRequest(w) /\ ~ Rollback(w)
    BY DEF AliasRequest, CreateAlias, UpdateAlias, CreateAliasCommit, UpdateAliasCommit,
       DeleteAlias, Begin, Rollback
  <1>5. ASSUME NEW u \in User, NEW m \in Rows PROVE ~ CreateMailbox(w, u, m) /\ ~ UpdateMailbox(w, u, m)
    BY DEF CreateMailbox, UpdateMailbox, Begin
  <1> QED BY <1>2, <1>3, <1>4, <1>5 DEF MailboxRequest

\* No mailbox request leaves a user in SOGo's view who has no active mailbox, except
\* perhaps the one it is about, however the requests interleave.
THEOREM ViewCleanAlways == Spec => ViewClean
  <1>1. ASSUME [Next]_vars, mailbox' # mailbox
        PROVE  DOMAIN view' \subseteq Active(mailbox') \cup Touched(mailbox, mailbox')
    <2>1. PICK w \in Workers :
            \/ CreateMailboxCommit(w) \/ UpdateMailboxCommit(w)
            \/ \E u \in User : DeleteMailbox(w, u)
      BY <1>1, MailboxSteps
    <2>2. DOMAIN view' \subseteq Active(mailbox) \/ DOMAIN view' \subseteq Active(mailbox')
      BY <2>1 DEF CreateMailboxCommit, UpdateMailboxCommit, DeleteMailbox, FullRefresh, RefreshOne
    <2> QED BY <2>2, ActiveKept
  <1>2. [Next]_vars =>
          [mailbox' # mailbox =>
             DOMAIN view' \subseteq Active(mailbox') \cup Touched(mailbox, mailbox')]_vars
    BY <1>1
  <1> QED BY <1>2, PTL DEF Spec, ViewClean

\* create_mailbox() and delete_mailbox() bring every other active mailbox into the
\* view with the password its attributes allow, however the requests interleave.
THEOREM ViewCompleteAlways == Spec => ViewComplete
  <1>1. ASSUME [Next]_vars, DOMAIN mailbox' # DOMAIN mailbox,
               NEW u \in Active(mailbox') \ Touched(mailbox, mailbox')
        PROVE  u \in DOMAIN view' /\ view'[u] = mailbox'[u].access
    <2>1. PICK w \in Workers :
            \/ CreateMailboxCommit(w) \/ UpdateMailboxCommit(w)
            \/ \E x \in User : DeleteMailbox(w, x)
      BY <1>1, MailboxSteps
    <2>2. ~ UpdateMailboxCommit(w)
      BY <1>1 DEF UpdateMailboxCommit
    <2>3. view' = FullRefresh(mailbox) \/ view' = FullRefresh(mailbox')
      BY <2>1, <2>2 DEF CreateMailboxCommit, DeleteMailbox
    <2>4. u \in Active(mailbox) /\ mailbox'[u] = mailbox[u]
      BY <1>1, ActiveKept
    <2> QED BY <1>1, <2>3, <2>4 DEF FullRefresh
  <1>2. [Next]_vars =>
          [DOMAIN mailbox' # DOMAIN mailbox =>
             \A u \in Active(mailbox') \ Touched(mailbox, mailbox') :
               u \in DOMAIN view' /\ view'[u] = mailbox'[u].access]_vars
    BY <1>1
  <1> QED BY <1>2, PTL DEF Spec, ViewComplete
=============================================================================
