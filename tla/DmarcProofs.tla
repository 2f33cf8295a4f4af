----------------------------- MODULE DmarcProofs -----------------------------
(***************************************************************************)
(* Proofs about Dmarc for any messages, reports and number of faults.      *)
(***************************************************************************)
EXTENDS Dmarc, FiniteSetTheorems, NaturalsInduction, WellFoundedInduction, TLAPS

(***************************************************************************)
(* What store_report() and update_metrics() rely on between their steps.   *)
(***************************************************************************)
\* The report in hand, head of xml_contents.
Current == Head(rest)

\* The open transaction holds the whole of the report in hand and nothing else.
TransactionInv ==
  /\ pc = "commit" => Current \in Reports /\ pending = Rows(Current) /\ ~Duplicate(Current)
  /\ pc # "commit" => pending = {}

\* Between commit and count the report is stored, and nothing with its id counted.
CountInv ==
  /\ counted \in [Reports -> Nat]
  /\ pc = "count" => /\ Current \in Reports /\ Stored(Current)
                     /\ \A q \in Reports : IdOf[q] = IdOf[Current] => counted[q] = 0
  /\ \A r \in Reports : counted[r] > 0 => counted[r] = 1 /\ Stored(r)

\* The unique index.
UniqueIds ==
  \A r, q \in Reports : Stored(r) /\ Stored(q) /\ IdOf[r] = IdOf[q] => r = q

StoreInv == TransactionInv /\ CountInv /\ UniqueIds /\ WholeReports

(***************************************************************************)
(* What the loop over the messages relies on to lose none silently.        *)
(***************************************************************************)
Documents == Reports \cup {NoXml, Torn, Garbled}

\* Messages read that are not complete.
Lost == {m \in read : ~Complete(m)}

\* A message is in hand, whose failure may still have to be counted.
InHand == pc \in {"xml", "commit", "count"}

\* What is no longer to be processed of the message in hand is stored.
RestInv ==
  \A p \in ToSet(ExtractXml(Head(queue))) : p \in ToSet(rest) \/ (p \in Reports /\ Duplicate(p))

LoopInv ==
  /\ inbox \in Seq(Messages) /\ queue \in Seq(Messages) /\ rest \in Seq(Documents)
  /\ InHand => queue # <<>> /\ RestInv
  /\ pc \in {"commit", "count"} => rest # <<>>

LossInv ==
  /\ IsFiniteSet(read) /\ failed \in Nat
  /\ ~InHand => Cardinality(Lost) <= failed
  /\ InHand => Cardinality(Lost \ {Head(queue)}) <= failed

----------------------------------------------------------------------------
(***************************************************************************)
(* What Selected returns.                                                  *)
(***************************************************************************)
\* Induction: among the numbers that fail there is a least one.
LEMMA LeastNumber ==
  ASSUME NEW B \in SUBSET Nat, B # {}
  PROVE  \E n \in B : \A k \in B : ~ (k < n)
  <1> DEFINE R == OpToRel(<, Nat)
  <1>1. IsWellFoundedOn(R, Nat)
    BY NatLessThanWellFounded
  <1>2. \A k, n \in Nat : k < n => <<k, n>> \in R
    BY DEF OpToRel
  <1> HIDE DEF R
  <1>3. PICK n \in B : \A k \in B : ~ (<<k, n>> \in R)
    BY <1>1, WFMin
  <1> QED BY <1>2, <1>3

\* Function g is the loop of Selected over the first n elements.
Loop(g, n, s, S) ==
  g = [i \in 0..n |->
         IF i = 0 THEN <<>>
         ELSE IF s[i] \in S THEN Append(g[i - 1], s[i]) ELSE g[i - 1]]

\* Every loop has a function.
LEMMA LoopExists ==
  ASSUME NEW s, NEW S, NEW m \in Nat
  PROVE  \E g : Loop(g, m, s, S)
  <1> DEFINE B == {n \in Nat : ~ \E g : Loop(g, n, s, S)}
             F(f, i) == IF i = 0 THEN <<>>
                        ELSE IF s[i] \in S THEN Append(f[i - 1], s[i]) ELSE f[i - 1]
  <1> SUFFICES ASSUME B # {} PROVE FALSE
    OBVIOUS
  <1>1. PICK n \in B : \A k \in B : ~ (k < n)
    <2>1. B \in SUBSET Nat
      OBVIOUS
    <2> HIDE DEF B
    <2> QED BY <2>1, LeastNumber
  <1>2. CASE n = 0
    <2> DEFINE h == [i \in 0..0 |-> <<>>]
    <2>1. h = [i \in 0..0 |-> h[i]] /\ \A i \in 0..0 : i = 0 /\ h[i] = <<>>
      OBVIOUS
    <2> HIDE DEF h
    <2>2. \A i \in 0..0 : h[i] = F(h, i)
      BY <2>1
    <2>3. h = [i \in 0..0 |-> F(h, i)]
      <3> HIDE DEF F
      <3> QED BY <2>1, <2>2
    <2>4. Loop(h, 0, s, S)
      BY <2>3 DEF Loop
    <2> QED BY <1>2, <2>4
  <1>3. CASE n # 0
    <2>1. n - 1 \in Nat /\ n - 1 < n
      BY <1>3
    <2>2. PICK g : Loop(g, n - 1, s, S)
      BY <1>1, <2>1
    <2> DEFINE h == [i \in 0..n |-> IF i = n THEN F(g, n) ELSE g[i]]
    <2>3. \A i \in 0..(n - 1) : g[i] = F(g, i) /\ h[i] = g[i]
      <3>1. g = [i \in 0..(n - 1) |-> F(g, i)]
        BY <2>2 DEF Loop
      <3> HIDE DEF F
      <3>2. \A i \in 0..(n - 1) : i \in 0..n /\ i # n
        OBVIOUS
      <3>3. \A i \in 0..(n - 1) : h[i] = g[i]
        BY <3>2
      <3>4. \A i \in 0..(n - 1) : g[i] = F(g, i)
        BY <3>1
      <3> QED BY <3>3, <3>4
    <2>4. \A i \in 0..n : h[i] = F(h, i)
      <3> SUFFICES ASSUME NEW i \in 0..n PROVE h[i] = F(h, i)
        OBVIOUS
      <3>1. CASE i = n
        BY <1>3, <2>1, <2>3, <3>1
      <3>2. CASE i # n
        <4>1. i \in 0..(n - 1) /\ (i # 0 => i - 1 \in 0..(n - 1))
          BY <3>2
        <4>2. h[i] = F(g, i)
          BY <2>3, <4>1
        <4>3. i # 0 => h[i - 1] = g[i - 1]
          BY <2>3, <4>1
        <4> QED BY <4>2, <4>3
      <3> QED BY <3>1, <3>2
    <2>5. h = [i \in 0..n |-> F(h, i)]
      <3>1. h = [i \in 0..n |-> h[i]]
        OBVIOUS
      <3> HIDE DEF h
      <3> QED BY <2>4, <3>1
    <2>6. Loop(h, n, s, S)
      BY <2>5 DEF Loop
    <2> QED BY <2>6
  <1> QED BY <1>2, <1>3

\* What is selected from a sequence over T is one, too.
LEMMA SelectedType ==
  ASSUME NEW T, NEW s \in Seq(T), NEW S
  PROVE  Selected(s, S) \in Seq(T)
  <1> DEFINE f == CHOOSE g : Loop(g, Len(s), s, S)
  <1>1. Len(s) \in Nat
    OBVIOUS
  <1>2. Selected(s, S) = f[Len(s)]
    BY DEF Selected, Loop
  <1>3. Loop(f, Len(s), s, S)
    BY <1>1, LoopExists
  <1> HIDE DEF f
  <1> DEFINE B == {n \in Nat : n <= Len(s) /\ f[n] \notin Seq(T)}
  <1>4. ASSUME B # {} PROVE FALSE
    <2>1. PICK n \in B : \A k \in B : ~ (k < n)
      <3>1. B \in SUBSET Nat
        OBVIOUS
      <3> HIDE DEF B
      <3> QED BY <1>4, <3>1, LeastNumber
    <2>2. n \in 0..Len(s) /\ f[n] \notin Seq(T)
      OBVIOUS
    <2>3. f[n] = IF n = 0 THEN <<>>
                 ELSE IF s[n] \in S THEN Append(f[n - 1], s[n]) ELSE f[n - 1]
      BY <1>3, <2>2 DEF Loop
    <2>4. n # 0
      BY <2>2, <2>3
    <2>5. n - 1 \notin B /\ n - 1 \in Nat /\ n - 1 <= Len(s)
      BY <2>1, <2>2, <2>4
    <2>6. f[n - 1] \in Seq(T) /\ s[n] \in T
      BY <2>2, <2>4, <2>5
    <2> QED BY <2>2, <2>3, <2>4, <2>6
  <1> QED BY <1>1, <1>2, <1>4

----------------------------------------------------------------------------
\* Row 0 is the row of the report itself, and reports share no rows.
LEMMA RowsFacts ==
  ASSUME NEW r \in Reports, NEW q \in Reports
  PROVE  /\ <<r, 0>> \in Rows(r)
         /\ <<q, 0>> \in Rows(r) => q = r
         /\ q # r => Rows(r) \cap Rows(q) = {}
  BY DmarcAssumption DEF Rows

\* A stored report makes every report with its id a duplicate.
LEMMA StoredDuplicate ==
  ASSUME NEW r \in Reports, NEW q \in Reports, Stored(q), IdOf[q] = IdOf[r]
  PROVE  Duplicate(r)
  BY DEF Stored, Duplicate

\* Committing the rows of a report that is not a duplicate.
LEMMA CommitFacts ==
  ASSUME StoreInv, NEW r \in Reports, ~Duplicate(r), db' = db \cup Rows(r)
  PROVE  /\ UniqueIds' /\ WholeReports' /\ Stored(r)'
         /\ \A q \in Reports : Stored(q) => Stored(q)'
         /\ \A q \in Reports : IdOf[q] = IdOf[r] => counted[q] = 0
  <1>1. \A q \in Reports : Stored(q)' <=> Stored(q) \/ q = r
    BY RowsFacts DEF Stored
  <1>2. \A q \in Reports : IdOf[q] = IdOf[r] => ~Stored(q)
    BY StoredDuplicate
  <1>3. UniqueIds'
    BY <1>1, <1>2 DEF StoreInv, UniqueIds
  <1>4. WholeReports'
    <2> SUFFICES ASSUME NEW q \in Reports
                 PROVE  Rows(q) \subseteq db' \/ Rows(q) \cap db' = {}
      BY DEF WholeReports, Rows
    <2>1. CASE q = r
      BY <2>1
    <2>2. CASE q # r
      <3>1. Rows(q) \subseteq db \/ Rows(q) \cap db = {}
        BY DEF StoreInv, WholeReports
      <3>2. Rows(r) \cap Rows(q) = {}
        BY <2>2, RowsFacts
      <3> QED BY <3>1, <3>2
    <2> QED BY <2>1, <2>2
  <1>5. \A q \in Reports : IdOf[q] = IdOf[r] => counted[q] = 0
    BY <1>2 DEF StoreInv, CountInv
  <1> QED BY <1>1, <1>3, <1>4, <1>5

\* A step that leaves the tables and the counters alone and ends outside commit
\* and count with no open transaction.
LEMMA QuietStep ==
  ASSUME StoreInv, UNCHANGED <<db, counted>>, pc' \notin {"commit", "count"}, pending' = {}
  PROVE  StoreInv'
  BY DEF StoreInv, TransactionInv, CountInv, UniqueIds, WholeReports, Stored, Rows

\* A step of another program.
LEMMA SameState ==
  ASSUME StoreInv, UNCHANGED <<db, counted, pc, pending, rest>>
  PROVE  StoreInv'
  BY DEF StoreInv, TransactionInv, CountInv, UniqueIds, WholeReports, Stored, Rows,
         Current, Duplicate

\* The invariant holds at the start.
LEMMA StoreInit == Init => StoreInv
  BY DEF Init, StoreInv, TransactionInv, CountInv, UniqueIds, WholeReports, Stored, Rows

\* Every step keeps the invariant.
LEMMA StoreStep == StoreInv /\ [Next]_vars => StoreInv'
  <1> SUFFICES ASSUME StoreInv, [Next]_vars PROVE StoreInv'
    OBVIOUS
  <1>1. ASSUME NEW m \in Messages, Deliver(m) PROVE StoreInv'
    BY <1>1, SameState DEF Deliver, metrics
  <1>2. CASE Poll
    BY <1>2, QuietStep DEF Poll, metrics, StoreInv, TransactionInv
  <1>3. CASE Close
    BY <1>3, QuietStep DEF Close, metrics, StoreInv, TransactionInv
  <1>4. CASE Fetch
    BY <1>4, QuietStep DEF Fetch, Raise, Following, metrics, StoreInv, TransactionInv
  <1>5. CASE FetchFails
    BY <1>5, QuietStep DEF FetchFails, Raise, Following, StoreInv, TransactionInv
  <1>6. CASE ParseFails
    BY <1>6, QuietStep DEF ParseFails, Document, Raise, Following, StoreInv, TransactionInv
  <1>7. ASSUME NEW r \in Reports, Flush(r) PROVE StoreInv'
    <2>1. Current' = r /\ pending' = Rows(r) /\ ~Duplicate(r) /\ pc' = "commit"
      BY <1>7 DEF Flush, Document, Current
    <2>2. UNCHANGED <<db, counted>>
      BY <1>7 DEF Flush, metrics
    <2>3. TransactionInv'
      BY <2>1, <2>2 DEF TransactionInv, Duplicate, Rows
    <2> QED
      BY <2>1, <2>2, <2>3 DEF StoreInv, CountInv, UniqueIds, WholeReports, Stored, Rows
  <1>8. ASSUME NEW r \in Reports, FlushDuplicate(r) PROVE StoreInv'
    BY <1>8, QuietStep DEF FlushDuplicate, Document, metrics, StoreInv, TransactionInv
  <1>9. ASSUME NEW r \in Reports, FlushFails(r) PROVE StoreInv'
    BY <1>9, QuietStep DEF FlushFails, Document, Raise, Following, StoreInv, TransactionInv
  <1>10. CASE Commit
    <2>1. Current \in Reports /\ db' = db \cup Rows(Current) /\ ~Duplicate(Current)
      BY <1>10 DEF Commit, StoreInv, TransactionInv
    <2>2. pc' = "count" /\ pending' = {} /\ UNCHANGED <<counted, rest>>
      BY <1>10 DEF Commit, metrics
    <2>3. Current' = Current
      BY <2>2 DEF Current
    <2>4. CountInv'
      BY <2>1, <2>2, <2>3, CommitFacts DEF StoreInv, CountInv, Stored
    <2> QED
      BY <2>1, <2>2, <2>4, CommitFacts DEF StoreInv, TransactionInv
  <1>11. CASE CommitFails
    <2>1. Current \in Reports /\ ~Duplicate(Current) /\ pending = Rows(Current)
      BY <1>11 DEF CommitFails, StoreInv, TransactionInv
    <2>2. pc' = "fetch" /\ pending' = {} /\ UNCHANGED counted
      BY <1>11 DEF CommitFails, Raise, Following
    <2>3. CASE db' = db
      BY <2>2, <2>3, QuietStep
    <2>4. CASE db' = db \cup Rows(Current)
      <3>1. CountInv'
        BY <2>1, <2>2, <2>4, CommitFacts DEF StoreInv, CountInv
      <3> QED
        BY <2>1, <2>2, <2>4, <3>1, CommitFacts DEF StoreInv, TransactionInv
    <2> QED
      BY <1>11, <2>1, <2>3, <2>4 DEF CommitFails
  <1>12. CASE UpdateMetrics
    <2>1. /\ Current \in Reports /\ Stored(Current) /\ counted[Current] = 0
          /\ counted' = [counted EXCEPT ![Current] = @ + 1]
          /\ pc' = "xml" /\ pending' = {} /\ db' = db
      BY <1>12 DEF UpdateMetrics, StoreInv, CountInv, TransactionInv, Current
    <2>2. CountInv'
      BY <2>1 DEF StoreInv, CountInv, Stored
    <2> QED
      BY <2>1, <2>2 DEF StoreInv, TransactionInv, UniqueIds, WholeReports, Stored, Rows
  <1>13. CASE Flag
    BY <1>13, QuietStep DEF Flag, Following, metrics, StoreInv, TransactionInv
  <1>14. CASE FlagFails
    BY <1>14, QuietStep DEF FlagFails, Raise, Following, StoreInv, TransactionInv
  <1>15. CASE Crash
    BY <1>15 DEF Crash, StoreInv, TransactionInv, CountInv, UniqueIds, WholeReports,
                 Stored, Rows
  <1>16. CASE Start
    BY <1>16, QuietStep DEF Start, metrics, StoreInv, TransactionInv
  <1>17. CASE Quiet \/ UNCHANGED vars
    BY <1>17, SameState DEF Quiet, vars, metrics
  <1> QED
    BY <1>1, <1>2, <1>3, <1>4, <1>5, <1>6, <1>7, <1>8, <1>9, <1>10, <1>11, <1>12,
       <1>13, <1>14, <1>15, <1>16, <1>17
    DEF Next, Processor, Environment, StoreReport

\* The invariant holds throughout.
LEMMA StoreInvAlways == Spec => []StoreInv
  BY StoreInit, StoreStep, PTL DEF Spec

\* Whatever fails or crashes in the middle of store_report(), the tables never
\* hold a part of a report.
THEOREM WholeReportsAlways == Spec => []WholeReports
  <1>1. StoreInv => WholeReports
    BY DEF StoreInv
  <1> QED BY <1>1, StoreInvAlways, PTL

\* However often a report is sent and its messages are read, a process counts
\* it at most once and only after it is stored, and one report per report_id.
THEOREM CountedOnceAlways == Spec => []CountedOnce
  <1>1. StoreInv => CountedOnce
    BY DEF StoreInv, CountInv, UniqueIds, CountedOnce
  <1> QED BY <1>1, StoreInvAlways, PTL

----------------------------------------------------------------------------
(***************************************************************************)
(* No report is lost silently.                                             *)
(***************************************************************************)
\* What is stored stays stored.
LEMMA CompleteStays ==
  ASSUME db \subseteq db', NEW m, Complete(m)
  PROVE  Complete(m)'
  BY DEF Complete, Duplicate

\* The lost messages of the next state, when only the message in hand is read.
LEMMA LostNext ==
  ASSUME LossInv, db \subseteq db', read' \subseteq read \cup {Head(queue)}
  PROVE  /\ IsFiniteSet(read') /\ Lost' \ {Head(queue)} \subseteq Lost \ {Head(queue)}
         /\ IsFiniteSet(Lost) /\ IsFiniteSet(Lost')
         /\ Cardinality(Lost \ {Head(queue)}) <= failed
         /\ Cardinality(Lost' \ {Head(queue)}) <= failed
  <1> DEFINE h == Head(queue)
             L == Lost \ {h}
             M == Lost' \ {h}
  <1>1. IsFiniteSet(read) /\ failed \in Nat
    BY DEF LossInv
  <1>2. IsFiniteSet(read \cup {h})
    BY <1>1, FS_AddElement
  <1>3. IsFiniteSet(read')
    BY <1>2, FS_Subset
  <1>4. IsFiniteSet(Lost) /\ IsFiniteSet(Lost')
    <2>1. Lost \in SUBSET read /\ Lost' \in SUBSET read'
      BY DEF Lost
    <2> QED BY <1>1, <1>3, <2>1, FS_Subset
  <1>5. M \subseteq L
    <2> SUFFICES ASSUME NEW m \in read', m # h, ~ Complete(m)' PROVE m \in read /\ ~ Complete(m)
      BY DEF Lost
    <2> QED BY CompleteStays
  <1>6. IsFiniteSet(L) /\ IsFiniteSet(M) /\ Cardinality(L) <= Cardinality(Lost)
    BY <1>4, FS_RemoveElement, FS_Subset
  <1>7. Cardinality(L) \in Nat /\ Cardinality(M) \in Nat /\ Cardinality(Lost) \in Nat
    BY <1>4, <1>6, FS_CardinalityType
  <1>8. Cardinality(L) <= failed
    BY <1>1, <1>6, <1>7 DEF LossInv
  <1>9. Cardinality(M) <= Cardinality(L)
    BY <1>5, <1>6, FS_Subset
  <1>10. Cardinality(M) <= failed
    <2> HIDE DEF L, M
    <2> QED BY <1>1, <1>7, <1>8, <1>9
  <1> QED BY <1>3, <1>4, <1>5, <1>8, <1>10

\* A message that raises is counted.
LEMMA RaiseLoss ==
  ASSUME LossInv, db \subseteq db', read' \subseteq read \cup {Head(queue)},
         failed' = failed + 1, pc' = "fetch"
  PROVE  LossInv'
  <1> DEFINE h == Head(queue)
             M == Lost' \ {h}
  <1>1. IsFiniteSet(read') /\ IsFiniteSet(Lost') /\ Cardinality(M) <= failed
    BY LostNext
  <1>2. Cardinality(M) = IF h \in Lost' THEN Cardinality(Lost') - 1 ELSE Cardinality(Lost')
    BY <1>1, FS_RemoveElement
  <1>3. Cardinality(Lost') \in Nat /\ failed \in Nat
    BY <1>1, FS_CardinalityType DEF LossInv
  <1>4. Cardinality(Lost') <= failed'
    <2> HIDE DEF M, h
    <2> QED BY <1>1, <1>2, <1>3
  <1>5. ~ InHand'
    BY DEF InHand
  <1> QED BY <1>1, <1>3, <1>4, <1>5 DEF LossInv

\* While a message is in hand it is not counted.
LEMMA InHandLoss ==
  ASSUME LossInv, db \subseteq db', read' \subseteq read \cup {Head(queue)},
         UNCHANGED <<failed, queue>>, pc' \in {"xml", "commit", "count"}
  PROVE  LossInv'
  <1>1. IsFiniteSet(read') /\ Cardinality(Lost' \ {Head(queue)}) <= failed
    BY LostNext
  <1>2. InHand'
    BY DEF InHand
  <1>3. Head(queue)' = Head(queue)
    OBVIOUS
  <1> QED BY <1>1, <1>2, <1>3 DEF LossInv

\* Steps that read nothing and neither take up a message nor put it down.
LEMMA SameLoss ==
  ASSUME LossInv, UNCHANGED <<db, read, failed>>, InHand' <=> InHand, InHand => queue' = queue
  PROVE  LossInv'
  <1>1. Lost' = Lost
    BY DEF Lost, Complete, Duplicate
  <1> QED BY <1>1 DEF LossInv

\* The first element of a sequence and the others.
LEMMA HeadAndTail ==
  ASSUME NEW T, NEW s \in Seq(T), s # <<>>
  PROVE  Tail(s) \in Seq(T) /\ \A p \in ToSet(s) : p = Head(s) \/ p \in ToSet(Tail(s))
  <1>1. Tail(s) \in Seq(T)
    OBVIOUS
  <1>2. ASSUME NEW i \in 1..Len(s), i # 1
        PROVE  i - 1 \in 1..Len(Tail(s)) /\ Tail(s)[i - 1] = s[i]
    BY <1>2
  <1>3. DOMAIN s = 1..Len(s) /\ DOMAIN Tail(s) = 1..Len(Tail(s)) /\ Head(s) = s[1]
    BY <1>1
  <1>4. \A p \in ToSet(s) : p = Head(s) \/ p \in ToSet(Tail(s))
    <2> SUFFICES ASSUME NEW i \in 1..Len(s), i # 1 PROVE s[i] \in ToSet(Tail(s))
      BY <1>3 DEF ToSet
    <2> QED BY <1>2, <1>3 DEF ToSet
  <1> QED BY <1>1, <1>4

\* Documents are stored or taken for duplicates before they leave the rest.
LEMMA RestStep ==
  ASSUME RestInv, db \subseteq db', queue' = queue,
         \A p \in ToSet(rest) : p \in ToSet(rest') \/ (p \in Reports /\ Duplicate(p))
  PROVE  RestInv'
  <1>1. \A p : Duplicate(p) => Duplicate(p)'
    BY DEF Duplicate
  <1>2. Head(queue)' = Head(queue)
    OBVIOUS
  <1> QED BY <1>1, <1>2 DEF RestInv

\* The message in hand is given up, or done with.
LEMMA FollowingLoop ==
  ASSUME LoopInv, Following, queue # <<>>, inbox' = inbox
  PROVE  LoopInv'
  <1>1. queue' \in Seq(Messages) /\ rest' \in Seq(Documents)
    BY HeadAndTail DEF LoopInv, Following
  <1>2. ~ InHand' /\ pc' \notin {"commit", "count"}
    BY DEF Following, InHand
  <1> QED BY <1>1, <1>2 DEF LoopInv

\* A message that raises.
LEMMA RaiseStep ==
  ASSUME LoopInv, LossInv, Raise, queue # <<>>, db \subseteq db', inbox' = inbox,
         read' \subseteq read \cup {Head(queue)}
  PROVE  LoopInv' /\ LossInv'
  <1>1. Following /\ failed' = failed + 1 /\ pc' = "fetch"
    BY DEF Raise, Following
  <1> QED BY <1>1, FollowingLoop, RaiseLoss

\* Nothing is read or stored and no document taken up.
LEMMA SameLoop ==
  ASSUME LoopInv, LossInv, UNCHANGED <<queue, rest, pc, db, read, failed>>,
         inbox' \in Seq(Messages)
  PROVE  LoopInv' /\ LossInv'
  <1>1. InHand' <=> InHand
    BY DEF InHand
  <1>2. InHand => RestInv'
    BY RestStep DEF LoopInv
  <1> QED BY <1>1, <1>2, SameLoss DEF LoopInv

\* Every step keeps both invariants.
LEMMA LossStep ==
  ASSUME StoreInv, LoopInv, LossInv, [Next]_vars
  PROVE  LoopInv' /\ LossInv'
  <1>0. queue \in Seq(Messages) /\ rest \in Seq(Documents) /\ inbox \in Seq(Messages)
    BY DEF LoopInv
  <1>1. ASSUME NEW m \in Messages, Deliver(m) PROVE LoopInv' /\ LossInv'
    BY <1>0, <1>1, SameLoop DEF Deliver, metrics
  <1>2. CASE Poll
    <2>1. queue' \in Seq(Messages)
      BY <1>0, <1>2, SelectedType DEF Poll
    <2>2. ~ InHand /\ ~ InHand' /\ pc' \notin {"commit", "count"}
          /\ UNCHANGED <<db, read, failed, inbox, rest>>
      BY <1>2 DEF Poll, InHand, metrics
    <2> QED BY <1>0, <2>1, <2>2, SameLoss DEF LoopInv
  <1>3. CASE Close \/ Start
    <2>1. ~ InHand /\ ~ InHand' /\ pc' \notin {"commit", "count"}
          /\ UNCHANGED <<db, read, failed, inbox, rest, queue>>
      BY <1>3 DEF Close, Start, InHand, metrics
    <2> QED BY <1>0, <2>1, SameLoss DEF LoopInv
  <1>4. CASE Fetch
    <2>1. /\ queue # <<>> /\ read' = read \cup {Head(queue)} /\ UNCHANGED <<inbox, db>>
          /\ \/ Raise
             \/ /\ pc' = "xml" /\ rest' = ExtractXml(Head(queue)) /\ UNCHANGED <<queue, failed>>
      BY <1>4 DEF Fetch, metrics
    <2>2. CASE Raise
      BY <2>1, <2>2, RaiseStep
    <2>3. CASE pc' = "xml" /\ rest' = ExtractXml(Head(queue)) /\ UNCHANGED <<queue, failed>>
      <3>1. LossInv'
        BY <2>1, <2>3, InHandLoss
      <3>2. rest' \in Seq(Documents)
        <4>1. Head(queue) \in Messages
          BY <1>0, <2>1
        <4>2. Parts[Head(queue)] \in Seq(Documents)
          BY <4>1, DmarcAssumption DEF Documents
        <4> QED BY <2>3, <4>2, SelectedType DEF ExtractXml
      <3>3. RestInv'
        <4>1. Head(queue)' = Head(queue)
          BY <2>3
        <4> QED BY <2>3, <4>1 DEF RestInv
      <3> QED BY <1>0, <2>1, <2>3, <3>1, <3>2, <3>3 DEF LoopInv
    <2> QED BY <2>1, <2>2, <2>3
  <1>5. CASE FetchFails
    BY <1>5, RaiseStep DEF FetchFails
  <1>6. CASE ParseFails \/ \E r \in Reports : FlushFails(r)
    <2>1. queue # <<>> /\ Raise /\ UNCHANGED <<inbox, db, read>>
      BY <1>6 DEF ParseFails, FlushFails, Document, LoopInv, InHand
    <2> QED BY <2>1, RaiseStep
  <1>7. CASE CommitFails
    <2>1. queue # <<>> /\ Raise /\ db \subseteq db' /\ UNCHANGED <<inbox, read>>
      BY <1>7 DEF CommitFails, LoopInv, InHand
    <2> QED BY <2>1, RaiseStep
  <1>8. CASE FlagFails
    <2>1. queue # <<>> /\ Raise /\ UNCHANGED <<inbox, read, db>>
      BY <1>8 DEF FlagFails, LoopInv, InHand
    <2> QED BY <2>1, RaiseStep
  <1>9. CASE Flag
    <2> DEFINE h == Head(queue)
    <2>1. queue # <<>> /\ RestInv /\ rest = <<>> /\ InHand /\ Following /\ UNCHANGED <<inbox, read, db, failed>>
      BY <1>9 DEF Flag, LoopInv, InHand, metrics
    <2>2. Complete(h)
      <3>1. ToSet(rest) = {}
        BY <2>1 DEF ToSet
      <3> QED BY <2>1, <3>1 DEF RestInv, Complete
    <2>3. Lost' = Lost /\ Lost = Lost \ {h}
      BY <2>1, <2>2 DEF Lost, Complete, Duplicate
    <2>4. LossInv'
      <3>1. ~ InHand'
        BY <2>1 DEF InHand, Following
      <3>2. Cardinality(Lost) <= failed
        BY <2>1, <2>3 DEF LossInv
      <3> QED BY <2>1, <2>3, <3>1, <3>2 DEF LossInv
    <2> QED BY <2>1, <2>4, FollowingLoop
  <1>10. ASSUME NEW r \in Reports, Flush(r) PROVE LoopInv' /\ LossInv'
    <2>1. /\ InHand /\ rest # <<>> /\ pc' = "commit"
          /\ UNCHANGED <<inbox, db, queue, rest, failed, read>>
      BY <1>10 DEF Flush, Document, InHand, metrics
    <2>2. RestInv'
      BY <2>1, RestStep DEF LoopInv
    <2>3. LossInv'
      BY <2>1, InHandLoss
    <2> QED BY <2>1, <2>2, <2>3 DEF LoopInv
  <1>11. CASE Commit
    <2>1. /\ InHand /\ rest # <<>> /\ pc' = "count" /\ db \subseteq db'
          /\ UNCHANGED <<inbox, queue, rest, failed, read>>
      BY <1>11 DEF Commit, InHand, metrics, LoopInv
    <2>2. RestInv'
      BY <2>1, RestStep DEF LoopInv
    <2>3. LossInv'
      BY <2>1, InHandLoss
    <2> QED BY <2>1, <2>2, <2>3 DEF LoopInv
  <1>12. CASE UpdateMetrics \/ \E r \in Reports : FlushDuplicate(r)
    <2>1. /\ InHand /\ rest # <<>> /\ pc' = "xml" /\ rest' = Tail(rest)
          /\ UNCHANGED <<inbox, db, queue, failed, read>>
      BY <1>12 DEF UpdateMetrics, FlushDuplicate, Document, InHand, metrics, LoopInv
    <2>2. Head(rest) \in Reports /\ Duplicate(Head(rest))
      <3>1. CASE UpdateMetrics
        BY <3>1, StoredDuplicate DEF UpdateMetrics, StoreInv, CountInv, Current
      <3>2. CASE \E r \in Reports : FlushDuplicate(r)
        BY <3>2 DEF FlushDuplicate, Document
      <3> QED BY <1>12, <3>1, <3>2
    <2>3. rest' \in Seq(Documents) /\ \A p \in ToSet(rest) : p = Head(rest) \/ p \in ToSet(rest')
      BY <1>0, <2>1, HeadAndTail
    <2>4. RestInv'
      BY <2>1, <2>2, <2>3, RestStep DEF LoopInv
    <2>5. LossInv'
      BY <2>1, InHandLoss
    <2> QED BY <2>1, <2>3, <2>4, <2>5 DEF LoopInv
  <1>13. CASE Crash
    <2>1. /\ read' = {} /\ failed' = 0 /\ pc' = "down" /\ queue' = <<>> /\ rest' = <<>> /\ inbox' = inbox
      BY <1>13 DEF Crash
    <2>2. ~ InHand' /\ Lost' = {}
      BY <2>1 DEF InHand, Lost
    <2> QED BY <1>0, <2>1, <2>2, FS_EmptySet DEF LoopInv, LossInv
  <1>14. CASE Quiet \/ UNCHANGED vars
    BY <1>0, <1>14, SameLoop DEF Quiet, vars, metrics
  <1> QED
    BY <1>1, <1>2, <1>3, <1>4, <1>5, <1>6, <1>7, <1>8, <1>9, <1>10, <1>11, <1>12, <1>13, <1>14
    DEF Next, Processor, Environment, StoreReport

\* A process loses no report silently: whatever IMAP or the database fail, between
\* two rounds dmarc_reports_failed is at least the number of messages it read and
\* did not store completely.
THEOREM LossReportedAlways == Spec => []LossReported
  <1>1. Init => LoopInv /\ LossInv
    <2> SUFFICES ASSUME Init PROVE LoopInv /\ LossInv
      OBVIOUS
    <2>1. ~ InHand /\ Lost = {} /\ pc \notin {"commit", "count"}
      BY DEF Init, InHand, Lost
    <2> QED BY <2>1, FS_EmptySet DEF Init, LoopInv, LossInv
  <1>2. StoreInv /\ (LoopInv /\ LossInv) /\ [Next]_vars => (LoopInv /\ LossInv)'
    BY LossStep
  <1>3. LoopInv /\ LossInv => LossReported
    BY DEF LossInv, LossReported, Lost, InHand
  <1> QED BY <1>1, <1>2, <1>3, StoreInvAlways, PTL DEF Spec
=============================================================================
