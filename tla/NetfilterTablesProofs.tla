------------------------ MODULE NetfilterTablesProofs ------------------------
(***************************************************************************)
(* Proofs about NetfilterTables for any chains, priorities, targets and    *)
(* number of edits of other programs.                                      *)
(***************************************************************************)
EXTENDS NetfilterTables, FiniteSetTheorems, SequenceTheorems,
        NaturalsInduction, WellFoundedInduction, TLAPS

Rules == {"jump", "other"}
BaseNames == Names \cup {"FORWARD"}

HasJump(rules) == "jump" \in ToSet(rules)
JumpFirst(rules) == rules # <<>> /\ rules[1] = "jump"

\* No two rules of a chain are jumps.
Single(rules) == \A i, j \in DOMAIN rules : rules[i] = "jump" /\ rules[j] = "jump" => i = j

(***************************************************************************)
(* The invariant.                                                          *)
(***************************************************************************)
TablesType ==
  /\ objs \in Seq(Chains) /\ base \in [BaseNames -> Seq(Rules)]
  /\ mail \in BOOLEAN /\ handle \in BOOLEAN /\ disturbed \in BOOLEAN /\ listed.mail \in BOOLEAN
  /\ chains["input"] \in Names \cup {""} /\ chains["forward"] \in {"FORWARD", ""}
  /\ pc # "down" => chains["forward"] = "FORWARD"

\* The base chain of hook h, as init_chains() found it, has no jump.
Unjumped(h) == Found(h) => ~HasJump(base[chains[h]])
Jumped(h) == Found(h) => JumpFirst(base[chains[h]])

\* A jump that was not listed is not there when it is inserted.
ListedInv ==
  /\ pc \in {"add_chain", "jump_input"} => "input" \in listed.jumps \/ Unjumped("input")
  /\ pc \in {"add_chain", "jump_input", "jump_forward"} =>
       "forward" \in listed.jumps \/ Unjumped("forward")

\* The kernel has nothing that refers to a chain MAIL that is not there.
KernelInv == ~mail => isolation = 0 /\ ~Busy

Clearing == {"list_input", "unjump_input", "list_forward", "unjump_forward", "delete_chain"}

\* How far clear() is: MAIL is flushed, and there is none if its handle was not found.
ClearInv ==
  /\ pc = "flush" => handle
  /\ pc \in Clearing => isolation = 0 /\ (handle \/ ~mail)
  /\ pc = "stopped" => ~mail

\* How far the setup is, if no other program interfered.
ProgressInv ==
  /\ pc = "flush" \/ pc \in Clearing => handle = mail
  /\ pc = "unjump_input" /\ todo = 0 => Unjumped("input")
  /\ pc \in {"list_forward", "unjump_forward", "delete_chain", "list", "add_chain",
            "jump_input"} => Unjumped("input")
  /\ pc = "unjump_forward" /\ todo = 0 => Unjumped("forward")
  /\ pc \in {"delete_chain", "list", "add_chain", "jump_input", "jump_forward"} =>
       Unjumped("forward")
  /\ pc \in {"list", "add_chain"} => ~mail
  /\ pc = "add_chain" => ~listed.mail
  /\ pc \in {"add_chain", "jump_input", "jump_forward"} => listed.jumps = {}
  /\ pc \in {"jump_input", "jump_forward", "list_isolation", "isolate", "run", "snat"} => mail
  /\ pc \in {"jump_input", "jump_forward", "list_isolation", "isolate"} => isolation = 0
  /\ pc = "isolate" => todo = 0
  /\ pc \in {"jump_forward", "list_isolation", "isolate", "run", "snat"} => Jumped("input")
  /\ pc \in {"list_isolation", "isolate", "run", "snat"} => Jumped("forward")
  /\ pc \in {"run", "snat"} => isolation = 1

TablesInv ==
  /\ TablesType /\ OneJump /\ ListedInv /\ KernelInv /\ ClearInv
  /\ ~disturbed => ProgressInv

----------------------------------------------------------------------------
(***************************************************************************)
(* Sequences of rules.                                                     *)
(***************************************************************************)
\* A rule in front of the others.
LEMMA Prepend ==
  ASSUME NEW T, NEW s \in Seq(T), NEW x \in T
  PROVE  LET t == <<x>> \o s
         IN  /\ t \in Seq(T) /\ t # <<>> /\ Len(t) = Len(s) + 1 /\ t[1] = x
             /\ \A i \in 1..Len(s) : t[i + 1] = s[i]
             /\ \A i \in DOMAIN t : i # 1 => i - 1 \in 1..Len(s) /\ t[i] = s[i - 1]
  OBVIOUS

\* A rule of another program in front.
LEMMA PrependOther ==
  ASSUME NEW s \in Seq(Rules), Single(s)
  PROVE  LET t == <<"other">> \o s
         IN  /\ t \in Seq(Rules) /\ Single(t) /\ (HasJump(t) => HasJump(s))
  <1> DEFINE t == <<"other">> \o s
  <1>1. /\ t \in Seq(Rules) /\ Len(t) = Len(s) + 1 /\ t[1] = "other"
        /\ \A i \in DOMAIN t : i # 1 => i - 1 \in 1..Len(s) /\ t[i] = s[i - 1]
    BY Prepend DEF Rules
  <1> HIDE DEF t
  <1>2. DOMAIN s = 1..Len(s) /\ DOMAIN t = 1..Len(t)
    BY <1>1
  <1>3. ASSUME NEW i \in DOMAIN t, t[i] = "jump" PROVE i - 1 \in DOMAIN s /\ s[i - 1] = "jump"
    BY <1>1, <1>2, <1>3
  <1>4. Single(t)
    <2> SUFFICES ASSUME NEW i \in DOMAIN t, NEW j \in DOMAIN t, t[i] = "jump", t[j] = "jump"
                 PROVE  i = j
      BY DEF Single
    <2>1. i - 1 = j - 1
      BY <1>3 DEF Single
    <2> QED BY <1>2, <2>1
  <1>5. HasJump(t) => HasJump(s)
    BY <1>3 DEF HasJump, ToSet
  <1> QED BY <1>1, <1>4, <1>5 DEF t

\* A jump in front of rules without one.
LEMMA PrependJump ==
  ASSUME NEW s \in Seq(Rules), ~HasJump(s)
  PROVE  LET t == <<"jump">> \o s
         IN  t \in Seq(Rules) /\ Single(t) /\ JumpFirst(t)
  <1> DEFINE t == <<"jump">> \o s
  <1>1. /\ t \in Seq(Rules) /\ t # <<>> /\ t[1] = "jump"
        /\ \A i \in DOMAIN t : i # 1 => i - 1 \in 1..Len(s) /\ t[i] = s[i - 1]
    BY Prepend DEF Rules
  <1> HIDE DEF t
  <1>2. \A i \in 1..Len(s) : s[i] # "jump"
    BY DEF HasJump, ToSet
  <1>3. Single(t)
    BY <1>1, <1>2 DEF Single
  <1> QED BY <1>1, <1>3 DEF t, JumpFirst

\* No rules, no jumps.
LEMMA NoRules == <<>> \in Seq(Rules) /\ Single(<<>>) /\ ~HasJump(<<>>)
  BY DEF Single, HasJump, ToSet

\* get_rule_handles() finds no handle only where there is no jump.
LEMMA NoneListed ==
  ASSUME NEW s \in Seq(Rules), NumJumps(s) = 0
  PROVE  ~HasJump(s)
  <1> DEFINE I == {i \in DOMAIN s : s[i] = "jump"}
  <1>1. IsFiniteSet(1..Len(s))
    <2>1. Len(s) \in Int /\ 1 \in Int
      OBVIOUS
    <2> QED BY <2>1, FS_Interval
  <1>2. IsFiniteSet(I)
    <2>1. I \subseteq 1..Len(s)
      OBVIOUS
    <2> HIDE DEF I
    <2> QED BY <1>1, <2>1, FS_Subset
  <1>3. Cardinality(I) = 0
    BY DEF NumJumps
  <1>4. I = {}
    <2> HIDE DEF I
    <2> QED BY <1>2, <1>3, FS_EmptySet
  <1> QED BY <1>4 DEF HasJump, ToSet

\* Deleting the one jump of a chain leaves none.
LEMMA JumpRemoved ==
  ASSUME NEW s \in Seq(Rules), Single(s), HasJump(s)
  PROVE  LET t == RemoveFirst(s, "jump")
         IN  t \in Seq(Rules) /\ Single(t) /\ ~HasJump(t)
  <1> DEFINE I == {i \in 1..Len(s) : s[i] = "jump"}
             n == Len(s)
  <1>1. PICK k \in 1..n : s[k] = "jump"
    BY DEF HasJump, ToSet
  <1>2. n \in Nat /\ DOMAIN s = 1..n
    OBVIOUS
  <1>3. \A i \in 1..n : i # k => s[i] = "other"
    BY <1>1, <1>2 DEF Single, Rules
  <1>4. k \in I /\ \A i \in I : i = k /\ i \in Int
    BY <1>1, <1>3
  <1>5. Min(I) = k
    <2> HIDE DEF I
    <2>1. \A x \in I : x = k /\ x <= k
      BY <1>4
    <2> QED BY <1>4, <2>1 DEF Min
  <1>6. SelectInSeq(s, LAMBDA v : v = "jump") = k
    <2>1. I # {}
      BY <1>4
    <2> QED BY <1>5, <2>1 DEF SelectInSeq
  <1> DEFINE t == SubSeq(s, 1, k - 1) \o SubSeq(s, k + 1, n)
  <1>7. RemoveFirst(s, "jump") = t
    BY <1>1, <1>6 DEF RemoveFirst, RemoveAt
  <1>8. /\ t \in Seq(Rules) /\ Len(t) = n - 1
        /\ \A i \in 1..(n - 1) : t[i] = IF i < k THEN s[i] ELSE s[i + 1]
    <2> DEFINE a == SubSeq(s, 1, k - 1)
               b == SubSeq(s, k + 1, n)
    <2>1. a \in Seq(Rules) /\ Len(a) = k - 1 /\ \A i \in 1..(k - 1) : a[i] = s[i]
      BY <1>1, <1>2
    <2>2. b \in Seq(Rules) /\ Len(b) = n - k /\ \A i \in 1..(n - k) : b[i] = s[i + k]
      <3>1. k + 1 \in Int /\ n \in Int /\ \A i \in (k + 1)..n : s[i] \in Rules
        BY <1>1, <1>2
      <3>2. /\ b \in Seq(Rules) /\ Len(b) = IF k + 1 <= n THEN n - (k + 1) + 1 ELSE 0
            /\ \A i \in 1..(n - (k + 1) + 1) : b[i] = s[(k + 1) + i - 1]
        <4> HIDE DEF n
        <4> QED BY <3>1, SubSeqProperties
      <3>3. n - (k + 1) + 1 = n - k /\ \A i \in Int : (k + 1) + i - 1 = i + k
        BY <1>1, <1>2
      <3> HIDE DEF b, n
      <3>4. Len(b) = n - k
        BY <1>1, <1>2, <3>2
      <3>5. ASSUME NEW i \in 1..(n - k) PROVE b[i] = s[i + k]
        <4>1. i \in Int /\ i \in 1..(n - (k + 1) + 1)
          BY <3>3
        <4> QED BY <3>2, <3>3, <4>1
      <3> QED BY <3>2, <3>4, <3>5
    <2> HIDE DEF a, b, n
    <2>3. /\ a \o b \in Seq(Rules) /\ Len(a \o b) = Len(a) + Len(b)
          /\ \A i \in 1..(Len(a) + Len(b)) :
               (a \o b)[i] = IF i <= Len(a) THEN a[i] ELSE b[i - Len(a)]
      BY <2>1, <2>2, ConcatProperties
    <2>4. t = a \o b
      BY DEF a, b
    <2> HIDE DEF t
    <2> QED BY <1>1, <1>2, <2>1, <2>2, <2>3, <2>4
  <1> HIDE DEF t
  <1>9. \A i \in DOMAIN t : t[i] = "other"
    <2> SUFFICES ASSUME NEW i \in 1..(n - 1) PROVE t[i] = "other"
      BY <1>8
    <2>1. CASE i < k
      BY <1>1, <1>2, <1>3, <1>8, <2>1
    <2>2. CASE ~ (i < k)
      BY <1>1, <1>2, <1>3, <1>8, <2>2
    <2> QED BY <2>1, <2>2
  <1> QED BY <1>7, <1>8, <1>9 DEF Single, HasJump, ToSet

----------------------------------------------------------------------------
(***************************************************************************)
(* The loops.                                                              *)
(***************************************************************************)
\* Induction: among the numbers that fail there is a least one.
LEMMA LeastNumber ==
  ASSUME NEW B \in SUBSET Nat, B # {}
  PROVE  \E n \in B : \A k \in B : ~ (k < n)
  <1> DEFINE R == OpToRel(<, Nat)
  <1>1. IsWellFoundedOn(R, Nat)
    BY NatLessThanWellFounded
  <1>2. \A k, n \in Nat : k < n => <<k, n>> \in R
    BY DEF OpToRel
  <1> HIDE DEF R
  <1>3. PICK n \in B : \A k \in B : ~ (<<k, n>> \in R)
    BY <1>1, WFMin
  <1> QED BY <1>2, <1>3

\* Function g is the loop of init_chains() over the first n chains.
BestLoop(g, n, list) ==
  g = [i \in 0..n |-> IF i = 0 THEN NoChain ELSE Lower(g[i - 1], list[i])]

\* The pass of init_chains() over a listing has a function.
LEMMA BestLoopExists ==
  ASSUME NEW list, NEW m \in Nat
  PROVE  \E g : BestLoop(g, m, list)
  <1> DEFINE B == {n \in Nat : ~ \E g : BestLoop(g, n, list)}
             F(f, i) == IF i = 0 THEN NoChain ELSE Lower(f[i - 1], list[i])
  <1> SUFFICES ASSUME B # {} PROVE FALSE
    OBVIOUS
  <1>1. PICK n \in B : \A k \in B : ~ (k < n)
    <2>1. B \in SUBSET Nat
      OBVIOUS
    <2> HIDE DEF B
    <2> QED BY <2>1, LeastNumber
  <1>2. CASE n = 0
    <2> DEFINE h == [i \in 0..0 |-> NoChain]
    <2>1. h = [i \in 0..0 |-> h[i]] /\ \A i \in 0..0 : i = 0 /\ h[i] = NoChain
      OBVIOUS
    <2> HIDE DEF h
    <2>2. \A i \in 0..0 : h[i] = F(h, i)
      BY <2>1
    <2>3. h = [i \in 0..0 |-> F(h, i)]
      <3> HIDE DEF F
      <3> QED BY <2>1, <2>2
    <2>4. BestLoop(h, 0, list)
      BY <2>3 DEF BestLoop
    <2> QED BY <1>2, <2>4
  <1>3. CASE n # 0
    <2>1. n - 1 \in Nat /\ n - 1 < n
      BY <1>3
    <2>2. PICK g : BestLoop(g, n - 1, list)
      BY <1>1, <2>1
    <2> DEFINE h == [i \in 0..n |-> IF i = n THEN F(g, n) ELSE g[i]]
    <2>3. \A i \in 0..(n - 1) : g[i] = F(g, i) /\ h[i] = g[i]
      <3>1. g = [i \in 0..(n - 1) |-> F(g, i)]
        BY <2>2 DEF BestLoop
      <3> HIDE DEF F
      <3>2. \A i \in 0..(n - 1) : i \in 0..n /\ i # n
        OBVIOUS
      <3>3. \A i \in 0..(n - 1) : h[i] = g[i]
        BY <3>2
      <3>4. \A i \in 0..(n - 1) : g[i] = F(g, i)
        BY <3>1
      <3> QED BY <3>3, <3>4
    <2>4. \A i \in 0..n : h[i] = F(h, i)
      <3> SUFFICES ASSUME NEW i \in 0..n PROVE h[i] = F(h, i)
        OBVIOUS
      <3>1. CASE i = n
        BY <1>3, <2>1, <2>3, <3>1
      <3>2. CASE i # n
        <4>1. i \in 0..(n - 1) /\ (i # 0 => i - 1 \in 0..(n - 1))
          BY <3>2
        <4>2. h[i] = F(g, i)
          BY <2>3, <4>1
        <4>3. i # 0 => h[i - 1] = g[i - 1]
          BY <2>3, <4>1
        <4> QED BY <4>2, <4>3
      <3> QED BY <3>1, <3>2
    <2>5. h = [i \in 0..n |-> F(h, i)]
      <3>1. h = [i \in 0..n |-> h[i]]
        OBVIOUS
      <3> HIDE DEF h
      <3> QED BY <2>4, <3>1
    <2>6. BestLoop(h, n, list)
      BY <2>5 DEF BestLoop
    <2> QED BY <2>6
  <1> QED BY <1>2, <1>3

\* Chain k comes before chain j: by priority, then by its place in the listing.
Before(list, k, j) ==
  \/ list[k].prio < list[j].prio
  \/ (list[k].prio = list[j].prio /\ k <= j)

\* Chain c is the best of the first n chains of a listing.
BestOf(c, n, list) ==
  \/ (c = NoChain /\ \A k \in 1..n : ~list[k].based)
  \/ \E k \in 1..n : /\ c = list[k] /\ list[k].based
                     /\ \A j \in 1..n : list[j].based => Before(list, k, j)

\* One round of the pass: a chain replaces the best one only if its priority is lower.
LEMMA BestStep ==
  ASSUME NEW list \in Seq(Chains), NEW n \in 1..Len(list), NEW c, BestOf(c, n - 1, list)
  PROVE  BestOf(Lower(c, list[n]), n, list)
  <1>1. \A k \in 1..Len(list) : list[k].based \in BOOLEAN /\ list[k].prio \in Int
    <2>1. \A k \in 1..Len(list) : list[k] \in Chains
      OBVIOUS
    <2>2. \A x \in Chains : x.based \in BOOLEAN /\ x.prio \in Int
      BY TablesAssumption DEF Chains
    <2> QED BY <2>1, <2>2
  <1>2. 1..n = 1..(n - 1) \cup {n} /\ 1..n \subseteq 1..Len(list) /\ n \in Int
    <2>1. Len(list) \in Nat /\ n \in Nat /\ 1 <= n /\ n <= Len(list)
      OBVIOUS
    <2>2. \A i \in Int : (i \in 1..n <=> i \in 1..(n - 1) \/ i = n)
      BY <2>1
    <2>3. \A i \in 1..n : i \in 1..Len(list)
      BY <2>1
    <2> QED BY <2>1, <2>2, <2>3
  <1>3. CASE c = NoChain /\ \A k \in 1..(n - 1) : ~list[k].based
    <2>1. ~c.based
      BY <1>3 DEF NoChain
    <2>2. CASE list[n].based
      <3>1. Lower(c, list[n]) = list[n]
        BY <2>1, <2>2 DEF Lower
      <3>2. Before(list, n, n)
        BY <1>2 DEF Before
      <3>3. \A j \in 1..n : list[j].based => Before(list, n, j)
        BY <1>2, <1>3, <3>2
      <3> QED BY <1>2, <2>2, <3>1, <3>3 DEF BestOf
    <2>3. CASE ~list[n].based
      BY <1>2, <1>3, <2>3 DEF Lower, BestOf
    <2> QED BY <2>2, <2>3
  <1>4. CASE \E k \in 1..(n - 1) : /\ c = list[k] /\ list[k].based
                                   /\ \A j \in 1..(n - 1) : list[j].based => Before(list, k, j)
    <2>1. PICK k \in 1..(n - 1) : /\ c = list[k] /\ list[k].based
                                  /\ \A j \in 1..(n - 1) : list[j].based => Before(list, k, j)
      BY <1>4
    <2>2. k \in 1..Len(list) /\ k \in 1..n /\ k < n /\ n \in 1..n
      OBVIOUS
    <2>3. list[k].prio \in Int /\ list[n].prio \in Int
      BY <1>1, <2>2
    <2>4. CASE list[n].based /\ list[n].prio < list[k].prio
      <3>1. Lower(c, list[n]) = list[n]
        BY <2>1, <2>4 DEF Lower
      <3>2. ASSUME NEW j \in 1..n, list[j].based PROVE Before(list, n, j)
        <4>1. CASE j = n
          BY <1>2, <4>1 DEF Before
        <4>2. CASE j # n
          <5>1. j \in 1..(n - 1) /\ list[j].prio \in Int
            BY <1>1, <1>2, <4>2
          <5>2. Before(list, k, j)
            BY <2>1, <3>2, <5>1
          <5> QED BY <2>3, <2>4, <5>1, <5>2 DEF Before
        <4> QED BY <4>1, <4>2
      <3> QED BY <2>2, <2>4, <3>1, <3>2 DEF BestOf
    <2>5. CASE ~ (list[n].based /\ list[n].prio < list[k].prio)
      <3>1. Lower(c, list[n]) = list[k]
        BY <2>1, <2>5 DEF Lower
      <3>2. list[n].based => Before(list, k, n)
        BY <2>2, <2>3, <2>5 DEF Before
      <3>3. \A j \in 1..n : list[j].based => Before(list, k, j)
        BY <1>2, <2>1, <3>2
      <3> QED BY <2>1, <2>2, <3>1, <3>3 DEF BestOf
    <2> QED BY <2>4, <2>5
  <1> QED BY <1>3, <1>4 DEF BestOf

\* init_chains() returns the best chain of the listing.
LEMMA BestFound ==
  ASSUME NEW list \in Seq(Chains)
  PROVE  BestOf(init_chains(list), Len(list), list)
  <1> DEFINE f == CHOOSE g : BestLoop(g, Len(list), list)
  <1>1. Len(list) \in Nat
    OBVIOUS
  <1>2. init_chains(list) = f[Len(list)]
    BY DEF init_chains, BestLoop
  <1>3. BestLoop(f, Len(list), list)
    BY <1>1, BestLoopExists
  <1> HIDE DEF f
  <1> DEFINE B == {n \in Nat : n <= Len(list) /\ ~BestOf(f[n], n, list)}
  <1>4. ASSUME B # {} PROVE FALSE
    <2>1. PICK n \in B : \A k \in B : ~ (k < n)
      <3>1. B \in SUBSET Nat
        OBVIOUS
      <3> HIDE DEF B
      <3> QED BY <1>4, <3>1, LeastNumber
    <2>2. n \in 0..Len(list) /\ ~BestOf(f[n], n, list)
      OBVIOUS
    <2>3. f[n] = IF n = 0 THEN NoChain ELSE Lower(f[n - 1], list[n])
      BY <1>3, <2>2 DEF BestLoop
    <2>4. n # 0
      BY <2>2, <2>3 DEF BestOf
    <2>5. n - 1 \notin B /\ n - 1 \in Nat /\ n - 1 <= Len(list) /\ n \in 1..Len(list)
      BY <2>1, <2>2, <2>4
    <2>6. BestOf(f[n - 1], n - 1, list)
      BY <2>5
    <2>7. BestOf(Lower(f[n - 1], list[n]), n, list)
      BY <2>5, <2>6, BestStep
    <2> QED BY <2>2, <2>3, <2>4, <2>7
  <1> QED BY <1>1, <1>2, <1>4

\* It is a chain of the listing, or none.
LEMMA BestName ==
  ASSUME NEW list \in Seq(Chains)
  PROVE  init_chains(list).name \in Names \cup {""}
  <1>1. NoChain.name = ""
    BY DEF NoChain
  <1>2. \A k \in 1..Len(list) : list[k].name \in Names
    <2>1. \A k \in 1..Len(list) : list[k] \in Chains
      OBVIOUS
    <2> QED BY <2>1 DEF Chains
  <1> QED BY <1>1, <1>2, BestFound DEF BestOf

\* A jump in front has position 0, which is what check_chain_order() asks.
LEMMA FirstIsZero ==
  ASSUME NEW name \in DOMAIN base, base[name] \in Seq(Rules), JumpFirst(base[name])
  PROVE  Position(name) = 0
  <1> DEFINE s == base[name]
             I == {i \in 1..Len(s) : s[i] = "jump"}
  <1>1. Len(s) \in Nat /\ 1 \in 1..Len(s) /\ s[1] = "jump" /\ DOMAIN s = 1..Len(s)
    BY DEF JumpFirst
  <1>2. Jumps(name)
    BY <1>1 DEF Jumps, ToSet
  <1>3. 1 \in I /\ \A i \in I : i \in Int /\ 1 <= i
    BY <1>1
  <1>4. Min(I) = 1
    <2> HIDE DEF I
    <2>1. \A x \in I : (\A y \in I : x <= y) => x = 1
      BY <1>3
    <2> QED BY <1>3, <2>1 DEF Min
  <1>5. I # {}
    BY <1>3
  <1>6. SelectInSeq(base[name], LAMBDA r : r = "jump") = Min(I)
    BY <1>5 DEF SelectInSeq
  <1> QED BY <1>2, <1>4, <1>6 DEF Position

----------------------------------------------------------------------------
(***************************************************************************)
(* What the commands do to the base chains.                                *)
(***************************************************************************)
\* OneJump, chain by chain.
LEMMA SingleChains ==
  ASSUME base \in [BaseNames -> Seq(Rules)]
  PROVE  OneJump <=> \A name \in BaseNames : Single(base[name])
  BY DEF OneJump, Single

\* The same of the next state.
LEMMA SingleChainsNext ==
  ASSUME base' \in [BaseNames -> Seq(Rules)]
  PROVE  OneJump' <=> \A name \in BaseNames : Single(base'[name])
  BY DEF OneJump, Single

\* clear() takes the listed jump out of the base chain of a hook and adds none
\* elsewhere.
LEMMA UnjumpBase ==
  ASSUME base \in [BaseNames -> Seq(Rules)], OneJump, NEW h \in Hooks,
         NEW from, NEW to, Unjump(h, from, to)
  PROVE  /\ base' \in [BaseNames -> Seq(Rules)] /\ OneJump'
         /\ \A name \in BaseNames : ~HasJump(base[name]) => ~HasJump(base'[name])
         /\ todo # 0 /\ chains[h] \in BaseNames => ~HasJump(base'[chains[h]])
  <1> DEFINE c == chains[h]
             t == RemoveFirst(base[c], "jump")
  <1>1. \A name \in BaseNames : base[name] \in Seq(Rules) /\ Single(base[name])
    BY SingleChains
  <1>2. CASE todo # 0 /\ c \in BaseNames
    <2>1. base' = [base EXCEPT ![c] = t] /\ HasJump(base[c])
      BY <1>2 DEF Unjump, Jumps, HasJump
    <2>2. t \in Seq(Rules) /\ Single(t) /\ ~HasJump(t)
      BY <1>1, <1>2, <2>1, JumpRemoved
    <2> HIDE DEF t, c
    <2>3. \A name \in BaseNames :
            /\ base'[name] \in Seq(Rules) /\ Single(base'[name])
            /\ ~HasJump(base[name]) => ~HasJump(base'[name])
      BY <1>1, <2>1, <2>2
    <2>4. base' \in [BaseNames -> Seq(Rules)] /\ ~HasJump(base'[c])
      BY <1>2, <2>1, <2>2
    <2>5. OneJump'
      BY <2>3, <2>4, SingleChainsNext
    <2> QED BY <2>3, <2>4, <2>5 DEF c
  <1>3. CASE ~ (todo # 0 /\ c \in BaseNames)
    <2>1. base' = base
      <3>1. CASE todo = 0
        BY <3>1 DEF Unjump
      <3>2. CASE todo # 0
        <4>1. base' = [base EXCEPT ![c] = t]
          BY <3>2 DEF Unjump
        <4> HIDE DEF t, c
        <4>2. c \notin DOMAIN base
          BY <1>3, <3>2
        <4> QED BY <4>1, <4>2
      <3> QED BY <3>1, <3>2
    <2>2. OneJump'
      BY <2>1 DEF OneJump
    <2> QED BY <1>3, <2>1, <2>2
  <1> QED BY <1>2, <1>3

\* insert_mail_chains() puts a jump in front of a base chain that has none.
LEMMA InsertBase ==
  ASSUME base \in [BaseNames -> Seq(Rules)], OneJump, NEW c \in BaseNames,
         ~HasJump(base[c]), base' = [base EXCEPT ![c] = <<"jump">> \o @]
  PROVE  /\ base' \in [BaseNames -> Seq(Rules)] /\ OneJump'
         /\ JumpFirst(base'[c])
         /\ \A name \in BaseNames : name # c => base'[name] = base[name]
  <1>1. \A name \in BaseNames : base[name] \in Seq(Rules) /\ Single(base[name])
    BY SingleChains
  <1> DEFINE t == <<"jump">> \o base[c]
  <1>2. t \in Seq(Rules) /\ Single(t) /\ JumpFirst(t)
    BY <1>1, PrependJump
  <1>3. base' = [base EXCEPT ![c] = t]
    OBVIOUS
  <1> HIDE DEF t
  <1>4. base' \in [BaseNames -> Seq(Rules)] /\ base'[c] = t
    BY <1>2, <1>3
  <1>5. \A name \in BaseNames : name # c => base'[name] = base[name]
    BY <1>3
  <1>6. \A name \in BaseNames : Single(base'[name])
    BY <1>1, <1>2, <1>4, <1>5
  <1>7. OneJump'
    BY <1>4, <1>6, SingleChainsNext
  <1> QED BY <1>2, <1>4, <1>5, <1>7

\* A rule of another program moves our jumps and adds none.
LEMMA OtherBase ==
  ASSUME base \in [BaseNames -> Seq(Rules)], OneJump, NEW c \in BaseNames,
         base' = [base EXCEPT ![c] = <<"other">> \o @]
  PROVE  /\ base' \in [BaseNames -> Seq(Rules)] /\ OneJump'
         /\ \A name \in BaseNames : ~HasJump(base[name]) => ~HasJump(base'[name])
  <1>1. \A name \in BaseNames : base[name] \in Seq(Rules) /\ Single(base[name])
    BY SingleChains
  <1> DEFINE t == <<"other">> \o base[c]
  <1>2. t \in Seq(Rules) /\ Single(t) /\ (HasJump(t) => HasJump(base[c]))
    BY <1>1, PrependOther
  <1>3. base' = [base EXCEPT ![c] = t]
    OBVIOUS
  <1> HIDE DEF t
  <1>4. base' \in [BaseNames -> Seq(Rules)] /\ base'[c] = t
    BY <1>2, <1>3
  <1>5. \A name \in BaseNames : name # c => base'[name] = base[name]
    BY <1>3
  <1>6. \A name \in BaseNames : Single(base'[name])
    BY <1>1, <1>2, <1>4, <1>5
  <1>7. OneJump'
    BY <1>4, <1>6, SingleChainsNext
  <1> QED BY <1>2, <1>4, <1>5, <1>7

\* Another program flushes every chain.
LEMMA FlushedBase ==
  ASSUME base \in [BaseNames -> Seq(Rules)], base' = [name \in DOMAIN base |-> <<>>]
  PROVE  /\ base' \in [BaseNames -> Seq(Rules)] /\ OneJump'
         /\ \A name \in BaseNames : ~HasJump(base'[name])
  <1>1. \A name \in BaseNames : base'[name] = <<>>
    OBVIOUS
  <1>2. base' \in [BaseNames -> Seq(Rules)]
    BY NoRules
  <1>3. \A name \in BaseNames : Single(base'[name]) /\ ~HasJump(base'[name])
    BY <1>1, NoRules
  <1> QED BY <1>2, <1>3, SingleChainsNext

----------------------------------------------------------------------------
(***************************************************************************)
(* The invariant holds at the start and every step keeps it.               *)
(***************************************************************************)
\* An empty kernel and no process.
LEMMA InitInv == ASSUME Init PROVE TablesInv
  <1>1. objs \in Seq(Chains)
    <2>1. objs \in {<<>>} \cup {<<c>> : c \in Chains}
      BY DEF Init
    <2>2. <<>> \in Seq(Chains) /\ \A c \in Chains : <<c>> \in Seq(Chains)
      OBVIOUS
    <2> QED BY <2>1, <2>2
  <1>2. /\ base \in [BaseNames -> Seq(Rules)]
        /\ \A name \in BaseNames : Single(base[name]) /\ ~HasJump(base[name])
    BY NoRules DEF Init, BaseNames
  <1>3. OneJump
    BY <1>2, SingleChains
  <1>4. TablesType
    BY <1>1, <1>2 DEF Init, TablesType, Hooks, NotListed
  <1>5. KernelInv
    BY <1>2 DEF Init, KernelInv, Busy, Jumps, HasJump
  <1>6. ListedInv /\ ClearInv /\ ProgressInv
    BY DEF Init, ListedInv, ClearInv, Clearing, ProgressInv
  <1> QED BY <1>3, <1>4, <1>5, <1>6 DEF TablesInv

\* A step that leaves the table filter alone.
LEMMA KernelFrame ==
  ASSUME KernelInv, OneJump, UNCHANGED <<mail, isolation, base>>
  PROVE  KernelInv' /\ OneJump'
  BY DEF KernelInv, Busy, Jumps, OneJump

\* A step that adds no jump: MAIL is as much in use as it was, or less.
LEMMA BusyFrame ==
  ASSUME base \in [BaseNames -> Seq(Rules)], base' \in [BaseNames -> Seq(Rules)],
         \A name \in BaseNames : ~HasJump(base[name]) => ~HasJump(base'[name])
  PROVE  ~Busy => ~Busy'
  BY DEF Busy, Jumps, HasJump

\* The process is gone: nothing is asked of it, and the kernel is as it was.
LEMMA AbortInv ==
  ASSUME TablesInv, Abort, UNCHANGED disturbed
  PROVE  TablesInv'
  <1>1. TablesType'
    BY DEF TablesInv, TablesType, Abort, kernelVars, launchVars, NotListed
  <1>2. OneJump' /\ KernelInv'
    BY KernelFrame DEF TablesInv, Abort, kernelVars
  <1>3. ListedInv' /\ ClearInv' /\ ProgressInv'
    BY DEF Abort, ListedInv, ClearInv, Clearing, ProgressInv
  <1> QED BY <1>1, <1>2, <1>3 DEF TablesInv

\* The launch chooses the base chains, from any kernel.
LEMMA LaunchInv == ASSUME TablesInv, Launch PROVE TablesInv'
  <1>1. init_chains(objs).name \in Names \cup {""}
    BY BestName DEF TablesInv, TablesType
  <1>2. TablesType'
    BY <1>1 DEF TablesInv, TablesType, Launch, kernelVars
  <1>3. OneJump' /\ KernelInv'
    BY KernelFrame DEF TablesInv, Launch, kernelVars
  <1>4. ListedInv' /\ ClearInv' /\ ProgressInv'
    BY DEF Launch, ListedInv, ClearInv, Clearing, ProgressInv
  <1> QED BY <1>2, <1>3, <1>4 DEF TablesInv

\* The handle of the chain is looked for; a chain that is not there holds nothing.
LEMMA HandleInv == ASSUME TablesInv, GetChainHandle PROVE TablesInv'
  <1>1. TablesType'
    BY DEF TablesInv, TablesType, GetChainHandle, Goto, kernelVars, launchVars, foreignVars
  <1>2. OneJump' /\ KernelInv'
    BY KernelFrame DEF TablesInv, GetChainHandle, kernelVars
  <1>3. ListedInv'
    BY DEF GetChainHandle, Goto, ListedInv
  <1>4. ClearInv'
    BY DEF GetChainHandle, Goto, kernelVars, ClearInv, Clearing, TablesInv, KernelInv
  <1>5. ProgressInv'
    BY DEF GetChainHandle, Goto, kernelVars, ProgressInv
  <1> QED BY <1>1, <1>2, <1>3, <1>4, <1>5 DEF TablesInv

\* The chain is flushed, if it is still there.
LEMMA FlushInv == ASSUME TablesInv, Flush PROVE TablesInv'
  <1>1. TablesType'
    BY DEF TablesInv, TablesType, Flush, Goto, launchVars, taskVars, foreignVars
  <1>2. OneJump' /\ KernelInv'
    BY DEF TablesInv, Flush, OneJump, KernelInv
  <1>3. ListedInv'
    BY DEF Flush, Goto, ListedInv
  <1>4. ClearInv'
    BY DEF Flush, Goto, taskVars, ClearInv, Clearing, TablesInv
  <1>5. ~disturbed' => ProgressInv'
    <2>1. ~disturbed' => handle' = mail'
      BY DEF Flush, Goto, taskVars, foreignVars, TablesInv, ProgressInv
    <2> QED BY <2>1 DEF Flush, Goto, ProgressInv
  <1> QED BY <1>1, <1>2, <1>3, <1>4, <1>5 DEF TablesInv

\* The jumps of a base chain are listed: no handle, no jump.
LEMMA ListedJumps ==
  ASSUME TablesInv, NEW h \in Hooks, NEW from, NEW to, ListJumps(h, from, to)
  PROVE  /\ todo' = 0 => Unjumped(h)'
         /\ \A g \in Hooks : Unjumped(g) => Unjumped(g)'
  <1>1. base' = base /\ chains' = chains
    BY DEF ListJumps, kernelVars, launchVars
  <1>2. ASSUME Found(h), NumJumps(base[chains[h]]) = 0 PROVE ~HasJump(base[chains[h]])
    <2>1. chains[h] \in BaseNames
      BY <1>2 DEF Found, TablesInv, TablesType, Hooks, BaseNames
    <2>2. base[chains[h]] \in Seq(Rules)
      BY <2>1 DEF TablesInv, TablesType
    <2> QED BY <1>2, <2>2, NoneListed
  <1>3. Found(h) => todo' = NumJumps(base[chains[h]])
    BY DEF ListJumps
  <1> QED BY <1>1, <1>2, <1>3 DEF Unjumped, Found

\* clear() lists the base chain of the hook input.
LEMMA ListInputInv ==
  ASSUME TablesInv, ListJumps("input", "list_input", "unjump_input")
  PROVE  TablesInv'
  <1>1. TablesType'
    BY DEF TablesInv, TablesType, ListJumps, Goto, kernelVars, launchVars, foreignVars
  <1>2. OneJump' /\ KernelInv'
    BY KernelFrame DEF TablesInv, ListJumps, kernelVars
  <1>3. ListedInv' /\ ClearInv'
    BY DEF ListJumps, Goto, kernelVars, ListedInv, ClearInv, Clearing, TablesInv
  <1>4. todo' = 0 => Unjumped("input")'
    BY ListedJumps DEF Hooks
  <1>5. ~disturbed' => handle' = mail'
    BY DEF ListJumps, Goto, kernelVars, foreignVars, TablesInv, ProgressInv, Clearing
  <1>6. ~disturbed' => ProgressInv'
    BY <1>4, <1>5 DEF ListJumps, Goto, ProgressInv
  <1> QED BY <1>1, <1>2, <1>3, <1>6 DEF TablesInv

\* clear() lists the base chain of the hook forward.
LEMMA ListForwardInv ==
  ASSUME TablesInv, ListJumps("forward", "list_forward", "unjump_forward")
  PROVE  TablesInv'
  <1>1. TablesType'
    BY DEF TablesInv, TablesType, ListJumps, Goto, kernelVars, launchVars, foreignVars
  <1>2. OneJump' /\ KernelInv'
    BY KernelFrame DEF TablesInv, ListJumps, kernelVars
  <1>3. ListedInv' /\ ClearInv'
    BY DEF ListJumps, Goto, kernelVars, ListedInv, ClearInv, Clearing, TablesInv
  <1>4. (todo' = 0 => Unjumped("forward")') /\ (Unjumped("input") => Unjumped("input")')
    BY ListedJumps DEF Hooks
  <1>5. ~disturbed' => handle' = mail' /\ Unjumped("input")
    BY DEF ListJumps, Goto, kernelVars, foreignVars, TablesInv, ProgressInv, Clearing
  <1>6. ~disturbed' => ProgressInv'
    BY <1>4, <1>5 DEF ListJumps, Goto, ProgressInv
  <1> QED BY <1>1, <1>2, <1>3, <1>6 DEF TablesInv

\* A listed jump is deleted, or the loop is over, whichever hook it is.
LEMMA UnjumpInv ==
  ASSUME TablesInv, NEW h \in Hooks, NEW from \in Clearing, NEW to \in Clearing,
         Unjump(h, from, to)
  PROVE  /\ TablesType' /\ OneJump' /\ KernelInv' /\ ListedInv' /\ ClearInv'
         /\ \A g \in Hooks : Unjumped(g) => Unjumped(g)'
         /\ todo # 0 => Unjumped(h)'
  <1>1. /\ base' \in [BaseNames -> Seq(Rules)] /\ OneJump'
        /\ todo # 0 /\ chains[h] \in BaseNames => ~HasJump(base'[chains[h]])
        /\ \A name \in BaseNames : ~HasJump(base[name]) => ~HasJump(base'[name])
    BY UnjumpBase DEF TablesInv, TablesType
  <1>2. /\ pc = from /\ pc' \in Clearing
        /\ UNCHANGED <<objs, mail, isolation, chains, handle, listed, disturbed>>
    BY DEF Unjump, Goto, launchVars, foreignVars
  <1>3. TablesType'
    BY <1>1, <1>2 DEF TablesInv, TablesType, Clearing
  <1>4. KernelInv'
    <2>1. base \in [BaseNames -> Seq(Rules)]
      BY DEF TablesInv, TablesType
    <2>2. ~Busy => ~Busy'
      BY <1>1, <2>1, BusyFrame
    <2> QED BY <1>2, <2>2 DEF TablesInv, KernelInv
  <1>5. ListedInv' /\ ClearInv'
    BY <1>2 DEF ListedInv, ClearInv, Clearing, TablesInv
  <1>6. \A g \in Hooks : Found(g) => chains[g] \in BaseNames
    BY DEF Found, TablesInv, TablesType, Hooks, BaseNames
  <1>7. \A g \in Hooks : Unjumped(g) => Unjumped(g)'
    BY <1>1, <1>2, <1>6 DEF Unjumped, Found
  <1>8. todo # 0 => Unjumped(h)'
    BY <1>1, <1>2, <1>6 DEF Unjumped, Found
  <1> QED BY <1>1, <1>3, <1>4, <1>5, <1>7, <1>8

\* The jumps of the hook input are deleted.
LEMMA UnjumpInputInv ==
  ASSUME TablesInv, Unjump("input", "unjump_input", "list_forward")
  PROVE  TablesInv'
  <1>1. /\ TablesType' /\ OneJump' /\ KernelInv' /\ ListedInv' /\ ClearInv'
        /\ Unjumped("input") => Unjumped("input")'
        /\ todo # 0 => Unjumped("input")'
    BY UnjumpInv DEF Hooks, Clearing
  <1>2. ~disturbed' => ProgressInv'
    <2>1. ~disturbed' => handle' = mail' /\ (todo = 0 => Unjumped("input"))
      BY DEF Unjump, Goto, foreignVars, TablesInv, ProgressInv, Clearing
    <2>2. ~disturbed' => Unjumped("input")'
      BY <1>1, <2>1
    <2>3. pc' \in {"unjump_input", "list_forward"}
      BY DEF Unjump, Goto
    <2> QED BY <2>1, <2>2, <2>3 DEF ProgressInv
  <1> QED BY <1>1, <1>2 DEF TablesInv

\* The jumps of the hook forward are deleted; those of input stay deleted.
LEMMA UnjumpForwardInv ==
  ASSUME TablesInv, Unjump("forward", "unjump_forward", "delete_chain")
  PROVE  TablesInv'
  <1>1. /\ TablesType' /\ OneJump' /\ KernelInv' /\ ListedInv' /\ ClearInv'
        /\ \A g \in Hooks : Unjumped(g) => Unjumped(g)'
        /\ todo # 0 => Unjumped("forward")'
    BY UnjumpInv DEF Hooks, Clearing
  <1>2. ~disturbed' => ProgressInv'
    <2>1. ~disturbed' => /\ handle' = mail' /\ (todo = 0 => Unjumped("forward"))
                         /\ Unjumped("input")
      BY DEF Unjump, Goto, foreignVars, TablesInv, ProgressInv, Clearing
    <2>2. ~disturbed' => Unjumped("input")' /\ Unjumped("forward")'
      BY <1>1, <2>1 DEF Hooks
    <2>3. pc' \in {"unjump_forward", "delete_chain"}
      BY DEF Unjump, Goto
    <2> QED BY <2>1, <2>2, <2>3 DEF ProgressInv
  <1> QED BY <1>1, <1>2 DEF TablesInv

\* The chain is deleted: nothing is left of an earlier process.
LEMMA DeleteChainInv == ASSUME TablesInv, DeleteChain PROVE TablesInv'
  <1>1. TablesType'
    BY DEF TablesInv, TablesType, DeleteChain, launchVars, foreignVars
  <1>2. OneJump'
    BY DEF TablesInv, DeleteChain, OneJump
  <1>3. ~mail' /\ isolation' = 0 /\ ~Busy
    BY DEF DeleteChain, TablesInv, TablesType, KernelInv, ClearInv, Clearing
  <1>4. KernelInv' /\ ClearInv'
    BY <1>3 DEF DeleteChain, KernelInv, ClearInv, Clearing, Busy, Jumps
  <1>5. ListedInv'
    BY DEF DeleteChain, ListedInv
  <1>6. ~disturbed' => ProgressInv'
    <2>1. \A h : Unjumped(h) => Unjumped(h)'
      BY DEF DeleteChain, launchVars, Unjumped, Found
    <2>2. ~disturbed' => Unjumped("input") /\ Unjumped("forward")
      BY DEF DeleteChain, foreignVars, TablesInv, ProgressInv
    <2> QED BY <1>3, <2>1, <2>2 DEF DeleteChain, ProgressInv, Clearing
  <1> QED BY <1>1, <1>2, <1>4, <1>5, <1>6 DEF TablesInv

\* What the listing does not show is not there.
LEMMA ListInv == ASSUME TablesInv, List PROVE TablesInv'
  <1>1. TablesType'
    BY DEF TablesInv, TablesType, List, Goto, kernelVars, launchVars, foreignVars
  <1>2. OneJump' /\ KernelInv' /\ ClearInv'
    BY KernelFrame DEF TablesInv, List, Goto, kernelVars, ClearInv, Clearing
  <1>3. \A h \in Hooks : h \in listed'.jumps <=> ~Unjumped(h)
    BY DEF List, Unjumped, Found, Jumps, HasJump
  <1>4. \A h \in Hooks : Unjumped(h) => Unjumped(h)'
    BY DEF List, kernelVars, launchVars, Unjumped, Found
  <1>5. ListedInv'
    BY <1>3, <1>4 DEF List, Goto, ListedInv, Hooks
  <1>6. ~disturbed' => ProgressInv'
    <2>1. ~disturbed' => ~mail /\ Unjumped("input") /\ Unjumped("forward")
      BY DEF List, Goto, foreignVars, TablesInv, ProgressInv
    <2>2. ~mail => ~mail' /\ ~listed'.mail
      BY DEF List, kernelVars
    <2>3. Unjumped("input") /\ Unjumped("forward") => listed'.jumps = {}
      <3>1. listed'.jumps \subseteq {"input", "forward"}
        BY DEF List, Hooks
      <3> QED BY <1>3, <3>1 DEF Hooks
    <2> QED BY <1>4, <2>1, <2>2, <2>3 DEF List, Goto, ProgressInv, Clearing, Hooks
  <1> QED BY <1>1, <1>2, <1>5, <1>6 DEF TablesInv

\* The chain is added.
LEMMA AddChainInv == ASSUME TablesInv, AddChain PROVE TablesInv'
  <1>1. TablesType'
    BY DEF TablesInv, TablesType, AddChain, Goto, launchVars, taskVars, foreignVars
  <1>2. OneJump' /\ KernelInv' /\ ClearInv'
    BY DEF TablesInv, AddChain, Goto, OneJump, KernelInv, Busy, Jumps, ClearInv, Clearing
  <1>3. \A h : Unjumped(h) => Unjumped(h)'
    BY DEF AddChain, launchVars, Unjumped, Found
  <1>4. ListedInv'
    BY <1>3 DEF AddChain, Goto, taskVars, ListedInv, TablesInv
  <1>5. ~disturbed' => ProgressInv'
    <2>1. ~disturbed' => /\ ~listed.mail /\ listed.jumps = {}
                         /\ Unjumped("input") /\ Unjumped("forward") /\ isolation = 0
      BY DEF AddChain, Goto, foreignVars, TablesInv, KernelInv, ProgressInv
    <2> QED BY <1>3, <2>1 DEF AddChain, Goto, taskVars, ProgressInv, Clearing
  <1> QED BY <1>1, <1>2, <1>4, <1>5 DEF TablesInv

\* The jump of the hook input is inserted, where none is.
LEMMA JumpInputInv ==
  ASSUME TablesInv, InsertJump("input", "jump_input", "jump_forward")
  PROVE  TablesInv'
  <1> DEFINE c == chains["input"]
             Inserts == "input" \notin listed.jumps /\ Found("input")
  <1>1. /\ pc = "jump_input" /\ pc' = "jump_forward"
        /\ ~Inserts => base' = base
        /\ Inserts => mail /\ base' = [base EXCEPT ![c] = <<"jump">> \o @]
        /\ UNCHANGED <<objs, mail, isolation, post, launchVars, taskVars, foreignVars>>
    BY DEF InsertJump, Goto
  <1>2. base \in [BaseNames -> Seq(Rules)] /\ OneJump
    BY DEF TablesInv, TablesType
  <1>3. Inserts => c \in BaseNames /\ c # "FORWARD" /\ ~HasJump(base[c])
    BY <1>1, TablesAssumption
    DEF TablesInv, TablesType, ListedInv, Unjumped, Found, BaseNames
  <1>4. /\ base' \in [BaseNames -> Seq(Rules)] /\ OneJump'
        /\ Inserts => JumpFirst(base'[c])
        /\ base'["FORWARD"] = base["FORWARD"]
    <2> HIDE DEF c, Inserts
    <2>1. CASE Inserts
      <3>1. /\ base' \in [BaseNames -> Seq(Rules)] /\ OneJump'
            /\ JumpFirst(base'[c])
            /\ \A name \in BaseNames : name # c => base'[name] = base[name]
        BY <1>1, <1>2, <1>3, <2>1, InsertBase
      <3> QED BY <1>3, <2>1, <3>1 DEF BaseNames
    <2>2. CASE ~Inserts
      BY <1>1, <1>2, <2>2 DEF OneJump
    <2> QED BY <2>1, <2>2
  <1>5. TablesType'
    BY <1>1, <1>4 DEF TablesInv, TablesType, launchVars, taskVars, foreignVars
  <1>6. KernelInv' /\ ClearInv'
    BY <1>1 DEF TablesInv, KernelInv, Busy, Jumps, ClearInv, Clearing
  <1>7. Unjumped("forward") => Unjumped("forward")'
    BY <1>1, <1>4 DEF Unjumped, Found, launchVars, TablesInv, TablesType
  <1>8. ListedInv'
    <2>1. "forward" \in listed.jumps \/ Unjumped("forward")
      BY <1>1 DEF TablesInv, ListedInv
    <2> QED BY <1>1, <1>7, <2>1 DEF ListedInv, taskVars
  <1>9. ~disturbed' => ProgressInv'
    <2>1. ~disturbed' => listed.jumps = {} /\ mail /\ isolation = 0 /\ Unjumped("forward")
      BY <1>1 DEF foreignVars, TablesInv, ProgressInv
    <2>2. ~disturbed' => Jumped("input")'
      BY <1>1, <1>4, <2>1 DEF Jumped, Found, launchVars
    <2> QED BY <1>1, <1>7, <2>1, <2>2 DEF ProgressInv, Clearing, taskVars
  <1> QED BY <1>4, <1>5, <1>6, <1>8, <1>9 DEF TablesInv

\* The jump of the hook forward is inserted; that of input stays in front.
LEMMA JumpForwardInv ==
  ASSUME TablesInv, InsertJump("forward", "jump_forward", "list_isolation")
  PROVE  TablesInv'
  <1> DEFINE Inserts == "forward" \notin listed.jumps
  <1>1. /\ pc = "jump_forward" /\ pc' = "list_isolation"
        /\ ~Inserts => base' = base
        /\ Inserts => mail /\ base' = [base EXCEPT !["FORWARD"] = <<"jump">> \o @]
        /\ UNCHANGED <<objs, mail, isolation, post, launchVars, taskVars, foreignVars>>
        /\ chains["forward"] = "FORWARD"
    BY DEF InsertJump, Goto, TablesInv, TablesType, Found
  <1>2. base \in [BaseNames -> Seq(Rules)] /\ OneJump /\ "FORWARD" \in BaseNames
    BY DEF TablesInv, TablesType, BaseNames
  <1>3. Inserts => ~HasJump(base["FORWARD"])
    BY <1>1 DEF TablesInv, ListedInv, Unjumped, Found
  <1>4. /\ base' \in [BaseNames -> Seq(Rules)] /\ OneJump'
        /\ Inserts => JumpFirst(base'["FORWARD"])
        /\ \A name \in BaseNames : name # "FORWARD" => base'[name] = base[name]
    <2> HIDE DEF Inserts
    <2>1. CASE Inserts
      BY <1>1, <1>2, <1>3, <2>1, InsertBase
    <2>2. CASE ~Inserts
      BY <1>1, <1>2, <2>2 DEF OneJump
    <2> QED BY <2>1, <2>2
  <1>5. TablesType'
    BY <1>1, <1>4 DEF TablesInv, TablesType, launchVars, taskVars, foreignVars
  <1>6. KernelInv' /\ ClearInv'
    BY <1>1 DEF TablesInv, KernelInv, Busy, Jumps, ClearInv, Clearing
  <1>7. Jumped("input") => Jumped("input")'
    BY <1>1, <1>4, TablesAssumption
    DEF Jumped, Found, launchVars, TablesInv, TablesType, BaseNames
  <1>8. ListedInv'
    BY <1>1 DEF ListedInv
  <1>9. ~disturbed' => ProgressInv'
    <2>1. ~disturbed' => listed.jumps = {} /\ mail /\ isolation = 0 /\ Jumped("input")
      BY <1>1 DEF foreignVars, TablesInv, ProgressInv
    <2>2. ~disturbed' => Jumped("forward")'
      BY <1>1, <1>4, <2>1 DEF Jumped, Found, launchVars
    <2> QED BY <1>1, <1>7, <2>1, <2>2 DEF ProgressInv, Clearing
  <1> QED BY <1>4, <1>5, <1>6, <1>8, <1>9 DEF TablesInv

\* The isolation rules are listed: there is none left.
LEMMA ListIsolationInv == ASSUME TablesInv, ListIsolation PROVE TablesInv'
  <1>1. TablesType'
    BY DEF TablesInv, TablesType, ListIsolation, Goto, kernelVars, launchVars, foreignVars
  <1>2. OneJump' /\ KernelInv'
    BY KernelFrame DEF TablesInv, ListIsolation, kernelVars
  <1>3. \A h : Jumped(h) => Jumped(h)'
    BY DEF ListIsolation, kernelVars, launchVars, Jumped, Found
  <1>4. ListedInv' /\ ClearInv'
    BY DEF ListIsolation, Goto, ListedInv, ClearInv, Clearing
  <1>5. ~disturbed' => ProgressInv'
    <2>1. ~disturbed' => isolation = 0 /\ Jumped("input") /\ Jumped("forward")
      BY DEF ListIsolation, Goto, foreignVars, TablesInv, ProgressInv
    <2> QED BY <1>3, <2>1 DEF ListIsolation, Goto, kernelVars, ProgressInv, Clearing
  <1> QED BY <1>1, <1>2, <1>4, <1>5 DEF TablesInv

\* The isolation rule completes the setup.
LEMMA IsolateInv == ASSUME TablesInv, Isolate PROVE TablesInv'
  <1>1. TablesType'
    BY DEF TablesInv, TablesType, Isolate, Goto, launchVars, foreignVars
  <1>2. OneJump' /\ KernelInv'
    BY DEF TablesInv, Isolate, OneJump, KernelInv
  <1>3. \A h : Jumped(h) => Jumped(h)'
    BY DEF Isolate, launchVars, Jumped, Found
  <1>4. ListedInv' /\ ClearInv'
    BY DEF Isolate, Goto, ListedInv, ClearInv, Clearing
  <1>5. ~disturbed' => ProgressInv'
    <2>1. ~disturbed' => todo = 0 /\ isolation = 0 /\ Jumped("input") /\ Jumped("forward")
      BY DEF Isolate, Goto, foreignVars, TablesInv, ProgressInv
    <2> QED BY <1>3, <2>1 DEF Isolate, Goto, ProgressInv, Clearing
  <1> QED BY <1>1, <1>2, <1>4, <1>5 DEF TablesInv

\* snat() leaves the table filter alone.
LEMMA SnatInv == ASSUME TablesInv, Snat PROVE TablesInv'
  <1>1. /\ pc \in {"run", "snat"} /\ pc' \in {"run", "snat"}
        /\ UNCHANGED <<objs, mail, isolation, base, chains, handle, listed, disturbed>>
    BY DEF Snat, SnatList, SnatInsert, Goto, kernelVars, launchVars, taskVars, foreignVars
  <1>2. TablesType'
    BY <1>1 DEF TablesInv, TablesType
  <1>3. OneJump' /\ KernelInv'
    BY <1>1, KernelFrame DEF TablesInv
  <1>4. \A h : Jumped(h) => Jumped(h)'
    BY <1>1 DEF Jumped, Found
  <1>5. ListedInv' /\ ClearInv'
    BY <1>1 DEF ListedInv, ClearInv, Clearing
  <1>6. ~disturbed' => ProgressInv'
    <2>1. ~disturbed' => mail /\ isolation = 1 /\ Jumped("input") /\ Jumped("forward")
      BY <1>1 DEF TablesInv, ProgressInv
    <2> QED BY <1>1, <1>4, <2>1 DEF ProgressInv, Clearing
  <1> QED BY <1>2, <1>3, <1>5, <1>6 DEF TablesInv

\* before_exit() clears what the setup built.
LEMMA SigtermInv == ASSUME TablesInv, Sigterm PROVE TablesInv'
  <1>1. TablesType'
    BY DEF TablesInv, TablesType, Sigterm, Goto, kernelVars, launchVars, foreignVars
  <1>2. OneJump' /\ KernelInv'
    BY KernelFrame DEF TablesInv, Sigterm, kernelVars
  <1>3. ListedInv' /\ ClearInv' /\ ProgressInv'
    BY DEF Sigterm, Goto, ListedInv, ClearInv, Clearing, ProgressInv
  <1> QED BY <1>1, <1>2, <1>3 DEF TablesInv

\* A step that leaves the process and the base chains alone.
LEMMA ProcFrame ==
  ASSUME UNCHANGED procVars, UNCHANGED <<mail, isolation, base>>
  PROVE  /\ (ListedInv => ListedInv') /\ (ClearInv => ClearInv')
         /\ (ProgressInv => ProgressInv')
  <1>1. \A h : Unjumped(h)' = Unjumped(h) /\ Jumped(h)' = Jumped(h)
    BY DEF procVars, launchVars, Unjumped, Jumped, Found
  <1> QED BY <1>1 DEF procVars, taskVars, ListedInv, ClearInv, ProgressInv

\* Other programs edit the kernel between any two commands.
LEMMA ForeignInv == ASSUME TablesInv, Foreign PROVE TablesInv'
  <1>1. base \in [BaseNames -> Seq(Rules)] /\ OneJump
    BY DEF TablesInv, TablesType
  <1>2. UNCHANGED procVars
    BY DEF Foreign
  <1>3. ASSUME NEW name \in DOMAIN base, base' = [base EXCEPT ![name] = <<"other">> \o @],
               disturbed' = TRUE, UNCHANGED <<objs, mail, isolation, post>>
        PROVE  TablesInv'
    <2>1. /\ base' \in [BaseNames -> Seq(Rules)] /\ OneJump'
          /\ \A n \in BaseNames : ~HasJump(base[n]) => ~HasJump(base'[n])
      BY <1>1, <1>3, OtherBase
    <2>2. TablesType'
      BY <1>2, <1>3, <2>1 DEF TablesInv, TablesType, procVars, launchVars, taskVars
    <2>3. KernelInv' /\ ClearInv'
      <3>1. ~Busy => ~Busy'
        BY <1>1, <2>1, BusyFrame
      <3> QED BY <1>2, <1>3, <3>1 DEF procVars, taskVars, KernelInv, ClearInv, TablesInv
    <2>4. \A h \in Hooks : Unjumped(h) => Unjumped(h)'
      BY <1>2, <2>1
      DEF procVars, launchVars, Unjumped, Found, TablesInv, TablesType, Hooks, BaseNames
    <2>5. ListedInv'
      BY <1>2, <2>4 DEF procVars, taskVars, ListedInv, TablesInv, Hooks
    <2> QED BY <1>3, <2>1, <2>2, <2>3, <2>5 DEF TablesInv
  <1>4. ASSUME post' = <<"other">> \o post, UNCHANGED <<objs, mail, isolation, base, disturbed>>
        PROVE  TablesInv'
    <2>1. KernelInv'
      BY <1>1, <1>4, KernelFrame DEF TablesInv
    <2>2. TablesType'
      BY <1>2, <1>4 DEF TablesInv, TablesType, procVars, launchVars, taskVars
    <2>3. OneJump'
      BY <1>1, <1>4 DEF OneJump
    <2> QED BY <1>2, <1>4, <2>1, <2>2, <2>3, ProcFrame DEF TablesInv
  <1>5. ASSUME mail' = FALSE, isolation' = 0, base' = [name \in DOMAIN base |-> <<>>], post' = <<>>,
               disturbed' = TRUE, UNCHANGED objs
        PROVE  TablesInv'
    <2>1. /\ base' \in [BaseNames -> Seq(Rules)] /\ OneJump'
          /\ \A n \in BaseNames : ~HasJump(base'[n])
      BY <1>1, <1>5, FlushedBase
    <2>2. KernelInv' /\ ClearInv'
      <3>1. ~Busy'
        BY <2>1 DEF Busy, Jumps, HasJump
      <3> QED BY <1>2, <1>5, <3>1 DEF procVars, taskVars, KernelInv, ClearInv, TablesInv
    <2>3. TablesType'
      BY <1>2, <1>5, <2>1 DEF TablesInv, TablesType, procVars, launchVars, taskVars
    <2>4. \A h \in Hooks : Unjumped(h)'
      BY <1>2, <2>1
      DEF procVars, launchVars, Unjumped, Found, TablesInv, TablesType, Hooks, BaseNames
    <2>5. ListedInv'
      BY <2>4 DEF ListedInv, Hooks
    <2> QED BY <1>5, <2>1, <2>2, <2>3, <2>5 DEF TablesInv
  <1>6. ASSUME NEW c \in Chains, objs' = Append(objs, c),
               UNCHANGED <<mail, isolation, base, post, disturbed>>
        PROVE  TablesInv'
    <2>1. objs' \in Seq(Chains)
      <3>1. objs \in Seq(Chains)
        BY DEF TablesInv, TablesType
      <3> QED BY <1>6, <3>1
    <2>2. TablesType'
      BY <1>2, <1>6, <2>1 DEF TablesInv, TablesType, procVars, launchVars, taskVars
    <2>3. OneJump' /\ KernelInv'
      BY <1>1, <1>6, KernelFrame DEF TablesInv
    <2> QED BY <1>2, <1>6, <2>2, <2>3, ProcFrame DEF TablesInv
  <1> QED BY <1>3, <1>4, <1>5, <1>6 DEF Foreign

\* Every step keeps the invariant.
LEMMA NextInv == ASSUME TablesInv, [Next]_vars PROVE TablesInv'
  <1>1. CASE Setup
    <2>1. CASE CommandFails
      BY <2>1, AbortInv DEF CommandFails, foreignVars
    <2> QED
      BY <1>1, <2>1, LaunchInv, HandleInv, FlushInv, ListInputInv, UnjumpInputInv,
         ListForwardInv, UnjumpForwardInv, DeleteChainInv, ListInv, AddChainInv,
         JumpInputInv, JumpForwardInv, ListIsolationInv, IsolateInv
      DEF Setup
  <1>2. CASE CheckChainOrder
    BY <1>2, AbortInv DEF CheckChainOrder, foreignVars
  <1>3. CASE Kill
    BY <1>3, AbortInv DEF Kill
  <1>4. CASE UNCHANGED vars
    <2>1. UNCHANGED procVars /\ UNCHANGED kernelVars /\ UNCHANGED disturbed
      BY <1>4 DEF vars, foreignVars
    <2>2. TablesType'
      BY <2>1 DEF TablesInv, TablesType, procVars, launchVars, taskVars, kernelVars
    <2>3. OneJump' /\ KernelInv'
      BY <2>1, KernelFrame DEF TablesInv, kernelVars
    <2>4. /\ (ListedInv => ListedInv') /\ (ClearInv => ClearInv')
          /\ (ProgressInv => ProgressInv')
      BY <2>1, ProcFrame DEF kernelVars
    <2> QED BY <2>1, <2>2, <2>3, <2>4 DEF TablesInv
  <1> QED BY <1>1, <1>2, <1>3, <1>4, SnatInv, SigtermInv, ForeignInv DEF Next

\* The invariant always holds.
LEMMA InvAlways == Spec => []TablesInv
  <1>1. Init => TablesInv
    BY InitInv
  <1>2. TablesInv /\ [Next]_vars => TablesInv'
    BY NextInv
  <1> QED BY <1>1, <1>2, PTL DEF Spec

----------------------------------------------------------------------------
(***************************************************************************)
(* The theorems.                                                           *)
(***************************************************************************)
\* Whatever other programs do between two commands of the service, and wherever
\* it is killed and started again, clear() and insert_mail_chains() never leave
\* two jumps to MAIL in a base chain.
THEOREM OneJumpAlways == Spec => []OneJump
  <1>1. TablesInv => OneJump
    BY DEF TablesInv
  <1> QED BY <1>1, InvAlways, PTL

\* A stop that ends without an error leaves neither MAIL nor a jump to it
\* anywhere: other programs may flush and insert between any two commands of
\* clear(), and then a command fails and the stop is not a clean one, or
\* nothing is left all the same.
THEOREM CleanStopAlways == Spec => []CleanStop
  <1>1. TablesInv => CleanStop
    BY DEF TablesInv, KernelInv, ClearInv, CleanStop
  <1> QED BY <1>1, InvAlways, PTL

\* When the tasks of _main start and no other program interfered since the
\* launch, MAIL is there with one isolation rule and a jump to it is in front
\* of each base chain, whatever an earlier process left behind.
THEOREM SetUpAlways == Spec => []SetUp
  <1>1. ASSUME TablesInv PROVE SetUp
    <2> SUFFICES ASSUME pc = "run", ~disturbed PROVE mail /\ isolation = 1 /\ Ordered
      BY DEF SetUp
    <2>1. mail /\ isolation = 1 /\ Jumped("input") /\ Jumped("forward")
      BY <1>1 DEF TablesInv, ProgressInv
    <2>2. Found("forward")
      BY <1>1 DEF TablesInv, TablesType, Found
    <2>3. ASSUME NEW h \in Hooks, Found(h) PROVE Position(chains[h]) = 0
      <3>1. chains[h] \in BaseNames /\ JumpFirst(base[chains[h]])
        BY <1>1, <2>1, <2>3 DEF TablesInv, TablesType, Jumped, Found, Hooks, BaseNames
      <3>2. chains[h] \in DOMAIN base /\ base[chains[h]] \in Seq(Rules)
        BY <1>1, <3>1 DEF TablesInv, TablesType
      <3> QED BY <3>1, <3>2, FirstIsZero
    <2> QED BY <2>1, <2>2, <2>3 DEF Ordered
  <1> QED BY <1>1, InvAlways, PTL

\* The one pass of init_chains() over any listing returns the first of the
\* chains with the lowest priority.
THEOREM LowestPriorityAlways == Spec => []LowestPriority
  <1>1. ASSUME TablesInv PROVE LowestPriority
    <2> DEFINE based == {i \in DOMAIN objs : objs[i].based}
               First(i) == \A j \in based : \/ objs[i].prio < objs[j].prio
                                            \/ objs[i].prio = objs[j].prio /\ i <= j
    <2>1. objs \in Seq(Chains) /\ DOMAIN objs = 1..Len(objs) /\ Len(objs) \in Nat
      <3>1. objs \in Seq(Chains)
        BY <1>1 DEF TablesInv, TablesType
      <3> QED BY <3>1
    <2>2. BestOf(init_chains(objs), Len(objs), objs)
      BY <2>1, BestFound
    <2>3. \A i \in 1..Len(objs) : objs[i].prio \in Int
      <3>1. \A i \in 1..Len(objs) : objs[i] \in Chains
        BY <2>1
      <3>2. \A x \in Chains : x.prio \in Int
        BY TablesAssumption DEF Chains
      <3> QED BY <3>1, <3>2
    <2>4. CASE based = {}
      <3>1. init_chains(objs) = NoChain
        BY <2>1, <2>2, <2>4 DEF BestOf
      <3> QED BY <2>4, <3>1 DEF LowestPriority
    <2>5. CASE based # {}
      <3>1. PICK k \in 1..Len(objs) :
              /\ init_chains(objs) = objs[k] /\ objs[k].based
              /\ \A j \in 1..Len(objs) : objs[j].based => Before(objs, k, j)
        BY <2>1, <2>2, <2>5 DEF BestOf
      <3>2. k \in based /\ First(k)
        BY <2>1, <3>1 DEF Before
      <3>3. ASSUME NEW i \in based, First(i) PROVE i = k
        <4>1. /\ i \in Int /\ k \in Int /\ objs[i].prio \in Int /\ objs[k].prio \in Int
              /\ (objs[i].prio < objs[k].prio \/ (objs[i].prio = objs[k].prio /\ i <= k))
              /\ (objs[k].prio < objs[i].prio \/ (objs[k].prio = objs[i].prio /\ k <= i))
          BY <2>1, <2>3, <3>2, <3>3
        <4> QED BY <4>1
      <3>4. (CHOOSE i \in based : First(i)) = k
        <4> HIDE DEF based, First
        <4> QED BY <3>2, <3>3
      <3> QED BY <2>5, <3>1, <3>4 DEF LowestPriority
    <2> QED BY <2>4, <2>5
  <1> QED BY <1>1, InvAlways, PTL
=============================================================================
