---------------------------- MODULE DomainsProofs ----------------------------
(***************************************************************************)
(* Proofs about Domains for any domains, selectors, threads, requests and  *)
(* faults.                                                                 *)
(***************************************************************************)
EXTENDS Domains, TLAPS

USE DEF DomainOps, KeyOps

(***************************************************************************)
(* The requests under way.                                                 *)
(***************************************************************************)
Requests ==
  [op : AllOps, dom : DomainNames, from : DomainNames,
   sel : Selectors \cup {NoSelector}, key : Nat, secret : Nat]

Writing == {"set_pub", "set_selector", "set_priv"}
Deleting == {"get_selector", "del_pub", "del_selector", "del_priv"}
Labels ==
  {"idle", "set_map", "del_map", "check_key", "read_selector", "read_priv", "commit", "done"}
    \cup Writing \cup Deleting

DomainsType ==
  /\ rows \subseteq DomainNames /\ domainMap \subseteq DomainNames
  /\ holders \in [DomainNames -> SUBSET Workers]
  /\ pub \in [DomainNames -> Nat]
  /\ selector \in [DomainNames -> Selectors \cup {NoSelector}]
  /\ priv \in [Selectors \X DomainNames -> Nat]
  /\ pc \in [Workers -> Labels] /\ req \in [Workers -> Requests \cup {NoRequest}]
  /\ keys \in Nat

Busy(w) == pc[w] # "idle"

\* Where request r may be, and the selector it needs there.
LabelOk(l, r) ==
  /\ r \in Requests
  /\ r.op = "create_domain" => l \in {"set_map", "check_key", "commit"} \cup Writing
  /\ r.op = "delete_domain" => l \in {"del_map", "commit"} \cup Deleting
  /\ r.op = "create_key" => l \in {"check_key", "done"} \cup Writing
  /\ r.op = "duplicate_key" => l \in {"read_selector", "read_priv", "done"} \cup Writing
  /\ r.op = "delete_key" => l \in {"done"} \cup Deleting
  /\ r.op \in {"create_domain", "create_key"} => r.sel \in Selectors
  /\ l \in {"read_priv"} \cup Writing => r.sel \in Selectors

LabelInv == \A w \in Workers : Busy(w) => LabelOk(pc[w], req[w])

(***************************************************************************)
(* The row locks: a create has the row to itself, deletes share the gap of *)
(* a row that is not there.                                                *)
(***************************************************************************)
LockInv ==
  /\ \A w \in Workers : Busy(w) /\ InTransaction(w) => w \in holders[req[w].dom]
  /\ \A d \in DomainNames : \A w \in holders[d] :
       Busy(w) /\ InTransaction(w) /\ req[w].dom = d
  /\ \A d \in DomainNames : \A w \in holders[d] :
       req[w].op = "create_domain" => d \notin rows /\ \A v \in holders[d] : v = w
  /\ \A d \in rows : \A v, w \in holders[d] : v = w

\* What DOMAIN_MAP holds while requests are under way, doubtful or not.
MapInv ==
  \A d \in DomainNames :
    /\ \A w \in holders[d] :
         /\ req[w].op = "create_domain" /\ pc[w] # "set_map" => d \in domainMap
         /\ req[w].op = "delete_domain" /\ pc[w] # "del_map" => d \notin domainMap
    /\ d \notin mapDoubt /\ (\A w \in holders[d] : pc[w] \in {"set_map", "del_map"})
         => (d \in rows <=> d \in domainMap)

RowInv == DomainsType /\ LabelInv /\ LockInv /\ MapInv

(***************************************************************************)
(* The keys: what a request does to them that was not crossed.             *)
(***************************************************************************)
\* No request under way writes keys that an uncrossed one reads or writes.
CrossInv ==
  \A v, w \in Workers : Busy(v) /\ Busy(w) /\ v # w /\ v \notin crossed =>
    ~Crosses(req[w], req[v])

\* One key pair, or none.
Paired(d) ==
  pub[d] # 0 => selector[d] # NoSelector /\ priv[<<selector[d], d>>] = pub[d]

\* The copy of a key pair that may not be one.
Tainted(w) == req[w].op = "duplicate_key" /\ req[w].from \in keyDoubt

\* What a request that writes keys has read, and has written so far.
WriteOk(w) ==
  /\ pc[w] \in Writing => req[w].secret = req[w].key \/ Tainted(w)
  /\ pc[w] = "set_pub" /\ req[w].op # "duplicate_key" => pub[req[w].dom] = 0
  /\ pc[w] \in {"set_selector", "set_priv"} => pub[req[w].dom] = req[w].key
  /\ pc[w] = "set_priv" => selector[req[w].dom] = req[w].sel
  /\ pc[w] \in {"read_selector", "read_priv"} => req[w].key = pub[req[w].from] /\ req[w].key # 0
  /\ pc[w] = "read_priv" /\ ~Tainted(w) => req[w].sel = selector[req[w].from]
  /\ pc[w] = "done" /\ req[w].op = "duplicate_key" /\ ~Tainted(w) => Paired(req[w].dom)

\* What a request that deletes keys has done.
DeleteOk(w) ==
  /\ req[w].op \in {"delete_domain", "delete_key"}
  /\ pc[w] \in {"del_selector", "del_priv", "commit", "done"}
  => pub[req[w].dom] = 0

WorkInv == \A w \in Workers : Busy(w) /\ w \notin crossed => WriteOk(w) /\ DeleteOk(w)

\* A request that has written a part of the keys, or a copy that may not be a pair.
Between(w) ==
  /\ Busy(w)
  /\ pc[w] \in {"set_selector", "set_priv"} \/ (Tainted(w) /\ pc[w] = "done")

\* The keys of domain d are a pair, unless a request is writing them or was crossed.
PairOk(d) ==
  Paired(d) \/ \E w \in Workers : Busy(w) /\ req[w].dom = d /\ (Between(w) \/ w \in crossed)

PairInv == \A d \in DomainNames \ keyDoubt : PairOk(d)

KeyInv == RowInv /\ CrossInv /\ WorkInv /\ PairInv

----------------------------------------------------------------------------
(***************************************************************************)
(* Table domain and DOMAIN_MAP.                                            *)
(***************************************************************************)
\* No request is the absence of one.
LEMMA RequestFacts == NoRequest \notin Requests
  BY DEF NoRequest, Requests, AllOps

\* Worker w goes to label l with request r, and no other worker moves.
Moved(w, l, r) ==
  /\ pc' \in [Workers -> Labels] /\ req' \in [Workers -> Requests \cup {NoRequest}]
  /\ pc'[w] = l /\ req'[w] = r
  /\ \A v \in Workers : v # w => pc'[v] = pc[v] /\ req'[v] = req[v]

\* A request moves on to a command that it may be at.
LEMMA LabelKept ==
  ASSUME LabelInv, NEW w \in Workers, NEW l, NEW r, Moved(w, l, r), LabelOk(l, r)
  PROVE  LabelInv'
  BY DEF LabelInv, Moved, Busy

\* A request begins on an idle worker, which holds no row.
LEMMA StartMoves ==
  ASSUME RowInv, NEW w \in Workers, NEW l \in Labels, NEW r \in Requests, Start(w, l, r)
  PROVE  Moved(w, l, r) /\ ~Busy(w) /\ \A d \in DomainNames : w \notin holders[d]
  BY DEF RowInv, DomainsType, LockInv, Start, Moved, Busy

\* A request goes from one command to the next.
LEMMA GotoMoves ==
  ASSUME RowInv, NEW w \in Workers, NEW l \in Labels, NEW m \in Labels, Goto(w, l, m), l # "idle",
         \/ UNCHANGED req
         \/ \E r \in Requests : req' = [req EXCEPT ![w] = r]
  PROVE  /\ Moved(w, m, req'[w]) /\ Busy(w) /\ pc[w] = l
         /\ req[w] \in Requests /\ req'[w] \in Requests
  BY DEF RowInv, DomainsType, LabelInv, LabelOk, Goto, Moved, Busy

\* The state the service starts in.
LEMMA RowInit == Init => RowInv
  <1> SUFFICES ASSUME Init PROVE RowInv
    OBVIOUS
  <1>1. DomainsType
    <2>1. pc \in [Workers -> Labels] /\ req \in [Workers -> Requests \cup {NoRequest}]
      BY DEF Init, Labels
    <2>2. holders \in [DomainNames -> SUBSET Workers]
      BY DEF Init
    <2>3. pub \in [DomainNames -> Nat] /\ selector \in [DomainNames -> Selectors \cup {NoSelector}]
      BY DEF Init
    <2>4. priv \in [Selectors \X DomainNames -> Nat]
      BY DEF Init
    <2> QED BY <2>1, <2>2, <2>3, <2>4 DEF Init, DomainsType
  <1>2. (\A w \in Workers : ~Busy(w)) /\ \A d \in DomainNames : holders[d] = {}
    BY DEF Init, Busy
  <1>3. rows = {} /\ domainMap = {}
    BY DEF Init
  <1> QED BY <1>1, <1>2, <1>3 DEF RowInv, LabelInv, LabelOk, LockInv, MapInv

\* The SQL statements of a request that has the lock of its row.
LEMMA LockedStart ==
  ASSUME RowInv, NEW w \in Workers, NEW d \in DomainNames, NEW l, NEW r \in Requests,
         Moved(w, l, r), ~Busy(w), r.dom = d,
         \/ /\ r.op = "create_domain" /\ l = "set_map" /\ r.sel \in Selectors
            /\ holders[d] = {} /\ d \notin rows
         \/ /\ r.op = "delete_domain" /\ l = "del_map"
            /\ d \in rows => holders[d] = {}
            /\ \A v \in holders[d] : req[v].op = "delete_domain",
         holders' = [holders EXCEPT ![d] = @ \cup {w}],
         UNCHANGED <<rows, domainMap, mapDoubt>>
  PROVE  LabelInv' /\ LockInv' /\ MapInv'
  <1>1. holders'[d] = holders[d] \cup {w} /\ \A e \in DomainNames : e # d => holders'[e] = holders[e]
    BY DEF RowInv, DomainsType
  <1>2. \A e \in DomainNames : w \notin holders[e]
    BY DEF RowInv, LockInv
  <1>3. \A e \in DomainNames : holders[e] \subseteq Workers
    BY DEF RowInv, DomainsType
  <1>4. LabelInv'
    <2>1. LabelOk(l, r)
      BY DEF LabelOk, Writing
    <2> QED BY <2>1, LabelKept DEF RowInv
  <1>5. LockInv'
    <2>1. \A v \in Workers : Busy(v)' /\ InTransaction(v)' => v \in holders'[req'[v].dom]
      BY <1>1 DEF RowInv, LockInv, Moved, Busy, InTransaction, LabelInv, LabelOk, Requests
    <2>2. \A e \in DomainNames : \A v \in holders'[e] :
            Busy(v)' /\ InTransaction(v)' /\ req'[v].dom = e
      BY <1>1, <1>2, <1>3 DEF RowInv, LockInv, Moved, Busy, InTransaction
    <2>3. \A e \in DomainNames : \A v \in holders'[e] :
            req'[v].op = "create_domain" => e \notin rows' /\ \A u \in holders'[e] : u = v
      BY <1>1, <1>2, <1>3 DEF RowInv, LockInv, Moved
    <2>4. \A e \in rows' : \A u, v \in holders'[e] : u = v
      BY <1>1, <1>2 DEF RowInv, LockInv, DomainsType
    <2> QED BY <2>1, <2>2, <2>3, <2>4 DEF LockInv
  <1>6. MapInv'
    BY <1>1, <1>2, <1>3 DEF RowInv, MapInv, Moved
  <1> QED BY <1>4, <1>5, <1>6

\* A command of a request, or the start of one that has no lock, that leaves the row
\* and the map alone.
LEMMA KeyCommand ==
  ASSUME RowInv, NEW w \in Workers, NEW l, NEW r \in Requests, Moved(w, l, r), l # "idle",
         IF Busy(w) THEN r.op = req[w].op /\ r.dom = req[w].dom /\ pc[w] \notin {"set_map", "del_map"}
         ELSE r.op \in {"create_key", "duplicate_key", "delete_key"},
         UNCHANGED <<rows, holders, domainMap, mapDoubt>>,
         l \notin {"set_map", "del_map"}
  PROVE  LockInv' /\ MapInv'
  <1>1. \A e \in DomainNames : holders[e] \subseteq Workers
    BY DEF RowInv, DomainsType
  <1>2. LockInv'
    <2>1. \A v \in Workers : Busy(v)' /\ InTransaction(v)' => v \in holders'[req'[v].dom]
      BY DEF RowInv, LockInv, Moved, Busy, InTransaction
    <2>2. \A e \in DomainNames : \A v \in holders'[e] :
            Busy(v)' /\ InTransaction(v)' /\ req'[v].dom = e
      BY <1>1 DEF RowInv, LockInv, Moved, Busy, InTransaction
    <2>3. \A e \in DomainNames : \A v \in holders'[e] :
            req'[v].op = "create_domain" => e \notin rows' /\ \A u \in holders'[e] : u = v
      BY <1>1 DEF RowInv, LockInv, Moved, Busy
    <2>4. \A e \in rows' : \A u, v \in holders'[e] : u = v
      BY DEF RowInv, LockInv
    <2> QED BY <2>1, <2>2, <2>3, <2>4 DEF LockInv
  <1>3. MapInv'
    BY <1>1 DEF RowInv, LockInv, MapInv, Moved, Busy
  <1> QED BY <1>2, <1>3

\* The commands on the keys of a domain.
KeyWork(w) ==
  \/ ReadSelector(w) \/ ReadPriv(w)
  \/ CheckKey(w) \/ SetPub(w) \/ SetSelector(w) \/ SetPriv(w)
  \/ GetSelector(w) \/ DelPub(w) \/ DelSelector(w) \/ DelPriv(w)

\* They lead from one label of the request to the next.
LEMMA KeyWorkMoves ==
  ASSUME RowInv, NEW w \in Workers, KeyWork(w)
  PROVE  \E l \in Labels \ {"idle", "set_map", "del_map"} :
           /\ Moved(w, l, req'[w]) /\ Busy(w) /\ pc[w] \notin {"set_map", "del_map"}
           /\ req[w] \in Requests /\ req'[w] \in Requests
           /\ req'[w].op = req[w].op /\ req'[w].dom = req[w].dom /\ req'[w].from = req[w].from
           /\ LabelInv' /\ DomainsType'
  <1> USE DEF redisVars, doubtVars
  <1>0. DomainsType /\ LabelInv
    BY DEF RowInv
  <1>1. CASE ReadSelector(w)
    <2> DEFINE r == [req[w] EXCEPT !.sel = IF selector[req[w].from] = NoSelector THEN DefaultSelector
                                       ELSE selector[req[w].from]]
    <2>1. Goto(w, "read_selector", "read_priv") /\ req[w] \in Requests
      BY <1>0, <1>1 DEF ReadSelector, Goto, LabelInv, LabelOk, Busy
    <2>2. (IF selector[req[w].from] = NoSelector THEN DefaultSelector ELSE selector[req[w].from]) \in Selectors
      BY <1>0, <2>1, DomainsAssumption DEF DomainsType, Requests, LabelInv, LabelOk, Goto, Busy
    <2>3. /\ r \in Requests /\ r.op = req[w].op /\ r.dom = req[w].dom /\ r.from = req[w].from
          /\ r.sel \in Selectors
      BY <2>1, <2>2 DEF Requests
    <2>4. req' = [req EXCEPT ![w] = r]
      BY <1>0, <1>1 DEF ReadSelector, DomainsType
    <2> HIDE DEF r
    <2>5. Moved(w, "read_priv", r) /\ req'[w] = r
      <3>1. "read_selector" \in Labels \ {"idle"} /\ "read_priv" \in Labels
        BY DEF Labels
      <3>2. Moved(w, "read_priv", req'[w])
        BY <2>1, <2>3, <2>4, <3>1, GotoMoves
      <3>3. req'[w] = r
        BY <1>0, <2>4 DEF DomainsType
      <3> QED BY <3>2, <3>3
    <2>6. LabelInv' /\ DomainsType'
      <3>1. LabelOk("read_selector", req[w])
        BY <1>0, <2>1 DEF LabelInv, Goto, Busy
      <3>2. LabelOk("read_priv", r)
        BY <2>3, <3>1 DEF LabelOk, Writing, Deleting
      <3>3. LabelInv'
        BY <1>0, <2>5, <3>2, LabelKept
      <3>4. DomainsType'
        BY <1>0, <1>1, <2>5 DEF ReadSelector, DomainsType, Moved
      <3> QED BY <3>3, <3>4
    <2> QED BY <2>1, <2>3, <2>5, <2>6 DEF Goto, Busy, Labels, Writing, Deleting
  <1>2. CASE ReadPriv(w)
    <2> DEFINE r == [req[w] EXCEPT !.secret = priv[<<req[w].sel, req[w].from>>]]
    <2>1. Goto(w, "read_priv", "set_pub") /\ req[w] \in Requests
      BY <1>0, <1>2 DEF ReadPriv, Goto, LabelInv, LabelOk, Busy
    <2>2. priv[<<req[w].sel, req[w].from>>] \in Nat
      BY <1>0, <2>1 DEF DomainsType, Requests, LabelInv, LabelOk, Goto, Busy
    <2>3. /\ r \in Requests /\ r.op = req[w].op /\ r.dom = req[w].dom /\ r.from = req[w].from
          /\ r.sel = req[w].sel
      BY <2>1, <2>2 DEF Requests
    <2>4. req' = [req EXCEPT ![w] = r]
      BY <1>0, <1>2 DEF ReadPriv, DomainsType
    <2> HIDE DEF r
    <2>5. Moved(w, "set_pub", r) /\ req'[w] = r
      <3>1. "read_priv" \in Labels \ {"idle"} /\ "set_pub" \in Labels
        BY DEF Labels, Writing
      <3>2. Moved(w, "set_pub", req'[w])
        BY <2>1, <2>3, <2>4, <3>1, GotoMoves
      <3>3. req'[w] = r
        BY <1>0, <2>4 DEF DomainsType
      <3> QED BY <3>2, <3>3
    <2>6. LabelInv' /\ DomainsType'
      <3>1. LabelOk("read_priv", req[w])
        BY <1>0, <2>1 DEF LabelInv, Goto, Busy
      <3>2. LabelOk("set_pub", r)
        BY <2>3, <3>1 DEF LabelOk, Writing, Deleting
      <3>3. LabelInv'
        BY <1>0, <2>5, <3>2, LabelKept
      <3>4. DomainsType'
        BY <1>0, <1>2, <2>5 DEF ReadPriv, DomainsType, Moved
      <3> QED BY <3>3, <3>4
    <2> QED BY <2>1, <2>3, <2>5, <2>6 DEF Goto, Busy, Labels, Writing, Deleting
  <1>3. CASE CheckKey(w) /\ pub[req[w].dom] # 0
    <2>1. Goto(w, "check_key", AfterKeys(w)) /\ req[w] \in Requests /\ req' = req
      BY <1>0, <1>3 DEF CheckKey, Goto, LabelInv, LabelOk, Busy
    <2>2. AfterKeys(w) \in Labels \ {"idle", "set_map", "del_map"}
      BY DEF Labels, AfterKeys
    <2>3. "check_key" \in Labels \ {"idle"}
      BY DEF Labels
    <2>4. Moved(w, AfterKeys(w), req[w])
      BY <2>1, <2>2, <2>3, GotoMoves
    <2>5. LabelInv'
      BY <1>0, <2>1, <2>4
      DEF LabelInv, LabelOk, Moved, Busy, Goto, Writing, Deleting, AfterKeys, InTransaction, Requests, AllOps
    <2>6. DomainsType'
      BY <1>0, <1>3, <2>4 DEF CheckKey, DomainsType, Moved
    <2> QED BY <2>1, <2>2, <2>4, <2>5, <2>6 DEF Goto, Busy
  <1>4. CASE CheckKey(w) /\ pub[req[w].dom] = 0
    <2> DEFINE r == [req[w] EXCEPT !.key = keys + 1, !.secret = keys + 1]
    <2>1. Goto(w, "check_key", "set_pub") /\ req[w] \in Requests /\ keys' = keys + 1
      BY <1>0, <1>4 DEF CheckKey, Goto, LabelInv, LabelOk, Busy
    <2>2. /\ r \in Requests /\ r.op = req[w].op /\ r.dom = req[w].dom /\ r.from = req[w].from
          /\ r.sel = req[w].sel
      <3>1. keys + 1 \in Nat
        BY <1>0 DEF DomainsType
      <3> DEFINE k == keys + 1
      <3> HIDE DEF k
      <3>2. [req[w] EXCEPT !.key = k, !.secret = k] \in Requests
        BY <2>1, <3>1 DEF Requests, k
      <3> QED BY <2>1, <3>2 DEF Requests, k
    <2>3. req' = [req EXCEPT ![w] = r]
      BY <1>0, <1>4 DEF CheckKey, DomainsType
    <2> HIDE DEF r
    <2>4. Moved(w, "set_pub", r) /\ req'[w] = r
      <3>1. "check_key" \in Labels \ {"idle"} /\ "set_pub" \in Labels
        BY DEF Labels, Writing
      <3>2. Moved(w, "set_pub", req'[w])
        BY <2>1, <2>2, <2>3, <3>1, GotoMoves
      <3>3. req'[w] = r
        BY <1>0, <2>3 DEF DomainsType
      <3> QED BY <3>2, <3>3
    <2>5. LabelInv'
      <3>1. LabelOk("check_key", req[w])
        BY <1>0, <2>1 DEF LabelInv, Goto, Busy
      <3>2. LabelOk("set_pub", r)
        BY <2>2, <3>1 DEF LabelOk, Writing, Deleting, Requests, AllOps
      <3> QED BY <1>0, <2>4, <3>2, LabelKept
    <2>6. DomainsType'
      BY <1>0, <1>4, <2>1, <2>4 DEF CheckKey, DomainsType, Moved
    <2> QED BY <2>1, <2>2, <2>4, <2>5, <2>6 DEF Goto, Busy, Labels, Writing
  <1>5. CASE SetPub(w)
    <2>1. Goto(w, "set_pub", "set_selector") /\ req[w] \in Requests /\ req' = req
      BY <1>0, <1>5 DEF SetPub, Goto, LabelInv, LabelOk, Busy
    <2>2. "set_selector" \in Labels \ {"idle", "set_map", "del_map"}
      BY DEF Labels, Writing, Deleting, AfterKeys
    <2>3. "set_pub" \in Labels \ {"idle"}
      BY DEF Labels, Writing, Deleting
    <2>4. Moved(w, "set_selector", req[w])
      BY <2>1, <2>2, <2>3, GotoMoves
    <2>5. LabelInv'
      BY <1>0, <2>1, <2>4
      DEF LabelInv, LabelOk, Moved, Busy, Goto, Writing, Deleting, AfterKeys, InTransaction, Requests, AllOps
    <2>6. DomainsType'
      BY <1>0, <1>5, <2>1, <2>4 DEF SetPub, DomainsType, Moved, Requests, LabelInv, LabelOk, Goto, Busy, Writing
    <2> QED BY <2>1, <2>2, <2>4, <2>5, <2>6 DEF Goto, Busy
  <1>6. CASE SetSelector(w)
    <2>1. Goto(w, "set_selector", "set_priv") /\ req[w] \in Requests /\ req' = req
      BY <1>0, <1>6 DEF SetSelector, Goto, LabelInv, LabelOk, Busy
    <2>2. "set_priv" \in Labels \ {"idle", "set_map", "del_map"}
      BY DEF Labels, Writing, Deleting, AfterKeys
    <2>3. "set_selector" \in Labels \ {"idle"}
      BY DEF Labels, Writing, Deleting
    <2>4. Moved(w, "set_priv", req[w])
      BY <2>1, <2>2, <2>3, GotoMoves
    <2>5. LabelInv'
      BY <1>0, <2>1, <2>4
      DEF LabelInv, LabelOk, Moved, Busy, Goto, Writing, Deleting, AfterKeys, InTransaction, Requests, AllOps
    <2>6. DomainsType'
      BY <1>0, <1>6, <2>1, <2>4 DEF SetSelector, DomainsType, Moved, Requests, LabelInv, LabelOk, Goto, Busy, Writing
    <2> QED BY <2>1, <2>2, <2>4, <2>5, <2>6 DEF Goto, Busy
  <1>7. CASE SetPriv(w)
    <2>1. Goto(w, "set_priv", AfterKeys(w)) /\ req[w] \in Requests /\ req' = req
      BY <1>0, <1>7 DEF SetPriv, Goto, LabelInv, LabelOk, Busy
    <2>2. AfterKeys(w) \in Labels \ {"idle", "set_map", "del_map"}
      BY DEF Labels, Writing, Deleting, AfterKeys
    <2>3. "set_priv" \in Labels \ {"idle"}
      BY DEF Labels, Writing, Deleting
    <2>4. Moved(w, AfterKeys(w), req[w])
      BY <2>1, <2>2, <2>3, GotoMoves
    <2>5. LabelInv'
      BY <1>0, <2>1, <2>4
      DEF LabelInv, LabelOk, Moved, Busy, Goto, Writing, Deleting, AfterKeys, InTransaction, Requests, AllOps
    <2>6. DomainsType'
      BY <1>0, <1>7, <2>1, <2>4 DEF SetPriv, DomainsType, Moved, Requests, LabelInv, LabelOk, Goto, Busy, Writing
    <2> QED BY <2>1, <2>2, <2>4, <2>5, <2>6 DEF Goto, Busy
  <1>8. CASE GetSelector(w)
    <2> DEFINE r == [req[w] EXCEPT !.sel = selector[req[w].dom]]
    <2>1. Goto(w, "get_selector", "del_pub") /\ req[w] \in Requests
      BY <1>0, <1>8 DEF GetSelector, Goto, LabelInv, LabelOk, Busy
    <2>2. selector[req[w].dom] \in Selectors \cup {NoSelector}
      BY <1>0, <2>1 DEF DomainsType, Requests, LabelInv, LabelOk, Goto, Busy
    <2>3. /\ r \in Requests /\ r.op = req[w].op /\ r.dom = req[w].dom /\ r.from = req[w].from
          /\ r.sel = selector[req[w].dom]
      BY <2>1, <2>2 DEF Requests
    <2>4. req' = [req EXCEPT ![w] = r]
      BY <1>0, <1>8 DEF GetSelector, DomainsType
    <2> HIDE DEF r
    <2>5. Moved(w, "del_pub", r) /\ req'[w] = r
      <3>1. "del_pub" \in Labels /\ "get_selector" \in Labels
        BY DEF Labels, Deleting
      <3>2. Moved(w, "del_pub", req'[w])
        BY <2>1, <2>3, <2>4, <3>1, GotoMoves
      <3> QED BY <1>0, <2>4, <3>2 DEF DomainsType
    <2>6. LabelInv'
      <3>1. LabelOk("get_selector", req[w])
        BY <1>0, <2>1 DEF LabelInv, Goto, Busy
      <3>2. LabelOk("del_pub", r)
        BY <2>3, <3>1 DEF LabelOk, Writing, Deleting, Requests, AllOps
      <3> QED BY <1>0, <2>5, <3>2, LabelKept
    <2>7. DomainsType'
      BY <1>0, <1>8, <2>1, <2>5 DEF GetSelector, DomainsType, Moved
    <2> QED BY <2>1, <2>3, <2>5, <2>6, <2>7 DEF Goto, Busy, Labels, Writing, Deleting
  <1>9. CASE DelPub(w)
    <2>1. Goto(w, "del_pub", "del_selector") /\ req[w] \in Requests /\ req' = req
      BY <1>0, <1>9 DEF DelPub, Goto, LabelInv, LabelOk, Busy
    <2>2. "del_selector" \in Labels \ {"idle", "set_map", "del_map"}
      BY DEF Labels, Writing, Deleting, AfterKeys
    <2>3. "del_pub" \in Labels \ {"idle"}
      BY DEF Labels, Writing, Deleting
    <2>4. Moved(w, "del_selector", req[w])
      BY <2>1, <2>2, <2>3, GotoMoves
    <2>5. LabelInv'
      BY <1>0, <2>1, <2>4
      DEF LabelInv, LabelOk, Moved, Busy, Goto, Writing, Deleting, AfterKeys, InTransaction, Requests, AllOps
    <2>6. DomainsType'
      BY <1>0, <1>9, <2>1, <2>4 DEF DelPub, DomainsType, Moved, Requests, LabelInv, LabelOk, Goto, Busy, Writing
    <2> QED BY <2>1, <2>2, <2>4, <2>5, <2>6 DEF Goto, Busy
  <1>10. CASE DelSelector(w)
    <2>1. Goto(w, "del_selector", "del_priv") /\ req[w] \in Requests /\ req' = req
      BY <1>0, <1>10 DEF DelSelector, Goto, LabelInv, LabelOk, Busy
    <2>2. "del_priv" \in Labels \ {"idle", "set_map", "del_map"}
      BY DEF Labels, Writing, Deleting, AfterKeys
    <2>3. "del_selector" \in Labels \ {"idle"}
      BY DEF Labels, Writing, Deleting
    <2>4. Moved(w, "del_priv", req[w])
      BY <2>1, <2>2, <2>3, GotoMoves
    <2>5. LabelInv'
      BY <1>0, <2>1, <2>4
      DEF LabelInv, LabelOk, Moved, Busy, Goto, Writing, Deleting, AfterKeys, InTransaction, Requests, AllOps
    <2>6. DomainsType'
      BY <1>0, <1>10, <2>1, <2>4 DEF DelSelector, DomainsType, Moved, Requests, LabelInv, LabelOk, Goto, Busy, Writing
    <2> QED BY <2>1, <2>2, <2>4, <2>5, <2>6 DEF Goto, Busy
  <1>11. CASE DelPriv(w)
    <2>1. Goto(w, "del_priv", AfterKeys(w)) /\ req[w] \in Requests /\ req' = req
      BY <1>0, <1>11 DEF DelPriv, Goto, LabelInv, LabelOk, Busy
    <2>2. AfterKeys(w) \in Labels \ {"idle", "set_map", "del_map"}
      BY DEF Labels, Writing, Deleting, AfterKeys
    <2>3. "del_priv" \in Labels \ {"idle"}
      BY DEF Labels, Writing, Deleting
    <2>4. Moved(w, AfterKeys(w), req[w])
      BY <2>1, <2>2, <2>3, GotoMoves
    <2>5. LabelInv'
      BY <1>0, <2>1, <2>4
      DEF LabelInv, LabelOk, Moved, Busy, Goto, Writing, Deleting, AfterKeys, InTransaction, Requests, AllOps
    <2>6. DomainsType'
      BY <1>0, <1>11, <2>1, <2>4 DEF DelPriv, DomainsType, Moved, Requests, LabelInv, LabelOk, Goto, Busy, Writing
    <2> QED BY <2>1, <2>2, <2>4, <2>5, <2>6 DEF Goto, Busy
  <1> QED BY <1>1, <1>2, <1>3, <1>4, <1>5, <1>6, <1>7, <1>8, <1>9, <1>10, <1>11 DEF KeyWork

\* The end of a request.
LEMMA EndRow ==
  ASSUME RowInv, NEW w \in Workers, Busy(w), Moved(w, "idle", NoRequest),
         UNCHANGED domainMap,
         \/ /\ pc[w] = "commit" /\ Release(w)
            /\ rows' = IF req[w].op = "create_domain" THEN rows \cup {req[w].dom}
                       ELSE rows \ {req[w].dom}
            /\ mapDoubt' = mapDoubt \ {req[w].dom}
         \/ ~InTransaction(w) /\ UNCHANGED <<rows, holders, mapDoubt>>
         \/ /\ Release(w) /\ UNCHANGED rows
            /\ mapDoubt' = IF InTransaction(w) THEN mapDoubt \cup {req[w].dom} ELSE mapDoubt
  PROVE  /\ LabelInv' /\ LockInv' /\ MapInv'
         /\ rows' \subseteq DomainNames /\ holders' \in [DomainNames -> SUBSET Workers]
  <1>1. /\ \A e \in DomainNames : holders[e] \subseteq Workers
        /\ holders \in [DomainNames -> SUBSET Workers] /\ rows \subseteq DomainNames
        /\ req[w] \in Requests /\ req[w].dom \in DomainNames
    BY DEF RowInv, DomainsType, LabelInv, LabelOk, Requests
  <1>2. ~InTransaction(w) => \A e \in DomainNames : w \notin holders[e]
    BY DEF RowInv, LockInv
  <1>3. \A e \in DomainNames : holders'[e] = holders[e] \ {w}
    BY <1>2 DEF Release
  <1>4. \A e \in DomainNames : e # req[w].dom => w \notin holders[e]
    BY DEF RowInv, LockInv
  <1>5. pc[w] = "commit" => InTransaction(w)
    BY <1>1 DEF RowInv, LabelInv, LabelOk, InTransaction, Requests, AllOps, Writing, Deleting
  <1>6. InTransaction(w) => w \in holders[req[w].dom]
    BY DEF RowInv, LockInv
  <1>7. rows' \subseteq DomainNames /\ holders' \in [DomainNames -> SUBSET Workers]
    BY <1>1 DEF Release
  <1>8. LabelInv'
    BY DEF RowInv, LabelInv, LabelOk, Moved, Busy
  <1>9. LockInv'
    <2>1. \A v \in Workers : Busy(v)' /\ InTransaction(v)' => v \in holders'[req'[v].dom]
      BY <1>3 DEF RowInv, LockInv, LabelInv, LabelOk, Requests, Moved, Busy, InTransaction
    <2>2. \A e \in DomainNames : \A v \in holders'[e] :
            Busy(v)' /\ InTransaction(v)' /\ req'[v].dom = e
      BY <1>1, <1>3 DEF RowInv, LockInv, Moved, Busy, InTransaction
    <2>3. \A e \in DomainNames : \A v \in holders'[e] :
            req'[v].op = "create_domain" => e \notin rows' /\ \A u \in holders'[e] : u = v
      <3> SUFFICES ASSUME NEW e \in DomainNames, NEW v \in holders'[e],
                          req'[v].op = "create_domain"
                   PROVE  e \notin rows' /\ \A u \in holders'[e] : u = v
        OBVIOUS
      <3>1. v \in holders[e] /\ v # w /\ req[v].op = "create_domain"
        BY <1>1, <1>3 DEF Moved
      <3>2. e \notin rows /\ \A u \in holders[e] : u = v
        BY <3>1 DEF RowInv, LockInv
      <3>3. pc[w] = "commit" => e # req[w].dom
        BY <1>5, <1>6, <3>1, <3>2
      <3> QED BY <1>3, <3>2, <3>3
    <2>4. \A e \in rows' : \A u, v \in holders'[e] : u = v
      <3> SUFFICES ASSUME NEW e \in rows', NEW u \in holders'[e], NEW v \in holders'[e]
                   PROVE  u = v
        OBVIOUS
      <3>1. e \in DomainNames /\ u \in holders[e] \ {w} /\ v \in holders[e] \ {w}
        BY <1>3, <1>7
      <3>2. CASE e \in rows
        BY <3>1, <3>2 DEF RowInv, LockInv
      <3>3. CASE e \notin rows
        <4>1. pc[w] = "commit" /\ req[w].op = "create_domain" /\ e = req[w].dom
          BY <3>3
        <4> QED BY <1>1, <1>5, <1>6, <3>1, <4>1 DEF RowInv, LockInv
      <3> QED BY <3>2, <3>3
    <2> QED BY <2>1, <2>2, <2>3, <2>4 DEF LockInv
  <1>10. MapInv'
    <2> SUFFICES ASSUME NEW e \in DomainNames
                 PROVE  /\ \A v \in holders'[e] :
                             /\ req'[v].op = "create_domain" /\ pc'[v] # "set_map" => e \in domainMap'
                             /\ req'[v].op = "delete_domain" /\ pc'[v] # "del_map" => e \notin domainMap'
                        /\ e \notin mapDoubt' /\ (\A v \in holders'[e] : pc'[v] \in {"set_map", "del_map"})
                             => (e \in rows' <=> e \in domainMap')
      BY DEF MapInv
    <2>1. ASSUME NEW v \in holders'[e]
          PROVE  /\ req'[v].op = "create_domain" /\ pc'[v] # "set_map" => e \in domainMap'
                 /\ req'[v].op = "delete_domain" /\ pc'[v] # "del_map" => e \notin domainMap'
      BY <1>1, <1>3 DEF RowInv, MapInv, Moved
    <2>2. ASSUME e \notin mapDoubt', \A v \in holders'[e] : pc'[v] \in {"set_map", "del_map"}
          PROVE  e \in rows' <=> e \in domainMap'
      <3>1. CASE w \notin holders[e]
        <4>1. \A v \in holders[e] : pc[v] \in {"set_map", "del_map"}
          BY <1>1, <1>3, <2>2, <3>1 DEF Moved
        <4>2. e \notin mapDoubt /\ (e \in rows' <=> e \in rows)
          BY <1>1, <1>5, <1>6, <2>2, <3>1
        <4> QED BY <4>1, <4>2 DEF RowInv, MapInv
      <3>2. CASE w \in holders[e]
        <4>1. InTransaction(w) /\ e = req[w].dom
          BY <1>2, <1>4, <3>2
        <4>2. pc[w] = "commit" /\ (e \in rows' <=> req[w].op = "create_domain")
          BY <2>2, <4>1
        <4> QED BY <3>2, <4>1, <4>2 DEF RowInv, MapInv, InTransaction
      <3> QED BY <3>1, <3>2
    <2> QED BY <2>1, <2>2
  <1> QED BY <1>7, <1>8, <1>9, <1>10

\* Every step keeps table and map together.
LEMMA RowStep == RowInv /\ [Next]_vars => RowInv'
  <1> SUFFICES ASSUME RowInv, [Next]_vars PROVE RowInv'
    OBVIOUS
  <1> USE DEF redisVars, doubtVars
  <1>0. DomainsType /\ LabelInv
    BY DEF RowInv
  <1>1. ASSUME NEW w \in Workers, NEW d \in DomainNames, NEW s \in Selectors, InsertRow(w, d, s)
        PROVE  RowInv'
    <2> DEFINE r == Request("create_domain", d, d, s, 0)
    <2>1. r \in Requests /\ r.op = "create_domain" /\ r.dom = d /\ r.sel \in Selectors
      BY DEF Request, Requests, AllOps
    <2>2. Moved(w, "set_map", r) /\ ~Busy(w)
      BY <1>1, <2>1, StartMoves DEF InsertRow, Labels
    <2> HIDE DEF r
    <2>3. LabelInv' /\ LockInv' /\ MapInv'
      BY <1>1, <2>1, <2>2, LockedStart DEF InsertRow
    <2>4. DomainsType'
      BY <1>0, <1>1, <2>2 DEF InsertRow, DomainsType, Moved
    <2> QED BY <2>3, <2>4 DEF RowInv
  <1>2. ASSUME NEW w \in Workers, NEW d \in DomainNames, DeleteRow(w, d) PROVE RowInv'
    <2> DEFINE r == Request("delete_domain", d, d, NoSelector, 0)
    <2>1. r \in Requests /\ r.op = "delete_domain" /\ r.dom = d
      BY DEF Request, Requests, AllOps
    <2>2. Moved(w, "del_map", r) /\ ~Busy(w)
      BY <1>2, <2>1, StartMoves DEF DeleteRow, Labels
    <2> HIDE DEF r
    <2>3. LabelInv' /\ LockInv' /\ MapInv'
      BY <1>2, <2>1, <2>2, LockedStart DEF DeleteRow
    <2>4. DomainsType'
      BY <1>0, <1>2, <2>2 DEF DeleteRow, DomainsType, Moved
    <2> QED BY <2>3, <2>4 DEF RowInv
  <1>3. ASSUME NEW w \in Workers, NEW d \in DomainNames, NEW s \in Selectors, CreateKey(w, d, s)
        PROVE  RowInv'
    <2> DEFINE r == Request("create_key", d, d, s, 0)
    <2>1. r \in Requests /\ r.op = "create_key" /\ r.sel \in Selectors
      BY DEF Request, Requests, AllOps
    <2>2. Moved(w, "check_key", r) /\ ~Busy(w)
      BY <1>3, <2>1, StartMoves DEF CreateKey, Labels
    <2> HIDE DEF r
    <2>3. LockInv' /\ MapInv'
      BY <1>3, <2>1, <2>2, KeyCommand DEF CreateKey
    <2>4. DomainsType' /\ LabelInv'
      BY <1>0, <1>3, <2>1, <2>2 DEF CreateKey, DomainsType, Moved, LabelInv, LabelOk, Busy
    <2> QED BY <2>3, <2>4 DEF RowInv
  <1>4. ASSUME NEW w \in Workers, NEW d \in DomainNames, DeleteKey(w, d) PROVE RowInv'
    <2> DEFINE r == Request("delete_key", d, d, NoSelector, 0)
    <2>1. r \in Requests /\ r.op = "delete_key"
      BY DEF Request, Requests, AllOps
    <2>2. Moved(w, "get_selector", r) /\ ~Busy(w)
      BY <1>4, <2>1, StartMoves DEF DeleteKey, Labels, Deleting
    <2> HIDE DEF r
    <2>3. LockInv' /\ MapInv'
      BY <1>4, <2>1, <2>2, KeyCommand DEF DeleteKey
    <2>4. DomainsType' /\ LabelInv'
      BY <1>0, <1>4, <2>1, <2>2 DEF DeleteKey, DomainsType, Moved, LabelInv, LabelOk, Busy, Deleting, Writing
    <2> QED BY <2>3, <2>4 DEF RowInv
  <1>5. ASSUME NEW w \in Workers, NEW from \in DomainNames, NEW to \in DomainNames,
               DuplicateKey(w, from, to)
        PROVE  RowInv'
    <2> DEFINE r == Request("duplicate_key", to, from, NoSelector, pub[from])
    <2>1. r \in Requests /\ r.op = "duplicate_key"
      BY <1>0 DEF Request, Requests, AllOps, DomainsType
    <2>2. Moved(w, "read_selector", r) /\ ~Busy(w)
      BY <1>5, <2>1, StartMoves DEF DuplicateKey, Labels
    <2> HIDE DEF r
    <2>3. LockInv' /\ MapInv'
      BY <1>5, <2>1, <2>2, KeyCommand DEF DuplicateKey
    <2>4. DomainsType' /\ LabelInv'
      <3>1. LabelOk("read_selector", r)
        BY <2>1 DEF LabelOk, Writing
      <3>2. DomainsType'
        BY <1>0, <1>5, <2>2 DEF DuplicateKey, DomainsType, Moved
      <3> QED BY <1>0, <2>2, <3>1, <3>2, LabelKept
    <2> QED BY <2>3, <2>4 DEF RowInv
  <1>6. ASSUME NEW w \in Workers, SetMap(w) PROVE RowInv'
    <2>1. /\ Moved(w, "check_key", req'[w]) /\ Busy(w) /\ pc[w] = "set_map"
          /\ req[w] \in Requests /\ req'[w] = req[w]
      BY <1>6, GotoMoves DEF SetMap, Labels
    <2>2. /\ req[w].op = "create_domain" /\ req[w].dom \in DomainNames
          /\ w \in holders[req[w].dom]
      BY <1>0, <2>1 DEF LabelInv, LabelOk, Requests, AllOps, Writing, Deleting, RowInv, LockInv, InTransaction
    <2>3. DomainsType' /\ LabelInv'
      <3>1. LabelOk("set_map", req[w])
        BY <1>0, <2>1 DEF LabelInv
      <3>2. LabelOk("check_key", req[w])
        BY <2>2, <3>1 DEF LabelOk, Writing, Deleting
      <3>3. DomainsType'
        BY <1>0, <1>6, <2>1, <2>2 DEF SetMap, DomainsType, Moved
      <3> QED BY <1>0, <2>1, <3>2, <3>3, LabelKept
    <2>4. LockInv'
      BY <1>6, <2>1 DEF SetMap, RowInv, DomainsType, LockInv, Moved, Busy, InTransaction
    <2>5. MapInv'
      BY <1>6, <2>1, <2>2 DEF SetMap, RowInv, DomainsType, LockInv, MapInv, Moved
    <2> QED BY <2>3, <2>4, <2>5 DEF RowInv
  <1>7. ASSUME NEW w \in Workers, DelMap(w) PROVE RowInv'
    <2>1. /\ Moved(w, "get_selector", req'[w]) /\ Busy(w) /\ pc[w] = "del_map"
          /\ req[w] \in Requests /\ req'[w] = req[w]
      BY <1>7, GotoMoves DEF DelMap, Labels, Deleting
    <2>2. /\ req[w].op = "delete_domain" /\ req[w].dom \in DomainNames
          /\ w \in holders[req[w].dom]
      BY <1>0, <2>1 DEF LabelInv, LabelOk, Requests, AllOps, Writing, Deleting, RowInv, LockInv, InTransaction
    <2>3. DomainsType' /\ LabelInv'
      <3>1. LabelOk("del_map", req[w])
        BY <1>0, <2>1 DEF LabelInv
      <3>2. LabelOk("get_selector", req[w])
        BY <2>2, <3>1 DEF LabelOk, Writing, Deleting
      <3>3. DomainsType'
        BY <1>0, <1>7, <2>1, <2>2 DEF DelMap, DomainsType, Moved
      <3> QED BY <1>0, <2>1, <3>2, <3>3, LabelKept
    <2>4. LockInv'
      BY <1>7, <2>1 DEF DelMap, RowInv, DomainsType, LockInv, Moved, Busy, InTransaction
    <2>5. MapInv'
      BY <1>7, <2>1, <2>2 DEF DelMap, RowInv, DomainsType, LockInv, MapInv, Moved
    <2> QED BY <2>3, <2>4, <2>5 DEF RowInv
  <1>8. ASSUME NEW w \in Workers, KeyWork(w) PROVE RowInv'
    <2>1. PICK l \in Labels \ {"idle", "set_map", "del_map"} :
            /\ Moved(w, l, req'[w]) /\ Busy(w) /\ pc[w] \notin {"set_map", "del_map"}
            /\ req[w] \in Requests /\ req'[w] \in Requests
            /\ req'[w].op = req[w].op /\ req'[w].dom = req[w].dom
            /\ LabelInv' /\ DomainsType'
      BY <1>8, KeyWorkMoves
    <2>2. UNCHANGED <<rows, holders, domainMap, mapDoubt>>
      BY <1>8 DEF KeyWork, ReadSelector, ReadPriv, CheckKey, SetPub, SetSelector, SetPriv,
                  GetSelector, DelPub, DelSelector, DelPriv
    <2>3. LockInv' /\ MapInv'
      BY <2>1, <2>2, KeyCommand
    <2> QED BY <2>1, <2>3 DEF RowInv
  <1>9. ASSUME NEW w \in Workers, Commit(w) \/ Done(w) \/ Fail(w) PROVE RowInv'
    <2>1. Busy(w) /\ Moved(w, "idle", NoRequest)
      BY <1>0, <1>9 DEF Commit, Done, Fail, Goto, Moved, DomainsType, Labels, Busy
    <2>2. pc[w] = "done" => ~InTransaction(w)
      BY <1>0, <2>1 DEF LabelInv, LabelOk, InTransaction, Writing, Deleting
    <2>3. UNCHANGED <<domainMap, pub, selector, priv, keys>>
      BY <1>9 DEF Commit, Done, Fail
    <2>4. /\ LabelInv' /\ LockInv' /\ MapInv'
          /\ rows' \subseteq DomainNames /\ holders' \in [DomainNames -> SUBSET Workers]
      <3>1. CASE Commit(w)
        BY <2>1, <2>3, <3>1, EndRow DEF Commit, Goto
      <3>2. CASE Done(w)
        BY <2>1, <2>2, <2>3, <3>2, EndRow DEF Done, Goto
      <3>3. CASE Fail(w)
        BY <2>1, <2>3, <3>3, EndRow DEF Fail
      <3> QED BY <1>9, <3>1, <3>2, <3>3
    <2>5. DomainsType'
      BY <1>0, <2>1, <2>3, <2>4 DEF DomainsType, Moved
    <2> QED BY <2>4, <2>5 DEF RowInv
  <1>10. CASE UNCHANGED vars
    BY <1>10 DEF vars, RowInv, DomainsType, LabelInv, LabelOk, LockInv, MapInv, Busy, InTransaction
  <1> QED BY <1>1, <1>2, <1>3, <1>4, <1>5, <1>6, <1>7, <1>8, <1>9, <1>10
          DEF Next, Begin, Command, KeyWork

\* The invariant of table and map holds throughout.
LEMMA RowAlways == Spec => []RowInv
  BY RowInit, RowStep, PTL DEF Spec

\* DOMAIN_MAP and table domain agree on every domain that no request works on and
\* whose last create_domain() or delete_domain() did not raise, whatever requests
\* overlap.
THEOREM MapAgreesAlways == Spec => []MapAgrees
  <1>1. RowInv => MapAgrees
    BY DEF RowInv, DomainsType, LockInv, MapInv, MapAgrees, Untouched, Busy
  <1> QED BY <1>1, RowAlways, PTL

----------------------------------------------------------------------------
(***************************************************************************)
(* The DKIM keys.                                                          *)
(***************************************************************************)
\* A request v that was not crossed: the others write none of the keys it copies, and
\* those about its domain are deletes, as it is.
LEMMA Others ==
  ASSUME KeyInv, NEW w \in Workers, Busy(w), NEW v \in Workers, Busy(v), v # w, v \notin crossed
  PROVE  /\ req[v].op = "duplicate_key" => req[w].dom \notin {req[v].dom, req[v].from}
         /\ req[v].dom = req[w].dom =>
              /\ req[v].op = "delete_domain" /\ req[w].op = "delete_domain"
              /\ pc[v] \in {"del_map", "commit"} \cup Deleting
  <1>1. ~Crosses(req[w], req[v])
    BY DEF KeyInv, CrossInv
  <1>2. /\ LabelOk(pc[v], req[v]) /\ req[v] \in Requests /\ req[w] \in Requests
        /\ req[v].op \in AllOps /\ req[w].op \in AllOps /\ req[w].dom \in DomainNames
    BY DEF KeyInv, RowInv, LabelInv, LabelOk, Requests
  <1>3. req[v].op = "duplicate_key" => req[w].dom \notin {req[v].dom, req[v].from}
    BY <1>1 DEF Crosses
  <1>4. ASSUME req[v].dom = req[w].dom PROVE req[v].op = "delete_domain" /\ req[w].op = "delete_domain"
    <2>1. InTransaction(v) /\ InTransaction(w)
      BY <1>1, <1>2, <1>4 DEF Crosses, AllOps, InTransaction
    <2>2. v \in holders[req[w].dom] /\ w \in holders[req[w].dom]
      BY <1>4, <2>1 DEF KeyInv, RowInv, LockInv
    <2>3. req[v].op # "create_domain" /\ req[w].op # "create_domain"
      BY <1>2, <2>2 DEF KeyInv, RowInv, LockInv
    <2> QED BY <2>1, <2>3 DEF InTransaction
  <1> QED BY <1>2, <1>3, <1>4 DEF LabelOk

\* Another request about domain d was crossed.
OtherCrossed(w, d) == \E v \in crossed : v \in Workers /\ v # w /\ Busy(v) /\ req[v].dom = d

\* The keys of the domain an uncrossed request works on are a pair until it writes,
\* or a delete next to it was crossed.
LEMMA OwnPair ==
  ASSUME KeyInv, NEW w \in Workers, Busy(w), w \notin crossed, ~Between(w),
         req[w].dom \notin keyDoubt
  PROVE  Paired(req[w].dom) \/ OtherCrossed(w, req[w].dom)
  <1>1. req[w].dom \in DomainNames
    BY DEF KeyInv, RowInv, LabelInv, LabelOk, Requests
  <1>2. ASSUME NEW v \in Workers, Between(v), v \notin crossed, req[v].dom = req[w].dom PROVE FALSE
    <2>1. v # w /\ Busy(v)
      BY <1>2 DEF Between
    <2>2. req[v].op = "delete_domain" /\ pc[v] \in {"del_map", "commit"} \cup Deleting
      BY <1>2, <2>1, Others
    <2> QED BY <1>2, <2>2 DEF Between, Tainted, Deleting
  <1> QED BY <1>1, <1>2 DEF KeyInv, PairInv, PairOk, OtherCrossed

\* The keys an uncrossed request copies are a pair.
LEMMA SourcePair ==
  ASSUME KeyInv, NEW w \in Workers, Busy(w), w \notin crossed,
         pc[w] \in {"read_selector", "read_priv"}, ~Tainted(w)
  PROVE  Paired(req[w].from)
  <1>1. req[w].from \in DomainNames /\ req[w].op = "duplicate_key"
    BY DEF KeyInv, RowInv, LabelInv, LabelOk, Requests, AllOps, Writing, Deleting
  <1>2. ASSUME NEW v \in Workers, Busy(v), v # w PROVE req[v].dom # req[w].from
    BY <1>1, <1>2, Others
  <1>3. ~Between(w)
    BY DEF Between
  <1> QED BY <1>1, <1>2, <1>3 DEF KeyInv, PairInv, PairOk, Tainted

\* Domain d keeps its keys.
SameKeys(d) ==
  /\ pub'[d] = pub[d] /\ selector'[d] = selector[d]
  /\ \A s \in Selectors : priv'[<<s, d>>] = priv[<<s, d>>]

\* A step that writes no key of a domain keeps its pair.
LEMMA SamePair ==
  ASSUME RowInv, NEW d \in DomainNames, SameKeys(d)
  PROVE  Paired(d)' <=> Paired(d)
  BY DEF RowInv, DomainsType, SameKeys, Paired

\* A request keeps what it is about.
Continues(w, l, r) ==
  /\ Moved(w, l, r) /\ Busy(w) /\ l # "idle"
  /\ r.op = req[w].op /\ r.dom = req[w].dom /\ r.from = req[w].from
  /\ UNCHANGED <<crossed, keyDoubt>>

\* What a command of request w does to the keys of the other domains, and what the
\* command of a delete does to those of its own.
OnlyOwnKeys(w) ==
  /\ \A d \in DomainNames : d # req[w].dom => SameKeys(d)
  /\ req[w].op = "delete_domain" => pub'[req[w].dom] \in {0, pub[req[w].dom]}

\* A command on the keys of one domain: the other requests and the other domains.
LEMMA Frame ==
  ASSUME KeyInv, NEW w \in Workers, NEW l, NEW r \in Requests, Continues(w, l, r), OnlyOwnKeys(w)
  PROVE  /\ CrossInv'
         /\ \A v \in Workers : v # w /\ Busy(v)' /\ v \notin crossed => WriteOk(v)' /\ DeleteOk(v)'
         /\ \A d \in DomainNames \ keyDoubt : d # req[w].dom => PairOk(d)'
  <1> USE DEF Continues
  <1>1. CrossInv'
    BY DEF KeyInv, CrossInv, Crosses, Moved, Busy
  <1>2. ASSUME NEW v \in Workers, v # w, Busy(v)', v \notin crossed PROVE WriteOk(v)' /\ DeleteOk(v)'
    <2>1. /\ Busy(v) /\ pc'[v] = pc[v] /\ req'[v] = req[v] /\ WriteOk(v) /\ DeleteOk(v)
          /\ LabelOk(pc[v], req[v]) /\ req[v] \in Requests
          /\ req[v].dom \in DomainNames /\ req[v].from \in DomainNames /\ req[v].op \in AllOps
      BY <1>2 DEF Moved, Busy, KeyInv, WorkInv, RowInv, LabelInv, LabelOk, Requests
    <2>2. CASE req[v].dom = req[w].dom
      <3>1. /\ req[v].op = "delete_domain" /\ req[w].op = "delete_domain"
            /\ pc[v] \in {"del_map", "commit"} \cup Deleting
        BY <1>2, <2>1, <2>2, Others
      <3>2. WriteOk(v)'
        BY <2>1, <3>1 DEF WriteOk, Writing, Deleting
      <3>3. DeleteOk(v)'
        BY <2>1, <2>2, <3>1 DEF DeleteOk, OnlyOwnKeys
      <3> QED BY <3>2, <3>3
    <2>3. CASE req[v].dom # req[w].dom
      <3>1. SameKeys(req[v].dom)
        BY <2>1, <2>3 DEF OnlyOwnKeys
      <3>2. req[v].op = "duplicate_key" => SameKeys(req[v].from)
        BY <1>2, <2>1, Others DEF OnlyOwnKeys
      <3>3. pc[v] \in {"read_selector", "read_priv"} => req[v].op = "duplicate_key"
        BY <2>1 DEF LabelOk, AllOps, Writing, Deleting
      <3>4. Paired(req[v].dom)' <=> Paired(req[v].dom)
        BY <2>1, <3>1, SamePair DEF KeyInv
      <3>5. WriteOk(v)'
        BY <2>1, <3>1, <3>2, <3>3, <3>4 DEF WriteOk, Tainted, SameKeys, Writing, Paired
      <3>6. DeleteOk(v)'
        BY <2>1, <3>1 DEF DeleteOk, SameKeys
      <3> QED BY <3>5, <3>6
    <2> QED BY <2>2, <2>3
  <1>3. ASSUME NEW d \in DomainNames \ keyDoubt, d # req[w].dom PROVE PairOk(d)'
    <2>1. Paired(d)' <=> Paired(d)
      BY <1>3, SamePair DEF KeyInv, OnlyOwnKeys
    <2>2. ASSUME NEW v \in Workers, Busy(v), req[v].dom = d, Between(v) \/ v \in crossed
          PROVE  Busy(v)' /\ req'[v].dom = d /\ (Between(v)' \/ v \in crossed')
      BY <1>3, <2>2 DEF Moved, Between, Busy, Tainted
    <2>3. PairOk(d)
      BY <1>3 DEF KeyInv, PairInv
    <2> QED BY <2>1, <2>2, <2>3 DEF PairOk
  <1> QED BY <1>1, <1>2, <1>3

\* What an uncrossed request makes of its own domain.
OwnWork(w) ==
  /\ WriteOk(w)' /\ DeleteOk(w)'
  /\ req[w].dom \notin keyDoubt =>
       Paired(req[w].dom)' \/ Between(w)' \/ OtherCrossed(w, req[w].dom)

\* The same, with the request's own part.
LEMMA FrameInv ==
  ASSUME KeyInv, RowInv', NEW w \in Workers, NEW l, NEW r \in Requests,
         Continues(w, l, r), OnlyOwnKeys(w), w \notin crossed => OwnWork(w)
  PROVE  KeyInv'
  <1>1. /\ CrossInv'
        /\ \A v \in Workers : v # w /\ Busy(v)' /\ v \notin crossed => WriteOk(v)' /\ DeleteOk(v)'
        /\ \A d \in DomainNames \ keyDoubt : d # req[w].dom => PairOk(d)'
    BY Frame
  <1>2. /\ req'[w].dom = req[w].dom /\ Busy(w)' /\ crossed' = crossed /\ keyDoubt' = keyDoubt
        /\ \A v \in Workers : v # w => req'[v] = req[v] /\ (Busy(v)' <=> Busy(v))
    BY DEF Continues, Moved, Busy
  <1>3. WorkInv'
    BY <1>1, <1>2 DEF WorkInv, OwnWork
  <1>4. req[w].dom \notin keyDoubt => PairOk(req[w].dom)'
    BY <1>2 DEF OwnWork, PairOk, OtherCrossed
  <1>5. PairInv'
    BY <1>1, <1>2, <1>4 DEF PairInv
  <1> QED BY <1>1, <1>3, <1>5 DEF KeyInv

\* The start of a request.
LEMMA FrameStart ==
  ASSUME KeyInv, RowInv', NEW w \in Workers, NEW l \in Labels, NEW r \in Requests,
         l \in {"set_map", "del_map", "check_key", "get_selector", "read_selector"},
         Start(w, l, r), UNCHANGED <<pub, selector, priv, keyDoubt>>,
         l = "read_selector" => r.key = pub[r.from] /\ r.key # 0
  PROVE  KeyInv'
  <1>1. Moved(w, l, r) /\ ~Busy(w)
    BY StartMoves DEF KeyInv
  <1>2. /\ crossed \subseteq crossed'
        /\ \A v \in Workers : Busy(v) /\ Crosses(r, req[v]) => v \in crossed'
        /\ \A v \in Workers : Busy(v) /\ Crosses(req[v], r) => w \in crossed'
    BY DEF Start, Busy
  <1>3. CrossInv'
    <2> SUFFICES ASSUME NEW v \in Workers, NEW u \in Workers, Busy(v)', Busy(u)', v # u,
                        v \notin crossed'
                 PROVE  ~Crosses(req'[u], req'[v])
      BY DEF CrossInv, Crosses
    <2>1. CASE u = w
      BY <1>1, <1>2, <2>1 DEF Moved, Busy
    <2>2. CASE v = w
      BY <1>1, <1>2, <2>2 DEF Moved, Busy
    <2>3. CASE u # w /\ v # w
      BY <1>1, <1>2, <2>3 DEF Moved, Busy, KeyInv, CrossInv
    <2> QED BY <2>1, <2>2, <2>3
  <1>4. WorkInv'
    <2>1. WriteOk(w)' /\ DeleteOk(w)'
      BY <1>1 DEF WriteOk, DeleteOk, Moved, Writing
    <2>2. ASSUME NEW v \in Workers, v # w, Busy(v)', v \notin crossed' PROVE WriteOk(v)' /\ DeleteOk(v)'
      <3>1. Busy(v) /\ pc'[v] = pc[v] /\ req'[v] = req[v] /\ WriteOk(v) /\ DeleteOk(v)
        BY <1>1, <1>2, <2>2 DEF Moved, Busy, KeyInv, WorkInv
      <3> QED BY <3>1 DEF WriteOk, DeleteOk, Tainted, Paired
    <2> QED BY <2>1, <2>2 DEF WorkInv
  <1>5. PairInv'
    <2> SUFFICES ASSUME NEW d \in DomainNames \ keyDoubt PROVE PairOk(d)'
      BY DEF PairInv
    <2>1. Paired(d)' <=> Paired(d)
      BY DEF Paired
    <2>2. ASSUME NEW v \in Workers, Busy(v), req[v].dom = d, Between(v) \/ v \in crossed
          PROVE  Busy(v)' /\ req'[v].dom = d /\ (Between(v)' \/ v \in crossed')
      BY <1>1, <1>2, <2>2 DEF Moved, Between, Busy, Tainted
    <2> QED BY <2>1, <2>2 DEF PairOk, KeyInv, PairInv
  <1> QED BY <1>3, <1>4, <1>5 DEF KeyInv

\* The end of a request.
LEMMA FrameEnd ==
  ASSUME KeyInv, RowInv', NEW w \in Workers, Busy(w), Moved(w, "idle", NoRequest),
         UNCHANGED <<pub, selector, priv>>, crossed' = crossed \ {w},
         \/ pc[w] \in {"commit", "done"} /\ keyDoubt' = KeyDoubtAfter(w)
         \/ keyDoubt' = keyDoubt \cup {req[w].dom}
  PROVE  KeyInv'
  <1>1. /\ req[w] \in Requests /\ req[w].dom \in DomainNames /\ req[w].op \in AllOps
        /\ LabelOk(pc[w], req[w])
    BY DEF KeyInv, RowInv, LabelInv, LabelOk, Requests
  <1>2. \A d : d # req[w].dom => (d \in keyDoubt' <=> d \in keyDoubt)
    BY DEF KeyDoubtAfter
  <1>3. ASSUME NEW v \in Workers, Busy(v), v # w, v \notin crossed PROVE Tainted(v)' <=> Tainted(v)
    <2>1. req'[v] = req[v] /\ (req[v].op = "duplicate_key" => req[v].from # req[w].dom)
      BY <1>3, Others DEF Moved
    <2> QED BY <1>2, <2>1 DEF Tainted
  <1>4. CrossInv'
    <2> SUFFICES ASSUME NEW v \in Workers, NEW u \in Workers, Busy(v)', Busy(u)', v # u,
                        v \notin crossed'
                 PROVE  ~Crosses(req'[u], req'[v])
      BY DEF CrossInv, Crosses
    <2> QED BY DEF KeyInv, CrossInv, Moved, Busy
  <1>5. WorkInv'
    <2> SUFFICES ASSUME NEW v \in Workers, Busy(v)', v \notin crossed' PROVE WriteOk(v)' /\ DeleteOk(v)'
      BY DEF WorkInv
    <2>1. /\ v # w /\ Busy(v) /\ v \notin crossed /\ pc'[v] = pc[v] /\ req'[v] = req[v]
          /\ WriteOk(v) /\ DeleteOk(v)
      BY DEF Moved, Busy, KeyInv, WorkInv
    <2>2. Tainted(v)' <=> Tainted(v)
      BY <1>3, <2>1
    <2>3. Paired(req[v].dom)' <=> Paired(req[v].dom)
      BY <2>1 DEF Paired
    <2>4. WriteOk(v)'
      BY <2>1, <2>2, <2>3 DEF WriteOk, Writing, Paired
    <2> QED BY <2>1, <2>4 DEF DeleteOk
  <1>6. PairInv'
    <2> SUFFICES ASSUME NEW d \in DomainNames, d \notin keyDoubt' PROVE PairOk(d)'
      BY DEF PairInv
    <2>1. Paired(d)' <=> Paired(d)
      BY DEF Paired
    <2>2. CASE d = req[w].dom
      <3>1. pc[w] \in {"commit", "done"} /\ keyDoubt' = KeyDoubtAfter(w) /\ w \notin crossed
        BY <2>2 DEF KeyDoubtAfter
      <3>2. WriteOk(w) /\ DeleteOk(w)
        BY <3>1 DEF KeyInv, WorkInv
      <3>3. CASE req[w].op \in {"delete_domain", "delete_key"}
        BY <2>1, <2>2, <3>1, <3>2, <3>3 DEF DeleteOk, Paired, PairOk
      <3>4. CASE req[w].op = "duplicate_key"
        <4>1. pc[w] = "done" /\ ~Tainted(w)
          BY <1>1, <2>2, <3>1, <3>4 DEF LabelOk, Writing, KeyDoubtAfter, Tainted
        <4> QED BY <2>1, <2>2, <3>2, <3>4, <4>1 DEF WriteOk, PairOk
      <3>5. CASE req[w].op \in {"create_domain", "create_key"}
        <4>1. ~Between(w) /\ d \notin keyDoubt
          BY <2>2, <3>1, <3>5 DEF Between, Tainted, KeyDoubtAfter
        <4>2. Paired(d) \/ OtherCrossed(w, d)
          BY <2>2, <3>1, <4>1, OwnPair
        <4> QED BY <2>1, <4>2 DEF PairOk, OtherCrossed, Moved, Busy
      <3> QED BY <1>1, <3>3, <3>4, <3>5 DEF AllOps
    <2>3. CASE d # req[w].dom
      <3>1. d \notin keyDoubt
        BY <1>2, <2>3
      <3>2. ASSUME NEW v \in Workers, Busy(v), req[v].dom = d, Between(v) \/ v \in crossed
            PROVE  Busy(v)' /\ req'[v].dom = d /\ (Between(v)' \/ v \in crossed')
        <4>1. v # w /\ pc'[v] = pc[v] /\ req'[v] = req[v]
          BY <2>3, <3>2 DEF Moved
        <4>2. v \notin crossed => (Tainted(v)' <=> Tainted(v))
          BY <1>3, <3>2, <4>1
        <4> QED BY <3>2, <4>1, <4>2 DEF Between, Busy
      <3>3. PairOk(d)
        BY <3>1 DEF KeyInv, PairInv
      <3> QED BY <2>1, <3>2, <3>3 DEF PairOk
    <2> QED BY <2>2, <2>3
  <1> QED BY <1>4, <1>5, <1>6 DEF KeyInv

\* The state the service starts in.
LEMMA KeyInit == Init => KeyInv
  <1> SUFFICES ASSUME Init PROVE KeyInv
    OBVIOUS
  <1>1. (\A w \in Workers : ~Busy(w)) /\ \A d \in DomainNames : pub[d] = 0
    BY DEF Init, Busy
  <1> QED BY <1>1, RowInit DEF KeyInv, CrossInv, WorkInv, PairInv, PairOk, Paired

\* A command on the keys of a domain writes those of no other, and a delete only
\* deletes.
LEMMA KeyWorkKeys ==
  ASSUME RowInv, NEW w \in Workers, KeyWork(w)
  PROVE  OnlyOwnKeys(w)
  <1> USE DEF redisVars
  <1>0. DomainsType /\ LabelInv
    BY DEF RowInv
  <1>1. Busy(w) /\ LabelOk(pc[w], req[w]) /\ req[w].dom \in DomainNames
    <2>1. Busy(w)
      BY KeyWorkMoves
    <2> QED BY <1>0, <2>1 DEF LabelInv, LabelOk, Requests
  <1> DEFINE d == req[w].dom
  <1>2. CASE UNCHANGED <<pub, selector, priv>>
    BY <1>2 DEF OnlyOwnKeys, SameKeys
  <1>3. CASE SetPub(w)
    <2>1. /\ pc[w] = "set_pub" /\ UNCHANGED <<selector, priv>>
          /\ \A e \in DomainNames : e # d => pub'[e] = pub[e]
      BY <1>0, <1>3 DEF SetPub, Goto, DomainsType
    <2>2. req[w].op # "delete_domain"
      BY <1>1, <2>1 DEF LabelOk, Deleting
    <2> QED BY <2>1, <2>2 DEF OnlyOwnKeys, SameKeys
  <1>4. CASE DelPub(w)
    BY <1>0, <1>1, <1>4 DEF DelPub, OnlyOwnKeys, SameKeys, DomainsType
  <1>5. CASE SetSelector(w) \/ DelSelector(w)
    BY <1>0, <1>5 DEF SetSelector, DelSelector, OnlyOwnKeys, SameKeys, DomainsType
  <1>6. CASE SetPriv(w)
    <2>1. \A e \in DomainNames, s \in Selectors : e # d => priv'[<<s, e>>] = priv[<<s, e>>]
      BY <1>0, <1>6 DEF SetPriv, DomainsType
    <2> QED BY <1>6, <2>1 DEF SetPriv, OnlyOwnKeys, SameKeys
  <1>7. CASE DelPriv(w)
    <2>1. \A e \in DomainNames, s \in Selectors : e # d => priv'[<<s, e>>] = priv[<<s, e>>]
      BY <1>0, <1>7 DEF DelPriv, DomainsType
    <2> QED BY <1>7, <2>1 DEF DelPriv, OnlyOwnKeys, SameKeys
  <1> QED BY <1>2, <1>3, <1>4, <1>5, <1>6, <1>7
          DEF KeyWork, ReadSelector, ReadPriv, CheckKey, GetSelector

\* What the command of an uncrossed request makes of the keys of its own domain.
LEMMA KeyWorkOwn ==
  ASSUME KeyInv, NEW w \in Workers, KeyWork(w), w \notin crossed
  PROVE  OwnWork(w)
  <1> USE DEF redisVars, doubtVars
  <1>0. DomainsType /\ LabelInv /\ RowInv
    BY DEF KeyInv, RowInv
  <1>1. PICK l \in Labels \ {"idle", "set_map", "del_map"} :
          /\ Moved(w, l, req'[w]) /\ Busy(w) /\ pc[w] \notin {"set_map", "del_map"}
          /\ req[w] \in Requests /\ req'[w] \in Requests
          /\ req'[w].op = req[w].op /\ req'[w].dom = req[w].dom /\ req'[w].from = req[w].from
          /\ LabelInv' /\ DomainsType'
    BY <1>0, KeyWorkMoves
  <1> DEFINE d == req[w].dom
  <1>2. d \in DomainNames /\ LabelOk(pc[w], req[w]) /\ WriteOk(w) /\ DeleteOk(w) /\ pc'[w] = l /\ d' = d
    BY <1>0, <1>1 DEF LabelInv, Requests, KeyInv, WorkInv, Moved
  <1>3. keyDoubt' = keyDoubt
    BY DEF KeyWork, ReadSelector, ReadPriv, CheckKey, SetPub, SetSelector, SetPriv,
           GetSelector, DelPub, DelSelector, DelPriv
  <1>4. ~Between(w) /\ d \notin keyDoubt => Paired(d) \/ OtherCrossed(w, d)
    BY <1>1, OwnPair
  <1> HIDE DEF d
  <1> DEFINE Own == /\ WriteOk(w)' /\ DeleteOk(w)'
                    /\ d \notin keyDoubt => Paired(d)' \/ Between(w)' \/ OtherCrossed(w, d)
  <1>5. SUFFICES Own
    BY DEF d, OwnWork
  <1>6. CASE ReadSelector(w)
    <2>1. UNCHANGED <<pub, selector, priv>>
      BY <1>6 DEF ReadSelector
    <2>2. Paired(d)' <=> Paired(d)
      BY <1>2, <2>1 DEF Paired
    <2>3. /\ pc[w] = "read_selector" /\ pc'[w] = "read_priv"
          /\ req'[w].from = req[w].from /\ req'[w].key = req[w].key
          /\ req'[w].sel = IF selector[req[w].from] = NoSelector THEN DefaultSelector
                           ELSE selector[req[w].from]
      BY <1>0, <1>1, <1>6 DEF ReadSelector, Goto, DomainsType, Requests
    <2>4. ~Tainted(w) => Paired(req[w].from)
      BY <1>1, <2>3, SourcePair
    <2>5. WriteOk(w)'
      BY <1>1, <1>2, <1>3, <2>1, <2>3, <2>4 DEF WriteOk, Writing, Tainted, Paired
    <2> QED BY <1>4, <2>2, <2>3, <2>5 DEF DeleteOk, Between
  <1>7. CASE ReadPriv(w)
    <2>1. UNCHANGED <<pub, selector, priv>>
      BY <1>7 DEF ReadPriv
    <2>2. Paired(d)' <=> Paired(d)
      BY <1>2, <2>1 DEF Paired
    <2>3. /\ pc[w] = "read_priv" /\ pc'[w] = "set_pub"
          /\ req'[w].from = req[w].from /\ req'[w].key = req[w].key
          /\ req'[w].secret = priv[<<req[w].sel, req[w].from>>]
      BY <1>0, <1>1, <1>7 DEF ReadPriv, Goto, DomainsType, Requests
    <2>4. ~Tainted(w) => Paired(req[w].from)
      BY <1>1, <2>3, SourcePair
    <2>5. req[w].op = "duplicate_key"
      BY <1>2, <2>3 DEF LabelOk, Requests, AllOps, Writing, Deleting
    <2>6. WriteOk(w)'
      BY <1>1, <1>2, <1>3, <2>1, <2>3, <2>4, <2>5 DEF WriteOk, Writing, Tainted, Paired
    <2> QED BY <1>4, <2>2, <2>3, <2>6 DEF DeleteOk, Between
  <1>8. CASE CheckKey(w)
    <2>1. UNCHANGED <<pub, selector, priv>>
      BY <1>8 DEF CheckKey
    <2>2. Paired(d)' <=> Paired(d)
      BY <1>2, <2>1 DEF Paired
    <2>3. pc[w] = "check_key" /\ req[w].op \in {"create_domain", "create_key"}
      BY <1>2, <1>8 DEF CheckKey, Goto, LabelOk, Requests, AllOps, Writing, Deleting
    <2>4. \/ pc'[w] \in {"commit", "done"}
          \/ /\ pc'[w] = "set_pub" /\ pub[d] = 0
             /\ req'[w].secret = req'[w].key
      <3>1. CASE Goto(w, "check_key", AfterKeys(w))
        BY <1>0, <3>1 DEF Goto, AfterKeys, DomainsType
      <3>2. CASE /\ Goto(w, "check_key", "set_pub") /\ pub[req[w].dom] = 0
                 /\ keys' = keys + 1
                 /\ req' = [req EXCEPT ![w].key = keys', ![w].secret = keys']
        <4> DEFINE k == keys'
        <4>1. req' = [req EXCEPT ![w] = [req[w] EXCEPT !.key = k, !.secret = k]]
          BY <1>0, <3>2 DEF DomainsType
        <4> HIDE DEF k
        <4>2. req'[w] = [req[w] EXCEPT !.key = k, !.secret = k]
          BY <1>0, <4>1 DEF DomainsType
        <4>3. req'[w].secret = req'[w].key
          BY <1>1, <4>2 DEF Requests
        <4> QED BY <1>0, <3>2, <4>3 DEF Goto, DomainsType, d
      <3> QED BY <1>8, <3>1, <3>2 DEF CheckKey
    <2>5. WriteOk(w)' /\ DeleteOk(w)'
      BY <1>1, <2>1, <2>3, <2>4 DEF WriteOk, DeleteOk, Writing, d
    <2> QED BY <1>4, <2>2, <2>3, <2>5 DEF Between, Tainted
  <1>9. CASE SetPub(w)
    <2>1. /\ pc[w] = "set_pub" /\ pc'[w] = "set_selector" /\ req'[w] = req[w]
          /\ pub' = [pub EXCEPT ![d] = req[w].key] /\ UNCHANGED <<selector, priv>>
      BY <1>0, <1>9 DEF SetPub, Goto, DomainsType, d
    <2>2. pub'[d] = req[w].key
      BY <1>0, <1>2, <2>1 DEF DomainsType
    <2>3. WriteOk(w)' /\ DeleteOk(w)'
      BY <1>2, <1>3, <2>1, <2>2 DEF WriteOk, DeleteOk, Writing, Tainted, d
    <2> QED BY <2>1, <2>2, <2>3 DEF Between, Busy
  <1>10. CASE SetSelector(w)
    <2>1. /\ pc[w] = "set_selector" /\ pc'[w] = "set_priv" /\ req'[w] = req[w]
          /\ selector' = [selector EXCEPT ![d] = req[w].sel] /\ UNCHANGED <<pub, priv>>
      BY <1>0, <1>10 DEF SetSelector, Goto, DomainsType, d
    <2>2. selector'[d] = req[w].sel
      BY <1>0, <1>2, <2>1 DEF DomainsType
    <2>3. WriteOk(w)' /\ DeleteOk(w)'
      BY <1>2, <1>3, <2>1, <2>2 DEF WriteOk, DeleteOk, Writing, Tainted, d
    <2> QED BY <2>1, <2>2, <2>3 DEF Between, Busy
  <1>11. CASE SetPriv(w)
    <2>1. /\ pc[w] = "set_priv" /\ pc'[w] = AfterKeys(w) /\ req'[w] = req[w]
          /\ priv' = [priv EXCEPT ![<<req[w].sel, d>>] = req[w].secret] /\ UNCHANGED <<pub, selector>>
      BY <1>0, <1>11 DEF SetPriv, Goto, DomainsType, d
    <2>2. req[w].sel \in Selectors
      BY <1>2, <2>1 DEF LabelOk, Writing
    <2>3. priv'[<<req[w].sel, d>>] = req[w].secret
      BY <1>0, <1>2, <2>1, <2>2 DEF DomainsType
    <2>4. ~Tainted(w) => Paired(d)'
      <3>1. req[w].sel # NoSelector
        BY <2>2, DomainsAssumption DEF NoSelector
      <3> QED BY <1>2, <2>1, <2>3, <3>1 DEF WriteOk, Writing, Paired, d
    <2>5. Tainted(w) => pc'[w] = "done" /\ Tainted(w)'
      BY <1>3, <2>1 DEF Tainted, AfterKeys, InTransaction
    <2>6. req[w].op \notin {"delete_domain", "delete_key"} /\ pc'[w] \in {"commit", "done"}
      BY <1>2, <2>1 DEF LabelOk, Writing, Deleting, AfterKeys
    <2>7. WriteOk(w)' /\ DeleteOk(w)'
      BY <1>1, <1>3, <2>1, <2>4, <2>6 DEF WriteOk, DeleteOk, Writing, Tainted, d
    <2> QED BY <2>3, <2>4, <2>5, <2>6, <2>7 DEF Between, Busy
  <1>12. CASE GetSelector(w)
    <2>1. UNCHANGED <<pub, selector, priv>>
      BY <1>12 DEF GetSelector
    <2>2. Paired(d)' <=> Paired(d)
      BY <1>2, <2>1 DEF Paired
    <2>3. pc[w] = "get_selector" /\ pc'[w] = "del_pub"
      BY <1>0, <1>12 DEF GetSelector, Goto, DomainsType
    <2> QED BY <1>4, <2>2, <2>3 DEF WriteOk, DeleteOk, Between, Writing
  <1>13. CASE DelPub(w)
    <2>1. /\ pc[w] = "del_pub" /\ pc'[w] = "del_selector" /\ req'[w] = req[w]
          /\ pub' = [pub EXCEPT ![d] = 0] /\ UNCHANGED <<selector, priv>>
      BY <1>0, <1>13 DEF DelPub, Goto, DomainsType, d
    <2>2. pub'[d] = 0
      BY <1>0, <1>2, <2>1 DEF DomainsType
    <2> QED BY <1>2, <2>1, <2>2 DEF WriteOk, DeleteOk, Writing, Paired, d
  <1>14. CASE DelSelector(w)
    <2>1. /\ pc[w] = "del_selector" /\ pc'[w] = "del_priv" /\ req'[w] = req[w]
          /\ selector' = [selector EXCEPT ![d] = NoSelector] /\ UNCHANGED <<pub, priv>>
      BY <1>0, <1>14 DEF DelSelector, Goto, DomainsType, d
    <2>2. req[w].op \in {"delete_domain", "delete_key"}
      BY <1>2, <2>1 DEF LabelOk, Requests, AllOps, Writing, Deleting
    <2>3. pub'[d] = 0
      BY <1>0, <1>2, <2>1, <2>2 DEF DomainsType, DeleteOk, d
    <2> QED BY <1>2, <2>1, <2>3 DEF WriteOk, DeleteOk, Writing, Paired, d
  <1>15. CASE DelPriv(w)
    <2>1. /\ pc[w] = "del_priv" /\ pc'[w] = AfterKeys(w) /\ req'[w] = req[w]
          /\ priv' = [k \in DOMAIN priv |-> IF k = <<req[w].sel, d>> THEN 0 ELSE priv[k]]
          /\ UNCHANGED <<pub, selector>>
      BY <1>0, <1>15 DEF DelPriv, Goto, DomainsType, d
    <2>2. req[w].op \in {"delete_domain", "delete_key"} /\ pc'[w] \in {"commit", "done"}
      BY <1>2, <2>1 DEF LabelOk, Requests, AllOps, Writing, Deleting, AfterKeys
    <2>3. pub'[d] = 0
      BY <1>2, <2>1, <2>2 DEF DeleteOk, d
    <2> QED BY <2>1, <2>2, <2>3 DEF WriteOk, DeleteOk, Writing, Paired, d
  <1> QED BY <1>6, <1>7, <1>8, <1>9, <1>10, <1>11, <1>12, <1>13, <1>14, <1>15 DEF KeyWork

\* A command on the keys of a domain keeps the invariant.
LEMMA KeyWorkStep ==
  ASSUME KeyInv, RowInv', NEW w \in Workers, KeyWork(w)
  PROVE  KeyInv'
  <1> USE DEF redisVars, doubtVars
  <1>0. RowInv
    BY DEF KeyInv
  <1>1. PICK l \in Labels \ {"idle", "set_map", "del_map"} :
          /\ Moved(w, l, req'[w]) /\ Busy(w) /\ req'[w] \in Requests
          /\ req'[w].op = req[w].op /\ req'[w].dom = req[w].dom /\ req'[w].from = req[w].from
    BY <1>0, KeyWorkMoves
  <1>2. UNCHANGED <<crossed, keyDoubt>>
    BY DEF KeyWork, ReadSelector, ReadPriv, CheckKey, SetPub, SetSelector, SetPriv,
           GetSelector, DelPub, DelSelector, DelPriv
  <1>3. Continues(w, l, req'[w])
    BY <1>1, <1>2 DEF Continues
  <1> QED BY <1>0, <1>1, <1>3, KeyWorkKeys, KeyWorkOwn, FrameInv

\* Every step keeps the keys.
LEMMA KeyStep == KeyInv /\ [Next]_vars => KeyInv'
  <1> SUFFICES ASSUME KeyInv, [Next]_vars PROVE KeyInv'
    OBVIOUS
  <1> USE DEF redisVars, doubtVars
  <1>0. RowInv /\ DomainsType /\ LabelInv /\ RowInv'
    BY RowStep DEF KeyInv, RowInv
  <1>1. ASSUME NEW w \in Workers, NEW d \in DomainNames, NEW s \in Selectors, InsertRow(w, d, s)
        PROVE  KeyInv'
    <2> DEFINE r == Request("create_domain", d, d, s, 0)
    <2>1. r \in Requests /\ r.op = "create_domain" /\ r.dom = d /\ "set_map" \in Labels
      BY DEF Request, Requests, AllOps, Labels
    <2>2. Start(w, "set_map", r) /\ UNCHANGED <<pub, selector, priv, keyDoubt>>
      BY <1>1 DEF InsertRow
    <2> HIDE DEF r
    <2> QED BY <1>0, <2>1, <2>2, FrameStart
  <1>2. ASSUME NEW w \in Workers, NEW d \in DomainNames, DeleteRow(w, d) PROVE KeyInv'
    <2> DEFINE r == Request("delete_domain", d, d, NoSelector, 0)
    <2>1. r \in Requests /\ r.op = "delete_domain" /\ r.dom = d /\ "del_map" \in Labels
      BY DEF Request, Requests, AllOps, Labels
    <2>2. Start(w, "del_map", r) /\ UNCHANGED <<pub, selector, priv, keyDoubt>>
      BY <1>2 DEF DeleteRow
    <2> HIDE DEF r
    <2> QED BY <1>0, <2>1, <2>2, FrameStart
  <1>3. ASSUME NEW w \in Workers, NEW d \in DomainNames, NEW s \in Selectors, CreateKey(w, d, s)
        PROVE  KeyInv'
    <2> DEFINE r == Request("create_key", d, d, s, 0)
    <2>1. r \in Requests /\ r.op = "create_key" /\ "check_key" \in Labels
      BY DEF Request, Requests, AllOps, Labels
    <2>2. Start(w, "check_key", r) /\ UNCHANGED <<pub, selector, priv, keyDoubt>>
      BY <1>3 DEF CreateKey
    <2> HIDE DEF r
    <2> QED BY <1>0, <2>1, <2>2, FrameStart
  <1>4. ASSUME NEW w \in Workers, NEW d \in DomainNames, DeleteKey(w, d) PROVE KeyInv'
    <2> DEFINE r == Request("delete_key", d, d, NoSelector, 0)
    <2>1. r \in Requests /\ r.op = "delete_key" /\ "get_selector" \in Labels
      BY DEF Request, Requests, AllOps, Labels, Deleting
    <2>2. Start(w, "get_selector", r) /\ UNCHANGED <<pub, selector, priv, keyDoubt>>
      BY <1>4 DEF DeleteKey
    <2> HIDE DEF r
    <2> QED BY <1>0, <2>1, <2>2, FrameStart
  <1>5. ASSUME NEW w \in Workers, NEW from \in DomainNames, NEW to \in DomainNames,
               DuplicateKey(w, from, to)
        PROVE  KeyInv'
    <2> DEFINE r == Request("duplicate_key", to, from, NoSelector, pub[from])
    <2>1. /\ r \in Requests /\ r.op = "duplicate_key" /\ r.from = from /\ r.key = pub[from]
          /\ "read_selector" \in Labels
      BY <1>0 DEF Request, Requests, AllOps, Labels, DomainsType
    <2>2. /\ Start(w, "read_selector", r) /\ pub[from] # 0
          /\ UNCHANGED <<pub, selector, priv, keyDoubt>>
      BY <1>5 DEF DuplicateKey
    <2> HIDE DEF r
    <2> QED BY <1>0, <2>1, <2>2, FrameStart
  <1>6. ASSUME NEW w \in Workers, SetMap(w) \/ DelMap(w) PROVE KeyInv'
    <2>1. /\ pc[w] \in {"set_map", "del_map"} /\ pc'[w] \in {"check_key", "get_selector"}
          /\ req' = req /\ Busy(w) /\ req[w] \in Requests /\ Moved(w, pc'[w], req[w])
      BY <1>0, <1>6
      DEF SetMap, DelMap, Goto, Busy, DomainsType, Moved, LabelInv, LabelOk, Labels, Deleting
    <2>2. UNCHANGED <<pub, selector, priv, keyDoubt, crossed>>
      BY <1>6 DEF SetMap, DelMap
    <2>3. Continues(w, pc'[w], req[w]) /\ OnlyOwnKeys(w)
      BY <2>1, <2>2 DEF Continues, OnlyOwnKeys, SameKeys
    <2>4. ASSUME w \notin crossed PROVE OwnWork(w)
      <3>1. req[w].dom \notin keyDoubt => Paired(req[w].dom) \/ OtherCrossed(w, req[w].dom)
        BY <2>1, <2>4, OwnPair DEF Between
      <3>2. WriteOk(w)' /\ DeleteOk(w)'
        BY <2>1 DEF WriteOk, DeleteOk, Writing
      <3>3. Paired(req[w].dom)' <=> Paired(req[w].dom)
        BY <2>1, <2>2 DEF Paired
      <3> QED BY <3>1, <3>2, <3>3 DEF OwnWork
    <2> QED BY <1>0, <2>1, <2>3, <2>4, FrameInv
  <1>7. ASSUME NEW w \in Workers, KeyWork(w) PROVE KeyInv'
    BY <1>0, <1>7, KeyWorkStep
  <1>8. ASSUME NEW w \in Workers, Commit(w) \/ Done(w) \/ Fail(w) PROVE KeyInv'
    <2>1. Busy(w) /\ Moved(w, "idle", NoRequest)
      BY <1>0, <1>8 DEF Commit, Done, Fail, Goto, Moved, DomainsType, Labels, Busy
    <2>2. UNCHANGED <<pub, selector, priv>> /\ crossed' = crossed \ {w}
      BY <1>8 DEF Commit, Done, Fail
    <2>3. \/ pc[w] \in {"commit", "done"} /\ keyDoubt' = KeyDoubtAfter(w)
          \/ keyDoubt' = keyDoubt \cup {req[w].dom}
      BY <1>8 DEF Commit, Done, Fail, Goto
    <2> QED BY <1>0, <2>1, <2>2, <2>3, FrameEnd
  <1>9. CASE UNCHANGED vars
    BY <1>0, <1>9 DEF vars, KeyInv, CrossInv, WorkInv, PairInv, PairOk, Between, Paired, WriteOk,
                      DeleteOk, Tainted, Busy
  <1> QED BY <1>1, <1>2, <1>3, <1>4, <1>5, <1>6, <1>7, <1>8, <1>9
          DEF Next, Begin, Command, KeyWork

\* The invariant of the keys holds throughout.
LEMMA KeyAlways == Spec => []KeyInv
  BY KeyInit, KeyStep, PTL DEF Spec

\* The public key, the selector and the private key of a domain that no request works
\* on are one pair, however requests overlap: create_domain() and delete_domain() do
\* each other no harm, and of the /api/dkim requests and what they overlap with only
\* the domains are in doubt whose keys they wrote at once, until a delete or a copy
\* completes undisturbed.
THEOREM PairsMatchAlways == Spec => []PairsMatch
  <1>1. KeyInv => PairsMatch
    <2> SUFFICES ASSUME KeyInv, NEW d \in DomainNames \ keyDoubt, Untouched(d)
                 PROVE  Paired(d)
      BY DEF PairsMatch, Paired
    <2> QED BY DEF KeyInv, PairInv, PairOk, Busy, Untouched
  <1> QED BY <1>1, KeyAlways, PTL

\* "DKIM domain already exists" (dkim.py:89): a public key is put in the place of
\* another one only by duplicate_key(), or by a create that a request without a row
\* lock crossed between its check and its write.  Two create_domain() of one domain
\* never do so.
THEOREM CreateKeepsKeyAlways == Spec => CreateKeepsKey
  <1> DEFINE Replaces(d) ==
        \E w \in Workers : /\ pc[w] = "set_pub" /\ req[w].dom = d
                           /\ req[w].op = "duplicate_key" \/ w \in crossed
  <1>1. ASSUME KeyInv, [Next]_vars
        PROVE  [\A d \in DomainNames :
                  pub[d] # 0 /\ pub'[d] \notin {0, pub[d]} => Replaces(d)]_vars
    <2> SUFFICES ASSUME Next, NEW d \in DomainNames, pub[d] # 0, pub'[d] \notin {0, pub[d]}
                 PROVE  Replaces(d)
      BY <1>1
    <2> USE DEF redisVars
    <2>1. PICK w \in Workers : SetPub(w) \/ DelPub(w)
      BY DEF Next, Begin, Command, InsertRow, CreateKey, DeleteRow, DeleteKey, DuplicateKey,
             SetMap, DelMap, ReadSelector, ReadPriv, CheckKey, SetSelector, SetPriv, GetSelector,
             DelSelector, DelPriv, Commit, Done, Fail
    <2>2. pub \in [DomainNames -> Nat]
      BY <1>1 DEF KeyInv, RowInv, DomainsType
    <2>3. SetPub(w) /\ d = req[w].dom /\ pc[w] = "set_pub"
      BY <2>1, <2>2 DEF SetPub, DelPub, Goto
    <2>4. w \in crossed \/ WriteOk(w)
      BY <1>1, <2>3 DEF KeyInv, WorkInv, Busy
    <2> QED BY <2>3, <2>4 DEF WriteOk
  <1> QED BY <1>1, KeyAlways, PTL DEF Spec, CreateKeepsKey
=============================================================================
