------------------------------- MODULE Domains -------------------------------
(***************************************************************************)
(* A mail domain in its two stores: the row of table domain (DomainManager)*)
(* and, in Redis, the hashes DOMAIN_MAP, DKIM_PUB_KEYS, DKIM_SELECTORS and *)
(* DKIM_PRIV_KEYS (DKIMManager), which rspamd reads.                       *)
(*                                                                         *)
(* Requests run in the API's thread pool, one Redis command per step.  The *)
(* SQL statements of create_domain() and delete_domain() come before their *)
(* Redis commands and the commit after them, so the row lock of the        *)
(* database is held all the while; the /api/dkim requests hold no lock.    *)
(* A request that raises rolls its transaction back and leaves in Redis    *)
(* what it did there.  Tables that only the SQL statements touch are in    *)
(* Accounts; restart of SOGo has no state here and fails like a commit.    *)
(***************************************************************************)
EXTENDS Integers, FiniteSets

CONSTANTS
  DomainNames,
  Selectors,
  DefaultSelector,  \* "dkim"
  Workers,          \* threads that serve requests
  MaxKeys,          \* bound: key pairs generated
  MaxTrouble        \* bound: requests of /api/dkim, and requests that raise

DomainOps == {"create_domain", "delete_domain"}
KeyOps == {"create_key", "duplicate_key", "delete_key"}
AllOps == DomainOps \cup KeyOps

ASSUME DomainsAssumption ==
  /\ DefaultSelector \in Selectors
  /\ MaxKeys \in Nat /\ MaxTrouble \in Nat
  /\ DomainNames # {} /\ "none" \notin Selectors

VARIABLES
  rows,       \* committed rows of table domain
  holders,    \* holders[d]: transactions that hold the lock of row d
  domainMap,  \* DOMAIN_MAP
  pub,        \* DKIM_PUB_KEYS: domain -> number of the key pair, 0 for none
  selector,   \* DKIM_SELECTORS
  priv,       \* DKIM_PRIV_KEYS: <<selector, domain>> -> key pair
  pc,         \* the next command of each worker
  req,        \* its request, and what it read
  keys,       \* key pairs generated so far
  trouble,    \* requests of /api/dkim, and requests that raised, so far
  mapDoubt,   \* domains whose last create_domain or delete_domain raised
  keyDoubt,   \* domains whose keys may be half done: a request raised or was crossed
  crossed     \* requests that met a /api/dkim request, or as one another request,
              \* which writes the keys they read or write

redisVars == <<domainMap, pub, selector, priv>>
doubtVars == <<mapDoubt, keyDoubt>>
vars == <<rows, holders, redisVars, pc, req, keys, trouble, doubtVars, crossed>>

NoSelector == "none"

Request(op, d, from, s, k) ==
  [op |-> op, dom |-> d, from |-> from, sel |-> s, key |-> k, secret |-> 0]

NoRequest == [op |-> "none"]

\* Request q writes keys that r reads or writes, and no row lock keeps them apart.
Crosses(q, r) ==
  {q.op, r.op} \cap KeyOps # {} /\ q.dom \in {r.dom, r.from}

Start(w, label, r) ==
  LET others == {v \in Workers : pc[v] # "idle"} IN
  /\ pc[w] = "idle"
  /\ trouble' = IF r.op \in KeyOps THEN trouble + 1 ELSE trouble
  /\ trouble' <= MaxTrouble
  /\ pc' = [pc EXCEPT ![w] = label]
  /\ req' = [req EXCEPT ![w] = r]
  /\ crossed' = crossed \cup {v \in others : Crosses(r, req[v])}
                  \cup {u \in {w} : \E v \in others : Crosses(req[v], r)}

Goto(w, from, to) == pc[w] = from /\ pc' = [pc EXCEPT ![w] = to]

InTransaction(w) == req[w].op \in DomainOps

\* The label after the last DKIM command.
AfterKeys(w) == IF InTransaction(w) THEN "commit" ELSE "done"

----------------------------------------------------------------------------
\* The bound on key pairs, with those the requests under way may still generate.
MayGenerate ==
  keys + Cardinality({w \in Workers : pc[w] \in {"set_map", "check_key"}}) < MaxKeys

(***************************************************************************)
(* create_domain(): the INSERT waits for every transaction that holds the  *)
(* row or its gap, and is refused if the row is there.                     *)
(***************************************************************************)
\* Seeded fault: the INSERT does not wait for a delete that locked the gap.
InsertRowOverDelete(w, d, s) ==
  /\ \A v \in holders[d] : req[v].op = "delete_domain"
  /\ d \notin rows
  /\ MayGenerate
  /\ Start(w, "set_map", Request("create_domain", d, d, s, 0))
  /\ holders' = [holders EXCEPT ![d] = @ \cup {w}]
  /\ UNCHANGED <<rows, redisVars, keys, doubtVars>>

\* Seeded fault: the row is only inserted by the commit, as without the flush().
InsertRowUnflushed(w, d, s) ==
  /\ d \notin rows
  /\ MayGenerate
  /\ Start(w, "set_map", Request("create_domain", d, d, s, 0))
  /\ UNCHANGED <<rows, holders, redisVars, keys, doubtVars>>

InsertRow(w, d, s) ==
  /\ holders[d] = {}
  /\ d \notin rows
  /\ MayGenerate
  /\ Start(w, "set_map", Request("create_domain", d, d, s, 0))
  /\ holders' = [holders EXCEPT ![d] = {w}]
  /\ UNCHANGED <<rows, redisVars, keys, doubtVars>>

SetMap(w) ==
  /\ Goto(w, "set_map", "check_key")
  /\ domainMap' = domainMap \cup {req[w].dom}
  /\ UNCHANGED <<rows, holders, pub, selector, priv, req, keys, trouble, doubtVars, crossed>>

(***************************************************************************)
(* delete_domain(): its DELETEs wait for the row; of a row that is not     *)
(* there they lock the gap, which deletes share and an INSERT waits for.   *)
(***************************************************************************)
DeleteRow(w, d) ==
  /\ d \in rows => holders[d] = {}
  /\ \A v \in holders[d] : req[v].op = "delete_domain"
  /\ Start(w, "del_map", Request("delete_domain", d, d, NoSelector, 0))
  /\ holders' = [holders EXCEPT ![d] = @ \cup {w}]
  /\ UNCHANGED <<rows, redisVars, keys, doubtVars>>

\* Seeded fault: the domain stays in the map.
DelMapKept(w) ==
  /\ Goto(w, "del_map", "get_selector")
  /\ UNCHANGED <<rows, holders, redisVars, req, keys, trouble, doubtVars, crossed>>

DelMap(w) ==
  /\ Goto(w, "del_map", "get_selector")
  /\ domainMap' = domainMap \ {req[w].dom}
  /\ UNCHANGED <<rows, holders, pub, selector, priv, req, keys, trouble, doubtVars, crossed>>

(***************************************************************************)
(* The /api/dkim requests: no transaction, no lock.                        *)
(***************************************************************************)
CreateKey(w, d, s) ==
  /\ MayGenerate
  /\ Start(w, "check_key", Request("create_key", d, d, s, 0))
  /\ UNCHANGED <<rows, holders, redisVars, keys, doubtVars>>

DeleteKey(w, d) ==
  /\ Start(w, "get_selector", Request("delete_key", d, d, NoSelector, 0))
  /\ UNCHANGED <<rows, holders, redisVars, keys, doubtVars>>

\* duplicate_key(): get_details() reads the public key of from, or raises.
DuplicateKey(w, from, to) ==
  /\ pub[from] # 0
  /\ Start(w, "read_selector", Request("duplicate_key", to, from, NoSelector, pub[from]))
  /\ UNCHANGED <<rows, holders, redisVars, keys, doubtVars>>

ReadSelector(w) ==
  /\ Goto(w, "read_selector", "read_priv")
  /\ req' = [req EXCEPT ![w].sel =
               IF selector[req[w].from] = NoSelector THEN DefaultSelector
               ELSE selector[req[w].from]]
  /\ UNCHANGED <<rows, holders, redisVars, keys, trouble, doubtVars, crossed>>

\* A private key that is missing is copied as the empty string, here 0.
ReadPriv(w) ==
  /\ Goto(w, "read_priv", "set_pub")
  /\ req' = [req EXCEPT ![w].secret = priv[<<req[w].sel, req[w].from>>]]
  /\ UNCHANGED <<rows, holders, redisVars, keys, trouble, doubtVars, crossed>>

(***************************************************************************)
(* create_key(): refused if the domain has a public key, which             *)
(* create_domain() ignores.                                                *)
(***************************************************************************)
CheckKey(w) ==
  /\ \/ /\ Goto(w, "check_key", AfterKeys(w))
        /\ pub[req[w].dom] # 0
        /\ UNCHANGED <<req, keys>>
     \/ /\ Goto(w, "check_key", "set_pub")
        /\ pub[req[w].dom] = 0
        /\ keys' = keys + 1
        /\ req' = [req EXCEPT ![w].key = keys', ![w].secret = keys']
  /\ UNCHANGED <<rows, holders, redisVars, trouble, doubtVars, crossed>>

SetPub(w) ==
  /\ Goto(w, "set_pub", "set_selector")
  /\ pub' = [pub EXCEPT ![req[w].dom] = req[w].key]
  /\ UNCHANGED <<rows, holders, domainMap, selector, priv, req, keys, trouble, doubtVars, crossed>>

\* Seeded fault: a selector that is there is kept.
SetSelectorOnce(w) ==
  /\ Goto(w, "set_selector", "set_priv")
  /\ selector' = [selector EXCEPT ![req[w].dom] =
                    IF @ = NoSelector THEN req[w].sel ELSE @]
  /\ UNCHANGED <<rows, holders, domainMap, pub, priv, req, keys, trouble, doubtVars, crossed>>

SetSelector(w) ==
  /\ Goto(w, "set_selector", "set_priv")
  /\ selector' = [selector EXCEPT ![req[w].dom] = req[w].sel]
  /\ UNCHANGED <<rows, holders, domainMap, pub, priv, req, keys, trouble, doubtVars, crossed>>

SetPriv(w) ==
  /\ Goto(w, "set_priv", AfterKeys(w))
  /\ priv' = [priv EXCEPT ![<<req[w].sel, req[w].dom>>] = req[w].secret]
  /\ UNCHANGED <<rows, holders, domainMap, pub, selector, req, keys, trouble, doubtVars, crossed>>

(***************************************************************************)
(* delete_key(): the private key is found by the selector read first.      *)
(***************************************************************************)
GetSelector(w) ==
  /\ Goto(w, "get_selector", "del_pub")
  /\ req' = [req EXCEPT ![w].sel = selector[req[w].dom]]
  /\ UNCHANGED <<rows, holders, redisVars, keys, trouble, doubtVars, crossed>>

DelPub(w) ==
  /\ Goto(w, "del_pub", "del_selector")
  /\ pub' = [pub EXCEPT ![req[w].dom] = 0]
  /\ UNCHANGED <<rows, holders, domainMap, selector, priv, req, keys, trouble, doubtVars, crossed>>

DelSelector(w) ==
  /\ Goto(w, "del_selector", "del_priv")
  /\ selector' = [selector EXCEPT ![req[w].dom] = NoSelector]
  /\ UNCHANGED <<rows, holders, domainMap, pub, priv, req, keys, trouble, doubtVars, crossed>>

DelPriv(w) ==
  /\ Goto(w, "del_priv", AfterKeys(w))
  /\ priv' = [k \in DOMAIN priv |->
               IF k = <<req[w].sel, req[w].dom>> THEN 0 ELSE priv[k]]
  /\ UNCHANGED <<rows, holders, domainMap, pub, selector, req, keys, trouble, doubtVars, crossed>>

(***************************************************************************)
(* The end of a request.                                                   *)
(***************************************************************************)
Release(w) == holders' = [d \in DomainNames |-> holders[d] \ {w}]

\* The doubt about the keys of a domain ends with a complete delete or with a
\* complete copy of keys that are in no doubt, unless the request was crossed.
KeyDoubtAfter(w) ==
  LET r == req[w] IN
  CASE w \in crossed -> keyDoubt \cup {r.dom}
    [] w \notin crossed /\ r.op \in {"delete_domain", "delete_key"} -> keyDoubt \ {r.dom}
    [] w \notin crossed /\ r.op = "duplicate_key" ->
         IF r.from \in keyDoubt THEN keyDoubt \cup {r.dom} ELSE keyDoubt \ {r.dom}
    [] OTHER -> keyDoubt

Commit(w) ==
  /\ Goto(w, "commit", "idle")
  /\ rows' = IF req[w].op = "create_domain" THEN rows \cup {req[w].dom}
             ELSE rows \ {req[w].dom}
  /\ Release(w)
  /\ mapDoubt' = mapDoubt \ {req[w].dom}
  /\ keyDoubt' = KeyDoubtAfter(w)
  /\ crossed' = crossed \ {w}
  /\ req' = [req EXCEPT ![w] = NoRequest]
  /\ UNCHANGED <<redisVars, keys, trouble>>

Done(w) ==
  /\ Goto(w, "done", "idle")
  /\ keyDoubt' = KeyDoubtAfter(w)
  /\ crossed' = crossed \ {w}
  /\ req' = [req EXCEPT ![w] = NoRequest]
  /\ UNCHANGED <<rows, holders, redisVars, keys, trouble, mapDoubt>>

\* Redis or dockerapi does not answer, the commit fails or the process dies:
\* db_transaction() or the server rolls back.
Fail(w) ==
  /\ trouble < MaxTrouble
  /\ trouble' = trouble + 1
  /\ pc[w] # "idle"
  /\ pc' = [pc EXCEPT ![w] = "idle"]
  /\ Release(w)
  /\ mapDoubt' = IF InTransaction(w) THEN mapDoubt \cup {req[w].dom} ELSE mapDoubt
  /\ keyDoubt' = keyDoubt \cup {req[w].dom}
  /\ crossed' = crossed \ {w}
  /\ req' = [req EXCEPT ![w] = NoRequest]
  /\ UNCHANGED <<rows, redisVars, keys>>
----------------------------------------------------------------------------
Init ==
  /\ rows = {} /\ holders = [d \in DomainNames |-> {}]
  /\ domainMap = {}
  /\ pub = [d \in DomainNames |-> 0]
  /\ selector = [d \in DomainNames |-> NoSelector]
  /\ priv = [k \in Selectors \X DomainNames |-> 0]
  /\ pc = [w \in Workers |-> "idle"]
  /\ req = [w \in Workers |-> NoRequest]
  /\ keys = 0 /\ trouble = 0 /\ mapDoubt = {} /\ keyDoubt = {} /\ crossed = {}

Begin(w) ==
  \/ \E d \in DomainNames, s \in Selectors : InsertRow(w, d, s) \/ CreateKey(w, d, s)
  \/ \E d \in DomainNames : DeleteRow(w, d) \/ DeleteKey(w, d)
  \/ \E from, to \in DomainNames : DuplicateKey(w, from, to)

Command(w) ==
  \/ SetMap(w) \/ DelMap(w)
  \/ ReadSelector(w) \/ ReadPriv(w)
  \/ CheckKey(w) \/ SetPub(w) \/ SetSelector(w) \/ SetPriv(w)
  \/ GetSelector(w) \/ DelPub(w) \/ DelSelector(w) \/ DelPriv(w)
  \/ Commit(w) \/ Done(w)

Next == \E w \in Workers : Begin(w) \/ Command(w) \/ Fail(w)

Spec == Init /\ [][Next]_vars
----------------------------------------------------------------------------
(***************************************************************************)
(* Properties                                                              *)
(***************************************************************************)
Untouched(d) == \A w \in Workers : pc[w] # "idle" => req[w].dom # d

\* DOMAIN_MAP and table domain agree on every domain no request works on,
\* whatever requests ran concurrently, unless the last create_domain or
\* delete_domain of the domain raised: the next one that completes repairs it.
MapAgrees ==
  \A d \in DomainNames \ mapDoubt :
    Untouched(d) => (d \in rows <=> d \in domainMap)

\* The public key, the selector and the private key of a domain are one key
\* pair, the one rspamd signs with and DNS publishes, unless a request left them
\* half done that raised, or that overlapped with a /api/dkim request about the
\* domain: the row lock keeps the keys of domains that are created and deleted
\* concurrently apart, and the next delete or copy that completes undisturbed
\* makes good what the others left.
PairsMatch ==
  \A d \in DomainNames \ keyDoubt :
    Untouched(d) /\ pub[d] # 0 =>
      selector[d] # NoSelector /\ priv[<<selector[d], d>>] = pub[d]

\* dkim.py:89 raises "DKIM domain already exists": besides duplicate_key(), only a
\* create whose check and writes overlapped with a /api/dkim request about the
\* domain puts a public key in the place of another.  Requests of create_domain()
\* never do so among themselves, thanks to the row that is inserted first.
CreateKeepsKey ==
  [][\A d \in DomainNames :
       pub[d] # 0 /\ pub'[d] \notin {0, pub[d]} =>
         \E w \in Workers :
           /\ pc[w] = "set_pub" /\ req[w].dom = d
           /\ req[w].op = "duplicate_key" \/ w \in crossed]_vars
=============================================================================
