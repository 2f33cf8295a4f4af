------------------------------ MODULE Accounts ------------------------------
(***************************************************************************)
(* Domains, mailboxes and aliases in the database: DomainManager,          *)
(* MailboxManager, AliasManager and the SOGo static view, as the API's     *)
(* thread pool runs them.                                                  *)
(*                                                                         *)
(* A request is one transaction.  Its first SELECT fixes the snapshot that *)
(* all its checks read; sessions do not autoflush, so what it changed      *)
(* through the ORM reaches the database with the commit, after every SQL   *)
(* statement the request executed.  A request is two steps: the checks on  *)
(* the snapshot, and the statements with the commit.  A request whose      *)
(* first statement is a DELETE or an INSERT is one step.                   *)
(*                                                                         *)
(* External: MariaDB refuses to write or lock a row that changed since the *)
(* transaction's snapshot and rolls the request back; a row that another   *)
(* request inserts or that a request only read does not conflict.  Alias   *)
(* domains, sender ACLs and temporary aliases, which no request creates,   *)
(* are left out, and so are passwords, names and dovecot's usage counters. *)
(* Redis is in Domains.                                                    *)
(***************************************************************************)
EXTENDS Integers, Sequences, FiniteSets, FiniteSetsExt, SequencesExt, Functions

CONSTANTS
  Domain,      \* the names of the domains
  User,        \* addresses of mailboxes
  Address,     \* addresses of aliases: those of User and others
  DomainOf,    \* DomainOf[a]: the part after the @
  Gotos,       \* the goto lists of requests, sequences of addresses
  Rows,        \* the mailbox rows that requests ask for, see Mailbox
  Limits,      \* the limits of domain requests
  Workers      \* threads that serve requests

\* access: sogo_access without force_pw_update, may SOGo log in?  A quota may be
\* negative: nothing refuses it in create_mailbox(), nor a negative limit.
Mailbox == [quota : Int, active : BOOLEAN, access : BOOLEAN]

Limit == [mailboxes : Int, aliases : Int, maxquota : Int, quota : Int]

ASSUME AccountsAssumption ==
  /\ User \subseteq Address
  /\ DomainOf \in [Address -> Domain]
  /\ Gotos \subseteq Seq(STRING) /\ <<>> \notin Gotos
  /\ Rows \subseteq Mailbox /\ Limits \subseteq Limit

VARIABLES
  domain,   \* table domain: name -> its limits
  mailbox,  \* table mailbox: user -> [quota, active, access]
  alias,    \* table alias: address -> goto
  view,     \* table _sogo_static_view: user -> does it hold the password?
  txn       \* the open transaction of each worker, or NoTxn

vars == <<domain, mailbox, alias, view, txn>>

NoTxn == [op |-> "none"]

----------------------------------------------------------------------------
(***************************************************************************)
(* What the requests read.                                                 *)
(***************************************************************************)
Put(f, k, v) == [x \in DOMAIN f \cup {k} |-> IF x = k THEN v ELSE f[x]]
Drop(f, S) == Restrict(f, DOMAIN f \ S)

MailboxesIn(d) == {u \in DOMAIN mailbox : DomainOf[u] = d}
AliasesIn(d) == {a \in DOMAIN alias \ DOMAIN mailbox : DomainOf[a] = d}
QuotaIn(d) ==
  FoldFunctionOnSet(+, 0, [u \in DOMAIN mailbox |-> mailbox[u].quota], MailboxesIn(d))

\* There is a defquota that is not 0 and at most maxquota.
Validated(l) == l.maxquota # 0 /\ l.maxquota <= l.quota

\* "biggest_mailbox" is selected without MAX(): the quota of any mailbox of the
\* domain, 0 if there is none.
SomeMailbox(d) ==
  IF MailboxesIn(d) = {} THEN {0} ELSE {mailbox[u].quota : u \in MailboxesIn(d)}

Active(m) == {u \in DOMAIN m : m[u].active}

\* What the checks of a request read.
Snapshot == [domain |-> domain, mailbox |-> mailbox]

Begin(w, t) ==
  /\ txn[w] = NoTxn
  /\ txn' = [txn EXCEPT ![w] = t]
  /\ UNCHANGED <<domain, mailbox, alias, view>>

Ending(w, op) ==
  /\ txn[w].op = op
  /\ txn' = [txn EXCEPT ![w] = NoTxn]

\* A request of one step.
Free(w) == txn[w] = NoTxn /\ UNCHANGED txn

\* The users whose rows differ.
Touched(m, n) ==
  {u \in DOMAIN m \cup DOMAIN n :
     ~ (u \in DOMAIN m /\ u \in DOMAIN n /\ m[u] = n[u])}

\* MariaDB lets transaction t lock the rows of these users.
Lockable(t, users) ==
  users \cap Touched(t.snap.mailbox, mailbox) \cap DOMAIN mailbox = {}

----------------------------------------------------------------------------
(***************************************************************************)
(* Domains                                                                 *)
(***************************************************************************)
CreateDomain(w, d, l) ==
  /\ Free(w)
  /\ d \notin DOMAIN domain
  /\ Validated(l)
  /\ domain' = Put(domain, d, l)
  /\ UNCHANGED <<mailbox, alias, view>>

\* Seeded fault: the number of mailboxes is not compared with the new limit.
UpdateDomainUncounted(w, d, l) ==
  /\ d \in DOMAIN domain
  /\ Validated(l)
  /\ \E biggest \in SomeMailbox(d) : biggest <= l.maxquota
  /\ QuotaIn(d) <= l.quota
  /\ Cardinality(AliasesIn(d)) <= l.aliases
  /\ Begin(w, [op |-> "update_domain", dom |-> d, new |-> l, snap |-> Snapshot])

UpdateDomain(w, d, l) ==
  /\ d \in DOMAIN domain
  /\ Validated(l)
  /\ \E biggest \in SomeMailbox(d) : biggest <= l.maxquota
  /\ QuotaIn(d) <= l.quota
  /\ Cardinality(MailboxesIn(d)) <= l.mailboxes
  /\ Cardinality(AliasesIn(d)) <= l.aliases
  /\ Begin(w, [op |-> "update_domain", dom |-> d, new |-> l, snap |-> Snapshot])

UpdateDomainCommit(w) ==
  LET t == txn[w] IN
  /\ Ending(w, "update_domain")
  /\ t.dom \in DOMAIN domain
  /\ domain[t.dom] = t.snap.domain[t.dom]
  /\ domain' = [domain EXCEPT ![t.dom] = t.new]
  /\ UNCHANGED <<mailbox, alias, view>>

\* Seeded fault: the aliases of the domain stay.
DeleteDomainKeepAliases(w) ==
  LET t == txn[w] IN
  /\ Ending(w, "delete_domain")
  /\ domain' = Drop(domain, {t.dom})
  /\ UNCHANGED <<mailbox, alias, view>>

\* The rows a delete of domain d removes.
RowsOf(d) ==
  {<<a, alias[a]>> : a \in {a \in DOMAIN alias : DomainOf[a] = d}}
    \cup {<<x, domain[x]>> : x \in DOMAIN domain \cap {d}}

DeleteDomain(w, d) ==
  /\ MailboxesIn(d) = {}
  /\ Begin(w, [op |-> "delete_domain", dom |-> d, rows |-> RowsOf(d)])

\* The DELETEs fail on a row of the domain that is newer than the snapshot.
DeleteDomainCommit(w) ==
  LET t == txn[w] IN
  /\ Ending(w, "delete_domain")
  /\ MailboxesIn(t.dom) = {}
  /\ RowsOf(t.dom) \subseteq t.rows
  /\ domain' = Drop(domain, {t.dom})
  /\ alias' = Drop(alias, {a \in DOMAIN alias : DomainOf[a] = t.dom})
  /\ UNCHANGED <<mailbox, view>>

----------------------------------------------------------------------------
(***************************************************************************)
(* Mailboxes.  Each request refreshes the SOGo static view before its own  *)
(* ORM changes are flushed.  The refresh reads table mailbox with locks:   *)
(* all rows, or those of one user and of the users in the view.  A mailbox *)
(* request fails if one of them is newer than its snapshot.                *)
(***************************************************************************)
\* Seeded fault: rows of users that went away are left in the view.
FullRefreshKeep(m) ==
  [u \in DOMAIN view \cup Active(m) |-> IF u \in Active(m) THEN m[u].access ELSE view[u]]

\* Seeded fault: the rows of the view are updated and none is inserted.
FullRefreshUpdate(m) == [u \in DOMAIN view \cap Active(m) |-> m[u].access]

\* update_static_view() for a mailbox the database does not have: every active
\* mailbox is written, every other row deleted.
FullRefresh(m) == [u \in Active(m) |-> m[u].access]

\* For a mailbox it has: that one is written.  The statement aggregates without
\* GROUP BY, so for an inactive mailbox it inserts a row of NULLs and raises.
RefreshOne(u) ==
  [x \in (DOMAIN view \cup {u}) \cap Active(mailbox) |->
     IF x = u THEN mailbox[u].access ELSE view[x]]

\* Row m has the quota of the request, or the default if that is 0 or missing.
CreateMailbox(w, u, m) ==
  LET d == DomainOf[u] IN
  /\ m.quota # 0
  /\ u \notin DOMAIN mailbox
  /\ d \in DOMAIN domain
  /\ Cardinality(MailboxesIn(d)) < domain[d].mailboxes
  /\ m.quota <= domain[d].maxquota
  /\ QuotaIn(d) + m.quota <= domain[d].quota
  /\ Begin(w, [op |-> "create_mailbox", user |-> u, new |-> m, snap |-> Snapshot])

CreateMailboxCommit(w) ==
  LET t == txn[w] IN
  /\ Ending(w, "create_mailbox")
  /\ t.user \notin DOMAIN mailbox /\ Lockable(t, DOMAIN mailbox)
  /\ t.user \notin DOMAIN alias
  /\ view' = FullRefresh(mailbox)
  /\ mailbox' = Put(mailbox, t.user, t.new)
  /\ alias' = Put(alias, t.user, <<t.user>>)
  /\ UNCHANGED domain

\* A quota below what is in use, hence below 0, is refused.
UpdateMailbox(w, u, m) ==
  LET d == DomainOf[u] IN
  /\ u \in DOMAIN mailbox
  /\ m.active # mailbox[u].active => u \in DOMAIN alias
  /\ m.quota # mailbox[u].quota =>
       /\ 0 <= m.quota
       /\ d \in DOMAIN domain
       /\ m.quota <= domain[d].maxquota
       /\ m.quota <= domain[d].quota - (QuotaIn(d) - mailbox[u].quota)
  /\ Begin(w, [op |-> "update_mailbox", user |-> u, new |-> m, snap |-> Snapshot])

UpdateMailboxCommit(w) ==
  LET t == txn[w] IN
  /\ Ending(w, "update_mailbox")
  /\ t.user \in Active(mailbox) /\ Lockable(t, DOMAIN view \cup {t.user})
  /\ view' = RefreshOne(t.user)
  /\ mailbox' = [mailbox EXCEPT ![t.user] = t.new]
  /\ UNCHANGED <<domain, alias>>

\* Its first DELETE locks table alias, so the rewriting of the goto lists, which
\* reads before it writes, is not interleaved with other requests.
DeleteMailbox(w, u) ==
  /\ Free(w)
  /\ LET others == {a \in DOMAIN alias : alias[a] # <<u>>}
     IN  alias' = [a \in others |-> SelectSeq(alias[a], LAMBDA g : g # u)]
  /\ mailbox' = Drop(mailbox, {u})
  /\ view' = FullRefresh(mailbox')
  /\ UNCHANGED domain

----------------------------------------------------------------------------
(***************************************************************************)
(* Aliases                                                                 *)
(***************************************************************************)
\* No address is an alias twice; a mailbox has an alias of its own address.
ValidateAddress(a) == a \notin DOMAIN alias

\* An alias does not name itself; it may name another that leads back to it.
ValidateGoto(a, goto) == a \notin ToSet(goto)

AliasesLeft(d) == domain[d].aliases - Cardinality(AliasesIn(d))

\* Refused when no alias is left, and not when fewer than none are.
CreateAlias(w, a, goto) ==
  LET d == DomainOf[a] IN
  /\ ValidateAddress(a)
  /\ ValidateGoto(a, goto)
  /\ d \in DOMAIN domain
  /\ AliasesLeft(d) # 0
  /\ Begin(w, [op |-> "create_alias", addr |-> a, goto |-> goto, snap |-> [domain |-> domain]])

CreateAliasCommit(w) ==
  LET t == txn[w] IN
  /\ Ending(w, "create_alias")
  /\ t.addr \notin DOMAIN alias
  /\ alias' = Put(alias, t.addr, t.goto)
  /\ UNCHANGED <<domain, mailbox, view>>

UpdateAlias(w, a, goto) ==
  /\ a \in DOMAIN alias
  /\ ValidateGoto(a, goto)
  /\ Begin(w, [op |-> "update_alias", addr |-> a, goto |-> goto, old |-> alias[a]])

UpdateAliasCommit(w) ==
  LET t == txn[w] IN
  /\ Ending(w, "update_alias")
  /\ t.addr \in DOMAIN alias /\ alias[t.addr] = t.old
  /\ alias' = [alias EXCEPT ![t.addr] = t.goto]
  /\ UNCHANGED <<domain, mailbox, view>>

DeleteAlias(w, a) ==
  /\ Free(w)
  /\ alias' = Drop(alias, {a})
  /\ UNCHANGED <<domain, mailbox, view>>

(***************************************************************************)
(* db_transaction() rolls back whatever was raised: a conflict, a second   *)
(* row with the same key, the static view, memcached, a lost connection.   *)
(***************************************************************************)
Rollback(w) ==
  /\ txn[w] # NoTxn
  /\ txn' = [txn EXCEPT ![w] = NoTxn]
  /\ UNCHANGED <<domain, mailbox, alias, view>>
----------------------------------------------------------------------------
NoRows == [x \in {} |-> 0]

Init ==
  /\ domain = NoRows /\ mailbox = NoRows /\ alias = NoRows /\ view = NoRows
  /\ txn = [w \in Workers |-> NoTxn]

DomainRequest(w) ==
  \/ \E d \in Domain, l \in Limits : CreateDomain(w, d, l) \/ UpdateDomain(w, d, l)
  \/ \E d \in Domain : DeleteDomain(w, d)
  \/ UpdateDomainCommit(w) \/ DeleteDomainCommit(w)

MailboxRequest(w) ==
  \/ \E u \in User, m \in Rows : CreateMailbox(w, u, m) \/ UpdateMailbox(w, u, m)
  \/ \E u \in User : DeleteMailbox(w, u)
  \/ CreateMailboxCommit(w) \/ UpdateMailboxCommit(w)

AliasRequest(w) ==
  \/ \E a \in Address, g \in Gotos : CreateAlias(w, a, g) \/ UpdateAlias(w, a, g)
  \/ \E a \in Address : DeleteAlias(w, a)
  \/ CreateAliasCommit(w) \/ UpdateAliasCommit(w)

Next ==
  \E w \in Workers :
    DomainRequest(w) \/ MailboxRequest(w) \/ AliasRequest(w) \/ Rollback(w)

Spec == Init /\ [][Next]_vars

----------------------------------------------------------------------------
(***************************************************************************)
(* Properties                                                              *)
(***************************************************************************)
Within(d) ==
  MailboxesIn(d) # {} =>
    /\ Cardinality(MailboxesIn(d)) <= domain[d].mailboxes
    /\ QuotaIn(d) <= domain[d].quota

\* Since snapshot s the limits of domain d have changed, a mailbox of it is new or
\* has another row, or one with a negative quota is gone.
Outdated(s, d) ==
  \/ ~ (d \in DOMAIN s.domain /\ s.domain[d] = domain[d])
  \/ \E u \in Touched(s.mailbox, mailbox) :
       DomainOf[u] = d /\ (u \in DOMAIN mailbox \/ s.mailbox[u].quota < 0)

\* create_mailbox(), update_mailbox() and update_domain() each check one side of the
\* limits.  Whatever requests overlap, only two things ever take a domain from
\* within its number of mailboxes and its quota to beyond them: the commit of a
\* request whose snapshot of this domain is outdated by then, and the removal of a
\* mailbox with a negative quota, which create_mailbox() accepts.
LimitsKept ==
  [][\A d \in DOMAIN domain \cap DOMAIN domain' :
       Within(d) /\ ~ Within(d)' =>
         \/ \E w \in Workers :
              /\ txn[w].op \in {"update_domain", "create_mailbox", "update_mailbox"}
              /\ txn'[w] = NoTxn
              /\ Outdated(txn[w].snap, d)
         \/ \E u \in MailboxesIn(d) : u \notin DOMAIN mailbox' /\ mailbox[u].quota < 0]_vars

\* The mailboxes and aliases of no domain.
Orphans == {a \in DOMAIN mailbox \cup DOMAIN alias : DomainOf[a] \notin DOMAIN domain}

\* domain.py:284 says "Cannot remove non-empty domain".  Whatever requests overlap,
\* delete_domain() itself orphans no mailbox and no alias; only a create that read
\* the domain before it was deleted, and commits after, does.
OrphansOnlyByRace ==
  [][\A a \in Orphans' \ Orphans :
       \E w \in Workers :
         /\ \/ txn[w].op = "create_mailbox" /\ txn[w].user = a
            \/ txn[w].op = "create_alias" /\ txn[w].addr = a
         /\ txn'[w] = NoTxn
         /\ DomainOf[a] \in DOMAIN txn[w].snap.domain]_vars

\* A mailbox request of any user leaves nobody in SOGo's view who has no active
\* mailbox, except perhaps the user it is about, whose own change the refresh
\* did not see yet.
ViewClean ==
  [][mailbox' # mailbox =>
       DOMAIN view' \subseteq Active(mailbox') \cup Touched(mailbox, mailbox')]_vars

\* create_mailbox() and delete_mailbox() bring every other active mailbox into
\* the view, with the password its attributes allow.
ViewComplete ==
  [][DOMAIN mailbox' # DOMAIN mailbox =>
       \A u \in Active(mailbox') \ Touched(mailbox, mailbox') :
         u \in DOMAIN view' /\ view'[u] = mailbox'[u].access]_vars
=============================================================================
