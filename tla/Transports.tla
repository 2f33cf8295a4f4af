----------------------------- MODULE Transports -----------------------------
(***************************************************************************)
(* Table transports: which next hop the mail of a destination goes to, and *)
(* the credentials Postfix uses there (TransportManager).                  *)
(*                                                                         *)
(* A request is one transaction of a thread of the API.  Its first SELECT  *)
(* fixes the snapshot that _check_conflicts() reads, so a create or an     *)
(* update is two steps: the checks, and the statements with the commit.  A *)
(* request that a check refuses changes nothing and is no step.            *)
(*                                                                         *)
(* External: MariaDB keeps the rows a statement locked until the commit,   *)
(* and refuses to lock a row that changed after the snapshot was taken; a  *)
(* row that a request only read does not conflict.  No index of the table  *)
(* is unique.  SQL compares text without its case (utf8mb4_general_ci),    *)
(* Python with it.  An UPDATE of an SQLAlchemy session forgets what is assigned  *)
(* to the columns it sets, and not yet flushed, of the session's objects   *)
(* that meet its condition.  The column active, which no code here reads,  *)
(* is left out.                                                            *)
(***************************************************************************)
EXTENDS Integers, FiniteSets

CONSTANTS
  Hosts,         \* host names and addresses of next hops
  IPs,           \* those that are addresses
  Fold,          \* host -> the host as the collation of the table sees it
  Ports,         \* ports that a next hop may name, NoPort for none
  NoPort,
  Requests,      \* the rows that requests ask for, see Row
  Accepted,      \* <<destination, is_mx_based>> that _validate_destination passes
  Usernames,
  Passwords,
  Empty,         \* the empty user name and the empty password
  Workers,       \* threads that serve requests
  MaxTransports  \* bound: transports ever created

Nexthop == [host : Hosts, bracketed : BOOLEAN, port : Ports]

Row ==
  [destination : {a[1] : a \in Accepted}, mx : {a[2] : a \in Accepted},
   nexthop : Nexthop, username : Usernames, password : Passwords]

ASSUME TransportsAssumption ==
  /\ IPs \subseteq Hosts
  /\ NoPort \in Ports
  /\ Empty \in Usernames \cap Passwords
  /\ Requests \subseteq Row
  /\ MaxTransports \in Nat
  /\ IsFiniteSet(Workers)

VARIABLES
  rows,    \* table transports: id -> row
  lastId,  \* AUTO_INCREMENT
  txn,     \* the open transaction of each worker, or NoTxn
  applied  \* history: has every update stored the credentials it was asked to?

vars == <<rows, lastId, txn, applied>>

Ids == 1..MaxTransports

NoRow == [destination |-> "none"]
NoTxn == [id |-> -1]

Table == [Ids -> Row \cup {NoRow}]

\* id: the row to update, 0 for a new one.  snap: the rows the statements will
\* lock, as the snapshot has them.
Txn == [id : Ids \cup {0}, new : Row, snap : Table]

----------------------------------------------------------------------------
(***************************************************************************)
(* What the requests compute.                                              *)
(***************************************************************************)
\* A bare address gets brackets.
NormalizeNexthop(n) ==
  IF n.host \in IPs /\ ~n.bracketed /\ n.port = NoPort
  THEN [n EXCEPT !.bracketed = TRUE]
  ELSE n

\* "[host]" and "[host]:port" give "host"; "host:port" stays.
StripBrackets(n) ==
  IF n.bracketed THEN [n EXCEPT !.bracketed = FALSE, !.port = NoPort] ELSE n

\* Two next hops are one to SQL.
SameInSql(n, m) == [n EXCEPT !.host = Fold[@]] = [m EXCEPT !.host = Fold[@]]

\* Seeded fault: user names are not compared.
ConflictsOfDestination(r, excluded) ==
  \E i \in Ids \ {excluded} : rows[i] # NoRow /\ rows[i].destination = r.destination

\* Seeded fault: destinations are not compared.
ConflictsOfUsername(r, excluded) ==
  \E i \in Ids \ {excluded} :
    /\ rows[i] # NoRow /\ StripBrackets(rows[i].nexthop) = StripBrackets(r.nexthop)
    /\ rows[i].username # r.username

Conflicts(r, excluded) ==
  \E i \in Ids \ {excluded} :
    /\ rows[i] # NoRow
    /\ \/ rows[i].destination = r.destination
       \/ /\ \/ rows[i].nexthop = r.nexthop
             \/ StripBrackets(rows[i].nexthop) = StripBrackets(r.nexthop)
          /\ rows[i].username # r.username

\* Seeded fault: only the user name is copied.
SyncUsernames(table, r) ==
  [i \in Ids |->
     IF table[i] # NoRow /\ SameInSql(table[i].nexthop, r.nexthop)
     THEN [table[i] EXCEPT !.username = r.username]
     ELSE table[i]]

SyncNexthopCredentials(table, r) ==
  [i \in Ids |->
     IF table[i] # NoRow /\ SameInSql(table[i].nexthop, r.nexthop)
     THEN [table[i] EXCEPT !.username = r.username, !.password = r.password]
     ELSE table[i]]

\* The rows that the statements of a request lock, of a table.
Locked(i, id, n) == rows[i] # NoRow /\ (i = id \/ SameInSql(rows[i].nexthop, n))

\* What _validate_destination() passes.
Valid(r) == <<r.destination, r.mx>> \in Accepted

\* Seeded fault: the destination is not validated.
BeginUnvalidated(w, id, r) ==
  /\ txn[w] = NoTxn
  /\ ~Conflicts(r, id)
  /\ txn' = [txn EXCEPT ![w] =
       [id |-> id, new |-> r,
        snap |-> [i \in Ids |-> IF Locked(i, id, r.nexthop) THEN rows[i] ELSE NoRow]]]
  /\ UNCHANGED <<rows, lastId, applied>>

Begin(w, id, r) ==
  /\ txn[w] = NoTxn
  /\ Valid(r)
  /\ ~Conflicts(r, id)
  /\ txn' = [txn EXCEPT ![w] =
       [id |-> id, new |-> r,
        snap |-> [i \in Ids |-> IF Locked(i, id, r.nexthop) THEN rows[i] ELSE NoRow]]]
  /\ UNCHANGED <<rows, lastId, applied>>

\* MariaDB grants the locks of w's statements.
Granted(w) ==
  \A i \in Ids : Locked(i, txn[w].id, txn[w].new.nexthop) => rows[i] = txn[w].snap[i]

----------------------------------------------------------------------------
(***************************************************************************)
(* The requests.                                                           *)
(***************************************************************************)
CreateTransport(w, r) == Begin(w, 0, [r EXCEPT !.nexthop = NormalizeNexthop(@)])

\* The INSERT, the UPDATE of the next hop, the commit.
CreateTransportCommit(w) ==
  LET t == txn[w] IN
  /\ t # NoTxn /\ t.id = 0
  /\ Granted(w)
  /\ lastId < MaxTransports
  /\ lastId' = lastId + 1
  /\ rows' = SyncNexthopCredentials([rows EXCEPT ![lastId'] = t.new], t.new)
  /\ txn' = [txn EXCEPT ![w] = NoTxn]
  /\ UNCHANGED applied

\* What a request leaves out keeps its value, so r is the row it asks for.  An
\* empty user name clears the password.
UpdateTransport(w, id, r) ==
  /\ rows[id] # NoRow
  /\ Begin(w, id, [r EXCEPT !.nexthop = NormalizeNexthop(@),
                            !.password = IF r.username = Empty THEN Empty ELSE @])

\* The session does not autoflush: the UPDATE of the next hop runs first, on the rows
\* as they were, and makes the session forget the credentials assigned to the
\* object.  What else was assigned is written with the commit.
UpdateTransportCommit(w) ==
  LET t == txn[w]
      synced == SyncNexthopCredentials(rows, t.new)
      own == [t.new EXCEPT !.username = synced[t.id].username,
                           !.password = synced[t.id].password]
  IN
  /\ t # NoTxn /\ t.id # 0
  /\ rows[t.id] # NoRow
  /\ Granted(w)
  /\ rows' = [synced EXCEPT ![t.id] = own]
  /\ applied' = (applied /\ own = t.new)
  /\ txn' = [txn EXCEPT ![w] = NoTxn]
  /\ UNCHANGED lastId

\* One step: no SELECT comes before the DELETE.
DeleteTransport(w, id) ==
  /\ txn[w] = NoTxn
  /\ rows[id] # NoRow
  /\ rows' = [rows EXCEPT ![id] = NoRow]
  /\ UNCHANGED <<lastId, txn, applied>>

\* A statement or the commit raises: a lock refused, a deadlock, a lost connection.
Rollback(w) ==
  /\ txn[w] # NoTxn
  /\ txn' = [txn EXCEPT ![w] = NoTxn]
  /\ UNCHANGED <<rows, lastId, applied>>

----------------------------------------------------------------------------
Init ==
  /\ rows = [i \in Ids |-> NoRow]
  /\ lastId = 0
  /\ txn = [w \in Workers |-> NoTxn]
  /\ applied = TRUE

Next == \E w \in Workers :
  \/ \E r \in Requests : CreateTransport(w, r)
  \/ CreateTransportCommit(w)
  \/ \E id \in Ids, r \in Requests : UpdateTransport(w, id, r)
  \/ UpdateTransportCommit(w)
  \/ \E id \in Ids : DeleteTransport(w, id)
  \/ Rollback(w)

Spec == Init /\ [][Next]_vars

----------------------------------------------------------------------------
(***************************************************************************)
(* Properties.                                                             *)
(***************************************************************************)
\* Type correctness, and every transport has a destination that
\* _validate_destination() passes.
TypeOK ==
  /\ rows \in Table
  /\ lastId \in 0..MaxTransports
  /\ txn \in [Workers -> Txn \cup {NoTxn}]
  /\ applied \in BOOLEAN
  /\ \A i \in Ids : rows[i] # NoRow => Valid(rows[i])
  /\ \A w \in Workers : txn[w] # NoTxn => Valid(txn[w].new)

\* "Postfix requires identical credentials per nexthop": its lookup takes any row
\* of the next hop, in whatever case it is written, and all of them give the same
\* answer, whatever requests run beside _sync_nexthop_credentials().  An update that
\* moves a transport to another next hop and gives it other credentials breaks that:
\* they are dropped.
SameCredentials ==
  applied => \A i, j \in Ids :
    rows[i] # NoRow /\ rows[j] # NoRow /\ SameInSql(rows[i].nexthop, rows[j].nexthop)
      => rows[i].username = rows[j].username /\ rows[i].password = rows[j].password

\* The user name of transport i changes in a step.
Renamed(i) ==
  rows[i] # NoRow /\ rows'[i] # NoRow /\ rows'[i].username # rows[i].username

\* The UPDATE of _sync_nexthop_credentials() never gives another transport a user
\* name that _check_conflicts() did not see there, whatever was committed since,
\* but where Python and SQL disagree: the request renames the user of its own
\* transport, and of those whose next hop differs from its own in case alone.
OthersKeepUsername ==
  [][\A w \in Workers, i \in Ids :
       txn[w] # NoTxn /\ txn'[w] = NoTxn /\ i # txn[w].id /\ Renamed(i) =>
         /\ rows[i].nexthop # txn[w].new.nexthop
         /\ SameInSql(rows[i].nexthop, txn[w].new.nexthop)]_vars

\* The transports of a destination.
TransportsOf(d) == {i \in Ids : rows[i] # NoRow /\ rows[i].destination = d}

\* No index is unique and _check_conflicts() reads a snapshot, so that requests at
\* the same time may each give a destination a transport.  But each finds none
\* before it adds one, and keeps its own where it is: there are never more of them
\* than requests that the API serves at a time, however many it has served.
DuplicatesBounded ==
  \A d \in {a[1] : a \in Accepted} : Cardinality(TransportsOf(d)) <= Cardinality(Workers)
=============================================================================
