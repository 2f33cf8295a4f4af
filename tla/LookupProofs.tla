---------------------------- MODULE LookupProofs ----------------------------
(***************************************************************************)
(* Proofs about what the mail servers look up: RelayHosts and Socketmap    *)
(* for any domains, mailboxes, threads, relay hosts and connections; the   *)
(* hashes of ForwardingHosts for any hosts; and Aliasexp for any tables.   *)
(***************************************************************************)
EXTENDS Socketmap, ForwardingHosts, Aliasexp, FiniteSetTheorems, NaturalsInduction,
        WellFoundedInduction, TLAPS

(***************************************************************************)
(* The invariant of delete_relayhost().                                    *)
(***************************************************************************)
\* One request at a time has locked table domain, and so user_attributes.
OneLocks ==
  \A v, w \in Workers : deleting[v].done >= 2 /\ deleting[w].done >= 2 => v = w

\* What the statements wrote is still all that refers to the row.
WrittenInv ==
  \A w \in Workers :
    /\ deleting[w].done >= 2 => deleting[w].domains = {d \in Domains : domainRef[d] = deleting[w].id}
    /\ deleting[w].done = 3 => deleting[w].users = {u \in Users : userRef[u] = deleting[w].id}

RelayInv == RelayTypeOK /\ OneLocks /\ WrittenInv

(***************************************************************************)
(* The invariant of the connections.                                       *)
(***************************************************************************)
Snapshots == [Domains -> {"OK", "NOTFOUND"}] \cup {NoSnapshot}
Answers == {<<>>} \cup (Requests \X {"OK", "NOTFOUND", "PERM"})

Connection ==
  [open : BOOLEAN, peer : BOOLEAN, request : Requests \cup {None}, answer : Answers,
   snapshot : Snapshots]

\* A peer, a request or a snapshot belongs to an open connection.
InUse(k) == k.peer \/ k.request # None \/ k.snapshot # NoSnapshot => k.open

ConnInv ==
  /\ loop \in Clients \cup {Free}
  /\ conn \in [Clients -> Connection]
  /\ \A c \in Clients : InUse(conn[c])

SocketmapInv == RelayInv /\ ConnInv

----------------------------------------------------------------------------
(***************************************************************************)
(* delete_relayhost().                                                     *)
(***************************************************************************)
\* What a worker has on record.
Record == [id : Ids, done : 1..3, domains : SUBSET Domains, users : SUBSET Users]

\* Nothing, or the request it serves.
LEMMA RecordFacts ==
  ASSUME NEW t \in {Idle} \cup Record
  PROVE  /\ t.done \in 0..3 /\ t.id \in Ids \cup {0} /\ (t.done > 0 => t \in Record)
         /\ t.domains \in SUBSET Domains /\ t.users \in SUBSET Users
  <1>1. CASE t = Idle
    BY <1>1 DEF Idle
  <1>2. CASE t \in Record
    BY <1>2 DEF Record
  <1> QED BY <1>1, <1>2

\* The type of variable deleting.
LEMMA DeletingType ==
  /\ RelayTypeOK => deleting \in [Workers -> {Idle} \cup Record]
  /\ RelayTypeOK' => deleting' \in [Workers -> {Idle} \cup Record]
  BY DEF RelayTypeOK, Record, Idle, Ids

\* Initially nobody deletes anything.
LEMMA RelayInvInit == RelayInit => RelayInv
  <1> SUFFICES ASSUME RelayInit PROVE RelayInv
    OBVIOUS
  <1>1. RelayTypeOK
    BY RelayHostsAssumption DEF RelayInit, RelayTypeOK, Ids
  <1>2. \A w \in Workers : deleting[w].done = 0
    BY DEF RelayInit, Idle
  <1> QED BY <1>1, <1>2 DEF RelayInv, OneLocks, WrittenInv

\* Steps that only change the rows of relay hosts.
LEMMA RowStep ==
  ASSUME RelayInv, RelayTypeOK', UNCHANGED <<domainRef, userRef, deleting>>
  PROVE  RelayInv'
  BY DEF RelayInv, OneLocks, WrittenInv

\* A worker that ends, or that has locked no table yet, while the references
\* change no more than those it has written.
LEMMA WorkerStep ==
  ASSUME RelayInv, NEW w \in Workers, RelayTypeOK', UNCHANGED <<domainRef, userRef>>,
         \A v \in Workers : v # w => deleting'[v] = deleting[v], deleting'[w].done < 2
  PROVE  RelayInv'
  <1>0. deleting'[w].done \in 0..3 /\ ~ (deleting'[w].done >= 2)
    BY DeletingType, RecordFacts
  <1>1. OneLocks'
    BY <1>0 DEF RelayInv, OneLocks
  <1>2. WrittenInv'
    <2> SUFFICES ASSUME NEW v \in Workers
        PROVE /\ deleting'[v].done >= 2 => deleting'[v].domains = {d \in Domains : domainRef'[d] = deleting'[v].id}
              /\ deleting'[v].done = 3 => deleting'[v].users = {u \in Users : userRef'[u] = deleting'[v].id}
      BY DEF WrittenInv
    <2>1. CASE v = w
      <3>1. deleting'[w].done # 3
        BY <1>0
      <3> QED BY <1>0, <2>1, <3>1
    <2>2. CASE v # w
      BY <2>2 DEF RelayInv, WrittenInv
    <2> QED BY <2>1, <2>2
  <1> QED BY <1>1, <1>2 DEF RelayInv
\* A worker locks table domain, or user_attributes, and writes what refers to its row.
LEMMA LockStep ==
  ASSUME RelayInv, NEW w \in Workers, ClearDomains(w) \/ ClearUsers(w)
  PROVE  RelayInv'
  <1> DEFINE t == deleting[w]
             doms == {d \in Domains : domainRef[d] = t.id}
             usrs == {u \in Users : userRef[u] = t.id}
  <1>1. deleting \in [Workers -> {Idle} \cup Record]
    BY DeletingType DEF RelayInv
  <1>2. UNCHANGED <<relayhosts, lastId, active, domainRef, userRef>>
    BY DEF ClearDomains, ClearUsers
  <1>3. t.done \in 0..3 /\ (t.done > 0 => t \in Record)
    BY <1>1, RecordFacts
  <1>4. \E new \in Record :
          /\ deleting' = [deleting EXCEPT ![w] = new]
          /\ new.id = t.id /\ new.domains = doms /\ new.done \in {2, 3}
          /\ new.done = 3 => new.users = usrs
    <2>1. CASE ClearDomains(w)
      <3>1. t.done = 1 /\ deleting' = [deleting EXCEPT ![w] = [t EXCEPT !.done = 2, !.domains = doms]]
        BY <1>1, <2>1 DEF ClearDomains
      <3>2. t \in Record /\ doms \in SUBSET Domains
        BY <1>3, <3>1
      <3> HIDE DEF t, doms
      <3> DEFINE new == [t EXCEPT !.done = 2, !.domains = doms]
      <3>3. 2 \in 1..3
        OBVIOUS
      <3>4. new \in Record /\ new.id = t.id /\ new.domains = doms /\ new.done = 2
        BY <3>2, <3>3 DEF Record
      <3> HIDE DEF new
      <3>5. deleting' = [deleting EXCEPT ![w] = new]
        BY <3>1 DEF new
      <3>6. new.done \in {2, 3} /\ new.done # 3
        BY <3>4
      <3> QED BY <3>4, <3>5, <3>6
    <2>2. CASE ClearUsers(w)
      <3>1. t.done = 2 /\ deleting' = [deleting EXCEPT ![w] = [t EXCEPT !.done = 3, !.users = usrs]]
        BY <1>1, <2>2 DEF ClearUsers
      <3>2. t \in Record /\ usrs \in SUBSET Users /\ t.domains = doms
        BY <1>3, <3>1 DEF RelayInv, WrittenInv
      <3> HIDE DEF t, doms, usrs
      <3> DEFINE new == [t EXCEPT !.done = 3, !.users = usrs]
      <3>3. 3 \in 1..3
        OBVIOUS
      <3>4. new \in Record /\ new.id = t.id /\ new.domains = doms /\ new.done = 3 /\ new.users = usrs
        BY <3>2, <3>3 DEF Record
      <3> HIDE DEF new
      <3>5. deleting' = [deleting EXCEPT ![w] = new]
        BY <3>1 DEF new
      <3> QED BY <3>4, <3>5
    <2> QED BY <2>1, <2>2
  <1>5. PICK new \in Record :
          /\ deleting' = [deleting EXCEPT ![w] = new]
          /\ new.id = t.id /\ new.domains = doms /\ new.done \in {2, 3}
          /\ new.done = 3 => new.users = usrs
    BY <1>4
  <1>6. deleting' \in [Workers -> {Idle} \cup Record] /\ deleting'[w] = new
        /\ \A v \in Workers : v # w => deleting'[v] = deleting[v]
    BY <1>1, <1>5
  <1>7. RelayTypeOK'
    BY <1>2, <1>6 DEF RelayInv, RelayTypeOK, Record
  <1>8. \A v \in Workers : v # w => ~ (deleting[v].done >= 2)
    BY DEF ClearDomains, ClearUsers, DomainsLocked, RelayInv, OneLocks
  <1>9. OneLocks'
    BY <1>6, <1>8 DEF OneLocks
  <1>10. WrittenInv'
    <2> SUFFICES ASSUME NEW v \in Workers
        PROVE /\ deleting'[v].done >= 2 => deleting'[v].domains = {d \in Domains : domainRef'[d] = deleting'[v].id}
              /\ deleting'[v].done = 3 => deleting'[v].users = {u \in Users : userRef'[u] = deleting'[v].id}
      BY DEF WrittenInv
    <2>1. CASE v = w
      BY <1>2, <1>5, <1>6, <2>1
    <2>2. CASE v # w
      BY <1>2, <1>6, <2>2 DEF RelayInv, WrittenInv
    <2> QED BY <2>1, <2>2
  <1> QED BY <1>7, <1>9, <1>10 DEF RelayInv

\* Only the worker that locked the tables commits, and nobody else has written.
LEMMA CommitStep ==
  ASSUME RelayInv, NEW w \in Workers, DeleteRelayhostCommit(w)
  PROVE  RelayInv'
  <1> DEFINE t == deleting[w]
  <1>1. deleting \in [Workers -> {Idle} \cup Record]
    BY DeletingType DEF RelayInv
  <1>2. /\ t.done = 3 /\ relayhosts' = [relayhosts EXCEPT ![t.id] = "absent"]
        /\ domainRef' = Cleared(domainRef, t.domains) /\ userRef' = Cleared(userRef, t.users)
        /\ deleting' = [deleting EXCEPT ![w] = Idle] /\ UNCHANGED <<lastId, active>>
    BY DEF DeleteRelayhostCommit
  <1>3. deleting' \in [Workers -> {Idle} \cup Record] /\ deleting'[w] = Idle
        /\ \A v \in Workers : v # w => deleting'[v] = deleting[v]
    BY <1>1, <1>2
  <1>4. RelayTypeOK'
    BY <1>2, <1>3 DEF RelayInv, RelayTypeOK, Record, Cleared
  <1>5. \A v \in Workers : v # w => ~ (deleting[v].done >= 2)
    BY <1>2 DEF RelayInv, OneLocks
  <1>6. \A v \in Workers : deleting'[v].done \in 0..3 /\ ~ (deleting'[v].done >= 2)
    BY <1>3, <1>5, RecordFacts DEF Idle
  <1> QED BY <1>4, <1>6 DEF RelayInv, OneLocks, WrittenInv

\* Every request keeps the invariant.
LEMMA RelayStep ==
  ASSUME RelayInv, RelayNext
  PROVE  RelayInv'
  <1>1. deleting \in [Workers -> {Idle} \cup Record] /\ RelayTypeOK
    BY DeletingType DEF RelayInv
  <1>2. CASE CreateRelayhost
    <2>1. RelayTypeOK'
      BY <1>1, <1>2, RelayHostsAssumption DEF CreateRelayhost, RelayTypeOK, Ids
    <2> QED BY <1>2, <2>1, RowStep DEF CreateRelayhost
  <1>3. ASSUME NEW id \in Ids, UpdateRelayhost(id) PROVE RelayInv'
    <2>1. RelayTypeOK'
      BY <1>1, <1>3 DEF UpdateRelayhost, RelayTypeOK
    <2> QED BY <1>3, <2>1, RowStep DEF UpdateRelayhost
  <1>4. ASSUME NEW w \in Workers, NEW id \in Ids, DeleteRelayhost(w, id) PROVE RelayInv'
    <2> DEFINE new == [Idle EXCEPT !.id = id, !.done = 1]
    <2>1. new \in Record /\ new.done = 1
      <3>1. 1 \in 1..3
        OBVIOUS
      <3>2. Idle \in [id : {0}, done : {0}, domains : SUBSET Domains, users : SUBSET Users]
        BY DEF Idle
      <3> QED BY <3>1, <3>2 DEF Record
    <2>2. deleting' = [deleting EXCEPT ![w] = new] /\ UNCHANGED <<relayhosts, lastId, active, domainRef, userRef>>
      BY <1>4 DEF DeleteRelayhost
    <2> HIDE DEF new
    <2>3. deleting' \in [Workers -> {Idle} \cup Record] /\ deleting'[w] = new
          /\ \A v \in Workers : v # w => deleting'[v] = deleting[v]
      BY <1>1, <2>1, <2>2
    <2>4. RelayTypeOK'
      BY <1>1, <2>2, <2>3 DEF RelayTypeOK, Record
    <2> QED BY <2>1, <2>2, <2>3, <2>4, WorkerStep
  <1>5. ASSUME NEW w \in Workers, DeleteRelayhostRollback(w) PROVE RelayInv'
    <2>1. deleting' = [deleting EXCEPT ![w] = Idle] /\ UNCHANGED <<relayhosts, lastId, active, domainRef, userRef>>
      BY <1>5 DEF DeleteRelayhostRollback
    <2>2. deleting' \in [Workers -> {Idle} \cup Record] /\ deleting'[w] = Idle
          /\ \A v \in Workers : v # w => deleting'[v] = deleting[v]
      BY <1>1, <2>1
    <2>3. RelayTypeOK'
      BY <1>1, <2>1, <2>2 DEF RelayTypeOK, Record
    <2>4. deleting'[w].done < 2
      BY <2>2 DEF Idle
    <2> QED BY <2>1, <2>2, <2>3, <2>4, WorkerStep
  <1>6. ASSUME NEW d \in Domains, NEW on \in BOOLEAN, NEW id \in Ids \cup {0}, WriteDomain(d, on, id)
        PROVE  RelayInv'
    <2>1. RelayTypeOK'
      BY <1>1, <1>6 DEF WriteDomain, RelayTypeOK
    <2>2. \A w \in Workers : deleting[w].done \in 0..3 /\ ~ (deleting[w].done >= 2)
      BY <1>1, <1>6, RecordFacts DEF WriteDomain, DomainsLocked
    <2>3. deleting' = deleting
      BY <1>6 DEF WriteDomain
    <2> QED BY <2>1, <2>2, <2>3 DEF RelayInv, OneLocks, WrittenInv
  <1>7. ASSUME NEW u \in Users, NEW id \in Ids \cup {0}, WriteMailbox(u, id) PROVE RelayInv'
    <2>1. RelayTypeOK'
      BY <1>1, <1>7 DEF WriteMailbox, RelayTypeOK
    <2>2. \A w \in Workers : ~ (deleting[w].done = 3)
      BY <1>7 DEF WriteMailbox, UsersLocked
    <2>3. UNCHANGED <<deleting, domainRef>>
      BY <1>7 DEF WriteMailbox
    <2> QED BY <2>1, <2>2, <2>3 DEF RelayInv, OneLocks, WrittenInv
  <1> QED BY <1>2, <1>3, <1>4, <1>5, <1>6, <1>7, LockStep, CommitStep DEF RelayNext

\* A request makes nothing dangle but with a reference it writes itself.
LEMMA NothingDangles ==
  ASSUME RelayInv, RelayNext
  PROVE  /\ \A d \in Domains : ~BecomesDangling(domainRef[d], domainRef'[d])
         /\ \A u \in Users : ~BecomesDangling(userRef[u], userRef'[u])
  <1>1. ASSUME NEW id \in Ids, Present(id), relayhosts'[id] = "absent"
        PROVE  /\ \A d \in Domains : ~ (domainRef[d] = id /\ domainRef'[d] = id)
               /\ \A u \in Users : ~ (userRef[u] = id /\ userRef'[u] = id)
    <2>1. \E w \in Workers : DeleteRelayhostCommit(w)
      <3>1. relayhosts \in [Ids -> {"absent", "active", "inactive"}]
        BY DEF RelayInv, RelayTypeOK
      <3>2. relayhosts' # relayhosts
        BY <1>1 DEF Present
      <3>3. ~ CreateRelayhost
        <4> SUFFICES ASSUME CreateRelayhost PROVE FALSE
          OBVIOUS
        <4>1. PICK x \in {"active", "inactive"} : relayhosts' = [relayhosts EXCEPT ![lastId'] = x]
          BY DEF CreateRelayhost
        <4> QED BY <1>1, <3>1, <4>1 DEF Present
      <3>4. \A i \in Ids : ~ UpdateRelayhost(i)
        BY <1>1, <3>1 DEF UpdateRelayhost, Present
      <3>5. \A w \in Workers : \A i \in Ids : ~ DeleteRelayhost(w, i)
        BY <3>2 DEF DeleteRelayhost
      <3>6. \A w \in Workers : ~ ClearDomains(w) /\ ~ ClearUsers(w) /\ ~ DeleteRelayhostRollback(w)
        BY <3>2 DEF ClearDomains, ClearUsers, DeleteRelayhostRollback
      <3>7. \A d \in Domains, on \in BOOLEAN, i \in Ids \cup {0} : ~ WriteDomain(d, on, i)
        BY <3>2 DEF WriteDomain
      <3>8. \A u \in Users, i \in Ids \cup {0} : ~ WriteMailbox(u, i)
        BY <3>2 DEF WriteMailbox
      <3> QED BY <3>3, <3>4, <3>5, <3>6, <3>7, <3>8 DEF RelayNext
    <2>2. PICK w \in Workers : DeleteRelayhostCommit(w)
      BY <2>1
    <2> DEFINE t == deleting[w]
    <2>3. /\ t.done = 3 /\ relayhosts' = [relayhosts EXCEPT ![t.id] = "absent"]
          /\ domainRef' = Cleared(domainRef, t.domains) /\ userRef' = Cleared(userRef, t.users)
      BY <2>2 DEF DeleteRelayhostCommit
    <2>4. id = t.id
      BY <1>1, <2>3 DEF RelayInv, RelayTypeOK, Present
    <2>5. /\ t.domains = {d \in Domains : domainRef[d] = t.id}
          /\ t.users = {u \in Users : userRef[u] = t.id}
      BY <2>3 DEF RelayInv, WrittenInv
    <2>6. DOMAIN domainRef = Domains /\ DOMAIN userRef = Users
      BY DEF RelayInv, RelayTypeOK
    <2>7. id # 0
      BY <1>1, RelayHostsAssumption DEF Ids
    <2> HIDE DEF t
    <2> QED BY <2>3, <2>4, <2>5, <2>6, <2>7 DEF Cleared
  <1> QED BY <1>1 DEF BecomesDangling

----------------------------------------------------------------------------
(***************************************************************************)
(* The connections.                                                        *)
(***************************************************************************)
\* A closed connection, and what the tables say to a new session.
LEMMA ConnFacts ==
  /\ Closed \in Connection /\ InUse(Closed)
  /\ RelayTypeOK => Table \in [Domains -> {"OK", "NOTFOUND"}]
  <1>1. Closed \in Connection
    BY DEF Closed, Connection, Answers, Snapshots
  <1>2. InUse(Closed)
    BY DEF Closed, InUse
  <1>3. RelayTypeOK => Table \in [Domains -> {"OK", "NOTFOUND"}]
    BY DEF RelayTypeOK, Table, Said
  <1> QED BY <1>1, <1>2, <1>3

\* A step that gives one client another connection, or none.
LEMMA OneConn ==
  ASSUME ConnInv, NEW c \in Clients, NEW k \in Connection, InUse(k),
         conn' = [conn EXCEPT ![c] = k], loop' \in Clients \cup {Free}
  PROVE  ConnInv'
  <1>1. conn' \in [Clients -> Connection]
    BY DEF ConnInv
  <1>2. \A b \in Clients : InUse(conn'[b])
    BY DEF ConnInv
  <1> QED BY <1>1, <1>2 DEF ConnInv, InUse

\* The connection of a client.
LEMMA ConnOf ==
  ASSUME ConnInv, NEW c \in Clients
  PROVE  conn[c] \in Connection /\ InUse(conn[c])
  BY DEF ConnInv

\* A handler's answer is one, and leaves the connection open.
LEMMA AnswerStep ==
  ASSUME ConnInv, NEW c \in Clients, NEW a \in Answers, NEW s \in Snapshots, Answer(c, a, s),
         conn[c].request # None, loop' = loop
  PROVE  ConnInv'
  <1> DEFINE k == conn[c]
             b == IF k.peer THEN a ELSE <<>>
             n == [k EXCEPT !.request = None, !.snapshot = s, !.answer = b]
  <1>1. k \in Connection /\ InUse(k) /\ k.open
    BY ConnOf DEF InUse
  <1>2. conn' = [conn EXCEPT ![c] = n]
    BY DEF Answer, ConnInv
  <1>3. b \in Answers
    BY DEF Answers
  <1> HIDE DEF k, b
  <1>4. n \in Connection /\ n.open
    BY <1>1, <1>3 DEF Connection
  <1>5. InUse(n)
    BY <1>4 DEF InUse
  <1> HIDE DEF n
  <1>6. loop' \in Clients \cup {Free}
    BY DEF ConnInv
  <1> QED BY <1>2, <1>4, <1>5, <1>6, OneConn

\* A lookup in a snapshot.
LEMMA LookupStep ==
  ASSUME ConnInv, NEW c \in Clients, conn[c].request \in Domains,
         NEW s \in [Domains -> {"OK", "NOTFOUND"}], LookupRelayDomain(c, s), loop' = loop
  PROVE  ConnInv'
  <1> DEFINE a == <<conn[c].request, s[conn[c].request]>>
  <1>1. conn[c].request # None
    BY SocketmapAssumption
  <1>2. a \in Answers /\ s \in Snapshots
    BY DEF Answers, Snapshots, Requests
  <1>3. Answer(c, a, s)
    BY DEF LookupRelayDomain
  <1> HIDE DEF a
  <1> QED BY <1>1, <1>2, <1>3, AnswerStep

\* What Postfix and the handlers do to a connection.
LEMMA ClientStep ==
  ASSUME SocketmapInv, NEW c \in Clients,
         \/ Connect(c) \/ Hangup(c) \/ Handle(c) \/ PoolTimeout(c)
         \/ \E r \in Requests : Send(c, r)
  PROVE  ConnInv'
  <1> DEFINE k == conn[c]
  <1>1. ConnInv /\ RelayTypeOK /\ k \in Connection /\ InUse(k) /\ loop \in Clients \cup {Free}
    BY ConnOf DEF SocketmapInv, RelayInv, ConnInv
  <1>2. ASSUME CloseConnection(c), loop' \in {loop, Free} PROVE ConnInv'
    <2>1. conn' = [conn EXCEPT ![c] = Closed] /\ loop' \in Clients \cup {Free}
      BY <1>1, <1>2 DEF CloseConnection
    <2> QED BY <1>1, <2>1, ConnFacts, OneConn
  <1>3. CASE Connect(c)
    <2> DEFINE n == [Closed EXCEPT !.open = TRUE, !.peer = TRUE]
    <2>1. conn' = [conn EXCEPT ![c] = n] /\ loop' = loop
      BY <1>3 DEF Connect
    <2>2. n \in Connection /\ n.open
      BY ConnFacts DEF Connection
    <2>3. InUse(n)
      BY <2>2 DEF InUse
    <2> HIDE DEF n
    <2> QED BY <1>1, <2>1, <2>2, <2>3, OneConn
  <1>4. CASE Hangup(c)
    <2> DEFINE n == [k EXCEPT !.peer = FALSE, !.answer = <<>>]
    <2>1. conn' = [conn EXCEPT ![c] = n] /\ loop' = loop /\ k.peer
      BY <1>1, <1>4 DEF Hangup, ConnInv
    <2>2. k.open
      BY <1>1, <2>1 DEF InUse
    <2>3. <<>> \in Answers
      BY DEF Answers
    <2> HIDE DEF k
    <2>4. n \in Connection /\ n.open
      BY <1>1, <2>2, <2>3 DEF Connection
    <2>5. InUse(n)
      BY <2>4 DEF InUse
    <2> HIDE DEF n
    <2> QED BY <1>1, <2>1, <2>4, <2>5, OneConn
  <1>5. ASSUME NEW r \in Requests, Send(c, r) PROVE ConnInv'
    <2> DEFINE n == [k EXCEPT !.request = r, !.answer = <<>>]
    <2>1. conn' = [conn EXCEPT ![c] = n] /\ loop' = loop /\ k.peer
      BY <1>1, <1>5 DEF Send, ConnInv
    <2>2. k.open
      BY <1>1, <2>1 DEF InUse
    <2>3. <<>> \in Answers
      BY DEF Answers
    <2> HIDE DEF k
    <2>4. n \in Connection /\ n.open
      BY <1>1, <2>2, <2>3 DEF Connection
    <2>5. InUse(n)
      BY <2>4 DEF InUse
    <2> HIDE DEF n
    <2> QED BY <1>1, <2>1, <2>4, <2>5, OneConn
  <1>6. CASE HandleUnknown(c)
    <2> DEFINE a == <<Unknown, "PERM">>
    <2>1. k.request # None /\ Answer(c, a, k.snapshot) /\ loop' = loop
      BY <1>6 DEF HandleUnknown, None, Unknown
    <2>2. a \in Answers /\ k.snapshot \in Snapshots
      BY <1>1 DEF Answers, Requests, Connection
    <2> HIDE DEF a
    <2> QED BY <1>1, <2>1, <2>2, AnswerStep
  <1>7. CASE HandleLookup(c)
    <2>1. k.request \in Domains /\ loop' = loop
      BY <1>7 DEF HandleLookup
    <2>2. CASE c \in Holders /\ LookupRelayDomain(c, k.snapshot)
      <3>1. k.snapshot \in [Domains -> {"OK", "NOTFOUND"}]
        BY <1>1, <2>2 DEF Holders, Connection, Snapshots
      <3> QED BY <1>1, <2>1, <2>2, <3>1, LookupStep
    <2>3. CASE LookupRelayDomain(c, Table)
      BY <1>1, <2>1, <2>3, ConnFacts, LookupStep
    <2> QED BY <1>7, <2>2, <2>3 DEF HandleLookup
  <1>8. CASE WaitForPool(c)
    BY <1>1, <1>8 DEF WaitForPool, ConnInv, InUse
  <1>9. CASE HandleMalformed(c) \/ LookupRaises(c) \/ EndOfStream(c) \/ PoolTimeout(c)
    BY <1>2, <1>9 DEF HandleMalformed, LookupRaises, EndOfStream, PoolTimeout
  <1> QED BY <1>3, <1>4, <1>5, <1>6, <1>7, <1>8, <1>9 DEF Handle

----------------------------------------------------------------------------
\* Initially there are no connections.
LEMMA SocketmapInit == Init => SocketmapInv
  <1> SUFFICES ASSUME Init PROVE SocketmapInv
    OBVIOUS
  <1>1. RelayInv
    BY RelayInvInit DEF Init
  <1>2. ConnInv
    BY ConnFacts DEF Init, ConnInv
  <1> QED BY <1>1, <1>2 DEF SocketmapInv

\* A step of the API leaves the connections alone, any other one the tables.
LEMMA EitherSide ==
  ASSUME [Next]_vars
  PROVE  \/ RelayNext /\ UNCHANGED <<conn, loop>>
         \/ UNCHANGED relayVars /\ \E c \in Clients :
              \/ Connect(c) \/ Hangup(c) \/ Handle(c) \/ PoolTimeout(c)
              \/ \E r \in Requests : Send(c, r)
         \/ UNCHANGED relayVars /\ UNCHANGED <<conn, loop>>
  <1>1. ASSUME NEW c \in Clients,
               \/ Connect(c) \/ Hangup(c) \/ Handle(c) \/ PoolTimeout(c)
               \/ \E r \in Requests : Send(c, r)
        PROVE  UNCHANGED relayVars
    BY <1>1 DEF Connect, Hangup, Handle, PoolTimeout, Send, HandleUnknown, HandleMalformed,
       HandleLookup, LookupRaises, WaitForPool, EndOfStream
  <1> QED BY <1>1 DEF Next, Api, vars

\* Every step keeps the invariant.
LEMMA SocketmapStep == SocketmapInv /\ [Next]_vars => SocketmapInv'
  <1> SUFFICES ASSUME SocketmapInv, [Next]_vars PROVE SocketmapInv'
    OBVIOUS
  <1>1. RelayInv'
    <2>1. CASE RelayNext
      BY <2>1, RelayStep DEF SocketmapInv
    <2>2. CASE UNCHANGED relayVars
      BY <2>2 DEF relayVars, SocketmapInv, RelayInv, RelayTypeOK, OneLocks, WrittenInv
    <2> QED BY <2>1, <2>2, EitherSide
  <1>2. ConnInv'
    <2>1. CASE UNCHANGED <<conn, loop>>
      BY <2>1 DEF SocketmapInv, ConnInv, InUse
    <2> QED BY <2>1, EitherSide, ClientStep
  <1> QED BY <1>1, <1>2 DEF SocketmapInv

\* The invariant holds throughout.
LEMMA SocketmapAlways == Spec => []SocketmapInv
  BY SocketmapInit, SocketmapStep, PTL DEF Spec

\* Type correctness, with the relation of the parts of a connection: whatever
\* Postfix, the pool and the API do, no closed connection has a peer, a request
\* or a database session.
THEOREM TypeCorrect == Spec => []TypeOK
  <1>1. SocketmapInv => TypeOK
    <2> SUFFICES ASSUME SocketmapInv PROVE TypeOK
      OBVIOUS
    <2>1. RelayTypeOK /\ loop \in Clients \cup {Free}
      BY DEF SocketmapInv, RelayInv, ConnInv
    <2>2. ASSUME NEW c \in Clients
          PROVE  /\ conn[c].request \in Requests \cup {None}
                 /\ conn[c].peer \/ conn[c].request # None \/ c \in Holders => conn[c].open
                 /\ conn[c].snapshot \in [Domains -> {"OK", "NOTFOUND"}] \cup {NoSnapshot}
      <3>1. conn[c] \in Connection /\ InUse(conn[c])
        BY ConnOf DEF SocketmapInv
      <3> QED BY <3>1 DEF Connection, Snapshots, InUse, Holders
    <2> QED BY <2>1, <2>2 DEF TypeOK
  <1> QED BY <1>1, SocketmapAlways, PTL

\* Whatever requests point domains and mailboxes at relay hosts between the three
\* statements of delete_relayhost() and its commit, and however many of them run,
\* no reference to the deleted row stays.
THEOREM NoneLeftDanglingAlways == Spec => NoneLeftDangling
  <1>1. SocketmapInv /\ [Next]_vars =>
          [/\ \A d \in Domains : ~BecomesDangling(domainRef[d], domainRef'[d])
           /\ \A u \in Users : ~BecomesDangling(userRef[u], userRef'[u])]_relayVars
    <2> SUFFICES ASSUME SocketmapInv, [Next]_vars, ~ UNCHANGED relayVars
                 PROVE  /\ \A d \in Domains : ~BecomesDangling(domainRef[d], domainRef'[d])
                        /\ \A u \in Users : ~BecomesDangling(userRef[u], userRef'[u])
      OBVIOUS
    <2>1. RelayNext
      BY EitherSide
    <2> QED BY <2>1, NothingDangles DEF SocketmapInv
  <1> QED BY <1>1, SocketmapAlways, PTL DEF Spec, NoneLeftDangling

----------------------------------------------------------------------------
(***************************************************************************)
(* The forwarding hosts, for any hosts, zones and threads.                 *)
(***************************************************************************)

IsRequest(r) ==
  r = [outcome |-> r.outcome, todo |-> r.todo, current |-> r.current, disturbed |-> r.disturbed]

\* The hosts that a request may still write.
About(r) == r.todo \cup ({r.current} \ {NoHost})

\* Only a request that adds hosts has more than one.
FwdShape ==
  /\ request = [w \in Threads |-> request[w]]
  /\ \A w \in Threads :
       IsRequest(request[w]) /\ (request[w].todo # {} => request[w].outcome # "absent")
  /\ settled = [h \in Hosts |-> settled[h]]

\* Of two requests about a host each knows that it is not alone.
FwdMarked ==
  \A v, w \in Threads : v # w =>
    About(request[v]) \cap About(request[w]) \subseteq request[v].disturbed

\* A request that is alone with its host finds in WHITELISTED_FWD_HOST what it wrote.
FwdCurrent ==
  \A w \in Threads : LET h == request[w].current IN
    h \in Hosts /\ h \notin request[w].disturbed =>
      (h \in whitelisted <=> request[w].outcome # "absent")

Agree(h) ==
  /\ h \in whitelisted <=> settled[h] # "absent"
  /\ h \in keepSpam <=> settled[h] = "keep"

\* The hashes agree on a host that nobody is writing, in todo or not.
FwdSettled ==
  \A h \in Hosts :
    settled[h] # "unknown" /\ (\A w \in Threads : request[w].current # h) => Agree(h)

FwdInv == FwdShape /\ FwdMarked /\ FwdCurrent /\ FwdSettled

\* The fields of a record.
LEMMA RequestFields ==
  ASSUME NEW o, NEW t, NEW c, NEW d
  PROVE  LET r == [outcome |-> o, todo |-> t, current |-> c, disturbed |-> d]
         IN  IsRequest(r) /\ r.outcome = o /\ r.todo = t /\ r.current = c /\ r.disturbed = d
  BY DEF IsRequest

\* A request begins: it and the others about its hosts are marked.
LEMMA StartFacts ==
  ASSUME FwdShape, FwdMarked, NEW w \in Threads, request[w] = NoRequest,
         NEW o, NEW t, NEW c, (t # {}) => o # "absent", Start(w, o, t, c)
  PROVE  /\ request' = [v \in Threads |-> request'[v]]
         /\ \A v \in Threads :
              IsRequest(request'[v]) /\ (request'[v].todo # {} => request'[v].outcome # "absent")
         /\ FwdMarked'
         /\ request'[w].current = c /\ request'[w].outcome = o
         /\ \A v \in Threads \ {w} :
              /\ request'[v].current = request[v].current
              /\ request'[v].outcome = request[v].outcome
              /\ request[v].disturbed \subseteq request'[v].disturbed
              /\ request[v].current = c /\ c # NoHost => c \in request'[v].disturbed
  <1> DEFINE hosts == t \cup ({c} \ {NoHost})
             others == UNION {About(request[v]) : v \in Threads \ {w}}
             mine == [outcome |-> o, todo |-> t, current |-> c, disturbed |-> hosts \cap others]
             theirs(v) == [request[v] EXCEPT !.disturbed = @ \cup (About(request[v]) \cap hosts)]
  <1>1. request' = [v \in Threads |-> IF v = w THEN mine ELSE theirs(v)]
    BY DEF Start, Concerns, About
  <1>2. /\ IsRequest(mine) /\ mine.outcome = o /\ mine.todo = t /\ mine.current = c
        /\ mine.disturbed = hosts \cap others
    BY RequestFields
  <1>3. ASSUME NEW v \in Threads
        PROVE  /\ IsRequest(theirs(v)) /\ theirs(v).outcome = request[v].outcome
               /\ theirs(v).todo = request[v].todo /\ theirs(v).current = request[v].current
               /\ theirs(v).disturbed = request[v].disturbed \cup (About(request[v]) \cap hosts)
    <2> DEFINE r == request[v]
               d == r.disturbed \cup (About(r) \cap hosts)
    <2>1. r = [outcome |-> r.outcome, todo |-> r.todo, current |-> r.current,
               disturbed |-> r.disturbed]
      BY DEF FwdShape, IsRequest
    <2>2. theirs(v) = [outcome |-> r.outcome, todo |-> r.todo, current |-> r.current,
                       disturbed |-> d]
      <3>1. theirs(v) = [r EXCEPT !.disturbed = d]
        OBVIOUS
      <3> HIDE DEF r, d, theirs
      <3> QED BY <2>1, <3>1
    <2> HIDE DEF d, theirs
    <2> QED BY <2>2, RequestFields DEF d
  <1> HIDE DEF mine, theirs
  <1>4. request'[w] = mine /\ \A v \in Threads \ {w} : request'[v] = theirs(v)
    BY <1>1
  <1>5. request' = [v \in Threads |-> request'[v]]
    BY <1>1
  <1>6. \A v \in Threads :
          IsRequest(request'[v]) /\ (request'[v].todo # {} => request'[v].outcome # "absent")
    BY <1>2, <1>3, <1>4 DEF FwdShape
  <1>7. /\ About(request'[w]) = hosts
        /\ \A v \in Threads \ {w} : About(request'[v]) = About(request[v])
    BY <1>2, <1>3, <1>4 DEF About
  <1>8. FwdMarked'
    <2> SUFFICES ASSUME NEW v \in Threads, NEW u \in Threads, v # u
                 PROVE  About(request'[v]) \cap About(request'[u]) \subseteq request'[v].disturbed
      BY DEF FwdMarked
    <2>1. CASE v = w
      <3>1. About(request[u]) \subseteq others
        BY <2>1
      <3> QED BY <1>2, <1>4, <1>7, <2>1, <3>1
    <2>2. CASE u = w
      BY <1>3, <1>4, <1>7, <2>2
    <2>3. CASE v # w /\ u # w
      BY <1>3, <1>4, <1>7, <2>3 DEF FwdMarked
    <2> QED BY <2>1, <2>2, <2>3
  <1>9. \A v \in Threads \ {w} :
          request[v].current = c /\ c # NoHost => c \in request'[v].disturbed
    BY <1>3, <1>4 DEF About
  <1> QED BY <1>2, <1>3, <1>4, <1>5, <1>6, <1>8, <1>9

\* A request goes on or ends: it is about no more hosts than before.
LEMMA ReplaceFacts ==
  ASSUME FwdShape, FwdMarked, NEW w \in Threads, NEW r, IsRequest(r),
         (r.todo # {}) => r.outcome # "absent", About(r) \subseteq About(request[w]),
         About(r) \cap request[w].disturbed \subseteq r.disturbed,
         request' = [request EXCEPT ![w] = r]
  PROVE  /\ request' = [v \in Threads |-> request'[v]]
         /\ \A v \in Threads :
              IsRequest(request'[v]) /\ (request'[v].todo # {} => request'[v].outcome # "absent")
         /\ FwdMarked'
         /\ request'[w] = r /\ \A v \in Threads \ {w} : request'[v] = request[v]
  <1>1. request = [v \in Threads |-> request[v]]
    BY DEF FwdShape
  <1>2. request'[w] = r /\ \A v \in Threads \ {w} : request'[v] = request[v]
    BY <1>1
  <1>3. request' = [v \in Threads |-> request'[v]]
    BY <1>1
  <1>4. \A v \in Threads :
          IsRequest(request'[v]) /\ (request'[v].todo # {} => request'[v].outcome # "absent")
    BY <1>2 DEF FwdShape
  <1>5. FwdMarked'
    <2> SUFFICES ASSUME NEW v \in Threads, NEW u \in Threads, v # u
                 PROVE  About(request'[v]) \cap About(request'[u]) \subseteq request'[v].disturbed
      BY DEF FwdMarked
    <2>1. About(request[v]) \cap About(request[u]) \subseteq request[v].disturbed
      BY DEF FwdMarked
    <2> QED BY <1>2, <2>1
  <1> QED BY <1>2, <1>3, <1>4, <1>5

\* add_forwarding_host() has resolved its hosts and written none.
LEMMA AddKeeps ==
  ASSUME NoHost \notin Hosts, FwdInv, NEW w \in Threads, NEW host, NEW f \in BOOLEAN,
         AddForwardingHost(w, host, f)
  PROVE  FwdInv'
  <1> DEFINE o == IF f THEN "filter" ELSE "keep"
             t == ResolveHost(host)
  <1>1. /\ request[w] = NoRequest /\ o # "absent" /\ Start(w, o, t, NoHost)
        /\ UNCHANGED <<whitelisted, keepSpam, settled>>
    BY DEF AddForwardingHost
  <1> HIDE DEF o, t
  <1>2. request[w].current = NoHost
    BY <1>1 DEF NoRequest
  <1>3. /\ request' = [v \in Threads |-> request'[v]]
        /\ \A v \in Threads :
             IsRequest(request'[v]) /\ (request'[v].todo # {} => request'[v].outcome # "absent")
        /\ FwdMarked'
        /\ request'[w].current = NoHost
        /\ \A v \in Threads \ {w} :
             /\ request'[v].current = request[v].current
             /\ request'[v].outcome = request[v].outcome
             /\ request[v].disturbed \subseteq request'[v].disturbed
    BY <1>1, StartFacts DEF FwdInv
  <1>4. FwdShape'
    BY <1>1, <1>3 DEF FwdInv, FwdShape
  <1>5. FwdCurrent'
    BY <1>1, <1>3 DEF FwdInv, FwdCurrent
  <1>6. FwdSettled'
    BY <1>1, <1>2, <1>3 DEF FwdInv, FwdSettled, Agree
  <1> QED BY <1>3, <1>4, <1>5, <1>6 DEF FwdInv

\* It writes one of them to WHITELISTED_FWD_HOST.
LEMMA WhitelistKeeps ==
  ASSUME NoHost \notin Hosts, FwdInv, NEW w \in Threads, WhitelistNext(w)
  PROVE  FwdInv'
  <1>1. PICK h \in request[w].todo :
          /\ request[w].current = NoHost /\ whitelisted' = whitelisted \cup {h}
          /\ request' = [request EXCEPT ![w].todo = @ \ {h}, ![w].current = h]
          /\ UNCHANGED <<keepSpam, settled>>
    BY DEF WhitelistNext
  <1> DEFINE q == request[w]
             r == [outcome |-> q.outcome, todo |-> q.todo \ {h}, current |-> h,
                   disturbed |-> q.disturbed]
  <1>2. /\ IsRequest(r) /\ r.outcome = q.outcome /\ r.todo = q.todo \ {h} /\ r.current = h
        /\ r.disturbed = q.disturbed
    BY RequestFields
  <1>3. request' = [request EXCEPT ![w] = r]
    <2>1. /\ request = [v \in Threads |-> request[v]]
          /\ q = [outcome |-> q.outcome, todo |-> q.todo, current |-> q.current,
                  disturbed |-> q.disturbed]
      BY DEF FwdInv, FwdShape, IsRequest
    <2>2. request' = [request EXCEPT ![w] = [[q EXCEPT !.todo = @ \ {h}] EXCEPT !.current = h]]
      BY <1>1, <2>1
    <2>3. [[q EXCEPT !.todo = @ \ {h}] EXCEPT !.current = h] = r
      <3> HIDE DEF q
      <3>1. [q EXCEPT !.todo = @ \ {h}] =
              [outcome |-> q.outcome, todo |-> q.todo \ {h}, current |-> q.current,
               disturbed |-> q.disturbed]
        BY <2>1
      <3> DEFINE p == [q EXCEPT !.todo = @ \ {h}]
      <3>2. [p EXCEPT !.current = h] = r
        <4>1. p = [outcome |-> q.outcome, todo |-> q.todo \ {h}, current |-> q.current,
                   disturbed |-> q.disturbed]
          BY <3>1
        <4> HIDE DEF p
        <4> QED BY <4>1
      <3> QED BY <3>2
    <2> QED BY <2>2, <2>3
  <1>4. q.todo # {} /\ q.outcome # "absent"
    BY DEF FwdInv, FwdShape
  <1>5. About(r) \subseteq About(q) /\ h \in About(q)
    BY <1>2 DEF About
  <1> HIDE DEF r
  <1>6. /\ request' = [v \in Threads |-> request'[v]]
        /\ \A v \in Threads :
             IsRequest(request'[v]) /\ (request'[v].todo # {} => request'[v].outcome # "absent")
        /\ FwdMarked'
        /\ request'[w] = r /\ \A v \in Threads \ {w} : request'[v] = request[v]
    BY <1>2, <1>3, <1>4, <1>5, ReplaceFacts DEF FwdInv
  <1>7. FwdShape'
    BY <1>1, <1>6 DEF FwdInv, FwdShape
  <1>8. FwdCurrent'
    <2> SUFFICES ASSUME NEW v \in Threads, request'[v].current \in Hosts,
                        request'[v].current \notin request'[v].disturbed
                 PROVE  request'[v].current \in whitelisted' <=> request'[v].outcome # "absent"
      BY DEF FwdCurrent
    <2>1. CASE v = w
      BY <1>1, <1>2, <1>4, <1>6, <2>1
    <2>2. CASE v # w /\ request[v].current = h
      <3>1. request'[v] = request[v]
        BY <1>6, <2>2
      <3>2. h # NoHost /\ h \in About(request[v])
        BY <2>2, <3>1 DEF About
      <3>3. h \in request[v].disturbed
        BY <1>5, <2>2, <3>2 DEF FwdInv, FwdMarked
      <3> QED BY <2>2, <3>1, <3>3
    <2>3. CASE v # w /\ request[v].current # h
      BY <1>1, <1>6, <2>3 DEF FwdInv, FwdCurrent
    <2> QED BY <2>1, <2>2, <2>3
  <1>9. FwdSettled'
    <2> SUFFICES ASSUME NEW g \in Hosts, settled'[g] # "unknown",
                        \A v \in Threads : request'[v].current # g
                 PROVE  Agree(g)'
      BY DEF FwdSettled
    <2>1. g # h /\ \A v \in Threads : request[v].current # g
      <3>1. request'[w].current = h
        BY <1>2, <1>6
      <3>2. g # h
        BY <3>1
      <3>3. request[w].current # g
        BY <1>1
      <3>4. ASSUME NEW v \in Threads, v # w PROVE request[v].current # g
        <4>1. request'[v] = request[v] /\ request'[v].current # g
          BY <1>6, <3>4
        <4> QED BY <4>1
      <3> QED BY <3>2, <3>3, <3>4
    <2>2. Agree(g)
      BY <1>1, <2>1 DEF FwdInv, FwdSettled
    <2> QED BY <1>1, <2>1, <2>2 DEF Agree
  <1> QED BY <1>6, <1>7, <1>8, <1>9 DEF FwdInv

\* update_forwarding_host() and delete_forwarding_host() begin with the host they
\* are about, which is whitelisted, or no longer.
LEMMA BeginKeeps ==
  ASSUME NoHost \notin Hosts, FwdInv, NEW w \in Threads, NEW h \in Hosts, NEW o,
         request[w] = NoRequest, Start(w, o, {}, h),
         (h \in whitelisted') <=> o # "absent",
         \A g \in Hosts \ {h} : g \in whitelisted' <=> g \in whitelisted,
         UNCHANGED <<keepSpam, settled>>
  PROVE  FwdInv'
  <1>1. h # NoHost /\ request[w].current = NoHost
    BY DEF NoRequest
  <1>2. /\ request' = [v \in Threads |-> request'[v]]
        /\ \A v \in Threads :
             IsRequest(request'[v]) /\ (request'[v].todo # {} => request'[v].outcome # "absent")
        /\ FwdMarked'
        /\ request'[w].current = h /\ request'[w].outcome = o
        /\ \A v \in Threads \ {w} :
             /\ request'[v].current = request[v].current
             /\ request'[v].outcome = request[v].outcome
             /\ request[v].disturbed \subseteq request'[v].disturbed
             /\ request[v].current = h /\ h # NoHost => h \in request'[v].disturbed
    BY StartFacts DEF FwdInv
  <1>3. FwdShape'
    BY <1>2 DEF FwdInv, FwdShape
  <1>4. FwdCurrent'
    <2> SUFFICES ASSUME NEW v \in Threads, request'[v].current \in Hosts,
                        request'[v].current \notin request'[v].disturbed
                 PROVE  request'[v].current \in whitelisted' <=> request'[v].outcome # "absent"
      BY DEF FwdCurrent
    <2>1. CASE v = w
      BY <1>2, <2>1
    <2>2. CASE v # w
      <3>1. request[v].current # h /\ request[v].current \notin request[v].disturbed
        BY <1>1, <1>2, <2>2
      <3> QED BY <1>2, <2>2, <3>1 DEF FwdInv, FwdCurrent
    <2> QED BY <2>1, <2>2
  <1>5. FwdSettled'
    <2> SUFFICES ASSUME NEW g \in Hosts, settled'[g] # "unknown",
                        \A v \in Threads : request'[v].current # g
                 PROVE  Agree(g)'
      BY DEF FwdSettled
    <2>1. g # h /\ \A v \in Threads : request[v].current # g
      BY <1>1, <1>2
    <2>2. Agree(g)
      BY <2>1 DEF FwdInv, FwdSettled
    <2> QED BY <2>1, <2>2 DEF Agree
  <1> QED BY <1>2, <1>3, <1>4, <1>5 DEF FwdInv

\* KEEP_SPAM is written, and the host is settled if the request was alone with it.
LEMMA WriteKeeps ==
  ASSUME NoHost \notin Hosts, FwdInv, NEW w \in Threads, WriteKeepSpam(w)
  PROVE  FwdInv'
  <1> DEFINE q == request[w]
             h == q.current
             r == IF q.todo = {} THEN NoRequest
                  ELSE [outcome |-> q.outcome, todo |-> q.todo, current |-> NoHost,
                        disturbed |-> q.disturbed]
  <1>1. /\ q = [outcome |-> q.outcome, todo |-> q.todo, current |-> h, disturbed |-> q.disturbed]
        /\ request = [v \in Threads |-> request[v]] /\ settled = [g \in Hosts |-> settled[g]]
    BY DEF FwdInv, FwdShape, IsRequest
  <1>2. /\ h # NoHost /\ UNCHANGED whitelisted
        /\ keepSpam' = IF q.outcome = "keep" THEN keepSpam \cup {h} ELSE keepSpam \ {h}
        /\ settled' = [settled EXCEPT ![h] =
                         IF h \in q.disturbed THEN "unknown" ELSE q.outcome]
    BY DEF WriteKeepSpam
  <1>3. request' = [request EXCEPT ![w] = r]
    <2>1. request' = [request EXCEPT ![w] =
                        IF q.todo = {} THEN NoRequest ELSE [q EXCEPT !.current = NoHost]]
      BY <1>1 DEF WriteKeepSpam, Finished
    <2>2. [q EXCEPT !.current = NoHost] =
            [outcome |-> q.outcome, todo |-> q.todo, current |-> NoHost,
             disturbed |-> q.disturbed]
      <3> HIDE DEF q
      <3> QED BY <1>1
    <2> QED BY <2>1, <2>2
  <1>4. /\ IsRequest(r) /\ r.current = NoHost
        /\ (r.todo # {} => r.outcome # "absent")
        /\ About(r) \subseteq About(q) /\ About(r) \cap q.disturbed \subseteq r.disturbed
    <2>1. CASE q.todo = {}
      BY <2>1 DEF NoRequest, IsRequest, About
    <2>2. CASE q.todo # {}
      <3>1. q.outcome # "absent"
        BY <2>2 DEF FwdInv, FwdShape
      <3> QED BY <2>2, <3>1, RequestFields DEF About
    <2> QED BY <2>1, <2>2
  <1> HIDE DEF r
  <1>5. /\ request' = [v \in Threads |-> request'[v]]
        /\ \A v \in Threads :
             IsRequest(request'[v]) /\ (request'[v].todo # {} => request'[v].outcome # "absent")
        /\ FwdMarked'
        /\ request'[w] = r /\ \A v \in Threads \ {w} : request'[v] = request[v]
    BY <1>3, <1>4, ReplaceFacts DEF FwdInv
  <1>6. FwdShape'
    BY <1>1, <1>2, <1>5 DEF FwdShape
  <1>7. FwdCurrent'
    BY <1>2, <1>4, <1>5 DEF FwdInv, FwdCurrent
  <1>8. FwdSettled'
    <2> SUFFICES ASSUME NEW g \in Hosts, settled'[g] # "unknown",
                        \A v \in Threads : request'[v].current # g
                 PROVE  Agree(g)'
      BY DEF FwdSettled
    <2>1. CASE g = h
      <3>1. settled'[g] = IF h \in q.disturbed THEN "unknown" ELSE q.outcome
        BY <1>1, <1>2, <2>1
      <3>2. h \in whitelisted <=> q.outcome # "absent"
        BY <2>1, <3>1 DEF FwdInv, FwdCurrent
      <3> QED BY <1>2, <2>1, <3>1, <3>2 DEF Agree
    <2>2. CASE g # h
      <3>1. settled'[g] = settled[g] /\ \A v \in Threads : request[v].current # g
        BY <1>1, <1>2, <1>5, <2>2
      <3>2. Agree(g)
        BY <3>1 DEF FwdInv, FwdSettled
      <3> QED BY <1>2, <2>2, <3>1, <3>2 DEF Agree
    <2> QED BY <2>1, <2>2
  <1> QED BY <1>5, <1>6, <1>7, <1>8 DEF FwdInv

\* A command raised: what it was about to write is not known.
LEMMA RaiseKeeps ==
  ASSUME NoHost \notin Hosts, FwdInv, NEW w \in Threads, StoreRaises(w)
  PROVE  FwdInv'
  <1> DEFINE h == request[w].current
             r == NoRequest
  <1>1. /\ settled' = IF h = NoHost THEN settled ELSE [settled EXCEPT ![h] = "unknown"]
        /\ request' = [request EXCEPT ![w] = r]
        /\ UNCHANGED <<whitelisted, keepSpam>>
    BY DEF StoreRaises
  <1>2. /\ IsRequest(r) /\ r.current = NoHost /\ r.todo = {} /\ About(r) = {}
        /\ settled = [g \in Hosts |-> settled[g]]
    BY DEF FwdInv, FwdShape, NoRequest, IsRequest, About
  <1> HIDE DEF r
  <1>3. /\ request' = [v \in Threads |-> request'[v]]
        /\ \A v \in Threads :
             IsRequest(request'[v]) /\ (request'[v].todo # {} => request'[v].outcome # "absent")
        /\ FwdMarked'
        /\ request'[w] = r /\ \A v \in Threads \ {w} : request'[v] = request[v]
    BY <1>1, <1>2, ReplaceFacts DEF FwdInv
  <1>4. FwdShape'
    BY <1>1, <1>2, <1>3 DEF FwdShape
  <1>5. FwdCurrent'
    BY <1>1, <1>2, <1>3 DEF FwdInv, FwdCurrent
  <1>6. FwdSettled'
    <2> SUFFICES ASSUME NEW g \in Hosts, settled'[g] # "unknown",
                        \A v \in Threads : request'[v].current # g
                 PROVE  Agree(g)'
      BY DEF FwdSettled
    <2>1. g # h
      BY <1>1, <1>2
    <2>2. settled'[g] = settled[g] /\ \A v \in Threads : request[v].current # g
      BY <1>1, <1>2, <1>3, <2>1
    <2>3. Agree(g)
      BY <2>2 DEF FwdInv, FwdSettled
    <2> QED BY <1>1, <2>2, <2>3 DEF Agree
  <1> QED BY <1>3, <1>4, <1>5, <1>6 DEF FwdInv

\* WHITELISTED_FWD_HOST and KEEP_SPAM, which no transaction holds together, hold
\* of a host what the last request about it asked for, whatever requests about
\* other hosts and failures came between, for any number of threads and hosts.
THEOREM HashesAgreeAlways == ForwardingSpec => []HashesAgree
  <1>1. NoHost \notin Hosts
    BY ForwardingHostsAssumption
  <1>2. ForwardingInit => FwdInv
    <2> SUFFICES ASSUME ForwardingInit PROVE FwdInv
      OBVIOUS
    <2>1. /\ request = [w \in Threads |-> NoRequest] /\ settled = [h \in Hosts |-> "absent"]
          /\ whitelisted = {} /\ keepSpam = {}
      BY DEF ForwardingInit
    <2>2. /\ IsRequest(NoRequest) /\ NoRequest.todo = {} /\ About(NoRequest) = {}
          /\ NoRequest.current = NoHost
      BY DEF NoRequest, IsRequest, About
    <2> QED BY <1>1, <2>1, <2>2
            DEF FwdInv, FwdShape, FwdMarked, FwdCurrent, FwdSettled, Agree
  <1>3. FwdInv /\ [ForwardingNext]_forwardingVars => FwdInv'
    <2> SUFFICES ASSUME FwdInv, [ForwardingNext]_forwardingVars PROVE FwdInv'
      OBVIOUS
    <2>1. ASSUME NEW w \in Threads, NEW h \in Hosts, NEW keep \in BOOLEAN,
                 UpdateForwardingHost(w, h, keep)
          PROVE  FwdInv'
      BY <1>1, <2>1, BeginKeeps DEF UpdateForwardingHost
    <2>2. ASSUME NEW w \in Threads, NEW h \in Hosts, DeleteForwardingHost(w, h)
          PROVE  FwdInv'
      BY <1>1, <2>2, BeginKeeps DEF DeleteForwardingHost
    <2>3. ASSUME UNCHANGED <<whitelisted, keepSpam, request, settled>> PROVE FwdInv'
      BY <2>3 DEF FwdInv, FwdShape, FwdMarked, FwdCurrent, FwdSettled, Agree
    <2>4. CASE DnsChanges
      BY <2>3, <2>4 DEF DnsChanges
    <2>5. CASE UNCHANGED forwardingVars
      BY <2>3, <2>5 DEF forwardingVars
    <2> QED BY <1>1, <2>1, <2>2, <2>4, <2>5, AddKeeps, WhitelistKeeps, WriteKeeps, RaiseKeeps
            DEF ForwardingNext
  <1>4. FwdInv => HashesAgree
    <2> SUFFICES ASSUME FwdInv, NEW h \in Hosts, settled[h] # "unknown",
                        h \notin UNION {Concerns(w) : w \in Threads}
                 PROVE  Agree(h)
      BY DEF HashesAgree, Agree
    <2>1. \A w \in Threads : request[w].current # h
      BY <1>1 DEF Concerns
    <2> QED BY <2>1 DEF FwdInv, FwdSettled
  <1> QED BY <1>2, <1>3, <1>4, PTL DEF ForwardingSpec

----------------------------------------------------------------------------
(***************************************************************************)
(* The expansion of aliases, for any tables, domains and addresses.        *)
(***************************************************************************)

\* What the request has come to.
Seen == gotos \cup newGotos \cup final

ExpShape ==
  /\ db \in Contents /\ domainMap \subseteq MailDomains /\ Seen \subseteq Anywhere
  /\ pc # "expand" => newGotos = {}
  /\ pc \in {"idle", "raised"} => gotos = {} /\ final = {}

ExpFound == \A m \in final : m \in Addresses /\ db.mailbox[m] = "active"

\* All of it is in every set that holds the first addresses and is closed.
ExpClosed == pc \in {"expand", "done"} => \A S \in ClosedSets(MailDomains) : Seen \subseteq S

ExpInv == ExpShape /\ ExpFound /\ ExpClosed

\* The tables that a request reads.
LEMMA TableFields ==
  ASSUME db \in Contents
  PROVE  /\ \A a \in Addresses : db.alias[a] \in Gotos
         /\ \A d \in MailDomains : db.catchall[d] \in Gotos
         /\ \A d \in MailDomains : db.target[d] # NoDomain => db.target[d] \in MailDomains
  BY DEF Contents

\* An address is in Anywhere, if its local part is that of an address or a goto.
LEMMA AnywhereFacts ==
  /\ Addresses \subseteq Anywhere /\ \A g \in Gotos : g \subseteq Anywhere
  /\ \A a \in Anywhere, d \in MailDomains : <<a[1], d>> \in Anywhere
  /\ \A l \in DOMAIN Tagged, d \in MailDomains : <<Tagged[l], d>> \in Anywhere
  <1> DEFINE named == Addresses \cup UNION Gotos
             locals == {a[1] : a \in named} \cup {Tagged[l] : l \in DOMAIN Tagged}
  <1>1. Anywhere = named \cup locals \X MailDomains
    BY DEF Anywhere
  <1>2. Addresses \subseteq named /\ \A g \in Gotos : g \subseteq named
    OBVIOUS
  <1>3. /\ \A a \in named : a[1] \in locals
        /\ \A l \in DOMAIN Tagged : Tagged[l] \in locals
    OBVIOUS
  <1> HIDE DEF named, locals
  <1>4. ASSUME NEW a \in Anywhere PROVE a[1] \in locals
    BY <1>1, <1>3
  <1> QED BY <1>1, <1>2, <1>3, <1>4

\* The recipient without its tag, in a domain, and where mail for it goes.
LEMMA StripFacts ==
  ASSUME NEW rcpt \in Recipients, \A a \in Addresses : a[2] \in MailDomains
  PROVE  LET a == StripTags(rcpt) IN a[2] \in MailDomains /\ a \in Anywhere
  <1>1. CASE rcpt \in Addresses
    BY <1>1, AnywhereFacts DEF StripTags
  <1>2. CASE rcpt \in {<<l, d>> : l \in DOMAIN Tagged, d \in MailDomains}
    <2>1. PICK l \in DOMAIN Tagged, d \in MailDomains : rcpt = <<l, d>>
      BY <1>2
    <2>2. StripTags(rcpt) = <<Tagged[l], d>>
      BY <2>1 DEF StripTags
    <2> QED BY <2>2, AnywhereFacts
  <1> QED BY <1>1, <1>2 DEF Recipients

\* get_gotos() begins with what mail for the recipient starts with.
LEMMA GotosStart ==
  ASSUME db \in Contents, NEW a \in Anywhere, a[2] \in MailDomains, NEW b \in GetGotos(a)
  PROVE  /\ b \in Anywhere
         /\ IF a \in Addresses /\ db.alias[a] # {} THEN b \in db.alias[a]
            ELSE IF db.catchall[a[2]] # {} THEN b \in db.catchall[a[2]]
            ELSE db.target[a[2]] # NoDomain /\ b = <<a[1], db.target[a[2]]>>
  <1>1. CASE AliasOf(a) # {}
    <2>1. a \in Addresses /\ db.alias[a] # {} /\ b \in db.alias[a]
      BY <1>1 DEF GetGotos, AliasOf
    <2> QED BY <2>1, AnywhereFacts, TableFields
  <1>2. CASE AliasOf(a) = {} /\ db.catchall[a[2]] # {}
    <2>1. ~(a \in Addresses /\ db.alias[a] # {}) /\ b \in db.catchall[a[2]]
      BY <1>2 DEF GetGotos, AliasOf
    <2> QED BY <1>2, <2>1, AnywhereFacts, TableFields
  <1>3. CASE AliasOf(a) = {} /\ db.catchall[a[2]] = {}
    <2>1. ~(a \in Addresses /\ db.alias[a] # {}) /\ b \in Translated(a)
      BY <1>3 DEF GetGotos, AliasOf
    <2>2. db.target[a[2]] # NoDomain /\ b = <<a[1], db.target[a[2]]>>
      BY <2>1 DEF Translated
    <2>3. b \in Anywhere
      BY <2>2, AnywhereFacts, TableFields
    <2> QED BY <1>3, <2>1, <2>2, <2>3
  <1> QED BY <1>1, <1>2, <1>3

\* A round goes on to where an address leads.
LEMMA GotoLeads ==
  ASSUME db \in Contents, domainMap \subseteq MailDomains, NEW a \in Anywhere,
         ~IsMailbox(a), NEW b \in ExpandGoto(a)
  PROVE  b \in Anywhere /\ Leads(a, b, MailDomains) /\ Leads(a, b, domainMap)
  <1>1. a[2] \in domainMap /\ a[2] \in MailDomains
    BY DEF ExpandGoto
  <1>2. CASE AliasOf(a) # {}
    <2>1. a \in Addresses /\ db.alias[a] # {} /\ b \in db.alias[a]
      BY <1>1, <1>2 DEF ExpandGoto, AliasOf
    <2>2. Leads(a, b, MailDomains) /\ Leads(a, b, domainMap)
      BY <1>1, <2>1 DEF Leads, IsMailbox
    <2> QED BY <2>1, <2>2, AnywhereFacts, TableFields
  <1>3. CASE AliasOf(a) = {}
    <2>1. b \in Translated(a)
      BY <1>1, <1>3 DEF ExpandGoto
    <2>2. db.target[a[2]] # NoDomain /\ b = <<a[1], db.target[a[2]]>>
      BY <2>1 DEF Translated
    <2>3. b \in Anywhere
      BY <1>1, <2>2, AnywhereFacts, TableFields
    <2>4. Leads(a, b, MailDomains) /\ Leads(a, b, domainMap)
      BY <1>1, <1>3, <2>2 DEF Leads, IsMailbox, AliasOf
    <2> QED BY <2>3, <2>4
  <1> QED BY <1>2, <1>3

\* The request begins, or raises.
LEMMA RequestFinds ==
  ASSUME \A a \in Addresses : a[2] \in MailDomains, ExpInv,
         NEW rcpt \in Recipients, Request(rcpt)
  PROVE  ExpInv'
  <1> DEFINE a == StripTags(rcpt)
  <1>1. a[2] \in MailDomains /\ a \in Anywhere
    BY StripFacts
  <1>2. /\ pc = "idle" /\ email' = a /\ UNCHANGED <<db, domainMap, newGotos, final>>
        /\ \/ (pc' = "raised" /\ UNCHANGED gotos)
           \/ (gotos' = GetGotos(a) /\ pc' = IF gotos' = {} THEN "done" ELSE "expand")
    BY DEF Request
  <1> HIDE DEF a
  <1>3. db \in Contents /\ gotos = {} /\ newGotos = {} /\ final = {}
    BY <1>2 DEF ExpInv, ExpShape
  <1>4. \A b \in GetGotos(a) : b \in Anywhere
    BY <1>1, <1>3, GotosStart
  <1>5. ExpShape'
    BY <1>2, <1>3, <1>4 DEF ExpInv, ExpShape, Seen, Contents, Anywhere
  <1>6. ExpFound'
    BY <1>2, <1>3 DEF ExpFound
  <1>7. ExpClosed'
    <2> SUFFICES ASSUME pc' \in {"expand", "done"}, NEW S \in ClosedSets(MailDomains)',
                        NEW b \in gotos'
                 PROVE  b \in S
      BY <1>2, <1>3 DEF ExpClosed, Seen
    <2>1. b \in GetGotos(a)
      BY <1>2
    <2>2. Starts(b)'
      <3>1. IF a \in Addresses /\ db.alias[a] # {} THEN b \in db.alias[a]
            ELSE IF db.catchall[a[2]] # {} THEN b \in db.catchall[a[2]]
            ELSE db.target[a[2]] # NoDomain /\ b = <<a[1], db.target[a[2]]>>
        BY <1>1, <1>3, <2>1, GotosStart
      <3> QED BY <1>2, <3>1 DEF Starts
    <2> QED BY <1>4, <2>1, <2>2 DEF ClosedSets, Anywhere
  <1> QED BY <1>5, <1>6, <1>7 DEF ExpInv

\* While a request runs, its recipient and the tables stay.
LEMMA SameClosed ==
  ASSUME db' = db, email' = email
  PROVE  ClosedSets(MailDomains)' = ClosedSets(MailDomains)
  <1>1. /\ \A b : Starts(b)' = Starts(b)
        /\ \A a, b : Leads(a, b, MailDomains)' = Leads(a, b, MailDomains)
    BY DEF Starts, Leads
  <1>2. Anywhere' = Anywhere
    BY DEF Anywhere
  <1> QED BY <1>1, <1>2 DEF ClosedSets

\* One address of a round.
LEMMA LookAtFinds ==
  ASSUME ExpInv, NEW goto \in gotos, LookAt(goto)
  PROVE  ExpInv'
  <1>1. /\ pc = "expand" /\ gotos' = gotos \ {goto} /\ UNCHANGED <<db, domainMap, pc, email>>
        /\ \/ (IsMailbox(goto) /\ final' = final \cup {goto} /\ UNCHANGED newGotos)
           \/ (/\ ~IsMailbox(goto) /\ newGotos' = newGotos \cup ExpandGoto(goto)
               /\ UNCHANGED final)
    BY DEF LookAt
  <1>2. /\ db \in Contents /\ domainMap \subseteq MailDomains /\ goto \in Anywhere
        /\ Seen \subseteq Anywhere
    BY DEF ExpInv, ExpShape, Seen
  <1>3. ~IsMailbox(goto) =>
          \A b \in ExpandGoto(goto) : b \in Anywhere /\ Leads(goto, b, MailDomains)
    BY <1>2, GotoLeads
  <1>4. \A b \in Seen' : b \in Seen \/ (~IsMailbox(goto) /\ b \in ExpandGoto(goto))
    BY <1>1 DEF Seen
  <1>5. ExpShape'
    <2>1. Seen' \subseteq Anywhere
      BY <1>2, <1>3, <1>4
    <2> QED BY <1>1, <1>2, <2>1 DEF ExpShape, Contents, Anywhere
  <1>6. ExpFound'
    BY <1>1 DEF ExpInv, ExpFound, IsMailbox
  <1>7. ExpClosed'
    <2> SUFFICES ASSUME NEW S \in ClosedSets(MailDomains), NEW b \in Seen' PROVE b \in S
      BY <1>1, SameClosed DEF ExpClosed
    <2>1. Seen \subseteq S /\ goto \in S
      BY <1>1 DEF ExpInv, ExpClosed, Seen
    <2>2. CASE b \in Seen
      BY <2>1, <2>2
    <2>3. CASE ~IsMailbox(goto) /\ b \in ExpandGoto(goto)
      <3>1. b \in Anywhere /\ Leads(goto, b, MailDomains)
        BY <1>3, <2>3
      <3> QED BY <2>1, <3>1 DEF ClosedSets
    <2> QED BY <1>4, <2>2, <2>3
  <1> QED BY <1>5, <1>6, <1>7 DEF ExpInv

\* The next round, the response, and a change of DOMAIN_MAP add no address.
LEMMA OthersFind ==
  ASSUME ExpInv,
         \/ NextRound \/ Respond \/ (\E d \in MailDomains : MapChanges(d))
         \/ UNCHANGED expansionVars
  PROVE  ExpInv'
  <1>1. /\ db' = db /\ domainMap' \subseteq MailDomains /\ Seen' \subseteq Seen
        /\ final' \subseteq final
        /\ pc' # "expand" => newGotos' = {}
        /\ pc' \in {"idle", "raised"} => gotos' = {} /\ final' = {}
        /\ pc' \in {"expand", "done"} => pc \in {"expand", "done"} /\ email' = email
    <2>1. CASE NextRound
      BY <2>1 DEF NextRound, ExpInv, ExpShape, Seen
    <2>2. CASE Respond
      BY <2>2 DEF Respond, ExpInv, ExpShape, Seen
    <2>3. CASE \E d \in MailDomains : MapChanges(d)
      BY <2>3 DEF MapChanges, ExpInv, ExpShape, Seen
    <2>4. CASE UNCHANGED expansionVars
      BY <2>4 DEF expansionVars, ExpInv, ExpShape, Seen
    <2> QED BY <2>1, <2>2, <2>3, <2>4
  <1>2. ExpShape'
    BY <1>1 DEF ExpInv, ExpShape, Contents, Anywhere
  <1>3. ExpFound'
    BY <1>1 DEF ExpInv, ExpFound
  <1>4. ExpClosed'
    <2> SUFFICES ASSUME pc' \in {"expand", "done"}, NEW S \in ClosedSets(MailDomains)'
                 PROVE  Seen' \subseteq S
      BY DEF ExpClosed
    <2>1. S \in ClosedSets(MailDomains)
      BY <1>1, SameClosed
    <2> QED BY <1>1, <2>1 DEF ExpInv, ExpClosed
  <1> QED BY <1>2, <1>3, <1>4 DEF ExpInv

\* However DOMAIN_MAP changes while expand_alias() runs, and whatever loops the
\* aliases have, a mailbox it found is active and in every set of addresses that
\* holds what the recipient leads to.
THEOREM FoundIsReachableAlways == ExpansionSpec => []FoundIsReachable
  <1>1. (\A a \in Addresses : a[2] \in MailDomains) /\ Tables \subseteq Contents
    BY AliasexpAssumption
  <1>2. ExpansionInit => ExpInv
    BY <1>1 DEF ExpansionInit, ExpInv, ExpShape, ExpFound, ExpClosed, Seen
  <1>3. ExpInv /\ [ExpansionNext]_expansionVars => ExpInv'
    BY <1>1, RequestFinds, LookAtFinds, OthersFind DEF ExpansionNext, Step
  <1>4. ExpInv => FoundIsReachable
    BY DEF ExpInv, ExpFound, ExpClosed, Seen, FoundIsReachable, Reached
  <1> QED BY <1>2, <1>3, <1>4, PTL DEF ExpansionSpec

\* W holds what the request has looked at or has to look at in this round: where mail
\* starts and, from what was looked at, where it leads.  It lies in every closed set,
\* and is closed itself or has grown with every round.
Explored(W) ==
  /\ W \subseteq Anywhere /\ gotos \cup final \subseteq W
  /\ \A b \in Anywhere : Starts(b) => b \in W
  /\ \A a \in W \ gotos, b \in Anywhere : Leads(a, b, domainMap) => b \in W \cup newGotos
  /\ \A b \in newGotos : \E a \in W : Leads(a, b, domainMap)
  /\ \A a \in W : IsMailbox(a) => a \in final \cup gotos
  /\ \A S \in ClosedSets(domainMap) : W \subseteq S
  /\ W \in ClosedSets(domainMap) \/ (IsFiniteSet(W) => loopCount <= Cardinality(W))

\* A request that DOMAIN_MAP did not change under explores, and finds what it should.
ExpWays == pc = "expand" /\ steady => \E W : Explored(W)
ExpAll == pc = "done" /\ steady /\ (gotos = {} \/ Few) => final = Reached(domainMap)

WaysInv == ExpInv /\ loopCount \in Nat /\ ExpWays /\ ExpAll

\* Mail starts nowhere but where get_gotos() begins.
LEMMA StartsGotos ==
  ASSUME NEW a, NEW b,
         IF a \in Addresses /\ db.alias[a] # {} THEN b \in db.alias[a]
         ELSE IF db.catchall[a[2]] # {} THEN b \in db.catchall[a[2]]
         ELSE db.target[a[2]] # NoDomain /\ b = <<a[1], db.target[a[2]]>>
  PROVE  b \in GetGotos(a)
  BY DEF GetGotos, AliasOf, Translated

\* An address leads nowhere but where a round goes on to.
LEMMA LeadsGoto ==
  ASSUME NEW a, NEW b, Leads(a, b, domainMap)
  PROVE  ~IsMailbox(a) /\ b \in ExpandGoto(a)
  BY DEF Leads, IsMailbox, ExpandGoto, AliasOf, Translated

\* While a request runs, its recipient, the tables and DOMAIN_MAP stay.
LEMMA SameWays ==
  ASSUME db' = db, email' = email, domainMap' = domainMap
  PROVE  /\ ClosedSets(domainMap)' = ClosedSets(domainMap)
         /\ \A b : Starts(b)' = Starts(b)
         /\ \A a, b : Leads(a, b, domainMap)' = Leads(a, b, domainMap)
         /\ \A a : IsMailbox(a)' = IsMailbox(a)
         /\ Anywhere' = Anywhere /\ Reached(domainMap)' = Reached(domainMap)
  <1>1. /\ \A b : Starts(b)' = Starts(b)
        /\ \A a, b : Leads(a, b, domainMap)' = Leads(a, b, domainMap)
        /\ \A a : IsMailbox(a)' = IsMailbox(a)
    BY DEF Starts, Leads, IsMailbox
  <1>2. Anywhere' = Anywhere
    BY DEF Anywhere
  <1>3. ClosedSets(domainMap)' = ClosedSets(domainMap)
    BY <1>1, <1>2 DEF ClosedSets
  <1>4. Reached(domainMap)' = Reached(domainMap)
    BY <1>3 DEF Reached
  <1> QED BY <1>1, <1>2, <1>3, <1>4

\* What a closed set holds of active mailboxes is found.
LEMMA ClosedFinds ==
  ASSUME ExpFound, NEW W \in ClosedSets(domainMap), final \subseteq W,
         \A S \in ClosedSets(domainMap) : W \subseteq S,
         \A a \in W : IsMailbox(a) => a \in final
  PROVE  final = Reached(domainMap)
  BY DEF ExpFound, Reached, IsMailbox

\* A request begins to explore, or ends at once.
LEMMA RequestWays ==
  ASSUME \A a \in Addresses : a[2] \in MailDomains, WaysInv,
         NEW rcpt \in Recipients, Request(rcpt)
  PROVE  WaysInv'
  <1> DEFINE a == StripTags(rcpt)
  <1>1. a[2] \in MailDomains /\ a \in Anywhere
    BY StripFacts
  <1>2. /\ pc = "idle" /\ email' = a /\ UNCHANGED <<db, domainMap, newGotos, final>>
        /\ \/ (pc' = "raised" /\ UNCHANGED <<gotos, loopCount>>)
           \/ (/\ gotos' = GetGotos(a) /\ pc' = (IF gotos' = {} THEN "done" ELSE "expand")
               /\ loopCount' = (IF gotos' = {} THEN 0 ELSE 1))
    BY DEF Request
  <1> HIDE DEF a
  <1>3. db \in Contents /\ gotos = {} /\ newGotos = {} /\ final = {} /\ loopCount \in Nat
    BY <1>2 DEF WaysInv, ExpInv, ExpShape
  <1>4. \A b \in GetGotos(a) : b \in Anywhere
    BY <1>1, <1>3, GotosStart
  <1>5. \A b : Starts(b)' <=> b \in GetGotos(a)
    <2> TAKE b
    <2>1. Starts(b)' <=> (IF a \in Addresses /\ db.alias[a] # {} THEN b \in db.alias[a]
                          ELSE IF db.catchall[a[2]] # {} THEN b \in db.catchall[a[2]]
                          ELSE db.target[a[2]] # NoDomain /\ b = <<a[1], db.target[a[2]]>>)
      BY <1>2 DEF Starts
    <2> QED BY <1>1, <1>3, <2>1, GotosStart, StartsGotos
  <1>6. ExpInv' /\ loopCount' \in Nat
    BY <1>2, <1>3, RequestFinds DEF WaysInv
  <1>7. ExpWays'
    <2> SUFFICES ASSUME pc' = "expand", NEW W, W = gotos' PROVE Explored(W)'
      BY DEF ExpWays
    <2>1. gotos' = GetGotos(a) /\ gotos' # {} /\ loopCount' = 1
      BY <1>2
    <2>2. newGotos' = {} /\ final' = {} /\ Anywhere' = Anywhere
      BY <1>2, <1>3 DEF Anywhere
    <2>3. \A S \in ClosedSets(domainMap)' : W \subseteq S
      BY <1>4, <1>5, <2>1, <2>2 DEF ClosedSets
    <2>4. IsFiniteSet(W) => 1 <= Cardinality(W)
      BY <2>1, FS_EmptySet, FS_CardinalityType
    <2> QED BY <1>4, <1>5, <2>1, <2>2, <2>3, <2>4 DEF Explored
  <1>8. ExpAll'
    <2> SUFFICES ASSUME pc' = "done" PROVE final' = Reached(domainMap)'
      BY DEF ExpAll
    <2>1. GetGotos(a) = {} /\ final' = {}
      BY <1>2, <1>3
    <2>2. {} \in ClosedSets(domainMap)'
      BY <1>5, <2>1 DEF ClosedSets
    <2> QED BY <2>1, <2>2 DEF Reached
  <1> QED BY <1>6, <1>7, <1>8 DEF WaysInv

\* One address of a round.
LEMMA LookAtWays ==
  ASSUME WaysInv, NEW goto \in gotos, LookAt(goto)
  PROVE  WaysInv'
  <1>1. /\ pc = "expand" /\ gotos' = gotos \ {goto}
        /\ UNCHANGED <<db, domainMap, pc, email, loopCount, steady>>
        /\ \/ (IsMailbox(goto) /\ final' = final \cup {goto} /\ UNCHANGED newGotos)
           \/ (/\ ~IsMailbox(goto) /\ newGotos' = newGotos \cup ExpandGoto(goto)
               /\ UNCHANGED final)
    BY DEF LookAt
  <1>2. ExpInv' /\ loopCount' \in Nat /\ ExpAll'
    BY <1>1, LookAtFinds DEF WaysInv, ExpAll
  <1>3. ExpWays'
    <2> SUFFICES ASSUME steady PROVE \E W : Explored(W)'
      BY <1>1 DEF ExpWays
    <2>1. PICK W : Explored(W)
      BY <1>1 DEF WaysInv, ExpWays
    <2>2. goto \in W /\ goto \in Anywhere /\ db \in Contents /\ domainMap \subseteq MailDomains
      BY <2>1 DEF Explored, WaysInv, ExpInv, ExpShape
    <2>3. ~IsMailbox(goto) => \A b \in ExpandGoto(goto) : Leads(goto, b, domainMap)
      BY <2>2, GotoLeads
    <2>4. \A b : Leads(goto, b, domainMap) => ~IsMailbox(goto) /\ b \in ExpandGoto(goto)
      BY LeadsGoto
    <2>5. /\ W \subseteq Anywhere /\ gotos' \cup final' \subseteq W
          /\ \A b \in Anywhere : Starts(b) => b \in W
      BY <1>1, <2>1, <2>2 DEF Explored
    <2>6. ASSUME NEW x \in W \ gotos', NEW b \in Anywhere, Leads(x, b, domainMap)
          PROVE  b \in W \cup newGotos'
      <3>1. CASE x = goto
        BY <1>1, <2>4, <2>6, <3>1
      <3>2. CASE x # goto
        <4>1. b \in W \cup newGotos
          BY <1>1, <2>1, <2>6, <3>2 DEF Explored
        <4> QED BY <1>1, <4>1
      <3> QED BY <3>1, <3>2
    <2>7. \A b \in newGotos' : \E x \in W : Leads(x, b, domainMap)
      BY <1>1, <2>1, <2>2, <2>3 DEF Explored
    <2>8. \A x \in W : IsMailbox(x) => x \in final' \cup gotos'
      BY <1>1, <2>1 DEF Explored
    <2>9. /\ \A S \in ClosedSets(domainMap) : W \subseteq S
          /\ W \in ClosedSets(domainMap) \/ (IsFiniteSet(W) => loopCount <= Cardinality(W))
      BY <2>1 DEF Explored
    <2>10. Explored(W)'
      BY <1>1, <2>5, <2>6, <2>7, <2>8, <2>9, SameWays DEF Explored
    <2> QED BY <2>10
  <1> QED BY <1>2, <1>3 DEF WaysInv

\* The next round, with W and what this one found.
LEMMA RoundWays ==
  ASSUME WaysInv, NextRound, steady, NEW W, Explored(W)
  PROVE  /\ W \cup newGotos \subseteq Anywhere /\ final \subseteq W
         /\ \A b \in Anywhere : Starts(b) => b \in W
         /\ \A a \in W, b \in Anywhere : Leads(a, b, domainMap) => b \in W \cup newGotos
         /\ \A a \in W : IsMailbox(a) => a \in final
         /\ \A S \in ClosedSets(domainMap) : W \cup newGotos \subseteq S
         /\ newGotos \subseteq W => W \in ClosedSets(domainMap)
         /\ \/ W \in ClosedSets(domainMap) /\ newGotos \subseteq W
            \/ IsFiniteSet(W) => loopCount <= Cardinality(W)
  <1>1. gotos = {} /\ newGotos \subseteq Anywhere
    BY DEF NextRound, WaysInv, ExpInv, ExpShape, Seen
  <1>2. /\ W \subseteq Anywhere /\ final \subseteq W
        /\ \A b \in Anywhere : Starts(b) => b \in W
        /\ \A a \in W, b \in Anywhere : Leads(a, b, domainMap) => b \in W \cup newGotos
        /\ \A a \in W : IsMailbox(a) => a \in final
    BY <1>1 DEF Explored
  <1>3. ASSUME NEW S \in ClosedSets(domainMap), NEW b \in newGotos PROVE b \in S
    <2>1. PICK a \in W : Leads(a, b, domainMap)
      BY <1>3 DEF Explored
    <2>2. a \in S
      BY <1>3, <2>1 DEF Explored
    <2> QED BY <1>1, <1>3, <2>1, <2>2 DEF ClosedSets
  <1>4. newGotos \subseteq W => W \in ClosedSets(domainMap)
    BY <1>2 DEF ClosedSets
  <1>5. \A S \in ClosedSets(domainMap) : W \subseteq S
    BY DEF Explored
  <1>6. W \in ClosedSets(domainMap) \/ (IsFiniteSet(W) => loopCount <= Cardinality(W))
    BY DEF Explored
  <1> QED BY <1>1, <1>2, <1>3, <1>4, <1>5, <1>6

\* A set that has grown with every round is larger than a small one.
LEMMA GrownSet ==
  ASSUME NEW W, NEW S, W \subseteq S, IsFiniteSet(S), NEW n \in Nat, NEW m \in Nat,
         Cardinality(S) <= m + 1, n > m, IsFiniteSet(W) => n <= Cardinality(W)
  PROVE  W = S
  <1>1. /\ IsFiniteSet(W) /\ Cardinality(W) <= Cardinality(S)
        /\ Cardinality(S) = Cardinality(W) => S = W
    BY FS_Subset
  <1>2. Cardinality(W) \in Nat /\ Cardinality(S) \in Nat
    BY <1>1, FS_CardinalityType
  <1> QED BY <1>1, <1>2

\* The end of a round: the next one, or the end of the request.
LEMMA NextRoundWays ==
  ASSUME WaysInv, NextRound
  PROVE  WaysInv'
  <1>1. /\ pc = "expand" /\ gotos' = newGotos /\ newGotos' = {}
        /\ UNCHANGED <<db, domainMap, email, final, steady>>
        /\ \/ newGotos # {} /\ loopCount' = loopCount + 1 /\ pc' = "expand"
           \/ /\ newGotos = {} \/ loopCount > MaxLoops
              /\ loopCount' = loopCount /\ pc' = "done"
    BY DEF NextRound
  <1>2. ExpInv' /\ loopCount \in Nat /\ loopCount' \in Nat
    BY <1>1, OthersFind DEF WaysInv
  <1>3. CASE ~steady
    BY <1>1, <1>2, <1>3 DEF WaysInv, ExpWays, ExpAll
  <1>4. CASE steady
    <2>1. PICK W : Explored(W)
      BY <1>1, <1>4 DEF WaysInv, ExpWays
    <2> SUFFICES ASSUME NEW N, N = W \cup newGotos PROVE WaysInv'
      OBVIOUS
    <2>2. /\ N \subseteq Anywhere /\ final \subseteq W
          /\ \A b \in Anywhere : Starts(b) => b \in W
          /\ \A a \in W, b \in Anywhere : Leads(a, b, domainMap) => b \in N
          /\ \A a \in W : IsMailbox(a) => a \in final
          /\ \A S \in ClosedSets(domainMap) : N \subseteq S
          /\ newGotos \subseteq W => W \in ClosedSets(domainMap)
          /\ \/ W \in ClosedSets(domainMap) /\ newGotos \subseteq W
             \/ IsFiniteSet(W) => loopCount <= Cardinality(W)
      BY <1>4, <2>1, RoundWays
    <2>3. ExpWays'
      <3> SUFFICES ASSUME pc' = "expand" PROVE Explored(N)'
        BY DEF ExpWays
      <3>1. N \in ClosedSets(domainMap) \/ (IsFiniteSet(N) => loopCount + 1 <= Cardinality(N))
        <4>1. CASE newGotos \subseteq W
          <5>1. N = W
            BY <4>1
          <5> QED BY <2>2, <4>1, <5>1
        <4>2. CASE ~(newGotos \subseteq W)
          <5> SUFFICES ASSUME IsFiniteSet(N) PROVE loopCount + 1 <= Cardinality(N)
            OBVIOUS
          <5>1. /\ IsFiniteSet(W) /\ Cardinality(W) <= Cardinality(N)
                /\ Cardinality(N) = Cardinality(W) => N = W
            BY FS_Subset
          <5>2. Cardinality(W) \in Nat /\ Cardinality(N) \in Nat
            BY <5>1, FS_CardinalityType
          <5>3. N # W
            BY <4>2
          <5>4. loopCount <= Cardinality(W)
            BY <2>2, <4>2, <5>1
          <5> QED BY <1>2, <5>1, <5>2, <5>3, <5>4
        <4> QED BY <4>1, <4>2
      <3>2. /\ \A a \in N \ newGotos, b \in Anywhere : Leads(a, b, domainMap) => b \in N
            /\ \A a \in N : IsMailbox(a) => a \in final \cup newGotos
            /\ newGotos \cup final \subseteq N
            /\ \A b \in Anywhere : Starts(b) => b \in N
        BY <2>2
      <3>3. loopCount' = loopCount + 1
        BY <1>1
      <3> QED BY <1>1, <2>2, <3>1, <3>2, <3>3, SameWays DEF Explored
    <2>4. ExpAll'
      <3> SUFFICES ASSUME pc' = "done", (gotos' = {}) \/ Few' PROVE final = Reached(domainMap)
        BY <1>1, SameWays DEF ExpAll
      <3>1. W \in ClosedSets(domainMap)
        <4>1. CASE newGotos = {}
          BY <2>2, <4>1
        <4>2. CASE newGotos # {}
          <5>1. loopCount > MaxLoops /\ Few'
            BY <1>1, <4>2
          <5>2. PICK S \in ClosedSets(domainMap) :
                  IsFiniteSet(S) /\ Cardinality(S) <= MaxLoops + 1
            BY <1>1, <5>1, SameWays DEF Few
          <5>3. CASE IsFiniteSet(W) => loopCount <= Cardinality(W)
            <6>1. W \subseteq S
              BY <2>2
            <6>2. W = S
              BY <1>2, <5>1, <5>2, <5>3, <6>1, GrownSet, AliasexpAssumption
            <6> QED BY <6>2
          <5> QED BY <2>2, <5>3
        <4> QED BY <4>1, <4>2
      <3>2. ExpFound /\ \A S \in ClosedSets(domainMap) : W \subseteq S
        BY <2>2 DEF WaysInv, ExpInv
      <3> QED BY <2>2, <3>1, <3>2, ClosedFinds
    <2> QED BY <1>2, <2>3, <2>4 DEF WaysInv
  <1> QED BY <1>3, <1>4

\* The response, and a change of DOMAIN_MAP.
LEMMA OthersWays ==
  ASSUME WaysInv,
         Respond \/ (\E d \in MailDomains : MapChanges(d)) \/ UNCHANGED expansionVars
  PROVE  WaysInv'
  <1>1. ExpInv'
    BY OthersFind DEF WaysInv
  <1>2. CASE Respond
    BY <1>1, <1>2 DEF Respond, WaysInv, ExpWays, ExpAll
  <1>3. CASE \E d \in MailDomains : MapChanges(d)
    BY <1>1, <1>3 DEF MapChanges, WaysInv, ExpWays, ExpAll
  <1>4. CASE UNCHANGED expansionVars
    <2>1. UNCHANGED <<db, domainMap, pc, email, gotos, newGotos, final, loopCount, steady>>
      BY <1>4 DEF expansionVars
    <2>2. ExpWays'
      BY <2>1, SameWays DEF WaysInv, ExpWays, Explored
    <2>3. ExpAll'
      BY <2>1, SameWays DEF WaysInv, ExpAll, Few
    <2> QED BY <1>1, <2>1, <2>2, <2>3 DEF WaysInv
  <1> QED BY <1>2, <1>3, <1>4

\* Under a steady DOMAIN_MAP expand_alias() misses no mailbox, for any tables, in
\* whatever order it looks at addresses and whatever loops they form, unless
\* max_loops ends it with addresses left and the recipient leads to more than
\* max_loops + 1.
THEOREM OnlyMailboxAlways == ExpansionSpec => []OnlyMailbox
  <1>1. (\A a \in Addresses : a[2] \in MailDomains) /\ Tables \subseteq Contents
    BY AliasexpAssumption
  <1>2. ExpansionInit => WaysInv
    BY <1>1 DEF ExpansionInit, WaysInv, ExpWays, ExpAll, ExpInv, ExpShape, ExpFound, ExpClosed,
                Seen
  <1>3. WaysInv /\ [ExpansionNext]_expansionVars => WaysInv'
    BY <1>1, RequestWays, LookAtWays, NextRoundWays, OthersWays DEF ExpansionNext, Step
  <1>4. WaysInv => OnlyMailbox
    BY DEF WaysInv, ExpAll, OnlyMailbox, Result
  <1> QED BY <1>2, <1>3, <1>4, PTL DEF ExpansionSpec

----------------------------------------------------------------------------
(***************************************************************************)
(* The resolution of SPF records, for any zone.                            *)
(***************************************************************************)
Addr(H) == {h[1] : h \in H}

\* The addresses that one mechanism gives, A being those of what it includes.
ParseAddr(z, m, name, s, A) ==
  CASE m.kind = "include" /\ m.target # name -> A[m.target]
    [] m.kind = "a" -> z.a[m.target]
    [] m.kind = "mx" /\ s > 2 -> UNION {z.a[x] : x \in z.mx[m.target]}
    [] m.kind = "ip" -> {m.target}
    [] OTHER -> {}

\* Address records, prefix lengths and IPv6 addresses in full keep the addresses.
LEMMA HostFacts ==
  /\ \A X : Addr({Host(x) : x \in X}) = X
  /\ \A H : Addr({WithCidr(h) : h \in H}) = Addr(H)
  /\ \A H : Addr({Exploded(h) : h \in H}) = Addr(H)
  <1>1. \A x : Host(x)[1] = x
    BY DEF Host
  <1>2. \A h : WithCidr(h)[1] = h[1]
    BY DEF WithCidr
  <1>3. \A h : Exploded(h)[1] = h[1]
    BY DEF Exploded
  <1>4. \A X : Addr({Host(x) : x \in X}) = X
    BY <1>1 DEF Addr
  <1>5. \A H : Addr({WithCidr(h) : h \in H}) = Addr(H)
    BY <1>2 DEF Addr
  <1>6. \A H : Addr({Exploded(h) : h \in H}) = Addr(H)
    BY <1>3 DEF Addr
  <1> QED BY <1>4, <1>5, <1>6

\* Both ways to say which mechanisms count agree.
LEMMA SameMechanism ==
  ASSUME NEW z, NEW name, NEW kind
  PROVE  Mechanism(z, name, kind) =
           {p \in Mechanisms(z, name) : At(z, name, p).kind = kind}
  <1>1. \A r, i : <<r, i>>[1] = r /\ <<r, i>>[2] = i
    OBVIOUS
  <1>2. ASSUME NEW r \in DOMAIN z.spf[name], NEW i \in DOMAIN z.spf[name][r]
        PROVE  i \in Effective(z.spf[name][r]) <=>
                 \A j \in 1..i : At(z, name, <<r, j>>).qual \notin {"-", "~"}
    BY DEF Effective, At
  <1>3. ASSUME NEW p \in Mechanism(z, name, kind)
        PROVE  p \in Mechanisms(z, name) /\ At(z, name, p).kind = kind
    <2>1. PICK r \in DOMAIN z.spf[name] : p \in {r} \X DOMAIN z.spf[name][r]
      BY <1>3 DEF Mechanism
    <2>2. PICK i \in DOMAIN z.spf[name][r] : p = <<r, i>>
      BY <2>1
    <2>3. i \in Effective(z.spf[name][r])
      BY <1>1, <1>2, <1>3, <2>2 DEF Mechanism
    <2> QED BY <1>3, <2>2, <2>3 DEF Mechanism, Mechanisms
  <1>4. ASSUME NEW p \in Mechanisms(z, name), At(z, name, p).kind = kind
        PROVE  p \in Mechanism(z, name, kind)
    <2>1. PICK r \in DOMAIN z.spf[name] : p \in {r} \X Effective(z.spf[name][r])
      BY <1>4 DEF Mechanisms
    <2>2. PICK i \in Effective(z.spf[name][r]) : p = <<r, i>>
      BY <2>1
    <2>3. i \in DOMAIN z.spf[name][r]
      BY <2>2 DEF Effective
    <2>4. p \in UNION {{q} \X DOMAIN z.spf[name][q] : q \in DOMAIN z.spf[name]}
      BY <2>2, <2>3
    <2> QED BY <1>1, <1>2, <1>4, <2>2, <2>3, <2>4 DEF Mechanism
  <1> QED BY <1>3, <1>4 DEF Mechanism

\* What the included names give.
IncludedAddr(included) == [n \in Names |-> Addr(included[n][FALSE])]

\* One mechanism.
LEMMA ParseFacts ==
  ASSUME NEW z, NEW name \in Names, NEW s \in Nat, NEW included,
         NEW m, m.kind = "include" => m.target \in Names
  PROVE  Addr(ParseMechanism(z, m, name, s, included)) =
           ParseAddr(z, m, name, s, IncludedAddr(included))
  <1> DEFINE A == IncludedAddr(included)
             hosts ==
        CASE m.kind = "include" /\ m.target # name -> included[m.target][FALSE]
          [] m.kind = "a" -> ResolveA(z, m.target)
          [] m.kind = "mx" -> GetMxHosts(z, m.target, Deeper(s, 2))
          [] m.kind = "ip" -> {Host(m.target)}
          [] OTHER -> {}
  <1>1. ParseMechanism(z, m, name, s, included) =
          IF m.cidr THEN {WithCidr(h) : h \in hosts} ELSE hosts
    BY DEF ParseMechanism
  <1>2. Addr(hosts) = ParseAddr(z, m, name, s, A)
    <2>1. CASE m.kind = "include" /\ m.target # name
      <3>1. hosts = included[m.target][FALSE] /\ ParseAddr(z, m, name, s, A) = A[m.target]
        BY <2>1 DEF ParseAddr
      <3>2. A[m.target] = Addr(included[m.target][FALSE])
        BY <2>1 DEF IncludedAddr
      <3> HIDE DEF hosts, A
      <3> QED BY <3>1, <3>2
    <2>2. CASE m.kind = "a"
      <3>1. hosts = {Host(x) : x \in z.a[m.target]} /\ ParseAddr(z, m, name, s, A) = z.a[m.target]
        BY <2>2 DEF ParseAddr, ResolveA
      <3> HIDE DEF hosts
      <3> QED BY <2>2, <3>1, HostFacts
    <2>3. CASE m.kind = "mx" /\ s > 2
      <3> DEFINE X == UNION {z.a[x] : x \in z.mx[m.target]}
      <3>1. hosts = GetMxHosts(z, m.target, Deeper(s, 2)) /\ ParseAddr(z, m, name, s, A) = X
        BY <2>3 DEF ParseAddr
      <3>2. Deeper(s, 2) > 0
        BY <2>3 DEF Deeper
      <3>3. GetMxHosts(z, m.target, Deeper(s, 2)) = {Host(x) : x \in X}
        BY <3>2 DEF GetMxHosts, ResolveA, ResolveMx, CanQuery
      <3> HIDE DEF hosts, X
      <3> QED BY <2>3, <3>1, <3>3, HostFacts
    <2>4. CASE m.kind = "ip"
      <3>1. hosts = {Host(x) : x \in {m.target}} /\ ParseAddr(z, m, name, s, A) = {m.target}
        BY <2>4 DEF ParseAddr
      <3> HIDE DEF hosts
      <3> QED BY <2>4, <3>1, HostFacts
    <2>5. CASE /\ ~(m.kind = "include" /\ m.target # name) /\ ~(m.kind = "mx" /\ s > 2)
               /\ m.kind \notin {"a", "ip"}
      <3>1. ParseAddr(z, m, name, s, A) = {}
        BY <2>5 DEF ParseAddr
      <3>2. hosts = {}
        <4>1. CASE m.kind = "mx"
          <5>1. Deeper(s, 2) = 0 /\ ~(0 > 0)
            BY <2>5, <4>1 DEF Deeper
          <5>2. ResolveMx(z, m.target, Deeper(s, 2)) = {}
            BY <5>1 DEF ResolveMx, CanQuery
          <5>3. GetMxHosts(z, m.target, Deeper(s, 2)) = {}
            BY <5>2 DEF GetMxHosts
          <5> QED BY <4>1, <5>3
        <4>2. CASE m.kind # "mx"
          BY <2>5, <4>2
        <4> QED BY <4>1, <4>2
      <3>3. Addr({}) = {}
        BY DEF Addr
      <3> QED BY <3>1, <3>2, <3>3
    <2> QED BY <2>1, <2>2, <2>3, <2>4, <2>5
  <1> HIDE DEF hosts, A
  <1>3. Addr({WithCidr(h) : h \in hosts}) = Addr(hosts)
    BY HostFacts
  <1> QED BY <1>1, <1>2, <1>3 DEF A

\* Induction: among numbers there is a least one.
LEMMA Least ==
  ASSUME NEW B \in SUBSET Nat, B # {}
  PROVE  \E n \in B : \A k \in B : ~ (k < n)
  <1> DEFINE R == OpToRel(<, Nat)
  <1>1. IsWellFoundedOn(R, Nat)
    BY NatLessThanWellFounded
  <1>2. \A k, n \in Nat : k < n => <<k, n>> \in R
    BY DEF OpToRel
  <1> HIDE DEF R
  <1>3. PICK n \in B : \A k \in B : ~ (<<k, n>> \in R)
    BY <1>1, WFMin
  <1> QED BY <1>2, <1>3

\* The mechanisms are read one after the other.
LEMMA FirstRead ==
  ASSUME NEW R \in SUBSET (Nat \X Nat), R # {}
  PROVE  \E p \in R : \A q \in R \ {p} : Before(p, q)
  <1>1. PICK r \in {q[1] : q \in R} : \A k \in {q[1] : q \in R} : ~ (k < r)
    <2>1. {q[1] : q \in R} \in SUBSET Nat /\ {q[1] : q \in R} # {}
      OBVIOUS
    <2> QED BY <2>1, Least
  <1> DEFINE I == {q[2] : q \in {q \in R : q[1] = r}}
  <1>2. PICK i \in I : \A k \in I : ~ (k < i)
    <2>1. I \in SUBSET Nat /\ I # {}
      OBVIOUS
    <2> HIDE DEF I
    <2> QED BY <2>1, Least
  <1>3. PICK p \in R : p[1] = r /\ p[2] = i
    OBVIOUS
  <1>4. ASSUME NEW q \in R \ {p} PROVE Before(p, q)
    <2>1. /\ p \in Nat \X Nat /\ q \in Nat \X Nat /\ ~(q[1] < p[1])
          /\ q[1] = p[1] => ~(q[2] < p[2])
      BY <1>1, <1>2, <1>3
    <2>2. q[1] # p[1] \/ q[2] # p[2]
      BY <2>1
    <2> QED BY <2>1, <2>2 DEF Before
  <1> QED BY <1>4

\* Where the mechanisms are, and what the ones that lead to other names name.
LEMMA PlaceFacts ==
  ASSUME NEW z \in Zones, NEW name \in Names
  PROVE  /\ Mechanisms(z, name) \subseteq Nat \X Nat
         /\ \A p \in Mechanisms(z, name) :
              At(z, name, p).kind \in {"include", "redirect"} => At(z, name, p).target \in Names
  <1> SUFFICES ASSUME NEW p \in Mechanisms(z, name)
               PROVE  /\ p \in Nat \X Nat
                      /\ At(z, name, p).kind \in {"include", "redirect"} =>
                           At(z, name, p).target \in Names
    OBVIOUS
  <1>1. PICK r \in DOMAIN z.spf[name] : p \in {r} \X Effective(z.spf[name][r])
    BY DEF Mechanisms
  <1>2. PICK i \in Effective(z.spf[name][r]) : p = <<r, i>>
    BY <1>1
  <1>3. i \in DOMAIN z.spf[name][r]
    BY DEF Effective
  <1>4. /\ r \in Nat /\ i \in Nat
        /\ z.spf[name][r][i].kind \in {"include", "redirect"} => z.spf[name][r][i].target \in Names
    BY <1>3, ForwardingHostsAssumption
  <1>5. At(z, name, p) = z.spf[name][r][i]
    BY <1>2 DEF At
  <1> QED BY <1>2, <1>4, <1>5

\* The hosts of several mechanisms have the addresses of each.
LEMMA UnionFacts ==
  ASSUME NEW P
  PROVE  Addr(UNION P) = UNION {Addr(H) : H \in P}
  <1>2. ASSUME NEW x \in Addr(UNION P) PROVE x \in UNION {Addr(H) : H \in P}
    <2>1. PICK H \in P : \E h \in H : x = h[1]
      BY <1>2 DEF Addr
    <2>2. x \in Addr(H)
      BY <2>1 DEF Addr
    <2> QED BY <2>2
  <1>3. ASSUME NEW x \in UNION {Addr(H) : H \in P} PROVE x \in Addr(UNION P)
    <2>1. PICK H \in P : x \in Addr(H)
      BY <1>3
    <2>2. PICK h \in H : x = h[1]
      BY <2>1 DEF Addr
    <2> QED BY <2>2 DEF Addr
  <1> QED BY <1>2, <1>3

\* The addresses that the mechanisms at P give, and those of the names delegated to.
ParsedAddr(z, name, s, A, P) == UNION {ParseAddr(z, At(z, name, p), name, s, A) : p \in P}
DelegatedAddr(z, name, A) == UNION {A[m] : m \in {k \in Names : DelegatesTo(z, name, k)}}

\* The addresses that all mechanisms give, if none redirects: without the room for a
\* query two calls deeper, not those of the mail exchangers.
LEMMA OwnFacts ==
  ASSUME NEW z, NEW name, NEW s \in Nat, NEW A, Mechanism(z, name, "redirect") = {},
         \A p \in Mechanism(z, name, "include") : At(z, name, p).target \in Names
  PROVE  LET given == ParsedAddr(z, name, s, A, Mechanisms(z, name))
             all == OwnAddresses(z, name) \cup DelegatedAddr(z, name, A)
         IN given \subseteq all /\ (s > 2 => given = all)
  <1> DEFINE L == UNION {ParseAddr(z, At(z, name, p), name, s, A) : p \in Mechanisms(z, name)}
             I == UNION {A[m] : m \in {k \in Names : DelegatesTo(z, name, k)}}
             N == Targets(z, name, "a") \cup (UNION {z.mx[n] : n \in Targets(z, name, "mx")})
             X == UNION {z.a[n] : n \in N}
             Z == Targets(z, name, "ip")
  <1>1. OwnAddresses(z, name) = Z \cup X
    BY DEF OwnAddresses
  <1>2. \A n : DelegatesTo(z, name, n) <=> n # name /\ n \in Targets(z, name, "include")
    BY DEF DelegatesTo
  <1>3. \A kind, n : n \in Targets(z, name, kind) <=>
          \E p \in Mechanisms(z, name) : At(z, name, p).kind = kind /\ At(z, name, p).target = n
    BY SameMechanism DEF Targets
  <1>4. ASSUME NEW x \in L PROVE x \in OwnAddresses(z, name) \cup I
    <2>1. PICK p \in Mechanisms(z, name) : x \in ParseAddr(z, At(z, name, p), name, s, A)
      BY <1>4
    <2> DEFINE m == At(z, name, p)
    <2>2. CASE m.kind = "include" /\ m.target # name
      <3>1. x \in A[m.target]
        BY <2>1, <2>2 DEF ParseAddr
      <3>2. m.target \in Names /\ DelegatesTo(z, name, m.target)
        BY <1>2, <1>3, <2>2, SameMechanism
      <3> QED BY <3>1, <3>2
    <2>3. CASE m.kind = "a"
      <3>1. x \in z.a[m.target] /\ m.target \in Targets(z, name, "a")
        BY <1>3, <2>1, <2>3 DEF ParseAddr
      <3> QED BY <1>1, <3>1
    <2>4. CASE m.kind = "mx" /\ s > 2
      <3>1. x \in UNION {z.a[n] : n \in z.mx[m.target]} /\ m.target \in Targets(z, name, "mx")
        BY <1>3, <2>1, <2>4 DEF ParseAddr
      <3> QED BY <1>1, <3>1
    <2>5. CASE m.kind = "ip"
      <3>1. x = m.target /\ m.target \in Targets(z, name, "ip")
        BY <1>3, <2>1, <2>5 DEF ParseAddr
      <3> QED BY <1>1, <3>1
    <2>6. CASE ~(m.kind = "include" /\ m.target # name) /\ ~(m.kind = "mx" /\ s > 2) /\ m.kind \notin {"a", "ip"}
      BY <2>1, <2>6 DEF ParseAddr
    <2> QED BY <2>2, <2>3, <2>4, <2>5, <2>6
  <1>5. ASSUME NEW p \in Mechanisms(z, name), NEW x \in ParseAddr(z, At(z, name, p), name, s, A)
        PROVE  x \in L
    BY <1>5
  <1>6. ASSUME NEW x \in Z PROVE x \in L
    <2>1. PICK p \in Mechanisms(z, name) : At(z, name, p).kind = "ip" /\ At(z, name, p).target = x
      BY <1>3, <1>6
    <2>2. x \in ParseAddr(z, At(z, name, p), name, s, A)
      BY <2>1 DEF ParseAddr
    <2> QED BY <1>5, <2>2
  <1>7. ASSUME s > 2, NEW x \in X PROVE x \in L
    <2>1. PICK n \in N : x \in z.a[n]
      BY <1>7
    <2>2. CASE n \in Targets(z, name, "a")
      <3>1. PICK p \in Mechanisms(z, name) :
              At(z, name, p).kind = "a" /\ At(z, name, p).target = n
        BY <1>3, <2>2
      <3>2. x \in ParseAddr(z, At(z, name, p), name, s, A)
        BY <2>1, <3>1 DEF ParseAddr
      <3> QED BY <1>5, <3>2
    <2>3. CASE \E m \in Targets(z, name, "mx") : n \in z.mx[m]
      <3>1. PICK m \in Targets(z, name, "mx") : n \in z.mx[m]
        BY <2>3
      <3>2. PICK p \in Mechanisms(z, name) :
              At(z, name, p).kind = "mx" /\ At(z, name, p).target = m
        BY <1>3, <3>1
      <3>3. x \in ParseAddr(z, At(z, name, p), name, s, A)
        BY <1>7, <2>1, <3>1, <3>2 DEF ParseAddr
      <3> QED BY <1>5, <3>3
    <2> QED BY <2>1, <2>2, <2>3
  <1>8. ASSUME NEW x \in I PROVE x \in L
    <2>1. PICK m \in Names : DelegatesTo(z, name, m) /\ x \in A[m]
      BY <1>8
    <2>2. PICK p \in Mechanisms(z, name) :
            At(z, name, p).kind = "include" /\ At(z, name, p).target = m
      BY <1>2, <1>3, <2>1
    <2>3. m # name
      BY <1>2, <2>1
    <2>4. x \in ParseAddr(z, At(z, name, p), name, s, A)
      BY <2>1, <2>2, <2>3 DEF ParseAddr
    <2> QED BY <1>5, <2>4
  <1> HIDE DEF L, I, X, N, Z
  <1>9. L \subseteq OwnAddresses(z, name) \cup I /\ (s > 2 => L = OwnAddresses(z, name) \cup I)
    BY <1>1, <1>4, <1>6, <1>7, <1>8
  <1>10. L = ParsedAddr(z, name, s, A, Mechanisms(z, name)) /\ I = DelegatedAddr(z, name, A)
    BY Zenon DEF L, I, ParsedAddr, DelegatedAddr
  <1> QED BY <1>9, <1>10

\* What the mechanisms at P give.
Parsed(z, name, s, included, P) ==
  UNION {ParseMechanism(z, At(z, name, p), name, s, included) : p \in P}

\* Several mechanisms.
LEMMA ParsedFacts ==
  ASSUME NEW z \in Zones, NEW name \in Names, NEW s \in Nat, NEW included,
         NEW P \in SUBSET Mechanisms(z, name)
  PROVE  Addr(Parsed(z, name, s, included, P)) =
           ParsedAddr(z, name, s, IncludedAddr(included), P)
  <1> DEFINE A == IncludedAddr(included)
             parsed == {ParseMechanism(z, At(z, name, p), name, s, included) : p \in P}
             Q == {Addr(H) : H \in parsed}
             L == {ParseAddr(z, At(z, name, p), name, s, A) : p \in P}
  <1>1. ASSUME NEW p \in P
        PROVE  Addr(ParseMechanism(z, At(z, name, p), name, s, included)) =
                 ParseAddr(z, At(z, name, p), name, s, A)
    <2>1. At(z, name, p).kind = "include" => At(z, name, p).target \in Names
      BY PlaceFacts
    <2> QED BY <2>1, ParseFacts
  <1>2. Q = L
    <2> HIDE DEF A
    <2> QED BY <1>1
  <1>3. UNION L = ParsedAddr(z, name, s, A, P)
    BY Zenon DEF ParsedAddr
  <1>4. UNION parsed = Parsed(z, name, s, included, P)
    BY Zenon DEF Parsed
  <1> HIDE DEF parsed, L, A
  <1>5. Addr(UNION parsed) = UNION Q
    BY UnionFacts
  <1> HIDE DEF Q
  <1>6. Addr(UNION parsed) = UNION L
    BY <1>2, <1>5
  <1> QED BY <1>3, <1>4, <1>6 DEF A

\* The first redirect is the only one that no other is before.
LEMMA FirstRedirect ==
  ASSUME NEW R \in SUBSET (Nat \X Nat), R # {}
  PROVE  LET first == CHOOSE p \in R : \A q \in R \ {p} : Before(p, q) IN
         first \in R /\ \A p \in R : (\A q \in R : ~Before(q, p)) <=> p = first
  <1> DEFINE first == CHOOSE p \in R : \A q \in R \ {p} : Before(p, q)
  <1>1. first \in R /\ \A q \in R \ {first} : Before(first, q)
    BY FirstRead
  <1> HIDE DEF first
  <1>2. \A p, q \in Nat \X Nat : Before(p, q) => ~Before(q, p)
    BY DEF Before
  <1>3. \A q \in R : ~Before(q, first)
    <2> SUFFICES ASSUME NEW q \in R PROVE ~Before(q, first)
      OBVIOUS
    <2>1. CASE q = first
      BY <1>1, <1>2, <2>1
    <2>2. CASE q # first
      BY <1>1, <1>2, <2>2
    <2> QED BY <2>1, <2>2
  <1>4. \A p \in R : (\A q \in R : ~Before(q, p)) <=> p = first
    BY <1>1, <1>3
  <1> QED BY <1>1, <1>4 DEF first

\* The addresses that the call for m returns, if name delegates to m.
CallAddr(z, name, included, redirected, m) ==
  IF Mechanism(z, name, "redirect") = {} THEN Addr(included[m][FALSE])
  ELSE Addr(redirected[m][TRUE])

\* What a call for name returns, H, given what those for other names do.
LevelOk(z, name, s, included, redirected, H) ==
  \A x :
    LET has == \/ x \in OwnAddresses(z, name)
               \/ \E m \in Names : /\ DelegatesTo(z, name, m)
                                   /\ x \in CallAddr(z, name, included, redirected, m)
    IN (x \in Addr(H) => has) /\ (s > 2 /\ has => x \in Addr(H))

\* A call for a name whose records redirect.
LEMMA LevelRedirect ==
  ASSUME NEW z \in Zones, NEW name \in Names, NEW s \in Nat, NEW included, NEW redirected,
         NEW e \in BOOLEAN, Mechanism(z, name, "redirect") # {}
  PROVE  LevelOk(z, name, s, included, redirected,
                 SpfAllowedHosts(z, name, e, s, included, redirected))
  <1> DEFINE R == Mechanism(z, name, "redirect")
             first == CHOOSE p \in R : \A q \in R \ {p} : Before(p, q)
             t == At(z, name, first).target
             H == SpfAllowedHosts(z, name, e, s, included, redirected)
  <1>1. R = {p \in Mechanisms(z, name) : At(z, name, p).kind = "redirect"}
    BY SameMechanism
  <1>2. H = redirected[t][TRUE]
    BY <1>1 DEF SpfAllowedHosts
  <1>3. first \in R /\ \A p \in R : (\A q \in R : ~Before(q, p)) <=> p = first
    <2>1. R \in SUBSET (Nat \X Nat) /\ R # {}
      BY <1>1, PlaceFacts
    <2> HIDE DEF R
    <2> QED BY <2>1, FirstRedirect
  <1>4. t \in Names
    BY <1>1, <1>3, PlaceFacts
  <1>5. \A n : DelegatesTo(z, name, n) <=> n = t
    <2>1. \A n : DelegatesTo(z, name, n) <=>
            \E p \in R : At(z, name, p).target = n /\ \A q \in R : ~Before(q, p)
      BY DEF DelegatesTo
    <2> HIDE DEF R, first
    <2> QED BY <1>3, <2>1
  <1>6. OwnAddresses(z, name) = {}
    BY DEF OwnAddresses
  <1>7. \A m : CallAddr(z, name, included, redirected, m) = Addr(redirected[m][TRUE])
    BY DEF CallAddr
  <1> HIDE DEF H, t
  <1> QED BY <1>2, <1>4, <1>5, <1>6, <1>7 DEF H, LevelOk

\* A call for a name whose records do not.
LEMMA LevelPlain ==
  ASSUME NEW z \in Zones, NEW name \in Names, NEW s \in Nat, NEW included, NEW redirected,
         NEW e \in BOOLEAN, Mechanism(z, name, "redirect") = {}
  PROVE  LevelOk(z, name, s, included, redirected,
                 SpfAllowedHosts(z, name, e, s, included, redirected))
  <1> DEFINE P == Mechanisms(z, name)
             U == Parsed(z, name, s, included, P)
             A == IncludedAddr(included)
             L == ParsedAddr(z, name, s, A, P)
             I == DelegatedAddr(z, name, A)
             H == SpfAllowedHosts(z, name, e, s, included, redirected)
  <1>1. H = {IF e THEN Exploded(h) ELSE h : h \in U}
    <2> DEFINE R == {p \in Mechanisms(z, name) : At(z, name, p).kind = "redirect"}
    <2>1. R = {}
      BY SameMechanism
    <2> QED BY <2>1 DEF SpfAllowedHosts, Parsed
  <1>2. Addr(H) = Addr(U)
    <2>1. CASE e = TRUE
      <3>1. H = {Exploded(h) : h \in U}
        BY <1>1, <2>1
      <3> HIDE DEF H, U
      <3> QED BY <3>1, HostFacts
    <2>2. CASE e = FALSE
      <3>1. H = U
        BY <1>1, <2>2
      <3> QED BY <3>1
    <2> QED BY <2>1, <2>2
  <1>3. Addr(U) = L
    BY ParsedFacts
  <1>4. L \subseteq OwnAddresses(z, name) \cup I /\ (s > 2 => L = OwnAddresses(z, name) \cup I)
    <2>1. Mechanism(z, name, "include") = {p \in P : At(z, name, p).kind = "include"}
      BY SameMechanism
    <2>2. \A p \in Mechanism(z, name, "include") : At(z, name, p).target \in Names
      BY <2>1, PlaceFacts
    <2> HIDE DEF A
    <2> QED BY <2>2, OwnFacts
  <1>5. \A m \in Names : CallAddr(z, name, included, redirected, m) = A[m]
    BY DEF CallAddr, IncludedAddr
  <1> HIDE DEF A
  <1>6. \A x : x \in I <=> \E m \in Names : DelegatesTo(z, name, m) /\ x \in A[m]
    BY DEF DelegatedAddr
  <1> HIDE DEF H, U, L, I
  <1> QED BY <1>2, <1>3, <1>4, <1>5, <1>6 DEF H, LevelOk

\* One level of the calls.
LEMMA LevelFacts ==
  ASSUME NEW z \in Zones, NEW name \in Names, NEW s \in Nat, NEW included, NEW redirected,
         NEW e \in BOOLEAN
  PROVE  LevelOk(z, name, s, included, redirected,
                 SpfAllowedHosts(z, name, e, s, included, redirected))
  BY LevelRedirect, LevelPlain

\* A set of names that delegate to none outside of it.
DelegationClosed(z, S) == \A m \in S, k \in Names : DelegatesTo(z, m, k) => k \in S

\* The names that a name delegates to are the least such set around it.
LEMMA DelegatedLeast ==
  ASSUME NEW z, NEW name \in Names
  PROVE  /\ Delegated(z, name) \subseteq Names /\ name \in Delegated(z, name)
         /\ DelegationClosed(z, Delegated(z, name))
         /\ \A S \in SUBSET Names :
              name \in S /\ DelegationClosed(z, S) => Delegated(z, name) \subseteq S
  <1>1. Delegated(z, name) = {n \in Names : \A S \in SUBSET Names :
                                name \in S /\ DelegationClosed(z, S) => n \in S}
    BY DEF Delegated, DelegationClosed
  <1>2. name \in Delegated(z, name) /\ Delegated(z, name) \subseteq Names
    BY <1>1
  <1>3. \A S \in SUBSET Names :
          name \in S /\ DelegationClosed(z, S) => Delegated(z, name) \subseteq S
    BY <1>1
  <1>4. ASSUME NEW m \in Delegated(z, name), NEW k \in Names, DelegatesTo(z, m, k)
        PROVE  k \in Delegated(z, name)
    <2>1. ASSUME NEW S \in SUBSET Names, name \in S, DelegationClosed(z, S) PROVE k \in S
      <3>1. m \in S
        BY <1>3, <2>1
      <3> QED BY <1>4, <2>1, <3>1 DEF DelegationClosed
    <2> QED BY <1>1, <2>1
  <1> QED BY <1>2, <1>3, <1>4 DEF DelegationClosed

\* What the calls with room s return, given those they make.
Level(z, s, included, redirected) ==
  [n \in Names |-> [e \in BOOLEAN |->
     IF CanQuery(s) THEN SpfAllowedHosts(z, n, e, s, included, redirected) ELSE {}]]

\* Function g is the recursion of GetSpfAllowedHosts with room for up to d calls.
SpfLoop(g, d, z) == g = [s \in 0..d |-> Level(z, s, g[Deeper(s, 2)], g[Deeper(s, 1)])]

\* There is less room in the calls that a call makes.
LEMMA DeeperFacts ==
  ASSUME NEW s \in Nat, s # 0, NEW k \in {1, 2}
  PROVE  Deeper(s, k) \in Nat /\ Deeper(s, k) < s
  BY DEF Deeper

\* The recursion has a function.
LEMMA SpfLoopExists ==
  ASSUME NEW z, NEW d \in Nat
  PROVE  \E g : SpfLoop(g, d, z)
  <1> DEFINE B == {n \in Nat : ~ \E g : SpfLoop(g, n, z)}
  <1> SUFFICES ASSUME B # {} PROVE FALSE
    OBVIOUS
  <1>1. PICK n \in B : \A k \in B : ~(k < n)
    <2>1. B \in SUBSET Nat
      OBVIOUS
    <2> HIDE DEF B
    <2> QED BY <2>1, Least
  <1>2. \A x, y, u, v : Level(z, 0, x, u) = Level(z, 0, y, v)
    <2>1. ~CanQuery(0)
      BY DEF CanQuery
    <2> QED BY <2>1, Zenon DEF Level
  <1>3. PICK g : n # 0 => SpfLoop(g, n - 1, z)
    <2>1. CASE n = 0
      BY <2>1
    <2>2. CASE n # 0
      <3>1. n - 1 \in Nat /\ n - 1 < n
        BY <2>2
      <3> QED BY <1>1, <3>1
    <2> QED BY <2>1, <2>2
  <1> DEFINE L(i, f) == Level(z, i, f[Deeper(i, 2)], f[Deeper(i, 1)])
             h == [i \in 0..n |-> IF i = n THEN L(n, g) ELSE g[i]]
  <1>4. \A i \in 0..n : i # n => i \in 0..(n - 1) /\ n # 0
    OBVIOUS
  <1>5. \A i \in 0..n : i # 0 =>
          /\ Deeper(i, 2) \in 0..n /\ Deeper(i, 2) # n
          /\ Deeper(i, 1) \in 0..n /\ Deeper(i, 1) # n
    <2> SUFFICES ASSUME NEW i \in 0..n, i # 0, NEW k \in {1, 2}
                 PROVE  Deeper(i, k) \in 0..n /\ Deeper(i, k) # n
      OBVIOUS
    <2>1. Deeper(i, k) \in Nat /\ Deeper(i, k) < i
      BY DeeperFacts
    <2> QED BY <2>1
  <1>6. \A i \in 0..n : i # n => h[i] = g[i] /\ g[i] = L(i, g)
    BY <1>3, <1>4 DEF SpfLoop
  <1>7. n \in 0..n /\ h[n] = L(n, g)
    <2>1. n \in 0..n
      OBVIOUS
    <2> QED BY <2>1
  <1>8. h = [i \in 0..n |-> h[i]]
    OBVIOUS
  <1> HIDE DEF h
  <1>9. \A i \in 0..n : h[i] = L(i, h)
    <2> SUFFICES ASSUME NEW i \in 0..n PROVE h[i] = L(i, h)
      OBVIOUS
    <2>1. h[i] = L(i, g)
      BY <1>6, <1>7
    <2>2. CASE i = 0
      BY <1>2, <2>1, <2>2
    <2>3. CASE i # 0
      <3>1. h[Deeper(i, 2)] = g[Deeper(i, 2)] /\ h[Deeper(i, 1)] = g[Deeper(i, 1)]
        BY <1>5, <1>6, <2>3
      <3> QED BY <2>1, <3>1
    <2> QED BY <2>2, <2>3
  <1>10. SpfLoop(h, n, z)
    <2>1. h = [i \in 0..n |-> L(i, h)]
      BY <1>8, <1>9
    <2> QED BY <2>1 DEF SpfLoop
  <1> QED BY <1>10

\* The calls with room s.
LEMMA CallFacts ==
  ASSUME NEW z \in Zones, NEW f, SpfLoop(f, MaxStack, z), NEW s \in 0..MaxStack,
         NEW n \in Names, NEW e \in BOOLEAN
  PROVE  /\ s = 0 => Addr(f[s][n][e]) = {}
         /\ s # 0 => LevelOk(z, n, s, f[Deeper(s, 2)], f[Deeper(s, 1)], f[s][n][e])
  <1>1. f[s] = Level(z, s, f[Deeper(s, 2)], f[Deeper(s, 1)])
    BY DEF SpfLoop
  <1>2. \A x, y : Level(z, s, x, y)[n][e] =
                    IF CanQuery(s) THEN SpfAllowedHosts(z, n, e, s, x, y) ELSE {}
    BY Zenon DEF Level
  <1>3. f[s][n][e] = IF s = 0 THEN {}
                     ELSE SpfAllowedHosts(z, n, e, s, f[Deeper(s, 2)], f[Deeper(s, 1)])
    <2>1. s \in Nat /\ (CanQuery(s) <=> s # 0)
      BY ForwardingHostsAssumption DEF CanQuery
    <2> QED BY <1>1, <1>2, <2>1
  <1>4. Addr({}) = {}
    BY DEF Addr
  <1>5. s \in Nat
    BY ForwardingHostsAssumption
  <1> QED BY <1>3, <1>4, <1>5, LevelFacts

\* An address of a name that name delegates to.
Reaches(z, name, x) == \E m \in Delegated(z, name) : x \in OwnAddresses(z, m)

\* Nothing else is found, whatever the room.
LEMMA FoundIsReached ==
  ASSUME NEW z \in Zones, NEW f, SpfLoop(f, MaxStack, z), NEW x
  PROVE  \A s \in 0..MaxStack : \A n \in Names, e \in BOOLEAN :
           x \in Addr(f[s][n][e]) => Reaches(z, n, x)
  <1>1. MaxStack \in Nat
    BY ForwardingHostsAssumption
  <1> DEFINE Good(s) == \A n \in Names, e \in BOOLEAN : x \in Addr(f[s][n][e]) => Reaches(z, n, x)
             B == {s \in Nat : s <= MaxStack /\ ~Good(s)}
  <1>2. ASSUME B # {} PROVE FALSE
    <2>1. PICK s \in B : \A j \in B : ~(j < s)
      <3>1. B \in SUBSET Nat
        OBVIOUS
      <3> HIDE DEF B
      <3> QED BY <1>2, <3>1, Least
    <2>2. s \in 0..MaxStack /\ s \in Nat /\ s <= MaxStack
      BY <1>1, <2>1
    <2>3. PICK n \in Names, e \in BOOLEAN : x \in Addr(f[s][n][e]) /\ ~Reaches(z, n, x)
      BY <2>1
    <2>4. s # 0
      BY <2>2, <2>3, CallFacts
    <2>5. LevelOk(z, n, s, f[Deeper(s, 2)], f[Deeper(s, 1)], f[s][n][e])
      BY <2>2, <2>4, CallFacts
    <2>6. x \notin OwnAddresses(z, n)
      BY <2>3, DelegatedLeast DEF Reaches
    <2>7. PICK m \in Names : /\ DelegatesTo(z, n, m)
                             /\ x \in CallAddr(z, n, f[Deeper(s, 2)], f[Deeper(s, 1)], m)
      BY <2>3, <2>5, <2>6 DEF LevelOk
    <2>8. PICK k \in {1, 2}, d \in BOOLEAN : x \in Addr(f[Deeper(s, k)][m][d])
      BY <2>7 DEF CallAddr
    <2>9. Deeper(s, k) \in Nat /\ Deeper(s, k) < s
      BY <2>2, <2>4, DeeperFacts
    <2>10. Good(Deeper(s, k))
      BY <1>1, <2>1, <2>2, <2>9
    <2>11. Reaches(z, m, x)
      BY <2>8, <2>10
    <2>12. Delegated(z, m) \subseteq Delegated(z, n)
      <3>1. m \in Delegated(z, n)
        BY <2>7, DelegatedLeast DEF DelegationClosed
      <3> QED BY <3>1, DelegatedLeast
    <2> QED BY <2>3, <2>11, <2>12 DEF Reaches
  <1> QED BY <1>1, <1>2

\* The names that name delegates to for which x is found with room for 2j + 3 calls.
Finding(z, name, f, x, j) ==
  {n \in Delegated(z, name) : \A s \in 0..MaxStack : \A e \in BOOLEAN :
     s >= 2 * j + 3 => x \in Addr(f[s][n][e])}

\* A name that has x itself finds it; with two calls more, so does a name that
\* delegates to one that does.
LEMMA FindingStep ==
  ASSUME NEW z \in Zones, NEW name \in Names, NEW f, SpfLoop(f, MaxStack, z), NEW x,
         NEW j \in Nat
  PROVE  /\ \A n \in Delegated(z, name) :
              x \in OwnAddresses(z, n) => n \in Finding(z, name, f, x, j)
         /\ Finding(z, name, f, x, j) \subseteq Finding(z, name, f, x, j + 1)
         /\ \A n \in Delegated(z, name), m \in Finding(z, name, f, x, j) :
              DelegatesTo(z, n, m) => n \in Finding(z, name, f, x, j + 1)
  <1>1. MaxStack \in Nat
    BY ForwardingHostsAssumption
  <1>2. Delegated(z, name) \subseteq Names
    BY DelegatedLeast
  <1>3. ASSUME NEW n \in Names, NEW s \in 0..MaxStack, NEW e \in BOOLEAN, s > 2,
               \/ x \in OwnAddresses(z, n)
               \/ \E m \in Names : /\ DelegatesTo(z, n, m)
                                   /\ x \in CallAddr(z, n, f[Deeper(s, 2)], f[Deeper(s, 1)], m)
        PROVE  x \in Addr(f[s][n][e])
    <2>1. s # 0
      BY <1>3
    <2>2. LevelOk(z, n, s, f[Deeper(s, 2)], f[Deeper(s, 1)], f[s][n][e])
      BY <2>1, CallFacts
    <2> QED BY <1>3, <2>2 DEF LevelOk
  <1>4. ASSUME NEW n \in Delegated(z, name), x \in OwnAddresses(z, n)
        PROVE  n \in Finding(z, name, f, x, j)
    <2> SUFFICES ASSUME NEW s \in 0..MaxStack, NEW e \in BOOLEAN, s >= 2 * j + 3
                 PROVE  x \in Addr(f[s][n][e])
      BY DEF Finding
    <2>1. s > 2
      BY <1>1
    <2> QED BY <1>2, <1>3, <1>4, <2>1
  <1>5. Finding(z, name, f, x, j) \subseteq Finding(z, name, f, x, j + 1)
    <2>1. \A s \in 0..MaxStack : s >= 2 * (j + 1) + 3 => s >= 2 * j + 3
      BY <1>1
    <2> QED BY <2>1 DEF Finding
  <1>6. ASSUME NEW n \in Delegated(z, name), NEW m \in Finding(z, name, f, x, j),
               DelegatesTo(z, n, m)
        PROVE  n \in Finding(z, name, f, x, j + 1)
    <2> SUFFICES ASSUME NEW s \in 0..MaxStack, NEW e \in BOOLEAN, s >= 2 * (j + 1) + 3
                 PROVE  x \in Addr(f[s][n][e])
      BY DEF Finding
    <2>1. /\ s > 2 /\ Deeper(s, 1) \in 0..MaxStack /\ Deeper(s, 2) \in 0..MaxStack
          /\ Deeper(s, 1) >= 2 * j + 3 /\ Deeper(s, 2) >= 2 * j + 3
      BY <1>1 DEF Deeper
    <2>2. \A d \in BOOLEAN : x \in Addr(f[Deeper(s, 1)][m][d]) /\ x \in Addr(f[Deeper(s, 2)][m][d])
      BY <1>6, <2>1 DEF Finding
    <2>3. x \in CallAddr(z, n, f[Deeper(s, 2)], f[Deeper(s, 1)], m)
      BY <2>2 DEF CallAddr
    <2>4. m \in Names /\ n \in Names
      BY <1>2 DEF Finding
    <2> QED BY <1>3, <1>6, <2>1, <2>3, <2>4
  <1> QED BY <1>4, <1>5, <1>6

\* With two calls for every name there are, x is found for name: each two calls more
\* find it for another name, or for name already.
LEMMA ReachedIsFound ==
  ASSUME NEW z \in Zones, NEW name \in Names, NEW f, SpfLoop(f, MaxStack, z), NEW x,
         Reaches(z, name, x), IsFiniteSet(Delegated(z, name)),
         2 * Cardinality(Delegated(z, name)) < MaxStack
  PROVE  x \in Addr(f[MaxStack][name][FALSE])
  <1> DEFINE All == Delegated(z, name)
             N == Cardinality(All)
             F(j) == Finding(z, name, f, x, j)
             Good(j) == name \in F(j) \/ Cardinality(F(j)) > j
             B == {j \in Nat : ~Good(j)}
  <1>1. MaxStack \in Nat /\ N \in Nat
    BY ForwardingHostsAssumption, FS_CardinalityType
  <1>2. PICK w \in All : x \in OwnAddresses(z, w)
    BY DEF Reaches
  <1>3. \A j \in Nat : w \in F(j) /\ F(j) \subseteq All
    BY <1>2, FindingStep DEF Finding
  <1>4. \A j \in Nat : IsFiniteSet(F(j)) /\ Cardinality(F(j)) \in Nat
    BY <1>3, FS_Subset, FS_CardinalityType
  <1>5. ASSUME NEW j \in Nat, Good(j) PROVE Good(j + 1)
    <2>1. F(j) \subseteq F(j + 1)
      BY FindingStep
    <2>2. CASE name \in F(j)
      BY <2>1, <2>2
    <2>3. CASE F(j + 1) # F(j)
      <3> HIDE DEF F
      <3>1. (Cardinality(F(j)) < Cardinality(F(j + 1)) /\ Cardinality(F(j)) > j) \/ name \in F(j)
        BY <1>4, <1>5, <2>1, <2>3, FS_Subset
      <3> QED BY <1>4, <2>1, <3>1
    <2>4. CASE F(j + 1) = F(j) /\ name \notin F(j)
      <3> DEFINE S == All \ F(j)
      <3>1. name \in S /\ S \in SUBSET Names
        BY <2>4, DelegatedLeast
      <3>2. DelegationClosed(z, S)
        <4> SUFFICES ASSUME NEW m \in S, NEW k \in Names, DelegatesTo(z, m, k) PROVE k \in S
          BY DEF DelegationClosed
        <4>1. k \in All
          BY DelegatedLeast DEF DelegationClosed
        <4>2. k \notin F(j)
          BY <2>4, FindingStep
        <4> QED BY <4>1, <4>2
      <3>3. All \subseteq S
        <4> HIDE DEF S
        <4> QED BY <3>1, <3>2, DelegatedLeast
      <3> QED BY <1>3, <3>3
    <2> QED BY <2>2, <2>3, <2>4
  <1>6. ASSUME B # {} PROVE FALSE
    <2>1. PICK j \in B : \A i \in B : ~(i < j)
      <3>1. B \in SUBSET Nat
        OBVIOUS
      <3> HIDE DEF B
      <3> QED BY <1>6, <3>1, Least
    <2>2. j # 0
      <3>1. Cardinality(F(0)) # 0
        BY <1>3, <1>4, FS_EmptySet
      <3>2. Good(0)
        BY <1>4, <3>1
      <3> QED BY <2>1, <3>2
    <2>3. j - 1 \in Nat /\ j - 1 < j /\ (j - 1) + 1 = j
      BY <2>1, <2>2
    <2>4. Good(j - 1)
      BY <2>1, <2>3
    <2>5. Good(j)
      <3> HIDE DEF Good
      <3> QED BY <1>5, <2>3, <2>4
    <2> QED BY <2>1, <2>5
  <1>7. N # 0
    BY <1>2, FS_EmptySet
  <1>8. N - 1 \in Nat /\ 2 * (N - 1) + 3 <= MaxStack /\ MaxStack \in 0..MaxStack
    BY <1>1, <1>7
  <1>9. Good(N - 1)
    <2> HIDE DEF Good
    <2> QED BY <1>6, <1>8
  <1>10. name \in F(N - 1)
    <2> SUFFICES ASSUME name \notin F(N - 1) PROVE FALSE
      OBVIOUS
    <2>1. name \in All
      BY DelegatedLeast
    <2>2. F(N - 1) \subseteq All /\ F(N - 1) # All
      BY <1>3, <1>8, <2>1
    <2>3. Cardinality(F(N - 1)) <= N /\ Cardinality(F(N - 1)) # N
      <3> DEFINE C == F(N - 1)
      <3>1. C \in SUBSET All /\ C # All /\ IsFiniteSet(All)
        BY <2>2
      <3>2. Cardinality(C) <= Cardinality(All) /\ Cardinality(C) # Cardinality(All)
        <4> HIDE DEF C
        <4> QED BY <3>1, FS_Subset
      <3> QED BY <3>2
    <2>4. Cardinality(F(N - 1)) > N - 1 /\ Cardinality(F(N - 1)) \in Nat
      BY <1>4, <1>8, <1>9
    <2> HIDE DEF N
    <2> QED BY <1>1, <2>3, <2>4
  <1> QED BY <1>1, <1>8, <1>10 DEF Finding

\* For any zone, however its records include one another and redirect, and any size
\* of the stack, get_spf_allowed_hosts() returns only addresses of names that the name
\* delegates to, and all of them if two calls for each of those names fit.
THEOREM SpfIsReachabilityAlways == ForwardingSpec => []SpfIsReachability
  <1>1. ForwardingInit => zone \in Zones
    BY DEF ForwardingInit
  <1>2. zone \in Zones /\ [ForwardingNext]_forwardingVars => (zone \in Zones)'
    <2> SUFFICES ASSUME zone \in Zones, [ForwardingNext]_forwardingVars PROVE zone' \in Zones
      OBVIOUS
    <2>1. CASE DnsChanges
      BY <2>1, ForwardingHostsAssumption DEF DnsChanges
    <2>2. CASE UNCHANGED zone
      BY <2>2
    <2> QED BY <2>1, <2>2 DEF ForwardingNext, forwardingVars, AddForwardingHost, WhitelistNext,
                              UpdateForwardingHost, DeleteForwardingHost, WriteKeepSpam, StoreRaises
  <1>3. zone \in Zones => SpfIsReachability
    <2> SUFFICES ASSUME zone \in Zones, NEW name \in Names
                 PROVE  LET found == {h[1] : h \in GetSpfAllowedHosts(zone, name, FALSE)}
                            all == UNION {OwnAddresses(zone, n) : n \in Delegated(zone, name)}
                            names == Delegated(zone, name)
                        IN /\ found \subseteq all
                           /\ IsFiniteSet(names) /\ 2 * Cardinality(names) < MaxStack => found = all
      BY DEF SpfIsReachability
    <2> DEFINE f == CHOOSE g : SpfLoop(g, MaxStack, zone)
               hosts == GetSpfAllowedHosts(zone, name, FALSE)
               found == {h[1] : h \in hosts}
               all == UNION {OwnAddresses(zone, n) : n \in Delegated(zone, name)}
    <2>1. MaxStack \in Nat /\ MaxStack \in 0..MaxStack
      BY ForwardingHostsAssumption
    <2>2. hosts = f[MaxStack][name][FALSE]
      BY DEF GetSpfAllowedHosts, SpfLoop, Level
    <2>3. SpfLoop(f, MaxStack, zone)
      BY <2>1, SpfLoopExists
    <2>4. Addr(hosts) = found
      BY Zenon DEF Addr
    <2>5. \A x : x \in all <=> Reaches(zone, name, x)
      BY DEF Reaches
    <2> HIDE DEF f, hosts, found, all
    <2>6. found \subseteq all
      BY <2>1, <2>2, <2>3, <2>4, <2>5, FoundIsReached
    <2>7. IsFiniteSet(Delegated(zone, name)) /\ 2 * Cardinality(Delegated(zone, name)) < MaxStack
            => all \subseteq found
      BY <2>2, <2>3, <2>4, <2>5, ReachedIsFound
    <2>8. /\ found \subseteq all
          /\ IsFiniteSet(Delegated(zone, name)) /\ 2 * Cardinality(Delegated(zone, name)) < MaxStack
               => found = all
      BY <2>6, <2>7
    <2> QED BY <2>8, Zenon DEF found, all, hosts
  <1> QED BY <1>1, <1>2, <1>3, PTL DEF ForwardingSpec
=============================================================================
