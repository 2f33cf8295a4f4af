----------------------------- MODULE RelayHosts -----------------------------
(***************************************************************************)
(* Table relayhosts, and the columns of the tables domain and              *)
(* user_attributes that name one of its rows (RelayHostManager).           *)
(*                                                                         *)
(* No foreign key ties the columns to the table and no request checks the  *)
(* id it is given: delete_relayhost() clears what refers to the row.  It   *)
(* is the only request of three statements; another one writes when it     *)
(* commits and is one step.  A domain without a row is, for a lookup and   *)
(* for a reference, an inactive one whose column is 0; so is a user        *)
(* without a mailbox.  Of a relay host only the column active is kept.     *)
(*                                                                         *)
(* External: an UPDATE with a condition on a column without an index locks *)
(* every row of the table, and the gaps, until the transaction ends, and   *)
(* reads the rows as last committed.                                       *)
(***************************************************************************)
EXTENDS Integers

CONSTANTS
  Domains,
  Users,
  Workers,        \* threads that serve requests
  MaxRelayHosts   \* bound: relay hosts ever created

ASSUME RelayHostsAssumption == MaxRelayHosts \in Nat

VARIABLES
  relayhosts,  \* id -> "absent", "active" or "inactive"
  lastId,      \* AUTO_INCREMENT
  active,      \* domain -> column active
  domainRef,   \* domain -> column relayhost, 0 for none
  userRef,     \* user -> column relayhost of user_attributes, 0 for none
  deleting     \* worker -> the id it deletes, how many statements are done, and
               \* the rows of domain and user_attributes that they wrote

relayVars == <<relayhosts, lastId, active, domainRef, userRef, deleting>>

Ids == 1..MaxRelayHosts

Idle == [id |-> 0, done |-> 0, domains |-> {}, users |-> {}]

Present(id) == relayhosts[id] # "absent"

\* The rows that a delete_relayhost() under way has locked.
RowLocked(id) == \E w \in Workers : deleting[w].id = id
DomainsLocked == \E w \in Workers : deleting[w].done >= 2
UsersLocked == \E w \in Workers : deleting[w].done = 3

----------------------------------------------------------------------------
CreateRelayhost ==
  /\ lastId < MaxRelayHosts
  /\ lastId' = lastId + 1
  /\ \E s \in {"active", "inactive"} :
       relayhosts' = [relayhosts EXCEPT ![lastId'] = s]
  /\ UNCHANGED <<active, domainRef, userRef, deleting>>

UpdateRelayhost(id) ==
  /\ Present(id) /\ ~RowLocked(id)
  /\ \E s \in {"active", "inactive"} :
       relayhosts' = [relayhosts EXCEPT ![id] = s]
  /\ UNCHANGED <<lastId, active, domainRef, userRef, deleting>>

\* The DELETE.
DeleteRelayhost(w, id) ==
  /\ deleting[w] = Idle
  /\ Present(id) /\ ~RowLocked(id)
  /\ deleting' = [deleting EXCEPT ![w] = [Idle EXCEPT !.id = id, !.done = 1]]
  /\ UNCHANGED <<relayhosts, lastId, active, domainRef, userRef>>

\* The UPDATE of domain.
ClearDomains(w) ==
  /\ deleting[w].done = 1
  /\ ~DomainsLocked
  /\ deleting' = [deleting EXCEPT ![w].done = 2,
       ![w].domains = {d \in Domains : domainRef[d] = deleting[w].id}]
  /\ UNCHANGED <<relayhosts, lastId, active, domainRef, userRef>>

\* Seeded fault: the mailboxes are forgotten.
ClearUsersForgotten(w) ==
  /\ deleting[w].done = 2
  /\ deleting' = [deleting EXCEPT ![w].done = 3]
  /\ UNCHANGED <<relayhosts, lastId, active, domainRef, userRef>>

\* The UPDATE of user_attributes.
ClearUsers(w) ==
  /\ deleting[w].done = 2
  /\ ~UsersLocked
  /\ deleting' = [deleting EXCEPT ![w].done = 3,
       ![w].users = {u \in Users : userRef[u] = deleting[w].id}]
  /\ UNCHANGED <<relayhosts, lastId, active, domainRef, userRef>>

\* The references once the rows are written.
Cleared(refs, written) == [x \in DOMAIN refs |-> IF x \in written THEN 0 ELSE refs[x]]

\* What the statements wrote is seen.
DeleteRelayhostCommit(w) ==
  /\ deleting[w].done = 3
  /\ relayhosts' = [relayhosts EXCEPT ![deleting[w].id] = "absent"]
  /\ domainRef' = Cleared(domainRef, deleting[w].domains)
  /\ userRef' = Cleared(userRef, deleting[w].users)
  /\ deleting' = [deleting EXCEPT ![w] = Idle]
  /\ UNCHANGED <<lastId, active>>

\* A statement or the commit raises.
DeleteRelayhostRollback(w) ==
  /\ deleting[w] # Idle
  /\ deleting' = [deleting EXCEPT ![w] = Idle]
  /\ UNCHANGED <<relayhosts, lastId, active, domainRef, userRef>>

\* create_domain() leaves the column relayhost 0, update_domain() takes any id and
\* delete_domain() removes the row.
WriteDomain(d, on, id) ==
  /\ ~DomainsLocked
  /\ active' = [active EXCEPT ![d] = on]
  /\ domainRef' = [domainRef EXCEPT ![d] = id]
  /\ UNCHANGED <<relayhosts, lastId, userRef, deleting>>

\* create_mailbox() and update_mailbox() take any id, delete_mailbox() removes the row.
WriteMailbox(u, id) ==
  /\ ~UsersLocked
  /\ userRef' = [userRef EXCEPT ![u] = id]
  /\ UNCHANGED <<relayhosts, lastId, active, domainRef, deleting>>

----------------------------------------------------------------------------
RelayInit ==
  /\ relayhosts = [id \in Ids |-> "absent"]
  /\ lastId = 0
  /\ active = [d \in Domains |-> FALSE]
  /\ domainRef = [d \in Domains |-> 0]
  /\ userRef = [u \in Users |-> 0]
  /\ deleting = [w \in Workers |-> Idle]

RelayNext ==
  \/ CreateRelayhost
  \/ \E id \in Ids : UpdateRelayhost(id)
  \/ \E w \in Workers :
       \/ \E id \in Ids : DeleteRelayhost(w, id)
       \/ ClearDomains(w)
       \/ ClearUsers(w)
       \/ DeleteRelayhostCommit(w)
       \/ DeleteRelayhostRollback(w)
  \/ \E d \in Domains, on \in BOOLEAN, id \in Ids \cup {0} : WriteDomain(d, on, id)
  \/ \E u \in Users, id \in Ids \cup {0} : WriteMailbox(u, id)

----------------------------------------------------------------------------
RelayTypeOK ==
  /\ relayhosts \in [Ids -> {"absent", "active", "inactive"}]
  /\ lastId \in 0..MaxRelayHosts
  /\ active \in [Domains -> BOOLEAN]
  /\ domainRef \in [Domains -> Ids \cup {0}]
  /\ userRef \in [Users -> Ids \cup {0}]
  /\ deleting \in [Workers -> {Idle} \cup
       [id : Ids, done : 1..3, domains : SUBSET Domains, users : SUBSET Users]]

\* A reference keeps its value and stops being one of a relay host.
BecomesDangling(ref, newRef) ==
  ref \in Ids /\ newRef = ref /\ Present(ref) /\ relayhosts'[ref] = "absent"

\* Whatever requests point domains and mailboxes at relay hosts while
\* delete_relayhost() runs its three statements, it leaves no reference to the row
\* it deletes: a dangling one was written as such.
NoneLeftDangling ==
  [][/\ \A d \in Domains : ~BecomesDangling(domainRef[d], domainRef'[d])
     /\ \A u \in Users : ~BecomesDangling(userRef[u], userRef'[u])]_relayVars
=============================================================================
