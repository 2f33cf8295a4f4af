------------------------------ MODULE Socketmap ------------------------------
(***************************************************************************)
(* The socketmap server: one event loop that answers the Postfix of a      *)
(* remote relay whether a domain is one of taramail's.                     *)
(*                                                                         *)
(* A connection has one database session.  Its first lookup takes a        *)
(* database connection from the pool and fixes the snapshot that every     *)
(* later lookup reads; both last until the connection ends.  The lookup    *)
(* blocks the event loop, and so does the wait for a connection of the     *)
(* pool.  Requests of the API change the tables meanwhile (RelayHosts).    *)
(*                                                                         *)
(* External: Postfix sends one request at a time, QueuePool hands out a    *)
(* bounded number of connections and raises TimeoutError after 30 seconds. *)
(***************************************************************************)
EXTENDS RelayHosts, FiniteSets

CONSTANTS
  Clients,   \* connections that Postfix may have open
  PoolSize   \* pool_size + max_overflow, 5 + 10

VARIABLES
  conn,  \* client -> its connection
  loop   \* the client whose handler waits for the pool, or Free

vars == <<relayVars, conn, loop>>

Free == "free"
None == "none"
Unknown == "other map"
Malformed == "malformed"
Requests == Domains \cup {Unknown, Malformed}

\* The values above are none of the domains that requests name.
ASSUME SocketmapAssumption ==
  /\ PoolSize \in Nat \ {0}
  /\ {None, Unknown, Malformed} \cap Domains = {}

NoSnapshot == [d \in Domains |-> None]
Closed == [open |-> FALSE, peer |-> FALSE, request |-> None, answer |-> <<>>,
           snapshot |-> NoSnapshot]

\* The clients whose session holds a database connection.
Holders == {c \in Clients : conn[c].snapshot # NoSnapshot}

Said(on) == IF on THEN "OK" ELSE "NOTFOUND"

\* What a snapshot taken now says.
Table == [d \in Domains |-> Said(active[d])]

----------------------------------------------------------------------------
(***************************************************************************)
(* Postfix.                                                                *)
(***************************************************************************)
Connect(c) ==
  /\ ~conn[c].open
  /\ conn' = [conn EXCEPT ![c] = [Closed EXCEPT !.open = TRUE, !.peer = TRUE]]
  /\ UNCHANGED <<relayVars, loop>>

\* Postfix takes the last answer and asks again.
Send(c, r) ==
  /\ conn[c].peer /\ conn[c].request = None
  /\ conn' = [conn EXCEPT ![c].request = r, ![c].answer = <<>>]
  /\ UNCHANGED <<relayVars, loop>>

\* Postfix is done, or dies, be it in the middle of a request.
Hangup(c) ==
  /\ conn[c].peer
  /\ conn' = [conn EXCEPT ![c].peer = FALSE, ![c].answer = <<>>]
  /\ UNCHANGED <<relayVars, loop>>

----------------------------------------------------------------------------
(***************************************************************************)
(* The server.                                                             *)
(***************************************************************************)
\* The session ends and gives its database connection back.
CloseConnection(c) == conn' = [conn EXCEPT ![c] = Closed]

Answer(c, a, snapshot) ==
  conn' = [conn EXCEPT ![c].request = None, ![c].snapshot = snapshot,
                       ![c].answer = IF conn[c].peer THEN a ELSE <<>>]

LookupRelayDomain(c, snapshot) ==
  Answer(c, <<conn[c].request, snapshot[conn[c].request]>>, snapshot)

HandleUnknown(c) ==
  /\ loop = Free /\ conn[c].request = Unknown
  /\ Answer(c, <<Unknown, "PERM">>, conn[c].snapshot)
  /\ UNCHANGED <<relayVars, loop>>

\* int() raises ValueError, which nothing catches.
HandleMalformed(c) ==
  /\ loop = Free /\ conn[c].request = Malformed
  /\ CloseConnection(c)
  /\ UNCHANGED <<relayVars, loop>>

\* Seeded fault: all connections share a session.
HandleLookupShared(c) ==
  /\ loop = Free /\ conn[c].request \in Domains
  /\ \/ \E h \in Holders : LookupRelayDomain(c, conn[h].snapshot)
     \/ Holders = {} /\ LookupRelayDomain(c, Table)
  /\ UNCHANGED <<relayVars, loop>>

HandleLookup(c) ==
  /\ loop = Free /\ conn[c].request \in Domains
  /\ \/ c \in Holders /\ LookupRelayDomain(c, conn[c].snapshot)
     \/ /\ c \notin Holders /\ Cardinality(Holders) < PoolSize
        /\ LookupRelayDomain(c, Table)
  /\ UNCHANGED <<relayVars, loop>>

\* No database connection is left, and the event loop waits for one.
WaitForPool(c) ==
  /\ loop = Free /\ conn[c].request \in Domains
  /\ c \notin Holders /\ Cardinality(Holders) >= PoolSize
  /\ loop' = c
  /\ UNCHANGED <<relayVars, conn>>

\* Seeded fault: the exception leaves the handler before it closes the connection.
PoolTimeoutLeft(c) ==
  /\ loop = c
  /\ loop' = Free
  /\ UNCHANGED <<relayVars, conn>>

\* TimeoutError, which nothing catches.
PoolTimeout(c) ==
  /\ loop = c
  /\ loop' = Free
  /\ CloseConnection(c)
  /\ UNCHANGED relayVars

\* The database fails the lookup.
LookupRaises(c) ==
  /\ loop = Free /\ conn[c].request \in Domains
  /\ CloseConnection(c)
  /\ UNCHANGED <<relayVars, loop>>

\* Seeded fault: the handler returns without ending the session.
EndOfStreamKept(c) ==
  /\ loop = Free /\ conn[c].open /\ ~conn[c].peer /\ conn[c].request = None
  /\ conn' = [conn EXCEPT ![c] = [Closed EXCEPT !.snapshot = conn[c].snapshot]]
  /\ UNCHANGED <<relayVars, loop>>

\* IncompleteReadError: the last request was read.
EndOfStream(c) ==
  /\ loop = Free /\ conn[c].open /\ ~conn[c].peer /\ conn[c].request = None
  /\ CloseConnection(c)
  /\ UNCHANGED <<relayVars, loop>>

----------------------------------------------------------------------------
Init ==
  /\ RelayInit
  /\ conn = [c \in Clients |-> Closed]
  /\ loop = Free

Api ==
  /\ RelayNext
  /\ UNCHANGED <<conn, loop>>

Handle(c) ==
  \/ HandleUnknown(c) \/ HandleMalformed(c) \/ HandleLookup(c) \/ LookupRaises(c)
  \/ WaitForPool(c)
  \/ EndOfStream(c)

Next ==
  \/ Api
  \/ \E c \in Clients :
       \/ Connect(c) \/ Hangup(c)
       \/ \E r \in Requests : Send(c, r)
       \/ Handle(c)
       \/ PoolTimeout(c)

\* The event loop runs its callbacks in the order they became ready, so none is
\* passed over for ever although others block the loop again and again.  Postfix
\* ends a connection after max_idle or max_use at the latest.
Fairness ==
  \A c \in Clients :
    /\ SF_vars(Handle(c)) /\ WF_vars(PoolTimeout(c))
    /\ WF_vars(Hangup(c))

Spec == Init /\ [][Next]_vars /\ Fairness

----------------------------------------------------------------------------
(***************************************************************************)
(* Properties.                                                             *)
(***************************************************************************)
\* Type correctness.
TypeOK ==
  /\ RelayTypeOK
  /\ loop \in Clients \cup {Free}
  /\ \A c \in Clients :
       /\ conn[c].request \in Requests \cup {None}
       /\ conn[c].peer \/ conn[c].request # None \/ c \in Holders => conn[c].open
       /\ conn[c].snapshot \in [Domains -> {"OK", "NOTFOUND"}] \cup {NoSnapshot}

\* The handler answers a request or closes the connection, even if the pool is
\* exhausted and the event loop is blocked by other connections again and again.
Answered == \A c \in Clients : conn[c].request # None ~> conn[c].request = None

\* Once a domain stays active, or stays inactive, Postfix is in the end told so:
\* every session that read the table before ends, and none is used by another
\* connection.
ChangeIsSeen ==
  \A d \in Domains, s \in {"OK", "NOTFOUND"} :
    <>[](Said(active[d]) = s) =>
      <>[](\A c \in Clients : conn[c].answer # <<>> /\ conn[c].answer[1] = d
                                => conn[c].answer[2] = s)
=============================================================================
