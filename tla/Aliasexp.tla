------------------------------ MODULE Aliasexp ------------------------------
(***************************************************************************)
(* RspamdAliasexp.expand_alias(): the one mailbox that a recipient of a    *)
(* mail ends up in, if there is only one.                                  *)
(*                                                                         *)
(* The session reads one snapshot, so the tables are fixed for a request;  *)
(* DOMAIN_MAP is in Redis, where requests of the API change it meanwhile.  *)
(* Only rows that are active are kept, and a goto is the set of its        *)
(* addresses.  An address is <<local part, domain>>, that of a catch-all   *)
(* alias <<"", domain>>, and what is no address has the domain "".         *)
(***************************************************************************)
EXTENDS Integers, FiniteSets

CONSTANTS
  MailDomains,
  Addresses,   \* those of recipients, aliases and mailboxes
  Tagged,      \* local part with a tag -> local part
  Gotos,       \* the goto of an alias, sets of addresses
  NoDomain,    \* the domain of what is no address, the target of most domains
  Tables,      \* the contents of the tables, see Contents
  MaxLoops     \* max_loops, 20

Statuses == {"active", "inactive", "none"}

\* The goto of an alias, {} for none; the goto of a catch-all alias, {} for none;
\* the status of a mailbox; the domain that a domain is an active alias of.
Contents ==
  [alias : [Addresses -> Gotos], catchall : [MailDomains -> Gotos],
   mailbox : [Addresses -> Statuses],
   target : [MailDomains \cup {NoDomain} -> MailDomains \cup {NoDomain}]]

ASSUME AliasexpAssumption ==
  /\ \A a \in Addresses : a[2] \in MailDomains
  /\ NoDomain \notin MailDomains /\ {} \in Gotos
  /\ \A t \in Tables :
       t \in Contents /\ t.target[NoDomain] = NoDomain /\ \A d \in MailDomains : t.target[d] # d
  /\ MaxLoops \in Nat

VARIABLES
  db,           \* what the tables hold
  domainMap,    \* DOMAIN_MAP
  pc,           \* "idle", "expand", "done" or "raised"
  email,        \* the recipient without its tag
  gotos,        \* of the round under way, those still to look at
  newGotos,     \* those of the next round
  final,        \* final_mailboxes
  loopCount,
  steady        \* history: DOMAIN_MAP did not change since the request began

expansionVars == <<db, domainMap, pc, email, gotos, newGotos, final, loopCount, steady>>

NoEmail == <<"", "">>

----------------------------------------------------------------------------
StripTags(a) == IF a[1] \in DOMAIN Tagged THEN <<Tagged[a[1]], a[2]>> ELSE a

AliasOf(a) == IF a \in Addresses THEN db.alias[a] ELSE {}

\* The address in the domain that a's domain is an alias of.
Translated(a) == IF db.target[a[2]] = NoDomain THEN {} ELSE {<<a[1], db.target[a[2]]>>}

\* Seeded fault: the alias domain comes before the catch-all alias.
GetGotosTranslated(a) ==
  CASE AliasOf(a) # {} -> AliasOf(a)
    [] AliasOf(a) = {} /\ Translated(a) # {} -> Translated(a)
    [] OTHER -> db.catchall[a[2]]

GetGotos(a) ==
  CASE AliasOf(a) # {} -> AliasOf(a)
    [] AliasOf(a) = {} /\ db.catchall[a[2]] # {} -> db.catchall[a[2]]
    [] OTHER -> Translated(a)

\* Seeded fault: a mailbox need not be active.
IsMailboxAny(a) == a \in Addresses /\ db.mailbox[a] # "none"

IsMailbox(a) == a \in Addresses /\ db.mailbox[a] = "active"

\* No catch-all here, and a domain that is not managed ends the branch.
ExpandGoto(a) ==
  CASE a[2] \notin domainMap -> {}
    [] a[2] \in domainMap /\ AliasOf(a) # {} -> AliasOf(a)
    [] OTHER -> Translated(a)

----------------------------------------------------------------------------
\* The DOMAIN_MAP check raises, and mail of a domain that is not managed is not
\* expanded.
Request(rcpt) ==
  LET a == StripTags(rcpt) IN
  /\ pc = "idle"
  /\ email' = a
  /\ steady' = TRUE
  /\ \/ /\ a[2] \notin domainMap
        /\ pc' = "raised"
        /\ UNCHANGED <<gotos, loopCount>>
     \/ /\ a[2] \in domainMap
        /\ gotos' = GetGotos(a)
        /\ loopCount' = IF gotos' = {} THEN 0 ELSE 1
        /\ pc' = IF gotos' = {} THEN "done" ELSE "expand"
  /\ UNCHANGED <<db, domainMap, newGotos, final>>

LookAt(goto) ==
  /\ pc = "expand" /\ goto \in gotos
  /\ gotos' = gotos \ {goto}
  /\ \/ /\ IsMailbox(goto)
        /\ final' = final \cup {goto}
        /\ UNCHANGED newGotos
     \/ /\ ~IsMailbox(goto)
        /\ newGotos' = newGotos \cup ExpandGoto(goto)
        /\ UNCHANGED final
  /\ UNCHANGED <<db, domainMap, pc, email, loopCount, steady>>

\* Seeded fault: rounds are not counted.
NextRoundUncounted ==
  /\ pc = "expand" /\ gotos = {}
  /\ pc' = IF newGotos = {} THEN "done" ELSE "expand"
  /\ gotos' = newGotos
  /\ newGotos' = {}
  /\ UNCHANGED <<db, domainMap, email, final, loopCount, steady>>

NextRound ==
  /\ pc = "expand" /\ gotos = {}
  /\ \/ /\ newGotos # {} /\ loopCount <= MaxLoops
        /\ loopCount' = loopCount + 1
        /\ UNCHANGED pc
     \/ /\ newGotos = {} \/ loopCount > MaxLoops
        /\ pc' = "done"
        /\ UNCHANGED loopCount
  /\ gotos' = newGotos
  /\ newGotos' = {}
  /\ UNCHANGED <<db, domainMap, email, final, steady>>

\* What expand_alias() returns.
Result == IF Cardinality(final) = 1 THEN final ELSE {}

\* The response is sent and the session closed.
Respond ==
  /\ pc \in {"done", "raised"}
  /\ pc' = "idle"
  /\ email' = NoEmail
  /\ gotos' = {} /\ final' = {} /\ loopCount' = 0 /\ steady' = TRUE
  /\ UNCHANGED <<db, domainMap, newGotos>>

\* create_domain() or delete_domain() of another request.  Bound: one while a
\* request is served.
MapChanges(d) ==
  /\ steady
  /\ domainMap' = IF d \in domainMap THEN domainMap \ {d} ELSE domainMap \cup {d}
  /\ steady' = (pc = "idle")
  /\ UNCHANGED <<db, pc, email, gotos, newGotos, final, loopCount>>

ExpansionInit ==
  /\ db \in Tables
  /\ domainMap \in SUBSET MailDomains
  /\ pc = "idle" /\ email = NoEmail
  /\ gotos = {} /\ newGotos = {} /\ final = {} /\ loopCount = 0 /\ steady = TRUE

Recipients == Addresses \cup {<<l, d>> : l \in DOMAIN Tagged, d \in MailDomains}

Step == (\E goto \in gotos : LookAt(goto)) \/ NextRound

ExpansionNext ==
  \/ \E rcpt \in Recipients : Request(rcpt)
  \/ Step
  \/ Respond
  \/ \E d \in MailDomains : MapChanges(d)

\* The thread that serves the request keeps running.
ExpansionSpec == ExpansionInit /\ [][ExpansionNext]_expansionVars /\ WF_expansionVars(Step)

----------------------------------------------------------------------------
(***************************************************************************)
(* Properties.                                                             *)
(***************************************************************************)
\* The reference: mail for an active mailbox stays there, that for an alias goes to
\* every address of its goto, that for an address of an alias domain to the same
\* local part of the target, as far as the domains are managed.
Leads(a, b, ds) ==
  /\ a[2] \in ds
  /\ a \in Addresses => db.mailbox[a] # "active"
  /\ IF a \in Addresses /\ db.alias[a] # {} THEN b \in db.alias[a]
     ELSE db.target[a[2]] # NoDomain /\ b = <<a[1], db.target[a[2]]>>

\* Where mail for the recipient itself goes.
Starts(b) ==
  IF email \in Addresses /\ db.alias[email] # {} THEN b \in db.alias[email]
  ELSE IF db.catchall[email[2]] # {} THEN b \in db.catchall[email[2]]
  ELSE db.target[email[2]] # NoDomain /\ b = <<email[1], db.target[email[2]]>>

\* Every address that mail may be for.
Anywhere ==
  LET named == Addresses \cup UNION Gotos
      locals == {a[1] : a \in named} \cup {Tagged[l] : l \in DOMAIN Tagged}
  IN named \cup locals \X MailDomains

\* The sets that hold the first addresses and all that their members lead to.
ClosedSets(ds) ==
  {S \in SUBSET Anywhere :
     \A b \in Anywhere \ S : ~Starts(b) /\ \A a \in S : ~Leads(a, b, ds)}

\* The active mailboxes in every such set.
Reached(ds) ==
  {m \in Addresses : db.mailbox[m] = "active" /\ \A S \in ClosedSets(ds) : m \in S}

\* The recipient leads to no more addresses than there are rounds.
Few == \E S \in ClosedSets(domainMap) : IsFiniteSet(S) /\ Cardinality(S) <= MaxLoops + 1

\* If DOMAIN_MAP does not change, expand_alias() returns the mailbox exactly when the
\* recipient leads to one active mailbox only: neither loops of aliases nor the
\* order of the addresses make it miss one, and max_loops only if addresses are
\* left and the recipient leads to more than there are rounds.
OnlyMailbox ==
  pc = "done" /\ steady /\ (gotos = {} \/ Few) =>
    Result = IF Cardinality(Reached(domainMap)) = 1 THEN Reached(domainMap) ELSE {}

\* However DOMAIN_MAP changes meanwhile, a mailbox that expand_alias() found is one
\* that is active and that the recipient leads to.
FoundIsReachable == pc = "done" => final \subseteq Reached(MailDomains)

\* expand_alias() ends although nothing keeps aliases from leading back to
\* themselves.
Ends == pc = "expand" ~> pc # "expand"
=============================================================================
