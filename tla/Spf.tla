--------------------------------- MODULE Spf ---------------------------------
(***************************************************************************)
(* SPFResolver: the hosts that send the mail of a domain, from its SPF     *)
(* records.                                                                *)
(*                                                                         *)
(* A zone has the SPF records of each name, sequences of mechanisms, and   *)
(* the names' MX and address records.  A mechanism is a record [qual, kind,*)
(* target, cidr]; kind "ip" is ip4 and ip6, and what the code does not     *)
(* recognise, "a/24" without a domain too, has the kind "other".  A host   *)
(* is <<address, prefix, exploded>>: has it a prefix length, and is its    *)
(* IPv6 address written in full?  Only the set of hosts is kept.           *)
(*                                                                         *)
(* Records that include one another are followed until the stack is full.  *)
(* A query needs more of it than anything else does, so it is a query that *)
(* raises RecursionError, and DNSResolver takes that, as any failure, for  *)
(* a name without records.  (An address is looked up by getaddrinfo(),     *)
(* which needs less than a query: it always has the room.)                 *)
(***************************************************************************)
EXTENDS Integers, Sequences

CONSTANTS
  Names,
  IPv6,      \* the addresses that are IPv6
  MaxStack   \* the calls that still fit on the stack when get_spf_allowed_hosts()
             \* is first called, if a query is to fit on top of them

Host(address) == <<address, FALSE, FALSE>>

\* What is left of the room for s calls after k of them.
Deeper(s, k) == IF s > k THEN s - k ELSE 0

\* Is there room for a query, or does it find no records?
CanQuery(s) == s > 0

----------------------------------------------------------------------------
ResolveA(zone, name) == {Host(address) : address \in zone.a[name]}

ResolveMx(zone, name, s) == IF CanQuery(s) THEN zone.mx[name] ELSE {}

GetMxHosts(zone, name, s) == UNION {ResolveA(zone, mx) : mx \in ResolveMx(zone, name, s)}

WithCidr(h) == <<h[1], TRUE, h[3]>>

Exploded(h) == IF h[1] \in IPv6 /\ ~h[2] THEN <<h[1], FALSE, TRUE>> ELSE h

\* A record ends at its first "-" or "~".
Effective(record) == {i \in DOMAIN record : \A j \in 1..i : record[j].qual \notin {"-", "~"}}

\* Seeded fault: what fails is passed over and the record goes on.
MechanismsPast(zone, name) ==
  UNION {{r} \X {i \in DOMAIN zone.spf[name][r] : zone.spf[name][r][i].qual \notin {"-", "~"}} :
           r \in DOMAIN zone.spf[name]}

\* Where the mechanisms that count are: <<record, index>>.
Mechanisms(zone, name) ==
  UNION {{r} \X Effective(zone.spf[name][r]) : r \in DOMAIN zone.spf[name]}

At(zone, name, p) == zone.spf[name][p[1]][p[2]]

\* The order in which they are read.
Before(p, q) == p[1] < q[1] \/ (p[1] = q[1] /\ p[2] < q[2])

\* s: the room that the query for name's records had.  included: what
\* get_spf_allowed_hosts() returns from here.
ParseMechanism(zone, m, name, s, included) ==
  LET hosts ==
        CASE m.kind = "include" /\ m.target # name -> included[m.target][FALSE]
          [] m.kind = "a" -> ResolveA(zone, m.target)
          [] m.kind = "mx" -> GetMxHosts(zone, m.target, Deeper(s, 2))
          [] m.kind = "ip" -> {Host(m.target)}
          [] OTHER -> {}
  IN IF m.cidr THEN {WithCidr(h) : h \in hosts} ELSE hosts

\* A redirect returns at once: the hosts found before it are dropped.
SpfAllowedHosts(zone, name, expandIPv6, s, included, redirected) ==
  LET ms == Mechanisms(zone, name)
      redirects == {p \in ms : At(zone, name, p).kind = "redirect"}
      first == CHOOSE p \in redirects : \A q \in redirects \ {p} : Before(p, q)
      hosts == UNION {ParseMechanism(zone, At(zone, name, p), name, s, included) : p \in ms}
  IN IF redirects # {} THEN redirected[At(zone, name, first).target][TRUE]
     ELSE {IF expandIPv6 THEN Exploded(h) ELSE h : h \in hosts}

\* An include is two calls deeper, a redirect one.
GetSpfAllowedHosts(zone, name, expandIPv6) ==
  LET allowed[s \in 0..MaxStack] ==
        [n \in Names |-> [e \in BOOLEAN |->
           IF CanQuery(s)
           THEN SpfAllowedHosts(zone, n, e, s, allowed[Deeper(s, 2)], allowed[Deeper(s, 1)])
           ELSE {}]]
  IN allowed[MaxStack][name][expandIPv6]

GetOutgoingHostsBestGuess(zone, name) ==
  LET hosts == GetSpfAllowedHosts(zone, name, FALSE) IN
  CASE hosts # {} -> hosts
    [] hosts = {} /\ GetMxHosts(zone, name, MaxStack) # {} -> GetMxHosts(zone, name, MaxStack)
    [] OTHER -> ResolveA(zone, name)

----------------------------------------------------------------------------
(***************************************************************************)
(* The reference, without recursion.                                       *)
(***************************************************************************)
\* The mechanisms of a kind in records that do not fail up to them.
Mechanism(zone, name, kind) ==
  {p \in UNION {{r} \X DOMAIN zone.spf[name][r] : r \in DOMAIN zone.spf[name]} :
     /\ At(zone, name, p).kind = kind
     /\ \A j \in 1..p[2] : At(zone, name, <<p[1], j>>).qual \notin {"-", "~"}}

Targets(zone, name, kind) == {At(zone, name, p).target : p \in Mechanism(zone, name, kind)}

\* name's hosts are those of n too.
DelegatesTo(zone, name, n) ==
  LET redirects == Mechanism(zone, name, "redirect") IN
  IF redirects = {} THEN n # name /\ n \in Targets(zone, name, "include")
  ELSE \E p \in redirects :
         At(zone, name, p).target = n /\ \A q \in redirects : ~Before(q, p)

\* The addresses that name's own records give.
OwnAddresses(zone, name) ==
  IF Mechanism(zone, name, "redirect") # {} THEN {}
  ELSE LET exchangers == UNION {zone.mx[n] : n \in Targets(zone, name, "mx")} IN
       Targets(zone, name, "ip")
         \cup (UNION {zone.a[n] : n \in Targets(zone, name, "a") \cup exchangers})

\* The names that name delegates to, in any number of steps.
Delegated(zone, name) ==
  {n \in Names : \A S \in SUBSET Names :
     name \in S /\ (\A m \in S, k \in Names : DelegatesTo(zone, m, k) => k \in S) => n \in S}
=============================================================================
