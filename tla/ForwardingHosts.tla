--------------------------- MODULE ForwardingHosts ---------------------------
(***************************************************************************)
(* ForwardingHostManager: the hosts that forward mail to taramail, in the  *)
(* hashes WHITELISTED_FWD_HOST and KEEP_SPAM, which Rspamd reads one apart *)
(* from the other.                                                         *)
(*                                                                         *)
(* A request writes the hashes with one command after another and nothing  *)
(* undoes what it wrote when a command raises.  A request that is refused  *)
(* changes nothing and is no step.  The value of a field of                *)
(* WHITELISTED_FWD_HOST, the host name as it was asked for, is left out.   *)
(***************************************************************************)
EXTENDS Spf, FiniteSets

CONSTANTS
  Zones,      \* what the DNS may say
  Followed,   \* bound: those of them in which requests are made
  Literals,   \* addresses and networks that a request names itself
  Hosts,      \* all hosts
  Threads     \* threads that serve requests

NoHost == <<"none">>

\* Records are sequences, and what they include or redirect to is a name.
ASSUME ForwardingHostsAssumption ==
  /\ Followed \subseteq Zones /\ MaxStack \in Nat
  /\ \A z \in Zones, n \in Names : \A r \in DOMAIN z.spf[n] : \A i \in DOMAIN z.spf[n][r] :
       /\ r \in Nat /\ i \in Nat
       /\ z.spf[n][r][i].kind \in {"include", "redirect"} => z.spf[n][r][i].target \in Names
  /\ Literals \subseteq Hosts /\ NoHost \notin Hosts

VARIABLES
  zone,         \* what the DNS says
  resolved,     \* what get_outgoing_hosts_best_guess() makes of it, for requests
  whitelisted,  \* WHITELISTED_FWD_HOST
  keepSpam,     \* KEEP_SPAM
  request,      \* the request that each worker serves, or NoRequest
  settled       \* history: what the last request about a host should have left,
                \* "unknown" if it raised or another one ran beside it

forwardingVars == <<zone, resolved, whitelisted, keepSpam, request, settled>>

\* outcome: what to make of the hosts.  todo: those it has not come to.  current:
\* the one whose KEEP_SPAM is still to be written.  disturbed: history, those that
\* another request is about as well.
NoRequest == [outcome |-> "none", todo |-> {}, current |-> NoHost, disturbed |-> {}]

\* The hosts that w may still write.
Concerns(w) == request[w].todo \cup ({request[w].current} \ {NoHost})

\* w begins a request about hosts.
Start(w, outcome, todo, current) ==
  LET hosts == todo \cup ({current} \ {NoHost})
      others == UNION {Concerns(v) : v \in Threads \ {w}}
  IN request' = [v \in Threads |->
       IF v = w THEN [outcome |-> outcome, todo |-> todo, current |-> current,
                      disturbed |-> hosts \cap others]
       ELSE [request[v] EXCEPT !.disturbed = @ \cup (Concerns(v) \cap hosts)]]

----------------------------------------------------------------------------
\* Outside of the zones Followed no request is made.
BestGuess(z) ==
  [name \in Names |-> IF z \in Followed THEN GetOutgoingHostsBestGuess(z, name) ELSE {}]

\* An address or a network is taken as it is.
ResolveHost(host) == IF host \in Literals THEN {host} ELSE resolved[host]

\* Hosts are resolved once, then written in any order.
AddForwardingHost(w, host, filterSpam) ==
  /\ request[w] = NoRequest
  /\ ResolveHost(host) # {}
  /\ Start(w, IF filterSpam THEN "filter" ELSE "keep", ResolveHost(host), NoHost)
  /\ UNCHANGED <<zone, resolved, whitelisted, keepSpam, settled>>

WhitelistNext(w) ==
  /\ request[w].current = NoHost
  /\ \E h \in request[w].todo :
       /\ whitelisted' = whitelisted \cup {h}
       /\ request' = [request EXCEPT ![w].todo = @ \ {h}, ![w].current = h]
  /\ UNCHANGED <<zone, resolved, keepSpam, settled>>

\* The HGET, of a request that has keep_spam.
UpdateForwardingHost(w, host, keep) ==
  /\ request[w] = NoRequest
  /\ host \in whitelisted
  /\ Start(w, IF keep THEN "keep" ELSE "filter", {}, host)
  /\ UNCHANGED <<zone, resolved, whitelisted, keepSpam, settled>>

\* The first HDEL.
DeleteForwardingHost(w, host) ==
  /\ request[w] = NoRequest
  /\ whitelisted' = whitelisted \ {host}
  /\ Start(w, "absent", {}, host)
  /\ UNCHANGED <<zone, resolved, keepSpam, settled>>

\* The request ends with its last host.
Finished(w) == request[w].todo = {}

\* Seeded fault: nothing is removed from KEEP_SPAM.
WriteKeepSpamOnly(w) ==
  LET h == request[w].current IN
  /\ h # NoHost
  /\ keepSpam' = IF request[w].outcome = "keep" THEN keepSpam \cup {h} ELSE keepSpam
  /\ settled' = [settled EXCEPT ![h] =
                   IF h \in request[w].disturbed THEN "unknown" ELSE request[w].outcome]
  /\ request' = [request EXCEPT ![w] =
                   IF Finished(w) THEN NoRequest ELSE [@ EXCEPT !.current = NoHost]]
  /\ UNCHANGED <<zone, resolved, whitelisted>>

\* The HSET or HDEL of KEEP_SPAM.
WriteKeepSpam(w) ==
  LET h == request[w].current IN
  /\ h # NoHost
  /\ keepSpam' = IF request[w].outcome = "keep" THEN keepSpam \cup {h} ELSE keepSpam \ {h}
  /\ settled' = [settled EXCEPT ![h] =
                   IF h \in request[w].disturbed THEN "unknown" ELSE request[w].outcome]
  /\ request' = [request EXCEPT ![w] =
                   IF Finished(w) THEN NoRequest ELSE [@ EXCEPT !.current = NoHost]]
  /\ UNCHANGED <<zone, resolved, whitelisted>>

\* A command raises: the request ends where it is.
StoreRaises(w) ==
  LET h == request[w].current IN
  /\ request[w] # NoRequest
  /\ settled' = IF h = NoHost THEN settled ELSE [settled EXCEPT ![h] = "unknown"]
  /\ request' = [request EXCEPT ![w] = NoRequest]
  /\ UNCHANGED <<zone, resolved, whitelisted, keepSpam>>

\* The records of a domain change: no request hears of it.
DnsChanges ==
  /\ zone' \in Followed \ {zone}
  /\ resolved' = BestGuess(zone')
  /\ UNCHANGED <<whitelisted, keepSpam, request, settled>>

----------------------------------------------------------------------------
ForwardingInit ==
  /\ zone \in Zones /\ resolved = BestGuess(zone)
  /\ whitelisted = {} /\ keepSpam = {}
  /\ request = [w \in Threads |-> NoRequest]
  /\ settled = [h \in Hosts |-> "absent"]

ForwardingNext ==
  \/ \E w \in Threads :
       \/ \E host \in Names \cup Literals, f \in BOOLEAN : AddForwardingHost(w, host, f)
       \/ WhitelistNext(w)
       \/ \E h \in Hosts, keep \in BOOLEAN : UpdateForwardingHost(w, h, keep)
       \/ \E h \in Hosts : DeleteForwardingHost(w, h)
       \/ WriteKeepSpam(w)
       \/ StoreRaises(w)
  \/ DnsChanges

ForwardingSpec == ForwardingInit /\ [][ForwardingNext]_forwardingVars

----------------------------------------------------------------------------
(***************************************************************************)
(* Properties.                                                             *)
(***************************************************************************)
\* What the two hashes hold of a host is what the last request about it asked for,
\* whatever requests about other hosts ran meanwhile: neither a host removed nor one
\* added again keeps an old entry of KEEP_SPAM, which Rspamd would honour even of a
\* host that is not whitelisted.  Only a request that raised, or two about the same
\* host at once, leave the hashes apart, and only until the next request about it.
HashesAgree ==
  \A h \in Hosts :
    settled[h] # "unknown" /\ h \notin UNION {Concerns(w) : w \in Threads} =>
      /\ h \in whitelisted <=> settled[h] # "absent"
      /\ h \in keepSpam <=> settled[h] = "keep"

\* Whatever the DNS says, get_spf_allowed_hosts() returns addresses of names that
\* the name delegates to through includes and redirects, and no others, although it
\* drops what it found before a redirect and stops where the stack is full.  It
\* returns all of them, also if the names include one another in circles, unless
\* those names are more than half the calls that fit on the stack.  (It is looked at
\* before the hashes are written: what it returns depends on the zone alone.)
SpfIsReachability ==
  whitelisted = {} /\ keepSpam = {} =>
    \A name \in Names :
      LET found == {h[1] : h \in GetSpfAllowedHosts(zone, name, FALSE)}
          all == UNION {OwnAddresses(zone, n) : n \in Delegated(zone, name)}
          names == Delegated(zone, name)
      IN /\ found \subseteq all
         /\ IsFiniteSet(names) /\ 2 * Cardinality(names) < MaxStack => found = all
=============================================================================
