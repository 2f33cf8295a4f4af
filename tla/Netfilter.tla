------------------------------ MODULE Netfilter ------------------------------
(***************************************************************************)
(* The netfilter service (backend/taramail/netfilter.py): the fail2ban-    *)
(* like process that counts failed logins, drops the offending networks in *)
(* the nftables chain MAIL and publishes its bans in Redis.                *)
(*                                                                         *)
(* One asyncio thread runs five tasks.  The service's lock is only ever    *)
(* held over code that does not suspend, so a task runs from one await     *)
(* that really suspends (a receive, a sleep, a DNS query) to the next: one *)
(* action per such stretch.  The kernel's rules and Redis outlive the      *)
(* process; everything else is lost when it ends.  The rules that lead the *)
(* traffic into MAIL are modelled in detail in NetfilterTables; here they  *)
(* are one bit, jumpFirst.                                                 *)
(***************************************************************************)
EXTENDS Integers, Functions

CONSTANTS
  Nets,         \* networks a drop rule can name, in canonical form
  V6,           \* those of them that live in the ip6 tables
  Addrs,        \* the one-address networks that log lines report
  Private,      \* addresses get_ip() refuses: private or loopback
  Overlap,      \* pairs of networks that overlap
  Hosts,        \* host names that may stand in the two admin lists
  Answer,       \* Answer[h]: the addresses that DNS has for host h
  MaxAttempts,  \* f2boptions["max_attempts"]
  RetryWindow,  \* f2boptions["retry_window"]
  BanTime,      \* f2boptions["ban_time"]
  MaxBanTime,   \* f2boptions["max_ban_time"]
  BlackEntries, \* what an administrator may put in F2B_BLACKLIST,
  WhiteEntries, \* in F2B_WHITELIST
  QueueNets,    \* and in F2B_QUEUE_UNBAN
  Faults,       \* the faults that may happen, see FaultKinds
  MaxTime,      \* bound: the clock stops here
  MaxRules,     \* bound: rules for one address
  MaxCounter    \* bound: ban_counter of a net the administrator unbans

FaultKinds == {"nft", "redis", "crash", "reboot", "displace"}

ASSUME NetsAssumption ==
  /\ Addrs \subseteq Nets /\ V6 \subseteq Nets /\ Private \subseteq Addrs
  /\ Overlap \subseteq Nets \X Nets
  /\ Answer \in [Hosts -> SUBSET Nets]
  /\ Nets \cap Hosts = {}

ASSUME OptionsAssumption ==
  /\ MaxAttempts \in Nat \ {0}
  /\ RetryWindow \in Nat
  /\ BanTime \in Nat /\ MaxBanTime \in Nat /\ BanTime <= MaxBanTime

ASSUME EnvironmentAssumption ==
  /\ BlackEntries \subseteq Nets \cup Hosts
  /\ WhiteEntries \subseteq Nets \cup Hosts
  /\ QueueNets \subseteq Nets
  /\ Faults \subseteq FaultKinds
  /\ MaxTime \in Nat /\ MaxRules \in Nat /\ MaxCounter \in Nat

VARIABLES
  \* the process
  proc,        \* "up" or "down"
  alive,       \* the tasks that have neither returned nor raised
  stop,        \* stop_event
  clear_before_exit,
  exit_code,   \* 0, 2, or 1 for a process that was killed or raised
  bans,        \* net -> [attempts, last_attempt, ban_counter]
  blacklist,
  whitelist,
  pending,     \* entries the list tasks are resolving, {} when they are not
  \* Redis
  activeBans,  \* F2B_ACTIVE_BANS: net -> time at which the ban ends
  queueUnban,  \* F2B_QUEUE_UNBAN
  blackKey,    \* F2B_BLACKLIST
  whiteKey,    \* F2B_WHITELIST
  \* the kernel
  rules,       \* drop rules of each net in the chain MAIL
  jumpFirst,   \* the jump to MAIL is the first rule of its base chains
  now

procVars == <<proc, alive, stop, clear_before_exit, exit_code>>
memVars == <<bans, blacklist, whitelist, pending>>
adminVars == <<blackKey, whiteKey>>
vars == <<procVars, memVars, activeBans, queueUnban, adminVars,
          rules, jumpFirst, now>>

Tasks == {"watch", "autopurge", "chain_order", "blacklist", "whitelist"}
ListTasks == {"blacklist", "whitelist"}
Entries == Nets \cup Hosts
BanRecord == [attempts : Nat, last_attempt : Nat, ban_counter : Nat]
NoBans == [n \in {} |-> 0]
NoPending == [t \in ListTasks |-> {}]
NoRules == [n \in Nets |-> 0]

----------------------------------------------------------------------------
(***************************************************************************)
(* Helpers                                                                 *)
(***************************************************************************)
Running(t) == proc = "up" /\ t \in alive

\* A task's loop looks at stop_event before its next round.
NextRound(t) == alive' = IF stop THEN alive \ {t} ELSE alive

Dies(t) == alive' = alive \ {t}

\* f with n mapped to v, in its domain or not: a dict or a hash assignment.
Put(f, n, v) == [m \in DOMAIN f \cup {n} |-> IF m = n THEN v ELSE f[m]]

Without(f, S) == Restrict(f, DOMAIN f \ S)

\* BanTime * 2^c is never below BanTime, so max(ban_time, min(.., max_ban_time))
\* is a cap; MCNetfilter compares the two on the values of f2boptions.
calc_net_ban_time(c) ==
  LET t == BanTime * 2^c
  IN  IF t \in BanTime..MaxBanTime THEN t ELSE MaxBanTime

Whitelisted(a) == \E w \in whitelist : <<w, a>> \in Overlap

\* The record of net n once one more attempt is counted.
Attempted(n) ==
  LET old  == IF n \in DOMAIN bans THEN bans[n]
              ELSE [attempts |-> 0, last_attempt |-> 0, ban_counter |-> 0]
      kept == IF now - old.last_attempt > RetryWindow THEN 0 ELSE old.attempts
  IN  [attempts     |-> kept + 1,
       last_attempt |-> now,
       ban_counter  |-> old.ban_counter]

\* tables.ban() inserts a rule, whether or not the net has one.
WithRule(n) == [rules EXCEPT ![n] = @ + 1]

\* Seeded fault: deletes a rule without having found one.
WithoutFirstRuleUnchecked(S) ==
  [n \in Nets |-> IF n \in S THEN rules[n] - 1 ELSE rules[n]]

\* tables.unban() deletes the first rule of each net of S that has one.
WithoutFirstRule(S) ==
  [n \in Nets |-> IF n \in S /\ rules[n] > 0 THEN rules[n] - 1 ELSE rules[n]]

\* What unban() leaves in self.bans for the nets of S.
UnbannedRecords(S) ==
  [n \in DOMAIN bans |->
     IF n \in S
     THEN [attempts     |-> 0,
           last_attempt |-> bans[n].last_attempt,
           ban_counter  |-> bans[n].ban_counter + 1]
     ELSE bans[n]]

\* Seeded fault: the entries that are addresses are lost in the partition.
ResolutionsHostsOnly(E) == SUBSET UNION {Answer[h] : h \in E \cap Hosts}

\* The sets resolve_addresses() may return for the entries E: the queries for
\* a host's A and AAAA records may each time out or fail, and are then skipped.
Resolutions(E) ==
  {(E \cap Nets) \cup A : A \in SUBSET UNION {Answer[h] : h \in E \cap Hosts}}
----------------------------------------------------------------------------
\* Seeded fault: the end of the ban is recorded for the first ban only.
BanRecordedOnce(a) ==
  LET b == Attempted(a) IN
  /\ bans' = Put(bans, a, b)
  /\ IF b.attempts >= MaxAttempts
     THEN /\ rules' = WithRule(a)
          /\ IF b.attempts = MaxAttempts
             THEN activeBans' = Put(activeBans, a, now + calc_net_ban_time(b.ban_counter))
             ELSE UNCHANGED activeBans
     ELSE UNCHANGED <<rules, activeBans>>

(***************************************************************************)
(* The watch task: a log line from F2B_CHANNEL matched a rule and reports  *)
(* a failed login from address a (NetfilterService.watch, Netfilter.ban).  *)
(***************************************************************************)
Ban(a) ==
  LET b == Attempted(a) IN
  /\ bans' = Put(bans, a, b)
  /\ IF b.attempts >= MaxAttempts
     THEN /\ rules' = WithRule(a)
          /\ activeBans' = Put(activeBans, a, now + calc_net_ban_time(b.ban_counter))
     ELSE UNCHANGED <<rules, activeBans>>

Watch(a) ==
  /\ Running("watch")
  /\ a \notin Private /\ ~Whitelisted(a)
  /\ rules[a] < MaxRules
  /\ Ban(a)
  /\ NextRound("watch")
  /\ UNCHANGED <<proc, stop, clear_before_exit, exit_code, blacklist, whitelist,
                 pending, queueUnban, adminVars, jumpFirst, now>>

\* Any exception below watch ends the service: no message (receive failed), no
\* rule (nft refused the insert), or a rule that Redis did not get to list.
WatchFails(a) ==
  /\ Running("watch")
  /\ \/ /\ "redis" \in Faults
        /\ UNCHANGED <<bans, rules>>
     \/ /\ a \notin Private /\ ~Whitelisted(a)
        /\ rules[a] < MaxRules
        /\ Attempted(a).attempts >= MaxAttempts
        /\ bans' = Put(bans, a, Attempted(a))
        /\ \/ "nft" \in Faults /\ UNCHANGED rules
           \/ "redis" \in Faults /\ rules' = WithRule(a)
  /\ Dies("watch")
  /\ stop' = TRUE
  /\ exit_code' = 2
  /\ UNCHANGED <<proc, clear_before_exit, blacklist, whitelist, pending,
                 activeBans, queueUnban, adminVars, jumpFirst, now>>

(***************************************************************************)
(* The autopurge task: the administrator's queue first, then the bans      *)
(* whose time is over.  A net that was just unbanned has no attempts left  *)
(* and is not looked at again.                                             *)
(***************************************************************************)
Queued == queueUnban \cap DOMAIN bans

\* Seeded fault: a ban is over in the second in which it ends.
ExpiredInclusive ==
  {n \in DOMAIN bans \ queueUnban :
     /\ bans[n].attempts >= MaxAttempts
     /\ now - bans[n].last_attempt >= calc_net_ban_time(bans[n].ban_counter)}

\* Seeded fault: the counter of the next ban is used.
ExpiredLate ==
  {n \in DOMAIN bans \ queueUnban :
     /\ bans[n].attempts >= MaxAttempts
     /\ now - bans[n].last_attempt > calc_net_ban_time(bans[n].ban_counter + 1)}

Expired ==
  {n \in DOMAIN bans \ queueUnban :
     /\ bans[n].attempts >= MaxAttempts
     /\ now - bans[n].last_attempt > calc_net_ban_time(bans[n].ban_counter)}

Autopurge ==
  /\ Running("autopurge")
  /\ LET S == Queued \cup Expired IN
     /\ bans' = UnbannedRecords(S)
     /\ rules' = WithoutFirstRule(S)
     /\ activeBans' = Without(activeBans, S)
  /\ queueUnban' = {}
  /\ NextRound("autopurge")
  /\ UNCHANGED <<proc, stop, clear_before_exit, exit_code, blacklist, whitelist,
                 pending, adminVars, jumpFirst, now>>

\* The task has no handler: an exception while it unbans n, with S done, ends
\* it, and the service goes on without it.  nft fails before the rule is gone;
\* Redis fails at the first or at the second hdel, with n's record untouched.
AutopurgeFails ==
  /\ Running("autopurge")
  /\ \/ "redis" \in Faults /\ UNCHANGED <<bans, rules, activeBans, queueUnban>>
     \/ \E S \in SUBSET (Queued \cup Expired) : \E n \in (Queued \cup Expired) \ S :
          /\ (S \cup {n}) \cap Expired # {} => Queued \subseteq S \cup {n}
          /\ \/ /\ "nft" \in Faults
                /\ rules' = WithoutFirstRule(S)
                /\ activeBans' = Without(activeBans, S)
             \/ /\ "redis" \in Faults
                /\ rules' = WithoutFirstRule(S \cup {n})
                /\ activeBans' \in {Without(activeBans, S),
                                    Without(activeBans, S \cup {n})}
          /\ bans' = UnbannedRecords(S)
          /\ queueUnban' \in {queueUnban \ S,
                              queueUnban \ (S \cup (queueUnban \ DOMAIN bans))}
  /\ Dies("autopurge")
  /\ UNCHANGED <<proc, stop, clear_before_exit, exit_code, blacklist, whitelist,
                 pending, adminVars, jumpFirst, now>>

\* Seeded fault: the order is logged and stop_event is not set.
ChainOrderLogged ==
  /\ Running("chain_order")
  /\ ~jumpFirst \/ "nft" \in Faults
  /\ exit_code' = 2
  /\ UNCHANGED <<proc, alive, stop, clear_before_exit, memVars, activeBans,
                 queueUnban, adminVars, rules, jumpFirst, now>>

(***************************************************************************)
(* The chain_order task: a jump that is missing or not first ends the      *)
(* service, so that its restart puts it back (check_chain_order).          *)
(***************************************************************************)
ChainOrder ==
  /\ Running("chain_order")
  /\ ~jumpFirst \/ "nft" \in Faults
  /\ stop' = TRUE
  /\ exit_code' = 2
  /\ Dies("chain_order")
  /\ UNCHANGED <<proc, clear_before_exit, memVars, activeBans,
                 queueUnban, adminVars, rules, jumpFirst, now>>

(***************************************************************************)
(* The two list tasks.  A list without host names is applied in the step   *)
(* that reads it; with host names the task suspends in the DNS queries and *)
(* applies what it read before them.                                       *)
(***************************************************************************)
\* perm_ban() for each net that came or went.  It would record the net in
\* F2B_PERM_BANS if nft answered an insert with an output, and forget it if
\* tables.unban() returned a value: neither happens, the key is never written.
ApplyBlacklist(new) ==
  LET addban == new \ blacklist
      delban == blacklist \ new
  IN  /\ blacklist' = new
      /\ rules' = [n \in Nets |-> IF n \in addban THEN rules[n] + 1
                                  ELSE WithoutFirstRule(delban)[n]]

UpdateBlacklist ==
  /\ Running("blacklist")
  /\ pending["blacklist"] = {}
  /\ IF blackKey \cap Hosts = {}
     THEN /\ ApplyBlacklist(blackKey)
          /\ NextRound("blacklist")
          /\ UNCHANGED pending
     ELSE /\ pending' = [pending EXCEPT !["blacklist"] = blackKey]
          /\ UNCHANGED <<alive, blacklist, rules>>
  /\ UNCHANGED <<proc, stop, clear_before_exit, exit_code, bans, whitelist,
                 activeBans, queueUnban, adminVars, jumpFirst, now>>

ResolvedBlacklist ==
  /\ Running("blacklist")
  /\ pending["blacklist"] # {}
  /\ \E new \in Resolutions(pending["blacklist"]) : ApplyBlacklist(new)
  /\ pending' = [pending EXCEPT !["blacklist"] = {}]
  /\ NextRound("blacklist")
  /\ UNCHANGED <<proc, stop, clear_before_exit, exit_code, bans, whitelist,
                 activeBans, queueUnban, adminVars, jumpFirst, now>>

\* self.blacklist is replaced before the first rule is touched; an nft error
\* then leaves the rest of addban and delban undone and ends the task.
BlacklistFails ==
  /\ Running("blacklist")
  /\ \/ /\ "redis" \in Faults
        /\ pending["blacklist"] = {}
        /\ UNCHANGED <<blacklist, rules>>
     \/ /\ "nft" \in Faults
        /\ pending["blacklist"] # {} \/ blackKey \cap Hosts = {}
        /\ \E new \in IF pending["blacklist"] = {} THEN {blackKey}
                      ELSE Resolutions(pending["blacklist"]) :
             LET addban == new \ blacklist
                 delban == blacklist \ new
             IN  \E A \in SUBSET addban, D \in SUBSET delban :
                   /\ A \cup D # addban \cup delban
                   /\ D # {} => A = addban
                   /\ blacklist' = new
                   /\ rules' = [n \in Nets |-> IF n \in A THEN rules[n] + 1
                                               ELSE WithoutFirstRule(D)[n]]
  /\ Dies("blacklist")
  /\ pending' = [pending EXCEPT !["blacklist"] = {}]
  /\ UNCHANGED <<proc, stop, clear_before_exit, exit_code, bans, whitelist,
                 activeBans, queueUnban, adminVars, jumpFirst, now>>

UpdateWhitelist ==
  /\ Running("whitelist")
  /\ pending["whitelist"] = {}
  /\ IF whiteKey \cap Hosts = {}
     THEN whitelist' = whiteKey /\ NextRound("whitelist") /\ UNCHANGED pending
     ELSE /\ pending' = [pending EXCEPT !["whitelist"] = whiteKey]
          /\ UNCHANGED <<alive, whitelist>>
  /\ UNCHANGED <<proc, stop, clear_before_exit, exit_code, bans, blacklist,
                 activeBans, queueUnban, adminVars, rules, jumpFirst, now>>

ResolvedWhitelist ==
  /\ Running("whitelist")
  /\ pending["whitelist"] # {}
  /\ whitelist' \in Resolutions(pending["whitelist"])
  /\ pending' = [pending EXCEPT !["whitelist"] = {}]
  /\ NextRound("whitelist")
  /\ UNCHANGED <<proc, stop, clear_before_exit, exit_code, bans, blacklist,
                 activeBans, queueUnban, adminVars, rules, jumpFirst, now>>

WhitelistFails ==
  /\ Running("whitelist")
  /\ "redis" \in Faults
  /\ pending["whitelist"] = {}
  /\ Dies("whitelist")
  /\ UNCHANGED <<proc, stop, clear_before_exit, exit_code, memVars, activeBans,
                 queueUnban, adminVars, rules, jumpFirst, now>>
----------------------------------------------------------------------------
(***************************************************************************)
(* The life of the process (_main, handle_sigterm, before_exit).           *)
(***************************************************************************)
LoseMemory ==
  /\ bans' = NoBans
  /\ blacklist' = {}
  /\ whitelist' = {}
  /\ pending' = NoPending

Ends(code) ==
  /\ proc' = "down"
  /\ alive' = {}
  /\ exit_code' = code
  /\ LoseMemory

\* Seeded fault: the keys outlive the bans they list.
KeepKeys == UNCHANGED activeBans

\* The keys that clear() deletes; an error of Redis is logged and ignored.
DeleteKeys ==
  \/ activeBans' = NoBans
  \/ "redis" \in Faults /\ UNCHANGED activeBans

\* Seeded fault: the rules of the last run are left in the chain.
StartWithoutFlush ==
  /\ proc = "down"
  /\ proc' = "up"
  /\ alive' = Tasks
  /\ stop' = FALSE
  /\ clear_before_exit' = FALSE
  /\ exit_code' = 0
  /\ LoseMemory
  /\ DeleteKeys
  /\ jumpFirst' = TRUE
  /\ UNCHANGED <<queueUnban, adminVars, rules, now>>

\* from_env(), clear() with no bans yet, insert_mail_chains(), the tasks.  A
\* watch task that cannot subscribe raises outside of its try and is gone.
Start ==
  /\ proc = "down"
  /\ proc' = "up"
  /\ \/ alive' = Tasks
     \/ "redis" \in Faults /\ alive' = Tasks \ {"watch"}
  /\ stop' = FALSE
  /\ clear_before_exit' = FALSE
  /\ exit_code' = 0
  /\ LoseMemory
  /\ rules' = NoRules
  /\ DeleteKeys
  /\ jumpFirst' = TRUE
  /\ UNCHANGED <<queueUnban, adminVars, now>>

\* nft fails before, between or after the two families are cleared; the
\* exception leaves _main and the container is restarted.
StartFails ==
  /\ proc = "down"
  /\ "nft" \in Faults
  /\ \/ UNCHANGED <<rules, activeBans>>
     \/ /\ rules' = [n \in Nets |-> IF n \in V6 THEN rules[n] ELSE 0]
        /\ UNCHANGED activeBans
     \/ rules' = NoRules /\ DeleteKeys
  /\ exit_code' = 1
  /\ jumpFirst' = FALSE
  /\ UNCHANGED <<proc, alive, stop, clear_before_exit, memVars, queueUnban,
                 adminVars, now>>

Sigterm ==
  /\ proc = "up"
  /\ stop' = TRUE
  /\ clear_before_exit' = TRUE
  /\ UNCHANGED <<proc, alive, exit_code, memVars, activeBans, queueUnban,
                 adminVars, rules, jumpFirst, now>>

\* Seeded fault: clear() unbans what it knows and does not flush the chain.
ExitWithoutFlush ==
  /\ proc = "up"
  /\ stop
  /\ Ends(exit_code)
  /\ IF clear_before_exit
     THEN /\ rules' = WithoutFirstRule(DOMAIN bans)
          /\ queueUnban' = queueUnban \ DOMAIN bans
          /\ DeleteKeys
          /\ jumpFirst' = FALSE
     ELSE UNCHANGED <<rules, queueUnban, activeBans, jumpFirst>>
  /\ UNCHANGED <<stop, clear_before_exit, adminVars, now>>

\* _main wakes up, cancels the tasks where they are suspended and, after a
\* SIGTERM, unbans every net it knows and takes its chains out of the kernel.
Exit ==
  /\ proc = "up"
  /\ stop
  /\ Ends(exit_code)
  /\ IF clear_before_exit
     THEN /\ rules' = NoRules
          /\ queueUnban' = queueUnban \ DOMAIN bans
          /\ DeleteKeys
          /\ jumpFirst' = FALSE
     ELSE UNCHANGED <<rules, queueUnban, activeBans, jumpFirst>>
  /\ UNCHANGED <<stop, clear_before_exit, adminVars, now>>

\* clear() raises after it unbanned the nets of S and perhaps took out the
\* rule of one more, or between the two families.
ExitFails ==
  /\ proc = "up"
  /\ stop
  /\ clear_before_exit
  /\ {"nft", "redis"} \cap Faults # {}
  /\ \/ \E S, R \in SUBSET DOMAIN bans :
          /\ S \subseteq R /\ \A m, n \in R \ S : m = n
          /\ rules' = WithoutFirstRule(R)
          /\ activeBans' = Without(activeBans, S)
          /\ queueUnban' = queueUnban \ S
          /\ UNCHANGED jumpFirst
     \/ /\ "nft" \in Faults
        /\ rules' = [n \in Nets |->
                       IF n \in V6 THEN WithoutFirstRule(DOMAIN bans)[n] ELSE 0]
        /\ activeBans' = Without(activeBans, DOMAIN bans)
        /\ queueUnban' = queueUnban \ DOMAIN bans
        /\ jumpFirst' = FALSE
  /\ Ends(1)
  /\ UNCHANGED <<stop, clear_before_exit, adminVars, now>>

\* The process is killed; a reboot of the host also empties the kernel.
Crash ==
  /\ proc = "up"
  /\ \/ "crash" \in Faults /\ UNCHANGED <<rules, jumpFirst>>
     \/ "reboot" \in Faults /\ rules' = NoRules /\ jumpFirst' = FALSE
  /\ Ends(1)
  /\ UNCHANGED <<stop, clear_before_exit, activeBans, queueUnban, adminVars, now>>

(***************************************************************************)
(* The environment: an administrator's Redis client, other programs that   *)
(* edit the base chains, the clock.                                        *)
(***************************************************************************)
AdminLists ==
  /\ \/ \E e \in BlackEntries :
          /\ blackKey' \in {blackKey \cup {e}, blackKey \ {e}}
          /\ UNCHANGED whiteKey
     \/ \E e \in WhiteEntries :
          /\ whiteKey' \in {whiteKey \cup {e}, whiteKey \ {e}}
          /\ UNCHANGED blackKey
  /\ UNCHANGED <<procVars, memVars, activeBans, queueUnban, rules, jumpFirst, now>>

AdminUnban(n) ==
  /\ n \in DOMAIN bans => bans[n].ban_counter < MaxCounter
  /\ queueUnban' = queueUnban \cup {n}
  /\ UNCHANGED <<procVars, memVars, activeBans, adminVars, rules, jumpFirst, now>>

\* Another program inserts a rule above the jump to MAIL, or removes it.
Displace ==
  /\ "displace" \in Faults
  /\ jumpFirst
  /\ jumpFirst' = FALSE
  /\ UNCHANGED <<procVars, memVars, activeBans, queueUnban, adminVars, rules, now>>

\* Once stop_event is set _main runs in the event loop's next iteration: no
\* time passes until the process ends.
Tick ==
  /\ now < MaxTime
  /\ proc = "up" => ~stop
  /\ now' = now + 1
  /\ UNCHANGED <<procVars, memVars, activeBans, queueUnban, adminVars, rules,
                 jumpFirst>>
----------------------------------------------------------------------------
Init ==
  /\ proc = "down" /\ alive = {} /\ stop = FALSE
  /\ clear_before_exit = FALSE /\ exit_code = 0
  /\ bans = NoBans /\ blacklist = {} /\ whitelist = {} /\ pending = NoPending
  /\ activeBans = NoBans /\ queueUnban = {} /\ blackKey = {} /\ whiteKey = {}
  /\ rules = NoRules /\ jumpFirst = FALSE /\ now = 0

Service ==
  \/ \E a \in Addrs : Watch(a)
  \/ Autopurge
  \/ ChainOrder
  \/ UpdateBlacklist \/ ResolvedBlacklist
  \/ UpdateWhitelist \/ ResolvedWhitelist
  \/ Start \/ Exit

Failures ==
  \/ \E a \in Addrs : WatchFails(a)
  \/ AutopurgeFails \/ BlacklistFails \/ WhitelistFails
  \/ StartFails \/ ExitFails \/ Crash

Environment ==
  \/ AdminLists
  \/ \E n \in QueueNets : AdminUnban(n)
  \/ Sigterm \/ Displace \/ Tick

Next == Service \/ Failures \/ Environment

Spec == Init /\ [][Next]_vars

(***************************************************************************)
(* The tasks sleep and go on: each round is weakly fair.  stop_event wakes *)
(* _main, and compose.yml restarts the container ("restart: always").  The *)
(* log, the administrator, the faults and the clock owe nothing.           *)
(***************************************************************************)
Fairness ==
  /\ WF_vars(Autopurge)
  /\ WF_vars(ChainOrder /\ ~jumpFirst)
  /\ WF_vars(UpdateBlacklist) /\ WF_vars(ResolvedBlacklist)
  /\ WF_vars(UpdateWhitelist) /\ WF_vars(ResolvedWhitelist)
  /\ WF_vars(Exit)
  /\ WF_vars(Start)

FairSpec == Spec /\ Fairness
----------------------------------------------------------------------------
(***************************************************************************)
(* Properties                                                              *)
(***************************************************************************)

\* Types.  Counting rules per net is sound because tables.unban() only deletes
\* a rule that it found: no count goes below zero.
TypeOK ==
  /\ proc \in {"up", "down"} /\ alive \subseteq Tasks
  /\ stop \in BOOLEAN /\ clear_before_exit \in BOOLEAN /\ exit_code \in {0, 1, 2}
  /\ DOMAIN bans \subseteq Addrs /\ bans \in [DOMAIN bans -> BanRecord]
  /\ blacklist \subseteq Nets /\ whitelist \subseteq Nets
  /\ pending \in [ListTasks -> SUBSET Entries]
  /\ DOMAIN activeBans \subseteq Addrs /\ activeBans \in [DOMAIN activeBans -> Nat]
  /\ queueUnban \subseteq Nets
  /\ blackKey \subseteq Entries /\ whiteKey \subseteq Entries
  /\ rules \in [Nets -> Nat]
  /\ jumpFirst \in BOOLEAN
  /\ now \in Nat

\* ban() publishes the end of a ban in F2B_ACTIVE_BANS and autopurge()
\* recomputes it from the record: as long as the service has not failed, the
\* two agree on every net that is still over the limit, through further
\* attempts, unbans of either kind and restarts.
ExpiryAgrees ==
  proc = "up" /\ ~stop =>
    \A n \in DOMAIN activeBans \cap DOMAIN bans :
      bans[n].attempts >= MaxAttempts =>
        activeBans[n] = bans[n].last_attempt + calc_net_ban_time(bans[n].ban_counter)

\* A running service takes a ban out of F2B_ACTIVE_BANS only after the time it
\* published there, or because an administrator queued the net.
NoEarlyLift ==
  [][proc = "up" /\ proc' = "up" =>
       \A n \in DOMAIN activeBans \ DOMAIN activeBans' :
         now > activeBans[n] \/ n \in queueUnban]_vars

\* A drop rule in MAIL always has an owner in memory that can take it out: the
\* record of its bans or the blacklist.  Rules from before a crash are gone
\* when the tasks start.  (A blacklist task that an nft error killed may have
\* left rules of nets it already forgot.)
NoOrphanRule ==
  Running("blacklist") =>
    \A n \in Nets : rules[n] > 0 => n \in DOMAIN bans \cup blacklist

\* Every ban that F2B_ACTIVE_BANS lists while the service runs is one this
\* process made, whatever a crash left there; only an error of Redis while
\* clear() deletes the key can leave others.
ListedBansAreOurs ==
  proc = "up" /\ "redis" \notin Faults => DOMAIN activeBans \subseteq DOMAIN bans

\* A process that ended with exit code 0 left no drop rule behind.
CleanExit == proc = "down" /\ exit_code = 0 => rules = NoRules

\* Liveness.  While autopurge runs, a ban that is overdue and still over the
\* limit is lifted, unless the net is reported again first.
Overdue(n) ==
  /\ Running("autopurge")
  /\ n \in DOMAIN activeBans \cap DOMAIN bans
  /\ now > activeBans[n]
  /\ bans[n].attempts >= MaxAttempts

OverdueBanLifted == \A n \in Addrs : Overdue(n) ~> ~Overdue(n)

\* Liveness.  When another program displaces the jump to MAIL, chain_order ends
\* the service and the restart puts the jump back in front.
ChainRepaired == ~jumpFirst ~> jumpFirst

\* Liveness.  An address that stays in F2B_BLACKLIST while its task runs ends up
\* in the set in memory and stays there, although the task may be applying an
\* older copy when the address is added.
BlacklistTakesHold ==
  \A n \in BlackEntries \cap Nets :
    <>[](n \in blackKey /\ Running("blacklist")) => <>[](n \in blacklist)

\* netfilter.py:687 logs "Banning %(net)s for %(minutes)d minutes": a ban whose
\* time is over does not stay for ever.
BansExpire ==
  \A n \in Addrs :
    (Running("autopurge") /\ n \in DOMAIN activeBans /\ now > activeBans[n]) ~>
      (n \notin DOMAIN activeBans \/ now <= activeBans[n] \/ ~Running("autopurge"))
=============================================================================
