--------------------------- MODULE NetfilterProofs ---------------------------
(***************************************************************************)
(* Proofs about Netfilter for any networks, options, faults and bounds.    *)
(***************************************************************************)
EXTENDS Netfilter, TLAPS

----------------------------------------------------------------------------
(***************************************************************************)
(* The operators the actions are built from.                               *)
(***************************************************************************)

\* calc_net_ban_time() returns a natural number, however far a net's counter is.
LEMMA BanTimeType == \A c : calc_net_ban_time(c) \in Nat
  BY OptionsAssumption DEF calc_net_ban_time

\* A dict assignment changes one key and adds it when it is missing.
LEMMA PutBanFacts ==
  ASSUME TypeOK, NEW n \in Addrs, NEW v \in BanRecord
  PROVE  /\ DOMAIN Put(bans, n, v) = DOMAIN bans \cup {n}
         /\ DOMAIN Put(bans, n, v) \subseteq Addrs
         /\ Put(bans, n, v) \in [DOMAIN Put(bans, n, v) -> BanRecord]
         /\ Put(bans, n, v)[n] = v
         /\ \A m \in DOMAIN bans : m # n => Put(bans, n, v)[m] = bans[m]
  BY DEF Put, TypeOK

\* hset on F2B_ACTIVE_BANS changes one field and adds it when it is missing.
LEMMA PutActiveFacts ==
  ASSUME TypeOK, NEW n \in Addrs, NEW v \in Nat
  PROVE  /\ DOMAIN Put(activeBans, n, v) = DOMAIN activeBans \cup {n}
         /\ DOMAIN Put(activeBans, n, v) \subseteq Addrs
         /\ Put(activeBans, n, v) \in [DOMAIN Put(activeBans, n, v) -> Nat]
         /\ Put(activeBans, n, v)[n] = v
         /\ \A m \in DOMAIN activeBans : m # n => Put(activeBans, n, v)[m] = activeBans[m]
  BY DEF Put, TypeOK

\* hdel of the keys of S leaves the other keys as they are.
LEMMA WithoutFacts ==
  ASSUME TypeOK, NEW S
  PROVE  /\ DOMAIN Without(activeBans, S) = DOMAIN activeBans \ S
         /\ DOMAIN Without(activeBans, S) \subseteq Addrs
         /\ Without(activeBans, S) \in [DOMAIN Without(activeBans, S) -> Nat]
         /\ \A m \in DOMAIN activeBans \ S : Without(activeBans, S)[m] = activeBans[m]
  BY DEF Without, Restrict, TypeOK

\* Counting an attempt yields a record stamped with the current time.
LEMMA AttemptedFacts ==
  ASSUME TypeOK, NEW n
  PROVE  Attempted(n) \in BanRecord /\ Attempted(n).last_attempt = now
  BY OptionsAssumption DEF TypeOK, Attempted, BanRecord

\* unban() keeps the records it does not touch and resets those it does.
LEMMA UnbannedFacts ==
  ASSUME TypeOK, NEW S
  PROVE  /\ DOMAIN UnbannedRecords(S) = DOMAIN bans
         /\ UnbannedRecords(S) \in [DOMAIN bans -> BanRecord]
         /\ \A n \in DOMAIN bans \ S : UnbannedRecords(S)[n] = bans[n]
         /\ \A n \in DOMAIN bans \cap S : UnbannedRecords(S)[n].attempts = 0
  BY DEF TypeOK, UnbannedRecords, BanRecord

\* Rule counts stay natural numbers, and only the nets of S lose a rule.
LEMMA FirstRuleFacts ==
  ASSUME TypeOK, NEW S
  PROVE  /\ WithoutFirstRule(S) \in [Nets -> Nat]
         /\ \A n \in Nets : WithoutFirstRule(S)[n] =
              IF n \in S /\ rules[n] > 0 THEN rules[n] - 1 ELSE rules[n]
  BY DEF TypeOK, WithoutFirstRule

\* Name resolution only returns networks.
LEMMA ResolutionsFacts ==
  ASSUME NEW E, NEW new \in Resolutions(E)
  PROVE  new \subseteq Nets
  BY NetsAssumption DEF Resolutions
----------------------------------------------------------------------------
(***************************************************************************)
(* Type correctness.                                                       *)
(***************************************************************************)
\* The empty dict of a process that has just started has every value type.
LEMMA NoBansFacts == DOMAIN NoBans = {} /\ \A V : NoBans \in [DOMAIN NoBans -> V]
  BY DEF NoBans

\* The state before the first start is well typed.
LEMMA InitType == Init => TypeOK
<1> SUFFICES ASSUME Init PROVE TypeOK
  OBVIOUS
<1>1. DOMAIN bans \subseteq Addrs /\ bans \in [DOMAIN bans -> BanRecord]
  BY NoBansFacts DEF Init
<1>2. DOMAIN activeBans \subseteq Addrs /\ activeBans \in [DOMAIN activeBans -> Nat]
  BY NoBansFacts DEF Init
<1> QED BY <1>1, <1>2 DEF Init, TypeOK, NoPending, NoRules

\* A lost memory is a well-typed one.
LEMMA LoseMemoryType ==
  LoseMemory => /\ DOMAIN bans' = {} /\ bans' \in [DOMAIN bans' -> BanRecord]
                /\ blacklist' = {} /\ whitelist' = {}
                /\ pending' \in [ListTasks -> SUBSET Entries]
  BY NoBansFacts DEF LoseMemory, NoPending

\* The three delete commands of clear() leave well-typed hashes.
LEMMA DeleteKeysType ==
  ASSUME TypeOK, DeleteKeys
  PROVE  /\ DOMAIN activeBans' \subseteq DOMAIN activeBans
         /\ activeBans' \in [DOMAIN activeBans' -> Nat]
         /\ "redis" \notin Faults => DOMAIN activeBans' = {}
  BY NoBansFacts DEF TypeOK, DeleteKeys

\* Every step of the service, its environment and its faults keeps the types.
LEMMA NextType == TypeOK /\ [Next]_vars => TypeOK'
<1> SUFFICES ASSUME TypeOK, [Next]_vars PROVE TypeOK'
  OBVIOUS
<1> USE NetsAssumption, EnvironmentAssumption
<1>1. ASSUME NEW a \in Addrs, Watch(a) PROVE TypeOK'
  <2>1. bans' = Put(bans, a, Attempted(a))
    BY <1>1 DEF Watch, Ban
  <2>2. DOMAIN bans' \subseteq Addrs /\ bans' \in [DOMAIN bans' -> BanRecord]
    BY <2>1, AttemptedFacts, PutBanFacts
  <2>3. /\ DOMAIN activeBans' \subseteq Addrs /\ activeBans' \in [DOMAIN activeBans' -> Nat]
        /\ rules' \in [Nets -> Nat]
    <3>1. now + calc_net_ban_time(Attempted(a).ban_counter) \in Nat
      BY BanTimeType DEF TypeOK
    <3>2. rules' \in [Nets -> Nat]
      BY <1>1 DEF TypeOK, Watch, Ban, WithRule
    <3>3. \/ UNCHANGED activeBans
          \/ activeBans' = Put(activeBans, a, now + calc_net_ban_time(Attempted(a).ban_counter))
      BY <1>1 DEF Watch, Ban
    <3>4. DOMAIN activeBans \subseteq Addrs /\ activeBans \in [DOMAIN activeBans -> Nat]
      BY DEF TypeOK
    <3>5. DOMAIN activeBans' \subseteq Addrs /\ activeBans' \in [DOMAIN activeBans' -> Nat]
      <4>1. CASE UNCHANGED activeBans
        BY <4>1, <3>4
      <4>2. CASE activeBans' = Put(activeBans, a, now + calc_net_ban_time(Attempted(a).ban_counter))
        BY <4>2, <3>1, PutActiveFacts
      <4> QED BY <4>1, <4>2, <3>3
    <3> QED BY <3>2, <3>5
  <2> QED BY <1>1, <2>2, <2>3 DEF TypeOK, Watch, NextRound, adminVars
<1>2. ASSUME NEW a \in Addrs, WatchFails(a) PROVE TypeOK'
  <2>1. DOMAIN bans' \subseteq Addrs /\ bans' \in [DOMAIN bans' -> BanRecord]
    <3>1. CASE UNCHANGED bans
      BY <3>1 DEF TypeOK
    <3>2. CASE bans' = Put(bans, a, Attempted(a))
      BY <3>2, AttemptedFacts, PutBanFacts
    <3> QED BY <1>2, <3>1, <3>2 DEF WatchFails
  <2>2. rules' \in [Nets -> Nat]
    BY <1>2 DEF TypeOK, WatchFails, WithRule
  <2> QED BY <1>2, <2>1, <2>2 DEF TypeOK, WatchFails, Dies, adminVars
<1>3. CASE Autopurge
  <2> DEFINE S == Queued \cup Expired
  <2>1. /\ bans' = UnbannedRecords(S) /\ rules' = WithoutFirstRule(S)
        /\ activeBans' = Without(activeBans, S)
    BY <1>3 DEF Autopurge
  <2> HIDE DEF S
  <2>2. DOMAIN bans' \subseteq Addrs /\ bans' \in [DOMAIN bans' -> BanRecord]
    BY <2>1, UnbannedFacts DEF TypeOK
  <2>3. DOMAIN activeBans' \subseteq Addrs /\ activeBans' \in [DOMAIN activeBans' -> Nat]
    BY <2>1, WithoutFacts
  <2>4. rules' \in [Nets -> Nat]
    BY <2>1, FirstRuleFacts
  <2> QED BY <1>3, <2>2, <2>3, <2>4 DEF TypeOK, Autopurge, NextRound, adminVars
<1>4. CASE AutopurgeFails
  <2>1. CASE UNCHANGED <<bans, rules, activeBans, queueUnban>>
    BY <1>4, <2>1 DEF TypeOK, AutopurgeFails, Dies, adminVars
  <2>2. CASE ~UNCHANGED <<bans, rules, activeBans, queueUnban>>
    <3>1. PICK S, R, Q :
            /\ bans' = UnbannedRecords(S) /\ rules' = WithoutFirstRule(R)
            /\ activeBans' = Without(activeBans, Q)
            /\ queueUnban' \subseteq queueUnban
      BY <1>4, <2>2 DEF AutopurgeFails
    <3>2. DOMAIN bans' \subseteq Addrs /\ bans' \in [DOMAIN bans' -> BanRecord]
      BY <3>1, UnbannedFacts DEF TypeOK
    <3>3. DOMAIN activeBans' \subseteq Addrs /\ activeBans' \in [DOMAIN activeBans' -> Nat]
      BY <3>1, WithoutFacts
    <3>4. rules' \in [Nets -> Nat]
      BY <3>1, FirstRuleFacts
    <3> QED BY <1>4, <3>1, <3>2, <3>3, <3>4 DEF TypeOK, AutopurgeFails, Dies, adminVars
  <2> QED BY <2>1, <2>2
<1>5. CASE ChainOrder
  BY <1>5 DEF TypeOK, ChainOrder, Dies, memVars, adminVars
<1>6. ASSUME NEW new \in SUBSET Nets, ApplyBlacklist(new)
      PROVE  blacklist' \subseteq Nets /\ rules' \in [Nets -> Nat]
  BY <1>6, FirstRuleFacts DEF ApplyBlacklist, TypeOK
<1>7. CASE UpdateBlacklist
  <2>1. blackKey \cap Hosts = {} => blackKey \in SUBSET Nets
    BY DEF TypeOK, Entries
  <2>2. blacklist' \subseteq Nets /\ rules' \in [Nets -> Nat]
    BY <1>6, <1>7, <2>1 DEF UpdateBlacklist, TypeOK
  <2>3. pending' \in [ListTasks -> SUBSET Entries]
    BY <1>7 DEF UpdateBlacklist, TypeOK
  <2> QED BY <1>7, <2>2, <2>3 DEF TypeOK, UpdateBlacklist, NextRound, adminVars
<1>8. CASE ResolvedBlacklist
  <2>1. blacklist' \subseteq Nets /\ rules' \in [Nets -> Nat]
    BY <1>6, <1>8, ResolutionsFacts DEF ResolvedBlacklist
  <2>2. pending' \in [ListTasks -> SUBSET Entries]
    BY <1>8 DEF ResolvedBlacklist, TypeOK
  <2> QED BY <1>8, <2>1, <2>2 DEF TypeOK, ResolvedBlacklist, NextRound, adminVars
<1>9. CASE BlacklistFails
  <2>1. pending' \in [ListTasks -> SUBSET Entries]
    BY <1>9 DEF BlacklistFails, TypeOK
  <2>2. blacklist' \subseteq Nets /\ rules' \in [Nets -> Nat]
    <3>1. CASE UNCHANGED <<blacklist, rules>>
      BY <3>1 DEF TypeOK
    <3>2. CASE ~UNCHANGED <<blacklist, rules>>
      <4>1. PICK new, A, D :
              /\ \/ new \in Resolutions(pending["blacklist"])
                 \/ new = blackKey /\ blackKey \cap Hosts = {}
              /\ blacklist' = new
              /\ rules' = [n \in Nets |-> IF n \in A THEN rules[n] + 1
                                          ELSE WithoutFirstRule(D)[n]]
        BY <1>9, <3>2 DEF BlacklistFails
      <4>2. new \subseteq Nets
        BY <4>1, ResolutionsFacts DEF TypeOK, Entries
      <4>3. rules' \in [Nets -> Nat]
        BY <4>1, FirstRuleFacts DEF TypeOK
      <4> QED BY <4>1, <4>2, <4>3
    <3> QED BY <3>1, <3>2
  <2> QED BY <1>9, <2>1, <2>2 DEF TypeOK, BlacklistFails, Dies, adminVars
<1>10. CASE UpdateWhitelist
  <2>1. whitelist' \subseteq Nets /\ pending' \in [ListTasks -> SUBSET Entries]
    BY <1>10 DEF UpdateWhitelist, TypeOK, Entries
  <2> QED BY <1>10, <2>1 DEF TypeOK, UpdateWhitelist, NextRound, adminVars
<1>11. CASE ResolvedWhitelist
  <2>1. whitelist' \subseteq Nets /\ pending' \in [ListTasks -> SUBSET Entries]
    BY <1>11, ResolutionsFacts DEF ResolvedWhitelist, TypeOK
  <2> QED BY <1>11, <2>1 DEF TypeOK, ResolvedWhitelist, NextRound, adminVars
<1>12. CASE WhitelistFails
  BY <1>12 DEF TypeOK, WhitelistFails, Dies, memVars, adminVars
<1>13. CASE Start
  BY <1>13, LoseMemoryType, DeleteKeysType DEF TypeOK, Start, NoRules, adminVars
<1>14. CASE StartFails
  <2>1. DOMAIN activeBans' \subseteq Addrs /\ activeBans' \in [DOMAIN activeBans' -> Nat]
    BY <1>14, DeleteKeysType DEF TypeOK, StartFails
  <2>2. rules' \in [Nets -> Nat]
    BY <1>14 DEF TypeOK, StartFails, NoRules
  <2> QED BY <1>14, <2>1, <2>2 DEF TypeOK, StartFails, memVars, adminVars
<1>15. CASE Exit
  <2>1. /\ DOMAIN activeBans' \subseteq Addrs /\ activeBans' \in [DOMAIN activeBans' -> Nat]
        /\ rules' \in [Nets -> Nat] /\ queueUnban' \subseteq Nets /\ jumpFirst' \in BOOLEAN
    <3>1. CASE clear_before_exit
      <4>1. DeleteKeys /\ rules' = NoRules /\ queueUnban' \subseteq queueUnban /\ jumpFirst' = FALSE
        BY <1>15, <3>1 DEF Exit
      <4>2. DOMAIN activeBans \subseteq Addrs /\ queueUnban \subseteq Nets
        BY DEF TypeOK
      <4> QED BY <4>1, <4>2, DeleteKeysType DEF NoRules
    <3>2. CASE ~clear_before_exit
      BY <1>15, <3>2 DEF TypeOK, Exit
    <3> QED BY <3>1, <3>2
  <2> QED BY <1>15, <2>1, LoseMemoryType DEF TypeOK, Exit, Ends, adminVars
<1>16. CASE ExitFails
  <2>1. PICK R, S :
          /\ \/ rules' = WithoutFirstRule(R)
             \/ rules' = [n \in Nets |-> IF n \in V6 THEN WithoutFirstRule(R)[n] ELSE 0]
          /\ activeBans' = Without(activeBans, S)
          /\ queueUnban' \subseteq queueUnban /\ jumpFirst' \in BOOLEAN
    BY <1>16 DEF TypeOK, ExitFails
  <2>2. rules' \in [Nets -> Nat]
    BY <2>1, FirstRuleFacts
  <2>3. DOMAIN activeBans' \subseteq Addrs /\ activeBans' \in [DOMAIN activeBans' -> Nat]
    BY <2>1, WithoutFacts
  <2> QED BY <1>16, <2>1, <2>2, <2>3, LoseMemoryType DEF TypeOK, ExitFails, Ends, adminVars
<1>17. CASE Crash
  <2>1. LoseMemory /\ rules' \in [Nets -> Nat]
    BY <1>17 DEF TypeOK, Crash, Ends, NoRules
  <2> QED BY <1>17, <2>1, LoseMemoryType DEF TypeOK, Crash, Ends, adminVars
<1>18. CASE Environment
  <2>1. CASE AdminLists
    BY <2>1 DEF TypeOK, AdminLists, Entries, procVars, memVars
  <2>2. ASSUME NEW n \in QueueNets, AdminUnban(n) PROVE TypeOK'
    BY <2>2 DEF TypeOK, AdminUnban, procVars, memVars, adminVars
  <2>3. CASE Sigterm
    BY <2>3 DEF TypeOK, Sigterm, memVars, adminVars
  <2>4. CASE Displace
    BY <2>4 DEF TypeOK, Displace, procVars, memVars, adminVars
  <2>5. CASE Tick
    BY <2>5 DEF TypeOK, Tick, procVars, memVars, adminVars
  <2> QED BY <1>18, <2>1, <2>2, <2>3, <2>4, <2>5 DEF Environment
<1>19. CASE UNCHANGED vars
  BY <1>19 DEF TypeOK, vars, procVars, memVars, adminVars
<1> QED
  BY <1>1, <1>2, <1>3, <1>4, <1>5, <1>7, <1>8, <1>9, <1>10, <1>11, <1>12, <1>13,
     <1>14, <1>15, <1>16, <1>17, <1>18, <1>19 DEF Next, Service, Failures

\* Every variable keeps its type in every behaviour of the service, for any
\* networks, limits, faults and administrator: in particular the process
\* never deletes more rules from the chain than it finds there.
THEOREM TypeCorrect == Spec => []TypeOK
  BY InitType, NextType, PTL DEF Spec
----------------------------------------------------------------------------
(***************************************************************************)
(* F2B_ACTIVE_BANS against the records in memory.                          *)
(*                                                                         *)
(* ExpiryAgrees is not inductive: an exception between the insert of a     *)
(* rule and the hset breaks it, and while _main has not ended the process  *)
(* autopurge may still run.  ExpiryInv says what is left then: the record  *)
(* was stamped in this very second, so autopurge will not touch it.        *)
(***************************************************************************)
ExpiryInv ==
  proc = "up" =>
    \A n \in DOMAIN activeBans \cap DOMAIN bans :
      bans[n].attempts >= MaxAttempts =>
        \/ activeBans[n] = bans[n].last_attempt + calc_net_ban_time(bans[n].ban_counter)
        \/ stop /\ bans[n].last_attempt = now

\* What an unban, whole or interrupted, does to the two tables: the records of
\* S are reset, and at least S leaves F2B_ACTIVE_BANS.
LEMMA PurgeFacts ==
  ASSUME TypeOK, Autopurge \/ AutopurgeFails
  PROVE  \E S, Q :
           /\ S \subseteq Q /\ Q \subseteq Queued \cup Expired
           /\ bans' = UnbannedRecords(S)
           /\ activeBans' = Without(activeBans, Q)
<1>1. CASE Autopurge
  BY <1>1 DEF Autopurge
<1>2. CASE AutopurgeFails /\ UNCHANGED <<bans, rules, activeBans, queueUnban>>
  <2>1. bans' = UnbannedRecords({})
    BY <1>2 DEF UnbannedRecords, TypeOK
  <2>2. activeBans' = Without(activeBans, {})
    BY <1>2 DEF Without, Restrict, TypeOK
  <2> QED BY <2>1, <2>2
<1>3. CASE AutopurgeFails /\ ~UNCHANGED <<bans, rules, activeBans, queueUnban>>
  BY <1>3 DEF AutopurgeFails
<1> QED BY <1>1, <1>2, <1>3

\* Every step keeps what the published end of a ban and its record have in common.
LEMMA ExpiryStep == TypeOK /\ ExpiryInv /\ [Next]_vars => ExpiryInv'
<1> SUFFICES ASSUME TypeOK, ExpiryInv, [Next]_vars, proc' = "up",
                    NEW n \in DOMAIN activeBans' \cap DOMAIN bans',
                    bans'[n].attempts >= MaxAttempts
             PROVE  \/ activeBans'[n] = bans'[n].last_attempt
                                        + calc_net_ban_time(bans'[n].ban_counter)
                    \/ stop' /\ bans'[n].last_attempt = now'
  BY DEF ExpiryInv
<1>1. ASSUME NEW a \in Addrs, Watch(a)
      PROVE  \/ activeBans'[n] = bans'[n].last_attempt + calc_net_ban_time(bans'[n].ban_counter)
             \/ stop' /\ bans'[n].last_attempt = now'
  <2>1. /\ bans' = Put(bans, a, Attempted(a))
        /\ UNCHANGED <<proc, stop, now>>
        /\ Attempted(a) \in BanRecord /\ Attempted(a).last_attempt = now
    BY <1>1, AttemptedFacts DEF Watch, Ban
  <2>2. DOMAIN bans' = DOMAIN bans \cup {a} /\ bans'[a] = Attempted(a)
        /\ \A m \in DOMAIN bans : m # a => bans'[m] = bans[m]
    BY <2>1, PutBanFacts
  <2> DEFINE e == now + calc_net_ban_time(Attempted(a).ban_counter)
  <2>3. /\ e \in Nat
        /\ e = now + calc_net_ban_time(Attempted(a).ban_counter)
        /\ \/ activeBans' = Put(activeBans, a, e)
           \/ Attempted(a).attempts < MaxAttempts /\ UNCHANGED activeBans
    BY <1>1, <2>1, BanTimeType, OptionsAssumption DEF TypeOK, Watch, Ban, BanRecord
  <2> HIDE DEF e
  <2>4. CASE n = a
    <3>1. activeBans' = Put(activeBans, a, e)
      BY <2>1, <2>2, <2>3, <2>4, OptionsAssumption DEF BanRecord
    <3>2. activeBans'[a] = e
      BY <3>1, <2>3, PutActiveFacts
    <3> QED BY <3>2, <2>3, <2>4, <2>2, <2>1
  <2>5. CASE n # a
    <3>1. n \in DOMAIN activeBans /\ activeBans'[n] = activeBans[n]
      <4>1. CASE UNCHANGED activeBans
        BY <4>1
      <4>2. CASE activeBans' = Put(activeBans, a, e)
        <5>1. /\ DOMAIN activeBans' = DOMAIN activeBans \cup {a}
              /\ \A m \in DOMAIN activeBans : m # a => activeBans'[m] = activeBans[m]
          BY <4>2, <2>3, PutActiveFacts
        <5> QED BY <5>1, <2>5
      <4> QED BY <2>3, <4>1, <4>2
    <3> QED BY <3>1, <2>1, <2>2, <2>5 DEF ExpiryInv
  <2> QED BY <2>4, <2>5
<1>2. ASSUME NEW a \in Addrs, WatchFails(a)
      PROVE  \/ activeBans'[n] = bans'[n].last_attempt + calc_net_ban_time(bans'[n].ban_counter)
             \/ stop' /\ bans'[n].last_attempt = now'
  <2>1. UNCHANGED <<proc, activeBans, now>>
    BY <1>2 DEF WatchFails
  <2>4. (stop => stop') /\ stop'
    BY <1>2, Zenon DEF WatchFails
  <2>2. CASE UNCHANGED bans
    <3>1. stop => stop'
      BY <2>4
    <3> QED BY <2>1, <2>2, <3>1 DEF ExpiryInv
  <2>3. CASE bans' = Put(bans, a, Attempted(a))
    <3>1. DOMAIN bans' = DOMAIN bans \cup {a} /\ bans'[a].last_attempt = now
          /\ \A m \in DOMAIN bans : m # a => bans'[m] = bans[m]
      BY <2>3, AttemptedFacts, PutBanFacts
    <3>2. CASE n = a
      <4>1. bans'[n].last_attempt = now'
        BY <2>1, <3>1, <3>2
      <4> QED BY <4>1, <2>4, Zenon
    <3>3. CASE n # a
      <4>1. stop => stop'
        BY <2>4
      <4> QED BY <2>1, <4>1, <3>1, <3>3 DEF ExpiryInv
    <3> QED BY <3>2, <3>3
  <2> QED BY <1>2, <2>2, <2>3 DEF WatchFails
<1>3. CASE Autopurge \/ AutopurgeFails
  <2>1. PICK S, Q : /\ S \subseteq Q
                    /\ bans' = UnbannedRecords(S)
                    /\ activeBans' = Without(activeBans, Q)
    BY <1>3, PurgeFacts
  <2>2. UNCHANGED <<proc, stop, now>>
    BY <1>3 DEF Autopurge, AutopurgeFails
  <2>3. n \in DOMAIN activeBans \ Q /\ activeBans'[n] = activeBans[n]
    BY <2>1, WithoutFacts
  <2>4. n \in DOMAIN bans /\ bans'[n] = bans[n]
    BY <2>1, <2>3, UnbannedFacts
  <2> QED BY <2>2, <2>3, <2>4 DEF ExpiryInv
<1>4. CASE \/ ChainOrder \/ UpdateBlacklist \/ ResolvedBlacklist \/ BlacklistFails
           \/ UpdateWhitelist \/ ResolvedWhitelist \/ WhitelistFails \/ Sigterm
  <2>1. UNCHANGED <<proc, bans, activeBans, now>> /\ (stop => stop')
    BY <1>4 DEF ChainOrder, UpdateBlacklist, ResolvedBlacklist, BlacklistFails,
                UpdateWhitelist, ResolvedWhitelist, WhitelistFails, Sigterm, memVars
  <2> QED BY <2>1 DEF ExpiryInv
<1>5. CASE Start
  BY <1>5, LoseMemoryType DEF Start
<1>6. CASE StartFails \/ Exit \/ ExitFails \/ Crash
  BY <1>6 DEF StartFails, Exit, ExitFails, Crash, Ends
<1>7. CASE AdminLists \/ (\E m \in QueueNets : AdminUnban(m)) \/ Displace
  <2>1. UNCHANGED <<proc, stop, bans, activeBans, now>>
    BY <1>7 DEF AdminLists, AdminUnban, Displace, procVars, memVars
  <2> QED BY <2>1 DEF ExpiryInv
<1>8. CASE Tick
  <2>1. UNCHANGED <<proc, stop, bans, activeBans>> /\ (proc = "up" => ~stop)
    BY <1>8 DEF Tick, procVars, memVars
  <2> QED BY <2>1 DEF ExpiryInv
<1>9. CASE UNCHANGED vars
  <2>1. UNCHANGED <<proc, stop, bans, activeBans, now>>
    BY <1>9 DEF vars, procVars, memVars
  <2> QED BY <2>1 DEF ExpiryInv
<1> QED
  BY <1>1, <1>2, <1>3, <1>4, <1>5, <1>6, <1>7, <1>8, <1>9
     DEF Next, Service, Failures, Environment

\* The end of a ban that F2B_ACTIVE_BANS publishes and the one that autopurge
\* computes from the record agree in every reachable state in which the service
\* has not failed, for any options, faults and administrator.
THEOREM ExpiryAgreesAlways == Spec => []ExpiryAgrees
<1>1. Init => ExpiryInv
  BY DEF Init, ExpiryInv
<1>2. ExpiryInv => ExpiryAgrees
  BY DEF ExpiryInv, ExpiryAgrees
<1> QED BY <1>1, <1>2, ExpiryStep, TypeCorrect, PTL DEF Spec

\* The step behind NoEarlyLift: an overdue record was stamped earlier, so the
\* published time is the one it was compared with.
LEMMA LiftStep ==
  ASSUME TypeOK, ExpiryInv, [Next]_vars, proc = "up", proc' = "up",
         NEW n \in DOMAIN activeBans \ DOMAIN activeBans'
  PROVE  now > activeBans[n] \/ n \in queueUnban
<1>1. CASE Autopurge \/ AutopurgeFails
  <2>1. PICK Q : /\ Q \subseteq Queued \cup Expired
                 /\ activeBans' = Without(activeBans, Q)
    BY <1>1, PurgeFacts
  <2>2. n \in Queued \cup Expired
    <3>1. DOMAIN activeBans' = DOMAIN activeBans \ Q
      BY <2>1, WithoutFacts
    <3> QED BY <2>1, <3>1
  <2>3. CASE n \in Queued
    BY <2>3 DEF Queued
  <2>4. CASE n \in Expired
    <3>1. /\ n \in DOMAIN bans /\ bans[n].attempts >= MaxAttempts
          /\ now - bans[n].last_attempt > calc_net_ban_time(bans[n].ban_counter)
      BY <2>4 DEF Expired
    <3>2. /\ calc_net_ban_time(bans[n].ban_counter) \in Nat
          /\ now \in Nat /\ bans[n].last_attempt \in Nat
      BY <3>1, BanTimeType DEF TypeOK, BanRecord
    <3>3. bans[n].last_attempt # now
      BY <3>1, <3>2
    <3>4. activeBans[n] = bans[n].last_attempt + calc_net_ban_time(bans[n].ban_counter)
      BY <3>1, <3>3 DEF ExpiryInv
    <3> QED BY <3>1, <3>2, <3>4
  <2> QED BY <2>2, <2>3, <2>4
<1>2. ASSUME NEW a \in Addrs, Watch(a) PROVE FALSE
  <2>1. now + calc_net_ban_time(Attempted(a).ban_counter) \in Nat
    BY BanTimeType DEF TypeOK
  <2>2. DOMAIN activeBans \subseteq DOMAIN activeBans'
    <3>1. CASE UNCHANGED activeBans
      BY <3>1
    <3>2. CASE activeBans' = Put(activeBans, a, now + calc_net_ban_time(Attempted(a).ban_counter))
      BY <3>2, <2>1, PutActiveFacts
    <3> QED BY <1>2, <3>1, <3>2 DEF Watch, Ban
  <2> QED BY <2>2
<1>3. CASE \/ ChainOrder \/ UpdateBlacklist \/ ResolvedBlacklist \/ BlacklistFails
           \/ UpdateWhitelist \/ ResolvedWhitelist \/ WhitelistFails \/ Sigterm
           \/ (\E a \in Addrs : WatchFails(a)) \/ AdminLists
           \/ (\E m \in QueueNets : AdminUnban(m)) \/ Displace \/ Tick \/ UNCHANGED vars
  BY <1>3 DEF ChainOrder, UpdateBlacklist, ResolvedBlacklist, BlacklistFails, UpdateWhitelist,
              ResolvedWhitelist, WhitelistFails, Sigterm, WatchFails, AdminLists, AdminUnban,
              Displace, Tick, vars
<1>4. CASE Start \/ StartFails \/ Exit \/ ExitFails \/ Crash
  BY <1>4 DEF Start, StartFails, Exit, ExitFails, Crash, Ends
<1> QED BY <1>1, <1>2, <1>3, <1>4 DEF Next, Service, Failures, Environment

\* No running service, with any faults, takes a ban out of F2B_ACTIVE_BANS
\* before its published end unless an administrator asked for it.
THEOREM NoEarlyLiftAlways == Spec => NoEarlyLift
<1>1. Init => ExpiryInv
  BY DEF Init, ExpiryInv
<1>2. TypeOK /\ ExpiryInv /\ [Next]_vars =>
        [proc = "up" /\ proc' = "up" =>
           \A n \in DOMAIN activeBans \ DOMAIN activeBans' :
             now > activeBans[n] \/ n \in queueUnban]_vars
  BY LiftStep
<1> QED BY <1>1, <1>2, ExpiryStep, TypeCorrect, PTL DEF Spec, NoEarlyLift
----------------------------------------------------------------------------
(***************************************************************************)
(* Rules and their owners.                                                 *)
(*                                                                         *)
(* NoOrphanRule does not say how many rules a net has, and so does not     *)
(* survive a net's leaving the blacklist.  RuleInv does: a net that was    *)
(* never reported has one rule or none, as the blacklist says.             *)
(***************************************************************************)
RuleInv ==
  Running("blacklist") =>
    \A n \in Nets \ DOMAIN bans : rules[n] = IF n \in blacklist THEN 1 ELSE 0

\* Every step keeps every drop rule with an owner, one per action.
LEMMA RuleStep == TypeOK /\ RuleInv /\ [Next]_vars => RuleInv'
<1> SUFFICES ASSUME TypeOK, RuleInv, [Next]_vars, proc' = "up", "blacklist" \in alive',
                    NEW n \in Nets \ DOMAIN bans'
             PROVE  rules'[n] = IF n \in blacklist' THEN 1 ELSE 0
  BY DEF RuleInv, Running
<1>1. ASSUME NEW a \in Addrs, Watch(a) \/ WatchFails(a)
      PROVE  rules'[n] = IF n \in blacklist' THEN 1 ELSE 0
  <2>1. /\ UNCHANGED <<proc, blacklist>>
        /\ alive' \subseteq alive
        /\ bans' = Put(bans, a, Attempted(a)) \/ UNCHANGED <<bans, rules>>
        /\ UNCHANGED rules \/ rules' = WithRule(a)
    BY <1>1 DEF Watch, WatchFails, Ban, NextRound, Dies
  <2>2. DOMAIN bans \subseteq DOMAIN bans' /\ (n = a => UNCHANGED <<bans, rules>>)
    <3>1. CASE bans' = Put(bans, a, Attempted(a))
      <4>1. DOMAIN bans' = DOMAIN bans \cup {a}
        BY <3>1, AttemptedFacts, PutBanFacts
      <4> QED BY <4>1
    <3>2. CASE UNCHANGED <<bans, rules>>
      BY <3>2
    <3> QED BY <2>1, <3>1, <3>2
  <2>3. rules'[n] = rules[n]
    BY <2>1, <2>2 DEF WithRule, TypeOK
  <2> QED BY <2>1, <2>2, <2>3 DEF RuleInv, Running
<1>2. CASE Autopurge \/ AutopurgeFails
  <2>1. PICK R : /\ R \subseteq DOMAIN bans
                 /\ rules' = WithoutFirstRule(R) \/ UNCHANGED rules
    <3>1. Queued \cup Expired \subseteq DOMAIN bans
      BY DEF Queued, Expired
    <3>2. CASE Autopurge
      BY <3>1, <3>2 DEF Autopurge
    <3>3. CASE AutopurgeFails
      BY <3>1, <3>3 DEF AutopurgeFails
    <3> QED BY <1>2, <3>2, <3>3
  <2>2. UNCHANGED <<proc, blacklist>> /\ alive' \subseteq alive
    BY <1>2 DEF Autopurge, AutopurgeFails, NextRound, Dies
  <2>3. PICK S : bans' = UnbannedRecords(S)
    BY <1>2, PurgeFacts
  <2>4. n \notin DOMAIN bans
    BY <2>3, UnbannedFacts
  <2>5. rules'[n] = rules[n]
    BY <2>1, <2>4, FirstRuleFacts
  <2> QED BY <2>2, <2>4, <2>5 DEF RuleInv, Running
<1>3. ASSUME NEW new, ApplyBlacklist(new), UNCHANGED <<proc, bans>>, alive' \subseteq alive
      PROVE  rules'[n] = IF n \in blacklist' THEN 1 ELSE 0
  <2>1. rules[n] = IF n \in blacklist THEN 1 ELSE 0
    BY <1>3 DEF RuleInv, Running
  <2>2. /\ blacklist' = new
        /\ rules'[n] = IF n \in new \ blacklist THEN rules[n] + 1
                       ELSE WithoutFirstRule(blacklist \ new)[n]
    BY <1>3 DEF ApplyBlacklist
  <2>3. WithoutFirstRule(blacklist \ new)[n] =
          IF n \in blacklist \ new /\ rules[n] > 0 THEN rules[n] - 1 ELSE rules[n]
    BY FirstRuleFacts
  <2> QED BY <2>1, <2>2, <2>3
<1>4. CASE UpdateBlacklist
  <2>1. CASE ApplyBlacklist(blackKey)
    BY <1>3, <1>4, <2>1 DEF UpdateBlacklist, NextRound
  <2>2. CASE UNCHANGED <<alive, blacklist, rules>>
    BY <1>4, <2>2 DEF UpdateBlacklist, RuleInv, Running
  <2> QED BY <1>4, <2>1, <2>2 DEF UpdateBlacklist
<1>5. CASE ResolvedBlacklist
  BY <1>3, <1>5 DEF ResolvedBlacklist, NextRound
<1>6. CASE BlacklistFails
  BY <1>6 DEF BlacklistFails, Dies
<1>7. CASE ChainOrder \/ UpdateWhitelist \/ ResolvedWhitelist \/ WhitelistFails \/ Environment
  <2>1. UNCHANGED <<proc, bans, blacklist, rules>> /\ alive' \subseteq alive
    BY <1>7 DEF ChainOrder, UpdateWhitelist, ResolvedWhitelist, WhitelistFails, Environment,
                AdminLists, AdminUnban, Sigterm, Displace, Tick, Dies, NextRound,
                procVars, memVars
  <2> QED BY <2>1 DEF RuleInv, Running
<1>8. CASE Start
  BY <1>8, LoseMemoryType DEF Start, NoRules
<1>9. CASE StartFails \/ Exit \/ ExitFails \/ Crash
  BY <1>9 DEF StartFails, Exit, ExitFails, Crash, Ends
<1>10. CASE UNCHANGED vars
  <2>1. UNCHANGED <<proc, alive, bans, blacklist, rules>>
    BY <1>10 DEF vars, procVars, memVars
  <2> QED BY <2>1 DEF RuleInv, Running
<1> QED
  BY <1>1, <1>2, <1>4, <1>5, <1>6, <1>7, <1>8, <1>9, <1>10 DEF Next, Service, Failures

\* In every reachable state a drop rule belongs to a record or to the blacklist
\* of the running process: a crash or an aborted start leaves none behind.
THEOREM NoOrphanRuleAlways == Spec => []NoOrphanRule
<1>1. Init => RuleInv
  BY DEF Init, RuleInv, Running
<1>2. TypeOK /\ RuleInv => NoOrphanRule
  BY DEF TypeOK, RuleInv, NoOrphanRule
<1> QED BY <1>1, <1>2, RuleStep, TypeCorrect, PTL DEF Spec

(***************************************************************************)
(* A clean exit.  The code is 0 only when SIGTERM, which also asks for the *)
(* clearing, is what stopped the service.                                  *)
(***************************************************************************)
ExitInv ==
  /\ CleanExit
  /\ proc = "up" /\ stop /\ exit_code = 0 => clear_before_exit

\* Every step keeps the chain MAIL empty after a clean exit.
LEMMA ExitStep == ExitInv /\ [Next]_vars => ExitInv'
<1> SUFFICES ASSUME ExitInv, [Next]_vars PROVE ExitInv'
  OBVIOUS
<1> USE DEF ExitInv, CleanExit
<1>1. CASE (\E a \in Addrs : WatchFails(a)) \/ ChainOrder
  BY <1>1 DEF WatchFails, ChainOrder, Running
<1>2. CASE \/ (\E a \in Addrs : Watch(a)) \/ Autopurge \/ AutopurgeFails
           \/ UpdateBlacklist \/ ResolvedBlacklist \/ BlacklistFails
           \/ UpdateWhitelist \/ ResolvedWhitelist \/ WhitelistFails
  <2>1. proc = "up" /\ UNCHANGED <<proc, stop, clear_before_exit, exit_code>>
    BY <1>2 DEF Watch, Autopurge, AutopurgeFails, UpdateBlacklist, ResolvedBlacklist,
                BlacklistFails, UpdateWhitelist, ResolvedWhitelist, WhitelistFails, Running
  <2> QED BY <2>1
<1>3. CASE Start
  BY <1>3 DEF Start
<1>4. CASE StartFails \/ ExitFails \/ Crash
  BY <1>4 DEF StartFails, ExitFails, Crash, Ends
<1>5. CASE Exit
  BY <1>5 DEF Exit, Ends
<1>6. CASE Sigterm
  BY <1>6 DEF Sigterm
<1>7. CASE \/ AdminLists \/ (\E n \in QueueNets : AdminUnban(n)) \/ Displace \/ Tick
           \/ UNCHANGED vars
  <2>1. UNCHANGED <<proc, stop, clear_before_exit, exit_code, rules>>
    BY <1>7 DEF AdminLists, AdminUnban, Displace, Tick, vars, procVars
  <2> QED BY <2>1
<1> QED
  BY <1>1, <1>2, <1>3, <1>4, <1>5, <1>6, <1>7 DEF Next, Service, Failures, Environment

\* Whatever happened before, a process that ends with code 0 has emptied the
\* chain MAIL.
THEOREM CleanExitAlways == Spec => []CleanExit
<1>1. Init => ExitInv
  BY DEF Init, ExitInv, CleanExit
<1>2. ExitInv => CleanExit
  BY DEF ExitInv
<1> QED BY <1>1, <1>2, ExitStep, PTL DEF Spec

(***************************************************************************)
(* F2B_ACTIVE_BANS lists only bans of the running process.                 *)
(***************************************************************************)
\* Every step keeps the listed bans among those of the running process.
LEMMA OursStep == TypeOK /\ ListedBansAreOurs /\ [Next]_vars => ListedBansAreOurs'
<1> SUFFICES ASSUME TypeOK, ListedBansAreOurs, [Next]_vars, proc' = "up", "redis" \notin Faults
             PROVE  DOMAIN activeBans' \subseteq DOMAIN bans'
  BY DEF ListedBansAreOurs
<1>1. ASSUME NEW a \in Addrs, Watch(a) PROVE DOMAIN activeBans' \subseteq DOMAIN bans'
  <2>1. DOMAIN bans' = DOMAIN bans \cup {a} /\ proc = "up"
    BY <1>1, AttemptedFacts, PutBanFacts DEF Watch, Ban, Running
  <2>2. now + calc_net_ban_time(Attempted(a).ban_counter) \in Nat
    BY BanTimeType DEF TypeOK
  <2>3. DOMAIN activeBans' \subseteq DOMAIN activeBans \cup {a}
    <3>1. CASE UNCHANGED activeBans
      BY <3>1
    <3>2. CASE activeBans' = Put(activeBans, a, now + calc_net_ban_time(Attempted(a).ban_counter))
      BY <3>2, <2>2, PutActiveFacts
    <3> QED BY <1>1, <3>1, <3>2 DEF Watch, Ban
  <2> QED BY <2>1, <2>3 DEF ListedBansAreOurs
<1>2. ASSUME NEW a \in Addrs, WatchFails(a) PROVE DOMAIN activeBans' \subseteq DOMAIN bans'
  <2>1. bans' = bans \/ bans' = Put(bans, a, Attempted(a))
    BY <1>2 DEF WatchFails
  <2>2. DOMAIN bans \subseteq DOMAIN bans'
    BY <2>1, AttemptedFacts, PutBanFacts
  <2> QED BY <1>2, <2>2 DEF WatchFails, ListedBansAreOurs, Running
<1>3. CASE Autopurge \/ AutopurgeFails
  <2>1. PICK S, Q : bans' = UnbannedRecords(S) /\ activeBans' = Without(activeBans, Q)
    BY <1>3, PurgeFacts
  <2>2. DOMAIN bans' = DOMAIN bans /\ DOMAIN activeBans' \subseteq DOMAIN activeBans
    BY <2>1, UnbannedFacts, WithoutFacts
  <2> QED BY <1>3, <2>2 DEF Autopurge, AutopurgeFails, ListedBansAreOurs, Running
<1>4. CASE Start
  BY <1>4, DeleteKeysType DEF Start
<1>5. CASE StartFails \/ Exit \/ ExitFails \/ Crash
  BY <1>5 DEF StartFails, Exit, ExitFails, Crash, Ends
<1>6. CASE \/ ChainOrder \/ UpdateBlacklist \/ ResolvedBlacklist \/ BlacklistFails
           \/ UpdateWhitelist \/ ResolvedWhitelist \/ WhitelistFails \/ Environment
           \/ UNCHANGED vars
  <2>1. UNCHANGED <<proc, bans, activeBans>>
    BY <1>6 DEF ChainOrder, UpdateBlacklist, ResolvedBlacklist, BlacklistFails,
                UpdateWhitelist, ResolvedWhitelist, WhitelistFails, Environment, AdminLists,
                AdminUnban, Sigterm, Displace, Tick, vars, procVars, memVars
  <2> QED BY <2>1 DEF ListedBansAreOurs
<1> QED BY <1>1, <1>2, <1>3, <1>4, <1>5, <1>6 DEF Next, Service, Failures

\* As long as Redis answers, what a crash left in F2B_ACTIVE_BANS is never shown
\* as a ban of the process that runs.
THEOREM ListedBansAreOursAlways == Spec => []ListedBansAreOurs
<1>1. Init => ListedBansAreOurs
  BY DEF Init, ListedBansAreOurs
<1> QED BY <1>1, OursStep, TypeCorrect, PTL DEF Spec
=============================================================================
