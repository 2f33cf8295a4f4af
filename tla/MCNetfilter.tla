----------------------------- MODULE MCNetfilter -----------------------------
(***************************************************************************)
(* Instances of Netfilter for TLC.                                         *)
(***************************************************************************)
EXTENDS Netfilter

CONSTANTS net1, net2, host

OneNet == {net1}
TwoNets == {net1, net2}
SelfOverlap == {<<n, n>> : n \in Nets}
HostAnswers == [x \in Hosts |-> {net2}]

\* calc_net_ban_time() as it is written, with the values of f2boptions and the
\* cases of tests/unit/test_netfilter.py.
Literal(banTime, maxBanTime, c) ==
  LET t == IF banTime * 2^c < maxBanTime THEN banTime * 2^c ELSE maxBanTime
  IN  IF t > banTime THEN t ELSE banTime

Capped(banTime, maxBanTime, c) ==
  LET t == banTime * 2^c
  IN  IF t \in banTime..maxBanTime THEN t ELSE maxBanTime

ASSUME LadderAssumption ==
  /\ \A c \in 0..12 : Capped(1800, 10000, c) = Literal(1800, 10000, c)
  /\ \A c \in 0..12 : calc_net_ban_time(c) = Literal(BanTime, MaxBanTime, c)
  /\ Capped(1800, 10000, 1) = 3600
  /\ Capped(1800, 10000, 2) = 7200
  /\ Capped(1800, 10000, 10) = 10000
=============================================================================
