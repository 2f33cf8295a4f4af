----------------------------- MODULE MCAccounts -----------------------------
(***************************************************************************)
(* Instance of Accounts for TLC.                                           *)
(***************************************************************************)
EXTENDS Accounts, TLC

CONSTANTS u, v, a

Users == {u, v}
Addresses == {u, v, a}

\* Threads are alike, and so are the users of a domain.
WorkersAndUsers == Permutations(Workers) \cup Permutations(Users)

InOneDomain == [x \in Addresses |-> "d"]
OneGoto == {<<"x">>}

Row(q, act, acc) == [quota |-> q, active |-> act, access |-> acc]
SomeRows == {Row(1, TRUE, TRUE), Row(2, FALSE, TRUE), Row(-1, TRUE, FALSE)}

\* One mailbox or two, two quotas of the domain so that a mailbox allowed by one is
\* too large for the other, and limits that are refused.
TightLimits ==
  {[mailboxes |-> n[1], aliases |-> 1, maxquota |-> n[2], quota |-> n[3]] :
     n \in {<<1, 1, 1>>, <<2, 1, 1>>, <<2, 2, 2>>, <<2, 2, 1>>}}
=============================================================================
