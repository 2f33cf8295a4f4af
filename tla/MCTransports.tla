---------------------------- MODULE MCTransports ----------------------------
(***************************************************************************)
(* Instance of Transports for TLC.                                         *)
(***************************************************************************)
EXTENDS Transports, TLC

\* "mx.example", "[mx.example]:587" and "MX.example" are one host.
Mx == [host |-> "mx", bracketed |-> FALSE, port |-> "none"]
Bracketed == [host |-> "mx", bracketed |-> TRUE, port |-> "587"]
Upper == [host |-> "MX", bracketed |-> FALSE, port |-> "none"]
FoldedHosts == ("mx" :> "mx") @@ ("MX" :> "mx") @@ ("ip" :> "ip")

\* An address is typed without brackets and kept with them.
Ip == [host |-> "ip", bracketed |-> FALSE, port |-> "none"]

\* A domain, and a regular expression, which only an MX based transport may have.
AcceptedDestinations == {<<"domain", FALSE>>, <<"regexp", TRUE>>}

\* A user name and none for the host, another password where it is written in upper
\* case; for the address, a password without a user name, and a regular expression that
\* is not MX based.
AskedRows ==
  LET row(a, n, c) == [destination |-> a[1], mx |-> a[2], nexthop |-> n,
                       username |-> c[1], password |-> c[2]]
  IN {row(<<"domain", FALSE>>, Mx, c) : c \in {<<"", "">>, <<"u", "p">>}}
     \cup {row(<<"regexp", TRUE>>, n, <<"u", "p">>) : n \in {Mx, Bracketed}}
     \cup {row(<<"regexp", TRUE>>, Upper, <<"u", "q">>)}
     \cup {row(<<"domain", FALSE>>, Ip, <<"", "p">>)}
     \cup {row(<<"regexp", FALSE>>, Ip, <<"", "">>)}

\* Threads are alike.
WorkerSymmetry == Permutations(Workers)
=============================================================================
