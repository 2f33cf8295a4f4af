------------------------------- MODULE MCStore -------------------------------
(***************************************************************************)
(* Instance of Store for TLC.                                              *)
(***************************************************************************)
EXTENDS Store, TLC

\* Every call with texts; values that are no text in one field, without a ttl.
UsedCalls ==
  {r \in Promised!Calls :
     r.op \in {"set", "hset"} =>
       r.value \in Texts \/ (~r.ttl /\ (r.op = "hset" => r.field = "f"))}

\* Clients are alike.
StoreSymmetry == Permutations(Clients)
=============================================================================
