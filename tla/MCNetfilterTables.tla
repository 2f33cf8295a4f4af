-------------------------- MODULE MCNetfilterTables --------------------------
(***************************************************************************)
(* Instances of NetfilterTables for TLC.                                   *)
(***************************************************************************)
EXTENDS NetfilterTables

TwoNames == {"INPUT", "ufw"}
OneTarget == {"t1"}
=============================================================================
