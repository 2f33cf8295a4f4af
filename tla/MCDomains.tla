------------------------------ MODULE MCDomains ------------------------------
(***************************************************************************)
(* Instances of Domains for TLC.                                           *)
(***************************************************************************)
EXTENDS Domains, TLC

\* Threads are alike, and so are domains.
RequestSymmetry == Permutations(Workers) \cup Permutations(DomainNames)
=============================================================================
