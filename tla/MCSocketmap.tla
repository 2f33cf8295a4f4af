---------------------------- MODULE MCSocketmap ----------------------------
(***************************************************************************)
(* Instance of Socketmap for TLC.                                          *)
(***************************************************************************)
EXTENDS Socketmap
=============================================================================
