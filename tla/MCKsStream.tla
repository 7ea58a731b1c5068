----------------------------- MODULE MCKsStream -----------------------------
(***************************************************************************)
(* Instances of KsStream for TLC.                                          *)
(***************************************************************************)
EXTENDS KsStream

=============================================================================
