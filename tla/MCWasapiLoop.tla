---------------------------- MODULE MCWasapiLoop ----------------------------
(***************************************************************************)
(* Instances of WasapiLoop for TLC.                                        *)
(***************************************************************************)
EXTENDS WasapiLoop

=============================================================================
