---------------------------- MODULE MCComServer -----------------------------
(***************************************************************************)
(* Instances of ComServer for TLC.                                         *)
(***************************************************************************)
EXTENDS ComServer, TLC

Interchangeable == 
    Permutations(Clients) \cup Permutations(Objects) \cup Permutations(Slots)

=============================================================================
