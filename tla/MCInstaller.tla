----------------------------- MODULE MCInstaller -----------------------------
(***************************************************************************)
(* The instance of Installer for TLC: it has no parameters.                *)
(***************************************************************************)
EXTENDS Installer

=============================================================================
