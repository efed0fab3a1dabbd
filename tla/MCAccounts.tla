----------------------------- MODULE MCAccounts -----------------------------
(***************************************************************************)
(* A small instance of Accounts for TLC.  Two addresses need two user ids;  *)
(* a third account could only repeat an address.  No symmetry: the run also *)
(* checks liveness.                                                        *)
(***************************************************************************)
EXTENDS Accounts

=============================================================================
