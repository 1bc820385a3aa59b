------------------------------ MODULE MCRemotes ------------------------------
(* A small instance of Remotes for TLC. *)
EXTENDS Remotes
=============================================================================
