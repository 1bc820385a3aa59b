-------------------------- MODULE MCServerLifecycle ---------------------------
(* A small instance of ServerLifecycle for TLC. *)
EXTENDS ServerLifecycle
=============================================================================
