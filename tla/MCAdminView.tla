---------------------------- MODULE MCAdminView ------------------------------
(* A small instance of AdminView for TLC. *)
EXTENDS AdminView
=============================================================================
