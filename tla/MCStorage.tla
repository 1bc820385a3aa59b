------------------------------ MODULE MCStorage ------------------------------
(* A small instance of Storage for TLC. *)
EXTENDS Storage, TLC

Symmetry == Permutations(Key) \cup Permutations(Call) \cup Permutations(Client)

=============================================================================
