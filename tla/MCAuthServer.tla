---------------------------- MODULE MCAuthServer -----------------------------
(* Small instances of AuthServer for TLC. *)
EXTENDS AuthServer, TLC

\* Clients, addresses, goroutines and secrets are interchangeable.
Symmetry == Permutations(Guid) \cup Permutations(Ref) \cup Permutations(Call)
              \cup Permutations(Secret)
=============================================================================
