--------------------------- MODULE MCControlServer ---------------------------
(* Small instances of ControlServer for TLC. *)
EXTENDS ControlServer, TLC

MCRadioInput == {[radios |-> <<>>, muted |-> FALSE]}

\* Clients, addresses, goroutines and secrets are interchangeable.
Symmetry == Permutations(Guid) \cup Permutations(Ref) \cup Permutations(Call)
              \cup Permutations(Secret)
=============================================================================
