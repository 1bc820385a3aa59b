---------------------------- MODULE MCSrsService -----------------------------
(* Small instances of SrsService for TLC. *)
EXTENDS SrsService, TLC

MCRadioInput == {[radios |-> <<>>, muted |-> FALSE]}

\* Clients, addresses and goroutines are interchangeable.
Symmetry == Permutations(Ref) \cup Permutations(Call) \cup Permutations(Guid)
=============================================================================
