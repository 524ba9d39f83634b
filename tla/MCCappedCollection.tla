------------------------ MODULE MCCappedCollection ------------------------
(* CappedCollection with two clients, which are interchangeable. *)
EXTENDS CappedCollection, TLC

Symmetry == Permutations(Clients)
=============================================================================
