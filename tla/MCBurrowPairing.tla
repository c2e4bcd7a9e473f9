-------------------------- MODULE MCBurrowPairing --------------------------
(* Clients and overlapping mints are interchangeable: the checker looks at   *)
(* one of each class of states.                                              *)
EXTENDS BurrowPairing, TLC

Interchangeable == Permutations(Clients) \cup Permutations(Minters)
=============================================================================
