----------------------------- MODULE MCRelayHub -----------------------------
(* Model-checking instance of RelayHub. *)
EXTENDS RelayHub, TLC

\* Sockets of one kind are interchangeable, and so are burrowIds.
Symmetric ==
  Permutations(Burrows) \cup Permutations(BurrowSockets) \cup Permutations(ClientSockets)

\* Once an editor has replaced burrows.json, only behaviours with one Client.
OneClientAfterSwap == fileSwaps = 0 \/ Cardinality({c \in ClientSockets : csock[c] # "unused"}) <= 1
=============================================================================
