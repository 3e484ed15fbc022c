------------------------------ MODULE MCPubSub ------------------------------
(* PubSub for TLC: clients and channels are interchangeable.               *)
EXTENDS PubSub, TLC

Symmetry == Permutations(Clients) \cup Permutations(Channels)
=============================================================================
