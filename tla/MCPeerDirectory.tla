--------------------------- MODULE MCPeerDirectory ---------------------------
(* PeerDirectory and Listings on small instances. *)
EXTENDS Listings, TLC

\* Rings, nicknames and request slots are interchangeable.
Symmetry == Permutations(Rings) \cup Permutations(Nicks) \cup Permutations(Reqs)
=============================================================================
