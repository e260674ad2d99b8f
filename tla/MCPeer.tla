------------------------------- MODULE MCPeer -------------------------------
(***************************************************************************)
(* Peer for TLC: the two sites are interchangeable.                        *)
(***************************************************************************)
EXTENDS Peer, TLC

Symmetry == Permutations(Sites)
=============================================================================
