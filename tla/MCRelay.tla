------------------------------ MODULE MCRelay ------------------------------
(***************************************************************************)
(* Relay for TLC: the addresses are interchangeable.                       *)
(***************************************************************************)
EXTENDS Relay, TLC

Symmetry == Permutations(Addresses)
=============================================================================
