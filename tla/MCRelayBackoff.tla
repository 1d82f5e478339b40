--------------------------- MODULE MCRelayBackoff ---------------------------
(***************************************************************************)
(* RelayBackoff for TLC: the relays are interchangeable.                   *)
(***************************************************************************)
EXTENDS RelayBackoff, TLC

RelaySymmetry == Permutations(Relays)
=============================================================================
