--------------------------- MODULE MCOutboxRelay ---------------------------
(***************************************************************************)
(* OutboxRelay for TLC: rows are numbered, because the claim orders them   *)
(* by id; relays are interchangeable.                                      *)
(***************************************************************************)
EXTENDS OutboxRelay

TwoRows == {1, 2}
ThreeRows == {1, 2, 3}
AllFaults == {"db", "xadd", "relaycrash"}

(* Sound for runs without liveness properties: no relay is distinguished. *)
RelaySymmetry == Permutations(Relays)
=============================================================================
