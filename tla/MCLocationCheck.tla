-------------------------- MODULE MCLocationCheck --------------------------
(***************************************************************************)
(* LocationCheck for TLC.                                                  *)
(***************************************************************************)
EXTENDS LocationCheck

AllFaults == {"db", "commit"}
=============================================================================
