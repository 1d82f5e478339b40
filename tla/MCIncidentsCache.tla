-------------------------- MODULE MCIncidentsCache --------------------------
(***************************************************************************)
(* IncidentsCache for TLC.                                                 *)
(***************************************************************************)
EXTENDS IncidentsCache

AllFaults == {"db", "bump", "get", "set", "setnx"}
=============================================================================
