------------------------- MODULE MCWebhookPipeline -------------------------
(***************************************************************************)
(* WebhookPipeline for TLC.                                                *)
(***************************************************************************)
EXTENDS WebhookPipeline

OneRow == {1}
TwoRows == {1, 2}

RelayFaults == {"db", "xadd", "relaycrash"}

(* Everything but the re-sent SETNX. *)
RecordedFaults ==
  RelayFaults \cup
  {"group", "read", "setnx", "http", "replay", "ack", "workercrash", "expiry"}

(* What the code recovers from. *)
ToleratedFaults == RelayFaults \cup {"replay", "ack", "expiry"}

(* The target is down for one request. *)
TargetFaults == {"http"}
=============================================================================
