-------------------------- MODULE MCWebhookWorker --------------------------
(***************************************************************************)
(* WebhookWorker for TLC.                                                  *)
(***************************************************************************)
EXTENDS WebhookWorker

AllFaults ==
  {"group", "read", "setnx", "resend", "http", "replay", "ack", "workercrash", "expiry"}
=============================================================================
