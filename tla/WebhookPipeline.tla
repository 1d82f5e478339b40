-------------------------- MODULE WebhookPipeline --------------------------
(***************************************************************************)
(* The path of a notification from the committed outbox row to the target: *)
(* OutboxRelay and WebhookWorker over the same Redis stream.  Each API     *)
(* process runs one of each (cmd/api/main.go), in goroutines of their own, *)
(* so their steps interleave.                                              *)
(***************************************************************************)
EXTENDS Naturals, SequencesExt

CONSTANTS Rows, Relays, Workers, BatchSize, MaxAttempts, RedisRetries, FaultKinds, MaxFaults

ASSUME PipelineAssumption ==
  /\ Rows \subseteq Nat /\ IsFiniteSet(Rows)
  /\ BatchSize \in Nat \ {0}
  /\ MaxAttempts \in Nat \ {0}
  /\ RedisRetries \in Nat
  /\ MaxFaults \in Nat

VARIABLES
  status, attempts, due,                         \* the outbox table
  pc, events, sent, tries, pushErr,              \* the relays
  stream,                                        \* the Redis stream
  group, lastDelivered, pel, processed,          \* its group, the dedupe keys
  wpc, entry,                                    \* the workers
  posts, delivered, again,                       \* the target
  faults

R == INSTANCE OutboxRelay
W == INSTANCE WebhookWorker WITH MaxStream <- 0

relayVars == <<status, attempts, due, pc, events, sent, tries, pushErr>>
workerVars == <<group, lastDelivered, pel, processed, wpc, entry, posts, delivered, again>>
vars == <<relayVars, workerVars, stream, faults>>

----------------------------------------------------------------------------
Init == R!Init /\ W!Init

RelayNext == R!RelayNext /\ UNCHANGED workerVars
Enqueue == (\E o \in Rows : R!Enqueue(o)) /\ UNCHANGED workerVars
WorkerNext == W!WorkerNext /\ UNCHANGED relayVars

Next == RelayNext \/ Enqueue \/ WorkerNext

Fairness ==
  /\ \A r \in Relays : WF_vars(R!RelayStep(r) /\ UNCHANGED workerVars)
  /\ \A o \in Rows : WF_vars(R!BecomeDue(o) /\ UNCHANGED workerVars)
  /\ \A w \in Workers : WF_vars(W!WorkerStep(w) /\ UNCHANGED relayVars)

Spec == Init /\ [][Next]_vars

FairSpec == Spec /\ Fairness

----------------------------------------------------------------------------
Committed == {o \in Rows : status[o] # "absent"}

N == INSTANCE Notifications WITH committed <- Committed

(* The relay publishes a row as often as it likes; relay and worker        *)
(* together still send only committed rows, and each of them once per      *)
(* dedupe key.                                                             *)
AtMostOnceDelivery == N!Spec

(* A row that the outbox reports as dispatched and that the target has     *)
(* never seen can be found in Redis: it is still unread in the stream, or  *)
(* in the pending entries list.                                            *)
DispatchedIsTraceable ==
  \A o \in Rows : status[o] = "dispatched" /\ posts[o] = 0 =>
    \E i \in DOMAIN stream : stream[i] = o /\ (i > lastDelivered \/ i \in pel)

(* The pending entries list is the record of what was not delivered: a row *)
(* that was read and that the target has never processed still has a       *)
(* pending entry, unless a SETNX was re-sent after a lost reply.           *)
UndeliveredStaysPending == W!UndeliveredStaysPending

(* One process: a row once dispatched or dead is never changed again,      *)
(* although both mark statements update by id without looking at the       *)
(* status, and a worker may be handling the row at the same time.          *)
TerminalIsFinal == R!TerminalIsFinal

(* Every committed row is settled: dispatched, or dead after maxAttempts.  *)
(* No crash, lost reply or failed transaction leaves one pending for ever, *)
(* nor do older rows that are tried again and again, and come first.       *)
EventuallySettled == R!EventuallySettled

(* Every committed row is delivered to the target in the end, given that   *)
(* the worker's group, reads, SETNX and POSTs do not fail; with a POST that*)
(* fails, it is not.                                                       *)
EventuallyDelivered == \A o \in Rows : status[o] = "pending" ~> o \in delivered
=============================================================================
