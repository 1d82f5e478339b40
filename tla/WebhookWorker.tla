--------------------------- MODULE WebhookWorker ---------------------------
(***************************************************************************)
(* The webhook worker (internal/workers/webhook): it reads the Redis       *)
(* stream through a consumer group, one entry at a time, takes a           *)
(* deduplication key for the entry's outbox row, and POSTs the event to    *)
(* the target.                                                             *)
(*                                                                         *)
(* A stream entry is its position in stream; what the worker does with it: *)
(*   reading -> claiming -> posting -> accepted -> acking -> reading       *)
(* Every error in between leads back to reading without an XACK, and ">"   *)
(* never returns an entry a second time.                                   *)
(***************************************************************************)
EXTENDS Naturals, SequencesExt

CONSTANTS
  Rows,          \* outbox ids
  Workers,       \* worker loops, one per running API process
  RedisRetries,  \* MaxRetries of the Redis client
  FaultKinds,    \* which faults the environment may inject
  MaxFaults,     \* bound on the number of faults of a behaviour
  MaxStream      \* bound on the stream's length, when Publish feeds it

ASSUME WorkerAssumption ==
  /\ RedisRetries \in Nat
  /\ MaxFaults \in Nat
  /\ MaxStream \in Nat

VARIABLES
  stream,         \* outbox ids of the entries, in the order of their XADDs
  group,          \* the consumer group exists
  lastDelivered,  \* the group's last delivered entry
  pel,            \* its pending entries list: delivered, not acknowledged
  processed,      \* rows whose key processed:<outbox_id> is set
  wpc,            \* Workers -> where the worker's loop is
  entry,          \* Workers -> the entry it handles, 0 for none
  posts,          \* Rows -> requests the target has processed
  delivered,      \* rows the target has answered with a 2xx status
  again,          \* Rows -> key expiries and transport replays so far
  faults          \* number of faults so far

redis == <<group, lastDelivered, pel, processed>>
target == <<posts, delivered, again>>
vars == <<stream, redis, wpc, entry, target, faults>>

row(w) == stream[entry[w]]

(* A fault of the environment, within the bound MaxFaults. *)
Fault(kind) ==
  /\ kind \in FaultKinds
  /\ faults < MaxFaults
  /\ faults' = faults + 1

Goto(w, label) == wpc' = [wpc EXCEPT ![w] = label]

(* Seeded bug: the entry of the last round is used again. *)
ForgetNothing(w, label) == Goto(w, label) /\ UNCHANGED entry

(* Back to the top of the loop, or of Run: the entry is forgotten. *)
Forget(w, label) ==
  /\ Goto(w, label)
  /\ entry' = [entry EXCEPT ![w] = 0]

----------------------------------------------------------------------------
Init ==
  /\ stream = <<>>
  /\ group = FALSE
  /\ lastDelivered = 0
  /\ pel = {}
  /\ processed = {}
  /\ wpc = [w \in Workers |-> "starting"]
  /\ entry = [w \in Workers |-> 0]
  /\ posts = [o \in Rows |-> 0]
  /\ delivered = {}
  /\ again = [o \in Rows |-> 0]
  /\ faults = 0

(* A relay's XADD takes effect; any row, any number of times. *)
Publish(o) ==
  /\ Len(stream) < MaxStream
  /\ stream' = Append(stream, o)
  /\ UNCHANGED <<redis, wpc, entry, target, faults>>

(* Seeded bug: XGROUP CREATE from "$", the end of the stream. *)
StartAtEnd(w) ==
  /\ wpc[w] = "starting"
  /\ group' = TRUE
  /\ lastDelivered' = IF group THEN lastDelivered ELSE Len(stream)
  /\ Forget(w, "reading")
  /\ UNCHANGED <<stream, pel, processed, target, faults>>

(* Seeded bug: Run returns the BUSYGROUP error. *)
StartStrict(w) ==
  /\ wpc[w] = "starting"
  /\ ~ group
  /\ group' = TRUE
  /\ Forget(w, "reading")
  /\ UNCHANGED <<stream, lastDelivered, pel, processed, target, faults>>

(* XGROUP CREATE MKSTREAM from "0", so nothing published before is missed; *)
(* BUSYGROUP is ignored with every other error.                            *)
Start(w) ==
  /\ wpc[w] = "starting"
  /\ group' = TRUE
  /\ Forget(w, "reading")
  /\ UNCHANGED <<stream, lastDelivered, pel, processed, target, faults>>

(* The command never reaches the server, and nobody tries again: without a *)
(* group every XREADGROUP of this worker is answered NOGROUP.              *)
StartFails(w) ==
  /\ wpc[w] = "starting"
  /\ Fault("group")
  /\ Forget(w, "reading")
  /\ UNCHANGED <<stream, redis, target>>

----------------------------------------------------------------------------
Unread == group /\ lastDelivered < Len(stream)

(* XREADGROUP times out after Block, or is answered NOGROUP. *)
ReadNothing(w) ==
  /\ wpc[w] = "reading"
  /\ ~ Unread
  /\ UNCHANGED vars

(* The server hands out the next entry of the group. *)
Deliver ==
  /\ Unread
  /\ lastDelivered' = lastDelivered + 1
  /\ pel' = pel \cup {lastDelivered + 1}

Read(w) ==
  /\ wpc[w] = "reading"
  /\ Deliver
  /\ entry' = [entry EXCEPT ![w] = lastDelivered + 1]
  /\ Goto(w, "claiming")
  /\ UNCHANGED <<stream, group, processed, target, faults>>

(* The reply is lost: the entry is pending, and no worker knows it. *)
ReadLost(w) ==
  /\ wpc[w] = "reading"
  /\ Deliver
  /\ Fault("read")
  /\ UNCHANGED <<stream, group, processed, wpc, entry, target>>

----------------------------------------------------------------------------
(* Seeded bug: okNX is ignored. *)
ClaimKeyAlways(w) ==
  /\ wpc[w] = "claiming"
  /\ processed' = processed \cup {row(w)}
  /\ Goto(w, "posting")
  /\ UNCHANGED <<stream, group, lastDelivered, pel, entry, target, faults>>

(* Seeded bug: EXISTS in place of SETNX. *)
ClaimKeyTestOnly(w) ==
  /\ wpc[w] = "claiming"
  /\ Goto(w, IF row(w) \in processed THEN "acking" ELSE "posting")
  /\ UNCHANGED <<stream, redis, entry, target, faults>>

(* SETNX answers whether the key was free: the row is sent, or the entry   *)
(* is a duplicate and is acknowledged at once.                             *)
ClaimKey(w) ==
  /\ wpc[w] = "claiming"
  /\ processed' = processed \cup {row(w)}
  /\ Goto(w, IF row(w) \in processed THEN "acking" ELSE "posting")
  /\ UNCHANGED <<stream, group, lastDelivered, pel, entry, target, faults>>

(* Seeded bug: the entry is acknowledged whatever handle returns. *)
AbandonAcks(w) == Goto(w, "acking") /\ UNCHANGED entry

(* handle returns an error: logged, no XACK, on to the next entry. *)
Abandon(w) == Forget(w, "reading")

(* SETNX fails; the server may have executed it nonetheless. *)
ClaimKeyFails(w) ==
  /\ wpc[w] = "claiming"
  /\ Fault("setnx")
  /\ processed' \in {processed, processed \cup {row(w)}}
  /\ Abandon(w)
  /\ UNCHANGED <<stream, group, lastDelivered, pel, target>>

(* The reply to SETNX is lost and the client sends it again: the second    *)
(* finds the key of the first, and the entry passes for a duplicate.       *)
ClaimKeyResent(w) ==
  /\ wpc[w] = "claiming"
  /\ RedisRetries > 0
  /\ Fault("resend")
  /\ processed' = processed \cup {row(w)}
  /\ Goto(w, "acking")
  /\ UNCHANGED <<stream, group, lastDelivered, pel, entry, target>>

----------------------------------------------------------------------------
(* The target processes the request. *)
TargetAccepts(w) ==
  /\ wpc[w] = "posting"
  /\ posts' = [posts EXCEPT ![row(w)] = @ + 1]
  /\ delivered' = delivered \cup {row(w)}
  /\ Goto(w, "accepted")
  /\ UNCHANGED <<stream, redis, entry, again, faults>>

(* The target answers with a status outside 200..299. *)
TargetRejects(w) ==
  /\ wpc[w] = "posting"
  /\ Fault("http")
  /\ posts' = [posts EXCEPT ![row(w)] = @ + 1]
  /\ Abandon(w)
  /\ UNCHANGED <<stream, redis, delivered, again>>

(* Seeded bug: the key is deleted again when the POST fails. *)
PostFailsAndFreesKey(w) ==
  /\ wpc[w] \in {"posting", "accepted"}
  /\ Fault("http")
  /\ processed' = processed \ {row(w)}
  /\ Abandon(w)
  /\ UNCHANGED <<stream, group, lastDelivered, pel, target>>

(* Do returns an error: no connection, or the 5 s timeout, before or after *)
(* the target has processed the request.                                   *)
PostFails(w) ==
  /\ wpc[w] \in {"posting", "accepted"}
  /\ Fault("http")
  /\ Abandon(w)
  /\ UNCHANGED <<stream, redis, target>>

(* A kept-alive connection is closed before the response.  The request has *)
(* an Idempotency-Key and a body that can be rewound, so net/http takes it *)
(* for replayable and sends it again by itself.                            *)
TransportReplays(w) ==
  /\ wpc[w] = "accepted"
  /\ Fault("replay")
  /\ again' = [again EXCEPT ![row(w)] = @ + 1]
  /\ Goto(w, "posting")
  /\ UNCHANGED <<stream, redis, entry, posts, delivered>>

PostReturns(w) ==
  /\ wpc[w] = "accepted"
  /\ Goto(w, "acking")
  /\ UNCHANGED <<stream, redis, entry, target, faults>>

Ack(w) ==
  /\ wpc[w] = "acking"
  /\ pel' = pel \ {entry[w]}
  /\ Forget(w, "reading")
  /\ UNCHANGED <<stream, group, lastDelivered, processed, target, faults>>

(* XACK fails; its error is ignored and the entry stays pending. *)
AckFails(w) ==
  /\ wpc[w] = "acking"
  /\ Fault("ack")
  /\ Forget(w, "reading")
  /\ UNCHANGED <<stream, redis, target>>

(* The process dies, or its context is cancelled at shutdown, and is       *)
(* started again.  What it was sending may have been processed or not.     *)
CrashWorker(w) ==
  /\ wpc[w] # "starting"
  /\ Fault("workercrash")
  /\ Forget(w, "starting")
  /\ UNCHANGED <<stream, redis, target>>

(* dedupeTTL passes.  It is a day and a request takes 5 s at most: the key *)
(* of a row that is being sent does not expire.                            *)
ExpireKey(o) ==
  /\ o \in processed
  /\ \A w \in Workers : wpc[w] \in {"posting", "accepted"} => row(w) # o
  /\ Fault("expiry")
  /\ processed' = processed \ {o}
  /\ again' = [again EXCEPT ![o] = @ + 1]
  /\ UNCHANGED <<stream, group, lastDelivered, pel, wpc, entry, posts, delivered>>

----------------------------------------------------------------------------
(* The steps of Run and handle when nothing fails. *)
WorkerStep(w) ==
  \/ Start(w)
  \/ ReadNothing(w)
  \/ Read(w)
  \/ ClaimKey(w)
  \/ TargetAccepts(w)
  \/ PostReturns(w)
  \/ Ack(w)

WorkerFault(w) ==
  \/ StartFails(w)
  \/ ReadLost(w)
  \/ ClaimKeyFails(w)
  \/ ClaimKeyResent(w)
  \/ TargetRejects(w)
  \/ PostFails(w)
  \/ TransportReplays(w)
  \/ AckFails(w)
  \/ CrashWorker(w)

WorkerNext ==
  \/ \E w \in Workers : WorkerStep(w)
  \/ \E w \in Workers : WorkerFault(w)
  \/ \E o \in Rows : ExpireKey(o)

Next == WorkerNext \/ \E o \in Rows : Publish(o)

Fairness == \A w \in Workers : WF_vars(WorkerStep(w))

Spec == Init /\ [][Next]_vars

FairSpec == Spec /\ Fairness

----------------------------------------------------------------------------
Sending == {"posting", "accepted"}

(* The shape of the state: a worker holds an entry exactly between the     *)
(* read and the return to the top of the loop, and only a pending one.     *)
TypeOK ==
  /\ stream \in Seq(Rows)
  /\ group \in BOOLEAN
  /\ lastDelivered \in 0..Len(stream)
  /\ pel \subseteq 1..lastDelivered
  /\ processed \subseteq Rows
  /\ wpc \in [Workers -> {"starting", "reading", "claiming", "acking"} \cup Sending]
  /\ entry \in [Workers -> Nat]
  /\ \A w \in Workers : IF wpc[w] \in {"starting", "reading"} THEN entry[w] = 0
                                                              ELSE entry[w] \in pel
  /\ posts \in [Rows -> Nat]
  /\ delivered \subseteq Rows
  /\ again \in [Rows -> Nat]
  /\ faults \in 0..MaxFaults

Acked == 1..lastDelivered \ pel

(* However often a row is in the stream, and whatever fails, the target    *)
(* processes at most one POST for it per dedupe key: the key is taken      *)
(* before the POST and not given back when it fails (handle).  Only an     *)
(* expired key and a replay by the transport allow one more.               *)
AtMostOncePerKey ==
  \A o \in Rows : posts[o] <= again[o] + (IF o \in processed THEN 1 ELSE 0)

(* Two workers are never sending the same row, although each copy of it in *)
(* the stream may be in the hands of another worker.                       *)
OneSenderPerRow ==
  \A v, w \in Workers :
    v # w /\ wpc[v] \in Sending /\ wpc[w] \in Sending => row(v) # row(w)

(* An acknowledged entry has been accounted for: its row's key was taken   *)
(* by this entry or by another copy.                                       *)
AckedIsProcessed ==
  \A i \in Acked : stream[i] \in processed \/ again[stream[i]] > 0

(* The pending entries list is the record of what was not delivered: a row *)
(* read from the stream of which the target has processed no POST, not one *)
(* that it answered with an error either, still has a pending entry, unless*)
(* a SETNX was re-sent after a lost reply.                                 *)
UndeliveredStaysPending ==
  \A i \in 1..lastDelivered :
    posts[stream[i]] = 0 => \E j \in pel : stream[j] = stream[i]

(* The rows that were read, that the target has never processed, and of    *)
(* which no entry is pending: Redis looks as if they had been delivered.   *)
Vanished ==
  {o \in Rows :
    /\ posts[o] = 0
    /\ \E i \in 1..lastDelivered : stream[i] = o
    /\ ~ \E j \in pel : stream[j] = o}

(* Rows vanish one fault at a time: a SETNX that is sent again after a     *)
(* lost reply finds its own key, and acknowledges the entry of a row that  *)
(* nobody sends; every other fault, and every race of workers or copies,   *)
(* leaves an entry behind.                                                 *)
VanishedNeedFaults == IsFiniteSet(Vanished) /\ Cardinality(Vanished) <= faults

(* One bad entry does not hold up the stream: every entry is read and done *)
(* with, whatever becomes of the POSTs, once the group exists (a worker    *)
(* whose XGROUP CREATE failed does not create it later).                   *)
EveryEntryHandled ==
  \A i \in 1..MaxStream :
    group /\ i <= Len(stream)
      ~> i <= lastDelivered /\ \A w \in Workers : entry[w] # i
=============================================================================
