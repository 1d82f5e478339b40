----------------------- MODULE WebhookPipelineProofs -----------------------
(***************************************************************************)
(* Relay and worker together implement Notifications, for any number of    *)
(* processes, rows and faults.  The invariants of the two components are   *)
(* taken from their own proofs: each component's steps are the other one's *)
(* environment.                                                            *)
(***************************************************************************)
EXTENDS WebhookPipeline, FiniteSetTheorems, TLAPS

RP == INSTANCE OutboxRelayProofs
WP == INSTANCE WebhookWorkerProofs WITH MaxStream <- 0

LEMMA Assumptions == RP!OutboxAssumption /\ WP!WorkerAssumption
BY PipelineAssumption DEF RP!OutboxAssumption, WP!WorkerAssumption, IsFiniteSet, RP!IsFiniteSet

(* The instances in WebhookPipeline and here are of the same definitions. *)
LEMMA SameInit == Init => RP!Init /\ WP!Init
BY DEF Init, R!Init, W!Init, RP!Init, WP!Init

LEMMA SameRelay ==
  (RelayNext \/ Enqueue) => RP!Next /\ UNCHANGED workerVars
BY DEF RelayNext, Enqueue, RP!Next,
  R!RelayNext, R!RelayStep, R!RelayFault, R!Enqueue, R!BecomeDue, R!ClaimBegin, R!ClaimNothing,
  R!ClaimCommit, R!ClaimFail, R!XAdd, R!XAddRejected, R!PipelineLost, R!ExecReturn, R!MarkBegin,
  R!MarkCommit, R!MarkFail, R!Crash, R!table, R!local, R!vars, R!Fault, R!Finish, R!CountAttempt,
  R!ClaimedBatch, R!Locked, R!InTx, R!ids, R!Claimable, R!MayResend, R!MarkedStatus, R!Exhausted,
  R!SetToSeqs, RP!SetToSeqs, R!Cardinality, RP!Cardinality,
  RP!RelayNext, RP!RelayStep, RP!RelayFault, RP!Enqueue, RP!BecomeDue, RP!ClaimBegin,
  RP!ClaimNothing, RP!ClaimCommit, RP!ClaimFail, RP!XAdd, RP!XAddRejected, RP!PipelineLost,
  RP!ExecReturn, RP!MarkBegin, RP!MarkCommit, RP!MarkFail, RP!Crash, RP!table, RP!local, RP!vars,
  RP!Fault, RP!Finish, RP!CountAttempt, RP!ClaimedBatch, RP!Locked, RP!InTx, RP!ids,
  RP!Claimable, RP!MayResend, RP!MarkedStatus, RP!Exhausted

LEMMA SameWorker == WorkerNext => WP!WorkerNext /\ UNCHANGED relayVars
BY DEF WorkerNext,
  W!WorkerNext, W!WorkerStep, W!WorkerFault, W!Start, W!StartFails, W!ReadNothing, W!Read,
  W!ReadLost, W!ClaimKey, W!ClaimKeyFails, W!ClaimKeyResent, W!TargetAccepts, W!TargetRejects,
  W!PostFails, W!TransportReplays, W!PostReturns, W!Ack, W!AckFails, W!CrashWorker, W!ExpireKey,
  W!vars, W!redis, W!target, W!Fault, W!Goto, W!Forget, W!Abandon, W!Deliver, W!Unread, W!row,
  WP!WorkerNext, WP!WorkerStep, WP!WorkerFault, WP!Start, WP!StartFails, WP!ReadNothing, WP!Read,
  WP!ReadLost, WP!ClaimKey, WP!ClaimKeyFails, WP!ClaimKeyResent, WP!TargetAccepts,
  WP!TargetRejects, WP!PostFails, WP!TransportReplays, WP!PostReturns, WP!Ack, WP!AckFails,
  WP!CrashWorker, WP!ExpireKey, WP!vars, WP!redis, WP!target, WP!Fault, WP!Goto, WP!Forget,
  WP!Abandon, WP!Deliver, WP!Unread, WP!row

----------------------------------------------------------------------------
(* What is in the stream, and what a dedupe key names, was committed.      *)
OnlyCommitted ==
  /\ \A i \in DOMAIN stream : stream[i] \in Committed
  /\ processed \subseteq Committed

PipelineInv == RP!RelayInv /\ WP!WorkerInv /\ OnlyCommitted

(* To the workers a relay's step is one that appends to the stream, the    *)
(* id of a committed row.                                                  *)
LEMMA RelayIsEnvironment ==
  ASSUME PipelineInv, RP!Next, UNCHANGED workerVars
  PROVE  /\ WP!Step
         /\ stream' = stream \/ \E o \in Committed : stream' = Append(stream, o)
<1>1. ASSUME NEW r \in Relays, RP!XAdd(r)
      PROVE  \E o \in Committed : stream' = Append(stream, o)
  <2>1. RP!TypeOK /\ RP!HoldsInserted
    BY DEF PipelineInv, RP!RelayInv
  <2>2. sent[r] < Len(events[r]) /\ stream' = Append(stream, events[r][sent[r] + 1].id)
    BY <1>1 DEF RP!XAdd
  <2>3. events[r][sent[r] + 1].id \in Rows /\ sent[r] + 1 \in DOMAIN events[r]
    BY <2>1, <2>2, Assumptions, RP!NextEvent
  <2>4. QED
    BY <2>1, <2>2, <2>3 DEF Committed, RP!HoldsInserted
<1>2. stream' = stream \/ \E o \in Committed : stream' = Append(stream, o)
  BY <1>1
     DEF RP!Next, RP!RelayNext, RP!RelayStep, RP!RelayFault, RP!Enqueue, RP!BecomeDue,
         RP!ClaimBegin, RP!ClaimNothing, RP!ClaimCommit, RP!ClaimFail, RP!XAddRejected,
         RP!PipelineLost, RP!ExecReturn, RP!MarkBegin, RP!MarkCommit, RP!MarkFail, RP!Crash,
         RP!vars
<1>3. UNCHANGED WP!workers
  BY DEF workerVars, WP!workers, WP!redis, WP!target
<1>4. QED
  BY <1>2, <1>3 DEF WP!Step, WP!Environment, Committed

(* The relays do not notice a worker's step, apart from the fault counter. *)
LEMMA WorkerKeepsRelayInv ==
  ASSUME PipelineInv, WP!WorkerNext, UNCHANGED relayVars
  PROVE  RP!RelayInv' /\ stream' = stream
<1>1. stream' = stream
  BY DEF WP!WorkerNext, WP!WorkerStep, WP!WorkerFault, WP!Start, WP!StartFails, WP!ReadNothing,
         WP!Read, WP!ReadLost, WP!ClaimKey, WP!ClaimKeyFails, WP!ClaimKeyResent,
         WP!TargetAccepts, WP!TargetRejects, WP!PostFails, WP!TransportReplays, WP!PostReturns,
         WP!Ack, WP!AckFails, WP!CrashWorker, WP!ExpireKey, WP!vars
<1>2. /\ status' = status /\ attempts' = attempts /\ due' = due /\ pc' = pc
      /\ events' = events /\ sent' = sent /\ tries' = tries /\ pushErr' = pushErr
  BY DEF relayVars
<1>3. faults' \in 0..MaxFaults
  <2>1. WP!FaultsBounded
    BY DEF PipelineInv, RP!RelayInv, RP!TypeOK, WP!FaultsBounded
  <2>2. [WP!Next]_(WP!vars)
    BY DEF WP!Next
  <2>3. QED
    BY <2>1, <2>2, Assumptions, WP!FaultsStep DEF WP!FaultsBounded
<1>4. RP!TypeOK'
  BY <1>1, <1>2, <1>3 DEF PipelineInv, RP!RelayInv, RP!TypeOK
<1>5. RP!HoldsInserted' /\ RP!CarriesAttempts' /\ RP!LocksDisjoint'
  BY <1>1, <1>2
     DEF PipelineInv, RP!RelayInv, RP!HoldsInserted, RP!CarriesAttempts, RP!LocksDisjoint,
         RP!InTx, RP!ids
<1>6. RP!PushedSoFar' /\ RP!DispatchedIsPublished'
  BY <1>1, <1>2
     DEF PipelineInv, RP!RelayInv, RP!PushedSoFar, RP!Sent, RP!DispatchedIsPublished,
         RP!Published
<1>7. RP!DeadOnlyWhenExhausted' /\ RP!DistinctAttempts'
  BY <1>1, <1>2
     DEF PipelineInv, RP!RelayInv, RP!DeadOnlyWhenExhausted, RP!DistinctAttempts
<1>8. QED
  BY <1>1, <1>4, <1>5, <1>6, <1>7 DEF RP!RelayInv

LEMMA PipelineInit == Init => PipelineInv
<1> SUFFICES ASSUME Init PROVE PipelineInv
  OBVIOUS
<1>1. RP!RelayInv /\ WP!WorkerInv
  BY SameInit, Assumptions, RP!InitInv, WP!InitInv
<1>2. stream = <<>> /\ processed = {}
  BY DEF Init, R!Init, W!Init
<1>3. QED
  BY <1>1, <1>2 DEF PipelineInv, OnlyCommitted

(* A row stays committed. *)
LEMMA CommittedGrows ==
  ASSUME PipelineInv, RP!Next
  PROVE  Committed \subseteq Committed'
<1>1. RP!TypeOK /\ [RP!Next]_(RP!vars)
  BY DEF PipelineInv, RP!RelayInv
<1>2. QED
  BY <1>1, Assumptions, RP!StaysInserted DEF Committed

(* A worker takes the key of a row it has read from the stream. *)
LEMMA KeysCommitted ==
  ASSUME PipelineInv, WP!WorkerNext, UNCHANGED relayVars
  PROVE  processed' \subseteq Committed
<1>1. WP!Shape
  BY DEF PipelineInv, WP!WorkerInv
<1>2. ASSUME NEW w \in Workers, wpc[w] = "claiming" PROVE WP!row(w) \in Committed
  <2>1. entry[w] \in 1..Len(stream)
    BY <1>1, <1>2, Assumptions, WP!RowType
  <2>2. QED
    BY <1>1, <2>1 DEF PipelineInv, OnlyCommitted, WP!Shape, WP!row
<1>3. QED
  BY <1>2
     DEF PipelineInv, OnlyCommitted, WP!WorkerNext, WP!WorkerStep, WP!WorkerFault, WP!Start,
         WP!StartFails, WP!ReadNothing, WP!Read, WP!ReadLost, WP!ClaimKey, WP!ClaimKeyFails,
         WP!ClaimKeyResent, WP!TargetAccepts, WP!TargetRejects, WP!PostFails,
         WP!TransportReplays, WP!PostReturns, WP!Ack, WP!AckFails, WP!CrashWorker,
         WP!ExpireKey, WP!vars, WP!redis

LEMMA PipelineStep == PipelineInv /\ [Next]_vars => PipelineInv'
<1> SUFFICES ASSUME PipelineInv, [Next]_vars PROVE PipelineInv'
  OBVIOUS
<1>1. ASSUME RP!Next, UNCHANGED workerVars PROVE PipelineInv'
  <2>1. RP!RelayInv' /\ WP!WorkerInv'
    BY <1>1, Assumptions, RelayIsEnvironment, RP!InvStep, WP!InvStep DEF PipelineInv
  <2>2. Committed \subseteq Committed' /\ processed' = processed
    BY <1>1, CommittedGrows DEF workerVars
  <2>3. \A i \in DOMAIN stream' : stream'[i] \in Committed'
    <3>1. CASE stream' = stream
      BY <2>2, <3>1 DEF PipelineInv, OnlyCommitted
    <3>2. ASSUME NEW o \in Committed, stream' = Append(stream, o)
          PROVE  \A i \in DOMAIN stream' : stream'[i] \in Committed'
      <4>1. stream \in Seq(Rows)
        BY DEF PipelineInv, WP!WorkerInv, WP!Shape
      <4>2. \A i \in DOMAIN stream' : stream'[i] \in Committed
        BY <3>2, <4>1 DEF PipelineInv, OnlyCommitted
      <4>3. QED
        BY <2>2, <4>2
    <3>3. QED
      BY <1>1, <3>1, <3>2, RelayIsEnvironment
  <2>4. QED
    BY <2>1, <2>2, <2>3 DEF PipelineInv, OnlyCommitted
<1>2. ASSUME WP!WorkerNext, UNCHANGED relayVars PROVE PipelineInv'
  <2>1. RP!RelayInv' /\ stream' = stream
    BY <1>2, WorkerKeepsRelayInv
  <2>2. WP!WorkerInv'
    BY <1>2, Assumptions, WP!InvStep DEF PipelineInv, WP!Step
  <2>3. Committed' = Committed /\ processed' \subseteq Committed
    BY <1>2, KeysCommitted DEF Committed, relayVars
  <2>4. QED
    BY <2>1, <2>2, <2>3 DEF PipelineInv, OnlyCommitted
<1>3. CASE UNCHANGED vars
  <2>1. UNCHANGED <<relayVars, workerVars, stream, faults>>
    BY <1>3 DEF vars
  <2>2. RP!RelayInv'
    <3>1. [RP!Next]_(RP!vars)
      BY <2>1 DEF relayVars, RP!vars, RP!table, RP!local
    <3>2. QED
      BY <3>1, Assumptions, RP!InvStep DEF PipelineInv
  <2>3. WP!WorkerInv'
    <3>1. WP!Step
      BY <2>1 DEF workerVars, WP!Step, WP!Environment, WP!workers, WP!redis, WP!target
    <3>2. QED
      BY <3>1, Assumptions, WP!InvStep DEF PipelineInv
  <2>4. stream' = stream /\ processed' = processed /\ Committed' = Committed
    BY <2>1 DEF relayVars, workerVars, Committed
  <2>5. QED
    BY <2>2, <2>3, <2>4 DEF PipelineInv, OnlyCommitted
<1>4. QED
  BY <1>1, <1>2, <1>3, SameRelay, SameWorker DEF Next

----------------------------------------------------------------------------
(* Relay steps commit a row or are invisible. *)
LEMMA RelayRefines ==
  ASSUME PipelineInv, RP!Next, UNCHANGED workerVars
  PROVE  [N!Next]_(N!vars)
<1>1. RP!TypeOK /\ [RP!Next]_(RP!vars) /\ posts' = posts /\ again' = again
  BY DEF PipelineInv, RP!RelayInv, workerVars
<1>2. ASSUME NEW o \in Rows, RP!Enqueue(o) PROVE N!Commit(o)
  <2>1. o \notin Committed /\ Committed' = Committed \cup {o}
    BY <1>1, <1>2 DEF RP!Enqueue, RP!TypeOK, Committed
  <2>2. QED
    BY <1>1, <2>1 DEF N!Commit
<1>3. ASSUME NEW r \in Relays, RP!MarkCommit(r) PROVE Committed' = Committed
  <2>1. \A i \in DOMAIN events[r] : status[events[r][i].id] # "absent"
    BY DEF PipelineInv, RP!RelayInv, RP!HoldsInserted
  <2>2. \A o \in RP!ids(r) : status[o] # "absent"
    BY <2>1 DEF RP!ids
  <2>3. \A o \in Rows : status'[o] = "absent" <=> status[o] = "absent"
    BY <1>3, <2>2 DEF RP!MarkCommit, RP!MarkedStatus
  <2>4. QED
    BY <2>3 DEF Committed
<1>4. CASE status' = status
  BY <1>1, <1>4 DEF Committed, N!vars
<1>5. QED
  BY <1>1, <1>2, <1>3, <1>4
     DEF N!Next, N!vars, RP!Next, RP!RelayNext, RP!RelayStep, RP!RelayFault, RP!BecomeDue,
         RP!ClaimBegin, RP!ClaimNothing, RP!ClaimCommit, RP!ClaimFail, RP!XAdd,
         RP!XAddRejected, RP!PipelineLost, RP!ExecReturn, RP!MarkBegin, RP!MarkFail, RP!Crash,
         RP!vars, RP!table

(* A request the target processes is a permitted one for a committed row. *)
LEMMA WorkerRefines ==
  ASSUME PipelineInv, WP!WorkerNext, UNCHANGED relayVars
  PROVE  [N!Next]_(N!vars)
<1>1. WP!Shape /\ WP!SenderHasKey /\ Committed' = Committed
  BY DEF PipelineInv, WP!WorkerInv, Committed, relayVars
<1>2. ASSUME NEW w \in Workers, wpc[w] \in WP!Sending PROVE WP!row(w) \in Committed /\ WP!row(w) \in Rows
  BY <1>1, <1>2 DEF WP!SenderHasKey, PipelineInv, OnlyCommitted, Committed
<1>3. ASSUME NEW w \in Workers, WP!TargetAccepts(w) \/ WP!TargetRejects(w)
      PROVE  N!Next
  <2>1. wpc[w] = "posting" /\ posts' = [posts EXCEPT ![WP!row(w)] = @ + 1] /\ again' = again
    BY <1>3 DEF WP!TargetAccepts, WP!TargetRejects
  <2>2. posts[WP!row(w)] <= again[WP!row(w)]
    BY <1>1, <2>1 DEF WP!SenderHasKey
  <2>3. N!Send(WP!row(w))
    BY <1>1, <1>2, <2>1, <2>2 DEF N!Send, WP!Sending
  <2>4. QED
    BY <1>2, <2>1, <2>3 DEF N!Next, WP!Sending
<1>4. ASSUME NEW w \in Workers, WP!TransportReplays(w) PROVE N!Next
  <2>1. wpc[w] = "accepted" /\ posts' = posts /\ again' = [again EXCEPT ![WP!row(w)] = @ + 1]
    BY <1>4 DEF WP!TransportReplays
  <2>2. QED
    BY <1>1, <1>2, <2>1 DEF N!Next, N!Permit, WP!Sending
<1>5. ASSUME NEW o \in Rows, WP!ExpireKey(o) PROVE N!Next
  <2>1. o \in Committed /\ posts' = posts /\ again' = [again EXCEPT ![o] = @ + 1]
    BY <1>5 DEF WP!ExpireKey, PipelineInv, OnlyCommitted
  <2>2. QED
    BY <1>1, <2>1 DEF N!Next, N!Permit
<1>6. CASE posts' = posts /\ again' = again
  BY <1>1, <1>6 DEF N!vars
<1>7. QED
  BY <1>3, <1>4, <1>5, <1>6
     DEF WP!WorkerNext, WP!WorkerStep, WP!WorkerFault, WP!Start, WP!StartFails, WP!ReadNothing,
         WP!Read, WP!ReadLost, WP!ClaimKey, WP!ClaimKeyFails, WP!ClaimKeyResent, WP!PostFails,
         WP!PostReturns, WP!Ack, WP!AckFails, WP!CrashWorker, WP!vars, WP!target

(* The pipeline implements Notifications: the target is sent committed     *)
(* rows only, and each of them once per dedupe key.                        *)
THEOREM PipelineImplementsNotifications == Spec => AtMostOnceDelivery
<1>1. Init => N!Init
  BY DEF Init, R!Init, W!Init, N!Init, Committed
<1>2. PipelineInv /\ [Next]_vars => [N!Next]_(N!vars)
  <2> SUFFICES ASSUME PipelineInv, [Next]_vars PROVE [N!Next]_(N!vars)
    OBVIOUS
  <2>1. CASE UNCHANGED vars
    BY <2>1 DEF vars, relayVars, workerVars, N!vars, Committed
  <2>2. QED
    BY <2>1, SameRelay, SameWorker, RelayRefines, WorkerRefines DEF Next
<1>3. QED
  BY <1>1, <1>2, PipelineInit, PipelineStep, PTL DEF Spec, AtMostOnceDelivery, N!Spec

----------------------------------------------------------------------------
(* What the relay has marked dispatched and the target has never seen is   *)
(* found in Redis: the relay's mark proves an entry in the stream, and an  *)
(* entry that was read and not delivered has a pending witness, unless its *)
(* row is one of a set S whose SETNX was re-sent.                          *)
TraceInv(S) == PipelineInv /\ WP!WitnessInv(S)

LEMMA StepIsWorkerStep == PipelineInv /\ [Next]_vars => WP!Step
<1> SUFFICES ASSUME PipelineInv, [Next]_vars PROVE WP!Step
  OBVIOUS
<1>1. CASE RP!Next /\ UNCHANGED workerVars
  BY <1>1, RelayIsEnvironment
<1>2. CASE WP!WorkerNext
  BY <1>2 DEF WP!Step
<1>3. CASE UNCHANGED vars
  <2>1. UNCHANGED <<relayVars, workerVars, stream, faults>>
    BY <1>3 DEF vars
  <2>2. QED
    BY <2>1 DEF workerVars, WP!Step, WP!Environment, WP!workers, WP!redis, WP!target
<1>4. QED
  BY <1>1, <1>2, <1>3, SameRelay, SameWorker DEF Next

InRedis(o) == \E i \in DOMAIN stream : stream[i] = o /\ (i > lastDelivered \/ i \in pel)

LEMMA Traceable ==
  ASSUME NEW S, TraceInv(S), NEW o \in Rows \ S, status[o] = "dispatched", posts[o] = 0
  PROVE  InRedis(o)
<1>1. PICK i \in DOMAIN stream : stream[i] = o
  BY DEF TraceInv, PipelineInv, RP!RelayInv, RP!DispatchedIsPublished, RP!Published
<1>2. /\ stream \in Seq(Rows) /\ lastDelivered \in 0..Len(stream)
      /\ pel \subseteq 1..lastDelivered
  BY DEF TraceInv, PipelineInv, WP!WorkerInv, WP!Shape
<1>3. i \in Nat /\ i >= 1 /\ DOMAIN stream = 1..Len(stream)
  BY <1>1, <1>2
<1>4. CASE i > lastDelivered
  BY <1>1, <1>4 DEF InRedis
<1>5. CASE i \in 1..lastDelivered
  <2>1. PICK j \in pel : stream[j] = stream[i]
    BY <1>1, <1>5 DEF TraceInv, WP!WitnessInv, WP!EntryHasWitness
  <2>2. j \in DOMAIN stream
    BY <1>2, <1>3, <2>1
  <2>3. QED
    BY <1>1, <2>1, <2>2 DEF InRedis
<1>6. QED
  BY <1>2, <1>3, <1>4, <1>5

LEMMA TraceInvHolds == ASSUME WP!NoResend PROVE Spec => []TraceInv({})
<1>1. Init => TraceInv({})
  BY PipelineInit, SameInit, Assumptions, WP!WitnessInit DEF TraceInv, PipelineInv, WP!WitnessInv
<1>2. TraceInv({}) /\ [Next]_vars => TraceInv({})'
  <2> SUFFICES ASSUME TraceInv({}), [Next]_vars PROVE TraceInv({})'
    OBVIOUS
  <2>1. PipelineInv' /\ WP!Step
    BY PipelineStep, StepIsWorkerStep DEF TraceInv
  <2>2. WP!WitnessInv({})'
    BY <2>1, Assumptions, WP!WitnessStep, WP!NobodyResends DEF TraceInv
  <2>3. QED
    BY <2>1, <2>2 DEF TraceInv
<1>3. QED
  BY <1>1, <1>2, PTL DEF Spec

(* EnqueueBatch, MarkDispatchedBatch and handle together: without a        *)
(* re-sent SETNX no dispatched notification disappears without a trace.    *)
THEOREM DispatchedIsTraceableHolds ==
  ASSUME WP!NoResend PROVE Spec => []DispatchedIsTraceable
<1>1. TraceInv({}) => DispatchedIsTraceable
  BY Traceable DEF DispatchedIsTraceable, InRedis
<1>2. QED
  BY <1>1, TraceInvHolds, PTL

(* The pending entries list holds the evidence of every row that handle    *)
(* read and did not deliver, as long as no SETNX is re-sent.               *)
THEOREM UndeliveredStaysPendingHolds ==
  ASSUME WP!NoResend PROVE Spec => []UndeliveredStaysPending
<1>1. TraceInv({}) => UndeliveredStaysPending
  BY DEF TraceInv, WP!WitnessInv, WP!EntryHasWitness, UndeliveredStaysPending,
         W!UndeliveredStaysPending
<1>2. QED
  BY <1>1, TraceInvHolds, PTL

----------------------------------------------------------------------------
(* With re-sent SETNX a dispatched row can be lost for good: marked in the *)
(* outbox, never seen by the target, and nowhere in Redis.                 *)
Untraceable == {o \in Rows : status[o] = "dispatched" /\ posts[o] = 0 /\ ~ InRedis(o)}

LossNeedsFaults == IsFiniteSet(Untraceable) /\ Cardinality(Untraceable) <= faults

LEMMA SameFiniteSets ==
  ASSUME NEW S
  PROVE  WP!IsFiniteSet(S) = IsFiniteSet(S) /\ WP!Cardinality(S) = Cardinality(S)
BY DEF IsFiniteSet, WP!IsFiniteSet, Cardinality, WP!Cardinality

LEMMA FaultsNeverDrop ==
  ASSUME PipelineInv, [Next]_vars
  PROVE  faults' \in Nat /\ faults <= faults'
<1>1. faults \in 0..MaxFaults /\ MaxFaults \in Nat
  BY PipelineAssumption DEF PipelineInv, RP!RelayInv, RP!TypeOK
<1>2. faults' = faults \/ faults' = faults + 1
  <2>1. CASE RP!Next
    BY <2>1
       DEF RP!Next, RP!RelayNext, RP!RelayStep, RP!RelayFault, RP!Enqueue, RP!BecomeDue,
           RP!ClaimBegin, RP!ClaimNothing, RP!ClaimCommit, RP!ClaimFail, RP!XAdd, RP!XAddRejected,
           RP!PipelineLost, RP!ExecReturn, RP!MarkBegin, RP!MarkCommit, RP!MarkFail, RP!Crash,
           RP!vars, RP!Fault, RP!Finish
  <2>2. CASE WP!WorkerNext
    BY <2>2
       DEF WP!WorkerNext, WP!WorkerStep, WP!WorkerFault, WP!Start, WP!StartFails,
           WP!ReadNothing, WP!Read, WP!ReadLost, WP!ClaimKey, WP!ClaimKeyFails,
           WP!ClaimKeyResent, WP!TargetAccepts, WP!TargetRejects, WP!PostFails,
           WP!TransportReplays, WP!PostReturns, WP!Ack, WP!AckFails, WP!CrashWorker,
           WP!ExpireKey, WP!Fault, WP!vars
  <2>3. CASE UNCHANGED vars
    BY <2>3 DEF vars
  <2>4. QED
    BY <2>1, <2>2, <2>3, SameRelay, SameWorker DEF Next
<1>3. QED
  BY <1>1, <1>2

(* Every fault, the relays' included, may excuse one row: a bound that     *)
(* holds for relay, stream and workers together.                           *)
THEOREM LossNeedsFaultsHolds == Spec => []LossNeedsFaults
<1>1. Init => PipelineInv /\ WP!FewExcused
  BY PipelineInit, SameInit, Assumptions, WP!FewExcusedInit
<1>2. PipelineInv /\ WP!FewExcused /\ [Next]_vars => PipelineInv' /\ WP!FewExcused'
  BY PipelineStep, StepIsWorkerStep, FaultsNeverDrop, Assumptions, WP!FewExcusedStep
<1>3. PipelineInv /\ WP!FewExcused => LossNeedsFaults
  <2>1. SUFFICES ASSUME PipelineInv, WP!FewExcused PROVE LossNeedsFaults
    OBVIOUS
  <2>2. PICK S \in SUBSET Rows : IsFiniteSet(S) /\ Cardinality(S) <= faults /\ WP!WitnessInv(S)
    BY <2>1, SameFiniteSets DEF WP!FewExcused
  <2>3. Untraceable \subseteq S
    BY <2>1, <2>2, Traceable DEF Untraceable, TraceInv
  <2>4. IsFiniteSet(Untraceable) /\ Cardinality(Untraceable) <= Cardinality(S)
    BY <2>2, <2>3, FS_Subset
  <2>5. /\ Cardinality(Untraceable) \in Nat /\ Cardinality(S) \in Nat
        /\ faults \in Nat
    BY <2>1, <2>2, <2>4, FS_CardinalityType DEF WP!FewExcused
  <2>6. QED
    BY <2>2, <2>4, <2>5 DEF LossNeedsFaults
<1>4. QED
  BY <1>1, <1>2, <1>3, PTL DEF Spec

----------------------------------------------------------------------------
(* With one relay nobody marks a row behind the back of the one who        *)
(* claimed it, whatever the workers do with its copies.                    *)
THEOREM TerminalIsFinalHolds ==
  ASSUME RP!SingleRelay PROVE Spec => TerminalIsFinal
<1> DEFINE Final == \A o \in Rows : status[o] \in {"dispatched", "dead"} => status'[o] = status[o]
<1>1. Init => RP!HeldPending
  BY SameInit DEF RP!Init, RP!HeldPending
<1>2. PipelineInv /\ RP!HeldPending /\ [Next]_vars => RP!HeldPending' /\ Final
  <2> SUFFICES ASSUME PipelineInv, RP!HeldPending, [Next]_vars
               PROVE  RP!HeldPending' /\ Final
    OBVIOUS
  <2>1. CASE RP!Next
    <3>1. RP!TypeOK /\ [RP!Next]_(RP!vars)
      BY <2>1 DEF PipelineInv, RP!RelayInv
    <3>2. RP!HeldPending'
      BY <3>1, Assumptions, RP!HeldPendingStep
    <3>3. ASSUME NEW o \in Rows, status[o] \in {"dispatched", "dead"}, status'[o] # status[o]
          PROVE  FALSE
      <4>1. PICK r \in Relays : o \in RP!ids(r)
        BY <3>1, <3>3, Assumptions, RP!StatusChange
      <4>2. QED
        BY <3>3, <4>1 DEF RP!ids, RP!HeldPending
    <3>4. QED
      BY <3>2, <3>3
  <2>2. CASE UNCHANGED relayVars
    BY <2>2 DEF relayVars, RP!HeldPending
  <2>3. QED
    BY <2>1, <2>2, SameRelay DEF Next, WorkerNext, vars
<1>3. Final => [\A o \in Rows : status[o] \in {"dispatched", "dead"} => status'[o] = status[o]]_(R!vars)
  OBVIOUS
<1>4. QED
  BY <1>1, <1>2, <1>3, PipelineInit, PipelineStep, PTL
     DEF Spec, TerminalIsFinal, R!TerminalIsFinal
=============================================================================
