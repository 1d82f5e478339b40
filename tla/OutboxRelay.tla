---------------------------- MODULE OutboxRelay ----------------------------
(***************************************************************************)
(* The transactional-outbox relay: the webhook_outbox table, the loop that *)
(* moves its rows to the Redis stream (internal/workers/outboxrelay), the  *)
(* repository it calls (internal/platform/db/outbox) and the pipelined     *)
(* XADDs of internal/platform/redis/queue.                                 *)
(*                                                                         *)
(* One tick of a relay is                                                  *)
(*    idle -> claiming -> pushing -> pushed -> marking -> idle             *)
(* "claiming" and "marking" are the two open database transactions; the    *)
(* row locks they hold are what FOR UPDATE SKIP LOCKED skips.  Between the *)
(* two, no lock is held and the row is still 'pending'.                    *)
(***************************************************************************)
EXTENDS Naturals, SequencesExt

CONSTANTS
  Rows,          \* ids of the outbox rows that may be inserted
  Relays,        \* relay loops, one per running API process
  BatchSize,     \* r.batchSize
  MaxAttempts,   \* r.maxAttempts
  RedisRetries,  \* MaxRetries of the Redis client: a pipeline is re-sent whole
  FaultKinds,    \* which faults the environment may inject
  MaxFaults      \* bound on the number of faults of a behaviour

ASSUME OutboxAssumption ==
  /\ Rows \subseteq Nat /\ IsFiniteSet(Rows)
  /\ BatchSize \in Nat \ {0}
  /\ MaxAttempts \in Nat \ {0}
  /\ RedisRetries \in Nat
  /\ MaxFaults \in Nat

VARIABLES
  status,    \* Rows -> "absent" until inserted, then the status column
  attempts,  \* Rows -> the attempts column
  due,       \* Rows -> next_attempt_at <= NOW()
  stream,    \* outbox ids of the stream's entries, entry i is the i-th XADD
  pc,        \* Relays -> where its tick is
  events,    \* Relays -> the batch ClaimBatch returned, in RETURNING order
  sent,      \* Relays -> commands of the pipeline the server has processed
  tries,     \* Relays -> times the client has re-sent the pipeline
  pushErr,   \* Relays -> the pipeline's error is non-nil
  faults     \* number of faults so far

table == <<status, attempts, due>>
local == <<pc, events, sent, tries, pushErr>>
vars == <<table, stream, local, faults>>

Status == {"absent", "pending", "dispatched", "dead"}
Event == [id : Rows, attempts : Nat]
InTx == {"claiming", "marking"}

ids(r) == {events[r][i].id : i \in DOMAIN events[r]}
Published == {stream[i] : i \in DOMAIN stream}

(* A fault of the environment, within the bound MaxFaults. *)
Fault(kind) ==
  /\ kind \in FaultKinds
  /\ faults < MaxFaults
  /\ faults' = faults + 1

----------------------------------------------------------------------------
Init ==
  /\ status = [o \in Rows |-> "absent"]
  /\ attempts = [o \in Rows |-> 0]
  /\ due = [o \in Rows |-> FALSE]
  /\ stream = <<>>
  /\ pc = [r \in Relays |-> "idle"]
  /\ events = [r \in Relays |-> <<>>]
  /\ sent = [r \in Relays |-> 0]
  /\ tries = [r \in Relays |-> 0]
  /\ pushErr = [r \in Relays |-> FALSE]
  /\ faults = 0

(* A transaction that called Enqueue commits its row. *)
Enqueue(o) ==
  /\ status[o] = "absent"
  /\ status' = [status EXCEPT ![o] = "pending"]
  /\ attempts' = [attempts EXCEPT ![o] = 0]
  /\ due' = [due EXCEPT ![o] = TRUE]
  /\ UNCHANGED <<stream, local, faults>>

(* The clock passes the row's next_attempt_at. *)
BecomeDue(o) ==
  /\ status[o] = "pending"
  /\ ~ due[o]
  /\ due' = [due EXCEPT ![o] = TRUE]
  /\ UNCHANGED <<status, attempts, stream, local, faults>>

----------------------------------------------------------------------------
(* Seeded bug: the claim's SELECT without FOR UPDATE SKIP LOCKED. *)
LockedNothing == {}

Locked == UNION {ids(r) : r \in {q \in Relays : pc[q] \in InTx}}

(* Seeded bug: the claim's WHERE without status = 'pending'. *)
ClaimableAnyStatus(o) == status[o] # "absent" /\ due[o]

(* Seeded bug: the claim never takes a row that was tried before. *)
ClaimableOnce(o) == status[o] = "pending" /\ due[o] /\ attempts[o] = 0

Claimable(o) == status[o] = "pending" /\ due[o]

(* ORDER BY id FOR UPDATE SKIP LOCKED LIMIT BatchSize *)
ClaimedBatch ==
  LET free == {o \in Rows : Claimable(o)} \ Locked
  IN  {o \in free : Cardinality({p \in free : p < o}) < BatchSize}

(* The relay's tick is over: everything it knew was local to process(). *)
Finish(r) ==
  /\ pc' = [pc EXCEPT ![r] = "idle"]
  /\ events' = [events EXCEPT ![r] = <<>>]
  /\ sent' = [sent EXCEPT ![r] = 0]
  /\ tries' = [tries EXCEPT ![r] = 0]
  /\ pushErr' = [pushErr EXCEPT ![r] = FALSE]

(* The claim transaction has run its UPDATE; the new attempts are visible  *)
(* to the relay, and to nobody else before the commit.                     *)
ClaimBegin(r) ==
  /\ pc[r] = "idle"
  /\ ClaimedBatch # {}
  /\ \E batch \in SetToSeqs(ClaimedBatch) :
       events' = [events EXCEPT ![r] =
                    [i \in DOMAIN batch |->
                       [id |-> batch[i], attempts |-> attempts[batch[i]] + 1]]]
  /\ pc' = [pc EXCEPT ![r] = "claiming"]
  /\ UNCHANGED <<table, stream, sent, tries, pushErr, faults>>

(* A tick that finds no row to claim: process() returns at once. *)
ClaimNothing(r) ==
  /\ pc[r] = "idle"
  /\ ClaimedBatch = {}
  /\ UNCHANGED vars

(* Seeded bug: the claim returns attempts + 1 and does not store it. *)
CountNothing(r) == UNCHANGED attempts

CountAttempt(r) ==
  attempts' = [o \in Rows |-> IF o \in ids(r) THEN attempts[o] + 1 ELSE attempts[o]]

ClaimCommit(r) ==
  /\ pc[r] = "claiming"
  /\ CountAttempt(r)
  /\ pc' = [pc EXCEPT ![r] = "pushing"]
  /\ UNCHANGED <<status, due, stream, events, sent, tries, pushErr, faults>>

(* The transaction is rolled back, or it commits and the reply is lost:    *)
(* either way process() returns the error.                                 *)
ClaimFail(r) ==
  /\ pc[r] = "claiming"
  /\ Fault("db")
  /\ \/ UNCHANGED attempts
     \/ CountAttempt(r)
  /\ Finish(r)
  /\ UNCHANGED <<status, due, stream>>

----------------------------------------------------------------------------
(* The server processes the next XADD of the pipeline. *)
XAdd(r) ==
  /\ pc[r] = "pushing"
  /\ sent[r] < Len(events[r])
  /\ stream' = Append(stream, events[r][sent[r] + 1].id)
  /\ sent' = [sent EXCEPT ![r] = @ + 1]
  /\ UNCHANGED <<table, pc, events, tries, pushErr, faults>>

(* The server answers one XADD with an error; the others still run. *)
XAddRejected(r) ==
  /\ pc[r] = "pushing"
  /\ sent[r] < Len(events[r])
  /\ Fault("xadd")
  /\ sent' = [sent EXCEPT ![r] = @ + 1]
  /\ pushErr' = [pushErr EXCEPT ![r] = TRUE]
  /\ UNCHANGED <<table, stream, pc, events, tries>>

(* Seeded bug: the client re-sends once more than MaxRetries. *)
MayResendOnceMore(r) == tries[r] <= RedisRetries

MayResend(r) == tries[r] < RedisRetries

(* The connection breaks at any point of the pipeline, before the first    *)
(* command or after the last reply: the client sends all of it again, or   *)
(* gives up.                                                               *)
PipelineLost(r) ==
  /\ pc[r] = "pushing"
  /\ Fault("xadd")
  /\ \/ /\ MayResend(r)
        /\ tries' = [tries EXCEPT ![r] = @ + 1]
        /\ sent' = [sent EXCEPT ![r] = 0]
        /\ pushErr' = [pushErr EXCEPT ![r] = FALSE]
        /\ UNCHANGED pc
     \/ /\ pc' = [pc EXCEPT ![r] = "pushed"]
        /\ pushErr' = [pushErr EXCEPT ![r] = TRUE]
        /\ UNCHANGED <<tries, sent>>
  /\ UNCHANGED <<table, stream, events>>

ExecReturn(r) ==
  /\ pc[r] = "pushing"
  /\ sent[r] = Len(events[r])
  /\ pc' = [pc EXCEPT ![r] = "pushed"]
  /\ UNCHANGED <<table, stream, events, sent, tries, pushErr, faults>>

----------------------------------------------------------------------------
(* The second transaction updates the rows by id; it waits for row locks. *)
MarkBegin(r) ==
  /\ pc[r] = "pushed"
  /\ ids(r) \cap Locked = {}
  /\ pc' = [pc EXCEPT ![r] = "marking"]
  /\ UNCHANGED <<table, stream, events, sent, tries, pushErr, faults>>

(* Seeded bug: off by one, a row is given up an attempt too early. *)
ExhaustedEarly(r, o) ==
  \E i \in DOMAIN events[r] :
    events[r][i].id = o /\ events[r][i].attempts + 1 >= MaxAttempts

(* ev.Attempts >= r.maxAttempts, with the attempts the claim returned. *)
Exhausted(r, o) ==
  \E i \in DOMAIN events[r] :
    events[r][i].id = o /\ events[r][i].attempts >= MaxAttempts

(* Seeded bug: pushErr is logged and then forgotten. *)
MarkedStatusBlind(r, o) == "dispatched"

(* Seeded bug: the successful batch is sent back to pending. *)
MarkedStatusRetry(r, o) == IF Exhausted(r, o) THEN "dead" ELSE "pending"

MarkedStatus(r, o) ==
  IF ~ pushErr[r] THEN "dispatched"
  ELSE IF Exhausted(r, o) THEN "dead" ELSE "pending"

MarkCommit(r) ==
  /\ pc[r] = "marking"
  /\ status' = [o \in Rows |-> IF o \in ids(r) THEN MarkedStatus(r, o) ELSE status[o]]
  /\ due' = [o \in Rows |->
               due[o] /\ ~ (o \in ids(r) /\ MarkedStatus(r, o) = "pending")]
  /\ Finish(r)
  /\ UNCHANGED <<attempts, stream, faults>>

(* Begin, a statement or the commit fails: all of it is rolled back. *)
MarkFail(r) ==
  /\ pc[r] \in {"pushed", "marking"}
  /\ Fault("db")
  /\ Finish(r)
  /\ UNCHANGED <<table, stream>>

(* The process dies, or its context is cancelled at shutdown: an open      *)
(* transaction is rolled back, and a restarted relay begins at idle.       *)
Crash(r) ==
  /\ pc[r] # "idle"
  /\ Fault("relaycrash")
  /\ Finish(r)
  /\ UNCHANGED <<table, stream>>

----------------------------------------------------------------------------
(* The steps of Run/process when nothing fails. *)
RelayStep(r) ==
  \/ ClaimBegin(r)
  \/ ClaimNothing(r)
  \/ ClaimCommit(r)
  \/ XAdd(r)
  \/ ExecReturn(r)
  \/ MarkBegin(r)
  \/ MarkCommit(r)

RelayFault(r) ==
  \/ ClaimFail(r)
  \/ XAddRejected(r)
  \/ PipelineLost(r)
  \/ MarkFail(r)
  \/ Crash(r)

RelayNext ==
  \/ \E r \in Relays : RelayStep(r)
  \/ \E r \in Relays : RelayFault(r)
  \/ \E o \in Rows : BecomeDue(o)

Next == RelayNext \/ \E o \in Rows : Enqueue(o)

Fairness ==
  /\ \A r \in Relays : WF_vars(RelayStep(r))
  /\ \A o \in Rows : WF_vars(BecomeDue(o))

Spec == Init /\ [][Next]_vars

FairSpec == Spec /\ Fairness

----------------------------------------------------------------------------
(* The shape of the state. *)
TypeOK ==
  /\ status \in [Rows -> Status]
  /\ attempts \in [Rows -> Nat]
  /\ due \in [Rows -> BOOLEAN]
  /\ stream \in Seq(Rows)
  /\ pc \in [Relays -> {"idle", "claiming", "pushing", "pushed", "marking"}]
  /\ events \in [Relays -> Seq(Event)]
  /\ sent \in [Relays -> Nat]
  /\ tries \in [Relays -> 0..RedisRetries]
  /\ pushErr \in [Relays -> BOOLEAN]
  /\ faults \in 0..MaxFaults
  /\ \A r \in Relays : /\ sent[r] <= Len(events[r])
                       /\ pc[r] = "idle" => events[r] = <<>>

Copies(o) == Cardinality({i \in DOMAIN stream : stream[i] = o})

(* A row is marked dispatched only after its XADD took effect: whatever    *)
(* fails between the push and the mark, on whichever relay, a dispatched   *)
(* row has an entry in the stream (process marks after EnqueueBatch, and   *)
(* only when pushErr is nil).                                              *)
DispatchedIsPublished ==
  \A o \in Rows : status[o] = "dispatched" => o \in Published

(* The dead letter state is reached only by a row claimed at least         *)
(* maxAttempts times, although the test uses the attempts read by the      *)
(* claim, which another relay may have outrun since.                       *)
DeadOnlyWhenExhausted ==
  \A o \in Rows : status[o] = "dead" => attempts[o] >= MaxAttempts

(* Every claim of a row gets an attempt number of its own, also when two   *)
(* relays claim at the same time: the row lock covers read and increment.  *)
DistinctAttempts ==
  \A r, q \in Relays : r # q =>
    \A i \in DOMAIN events[r], j \in DOMAIN events[q] :
      events[r][i].id = events[q][j].id =>
        events[r][i].attempts # events[q][j].attempts

(* Duplicates in the stream are paid for: a claim is counted before the    *)
(* push, so crashes and failed marks cannot publish a row more often than  *)
(* its attempts column says, times the re-sends of one pipeline.           *)
CopiesBounded ==
  \A o \in Rows : Copies(o) <= attempts[o] * (1 + RedisRetries)

(* Without faults the only duplicates are those of concurrent relays, each *)
(* of which may claim the still pending row once, and a fault lets each of *)
(* them publish it once more: one relay alone publishes a row exactly once *)
(* as long as nothing fails, however its ticks meet the marks.             *)
DuplicatesNeedFaultOrRace ==
  \A o \in Rows : Copies(o) <= Cardinality(Relays) * (1 + faults)

(* The rows a relay holds between the report of its claim and its mark.    *)
Held ==
  [r \in Relays |-> IF pc[r] \in {"pushing", "pushed", "marking"}
                    THEN {events[r][i] : i \in DOMAIN events[r]} ELSE {}]

T == INSTANCE OutboxTable WITH held <- Held

(* To a reader of the table a tick is one claim, counted whole, and at most*)
(* one mark, of the rows of that claim and by the attempts it counted,     *)
(* wherever the two transactions and the pipeline between them break off.  *)
ClaimsAreCounted == T!Spec

(* With one relay, dispatched and dead are final, although both mark       *)
(* statements update by id without looking at the status.                  *)
TerminalIsFinal ==
  [][\A o \in Rows : status[o] \in {"dispatched", "dead"} => status'[o] = status[o]]_vars

(* With several, a mark may come late and overwrite what another relay has *)
(* settled, even back to pending.  That takes both a race and a fault: the *)
(* row has been claimed a second time before it was settled, and something *)
(* has failed; relays that only race each other undo nothing.              *)
UndoingTakesRaceAndFault ==
  [][\A o \in Rows :
       status[o] \in {"dispatched", "dead"} /\ status'[o] # status[o] =>
         attempts[o] >= 2 /\ faults > 0]_vars

(* Every committed row is settled: dispatched, or dead after maxAttempts.  *)
(* No crash, lost reply or failed transaction leaves one pending for ever. *)
EventuallySettled ==
  \A o \in Rows : status[o] = "pending" ~> status[o] \in {"dispatched", "dead"}
=============================================================================
