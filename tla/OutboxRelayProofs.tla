------------------------- MODULE OutboxRelayProofs -------------------------
(***************************************************************************)
(* Proofs about OutboxRelay, for every set of rows and relays, every batch *)
(* size, attempt limit, retry count and number of faults.                  *)
(***************************************************************************)
EXTENDS OutboxRelay, FiniteSetTheorems, TLAPS

(* RETURNING o.attempts: ahead of the table until the claim commits, never *)
(* after.                                                                  *)
CarriesAttempts ==
  \A r \in Relays : \A i \in DOMAIN events[r] :
    IF pc[r] = "claiming"
    THEN events[r][i].attempts = attempts[events[r][i].id] + 1
    ELSE events[r][i].attempts <= attempts[events[r][i].id]

(* A batch consists of inserted rows. *)
HoldsInserted ==
  \A r \in Relays : \A i \in DOMAIN events[r] : status[events[r][i].id] # "absent"

(* Two open transactions hold locks on different rows. *)
LocksDisjoint ==
  \A r, q \in Relays :
    r # q /\ pc[r] \in InTx /\ pc[q] \in InTx => ids(r) \cap ids(q) = {}

(* A relay knows what it published: as long as its pipeline has no error,  *)
(* the commands it has sent are in the stream.                             *)
Sent(r, i) ==
  /\ ~ pushErr[r]
  /\ \/ pc[r] = "pushing" /\ i <= sent[r]
     \/ pc[r] \in {"pushed", "marking"}

PushedSoFar ==
  \A r \in Relays :
    /\ pc[r] = "claiming" => sent[r] = 0
    /\ \A i \in DOMAIN events[r] : Sent(r, i) => events[r][i].id \in Published

RelayInv ==
  /\ TypeOK
  /\ HoldsInserted
  /\ CarriesAttempts
  /\ LocksDisjoint
  /\ PushedSoFar
  /\ DispatchedIsPublished
  /\ DeadOnlyWhenExhausted
  /\ DistinctAttempts

----------------------------------------------------------------------------
(* What the claim returns: a batch of claimable rows nobody has locked,    *)
(* each with the attempt number that follows the stored one.               *)
LEMMA BatchFacts ==
  ASSUME TypeOK, NEW r \in Relays, ClaimBegin(r)
  PROVE  /\ events'[r] \in Seq(Event)
         /\ \A i \in DOMAIN events'[r] :
              /\ events'[r][i].id \in Rows \ Locked
              /\ Claimable(events'[r][i].id)
              /\ events'[r][i].attempts = attempts[events'[r][i].id] + 1
         /\ \A q \in Relays \ {r} : events'[q] = events[q]
<1>1. PICK batch \in SetToSeqs(ClaimedBatch) :
        events' = [events EXCEPT ![r] =
                     [i \in DOMAIN batch |->
                        [id |-> batch[i], attempts |-> attempts[batch[i]] + 1]]]
  BY DEF ClaimBegin
<1>2. ClaimedBatch \subseteq Rows /\ IsFiniteSet(Rows)
  BY OutboxAssumption DEF ClaimedBatch
<1>3. IsFiniteSet(ClaimedBatch) /\ Cardinality(ClaimedBatch) \in Nat
  BY <1>2, FS_Subset, FS_CardinalityType
<1>4. batch \in [1..Cardinality(ClaimedBatch) -> ClaimedBatch]
  BY DEF SetToSeqs
<1>5. events'[r] = [i \in 1..Cardinality(ClaimedBatch) |->
                      [id |-> batch[i], attempts |-> attempts[batch[i]] + 1]]
  BY <1>1, <1>4 DEF TypeOK
<1>6. \A i \in 1..Cardinality(ClaimedBatch) :
         /\ batch[i] \in Rows \ Locked
         /\ Claimable(batch[i])
         /\ attempts[batch[i]] \in Nat
  BY <1>2, <1>4 DEF ClaimedBatch, TypeOK
<1>7. \A i \in 1..Cardinality(ClaimedBatch) : events'[r][i] \in Event
  BY <1>5, <1>6 DEF Event
<1>8. events'[r] \in Seq(Event)
  BY <1>3, <1>5, <1>7
<1>9. QED
  BY <1>1, <1>3, <1>5, <1>6, <1>8 DEF TypeOK

LEMMA InitInv == Init => RelayInv
BY OutboxAssumption
   DEF Init, RelayInv, TypeOK, Status, HoldsInserted, CarriesAttempts, LocksDisjoint, ids,
       PushedSoFar, Sent, DispatchedIsPublished, DeadOnlyWhenExhausted, DistinctAttempts

(* The next command of a pipeline names a row. *)
LEMMA NextEvent ==
  ASSUME TypeOK, NEW r \in Relays, sent[r] < Len(events[r])
  PROVE  events[r][sent[r] + 1].id \in Rows /\ sent[r] + 1 \in DOMAIN events[r]
<1>1. events[r] \in Seq(Event) /\ sent[r] + 1 \in 1..Len(events[r])
  BY DEF TypeOK
<1>2. events[r][sent[r] + 1] \in Event
  BY <1>1
<1>3. QED
  BY <1>1, <1>2 DEF Event

(* The part of TypeOK that is about the relays' own variables. *)
LocalTypes ==
  /\ pc \in [Relays -> {"idle", "claiming", "pushing", "pushed", "marking"}]
  /\ events \in [Relays -> Seq(Event)]
  /\ sent \in [Relays -> Nat]
  /\ tries \in [Relays -> 0..RedisRetries]
  /\ pushErr \in [Relays -> BOOLEAN]
  /\ \A r \in Relays : /\ sent[r] <= Len(events[r])
                       /\ pc[r] = "idle" => events[r] = <<>>

(* The end of a tick leaves the relay's variables well typed. *)
LEMMA FinishTypes ==
  ASSUME TypeOK, NEW r \in Relays, Finish(r)
  PROVE  LocalTypes'
<1>1. 0 \in 0..RedisRetries
  BY OutboxAssumption
<1>2. events' \in [Relays -> Seq(Event)]
  BY DEF Finish, TypeOK
<1>3. QED
  BY <1>1, <1>2 DEF Finish, TypeOK, LocalTypes

(* No action leaves the types: the batch of a claim is a sequence of       *)
(* events, the pipeline's cursor stays within it, and re-sends and faults  *)
(* within their bounds.                                                    *)
LEMMA TypeOKStep == TypeOK /\ [Next]_vars => TypeOK'
<1> SUFFICES ASSUME TypeOK, [Next]_vars PROVE TypeOK'
  OBVIOUS
<1> USE DEF TypeOK
<1>1. ASSUME NEW o \in Rows, Enqueue(o) PROVE TypeOK'
  BY <1>1 DEF Enqueue, local, Status
<1>2. ASSUME NEW o \in Rows, BecomeDue(o) PROVE TypeOK'
  BY <1>2 DEF BecomeDue, local
<1>3. ASSUME NEW r \in Relays, ClaimBegin(r) PROVE TypeOK'
  <2>1. events' \in [Relays -> Seq(Event)]
    <3>1. DOMAIN events' = Relays /\ events' = [q \in Relays |-> events'[q]]
      BY <1>3 DEF ClaimBegin
    <3>2. QED
      BY <1>3, <3>1, BatchFacts
  <2>2. sent[r] = 0
    <3>1. events[r] = <<>> /\ sent[r] <= Len(events[r]) /\ sent[r] \in Nat
      BY <1>3 DEF ClaimBegin
    <3>2. Len(<<>>) = 0
      OBVIOUS
    <3>3. QED
      BY <3>1, <3>2
  <2>3. QED
    BY <1>3, <2>1, <2>2 DEF ClaimBegin, table
<1>4. ASSUME NEW r \in Relays, ClaimCommit(r) PROVE TypeOK'
  BY <1>4 DEF ClaimCommit, CountAttempt
<1>5. ASSUME NEW r \in Relays, ClaimFail(r) PROVE TypeOK'
  <2>1. LocalTypes'
    BY <1>5, FinishTypes DEF ClaimFail
  <2>2. attempts' \in [Rows -> Nat]
    BY <1>5 DEF ClaimFail, CountAttempt
  <2>3. faults' \in 0..MaxFaults
    BY <1>5, OutboxAssumption DEF ClaimFail, Fault
  <2>4. QED
    BY <1>5, <2>1, <2>2, <2>3 DEF ClaimFail, LocalTypes
<1>6. ASSUME NEW r \in Relays, XAdd(r) PROVE TypeOK'
  <2>1. stream' \in Seq(Rows)
    BY <1>6, NextEvent DEF XAdd
  <2>2. QED
    BY <1>6, <2>1 DEF XAdd, table
<1>7. ASSUME NEW r \in Relays, XAddRejected(r) PROVE TypeOK'
  BY <1>7, OutboxAssumption DEF XAddRejected, Fault, table
<1>8. ASSUME NEW r \in Relays, PipelineLost(r) PROVE TypeOK'
  <2>1. faults' \in 0..MaxFaults
    BY <1>8, OutboxAssumption DEF PipelineLost, Fault
  <2>2. CASE MayResend(r) /\ tries' = [tries EXCEPT ![r] = @ + 1] /\ sent' = [sent EXCEPT ![r] = 0]
                /\ pushErr' = [pushErr EXCEPT ![r] = FALSE] /\ UNCHANGED pc
    <3>1. tries' \in [Relays -> 0..RedisRetries]
      BY <2>2, OutboxAssumption DEF MayResend
    <3>2. sent' \in [Relays -> Nat] /\ pushErr' \in [Relays -> BOOLEAN]
      BY <2>2
    <3>3. events' = events
      BY <1>8 DEF PipelineLost
    <3>4. \A q \in Relays : sent'[q] <= Len(events'[q])
      BY <2>2, <3>3
    <3>5. QED
      BY <1>8, <2>1, <2>2, <3>1, <3>2, <3>3, <3>4 DEF PipelineLost, table
  <2>3. CASE pc' = [pc EXCEPT ![r] = "pushed"]
    BY <1>8, <2>1, <2>3 DEF PipelineLost, table
  <2>4. QED
    BY <1>8, <2>2, <2>3 DEF PipelineLost
<1>9. ASSUME NEW r \in Relays, ExecReturn(r) PROVE TypeOK'
  BY <1>9 DEF ExecReturn, table
<1>10. ASSUME NEW r \in Relays, MarkBegin(r) PROVE TypeOK'
  BY <1>10 DEF MarkBegin, table
<1>11. ASSUME NEW r \in Relays, MarkCommit(r) PROVE TypeOK'
  <2>1. status' \in [Rows -> Status] /\ due' \in [Rows -> BOOLEAN]
    BY <1>11 DEF MarkCommit, MarkedStatus, Status
  <2>2. QED
    BY <1>11, <2>1, FinishTypes DEF MarkCommit, LocalTypes
<1>12. ASSUME NEW r \in Relays, MarkFail(r) \/ Crash(r) PROVE TypeOK'
  <2>1. LocalTypes'
    BY <1>12, FinishTypes DEF MarkFail, Crash
  <2>2. faults' \in 0..MaxFaults
    BY <1>12, OutboxAssumption DEF MarkFail, Crash, Fault
  <2>3. QED
    BY <1>12, <2>1, <2>2 DEF MarkFail, Crash, LocalTypes, table
<1>13. CASE UNCHANGED vars
  BY <1>13 DEF vars, table, local
<1>14. QED
  BY <1>1, <1>2, <1>3, <1>4, <1>5, <1>6, <1>7, <1>8, <1>9, <1>10, <1>11, <1>12, <1>13
     DEF Next, RelayNext, RelayStep, RelayFault, ClaimNothing

(* Every reachable state is well typed. *)
THEOREM TypeCorrect == Spec => []TypeOK
<1>1. Init => TypeOK
  BY InitInv DEF RelayInv
<1>2. QED
  BY <1>1, TypeOKStep, PTL DEF Spec

----------------------------------------------------------------------------
(* One way to read the type invariant of the batches. *)
LEMMA EventType ==
  ASSUME TypeOK, NEW r \in Relays, NEW i \in DOMAIN events[r]
  PROVE  events[r][i].id \in Rows /\ events[r][i].attempts \in Nat /\ i \in Nat
<1>1. events[r] \in Seq(Event) /\ i \in 1..Len(events[r])
  BY DEF TypeOK
<1>2. events[r][i] \in Event
  BY <1>1
<1>3. QED
  BY <1>1, <1>2 DEF Event

(* The end of r's tick empties r's batch and touches no other relay. *)
LEMMA FinishShape ==
  ASSUME TypeOK, NEW r \in Relays, Finish(r)
  PROVE  /\ pc'[r] = "idle" /\ events'[r] = <<>> /\ DOMAIN events'[r] = {}
         /\ \A q \in Relays \ {r} : /\ pc'[q] = pc[q]
                                    /\ events'[q] = events[q]
                                    /\ sent'[q] = sent[q]
                                    /\ pushErr'[q] = pushErr[q]
BY DEF TypeOK, Finish

(* The stream is never trimmed. *)
LEMMA PublishedGrows ==
  ASSUME TypeOK, [Next]_vars
  PROVE  Published \subseteq Published'
<1>1. CASE stream' = stream
  BY <1>1 DEF Published
<1>2. ASSUME NEW r \in Relays, XAdd(r) PROVE Published \subseteq Published'
  <2>1. stream' = Append(stream, events[r][sent[r] + 1].id)
    BY <1>2 DEF XAdd
  <2>2. \A i \in DOMAIN stream : i \in DOMAIN stream' /\ stream'[i] = stream[i]
    BY <2>1 DEF TypeOK
  <2>3. QED
    BY <2>2 DEF Published
<1>3. QED
  BY <1>1, <1>2
     DEF Next, RelayNext, RelayStep, RelayFault, Enqueue, BecomeDue, ClaimBegin, ClaimNothing,
         ClaimCommit, ClaimFail, XAddRejected, PipelineLost, ExecReturn, MarkBegin, MarkCommit,
         MarkFail, Crash, vars

LEMMA XAddPublishes ==
  ASSUME TypeOK, NEW r \in Relays, XAdd(r)
  PROVE  events[r][sent[r] + 1].id \in Published'
<1>1. stream' = Append(stream, events[r][sent[r] + 1].id)
  BY DEF XAdd
<1>2. Len(stream) + 1 \in DOMAIN stream' /\ stream'[Len(stream) + 1] = events[r][sent[r] + 1].id
  BY <1>1, NextEvent DEF TypeOK, XAdd
<1>3. QED
  BY <1>2 DEF Published

(* A batch appears at ClaimBegin, is kept as it is, and goes at Finish;    *)
(* only ClaimCommit ends the claim of a batch that is kept.                *)
LEMMA BatchChange ==
  ASSUME TypeOK, [Next]_vars, NEW q \in Relays
  PROVE  \/ ClaimBegin(q)
         \/ pc'[q] = "idle" /\ DOMAIN events'[q] = {}
         \/ ClaimCommit(q) /\ events'[q] = events[q]
         \/ /\ ~ ClaimFail(q)
            /\ events'[q] = events[q]
            /\ pc'[q] = "claiming" <=> pc[q] = "claiming"
            /\ pc'[q] \in InTx => pc[q] \in InTx \/ MarkBegin(q)
<1> DEFINE Kept == /\ ~ ClaimFail(q)
                   /\ events'[q] = events[q]
                   /\ pc'[q] = "claiming" <=> pc[q] = "claiming"
                   /\ pc'[q] \in InTx => pc[q] \in InTx \/ MarkBegin(q)
           Gone == pc'[q] = "idle" /\ DOMAIN events'[q] = {}
<1>1. CASE ClaimFail(q)
  BY <1>1, FinishShape DEF ClaimFail
<1>2. ASSUME ~ ClaimFail(q), NEW r \in Relays, Finish(r) PROVE Gone \/ Kept
  BY <1>2, FinishShape
<1>3. ASSUME ~ ClaimFail(q), pc'[q] = pc[q], events'[q] = events[q] PROVE Kept
  BY <1>3
<1>4. ASSUME NEW r \in Relays, ClaimBegin(r), r # q PROVE pc'[q] = pc[q] /\ events'[q] = events[q]
  BY <1>4, BatchFacts DEF ClaimBegin, TypeOK
<1>5. ASSUME NEW r \in Relays, ClaimCommit(r), r # q PROVE pc'[q] = pc[q] /\ events'[q] = events[q]
  BY <1>5 DEF ClaimCommit, TypeOK
<1>6. ASSUME ~ ClaimFail(q), NEW r \in Relays, PipelineLost(r) \/ ExecReturn(r) \/ MarkBegin(r)
      PROVE  Kept
  BY <1>6 DEF PipelineLost, ExecReturn, MarkBegin, TypeOK, InTx
<1>7. QED
  BY <1>1, <1>2, <1>3, <1>4, <1>5, <1>6
     DEF Next, RelayNext, RelayStep, RelayFault, Enqueue, BecomeDue, ClaimNothing, ClaimCommit,
         ClaimFail, XAdd, XAddRejected, MarkCommit, MarkFail, Crash, vars, local

(* Rows are never deleted. *)
LEMMA StaysInserted ==
  ASSUME TypeOK, [Next]_vars, NEW o \in Rows, status[o] # "absent"
  PROVE  status'[o] # "absent"
<1>1. ASSUME NEW p \in Rows, Enqueue(p) PROVE status'[o] # "absent"
  BY <1>1 DEF Enqueue, TypeOK
<1>2. ASSUME NEW r \in Relays, MarkCommit(r) PROVE status'[o] # "absent"
  BY <1>2 DEF MarkCommit, MarkedStatus
<1>3. QED
  BY <1>1, <1>2
     DEF Next, RelayNext, RelayStep, RelayFault, BecomeDue, ClaimBegin, ClaimNothing, ClaimCommit,
         ClaimFail, XAdd, XAddRejected, PipelineLost, ExecReturn, MarkBegin, MarkFail, Crash,
         vars, table

LEMMA HoldsInsertedStep == TypeOK /\ HoldsInserted /\ [Next]_vars => HoldsInserted'
<1> SUFFICES ASSUME TypeOK, HoldsInserted, [Next]_vars,
                    NEW q \in Relays, NEW i \in DOMAIN events'[q]
             PROVE  status'[events'[q][i].id] # "absent"
  BY DEF HoldsInserted
<1>1. CASE ClaimBegin(q)
  <2>1. events'[q][i].id \in Rows /\ status[events'[q][i].id] = "pending"
    BY <1>1, BatchFacts DEF Claimable
  <2>2. QED
    BY <2>1, StaysInserted
<1>2. CASE events'[q] = events[q]
  BY <1>2, StaysInserted, EventType DEF HoldsInserted
<1>3. QED
  BY <1>1, <1>2, BatchChange

(* A step adds to attempts only for the rows of one claiming relay. *)
LEMMA AttemptsChange ==
  ASSUME TypeOK, [Next]_vars
  PROVE  \/ attempts' = attempts
         \/ \E o \in Rows : Enqueue(o)
         \/ \E r \in Relays : /\ pc[r] = "claiming"
                             /\ CountAttempt(r)
                             /\ (ClaimCommit(r) \/ ClaimFail(r))
BY DEF Next, RelayNext, RelayStep, RelayFault, BecomeDue, ClaimBegin, ClaimNothing, ClaimCommit,
       ClaimFail, XAdd, XAddRejected, PipelineLost, ExecReturn, MarkBegin, MarkCommit, MarkFail,
       Crash, vars, table

(* The attempt number of a batch row follows the row's own column, also    *)
(* while other relays claim: theirs are other rows as long as the lock is  *)
(* held, and afterwards the column only grows.                             *)
LEMMA CarriesAttemptsStep ==
  TypeOK /\ HoldsInserted /\ LocksDisjoint /\ CarriesAttempts /\ [Next]_vars => CarriesAttempts'
<1> SUFFICES ASSUME TypeOK, HoldsInserted, LocksDisjoint, CarriesAttempts, [Next]_vars,
                    NEW q \in Relays, NEW i \in DOMAIN events'[q]
             PROVE  IF pc'[q] = "claiming"
                    THEN events'[q][i].attempts = attempts'[events'[q][i].id] + 1
                    ELSE events'[q][i].attempts <= attempts'[events'[q][i].id]
  BY DEF CarriesAttempts
<1>1. CASE ClaimBegin(q)
  BY <1>1, BatchFacts DEF ClaimBegin, TypeOK, table
<1>2. CASE ClaimCommit(q) /\ events'[q] = events[q]
  <2>1. events[q][i].id \in ids(q) /\ events[q][i].id \in Rows /\ events[q][i].attempts \in Nat
    BY <1>2, EventType DEF ids
  <2>2. attempts'[events[q][i].id] = attempts[events[q][i].id] + 1
    BY <1>2, <2>1 DEF ClaimCommit, CountAttempt
  <2>3. events[q][i].attempts = attempts[events[q][i].id] + 1 /\ pc'[q] = "pushing"
    BY <1>2 DEF ClaimCommit, CarriesAttempts, TypeOK
  <2>4. QED
    BY <1>2, <2>1, <2>2, <2>3
<1>3. CASE /\ ~ ClaimCommit(q)
           /\ ~ ClaimFail(q)
           /\ events'[q] = events[q]
           /\ pc'[q] = "claiming" <=> pc[q] = "claiming"
  <2> DEFINE o == events[q][i].id
  <2>1. o \in ids(q) /\ o \in Rows /\ events[q][i].attempts \in Nat /\ attempts[o] \in Nat
    BY <1>3, EventType DEF ids, TypeOK
  <2>2. IF pc[q] = "claiming" THEN events[q][i].attempts = attempts[o] + 1
                              ELSE events[q][i].attempts <= attempts[o]
    BY <1>3 DEF CarriesAttempts
  <2>3. CASE attempts'[o] = attempts[o]
    BY <1>3, <2>2, <2>3
  <2>4. ASSUME NEW p \in Rows, Enqueue(p) PROVE attempts'[o] = attempts[o]
    BY <1>3, <2>1, <2>4 DEF Enqueue, HoldsInserted, TypeOK
  <2>5. ASSUME NEW r \in Relays, pc[r] = "claiming", CountAttempt(r),
               ClaimCommit(r) \/ ClaimFail(r)
        PROVE  attempts'[o] = attempts[o] \/ (pc[q] # "claiming" /\ attempts'[o] = attempts[o] + 1)
    <3>1. r # q
      BY <1>3, <2>5
    <3>2. pc[q] = "claiming" => o \notin ids(r)
      BY <2>1, <2>5, <3>1 DEF LocksDisjoint, InTx
    <3>3. attempts'[o] = IF o \in ids(r) THEN attempts[o] + 1 ELSE attempts[o]
      BY <2>1, <2>5 DEF CountAttempt
    <3>4. QED
      BY <3>2, <3>3
  <2>6. attempts'[o] = attempts[o] \/ (pc[q] # "claiming" /\ attempts'[o] = attempts[o] + 1)
    <3>1. CASE \E p \in Rows : Enqueue(p)
      BY <2>4, <3>1
    <3>2. CASE \E r \in Relays : /\ pc[r] = "claiming"
                                 /\ CountAttempt(r)
                                 /\ (ClaimCommit(r) \/ ClaimFail(r))
      BY <2>5, <3>2
    <3>3. QED
      BY <3>1, <3>2, AttemptsChange
  <2>7. CASE pc[q] # "claiming" /\ attempts'[o] = attempts[o] + 1
    BY <1>3, <2>1, <2>2, <2>7
  <2>8. QED
    BY <2>3, <2>6, <2>7
<1>4. QED
  BY <1>1, <1>2, <1>3, BatchChange

(* FOR UPDATE SKIP LOCKED and the wait for row locks keep the rows of two  *)
(* open transactions apart.                                                *)
LEMMA LocksDisjointStep == TypeOK /\ LocksDisjoint /\ [Next]_vars => LocksDisjoint'
<1> SUFFICES ASSUME TypeOK, LocksDisjoint, [Next]_vars,
                    NEW r \in Relays, NEW q \in Relays, r # q,
                    pc'[r] \in InTx, pc'[q] \in InTx
             PROVE  ids(r)' \cap ids(q)' = {}
  BY DEF LocksDisjoint, InTx
<1>1. ASSUME NEW p \in Relays, NEW x \in Relays, p # x, pc'[x] \in InTx,
             ClaimBegin(p) \/ MarkBegin(p)
      PROVE  ids(p)' \cap ids(x)' = {}
  <2>1. pc[x] \in InTx /\ events'[x] = events[x]
    BY <1>1, BatchFacts DEF ClaimBegin, MarkBegin, TypeOK
  <2>2. ids(x)' = ids(x) /\ ids(x) \subseteq Locked
    BY <2>1 DEF ids, Locked
  <2>3. CASE ClaimBegin(p)
    <3>1. \A i \in DOMAIN events'[p] : events'[p][i].id \notin Locked
      BY <2>3, BatchFacts
    <3>2. ids(p)' \cap Locked = {}
      BY <3>1 DEF ids
    <3>3. QED
      BY <2>2, <3>2
  <2>4. CASE MarkBegin(p)
    BY <2>2, <2>4 DEF MarkBegin, ids
  <2>5. QED
    BY <1>1, <2>3, <2>4
<1>2. ASSUME NEW p \in Relays, pc'[p] \in InTx, ~ ClaimBegin(p), ~ MarkBegin(p)
      PROVE  pc[p] \in InTx /\ ids(p)' = ids(p)
  BY <1>2, BatchChange DEF ids, InTx, ClaimCommit, TypeOK
<1>3. QED
  BY <1>1, <1>2 DEF LocksDisjoint

(* An idle relay starts its next pipeline at the first command. *)
LEMMA IdleSent ==
  ASSUME TypeOK, NEW r \in Relays, pc[r] = "idle"
  PROVE  sent[r] = 0
<1>1. events[r] = <<>> /\ sent[r] <= Len(events[r]) /\ sent[r] \in Nat
  BY DEF TypeOK
<1>2. Len(<<>>) = 0
  OBVIOUS
<1>3. QED
  BY <1>1, <1>2

LEMMA PushedSoFarStep == TypeOK /\ PushedSoFar /\ [Next]_vars => PushedSoFar'
<1> SUFFICES ASSUME TypeOK, PushedSoFar, [Next]_vars, NEW q \in Relays
             PROVE  /\ pc'[q] = "claiming" => sent'[q] = 0
                    /\ \A i \in DOMAIN events'[q] :
                         Sent(q, i)' => events'[q][i].id \in Published'
  BY DEF PushedSoFar
<1> DEFINE Goal == /\ pc'[q] = "claiming" => sent'[q] = 0
                   /\ \A i \in DOMAIN events'[q] :
                        Sent(q, i)' => events'[q][i].id \in Published'
<1>1. Published \subseteq Published'
  BY PublishedGrows
<1>2. ASSUME pc'[q] = pc[q], events'[q] = events[q], sent'[q] = sent[q], pushErr'[q] = pushErr[q]
      PROVE  Goal
  BY <1>1, <1>2 DEF PushedSoFar, Sent
<1>3. ASSUME NEW r \in Relays, Finish(r) PROVE Goal
  <2>1. CASE r = q
    BY <1>3, <2>1, FinishShape
  <2>2. CASE r # q
    BY <1>2, <1>3, <2>2, FinishShape
  <2>3. QED
    BY <2>1, <2>2
<1>4. ASSUME NEW r \in Relays, ClaimBegin(r) PROVE Goal
  <2>1. CASE r = q
    BY <1>4, <2>1, IdleSent DEF ClaimBegin, Sent, TypeOK
  <2>2. CASE r # q
    BY <1>2, <1>4, <2>2, BatchFacts DEF ClaimBegin, TypeOK
  <2>3. QED
    BY <2>1, <2>2
<1>5. ASSUME NEW r \in Relays, ClaimCommit(r) PROVE Goal
  <2>1. CASE r = q
    <3>1. pc'[q] = "pushing" /\ sent'[q] = 0 /\ events'[q] = events[q]
      BY <1>5, <2>1 DEF ClaimCommit, PushedSoFar, TypeOK
    <3>2. \A i \in DOMAIN events'[q] : i \in 1..Len(events[q])
      BY <3>1 DEF TypeOK
    <3>3. QED
      BY <3>1, <3>2 DEF Sent
  <2>2. CASE r # q
    BY <1>2, <1>5, <2>2 DEF ClaimCommit, TypeOK
  <2>3. QED
    BY <2>1, <2>2
<1>6. ASSUME NEW r \in Relays, XAdd(r) PROVE Goal
  <2>1. CASE r = q
    <3>1. /\ pc'[q] = "pushing" /\ pc[q] = "pushing" /\ events'[q] = events[q]
          /\ sent'[q] = sent[q] + 1 /\ pushErr'[q] = pushErr[q] /\ sent[q] \in Nat
      BY <1>6, <2>1 DEF XAdd, TypeOK
    <3>2. ASSUME NEW i \in DOMAIN events'[q], Sent(q, i)' PROVE events'[q][i].id \in Published'
      <4>1. CASE i = sent[q] + 1
        BY <1>6, <2>1, <3>1, <4>1, XAddPublishes
      <4>2. CASE i # sent[q] + 1
        <5>1. i \in Nat /\ i <= sent[q]
          BY <3>1, <3>2, <4>2, EventType DEF Sent
        <5>2. QED
          BY <1>1, <3>1, <3>2, <5>1 DEF Sent, PushedSoFar
      <4>3. QED
        BY <4>1, <4>2
    <3>3. QED
      BY <3>1, <3>2
  <2>2. CASE r # q
    BY <1>2, <1>6, <2>2 DEF XAdd, TypeOK
  <2>3. QED
    BY <2>1, <2>2
<1>7. ASSUME NEW r \in Relays, XAddRejected(r) PROVE Goal
  <2>1. CASE r = q
    BY <1>7, <2>1 DEF XAddRejected, Sent, TypeOK
  <2>2. CASE r # q
    BY <1>2, <1>7, <2>2 DEF XAddRejected, TypeOK
  <2>3. QED
    BY <2>1, <2>2
<1>8. ASSUME NEW r \in Relays, PipelineLost(r) PROVE Goal
  <2>1. CASE r = q
    <3>1. \A i \in DOMAIN events'[q] : i \in 1..Len(events[q])
      BY <1>8 DEF PipelineLost, TypeOK
    <3>2. pushErr'[q] \/ (pc'[q] = "pushing" /\ sent'[q] = 0)
      BY <1>8, <2>1 DEF PipelineLost, TypeOK
    <3>3. pc'[q] # "claiming"
      BY <1>8, <2>1 DEF PipelineLost, TypeOK
    <3>4. QED
      BY <3>1, <3>2, <3>3 DEF Sent
  <2>2. CASE r # q
    BY <1>2, <1>8, <2>2 DEF PipelineLost, TypeOK
  <2>3. QED
    BY <2>1, <2>2
<1>9. ASSUME NEW r \in Relays, ExecReturn(r) \/ MarkBegin(r) PROVE Goal
  <2>1. CASE r = q
    <3>1. \A i \in DOMAIN events'[q] : i \in 1..Len(events[q]) /\ events'[q] = events[q]
      BY <1>9 DEF ExecReturn, MarkBegin, TypeOK
    <3>2. \/ pc[q] = "pushing" /\ sent[q] = Len(events[q])
          \/ pc[q] = "pushed"
      BY <1>9, <2>1 DEF ExecReturn, MarkBegin
    <3>3. pc'[q] # "claiming" /\ pushErr' = pushErr
      BY <1>9, <2>1 DEF ExecReturn, MarkBegin, TypeOK
    <3>4. QED
      BY <1>1, <3>1, <3>2, <3>3 DEF Sent, PushedSoFar
  <2>2. CASE r # q
    BY <1>2, <1>9, <2>2 DEF ExecReturn, MarkBegin, TypeOK
  <2>3. QED
    BY <2>1, <2>2
<1>10. QED
  BY <1>2, <1>3, <1>4, <1>5, <1>6, <1>7, <1>8, <1>9
     DEF Next, RelayNext, RelayStep, RelayFault, Enqueue, BecomeDue, ClaimNothing, ClaimFail,
         MarkCommit, MarkFail, Crash, vars, local

(* The status column is written by Enqueue and by the commit of a mark. *)
LEMMA StatusChange ==
  ASSUME TypeOK, [Next]_vars, NEW o \in Rows, status'[o] # status[o]
  PROVE  \/ status[o] = "absent" /\ status'[o] = "pending"
         \/ \E r \in Relays : /\ MarkCommit(r)
                             /\ o \in ids(r)
                             /\ status'[o] = MarkedStatus(r, o)
<1>1. ASSUME NEW p \in Rows, Enqueue(p) PROVE status[o] = "absent" /\ status'[o] = "pending"
  BY <1>1 DEF Enqueue, TypeOK
<1>2. ASSUME NEW r \in Relays, MarkCommit(r) PROVE o \in ids(r) /\ status'[o] = MarkedStatus(r, o)
  BY <1>2 DEF MarkCommit
<1>3. QED
  BY <1>1, <1>2
     DEF Next, RelayNext, RelayStep, RelayFault, BecomeDue, ClaimBegin, ClaimNothing, ClaimCommit,
         ClaimFail, XAdd, XAddRejected, PipelineLost, ExecReturn, MarkBegin, MarkFail, Crash,
         vars, table

LEMMA DispatchedIsPublishedStep ==
  TypeOK /\ PushedSoFar /\ DispatchedIsPublished /\ [Next]_vars => DispatchedIsPublished'
<1> SUFFICES ASSUME TypeOK, PushedSoFar, DispatchedIsPublished, [Next]_vars,
                    NEW o \in Rows, status'[o] = "dispatched"
             PROVE  o \in Published'
  BY DEF DispatchedIsPublished
<1>1. CASE status[o] = "dispatched"
  BY <1>1, PublishedGrows DEF DispatchedIsPublished
<1>2. ASSUME NEW r \in Relays, MarkCommit(r), o \in ids(r), status'[o] = MarkedStatus(r, o)
      PROVE  o \in Published
  <2>1. ~ pushErr[r] /\ pc[r] = "marking"
    BY <1>2 DEF MarkedStatus, MarkCommit
  <2>2. PICK i \in DOMAIN events[r] : events[r][i].id = o
    BY <1>2 DEF ids
  <2>3. QED
    BY <2>1, <2>2 DEF PushedSoFar, Sent
<1>3. QED
  BY <1>1, <1>2, StatusChange, PublishedGrows

(* attempts only grows, except when a new row starts at 0. *)
LEMMA AttemptsGrow ==
  ASSUME TypeOK, [Next]_vars, NEW o \in Rows, status[o] # "absent"
  PROVE  attempts'[o] >= attempts[o]
<1>1. attempts[o] \in Nat
  BY DEF TypeOK
<1>2. ASSUME NEW p \in Rows, Enqueue(p) PROVE attempts'[o] = attempts[o]
  BY <1>2 DEF Enqueue, TypeOK
<1>3. ASSUME NEW r \in Relays, CountAttempt(r) PROVE attempts'[o] >= attempts[o]
  BY <1>1, <1>3 DEF CountAttempt
<1>4. QED
  BY <1>1, <1>2, <1>3, AttemptsChange

LEMMA DeadOnlyWhenExhaustedStep ==
  TypeOK /\ CarriesAttempts /\ DeadOnlyWhenExhausted /\ [Next]_vars => DeadOnlyWhenExhausted'
<1> SUFFICES ASSUME TypeOK, CarriesAttempts, DeadOnlyWhenExhausted, [Next]_vars,
                    NEW o \in Rows, status'[o] = "dead"
             PROVE  attempts'[o] >= MaxAttempts
  BY DEF DeadOnlyWhenExhausted
<1>1. attempts[o] \in Nat /\ attempts'[o] \in Nat /\ MaxAttempts \in Nat
  BY TypeOKStep, OutboxAssumption DEF TypeOK
<1>2. CASE status[o] = "dead"
  BY <1>1, <1>2, AttemptsGrow DEF DeadOnlyWhenExhausted
<1>3. ASSUME NEW r \in Relays, MarkCommit(r), o \in ids(r), status'[o] = MarkedStatus(r, o)
      PROVE  attempts'[o] >= MaxAttempts
  <2>1. Exhausted(r, o)
    BY <1>3 DEF MarkedStatus
  <2>2. PICK i \in DOMAIN events[r] : events[r][i].id = o /\ events[r][i].attempts >= MaxAttempts
    BY <2>1 DEF Exhausted
  <2>3. events[r][i].attempts <= attempts[o] /\ events[r][i].attempts \in Nat
    BY <1>3, <2>2, EventType DEF CarriesAttempts, MarkCommit
  <2>4. attempts' = attempts
    BY <1>3 DEF MarkCommit
  <2>5. QED
    BY <1>1, <2>2, <2>3, <2>4
<1>4. QED
  BY <1>2, <1>3, StatusChange

(* A new claim reads the column; whoever else holds the row has committed  *)
(* its claim, so the column is already at its number or beyond.            *)
LEMMA DistinctAttemptsStep ==
  TypeOK /\ CarriesAttempts /\ DistinctAttempts /\ [Next]_vars => DistinctAttempts'
<1> SUFFICES ASSUME TypeOK, CarriesAttempts, DistinctAttempts, [Next]_vars,
                    NEW r \in Relays, NEW q \in Relays, r # q,
                    NEW i \in DOMAIN events'[r], NEW j \in DOMAIN events'[q],
                    events'[r][i].id = events'[q][j].id
             PROVE  events'[r][i].attempts # events'[q][j].attempts
  BY DEF DistinctAttempts
<1>1. ASSUME NEW p \in Relays, NEW x \in Relays, p # x, ClaimBegin(p),
             NEW k \in DOMAIN events'[p], NEW l \in DOMAIN events'[x],
             events'[p][k].id = events'[x][l].id
      PROVE  events'[p][k].attempts # events'[x][l].attempts
  <2>1. events'[x] = events[x]
    BY <1>1, BatchFacts
  <2> DEFINE o == events[x][l].id
  <2>2. o \in Rows /\ events[x][l].attempts \in Nat /\ attempts[o] \in Nat /\ o \in ids(x)
    BY <1>1, <2>1, EventType DEF ids, TypeOK
  <2>3. o \notin Locked /\ events'[p][k].attempts = attempts[o] + 1
    BY <1>1, <2>1, BatchFacts
  <2>4. pc[x] # "claiming"
    BY <2>2, <2>3 DEF Locked, InTx
  <2>5. events[x][l].attempts <= attempts[o]
    BY <1>1, <2>1, <2>4 DEF CarriesAttempts
  <2>6. QED
    BY <2>1, <2>2, <2>3, <2>5
<1>2. CASE events'[r] = events[r] /\ events'[q] = events[q]
  BY <1>2 DEF DistinctAttempts
<1>3. QED
  BY <1>1, <1>2, BatchChange
----------------------------------------------------------------------------
LEMMA InvStep == RelayInv /\ [Next]_vars => RelayInv'
BY TypeOKStep, HoldsInsertedStep, CarriesAttemptsStep, LocksDisjointStep, PushedSoFarStep,
   DispatchedIsPublishedStep, DeadOnlyWhenExhaustedStep, DistinctAttemptsStep
   DEF RelayInv

(* The inductive invariant: the three safety properties below need the     *)
(* facts that tie a relay's private batch to the table and to the stream.  *)
THEOREM RelayInvHolds == Spec => []RelayInv
<1>1. QED
  BY InitInv, InvStep, PTL DEF Spec

(* process: a row is marked dispatched only after its XADD took effect. *)
THEOREM DispatchedIsPublishedHolds == Spec => []DispatchedIsPublished
<1>1. RelayInv => DispatchedIsPublished
  BY DEF RelayInv
<1>2. QED
  BY <1>1, RelayInvHolds, PTL

(* process, MarkDead: a row is given up only after MaxAttempts claims. *)
THEOREM DeadOnlyWhenExhaustedHolds == Spec => []DeadOnlyWhenExhausted
<1>1. RelayInv => DeadOnlyWhenExhausted
  BY DEF RelayInv
<1>2. QED
  BY <1>1, RelayInvHolds, PTL

(* ClaimBatch: no two relays hold a row under the same attempt number. *)
THEOREM DistinctAttemptsHolds == Spec => []DistinctAttempts
<1>1. RelayInv => DistinctAttempts
  BY DEF RelayInv
<1>2. QED
  BY <1>1, RelayInvHolds, PTL

----------------------------------------------------------------------------
(* With one relay nobody marks a row behind the back of the one who        *)
(* claimed it, so what it holds is still pending when it marks it.         *)
SingleRelay == \A r, q \in Relays : r = q

HeldPending ==
  \A r \in Relays : \A i \in DOMAIN events[r] : status[events[r][i].id] = "pending"

LEMMA HeldPendingStep ==
  SingleRelay /\ TypeOK /\ HeldPending /\ [Next]_vars => HeldPending'
<1> SUFFICES ASSUME SingleRelay, TypeOK, HeldPending, [Next]_vars,
                    NEW q \in Relays, NEW i \in DOMAIN events'[q]
             PROVE  status'[events'[q][i].id] = "pending"
  BY DEF HeldPending
<1>1. CASE ClaimBegin(q)
  <2>1. events'[q][i].id \in Rows /\ status[events'[q][i].id] = "pending"
    BY <1>1, BatchFacts DEF Claimable
  <2>2. QED
    BY <1>1, <2>1 DEF ClaimBegin, table
<1>2. CASE events'[q] = events[q]
  <2> DEFINE o == events[q][i].id
  <2>1. o \in Rows /\ status[o] = "pending"
    BY <1>2, EventType DEF HeldPending
  <2>2. ASSUME NEW r \in Relays, MarkCommit(r) PROVE FALSE
    BY <1>2, <2>2, FinishShape DEF MarkCommit, SingleRelay
  <2>3. status'[o] = status[o]
    BY <2>1, <2>2, StatusChange
  <2>4. QED
    BY <1>2, <2>1, <2>3
<1>3. QED
  BY <1>1, <1>2, BatchChange

(* MarkDispatchedBatch, MarkRetryBatch and MarkDead update by id only;     *)
(* with one relay that never takes a row out of a terminal status.         *)
THEOREM TerminalIsFinalHolds == ASSUME SingleRelay PROVE Spec => TerminalIsFinal
<1>1. Init => HeldPending
  BY DEF Init, HeldPending
<1>2. ASSUME TypeOK, HeldPending, [Next]_vars
      PROVE  \A o \in Rows : status[o] \in {"dispatched", "dead"} => status'[o] = status[o]
  <2> SUFFICES ASSUME NEW o \in Rows, status[o] \in {"dispatched", "dead"}, status'[o] # status[o]
               PROVE  FALSE
    OBVIOUS
  <2>1. PICK r \in Relays : o \in ids(r)
    BY <1>2, StatusChange
  <2>2. QED
    BY <1>2, <2>1 DEF ids, HeldPending
<1>3. TypeOK /\ HeldPending /\ [Next]_vars
        => [\A o \in Rows : status[o] \in {"dispatched", "dead"} => status'[o] = status[o]]_vars
  BY <1>2
<1>4. Spec => []HeldPending
  BY <1>1, HeldPendingStep, TypeCorrect, PTL DEF Spec
<1>5. QED
  BY <1>3, <1>4, TypeCorrect, PTL DEF Spec, TerminalIsFinal

----------------------------------------------------------------------------
(* Counting copies.  A claim buys 1 + RedisRetries tickets for each of its *)
(* rows; every XADD uses up one of them, a re-send gives one up, and the   *)
(* end of the pipeline returns none.                                       *)
Places(o) == {i \in DOMAIN stream : stream[i] = o}

Served(r, o) == \E i \in 1..sent[r] : events[r][i].id = o

Spent(r, o) == tries[r] + (IF Served(r, o) THEN 1 ELSE 0)

Tickets(o) ==
  {t \in Relays \X (1..(1 + RedisRetries)) :
     pc[t[1]] = "pushing" /\ o \in ids(t[1]) /\ Spent(t[1], o) < t[2]}

(* The rows of a batch are different, and a pipeline starts from nothing. *)
BatchShape ==
  \A r \in Relays :
    /\ \A i, j \in DOMAIN events[r] : events[r][i].id = events[r][j].id => i = j
    /\ pc[r] \in {"idle", "claiming"} => sent[r] = 0 /\ tries[r] = 0

AbsentUntried == \A o \in Rows : status[o] = "absent" => attempts[o] = 0

PaidFor(o) ==
  /\ IsFiniteSet(Tickets(o))
  /\ Copies(o) + Cardinality(Tickets(o)) <= attempts[o] * (1 + RedisRetries)

CopiesInv == RelayInv /\ BatchShape /\ AbsentUntried /\ \A o \in Rows : PaidFor(o)

LEMMA PlacesFinite ==
  ASSUME TypeOK, NEW o
  PROVE  IsFiniteSet(Places(o)) /\ Copies(o) = Cardinality(Places(o)) /\ Copies(o) \in Nat
<1>1. Len(stream) \in Nat /\ DOMAIN stream = 1..Len(stream)
  BY DEF TypeOK
<1>2. IsFiniteSet(1..Len(stream))
  BY <1>1, FS_Interval
<1>3. Places(o) \in SUBSET (1..Len(stream))
  BY <1>1 DEF Places
<1>4. IsFiniteSet(Places(o)) /\ Cardinality(Places(o)) \in Nat
  BY <1>2, <1>3, FS_Subset, FS_CardinalityType
<1>5. QED
  BY <1>4 DEF Copies, Places

(* An XADD adds a copy of its row and of no other. *)
LEMMA CopiesAdded ==
  ASSUME TypeOK, NEW x \in Rows, stream' = Append(stream, x), NEW o \in Rows
  PROVE  Copies(o)' = IF o = x THEN Copies(o) + 1 ELSE Copies(o)
<1> DEFINE n == Len(stream) + 1
<1>1. /\ DOMAIN stream' = DOMAIN stream \cup {n} /\ n \notin DOMAIN stream
      /\ stream'[n] = x /\ \A i \in DOMAIN stream : stream'[i] = stream[i]
  BY DEF TypeOK
<1>2. CASE o = x
  <2>1. Places(o)' = Places(o) \cup {n} /\ n \notin Places(o)
    BY <1>1, <1>2 DEF Places
  <2>2. Cardinality(Places(o)') = Cardinality(Places(o)) + 1
    BY <2>1, PlacesFinite, FS_AddElement
  <2>3. QED
    BY <1>2, <2>2, PlacesFinite DEF Copies, Places
<1>3. CASE o # x
  <2>1. Places(o)' = Places(o)
    BY <1>1, <1>3 DEF Places
  <2>2. QED
    BY <1>3, <2>1 DEF Copies, Places
<1>4. QED
  BY <1>2, <1>3

LEMMA BatchIsDistinct ==
  ASSUME TypeOK, NEW r \in Relays, ClaimBegin(r), NEW i \in DOMAIN events'[r],
         NEW j \in DOMAIN events'[r], events'[r][i].id = events'[r][j].id
  PROVE  i = j
<1>1. PICK batch \in SetToSeqs(ClaimedBatch) :
        events' = [events EXCEPT ![r] =
                     [k \in DOMAIN batch |->
                        [id |-> batch[k], attempts |-> attempts[batch[k]] + 1]]]
  BY DEF ClaimBegin
<1>2. /\ DOMAIN batch = 1..Cardinality(ClaimedBatch)
      /\ \A k, l \in 1..Cardinality(ClaimedBatch) : k # l => batch[k] # batch[l]
  BY DEF SetToSeqs
<1>3. events'[r] = [k \in DOMAIN batch |->
                      [id |-> batch[k], attempts |-> attempts[batch[k]] + 1]]
  BY <1>1 DEF TypeOK
<1>4. QED
  BY <1>2, <1>3

LEMMA BatchShapeStep == TypeOK /\ BatchShape /\ [Next]_vars => BatchShape'
<1> SUFFICES ASSUME TypeOK, BatchShape, [Next]_vars, NEW q \in Relays
             PROVE  /\ \A i, j \in DOMAIN events'[q] :
                         events'[q][i].id = events'[q][j].id => i = j
                    /\ pc'[q] \in {"idle", "claiming"} => sent'[q] = 0 /\ tries'[q] = 0
  BY DEF BatchShape
<1>1. \A i, j \in DOMAIN events'[q] : events'[q][i].id = events'[q][j].id => i = j
  <2>1. CASE events'[q] = events[q]
    BY <2>1 DEF BatchShape
  <2>2. CASE ClaimBegin(q)
    BY <2>2, BatchIsDistinct
  <2>3. QED
    BY <2>1, <2>2, BatchChange
<1>2. ASSUME pc'[q] \in {"idle", "claiming"} PROVE sent'[q] = 0 /\ tries'[q] = 0
  <2>1. ASSUME NEW r \in Relays, Finish(r) PROVE sent'[q] = 0 /\ tries'[q] = 0
    BY <1>2, <2>1 DEF Finish, BatchShape, TypeOK
  <2>2. ASSUME NEW r \in Relays, ClaimBegin(r) PROVE sent'[q] = 0 /\ tries'[q] = 0
    BY <1>2, <2>2 DEF ClaimBegin, BatchShape, TypeOK
  <2>3. ASSUME NEW r \in Relays,
               ClaimCommit(r) \/ XAdd(r) \/ XAddRejected(r) \/ PipelineLost(r) \/ ExecReturn(r)
                 \/ MarkBegin(r)
        PROVE  sent'[q] = 0 /\ tries'[q] = 0
    BY <1>2, <2>3
       DEF ClaimCommit, XAdd, XAddRejected, PipelineLost, ExecReturn, MarkBegin, BatchShape, TypeOK
  <2>4. QED
    BY <1>2, <2>1, <2>2, <2>3
       DEF Next, RelayNext, RelayStep, RelayFault, Enqueue, BecomeDue, ClaimNothing, ClaimFail,
           MarkCommit, MarkFail, Crash, vars, local, BatchShape
<1>3. QED
  BY <1>1, <1>2

(* Only rows somebody has claimed are counted, and those are inserted. *)
LEMMA AbsentUntriedStep ==
  TypeOK /\ HoldsInserted /\ AbsentUntried /\ [Next]_vars => AbsentUntried'
<1> SUFFICES ASSUME TypeOK, HoldsInserted, AbsentUntried, [Next]_vars,
                    NEW o \in Rows, status'[o] = "absent"
             PROVE  attempts'[o] = 0
  BY DEF AbsentUntried
<1>1. status[o] = "absent"
  BY StaysInserted
<1>2. ASSUME NEW r \in Relays, CountAttempt(r) PROVE attempts'[o] = attempts[o]
  <2>1. o \notin ids(r)
    BY <1>1 DEF ids, HoldsInserted
  <2>2. QED
    BY <1>2, <2>1 DEF CountAttempt
<1>3. ASSUME NEW p \in Rows, Enqueue(p) PROVE attempts'[o] = attempts[o]
  BY <1>1, <1>3 DEF Enqueue, TypeOK, AbsentUntried
<1>4. QED
  BY <1>1, <1>2, <1>3, AttemptsChange DEF AbsentUntried

(* Tickets are lost by every step but the claim's commit: a relay that is  *)
(* not pushing has none, and one that is does not get less spent.          *)
LEMMA NoNewTickets ==
  ASSUME TypeOK, NEW o \in Rows, RedisRetries \in Nat,
         \A q \in Relays : \/ pc'[q] # "pushing"
                           \/ /\ pc[q] = "pushing" /\ events'[q] = events[q]
                              /\ Spent(q, o)' >= Spent(q, o)
                              /\ Spent(q, o) \in Nat /\ Spent(q, o)' \in Nat
  PROVE  Tickets(o)' \subseteq Tickets(o)
<1> SUFFICES ASSUME NEW t \in Tickets(o)' PROVE t \in Tickets(o)
  OBVIOUS
<1>1. /\ t \in Relays \X (1..(1 + RedisRetries)) /\ t[1] \in Relays /\ t[2] \in Nat
      /\ pc'[t[1]] = "pushing" /\ o \in ids(t[1])' /\ Spent(t[1], o)' < t[2]
  BY DEF Tickets
<1>2. o \in ids(t[1])
  BY <1>1 DEF ids
<1>3. QED
  BY <1>1, <1>2 DEF Tickets

LEMMA SpentNat ==
  ASSUME TypeOK, NEW r \in Relays, NEW o
  PROVE  Spent(r, o) \in 0..(1 + RedisRetries)
<1>1. tries[r] \in 0..RedisRetries /\ RedisRetries \in Nat
  BY OutboxAssumption DEF TypeOK
<1>2. QED
  BY <1>1 DEF Spent

LEMMA SameSpent ==
  ASSUME NEW q \in Relays, NEW o,
         events'[q] = events[q], sent'[q] = sent[q], tries'[q] = tries[q]
  PROVE  Spent(q, o)' = Spent(q, o)
BY DEF Spent, Served

(* The balance of a row survives a step that adds no copy and no ticket.   *)
LEMMA PaidForKept ==
  ASSUME TypeOK, NEW o \in Rows, PaidFor(o), stream' = stream,
         Tickets(o)' \subseteq Tickets(o), attempts[o] \in Nat, attempts'[o] \in Nat,
         attempts'[o] >= attempts[o]
  PROVE  PaidFor(o)'
<1> DEFINE k == 1 + RedisRetries
<1>1. IsFiniteSet(Tickets(o)') /\ Cardinality(Tickets(o)') <= Cardinality(Tickets(o))
  BY FS_Subset DEF PaidFor
<1>2. /\ Cardinality(Tickets(o)') \in Nat /\ Cardinality(Tickets(o)) \in Nat
      /\ Copies(o) \in Nat /\ Copies(o)' = Copies(o)
  BY <1>1, PlacesFinite, FS_CardinalityType DEF PaidFor, Copies
<1>3. k \in Nat
  BY OutboxAssumption
<1>4. \A a, b, c \in Nat : b >= a => b * c >= a * c
  BY SMT
<1>5. attempts'[o] * k >= attempts[o] * k /\ attempts'[o] * k \in Nat /\ attempts[o] * k \in Nat
  BY <1>3, <1>4
<1>6. Copies(o) + Cardinality(Tickets(o)) <= attempts[o] * k
  BY DEF PaidFor
<1>7. Copies(o)' + Cardinality(Tickets(o)') <= attempts'[o] * k
  BY <1>1, <1>2, <1>5, <1>6
<1>8. QED
  BY <1>1, <1>7 DEF PaidFor

(* Every step but the claim's commit and an XADD is such a step.           *)
LEMMA QuietStep ==
  ASSUME TypeOK, BatchShape, [Next]_vars, NEW o \in Rows,
         \A r \in Relays : ~ ClaimCommit(r) /\ ~ XAdd(r)
  PROVE  stream' = stream /\ Tickets(o)' \subseteq Tickets(o)
<1>1. RedisRetries \in Nat
  BY OutboxAssumption
<1> DEFINE Kept(q) == \/ pc'[q] # "pushing"
                      \/ /\ pc[q] = "pushing" /\ events'[q] = events[q]
                         /\ Spent(q, o)' >= Spent(q, o)
                         /\ Spent(q, o) \in Nat /\ Spent(q, o)' \in Nat
<1>2. ASSUME NEW q \in Relays, pc'[q] = pc[q], events'[q] = events[q], sent'[q] = sent[q],
             tries'[q] = tries[q]
      PROVE  Kept(q)
  <2>1. Spent(q, o)' = Spent(q, o) /\ Spent(q, o) \in 0..(1 + RedisRetries)
    BY <1>2, SameSpent, SpentNat
  <2>2. QED
    BY <1>1, <1>2, <2>1
<1>3. ASSUME NEW r \in Relays, Finish(r), NEW q \in Relays PROVE Kept(q)
  <2>1. CASE q = r
    BY <1>3, <2>1 DEF Finish, TypeOK
  <2>2. CASE q # r
    BY <1>2, <1>3, <2>2 DEF Finish, TypeOK
  <2>3. QED
    BY <2>1, <2>2
<1>4. ASSUME NEW r \in Relays, ClaimBegin(r) \/ ExecReturn(r) \/ MarkBegin(r), NEW q \in Relays
      PROVE  Kept(q)
  <2>1. CASE q = r
    BY <1>4, <2>1 DEF ClaimBegin, ExecReturn, MarkBegin, TypeOK
  <2>2. CASE q # r
    BY <1>2, <1>4, <2>2 DEF ClaimBegin, ExecReturn, MarkBegin, TypeOK
  <2>3. QED
    BY <2>1, <2>2
<1>5. ASSUME NEW r \in Relays, XAddRejected(r), NEW q \in Relays PROVE Kept(q)
  <2>1. CASE q = r
    <3>1. /\ pc[q] = "pushing" /\ events'[q] = events[q] /\ tries'[q] = tries[q]
          /\ sent'[q] = sent[q] + 1 /\ sent[q] \in Nat /\ tries[q] \in Nat
      BY <1>1, <1>5, <2>1 DEF XAddRejected, TypeOK
    <3>2. Served(q, o) => Served(q, o)'
      BY <3>1 DEF Served
    <3>3. QED
      BY <3>1, <3>2 DEF Spent
  <2>2. CASE q # r
    BY <1>2, <1>5, <2>2 DEF XAddRejected, TypeOK
  <2>3. QED
    BY <2>1, <2>2
<1>6. ASSUME NEW r \in Relays, PipelineLost(r), NEW q \in Relays PROVE Kept(q)
  <2>1. CASE q = r
    <3>1. CASE pc'[q] = "pushing"
      <4>1. /\ pc[q] = "pushing" /\ events'[q] = events[q] /\ tries'[q] = tries[q] + 1
            /\ sent'[q] = 0 /\ tries[q] \in Nat
        BY <1>1, <1>6, <2>1, <3>1 DEF PipelineLost, TypeOK
      <4>2. ~ Served(q, o)'
        BY <4>1 DEF Served
      <4>3. QED
        BY <4>1, <4>2 DEF Spent
    <3>2. QED
      BY <3>1
  <2>2. CASE q # r
    BY <1>2, <1>6, <2>2 DEF PipelineLost, TypeOK
  <2>3. QED
    BY <2>1, <2>2
<1>7. \A q \in Relays : Kept(q)
  BY <1>2, <1>3, <1>4, <1>5, <1>6
     DEF Next, RelayNext, RelayStep, RelayFault, Enqueue, BecomeDue, ClaimNothing, ClaimFail,
         MarkCommit, MarkFail, Crash, vars, local
<1>8. Tickets(o)' \subseteq Tickets(o)
  BY <1>1, <1>7, NoNewTickets
<1>9. stream' = stream
  BY DEF Next, RelayNext, RelayStep, RelayFault, Enqueue, BecomeDue, ClaimBegin, ClaimNothing,
         ClaimFail, XAddRejected, PipelineLost, ExecReturn, MarkBegin, MarkCommit, MarkFail,
         Crash, vars
<1>10. QED
  BY <1>8, <1>9

(* An XADD of a row uses up the ticket that pays for the copy. *)
LEMMA XAddPays ==
  ASSUME TypeOK, BatchShape, NEW o \in Rows, PaidFor(o), NEW r \in Relays, XAdd(r)
  PROVE  PaidFor(o)'
<1> DEFINE x == events[r][sent[r] + 1].id
           ticket == <<r, Spent(r, o) + 1>>
<1>1. RedisRetries \in Nat /\ x \in Rows /\ sent[r] + 1 \in DOMAIN events[r]
  BY OutboxAssumption, NextEvent DEF XAdd
<1>2. /\ pc[r] = "pushing" /\ pc' = pc /\ events' = events /\ tries' = tries
      /\ sent'[r] = sent[r] + 1 /\ \A q \in Relays \ {r} : sent'[q] = sent[q]
      /\ sent[r] \in Nat /\ tries[r] \in 0..RedisRetries /\ attempts' = attempts
      /\ sent[r] < Len(events[r]) /\ DOMAIN events[r] = 1..Len(events[r])
  BY DEF XAdd, TypeOK, table
<1>3. \A q \in Relays \ {r} : Spent(q, o)' = Spent(q, o)
  BY <1>2, SameSpent
<1>4. Copies(o)' = (IF o = x THEN Copies(o) + 1 ELSE Copies(o)) /\ Copies(o) \in Nat
  BY <1>1, CopiesAdded, PlacesFinite DEF XAdd
<1>5. Served(r, o)' <=> (Served(r, o) \/ o = x)
  <2>1. 1..sent'[r] = 1..sent[r] \cup {sent[r] + 1}
    BY <1>2
  <2>2. QED
    BY <1>2, <2>1 DEF Served
<1>6. CASE o = x
  <2>1. ~ Served(r, o)
    BY <1>1, <1>2, <1>6 DEF Served, BatchShape
  <2>2. Spent(r, o) = tries[r] /\ Spent(r, o)' = tries[r] + 1
    BY <1>1, <1>2, <1>5, <1>6, <2>1 DEF Spent
  <2>3. ticket \in Tickets(o)
    BY <1>1, <1>2, <1>6, <2>2 DEF Tickets, ids
  <2>4. Tickets(o)' \subseteq Tickets(o) \ {ticket}
    <3>1. SUFFICES ASSUME NEW t \in Tickets(o)' PROVE t \in Tickets(o) /\ t # ticket
      OBVIOUS
    <3>2. /\ t \in Relays \X (1..(1 + RedisRetries)) /\ t[1] \in Relays /\ t[2] \in Nat
          /\ pc[t[1]] = "pushing" /\ o \in ids(t[1]) /\ Spent(t[1], o)' < t[2]
      BY <1>1, <1>2 DEF Tickets, ids
    <3>3. CASE t[1] = r
      BY <1>1, <1>2, <2>2, <3>2, <3>3 DEF Tickets
    <3>4. CASE t[1] # r
      BY <1>3, <3>2, <3>4 DEF Tickets
    <3>5. QED
      BY <3>3, <3>4
  <2>5. /\ IsFiniteSet(Tickets(o) \ {ticket})
        /\ Cardinality(Tickets(o) \ {ticket}) = Cardinality(Tickets(o)) - 1
        /\ Cardinality(Tickets(o)) \in Nat
    BY <2>3, FS_RemoveElement, FS_CardinalityType DEF PaidFor
  <2>6. /\ IsFiniteSet(Tickets(o)') /\ Cardinality(Tickets(o)') \in Nat
        /\ Cardinality(Tickets(o)') <= Cardinality(Tickets(o)) - 1
    BY <2>4, <2>5, FS_Subset, FS_CardinalityType
  <2>7. attempts[o] * (1 + RedisRetries) \in Nat
    BY <1>1 DEF TypeOK
  <2>8. Copies(o)' + Cardinality(Tickets(o)') <= attempts[o] * (1 + RedisRetries)
    BY <1>4, <1>6, <2>5, <2>6, <2>7 DEF PaidFor
  <2>9. QED
    BY <1>2, <2>6, <2>8 DEF PaidFor
<1>7. CASE o # x
  <2>1. Tickets(o)' = Tickets(o)
    <3>1. Spent(r, o)' = Spent(r, o)
      BY <1>2, <1>5, <1>7 DEF Spent
    <3>2. QED
      BY <1>2, <1>3, <3>1 DEF Tickets, ids
  <2>2. QED
    BY <1>2, <1>4, <1>7, <2>1 DEF PaidFor
<1>8. QED
  BY <1>6, <1>7

(* One relay holds as many tickets for a row as a claim buys. *)
LEMMA TicketsBought ==
  ASSUME NEW r, NEW k \in Nat
  PROVE  IsFiniteSet({r} \X (1..k)) /\ Cardinality({r} \X (1..k)) = k
<1>1. IsFiniteSet({r}) /\ Cardinality({r}) = 1
  BY FS_Singleton
<1>2. IsFiniteSet(1..k) /\ Cardinality(1..k) = k
  BY FS_Interval
<1> DEFINE S == {r}  U == 1..k
<1> HIDE DEF S, U
<1>3. IsFiniteSet(S \X U) /\ Cardinality(S \X U) = Cardinality(S) * Cardinality(U)
  BY <1>1, <1>2, FS_Product DEF S, U
<1>4. Cardinality(S) * Cardinality(U) = k
  BY <1>1, <1>2 DEF S, U
<1>5. QED
  BY <1>3, <1>4 DEF S, U

(* The commit of a claim counts one attempt and buys its tickets. *)
LEMMA ClaimBuys ==
  ASSUME TypeOK, BatchShape, NEW o \in Rows, PaidFor(o), NEW r \in Relays, ClaimCommit(r)
  PROVE  PaidFor(o)'
<1> DEFINE k == 1 + RedisRetries
           new == {r} \X (1..k)
<1>1. k \in Nat /\ RedisRetries \in Nat /\ attempts[o] \in Nat
  BY OutboxAssumption DEF TypeOK
<1>2. /\ events' = events /\ sent' = sent /\ tries' = tries /\ stream' = stream
      /\ pc[r] = "claiming" /\ \A q \in Relays \ {r} : pc'[q] = pc[q]
      /\ sent[r] = 0 /\ tries[r] = 0
      /\ attempts'[o] = IF o \in ids(r) THEN attempts[o] + 1 ELSE attempts[o]
  BY DEF ClaimCommit, CountAttempt, BatchShape, TypeOK
<1>3. \A q \in Relays : Spent(q, o)' = Spent(q, o)
  BY <1>2, SameSpent
<1>4. /\ Cardinality(Tickets(o)) \in Nat /\ Copies(o)' = Copies(o) /\ Copies(o) \in Nat
      /\ Copies(o) + Cardinality(Tickets(o)) <= attempts[o] * k
  BY <1>2, FS_CardinalityType, PlacesFinite DEF PaidFor, Copies
<1>5. Tickets(o)' \subseteq Tickets(o) \cup (IF o \in ids(r) THEN new ELSE {})
  <2> SUFFICES ASSUME NEW t \in Tickets(o)'
               PROVE  t \in Tickets(o) \cup (IF o \in ids(r) THEN new ELSE {})
    OBVIOUS
  <2>1. /\ t \in Relays \X (1..k) /\ t[1] \in Relays /\ t[2] \in 1..k /\ t = <<t[1], t[2]>>
        /\ pc'[t[1]] = "pushing" /\ o \in ids(t[1]) /\ Spent(t[1], o) < t[2]
    BY <1>2, <1>3 DEF Tickets, ids
  <2>2. CASE t[1] = r
    BY <2>1, <2>2
  <2>3. CASE t[1] # r
    BY <1>2, <2>1, <2>3 DEF Tickets
  <2>4. QED
    BY <2>2, <2>3
<1>6. CASE o \in ids(r)
  <2>1. IsFiniteSet(new) /\ Cardinality(new) = k
    BY <1>1, TicketsBought
  <2> HIDE DEF new
  <2>2. IsFiniteSet(Tickets(o))
    BY DEF PaidFor
  <2>3. /\ IsFiniteSet(Tickets(o) \cup new)
        /\ Cardinality(Tickets(o) \cup new)
             = Cardinality(Tickets(o)) + k - Cardinality(Tickets(o) \cap new)
        /\ Cardinality(Tickets(o) \cap new) \in Nat
    BY <2>1, <2>2, FS_Union, FS_Intersection, FS_CardinalityType
  <2>4. /\ IsFiniteSet(Tickets(o)') /\ Cardinality(Tickets(o)') \in Nat
        /\ Cardinality(Tickets(o)') <= Cardinality(Tickets(o) \cup new)
    BY <1>5, <1>6, <2>3, FS_Subset, FS_CardinalityType
  <2>5. Cardinality(Tickets(o)') <= Cardinality(Tickets(o)) + k
    BY <1>1, <1>4, <2>3, <2>4
  <2>6. (attempts[o] + 1) * k = attempts[o] * k + k /\ attempts[o] * k \in Nat
    BY <1>1
  <2>7. Copies(o)' + Cardinality(Tickets(o)') <= attempts'[o] * k
    BY <1>1, <1>2, <1>4, <1>6, <2>4, <2>5, <2>6
  <2>8. QED
    BY <2>4, <2>7 DEF PaidFor
<1>7. CASE o \notin ids(r)
  <2>1. Tickets(o)' \subseteq Tickets(o) /\ attempts'[o] = attempts[o]
    BY <1>2, <1>5, <1>7
  <2>2. QED
    BY <1>1, <1>2, <2>1, PaidForKept
<1>8. QED
  BY <1>6, <1>7

LEMMA CopiesInvStep == CopiesInv /\ [Next]_vars => CopiesInv'
<1> SUFFICES ASSUME CopiesInv, [Next]_vars PROVE CopiesInv'
  OBVIOUS
<1>1. TypeOK /\ TypeOK' /\ RelayInv' /\ HoldsInserted /\ BatchShape /\ AbsentUntried
  BY InvStep DEF CopiesInv, RelayInv
<1>2. BatchShape' /\ AbsentUntried'
  BY <1>1, BatchShapeStep, AbsentUntriedStep
<1>3. ASSUME NEW o \in Rows PROVE PaidFor(o)'
  <2>1. PaidFor(o) /\ attempts[o] \in Nat /\ attempts'[o] \in Nat
    BY <1>1 DEF CopiesInv, TypeOK
  <2>2. attempts'[o] >= attempts[o]
    BY <1>1, <2>1, AttemptsGrow DEF AbsentUntried
  <2>3. CASE \E r \in Relays : ClaimCommit(r)
    BY <1>1, <2>1, <2>3, ClaimBuys
  <2>4. CASE \E r \in Relays : XAdd(r)
    BY <1>1, <2>1, <2>4, XAddPays
  <2>5. CASE \A r \in Relays : ~ ClaimCommit(r) /\ ~ XAdd(r)
    BY <1>1, <2>1, <2>2, <2>5, QuietStep, PaidForKept
  <2>6. QED
    BY <2>3, <2>4, <2>5
<1>4. QED
  BY <1>1, <1>2, <1>3 DEF CopiesInv

(* ClaimBatch counts the attempt before the push: however often a process  *)
(* dies or a mark fails, the stream has no more copies of a row than its   *)
(* attempts times the sends of one pipeline.                               *)
THEOREM CopiesBoundedHolds == Spec => []CopiesBounded
<1>1. Init => CopiesInv
  <2> SUFFICES ASSUME Init PROVE CopiesInv
    OBVIOUS
  <2>1. RelayInv /\ TypeOK
    BY InitInv DEF RelayInv
  <2>2. BatchShape /\ AbsentUntried
    BY DEF Init, BatchShape, AbsentUntried
  <2>3. ASSUME NEW o \in Rows PROVE PaidFor(o)
    <3>1. Tickets(o) = {} /\ Places(o) = {}
      BY DEF Init, Tickets, Places
    <3>2. IsFiniteSet(Tickets(o)) /\ Cardinality(Tickets(o)) = 0 /\ Copies(o) = 0
      BY <2>1, <3>1, FS_EmptySet, PlacesFinite
    <3>3. attempts[o] * (1 + RedisRetries) = 0
      BY OutboxAssumption DEF Init
    <3>4. QED
      BY <3>2, <3>3 DEF PaidFor
  <2>4. QED
    BY <2>1, <2>2, <2>3 DEF CopiesInv
<1>2. CopiesInv => CopiesBounded
  <2> SUFFICES ASSUME CopiesInv, NEW o \in Rows
               PROVE  Copies(o) <= attempts[o] * (1 + RedisRetries)
    BY DEF CopiesBounded
  <2>1. /\ TypeOK /\ Cardinality(Tickets(o)) \in Nat /\ RedisRetries \in Nat
        /\ Copies(o) + Cardinality(Tickets(o)) <= attempts[o] * (1 + RedisRetries)
    BY OutboxAssumption, FS_CardinalityType DEF CopiesInv, RelayInv, PaidFor
  <2>2. Copies(o) \in Nat /\ attempts[o] * (1 + RedisRetries) \in Nat
    BY <2>1, PlacesFinite DEF TypeOK
  <2>3. QED
    BY <2>1, <2>2
<1>3. QED
  BY <1>1, <1>2, CopiesInvStep, PTL DEF Spec

----------------------------------------------------------------------------
(* A relay whose pipeline has no error has published its whole batch when  *)
(* it marks it dispatched, and then nobody claims it again.  What a relay  *)
(* may still publish of a row is what it holds unsent, or can claim since  *)
(* the row is open; what it may still claim is what it is claiming, or can.*)
Open(o) == status[o] \in {"absent", "pending"}

MayPublish(o) == {r \in Relays : IF o \in ids(r) THEN ~ Served(r, o) ELSE Open(o)}

MayClaim(o) == {r \in Relays : IF o \in ids(r) THEN pc[r] = "claiming" ELSE Open(o)}

(* The mark of a failed push reopens the row to everybody. *)
Owing(o) == {r \in Relays : pushErr[r] /\ o \in ids(r)}

AllSent ==
  \A r \in Relays :
    /\ pc[r] \in {"idle", "claiming"} => ~ pushErr[r]
    /\ pc[r] \in {"pushed", "marking"} /\ ~ pushErr[r] => sent[r] = Len(events[r])

(* What was done to a row, what may be done, and what an open row would    *)
(* add, is covered by one go of every relay, and one more for each fault.  *)
Covered(done, may, o) ==
  done + Cardinality(may) + Cardinality(Relays) * Cardinality(Owing(o))
    <= Cardinality(Relays) * (1 + faults)

RaceInv ==
  /\ AllSent
  /\ \A o \in Rows : /\ Covered(Copies(o), MayPublish(o), o)
                     /\ Covered(attempts[o], MayClaim(o), o)

(* The ways in which a step may change the two sides. *)
Quiet(o, done, then, may, left) ==
  then = done /\ left \subseteq may /\ Owing(o)' \subseteq Owing(o) /\ faults' = faults

Uses(o, done, then, may, left) ==
  /\ \E r \in may : then = done + 1 /\ left \subseteq may \ {r}
  /\ Owing(o)' \subseteq Owing(o) /\ faults' = faults

Breaks(o, done, then, may, left) ==
  /\ then = done \/ (then = done + 1 /\ may # {})
  /\ Owing(o)' \subseteq Owing(o) /\ faults' = faults + 1

Errs(o, done, then, may, left) ==
  /\ then = done /\ left \subseteq may
  /\ \E r \in Relays : Owing(o)' \subseteq Owing(o) \cup {r}
  /\ faults' = faults + 1

Reopens(o, done, then, may, left) ==
  then = done /\ faults' = faults /\ \E r \in Owing(o) : Owing(o)' \subseteq Owing(o) \ {r}

Accounted(o, done, then, may, left) ==
  \/ Quiet(o, done, then, may, left)
  \/ Uses(o, done, then, may, left)
  \/ Breaks(o, done, then, may, left)
  \/ Errs(o, done, then, may, left)
  \/ Reopens(o, done, then, may, left)

LEMMA SmallerSet ==
  ASSUME NEW S, IsFiniteSet(S), NEW U, U \subseteq S
  PROVE  IsFiniteSet(U) /\ Cardinality(U) \in Nat /\ Cardinality(S) \in Nat
         /\ Cardinality(U) <= Cardinality(S)
BY FS_Subset, FS_CardinalityType

LEMMA OneLess ==
  ASSUME NEW S, IsFiniteSet(S), NEW r \in S, NEW U, U \subseteq S \ {r}
  PROVE  Cardinality(U) + 1 <= Cardinality(S)
<1>1. IsFiniteSet(S \ {r}) /\ Cardinality(S \ {r}) = Cardinality(S) - 1
  BY FS_RemoveElement
<1>2. Cardinality(U) <= Cardinality(S \ {r}) /\ Cardinality(U) \in Nat /\ Cardinality(S) \in Nat
  BY <1>1, SmallerSet, FS_CardinalityType
<1>3. QED
  BY <1>1, <1>2

LEMMA OneMore ==
  ASSUME NEW S, IsFiniteSet(S), NEW r, NEW U, U \subseteq S \cup {r}
  PROVE  Cardinality(U) <= Cardinality(S) + 1
<1>1. IsFiniteSet(S \cup {r}) /\ Cardinality(S \cup {r}) <= Cardinality(S) + 1
  <2>1. Cardinality(S) \in Nat
    BY FS_CardinalityType
  <2>2. IsFiniteSet(S \cup {r})
        /\ Cardinality(S \cup {r}) = IF r \in S THEN Cardinality(S) ELSE Cardinality(S) + 1
    BY FS_AddElement
  <2>3. QED
    BY <2>1, <2>2
<1>2. Cardinality(U) <= Cardinality(S \cup {r}) /\ Cardinality(U) \in Nat
      /\ Cardinality(S \cup {r}) \in Nat /\ Cardinality(S) \in Nat
  BY <1>1, SmallerSet, FS_CardinalityType
<1>3. QED
  BY <1>1, <1>2

(* Whichever way it is, the two sides stay in balance. *)
LEMMA StaysCovered ==
  ASSUME IsFiniteSet(Relays), TypeOK, TypeOK', NEW o, NEW done \in Nat, NEW then \in Nat,
         NEW may \in SUBSET Relays, NEW left \in SUBSET Relays,
         Covered(done, may, o), Accounted(o, done, then, may, left)
  PROVE  then + Cardinality(left) + Cardinality(Relays) * Cardinality(Owing(o)')
           <= Cardinality(Relays) * (1 + faults')
<1> DEFINE R == Cardinality(Relays)
           m == Cardinality(may)
           l == Cardinality(left)
           w == Cardinality(Owing(o))
           v == Cardinality(Owing(o)')
<1>1. Owing(o) \in SUBSET Relays /\ Owing(o)' \in SUBSET Relays
  BY DEF Owing
<1>2. /\ R \in Nat /\ m \in Nat /\ l \in Nat /\ w \in Nat /\ v \in Nat
      /\ m <= R /\ l <= R /\ IsFiniteSet(may) /\ IsFiniteSet(Owing(o))
  BY <1>1, SmallerSet
<1>3. faults \in Nat /\ faults' \in Nat
  BY OutboxAssumption DEF TypeOK
<1>4. done + m + R * w <= R * (1 + faults)
  BY DEF Covered
<1>5. Owing(o)' \subseteq Owing(o) => v <= w
  BY <1>2, SmallerSet
<1>6. left \subseteq may => l <= m
  BY <1>2, SmallerSet
<1>7. /\ R * w \in Nat /\ R * v \in Nat /\ R * (1 + faults) \in Nat
      /\ R * (1 + (faults + 1)) = R * (1 + faults) + R
      /\ R * (w + 1) = R * w + R
  BY <1>2, <1>3
<1>8. \A a, b \in Nat : a <= b => R * a <= R * b
  BY <1>2
<1>9. CASE Quiet(o, done, then, may, left)
  <2>1. then = done /\ l <= m /\ v <= w /\ faults' = faults
    BY <1>5, <1>6, <1>9 DEF Quiet
  <2>2. R * v <= R * w
    BY <1>2, <1>8, <2>1
  <2> HIDE DEF R, m, l, w, v
  <2>3. then + l + R * v <= R * (1 + faults)
    BY <1>2, <1>4, <1>7, <2>1, <2>2
  <2>4. QED
    BY <2>1, <2>3 DEF R, l, v
<1>10. CASE Uses(o, done, then, may, left)
  <2>1. PICK r \in may : then = done + 1 /\ left \subseteq may \ {r}
    BY <1>10 DEF Uses
  <2>2. l + 1 <= m
    BY <1>2, <2>1, OneLess
  <2>3. v <= w /\ faults' = faults
    BY <1>5, <1>10 DEF Uses
  <2>4. R * v <= R * w
    BY <1>2, <1>8, <2>3
  <2> HIDE DEF R, m, l, w, v
  <2>5. then + l + R * v <= R * (1 + faults)
    BY <1>2, <1>4, <1>7, <2>1, <2>2, <2>4
  <2>6. QED
    BY <2>3, <2>5 DEF R, l, v
<1>11. CASE Breaks(o, done, then, may, left)
  <2>1. may # {} => 1 <= m
    <3>1. ASSUME NEW r \in may PROVE 1 <= m
      BY <1>2, OneLess, FS_EmptySet
    <3>2. QED
      BY <3>1
  <2>2. then <= done + m /\ v <= w /\ faults' = faults + 1
    BY <1>2, <1>5, <1>11, <2>1 DEF Breaks
  <2>3. R * v <= R * w
    BY <1>2, <1>8, <2>2
  <2> HIDE DEF R, m, l, w, v
  <2>4. then + l + R * v <= R * (1 + faults) + R
    BY <1>2, <1>4, <1>7, <2>2, <2>3
  <2>5. QED
    BY <1>7, <2>2, <2>4 DEF R, l, v
<1>12. CASE Errs(o, done, then, may, left)
  <2>1. PICK r \in Relays : Owing(o)' \subseteq Owing(o) \cup {r}
    BY <1>12 DEF Errs
  <2>2. v <= w + 1
    BY <1>2, <2>1, OneMore
  <2>3. then = done /\ l <= m /\ faults' = faults + 1
    BY <1>6, <1>12 DEF Errs
  <2>4. R * v <= R * w + R
    BY <1>2, <1>7, <1>8, <2>2
  <2> HIDE DEF R, m, l, w, v
  <2>5. then + l + R * v <= R * (1 + faults) + R
    BY <1>2, <1>4, <1>7, <2>3, <2>4
  <2>6. QED
    BY <1>7, <2>3, <2>5 DEF R, l, v
<1>13. CASE Reopens(o, done, then, may, left)
  <2>1. PICK r \in Owing(o) : Owing(o)' \subseteq Owing(o) \ {r}
    BY <1>13 DEF Reopens
  <2>2. v + 1 <= w /\ then = done /\ faults' = faults
    BY <1>2, <1>13, <2>1, OneLess DEF Reopens
  <2>3. R * v + R <= R * w
    <3>1. R * (v + 1) <= R * w /\ R * (v + 1) = R * v + R
      BY <1>2, <1>8, <2>2
    <3>2. QED
      BY <3>1
  <2> HIDE DEF R, m, l, w, v
  <2>4. then + l + R * v <= R * (1 + faults)
    BY <1>2, <1>4, <1>7, <2>2, <2>3
  <2>5. QED
    BY <2>2, <2>4 DEF R, l, v
<1>14. QED
  BY <1>9, <1>10, <1>11, <1>12, <1>13 DEF Accounted

(* A relay's step touches nobody else's variables. *)
LEMMA OthersSame ==
  ASSUME TypeOK, NEW r \in Relays, RelayStep(r) \/ RelayFault(r), NEW q \in Relays \ {r}
  PROVE  /\ pc'[q] = pc[q] /\ events'[q] = events[q]
         /\ sent'[q] = sent[q] /\ pushErr'[q] = pushErr[q]
<1>1. CASE ClaimBegin(r)
  BY <1>1, BatchFacts DEF ClaimBegin, TypeOK
<1>2. CASE Finish(r)
  BY <1>2, FinishShape
<1>3. QED
  BY <1>1, <1>2
     DEF RelayStep, RelayFault, ClaimNothing, ClaimCommit, ClaimFail, XAdd, XAddRejected,
         PipelineLost, ExecReturn, MarkBegin, MarkCommit, MarkFail, Crash, vars, local, TypeOK

LEMMA AllSentStep == TypeOK /\ AllSent /\ [Next]_vars => AllSent'
<1> SUFFICES ASSUME TypeOK, AllSent, [Next]_vars, NEW q \in Relays
             PROVE  /\ pc'[q] \in {"idle", "claiming"} => ~ pushErr'[q]
                    /\ pc'[q] \in {"pushed", "marking"} /\ ~ pushErr'[q]
                         => sent'[q] = Len(events'[q])
  BY DEF AllSent
<1> DEFINE Goal == /\ pc'[q] \in {"idle", "claiming"} => ~ pushErr'[q]
                   /\ pc'[q] \in {"pushed", "marking"} /\ ~ pushErr'[q]
                        => sent'[q] = Len(events'[q])
<1>1. ASSUME pc'[q] = pc[q], events'[q] = events[q], sent'[q] = sent[q], pushErr'[q] = pushErr[q]
      PROVE  Goal
  BY <1>1 DEF AllSent
<1>2. CASE Finish(q)
  BY <1>2 DEF Finish, TypeOK
<1>3. CASE ClaimBegin(q) \/ ClaimCommit(q) \/ XAdd(q) \/ XAddRejected(q) \/ ExecReturn(q)
           \/ MarkBegin(q) \/ PipelineLost(q)
  BY <1>3 DEF ClaimBegin, ClaimCommit, XAdd, XAddRejected, ExecReturn, MarkBegin, PipelineLost,
              AllSent, TypeOK
<1>4. CASE ClaimNothing(q)
  BY <1>1, <1>4 DEF ClaimNothing, vars, local
<1>5. CASE RelayStep(q) \/ RelayFault(q)
  BY <1>2, <1>3, <1>4, <1>5
     DEF RelayStep, RelayFault, ClaimFail, MarkCommit, MarkFail, Crash
<1>6. ASSUME NEW r \in Relays, r # q, RelayStep(r) \/ RelayFault(r) PROVE Goal
  BY <1>1, <1>6, OthersSame
<1>7. CASE UNCHANGED local
  BY <1>1, <1>7 DEF local
<1>8. QED
  BY <1>5, <1>6, <1>7 DEF Next, RelayNext, Enqueue, BecomeDue, vars

(* Who has no step gains nothing, unless the row is opened.                *)
LEMMA NoStepNoGain ==
  ASSUME NEW o, NEW q \in Relays, pc'[q] = pc[q], events'[q] = events[q], sent'[q] = sent[q],
         pushErr'[q] = pushErr[q]
  PROVE  /\ q \in Owing(o)' => q \in Owing(o)
         /\ (Open(o)' => Open(o)) /\ q \in MayPublish(o)' => q \in MayPublish(o)
         /\ (Open(o)' => Open(o)) /\ q \in MayClaim(o)' => q \in MayClaim(o)
BY DEF Owing, MayPublish, MayClaim, ids, Served

(* So only the relay that moves has to be looked at. *)
LEMMA MoverDecides ==
  ASSUME TypeOK, NEW o, NEW r \in Relays, RelayStep(r) \/ RelayFault(r)
  PROVE  /\ Owing(o)' \subseteq Owing(o) \cup {r}
         /\ (r \in Owing(o)' => r \in Owing(o)) => Owing(o)' \subseteq Owing(o)
         /\ r \notin Owing(o)' => Owing(o)' \subseteq Owing(o) \ {r}
         /\ (Open(o)' => Open(o)) =>
              /\ (r \in MayPublish(o)' => r \in MayPublish(o)) => MayPublish(o)' \subseteq MayPublish(o)
              /\ r \notin MayPublish(o)' => MayPublish(o)' \subseteq MayPublish(o) \ {r}
              /\ (r \in MayClaim(o)' => r \in MayClaim(o)) => MayClaim(o)' \subseteq MayClaim(o)
              /\ r \notin MayClaim(o)' => MayClaim(o)' \subseteq MayClaim(o) \ {r}
<1>1. \A q \in Relays \ {r} :
        /\ q \in Owing(o)' => q \in Owing(o)
        /\ (Open(o)' => Open(o)) /\ q \in MayPublish(o)' => q \in MayPublish(o)
        /\ (Open(o)' => Open(o)) /\ q \in MayClaim(o)' => q \in MayClaim(o)
  BY OthersSame, NoStepNoGain
<1>2. /\ Owing(o)' \subseteq Relays /\ MayPublish(o)' \subseteq Relays /\ MayClaim(o)' \subseteq Relays
  BY DEF Owing, MayPublish, MayClaim
<1>3. QED
  BY <1>1, <1>2

BothAccounted(o) ==
  /\ Accounted(o, Copies(o), Copies(o)', MayPublish(o), MayPublish(o)')
  /\ Accounted(o, attempts[o], attempts'[o], MayClaim(o), MayClaim(o)')

(* A claim takes a row that is open, and only counts it at the commit.     *)
LEMMA ClaimAccounted ==
  ASSUME TypeOK, BatchShape, AllSent, NEW o \in Rows, NEW r \in Relays,
         ClaimBegin(r) \/ ClaimCommit(r)
  PROVE  BothAccounted(o)
<1>1. Copies(o)' = Copies(o) /\ (Open(o)' <=> Open(o)) /\ faults' = faults
  BY DEF ClaimBegin, ClaimCommit, Copies, Open, table
<1>2. RelayStep(r)
  BY DEF RelayStep
<1>3. ~ pushErr'[r]
  BY DEF ClaimBegin, ClaimCommit, AllSent
<1>4. Owing(o)' \subseteq Owing(o)
  <2>1. r \notin Owing(o)'
    BY <1>3 DEF Owing
  <2>2. QED
    BY <1>2, <2>1, MoverDecides
<1>5. CASE ClaimBegin(r)
  <2>1. o \notin ids(r)
    BY <1>5 DEF ClaimBegin, TypeOK, ids
  <2>2. o \in ids(r)' => Open(o)
    BY <1>5, BatchFacts DEF ids, Claimable, Open
  <2>3. r \in MayPublish(o)' => r \in MayPublish(o)
    BY <1>1, <2>1, <2>2 DEF MayPublish
  <2>4. r \in MayClaim(o)' => r \in MayClaim(o)
    BY <1>1, <2>1, <2>2 DEF MayClaim
  <2>5. attempts'[o] = attempts[o]
    BY <1>5 DEF ClaimBegin, table
  <2>6. MayPublish(o)' \subseteq MayPublish(o) /\ MayClaim(o)' \subseteq MayClaim(o)
    BY <1>1, <1>2, <2>3, <2>4, MoverDecides
  <2>7. QED
    BY <1>1, <1>4, <2>5, <2>6 DEF BothAccounted, Accounted, Quiet
<1>6. CASE ClaimCommit(r)
  <2>1. events' = events /\ sent' = sent /\ pc[r] = "claiming" /\ pc'[r] = "pushing"
    BY <1>6 DEF ClaimCommit, TypeOK
  <2>2. r \in MayPublish(o)' => r \in MayPublish(o)
    BY <1>1, <2>1 DEF MayPublish, ids, Served
  <2>3. Quiet(o, Copies(o), Copies(o)', MayPublish(o), MayPublish(o)')
    BY <1>1, <1>2, <1>4, <2>2, MoverDecides DEF Quiet
  <2>4. attempts'[o] = IF o \in ids(r) THEN attempts[o] + 1 ELSE attempts[o]
    BY <1>6 DEF ClaimCommit, CountAttempt
  <2>5. CASE o \in ids(r)
    <3>1. r \in MayClaim(o) /\ r \notin MayClaim(o)'
      BY <2>1, <2>5 DEF MayClaim, ids
    <3>2. MayClaim(o)' \subseteq MayClaim(o) \ {r}
      BY <1>1, <1>2, <3>1, MoverDecides
    <3>3. Uses(o, attempts[o], attempts'[o], MayClaim(o), MayClaim(o)')
      BY <1>1, <1>4, <2>4, <2>5, <3>1, <3>2 DEF Uses
    <3>4. QED
      BY <2>3, <3>3 DEF BothAccounted, Accounted
  <2>6. CASE o \notin ids(r)
    <3>1. r \in MayClaim(o)' => r \in MayClaim(o)
      BY <1>1, <2>1, <2>6 DEF MayClaim, ids
    <3>2. MayClaim(o)' \subseteq MayClaim(o)
      BY <1>1, <1>2, <3>1, MoverDecides
    <3>3. Quiet(o, attempts[o], attempts'[o], MayClaim(o), MayClaim(o)')
      BY <1>1, <1>4, <2>4, <2>6, <3>2 DEF Quiet
    <3>4. QED
      BY <2>3, <3>3 DEF BothAccounted, Accounted
  <2>7. QED
    BY <2>5, <2>6
<1>7. QED
  BY <1>5, <1>6

(* An XADD uses up the relay's right to publish the row. *)
LEMMA XAddAccounted ==
  ASSUME TypeOK, BatchShape, NEW o \in Rows, NEW r \in Relays, XAdd(r)
  PROVE  BothAccounted(o)
<1> DEFINE x == events[r][sent[r] + 1].id
<1>1. x \in Rows /\ sent[r] + 1 \in DOMAIN events[r]
  BY NextEvent DEF XAdd
<1>2. /\ events' = events /\ status' = status /\ attempts' = attempts
      /\ pushErr' = pushErr /\ pc' = pc /\ faults' = faults
      /\ sent'[r] = sent[r] + 1
      /\ sent[r] \in Nat /\ sent[r] < Len(events[r]) /\ DOMAIN events[r] = 1..Len(events[r])
  BY DEF XAdd, TypeOK, table
<1>3. Copies(o)' = IF o = x THEN Copies(o) + 1 ELSE Copies(o)
  BY <1>1, CopiesAdded DEF XAdd
<1>4. Served(r, o)' <=> (Served(r, o) \/ o = x)
  <2>1. 1..sent'[r] = 1..sent[r] \cup {sent[r] + 1}
    BY <1>2
  <2>2. QED
    BY <1>2, <2>1 DEF Served
<1>5. o = x => o \in ids(r) /\ ~ Served(r, o)
  BY <1>1, <1>2 DEF Served, BatchShape, ids
<1>6. RelayStep(r) /\ (Open(o)' <=> Open(o))
  BY <1>2 DEF RelayStep, Open
<1>7. Owing(o)' = Owing(o) /\ MayClaim(o)' = MayClaim(o)
  BY <1>2 DEF Owing, MayClaim, Open, ids
<1>8. Quiet(o, attempts[o], attempts'[o], MayClaim(o), MayClaim(o)')
  BY <1>2, <1>7 DEF Quiet
<1> HIDE DEF x
<1>9. CASE o = x
  <2>1. r \in MayPublish(o) /\ r \notin MayPublish(o)'
    BY <1>2, <1>4, <1>5, <1>9 DEF MayPublish, ids
  <2>2. MayPublish(o)' \subseteq MayPublish(o) \ {r}
    BY <1>6, <2>1, MoverDecides
  <2>3. Uses(o, Copies(o), Copies(o)', MayPublish(o), MayPublish(o)')
    BY <1>2, <1>3, <1>7, <1>9, <2>1, <2>2 DEF Uses
  <2>4. QED
    BY <1>8, <2>3 DEF BothAccounted, Accounted
<1>10. CASE o # x
  <2>1. r \in MayPublish(o)' => r \in MayPublish(o)
    BY <1>2, <1>4, <1>6, <1>10 DEF MayPublish, ids
  <2>2. MayPublish(o)' \subseteq MayPublish(o)
    BY <1>6, <2>1, MoverDecides
  <2>3. Quiet(o, Copies(o), Copies(o)', MayPublish(o), MayPublish(o)')
    BY <1>2, <1>3, <1>7, <1>10, <2>2 DEF Quiet
  <2>4. QED
    BY <1>8, <2>3 DEF BothAccounted, Accounted
<1>11. QED
  BY <1>9, <1>10

(* A push that ends with an error is a fault; a pipeline that is sent      *)
(* again has one more go.                                                  *)
LEMMA PushFaultAccounted ==
  ASSUME TypeOK, NEW o \in Rows, NEW r \in Relays, XAddRejected(r) \/ PipelineLost(r)
  PROVE  BothAccounted(o)
<1>1. /\ Copies(o)' = Copies(o) /\ attempts' = attempts /\ faults' = faults + 1
      /\ events' = events /\ status' = status /\ RelayFault(r) /\ pc[r] = "pushing"
  BY DEF XAddRejected, PipelineLost, Fault, Copies, table, RelayFault
<1>2. (Open(o)' <=> Open(o)) /\ (o \in ids(r)' <=> o \in ids(r))
  BY <1>1 DEF Open, ids
<1>3. r \in MayClaim(o)' => r \in MayClaim(o)
  <2>1. pc'[r] # "claiming"
    BY DEF XAddRejected, PipelineLost, TypeOK
  <2>2. QED
    BY <1>2, <2>1 DEF MayClaim
<1>4. MayClaim(o)' \subseteq MayClaim(o)
  BY <1>1, <1>2, <1>3, MoverDecides
<1> DEFINE Goal == Accounted(o, Copies(o), Copies(o)', MayPublish(o), MayPublish(o)')
<1>5. ASSUME sent'[r] = 0 /\ pushErr'[r] = FALSE PROVE Goal
  <2>1. r \notin Owing(o)'
    BY <1>5 DEF Owing
  <2>2. Owing(o)' \subseteq Owing(o)
    BY <1>1, <2>1, MoverDecides
  <2>3. Breaks(o, Copies(o), Copies(o)', MayPublish(o), MayPublish(o)')
    BY <1>1, <2>2 DEF Breaks
  <2>4. QED
    BY <2>3 DEF Accounted
<1>6. ASSUME sent'[r] \in Nat, sent'[r] >= sent[r] PROVE Goal
  <2>1. Served(r, o) => Served(r, o)'
    <3>1. sent[r] \in Nat
      BY DEF TypeOK
    <3>2. 1..sent[r] \subseteq 1..sent'[r]
      BY <1>6, <3>1
    <3>3. QED
      BY <1>1, <3>2 DEF Served
  <2>2. r \in MayPublish(o)' => r \in MayPublish(o)
    BY <1>2, <2>1 DEF MayPublish
  <2>3. MayPublish(o)' \subseteq MayPublish(o)
    BY <1>1, <1>2, <2>2, MoverDecides
  <2>4. Errs(o, Copies(o), Copies(o)', MayPublish(o), MayPublish(o)')
    BY <1>1, <2>3, MoverDecides DEF Errs
  <2>5. QED
    BY <2>4 DEF Accounted
<1>7. (sent'[r] = 0 /\ pushErr'[r] = FALSE) \/ (sent'[r] \in Nat /\ sent'[r] >= sent[r])
  BY DEF XAddRejected, PipelineLost, TypeOK
<1>8. Errs(o, attempts[o], attempts'[o], MayClaim(o), MayClaim(o)')
  <2>1. Owing(o)' \subseteq Owing(o) \cup {r} /\ attempts'[o] = attempts[o]
    BY <1>1, MoverDecides
  <2>2. QED
    BY <1>1, <1>4, <2>1 DEF Errs
<1>9. QED
  BY <1>5, <1>6, <1>7, <1>8 DEF BothAccounted, Accounted

(* A tick that is cut short is a fault.                                    *)
LEMMA LostTickAccounted ==
  ASSUME TypeOK, NEW o \in Rows, NEW r \in Relays, ClaimFail(r) \/ MarkFail(r) \/ Crash(r)
  PROVE  BothAccounted(o)
<1>1. Copies(o)' = Copies(o) /\ faults' = faults + 1 /\ Finish(r) /\ RelayFault(r)
  BY DEF ClaimFail, MarkFail, Crash, Fault, Copies, table, RelayFault
<1>2. Owing(o)' \subseteq Owing(o)
  <2>1. r \notin Owing(o)'
    BY <1>1, FinishShape DEF Owing, ids
  <2>2. QED
    BY <1>1, <2>1, MoverDecides
<1>3. Breaks(o, Copies(o), Copies(o)', MayPublish(o), MayPublish(o)')
  BY <1>1, <1>2 DEF Breaks
<1>4. attempts'[o] = attempts[o] \/ (attempts'[o] = attempts[o] + 1 /\ MayClaim(o) # {})
  <2>1. CASE ClaimFail(r) /\ CountAttempt(r) /\ o \in ids(r)
    <3>1. r \in MayClaim(o)
      BY <2>1 DEF MayClaim, ClaimFail
    <3>2. QED
      BY <2>1, <3>1 DEF CountAttempt
  <2>2. CASE ~ (ClaimFail(r) /\ CountAttempt(r) /\ o \in ids(r))
    BY <2>2 DEF ClaimFail, MarkFail, Crash, CountAttempt, table
  <2>3. QED
    BY <2>1, <2>2
<1>5. Breaks(o, attempts[o], attempts'[o], MayClaim(o), MayClaim(o)')
  BY <1>1, <1>2, <1>4 DEF Breaks
<1>6. QED
  BY <1>3, <1>5 DEF BothAccounted, Accounted

(* A mark closes the row, unless it owes a push: that fault was counted.   *)
LEMMA MarkAccounted ==
  ASSUME TypeOK, AllSent, NEW o \in Rows, NEW r \in Relays, MarkCommit(r)
  PROVE  BothAccounted(o)
<1>1. /\ Copies(o)' = Copies(o) /\ attempts'[o] = attempts[o] /\ faults' = faults
      /\ Finish(r) /\ RelayStep(r) /\ pc[r] = "marking"
      /\ status'[o] = IF o \in ids(r) THEN MarkedStatus(r, o) ELSE status[o]
  BY DEF MarkCommit, Copies, RelayStep
<1>2. o \notin ids(r)' /\ pc'[r] = "idle"
  BY <1>1, FinishShape DEF ids
<1>3. Owing(o)' \subseteq Owing(o) \ {r}
  <2>1. r \notin Owing(o)'
    BY <1>2 DEF Owing
  <2>2. QED
    BY <1>1, <2>1, MoverDecides
<1>4. CASE o \in ids(r) /\ pushErr[r]
  <2>1. r \in Owing(o)
    BY <1>4 DEF Owing
  <2>2. QED
    BY <1>1, <1>3, <2>1 DEF BothAccounted, Accounted, Reopens
<1>5. CASE ~ (o \in ids(r) /\ pushErr[r])
  <2>1. Open(o)' => Open(o) /\ o \notin ids(r)
    BY <1>1, <1>5 DEF Open, MarkedStatus
  <2>2. (r \in MayPublish(o)' => r \in MayPublish(o)) /\ (r \in MayClaim(o)' => r \in MayClaim(o))
    BY <1>2, <2>1 DEF MayPublish, MayClaim
  <2>3. MayPublish(o)' \subseteq MayPublish(o) /\ MayClaim(o)' \subseteq MayClaim(o)
    BY <1>1, <2>1, <2>2, MoverDecides
  <2>4. QED
    BY <1>1, <1>3, <2>3 DEF BothAccounted, Accounted, Quiet
<1>6. QED
  BY <1>4, <1>5

(* The other steps change neither side. *)
LEMMA RestAccounted ==
  ASSUME TypeOK, AbsentUntried, NEW o \in Rows,
         \/ \E r \in Relays : ExecReturn(r) \/ MarkBegin(r) \/ ClaimNothing(r)
         \/ \E p \in Rows : Enqueue(p) \/ BecomeDue(p)
         \/ UNCHANGED vars
  PROVE  BothAccounted(o)
<1>1. /\ Copies(o)' = Copies(o) /\ faults' = faults /\ (Open(o)' <=> Open(o))
      /\ events' = events /\ sent' = sent /\ pushErr' = pushErr
  <2>1. ASSUME NEW p \in Rows, Enqueue(p) PROVE Open(o)' <=> Open(o)
    BY <2>1 DEF Enqueue, Open, TypeOK
  <2>2. QED
    BY <2>1 DEF ExecReturn, MarkBegin, ClaimNothing, Enqueue, BecomeDue, vars, table, local,
                Copies, Open
<1>2. attempts'[o] = attempts[o]
  <2>1. ASSUME NEW p \in Rows, Enqueue(p) PROVE attempts'[o] = attempts[o]
    BY <2>1 DEF Enqueue, AbsentUntried, TypeOK
  <2>2. QED
    BY <2>1 DEF ExecReturn, MarkBegin, ClaimNothing, BecomeDue, vars, table
<1>3. \A q \in Relays : pc'[q] = "claiming" => pc[q] = "claiming"
  BY DEF ExecReturn, MarkBegin, ClaimNothing, Enqueue, BecomeDue, vars, local, TypeOK
<1>4. /\ Owing(o)' \subseteq Owing(o) /\ MayPublish(o)' \subseteq MayPublish(o)
      /\ MayClaim(o)' \subseteq MayClaim(o)
  BY <1>1, <1>3 DEF Owing, MayPublish, MayClaim, ids, Served
<1>5. QED
  BY <1>1, <1>2, <1>4 DEF BothAccounted, Accounted, Quiet

LEMMA StepAccounted ==
  ASSUME TypeOK, BatchShape, AbsentUntried, AllSent, [Next]_vars, NEW o \in Rows
  PROVE  BothAccounted(o)
BY ClaimAccounted, XAddAccounted, PushFaultAccounted, LostTickAccounted, MarkAccounted,
   RestAccounted
   DEF Next, RelayNext, RelayStep, RelayFault

LEMMA RaceInvStep ==
  ASSUME IsFiniteSet(Relays), TypeOK, BatchShape, AbsentUntried, RaceInv, [Next]_vars
  PROVE  RaceInv'
<1>1. TypeOK' /\ AllSent'
  BY TypeOKStep, AllSentStep DEF RaceInv
<1>2. ASSUME NEW o \in Rows
      PROVE  Covered(Copies(o), MayPublish(o), o)' /\ Covered(attempts[o], MayClaim(o), o)'
  <2>1. BothAccounted(o)
    BY StepAccounted DEF RaceInv
  <2>2. /\ Copies(o) \in Nat /\ Copies(o)' \in Nat /\ attempts[o] \in Nat /\ attempts'[o] \in Nat
    <3>1. /\ Copies(o) \in Nat /\ attempts[o] \in Nat /\ attempts'[o] \in Nat
      BY <1>1, PlacesFinite DEF TypeOK
    <3>2. Copies(o)' \in Nat
      <4>1. IsFiniteSet(DOMAIN stream') /\ {i \in DOMAIN stream' : stream'[i] = o} \subseteq DOMAIN stream'
        BY <1>1, FS_Interval DEF TypeOK
      <4>2. QED
        BY <4>1, SmallerSet DEF Copies
    <3>3. QED
      BY <3>1, <3>2
  <2>3. /\ MayPublish(o) \in SUBSET Relays /\ MayPublish(o)' \in SUBSET Relays
        /\ MayClaim(o) \in SUBSET Relays /\ MayClaim(o)' \in SUBSET Relays
    BY DEF MayPublish, MayClaim
  <2>4. Covered(Copies(o), MayPublish(o), o) /\ Covered(attempts[o], MayClaim(o), o)
    BY DEF RaceInv
  <2>5. Copies(o)' + Cardinality(MayPublish(o)') + Cardinality(Relays) * Cardinality(Owing(o)')
          <= Cardinality(Relays) * (1 + faults')
    BY <1>1, <2>1, <2>2, <2>3, <2>4, StaysCovered DEF BothAccounted
  <2>6. attempts'[o] + Cardinality(MayClaim(o)') + Cardinality(Relays) * Cardinality(Owing(o)')
          <= Cardinality(Relays) * (1 + faults')
    BY <1>1, <2>1, <2>2, <2>3, <2>4, StaysCovered DEF BothAccounted
  <2>7. QED
    BY <2>5, <2>6 DEF Covered
<1>3. QED
  BY <1>1, <1>2 DEF RaceInv

LEMMA RaceInvInit == ASSUME IsFiniteSet(Relays), Init PROVE BatchShape /\ AbsentUntried /\ RaceInv
<1>1. BatchShape /\ AbsentUntried /\ AllSent
  BY DEF Init, BatchShape, AbsentUntried, AllSent
<1>2. ASSUME NEW o \in Rows
      PROVE  Covered(Copies(o), MayPublish(o), o) /\ Covered(attempts[o], MayClaim(o), o)
  <2>1. TypeOK /\ Places(o) = {} /\ MayPublish(o) \in SUBSET Relays /\ MayClaim(o) \in SUBSET Relays
        /\ Owing(o) = {} /\ attempts[o] = 0 /\ faults = 0
    BY InitInv DEF RelayInv, Init, Places, MayPublish, MayClaim, Owing
  <2>2. Copies(o) = 0 /\ Cardinality(Owing(o)) = 0
    BY <2>1, FS_EmptySet, PlacesFinite
  <2>3. /\ Cardinality(MayPublish(o)) <= Cardinality(Relays) /\ Cardinality(MayPublish(o)) \in Nat
        /\ Cardinality(MayClaim(o)) <= Cardinality(Relays) /\ Cardinality(MayClaim(o)) \in Nat
        /\ Cardinality(Relays) \in Nat
    BY <2>1, SmallerSet, FS_CardinalityType
  <2>4. Cardinality(Relays) * 0 = 0 /\ Cardinality(Relays) * (1 + 0) = Cardinality(Relays)
    BY <2>3
  <2>5. QED
    BY <2>1, <2>2, <2>3, <2>4 DEF Covered
<1>3. QED
  BY <1>1, <1>2 DEF RaceInv

RaceSafe == TypeOK /\ HoldsInserted /\ BatchShape /\ AbsentUntried /\ RaceInv

LEMMA RaceSafeHolds == ASSUME IsFiniteSet(Relays) PROVE Spec => []RaceSafe
<1>1. Init => RaceSafe
  BY RaceInvInit, InitInv DEF RaceSafe, RelayInv
<1>2. RaceSafe /\ [Next]_vars => RaceSafe'
  BY TypeOKStep, HoldsInsertedStep, BatchShapeStep, AbsentUntriedStep, RaceInvStep DEF RaceSafe
<1>3. QED
  BY <1>1, <1>2, PTL DEF Spec

(* Both balances, without what may still be done. *)
LEMMA Balances ==
  ASSUME IsFiniteSet(Relays), RaceSafe, NEW o \in Rows
  PROVE  /\ Copies(o) <= Cardinality(Relays) * (1 + faults)
         /\ attempts[o] <= Cardinality(Relays) * (1 + faults)
<1>1. TypeOK
  BY DEF RaceSafe
<1>2. MayPublish(o) \in SUBSET Relays /\ MayClaim(o) \in SUBSET Relays /\ Owing(o) \in SUBSET Relays
  BY DEF MayPublish, MayClaim, Owing
<1>3. /\ Cardinality(MayPublish(o)) \in Nat /\ Cardinality(MayClaim(o)) \in Nat
      /\ Cardinality(Owing(o)) \in Nat /\ Cardinality(Relays) \in Nat
  BY <1>2, SmallerSet
<1>4. Copies(o) \in Nat /\ attempts[o] \in Nat /\ faults \in Nat
  BY <1>1, PlacesFinite, OutboxAssumption DEF TypeOK
<1>5. /\ Cardinality(Relays) * Cardinality(Owing(o)) \in Nat
      /\ Cardinality(Relays) * (1 + faults) \in Nat
  BY <1>3, <1>4
<1>6. Covered(Copies(o), MayPublish(o), o) /\ Covered(attempts[o], MayClaim(o), o)
  BY DEF RaceSafe, RaceInv
<1>7. QED
  BY <1>3, <1>4, <1>5, <1>6 DEF Covered

(* process: each of several relays may claim a row that another one is     *)
(* still publishing, once; any further copy has a fault behind it.         *)
THEOREM DuplicatesNeedFaultOrRaceHolds ==
  ASSUME IsFiniteSet(Relays) PROVE Spec => []DuplicatesNeedFaultOrRace
<1>1. RaceSafe => DuplicatesNeedFaultOrRace
  BY Balances DEF DuplicatesNeedFaultOrRace
<1>2. QED
  BY <1>1, RaceSafeHolds, PTL

(* MarkDead: attempts are not used up by anything but faults and races, so *)
(* a row is given up only after a number of faults that grows with         *)
(* max_attempts; one relay needs max_attempts - 1 of them.                 *)
THEOREM DeathNeedsFaults ==
  ASSUME IsFiniteSet(Relays)
  PROVE  Spec => [](\A o \in Rows : status[o] = "dead" =>
                      MaxAttempts <= Cardinality(Relays) * (1 + faults))
<1>1. RaceSafe /\ DeadOnlyWhenExhausted =>
        \A o \in Rows : status[o] = "dead" => MaxAttempts <= Cardinality(Relays) * (1 + faults)
  <2> SUFFICES ASSUME RaceSafe, NEW o \in Rows, attempts[o] >= MaxAttempts
               PROVE  MaxAttempts <= Cardinality(Relays) * (1 + faults)
    BY DEF DeadOnlyWhenExhausted
  <2>1. attempts[o] <= Cardinality(Relays) * (1 + faults)
    BY Balances
  <2>2. /\ attempts[o] \in Nat /\ MaxAttempts \in Nat /\ faults \in Nat /\ Cardinality(Relays) \in Nat
    BY OutboxAssumption, FS_CardinalityType DEF RaceSafe, TypeOK
  <2>3. Cardinality(Relays) * (1 + faults) \in Nat
    BY <2>2
  <2>4. QED
    BY <2>1, <2>2, <2>3
<1>2. QED
  BY <1>1, RaceSafeHolds, DeadOnlyWhenExhaustedHolds, PTL

----------------------------------------------------------------------------
(* A pipeline has an error, and a row is given up, only after a fault. *)
Unbroken ==
  faults = 0 => /\ \A r \in Relays : ~ pushErr[r]
                /\ \A o \in Rows : status[o] # "dead"

LEMMA UnbrokenStep == TypeOK /\ Unbroken /\ [Next]_vars => Unbroken'
<1> SUFFICES ASSUME TypeOK, Unbroken, [Next]_vars, faults' = 0 PROVE Unbroken'
  BY DEF Unbroken
<1>1. faults \in Nat
  BY OutboxAssumption DEF TypeOK
<1>2. ASSUME NEW r \in Relays, RelayFault(r) PROVE FALSE
  BY <1>1, <1>2 DEF RelayFault, ClaimFail, XAddRejected, PipelineLost, MarkFail, Crash, Fault
<1>3. faults = 0
  BY <1>2 DEF Next, RelayNext, RelayStep, ClaimBegin, ClaimNothing, ClaimCommit, XAdd, ExecReturn,
              MarkBegin, MarkCommit, Enqueue, BecomeDue, vars
<1>4. ASSUME NEW r \in Relays, RelayStep(r), NEW q \in Relays PROVE ~ pushErr'[q]
  <2>1. pushErr' = pushErr \/ Finish(r)
    BY <1>4 DEF RelayStep, ClaimBegin, ClaimNothing, ClaimCommit, XAdd, ExecReturn, MarkBegin,
                MarkCommit, vars, local
  <2>2. ~ pushErr[q]
    BY <1>3 DEF Unbroken
  <2>3. QED
    BY <2>1, <2>2 DEF Finish, TypeOK
<1>5. ASSUME NEW q \in Relays PROVE ~ pushErr'[q]
  BY <1>2, <1>3, <1>4 DEF Next, RelayNext, Enqueue, BecomeDue, vars, local, Unbroken
<1>6. ASSUME NEW o \in Rows PROVE status'[o] # "dead"
  <2>1. ASSUME NEW r \in Relays, status'[o] = MarkedStatus(r, o) PROVE status'[o] # "dead"
    BY <1>3, <2>1 DEF MarkedStatus, Unbroken
  <2>2. QED
    BY <1>3, <2>1, StatusChange DEF Unbroken
<1>7. QED
  BY <1>5, <1>6 DEF Unbroken

(* A relay that still holds a row another one has settled is not the only  *)
(* one that claimed it.                                                    *)
HeldWasRaced ==
  \A r \in Relays : \A i \in DOMAIN events[r] :
    /\ events[r][i].attempts >= 1
    /\ status[events[r][i].id] \in {"dispatched", "dead"} => attempts[events[r][i].id] >= 2

(* Who marks a row and who holds it have claimed it one after the other:   *)
(* both claims are in the column, under different numbers.                 *)
LEMMA MarkedWhileHeld ==
  ASSUME RelayInv, HeldWasRaced, NEW r \in Relays, NEW q \in Relays, q # r, MarkCommit(r),
         NEW i \in DOMAIN events[q], events[q][i].id \in ids(r)
  PROVE  attempts[events[q][i].id] >= 2
<1> DEFINE o == events[q][i].id
<1>1. PICK j \in DOMAIN events[r] : events[r][j].id = o
  BY DEF ids
<1>2. /\ TypeOK /\ CarriesAttempts /\ LocksDisjoint /\ DistinctAttempts
      /\ pc[r] = "marking" /\ o \in ids(q)
  BY DEF RelayInv, MarkCommit, ids
<1>3. pc[q] # "claiming"
  BY <1>2 DEF LocksDisjoint, InTx
<1>4. /\ events[q][i].attempts <= attempts[o]
      /\ events[r][j].attempts <= attempts[o]
  BY <1>1, <1>2, <1>3 DEF CarriesAttempts
<1>5. /\ events[q][i].attempts # events[r][j].attempts
      /\ events[q][i].attempts >= 1 /\ events[r][j].attempts >= 1
  BY <1>1, <1>2 DEF DistinctAttempts, HeldWasRaced
<1>6. /\ events[q][i].attempts \in Nat /\ events[r][j].attempts \in Nat
      /\ o \in Rows /\ attempts[o] \in Nat
  BY <1>2, EventType DEF TypeOK
<1>7. QED
  BY <1>4, <1>5, <1>6

LEMMA HeldWasRacedStep == RelayInv /\ HeldWasRaced /\ [Next]_vars => HeldWasRaced'
<1> SUFFICES ASSUME RelayInv, HeldWasRaced, [Next]_vars,
                    NEW q \in Relays, NEW i \in DOMAIN events'[q]
             PROVE  /\ events'[q][i].attempts >= 1
                    /\ status'[events'[q][i].id] \in {"dispatched", "dead"} =>
                         attempts'[events'[q][i].id] >= 2
  BY DEF HeldWasRaced
<1>1. TypeOK /\ HoldsInserted
  BY DEF RelayInv
<1>2. CASE ClaimBegin(q)
  <2> DEFINE o == events'[q][i].id
  <2>1. o \in Rows /\ status[o] = "pending" /\ events'[q][i].attempts = attempts[o] + 1
    BY <1>1, <1>2, BatchFacts DEF Claimable
  <2>2. attempts[o] \in Nat /\ status' = status
    BY <1>1, <1>2, <2>1 DEF TypeOK, ClaimBegin, table
  <2>3. QED
    BY <2>1, <2>2
<1>3. CASE events'[q] = events[q]
  <2> DEFINE o == events[q][i].id
  <2>1. o \in Rows /\ status[o] # "absent" /\ events[q][i].attempts >= 1
    BY <1>1, <1>3, EventType DEF HoldsInserted, HeldWasRaced
  <2>2. attempts[o] \in Nat /\ attempts'[o] \in Nat /\ attempts'[o] >= attempts[o]
    BY <1>1, <2>1, AttemptsGrow, TypeOKStep DEF TypeOK
  <2>3. ASSUME status'[o] \in {"dispatched", "dead"} PROVE attempts[o] >= 2
    <3>1. CASE status[o] \in {"dispatched", "dead"}
      BY <1>3, <3>1 DEF HeldWasRaced
    <3>2. ASSUME NEW r \in Relays, MarkCommit(r), o \in ids(r) PROVE attempts[o] >= 2
      <4>1. q # r
        BY <1>1, <1>3, <3>2, FinishShape DEF MarkCommit
      <4>2. QED
        BY <1>3, <3>2, <4>1, MarkedWhileHeld
    <3>3. QED
      BY <1>1, <2>1, <2>3, <3>1, <3>2, StatusChange
  <2>4. QED
    BY <1>3, <2>1, <2>2, <2>3
<1>4. QED
  BY <1>1, <1>2, <1>3, BatchChange

(* MarkDispatchedBatch, MarkRetryBatch and MarkDead update by id only, so  *)
(* a relay can undo what another one settled.  It takes a second claim of  *)
(* the row before it was settled, and a fault, however many relays run.    *)
THEOREM UndoingTakesRaceAndFaultHolds == Spec => UndoingTakesRaceAndFault
<1> DEFINE Excuse == \A o \in Rows :
                       status[o] \in {"dispatched", "dead"} /\ status'[o] # status[o] =>
                         attempts[o] >= 2 /\ faults > 0
<1>1. Init => Unbroken /\ HeldWasRaced
  BY DEF Init, Unbroken, HeldWasRaced
<1>2. ASSUME RelayInv, Unbroken, HeldWasRaced, [Next]_vars, NEW o \in Rows,
             status[o] \in {"dispatched", "dead"}, status'[o] # status[o]
      PROVE  attempts[o] >= 2 /\ faults > 0
  <2>1. TypeOK /\ faults \in Nat
    BY <1>2, OutboxAssumption DEF RelayInv, TypeOK
  <2>2. PICK r \in Relays : MarkCommit(r) /\ o \in ids(r) /\ status'[o] = MarkedStatus(r, o)
    BY <1>2, <2>1, StatusChange
  <2>3. attempts[o] >= 2
    BY <1>2, <2>2 DEF ids, HeldWasRaced
  <2>4. faults # 0
    BY <1>2, <2>2 DEF Unbroken, MarkedStatus
  <2>5. QED
    BY <2>1, <2>3, <2>4
<1>3. RelayInv /\ Unbroken /\ HeldWasRaced /\ [Next]_vars => [Excuse]_vars
  BY <1>2
<1>4. RelayInv /\ Unbroken /\ HeldWasRaced /\ [Next]_vars => Unbroken' /\ HeldWasRaced'
  BY UnbrokenStep, HeldWasRacedStep DEF RelayInv
<1>5. QED
  BY <1>1, <1>3, <1>4, RelayInvHolds, PTL DEF Spec, UndoingTakesRaceAndFault

----------------------------------------------------------------------------
(* What a reader of the table sees of the relays.                          *)

(* ORDER BY id LIMIT n: the rows before which there are fewer than n are   *)
(* at most n, since no two of them have the same number of rows before.    *)
LEMMA FirstAreFew ==
  ASSUME NEW F \in SUBSET Nat, NEW n \in Nat
  PROVE  LET first == {o \in F : Cardinality({p \in F : p < o}) < n}
         IN  IsFiniteSet(first) /\ Cardinality(first) <= n
<1> DEFINE before(o) == {p \in F : p < o}
           first == {o \in F : Cardinality(before(o)) < n}
           rank == [o \in first |-> Cardinality(before(o))]
<1>1. ASSUME NEW o \in F PROVE IsFiniteSet(before(o)) /\ Cardinality(before(o)) \in Nat
  <2>1. F \subseteq Nat /\ o \in Nat
    OBVIOUS
  <2>2. before(o) \in SUBSET Nat
    BY <2>1
  <2>3. \A p \in before(o) : p <= o
    BY <2>1
  <2>4. IsFiniteSet(before(o))
    BY <2>1, <2>2, <2>3, FS_BoundedSetOfNaturals
  <2>5. QED
    BY <2>4, FS_CardinalityType
<1>2. ASSUME NEW o \in F, NEW q \in F, o < q PROVE Cardinality(before(o)) < Cardinality(before(q))
  <2>0. F \subseteq Nat /\ o \in Nat /\ q \in Nat
    OBVIOUS
  <2>1. before(o) \cup {o} \subseteq before(q) /\ o \notin before(o)
    <3>1. ASSUME NEW p \in F, p < o PROVE p < q
      BY <1>2, <2>0, <3>1
    <3>2. ~ (o < o)
      BY <2>0
    <3>3. QED
      BY <1>2, <3>1, <3>2
  <2>2. Cardinality(before(o) \cup {o}) = Cardinality(before(o)) + 1
    BY <1>1, <2>1, FS_AddElement
  <2>3. Cardinality(before(o) \cup {o}) <= Cardinality(before(q))
    BY <1>1, <2>1, FS_Subset
  <2>4. QED
    BY <1>1, <2>2, <2>3
<1>3. rank \in [first -> 0..(n - 1)]
  <2>1. \A o \in first : Cardinality(before(o)) \in 0..(n - 1)
    BY <1>1
  <2>2. QED
    BY <2>1
<1>4. \A o, q \in first : rank[o] = rank[q] => o = q
  <2>1. SUFFICES ASSUME NEW o \in first, NEW q \in first, o # q PROVE rank[o] # rank[q]
    OBVIOUS
  <2>2. o \in Nat /\ q \in Nat /\ rank[o] \in Nat /\ rank[q] \in Nat
    BY <1>1
  <2>3. o < q \/ q < o
    BY <2>1, <2>2
  <2>4. rank[o] < rank[q] \/ rank[q] < rank[o]
    BY <1>2, <2>3
  <2>5. QED
    BY <2>2, <2>4
<1>5. rank \in Injection(first, 0..(n - 1))
  BY <1>3, <1>4 DEF Injection, IsInjective
<1>6. IsFiniteSet(0..(n - 1)) /\ Cardinality(0..(n - 1)) = n
  BY FS_Interval
<1>7. IsFiniteSet(first) /\ Cardinality(first) <= n
  BY <1>5, <1>6, FS_Injection
<1>8. QED
  BY <1>7

(* What a claim will count: pending rows, and no more than a batch.  They  *)
(* are locked, so nobody marks them before the claim commits.              *)
ClaimInv ==
  \A r \in Relays : pc[r] = "claiming" =>
    /\ ids(r) # {} /\ Cardinality(ids(r)) <= BatchSize
    /\ \A o \in ids(r) : status[o] = "pending"

LEMMA ClaimBeginBatch ==
  ASSUME TypeOK, NEW r \in Relays, ClaimBegin(r)
  PROVE  /\ ids(r)' # {} /\ Cardinality(ids(r)') <= BatchSize
         /\ \A o \in ids(r)' : status'[o] = "pending"
<1>1. PICK batch \in SetToSeqs(ClaimedBatch) :
        events' = [events EXCEPT ![r] =
                     [i \in DOMAIN batch |->
                        [id |-> batch[i], attempts |-> attempts[batch[i]] + 1]]]
  BY DEF ClaimBegin
<1> DEFINE free == {o \in Rows : Claimable(o)} \ Locked
<1>2. free \in SUBSET Nat /\ BatchSize \in Nat
  BY OutboxAssumption
<1>3. IsFiniteSet(ClaimedBatch) /\ Cardinality(ClaimedBatch) <= BatchSize
  BY <1>2, FirstAreFew DEF ClaimedBatch
<1>4. Cardinality(ClaimedBatch) \in Nat /\ Cardinality(ClaimedBatch) # 0
  BY <1>3, FS_CardinalityType, FS_EmptySet DEF ClaimBegin
<1>5. batch \in [1..Cardinality(ClaimedBatch) -> ClaimedBatch]
  BY DEF SetToSeqs
<1>6. ids(r)' = {batch[i] : i \in 1..Cardinality(ClaimedBatch)}
  BY <1>1, <1>5 DEF ids, TypeOK
<1>7. ids(r)' \subseteq ClaimedBatch /\ batch[1] \in ids(r)'
  BY <1>4, <1>5, <1>6
<1>8. Cardinality(ids(r)') <= Cardinality(ClaimedBatch) /\ Cardinality(ids(r)') \in Nat
  BY <1>3, <1>7, FS_Subset, FS_CardinalityType
<1>9. \A o \in ClaimedBatch : status'[o] = "pending"
  BY DEF ClaimedBatch, Claimable, ClaimBegin, table
<1>10. QED
  BY <1>2, <1>3, <1>4, <1>7, <1>8, <1>9

LEMMA ClaimInvStep == TypeOK /\ LocksDisjoint /\ ClaimInv /\ [Next]_vars => ClaimInv'
<1> SUFFICES ASSUME TypeOK, LocksDisjoint, ClaimInv, [Next]_vars,
                    NEW q \in Relays, pc'[q] = "claiming"
             PROVE  /\ ids(q)' # {} /\ Cardinality(ids(q)') <= BatchSize
                    /\ \A o \in ids(q)' : status'[o] = "pending"
  BY DEF ClaimInv
<1>1. CASE ClaimBegin(q)
  BY <1>1, ClaimBeginBatch
<1>2. CASE events'[q] = events[q] /\ pc[q] = "claiming"
  <2>1. ids(q)' = ids(q)
    BY <1>2 DEF ids
  <2>2. ids(q) # {} /\ Cardinality(ids(q)) <= BatchSize /\ \A o \in ids(q) : status[o] = "pending"
    BY <1>2 DEF ClaimInv
  <2>3. ASSUME NEW o \in ids(q), status'[o] # status[o] PROVE FALSE
    <3>1. o \in Rows
      BY <2>3, EventType DEF ids
    <3>2. PICK r \in Relays : MarkCommit(r) /\ o \in ids(r)
      BY <2>2, <2>3, <3>1, StatusChange
    <3>3. pc[r] = "marking" /\ r # q
      BY <1>2, <3>2 DEF MarkCommit
    <3>4. QED
      BY <1>2, <2>3, <3>2, <3>3 DEF LocksDisjoint, InTx
  <2>4. QED
    BY <2>1, <2>2, <2>3
<1>3. QED
  BY <1>1, <1>2, BatchChange DEF ClaimCommit, TypeOK

TableInv == RelayInv /\ AbsentUntried /\ ClaimInv

Holding == {"pushing", "pushed", "marking"}

(* What a relay holds depends on its own batch and place only.             *)
LEMMA HeldSame ==
  ASSUME \A q \in Relays : /\ pc'[q] \in Holding <=> pc[q] \in Holding
                           /\ pc[q] \in Holding => events'[q] = events[q]
  PROVE  Held' = Held
BY DEF Held, Holding

LEMMA HeldChange ==
  ASSUME NEW r \in Relays, \A q \in Relays \ {r} : pc'[q] = pc[q] /\ events'[q] = events[q]
  PROVE  Held' = [Held EXCEPT ![r] = Held'[r]]
<1>1. \A q \in Relays \ {r} : Held'[q] = Held[q]
  BY DEF Held
<1>2. Held = [q \in Relays |-> Held[q]] /\ Held' = [q \in Relays |-> Held'[q]]
  BY DEF Held
<1>3. QED
  BY <1>1, <1>2

LEMMA FinishLetsGo ==
  ASSUME TypeOK, NEW r \in Relays, Finish(r)
  PROVE  Held' = [Held EXCEPT ![r] = {}]
<1>1. \A q \in Relays \ {r} : pc'[q] = pc[q] /\ events'[q] = events[q]
  BY DEF Finish, TypeOK
<1>2. pc'[r] = "idle"
  BY DEF Finish, TypeOK
<1>3. Held'[r] = {}
  BY <1>2 DEF Held
<1>4. QED
  BY <1>1, <1>3, HeldChange

LEMMA ClaimIsClaim ==
  ASSUME TableInv, NEW r \in Relays, CountAttempt(r), pc[r] = "claiming", UNCHANGED status,
         \/ Held' = Held
         \/ Held' = [Held EXCEPT ![r] = {events[r][i] : i \in DOMAIN events[r]}]
  PROVE  T!Claim(r, ids(r)) /\ ids(r) \in SUBSET Rows
<1>1. TypeOK /\ CarriesAttempts /\ ClaimInv
  BY DEF TableInv, RelayInv
<1>2. Held[r] = {}
  BY DEF Held
<1>3. ids(r) # {} /\ Cardinality(ids(r)) <= BatchSize /\ \A o \in ids(r) : status[o] = "pending"
  BY <1>1 DEF ClaimInv
<1>4. attempts' = [o \in Rows |-> IF o \in ids(r) THEN attempts[o] + 1 ELSE attempts[o]]
  BY DEF CountAttempt
<1>5. \A i \in DOMAIN events[r] : events[r][i] \in Event /\ events[r][i].id \in ids(r)
  <2>1. events[r] \in [1..Len(events[r]) -> Event] /\ DOMAIN events[r] = 1..Len(events[r])
    BY <1>1 DEF TypeOK
  <2>2. QED
    BY <2>1 DEF ids
<1>6. ids(r) \in SUBSET Rows
  BY <1>5 DEF ids, Event
<1>7. \A i \in DOMAIN events[r] :
        events[r][i] = [id |-> events[r][i].id, attempts |-> attempts'[events[r][i].id]]
  BY <1>1, <1>4, <1>5, <1>6 DEF CarriesAttempts, Event
<1>8. {events[r][i] : i \in DOMAIN events[r]}
        = {[id |-> o, attempts |-> attempts'[o]] : o \in ids(r)}
  <2> DEFINE known(o) == [id |-> o, attempts |-> attempts'[o]]
  <2>1. \A i \in DOMAIN events[r] : events[r][i] = known(events[r][i].id)
    BY <1>7
  <2>2. {events[r][i] : i \in DOMAIN events[r]} = {known(events[r][i].id) : i \in DOMAIN events[r]}
    BY <2>1
  <2>3. {known(events[r][i].id) : i \in DOMAIN events[r]} = {known(o) : o \in ids(r)}
    <3> HIDE DEF known
    <3>1. QED
      BY DEF ids
  <2>4. QED
    BY <2>2, <2>3
<1>9. QED
  BY <1>2, <1>3, <1>4, <1>6, <1>8 DEF T!Claim, Cardinality, T!Cardinality

(* The marks of the two specifications agree on what is exhausted.         *)
LEMMA MarkIsMark ==
  ASSUME TypeOK, NEW r \in Relays, MarkCommit(r)
  PROVE  T!MarkDispatched(r) \/ T!MarkFailed(r)
<1>1. Held[r] = {events[r][i] : i \in DOMAIN events[r]} /\ Held' = [Held EXCEPT ![r] = {}]
  BY FinishLetsGo DEF MarkCommit, Held
<1>2. T!HeldRows(r) = ids(r)
  BY <1>1 DEF T!HeldRows, ids
<1>3. \A o \in Rows : o \in T!Exhausted(r) <=> Exhausted(r, o)
  BY <1>1 DEF T!Exhausted, Exhausted
<1>4. \A o \in Rows : Exhausted(r, o) => o \in ids(r)
  BY DEF Exhausted, ids
<1>5. /\ attempts' = attempts
      /\ status' = [o \in Rows |-> IF o \in ids(r) THEN MarkedStatus(r, o) ELSE status[o]]
  BY DEF MarkCommit
<1>6. CASE ~ pushErr[r]
  BY <1>1, <1>2, <1>5, <1>6 DEF MarkedStatus, T!MarkDispatched, T!LetGo
<1>7. CASE pushErr[r]
  BY <1>1, <1>2, <1>3, <1>4, <1>5, <1>7 DEF MarkedStatus, T!MarkFailed, T!LetGo
<1>8. QED
  BY <1>6, <1>7

LEMMA TableStep == TableInv /\ [Next]_vars => [T!Next]_(T!vars)
<1> SUFFICES ASSUME TableInv, [Next]_vars PROVE [T!Next]_(T!vars)
  OBVIOUS
<1>0. TypeOK /\ AbsentUntried
  BY DEF TableInv, RelayInv
<1>1. ASSUME UNCHANGED <<status, attempts>>, Held' = Held PROVE [T!Next]_(T!vars)
  BY <1>1 DEF T!vars
<1>2. ASSUME NEW o \in Rows, Enqueue(o) PROVE T!Next
  <2>1. attempts' = attempts
    BY <1>0, <1>2 DEF Enqueue, AbsentUntried, TypeOK
  <2>2. Held' = Held
    BY <1>2, HeldSame DEF Enqueue, local
  <2>3. T!Insert(o)
    BY <1>2, <2>1, <2>2 DEF Enqueue, T!Insert
  <2>4. QED
    BY <2>3 DEF T!Next
<1>3. ASSUME NEW r \in Relays, ClaimBegin(r) PROVE UNCHANGED <<status, attempts>> /\ Held' = Held
  <2>1. \A q \in Relays \ {r} : events'[q] = events[q] /\ pc'[q] = pc[q]
    BY <1>0, <1>3, BatchFacts DEF ClaimBegin, TypeOK
  <2>2. pc[r] = "idle" /\ pc'[r] = "claiming"
    BY <1>0, <1>3 DEF ClaimBegin, TypeOK
  <2>3. QED
    BY <1>3, <2>1, <2>2, HeldSame DEF ClaimBegin, table, Holding
<1>4. ASSUME NEW r \in Relays, ClaimCommit(r) PROVE T!Next
  <2>1. /\ pc[r] = "claiming" /\ pc'[r] = "pushing" /\ events' = events
        /\ CountAttempt(r) /\ UNCHANGED status
        /\ \A q \in Relays \ {r} : pc'[q] = pc[q]
    BY <1>0, <1>4 DEF ClaimCommit, TypeOK
  <2>2. Held'[r] = {events[r][i] : i \in DOMAIN events[r]}
    BY <2>1 DEF Held
  <2>3. Held' = [Held EXCEPT ![r] = {events[r][i] : i \in DOMAIN events[r]}]
    BY <2>1, <2>2, HeldChange
  <2>4. QED
    BY <2>1, <2>3, ClaimIsClaim DEF T!Next
<1>5. ASSUME NEW r \in Relays, ClaimFail(r) PROVE [T!Next]_(T!vars)
  <2>1. Held[r] = {} /\ Held' = [Held EXCEPT ![r] = {}]
    BY <1>0, <1>5, FinishLetsGo DEF ClaimFail, Held
  <2>2. Held' = Held
    BY <2>1 DEF Held
  <2>3. QED
    BY <1>1, <1>5, <2>2, ClaimIsClaim DEF ClaimFail, T!Next
<1>6. ASSUME NEW r \in Relays, MarkFail(r) \/ Crash(r) PROVE T!Next
  <2>1. Held' = [Held EXCEPT ![r] = {}] /\ UNCHANGED <<status, attempts>>
    BY <1>0, <1>6, FinishLetsGo DEF MarkFail, Crash, table
  <2>2. QED
    BY <2>1 DEF T!Next, T!Abandon, T!LetGo
<1>7. ASSUME NEW r \in Relays, PipelineLost(r) \/ ExecReturn(r) \/ MarkBegin(r)
      PROVE  UNCHANGED <<status, attempts>> /\ Held' = Held
  <2>1. /\ pc[r] \in Holding /\ pc'[r] \in Holding /\ events' = events
        /\ \A q \in Relays \ {r} : pc'[q] = pc[q]
    BY <1>0, <1>7 DEF PipelineLost, ExecReturn, MarkBegin, TypeOK, Holding
  <2>2. QED
    BY <1>7, <2>1, HeldSame DEF PipelineLost, ExecReturn, MarkBegin, table
<1>8. CASE UNCHANGED <<status, attempts, pc, events>>
  <2>1. Held' = Held
    BY <1>8, HeldSame
  <2>2. QED
    BY <1>1, <1>8, <2>1
<1>9. ASSUME NEW r \in Relays, MarkCommit(r) PROVE T!Next
  BY <1>0, <1>9, MarkIsMark DEF T!Next
<1>10. QED
  BY <1>1, <1>2, <1>3, <1>4, <1>5, <1>6, <1>7, <1>8, <1>9
     DEF Next, RelayNext, RelayStep, RelayFault, BecomeDue, ClaimNothing, XAdd, XAddRejected,
         vars, table, local

(* process and the outbox repository: a claim and a mark are all the table *)
(* ever sees of a tick, the claim of pending rows, the mark of claimed     *)
(* ones, for any number of relays and faults.                              *)
THEOREM ClaimsAreCountedHolds == Spec => ClaimsAreCounted
<1>1. Init => T!Init
  BY DEF Init, T!Init, Held
<1>2. Init => TableInv
  BY InitInv DEF TableInv, Init, AbsentUntried, ClaimInv
<1>3. TableInv /\ [Next]_vars => TableInv'
  BY InvStep, AbsentUntriedStep, ClaimInvStep DEF TableInv, RelayInv
<1>4. QED
  BY <1>1, <1>2, <1>3, TableStep, PTL DEF Spec, ClaimsAreCounted, T!Spec
=============================================================================
