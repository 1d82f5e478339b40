------------------------ MODULE WebhookWorkerProofs ------------------------
(***************************************************************************)
(* Proofs about WebhookWorker, for every set of rows and workers, every    *)
(* retry count, number of faults and length of the stream.                 *)
(*                                                                         *)
(* The step lemmas are about WorkerNext and about Environment, anything    *)
(* that appends to the stream, so that they also hold where a relay and    *)
(* not Publish feeds the stream.                                           *)
(***************************************************************************)
EXTENDS WebhookWorker, FiniteSetTheorems, TLAPS

workers == <<redis, wpc, entry, target>>

Environment ==
  /\ stream' = stream \/ \E o \in Rows : stream' = Append(stream, o)
  /\ UNCHANGED workers

Step == WorkerNext \/ Environment

Shape ==
  /\ stream \in Seq(Rows)
  /\ group \in BOOLEAN
  /\ lastDelivered \in 0..Len(stream)
  /\ pel \subseteq 1..lastDelivered
  /\ processed \subseteq Rows
  /\ wpc \in [Workers -> {"starting", "reading", "claiming", "acking"} \cup Sending]
  /\ entry \in [Workers -> Nat]
  /\ \A w \in Workers : IF wpc[w] \in {"starting", "reading"} THEN entry[w] = 0
                                                              ELSE entry[w] \in pel
  /\ posts \in [Rows -> Nat]
  /\ delivered \subseteq Rows
  /\ again \in [Rows -> Nat]

(* XREADGROUP gives every entry to one worker. *)
OneHolderPerEntry ==
  \A v, w \in Workers : v # w /\ entry[v] # 0 => entry[v] # entry[w]

(* A worker that sends has taken the key, and one that has not yet been    *)
(* answered has the last POST of that key to spare.                        *)
SenderHasKey ==
  \A w \in Workers :
    /\ wpc[w] \in Sending => row(w) \in processed
    /\ wpc[w] = "posting" => posts[row(w)] <= again[row(w)]
    /\ wpc[w] = "accepted" => posts[row(w)] > 0

(* An entry is acknowledged after its key has been taken. *)
AckerSawKey ==
  \A w \in Workers : wpc[w] = "acking" => row(w) \in processed \/ again[row(w)] > 0

WorkerInv ==
  /\ Shape
  /\ OneHolderPerEntry
  /\ SenderHasKey
  /\ AckerSawKey
  /\ AtMostOncePerKey
  /\ OneSenderPerRow
  /\ AckedIsProcessed

----------------------------------------------------------------------------
LEMMA InitInv == Init => WorkerInv
<1> SUFFICES ASSUME Init PROVE WorkerInv
  OBVIOUS
<1>1. Len(<<>>) = 0 /\ <<>> \in Seq(Rows)
  OBVIOUS
<1>2. Shape
  <2>1. /\ stream \in Seq(Rows) /\ group \in BOOLEAN /\ processed \subseteq Rows
        /\ delivered \subseteq Rows
    BY <1>1 DEF Init
  <2>2. lastDelivered \in 0..Len(stream) /\ pel \subseteq 1..lastDelivered
    BY <1>1 DEF Init
  <2>3. posts \in [Rows -> Nat] /\ again \in [Rows -> Nat]
    BY DEF Init
  <2>4. /\ wpc \in [Workers -> {"starting"}]
        /\ entry \in [Workers -> Nat]
        /\ \A w \in Workers : entry[w] = 0
    BY DEF Init
  <2>5. QED
    BY <2>1, <2>2, <2>3, <2>4 DEF Shape
<1>3. OneHolderPerEntry /\ SenderHasKey /\ AckerSawKey /\ OneSenderPerRow
  BY DEF Init, OneHolderPerEntry, SenderHasKey, AckerSawKey, OneSenderPerRow, Sending
<1>4. AtMostOncePerKey /\ AckedIsProcessed
  <2>1. AtMostOncePerKey
    BY DEF Init, AtMostOncePerKey
  <2>2. AckedIsProcessed
    BY DEF Init, AckedIsProcessed, Acked
  <2>3. QED
    BY <2>1, <2>2
<1>5. QED
  BY <1>2, <1>3, <1>4 DEF WorkerInv

(* What is in the stream stays where it is. *)
LEMMA StreamKeeps ==
  ASSUME Shape, Step
  PROVE  /\ stream' \in Seq(Rows)
         /\ Len(stream) <= Len(stream')
         /\ \A i \in 1..Len(stream) : stream'[i] = stream[i] /\ stream[i] \in Rows
<1>1. CASE stream' = stream
  BY <1>1 DEF Shape
<1>2. ASSUME NEW o \in Rows, stream' = Append(stream, o)
      PROVE  /\ stream' \in Seq(Rows)
             /\ Len(stream) <= Len(stream')
             /\ \A i \in 1..Len(stream) : stream'[i] = stream[i] /\ stream[i] \in Rows
  BY <1>2 DEF Shape
<1>3. WorkerNext => stream' = stream
  BY DEF WorkerNext, WorkerStep, WorkerFault, Start, StartFails, ReadNothing, Read, ReadLost,
         ClaimKey, ClaimKeyFails, ClaimKeyResent, TargetAccepts, TargetRejects, PostFails,
         TransportReplays, PostReturns, Ack, AckFails, CrashWorker, ExpireKey, vars
<1>4. QED
  BY <1>1, <1>2, <1>3 DEF Step, Environment

(* A worker that holds an entry handles a row. *)
LEMMA RowType ==
  ASSUME Shape, NEW w \in Workers, wpc[w] \notin {"starting", "reading"}
  PROVE  /\ entry[w] \in pel /\ entry[w] \in 1..lastDelivered /\ entry[w] \in 1..Len(stream)
         /\ entry[w] # 0
         /\ row(w) \in Rows
BY DEF Shape, row

(* What a worker may do with the entry it handles. *)
LEMMA Moves ==
  ASSUME Shape, Step, NEW w \in Workers
  PROVE  \/ /\ entry'[w] = entry[w]
            /\ wpc'[w] = wpc[w]
         \/ /\ entry'[w] = 0
            /\ wpc'[w] \in {"starting", "reading"}
         \/ /\ wpc[w] = "reading"
            /\ Read(w)
            /\ entry'[w] = lastDelivered + 1
            /\ wpc'[w] = "claiming"
         \/ /\ wpc[w] \notin {"starting", "reading"}
            /\ entry'[w] = entry[w]
            /\ wpc'[w] \in Sending \cup {"acking"}
BY DEF Step, Environment, workers, WorkerNext, WorkerStep, WorkerFault, Start, StartFails,
       ReadNothing, Read, ReadLost, ClaimKey, ClaimKeyFails, ClaimKeyResent, TargetAccepts,
       TargetRejects, PostFails, TransportReplays, PostReturns, Ack, AckFails, CrashWorker,
       ExpireKey, vars, Goto, Forget, Abandon, Sending, Shape

(* The pending entries list and the group's cursor. *)
LEMMA PendingChange ==
  ASSUME Shape, Step
  PROVE  \/ /\ pel' = pel
            /\ lastDelivered' = lastDelivered
         \/ /\ Deliver
            /\ stream' = stream
            /\ \/ \E w \in Workers : Read(w)
               \/ entry' = entry /\ wpc' = wpc
         \/ \E w \in Workers : /\ Ack(w)
                              /\ lastDelivered' = lastDelivered
                              /\ pel' = pel \ {entry[w]}
BY DEF Step, Environment, workers, WorkerNext, WorkerStep, WorkerFault, Start, StartFails,
       ReadNothing, Read, ReadLost, ClaimKey, ClaimKeyFails, ClaimKeyResent, TargetAccepts,
       TargetRejects, PostFails, TransportReplays, PostReturns, Ack, AckFails, CrashWorker,
       ExpireKey, vars, redis

LEMMA HolderStep == Shape /\ OneHolderPerEntry /\ Step => OneHolderPerEntry'
<1> SUFFICES ASSUME Shape, OneHolderPerEntry, Step,
                    NEW v \in Workers, NEW w \in Workers, v # w, entry'[v] # 0
             PROVE  entry'[v] # entry'[w]
  BY DEF OneHolderPerEntry
<1>1. ASSUME NEW x \in Workers PROVE entry[x] \in Nat /\ lastDelivered \in Nat /\ entry[x] <= lastDelivered
  BY <1>1 DEF Shape
<1>2. ASSUME NEW x \in Workers, NEW y \in Workers, x # y, Read(x) PROVE entry'[y] = entry[y]
  BY <1>2 DEF Read, Shape
<1>3. QED
  BY <1>1, <1>2, Moves DEF OneHolderPerEntry

(* Each entry a worker holds is pending: only its holder acknowledges it. *)
LEMMA ShapeStep == Shape /\ OneHolderPerEntry /\ Step => Shape'
<1> SUFFICES ASSUME Shape, OneHolderPerEntry, Step PROVE Shape'
  OBVIOUS
<1>1. stream' \in Seq(Rows) /\ Len(stream') \in Nat /\ Len(stream) \in Nat /\ Len(stream) <= Len(stream')
  BY StreamKeeps DEF Shape
<1>2. lastDelivered' \in 0..Len(stream') /\ pel' \subseteq 1..lastDelivered'
  <2>1. CASE pel' = pel /\ lastDelivered' = lastDelivered
    BY <1>1, <2>1 DEF Shape
  <2>2. CASE Deliver /\ stream' = stream
    BY <1>1, <2>2 DEF Shape, Deliver, Unread
  <2>3. ASSUME NEW w \in Workers, lastDelivered' = lastDelivered, pel' = pel \ {entry[w]}
        PROVE  lastDelivered' \in 0..Len(stream') /\ pel' \subseteq 1..lastDelivered'
    <3>1. pel' \subseteq pel
      BY <2>3
    <3>2. lastDelivered \in 0..Len(stream) /\ pel \subseteq 1..lastDelivered
      BY DEF Shape
    <3>3. lastDelivered' \in 0..Len(stream')
      BY <1>1, <2>3, <3>2
    <3>4. pel' \subseteq 1..lastDelivered'
      BY <2>3, <3>1, <3>2
    <3>5. QED
      BY <3>3, <3>4
  <2>4. QED
    BY <2>1, <2>2, <2>3, PendingChange
<1>3. ASSUME NEW w \in Workers
      PROVE  IF wpc'[w] \in {"starting", "reading"} THEN entry'[w] = 0 ELSE entry'[w] \in pel'
  <2>1. CASE Read(w)
    BY <2>1 DEF Read, Goto, Deliver, Shape
  <2>2. CASE ~ Read(w) /\ wpc'[w] \notin {"starting", "reading"}
    <3>1. entry'[w] = entry[w] /\ wpc[w] \notin {"starting", "reading"}
      BY <2>2, Moves
    <3>2. entry[w] \in pel /\ entry[w] # 0
      BY <3>1, RowType
    <3>3. ASSUME NEW v \in Workers, Ack(v) PROVE entry[v] # entry[w]
      <4>1. v # w
        BY <2>2, <3>3 DEF Ack, Forget, Goto, Shape
      <4>2. QED
        BY <3>2, <4>1 DEF OneHolderPerEntry
    <3>4. entry[w] \in pel'
      BY <3>2, <3>3, PendingChange DEF Deliver
    <3>5. QED
      BY <2>2, <3>1, <3>4
  <2>3. CASE wpc'[w] \in {"starting", "reading"}
    BY <2>3, Moves DEF Shape, Sending
  <2>4. QED
    BY <2>1, <2>2, <2>3
<1>4. group' \in BOOLEAN /\ processed' \subseteq Rows
  BY RowType
     DEF Step, Environment, workers, WorkerNext, WorkerStep, WorkerFault, Start, StartFails,
         ReadNothing, Read, ReadLost, ClaimKey, ClaimKeyFails, ClaimKeyResent, TargetAccepts,
         TargetRejects, PostFails, TransportReplays, PostReturns, Ack, AckFails, CrashWorker,
         ExpireKey, vars, redis, Shape
<1>5. posts' \in [Rows -> Nat] /\ delivered' \subseteq Rows /\ again' \in [Rows -> Nat]
  <2>1. CASE posts' = posts /\ delivered' = delivered /\ again' = again
    BY <2>1 DEF Shape
  <2>2. ASSUME NEW w \in Workers, TargetAccepts(w) \/ TargetRejects(w)
        PROVE  posts' \in [Rows -> Nat] /\ delivered' \subseteq Rows /\ again' = again
    BY <2>2, RowType DEF TargetAccepts, TargetRejects, Shape
  <2>3. ASSUME NEW o \in Rows, again' = [again EXCEPT ![o] = @ + 1]
        PROVE  again' \in [Rows -> Nat]
    BY <2>3 DEF Shape
  <2>4. ASSUME NEW w \in Workers, TransportReplays(w)
        PROVE  posts' = posts /\ delivered' = delivered /\ again' \in [Rows -> Nat]
    BY <2>3, <2>4, RowType DEF TransportReplays
  <2>5. ASSUME NEW o \in Rows, ExpireKey(o)
        PROVE  posts' = posts /\ delivered' = delivered /\ again' \in [Rows -> Nat]
    BY <2>3, <2>5 DEF ExpireKey
  <2>6. QED
    BY <2>1, <2>2, <2>4, <2>5
       DEF Step, Environment, workers, WorkerNext, WorkerStep, WorkerFault, Start, StartFails,
           ReadNothing, Read, ReadLost, ClaimKey, ClaimKeyFails, ClaimKeyResent, PostFails,
           PostReturns, Ack, AckFails, CrashWorker, vars, target, Shape
<1>6. wpc' \in [Workers -> {"starting", "reading", "claiming", "acking"} \cup Sending]
  BY DEF Step, Environment, workers, WorkerNext, WorkerStep, WorkerFault, Start, StartFails,
         ReadNothing, Read, ReadLost, ClaimKey, ClaimKeyFails, ClaimKeyResent, TargetAccepts,
         TargetRejects, PostFails, TransportReplays, PostReturns, Ack, AckFails, CrashWorker,
         ExpireKey, vars, Shape, Goto, Forget, Abandon, Sending
<1>7. entry' \in [Workers -> Nat]
  BY DEF Step, Environment, workers, WorkerNext, WorkerStep, WorkerFault, Start, StartFails,
         ReadNothing, Read, ReadLost, ClaimKey, ClaimKeyFails, ClaimKeyResent, TargetAccepts,
         TargetRejects, PostFails, TransportReplays, PostReturns, Ack, AckFails, CrashWorker,
         ExpireKey, vars, Shape, Forget, Abandon
<1>8. QED
  BY <1>1, <1>2, <1>3, <1>4, <1>5, <1>6, <1>7 DEF Shape

(* The dedupe key: set by SETNX only, and only for the row a worker claims;*)
(* dropped by its TTL, which the count again remembers.                    *)
LEMMA KeyChange ==
  ASSUME Shape, Step, NEW o \in Rows
  PROVE  /\ again[o] \in Nat /\ posts[o] \in Nat /\ again'[o] \in Nat /\ again'[o] >= again[o]
         /\ o \in processed => o \in processed' \/ (ExpireKey(o) /\ again'[o] = again[o] + 1)
<1>1. again[o] \in Nat /\ posts[o] \in Nat
  BY DEF Shape
<1>2. ASSUME NEW p \in Rows, again' = [again EXCEPT ![p] = @ + 1]
      PROVE  again'[o] \in Nat /\ again'[o] >= again[o] /\ (p = o => again'[o] = again[o] + 1)
  BY <1>1, <1>2 DEF Shape
<1>3. ASSUME NEW p \in Rows, ExpireKey(p)
      PROVE  /\ again'[o] \in Nat /\ again'[o] >= again[o]
             /\ o \in processed => o \in processed' \/ (ExpireKey(o) /\ again'[o] = again[o] + 1)
  BY <1>2, <1>3 DEF ExpireKey
<1>4. ASSUME NEW w \in Workers, TransportReplays(w)
      PROVE  again'[o] \in Nat /\ again'[o] >= again[o] /\ processed' = processed
  BY <1>2, <1>4, RowType DEF TransportReplays, redis
<1>5. CASE again' = again /\ processed \subseteq processed'
  BY <1>1, <1>5
<1>6. QED
  BY <1>1, <1>3, <1>4, <1>5
     DEF Step, Environment, workers, WorkerNext, WorkerStep, WorkerFault, Start, StartFails,
         ReadNothing, Read, ReadLost, ClaimKey, ClaimKeyFails, ClaimKeyResent, TargetAccepts,
         TargetRejects, PostFails, PostReturns, Ack, AckFails, CrashWorker, vars, target, redis

(* The row a worker handles does not change under it. *)
LEMMA RowKeeps ==
  ASSUME Shape, Step, NEW w \in Workers, wpc[w] \notin {"starting", "reading"}, entry'[w] = entry[w]
  PROVE  row(w)' = row(w) /\ row(w) \in Rows
<1>1. entry[w] \in 1..Len(stream) /\ row(w) \in Rows
  BY RowType
<1>2. QED
  BY <1>1, StreamKeeps DEF row

LEMMA AckerStep == Shape /\ SenderHasKey /\ AckerSawKey /\ Step => AckerSawKey'
<1> SUFFICES ASSUME Shape, SenderHasKey, AckerSawKey, Step, NEW w \in Workers, wpc'[w] = "acking"
             PROVE  row(w)' \in processed' \/ again'[row(w)'] > 0
  BY DEF AckerSawKey
<1>1. wpc[w] \notin {"starting", "reading"} /\ entry'[w] = entry[w]
  BY Moves DEF Sending
<1>2. row(w)' = row(w) /\ row(w) \in Rows
  BY <1>1, RowKeeps
<1>3. CASE wpc[w] \in Sending \cup {"acking"}
  <2>1. row(w) \in processed \/ again[row(w)] > 0
    BY <1>3 DEF SenderHasKey, AckerSawKey
  <2>2. QED
    BY <1>2, <2>1, KeyChange
<1>4. CASE wpc[w] = "claiming"
  <2>1. row(w) \in processed'
    BY <1>1, <1>4
       DEF Step, Environment, workers, WorkerNext, WorkerStep, WorkerFault, Start, StartFails,
           ReadNothing, Read, ReadLost, ClaimKey, ClaimKeyFails, ClaimKeyResent, TargetAccepts,
           TargetRejects, PostFails, TransportReplays, PostReturns, Ack, AckFails, CrashWorker,
           ExpireKey, vars, Goto, Forget, Abandon, Shape
  <2>2. QED
    BY <1>2, <2>1
<1>5. QED
  BY <1>1, <1>3, <1>4 DEF Shape

(* The target counts one request at a time, of a worker that is posting. *)
LEMMA PostsChange ==
  ASSUME Shape, Step, NEW o \in Rows
  PROVE  \/ posts'[o] = posts[o]
         \/ \E w \in Workers : /\ wpc[w] = "posting"
                              /\ wpc'[w] # "posting"
                              /\ row(w) = o
                              /\ posts'[o] = posts[o] + 1
                              /\ processed' = processed
                              /\ again' = again
<1>1. ASSUME NEW w \in Workers, TargetAccepts(w) \/ TargetRejects(w)
      PROVE  /\ wpc[w] = "posting" /\ wpc'[w] # "posting"
             /\ posts'[o] = IF row(w) = o THEN posts[o] + 1 ELSE posts[o]
             /\ processed' = processed /\ again' = again
  BY <1>1 DEF TargetAccepts, TargetRejects, Goto, Forget, Abandon, Shape, redis
<1>2. QED
  BY <1>1
     DEF Step, Environment, workers, WorkerNext, WorkerStep, WorkerFault, Start, StartFails,
         ReadNothing, Read, ReadLost, ClaimKey, ClaimKeyFails, ClaimKeyResent, PostFails,
         TransportReplays, PostReturns, Ack, AckFails, CrashWorker, ExpireKey, vars, target

(* How a worker comes to be sending. *)
LEMMA SenderChange ==
  ASSUME Shape, Step, NEW w \in Workers, wpc'[w] \in Sending
  PROVE  /\ wpc[w] \notin {"starting", "reading"} /\ entry'[w] = entry[w]
         /\ \/ wpc'[w] = wpc[w]
            \/ ClaimKey(w) /\ row(w) \notin processed /\ wpc'[w] = "posting"
            \/ TargetAccepts(w) /\ wpc'[w] = "accepted"
            \/ TransportReplays(w) /\ wpc'[w] = "posting"
<1>1. wpc[w] \notin {"starting", "reading"} /\ entry'[w] = entry[w]
  BY Moves DEF Sending
<1>2. QED
  BY <1>1
     DEF Step, Environment, workers, WorkerNext, WorkerStep, WorkerFault, Start, StartFails,
         ReadNothing, Read, ReadLost, ClaimKey, ClaimKeyFails, ClaimKeyResent, TargetAccepts,
         TargetRejects, PostFails, TransportReplays, PostReturns, Ack, AckFails, CrashWorker,
         ExpireKey, vars, Goto, Forget, Abandon, Sending, Shape

LEMMA SenderStep ==
  Shape /\ SenderHasKey /\ AtMostOncePerKey /\ OneSenderPerRow /\ Step => SenderHasKey'
<1> SUFFICES ASSUME Shape, SenderHasKey, AtMostOncePerKey, OneSenderPerRow, Step,
                    NEW w \in Workers, wpc'[w] \in Sending
             PROVE  /\ row(w)' \in processed'
                    /\ wpc'[w] = "posting" => posts'[row(w)'] <= again'[row(w)']
                    /\ wpc'[w] = "accepted" => posts'[row(w)'] > 0
  BY DEF SenderHasKey, Sending
<1> DEFINE o == row(w)
<1>1. wpc[w] \notin {"starting", "reading"} /\ row(w)' = o /\ o \in Rows
  BY SenderChange, RowKeeps
<1>2. /\ again[o] \in Nat /\ posts[o] \in Nat /\ again'[o] \in Nat /\ again'[o] >= again[o]
      /\ o \in processed => o \in processed' \/ ExpireKey(o)
  BY <1>1, KeyChange
<1>3. CASE wpc'[w] = wpc[w]
  <2>1. o \in processed'
    BY <1>1, <1>2, <1>3 DEF SenderHasKey, ExpireKey, Sending
  <2>2. ASSUME NEW v \in Workers, wpc[v] = "posting", wpc'[v] # "posting", row(v) = o
        PROVE  FALSE
    BY <1>3, <2>2 DEF OneSenderPerRow, Sending
  <2>3. posts'[o] = posts[o]
    BY <1>1, <2>2, PostsChange
  <2>4. QED
    BY <1>1, <1>2, <1>3, <2>1, <2>3 DEF SenderHasKey
<1>4. CASE ClaimKey(w) /\ row(w) \notin processed /\ wpc'[w] = "posting"
  <2>1. posts' = posts /\ again' = again /\ o \in processed'
    BY <1>4 DEF ClaimKey, target
  <2>2. posts[o] <= again[o]
    BY <1>1, <1>2, <1>4 DEF AtMostOncePerKey
  <2>3. QED
    BY <1>1, <1>4, <2>1, <2>2
<1>5. CASE TargetAccepts(w) /\ wpc'[w] = "accepted"
  <2>1. processed' = processed /\ posts'[o] = posts[o] + 1 /\ wpc[w] = "posting"
    BY <1>1, <1>5 DEF TargetAccepts, redis, Shape
  <2>2. QED
    BY <1>1, <1>2, <1>5, <2>1 DEF SenderHasKey, Sending
<1>6. CASE TransportReplays(w) /\ wpc'[w] = "posting"
  <2>1. /\ processed' = processed /\ posts' = posts /\ again'[o] = again[o] + 1
        /\ wpc[w] = "accepted"
    BY <1>1, <1>6 DEF TransportReplays, redis, Shape
  <2>2. o \in processed
    BY <2>1 DEF SenderHasKey, Sending
  <2>3. posts[o] <= again[o] + 1
    BY <1>1, <2>2 DEF AtMostOncePerKey
  <2>4. QED
    BY <1>1, <1>2, <1>6, <2>1, <2>2, <2>3
<1>7. QED
  BY <1>3, <1>4, <1>5, <1>6, SenderChange

LEMMA AtMostOnceStep ==
  Shape /\ SenderHasKey /\ AtMostOncePerKey /\ Step => AtMostOncePerKey'
<1> SUFFICES ASSUME Shape, SenderHasKey, AtMostOncePerKey, Step, NEW o \in Rows
             PROVE  posts'[o] <= again'[o] + (IF o \in processed' THEN 1 ELSE 0)
  BY DEF AtMostOncePerKey
<1>1. /\ again[o] \in Nat /\ posts[o] \in Nat /\ again'[o] \in Nat /\ again'[o] >= again[o]
      /\ o \in processed => o \in processed' \/ again'[o] = again[o] + 1
  BY KeyChange
<1>2. posts[o] <= again[o] + (IF o \in processed THEN 1 ELSE 0)
  BY DEF AtMostOncePerKey
<1>3. CASE posts'[o] = posts[o]
  BY <1>1, <1>2, <1>3
<1>4. ASSUME NEW w \in Workers, wpc[w] = "posting", row(w) = o,
             posts'[o] = posts[o] + 1, processed' = processed, again' = again
      PROVE  posts'[o] <= again'[o] + (IF o \in processed' THEN 1 ELSE 0)
  <2>1. o \in processed /\ posts[o] <= again[o]
    BY <1>4 DEF SenderHasKey, Sending
  <2>2. QED
    BY <1>1, <1>4, <2>1
<1>5. QED
  BY <1>3, <1>4, PostsChange

LEMMA OneSenderStep == Shape /\ SenderHasKey /\ OneSenderPerRow /\ Step => OneSenderPerRow'
<1> SUFFICES ASSUME Shape, SenderHasKey, OneSenderPerRow, Step,
                    NEW v \in Workers, NEW w \in Workers, v # w,
                    wpc'[v] \in Sending, wpc'[w] \in Sending
             PROVE  row(v)' # row(w)'
  BY DEF OneSenderPerRow
<1>1. row(v)' = row(v) /\ row(w)' = row(w)
  BY SenderChange, RowKeeps
<1>2. ASSUME NEW x \in Workers, NEW y \in Workers, x # y, wpc'[y] \in Sending,
             ClaimKey(x), row(x) \notin processed
      PROVE  row(x) # row(y)
  <2>1. wpc[y] = wpc'[y]
    BY <1>2 DEF ClaimKey, Goto, Shape
  <2>2. QED
    BY <1>2, <2>1 DEF SenderHasKey
<1>3. CASE wpc[v] \in Sending /\ wpc[w] \in Sending
  BY <1>1, <1>3 DEF OneSenderPerRow
<1>4. QED
  BY <1>1, <1>2, <1>3, SenderChange DEF TargetAccepts, TransportReplays, Sending

LEMMA AckedStep == Shape /\ AckerSawKey /\ AckedIsProcessed /\ Step => AckedIsProcessed'
<1> SUFFICES ASSUME Shape, AckerSawKey, AckedIsProcessed, Step, NEW i \in Acked'
             PROVE  stream'[i] \in processed' \/ again'[stream'[i]] > 0
  BY DEF AckedIsProcessed
<1>1. ASSUME NEW o \in Rows, o \in processed \/ again[o] > 0
      PROVE  o \in processed' \/ again'[o] > 0
  BY <1>1, KeyChange
<1>2. CASE i \in Acked
  <2>1. i \in 1..Len(stream)
    BY <1>2 DEF Acked, Shape
  <2>2. QED
    BY <1>1, <1>2, <2>1, StreamKeeps DEF AckedIsProcessed
<1>3. ASSUME NEW w \in Workers, Ack(w), i = entry[w]
      PROVE  stream'[i] \in processed' \/ again'[stream'[i]] > 0
  <2>1. i \in 1..Len(stream) /\ row(w) \in Rows /\ row(w) = stream[i]
    BY <1>3, RowType DEF Ack, row
  <2>2. row(w) \in processed \/ again[row(w)] > 0
    BY <1>3 DEF Ack, AckerSawKey
  <2>3. QED
    BY <1>1, <2>1, <2>2, StreamKeeps
<1>4. i \in Acked \/ \E w \in Workers : Ack(w) /\ i = entry[w]
  <2>1. CASE pel' = pel /\ lastDelivered' = lastDelivered
    BY <2>1 DEF Acked
  <2>2. CASE Deliver
    BY <2>2 DEF Acked, Deliver, Shape
  <2>3. CASE \E w \in Workers : Ack(w) /\ lastDelivered' = lastDelivered /\ pel' = pel \ {entry[w]}
    BY <2>3 DEF Acked
  <2>4. QED
    BY <2>1, <2>2, <2>3, PendingChange
<1>5. QED
  BY <1>2, <1>3, <1>4
----------------------------------------------------------------------------
LEMMA InvStep == WorkerInv /\ Step => WorkerInv'
BY HolderStep, ShapeStep, SenderStep, AckerStep, AtMostOnceStep, OneSenderStep, AckedStep
   DEF WorkerInv

(* A step of the whole specification is a Step. *)
LEMMA NextIsStep == [Next]_vars => Step
BY DEF Next, Step, Environment, Publish, workers, vars

FaultsBounded == faults \in 0..MaxFaults

LEMMA FaultsStep == FaultsBounded /\ [Next]_vars => FaultsBounded'
<1> SUFFICES ASSUME faults \in 0..MaxFaults, [Next]_vars PROVE faults' \in 0..MaxFaults
  BY DEF FaultsBounded
<1>1. CASE faults' = faults
  BY <1>1
<1>2. CASE faults < MaxFaults /\ faults' = faults + 1
  BY <1>2, WorkerAssumption
<1>3. ASSUME NEW w \in Workers, WorkerStep(w) PROVE faults' = faults
  BY <1>3
     DEF WorkerStep, Start, ReadNothing, Read, ClaimKey, TargetAccepts, PostReturns, Ack, vars
<1>4. ASSUME NEW w \in Workers, WorkerFault(w) PROVE faults < MaxFaults /\ faults' = faults + 1
  BY <1>4
     DEF WorkerFault, StartFails, ReadLost, ClaimKeyFails, ClaimKeyResent, TargetRejects,
         PostFails, TransportReplays, AckFails, CrashWorker, Fault
<1>5. ASSUME NEW o \in Rows, ExpireKey(o) PROVE faults < MaxFaults /\ faults' = faults + 1
  BY <1>5 DEF ExpireKey, Fault
<1>6. QED
  BY <1>1, <1>2, <1>3, <1>4, <1>5 DEF Next, Publish, WorkerNext, vars

(* The inductive invariant: besides the types, who holds which entry and   *)
(* key, which is what the three safety properties below follow from.       *)
THEOREM WorkerInvHolds == Spec => []WorkerInv
<1>1. QED
  BY InitInv, InvStep, NextIsStep, PTL DEF Spec

(* Every reachable state is well typed, and a worker holds only entries    *)
(* that are pending.                                                       *)
THEOREM TypeCorrect == Spec => []TypeOK
<1>1. Init => FaultsBounded
  BY WorkerAssumption DEF Init, FaultsBounded
<1>2. WorkerInv /\ FaultsBounded => TypeOK
  BY DEF WorkerInv, Shape, TypeOK, FaultsBounded
<1>3. QED
  BY <1>1, <1>2, FaultsStep, WorkerInvHolds, PTL DEF Spec

(* handle: the dedupe key keeps the target from seeing a row twice. *)
THEOREM AtMostOncePerKeyHolds == Spec => []AtMostOncePerKey
<1>1. WorkerInv => AtMostOncePerKey
  BY DEF WorkerInv
<1>2. QED
  BY <1>1, WorkerInvHolds, PTL

(* handle: SETNX lets one worker through. *)
THEOREM OneSenderPerRowHolds == Spec => []OneSenderPerRow
<1>1. WorkerInv => OneSenderPerRow
  BY DEF WorkerInv
<1>2. QED
  BY <1>1, WorkerInvHolds, PTL

(* Run: XACK only after handle has seen the row's key. *)
THEOREM AckedIsProcessedHolds == Spec => []AckedIsProcessed
<1>1. WorkerInv => AckedIsProcessed
  BY DEF WorkerInv
<1>2. QED
  BY <1>1, WorkerInvHolds, PTL

----------------------------------------------------------------------------
(* An undelivered row keeps a pending entry, except the rows of a set S    *)
(* whose SETNX was re-sent.  The witness must survive the acknowledgement  *)
(* of the row's other copies: it is an entry nobody is about to            *)
(* acknowledge, and once the key is taken, the entry that took it.         *)
NotAcked(j) == \A w \in Workers : entry[w] = j => wpc[w] # "acking"
TookKey(j) == \A w \in Workers : entry[w] = j => wpc[w] \in Sending

KeyHasWitness(S) ==
  \A o \in processed \ S : posts[o] = 0 => \E j \in pel : stream[j] = o /\ TookKey(j)

EntryHasWitness(S) ==
  \A i \in 1..lastDelivered :
    stream[i] \notin S /\ posts[stream[i]] = 0 =>
      \E j \in pel : stream[j] = stream[i] /\ NotAcked(j)

(* This step re-sends the SETNX of no row outside S. *)
Excused(S) == \A w \in Workers : ClaimKeyResent(w) => row(w) \in S

NoResend == "resend" \notin FaultKinds

LEMMA PostsGrow ==
  ASSUME Shape, Step, NEW o \in Rows
  PROVE  posts'[o] = 0 => posts[o] = 0
BY PostsChange DEF Shape

(* How an entry comes to be acknowledged. *)
LEMMA AckerChange ==
  ASSUME Shape, Step, NEW w \in Workers, wpc'[w] = "acking"
  PROVE  /\ wpc[w] \notin {"starting", "reading"} /\ entry'[w] = entry[w]
         /\ wpc[w] \in {"acking", "accepted"} \/ row(w) \in processed'
<1>1. wpc[w] \notin {"starting", "reading"} /\ entry'[w] = entry[w]
  BY Moves DEF Sending
<1>2. QED
  BY <1>1
     DEF Step, Environment, workers, WorkerNext, WorkerStep, WorkerFault, Start, StartFails,
         ReadNothing, Read, ReadLost, ClaimKey, ClaimKeyFails, ClaimKeyResent, TargetAccepts,
         TargetRejects, PostFails, TransportReplays, PostReturns, Ack, AckFails, CrashWorker,
         ExpireKey, vars, Goto, Forget, Abandon, Sending, Shape

(* A pending entry nobody is acknowledging is still pending afterwards. *)
LEMMA WitnessStaysPending ==
  ASSUME Shape, Step, NEW j \in pel, NotAcked(j)
  PROVE  j \in pel' /\ j \in 1..lastDelivered /\ j # 0 /\ stream'[j] = stream[j] /\ stream[j] \in Rows
<1>1. ASSUME NEW w \in Workers, Ack(w) PROVE entry[w] # j
  BY <1>1 DEF Ack, NotAcked
<1>2. j \in pel'
  BY <1>1, PendingChange DEF Deliver
<1>3. j \in 1..lastDelivered /\ j \in 1..Len(stream)
  BY DEF Shape
<1>4. QED
  BY <1>2, <1>3, StreamKeeps

LEMMA KeyWitnessStep ==
  ASSUME NEW S, Excused(S), Shape, OneHolderPerEntry, SenderHasKey, KeyHasWitness(S), Step
  PROVE  KeyHasWitness(S)'
<1> SUFFICES ASSUME NEW o \in processed', o \notin S, posts'[o] = 0
             PROVE  \E j \in pel' : stream'[j] = o /\ TookKey(j)'
  BY DEF KeyHasWitness
<1>1. o \in Rows /\ posts[o] = 0
  BY ShapeStep, PostsGrow DEF Shape
<1>2. CASE o \in processed
  <2>1. PICK j \in pel : stream[j] = o /\ TookKey(j)
    BY <1>1, <1>2 DEF KeyHasWitness
  <2>2. j \in pel' /\ j \in 1..lastDelivered /\ j # 0 /\ stream'[j] = o
    BY <2>1, WitnessStaysPending DEF TookKey, NotAcked, Sending
  <2>3. ASSUME NEW w \in Workers, entry'[w] = j PROVE wpc'[w] \in Sending
    <3>1. entry[w] = j /\ wpc[w] \in Sending
      <4>1. lastDelivered + 1 # j
        BY <2>2 DEF Shape
      <4>2. QED
        BY <2>1, <2>2, <2>3, <4>1, Moves DEF TookKey
    <3>2. wpc[w] # "accepted"
      BY <1>1, <2>1, <3>1 DEF SenderHasKey, row
    <3>3. wpc'[w] # "acking" \/ wpc[w] = "accepted"
      BY <3>1
         DEF Step, Environment, workers, WorkerNext, WorkerStep, WorkerFault, Start, StartFails,
             ReadNothing, Read, ReadLost, ClaimKey, ClaimKeyFails, ClaimKeyResent, TargetAccepts,
             TargetRejects, PostFails, TransportReplays, PostReturns, Ack, AckFails, CrashWorker,
             ExpireKey, vars, Goto, Forget, Abandon, Sending, Shape
    <3>4. QED
      BY <2>2, <2>3, <3>1, <3>2, <3>3, Moves DEF Sending
  <2>4. QED
    BY <2>2, <2>3 DEF TookKey
<1>3. CASE o \notin processed
  <2>1. PICK w \in Workers : /\ ClaimKey(w) \/ ClaimKeyFails(w)
                             /\ row(w) = o
    <3>1. PICK w \in Workers : /\ ClaimKey(w) \/ ClaimKeyFails(w) \/ ClaimKeyResent(w)
                               /\ row(w) = o
      BY <1>3
         DEF Step, Environment, workers, WorkerNext, WorkerStep, WorkerFault, Start, StartFails,
             ReadNothing, Read, ReadLost, ClaimKey, ClaimKeyFails, ClaimKeyResent, TargetAccepts,
             TargetRejects, PostFails, TransportReplays, PostReturns, Ack, AckFails, CrashWorker,
             ExpireKey, vars, redis
    <3>2. QED
      BY <3>1 DEF Excused
  <2>2. wpc[w] = "claiming" /\ pel' = pel /\ stream' = stream
    BY <2>1 DEF ClaimKey, ClaimKeyFails
  <2>3. entry[w] \in pel /\ entry[w] # 0 /\ stream'[entry[w]] = o
    BY <2>1, <2>2, RowType DEF row
  <2>4. ASSUME NEW v \in Workers, entry'[v] = entry[w] PROVE wpc'[v] \in Sending
    <3>1. CASE v = w
      <4>1. ~ ClaimKeyFails(w)
        BY <2>3, <2>4, <3>1 DEF ClaimKeyFails, Abandon, Forget, Shape
      <4>2. wpc'[w] = "posting"
        BY <1>3, <2>1, <4>1 DEF ClaimKey, Goto, Shape
      <4>3. QED
        BY <3>1, <4>2 DEF Sending
    <3>2. CASE v # w
      <4>1. entry'[v] = entry[v]
        BY <2>1, <3>2 DEF ClaimKey, ClaimKeyFails, Abandon, Forget, Shape
      <4>2. QED
        BY <2>3, <2>4, <3>2, <4>1 DEF OneHolderPerEntry
    <3>3. QED
      BY <3>1, <3>2
  <2>5. QED
    BY <2>2, <2>3, <2>4 DEF TookKey
<1>4. QED
  BY <1>2, <1>3

LEMMA EntryWitnessStep ==
  ASSUME NEW S, Shape, SenderHasKey, EntryHasWitness(S), KeyHasWitness(S)', Step
  PROVE  EntryHasWitness(S)'
<1> SUFFICES ASSUME NEW i \in (1..lastDelivered)', stream'[i] \notin S, posts'[stream'[i]] = 0
             PROVE  \E j \in pel' : stream'[j] = stream'[i] /\ NotAcked(j)'
  BY DEF EntryHasWitness
<1>1. CASE stream'[i] \in processed'
  <2>1. PICK j \in pel' : stream'[j] = stream'[i] /\ TookKey(j)'
    BY <1>1 DEF KeyHasWitness
  <2>2. QED
    BY <2>1 DEF TookKey, NotAcked, Sending
<1>2. CASE stream'[i] \notin processed' /\ i \in 1..lastDelivered
  <2>1. stream'[i] = stream[i] /\ stream[i] \in Rows
    <3>1. i \in 1..Len(stream)
      BY <1>2 DEF Shape
    <3>2. QED
      BY <3>1, StreamKeeps
  <2>2. posts[stream[i]] = 0
    BY <2>1, PostsGrow
  <2>3. PICK j \in pel : stream[j] = stream[i] /\ NotAcked(j)
    BY <1>2, <2>1, <2>2 DEF EntryHasWitness
  <2>4. j \in pel' /\ stream'[j] = stream[i]
    BY <2>3, WitnessStaysPending
  <2>5. ASSUME NEW w \in Workers, entry'[w] = j, wpc'[w] = "acking" PROVE FALSE
    <3>1. /\ entry[w] = j /\ row(w) = stream[i]
          /\ wpc[w] \in {"acking", "accepted"} \/ row(w) \in processed'
      BY <2>3, <2>5, AckerChange DEF row
    <3>2. wpc[w] # "acking"
      BY <2>3, <3>1 DEF NotAcked
    <3>3. wpc[w] # "accepted"
      BY <2>2, <3>1 DEF SenderHasKey
    <3>4. QED
      BY <1>2, <2>1, <3>1, <3>2, <3>3
  <2>6. QED
    BY <2>1, <2>4, <2>5 DEF NotAcked
<1>3. CASE i \notin 1..lastDelivered
  <2>1. lastDelivered \in Nat
    BY DEF Shape
  <2>2. Deliver /\ i = lastDelivered + 1 /\ i \in pel'
    BY <1>3, <2>1, PendingChange DEF Deliver
  <2>3. ASSUME NEW w \in Workers, entry'[w] = i, wpc'[w] = "acking" PROVE FALSE
    <3>1. entry[w] = i /\ wpc[w] \notin {"starting", "reading"}
      BY <2>3, AckerChange
    <3>2. QED
      BY <1>3, <3>1, RowType
  <2>4. QED
    BY <2>2, <2>3 DEF NotAcked
<1>4. QED
  BY <1>1, <1>2, <1>3

WitnessInv(S) == WorkerInv /\ KeyHasWitness(S) /\ EntryHasWitness(S)

LEMMA WitnessInit == ASSUME NEW S, Init PROVE KeyHasWitness(S) /\ EntryHasWitness(S)
BY DEF Init, KeyHasWitness, EntryHasWitness

LEMMA WitnessStep ==
  ASSUME NEW S, Excused(S), WitnessInv(S), Step
  PROVE  WitnessInv(S)'
BY InvStep, KeyWitnessStep, EntryWitnessStep DEF WitnessInv, WorkerInv

LEMMA NobodyResends == NoResend => Excused({})
BY DEF NoResend, Excused, ClaimKeyResent, Fault

(* The pending entries list holds the evidence of every row read and not   *)
(* delivered, as long as no SETNX is re-sent after a lost reply.           *)
THEOREM UndeliveredStaysPendingHolds ==
  ASSUME NoResend PROVE Spec => []UndeliveredStaysPending
<1>1. Init => WitnessInv({})
  BY InitInv, WitnessInit DEF WitnessInv
<1>2. WitnessInv({}) /\ [Next]_vars => WitnessInv({})'
  BY WitnessStep, NobodyResends, NextIsStep
<1>3. WitnessInv({}) => UndeliveredStaysPending
  BY DEF WitnessInv, EntryHasWitness, UndeliveredStaysPending
<1>4. QED
  BY <1>1, <1>2, <1>3, PTL DEF Spec

----------------------------------------------------------------------------
(* With re-sent SETNX: each of them lets one row disappear, and no more.   *)

(* There is a set of excuses, one per fault at most. *)
FewExcused ==
  /\ faults \in Nat
  /\ \E S \in SUBSET Rows : IsFiniteSet(S) /\ Cardinality(S) <= faults /\ WitnessInv(S)

LEMMA FewExcusedInit == Init => FewExcused
<1> SUFFICES ASSUME Init PROVE FewExcused
  OBVIOUS
<1>1. WitnessInv({}) /\ faults = 0
  BY InitInv, WitnessInit DEF WitnessInv, Init
<1>2. IsFiniteSet({}) /\ Cardinality({}) = 0
  BY FS_EmptySet
<1>3. QED
  BY <1>1, <1>2 DEF FewExcused

(* A set of excuses is one also for a bigger one. *)
LEMMA WitnessInvGrows ==
  ASSUME NEW S, NEW T, S \subseteq T, WitnessInv(S)
  PROVE  WitnessInv(T)
BY DEF WitnessInv, KeyHasWitness, EntryHasWitness

(* One step re-sends one SETNX. *)
LEMMA OneResend ==
  ASSUME Shape, NEW v \in Workers, NEW w \in Workers, ClaimKeyResent(v), ClaimKeyResent(w)
  PROVE  v = w
BY DEF ClaimKeyResent, Goto, Shape

LEMMA FewExcusedStep ==
  ASSUME FewExcused, Step, faults' \in Nat, faults <= faults'
  PROVE  FewExcused'
<1>1. PICK S \in SUBSET Rows : IsFiniteSet(S) /\ Cardinality(S) <= faults /\ WitnessInv(S)
  BY DEF FewExcused
<1>2. faults \in Nat /\ Cardinality(S) \in Nat /\ Shape
  BY <1>1, FS_CardinalityType DEF FewExcused, WitnessInv, WorkerInv
<1>3. CASE Excused(S)
  <2>1. WitnessInv(S)'
    BY <1>1, <1>3, WitnessStep
  <2>2. Cardinality(S) <= faults'
    BY <1>1, <1>2
  <2>3. QED
    BY <1>1, <2>1, <2>2 DEF FewExcused
<1>4. CASE ~ Excused(S)
  <2>1. PICK w \in Workers : ClaimKeyResent(w) /\ row(w) \notin S
    BY <1>4 DEF Excused
  <2>2. row(w) \in Rows /\ faults' = faults + 1
    BY <1>2, <2>1, RowType DEF ClaimKeyResent, Fault
  <2> DEFINE T == S \cup {row(w)}
  <2>3. IsFiniteSet(T) /\ Cardinality(T) = Cardinality(S) + 1
    BY <1>1, <2>1, FS_AddElement
  <2>4. \A v \in Workers : ClaimKeyResent(v) => row(v) \in T
    BY <1>2, <2>1, OneResend
  <2>5. PICK U \in SUBSET Rows : U = T
    BY <2>2
  <2>6. Excused(U) /\ WitnessInv(U)
    BY <1>1, <2>4, <2>5, WitnessInvGrows DEF Excused
  <2>7. WitnessInv(U)'
    BY <2>6, WitnessStep
  <2>8. IsFiniteSet(U) /\ Cardinality(U) <= faults'
    BY <1>1, <1>2, <2>2, <2>3, <2>5
  <2>9. QED
    BY <2>7, <2>8 DEF FewExcused
<1>5. QED
  BY <1>3, <1>4

LEMMA FaultsGrow == FaultsBounded /\ [Next]_vars => faults' \in Nat /\ faults <= faults'
<1> SUFFICES ASSUME FaultsBounded, [Next]_vars PROVE faults' \in Nat /\ faults <= faults'
  OBVIOUS
<1>1. faults \in Nat
  BY WorkerAssumption DEF FaultsBounded
<1>2. faults' = faults \/ faults' = faults + 1
  BY DEF Next, Publish, WorkerNext, WorkerStep, WorkerFault, Start, StartFails, ReadNothing, Read,
         ReadLost, ClaimKey, ClaimKeyFails, ClaimKeyResent, TargetAccepts, TargetRejects, PostFails,
         TransportReplays, PostReturns, Ack, AckFails, CrashWorker, ExpireKey, Fault, vars
<1>3. QED
  BY <1>1, <1>2

(* Who has vanished has been excused. *)
LEMMA VanishedExcused ==
  ASSUME NEW S, WitnessInv(S)
  PROVE  Vanished \subseteq S
BY DEF Vanished, WitnessInv, EntryHasWitness

(* Whatever else fails with it: crashes, failed POSTs and expired keys     *)
(* leave their rows in the pending entries list, and only a re-sent SETNX  *)
(* takes a row, one, out of everybody's sight.                             *)
THEOREM VanishedNeedFaultsHolds == Spec => []VanishedNeedFaults
<1>1. FewExcused => VanishedNeedFaults
  <2>1. SUFFICES ASSUME FewExcused PROVE VanishedNeedFaults
    OBVIOUS
  <2>2. PICK S \in SUBSET Rows : IsFiniteSet(S) /\ Cardinality(S) <= faults /\ WitnessInv(S)
    BY <2>1 DEF FewExcused
  <2>3. Vanished \subseteq S
    BY <2>2, VanishedExcused
  <2>4. IsFiniteSet(Vanished) /\ Cardinality(Vanished) <= Cardinality(S)
    BY <2>2, <2>3, FS_Subset
  <2>5. Cardinality(Vanished) \in Nat /\ Cardinality(S) \in Nat /\ faults \in Nat
    BY <2>1, <2>2, <2>4, FS_CardinalityType DEF FewExcused
  <2>6. QED
    BY <2>2, <2>4, <2>5 DEF VanishedNeedFaults
<1>2. FewExcused /\ FaultsBounded /\ [Next]_vars => FewExcused' /\ FaultsBounded'
  BY FewExcusedStep, FaultsStep, FaultsGrow, NextIsStep
<1>3. Init => FaultsBounded
  BY WorkerAssumption DEF Init, FaultsBounded
<1>4. QED
  BY <1>1, <1>2, <1>3, FewExcusedInit, PTL DEF Spec
=============================================================================
