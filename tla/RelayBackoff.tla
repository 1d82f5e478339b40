---------------------------- MODULE RelayBackoff ----------------------------
(***************************************************************************)
(* The waits of the outbox relay: OutboxRelay says whether a row is due,   *)
(* this module says when.  process() of internal/workers/outboxrelay sends *)
(* the whole batch back after a failed push, for one common wait, which it *)
(* computes from the smallest attempts of the batch in 64-bit arithmetic.  *)
(*                                                                         *)
(* The claim and the mark are a step each, and the rows carry their        *)
(* next_attempt_at.  Time is counted in nanoseconds, of which Second make  *)
(* a second, and passes a second at a time.                                *)
(***************************************************************************)
EXTENDS Integers, FiniteSets

CONSTANTS
  Rows,         \* ids of the outbox rows that may be inserted
  Relays,       \* relay loops, one per running API process
  BatchSize,    \* r.batchSize
  MaxAttempts,  \* r.maxAttempts
  Second,       \* time.Second
  Longest,      \* the 5 minutes of backoff, in seconds
  Range64,      \* the number of values of a time.Duration, 2^64
  Skew,         \* seconds by which a relay's clock may be behind PostgreSQL's
  MaxLost,      \* bound on the number of ticks that end without a mark
  MaxSeconds    \* bound on the time

ASSUME BackoffAssumption ==
  /\ Rows \subseteq Nat
  /\ BatchSize \in Nat \ {0} /\ MaxAttempts \in Nat \ {0}
  /\ Second \in Nat \ {0} /\ Longest \in Nat \ {0, 1}
  /\ Range64 \in Nat \ {0}
  /\ Skew \in 0..2 /\ MaxLost \in Nat /\ MaxSeconds \in Nat

(* 1<<n, before it is cut to 64 bits. *)
Pow2[n \in Nat] == IF n = 0 THEN 1 ELSE 2 * Pow2[n - 1]

(* What maxAttempts = 10 leaves to spare: 2^9 seconds fit a Duration.      *)
ASSUME ShiftFits == Pow2[MaxAttempts - 1] * Second * 2 < Range64

VARIABLES
  status,    \* Rows -> "absent" until inserted, then the status column
  attempts,  \* Rows -> the attempts column
  next,      \* Rows -> the next_attempt_at column, by PostgreSQL's clock
  batch,     \* Relays -> Rows -> attempts the claim returned, 0: not claimed
  now,       \* PostgreSQL's clock
  lost,      \* number of ticks that ended without a mark
  fails,     \* history: Relays -> Rows -> times this relay marked it as failed
  first      \* history: Rows -> when a relay first marked it as failed

table == <<status, attempts, next>>
history == <<fails, first>>
vars == <<table, batch, now, lost, history>>

Status == {"absent", "pending", "dispatched", "dead"}

Claimed(r) == {o \in Rows : batch[r][o] > 0}

Nothing == [o \in Rows |-> 0]

----------------------------------------------------------------------------
Init ==
  /\ status = [o \in Rows |-> "absent"]
  /\ attempts = [o \in Rows |-> 0]
  /\ next = [o \in Rows |-> 0]
  /\ batch = [r \in Relays |-> Nothing]
  /\ now = 0
  /\ lost = 0
  /\ fails = [r \in Relays |-> Nothing]
  /\ first = [o \in Rows |-> 0]

Enqueue(o) ==
  /\ status[o] = "absent"
  /\ status' = [status EXCEPT ![o] = "pending"]
  /\ next' = [next EXCEPT ![o] = now]
  /\ UNCHANGED <<attempts, batch, now, lost, history>>

Pass ==
  /\ now < MaxSeconds * Second
  /\ now' = now + Second
  /\ UNCHANGED <<table, batch, lost, history>>

----------------------------------------------------------------------------
CountAttempt(rows) == [o \in Rows |-> IF o \in rows THEN attempts[o] + 1 ELSE attempts[o]]

Claimable == {o \in Rows : status[o] = "pending" /\ next[o] <= now}

(* A tick's first transaction: ORDER BY id, LIMIT BatchSize. *)
ClaimBatch(r) ==
  LET rows == {o \in Claimable : Cardinality({p \in Claimable : p < o}) < BatchSize}
  IN  /\ Claimed(r) = {} /\ rows # {}
      /\ attempts' = CountAttempt(rows)
      /\ batch' = [batch EXCEPT ![r] =
                     [o \in Rows |-> IF o \in rows THEN attempts[o] + 1 ELSE 0]]
      /\ UNCHANGED <<status, next, now, lost, history>>

(* A tick that finds no row to claim. *)
ClaimNothing(r) == Claimed(r) = {} /\ Claimable = {} /\ UNCHANGED vars

Finish(r) == batch' = [batch EXCEPT ![r] = Nothing]

(* The claim's commit is not reported, a mark fails or the process dies:   *)
(* the attempt is counted and nothing else happens.                        *)
TickLost(r) ==
  /\ Claimed(r) # {}
  /\ lost < MaxLost
  /\ lost' = lost + 1
  /\ Finish(r)
  /\ UNCHANGED <<table, now, history>>

MarkDispatched(r) ==
  /\ Claimed(r) # {}
  /\ status' = [o \in Rows |-> IF o \in Claimed(r) THEN "dispatched" ELSE status[o]]
  /\ Finish(r)
  /\ UNCHANGED <<attempts, next, now, lost, history>>

----------------------------------------------------------------------------
(* An int64 that has wrapped around. *)
Wrap(n) ==
  LET m == n % Range64
  IN  IF 2 * m >= Range64 THEN m - Range64 ELSE m

(* time.Duration(1<<attempt) * time.Second *)
Shifted(attempt) == Wrap(Wrap(Pow2[attempt]) * Second)

(* Seeded bug: the exponent counts from zero, and the floor is forgotten. *)
BackoffFromZero(attempt) ==
  IF Shifted(attempt - 1) > Longest * Second THEN Longest * Second ELSE Shifted(attempt - 1)

backoff(attempt) ==
  IF Shifted(attempt) < 2 * Second THEN 2 * Second
  ELSE IF Shifted(attempt) > Longest * Second THEN Longest * Second
  ELSE Shifted(attempt)

(* Seeded bug: the comparison is the wrong way round. *)
MinAttemptsLargest(r) ==
  CHOOSE n \in {batch[r][o] : o \in Claimed(r)} : \A o \in Claimed(r) : batch[r][o] <= n

minAttempts(r) ==
  CHOOSE n \in {batch[r][o] : o \in Claimed(r)} : \A o \in Claimed(r) : n <= batch[r][o]

(* ev.Attempts >= r.maxAttempts *)
Exhausted(r) == {o \in Claimed(r) : batch[r][o] >= MaxAttempts}

Retried(r) == Claimed(r) \ Exhausted(r)

(* The push failed: MarkDead and MarkRetryBatch, which look at no status.  *)
(* time.Now is the relay's clock.                                          *)
MarkFailed(r) ==
  /\ Claimed(r) # {}
  /\ status' = [o \in Rows |-> IF o \in Exhausted(r) THEN "dead"
                               ELSE IF o \in Retried(r) THEN "pending" ELSE status[o]]
  /\ \E behind \in 0..Skew :
       next' = [o \in Rows |-> IF o \in Retried(r)
                               THEN now - behind * Second + backoff(minAttempts(r)) ELSE next[o]]
  /\ fails' = [fails EXCEPT ![r] =
                 [o \in Rows |-> IF o \in Claimed(r) THEN fails[r][o] + 1 ELSE fails[r][o]]]
  /\ first' = [o \in Rows |-> IF o \in Claimed(r) /\ \A q \in Relays : fails[q][o] = 0
                              THEN now ELSE first[o]]
  /\ Finish(r)
  /\ UNCHANGED <<attempts, now, lost>>

----------------------------------------------------------------------------
Next ==
  \/ \E o \in Rows : Enqueue(o)
  \/ Pass
  \/ \E r \in Relays :
       ClaimBatch(r) \/ ClaimNothing(r) \/ TickLost(r) \/ MarkDispatched(r) \/ MarkFailed(r)

Spec == Init /\ [][Next]_vars

----------------------------------------------------------------------------
(* The shape of the state; a relay knows of no attempt that is not counted.*)
TypeOK ==
  /\ status \in [Rows -> Status]
  /\ attempts \in [Rows -> Nat]
  /\ next \in [Rows -> Nat]
  /\ batch \in [Relays -> [Rows -> Nat]]
  /\ now \in Nat
  /\ lost \in 0..MaxLost
  /\ fails \in [Relays -> [Rows -> Nat]]
  /\ first \in [Rows -> Nat]
  /\ \A r \in Relays, o \in Rows : batch[r][o] <= attempts[o]

Held == [r \in Relays |-> {[id |-> o, attempts |-> batch[r][o]] : o \in Claimed(r)}]

T == INSTANCE OutboxTable WITH held <- Held

(* The waits leave the life of a row as it is: rows are claimed, counted   *)
(* and marked here as they are by the relay that takes a step at a time.   *)
ClaimsAreCounted == T!Spec

(* What a row with these attempts is owed, were numbers unbounded. *)
Owed(n) == IF Pow2[n] > Longest THEN Longest * Second ELSE Pow2[n] * Second

(* A batch waits for what its youngest row is owed, so nobody waits longer *)
(* than its own attempts say.  The rows that are given up share the        *)
(* computation, and lost ticks may take their attempts past the point where*)
(* the shift overflows; the wait that is written never suffers from it.    *)
WaitIsOwed ==
  \A r \in Relays : Retried(r) # {} =>
    /\ \A o \in Retried(r) : backoff(minAttempts(r)) <= Owed(batch[r][o])
    /\ \E o \in Retried(r) : backoff(minAttempts(r)) = Owed(batch[r][o])

(* One relay fails a row at most once in two seconds, less the skew of its *)
(* clock, although other relays claim the row as well and overwrite its    *)
(* next_attempt_at: an outage of Redis that is shorter than 18 seconds     *)
(* does not use up the ten attempts of a single relay.                     *)
AttemptsTakeTime ==
  \A r \in Relays, o \in Rows :
    fails[r][o] > 0 => (fails[r][o] - 1) * (2 - Skew) * Second <= now - first[o]
=============================================================================
