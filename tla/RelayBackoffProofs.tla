------------------------- MODULE RelayBackoffProofs -------------------------
(***************************************************************************)
(* A relay tries a row at most once per wait, for any number of rows,      *)
(* relays and lost ticks, whatever the shift of backoff overflows to.      *)
(***************************************************************************)
EXTENDS RelayBackoff, WellFoundedInduction, FiniteSetTheorems, TLAPS

(* The least time between two attempts of one relay. *)
Rest == (2 - Skew) * Second

Worth(n) == n * Rest

(* What a relay's failed attempts have cost until now, until its next      *)
(* attempt when it holds the row, and until the next claim.                *)
Paid(r, o) ==
  /\ Worth(fails[r][o]) <= now - first[o] + Rest
  /\ batch[r][o] > 0 => Worth(fails[r][o]) <= now - first[o]
  /\ status[o] = "pending" => Worth(fails[r][o]) <= next[o] - first[o]

BackoffInv ==
  /\ TypeOK
  /\ \A o \in Rows : first[o] <= now
  /\ \A r \in Relays, o \in Rows :
       /\ status[o] = "absent" => batch[r][o] = 0 /\ fails[r][o] = 0
       /\ Paid(r, o)

----------------------------------------------------------------------------
LEMMA RestType == Rest \in Nat /\ 2 * Second - Skew * Second = Rest
BY BackoffAssumption DEF Rest

LEMMA WorthFacts ==
  /\ Worth(0) = 0
  /\ \A n \in Nat : Worth(n) \in Int /\ Worth(n + 1) = Worth(n) + Rest
BY RestType DEF Worth

LEMMA LessIsWellFounded == \A x, y \in Nat : y < x => <<y, x>> \in OpToRel(<, Nat)
<1>1. SUFFICES ASSUME NEW x \in Nat, NEW y \in Nat, y < x PROVE <<y, x>> \in OpToRel(<, Nat)
  OBVIOUS
<1>2. <<y, x>> \in Nat \X Nat
  OBVIOUS
<1>3. <<y, x>>[1] < <<y, x>>[2]
  BY <1>1
<1>4. QED
  BY <1>2, <1>3, Zenon DEF OpToRel

(* A set of numbers has a smallest one; the set need not be finite. *)
LEMMA MinimumExists ==
  ASSUME NEW M, M \subseteq Nat, M # {}
  PROVE  \E x \in M : \A y \in M : x <= y
<1>1. \E x \in M : \A y \in M : ~ (<<y, x>> \in OpToRel(<, Nat))
  BY NatLessThanWellFounded, WFMin
<1>2. PICK x \in M : \A y \in M : ~ (<<y, x>> \in OpToRel(<, Nat))
  BY <1>1
<1>3. \A y \in M : ~ (y < x)
  BY <1>2, LessIsWellFounded, Zenon
<1>4. QED
  BY <1>3

(* Induction on a set of numbers that holds 0 and is closed under + 1.     *)
LEMMA SetInduction ==
  ASSUME NEW M, 0 \in M, \A n \in Nat : n \in M => n + 1 \in M
  PROVE  Nat \subseteq M
<1>1. SUFFICES ASSUME Nat \ M # {} PROVE FALSE
  OBVIOUS
<1>2. PICK x \in Nat \ M : \A y \in Nat \ M : x <= y
  BY <1>1, MinimumExists
<1>3. x - 1 \in Nat /\ x - 1 \notin Nat \ M
  BY <1>2
<1>4. (x - 1) + 1 \in M
  BY <1>3
<1>5. QED
  BY <1>2, <1>4

----------------------------------------------------------------------------
(* The powers of two, tabulated up to n. *)
Powers(n) ==
  {f \in [0..n -> Nat \ {0}] : f[0] = 1 /\ \A i \in 1..n : f[i] = 2 * f[i - 1]}

LEMMA PowersExist == \A n \in Nat : Powers(n) # {}
<1> DEFINE M == {n \in Nat : Powers(n) # {}}
<1>1. 0 \in M
  <2>1. [i \in 0..0 |-> 1] \in Powers(0)
    BY DEF Powers
  <2>2. QED
    BY <2>1
<1>2. ASSUME NEW n \in Nat, n \in M PROVE n + 1 \in M
  <2>1. PICK f : f \in Powers(n)
    BY <1>2
  <2> DEFINE g == [i \in 0..(n + 1) |-> IF i = n + 1 THEN 2 * f[n] ELSE f[i]]
  <2>2. f \in [0..n -> Nat \ {0}] /\ f[0] = 1 /\ \A i \in 1..n : f[i] = 2 * f[i - 1]
    BY <2>1 DEF Powers
  <2>3. g \in [0..(n + 1) -> Nat \ {0}]
    BY <2>2
  <2>4. g[0] = 1 /\ \A i \in 1..(n + 1) : g[i] = 2 * g[i - 1]
    BY <2>2
  <2>5. g \in Powers(n + 1)
    BY <2>3, <2>4 DEF Powers
  <2>6. QED
    BY <2>5
<1>3. Nat \subseteq M
  <2> HIDE DEF M
  <2>1. QED
    BY <1>1, <1>2, SetInduction
<1>4. QED
  BY <1>3

LEMMA PowersAgree ==
  ASSUME NEW m \in Nat, NEW n \in Nat, m <= n, NEW f \in Powers(m), NEW g \in Powers(n)
  PROVE  \A i \in 0..m : f[i] = g[i]
<1> DEFINE M == {i \in Nat : i <= m => f[i] = g[i]}
<1>1. 0 \in M
  BY DEF Powers
<1>2. ASSUME NEW i \in Nat, i \in M PROVE i + 1 \in M
  <2>1. SUFFICES ASSUME i + 1 <= m PROVE f[i + 1] = g[i + 1]
    OBVIOUS
  <2>2. f[i] = g[i] /\ i + 1 \in 1..m /\ i + 1 \in 1..n /\ (i + 1) - 1 = i
    BY <1>2, <2>1
  <2>3. f[i + 1] = 2 * f[(i + 1) - 1] /\ g[i + 1] = 2 * g[(i + 1) - 1]
    BY <2>2 DEF Powers
  <2>4. QED
    BY <2>2, <2>3
<1>3. Nat \subseteq M
  <2> HIDE DEF M
  <2>1. QED
    BY <1>1, <1>2, SetInduction
<1>4. QED
  BY <1>3

(* The recursive function exists, and is what its definition says.         *)
LEMMA Pow2Def == Pow2 = [n \in Nat |-> IF n = 0 THEN 1 ELSE 2 * Pow2[n - 1]]
<1> DEFINE upto(n) == CHOOSE f : f \in Powers(n)
           G == [n \in Nat |-> upto(n)[n]]
<1>1. \A n \in Nat : upto(n) \in Powers(n)
  BY PowersExist
<1> HIDE DEF upto
<1>2. G[0] = 1
  BY <1>1 DEF Powers
<1>3. ASSUME NEW n \in Nat, n # 0 PROVE G[n] = 2 * G[n - 1]
  <2>1. n - 1 \in Nat /\ n - 1 <= n /\ n - 1 \in 0..(n - 1) /\ n \in 1..n
    BY <1>3
  <2>2. upto(n - 1)[n - 1] = upto(n)[n - 1]
    BY <1>1, <2>1, PowersAgree
  <2>3. upto(n)[n] = 2 * upto(n)[n - 1]
    BY <1>1, <2>1 DEF Powers
  <2>4. QED
    BY <2>1, <2>2, <2>3
<1>4. \A n \in Nat : G[n] = IF n = 0 THEN 1 ELSE 2 * G[n - 1]
  BY <1>2, <1>3
<1>5. \E g : g = [n \in Nat |-> IF n = 0 THEN 1 ELSE 2 * g[n - 1]]
  <2>1. G = [n \in Nat |-> G[n]]
    OBVIOUS
  <2> HIDE DEF G
  <2>2. G = [n \in Nat |-> IF n = 0 THEN 1 ELSE 2 * G[n - 1]]
    BY <1>4, <2>1
  <2>3. QED
    BY <2>2
<1>6. QED
  BY <1>5 DEF Pow2

LEMMA Pow2Facts ==
  /\ Pow2[0] = 1
  /\ \A n \in Nat : Pow2[n] \in Nat \ {0} /\ Pow2[n + 1] = 2 * Pow2[n]
<1>1. Pow2[0] = 1
  BY Pow2Def
<1>2. \A n \in Nat : Pow2[n + 1] = 2 * Pow2[n]
  <2>1. TAKE n \in Nat
  <2>2. n + 1 \in Nat /\ n + 1 # 0 /\ (n + 1) - 1 = n
    OBVIOUS
  <2>3. Pow2[n + 1] = 2 * Pow2[(n + 1) - 1]
    BY <2>2, Pow2Def
  <2>4. QED
    BY <2>2, <2>3
<1> DEFINE M == {n \in Nat : Pow2[n] \in Nat \ {0}}
<1>3. 0 \in M /\ \A n \in Nat : n \in M => n + 1 \in M
  BY <1>1, <1>2
<1>4. Nat \subseteq M
  <2> HIDE DEF M
  <2>1. QED
    BY <1>3, SetInduction
<1>5. QED
  BY <1>1, <1>2, <1>4

LEMMA Pow2Grows ==
  ASSUME NEW m \in Nat, NEW n \in Nat, m <= n
  PROVE  Pow2[m] <= Pow2[n]
<1> DEFINE M == {k \in Nat : Pow2[m] <= Pow2[m + k]}
<1>1. 0 \in M
  BY Pow2Facts
<1>2. ASSUME NEW k \in Nat, k \in M PROVE k + 1 \in M
  <2>1. m + k \in Nat /\ m + (k + 1) = (m + k) + 1
    OBVIOUS
  <2>2. Pow2[m + k] \in Nat /\ Pow2[(m + k) + 1] = 2 * Pow2[m + k] /\ Pow2[m] \in Nat
    BY <2>1, Pow2Facts
  <2>3. Pow2[m] <= Pow2[m + k]
    BY <1>2
  <2>4. QED
    BY <2>1, <2>2, <2>3
<1>3. Nat \subseteq M
  <2> HIDE DEF M
  <2>1. QED
    BY <1>1, <1>2, SetInduction
<1>4. n - m \in M /\ m + (n - m) = n
  BY <1>3
<1>5. QED
  BY <1>4

(* minAttempts is the attempts of a row of the batch, and the smallest.    *)
LEMMA MinAttemptsFacts ==
  ASSUME TypeOK, NEW r \in Relays, Claimed(r) # {}
  PROVE  /\ minAttempts(r) \in {batch[r][o] : o \in Claimed(r)}
         /\ \A o \in Claimed(r) : minAttempts(r) <= batch[r][o]
         /\ minAttempts(r) \in Nat
<1> DEFINE M == {batch[r][o] : o \in Claimed(r)}
<1>1. M \subseteq Nat /\ M # {}
  <2>1. \A o \in Claimed(r) : batch[r][o] \in Nat
    BY DEF TypeOK, Claimed
  <2>2. PICK o \in Claimed(r) : TRUE
    OBVIOUS
  <2>3. batch[r][o] \in M
    BY <2>2
  <2>4. QED
    BY <2>1, <2>3
<1>2. PICK x \in M : \A y \in M : x <= y
  BY <1>1, MinimumExists
<1>3. x \in M /\ \A o \in Claimed(r) : x <= batch[r][o]
  BY <1>2
<1>4. QED
  BY <1>1, <1>3 DEF minAttempts

(* Two's complement numbers are numbers, and the clamp bounds them all.    *)
LEMMA BackoffBounds ==
  ASSUME NEW n \in Nat
  PROVE  backoff(n) \in Int /\ 2 * Second <= backoff(n) /\ backoff(n) <= Longest * Second
<1>1. \A m \in Int : Wrap(m) \in Int
  BY BackoffAssumption DEF Wrap
<1>2. Pow2[n] \in Int
  BY Pow2Facts
<1>3. Wrap(Pow2[n]) * Second \in Int
  BY <1>1, <1>2, BackoffAssumption
<1>4. Shifted(n) \in Int
  BY <1>1, <1>3 DEF Shifted
<1>5. 2 * Second \in Int /\ Longest * Second \in Int /\ 2 * Second <= Longest * Second
  BY BackoffAssumption
<1>6. QED
  BY <1>4, <1>5 DEF backoff

----------------------------------------------------------------------------
LEMMA InitInv == Init => BackoffInv
BY WorthFacts, RestType, BackoffAssumption
   DEF Init, BackoffInv, TypeOK, Paid, Nothing, Status

(* What a failed push writes. *)
LEMMA RetryIsLater ==
  ASSUME TypeOK, NEW r \in Relays, MarkFailed(r)
  PROVE  /\ next' \in [Rows -> Nat]
         /\ \A o \in Retried(r) : now + Rest <= next'[o]
         /\ \A o \in Rows \ Retried(r) : next'[o] = next[o]
<1>1. PICK behind \in 0..Skew :
        next' = [o \in Rows |-> IF o \in Retried(r)
                                THEN now - behind * Second + backoff(minAttempts(r)) ELSE next[o]]
  BY DEF MarkFailed
<1>2. minAttempts(r) \in Nat
  BY MinAttemptsFacts DEF MarkFailed
<1>3. backoff(minAttempts(r)) \in Int /\ 2 * Second <= backoff(minAttempts(r))
  BY <1>2, BackoffBounds
<1>4. behind * Second \in Nat /\ behind * Second <= Skew * Second /\ Skew * Second <= 2 * Second
  BY BackoffAssumption
<1>5. now \in Nat /\ Rest \in Nat /\ 2 * Second - Skew * Second = Rest
  BY RestType DEF TypeOK
<1> DEFINE then == now - behind * Second + backoff(minAttempts(r))
<1>6. then \in Nat /\ now + Rest <= then
  BY <1>3, <1>4, <1>5, BackoffAssumption
<1>7. Retried(r) \subseteq Rows
  BY DEF Retried, Claimed
<1> HIDE DEF then
<1>8. QED
  BY <1>1, <1>6, <1>7 DEF TypeOK, then

LEMMA TypeOKStep == TypeOK /\ [Next]_vars => TypeOK'
<1> SUFFICES ASSUME TypeOK, [Next]_vars PROVE TypeOK'
  OBVIOUS
<1> USE BackoffAssumption DEF TypeOK, Status
<1>1. ASSUME NEW o \in Rows, Enqueue(o) PROVE TypeOK'
  BY <1>1 DEF Enqueue, history
<1>2. CASE Pass
  BY <1>2 DEF Pass, table, history
<1>3. ASSUME NEW r \in Relays, ClaimBatch(r) PROVE TypeOK'
  BY <1>3 DEF ClaimBatch, CountAttempt, history
<1>4. ASSUME NEW r \in Relays, TickLost(r) PROVE TypeOK'
  BY <1>4 DEF TickLost, Finish, Nothing, table, history
<1>5. ASSUME NEW r \in Relays, MarkDispatched(r) PROVE TypeOK'
  BY <1>5 DEF MarkDispatched, Finish, Nothing, history
<1>6. ASSUME NEW r \in Relays, MarkFailed(r) PROVE TypeOK'
  <2>1. next' \in [Rows -> Nat]
    BY <1>6, RetryIsLater
  <2>2. status' \in [Rows -> Status] /\ first' \in [Rows -> Nat]
    BY <1>6 DEF MarkFailed
  <2>3. fails' \in [Relays -> [Rows -> Nat]]
    BY <1>6 DEF MarkFailed
  <2>4. batch' \in [Relays -> [Rows -> Nat]]
        /\ \A q \in Relays, o \in Rows : batch'[q][o] <= attempts[o]
    BY <1>6 DEF MarkFailed, Finish, Nothing
  <2>5. QED
    BY <1>6, <2>1, <2>2, <2>3, <2>4 DEF MarkFailed
<1>7. CASE UNCHANGED vars
  BY <1>7 DEF vars, table, history
<1>8. QED
  BY <1>1, <1>2, <1>3, <1>4, <1>5, <1>6, <1>7 DEF Next, ClaimNothing

(* What a failed batch does to the variables, one at a time. *)
LEMMA MarkFailedEffect ==
  ASSUME TypeOK, NEW r \in Relays, MarkFailed(r), NEW o \in Rows
  PROVE  /\ now' = now
         /\ o \in Retried(r) => next'[o] \in Int /\ now + Rest <= next'[o]
         /\ o \notin Retried(r) => next'[o] = next[o]
         /\ \A q \in Relays : batch'[q][o] = IF q = r THEN 0 ELSE batch[q][o]
         /\ status'[o] = IF o \in Exhausted(r) THEN "dead"
                         ELSE IF o \in Retried(r) THEN "pending" ELSE status[o]
         /\ \A q \in Relays :
              fails'[q][o] = IF q = r /\ o \in Claimed(r) THEN fails[q][o] + 1 ELSE fails[q][o]
         /\ first'[o] # first[o] =>
              o \in Claimed(r) /\ first'[o] = now /\ \A q \in Relays : fails[q][o] = 0
<1>1. now' = now
  BY DEF MarkFailed
<1>2. /\ o \in Retried(r) => next'[o] \in Int /\ now + Rest <= next'[o]
      /\ o \notin Retried(r) => next'[o] = next[o]
  <2>1. next'[o] \in Nat
    BY RetryIsLater
  <2>2. QED
    BY <2>1, RetryIsLater
<1>3. \A q \in Relays : batch'[q][o] = IF q = r THEN 0 ELSE batch[q][o]
  BY DEF MarkFailed, Finish, Nothing, TypeOK
<1>4. status'[o] = IF o \in Exhausted(r) THEN "dead"
                   ELSE IF o \in Retried(r) THEN "pending" ELSE status[o]
  BY DEF MarkFailed
<1>5. \A q \in Relays :
        fails'[q][o] = IF q = r /\ o \in Claimed(r) THEN fails[q][o] + 1 ELSE fails[q][o]
  BY DEF MarkFailed, TypeOK
<1>6. first'[o] # first[o] =>
        o \in Claimed(r) /\ first'[o] = now /\ \A q \in Relays : fails[q][o] = 0
  BY DEF MarkFailed, TypeOK
<1>7. QED
  BY <1>1, <1>2, <1>3, <1>4, <1>5, <1>6

(* A failure is paid for by the wait that led to it, and the next one by   *)
(* the wait that it causes.                                                *)
LEMMA FailureIsPaid ==
  ASSUME BackoffInv, NEW r \in Relays, MarkFailed(r), NEW q \in Relays, NEW o \in Rows
  PROVE  Paid(q, o)'
<1>1. TypeOK /\ Paid(q, o)
  BY DEF BackoffInv
<1>2. /\ fails[q][o] \in Nat /\ batch[q][o] \in Nat
      /\ now \in Int /\ first[o] \in Int /\ Rest \in Nat /\ Worth(fails[q][o]) \in Int
  BY <1>1, RestType, WorthFacts DEF TypeOK
<1>3. first'[o] \in Int /\ (first'[o] # first[o] => first'[o] = now /\ fails[q][o] = 0)
  BY <1>1, <1>2, MarkFailedEffect
<1>4. first'[o] # first[o] => first'[o] = now /\ Worth(fails[q][o]) = 0
  <2>1. Worth(0) = 0
    BY WorthFacts
  <2>2. QED
    BY <1>3, <2>1
<1>5. /\ Worth(fails[q][o]) <= now - first'[o] + Rest
      /\ batch[q][o] > 0 => Worth(fails[q][o]) <= now - first'[o]
  <2>1. CASE first'[o] = first[o]
    BY <1>1, <2>1 DEF Paid
  <2>2. CASE first'[o] # first[o]
    <3>1. now - first'[o] = 0 /\ Worth(fails[q][o]) = 0
      BY <1>2, <1>4, <2>2
    <3>2. QED
      BY <1>2, <3>1
  <2>3. QED
    BY <2>1, <2>2
<1>6. /\ Worth(fails'[q][o]) \in Int
      /\ Worth(fails'[q][o]) <= now - first'[o] + Rest
  <2>1. CASE q = r /\ o \in Claimed(r)
    <3>1. fails'[q][o] = fails[q][o] + 1 /\ batch[q][o] > 0
      BY <1>1, <2>1, MarkFailedEffect DEF Claimed
    <3>2. Worth(fails'[q][o]) = Worth(fails[q][o]) + Rest
      BY <1>2, <3>1, WorthFacts
    <3>3. QED
      BY <1>2, <1>3, <1>5, <3>1, <3>2
  <2>2. CASE ~ (q = r /\ o \in Claimed(r))
    <3>1. fails'[q][o] = fails[q][o]
      BY <1>1, <2>2, MarkFailedEffect
    <3>2. QED
      BY <1>2, <1>5, <3>1
  <2>3. QED
    BY <2>1, <2>2
<1>7. batch'[q][o] > 0 => Worth(fails'[q][o]) <= now - first'[o]
  <2>1. SUFFICES ASSUME batch'[q][o] > 0 PROVE Worth(fails'[q][o]) <= now - first'[o]
    OBVIOUS
  <2>2. q # r /\ batch'[q][o] = batch[q][o]
    BY <1>1, <2>1, MarkFailedEffect
  <2>3. fails'[q][o] = fails[q][o]
    BY <1>1, <2>2, MarkFailedEffect
  <2>4. QED
    BY <1>5, <2>1, <2>2, <2>3
<1>8. status'[o] = "pending" => Worth(fails'[q][o]) <= next'[o] - first'[o]
  <2>1. CASE o \in Retried(r)
    <3>1. next'[o] \in Int /\ now + Rest <= next'[o]
      BY <1>1, <2>1, MarkFailedEffect
    <3>2. QED
      BY <1>2, <1>3, <1>6, <3>1
  <2>2. CASE o \notin Retried(r)
    <3>1. status'[o] = "pending" => o \notin Claimed(r) /\ status[o] = "pending"
      BY <1>1, <2>2, MarkFailedEffect DEF Retried
    <3>2. next'[o] = next[o]
      BY <1>1, <2>2, MarkFailedEffect
    <3>3. o \notin Claimed(r) => fails'[q][o] = fails[q][o] /\ first'[o] = first[o]
      BY <1>1, MarkFailedEffect
    <3>4. QED
      BY <1>1, <3>1, <3>2, <3>3 DEF Paid
  <2>3. QED
    BY <2>1, <2>2
<1>9. now' = now
  BY <1>1, MarkFailedEffect
<1>10. QED
  BY <1>6, <1>7, <1>8, <1>9 DEF Paid

LEMMA InvStep == BackoffInv /\ [Next]_vars => BackoffInv'
<1> SUFFICES ASSUME BackoffInv, [Next]_vars PROVE BackoffInv'
  OBVIOUS
<1>1. TypeOK /\ TypeOK'
  BY TypeOKStep DEF BackoffInv
<1>2. Rest \in Nat /\ \A r \in Relays, o \in Rows : Worth(fails[r][o]) \in Int
  BY <1>1, RestType, WorthFacts DEF TypeOK
<1> USE <1>1, <1>2, BackoffAssumption DEF BackoffInv
<1>3. ASSUME NEW o \in Rows, Enqueue(o) PROVE BackoffInv'
  <2>1. \A r \in Relays : fails[r][o] = 0 /\ batch[r][o] = 0
    BY <1>3 DEF Enqueue
  <2>2. \A r \in Relays : Paid(r, o)'
    <3>1. first[o] <= now /\ first[o] \in Nat /\ now \in Nat
      BY DEF TypeOK
    <3>2. next'[o] = now /\ UNCHANGED <<batch, now, fails, first>>
      BY <1>3 DEF Enqueue, history, TypeOK
    <3>3. QED
      BY <2>1, <3>1, <3>2, WorthFacts DEF Paid
  <2>3. QED
    BY <1>3, <2>2 DEF Enqueue, Paid, history, TypeOK
<1>4. CASE Pass
  BY <1>4 DEF Pass, Paid, table, history, TypeOK
<1>5. ASSUME NEW r \in Relays, ClaimBatch(r) PROVE BackoffInv'
  <2>1. UNCHANGED <<status, next, now, fails, first>>
    BY <1>5 DEF ClaimBatch, history
  <2>2. \A q \in Relays, o \in Rows :
          batch'[q][o] = 0 \/ batch'[q][o] = batch[q][o] \/ o \in Claimable
    BY <1>5 DEF ClaimBatch, TypeOK
  <2>3. \A o \in Claimable : status[o] = "pending" /\ next[o] <= now
    BY DEF Claimable
  <2>4. QED
    BY <2>1, <2>2, <2>3 DEF Paid, TypeOK
<1>6. ASSUME NEW r \in Relays, TickLost(r) \/ MarkDispatched(r) PROVE BackoffInv'
  <2>1. UNCHANGED <<next, now, fails, first>>
    BY <1>6 DEF TickLost, MarkDispatched, table, history
  <2>2. \A q \in Relays, o \in Rows : batch'[q][o] \in {0, batch[q][o]}
    <3>1. batch' = [batch EXCEPT ![r] = Nothing] /\ DOMAIN batch = Relays
      BY <1>6 DEF TickLost, MarkDispatched, Finish, TypeOK
    <3>2. QED
      BY <3>1 DEF Nothing
  <2>3. \A o \in Rows : status'[o] \in {status[o], "dispatched"}
    BY <1>6 DEF TickLost, MarkDispatched, table, TypeOK
  <2>4. QED
    BY <2>1, <2>2, <2>3 DEF Paid, TypeOK
<1>7. ASSUME NEW r \in Relays, MarkFailed(r) PROVE BackoffInv'
  <2>1. \A o \in Rows : first'[o] <= now'
    BY <1>7 DEF MarkFailed, TypeOK
  <2>2. ASSUME NEW q \in Relays, NEW o \in Rows, status'[o] = "absent"
        PROVE  batch'[q][o] = 0 /\ fails'[q][o] = 0
    <3>1. o \notin Claimed(r) /\ status[o] = "absent"
      BY <1>7, <2>2, MarkFailedEffect DEF Retried
    <3>2. batch[q][o] = 0 /\ fails[q][o] = 0
      BY <3>1
    <3>3. QED
      BY <1>7, <3>1, <3>2, MarkFailedEffect
  <2>3. \A q \in Relays, o \in Rows : Paid(q, o)'
    BY <1>7, FailureIsPaid
  <2>4. QED
    BY <2>1, <2>2, <2>3
<1>8. CASE UNCHANGED vars
  BY <1>8 DEF vars, table, history, Paid
<1>9. QED
  BY <1>3, <1>4, <1>5, <1>6, <1>7, <1>8 DEF Next, ClaimNothing

----------------------------------------------------------------------------
(* The inductive invariant of the waits. *)
THEOREM BackoffInvHolds == Spec => []BackoffInv
BY InitInv, InvStep, PTL DEF Spec

(* The state keeps its shape, next_attempt_at included: no overflow makes  *)
(* it a time before the row's mark.                                        *)
THEOREM TypeOKHolds == Spec => []TypeOK
<1>1. BackoffInv => TypeOK
  BY DEF BackoffInv
<1>2. QED
  BY BackoffInvHolds, <1>1, PTL

(* A relay fails a row at most once per wait, whatever the others do.      *)
THEOREM AttemptsTakeTimeHolds == Spec => []AttemptsTakeTime
<1>1. BackoffInv => AttemptsTakeTime
  <2>1. SUFFICES ASSUME BackoffInv, NEW r \in Relays, NEW o \in Rows, fails[r][o] > 0
                 PROVE  (fails[r][o] - 1) * (2 - Skew) * Second <= now - first[o]
    BY DEF AttemptsTakeTime
  <2>2. fails[r][o] - 1 \in Nat /\ first[o] \in Nat /\ now \in Nat
    BY <2>1 DEF BackoffInv, TypeOK
  <2>3. Worth(fails[r][o] - 1) + Rest = Worth(fails[r][o])
    <3>1. fails[r][o] = (fails[r][o] - 1) + 1
      BY <2>1 DEF BackoffInv, TypeOK
    <3>2. QED
      BY <2>2, <3>1, WorthFacts
  <2>4. Worth(fails[r][o] - 1) <= now - first[o]
    BY <2>1, <2>2, <2>3, WorthFacts, RestType DEF BackoffInv, Paid
  <2>5. (fails[r][o] - 1) * (2 - Skew) * Second = Worth(fails[r][o] - 1)
    BY <2>2, BackoffAssumption DEF Worth, Rest
  <2>6. QED
    BY <2>4, <2>5
<1>2. QED
  BY BackoffInvHolds, <1>1, PTL

----------------------------------------------------------------------------
(* Below half the range a number is what it was. *)
LEMMA WrapKeeps ==
  ASSUME NEW x \in Nat, 2 * x < Range64
  PROVE  Wrap(x) = x
<1>1. Range64 \in Nat /\ Range64 > 0 /\ x < Range64
  BY BackoffAssumption
<1>2. x % Range64 = x
  BY <1>1
<1>3. QED
  BY <1>1, <1>2 DEF Wrap

(* Multiplication by Second keeps the order, both ways. *)
LEMMA InSeconds ==
  ASSUME NEW m \in Nat, NEW n \in Nat
  PROVE  /\ m * Second \in Nat
         /\ m <= n => m * Second <= n * Second
         /\ m < n => m * Second < n * Second
         /\ m <= m * Second
BY BackoffAssumption

(* Whoever is not given up yet is owed what the shift computes.            *)
LEMMA BackoffIsOwed ==
  ASSUME NEW n \in Nat, 1 <= n, n < MaxAttempts
  PROVE  backoff(n) = Owed(n)
<1> DEFINE p == Pow2[n]
           limit == Pow2[MaxAttempts - 1]
<1>1. MaxAttempts - 1 \in Nat /\ n <= MaxAttempts - 1
  BY BackoffAssumption
<1>2. p \in Nat /\ limit \in Nat /\ p <= limit
  BY <1>1, Pow2Facts, Pow2Grows
<1>3. 2 <= p
  <2>1. n - 1 \in Nat /\ (n - 1) + 1 = n
    OBVIOUS
  <2>2. Pow2[(n - 1) + 1] = 2 * Pow2[n - 1] /\ Pow2[n - 1] \in Nat \ {0}
    BY <2>1, Pow2Facts
  <2>3. QED
    BY <2>1, <2>2
<1> HIDE DEF p, limit
<1>4. p * Second <= limit * Second /\ p <= p * Second /\ p * Second \in Nat /\ limit * Second \in Nat
  BY <1>2, InSeconds
<1>5. (limit * Second) * 2 < Range64
  BY ShiftFits DEF limit
<1>6. 2 * p < Range64 /\ 2 * (p * Second) < Range64
  BY <1>2, <1>4, <1>5, BackoffAssumption
<1>7. Wrap(p) = p /\ Wrap(p * Second) = p * Second
  BY <1>2, <1>4, <1>6, WrapKeeps
<1>8. Shifted(n) = p * Second
  BY <1>7 DEF Shifted, p
<1>9. 2 * Second <= p * Second
  BY <1>2, <1>3, InSeconds
<1>10. (p > Longest => p * Second > Longest * Second) /\ (p <= Longest => p * Second <= Longest * Second)
  BY <1>2, InSeconds, BackoffAssumption
<1>11. 2 * Second \in Nat /\ Longest * Second \in Nat /\ Longest \in Nat
  BY BackoffAssumption
<1>12. Owed(n) = IF p > Longest THEN Longest * Second ELSE p * Second
  BY DEF Owed, p
<1>13. ~ (p * Second < 2 * Second)
  BY <1>4, <1>9, <1>11
<1>14. backoff(n) = IF p * Second > Longest * Second THEN Longest * Second ELSE p * Second
  BY <1>8, <1>13 DEF backoff
<1>15. CASE p > Longest
  BY <1>10, <1>12, <1>14, <1>15
<1>16. CASE p <= Longest
  <2>1. ~ (p > Longest) /\ ~ (p * Second > Longest * Second)
    BY <1>2, <1>4, <1>10, <1>11, <1>16
  <2>2. QED
    BY <1>12, <1>14, <2>1
<1>17. QED
  BY <1>2, <1>11, <1>15, <1>16

(* More attempts never earn a shorter wait. *)
LEMMA OwedGrows ==
  ASSUME NEW m \in Nat, NEW n \in Nat, m <= n
  PROVE  Owed(m) \in Nat /\ Owed(m) <= Owed(n)
<1> DEFINE p == Pow2[m]
           q == Pow2[n]
<1>1. p \in Nat /\ q \in Nat /\ p <= q /\ Longest \in Nat
  BY Pow2Facts, Pow2Grows, BackoffAssumption
<1>2. /\ Owed(m) = IF p > Longest THEN Longest * Second ELSE p * Second
      /\ Owed(n) = IF q > Longest THEN Longest * Second ELSE q * Second
  BY DEF Owed
<1> HIDE DEF p, q
<1>3. /\ p * Second \in Nat /\ q * Second \in Nat /\ Longest * Second \in Nat
      /\ p * Second <= q * Second
      /\ p <= Longest => p * Second <= Longest * Second
  BY <1>1, InSeconds
<1>4. QED
  BY <1>1, <1>2, <1>3

(* The youngest row of a batch with something to retry. *)
LEMMA YoungestIsRetried ==
  ASSUME TypeOK, NEW r \in Relays, Retried(r) # {}
  PROVE  /\ minAttempts(r) \in Nat /\ 1 <= minAttempts(r) /\ minAttempts(r) < MaxAttempts
         /\ \A o \in Retried(r) : batch[r][o] \in Nat /\ minAttempts(r) <= batch[r][o]
         /\ \E o \in Retried(r) : batch[r][o] = minAttempts(r)
<1>1. \A o \in Claimed(r) : batch[r][o] \in Nat /\ batch[r][o] > 0
  BY DEF TypeOK, Claimed
<1>2. MaxAttempts \in Nat /\ Retried(r) = {o \in Claimed(r) : batch[r][o] < MaxAttempts}
  BY <1>1, BackoffAssumption DEF Retried, Exhausted
<1>3. PICK old \in Retried(r) : TRUE
  OBVIOUS
<1>4. Claimed(r) # {}
  BY <1>2, <1>3
<1>5. PICK young \in Claimed(r) : batch[r][young] = minAttempts(r)
  BY <1>4, MinAttemptsFacts
<1>6. minAttempts(r) \in Nat /\ \A o \in Claimed(r) : minAttempts(r) <= batch[r][o]
  BY <1>4, MinAttemptsFacts
<1>7. minAttempts(r) <= batch[r][old] /\ batch[r][old] < MaxAttempts /\ batch[r][old] \in Nat
  BY <1>1, <1>2, <1>3, <1>6
<1>8. minAttempts(r) < MaxAttempts /\ 1 <= minAttempts(r)
  BY <1>1, <1>2, <1>5, <1>6, <1>7
<1>9. young \in Retried(r)
  BY <1>2, <1>5, <1>8
<1>10. QED
  BY <1>1, <1>2, <1>5, <1>6, <1>8, <1>9

(* No row waits longer than it is owed, and the youngest waits all of it:  *)
(* MarkRetryBatch never writes the result of an overflow, whatever lost    *)
(* ticks have done to the attempts of the rows that are given up.          *)
THEOREM WaitIsOwedHolds == Spec => []WaitIsOwed
<1>1. TypeOK => WaitIsOwed
  <2>1. SUFFICES ASSUME TypeOK, NEW r \in Relays, Retried(r) # {}
                 PROVE  /\ \A o \in Retried(r) : backoff(minAttempts(r)) <= Owed(batch[r][o])
                        /\ \E o \in Retried(r) : backoff(minAttempts(r)) = Owed(batch[r][o])
    BY DEF WaitIsOwed
  <2>2. backoff(minAttempts(r)) = Owed(minAttempts(r))
    BY <2>1, YoungestIsRetried, BackoffIsOwed
  <2>3. \A o \in Retried(r) : Owed(minAttempts(r)) <= Owed(batch[r][o])
    BY <2>1, YoungestIsRetried, OwedGrows
  <2>4. QED
    BY <2>1, <2>2, <2>3, YoungestIsRetried
<1>2. QED
  BY TypeOKHolds, <1>1, PTL

----------------------------------------------------------------------------
(* A relay that is alone counts no attempt behind its own back.            *)
Alone == \A q, r \in Relays : q = r

Count(o) == attempts[o] + IF \A r \in Relays : batch[r][o] = 0 THEN 1 ELSE 0

AloneInv ==
  /\ \A o \in Rows :
       /\ attempts[o] <= MaxAttempts + lost
       /\ status[o] = "absent" => attempts[o] = 0
       /\ status[o] = "pending" => Count(o) <= MaxAttempts + lost
  /\ \A r \in Relays, o \in Rows :
       batch[r][o] > 0 => batch[r][o] = attempts[o] /\ status[o] = "pending"

LEMMA AloneInvStep == Alone /\ TypeOK /\ AloneInv /\ [Next]_vars => AloneInv'
<1> SUFFICES ASSUME Alone, TypeOK, AloneInv, [Next]_vars PROVE AloneInv'
  OBVIOUS
<1>1. /\ MaxAttempts \in Nat \ {0} /\ lost \in Nat
      /\ \A o \in Rows : attempts[o] \in Nat
      /\ \A r \in Relays, o \in Rows : batch[r][o] \in Nat
  BY BackoffAssumption DEF TypeOK
<1> USE <1>1
<1>2. ASSUME NEW o \in Rows, Enqueue(o) PROVE AloneInv'
  BY <1>2 DEF Enqueue, AloneInv, Count, history, TypeOK
<1>3. CASE Pass
  BY <1>3 DEF Pass, AloneInv, Count, table, history
<1>4. ASSUME NEW r \in Relays, ClaimBatch(r) PROVE AloneInv'
  <2> DEFINE rows == {o \in Claimable : Cardinality({p \in Claimable : p < o}) < BatchSize}
  <2>1. \A o \in rows : status[o] = "pending" /\ o \in Rows
    BY DEF Claimable
  <2> HIDE DEF rows
  <2>2. \A o \in Rows : attempts'[o] = IF o \in rows THEN attempts[o] + 1 ELSE attempts[o]
    BY <1>4 DEF ClaimBatch, CountAttempt, rows
  <2>3. \A q \in Relays, o \in Rows : batch'[q][o] = IF o \in rows THEN attempts[o] + 1 ELSE 0
    <3>1. \A q \in Relays : q = r
      BY <1>4 DEF Alone
    <3>2. \A o \in Rows : batch'[r][o] = IF o \in rows THEN attempts[o] + 1 ELSE 0
      BY <1>4 DEF ClaimBatch, TypeOK, rows
    <3>3. QED
      BY <3>1, <3>2
  <2>4. \A o \in Rows : batch[r][o] = 0
    BY <1>4 DEF ClaimBatch, Claimed
  <2>5. \A o \in rows : attempts[o] + 1 <= MaxAttempts + lost
    <3>1. TAKE o \in rows
    <3>2. \A q \in Relays : batch[q][o] = 0
      BY <1>4, <2>1, <2>4 DEF Alone
    <3>3. QED
      BY <2>1, <3>2 DEF AloneInv, Count
  <2>6. UNCHANGED <<status, lost>>
    BY <1>4 DEF ClaimBatch
  <2>7. ASSUME NEW o \in Rows, o \in rows
        PROVE  /\ attempts'[o] <= MaxAttempts + lost /\ Count(o)' = attempts'[o]
               /\ status'[o] = "pending"
    <3>1. batch'[r][o] > 0
      BY <1>4, <2>3, <2>7
    <3>2. Count(o)' = attempts'[o] + 0
      BY <1>4, <3>1 DEF Count
    <3>3. QED
      BY <2>1, <2>2, <2>5, <2>6, <2>7, <3>2
  <2>8. ASSUME NEW o \in Rows, o \notin rows
        PROVE  /\ attempts'[o] = attempts[o] /\ status'[o] = status[o] /\ Count(o)' = Count(o)
               /\ \A q \in Relays : batch'[q][o] = 0
    <3>1. \A q \in Relays : batch[q][o] = 0 /\ batch'[q][o] = 0
      BY <1>4, <2>3, <2>4, <2>8 DEF Alone
    <3>2. attempts'[o] = attempts[o] /\ status'[o] = status[o]
      BY <2>2, <2>6, <2>8
    <3>3. QED
      BY <3>1, <3>2 DEF Count
  <2>9. \A q \in Relays, o \in Rows :
          batch'[q][o] > 0 => batch'[q][o] = attempts'[o] /\ status'[o] = "pending"
    BY <2>2, <2>3, <2>7, <2>8
  <2>10. ASSUME NEW o \in Rows
         PROVE  /\ attempts'[o] <= MaxAttempts + lost'
                /\ status'[o] = "absent" => attempts'[o] = 0
                /\ status'[o] = "pending" => Count(o)' <= MaxAttempts + lost'
    <3>1. CASE o \in rows
      BY <2>6, <2>7, <3>1
    <3>2. CASE o \notin rows
      BY <2>6, <2>8, <3>2 DEF AloneInv
    <3>3. QED
      BY <3>1, <3>2
  <2>11. QED
    BY <2>9, <2>10 DEF AloneInv
<1>5. ASSUME NEW r \in Relays, TickLost(r) PROVE AloneInv'
  <2>1. lost' = lost + 1 /\ UNCHANGED <<status, attempts>>
    BY <1>5 DEF TickLost, table
  <2>2. \A q \in Relays, o \in Rows : batch'[q][o] = 0
    BY <1>5 DEF TickLost, Finish, Nothing, Alone, TypeOK
  <2>3. QED
    BY <2>1, <2>2 DEF AloneInv, Count
<1>6. ASSUME NEW r \in Relays, MarkDispatched(r) PROVE AloneInv'
  <2>1. UNCHANGED <<lost, attempts>>
    BY <1>6 DEF MarkDispatched
  <2>2. \A q \in Relays, o \in Rows : batch'[q][o] = 0
    BY <1>6 DEF MarkDispatched, Finish, Nothing, Alone, TypeOK
  <2>3. \A o \in Rows : status'[o] = "dispatched"
                         \/ (status'[o] = status[o] /\ batch[r][o] = 0)
    <3>1. \A o \in Rows : o \notin Claimed(r) => batch[r][o] = 0
      BY <1>6 DEF Claimed
    <3>2. \A o \in Rows :
            status'[o] = IF o \in Claimed(r) THEN "dispatched" ELSE status[o]
      BY <1>6 DEF MarkDispatched
    <3>3. QED
      BY <3>1, <3>2
  <2>4. \A q \in Relays : q = r
    BY <1>6 DEF Alone
  <2>5. QED
    BY <2>1, <2>2, <2>3, <2>4 DEF AloneInv, Count
<1>7. ASSUME NEW r \in Relays, MarkFailed(r) PROVE AloneInv'
  <2>1. UNCHANGED <<lost, attempts>>
    BY <1>7 DEF MarkFailed
  <2>2. \A q \in Relays, o \in Rows : batch'[q][o] = 0
    BY <1>7 DEF MarkFailed, Finish, Nothing, Alone, TypeOK
  <2>3. \A q \in Relays : q = r
    BY <1>7 DEF Alone
  <2>4. ASSUME NEW o \in Retried(r) PROVE attempts[o] < MaxAttempts /\ o \in Rows
    BY <1>7 DEF Retried, Exhausted, Claimed, AloneInv
  <2>5. ASSUME NEW o \in Rows, o \notin Retried(r)
        PROVE  status'[o] = "dead" \/ (status'[o] = status[o] /\ batch[r][o] = 0)
    BY <1>7, <2>5 DEF MarkFailed, Retried, Claimed
  <2>6. \A o \in Rows : status'[o] = "absent" => status[o] = "absent"
    BY <1>7 DEF MarkFailed
  <2>7. QED
    BY <2>1, <2>2, <2>3, <2>4, <2>5, <2>6 DEF AloneInv, Count
<1>8. CASE UNCHANGED vars
  BY <1>8 DEF vars, AloneInv, Count, table, history
<1>9. QED
  BY <1>2, <1>3, <1>4, <1>5, <1>6, <1>7, <1>8 DEF Next, ClaimNothing

(* The claim counts an attempt before anything is tried, so a tick that    *)
(* is lost costs the row one.  It costs no more: with one relay a row is   *)
(* claimed at most max_attempts times, and once more per lost tick, and    *)
(* 1<<attempts can only overflow after that many.                          *)
THEOREM LostTicksOnlyCost ==
  ASSUME Alone
  PROVE  Spec => [](\A o \in Rows : attempts[o] <= MaxAttempts + lost)
<1>1. Init => AloneInv
  BY BackoffAssumption DEF Init, AloneInv, Count, Nothing
<1>2. AloneInv => \A o \in Rows : attempts[o] <= MaxAttempts + lost
  BY DEF AloneInv
<1>3. TypeOK /\ AloneInv /\ [Next]_vars => AloneInv'
  BY AloneInvStep
<1>4. QED
  BY <1>1, <1>2, <1>3, TypeOKHolds, PTL DEF Spec

(* With one relay every counted attempt of a pending row is a failure, a   *)
(* lost tick, or the one that is being made.                               *)
Open(r, o) == IF batch[r][o] > 0 THEN 1 ELSE 0

CostInv ==
  \A r \in Relays, o \in Rows :
    /\ status[o] = "pending" => attempts[o] <= fails[r][o] + lost + Open(r, o)
    /\ status[o] = "dead" => MaxAttempts <= fails[r][o] + lost

LEMMA CostInvStep == Alone /\ TypeOK /\ AloneInv /\ CostInv /\ [Next]_vars => CostInv'
<1> SUFFICES ASSUME Alone, TypeOK, AloneInv, CostInv, [Next]_vars PROVE CostInv'
  OBVIOUS
<1>1. /\ MaxAttempts \in Nat \ {0} /\ lost \in Nat
      /\ \A o \in Rows : attempts[o] \in Nat
      /\ \A r \in Relays, o \in Rows : batch[r][o] \in Nat /\ fails[r][o] \in Nat
  BY BackoffAssumption DEF TypeOK
<1> USE <1>1
<1>2. ASSUME NEW o \in Rows, Enqueue(o) PROVE CostInv'
  <2>1. UNCHANGED <<attempts, batch, lost, fails>>
    BY <1>2 DEF Enqueue, history
  <2>2. attempts[o] = 0
    BY <1>2 DEF Enqueue, AloneInv
  <2>3. \A p \in Rows : p # o => status'[p] = status[p]
    BY <1>2 DEF Enqueue, TypeOK
  <2>4. status'[o] = "pending"
    BY <1>2 DEF Enqueue, TypeOK
  <2>5. ASSUME NEW r \in Relays, NEW p \in Rows
        PROVE  /\ status'[p] = "pending" => attempts[p] <= fails[r][p] + lost + Open(r, p)
               /\ status'[p] = "dead" => MaxAttempts <= fails[r][p] + lost
    <3>1. Open(r, p) \in Nat
      BY DEF Open
    <3>2. CASE p = o
      BY <2>2, <2>4, <3>1, <3>2
    <3>3. CASE p # o
      BY <2>3, <3>3 DEF CostInv
    <3>4. QED
      BY <3>2, <3>3
  <2>6. QED
    BY <2>1, <2>5 DEF CostInv, Open
<1>3. CASE Pass
  BY <1>3 DEF Pass, CostInv, Open, table, history
<1>4. ASSUME NEW r \in Relays, ClaimBatch(r) PROVE CostInv'
  <2> DEFINE rows == {o \in Claimable : Cardinality({p \in Claimable : p < o}) < BatchSize}
  <2>1. \A o \in Rows : attempts'[o] = IF o \in rows THEN attempts[o] + 1 ELSE attempts[o]
    BY <1>4 DEF ClaimBatch, CountAttempt
  <2>2. \A o \in Rows : batch'[r][o] = IF o \in rows THEN attempts[o] + 1 ELSE 0
    BY <1>4 DEF ClaimBatch, TypeOK
  <2>3. \A o \in Rows : batch[r][o] = 0
    BY <1>4 DEF ClaimBatch, Claimed
  <2>4. UNCHANGED <<status, lost, fails>>
    BY <1>4 DEF ClaimBatch, history
  <2> HIDE DEF rows
  <2>5. \A o \in Rows : Open(r, o) = 0 /\ Open(r, o)' = IF o \in rows THEN 1 ELSE 0
    BY <2>2, <2>3 DEF Open
  <2>6. \A q \in Relays : q = r
    BY <1>4 DEF Alone
  <2>7. ASSUME NEW o \in Rows
        PROVE  /\ status[o] = "pending" => attempts'[o] <= fails[r][o] + lost + Open(r, o)'
               /\ status[o] = "dead" => MaxAttempts <= fails[r][o] + lost
    BY <1>4, <2>1, <2>5 DEF CostInv
  <2>8. QED
    BY <2>4, <2>6, <2>7 DEF CostInv
<1>5. ASSUME NEW r \in Relays, TickLost(r) PROVE CostInv'
  <2>1. lost' = lost + 1 /\ UNCHANGED <<status, attempts, fails>>
    BY <1>5 DEF TickLost, table, history
  <2>2. \A q \in Relays, o \in Rows : Open(q, o) \in 0..1 /\ Open(q, o)' \in 0..1
    BY DEF Open
  <2>3. ASSUME NEW q \in Relays, NEW o \in Rows
        PROVE  /\ status[o] = "pending" => attempts[o] <= fails[q][o] + (lost + 1) + Open(q, o)'
               /\ status[o] = "dead" => MaxAttempts <= fails[q][o] + (lost + 1)
    BY <2>2 DEF CostInv
  <2>4. QED
    BY <2>1, <2>3 DEF CostInv
<1>6. ASSUME NEW r \in Relays, MarkDispatched(r) PROVE CostInv'
  <2>1. UNCHANGED <<lost, attempts, fails>>
    BY <1>6 DEF MarkDispatched, history
  <2>2. \A o \in Rows :
          status'[o] = IF o \in Claimed(r) THEN "dispatched" ELSE status[o]
    BY <1>6 DEF MarkDispatched
  <2>3. \A q \in Relays : q = r
    BY <1>6 DEF Alone
  <2>4. \A o \in Rows : o \notin Claimed(r) => batch[r][o] = 0 /\ Open(r, o) = 0
    BY <1>6 DEF Claimed, Open
  <2>5. \A o \in Rows : Open(r, o)' \in Nat
    BY DEF Open
  <2>6. ASSUME NEW o \in Rows
        PROVE  /\ status'[o] = "pending" => attempts[o] <= fails[r][o] + lost + Open(r, o)'
               /\ status'[o] = "dead" => MaxAttempts <= fails[r][o] + lost
    BY <1>6, <2>2, <2>4, <2>5 DEF CostInv
  <2>7. QED
    BY <2>1, <2>3, <2>6 DEF CostInv
<1>7. ASSUME NEW r \in Relays, MarkFailed(r) PROVE CostInv'
  <2>1. UNCHANGED <<lost, attempts>>
    BY <1>7 DEF MarkFailed
  <2>2. \A q \in Relays : q = r
    BY <1>7 DEF Alone
  <2>3. \A o \in Rows : Open(r, o)' = 0
    BY <1>7, MarkFailedEffect DEF Open
  <2>4. ASSUME NEW o \in Rows
        PROVE  /\ status'[o] = "pending" => attempts[o] <= fails'[r][o] + lost
               /\ status'[o] = "dead" => MaxAttempts <= fails'[r][o] + lost
    <3>1. CASE o \in Claimed(r)
      <4>1. batch[r][o] = attempts[o] /\ status[o] = "pending" /\ Open(r, o) = 1
        BY <1>7, <3>1 DEF Claimed, AloneInv, Open
      <4>2. attempts[o] <= fails[r][o] + lost + 1
        BY <1>7, <4>1 DEF CostInv
      <4>3. fails'[r][o] = fails[r][o] + 1
        BY <1>7, <3>1, MarkFailedEffect
      <4>4. attempts[o] <= fails'[r][o] + lost
        BY <1>7, <4>2, <4>3
      <4>5. status'[o] = "dead" => MaxAttempts <= attempts[o]
        BY <1>7, <3>1, <4>1, MarkFailedEffect DEF Retried, Exhausted
      <4>6. QED
        BY <1>7, <4>3, <4>4, <4>5
    <3>2. CASE o \notin Claimed(r)
      <4>1. status'[o] = status[o] /\ fails'[r][o] = fails[r][o]
        BY <1>7, <3>2, MarkFailedEffect DEF Retried, Exhausted
      <4>2. Open(r, o) = 0
        BY <1>7, <3>2 DEF Claimed, Open
      <4>3. QED
        BY <1>7, <4>1, <4>2 DEF CostInv
    <3>3. QED
      BY <3>1, <3>2
  <2>5. \A o \in Rows : fails'[r][o] \in Nat
    BY <1>7, TypeOKStep DEF TypeOK
  <2>6. QED
    BY <2>1, <2>2, <2>3, <2>4, <2>5 DEF CostInv
<1>8. CASE UNCHANGED vars
  BY <1>8 DEF vars, CostInv, Open, table, history
<1>9. QED
  BY <1>2, <1>3, <1>4, <1>5, <1>6, <1>7, <1>8 DEF Next, ClaimNothing

(* An outage has to last to kill a row: with one relay no row is given up  *)
(* before max_attempts - 1 waits of two seconds, less the skew, have       *)
(* passed since its first failure, and every lost tick saves one of them.  *)
DeathTakesTime ==
  \A r \in Relays, o \in Rows :
    status[o] = "dead" => (MaxAttempts - lost - 1) * (2 - Skew) * Second <= now - first[o]

THEOREM DeathTakesTimeHolds ==
  ASSUME Alone
  PROVE  Spec => []DeathTakesTime
<1>1. Init => AloneInv /\ CostInv
  BY BackoffAssumption DEF Init, AloneInv, CostInv, Count, Open, Nothing
<1>2. TypeOK /\ AloneInv /\ CostInv /\ [Next]_vars => AloneInv' /\ CostInv'
  BY AloneInvStep, CostInvStep
<1>3. BackoffInv /\ CostInv => DeathTakesTime
  <2>1. SUFFICES ASSUME BackoffInv, CostInv, NEW r \in Relays, NEW o \in Rows, status[o] = "dead"
                 PROVE  (MaxAttempts - lost - 1) * (2 - Skew) * Second <= now - first[o]
    BY DEF DeathTakesTime
  <2>2. /\ fails[r][o] \in Nat /\ lost \in Nat /\ now \in Nat /\ first[o] \in Nat
        /\ MaxAttempts \in Nat /\ MaxAttempts <= fails[r][o] + lost
    BY <2>1, BackoffAssumption DEF BackoffInv, CostInv, TypeOK
  <2> DEFINE k == MaxAttempts - lost - 1
  <2>3. k \in Int /\ k <= fails[r][o] - 1
    BY <2>2
  <2>4. (2 - Skew) * Second = Rest /\ Rest \in Nat
    BY RestType DEF Rest
  <2>5. fails[r][o] * Rest <= now - first[o] + Rest
    BY <2>1 DEF BackoffInv, Paid, Worth
  <2>6. fails[r][o] * Rest \in Nat /\ (fails[r][o] - 1) * Rest = fails[r][o] * Rest - Rest
    BY <2>2, <2>4
  <2>7. k * Rest <= (fails[r][o] - 1) * Rest
    <3>1. k * Rest \in Int /\ (fails[r][o] - 1) * Rest \in Int
      BY <2>2, <2>3, <2>4
    <3>2. ((fails[r][o] - 1) - k) * Rest \in Nat
      BY <2>2, <2>3, <2>4
    <3>3. ((fails[r][o] - 1) - k) * Rest = (fails[r][o] - 1) * Rest - k * Rest
      BY <2>2, <2>3, <2>4
    <3> HIDE DEF k
    <3>4. QED
      BY <3>1, <3>2, <3>3
  <2>8. k * (2 - Skew) * Second = k * Rest
    BY <2>3, BackoffAssumption DEF Rest
  <2>9. k * Rest <= now - first[o]
    <3>1. k * Rest \in Int
      BY <2>3, <2>4
    <3> HIDE DEF k
    <3>2. QED
      BY <2>2, <2>4, <2>5, <2>6, <2>7, <3>1
  <2>10. QED
    BY <2>8, <2>9
<1>4. QED
  BY <1>1, <1>2, <1>3, BackoffInvHolds, TypeOKHolds, PTL DEF Spec

----------------------------------------------------------------------------
(* What a reader of the table sees of the waits.                           *)

(* ORDER BY id LIMIT n: the rows before which there are fewer than n are   *)
(* at most n, since no two of them have the same number of rows before.    *)
LEMMA FirstAreFew ==
  ASSUME NEW F \in SUBSET Nat, NEW n \in Nat
  PROVE  LET few == {o \in F : Cardinality({p \in F : p < o}) < n}
         IN  IsFiniteSet(few) /\ Cardinality(few) <= n
<1> DEFINE before(o) == {p \in F : p < o}
           few == {o \in F : Cardinality(before(o)) < n}
           rank == [o \in few |-> Cardinality(before(o))]
<1>1. ASSUME NEW o \in F PROVE IsFiniteSet(before(o)) /\ Cardinality(before(o)) \in Nat
  <2>1. F \subseteq Nat /\ o \in Nat
    OBVIOUS
  <2>2. before(o) \in SUBSET Nat
    BY <2>1
  <2>3. \A p \in before(o) : p <= o
    BY <2>1
  <2>4. IsFiniteSet(before(o))
    BY <2>1, <2>2, <2>3, FS_BoundedSetOfNaturals
  <2>5. QED
    BY <2>4, FS_CardinalityType
<1>2. ASSUME NEW o \in F, NEW q \in F, o < q PROVE Cardinality(before(o)) < Cardinality(before(q))
  <2>0. F \subseteq Nat /\ o \in Nat /\ q \in Nat
    OBVIOUS
  <2>1. before(o) \cup {o} \subseteq before(q) /\ o \notin before(o)
    <3>1. ASSUME NEW p \in F, p < o PROVE p < q
      BY <1>2, <2>0, <3>1
    <3>2. ~ (o < o)
      BY <2>0
    <3>3. QED
      BY <1>2, <3>1, <3>2
  <2>2. Cardinality(before(o) \cup {o}) = Cardinality(before(o)) + 1
    BY <1>1, <2>1, FS_AddElement
  <2>3. Cardinality(before(o) \cup {o}) <= Cardinality(before(q))
    BY <1>1, <2>1, FS_Subset
  <2>4. QED
    BY <1>1, <2>2, <2>3
<1>3. rank \in [few -> 0..(n - 1)]
  <2>1. \A o \in few : Cardinality(before(o)) \in 0..(n - 1)
    BY <1>1
  <2>2. QED
    BY <2>1
<1>4. \A o, q \in few : rank[o] = rank[q] => o = q
  <2>1. SUFFICES ASSUME NEW o \in few, NEW q \in few, o # q PROVE rank[o] # rank[q]
    OBVIOUS
  <2>2. o \in Nat /\ q \in Nat /\ rank[o] \in Nat /\ rank[q] \in Nat
    BY <1>1
  <2>3. o < q \/ q < o
    BY <2>1, <2>2
  <2>4. rank[o] < rank[q] \/ rank[q] < rank[o]
    BY <1>2, <2>3
  <2>5. QED
    BY <2>2, <2>4
<1>5. rank \in Injection(few, 0..(n - 1))
  BY <1>3, <1>4 DEF Injection, IsInjective
<1>6. IsFiniteSet(0..(n - 1)) /\ Cardinality(0..(n - 1)) = n
  BY FS_Interval
<1>7. IsFiniteSet(few) /\ Cardinality(few) <= n
  BY <1>5, <1>6, FS_Injection
<1>8. QED
  BY <1>7

LEMMA HeldBy ==
  ASSUME NEW r \in Relays
  PROVE  /\ Held[r] = {[id |-> o, attempts |-> batch[r][o]] : o \in Claimed(r)}
         /\ T!HeldRows(r) = Claimed(r)
         /\ T!Exhausted(r) = Exhausted(r)
<1>1. Held[r] = {[id |-> o, attempts |-> batch[r][o]] : o \in Claimed(r)}
  BY DEF Held
<1>2. T!HeldRows(r) = Claimed(r)
  <2>1. \A h \in Held[r] : h.id \in Claimed(r)
    BY <1>1
  <2>2. \A o \in Claimed(r) : \E h \in Held[r] : h.id = o
    <3>1. ASSUME NEW o \in Claimed(r)
          PROVE  [id |-> o, attempts |-> batch[r][o]] \in Held[r]
      BY <1>1
    <3>2. QED
      BY <3>1
  <2>3. QED
    BY <2>1, <2>2 DEF T!HeldRows
<1>3. T!Exhausted(r) = Exhausted(r)
  <2>1. \A h \in Held[r] : h.id \in Claimed(r) /\ h.attempts = batch[r][h.id]
    BY <1>1
  <2>2. \A o \in Claimed(r) : \E h \in Held[r] : h.id = o
    BY <1>2 DEF T!HeldRows
  <2>3. QED
    BY <2>1, <2>2 DEF T!Exhausted, Exhausted
<1>4. QED
  BY <1>1, <1>2, <1>3

(* What a relay holds is what its own claim returned, and depends on       *)
(* nothing else.                                                           *)
Known(b) == {[id |-> o, attempts |-> b[o]] : o \in {p \in Rows : b[p] > 0}}

LEMMA HeldChange ==
  ASSUME TypeOK, NEW r \in Relays, NEW b, batch' = [batch EXCEPT ![r] = b]
  PROVE  Held' = [Held EXCEPT ![r] = Known(b)]
<1>1. \A q \in Relays \ {r} : batch'[q] = batch[q]
  BY DEF TypeOK
<1>2. batch'[r] = b
  BY DEF TypeOK
<1>3. \A q \in Relays \ {r} : Held'[q] = Held[q]
  BY <1>1 DEF Held, Claimed
<1>4. Held'[r] = Known(b)
  BY <1>2 DEF Held, Claimed, Known
<1>5. Held = [q \in Relays |-> Held[q]] /\ Held' = [q \in Relays |-> Held'[q]]
  BY DEF Held
<1>6. QED
  BY <1>3, <1>4, <1>5

LEMMA FinishLetsGo ==
  ASSUME TypeOK, NEW r \in Relays, Finish(r)
  PROVE  Held' = [Held EXCEPT ![r] = {}]
<1>1. Known(Nothing) = {}
  BY DEF Known, Nothing
<1>2. QED
  BY <1>1, HeldChange DEF Finish

LEMMA ClaimIsClaim ==
  ASSUME TypeOK, NEW r \in Relays, ClaimBatch(r)
  PROVE  \E rows \in SUBSET Rows : T!Claim(r, rows)
<1> DEFINE rows == {o \in Claimable : Cardinality({p \in Claimable : p < o}) < BatchSize}
           counted == [o \in Rows |-> IF o \in rows THEN attempts[o] + 1 ELSE 0]
<1>1. /\ Claimed(r) = {} /\ rows # {} /\ attempts' = CountAttempt(rows)
      /\ batch' = [batch EXCEPT ![r] = counted] /\ status' = status
  BY DEF ClaimBatch
<1>2. Claimable \in SUBSET Nat /\ BatchSize \in Nat
  BY BackoffAssumption DEF Claimable
<1>3. Cardinality(rows) <= BatchSize
  BY <1>2, FirstAreFew
<1>4. rows \in SUBSET Rows /\ \A o \in rows : status[o] = "pending"
  BY DEF Claimable
<1>5. Held[r] = {}
  BY <1>1, HeldBy
<1> HIDE DEF rows
<1>6. attempts' = [o \in Rows |-> IF o \in rows THEN attempts[o] + 1 ELSE attempts[o]]
  BY <1>1 DEF CountAttempt
<1>7. Held' = [Held EXCEPT ![r] = {[id |-> o, attempts |-> attempts'[o]] : o \in rows}]
  <2>1. {p \in Rows : counted[p] > 0} = rows
    BY <1>4 DEF TypeOK
  <2>2. \A o \in rows : counted[o] = attempts'[o]
    BY <1>4, <1>6
  <2>3. Known(counted) = {[id |-> o, attempts |-> attempts'[o]] : o \in rows}
    BY <2>1, <2>2 DEF Known
  <2> HIDE DEF counted
  <2>4. QED
    BY <1>1, <2>3, HeldChange
<1>8. T!Claim(r, rows)
  BY <1>1, <1>3, <1>4, <1>5, <1>6, <1>7 DEF T!Claim, Cardinality, T!Cardinality
<1>9. QED
  BY <1>4, <1>8

LEMMA TableStep == TypeOK /\ [Next]_vars => [T!Next]_(T!vars)
<1> SUFFICES ASSUME TypeOK, [Next]_vars PROVE [T!Next]_(T!vars)
  OBVIOUS
<1>1. ASSUME UNCHANGED <<status, attempts, batch>> PROVE [T!Next]_(T!vars)
  BY <1>1 DEF T!vars, Held, Claimed
<1>2. ASSUME NEW o \in Rows, Enqueue(o) PROVE T!Next
  <2>1. T!Insert(o)
    BY <1>2 DEF Enqueue, T!Insert, Held, Claimed
  <2>2. QED
    BY <2>1 DEF T!Next
<1>3. ASSUME NEW r \in Relays, ClaimBatch(r) PROVE T!Next
  BY <1>3, ClaimIsClaim DEF T!Next
<1>4. ASSUME NEW r \in Relays, TickLost(r) PROVE T!Next
  BY <1>4, FinishLetsGo DEF TickLost, table, T!Next, T!Abandon, T!LetGo
<1>5. ASSUME NEW r \in Relays, MarkDispatched(r) PROVE T!Next
  BY <1>5, FinishLetsGo, HeldBy DEF MarkDispatched, T!Next, T!MarkDispatched, T!LetGo
<1>6. ASSUME NEW r \in Relays, MarkFailed(r) PROVE T!Next
  <2>1. Held' = [Held EXCEPT ![r] = {}] /\ attempts' = attempts
    BY <1>6, FinishLetsGo DEF MarkFailed
  <2>2. status' = [o \in Rows |-> IF o \in Exhausted(r) THEN "dead"
                                  ELSE IF o \in Claimed(r) THEN "pending" ELSE status[o]]
    BY <1>6 DEF MarkFailed, Retried
  <2>3. QED
    BY <2>1, <2>2, HeldBy DEF T!Next, T!MarkFailed, T!LetGo
<1>7. QED
  BY <1>1, <1>2, <1>3, <1>4, <1>5, <1>6 DEF Next, Pass, ClaimNothing, vars, table

(* MarkRetryBatch: when a row is tried again is the only thing the backoff *)
(* decides.  Whatever the waits, the clocks and the lost ticks, the table  *)
(* shows claims of pending rows and marks of claimed ones, as it does for  *)
(* the relays that take one step at a time.                                *)
THEOREM ClaimsAreCountedHolds == Spec => ClaimsAreCounted
<1>1. Init => T!Init
  BY DEF Init, T!Init, Held, Claimed, Nothing
<1>2. Init => TypeOK
  BY InitInv DEF BackoffInv
<1>3. QED
  BY <1>1, <1>2, TypeOKStep, TableStep, PTL DEF Spec, ClaimsAreCounted, T!Spec
=============================================================================
