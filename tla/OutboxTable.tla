---------------------------- MODULE OutboxTable ----------------------------
(***************************************************************************)
(* What a reader of the outbox table sees of the relays: how a row's       *)
(* status and attempts may change, and which relay may change them.  Row   *)
(* locks, the pipeline to Redis, its re-sends and the waits between two    *)
(* attempts show in nothing else.                                          *)
(*                                                                         *)
(* A relay marks the rows that it holds, those that its last claim         *)
(* reported to it, and no others.  It does not hold them alone: until they *)
(* are marked they stay pending, other relays claim them as well, and a    *)
(* mark looks at the attempts its own claim counted, never at the table.   *)
(***************************************************************************)
EXTENDS Naturals, FiniteSets

CONSTANTS Rows, Relays, BatchSize, MaxAttempts

VARIABLES
  status,    \* Rows -> "absent", "pending", "dispatched" or "dead"
  attempts,  \* Rows -> claims that were counted
  held       \* Relays -> the rows it holds, with the attempts it knows of

vars == <<status, attempts, held>>

Init ==
  /\ status = [o \in Rows |-> "absent"]
  /\ attempts = [o \in Rows |-> 0]
  /\ held = [r \in Relays |-> {}]

Insert(o) ==
  /\ status[o] = "absent"
  /\ status' = [status EXCEPT ![o] = "pending"]
  /\ UNCHANGED <<attempts, held>>

(* The claim is counted, also when its reply is lost and nobody holds it.  *)
Claim(r, rows) ==
  /\ held[r] = {}
  /\ \A o \in rows : status[o] = "pending"
  /\ rows # {} /\ Cardinality(rows) <= BatchSize
  /\ attempts' = [o \in Rows |-> IF o \in rows THEN attempts[o] + 1 ELSE attempts[o]]
  /\ \/ held' = [held EXCEPT ![r] = {[id |-> o, attempts |-> attempts'[o]] : o \in rows}]
     \/ UNCHANGED held
  /\ UNCHANGED status

LetGo(r) == held' = [held EXCEPT ![r] = {}] /\ UNCHANGED attempts

Abandon(r) == LetGo(r) /\ UNCHANGED status

HeldRows(r) == {h.id : h \in held[r]}

Exhausted(r) == {h.id : h \in {g \in held[r] : g.attempts >= MaxAttempts}}

MarkDispatched(r) ==
  /\ LetGo(r)
  /\ status' = [o \in Rows |-> IF o \in HeldRows(r) THEN "dispatched" ELSE status[o]]

MarkFailed(r) ==
  /\ LetGo(r)
  /\ status' = [o \in Rows |-> IF o \in Exhausted(r) THEN "dead"
                               ELSE IF o \in HeldRows(r) THEN "pending" ELSE status[o]]

Next ==
  \/ \E o \in Rows : Insert(o)
  \/ \E r \in Relays : \/ \E rows \in SUBSET Rows : Claim(r, rows)
                       \/ Abandon(r) \/ MarkDispatched(r) \/ MarkFailed(r)

Spec == Init /\ [][Next]_vars
=============================================================================
