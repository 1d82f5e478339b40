--------------------------- MODULE Notifications ---------------------------
(***************************************************************************)
(* What the outbox, the stream and the webhook worker promise together: a  *)
(* notification is sent to the target only for a committed outbox row, and *)
(* once, unless its deduplication key has expired or the HTTP transport    *)
(* has replayed the request.  There is no promise that it is sent.         *)
(***************************************************************************)
EXTENDS Naturals

CONSTANT Rows

VARIABLES
  committed,  \* rows committed to the outbox
  posts,      \* Rows -> requests the target has processed
  again       \* Rows -> permissions to send once more

vars == <<committed, posts, again>>

Init ==
  /\ committed = {}
  /\ posts = [o \in Rows |-> 0]
  /\ again = [o \in Rows |-> 0]

Commit(o) ==
  /\ o \notin committed
  /\ committed' = committed \cup {o}
  /\ UNCHANGED <<posts, again>>

Send(o) ==
  /\ o \in committed
  /\ posts[o] <= again[o]
  /\ posts' = [posts EXCEPT ![o] = @ + 1]
  /\ UNCHANGED <<committed, again>>

Permit(o) ==
  /\ o \in committed
  /\ again' = [again EXCEPT ![o] = @ + 1]
  /\ UNCHANGED <<committed, posts>>

Next == \E o \in Rows : Commit(o) \/ Send(o) \/ Permit(o)

Spec == Init /\ [][Next]_vars
=============================================================================
