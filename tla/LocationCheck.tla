--------------------------- MODULE LocationCheck ---------------------------
(***************************************************************************)
(* A location check: Service.CheckAndRecord (internal/app/incidents) finds *)
(* the incidents around a point, and records the check, its links to them  *)
(* and the outbox event in one transaction of UnitOfWork.WithinTx.         *)
(*                                                                         *)
(*   start -> finding -> found -> check -> links -> event -> commit -> done *)
(*                                                                         *)
(* "finding" and the four steps of the transaction hold a connection of    *)
(* the pool; between the two, and while it waits for one, a request holds  *)
(* none.  Distance and user are abstracted: any active incidents, up to    *)
(* the limit, may be the nearest ones.                                     *)
(***************************************************************************)
EXTENDS Naturals, FiniteSets

CONSTANTS
  Requests,      \* POST /location/check requests, each its own check id
  Incidents,     \* ids of incidents
  Limit,         \* cmd.Limit
  MaxOpenConns,  \* size of the connection pool
  FaultKinds,    \* which faults the environment may inject
  MaxFaults      \* bound on the number of faults of a behaviour

ASSUME CheckAssumption ==
  /\ Limit \in Nat
  /\ MaxOpenConns \in Nat \ {0}
  /\ MaxFaults \in Nat

VARIABLES
  incident,  \* Incidents -> "absent" until created, "active" or "inactive"
  pc,        \* Requests -> where CheckAndRecord is
  conns,     \* requests that hold a connection
  found,     \* Requests -> the ids FindNearby returned
  stmts,     \* Requests -> what its open transaction has inserted
  answer,    \* Requests -> "none", "ok" or "error"
  checks,    \* location_checks
  links,     \* location_check_incidents
  outbox,    \* webhook_outbox
  faults,    \* number of faults so far
  gone       \* history: Requests -> incidents inactive when FindNearby began

tables == <<checks, links, outbox>>
vars == <<incident, pc, conns, found, stmts, answer, tables, faults, gone>>

InTx == {"check", "links", "event", "commit"}
EventOf(r) == [check |-> r, incidents |-> found[r]]
linked(r) == {l[2] : l \in {m \in links : m[1] = r}}

Fault(kind) ==
  /\ kind \in FaultKinds
  /\ faults < MaxFaults
  /\ faults' = faults + 1

----------------------------------------------------------------------------
Init ==
  /\ incident = [i \in Incidents |-> "absent"]
  /\ pc = [r \in Requests |-> "start"]
  /\ conns = {}
  /\ found = [r \in Requests |-> {}]
  /\ stmts = [r \in Requests |-> {}]
  /\ answer = [r \in Requests |-> "none"]
  /\ checks = {} /\ links = {} /\ outbox = {}
  /\ faults = 0
  /\ gone = [r \in Requests |-> Incidents]

(* Other requests create and deactivate incidents; none is ever deleted.   *)
Create(i) ==
  /\ incident[i] = "absent"
  /\ incident' = [incident EXCEPT ![i] = "active"]
  /\ UNCHANGED <<pc, conns, found, stmts, answer, tables, faults, gone>>

Deactivate(i) ==
  /\ incident[i] = "active"
  /\ incident' = [incident EXCEPT ![i] = "inactive"]
  /\ UNCHANGED <<pc, conns, found, stmts, answer, tables, faults, gone>>

Goto(r, label) == pc' = [pc EXCEPT ![r] = label]

Acquire(r) ==
  /\ Cardinality(conns) < MaxOpenConns
  /\ conns' = conns \cup {r}

Release(r) == conns' = conns \ {r}

----------------------------------------------------------------------------
FindBegin(r) ==
  /\ pc[r] = "start"
  /\ Acquire(r)
  /\ Goto(r, "finding")
  /\ gone' = [gone EXCEPT ![r] = {i \in Incidents : incident[i] = "inactive"}]
  /\ UNCHANGED <<incident, found, stmts, answer, tables, faults>>

(* Seeded bug: the SELECT without is_active = TRUE. *)
FindNearbyAny(r) ==
  /\ pc[r] = "finding"
  /\ \E ids \in SUBSET {i \in Incidents : incident[i] # "absent"} :
       /\ Cardinality(ids) <= Limit
       /\ found' = [found EXCEPT ![r] = ids]
  /\ Release(r)
  /\ Goto(r, "found")
  /\ UNCHANGED <<incident, stmts, answer, tables, faults, gone>>

(* One SELECT, and the connection goes back to the pool. *)
FindNearby(r) ==
  /\ pc[r] = "finding"
  /\ \E ids \in SUBSET {i \in Incidents : incident[i] = "active"} :
       /\ Cardinality(ids) <= Limit
       /\ found' = [found EXCEPT ![r] = ids]
  /\ Release(r)
  /\ Goto(r, "found")
  /\ UNCHANGED <<incident, stmts, answer, tables, faults, gone>>

(* BeginTxx takes a connection for the whole transaction. *)
BeginTx(r) ==
  /\ pc[r] = "found"
  /\ Acquire(r)
  /\ Goto(r, "check")
  /\ UNCHANGED <<incident, found, stmts, answer, tables, faults, gone>>

(* A statement of the transaction: nobody else sees it before the commit. *)
Insert(r, stmt, label) ==
  /\ stmts' = [stmts EXCEPT ![r] = @ \cup {stmt}]
  /\ Goto(r, label)
  /\ UNCHANGED <<incident, conns, found, answer, tables, faults, gone>>

InsertCheck(r) ==
  /\ pc[r] = "check"
  /\ Insert(r, "check", IF found[r] = {} THEN "commit" ELSE "links")

InsertLinks(r) ==
  /\ pc[r] = "links"
  /\ Insert(r, "links", "event")

(* Seeded bug: the outbox repository is built on the pool, not on the tx. *)
EnqueueOutsideTx(r) ==
  /\ pc[r] = "event"
  /\ outbox' = outbox \cup {EventOf(r)}
  /\ Goto(r, "commit")
  /\ UNCHANGED <<incident, conns, found, stmts, answer, checks, links, faults, gone>>

Enqueue(r) ==
  /\ pc[r] = "event"
  /\ Insert(r, "event", "commit")

(* What the database does when it commits the transaction. *)
Apply(r) ==
  /\ checks' = checks \cup {q \in {r} : "check" \in stmts[r]}
  /\ links' = links \cup {l \in {r} \X found[r] : "links" \in stmts[r]}
  /\ outbox' = outbox \cup {e \in {EventOf(r)} : "event" \in stmts[r]}

(* Seeded bug: a request that fails keeps its connection. *)
FinishAndLeak(r, status) ==
  /\ Goto(r, "done")
  /\ answer' = [answer EXCEPT ![r] = status]
  /\ stmts' = [stmts EXCEPT ![r] = {}]
  /\ conns' = (IF status = "ok" THEN conns \ {r} ELSE conns)

Finish(r, status) ==
  /\ Goto(r, "done")
  /\ answer' = [answer EXCEPT ![r] = status]
  /\ stmts' = [stmts EXCEPT ![r] = {}]
  /\ Release(r)

Commit(r) ==
  /\ pc[r] = "commit"
  /\ Apply(r)
  /\ Finish(r, "ok")
  /\ UNCHANGED <<incident, found, faults, gone>>

(* Seeded bug: the error of Commit does not reach the named result err. *)
CommitFailsSilently(r) ==
  /\ pc[r] = "commit"
  /\ Fault("commit")
  /\ Apply(r) \/ UNCHANGED tables
  /\ Finish(r, "ok")
  /\ UNCHANGED <<incident, found, gone>>

(* Commit returns an error: the transaction may have taken effect or not.  *)
CommitFails(r) ==
  /\ pc[r] = "commit"
  /\ Fault("commit")
  /\ Apply(r) \/ UNCHANGED tables
  /\ Finish(r, "error")
  /\ UNCHANGED <<incident, found, gone>>

(* A query fails, the request's context ends while it waits for a          *)
(* connection or for a reply, or fn panics: rolled back, and the           *)
(* connection is returned.                                                 *)
Fails(r) ==
  /\ pc[r] # "done"
  /\ Fault("db")
  /\ Finish(r, "error")
  /\ UNCHANGED <<incident, found, tables, gone>>

----------------------------------------------------------------------------
CheckStep(r) ==
  \/ FindBegin(r)
  \/ FindNearby(r)
  \/ BeginTx(r)
  \/ InsertCheck(r)
  \/ InsertLinks(r)
  \/ Enqueue(r)
  \/ Commit(r)

(* Every request has been answered. *)
Idle == (\A r \in Requests : pc[r] = "done") /\ UNCHANGED vars

Next ==
  \/ \E i \in Incidents : Create(i) \/ Deactivate(i)
  \/ \E r \in Requests : CheckStep(r) \/ CommitFails(r) \/ Fails(r)
  \/ Idle

Spec == Init /\ [][Next]_vars

FairSpec == Spec /\ \A r \in Requests : WF_vars(CheckStep(r))

----------------------------------------------------------------------------
(* The shape of the state: a connection is held exactly by the requests    *)
(* that query or are in a transaction, and an unfinished transaction has   *)
(* inserted what comes before its next statement.                          *)
TypeOK ==
  /\ incident \in [Incidents -> {"absent", "active", "inactive"}]
  /\ pc \in [Requests -> {"start", "finding", "found", "done"} \cup InTx]
  /\ conns = {r \in Requests : pc[r] \in {"finding"} \cup InTx}
  /\ found \in [Requests -> SUBSET Incidents]
  /\ stmts \in [Requests -> SUBSET {"check", "links", "event"}]
  /\ answer \in [Requests -> {"none", "ok", "error"}]
  /\ checks \subseteq Requests
  /\ links \subseteq Requests \X Incidents
  /\ outbox \subseteq [check : Requests, incidents : SUBSET Incidents]
  /\ faults \in 0..MaxFaults
  /\ gone \in [Requests -> SUBSET Incidents]

(* The transactional outbox: in every state of the database the events are *)
(* those of the committed checks that found incidents, one for each, with  *)
(* the incidents the check is linked to; nothing of a check that was       *)
(* rolled back is left.                                                    *)
EventsMatchChecks ==
  /\ \A l \in links : l[1] \in checks
  /\ outbox = {[check |-> r, incidents |-> linked(r)] : r \in {q \in checks : linked(q) # {}}}

(* An answer "ok" is never wrong: the check is recorded as it was          *)
(* answered.  An answer "error" may be: see CommitFails.                   *)
OkIsRecorded ==
  \A r \in Requests : answer[r] = "ok" => r \in checks /\ linked(r) = found[r]

(* The checks as the tables tell of them. *)
Ledger ==
  {[check     |-> r,
    incidents |-> linked(r),
    events    |-> {e.incidents : e \in {f \in outbox : f.check = r}}] : r \in checks}

L == INSTANCE CheckLedger WITH ledger <- Ledger

(* FindNearby reads outside the transaction, so an incident may be notified*)
(* that has been deactivated since; but never one that was inactive when   *)
(* the request looked, and a check with its links and its event appears in *)
(* one step, once, and is never touched again.                             *)
ChecksAreWhole == L!Spec

(* Requests that wait for a connection get one: no request waits for a     *)
(* second one while it holds the first, and none is leaked by an error.    *)
EveryRequestAnswered == \A r \in Requests : <>(answer[r] # "none")
=============================================================================
