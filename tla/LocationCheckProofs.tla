------------------------ MODULE LocationCheckProofs ------------------------
(***************************************************************************)
(* The outbox holds exactly the events of the committed checks, for any    *)
(* number of requests, connections and faults.                             *)
(***************************************************************************)
EXTENDS LocationCheck, FiniteSetTheorems, TLAPS

(* What an open transaction has inserted when it has got to pc[r]. *)
Staged(r) ==
  /\ pc[r] \in {"start", "finding", "found", "check", "done"} => stmts[r] = {}
  /\ pc[r] = "links" => stmts[r] = {"check"} /\ found[r] # {}
  /\ pc[r] = "event" => stmts[r] = {"check", "links"} /\ found[r] # {}
  /\ pc[r] = "commit" =>
       stmts[r] = IF found[r] = {} THEN {"check"} ELSE {"check", "links", "event"}

(* Before its commit a check has left nothing in the tables.               *)
Unrecorded(r) == r \notin checks /\ answer[r] = "none"

EventsOfChecks == {EventOf(r) : r \in {q \in checks : found[q] # {}}}

CheckInv ==
  /\ TypeOK
  /\ \A r \in Requests : Staged(r) /\ (pc[r] # "done" => Unrecorded(r))
  /\ \A l \in links : l[1] \in checks
  /\ \A r \in checks : linked(r) = found[r]
  /\ outbox = EventsOfChecks
  /\ OkIsRecorded

LEMMA InitInv == Init => CheckInv
BY CheckAssumption
   DEF Init, CheckInv, TypeOK, InTx, Staged, Unrecorded, EventsOfChecks, OkIsRecorded, linked

LEMMA TypeOKStep == TypeOK /\ [Next]_vars => TypeOK'
<1> SUFFICES ASSUME TypeOK, [Next]_vars PROVE TypeOK'
  OBVIOUS
<1> USE CheckAssumption
<1>1. ASSUME NEW i \in Incidents, Create(i) \/ Deactivate(i) PROVE TypeOK'
  BY <1>1 DEF TypeOK, Create, Deactivate, tables
<1>2. ASSUME NEW r \in Requests, FindBegin(r) \/ FindNearby(r) \/ BeginTx(r) PROVE TypeOK'
  <2>1. found' \in [Requests -> SUBSET Incidents]
    BY <1>2 DEF TypeOK, FindBegin, FindNearby, BeginTx
  <2>2. conns' = {q \in Requests : pc'[q] \in {"finding"} \cup InTx}
    BY <1>2 DEF TypeOK, FindBegin, FindNearby, BeginTx, Acquire, Release, Goto, InTx
  <2>3. QED
    BY <1>2, <2>1, <2>2 DEF TypeOK, FindBegin, FindNearby, BeginTx, Goto, InTx, tables
<1>3. ASSUME NEW r \in Requests, InsertCheck(r) \/ InsertLinks(r) \/ Enqueue(r) PROVE TypeOK'
  <2>1. stmts' \in [Requests -> SUBSET {"check", "links", "event"}]
    BY <1>3 DEF TypeOK, InsertCheck, InsertLinks, Enqueue, Insert
  <2>2. conns' = {q \in Requests : pc'[q] \in {"finding"} \cup InTx}
    BY <1>3 DEF TypeOK, InsertCheck, InsertLinks, Enqueue, Insert, Goto, InTx
  <2>3. QED
    BY <1>3, <2>1, <2>2 DEF TypeOK, InsertCheck, InsertLinks, Enqueue, Insert, Goto, InTx, tables
<1>4. ASSUME NEW r \in Requests, NEW s \in {"ok", "error"}, Finish(r, s)
      PROVE  /\ pc' \in [Requests -> {"start", "finding", "found", "done"} \cup InTx]
             /\ conns' = {q \in Requests : pc'[q] \in {"finding"} \cup InTx}
             /\ stmts' \in [Requests -> SUBSET {"check", "links", "event"}]
             /\ answer' \in [Requests -> {"none", "ok", "error"}]
  BY <1>4 DEF TypeOK, Finish, Goto, Release, InTx
<1>5. ASSUME NEW r \in Requests, Apply(r)
      PROVE  /\ checks' \subseteq Requests
             /\ links' \subseteq Requests \X Incidents
             /\ outbox' \subseteq [check : Requests, incidents : SUBSET Incidents]
  <2>1. links' \subseteq links \cup ({r} \X found[r]) /\ found[r] \subseteq Incidents
    BY <1>5 DEF TypeOK, Apply
  <2>2. links' \subseteq Requests \X Incidents
    BY <2>1 DEF TypeOK
  <2>3. outbox' \subseteq outbox \cup {EventOf(r)}
    BY <1>5 DEF Apply
  <2>4. EventOf(r) \in [check : Requests, incidents : SUBSET Incidents]
    BY DEF TypeOK, EventOf
  <2>5. checks' \subseteq Requests
    BY <1>5 DEF TypeOK, Apply
  <2>6. QED
    BY <2>2, <2>3, <2>4, <2>5 DEF TypeOK
<1>6. ASSUME NEW r \in Requests, Commit(r) \/ CommitFails(r) \/ Fails(r) PROVE TypeOK'
  <2>1. faults' \in 0..MaxFaults
    BY <1>6 DEF TypeOK, Commit, CommitFails, Fails, Fault
  <2>2. QED
    BY <1>4, <1>5, <1>6, <2>1 DEF TypeOK, Commit, CommitFails, Fails, tables
<1>7. CASE UNCHANGED vars
  BY <1>7 DEF TypeOK, vars, tables
<1>8. QED
  BY <1>1, <1>2, <1>3, <1>6, <1>7 DEF Next, CheckStep, Idle

(* Every reachable state is well typed: in particular no connection leaks. *)
THEOREM TypeCorrect == Spec => []TypeOK
<1>1. Init => TypeOK
  BY InitInv DEF CheckInv
<1>2. QED
  BY <1>1, TypeOKStep, PTL DEF Spec

----------------------------------------------------------------------------
(* What a commit leaves in the tables: the check, its links and its event. *)
LEMMA ApplyAll ==
  ASSUME CheckInv, NEW r \in Requests, pc[r] = "commit", Apply(r), found' = found
  PROVE  /\ checks' = checks \cup {r}
         /\ \A l \in links' : l[1] \in checks'
         /\ \A q \in checks' : linked(q)' = found[q]
         /\ \A q \in Requests : q # r => linked(q)' = linked(q)
         /\ outbox' = EventsOfChecks'
<1>1. /\ stmts[r] = IF found[r] = {} THEN {"check"} ELSE {"check", "links", "event"}
      /\ r \notin checks
  BY DEF CheckInv, Staged, Unrecorded
<1>2. checks' = checks \cup {r}
  BY <1>1 DEF Apply
<1>3. links' = links \cup ({r} \X found[r])
  <2>1. CASE found[r] = {}
    <3>1. links' = links
      BY <1>1, <2>1 DEF Apply
    <3>2. QED
      BY <2>1, <3>1
  <2>2. CASE found[r] # {}
    <3>1. "links" \in stmts[r]
      BY <1>1, <2>2
    <3>2. QED
      BY <3>1 DEF Apply
  <2>3. QED
    BY <2>1, <2>2
<1>4. \A l \in links : l[1] # r /\ l[1] \in checks
  BY <1>1 DEF CheckInv
<1>5. ASSUME NEW q \in Requests, q # r PROVE linked(q)' = linked(q)
  BY <1>3, <1>5 DEF linked
<1>6. linked(r)' = found[r]
  <2>1. \A i : i \in linked(r)' <=> \E l \in links' : l[1] = r /\ l[2] = i
    BY DEF linked
  <2>2. \A l \in links' : l[1] = r => l[2] \in found[r]
    BY <1>3, <1>4
  <2>3. \A i \in found[r] : <<r, i>> \in links' /\ <<r, i>>[1] = r /\ <<r, i>>[2] = i
    BY <1>3
  <2>4. \A i : i \in linked(r)' <=> i \in found[r]
    BY <2>1, <2>2, <2>3
  <2>5. QED
    BY <2>4
<1>7. \A l \in links' : l[1] \in checks'
  BY <1>2, <1>3, <1>4
<1>8. \A q \in checks' : linked(q)' = found[q]
  BY <1>2, <1>5, <1>6 DEF CheckInv, TypeOK
<1>9. outbox' = EventsOfChecks'
  <2>1. outbox' = outbox \cup {e \in {EventOf(r)} : found[r] # {}}
    BY <1>1 DEF Apply
  <2>2. EventsOfChecks' = EventsOfChecks \cup {e \in {EventOf(r)} : found[r] # {}}
    BY <1>2 DEF EventsOfChecks, EventOf
  <2>3. QED
    BY <2>1, <2>2 DEF CheckInv
<1>10. QED
  BY <1>2, <1>5, <1>7, <1>8, <1>9

(* A step that leaves the tables alone and finds nothing new for a         *)
(* recorded check.                                                         *)
LEMMA TablesKept ==
  ASSUME CheckInv, UNCHANGED tables, \A r \in checks : found'[r] = found[r],
         \A r \in Requests : answer'[r] = "ok" => answer[r] = "ok" /\ found'[r] = found[r]
  PROVE  /\ \A l \in links' : l[1] \in checks'
         /\ \A r \in checks' : linked(r)' = found'[r]
         /\ outbox' = EventsOfChecks'
         /\ OkIsRecorded'
<1>1. \A r : linked(r)' = linked(r)
  BY DEF linked, tables
<1>2. EventsOfChecks' = EventsOfChecks
  BY DEF EventsOfChecks, EventOf, tables
<1>3. QED
  BY <1>1, <1>2 DEF CheckInv, tables, OkIsRecorded

LEMMA InvStep == CheckInv /\ [Next]_vars => CheckInv'
<1> SUFFICES ASSUME CheckInv, [Next]_vars PROVE CheckInv'
  OBVIOUS
<1> DEFINE Progress == \A q \in Requests : Staged(q)' /\ (pc'[q] # "done" => Unrecorded(q)')
<1>1. TypeOK /\ TypeOK'
  BY TypeOKStep DEF CheckInv
<1>2. \A q \in Requests : Staged(q) /\ (pc[q] # "done" => Unrecorded(q))
  BY DEF CheckInv
<1>3. ASSUME NEW r \in Requests, FindBegin(r) \/ BeginTx(r) PROVE CheckInv'
  <2>1. Progress
    BY <1>1, <1>2, <1>3 DEF FindBegin, BeginTx, Goto, Staged, Unrecorded, TypeOK, InTx, tables
  <2>2. QED
    BY <1>1, <1>3, <2>1, TablesKept DEF FindBegin, BeginTx, CheckInv
<1>4. ASSUME NEW r \in Requests, FindNearby(r) PROVE CheckInv'
  <2>1. \A q \in Requests : q # r => found'[q] = found[q]
    BY <1>1, <1>4 DEF FindNearby, TypeOK
  <2>2. r \notin checks /\ answer[r] = "none"
    BY <1>2, <1>4 DEF FindNearby, Unrecorded
  <2>3. Progress
    BY <1>1, <1>2, <1>4, <2>1 DEF FindNearby, Goto, Staged, Unrecorded, TypeOK, InTx, tables
  <2>4. QED
    BY <1>1, <1>4, <2>1, <2>2, <2>3, TablesKept DEF FindNearby, CheckInv, TypeOK
<1>5. ASSUME NEW r \in Requests, InsertCheck(r) \/ InsertLinks(r) \/ Enqueue(r) PROVE CheckInv'
  <2>1. Progress
    BY <1>1, <1>2, <1>5
       DEF InsertCheck, InsertLinks, Enqueue, Insert, Goto, Staged, Unrecorded, TypeOK, InTx, tables
  <2>2. QED
    BY <1>1, <1>5, <2>1, TablesKept DEF InsertCheck, InsertLinks, Enqueue, Insert, CheckInv
<1>6. ASSUME NEW r \in Requests, UNCHANGED tables, found' = found, Finish(r, "error")
      PROVE  CheckInv'
  <2>1. Progress
    BY <1>1, <1>2, <1>6 DEF Finish, Goto, Staged, Unrecorded, TypeOK, InTx, tables
  <2>2. \A q \in Requests : answer'[q] = "ok" => answer[q] = "ok"
    BY <1>1, <1>6 DEF Finish, TypeOK
  <2>3. QED
    BY <1>1, <1>6, <2>1, <2>2, TablesKept DEF CheckInv
<1>7. ASSUME NEW r \in Requests, NEW s \in {"ok", "error"}, pc[r] = "commit", Apply(r),
             found' = found, Finish(r, s)
      PROVE  CheckInv'
  <2>1. /\ checks' = checks \cup {r}
        /\ \A l \in links' : l[1] \in checks'
        /\ \A q \in checks' : linked(q)' = found[q]
        /\ outbox' = EventsOfChecks'
    BY <1>7, ApplyAll
  <2>2. Progress
    BY <1>1, <1>2, <1>7, <2>1 DEF Finish, Goto, Staged, Unrecorded, TypeOK, InTx
  <2>3. \A q \in Requests : answer'[q] = "ok" => q \in checks'
    BY <1>1, <1>7, <2>1 DEF Finish, TypeOK, CheckInv, OkIsRecorded
  <2>4. OkIsRecorded'
    BY <1>7, <2>1, <2>3 DEF OkIsRecorded
  <2>5. QED
    BY <1>1, <1>7, <2>1, <2>2, <2>4 DEF CheckInv
<1>8. CASE UNCHANGED <<pc, found, stmts, answer, tables>>
  <2>1. Progress
    BY <1>2, <1>8 DEF Staged, Unrecorded, tables
  <2>2. QED
    BY <1>1, <1>8, <2>1, TablesKept DEF CheckInv
<1>9. QED
  BY <1>3, <1>4, <1>5, <1>6, <1>7, <1>8
     DEF Next, CheckStep, Commit, CommitFails, Fails, Create, Deactivate, Idle, vars

(* WithinTx: the outbox holds the events of the committed checks, whatever *)
(* fails before, at or after the commit.                                   *)
THEOREM EventsMatchChecksHolds == Spec => []EventsMatchChecks
<1>1. CheckInv => EventsMatchChecks
  <2> SUFFICES ASSUME CheckInv PROVE EventsMatchChecks
    OBVIOUS
  <2>1. \A r \in checks : linked(r) = found[r]
    BY DEF CheckInv
  <2>2. EventsOfChecks =
          {[check |-> r, incidents |-> linked(r)] : r \in {q \in checks : linked(q) # {}}}
    BY <2>1 DEF EventsOfChecks, EventOf
  <2>3. QED
    BY <2>2 DEF CheckInv, EventsMatchChecks
<1>2. QED
  BY <1>1, InitInv, InvStep, PTL DEF Spec

(* CheckAndRecord: what is answered with success has been recorded.        *)
THEOREM OkIsRecordedHolds == Spec => []OkIsRecorded
<1>1. CheckInv => OkIsRecorded
  BY DEF CheckInv
<1>2. QED
  BY <1>1, InitInv, InvStep, PTL DEF Spec

----------------------------------------------------------------------------
(* What a request has found was there, in force, and not too much.         *)
Found(r) ==
  /\ pc[r] \in {"start", "finding"} => found[r] = {}
  /\ pc[r] = "finding" => \A i \in gone[r] : incident[i] = "inactive"
  /\ found[r] \cap gone[r] = {}
  /\ \A i \in found[r] : incident[i] # "absent"
  /\ Cardinality(found[r]) <= Limit

LedgerInv == CheckInv /\ \A r \in Requests : Found(r)

LEMMA LedgerInit == Init => LedgerInv
<1> SUFFICES ASSUME Init PROVE LedgerInv
  OBVIOUS
<1>1. Cardinality({}) <= Limit
  BY CheckAssumption, FS_EmptySet
<1>2. QED
  BY <1>1, InitInv DEF Init, LedgerInv, Found

LEMMA FoundStep ==
  ASSUME LedgerInv, [Next]_vars, NEW r \in Requests
  PROVE  Found(r)'
<1>1. TypeOK /\ Found(r)
  BY DEF LedgerInv, CheckInv
<1>2. ASSUME NEW i \in Incidents, Create(i) \/ Deactivate(i) PROVE Found(r)'
  <2>1. /\ pc' = pc /\ found' = found /\ gone' = gone
        /\ \A j \in Incidents : incident[j] = "inactive" => incident'[j] = "inactive"
        /\ \A j \in Incidents : incident[j] # "absent" => incident'[j] # "absent"
    BY <1>1, <1>2 DEF Create, Deactivate, TypeOK
  <2>2. found[r] \subseteq Incidents /\ gone[r] \subseteq Incidents
    BY <1>1 DEF TypeOK
  <2>3. found'[r] = found[r] /\ gone'[r] = gone[r] /\ pc'[r] = pc[r]
    BY <2>1
  <2>4. pc[r] = "finding" => \A j \in gone[r] : incident'[j] = "inactive"
    BY <1>1, <2>1, <2>2 DEF Found
  <2>5. \A j \in found[r] : incident'[j] # "absent"
    BY <1>1, <2>1, <2>2 DEF Found
  <2>6. /\ pc[r] \in {"start", "finding"} => found[r] = {}
        /\ found[r] \cap gone[r] = {} /\ Cardinality(found[r]) <= Limit
    BY <1>1 DEF Found
  <2>7. QED
    BY <2>3, <2>4, <2>5, <2>6 DEF Found
<1>3. ASSUME NEW q \in Requests, FindBegin(q) PROVE Found(r)'
  <2>1. CASE q = r
    <3>1. /\ found'[r] = {} /\ pc'[r] = "finding" /\ incident' = incident
          /\ gone'[r] = {i \in Incidents : incident[i] = "inactive"}
          /\ Cardinality(found'[r]) <= Limit
      BY <1>1, <1>3, <2>1 DEF FindBegin, Goto, TypeOK, Found
    <3>2. QED
      BY <3>1 DEF Found
  <2>2. CASE q # r
    BY <1>1, <1>3, <2>2 DEF FindBegin, Goto, TypeOK, Found
  <2>3. QED
    BY <2>1, <2>2
<1>4. ASSUME NEW q \in Requests, FindNearby(q) PROVE Found(r)'
  <2>1. CASE q = r
    <3>1. PICK ids \in SUBSET {i \in Incidents : incident[i] = "active"} :
            Cardinality(ids) <= Limit /\ found' = [found EXCEPT ![r] = ids]
      BY <1>4, <2>1 DEF FindNearby
    <3>2. pc[r] = "finding" /\ pc'[r] = "found" /\ incident' = incident /\ gone' = gone
      BY <1>1, <1>4, <2>1 DEF FindNearby, Goto, TypeOK
    <3>3. found'[r] = ids
      BY <1>1, <3>1 DEF TypeOK
    <3>4. QED
      BY <1>1, <3>1, <3>2, <3>3 DEF Found
  <2>2. CASE q # r
    BY <1>1, <1>4, <2>2 DEF FindNearby, Goto, TypeOK, Found
  <2>3. QED
    BY <2>1, <2>2
<1>5. CASE /\ UNCHANGED <<incident, found, gone>>
           /\ pc'[r] = pc[r] \/ pc'[r] \notin {"start", "finding"}
  BY <1>1, <1>5 DEF Found
<1>6. ASSUME NEW q \in Requests,
             \/ BeginTx(q) \/ InsertCheck(q) \/ InsertLinks(q) \/ Enqueue(q)
             \/ Commit(q) \/ CommitFails(q) \/ Fails(q)
      PROVE  /\ UNCHANGED <<incident, found, gone>>
             /\ pc'[r] = pc[r] \/ pc'[r] \notin {"start", "finding"}
  BY <1>1, <1>6 DEF BeginTx, InsertCheck, InsertLinks, Enqueue, Insert, Commit, CommitFails,
                    Fails, Finish, Goto, TypeOK
<1>7. CASE UNCHANGED vars
  BY <1>5, <1>7 DEF vars
<1>8. QED
  BY <1>2, <1>3, <1>4, <1>5, <1>6, <1>7 DEF Next, CheckStep, Idle

LEMMA LedgerInvStep == LedgerInv /\ [Next]_vars => LedgerInv'
BY InvStep, FoundStep DEF LedgerInv

(* Links and events tell the same of a check: what its request has found.  *)
FoundEntry(r) ==
  [check |-> r, incidents |-> found[r], events |-> {e \in {found[r]} : e # {}}]

LEMMA LedgerIsFound == CheckInv => Ledger = {FoundEntry(r) : r \in checks}
<1> SUFFICES ASSUME CheckInv, NEW r \in checks
             PROVE  /\ linked(r) = found[r]
                    /\ {e.incidents : e \in {f \in outbox : f.check = r}} = {e \in {found[r]} : e # {}}
  BY DEF Ledger, FoundEntry
<1>1. linked(r) = found[r] /\ outbox = EventsOfChecks
  BY DEF CheckInv
<1>2. \A f \in outbox : f.check = r => f.incidents = found[r] /\ found[r] # {}
  BY <1>1 DEF EventsOfChecks, EventOf
<1>3. found[r] # {} => \E f \in outbox : f.check = r /\ f.incidents = found[r]
  <2>1. found[r] # {} => EventOf(r) \in outbox
    BY <1>1 DEF EventsOfChecks
  <2>2. EventOf(r).check = r /\ EventOf(r).incidents = found[r]
    BY DEF EventOf
  <2>3. QED
    BY <2>1, <2>2
<1>4. QED
  BY <1>1, <1>2, <1>3

LEMMA LedgerIsFoundNext == (CheckInv => Ledger = {FoundEntry(r) : r \in checks})'
BY LedgerIsFound, PTL

LEMMA SameCardinality == \A S : L!Cardinality(S) = Cardinality(S)
BY DEF L!Cardinality, Cardinality

(* A check is recorded whole by the step that commits it.                  *)
LEMMA CommitRecords ==
  ASSUME LedgerInv, LedgerInv', NEW r \in Requests, pc[r] = "commit", Apply(r),
         UNCHANGED <<found, incident, gone>>
  PROVE  L!Record(r)
<1>1. /\ checks' = checks \cup {r}
      /\ Ledger = {FoundEntry(q) : q \in checks}
      /\ Ledger' = {FoundEntry(q)' : q \in checks'}
  BY LedgerIsFound, LedgerIsFoundNext, ApplyAll DEF LedgerInv
<1>2. \A q : FoundEntry(q)' = FoundEntry(q)
  BY DEF FoundEntry
<1>3. Ledger' = Ledger \cup {FoundEntry(r)}
  BY <1>1, <1>2
<1>4. /\ found[r] \in SUBSET {i \in Incidents \ gone[r] : incident[i] # "absent"}
      /\ Cardinality(found[r]) <= Limit
  BY DEF LedgerInv, CheckInv, TypeOK, Found
<1>5. Ledger' = Ledger \cup
        {[check |-> r, incidents |-> found[r], events |-> {e \in {found[r]} : e # {}}]}
  BY <1>3 DEF FoundEntry
<1>6. QED
  BY <1>4, <1>5, SameCardinality DEF L!Record

(* CheckAndRecord and WithinTx implement the ledger.                       *)
THEOREM ChecksAreWholeHolds == Spec => ChecksAreWhole
<1>1. Init => L!Init
  BY DEF Init, L!Init, Ledger
<1>2. LedgerInv /\ LedgerInv' /\ [Next]_vars => [L!Next]_(L!vars)
  <2> SUFFICES ASSUME LedgerInv, LedgerInv', [Next]_vars PROVE [L!Next]_(L!vars)
    OBVIOUS
  <2>1. CASE UNCHANGED <<checks, links, outbox>>
    <3>1. Ledger' = Ledger
      BY <2>1 DEF Ledger, linked
    <3>2. ASSUME NEW i \in Incidents, Create(i) \/ Deactivate(i) PROVE L!Next
      BY <3>1, <3>2 DEF Create, Deactivate, L!Create, L!Deactivate, L!Next
    <3>3. ASSUME NEW r \in Requests, FindBegin(r) PROVE L!Begin(r)
      BY <3>1, <3>3 DEF FindBegin, L!Begin, LedgerInv, CheckInv, Unrecorded
    <3>4. ASSUME NEW r \in Requests, Fails(r) \/ CommitFails(r)
          PROVE  L!Answer(r, "error") /\ UNCHANGED Ledger
      BY <3>1, <3>4 DEF Fails, CommitFails, Finish, L!Answer, LedgerInv, CheckInv, Unrecorded
    <3>5. ASSUME NEW r \in Requests, Commit(r) PROVE FALSE
      <4>1. checks' = checks \cup {r} /\ r \notin checks
        BY <3>5, ApplyAll DEF Commit, LedgerInv, CheckInv, Unrecorded
      <4>2. QED
        BY <2>1, <4>1
    <3>6. ASSUME NEW r \in Requests,
                 FindNearby(r) \/ BeginTx(r) \/ InsertCheck(r) \/ InsertLinks(r) \/ Enqueue(r)
          PROVE  UNCHANGED L!vars
      BY <3>1, <3>6 DEF FindNearby, BeginTx, InsertCheck, InsertLinks, Enqueue, Insert, L!vars
    <3>7. CASE UNCHANGED vars
      BY <3>1, <3>7 DEF vars, L!vars
    <3>8. QED
      BY <3>2, <3>3, <3>4, <3>5, <3>6, <3>7 DEF Next, CheckStep, Idle, L!Next
  <2>2. ASSUME NEW r \in Requests, NEW s \in {"ok", "error"}, pc[r] = "commit", Apply(r),
               Finish(r, s), UNCHANGED <<found, incident, gone>>
        PROVE  L!Answer(r, s) /\ L!Record(r)
    BY <2>2, CommitRecords DEF Finish, L!Answer, LedgerInv, CheckInv, Unrecorded
  <2>3. QED
    BY <2>1, <2>2
       DEF Next, CheckStep, Idle, L!Next, Create, Deactivate, FindBegin, FindNearby, BeginTx,
           InsertCheck, InsertLinks, Enqueue, Insert, Commit, CommitFails, Fails, tables, vars
<1>3. QED
  BY <1>1, <1>2, LedgerInit, LedgerInvStep, PTL DEF Spec, ChecksAreWhole, L!Spec
=============================================================================
