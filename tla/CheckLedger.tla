---------------------------- MODULE CheckLedger ----------------------------
(***************************************************************************)
(* What a location check promises to its client and to everybody who reads *)
(* the database.  A check is recorded in one step, whole: with at most     *)
(* limit incidents, none of which was out of force when the request began  *)
(* to look, and with one event if there is an incident at all.  An answer  *)
(* "ok" is given in the step that records the check; an answer "error"     *)
(* promises nothing.  What is recorded stays as it is.                     *)
(***************************************************************************)
EXTENDS Naturals, FiniteSets

CONSTANTS Requests, Incidents, Limit

VARIABLES
  incident,  \* Incidents -> "absent", "active" or "inactive"
  gone,      \* Requests -> incidents it may not record any more
  answer,    \* Requests -> "none", "ok" or "error"
  ledger     \* the recorded checks, with their incidents and events

vars == <<incident, gone, answer, ledger>>

Init ==
  /\ incident = [i \in Incidents |-> "absent"]
  /\ gone = [r \in Requests |-> Incidents]
  /\ answer = [r \in Requests |-> "none"]
  /\ ledger = {}

Create(i) ==
  /\ incident[i] = "absent"
  /\ incident' = [incident EXCEPT ![i] = "active"]
  /\ UNCHANGED <<gone, answer, ledger>>

Deactivate(i) ==
  /\ incident[i] = "active"
  /\ incident' = [incident EXCEPT ![i] = "inactive"]
  /\ UNCHANGED <<gone, answer, ledger>>

Begin(r) ==
  /\ answer[r] = "none"
  /\ gone' = [gone EXCEPT ![r] = {i \in Incidents : incident[i] = "inactive"}]
  /\ UNCHANGED <<incident, answer, ledger>>

Record(r) ==
  \E ids \in SUBSET {i \in Incidents \ gone[r] : incident[i] # "absent"} :
    /\ Cardinality(ids) <= Limit
    /\ ledger' = ledger \cup
         {[check |-> r, incidents |-> ids, events |-> {e \in {ids} : e # {}}]}

Answer(r, kind) ==
  /\ answer[r] = "none"
  /\ answer' = [answer EXCEPT ![r] = kind]
  /\ UNCHANGED <<incident, gone>>

Next ==
  \/ \E i \in Incidents : Create(i) \/ Deactivate(i)
  \/ \E r \in Requests : \/ Begin(r)
                         \/ Answer(r, "ok") /\ Record(r)
                         \/ Answer(r, "error") /\ (Record(r) \/ UNCHANGED ledger)

Spec == Init /\ [][Next]_vars
=============================================================================
