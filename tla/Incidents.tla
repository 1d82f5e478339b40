----------------------------- MODULE Incidents -----------------------------
(***************************************************************************)
(* The operations on incidents, from the request to the answer: handlers,  *)
(* validation (internal/domain), Service, the repository's statements, and *)
(* the way an error becomes a status (dberrs, errs, middleware/error.go).  *)
(*                                                                         *)
(* Each operation sends one statement, which Postgres runs atomically.  A  *)
(* nullable column, an optional JSON field and a missing value are sets of *)
(* at most one element.  The cache in front of the repository changes no   *)
(* answer here (IncidentsCache); what a check records is in LocationCheck. *)
(***************************************************************************)
EXTENDS Integers, FiniteSets, Sequences

CONSTANTS
  Requests,                    \* HTTP requests, one command each
  Ids,                         \* ids the SERIAL column can hand out
  Titles, Descriptions, Users, \* strings, "" and blank ones among them
  Points, Radii,               \* numbers in a body, on Earth or not
  Creates, Updates, Checks,    \* bodies that requests may carry
  RequestIds,                  \* ids that requests may ask for
  Pages,                       \* limits and offsets that requests may ask for
  Unstorable,                  \* strings with a NUL, which a TEXT column refuses
  StatsWindow,                 \* h.statsWindow
  MaxLat, MaxLon,              \* 90 and 180 degrees
  MaxLimit,                    \* 500
  MaxInt4,                     \* largest value of an INTEGER column
  MaxFaults                    \* bound on the number of faults of a behaviour

Optional(S) == {{}} \cup {{v} : v \in S}
The(option) == CHOOSE v \in option : TRUE

CreateBody == [title : Titles, description : Descriptions, center : Points, radius : Radii]
UpdateBody == [title : Optional(Titles), description : Optional(Descriptions),
               center : Optional(Points), radius : Optional(Radii)]
CheckBody == [user : Users, location : Points, limit : Int]

ASSUME IncidentsAssumption ==
  /\ Ids \subseteq 1..MaxInt4
  /\ Points \subseteq [lat : Int, lon : Int]
  /\ Radii \subseteq Int
  /\ Creates \subseteq CreateBody
  /\ Updates \subseteq UpdateBody
  /\ Checks \subseteq CheckBody
  /\ RequestIds \subseteq Int
  /\ Pages \subseteq [limit : Int, offset : Int]
  /\ StatsWindow \in Int
  /\ MaxLat \in Nat /\ MaxLon \in Nat /\ MaxLimit \in Nat /\ MaxInt4 \in Nat
  /\ MaxFaults \in Nat

NoCommand == [op |-> "none"]

(* X-API-Key is asked for by every route but the check's. *)
Command ==
  [op : {"create"}, key : BOOLEAN, body : Creates]
    \cup [op : {"update"}, key : BOOLEAN, id : RequestIds, body : Updates]
    \cup [op : {"get", "deactivate"}, key : BOOLEAN, id : RequestIds]
    \cup [op : {"list"}, key : BOOLEAN, page : Pages]
    \cup [op : {"stats"}, key : BOOLEAN]
    \cup [op : {"check"}, body : Checks]

VARIABLES
  table,    \* incidents: id -> row, for the ids inserted so far
  cmd,      \* Requests -> its command
  answer,   \* Requests -> HTTP status, 0 before the answer
  changed,  \* history: requests whose statement changed the table
  faults    \* number of faults so far

vars == <<table, cmd, answer, changed, faults>>

----------------------------------------------------------------------------
Blank == {"", " "}

(* binding:"required" refuses the zero value of a number, 0.0 degrees too. *)
Bound(p) == p.lat # 0 /\ p.lon # 0

PointValid(p) == p.lat \in (-MaxLat)..MaxLat /\ p.lon \in (-MaxLon)..MaxLon

CreateValid(b) == b.title \notin Blank /\ b.radius > 0 /\ PointValid(b.center)

(* Seeded bug: only a title that is "" is refused, not one of blanks. *)
UpdateValidLenient(b) ==
  /\ "" \notin b.title
  /\ \A n \in b.radius : n > 0
  /\ \A p \in b.center : PointValid(p)

UpdateValid(b) ==
  /\ b.title \cap Blank = {}
  /\ \A n \in b.radius : n > 0
  /\ \A p \in b.center : PointValid(p)

CheckValid(b) == b.user \notin Blank /\ PointValid(b.location) /\ b.limit \in 0..MaxLimit

(* Decoding in the handler, then the checks of handler and service. *)
Valid(c) ==
  CASE c.op = "create" -> /\ c.body.title # "" /\ c.body.radius # 0 /\ Bound(c.body.center)
                          /\ CreateValid(c.body)
    [] c.op = "update" -> /\ c.id > 0
                          /\ \A p \in c.body.center : Bound(p)
                          /\ UpdateValid(c.body)
    [] c.op \in {"get", "deactivate"} -> c.id > 0
    [] c.op = "list" -> TRUE
    [] c.op = "stats" -> StatsWindow > 0
    [] c.op = "check" -> c.body.user # "" /\ Bound(c.body.location) /\ CheckValid(c.body)

(* The kind of the error a request meets before the service calls the      *)
(* repository.                                                             *)
Refusal(c) ==
  IF c.op # "check" /\ ~ c.key THEN "unauthorized"
  ELSE IF Valid(c) THEN "none" ELSE "invalid"

----------------------------------------------------------------------------
(* Seeded bug: an error without a mapping is taken for a conflict. *)
MapConflict(e) == IF e = "no_rows" THEN "not_found" ELSE "conflict"

(* dberrs.Map, for the errors these statements can meet: no row, codes it  *)
(* does not list (a NUL in a text, a negative LIMIT), and errors that do   *)
(* not come from Postgres (pgx cannot encode an argument, sqlx cannot scan *)
(* a column, the connection is lost).                                      *)
Map(e) == IF e = "no_rows" THEN "not_found" ELSE "internal"

(* errs.Wrap keeps the kind of an *errs.Error, which Map always returns. *)
Wrap(kind) == kind

StatusOf ==
  [invalid |-> 400, unauthorized |-> 401, forbidden |-> 403, not_found |-> 404,
   conflict |-> 409, internal |-> 500]

----------------------------------------------------------------------------
(* nullString: an empty description is stored as NULL. *)
NullString(s) == IF s = "" THEN {} ELSE {s}

(* Seeded bug: Update stores the description as it comes. *)
DescriptionArgRaw(b) == b.description

DescriptionArg(b) == NullString(The(b.description))

NewRow(b) ==
  [title |-> b.title, description |-> NullString(b.description), lat |-> b.center.lat,
   lon |-> b.center.lon, radius |-> b.radius, active |-> TRUE]

(* The SET list of Update: args, and for each column the position of its   *)
(* argument, 0 for a column that is not in the list.                       *)
EmptyList == [args |-> <<>>,
              pos |-> [title |-> 0, description |-> 0, lat |-> 0, lon |-> 0, radius |-> 0]]

Add(list, column, field, arg) ==
  IF field = {} THEN list
  ELSE [args |-> Append(list.args, arg),
        pos |-> [list.pos EXCEPT ![column] = Len(list.args) + 1]]

(* Seeded bug: the arguments of ST_MakePoint in the wrong order. *)
SetListSwapped(b) ==
  LET l1 == Add(EmptyList, "title", b.title, The(b.title))
      l2 == Add(l1, "description", b.description, DescriptionArg(b))
      l3 == Add(l2, "lat", b.center, The(b.center).lon)
      l4 == Add(l3, "lon", b.center, The(b.center).lat)
  IN  Add(l4, "radius", b.radius, The(b.radius))

SetList(b) ==
  LET l1 == Add(EmptyList, "title", b.title, The(b.title))
      l2 == Add(l1, "description", b.description, DescriptionArg(b))
      l3 == Add(l2, "lon", b.center, The(b.center).lon)
      l4 == Add(l3, "lat", b.center, The(b.center).lat)
  IN  Add(l4, "radius", b.radius, The(b.radius))

(* What the statement makes of a row. *)
Assign(list, row) ==
  LET New(column) == IF list.pos[column] = 0 THEN row[column] ELSE list.args[list.pos[column]]
  IN  [title |-> New("title"), description |-> New("description"), lat |-> New("lat"),
       lon |-> New("lon"), radius |-> New("radius"), active |-> row.active]

----------------------------------------------------------------------------
(* The distance of PostGIS, for which any other would do here. *)
Distance(p, row) ==
  LET Abs(n) == IF n < 0 THEN -n ELSE n
  IN  Abs(p.lat - row.lat) + Abs(p.lon - row.lon)

Near(p) == {i \in DOMAIN table : table[i].active /\ Distance(p, table[i]) <= table[i].radius}

(* ORDER BY distance LIMIT: the closest ones, any of them when they tie. *)
Closest(p, limit) ==
  {s \in SUBSET Near(p) :
     /\ Cardinality(s) = IF limit < Cardinality(Near(p)) THEN limit ELSE Cardinality(Near(p))
     /\ \A i \in s, j \in Near(p) \ s : Distance(p, table[i]) <= Distance(p, table[j])}

Undescribed(s) == \E i \in s : table[i].description = {}

(* An argument that does not fit its INTEGER or TEXT column. *)
Unfit(c) ==
  \/ c.op = "create" /\ c.body.radius > MaxInt4
  \/ c.op = "create" /\ {c.body.title, c.body.description} \cap Unstorable # {}
  \/ c.op \in {"get", "update", "deactivate"} /\ c.id > MaxInt4
  \/ c.op = "update" /\ \E n \in c.body.radius : n > MaxInt4
  \/ c.op = "update" /\ (c.body.title \cup c.body.description) \cap Unstorable # {}
  \/ c.op = "check" /\ c.body.user \in Unstorable

(* Seeded bug: the service passes limit and offset on as they come. *)
ClampNothing(n) == n

(* Service.List; a limit that is not a number has become 0 in the handler. *)
Clamp(n) == IF n < 0 THEN 0 ELSE n

(* Seeded bug: Deactivate's WHERE without active = TRUE. *)
MatchesById(c) == c.id \in DOMAIN table

(* The row of the WHERE clause. *)
Matches(c) ==
  /\ c.id \in DOMAIN table
  /\ c.op = "deactivate" => table[c.id].active

SqlError(c) ==
  IF Unfit(c) THEN "unfit"
  ELSE IF c.op \in {"get", "update", "deactivate"} /\ ~ Matches(c) THEN "no_rows"
  ELSE IF c.op = "list" /\ (Clamp(c.page.limit) < 0 \/ Clamp(c.page.offset) < 0) THEN "negative"
  ELSE "none"

----------------------------------------------------------------------------
Init ==
  /\ table = [i \in {} |-> {}]
  /\ cmd = [r \in Requests |-> NoCommand]
  /\ answer = [r \in Requests |-> 0]
  /\ changed = {}
  /\ faults = 0

Fault ==
  /\ faults < MaxFaults
  /\ faults' = faults + 1

Receive(r) ==
  /\ cmd[r] = NoCommand
  /\ \E c \in Command : cmd' = [cmd EXCEPT ![r] = c]
  /\ UNCHANGED <<table, answer, changed, faults>>

Answer(r, status) ==
  /\ answer' = [answer EXCEPT ![r] = status]
  /\ UNCHANGED cmd

(* The repository's error, through Service to the error middleware. *)
Fail(r, e) == Answer(r, StatusOf[Wrap(Map(e))])

(* The statement took effect; its reply may be lost. *)
Committed(r, status) ==
  /\ changed' = changed \cup {r}
  /\ \/ Answer(r, status) /\ UNCHANGED faults
     \/ Fault /\ Fail(r, "connection")

Pending(r, op) == cmd[r].op = op /\ answer[r] = 0 /\ Refusal(cmd[r]) = "none"

Refuse(r) ==
  /\ cmd[r] # NoCommand
  /\ answer[r] = 0
  /\ Refusal(cmd[r]) # "none"
  /\ Answer(r, StatusOf[Refusal(cmd[r])])
  /\ UNCHANGED <<table, changed, faults>>

Create(r) ==
  /\ Pending(r, "create")
  /\ SqlError(cmd[r]) = "none"
  /\ \E id \in Ids \ DOMAIN table :
       /\ table' = [i \in DOMAIN table \cup {id} |->
                      IF i = id THEN NewRow(cmd[r].body) ELSE table[i]]
  /\ Committed(r, 201)

Get(r) ==
  /\ Pending(r, "get")
  /\ SqlError(cmd[r]) = "none"
  /\ Answer(r, 200)
  /\ UNCHANGED <<table, changed, faults>>

List(r) ==
  /\ Pending(r, "list")
  /\ SqlError(cmd[r]) = "none"
  /\ Answer(r, 200)
  /\ UNCHANGED <<table, changed, faults>>

Stats(r) ==
  /\ Pending(r, "stats")
  /\ Answer(r, 200)
  /\ UNCHANGED <<table, changed, faults>>

(* With nothing to set, Update is GetByID. *)
Update(r) ==
  /\ Pending(r, "update")
  /\ SqlError(cmd[r]) = "none"
  /\ LET list == SetList(cmd[r].body)
         id == cmd[r].id
     IN  IF list.args = <<>>
           THEN Answer(r, 200) /\ UNCHANGED <<table, changed, faults>>
           ELSE /\ table' = [table EXCEPT ![id] = Assign(list, @)]
                /\ Committed(r, 200)

Deactivate(r) ==
  /\ Pending(r, "deactivate")
  /\ SqlError(cmd[r]) = "none"
  /\ table' = [table EXCEPT ![cmd[r].id].active = FALSE]
  /\ Committed(r, 204)

(* The statement has no row to work on, or is never sent. *)
StatementRejected(r) ==
  /\ \E op \in {"create", "get", "list", "update", "deactivate"} : Pending(r, op)
  /\ SqlError(cmd[r]) # "none"
  /\ Fail(r, SqlError(cmd[r]))
  /\ UNCHANGED <<table, changed, faults>>

(* FindNearby scans each row it gets, and a NULL description does not fit  *)
(* the string it is scanned into; then RecordCheck stores the user's id.   *)
Check(r) ==
  /\ Pending(r, "check")
  /\ \E s \in Closest(cmd[r].body.location, cmd[r].body.limit) :
       \/ Undescribed(s) /\ Fail(r, "scan")
       \/ ~ Undescribed(s) /\ Unfit(cmd[r]) /\ Fail(r, "unfit")
       \/ ~ Undescribed(s) /\ ~ Unfit(cmd[r]) /\ Answer(r, 200)
  /\ UNCHANGED <<table, changed, faults>>

(* No connection, or one that is lost before the statement commits. *)
StatementFails(r) ==
  /\ \E op \in {"create", "get", "list", "stats", "update", "deactivate", "check"} : Pending(r, op)
  /\ Fault
  /\ Fail(r, "connection")
  /\ UNCHANGED <<table, changed>>

(* Every request has come.  (A Create may wait for ever once Ids is used   *)
(* up, which is a bound of the model and not of the code.)                 *)
Idle == (\A r \in Requests : cmd[r] # NoCommand) /\ UNCHANGED vars

Next ==
  \/ \E r \in Requests :
       \/ Receive(r)
       \/ Refuse(r)
       \/ Create(r) \/ Get(r) \/ List(r) \/ Stats(r) \/ Update(r) \/ Deactivate(r) \/ Check(r)
       \/ StatementRejected(r)
       \/ StatementFails(r)
  \/ Idle

Spec == Init /\ [][Next]_vars

----------------------------------------------------------------------------
Row == [title : Titles, description : Optional(Descriptions \ {""}), lat : Int, lon : Int,
        radius : Int, active : BOOLEAN]

(* The shape of the state: rows and answers are of their types, and no row *)
(* holds an empty description, which nullString makes a NULL.              *)
TypeOK ==
  /\ DOMAIN table \subseteq Ids
  /\ table \in [DOMAIN table -> Row]
  /\ cmd \in [Requests -> Command \cup {NoCommand}]
  /\ answer \in [Requests -> {0, 200, 201, 204, 400, 401, 404, 500}]
  /\ \A r \in Requests : cmd[r] = NoCommand => answer[r] = 0
  /\ changed \subseteq {r \in Requests : answer[r] # 0}
  /\ faults \in 0..MaxFaults

(* Whatever was created and however it was patched, in whatever order, a   *)
(* row satisfies the domain's rules: a title, a radius, a point on Earth   *)
(* (the two Validate methods agree, and Update leaves the rest alone).     *)
StoredIsValid ==
  \A i \in DOMAIN table :
    /\ table[i].title \notin Blank
    /\ table[i].radius \in 1..MaxInt4
    /\ PointValid([lat |-> table[i].lat, lon |-> table[i].lon])

(* Of the requests that deactivate an incident, at most one is told that   *)
(* it did, and then the incident is inactive (UPDATE ... WHERE active).    *)
OneDeactivation ==
  \A r \in Requests :
    cmd[r].op = "deactivate" /\ answer[r] = 204 =>
      /\ cmd[r].id \in DOMAIN table /\ ~ table[cmd[r].id].active
      /\ \A q \in Requests \ {r} :
           cmd[q].op = "deactivate" /\ cmd[q].id = cmd[r].id => answer[q] # 204

(* The status tells what became of the request: 201 and 204 changed the    *)
(* table, 4xx did not; only 500 leaves it open.  It holds through every    *)
(* layer an error passes on its way up.                                    *)
AnswerTellsTheEffect ==
  \A r \in Requests :
    /\ answer[r] \in {201, 204} => r \in changed
    /\ answer[r] \in 400..499 => r \notin changed
    /\ answer[r] = 200 /\ r \in changed => cmd[r].op = "update"

(* What a PATCH means, stated without the statement's text. *)
Merge(b, row) ==
  LET Given(option, old) == IF option = {} THEN old ELSE The(option)
  IN  [title |-> Given(b.title, row.title),
       description |-> IF b.description = {} THEN row.description ELSE b.description \ {""},
       lat |-> IF b.center = {} THEN row.lat ELSE The(b.center).lat,
       lon |-> IF b.center = {} THEN row.lon ELSE The(b.center).lon,
       radius |-> Given(b.radius, row.radius),
       active |-> row.active]

(* An update gives the row the fields of its body and leaves every other   *)
(* field, and every other row, as the requests before it left them: what   *)
(* Update builds from optional fields and positions means a merge.         *)
UpdatesMerge ==
  [][\A r \in Requests :
       cmd[r].op = "update" /\ answer[r] = 0 /\ answer'[r] = 200 =>
         table' = [table EXCEPT ![cmd[r].id] = Merge(cmd[r].body, @)]]_vars

(* An internal error has one of three causes: a fault of the database or    *)
(* the network, a number or a text that its column cannot hold, or a check *)
(* that meets an incident without a description; no query string is one.   *)
InternalHasACause ==
  [][\A r \in Requests :
       answer[r] = 0 /\ answer'[r] = 500 =>
         \/ faults' > faults
         \/ Unfit(cmd[r])
         \/ cmd[r].op = "check" /\ Undescribed(Near(cmd[r].body.location))]_vars

(* README.md documents one answer of a check, 200 with the incidents       *)
(* nearby; descriptions are optional.                                      *)
ChecksSucceed ==
  \A r \in Requests : cmd[r].op = "check" /\ faults = 0 => answer[r] # 500

(* point.go asks for a latitude between -90 and 90 and a longitude between *)
(* -180 and 180, and no more.                                              *)
PointsOnEarthAreAccepted ==
  \A r \in Requests :
    cmd[r].op = "create" /\ CreateValid(cmd[r].body) => answer[r] # 400
=============================================================================
