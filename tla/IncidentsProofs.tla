-------------------------- MODULE IncidentsProofs --------------------------
(***************************************************************************)
(* Theorems about Incidents, for any number of requests and any bodies.    *)
(* First the statement Update builds is shown to be a merge, column by     *)
(* column; then the invariants follow action by action.                    *)
(***************************************************************************)
EXTENDS Incidents, TLAPS

Columns == {"title", "description", "lat", "lon", "radius"}
Values == Titles \cup (SUBSET Descriptions) \cup Int

(* A SET list as Add keeps it: positions point into the arguments. *)
ListOK(list) ==
  /\ list.args \in Seq(Values)
  /\ list.pos \in [Columns -> Nat]
  /\ \A c \in Columns : list.pos[c] \in 0..Len(list.args)

(* What a list makes of a column that holds x. *)
Reads(list, column, x) ==
  IF list.pos[column] = 0 THEN x ELSE list.args[list.pos[column]]

LEMMA TheSingle == ASSUME NEW v PROVE The({v}) = v
  BY DEF The

LEMMA OptionalCases ==
  ASSUME NEW S, NEW option \in Optional(S), option # {}
  PROVE  The(option) \in S /\ option = {The(option)}
  BY TheSingle DEF Optional

(* Adding an argument keeps what the list says of the other columns. *)
LEMMA AddSets ==
  ASSUME NEW list, ListOK(list), NEW column \in Columns, NEW field,
         NEW arg, field # {} => arg \in Values
  PROVE  /\ ListOK(Add(list, column, field, arg))
         /\ \A c \in Columns : \A x :
              Reads(Add(list, column, field, arg), c, x) =
                IF c = column /\ field # {} THEN arg ELSE Reads(list, c, x)
<1>1. CASE field = {}
  BY <1>1 DEF Add, Reads
<1>2. CASE field # {}
  <2> DEFINE l == Add(list, column, field, arg)
             n == Len(list.args)
  <2>1. l.args = Append(list.args, arg) /\ l.pos = [list.pos EXCEPT ![column] = n + 1]
    BY <1>2 DEF Add
  <2>2. /\ n \in Nat /\ l.args \in Seq(Values) /\ Len(l.args) = n + 1
        /\ l.args[n + 1] = arg
        /\ \A k \in 1..n : l.args[k] = list.args[k]
    <3>1. n \in Nat /\ arg \in Values /\ list.args \in Seq(Values)
      BY <1>2 DEF ListOK
    <3> HIDE DEF n, l
    <3>2. \A s \in Seq(Values), v \in Values :
            /\ Append(s, v) \in Seq(Values) /\ Len(Append(s, v)) = Len(s) + 1
            /\ Append(s, v)[Len(s) + 1] = v
            /\ \A k \in 1..Len(s) : Append(s, v)[k] = s[k]
      OBVIOUS
    <3> QED BY <2>1, <3>1, <3>2 DEF n
  <2>3. /\ l.pos \in [Columns -> Nat] /\ l.pos[column] = n + 1
        /\ \A c \in Columns \ {column} : l.pos[c] = list.pos[c]
    BY <2>1, <2>2 DEF ListOK
  <2>4. ListOK(l)
    <3>1. ASSUME NEW c \in Columns PROVE l.pos[c] \in 0..Len(l.args)
      <4>1. list.pos[c] \in 0..n
        BY DEF ListOK
      <4>2. l.pos[c] = IF c = column THEN n + 1 ELSE list.pos[c]
        BY <2>3
      <4> HIDE DEF n, l
      <4> QED BY <2>2, <4>1, <4>2
    <3> QED BY <2>2, <2>3, <3>1 DEF ListOK
  <2>5. ASSUME NEW c \in Columns, NEW x
        PROVE  Reads(l, c, x) = IF c = column THEN arg ELSE Reads(list, c, x)
    <3>1. CASE c = column
      BY <2>2, <2>3, <3>1 DEF Reads
    <3>2. CASE c # column
      <4>1. l.pos[c] = list.pos[c] /\ list.pos[c] \in 0..n
        BY <2>3, <3>2 DEF ListOK
      <4> QED BY <2>2, <3>2, <4>1 DEF Reads
    <3> QED BY <3>1, <3>2
  <2> QED BY <1>2, <2>4, <2>5
<1> QED BY <1>1, <1>2

(* The statement of Update, read column by column: optional fields and the *)
(* positions of their arguments do not get mixed up.                       *)
LEMMA SetListReads ==
  ASSUME NEW b \in UpdateBody
  PROVE  /\ ListOK(SetList(b))
         /\ \A x :
              /\ Reads(SetList(b), "title", x) = IF b.title = {} THEN x ELSE The(b.title)
              /\ Reads(SetList(b), "description", x) =
                   IF b.description = {} THEN x ELSE DescriptionArg(b)
              /\ Reads(SetList(b), "lat", x) = IF b.center = {} THEN x ELSE The(b.center).lat
              /\ Reads(SetList(b), "lon", x) = IF b.center = {} THEN x ELSE The(b.center).lon
              /\ Reads(SetList(b), "radius", x) = IF b.radius = {} THEN x ELSE The(b.radius)
<1> DEFINE l1 == Add(EmptyList, "title", b.title, The(b.title))
           l2 == Add(l1, "description", b.description, DescriptionArg(b))
           l3 == Add(l2, "lon", b.center, The(b.center).lon)
           l4 == Add(l3, "lat", b.center, The(b.center).lat)
           l5 == Add(l4, "radius", b.radius, The(b.radius))
<1>0. SetList(b) = l5
  BY DEF SetList
<1>1. /\ b.title # {} => The(b.title) \in Values
      /\ b.description # {} => DescriptionArg(b) \in Values
      /\ b.center # {} => The(b.center).lon \in Values /\ The(b.center).lat \in Values
      /\ b.radius # {} => The(b.radius) \in Values
  <2>1. b.title # {} => The(b.title) \in Titles
    BY OptionalCases DEF UpdateBody
  <2>2. b.description # {} => The(b.description) \in Descriptions
    BY OptionalCases DEF UpdateBody
  <2>3. b.center # {} => The(b.center) \in [lat : Int, lon : Int]
    BY OptionalCases, IncidentsAssumption DEF UpdateBody
  <2>4. b.radius # {} => The(b.radius) \in Int
    BY OptionalCases, IncidentsAssumption DEF UpdateBody
  <2> QED BY <2>1, <2>2, <2>3, <2>4 DEF Values, DescriptionArg, NullString
<1>2. ListOK(EmptyList) /\ \A c \in Columns : \A x : Reads(EmptyList, c, x) = x
  BY DEF ListOK, EmptyList, Columns, Reads
<1> USE DEF Columns
<1> HIDE DEF l1, l2, l3, l4, l5
<1>3. /\ ListOK(l1)
      /\ \A c \in Columns : \A x :
           Reads(l1, c, x) = IF c = "title" /\ b.title # {} THEN The(b.title) ELSE x
  BY <1>1, <1>2, AddSets DEF l1
<1>4. /\ ListOK(l2)
      /\ \A c \in Columns : \A x :
           Reads(l2, c, x) =
             IF c = "description" /\ b.description # {} THEN DescriptionArg(b) ELSE Reads(l1, c, x)
  BY <1>1, <1>3, AddSets DEF l2
<1>5. /\ ListOK(l3)
      /\ \A c \in Columns : \A x :
           Reads(l3, c, x) =
             IF c = "lon" /\ b.center # {} THEN The(b.center).lon ELSE Reads(l2, c, x)
  BY <1>1, <1>4, AddSets DEF l3
<1>6. /\ ListOK(l4)
      /\ \A c \in Columns : \A x :
           Reads(l4, c, x) =
             IF c = "lat" /\ b.center # {} THEN The(b.center).lat ELSE Reads(l3, c, x)
  BY <1>1, <1>5, AddSets DEF l4
<1>7. /\ ListOK(l5)
      /\ \A c \in Columns : \A x :
           Reads(l5, c, x) =
             IF c = "radius" /\ b.radius # {} THEN The(b.radius) ELSE Reads(l4, c, x)
  BY <1>1, <1>6, AddSets DEF l5
<1> QED BY <1>0, <1>3, <1>4, <1>5, <1>6, <1>7

LEMMA RowIntro ==
  \A t \in Titles, d \in Optional(Descriptions \ {""}), la, lo, ra \in Int, ac \in BOOLEAN :
    [title |-> t, description |-> d, lat |-> la, lon |-> lo, radius |-> ra, active |-> ac] \in Row
  BY Zenon DEF Row

(* The statement of Update is a merge of the body into the row. *)
LEMMA AssignIsMerge ==
  ASSUME NEW b \in UpdateBody, NEW row \in Row
  PROVE  Assign(SetList(b), row) = Merge(b, row) /\ Merge(b, row) \in Row
<1> DEFINE l == SetList(b)
<1>1. Assign(l, row) =
        [title |-> Reads(l, "title", row.title),
         description |-> Reads(l, "description", row.description),
         lat |-> Reads(l, "lat", row.lat), lon |-> Reads(l, "lon", row.lon),
         radius |-> Reads(l, "radius", row.radius), active |-> row.active]
  BY DEF Assign, Reads
<1>2. b.description # {} =>
        /\ DescriptionArg(b) = b.description \ {""}
        /\ DescriptionArg(b) \in Optional(Descriptions \ {""})
  <2> SUFFICES ASSUME b.description # {}
               PROVE  /\ DescriptionArg(b) = b.description \ {""}
                      /\ DescriptionArg(b) \in Optional(Descriptions \ {""})
    OBVIOUS
  <2>1. The(b.description) \in Descriptions /\ b.description = {The(b.description)}
    BY OptionalCases DEF UpdateBody
  <2>2. CASE The(b.description) = ""
    BY <2>1, <2>2 DEF DescriptionArg, NullString, Optional
  <2>3. CASE The(b.description) # ""
    BY <2>1, <2>3 DEF DescriptionArg, NullString, Optional
  <2> QED BY <2>2, <2>3
<1>3. /\ b.title # {} => The(b.title) \in Titles
      /\ b.center # {} => The(b.center) \in [lat : Int, lon : Int]
      /\ b.radius # {} => The(b.radius) \in Int
  BY OptionalCases, IncidentsAssumption DEF UpdateBody
<1>4. Merge(b, row) =
        [title |-> IF b.title = {} THEN row.title ELSE The(b.title),
         description |-> IF b.description = {} THEN row.description ELSE b.description \ {""},
         lat |-> IF b.center = {} THEN row.lat ELSE The(b.center).lat,
         lon |-> IF b.center = {} THEN row.lon ELSE The(b.center).lon,
         radius |-> IF b.radius = {} THEN row.radius ELSE The(b.radius),
         active |-> row.active]
  BY DEF Merge
<1>5. Assign(l, row) = Merge(b, row)
  BY <1>1, <1>2, <1>4, SetListReads
<1>6. Merge(b, row) \in Row
  <2> DEFINE t == IF b.title = {} THEN row.title ELSE The(b.title)
             d == IF b.description = {} THEN row.description ELSE b.description \ {""}
             la == IF b.center = {} THEN row.lat ELSE The(b.center).lat
             lo == IF b.center = {} THEN row.lon ELSE The(b.center).lon
             ra == IF b.radius = {} THEN row.radius ELSE The(b.radius)
             ac == row.active
  <2>1. /\ row.title \in Titles /\ row.description \in Optional(Descriptions \ {""})
        /\ row.lat \in Int /\ row.lon \in Int /\ row.radius \in Int /\ row.active \in BOOLEAN
    BY DEF Row
  <2>2. t \in Titles /\ ra \in Int
    BY <1>3, <2>1
  <2>3. la \in Int /\ lo \in Int
    BY <1>3, <2>1
  <2>4. d \in Optional(Descriptions \ {""})
    BY <1>2, <2>1
  <2>5. Merge(b, row) = [title |-> t, description |-> d, lat |-> la, lon |-> lo, radius |-> ra,
                         active |-> ac]
    BY <1>4
  <2>6. ac \in BOOLEAN
    BY <2>1
  <2> HIDE DEF t, d, la, lo, ra, ac
  <2> QED BY <2>2, <2>3, <2>4, <2>5, <2>6, RowIntro
<1> QED BY <1>5, <1>6

LEMMA NewRowType ==
  ASSUME NEW b \in CreateBody
  PROVE  NewRow(b) \in Row
<1>1. /\ b.title \in Titles /\ b.description \in Descriptions /\ b.radius \in Int
      /\ b.center.lat \in Int /\ b.center.lon \in Int
  BY IncidentsAssumption DEF CreateBody
<1>2. NullString(b.description) \in Optional(Descriptions \ {""})
  BY <1>1 DEF NullString, Optional
<1> QED BY <1>1, <1>2, RowIntro DEF NewRow

----------------------------------------------------------------------------
LEMMA CommandCases ==
  ASSUME NEW c \in Command \cup {NoCommand}
  PROVE  /\ c.op = "create" => c.body \in Creates
         /\ c.op = "update" => c.id \in RequestIds /\ c.body \in Updates
         /\ c.op \in {"get", "deactivate"} => c.id \in RequestIds
         /\ c.op = "check" => c.body \in Checks
         /\ c.op # "none" => c \in Command /\ c # NoCommand
  BY DEF Command, NoCommand

LEMMA TypeOKCommand ==
  ASSUME TypeOK, NEW r \in Requests
  PROVE  cmd[r] \in Command \cup {NoCommand} /\ (cmd[r] # NoCommand => cmd[r].op # "none")
  BY DEF TypeOK, Command, NoCommand

(* What an error can be told as. *)
LEMMA StatusValues ==
  /\ \A c : Refusal(c) # "none" => StatusOf[Refusal(c)] \in {400, 401}
  /\ \A e : StatusOf[Wrap(Map(e))] \in {404, 500}
  /\ StatusOf[Wrap(Map("connection"))] = 500
  BY DEF StatusOf, Refusal, Wrap, Map

(* The table after the one step of a request that commits something. *)
Written(r) ==
  /\ cmd[r] # NoCommand /\ answer[r] = 0
  /\ changed' = changed \cup {r}
  /\ \E status \in {200, 201, 204, 500} :
       /\ Answer(r, status)
       /\ status = 200 => cmd[r].op = "update"
       /\ status = 204 => cmd[r].op = "deactivate" /\ Matches(cmd[r])
                          /\ ~ table'[cmd[r].id].active
       /\ cmd[r].op = "deactivate" => status # 201
  /\ faults' \in {faults, faults + 1} /\ (faults' # faults => faults < MaxFaults)

(* A request that is answered and leaves the table as it was. *)
Told(r) ==
  /\ cmd[r] # NoCommand /\ answer[r] = 0
  /\ \E status \in {200, 400, 401, 404, 500} : Answer(r, status)
  /\ UNCHANGED <<table, changed>>
  /\ faults' \in {faults, faults + 1} /\ (faults' # faults => faults < MaxFaults)

LEMMA ToldSteps ==
  ASSUME TypeOK, NEW r \in Requests,
         \/ Refuse(r) \/ Get(r) \/ List(r)
         \/ Stats(r) \/ StatementRejected(r) \/ Check(r) \/ StatementFails(r)
         \/ Update(r) /\ SetList(cmd[r].body).args = <<>>
  PROVE  Told(r)
<1> DEFINE Statuses == {200, 400, 401, 404, 500}
<1>1. ASSUME cmd[r].op # "none", answer[r] = 0, \E status \in Statuses : Answer(r, status),
             UNCHANGED <<table, changed>>,
             \/ UNCHANGED faults
             \/ faults' = faults + 1 /\ faults < MaxFaults
      PROVE  Told(r)
  <2>1. cmd[r] # NoCommand
    BY <1>1 DEF NoCommand
  <2>2. faults' \in {faults, faults + 1} /\ (faults' # faults => faults < MaxFaults)
    BY <1>1
  <2> QED BY <1>1, <2>1, <2>2 DEF Told
<1>2. \A op : Pending(r, op) => cmd[r].op = op /\ answer[r] = 0
  BY DEF Pending
<1> HIDE DEF Statuses
<1>3. \A s \in {200, 400, 401, 404, 500} : s \in Statuses
  BY DEF Statuses
<1>4. CASE Refuse(r)
  <2>1. cmd[r].op # "none"
    BY <1>4, TypeOKCommand DEF Refuse
  <2>2. StatusOf[Refusal(cmd[r])] \in Statuses
    BY <1>3, <1>4, StatusValues DEF Refuse
  <2> QED BY <1>1, <1>4, <2>1, <2>2 DEF Refuse
<1>5. CASE Get(r) \/ List(r) \/ Stats(r)
  BY <1>1, <1>2, <1>3, <1>5 DEF Get, List, Stats
<1>6. CASE StatementRejected(r)
  <2>1. cmd[r].op # "none" /\ answer[r] = 0
    BY <1>2, <1>6 DEF StatementRejected
  <2>2. StatusOf[Wrap(Map(SqlError(cmd[r])))] \in Statuses
    BY <1>3, StatusValues
  <2> QED BY <1>1, <1>6, <2>1, <2>2 DEF StatementRejected, Fail
<1>7. CASE Check(r)
  <2>1. /\ StatusOf[Wrap(Map("scan"))] \in Statuses
        /\ StatusOf[Wrap(Map("unfit"))] \in Statuses
    BY <1>3, StatusValues
  <2>2. Fail(r, "scan") \/ Fail(r, "unfit") \/ Answer(r, 200)
    BY <1>7 DEF Check
  <2>3. cmd[r].op = "check" /\ answer[r] = 0 /\ UNCHANGED <<table, changed, faults>>
    BY <1>2, <1>7 DEF Check
  <2> QED BY <1>1, <1>3, <2>1, <2>2, <2>3 DEF Fail
<1>8. CASE StatementFails(r)
  <2>1. cmd[r].op # "none" /\ answer[r] = 0
    BY <1>2, <1>8 DEF StatementFails
  <2>2. Answer(r, 500)
    BY <1>8, StatusValues DEF StatementFails, Fail
  <2> QED BY <1>1, <1>3, <1>8, <2>1, <2>2 DEF StatementFails, Fault
<1>9. CASE Update(r) /\ SetList(cmd[r].body).args = <<>>
  BY <1>1, <1>2, <1>3, <1>9 DEF Update
<1> QED BY <1>4, <1>5, <1>6, <1>7, <1>8, <1>9

----------------------------------------------------------------------------
(* What the table holds, and what a write may not undo. *)
GoodRow(row) ==
  /\ row \in Row
  /\ row.title \notin Blank
  /\ row.radius \in 1..MaxInt4
  /\ PointValid([lat |-> row.lat, lon |-> row.lon])

Rows ==
  /\ DOMAIN table \subseteq Ids /\ table \in [DOMAIN table -> Row]
  /\ \A i \in DOMAIN table : GoodRow(table[i])

Kept ==
  \A i \in DOMAIN table :
    i \in DOMAIN table' /\ (~ table[i].active => ~ table'[i].active)

LEMMA CommittedCases ==
  ASSUME TypeOK, NEW r \in Requests, NEW status, Committed(r, status)
  PROVE  /\ changed' = changed \cup {r}
         /\ Answer(r, status) \/ Answer(r, 500)
         /\ faults' \in {faults, faults + 1} /\ (faults' # faults => faults < MaxFaults)
<1>1. CASE Answer(r, status) /\ UNCHANGED faults
  BY <1>1 DEF Committed
<1>2. CASE Fault /\ Fail(r, "connection")
  BY <1>2, StatusValues DEF Committed, Fault, Fail
<1> QED BY <1>1, <1>2 DEF Committed

LEMMA PendingValid ==
  ASSUME NEW r, NEW op, Pending(r, op)
  PROVE  cmd[r].op = op /\ answer[r] = 0 /\ Valid(cmd[r])
  BY DEF Pending, Refusal

LEMMA CreateWrites ==
  ASSUME TypeOK, Rows, NEW r \in Requests, Create(r)
  PROVE  Written(r) /\ Rows' /\ Kept
<1> DEFINE b == cmd[r].body
<1>1. cmd[r].op = "create" /\ answer[r] = 0 /\ Valid(cmd[r]) /\ cmd[r] # NoCommand
  BY PendingValid DEF Create, NoCommand
<1>2. b \in Creates /\ b \in CreateBody
  BY <1>1, TypeOKCommand, CommandCases, IncidentsAssumption
<1>3. CreateValid(b) /\ b.radius <= MaxInt4
  <2>1. CreateValid(b)
    BY <1>1 DEF Valid
  <2>2. ~ (b.radius > MaxInt4)
    BY <1>1 DEF Create, SqlError, Unfit
  <2>3. b.radius \in Int /\ MaxInt4 \in Nat
    BY <1>2, IncidentsAssumption DEF CreateBody
  <2> QED BY <2>1, <2>2, <2>3
<1>4. GoodRow(NewRow(b))
  <2>1. NewRow(b) \in Row
    BY <1>2, NewRowType
  <2>2. /\ NewRow(b).title = b.title /\ NewRow(b).radius = b.radius
        /\ NewRow(b).lat = b.center.lat /\ NewRow(b).lon = b.center.lon
    BY DEF NewRow
  <2>3. b.radius \in 1..MaxInt4
    <3>1. b.radius \in Int /\ MaxInt4 \in Nat
      BY <1>2, IncidentsAssumption DEF CreateBody
    <3> QED BY <1>3, <3>1 DEF CreateValid
  <2> QED BY <1>3, <2>1, <2>2, <2>3 DEF GoodRow, CreateValid, PointValid
<1>5. PICK id \in Ids \ DOMAIN table :
        table' = [i \in DOMAIN table \cup {id} |-> IF i = id THEN NewRow(b) ELSE table[i]]
  BY DEF Create
<1>6. id \notin DOMAIN table
  BY <1>5
<1>7. Rows' /\ Kept
  <2>1. DOMAIN table' = DOMAIN table \cup {id}
    BY <1>5
  <2>2. table'[id] = NewRow(b) /\ \A i \in DOMAIN table : table'[i] = table[i]
    BY <1>5, <1>6
  <2>3. \A i \in DOMAIN table' : GoodRow(table'[i])
    BY <1>4, <2>1, <2>2 DEF Rows
  <2>4. table' \in [DOMAIN table' -> Row]
    BY <1>5, <2>1, <2>3 DEF GoodRow
  <2> HIDE DEF b
  <2>5. Rows'
    BY <2>1, <2>3, <2>4 DEF Rows, GoodRow
  <2> QED BY <2>1, <2>2, <2>5 DEF Kept
<1>8. Written(r)
  <2>1. Committed(r, 201)
    BY DEF Create
  <2> QED BY <1>1, <2>1, CommittedCases DEF Written
<1> QED BY <1>7, <1>8

LEMMA UpdateMerges ==
  ASSUME TypeOK, NEW r \in Requests, Update(r), SetList(cmd[r].body).args # <<>>
  PROVE  /\ cmd[r].op = "update" /\ answer[r] = 0 /\ cmd[r] # NoCommand
         /\ cmd[r].id \in DOMAIN table /\ cmd[r].body \in UpdateBody
         /\ UpdateValid(cmd[r].body) /\ \A n \in cmd[r].body.radius : n <= MaxInt4
         /\ table' = [table EXCEPT ![cmd[r].id] = Merge(cmd[r].body, @)]
         /\ Committed(r, 200)
<1> DEFINE b == cmd[r].body
           id == cmd[r].id
<1>1. cmd[r].op = "update" /\ answer[r] = 0 /\ Valid(cmd[r]) /\ cmd[r] # NoCommand
  BY PendingValid DEF Update, NoCommand
<1>2. b \in UpdateBody
  BY <1>1, TypeOKCommand, CommandCases, IncidentsAssumption
<1>3. UpdateValid(b)
  BY <1>1 DEF Valid
<1>4. ~ Unfit(cmd[r]) /\ Matches(cmd[r])
  BY <1>1 DEF Update, SqlError
<1>5. \A n \in b.radius : n <= MaxInt4
  <2>1. \A n \in b.radius : ~ (n > MaxInt4) /\ n \in Int
    BY <1>1, <1>2, <1>4, IncidentsAssumption DEF Unfit, UpdateBody, Optional
  <2> QED BY <2>1, IncidentsAssumption
<1>6. id \in DOMAIN table /\ table[id] \in Row
  BY <1>4 DEF Matches, TypeOK
<1>7. Assign(SetList(b), table[id]) = Merge(b, table[id])
  BY <1>2, <1>6, AssignIsMerge
<1>8. table' = [table EXCEPT ![id] = Assign(SetList(b), @)] /\ Committed(r, 200)
  BY DEF Update
<1> QED BY <1>1, <1>2, <1>3, <1>5, <1>6, <1>7, <1>8

LEMMA UpdateWrites ==
  ASSUME TypeOK, Rows, NEW r \in Requests, Update(r), SetList(cmd[r].body).args # <<>>
  PROVE  Written(r) /\ Rows' /\ Kept
<1> DEFINE b == cmd[r].body
           id == cmd[r].id
           row == table[id]
           new == Merge(b, row)
<1>1. /\ cmd[r].op = "update" /\ answer[r] = 0 /\ cmd[r] # NoCommand
      /\ id \in DOMAIN table /\ b \in UpdateBody /\ UpdateValid(b)
      /\ \A n \in b.radius : n <= MaxInt4
      /\ table' = [table EXCEPT ![id] = new]
      /\ Committed(r, 200)
  BY UpdateMerges
<1>2. GoodRow(row)
  BY <1>1 DEF Rows
<1>3. new \in Row /\ new.active = row.active
  BY <1>1, <1>2, AssignIsMerge DEF GoodRow, Merge
<1>4. new.title \notin Blank
  <2>1. CASE b.title = {}
    BY <1>2, <2>1 DEF GoodRow, Merge
  <2>2. CASE b.title # {}
    <3>1. The(b.title) \in b.title
      BY <1>1, <2>2, OptionalCases DEF UpdateBody
    <3>2. new.title = The(b.title)
      BY <2>2 DEF Merge
    <3> QED BY <1>1, <3>1, <3>2 DEF UpdateValid
  <2> QED BY <2>1, <2>2
<1>5. new.radius \in 1..MaxInt4
  <2>1. CASE b.radius = {}
    BY <1>2, <2>1 DEF GoodRow, Merge
  <2>2. CASE b.radius # {}
    <3>1. The(b.radius) \in b.radius /\ The(b.radius) \in Radii
      BY <1>1, <2>2, OptionalCases DEF UpdateBody
    <3>2. new.radius = The(b.radius)
      BY <2>2 DEF Merge
    <3>3. The(b.radius) \in Int /\ MaxInt4 \in Nat
      BY <3>1, IncidentsAssumption
    <3>4. The(b.radius) > 0 /\ The(b.radius) <= MaxInt4
      BY <1>1, <3>1 DEF UpdateValid
    <3> QED BY <3>2, <3>3, <3>4
  <2> QED BY <2>1, <2>2
<1>6. PointValid([lat |-> new.lat, lon |-> new.lon])
  <2>1. CASE b.center = {}
    BY <1>2, <2>1 DEF GoodRow, Merge
  <2>2. CASE b.center # {}
    <3>1. PointValid(The(b.center))
      BY <1>1, <2>2, OptionalCases DEF UpdateBody, UpdateValid
    <3> QED BY <2>2, <3>1 DEF Merge, PointValid
  <2> QED BY <2>1, <2>2
<1>7. GoodRow(new)
  BY <1>3, <1>4, <1>5, <1>6 DEF GoodRow
<1>8. Rows' /\ Kept
  <2> HIDE DEF new
  <2> QED BY <1>1, <1>3, <1>7 DEF Rows, Kept
<1>9. Written(r)
  BY <1>1, CommittedCases DEF Written
<1> QED BY <1>8, <1>9

LEMMA DeactivateWrites ==
  ASSUME TypeOK, Rows, NEW r \in Requests, Deactivate(r)
  PROVE  Written(r) /\ Rows' /\ Kept
<1> DEFINE id == cmd[r].id
           row == table[id]
           new == [row EXCEPT !.active = FALSE]
<1>1. cmd[r].op = "deactivate" /\ answer[r] = 0 /\ cmd[r] # NoCommand
  BY PendingValid DEF Deactivate, NoCommand
<1>2. Matches(cmd[r])
  BY <1>1 DEF Deactivate, SqlError
<1>3. /\ id \in DOMAIN table /\ table' = [table EXCEPT ![id] = new]
      /\ Committed(r, 204)
  BY <1>2 DEF Matches, Deactivate
<1>4. GoodRow(row)
  BY <1>3 DEF Rows
<1>5. GoodRow(new) /\ new.active = FALSE
  BY <1>4 DEF GoodRow, Row
<1>6. Rows' /\ Kept /\ ~ table'[id].active
  <2> HIDE DEF new
  <2>1. new \in Row
    BY <1>5 DEF GoodRow
  <2>2. table' \in [DOMAIN table' -> Row]
    BY <1>3, <2>1 DEF Rows
  <2> QED BY <1>3, <1>5, <2>2 DEF Rows, Kept
<1>7. Written(r)
  BY <1>1, <1>2, <1>3, <1>6, CommittedCases DEF Written
<1> QED BY <1>6, <1>7

----------------------------------------------------------------------------
(* Every step is one of three: a request comes in, is told something, or   *)
(* writes.                                                                 *)
Comes(r) ==
  /\ cmd[r] = NoCommand
  /\ \E c \in Command : cmd' = [cmd EXCEPT ![r] = c]
  /\ UNCHANGED <<table, answer, changed, faults>>

LEMMA StepCases ==
  ASSUME TypeOK, Rows, [Next]_vars
  PROVE  \/ UNCHANGED vars
         \/ \E r \in Requests :
              \/ (Comes(r) \/ Told(r)) /\ UNCHANGED table
              \/ Written(r) /\ Rows' /\ Kept
<1>1. CASE UNCHANGED vars
  BY <1>1
<1>2. CASE Idle
  BY <1>2 DEF Idle
<1>3. ASSUME NEW r \in Requests,
             \/ Receive(r) \/ Refuse(r) \/ Create(r) \/ Get(r) \/ List(r) \/ Stats(r) \/ Update(r)
             \/ Deactivate(r) \/ Check(r) \/ StatementRejected(r) \/ StatementFails(r)
      PROVE  \/ (Comes(r) \/ Told(r)) /\ UNCHANGED table
             \/ Written(r) /\ Rows' /\ Kept
  <2>1. CASE Receive(r)
    BY <2>1 DEF Receive, Comes
  <2>2. CASE Create(r)
    BY <2>2, CreateWrites
  <2>3. CASE Update(r) /\ SetList(cmd[r].body).args # <<>>
    BY <2>3, UpdateWrites
  <2>4. CASE Deactivate(r)
    BY <2>4, DeactivateWrites
  <2>5. CASE \/ Refuse(r) \/ Get(r) \/ List(r)
             \/ Stats(r) \/ StatementRejected(r) \/ Check(r) \/ StatementFails(r)
             \/ Update(r) /\ SetList(cmd[r].body).args = <<>>
    BY <2>5, ToldSteps DEF Told
  <2> QED BY <1>3, <2>1, <2>2, <2>3, <2>4, <2>5
<1> QED BY <1>1, <1>2, <1>3 DEF Next

(* Rows holds the part of TypeOK that is about the table, and the validity *)
(* of what is stored.                                                      *)
IncidentsInv == TypeOK /\ Rows /\ OneDeactivation /\ AnswerTellsTheEffect

LEMMA InitInv == Init => IncidentsInv
<1> SUFFICES ASSUME Init PROVE IncidentsInv
  OBVIOUS
<1>1. DOMAIN table = {}
  BY DEF Init
<1>2. \A r \in Requests : cmd[r].op = "none" /\ answer[r] = 0
  BY DEF Init, NoCommand
<1>3. TypeOK
  BY <1>1, IncidentsAssumption DEF Init, TypeOK
<1>4. Rows
  BY <1>1 DEF Rows
<1>5. OneDeactivation /\ AnswerTellsTheEffect
  BY <1>2 DEF OneDeactivation, AnswerTellsTheEffect
<1> QED BY <1>3, <1>4, <1>5 DEF IncidentsInv

LEMMA ComesKeeps ==
  ASSUME IncidentsInv, NEW r \in Requests, Comes(r), UNCHANGED table
  PROVE  IncidentsInv'
<1>1. PICK c \in Command : cmd' = [cmd EXCEPT ![r] = c]
  BY DEF Comes
<1>2. answer[r] = 0 /\ UNCHANGED <<table, answer, changed, faults>>
  BY DEF Comes, IncidentsInv, TypeOK
<1>3. \A q \in Requests : cmd'[q] = IF q = r THEN c ELSE cmd[q]
  BY <1>1 DEF IncidentsInv, TypeOK
<1>4. TypeOK'
  BY <1>1, <1>2, <1>3 DEF IncidentsInv, TypeOK
<1>5. Rows'
  BY DEF IncidentsInv, Rows, GoodRow
<1>6. OneDeactivation'
  BY <1>2, <1>3 DEF IncidentsInv, OneDeactivation
<1>7. AnswerTellsTheEffect'
  BY <1>2, <1>3 DEF IncidentsInv, TypeOK, AnswerTellsTheEffect
<1> QED BY <1>4, <1>5, <1>6, <1>7 DEF IncidentsInv

LEMMA ToldKeeps ==
  ASSUME IncidentsInv, NEW r \in Requests, Told(r), UNCHANGED table
  PROVE  IncidentsInv'
<1>1. PICK status \in {200, 400, 401, 404, 500} : Answer(r, status)
  BY DEF Told
<1>2. /\ cmd[r] # NoCommand /\ answer[r] = 0 /\ r \notin changed
      /\ UNCHANGED <<table, cmd, changed>>
  BY <1>1 DEF Told, Answer, IncidentsInv, TypeOK
<1>3. \A q \in Requests : answer'[q] = IF q = r THEN status ELSE answer[q]
  BY <1>1 DEF Answer, IncidentsInv, TypeOK
<1>4. TypeOK'
  <2>1. answer' \in [Requests -> {0, 200, 201, 204, 400, 401, 404, 500}]
    BY <1>1 DEF Answer, IncidentsInv, TypeOK
  <2>2. faults' \in 0..MaxFaults
    BY IncidentsAssumption DEF Told, IncidentsInv, TypeOK
  <2>3. changed' \subseteq {q \in Requests : answer'[q] # 0}
    BY <1>2, <1>3 DEF IncidentsInv, TypeOK
  <2> QED BY <1>2, <1>3, <2>1, <2>2, <2>3 DEF IncidentsInv, TypeOK
<1>5. Rows'
  BY DEF IncidentsInv, Rows, GoodRow
<1>6. OneDeactivation'
  BY <1>2, <1>3 DEF IncidentsInv, OneDeactivation
<1>7. AnswerTellsTheEffect'
  BY <1>2, <1>3 DEF IncidentsInv, AnswerTellsTheEffect
<1> QED BY <1>4, <1>5, <1>6, <1>7 DEF IncidentsInv

LEMMA WrittenKeeps ==
  ASSUME IncidentsInv, NEW r \in Requests, Written(r), Rows', Kept
  PROVE  IncidentsInv'
<1>1. PICK status \in {200, 201, 204, 500} :
        /\ Answer(r, status)
        /\ status = 200 => cmd[r].op = "update"
        /\ status = 204 => cmd[r].op = "deactivate" /\ Matches(cmd[r])
                           /\ ~ table'[cmd[r].id].active
  BY DEF Written
<1>2. /\ cmd[r] # NoCommand /\ answer[r] = 0 /\ changed' = changed \cup {r}
      /\ UNCHANGED cmd
  BY <1>1 DEF Written, Answer
<1>3. \A q \in Requests : answer'[q] = IF q = r THEN status ELSE answer[q]
  BY <1>1 DEF Answer, IncidentsInv, TypeOK
<1>4. TypeOK'
  <2>1. answer' \in [Requests -> {0, 200, 201, 204, 400, 401, 404, 500}]
    BY <1>1 DEF Answer, IncidentsInv, TypeOK
  <2>2. faults' \in 0..MaxFaults
    BY IncidentsAssumption DEF Written, IncidentsInv, TypeOK
  <2>3. changed' \subseteq {q \in Requests : answer'[q] # 0}
    <3>1. changed \subseteq {q \in Requests : answer[q] # 0}
      BY DEF IncidentsInv, TypeOK
    <3>2. status # 0
      BY <1>1
    <3> QED BY <1>2, <1>3, <3>1, <3>2
  <2>4. DOMAIN table' \subseteq Ids /\ table' \in [DOMAIN table' -> Row]
    BY DEF Rows, GoodRow, Row, Optional
  <2>5. /\ cmd' \in [Requests -> Command \cup {NoCommand}]
        /\ \A q \in Requests : cmd'[q] = NoCommand => answer'[q] = 0
    BY <1>2, <1>3 DEF IncidentsInv, TypeOK
  <2> QED BY <2>1, <2>2, <2>3, <2>4, <2>5 DEF TypeOK, Row, Optional
<1>5. OneDeactivation'
  <2> SUFFICES ASSUME NEW q \in Requests, cmd[q].op = "deactivate", answer'[q] = 204
               PROVE  /\ cmd[q].id \in DOMAIN table' /\ ~ table'[cmd[q].id].active
                      /\ \A p \in Requests \ {q} :
                           cmd[p].op = "deactivate" /\ cmd[p].id = cmd[q].id => answer'[p] # 204
    BY <1>2 DEF OneDeactivation
  <2>1. CASE q = r
    <3>1. cmd[r].id \in DOMAIN table /\ table[cmd[r].id].active /\ ~ table'[cmd[r].id].active
      BY <1>1, <1>3, <2>1 DEF Matches
    <3>2. cmd[r].id \in DOMAIN table'
      BY <3>1 DEF Kept
    <3>3. \A p \in Requests \ {r} :
            cmd[p].op = "deactivate" /\ cmd[p].id = cmd[r].id => answer[p] # 204
      BY <3>1 DEF IncidentsInv, OneDeactivation
    <3> QED BY <1>3, <2>1, <3>1, <3>2, <3>3
  <2>2. CASE q # r
    <3>1. answer[q] = 204
      BY <1>3, <2>2
    <3>2. cmd[q].id \in DOMAIN table /\ ~ table[cmd[q].id].active
      BY <3>1 DEF IncidentsInv, OneDeactivation
    <3>3. cmd[r].op = "deactivate" /\ cmd[r].id = cmd[q].id => status # 204
      BY <1>1, <3>2 DEF Matches
    <3>4. \A p \in Requests \ {q} :
            cmd[p].op = "deactivate" /\ cmd[p].id = cmd[q].id => answer[p] # 204
      BY <3>1 DEF IncidentsInv, OneDeactivation
    <3> QED BY <1>3, <3>2, <3>3, <3>4 DEF Kept
  <2> QED BY <2>1, <2>2
<1>6. AnswerTellsTheEffect'
  BY <1>1, <1>2, <1>3 DEF IncidentsInv, AnswerTellsTheEffect
<1> QED BY <1>4, <1>5, <1>6 DEF IncidentsInv

LEMMA InvStep == IncidentsInv /\ [Next]_vars => IncidentsInv'
<1> SUFFICES ASSUME IncidentsInv, [Next]_vars PROVE IncidentsInv'
  OBVIOUS
<1>1. CASE UNCHANGED vars
  BY <1>1 DEF vars, IncidentsInv, TypeOK, Rows, GoodRow, OneDeactivation, AnswerTellsTheEffect
<1>2. CASE \E r \in Requests :
             \/ (Comes(r) \/ Told(r)) /\ UNCHANGED table
             \/ Written(r) /\ Rows' /\ Kept
  BY <1>2, ComesKeeps, ToldKeeps, WrittenKeeps
<1> QED BY <1>1, <1>2, StepCases DEF IncidentsInv

(* The invariant of Incidents: the types, the rules every stored row obeys,*)
(* at most one successful deactivation, and statuses that do not lie.      *)
THEOREM IncidentsInvHolds == Spec => []IncidentsInv
  BY InitInv, InvStep, PTL DEF Spec

(* Rows and answers keep their types; an empty description is never stored.*)
THEOREM TypeCorrect == Spec => []TypeOK
  BY IncidentsInvHolds, PTL DEF IncidentsInv

(* No sequence of creations and partial updates leaves an invalid row: what*)
(* the Validate methods let through stays valid when merged.               *)
THEOREM StoredIsValidHolds == Spec => []StoredIsValid
<1>1. IncidentsInv => StoredIsValid
  BY DEF IncidentsInv, Rows, GoodRow, StoredIsValid
<1> QED BY <1>1, IncidentsInvHolds, PTL

(* Of any number of racing deactivations one succeeds. *)
THEOREM OneDeactivationHolds == Spec => []OneDeactivation
  BY IncidentsInvHolds, PTL DEF IncidentsInv

(* Through all the layers an error passes, a 4xx means that nothing was    *)
(* changed, and a 201 or 204 that it was.                                  *)
THEOREM AnswerTellsTheEffectHolds == Spec => []AnswerTellsTheEffect
  BY IncidentsInvHolds, PTL DEF IncidentsInv

----------------------------------------------------------------------------
(* A body without fields merges to the row itself. *)
LEMMA EmptyMerge ==
  ASSUME NEW b \in UpdateBody, NEW row \in Row, SetList(b).args = <<>>
  PROVE  Merge(b, row) = row
<1>1. \A c \in Columns : \A x : Reads(SetList(b), c, x) = x
  <2>1. \A c \in Columns : SetList(b).pos[c] \in 0..Len(SetList(b).args)
    BY SetListReads DEF ListOK
  <2>2. Len(SetList(b).args) = 0
    OBVIOUS
  <2> QED BY <2>1, <2>2 DEF Reads
<1>2. Assign(SetList(b), row) =
        [title |-> row.title, description |-> row.description, lat |-> row.lat,
         lon |-> row.lon, radius |-> row.radius, active |-> row.active]
  BY <1>1 DEF Assign, Reads, Columns
<1>3. row = [title |-> row.title, description |-> row.description, lat |-> row.lat,
             lon |-> row.lon, radius |-> row.radius, active |-> row.active]
  BY DEF Row
<1> QED BY <1>2, <1>3, AssignIsMerge

(* Only a request's own step answers it. *)
LEMMA Answers ==
  ASSUME IncidentsInv, [Next]_vars, NEW r \in Requests, answer'[r] # answer[r]
  PROVE  \/ Refuse(r) \/ Create(r) \/ Get(r) \/ List(r)
         \/ Stats(r) \/ Update(r) \/ Deactivate(r) \/ Check(r)
         \/ StatementRejected(r) \/ StatementFails(r)
<1>1. TypeOK /\ Rows /\ answer \in [Requests -> {0, 200, 201, 204, 400, 401, 404, 500}]
  BY DEF IncidentsInv, TypeOK
<1>2. ~ UNCHANGED vars
  BY DEF vars
<1>3. PICK q \in Requests :
        \/ Receive(q) \/ Refuse(q) \/ Create(q) \/ Get(q)
        \/ List(q) \/ Stats(q) \/ Update(q) \/ Deactivate(q)
        \/ Check(q) \/ StatementRejected(q) \/ StatementFails(q)
  BY <1>2 DEF Next, Idle
<1>4. ~ Receive(q)
  BY DEF Receive
<1>5. \E status : Answer(q, status)
  <2>1. CASE Create(q)
    BY <1>1, <2>1, CreateWrites DEF Written
  <2>2. CASE Update(q) /\ SetList(cmd[q].body).args # <<>>
    BY <1>1, <2>2, UpdateWrites DEF Written
  <2>3. CASE Deactivate(q)
    BY <1>1, <2>3, DeactivateWrites DEF Written
  <2>4. CASE \/ Refuse(q) \/ Get(q) \/ List(q)
             \/ Stats(q) \/ StatementRejected(q) \/ Check(q) \/ StatementFails(q)
             \/ Update(q) /\ SetList(cmd[q].body).args = <<>>
    BY <1>1, <2>4, ToldSteps DEF Told
  <2> QED BY <1>3, <1>4, <2>1, <2>2, <2>3, <2>4
<1>6. q = r
  BY <1>1, <1>5 DEF Answer
<1> QED BY <1>3, <1>4, <1>6

LEMMA UpdatesMergeStep ==
  ASSUME IncidentsInv, [Next]_vars, NEW r \in Requests,
         cmd[r].op = "update", answer[r] = 0, answer'[r] = 200
  PROVE  table' = [table EXCEPT ![cmd[r].id] = Merge(cmd[r].body, @)]
<1>1. answer \in [Requests -> {0, 200, 201, 204, 400, 401, 404, 500}] /\ TypeOK
  BY DEF IncidentsInv, TypeOK
<1>2. \A status : Answer(r, status) => answer'[r] = status
  BY <1>1 DEF Answer
<1>3. ~ Refuse(r)
  BY <1>2, StatusValues DEF Refuse
<1>4. \A op : Pending(r, op) => op = "update"
  BY DEF Pending
<1>5. ~ Create(r) /\ ~ Get(r) /\ ~ List(r) /\ ~ Stats(r) /\ ~ Deactivate(r) /\ ~ Check(r)
  BY <1>4 DEF Create, Get, List, Stats, Deactivate, Check
<1>6. ~ StatementRejected(r)
  BY <1>2, StatusValues DEF StatementRejected, Fail
<1>7. ~ StatementFails(r)
  BY <1>2, StatusValues DEF StatementFails, Fail
<1>8. Update(r)
  BY <1>3, <1>5, <1>6, <1>7, Answers
<1>9. CASE SetList(cmd[r].body).args = <<>>
  <2> DEFINE b == cmd[r].body
             id == cmd[r].id
  <2>1. b \in UpdateBody
    BY <1>1, TypeOKCommand, CommandCases, IncidentsAssumption
  <2>2. id \in DOMAIN table /\ table \in [DOMAIN table -> Row] /\ table' = table
    BY <1>1, <1>8, <1>9 DEF Update, SqlError, Matches, TypeOK
  <2>3. Merge(b, table[id]) = table[id]
    BY <1>9, <2>1, <2>2, EmptyMerge
  <2> QED BY <2>2, <2>3
<1>10. CASE SetList(cmd[r].body).args # <<>>
  BY <1>1, <1>8, <1>10, UpdateMerges
<1> QED BY <1>9, <1>10

(* Whatever fields a body has, in whatever order requests come: an update  *)
(* answered with 200 was a merge of its body into the row as it was, and   *)
(* touched nothing else.                                                   *)
THEOREM UpdatesMergeHolds == Spec => UpdatesMerge
<1>1. IncidentsInv /\ [Next]_vars =>
        [\A r \in Requests :
           cmd[r].op = "update" /\ answer[r] = 0 /\ answer'[r] = 200 =>
             table' = [table EXCEPT ![cmd[r].id] = Merge(cmd[r].body, @)]]_vars
  BY UpdatesMergeStep
<1> QED BY <1>1, IncidentsInvHolds, PTL DEF Spec, UpdatesMerge

(* What reaches PostgreSQL of a query string is not negative. *)
LEMMA ClampedIsNatural ==
  ASSUME IncidentsInv, NEW r \in Requests, cmd[r].op = "list"
  PROVE  ~ (Clamp(cmd[r].page.limit) < 0) /\ ~ (Clamp(cmd[r].page.offset) < 0)
<1>1. cmd[r].page \in Pages
  BY DEF IncidentsInv, TypeOK, Command, NoCommand
<1>2. cmd[r].page.limit \in Int /\ cmd[r].page.offset \in Int
  BY <1>1, IncidentsAssumption
<1>3. QED
  BY <1>2 DEF Clamp

LEMMA CauseStep ==
  ASSUME IncidentsInv, [Next]_vars, NEW r \in Requests, answer[r] = 0, answer'[r] = 500
  PROVE  \/ faults' > faults
         \/ Unfit(cmd[r])
         \/ cmd[r].op = "check" /\ Undescribed(Near(cmd[r].body.location))
<1>1. /\ answer \in [Requests -> {0, 200, 201, 204, 400, 401, 404, 500}] /\ TypeOK
      /\ faults \in Nat
  BY IncidentsAssumption DEF IncidentsInv, TypeOK
<1>2. \A status : Answer(r, status) => answer'[r] = status
  BY <1>1 DEF Answer
<1>3. Fault => faults' > faults
  BY <1>1 DEF Fault
<1>4. \A status \in {200, 201, 204} : Committed(r, status) => faults' > faults
  BY <1>2, <1>3 DEF Committed
<1>5. CASE Create(r) \/ Deactivate(r)
  BY <1>4, <1>5 DEF Create, Deactivate
<1>6. CASE Update(r)
  <2>1. Answer(r, 200) \/ Committed(r, 200)
    BY <1>6 DEF Update
  <2> QED BY <1>2, <1>4, <2>1
<1>7. CASE Refuse(r)
  BY <1>2, <1>7, StatusValues DEF Refuse
<1>8. CASE Get(r) \/ List(r) \/ Stats(r)
  BY <1>2, <1>8 DEF Get, List, Stats
<1>9. CASE StatementFails(r)
  BY <1>3, <1>9 DEF StatementFails
<1>10. CASE StatementRejected(r)
  <2>1. SqlError(cmd[r]) # "none" /\ Fail(r, SqlError(cmd[r]))
    BY <1>10 DEF StatementRejected
  <2>2. SqlError(cmd[r]) # "negative"
    BY ClampedIsNatural, <2>1 DEF SqlError
  <2>3. SqlError(cmd[r]) # "no_rows"
    <3>1. StatusOf[Wrap(Map("no_rows"))] = 404
      BY DEF StatusOf, Wrap, Map
    <3> QED BY <1>2, <2>1, <3>1 DEF Fail
  <2> QED BY <2>1, <2>2, <2>3 DEF SqlError
<1>11. CASE Check(r)
  <2> DEFINE b == cmd[r].body
  <2>1. cmd[r].op = "check"
    BY <1>11 DEF Check, Pending
  <2>2. PICK s \in Closest(b.location, b.limit) :
          Undescribed(s) \/ Unfit(cmd[r]) \/ Answer(r, 200)
    BY <1>11 DEF Check
  <2>3. Undescribed(s) \/ Unfit(cmd[r])
    BY <1>2, <2>2
  <2>4. s \subseteq Near(b.location)
    BY <2>2 DEF Closest
  <2> QED BY <2>1, <2>3, <2>4 DEF Undescribed
<1> QED BY <1>5, <1>6, <1>7, <1>8, <1>9, <1>10, <1>11, Answers

(* The causes of a 500 are the ones named, and no other. *)
THEOREM InternalHasACauseHolds == Spec => InternalHasACause
<1>1. IncidentsInv /\ [Next]_vars =>
        [\A r \in Requests :
           answer[r] = 0 /\ answer'[r] = 500 =>
             \/ faults' > faults
             \/ Unfit(cmd[r])
             \/ cmd[r].op = "check" /\ Undescribed(Near(cmd[r].body.location))]_vars
  BY CauseStep
<1> QED BY <1>1, IncidentsInvHolds, PTL DEF Spec, InternalHasACause
=============================================================================
