--------------------------- MODULE IncidentsCache ---------------------------
(***************************************************************************)
(* The cache of active incidents (internal/platform/redis/cache): List     *)
(* reads through Redis under a key that carries a version, every write to  *)
(* the incidents table is followed by an INCR of the version, and entries  *)
(* are left to expire.                                                     *)
(*                                                                         *)
(* Content is abstracted to a number: state n of the table is what n       *)
(* changes have made of it, and a cached list is the state it was read     *)
(* from.  limit and offset are constant: keys that differ in them never    *)
(* meet.  Postgres and Redis are two systems, and each call below is one   *)
(* round trip to one of them.                                              *)
(***************************************************************************)
EXTENDS Naturals, SequencesExt

CONSTANTS
  Readers,     \* requests that list active incidents
  Writers,     \* requests that create, update or deactivate an incident
  FaultKinds,  \* which faults the environment may inject
  MaxFaults,   \* bound on the number of faults of a behaviour
  MaxWrites    \* bound on the number of writes of a behaviour

ASSUME CacheAssumption == MaxFaults \in Nat /\ MaxWrites \in Nat

VARIABLES
  db,       \* state of the incidents table
  version,  \* value of incidents:active:version, 0 when the key is absent
  cache,    \* version in the key -> {the list stored there}, {} for none
  rpc,      \* Readers -> where List is
  key,      \* Readers -> the version its key is built from
  list,     \* Readers -> the list it has in hand
  wpc,      \* Writers -> where the write is
  wrote,    \* Writers -> state of the table after its statement
  writes,   \* number of writes so far
  faults,   \* number of faults so far
  shown,    \* history: version -> latest state whose INCR has been counted in it
  due,      \* history: Readers -> shown[version] when its request came in
  blind     \* history: a SETNX has failed, and v1 was used without a version

reader == <<rpc, key, list, due>>
writer == <<wpc, wrote, writes>>
vars == <<db, version, cache, reader, writer, faults, shown, blind>>

(* Every write and every re-sent INCR adds one to the version, which       *)
(* starts at 1; version 0 is what getVersion answers for an error.         *)
MaxVersion == 1 + MaxWrites + MaxFaults
Versions == 0..MaxVersion

Fault(kind) ==
  /\ kind \in FaultKinds
  /\ faults < MaxFaults
  /\ faults' = faults + 1

----------------------------------------------------------------------------
Init ==
  /\ db = 0
  /\ version = 0
  /\ cache = [v \in Versions |-> {}]
  /\ rpc = [r \in Readers |-> "idle"]
  /\ key = [r \in Readers |-> 0]
  /\ list = [r \in Readers |-> 0]
  /\ wpc = [w \in Writers |-> "idle"]
  /\ wrote = [w \in Writers |-> 0]
  /\ writes = 0
  /\ faults = 0
  /\ shown = [v \in Versions |-> 0]
  /\ due = [r \in Readers |-> 0]
  /\ blind = FALSE

----------------------------------------------------------------------------
(* The statement of Create, Update or Deactivate commits.  An Update with  *)
(* no field set changes nothing, and is followed by an INCR like any other.*)
Write(w) ==
  /\ wpc[w] = "idle"
  /\ writes < MaxWrites
  /\ writes' = writes + 1
  /\ db' \in {db, db + 1}
  /\ wrote' = [wrote EXCEPT ![w] = db']
  /\ wpc' = [wpc EXCEPT ![w] = "bumping"]
  /\ UNCHANGED <<version, cache, reader, faults, shown, blind>>

(* The statement commits and its reply is lost: to Create, Update and      *)
(* Deactivate it is an error, and nothing is bumped.                       *)
WriteUnknown(w) ==
  /\ wpc[w] = "idle"
  /\ writes < MaxWrites
  /\ Fault("db")
  /\ writes' = writes + 1
  /\ db' = db + 1
  /\ UNCHANGED <<version, cache, reader, wpc, wrote, shown, blind>>

(* Seeded bug: the version is set, not incremented. *)
IncrSame(w) ==
  /\ version' = (IF version = 0 THEN 1 ELSE version)
  /\ shown' = [shown EXCEPT ![version'] = IF wrote[w] > @ THEN wrote[w] ELSE @]

(* INCR takes effect: it creates the absent key with the value 1. *)
Incr(w) ==
  /\ version < MaxVersion
  /\ version' = version + 1
  /\ shown' = [shown EXCEPT ![version + 1] =
                 IF wrote[w] > shown[version] THEN wrote[w] ELSE shown[version]]

Written(w) ==
  /\ wpc' = [wpc EXCEPT ![w] = "idle"]
  /\ wrote' = [wrote EXCEPT ![w] = 0]

Bump(w) ==
  /\ wpc[w] = "bumping"
  /\ Incr(w)
  /\ Written(w)
  /\ UNCHANGED <<db, cache, reader, writes, faults, blind>>

(* INCR fails, or the process dies before it: logged, the write succeeds. *)
BumpFails(w) ==
  /\ wpc[w] = "bumping"
  /\ Fault("bump")
  /\ Written(w)
  /\ UNCHANGED <<db, version, cache, reader, writes, shown, blind>>

(* INCR takes effect, its reply is lost, and the client sends it again. *)
BumpResent(w) ==
  /\ wpc[w] = "bumping"
  /\ Fault("bump")
  /\ Incr(w)
  /\ UNCHANGED <<db, cache, reader, writer, blind>>

----------------------------------------------------------------------------
RGoto(r, label) == rpc' = [rpc EXCEPT ![r] = label]

(* Built into the key: key[r] \in Versions. *)
UseVersion(r, v) ==
  /\ key' = [key EXCEPT ![r] = v]
  /\ RGoto(r, "get")

(* A request for the active incidents comes in. *)
ListBegin(r) ==
  /\ rpc[r] = "idle"
  /\ due' = [due EXCEPT ![r] = shown[version]]
  /\ RGoto(r, "version")
  /\ UNCHANGED <<db, version, cache, key, list, writer, faults, shown, blind>>

GetVersion(r) ==
  /\ rpc[r] = "version"
  /\ IF version = 0 THEN RGoto(r, "setnx") /\ UNCHANGED key
                    ELSE UseVersion(r, version)
  /\ UNCHANGED <<db, version, cache, list, due, writer, faults, shown, blind>>

GetVersionFails(r) ==
  /\ rpc[r] = "version"
  /\ Fault("get")
  /\ UseVersion(r, 0)
  /\ UNCHANGED <<db, version, cache, list, due, writer, shown, blind>>

(* SETNX of the absent version; the answer is "1" whatever it finds. *)
SetVersion(r) ==
  /\ rpc[r] = "setnx"
  /\ version' = (IF version = 0 THEN 1 ELSE version)
  /\ UseVersion(r, 1)
  /\ UNCHANGED <<db, cache, list, due, writer, faults, shown, blind>>

(* The error of SETNX is ignored. *)
SetVersionFails(r) ==
  /\ rpc[r] = "setnx"
  /\ Fault("setnx")
  /\ UseVersion(r, 1)
  /\ blind' = TRUE
  /\ UNCHANGED <<db, version, cache, list, due, writer, shown>>

(* GET of the list. *)
GetList(r) ==
  /\ rpc[r] = "get"
  /\ \/ cache[key[r]] = {} /\ RGoto(r, "load") /\ UNCHANGED list
     \/ \E entry \in cache[key[r]] :
          RGoto(r, "done") /\ list' = [list EXCEPT ![r] = entry]
  /\ UNCHANGED <<db, version, cache, key, due, writer, faults, shown, blind>>

(* An error is a miss. *)
GetListFails(r) ==
  /\ rpc[r] = "get"
  /\ Fault("get")
  /\ RGoto(r, "load")
  /\ UNCHANGED <<db, version, cache, key, list, due, writer, shown, blind>>

LoadList(r) ==
  /\ rpc[r] = "load"
  /\ list' = [list EXCEPT ![r] = db]
  /\ RGoto(r, "set")
  /\ UNCHANGED <<db, version, cache, key, due, writer, faults, shown, blind>>

(* Seeded bug: the version is read again to build the key of the SET. *)
EntryKeyNow(r) == version

EntryKey(r) == key[r]

SetList(r) ==
  /\ rpc[r] = "set"
  /\ cache' = [cache EXCEPT ![EntryKey(r)] = {list[r]}]
  /\ RGoto(r, "done")
  /\ UNCHANGED <<db, version, key, list, due, writer, faults, shown, blind>>

SetListFails(r) ==
  /\ rpc[r] = "set"
  /\ Fault("set")
  /\ RGoto(r, "done")
  /\ UNCHANGED <<db, version, cache, key, list, due, writer, shown, blind>>

(* Seeded bug: the list of one request is seen by the next. *)
ListEndKeeps(r) == RGoto(r, "idle") /\ UNCHANGED <<key, list, due>>

ListEnd(r) ==
  /\ RGoto(r, "idle")
  /\ key' = [key EXCEPT ![r] = 0]
  /\ list' = [list EXCEPT ![r] = 0]
  /\ due' = [due EXCEPT ![r] = 0]

ListReturns(r) ==
  /\ rpc[r] = "done"
  /\ ListEnd(r)
  /\ UNCHANGED <<db, version, cache, writer, faults, shown, blind>>

(* The query fails, or the request's process dies anywhere. *)
ListFails(r) ==
  /\ rpc[r] # "idle"
  /\ Fault("db")
  /\ ListEnd(r)
  /\ UNCHANGED <<db, version, cache, writer, shown, blind>>

(* Seeded bug: SET without an expiry. *)
ExpireNever(v) == FALSE /\ UNCHANGED vars

(* The entry's TTL passes; reading it does not extend it. *)
Expire(v) ==
  /\ cache[v] # {}
  /\ cache' = [cache EXCEPT ![v] = {}]
  /\ UNCHANGED <<db, version, reader, writer, faults, shown, blind>>

----------------------------------------------------------------------------
(* The steps of List after the request has come in, when nothing fails. *)
ListStep(r) ==
  \/ GetVersion(r)
  \/ SetVersion(r)
  \/ GetList(r)
  \/ LoadList(r)
  \/ SetList(r)
  \/ ListReturns(r)

ListFault(r) ==
  \/ GetVersionFails(r)
  \/ SetVersionFails(r)
  \/ GetListFails(r)
  \/ SetListFails(r)
  \/ ListFails(r)

WriteFault(w) == WriteUnknown(w) \/ BumpFails(w) \/ BumpResent(w)

Next ==
  \/ \E r \in Readers : ListBegin(r) \/ ListStep(r) \/ ListFault(r)
  \/ \E w \in Writers : Write(w) \/ Bump(w) \/ WriteFault(w)
  \/ \E v \in Versions : Expire(v)

Fairness ==
  /\ \A r \in Readers : WF_vars(ListStep(r))
  /\ \A w \in Writers : WF_vars(Bump(w))
  /\ \A v \in Versions : WF_vars(Expire(v))

Spec == Init /\ [][Next]_vars

FairSpec == Spec /\ Fairness

----------------------------------------------------------------------------
(* The shape of the state: no list is from the future, and a request that  *)
(* is over leaves nothing behind.                                          *)
TypeOK ==
  /\ db \in Nat /\ writes \in 0..MaxWrites /\ faults \in 0..MaxFaults
  /\ version \in Versions
  /\ cache \in [Versions -> SUBSET (0..db)]
  /\ rpc \in [Readers -> {"idle", "version", "setnx", "get", "load", "set", "done"}]
  /\ key \in [Readers -> Versions]
  /\ list \in [Readers -> 0..db]
  /\ wpc \in [Writers -> {"idle", "bumping"}]
  /\ wrote \in [Writers -> 0..db]
  /\ shown \in [Versions -> 0..db]
  /\ due \in [Readers -> 0..db]
  /\ blind \in BOOLEAN
  /\ \A r \in Readers : rpc[r] = "idle" => list[r] = 0

(* The versions that a request may have used without reading them: v0     *)
(* when the GET failed, and v1 from the first SETNX that failed.           *)
Doubtful == IF blind THEN {0, 1} ELSE {0}

(* A list is at least as new as the last write whose INCR took effect      *)
(* before the request came in, however the writes, their INCRs and the     *)
(* fills of other requests interleave, and whatever failed; not so for a   *)
(* request that could not read or store the version, and shares the key    *)
(* v0 or v1 with all such requests.                                        *)
ListIsFresh ==
  \A r \in Readers : rpc[r] = "done" /\ key[r] \notin Doubtful => list[r] >= due[r]

(* The cache holds no outdated list under the version in force, as soon as *)
(* an INCR has made the latest state known, whatever failed before: one    *)
(* INCR makes up for all that were lost.  That of the write itself is      *)
(* enough: until something fails, it is so whenever no write is under way. *)
QuietCacheIsCurrent ==
  /\ version \notin Doubtful /\ shown[version] = db => cache[version] \subseteq {db}
  /\ faults = 0 /\ (\A w \in Writers : wpc[w] = "idle") => cache[version] \subseteq {db}

(* An outdated list does not outlive its TTL for long, whatever failed:    *)
(* after the last write the cache comes to hold current lists only, also   *)
(* when an INCR was lost, or a list was kept under v0.                     *)
EventuallyCurrent == <>[](\A v \in Versions : cache[v] \subseteq {db})
=============================================================================
