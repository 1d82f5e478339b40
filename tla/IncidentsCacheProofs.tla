------------------------ MODULE IncidentsCacheProofs ------------------------
(***************************************************************************)
(* The lists served from the cache are fresh: for any number of requests,  *)
(* writes and faults, unless their version is in doubt.                    *)
(*                                                                         *)
(* The argument: an entry is stored under the version its request has read *)
(* before it loaded the list, so the list is at least as new as all that   *)
(* this version's INCR made known (EntriesFresh); and a request that comes *)
(* in later reads this version or a later one (KeysFresh).                 *)
(***************************************************************************)
EXTENDS IncidentsCache, TLAPS

ShownGrows ==
  /\ shown[0] = 0
  /\ \A u, v \in Versions : u <= v /\ v <= version => shown[u] <= shown[v]
  /\ \A v \in Versions : v > version => shown[v] = 0

EntriesFresh ==
  \A v \in Versions : v \notin Doubtful => \A e \in cache[v] : v <= version /\ e >= shown[v]

KeysFresh ==
  \A r \in Readers :
    /\ key[r] \notin Doubtful => key[r] <= version /\ due[r] <= shown[key[r]]
    /\ rpc[r] \in {"idle", "version", "setnx"} => key[r] = 0
    /\ rpc[r] = "version" => due[r] <= shown[version]
    /\ rpc[r] = "setnx" => due[r] = 0

ListsFresh ==
  \A r \in Readers :
    rpc[r] \in {"set", "done"} /\ key[r] \notin Doubtful => list[r] >= shown[key[r]]

(* Without faults a change is known in the version, or its INCR is to come. *)
ChangesShown ==
  faults = 0 =>
    /\ ~ blind
    /\ shown[version] = db \/ \E w \in Writers : wpc[w] = "bumping" /\ wrote[w] = db
    /\ cache[0] = {}
    /\ \A r \in Readers : rpc[r] \in {"get", "load", "set", "done"} => key[r] # 0

CacheInv ==
  /\ TypeOK
  /\ ShownGrows /\ EntriesFresh /\ KeysFresh /\ ListsFresh
  /\ ChangesShown

LEMMA VersionsFacts ==
  /\ MaxVersion \in Nat /\ MaxVersion >= 1
  /\ \A v \in Versions : v \in Nat /\ v <= MaxVersion
  /\ 0 \in Versions /\ 1 \in Versions
BY CacheAssumption DEF MaxVersion, Versions

LEMMA DoubtfulFacts == 0 \in Doubtful /\ Doubtful \subseteq {0, 1} /\ (~ blind => Doubtful = {0})
BY DEF Doubtful

LEMMA InitInv == Init => CacheInv
<1>1. Init => TypeOK
  <2> SUFFICES ASSUME Init PROVE TypeOK
    OBVIOUS
  <2>1. db \in Nat /\ writes \in 0..MaxWrites /\ faults \in 0..MaxFaults /\ version \in Versions
    BY VersionsFacts, CacheAssumption DEF Init
  <2>2. /\ cache \in [Versions -> SUBSET (0..db)] /\ shown \in [Versions -> 0..db]
        /\ wrote \in [Writers -> 0..db] /\ wpc \in [Writers -> {"idle", "bumping"}]
    BY DEF Init
  <2>3. /\ key \in [Readers -> Versions] /\ list \in [Readers -> 0..db]
        /\ due \in [Readers -> 0..db]
    BY VersionsFacts DEF Init
  <2>4. /\ rpc \in [Readers -> {"idle", "version", "setnx", "get", "load", "set", "done"}]
        /\ \A r \in Readers : rpc[r] = "idle" => list[r] = 0
    BY DEF Init
  <2>5. blind \in BOOLEAN
    BY DEF Init
  <2>6. QED
    BY <2>1, <2>2, <2>3, <2>4, <2>5 DEF TypeOK
<1>2. Init => ShownGrows /\ EntriesFresh
  BY VersionsFacts DEF Init, ShownGrows, EntriesFresh
<1>3. Init => KeysFresh /\ ListsFresh /\ ChangesShown
  BY VersionsFacts, DoubtfulFacts DEF Init, KeysFresh, ListsFresh, ChangesShown
<1>4. QED
  BY <1>1, <1>2, <1>3 DEF CacheInv

----------------------------------------------------------------------------
(* Lists and states of the table only become possible, never impossible.   *)
LEMMA TypesGrow ==
  ASSUME TypeOK, db' \in Nat, db <= db'
  PROVE  /\ cache \in [Versions -> SUBSET (0..db')]
         /\ list \in [Readers -> 0..db']
         /\ wrote \in [Writers -> 0..db']
         /\ shown \in [Versions -> 0..db']
         /\ due \in [Readers -> 0..db']
<1>1. 0..db \subseteq 0..db'
  BY DEF TypeOK
<1>2. QED
  BY <1>1 DEF TypeOK

LEMMA TypeOKStep == TypeOK /\ [Next]_vars => TypeOK'
<1> SUFFICES ASSUME TypeOK, [Next]_vars PROVE TypeOK'
  OBVIOUS
<1> USE VersionsFacts, CacheAssumption
<1>1. ASSUME NEW w \in Writers, Write(w) \/ WriteUnknown(w) PROVE TypeOK'
  <2>1. db' \in Nat /\ db <= db'
    BY <1>1 DEF TypeOK, Write, WriteUnknown
  <2>2. wrote' \in [Writers -> 0..db']
    BY <1>1, <2>1, TypesGrow DEF Write, WriteUnknown
  <2>3. QED
    BY <1>1, <2>1, <2>2, TypesGrow DEF TypeOK, Write, WriteUnknown, Fault, reader
<1>2. ASSUME NEW w \in Writers, Bump(w) \/ BumpFails(w) \/ BumpResent(w) PROVE TypeOK'
  <2>1. CASE BumpFails(w)
    BY <2>1 DEF TypeOK, BumpFails, Fault, Written, reader
  <2>2. CASE Bump(w) \/ BumpResent(w)
    <3>1. version + 1 \in Versions
      BY <2>2 DEF TypeOK, Bump, BumpResent, Incr, Versions
    <3>2. shown' \in [Versions -> 0..db]
      BY <2>2, <3>1 DEF TypeOK, Bump, BumpResent, Incr
    <3>3. QED
      BY <2>2, <3>1, <3>2 DEF TypeOK, Bump, BumpResent, Incr, Fault, Written, reader, writer
  <2>3. QED
    BY <1>2, <2>1, <2>2
<1>3. ASSUME NEW r \in Readers,
             ListBegin(r) \/ GetVersion(r) \/ GetVersionFails(r) \/ SetVersion(r) \/ SetVersionFails(r)
      PROVE  TypeOK'
  <2>1. CASE ListBegin(r) \/ GetVersion(r) \/ GetVersionFails(r)
    BY <2>1 DEF TypeOK, ListBegin, GetVersion, GetVersionFails, UseVersion, RGoto, Fault, writer
  <2>2. CASE SetVersion(r) \/ SetVersionFails(r)
    <3>0. blind' \in BOOLEAN
      BY <2>2 DEF TypeOK, SetVersion, SetVersionFails
    <3>1. version' \in Versions /\ faults' \in 0..MaxFaults
      BY <2>2 DEF TypeOK, SetVersion, SetVersionFails, Fault
    <3>2. key' \in [Readers -> Versions]
      BY <2>2 DEF TypeOK, SetVersion, SetVersionFails, UseVersion
    <3>3. /\ rpc' \in [Readers -> {"idle", "version", "setnx", "get", "load", "set", "done"}]
          /\ \A q \in Readers : rpc'[q] = "idle" => list'[q] = 0
      BY <2>2 DEF TypeOK, SetVersion, SetVersionFails, UseVersion, RGoto
    <3>4. UNCHANGED <<db, cache, list, due, shown, wpc, wrote, writes>>
      BY <2>2 DEF SetVersion, SetVersionFails, writer
    <3>5. QED
      BY <3>0, <3>1, <3>2, <3>3, <3>4 DEF TypeOK
  <2>3. QED
    BY <1>3, <2>1, <2>2
<1>4. ASSUME NEW r \in Readers,
             GetList(r) \/ GetListFails(r) \/ LoadList(r) \/ SetListFails(r)
      PROVE  TypeOK'
  <2>1. key[r] \in Versions /\ cache[key[r]] \subseteq 0..db /\ db \in 0..db
    BY DEF TypeOK
  <2>2. QED
    BY <1>4, <2>1 DEF TypeOK, GetList, GetListFails, LoadList, SetListFails, RGoto, Fault, writer
<1>5. ASSUME NEW r \in Readers, SetList(r) PROVE TypeOK'
  <2>1. cache' \in [Versions -> SUBSET (0..db)]
    BY <1>5 DEF TypeOK, SetList, EntryKey
  <2>2. QED
    BY <1>5, <2>1 DEF TypeOK, SetList, RGoto, writer
<1>6. ASSUME NEW r \in Readers, ListReturns(r) \/ ListFails(r) PROVE TypeOK'
  BY <1>6 DEF TypeOK, ListReturns, ListFails, ListEnd, RGoto, Fault, writer
<1>7. ASSUME NEW v \in Versions, Expire(v) PROVE TypeOK'
  BY <1>7 DEF TypeOK, Expire, reader, writer
<1>8. CASE UNCHANGED vars
  BY <1>8 DEF TypeOK, vars, reader, writer
<1>9. QED
  BY <1>1, <1>2, <1>3, <1>4, <1>5, <1>6, <1>7, <1>8
     DEF Next, ListStep, ListFault, WriteFault

(* Every reachable state is well typed, whatever fails. *)
THEOREM TypeCorrect == Spec => []TypeOK
<1>1. Init => TypeOK
  BY InitInv DEF CacheInv
<1>2. QED
  BY <1>1, TypeOKStep, PTL DEF Spec

----------------------------------------------------------------------------
(* INCR: the new version knows all that the old one did, and has no        *)
(* entries and no requests yet.                                            *)
LEMMA IncrFresh ==
  ASSUME CacheInv, NEW w \in Writers, Bump(w) \/ BumpResent(w)
  PROVE  ShownGrows' /\ EntriesFresh' /\ KeysFresh' /\ ListsFresh'
<1>1. /\ version \in Versions /\ version + 1 \in Versions /\ version' = version + 1
      /\ shown' = [shown EXCEPT ![version + 1] =
                     IF wrote[w] > shown[version] THEN wrote[w] ELSE shown[version]]
      /\ cache' = cache /\ rpc' = rpc /\ key' = key /\ list' = list /\ due' = due
      /\ Doubtful' = Doubtful
  BY VersionsFacts DEF Bump, BumpResent, Incr, Versions, CacheInv, TypeOK, reader, Doubtful
<1>2. /\ \A v \in Versions : shown[v] \in Nat
      /\ \A r \in Readers : key[r] \in Versions /\ list[r] \in Nat /\ due[r] \in Nat
      /\ wrote[w] \in Nat /\ DOMAIN shown = Versions
  BY DEF CacheInv, TypeOK
<1>3. /\ shown'[version + 1] >= shown[version]
      /\ \A v \in Versions : v # version + 1 => shown'[v] = shown[v]
  BY <1>1, <1>2
<1>4. version \in Nat /\ \A v \in Versions : v \in Nat
  BY <1>1, VersionsFacts
<1>5. ShownGrows'
  <2>1. shown'[0] = 0
    BY <1>3, <1>4, VersionsFacts DEF CacheInv, ShownGrows
  <2>2. ASSUME NEW u \in Versions, NEW v \in Versions, u <= v, v <= version + 1
        PROVE  shown'[u] <= shown'[v]
    <3>1. CASE v # version + 1
      BY <1>3, <1>4, <2>2, <3>1 DEF CacheInv, ShownGrows
    <3>2. CASE v = version + 1 /\ u # version + 1
      <4>1. shown[u] <= shown[version]
        BY <1>1, <1>4, <2>2, <3>2 DEF CacheInv, ShownGrows
      <4>2. shown'[u] = shown[u] /\ shown'[v] >= shown[version]
        BY <1>3, <3>2
      <4>3. shown[u] \in Nat /\ shown[version] \in Nat /\ shown'[v] \in Nat
        BY <1>1, <1>2, <3>2
      <4>4. QED
        BY <4>1, <4>2, <4>3
    <3>3. CASE u = v
      <4>1. shown'[v] \in Nat
        BY <1>1, <1>2
      <4>2. QED
        BY <3>3, <4>1
    <3>4. QED
      BY <3>1, <3>2, <3>3
  <2>3. ASSUME NEW v \in Versions, v > version + 1 PROVE shown'[v] = 0
    BY <1>3, <1>4, <2>3 DEF CacheInv, ShownGrows
  <2>4. QED
    BY <1>1, <2>1, <2>2, <2>3 DEF ShownGrows
<1>6. EntriesFresh'
  BY <1>1, <1>3, <1>4 DEF CacheInv, EntriesFresh
<1>7. \A r \in Readers : key[r] \notin Doubtful => key[r] # version + 1
  BY <1>2, <1>4 DEF CacheInv, KeysFresh
<1>8. KeysFresh'
  <2> SUFFICES ASSUME NEW r \in Readers
      PROVE  /\ key[r] \notin Doubtful => key[r] <= version + 1 /\ due[r] <= shown'[key[r]]
             /\ rpc[r] \in {"idle", "version", "setnx"} => key[r] = 0
             /\ rpc[r] = "version" => due[r] <= shown'[version + 1]
             /\ rpc[r] = "setnx" => due[r] = 0
    BY <1>1 DEF KeysFresh
  <2>1. key[r] \notin Doubtful => key[r] <= version + 1 /\ due[r] <= shown'[key[r]]
    BY <1>2, <1>3, <1>4, <1>7 DEF CacheInv, KeysFresh
  <2>2. rpc[r] = "version" => due[r] <= shown'[version + 1]
    <3>1. shown[version] \in Nat /\ shown'[version + 1] \in Nat /\ due[r] \in Nat
      BY <1>1, <1>2
    <3>2. QED
      BY <1>3, <3>1 DEF CacheInv, KeysFresh
  <2>3. QED
    BY <2>1, <2>2 DEF CacheInv, KeysFresh
<1>9. ListsFresh'
  BY <1>1, <1>2, <1>3, <1>7 DEF CacheInv, ListsFresh
<1>10. QED
  BY <1>5, <1>6, <1>8, <1>9

(* The first use of the version: 1 knows no more than the absent key did.  *)
LEMMA SetVersionFresh ==
  ASSUME CacheInv, NEW r \in Readers, SetVersion(r)
  PROVE  ShownGrows' /\ EntriesFresh' /\ KeysFresh' /\ ListsFresh'
<1>1. /\ version \in Nat /\ version' = (IF version = 0 THEN 1 ELSE version)
      /\ shown' = shown /\ cache' = cache /\ list' = list /\ due' = due
      /\ Doubtful' = Doubtful /\ 0 \in Doubtful
      /\ rpc[r] = "setnx" /\ key' = [key EXCEPT ![r] = 1] /\ rpc' = [rpc EXCEPT ![r] = "get"]
  BY VersionsFacts, DoubtfulFacts DEF SetVersion, UseVersion, RGoto, CacheInv, TypeOK, Doubtful
<1>2. /\ \A v \in Versions : v \in Nat /\ shown[v] \in Nat
      /\ 0 \in Versions /\ 1 \in Versions
      /\ key \in [Readers -> Versions] /\ DOMAIN rpc = Readers
      /\ \A q \in Readers : due[q] \in Nat
  BY VersionsFacts DEF CacheInv, TypeOK
<1>3. version' \in Nat /\ version <= version' /\ version' >= 1
  BY <1>1
<1>4. ShownGrows'
  <2>1. ASSUME NEW u \in Versions, NEW v \in Versions, u <= v, v <= version'
        PROVE  shown[u] <= shown[v]
    BY <1>1, <1>2, <2>1 DEF CacheInv, ShownGrows
  <2>2. QED
    BY <1>1, <1>2, <1>3, <2>1 DEF CacheInv, ShownGrows
<1>5. EntriesFresh'
  BY <1>1, <1>2, <1>3 DEF CacheInv, EntriesFresh
<1>6. shown[version'] >= shown[version] /\ shown[1] >= 0
  BY <1>1, <1>2 DEF CacheInv, ShownGrows, TypeOK
<1>7. KeysFresh'
  <2> SUFFICES ASSUME NEW q \in Readers
      PROVE  /\ key'[q] \notin Doubtful => key'[q] <= version' /\ due[q] <= shown[key'[q]]
             /\ rpc'[q] \in {"idle", "version", "setnx"} => key'[q] = 0
             /\ rpc'[q] = "version" => due[q] <= shown[version']
             /\ rpc'[q] = "setnx" => due[q] = 0
    BY <1>1 DEF KeysFresh
  <2>1. CASE q = r
    BY <1>1, <1>2, <1>3, <1>6, <2>1 DEF CacheInv, KeysFresh
  <2>2. CASE q # r
    <3>1. key'[q] = key[q] /\ rpc'[q] = rpc[q] /\ key[q] \in Nat
      BY <1>1, <1>2, <2>2
    <3>2. rpc[q] = "version" => due[q] <= shown[version']
      <4>1. shown[version] \in Nat /\ shown[version'] \in Nat
        BY <1>1, <1>2 DEF CacheInv, TypeOK
      <4>2. QED
        BY <1>2, <1>6, <4>1 DEF CacheInv, KeysFresh
    <3>3. QED
      BY <1>1, <1>3, <3>1, <3>2 DEF CacheInv, KeysFresh
  <2>3. QED
    BY <2>1, <2>2
<1>8. ListsFresh'
  BY <1>1, <1>2 DEF CacheInv, ListsFresh
<1>9. QED
  BY <1>4, <1>5, <1>7, <1>8

(* Every step that neither counts an INCR nor creates the version.         *)
LEMMA ListFresh ==
  ASSUME CacheInv, NEW r \in Readers,
         \/ ListBegin(r) \/ GetVersion(r) \/ GetVersionFails(r) \/ GetList(r)
         \/ GetListFails(r) \/ LoadList(r) \/ SetListFails(r) \/ ListReturns(r) \/ ListFails(r)
  PROVE  ShownGrows' /\ EntriesFresh' /\ KeysFresh' /\ ListsFresh'
<1>1. /\ version' = version /\ shown' = shown /\ cache' = cache
      /\ Doubtful' = Doubtful /\ 0 \in Doubtful
  BY DoubtfulFacts
     DEF Doubtful, ListBegin, GetVersion, GetVersionFails, GetList, GetListFails, LoadList,
         SetListFails, ListReturns, ListFails
<1>2. /\ version \in Versions /\ version \in Nat
      /\ \A v \in Versions : v \in Nat /\ shown[v] \in Nat /\ shown[v] <= db
      /\ rpc \in [Readers -> {"idle", "version", "setnx", "get", "load", "set", "done"}]
      /\ key \in [Readers -> Versions]
      /\ list \in [Readers -> 0..db] /\ due \in [Readers -> 0..db]
  BY VersionsFacts DEF CacheInv, TypeOK
<1>3. ShownGrows' /\ EntriesFresh'
  BY <1>1 DEF CacheInv, ShownGrows, EntriesFresh
<1>4. KeysFresh'
  <2>0. KeysFresh /\ shown[version] \in Nat
    BY <1>2 DEF CacheInv
  <2> SUFFICES ASSUME NEW q \in Readers
      PROVE  /\ key'[q] \notin Doubtful => key'[q] <= version /\ due'[q] <= shown[key'[q]]
             /\ rpc'[q] \in {"idle", "version", "setnx"} => key'[q] = 0
             /\ rpc'[q] = "version" => due'[q] <= shown[version]
             /\ rpc'[q] = "setnx" => due'[q] = 0
    BY <1>1 DEF KeysFresh
  <2>1. CASE ListBegin(r)
    <3>1. /\ rpc[r] = "idle" /\ key' = key /\ rpc' = [rpc EXCEPT ![r] = "version"]
          /\ due' = [due EXCEPT ![r] = shown[version]]
      BY <2>1 DEF ListBegin, RGoto
    <3>2. CASE q = r
      BY <1>1, <1>2, <2>0, <3>1, <3>2 DEF KeysFresh
    <3>3. CASE q # r
      BY <1>2, <2>0, <3>1, <3>3 DEF KeysFresh
    <3>4. QED
      BY <3>2, <3>3
  <2>2. CASE GetVersion(r)
    <3>1. version = 0 => shown[version] = 0
      BY DEF CacheInv, ShownGrows
    <3>2. /\ rpc[r] = "version" /\ due' = due
          /\ \/ version = 0 /\ rpc' = [rpc EXCEPT ![r] = "setnx"] /\ key' = key
             \/ /\ version # 0 /\ rpc' = [rpc EXCEPT ![r] = "get"]
                /\ key' = [key EXCEPT ![r] = version]
      BY <2>2 DEF GetVersion, UseVersion, RGoto
    <3>3. due[q] \in Nat /\ due[r] \in Nat
      BY <1>2
    <3>4. CASE q = r
      BY <1>2, <2>0, <3>1, <3>2, <3>3, <3>4 DEF KeysFresh
    <3>5. CASE q # r
      BY <1>2, <2>0, <3>2, <3>5 DEF KeysFresh
    <3>6. QED
      BY <3>4, <3>5
  <2>3. CASE GetVersionFails(r)
    BY <1>2, <2>0, <2>3 DEF GetVersionFails, UseVersion, RGoto, KeysFresh
  <2>4. CASE GetList(r) \/ GetListFails(r) \/ LoadList(r) \/ SetListFails(r)
    BY <1>2, <2>0, <2>4 DEF GetList, GetListFails, LoadList, SetListFails, RGoto, KeysFresh
  <2>5. CASE ListReturns(r) \/ ListFails(r)
    BY <1>1, <1>2, <2>0, <2>5 DEF ListReturns, ListFails, ListEnd, RGoto, KeysFresh
  <2>6. QED
    BY <2>1, <2>2, <2>3, <2>4, <2>5
<1>5. ListsFresh'
  <2> SUFFICES ASSUME NEW q \in Readers, rpc'[q] \in {"set", "done"}, key'[q] \notin Doubtful
               PROVE  list'[q] >= shown[key'[q]]
    BY <1>1 DEF ListsFresh
  <2>1. CASE ListBegin(r) \/ GetVersion(r) \/ GetVersionFails(r) \/ ListReturns(r) \/ ListFails(r)
    BY <1>2, <2>1 DEF ListBegin, GetVersion, GetVersionFails, ListReturns, ListFails, ListEnd,
                      UseVersion, RGoto, CacheInv, ListsFresh
  <2>2. CASE GetList(r)
    BY <1>2, <2>2 DEF GetList, RGoto, CacheInv, ListsFresh, EntriesFresh
  <2>3. CASE LoadList(r)
    <3>1. shown[key[q]] \in Nat /\ shown[key[q]] <= db /\ db \in Nat
      BY <1>2 DEF CacheInv, TypeOK
    <3>2. QED
      BY <1>2, <2>3, <3>1 DEF LoadList, RGoto, CacheInv, ListsFresh
  <2>4. CASE GetListFails(r) \/ SetListFails(r)
    BY <1>2, <2>4 DEF GetListFails, SetListFails, RGoto, CacheInv, ListsFresh
  <2>5. QED
    BY <2>1, <2>2, <2>3, <2>4
<1>6. QED
  BY <1>3, <1>4, <1>5

LEMMA SetListFresh ==
  ASSUME CacheInv, NEW r \in Readers, SetList(r)
  PROVE  ShownGrows' /\ EntriesFresh' /\ KeysFresh' /\ ListsFresh'
<1>1. /\ version' = version /\ shown' = shown /\ key' = key /\ list' = list /\ due' = due
      /\ rpc[r] = "set" /\ rpc' = [rpc EXCEPT ![r] = "done"]
      /\ cache' = [cache EXCEPT ![key[r]] = {list[r]}] /\ Doubtful' = Doubtful
  BY DEF SetList, EntryKey, RGoto, Doubtful
<1>2. rpc \in [Readers -> {"idle", "version", "setnx", "get", "load", "set", "done"}]
  BY DEF CacheInv, TypeOK
<1>3. key[r] \notin Doubtful => key[r] <= version /\ list[r] >= shown[key[r]]
  BY <1>1 DEF CacheInv, KeysFresh, ListsFresh
<1>4. key[r] \in Versions /\ cache \in [Versions -> SUBSET (0..db)]
  BY DEF CacheInv, TypeOK
<1>5. EntriesFresh'
  <2> SUFFICES ASSUME NEW v \in Versions, v \notin Doubtful, NEW e \in cache'[v]
               PROVE  v <= version /\ e >= shown[v]
    BY <1>1 DEF EntriesFresh
  <2>1. CASE v = key[r]
    BY <1>1, <1>3, <1>4, <2>1
  <2>2. CASE v # key[r]
    BY <1>1, <1>4, <2>2 DEF CacheInv, EntriesFresh
  <2>3. QED
    BY <2>1, <2>2
<1>6. ShownGrows' /\ KeysFresh' /\ ListsFresh'
  BY <1>1, <1>2 DEF CacheInv, ShownGrows, KeysFresh, ListsFresh
<1>7. QED
  BY <1>5, <1>6

LEMMA WriteFresh ==
  ASSUME CacheInv,
         \/ \E w \in Writers : Write(w) \/ WriteUnknown(w) \/ BumpFails(w)
         \/ \E v \in Versions : Expire(v)
         \/ UNCHANGED vars
  PROVE  ShownGrows' /\ EntriesFresh' /\ KeysFresh' /\ ListsFresh'
<1>1. /\ version' = version /\ shown' = shown /\ UNCHANGED reader /\ Doubtful' = Doubtful
      /\ \A v \in Versions : cache'[v] \subseteq cache[v]
  BY DEF Write, WriteUnknown, BumpFails, Expire, vars, CacheInv, TypeOK, Doubtful
<1>2. QED
  BY <1>1 DEF reader, CacheInv, ShownGrows, EntriesFresh, KeysFresh, ListsFresh

(* A SETNX that fails puts v1 in doubt, and changes nothing else.          *)
LEMMA SetVersionFailsFresh ==
  ASSUME CacheInv, NEW r \in Readers, SetVersionFails(r)
  PROVE  ShownGrows' /\ EntriesFresh' /\ KeysFresh' /\ ListsFresh'
<1>1. /\ version' = version /\ shown' = shown /\ cache' = cache /\ list' = list /\ due' = due
      /\ Doubtful' = {0, 1} /\ Doubtful \subseteq {0, 1}
      /\ key' = [key EXCEPT ![r] = 1] /\ rpc' = [rpc EXCEPT ![r] = "get"]
  BY DoubtfulFacts DEF SetVersionFails, UseVersion, RGoto, Doubtful
<1>2. DOMAIN rpc = Readers /\ DOMAIN key = Readers
  BY DEF CacheInv, TypeOK
<1>3. QED
  BY <1>1, <1>2 DEF CacheInv, ShownGrows, EntriesFresh, KeysFresh, ListsFresh

(* Without faults, a change that the version does not know of yet is the   *)
(* work of a writer on its way to the INCR.                                *)
LEMMA ChangesShownStep ==
  ASSUME CacheInv, KeysFresh', Next
  PROVE  ChangesShown'
<1> SUFFICES ASSUME faults' = 0 PROVE ChangesShown'
  BY DEF ChangesShown
<1>1. /\ faults = 0 /\ faults' = faults /\ blind' = blind
      /\ \/ \E w \in Writers : Write(w) \/ Bump(w)
         \/ \E r \in Readers : ListBegin(r) \/ ListStep(r)
         \/ \E v \in Versions : Expire(v)
  BY DEF Next, ListStep, ListFault, WriteFault, Fault, CacheInv, TypeOK, Write, Bump, ListBegin,
         GetVersion, SetVersion, GetList, LoadList, SetList, ListReturns, Expire, WriteUnknown,
         BumpFails, BumpResent, GetVersionFails, SetVersionFails, GetListFails, SetListFails,
         ListFails
<1>2. /\ ~ blind
      /\ shown[version] = db \/ \E w \in Writers : wpc[w] = "bumping" /\ wrote[w] = db
      /\ cache[0] = {}
      /\ \A r \in Readers : rpc[r] \in {"get", "load", "set", "done"} => key[r] # 0
  BY <1>1 DEF CacheInv, ChangesShown
<1>3. /\ version \in Nat /\ db \in Nat /\ 0 \in Versions /\ shown \in [Versions -> 0..db]
      /\ wpc \in [Writers -> {"idle", "bumping"}] /\ wrote \in [Writers -> 0..db]
      /\ rpc \in [Readers -> {"idle", "version", "setnx", "get", "load", "set", "done"}]
      /\ key \in [Readers -> Versions] /\ cache \in [Versions -> SUBSET (0..db)]
      /\ version \in Versions
  BY VersionsFacts DEF CacheInv, TypeOK
<1>4. cache'[0] = {}
  BY <1>1, <1>2, <1>3
     DEF ListStep, Write, Bump, ListBegin, GetVersion, SetVersion, GetList, LoadList, SetList,
         EntryKey, ListReturns, Expire
<1>5. \A r \in Readers : rpc'[r] \in {"get", "load", "set", "done"} => key'[r] # 0
  BY <1>1, <1>2, <1>3
     DEF ListStep, Write, Bump, ListBegin, GetVersion, SetVersion, GetList, LoadList, SetList,
         ListReturns, ListEnd, Expire, UseVersion, RGoto, reader
<1>6. shown'[version'] = db' \/ \E w \in Writers : wpc'[w] = "bumping" /\ wrote'[w] = db'
  <2>1. ASSUME NEW w \in Writers, Write(w)
        PROVE  wpc'[w] = "bumping" /\ wrote'[w] = db'
    BY <1>3, <2>1 DEF Write
  <2>2. ASSUME NEW w \in Writers, Bump(w)
        PROVE  shown'[version'] = db' \/ \E u \in Writers : wpc'[u] = "bumping" /\ wrote'[u] = db'
    <3>1. version + 1 \in Versions /\ version' = version + 1 /\ db' = db
      BY <1>3, <2>2, VersionsFacts DEF Bump, Incr, Versions
    <3>2. shown'[version'] = (IF wrote[w] > shown[version] THEN wrote[w] ELSE shown[version])
      BY <1>3, <2>2, <3>1 DEF Bump, Incr
    <3>3. wrote[w] \in 0..db /\ shown[version] \in 0..db
      BY <1>3
    <3>4. CASE shown[version] = db \/ wrote[w] = db
      BY <1>3, <3>1, <3>2, <3>3, <3>4
    <3>5. ASSUME NEW u \in Writers, u # w, wpc[u] = "bumping", wrote[u] = db
          PROVE  wpc'[u] = "bumping" /\ wrote'[u] = db'
      BY <1>3, <2>2, <3>1, <3>5 DEF Bump, Written
    <3>6. QED
      BY <1>2, <3>4, <3>5
  <2>3. ASSUME NEW r \in Readers, SetVersion(r)
        PROVE  shown'[version'] = db' \/ \E w \in Writers : wpc'[w] = "bumping" /\ wrote'[w] = db'
    <3>1. db' = db /\ wpc' = wpc /\ wrote' = wrote /\ shown' = shown
      BY <2>3 DEF SetVersion, writer
    <3>2. CASE version = 0 /\ shown[version] = db
      <4>1. db = 0 /\ version' = 1 /\ 1 \in Versions
        BY <2>3, <3>2, VersionsFacts DEF SetVersion, CacheInv, ShownGrows
      <4>2. shown[1] = 0
        BY <1>3, <4>1
      <4>3. QED
        BY <3>1, <4>1, <4>2
    <3>3. CASE version # 0
      BY <1>2, <2>3, <3>1, <3>3 DEF SetVersion
    <3>4. QED
      BY <1>2, <3>1, <3>2, <3>3
  <2>4. CASE UNCHANGED <<db, version, shown, wpc, wrote>>
    BY <1>2, <2>4
  <2>5. QED
    BY <1>1, <2>1, <2>2, <2>3, <2>4
       DEF ListStep, ListBegin, GetVersion, GetList, LoadList, SetList, ListReturns, Expire, writer
<1>7. QED
  BY <1>1, <1>2, <1>4, <1>5, <1>6 DEF ChangesShown

LEMMA InvStep == CacheInv /\ [Next]_vars => CacheInv'
<1> SUFFICES ASSUME CacheInv, [Next]_vars PROVE CacheInv'
  OBVIOUS
<1>1. TypeOK'
  BY TypeOKStep DEF CacheInv
<1>2. ShownGrows' /\ EntriesFresh' /\ KeysFresh' /\ ListsFresh'
  BY IncrFresh, SetVersionFresh, SetVersionFailsFresh, ListFresh, SetListFresh, WriteFresh
     DEF Next, ListStep, ListFault, WriteFault
<1>3. ChangesShown'
  <2>1. CASE UNCHANGED vars
    BY <2>1 DEF vars, reader, writer, CacheInv, ChangesShown
  <2>2. QED
    BY <1>2, <2>1, ChangesShownStep
<1>4. QED
  BY <1>1, <1>2, <1>3 DEF CacheInv

(* The inductive invariant. *)
THEOREM CacheInvHolds == Spec => []CacheInv
<1>1. QED
  BY InitInv, InvStep, PTL DEF Spec

(* List, getVersion and bumpVersion together: a list is at least as new as *)
(* every write whose INCR took effect before the request came in, whatever *)
(* fails, unless it was stored under a version that is in doubt.           *)
THEOREM ListIsFreshHolds == Spec => []ListIsFresh
<1>1. CacheInv => ListIsFresh
  <2> SUFFICES ASSUME CacheInv, NEW r \in Readers, rpc[r] = "done", key[r] \notin Doubtful
               PROVE  list[r] >= due[r]
    BY DEF ListIsFresh
  <2>1. list[r] >= shown[key[r]] /\ due[r] <= shown[key[r]]
    BY DEF CacheInv, ListsFresh, KeysFresh
  <2>2. list[r] \in Nat /\ due[r] \in Nat /\ shown[key[r]] \in Nat
    BY DEF CacheInv, TypeOK
  <2>3. QED
    BY <2>1, <2>2
<1>2. QED
  BY <1>1, CacheInvHolds, PTL

(* What is stored under a version is as new as what its INCR made known,   *)
(* so the INCR of the latest change leaves nothing older to be served,     *)
(* whatever was lost before; and as long as nothing has failed, the latest *)
(* change is known whenever no write is between its statement and its INCR.*)
THEOREM QuietCacheIsCurrentHolds == Spec => []QuietCacheIsCurrent
<1>1. ASSUME CacheInv, version \notin Doubtful, shown[version] = db PROVE cache[version] \subseteq {db}
  <2>1. SUFFICES ASSUME NEW e \in cache[version] PROVE e = db
    OBVIOUS
  <2>2. version \in Versions /\ e \in 0..db /\ db \in Nat
    BY <1>1 DEF CacheInv, TypeOK
  <2>3. e >= db
    BY <1>1, <2>2 DEF CacheInv, EntriesFresh
  <2>4. QED
    BY <2>2, <2>3
<1>2. ASSUME CacheInv, faults = 0, \A w \in Writers : wpc[w] = "idle"
      PROVE  cache[version] \subseteq {db}
  <2>1. Doubtful = {0} /\ shown[version] = db /\ cache[0] = {}
    BY <1>2, DoubtfulFacts DEF CacheInv, ChangesShown
  <2>2. CASE version = 0
    BY <2>1, <2>2
  <2>3. CASE version # 0
    BY <1>1, <1>2, <2>1, <2>3
  <2>4. QED
    BY <2>2, <2>3
<1>3. CacheInv => QuietCacheIsCurrent
  BY <1>1, <1>2 DEF QuietCacheIsCurrent
<1>4. QED
  BY <1>3, CacheInvHolds, PTL
=============================================================================
