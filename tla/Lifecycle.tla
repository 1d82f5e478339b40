----------------------------- MODULE Lifecycle -----------------------------
(***************************************************************************)
(* The life of an API process (cmd/api/main.go): it opens its pools and    *)
(* checks its dependencies, starts the HTTP server and the two workers,    *)
(* waits for a signal or for the server to fail, and stops what it has     *)
(* started.                                                                *)
(*                                                                         *)
(*   open -> ping -> query -> cache -> queue -> notify -> spawn -> group   *)
(*        -> select -> draining -> waiting -> closing -> exited            *)
(*                                                                         *)
(* "ping" and "query", with "sleep" between two pings, are db.StatusCheck; *)
(* the health endpoint, which is what the requests stand for here, goes    *)
(* through the same and then pings the two Redis clients.  One Redis       *)
(* server answers both.  A call waits for a server that is away, and when  *)
(* every connection of its pool is in use.                                 *)
(***************************************************************************)
EXTENDS Naturals, FiniteSets

CONSTANTS
  Requests,    \* GET /api/v1/health requests
  MaxOutages,  \* bound on how often a server goes down or a pool is exhausted
  MaxSignals   \* bound on the number of signals

ASSUME LifecycleAssumption ==
  /\ "main" \notin Requests
  /\ MaxOutages \in Nat /\ MaxSignals \in Nat

VARIABLES
  pc,         \* main and Requests -> where its goroutine is
  pings,      \* main and Requests -> attempts in its StatusCheck
  late,       \* main and Requests whose current call has waited: it may time out
  degraded,   \* Requests -> the health response is "degraded", 503
  dropped,    \* Requests whose connection was closed while their handler ran
  pools,      \* the clients whose deferred Close is still to come
  server,     \* the goroutine that runs s.Start
  closing,    \* s.Shutdown has been called
  cancelled,  \* workerCancel has been called
  worker,     \* Workers -> where its Run is
  sig,        \* signals in the channel of signal.Notify
  signals,    \* number of signals so far
  up,         \* Parts -> the server answers, the pool has a free connection
  outages,    \* number of outages so far
  seen        \* history: Requests -> the parts that have answered while it is served,
              \* and "outage" if one of them did not

program ==
  <<pc, pings, late, degraded, dropped, pools, server, closing, cancelled, worker, sig>>
vars == <<program, signals, up, outages, seen>>

Procs == {"main"} \cup Requests
Workers == {"relay", "webhook"}
Servers == {"postgres", "redis"}
Pools == {"db", "cache", "queue"}
Parts == Servers \cup Pools

Starting == {"open", "ping", "sleep", "query", "cache", "queue"}
Ended == {"exited", "killed"}
Active == {h \in Requests : pc[h] \in {"ping", "sleep", "query", "queue", "cache"}}
Alive == pc["main"] \notin Ended

----------------------------------------------------------------------------
Init ==
  /\ pc = [p \in Procs |-> IF p = "main" THEN "open" ELSE "none"]
  /\ pings = [p \in Procs |-> 1]
  /\ late = {}
  /\ degraded = [h \in Requests |-> FALSE]
  /\ dropped = {}
  /\ pools = {}
  /\ server = "none"
  /\ closing = FALSE
  /\ cancelled = FALSE
  /\ worker = [w \in Workers |-> "none"]
  /\ sig = 0
  /\ signals = 0
  /\ \E answers \in [Servers -> BOOLEAN] :
       up = [x \in Parts |-> IF x \in Servers THEN answers[x] ELSE TRUE]
  /\ outages = 0
  /\ seen = [h \in Requests |-> {}]

Goto(p, label) == pc' = [pc EXCEPT ![p] = label]

Look(x, on) == IF on THEN x ELSE "outage"

(* A part fails or comes back; the requests that are made may notice.      *)
Turn(x, on) ==
  /\ up[x] = ~ on
  /\ up' = [up EXCEPT ![x] = on]
  /\ seen' = [h \in Requests |-> IF h \in Active THEN seen[h] \cup {Look(x, on)} ELSE seen[h]]
  /\ UNCHANGED <<program, signals>>

(* A pool runs out of connections only when the server and the workers use *)
(* it: MaxOpenConns of the database pool, PoolSize of a Redis client.      *)
InUse(pool) ==
  /\ pool \in pools
  /\ server \in {"listening", "returned"} \/ \E w \in Workers : worker[w] \in {"idle", "busy"}

Outage(x) ==
  /\ outages < MaxOutages
  /\ x \in Servers \/ InUse(x)
  /\ outages' = outages + 1
  /\ Turn(x, FALSE)

Recover(x) == Turn(x, TRUE) /\ UNCHANGED outages

----------------------------------------------------------------------------
(* The calls that main and the health handler make to the dependencies.    *)
ServerOf(pool) == IF pool = "db" THEN "postgres" ELSE "redis"

Answers(pool) == up[pool] /\ up[ServerOf(pool)]

(* A closed pool refuses every call.                                       *)
Reachable(pool) == pool \in pools /\ Answers(pool)

environment == <<signals, up, outages, seen>>
calls == <<pings, late>>
others == <<degraded, dropped, server, closing, cancelled, worker, sig>>

(* A ping, a dial or a query waits for its server, or for a connection of  *)
(* the pool: from then on its deadline may pass, whatever comes back.      *)
Waits(p) ==
  /\ Alive
  /\ \/ pc[p] \in {"open", "ping", "query"} /\ ~ Answers("db")
     \/ pc[p] \in {"cache", "queue"} /\ ~ Answers(pc[p])
  /\ late' = late \cup {p}
  /\ UNCHANGED <<pc, pings, pools, others, environment>>

(* db.StatusCheck has a deadline of one second of its own.  The n-th ping  *)
(* that fails is followed by a sleep of n * 100 ms.                        *)
SleepEnds(n) == 50 * n * (n + 1)

MayPingAgain(p) == SleepEnds(pings[p]) < 1000

PingOk(p) ==
  /\ pc[p] = "ping"
  /\ Reachable("db")
  /\ Goto(p, "query")
  /\ pings' = [pings EXCEPT ![p] = 1]
  /\ UNCHANGED <<late, pools, others, environment>>

PingFails(p) ==
  /\ pc[p] = "ping"
  /\ p \in late \/ ~ Reachable("db")
  /\ Goto(p, "sleep")
  /\ UNCHANGED <<calls, pools, others, environment>>

(* Seeded bug: the deadline is that of one ping, not of the whole loop.    *)
PingAgainAfresh(p) ==
  /\ pc[p] = "sleep"
  /\ Goto(p, "ping")
  /\ UNCHANGED <<calls, pools, others, environment>>

PingAgain(p) ==
  /\ pc[p] = "sleep"
  /\ MayPingAgain(p)
  /\ Goto(p, "ping")
  /\ pings' = [pings EXCEPT ![p] = @ + 1]
  /\ UNCHANGED <<late, pools, others, environment>>

Ping(p) == PingOk(p) \/ PingFails(p) \/ PingAgain(p)

(* The deadline ends the sleep, also when Postgres is back by then; or     *)
(* SELECT TRUE fails, or gets no connection before the deadline.           *)
StatusFails(p) ==
  \/ pc[p] = "sleep" /\ (p \in late \/ ~ MayPingAgain(p))
  \/ pc[p] = "query" /\ (p \in late \/ ~ Reachable("db"))

StatusOk(p) == pc[p] = "query" /\ Reachable("db")

(* The call is over, and with it its attempts and its deadline.            *)
Returns(p) == pings' = [pings EXCEPT ![p] = 1] /\ late' = late \ {p}

----------------------------------------------------------------------------
(* main *)
Main(from, to) == pc["main"] = from /\ Goto("main", to)

(* db.Open: a pool that cannot be pinged is closed again. *)
OpenDB ==
  /\ pc["main"] = "open"
  /\ \/ Answers("db") /\ pools' = {"db"} /\ Goto("main", "ping")
     \/ ("main" \in late \/ ~ Answers("db")) /\ Goto("main", "closing") /\ UNCHANGED pools
  /\ Returns("main")
  /\ UNCHANGED <<others, environment>>

(* Seeded bug: main leaves with os.Exit, and no deferred call runs. *)
StartStatusExits ==
  /\ \/ StatusOk("main") /\ Goto("main", "cache")
     \/ StatusFails("main") /\ Goto("main", "exited")
  /\ Returns("main")
  /\ UNCHANGED <<pools, others, environment>>

StartStatus ==
  /\ \/ StatusOk("main") /\ Goto("main", "cache")
     \/ StatusFails("main") /\ Goto("main", "closing")
  /\ Returns("main")
  /\ UNCHANGED <<pools, others, environment>>

(* redis.NewClient, its deferred Close, and Ping. *)
OpenRedis(pool, next) ==
  /\ pc["main"] = pool
  /\ pools' = pools \cup {pool}
  /\ \/ Answers(pool) /\ Goto("main", next)
     \/ ("main" \in late \/ ~ Answers(pool)) /\ Goto("main", "closing")
  /\ Returns("main")
  /\ UNCHANGED <<others, environment>>

Notify ==
  /\ Main("notify", "spawn")
  /\ UNCHANGED <<calls, pools, others, environment>>

SpawnServer ==
  /\ Main("spawn", "group")
  /\ server' = "spawned"
  /\ UNCHANGED <<calls, degraded, dropped, pools, closing, cancelled, worker, sig, environment>>

StartWorkers ==
  /\ Main("group", "select")
  /\ worker' = [w \in Workers |-> "idle"]
  /\ UNCHANGED <<calls, degraded, dropped, pools, server, closing, cancelled, sig, environment>>

(* case err := <-serverErrors: nothing is cancelled, g.Wait comes next.    *)
ServerFailed ==
  /\ server \in {"refused", "returned"}
  /\ Main("select", "waiting")
  /\ UNCHANGED <<calls, pools, others, environment>>

(* case sig := <-shutdown: workerCancel, and Shutdown closes the listener. *)
ShutdownBegins ==
  /\ sig = 1
  /\ Main("select", "draining")
  /\ sig' = 0
  /\ cancelled' = TRUE
  /\ closing' = TRUE
  /\ UNCHANGED <<calls, degraded, dropped, pools, server, worker, environment>>

(* Seeded bug: Shutdown is given the background context. *)
ShutdownTimesOutNever == FALSE /\ UNCHANGED vars

(* After ten seconds main gives up: Close drops the connections that are   *)
(* still active, but nobody stops their handlers, which go on.             *)
ShutdownTimesOut ==
  /\ Active # {}
  /\ Main("draining", "waiting")
  /\ dropped' = Active
  /\ UNCHANGED <<calls, degraded, pools, server, closing, cancelled, worker, sig, environment>>

Drained ==
  /\ Active = {}
  /\ Main("draining", "waiting")
  /\ UNCHANGED <<calls, pools, others, environment>>

(* Seeded bug: main does not wait for the workers. *)
WaitReturnsAtOnce ==
  /\ Main("waiting", "closing")
  /\ UNCHANGED <<calls, pools, others, environment>>

(* g.Wait *)
WaitReturns ==
  /\ \A w \in Workers : worker[w] = "stopped"
  /\ Main("waiting", "closing")
  /\ UNCHANGED <<calls, pools, others, environment>>

(* The deferred Close of the pool opened last. *)
CloseOrder(pool) == CASE pool = "db" -> 1 [] pool = "cache" -> 2 [] pool = "queue" -> 3

ClosePool ==
  /\ pc["main"] = "closing"
  /\ \E pool \in pools :
       /\ \A other \in pools : CloseOrder(other) <= CloseOrder(pool)
       /\ pools' = pools \ {pool}
  /\ UNCHANGED <<pc, calls, others, environment>>

Exit ==
  /\ pools = {}
  /\ Main("closing", "exited")
  /\ UNCHANGED <<calls, pools, others, environment>>

(* The steps of main. *)
MainStep ==
  \/ OpenDB \/ Ping("main") \/ StartStatus
  \/ OpenRedis("cache", "queue") \/ OpenRedis("queue", "notify")
  \/ Notify \/ SpawnServer \/ StartWorkers
  \/ ServerFailed \/ ShutdownBegins
  \/ ShutdownTimesOut \/ Drained
  \/ WaitReturns \/ ClosePool \/ Exit

----------------------------------------------------------------------------
(* ListenAndServe; called after Shutdown it returns at once. *)
Listen ==
  /\ Alive
  /\ server = "spawned"
  /\ server' = IF closing THEN "refused" ELSE "listening"
  /\ UNCHANGED <<pc, calls, degraded, dropped, pools, closing, cancelled, worker, sig, environment>>

(* The port is taken; Accept fails, or Shutdown has closed the listener.   *)
ServeReturns ==
  /\ Alive
  /\ \/ server = "spawned" /\ server' = "refused"
     \/ server = "listening" /\ server' = "returned"
  /\ UNCHANGED <<pc, calls, degraded, dropped, pools, closing, cancelled, worker, sig, environment>>

(* A signal that finds the channel full is dropped. *)
QueueSignal == sig' = 1

(* Before signal.Notify, which a start that failed never gets to, a signal *)
(* ends the process.                                                       *)
Notified == pc["main"] \notin Starting \cup {"notify"} /\ (pc["main"] = "closing" => server # "none")

Signal ==
  /\ Alive
  /\ signals < MaxSignals
  /\ signals' = signals + 1
  /\ IF Notified THEN QueueSignal /\ UNCHANGED pc
                 ELSE Goto("main", "killed") /\ UNCHANGED sig
  /\ UNCHANGED <<calls, degraded, dropped, pools, server, closing, cancelled, worker, up, outages, seen>>

----------------------------------------------------------------------------
(* The workers.  The group's context ends with workerCancel, or when one   *)
(* of them has returned.                                                   *)
gctxDone == cancelled \/ \E w \in Workers : worker[w] = "stopped"

MoveWorker(w, from, to) ==
  /\ Alive
  /\ worker[w] = from
  /\ worker' = [worker EXCEPT ![w] = to]
  /\ UNCHANGED <<pc, calls, degraded, dropped, pools, server, closing, cancelled, sig, environment>>

(* The webhook worker looks at its context first; the relay's select may   *)
(* take a tick although the context is done.                               *)
WorkerTick(w) ==
  /\ w = "relay" \/ ~ gctxDone
  /\ MoveWorker(w, "idle", "busy")

(* Seeded bug: Run returns the error of process. *)
WorkerEndsTickOrReturns(w) ==
  MoveWorker(w, "busy", "idle") \/ MoveWorker(w, "busy", "stopped")

(* Every error of a tick is logged, and the loop goes on. *)
WorkerEndsTick(w) == MoveWorker(w, "busy", "idle")

WorkerStops(w) ==
  /\ gctxDone
  /\ MoveWorker(w, "idle", "stopped")

----------------------------------------------------------------------------
(* The health handler.  A connection outlives the listener that accepted   *)
(* it: its request may come when Accept has failed, or while Shutdown waits.*)
Arrive(h) ==
  /\ Alive
  /\ server \in {"listening", "returned"}
  /\ ~ closing \/ pc["main"] = "draining"
  /\ pc[h] = "none"
  /\ Goto(h, "ping")
  /\ seen' = [seen EXCEPT ![h] = {Look(x, up[x]) : x \in Parts}]
  /\ UNCHANGED <<calls, pools, others, signals, up, outages>>

(* Seeded bug: the status is that of the dependency checked last. *)
RateLast(h, ok) == degraded' = [degraded EXCEPT ![h] = ~ ok]

Rate(h, ok) == degraded' = [degraded EXCEPT ![h] = @ \/ ~ ok]

CheckPostgres(h) ==
  /\ \/ StatusOk(h) /\ Rate(h, TRUE)
     \/ StatusFails(h) /\ Rate(h, FALSE)
  /\ Goto(h, "queue")
  /\ Returns(h)
  /\ UNCHANGED <<dropped, pools, server, closing, cancelled, worker, sig, environment>>

CheckRedis(h, pool, next) ==
  /\ pc[h] = pool
  /\ \/ Reachable(pool) /\ Rate(h, TRUE)
     \/ (h \in late \/ ~ Reachable(pool)) /\ Rate(h, FALSE)
  /\ Goto(h, next)
  /\ Returns(h)
  /\ seen' = IF next = "done" THEN [seen EXCEPT ![h] = {}] ELSE seen
  /\ UNCHANGED <<dropped, pools, server, closing, cancelled, worker, sig, signals, up, outages>>

RequestStep(h) ==
  /\ Alive
  /\ \/ Ping(h) \/ CheckPostgres(h)
     \/ CheckRedis(h, "queue", "cache") \/ CheckRedis(h, "cache", "done")

----------------------------------------------------------------------------
Over == ~ Alive /\ UNCHANGED vars

Next ==
  \/ MainStep
  \/ Listen \/ ServeReturns
  \/ Signal
  \/ \E w \in Workers : WorkerTick(w) \/ WorkerEndsTick(w) \/ WorkerStops(w)
  \/ \E h \in Requests : Arrive(h) \/ RequestStep(h)
  \/ \E p \in Procs : Waits(p)
  \/ \E x \in Parts : Outage(x) \/ Recover(x)
  \/ Over

(* Once its context is cancelled a tick ends: its statements and its POST  *)
(* fail, and its Redis calls have timeouts.  Go's select chooses at random *)
(* among what is ready, so a done context is noticed in the end.  Nothing  *)
(* is assumed of requests, servers and pools.                              *)
Fairness ==
  /\ WF_vars(MainStep)
  /\ WF_vars(Listen)
  /\ \A w \in Workers : WF_vars(gctxDone /\ WorkerEndsTick(w)) /\ SF_vars(WorkerStops(w))

Spec == Init /\ [][Next]_vars

FairSpec == Spec /\ Fairness

----------------------------------------------------------------------------
(* The shape of the state. *)
TypeOK ==
  /\ pc \in [Procs -> Starting \cup Ended \cup
       {"none", "notify", "spawn", "group", "select", "draining", "waiting", "closing", "done"}]
  /\ pings \in [Procs -> 1..4]
  /\ late \subseteq Procs
  /\ degraded \in [Requests -> BOOLEAN]
  /\ dropped \subseteq Requests
  /\ pools \subseteq Pools
  /\ server \in {"none", "spawned", "listening", "refused", "returned"}
  /\ closing \in BOOLEAN /\ cancelled \in BOOLEAN
  /\ worker \in [Workers -> {"none", "idle", "busy", "stopped"}]
  /\ sig \in 0..1 /\ signals \in 0..MaxSignals
  /\ up \in [Parts -> BOOLEAN]
  /\ outages \in 0..MaxOutages
  /\ seen \in [Requests -> SUBSET (Parts \cup {"outage"})]

(* As long as a worker runs or a request is being answered, every pool is  *)
(* open, whatever made main stop.  Only a handler that Shutdown has waited *)
(* ten seconds for, and whose connection is gone, may call a closed pool.  *)
UsersHavePools ==
  (\E w \in Workers : worker[w] \in {"idle", "busy"}) \/ Active \ dropped # {} => pools = Pools

(* A process that ends by itself, also one that gives up while it starts,  *)
(* leaves no pool open and no worker running; and the only requests that   *)
(* it leaves without an answer are those it had given up after ten seconds.*)
ExitedIsClean ==
  pc["main"] = "exited" =>
    /\ pools = {} /\ Active \subseteq dropped
    /\ \A w \in Workers : worker[w] \in {"none", "stopped"}

(* A client that reads 200 can trust that every server answered and every  *)
(* pool had a free connection at some moment of its request, though not at *)
(* the same one; one that reads 503, that one of them did not, and never   *)
(* that main had closed a pool.                                            *)
HealthIsHonest ==
  [][\A h \in Requests \ dropped : h \in Active /\ pc'[h] = "done" =>
       IF degraded'[h] THEN "outage" \in seen[h] ELSE Parts \subseteq seen[h]]_vars

(* After its server has failed the process accepts no connection and does  *)
(* not end: its workers go on, and no signal stops it.                     *)
Orphaned == pc["main"] = "waiting" /\ ~ cancelled

OrphanStaysUp == [][Orphaned => Orphaned']_vars

(* A signal that main has been told of ends the process, unless the server *)
(* had failed before: a request that hangs, a worker in the middle of a    *)
(* tick and a second signal do not keep it from ending.                    *)
SignalStops ==
  (sig = 1 /\ pc["main"] \in {"spawn", "group", "select"}) ~> (pc["main"] = "exited" \/ Orphaned)

(* Starting ends, in a process that serves or in one that has exited,      *)
(* however long the database is away.                                      *)
StartEnds == <>(pc["main"] \notin Starting)
=============================================================================
