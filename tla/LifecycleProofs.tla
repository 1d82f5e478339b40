-------------------------- MODULE LifecycleProofs --------------------------
(***************************************************************************)
(* Starting and stopping, for any number of requests, outages and signals. *)
(***************************************************************************)
EXTENDS Lifecycle, TLAPS

Serving == {"ping", "sleep", "query", "queue", "cache"}
Running == {"group", "select", "draining", "waiting"}
Labels == Starting \cup Ended \cup Running \cup {"none", "notify", "spawn", "closing", "done"}

(* TypeOK, with the labels that belong to main and to the requests.        *)
Shape ==
  /\ TypeOK
  /\ pc["main"] \notin {"none", "done"}
  /\ \A h \in Requests : pc[h] \in Serving \cup {"none", "done"}

(* What main has opened when it has got to pc["main"]. *)
PoolsOpen ==
  /\ pc["main"] = "open" => pools = {}
  /\ pc["main"] \in {"ping", "sleep", "query", "cache"} => pools = {"db"}
  /\ pc["main"] = "queue" => pools = {"db", "cache"}
  /\ pc["main"] \in {"notify", "spawn"} \cup Running => pools = Pools
  /\ pc["main"] = "exited" => pools = {}

(* A worker stops for workerCancel only, and main ends after the workers.  *)
WorkersStop ==
  /\ pc["main"] \in Starting \cup {"notify", "spawn", "group", "killed"} =>
       \A w \in Workers : worker[w] = "none"
  /\ pc["main"] = "closing" /\ server = "none" => \A w \in Workers : worker[w] = "none"
  /\ pc["main"] \in {"closing", "exited"} =>
       \A w \in Workers : worker[w] \in {"none", "stopped"}
  /\ pc["main"] \in {"select", "draining", "waiting"} =>
       \A w \in Workers : worker[w] # "none"
  /\ (\E w \in Workers : worker[w] = "stopped") => cancelled

(* Requests come in until Shutdown returns.  Then each has its answer, or  *)
(* is one of those that main has given up.                                 *)
RequestsEnd ==
  /\ pc["main"] \in Running => server # "none"
  /\ cancelled <=> closing
  /\ cancelled => /\ server # "none"
                  /\ pc["main"] \in {"draining", "waiting", "closing", "exited"}
  /\ server # "none" /\ ~ closing => pc["main"] \in {"group", "select", "waiting"}
  /\ Active \ dropped # {} => pc["main"] \in Running
  /\ pc["main"] = "waiting" /\ cancelled => Active \subseteq dropped
  /\ dropped # {} => cancelled /\ pc["main"] \in {"waiting", "closing", "exited"}

Phases == PoolsOpen /\ WorkersStop /\ RequestsEnd

(* What a StatusCheck or a Ping found out is among what has been seen.     *)
HonestFor(h) ==
  /\ pc[h] = "none" => h \notin late
  /\ pc[h] \in {"none", "ping", "sleep", "query"} => degraded[h] = FALSE
  /\ pc[h] \in Serving => \A x \in Parts : Look(x, up[x]) \in seen[h]
  /\ pc[h] \in Serving /\ h \notin dropped =>
       /\ degraded[h] \/ h \in late \/ pc[h] = "sleep" => "outage" \in seen[h]
       /\ ~ degraded[h] /\ pc[h] \in {"queue", "cache"} => {"db", "postgres"} \subseteq seen[h]
       /\ ~ degraded[h] /\ pc[h] = "cache" => {"queue", "redis"} \subseteq seen[h]

Honest == \A h \in Requests : HonestFor(h)

LifecycleInv == Shape /\ Phases /\ Honest

----------------------------------------------------------------------------
LEMMA InitInv == Init => LifecycleInv
<1> SUFFICES ASSUME Init PROVE LifecycleInv
  OBVIOUS
<1> USE LifecycleAssumption DEF Init, Procs, Workers, Servers, Starting
<1>1. pc["main"] = "open" /\ \A h \in Requests : pc[h] = "none"
  OBVIOUS
<1>2. TypeOK
  <2>1. up \in [Parts -> BOOLEAN]
    BY DEF Parts
  <2>2. degraded \in [Requests -> BOOLEAN] /\ pings \in [Procs -> 1..4]
    OBVIOUS
  <2>3. worker \in [Workers -> {"none", "idle", "busy", "stopped"}]
    OBVIOUS
  <2>4. sig \in 0..1 /\ signals \in 0..MaxSignals /\ outages \in 0..MaxOutages
    OBVIOUS
  <2>5. seen \in [Requests -> SUBSET (Parts \cup {"outage"})]
    OBVIOUS
  <2>6. QED
    BY <2>1, <2>2, <2>3, <2>4, <2>5 DEF TypeOK, Ended
<1>3. Shape
  BY <1>1, <1>2 DEF Shape, Serving
<1>4. Active = {}
  BY <1>1 DEF Active
<1>5. Phases
  BY <1>1, <1>4 DEF Phases, PoolsOpen, WorkersStop, RequestsEnd, Running
<1>6. Honest
  BY <1>1 DEF Honest, HonestFor, Serving
<1>7. QED
  BY <1>3, <1>5, <1>6 DEF LifecycleInv

(* After the fourth ping the deadline is over before the sleep is, and a   *)
(* call that returns forgets its attempts.                                 *)
LEMMA CallsStep ==
  ASSUME pings \in [Procs -> 1..4], late \subseteq Procs, NEW p \in Procs,
         Ping(p) \/ Waits(p) \/ Returns(p) \/ UNCHANGED calls
  PROVE  pings' \in [Procs -> 1..4] /\ late' \subseteq Procs
<1>1. CASE PingAgain(p)
  <2>1. pings[p] # 4
    <3>1. SUFFICES ASSUME pings[p] = 4 PROVE FALSE
      OBVIOUS
    <3>2. SleepEnds(pings[p]) = 1000
      BY <3>1 DEF SleepEnds
    <3>3. QED
      BY <1>1, <3>2 DEF PingAgain, MayPingAgain
  <2>2. pings' = [pings EXCEPT ![p] = pings[p] + 1] /\ late' = late
    BY <1>1 DEF PingAgain
  <2>3. QED
    BY <2>1, <2>2
<1>2. CASE ~ PingAgain(p)
  <2>1. /\ pings' = pings \/ pings' = [pings EXCEPT ![p] = 1]
        /\ late' = late \/ late' = late \cup {p} \/ late' = late \ {p}
    BY <1>2 DEF Ping, PingOk, PingFails, Waits, Returns, calls
  <2>2. QED
    BY <2>1
<1>3. QED
  BY <1>1, <1>2

(* The steps of main that do not touch the workers or the requests. *)
MainAlone ==
  \/ OpenDB \/ Ping("main") \/ StartStatus
  \/ OpenRedis("cache", "queue") \/ OpenRedis("queue", "notify")
  \/ Notify \/ ServerFailed \/ Drained \/ WaitReturns \/ ClosePool \/ Exit

LEMMA ShapeStep == Shape /\ [Next]_vars => Shape'
<1> SUFFICES ASSUME Shape, [Next]_vars PROVE Shape'
  OBVIOUS
<1> USE LifecycleAssumption DEF Shape, TypeOK, Procs, Workers, Starting, Ended, Running, Serving,
        Labels
<1>0. pc \in [Procs -> Labels]
  OBVIOUS
<1>1. CASE MainAlone
  <2>1. Ping("main") \/ Returns("main") \/ UNCHANGED calls
    BY <1>1 DEF MainAlone, OpenDB, StartStatus, OpenRedis, Notify, ServerFailed, Drained,
                WaitReturns, ClosePool, Exit
  <2>2. pings' \in [Procs -> 1..4] /\ late' \subseteq Procs
    BY <2>1, CallsStep
  <2>3. pools' \subseteq Pools
    BY <1>1 DEF MainAlone, OpenDB, Ping, PingOk, PingFails, PingAgain, StartStatus, Pools,
                OpenRedis, Notify, ServerFailed, Drained, WaitReturns, ClosePool, Exit
  <2>4. PICK label \in Labels \ {"none", "done"} : pc' = [pc EXCEPT !["main"] = label]
    <3>1. CASE OpenDB \/ Ping("main") \/ StartStatus \/ Notify
      BY <3>1 DEF OpenDB, Ping, PingOk, PingFails, PingAgain, StartStatus, Notify, Goto, Main
    <3>2. CASE OpenRedis("cache", "queue") \/ OpenRedis("queue", "notify")
      BY <3>2 DEF OpenRedis, Goto
    <3>3. CASE ServerFailed \/ Drained \/ WaitReturns \/ Exit
      BY <3>3 DEF ServerFailed, Drained, WaitReturns, Exit, Goto, Main
    <3>4. CASE ClosePool
      <4>1. pc' = [pc EXCEPT !["main"] = pc["main"]] /\ pc["main"] \in Labels \ {"none", "done"}
        BY <1>0, <3>4 DEF ClosePool
      <4>2. QED
        BY <4>1
    <3>5. QED
      BY <1>1, <3>1, <3>2, <3>3, <3>4 DEF MainAlone
  <2>5. UNCHANGED <<others, environment>>
    BY <1>1 DEF MainAlone, OpenDB, Ping, PingOk, PingFails, PingAgain, StartStatus,
                OpenRedis, Notify, ServerFailed, Drained, WaitReturns, ClosePool, Exit
  <2>6. QED
    BY <1>0, <2>2, <2>3, <2>4, <2>5 DEF others, environment
<1>2. CASE SpawnServer
  BY <1>2 DEF SpawnServer, Main, Goto, environment, calls
<1>3. CASE StartWorkers
  BY <1>3 DEF StartWorkers, Main, Goto, environment, calls
<1>4. CASE ShutdownBegins
  BY <1>4 DEF ShutdownBegins, Main, Goto, environment, calls
<1>5. CASE ShutdownTimesOut
  <2>1. dropped' \subseteq Requests
    BY <1>5 DEF ShutdownTimesOut, Active
  <2>2. QED
    BY <1>5, <2>1 DEF ShutdownTimesOut, Main, Goto, environment, calls
<1>6. CASE Listen \/ ServeReturns
  <2>1. server' \in {"refused", "listening", "returned"}
    BY <1>6 DEF Listen, ServeReturns
  <2>2. QED
    BY <1>6, <2>1 DEF Listen, ServeReturns, environment, calls
<1>7. CASE Signal
  <2>1. signals' \in 0..MaxSignals /\ sig' \in 0..1
    BY <1>7 DEF Signal, QueueSignal
  <2>2. pc' = pc \/ pc' = [pc EXCEPT !["main"] = "killed"]
    BY <1>7 DEF Signal, Goto
  <2>3. /\ UNCHANGED <<calls, degraded, dropped, pools, server, closing, cancelled, worker>>
        /\ UNCHANGED <<up, outages, seen>>
    BY <1>7 DEF Signal
  <2>4. QED
    BY <2>1, <2>2, <2>3 DEF calls
<1>8. ASSUME NEW w \in Workers, WorkerTick(w) \/ WorkerEndsTick(w) \/ WorkerStops(w)
      PROVE Shape'
  BY <1>8 DEF WorkerTick, WorkerEndsTick, WorkerStops, MoveWorker, environment, calls
<1>9. ASSUME NEW h \in Requests, Arrive(h) PROVE Shape'
  <2>1. {Look(x, up[x]) : x \in Parts} \in SUBSET (Parts \cup {"outage"})
    BY DEF Look
  <2>2. seen' \in [Requests -> SUBSET (Parts \cup {"outage"})]
    BY <1>9, <2>1 DEF Arrive
  <2>3. pc' = [pc EXCEPT ![h] = "ping"] /\ UNCHANGED <<calls, pools, others, signals, up, outages>>
    BY <1>9 DEF Arrive, Goto
  <2>4. QED
    BY <2>2, <2>3 DEF others, calls
<1>10. ASSUME NEW h \in Requests, RequestStep(h) PROVE Shape'
  <2>1. Ping(h) \/ Returns(h)
    BY <1>10 DEF RequestStep, CheckPostgres, CheckRedis
  <2>2. pings' \in [Procs -> 1..4] /\ late' \subseteq Procs
    BY <2>1, CallsStep
  <2>3. degraded' \in [Requests -> BOOLEAN]
    <3>1. CASE UNCHANGED degraded
      BY <3>1
    <3>2. ASSUME NEW ok, Rate(h, ok) PROVE degraded' \in [Requests -> BOOLEAN]
      BY <3>2 DEF Rate
    <3>3. QED
      BY <1>10, <3>1, <3>2
         DEF RequestStep, Ping, PingOk, PingFails, PingAgain, CheckPostgres, CheckRedis, others
  <2>4. PICK label \in Serving \cup {"done"} : pc' = [pc EXCEPT ![h] = label]
    BY <1>10 DEF RequestStep, Ping, PingOk, PingFails, PingAgain, CheckPostgres, CheckRedis, Goto
  <2>5. seen' = seen \/ seen' = [seen EXCEPT ![h] = {}]
    BY <1>10 DEF RequestStep, Ping, PingOk, PingFails, PingAgain, CheckPostgres, CheckRedis,
                 environment
  <2>6. UNCHANGED <<dropped, pools, server, closing, cancelled, worker, sig, signals, up, outages>>
    BY <1>10 DEF RequestStep, Ping, PingOk, PingFails, PingAgain, CheckPostgres, CheckRedis,
                 others, environment
  <2>7. QED
    BY <1>0, <2>2, <2>3, <2>4, <2>5, <2>6
<1>11. ASSUME NEW p \in Procs, Waits(p) PROVE Shape'
  <2>1. pings' \in [Procs -> 1..4] /\ late' \subseteq Procs
    BY <1>11, CallsStep
  <2>2. UNCHANGED <<pc, pools, others, environment>>
    BY <1>11 DEF Waits
  <2>3. QED
    BY <2>1, <2>2 DEF others, environment
<1>12. ASSUME NEW x \in Parts, Outage(x) \/ Recover(x) PROVE Shape'
  <2>1. PICK on \in BOOLEAN : Turn(x, on)
    BY <1>12 DEF Outage, Recover
  <2>2. seen' \in [Requests -> SUBSET (Parts \cup {"outage"})]
    BY <2>1 DEF Turn, Look
  <2>3. up' \in [Parts -> BOOLEAN]
    BY <2>1 DEF Turn
  <2>4. outages' \in 0..MaxOutages
    <3>1. CASE Outage(x)
      BY <3>1 DEF Outage
    <3>2. CASE Recover(x)
      BY <3>2 DEF Recover
    <3>3. QED
      BY <1>12, <3>1, <3>2
  <2>5. UNCHANGED <<program, signals>>
    BY <2>1 DEF Turn
  <2>6. QED
    BY <2>2, <2>3, <2>4, <2>5 DEF program
<1>13. CASE UNCHANGED vars
  BY <1>13 DEF vars, program
<1>14. QED
  BY <1>1, <1>2, <1>3, <1>4, <1>5, <1>6, <1>7, <1>8, <1>9, <1>10, <1>11, <1>12, <1>13
     DEF Next, MainStep, MainAlone, Over

----------------------------------------------------------------------------
(* Whatever main is not part of leaves its label and the pools alone. *)
LEMMA PhasesStep == Shape /\ Phases /\ [Next]_vars => Phases'
<1> SUFFICES ASSUME Shape, Phases, [Next]_vars PROVE Phases'
  OBVIOUS
<1> USE LifecycleAssumption DEF Procs, Workers, Running, Starting, Ended
<1>0. /\ "main" \in Procs /\ pc \in [Procs -> Labels]
      /\ worker \in [Workers -> {"none", "idle", "busy", "stopped"}]
      /\ cancelled \in BOOLEAN /\ closing \in BOOLEAN
  BY DEF Shape, TypeOK, Labels
<1>1. CASE OpenDB \/ StartStatus \/ Ping("main") \/ OpenRedis("cache", "queue")
        \/ OpenRedis("queue", "notify") \/ Notify
  <2>1. UNCHANGED others /\ \A h \in Requests : pc'[h] = pc[h]
    BY <1>0, <1>1 DEF OpenDB, StartStatus, Ping, PingOk, PingFails, PingAgain, OpenRedis, Notify,
                      Main, Goto
  <2>2. Active' = Active
    BY <2>1 DEF Active
  <2>3. /\ pc["main"] \in Starting \cup {"notify"}
        /\ pc'["main"] \in Starting \cup {"notify", "spawn", "closing"}
    BY <1>0, <1>1 DEF OpenDB, StartStatus, StatusOk, StatusFails, Ping, PingOk, PingFails,
                      PingAgain, OpenRedis, Notify, Main, Goto
  <2>4. PoolsOpen'
    BY <1>0, <1>1 DEF Phases, PoolsOpen, OpenDB, StartStatus, StatusOk, StatusFails, Ping, PingOk,
                      PingFails, PingAgain, OpenRedis, Notify, Main, Goto, Pools
  <2>5. WorkersStop'
    BY <2>1, <2>3 DEF Phases, WorkersStop, others
  <2>6. RequestsEnd'
    BY <2>1, <2>2, <2>3 DEF Phases, RequestsEnd, others
  <2>7. QED
    BY <2>4, <2>5, <2>6 DEF Phases
<1>2. CASE SpawnServer \/ StartWorkers \/ ServerFailed
  <2>1. (\A h \in Requests : pc'[h] = pc[h]) /\ UNCHANGED <<pools, closing, cancelled, dropped>>
    BY <1>0, <1>2 DEF SpawnServer, StartWorkers, ServerFailed, Main, Goto, others
  <2>2. Active' = Active
    BY <2>1 DEF Active
  <2>3. \/ pc["main"] = "spawn" /\ pc'["main"] = "group" /\ server' = "spawned" /\ worker' = worker
        \/ /\ pc["main"] = "group" /\ pc'["main"] = "select" /\ server' = server
           /\ worker' = [w \in Workers |-> "idle"]
        \/ /\ pc["main"] = "select" /\ pc'["main"] = "waiting"
           /\ server' = server /\ worker' = worker
    BY <1>0, <1>2 DEF SpawnServer, StartWorkers, ServerFailed, Main, Goto, others
  <2>4. PoolsOpen'
    BY <2>1, <2>3 DEF Phases, PoolsOpen
  <2>5. WorkersStop'
    BY <2>1, <2>3 DEF Phases, WorkersStop
  <2>6. RequestsEnd'
    BY <2>1, <2>2, <2>3 DEF Phases, RequestsEnd
  <2>7. QED
    BY <2>4, <2>5, <2>6 DEF Phases
<1>3. CASE ShutdownBegins \/ Drained \/ WaitReturns
  <2>1. (\A h \in Requests : pc'[h] = pc[h]) /\ UNCHANGED <<pools, dropped, server, worker>>
    BY <1>0, <1>3 DEF ShutdownBegins, Drained, WaitReturns, Main, Goto, others
  <2>2. Active' = Active
    BY <2>1 DEF Active
  <2>3. \/ pc["main"] = "select" /\ pc'["main"] = "draining" /\ cancelled' /\ closing'
        \/ /\ pc["main"] = "draining" /\ pc'["main"] = "waiting" /\ Active = {}
           /\ UNCHANGED <<cancelled, closing>>
        \/ /\ pc["main"] = "waiting" /\ pc'["main"] = "closing"
           /\ \A w \in Workers : worker[w] = "stopped"
           /\ UNCHANGED <<cancelled, closing>>
    BY <1>0, <1>3 DEF ShutdownBegins, Drained, WaitReturns, Main, Goto, others
  <2>4. pc'["main"] = "closing" => cancelled /\ closing
    BY <2>3 DEF Phases, WorkersStop, RequestsEnd
  <2>5. PoolsOpen'
    BY <2>1, <2>3 DEF Phases, PoolsOpen
  <2>6. WorkersStop'
    BY <2>1, <2>3, <2>4 DEF Phases, WorkersStop, RequestsEnd
  <2>7. RequestsEnd'
    BY <2>1, <2>2, <2>3, <2>4 DEF Phases, RequestsEnd
  <2>8. QED
    BY <2>5, <2>6, <2>7 DEF Phases
<1>4. CASE ShutdownTimesOut
  <2>1. /\ pc["main"] = "draining" /\ pc'["main"] = "waiting" /\ dropped' = Active
        /\ \A h \in Requests : pc'[h] = pc[h]
        /\ UNCHANGED <<pools, server, closing, cancelled, worker>>
    BY <1>0, <1>4 DEF ShutdownTimesOut, Main, Goto
  <2>2. Active' = Active
    BY <2>1 DEF Active
  <2>3. cancelled
    BY <2>1 DEF Phases, RequestsEnd
  <2>4. QED
    BY <2>1, <2>2, <2>3 DEF Phases, PoolsOpen, WorkersStop, RequestsEnd
<1>5. CASE ClosePool \/ Exit
  <2>1. /\ pc["main"] = "closing" /\ pc'["main"] \in {"closing", "exited"}
        /\ \A h \in Requests : pc'[h] = pc[h]
    BY <1>0, <1>5 DEF ClosePool, Exit, Main, Goto
  <2>2. Active' = Active
    BY <2>1 DEF Active
  <2>3. pc'["main"] = "exited" => pools' = {}
    BY <1>0, <1>5 DEF ClosePool, Exit, Main, Goto
  <2>4. UNCHANGED others
    BY <1>5 DEF ClosePool, Exit
  <2>5. QED
    BY <2>1, <2>2, <2>3, <2>4 DEF Phases, PoolsOpen, WorkersStop, RequestsEnd, others
<1>6. CASE Listen \/ ServeReturns
  <2>1. /\ server # "none" /\ server' # "none"
        /\ UNCHANGED <<pc, dropped, pools, closing, cancelled, worker>>
    BY <1>6 DEF Listen, ServeReturns
  <2>2. Active' = Active
    BY <2>1 DEF Active
  <2>3. QED
    BY <2>1, <2>2 DEF Phases, PoolsOpen, WorkersStop, RequestsEnd
<1>7. CASE Signal
  <2>1. \A h \in Requests : pc'[h] = pc[h]
    BY <1>0, <1>7 DEF Signal, Goto
  <2>2. Active' = Active
    BY <2>1 DEF Active
  <2>3. \/ pc'["main"] = pc["main"]
        \/ /\ pc["main"] \in Starting \cup {"notify"} \/ (pc["main"] = "closing" /\ server = "none")
           /\ pc'["main"] = "killed"
    BY <1>0, <1>7 DEF Signal, Notified, Goto
  <2>4. UNCHANGED <<dropped, pools, server, closing, cancelled, worker>>
    BY <1>7 DEF Signal
  <2>5. pc'["main"] = pc["main"] => Phases'
    BY <2>2, <2>4 DEF Phases, PoolsOpen, WorkersStop, RequestsEnd
  <2>6. CASE pc'["main"] = "killed" /\ pc["main"] # "killed"
    <3>1. \A w \in Workers : worker[w] = "none"
      BY <2>3, <2>6 DEF Phases, WorkersStop
    <3>2. server = "none" \/ closing
      BY <2>3, <2>6 DEF Phases, RequestsEnd
    <3>3. ~ cancelled
      BY <2>3, <2>6 DEF Phases, RequestsEnd
    <3>4. QED
      BY <2>2, <2>3, <2>4, <2>6, <3>1, <3>2, <3>3
         DEF Phases, PoolsOpen, WorkersStop, RequestsEnd
  <2>7. QED
    BY <2>3, <2>5, <2>6
<1>8. ASSUME NEW w \in Workers, WorkerTick(w) \/ WorkerEndsTick(w) \/ WorkerStops(w)
      PROVE Phases'
  <2>1. UNCHANGED <<pc, dropped, pools, server, closing, cancelled>>
    BY <1>8 DEF WorkerTick, WorkerEndsTick, WorkerStops, MoveWorker
  <2>2. Active' = Active
    BY <2>1 DEF Active
  <2>3. worker[w] \in {"idle", "busy"} /\ worker' = [worker EXCEPT ![w] = worker'[w]]
        /\ worker'[w] \in {"idle", "busy", "stopped"}
    BY <1>0, <1>8 DEF WorkerTick, WorkerEndsTick, WorkerStops, MoveWorker
  <2>4. worker'[w] = "stopped" => cancelled
    BY <1>0, <1>8 DEF WorkerTick, WorkerEndsTick, WorkerStops, MoveWorker, gctxDone, Phases,
                      WorkersStop
  <2>5. WorkersStop'
    BY <1>0, <2>1, <2>3, <2>4 DEF Phases, WorkersStop
  <2>6. QED
    BY <2>1, <2>2, <2>5 DEF Phases, PoolsOpen, RequestsEnd
<1>9. ASSUME NEW h \in Requests, Arrive(h) PROVE Phases'
  <2>1. pc'["main"] = pc["main"]
    BY <1>0, <1>9 DEF Arrive, Goto
  <2>2. pc["main"] \in Running /\ ~ (pc["main"] = "waiting" /\ cancelled)
    BY <1>9 DEF Arrive, Phases, RequestsEnd
  <2>3. UNCHANGED <<dropped, pools, server, closing, cancelled, worker>>
    BY <1>9 DEF Arrive, others
  <2>4. QED
    BY <2>1, <2>2, <2>3 DEF Phases, PoolsOpen, WorkersStop, RequestsEnd
<1>10. ASSUME NEW h \in Requests, RequestStep(h) PROVE Phases'
  <2>1. /\ pc'["main"] = pc["main"] /\ h \in Active
        /\ \A g \in Requests : g = h \/ pc'[g] = pc[g]
    BY <1>0, <1>10 DEF RequestStep, Ping, PingOk, PingFails, PingAgain, CheckPostgres, CheckRedis,
                       StatusOk, StatusFails, Goto, Active
  <2>2. Active' \subseteq Active
    BY <2>1 DEF Active
  <2>3. UNCHANGED <<dropped, pools, server, closing, cancelled, worker>>
    BY <1>10 DEF RequestStep, Ping, PingOk, PingFails, PingAgain, CheckPostgres, CheckRedis, others
  <2>4. QED
    BY <2>1, <2>2, <2>3 DEF Phases, PoolsOpen, WorkersStop, RequestsEnd
<1>11. CASE (\E p \in Procs : Waits(p)) \/ UNCHANGED vars
         \/ \E x \in Parts : Outage(x) \/ Recover(x)
  <2>1. UNCHANGED <<pc, dropped, pools, server, closing, cancelled, worker>>
    BY <1>11 DEF Waits, others, Outage, Recover, Turn, program, vars
  <2>2. Active' = Active
    BY <2>1 DEF Active
  <2>3. QED
    BY <2>1, <2>2 DEF Phases, PoolsOpen, WorkersStop, RequestsEnd
<1>12. QED
  BY <1>1, <1>2, <1>3, <1>4, <1>5, <1>6, <1>7, <1>8, <1>9, <1>10, <1>11
     DEF Next, MainStep, Over

----------------------------------------------------------------------------
(* A step that is none of h's own and changes no part. *)
LEMMA HonestKept ==
  ASSUME NEW h \in Requests, HonestFor(h), up' = up, seen'[h] = seen[h], pc'[h] = pc[h],
         degraded'[h] = degraded[h], h \in late' <=> h \in late, dropped \subseteq dropped'
  PROVE  HonestFor(h)'
BY DEF HonestFor, Look, Serving, Parts

(* main, the server, the signals and the workers keep off the requests.    *)
LEMMA NotOfRequests ==
  ASSUME Shape, Phases, NEW h \in Requests,
         \/ MainStep \/ Listen \/ ServeReturns \/ Signal \/ UNCHANGED vars
         \/ \E w \in Workers : WorkerTick(w) \/ WorkerEndsTick(w) \/ WorkerStops(w)
  PROVE  /\ UNCHANGED <<up, seen, degraded>> /\ pc'[h] = pc[h]
         /\ h \in late' <=> h \in late
         /\ dropped \subseteq dropped'
<1> USE LifecycleAssumption
<1>0. /\ h # "main" /\ pc \in [Procs -> Labels] /\ h \in Procs
  BY DEF Shape, TypeOK, Labels, Running, Procs
<1>1. CASE MainAlone
  <2>1. UNCHANGED <<up, seen, degraded, dropped>> /\ pc'[h] = pc[h]
    BY <1>0, <1>1
       DEF MainAlone, OpenDB, StartStatus, Ping, PingOk, PingFails, PingAgain, OpenRedis, Notify,
           ServerFailed, Drained, WaitReturns, ClosePool, Exit, Main, Goto, others, environment
  <2>2. late' = late \/ late' = late \ {"main"}
    BY <1>1
       DEF MainAlone, OpenDB, StartStatus, Ping, PingOk, PingFails, PingAgain, OpenRedis, Notify,
           ServerFailed, Drained, WaitReturns, ClosePool, Exit, Returns, calls
  <2>3. QED
    BY <1>0, <2>1, <2>2
<1>2. CASE SpawnServer \/ StartWorkers \/ ShutdownBegins
  BY <1>0, <1>2 DEF SpawnServer, StartWorkers, ShutdownBegins, Main, Goto, calls, environment
<1>3. CASE ShutdownTimesOut
  <2>1. UNCHANGED <<up, seen, degraded, late>> /\ pc'[h] = pc[h] /\ pc["main"] = "draining"
    BY <1>0, <1>3 DEF ShutdownTimesOut, Main, Goto, calls, environment
  <2>2. dropped = {}
    BY <2>1 DEF Phases, RequestsEnd
  <2>3. QED
    BY <2>1, <2>2
<1>4. CASE Listen \/ ServeReturns
  BY <1>4 DEF Listen, ServeReturns, environment, calls
<1>5. CASE Signal
  BY <1>0, <1>5 DEF Signal, Goto, calls
<1>6. CASE \E w \in Workers : WorkerTick(w) \/ WorkerEndsTick(w) \/ WorkerStops(w)
  BY <1>6 DEF WorkerTick, WorkerEndsTick, WorkerStops, MoveWorker, environment, calls
<1>7. CASE UNCHANGED vars
  BY <1>7 DEF vars, program
<1>8. QED
  BY <1>1, <1>2, <1>3, <1>4, <1>5, <1>6, <1>7 DEF MainStep, MainAlone

(* A request that is not dropped finds the pools open: whatever it cannot  *)
(* reach is a part that does not answer.                                   *)
LEMMA OutageSeen ==
  ASSUME Shape, Phases, NEW h \in Requests, HonestFor(h), h \in Active \ dropped,
         NEW pool \in Pools
  PROVE  /\ ~ Reachable(pool) => "outage" \in seen[h]
         /\ Reachable(pool) => {pool, ServerOf(pool)} \subseteq seen[h]
<1>1. pools = Pools
  BY DEF Phases, RequestsEnd, PoolsOpen
<1>2. pc[h] \in Serving /\ up \in [Parts -> BOOLEAN]
  BY DEF Active, Serving, Shape, TypeOK
<1>3. pool \in Parts /\ ServerOf(pool) \in Parts
  BY DEF ServerOf, Parts, Servers
<1>4. Look(pool, up[pool]) \in seen[h] /\ Look(ServerOf(pool), up[ServerOf(pool)]) \in seen[h]
  BY <1>2, <1>3 DEF HonestFor
<1>5. QED
  BY <1>1, <1>2, <1>3, <1>4 DEF Reachable, Answers, Look

LEMMA HonestRequest ==
  ASSUME Shape, Phases, Honest, NEW h \in Requests, RequestStep(h)
  PROVE  HonestFor(h)'
<1> USE LifecycleAssumption
<1>0. /\ h \in Procs /\ pc \in [Procs -> Labels] /\ HonestFor(h) /\ up \in [Parts -> BOOLEAN]
      /\ degraded \in [Requests -> BOOLEAN] /\ seen \in [Requests -> SUBSET (Parts \cup {"outage"})]
  BY DEF Shape, TypeOK, Labels, Running, Procs, Honest
<1>1. pc[h] \in Serving /\ h \in Active
  BY DEF RequestStep, Ping, PingOk, PingFails, PingAgain, CheckPostgres, CheckRedis,
         StatusOk, StatusFails, Active, Serving
<1>2. up' = up /\ dropped' = dropped
  BY DEF RequestStep, Ping, PingOk, PingFails, PingAgain, CheckPostgres, CheckRedis, others,
         environment
<1>3. CASE h \in dropped
  <2>1. pc'[h] = "done" \/ (pc'[h] \in Serving /\ seen' = seen)
    BY <1>0 DEF RequestStep, Ping, PingOk, PingFails, PingAgain, CheckPostgres, CheckRedis, Goto,
                Serving, environment
  <2>2. pc'[h] \in {"ping", "sleep", "query"} => degraded'[h] = FALSE
    BY <1>0 DEF RequestStep, Ping, PingOk, PingFails, PingAgain, CheckPostgres, CheckRedis, Goto,
                others, HonestFor
  <2>3. QED
    BY <1>0, <1>1, <1>2, <1>3, <2>1, <2>2 DEF HonestFor, Look, Serving
<1>4. CASE h \notin dropped
  <2>1. CASE Ping(h)
    <3>1. /\ pc[h] \in {"ping", "sleep"} /\ pc'[h] \in {"ping", "sleep", "query"}
          /\ UNCHANGED <<late, degraded, seen>>
      BY <1>0, <2>1 DEF Ping, PingOk, PingFails, PingAgain, Goto, calls, others, environment
    <3>2. pc'[h] = "sleep" => h \in late \/ ~ Reachable("db")
      BY <1>0, <2>1 DEF Ping, PingOk, PingFails, PingAgain, Goto
    <3>3. pc'[h] = "sleep" => "outage" \in seen[h]
      BY <1>0, <1>1, <1>4, <3>2, OutageSeen DEF HonestFor, Pools
    <3>4. QED
      BY <1>0, <1>1, <1>2, <1>4, <3>1, <3>3 DEF HonestFor, Look, Serving
  <2>2. CASE CheckPostgres(h)
    <3>1. /\ pc[h] \in {"sleep", "query"} /\ pc'[h] = "queue" /\ seen' = seen /\ h \notin late'
          /\ degraded[h] = FALSE
      BY <1>0, <2>2 DEF CheckPostgres, StatusOk, StatusFails, Goto, Returns, environment, HonestFor
    <3>2. degraded'[h] = FALSE => Reachable("db")
      BY <1>0, <2>2, <3>1 DEF CheckPostgres, StatusOk, Rate
    <3>3. degraded'[h] \in BOOLEAN
      BY <1>0, <2>2, <3>1 DEF CheckPostgres, Rate
    <3>4. degraded'[h] = TRUE => StatusFails(h)
      BY <1>0, <2>2, <3>1 DEF CheckPostgres, Rate
    <3>5. degraded'[h] = TRUE => pc[h] = "sleep" \/ h \in late \/ ~ Reachable("db")
      BY <3>4 DEF StatusFails
    <3>6. degraded'[h] = TRUE => "outage" \in seen[h]
      BY <1>0, <1>1, <1>4, <3>5, OutageSeen DEF HonestFor, Pools
    <3>7. degraded'[h] = FALSE => {"db", "postgres"} \subseteq seen[h]
      BY <1>0, <1>1, <1>4, <3>2, OutageSeen DEF ServerOf, Pools
    <3>8. QED
      BY <1>0, <1>1, <1>2, <1>4, <3>1, <3>3, <3>6, <3>7 DEF HonestFor, Look, Serving
  <2>3. CASE CheckRedis(h, "queue", "cache")
    <3>1. pc[h] = "queue" /\ pc'[h] = "cache" /\ seen' = seen /\ h \notin late'
      BY <1>0, <2>3 DEF CheckRedis, Goto, Returns
    <3>2. /\ degraded'[h] \in BOOLEAN
          /\ degraded'[h] = FALSE => degraded[h] = FALSE /\ Reachable("queue")
          /\ degraded'[h] = TRUE => degraded[h] \/ h \in late \/ ~ Reachable("queue")
      BY <1>0, <2>3 DEF CheckRedis, Rate
    <3>3. degraded'[h] = TRUE => "outage" \in seen[h]
      BY <1>0, <1>1, <1>4, <3>2, OutageSeen DEF HonestFor, Pools
    <3>4. degraded'[h] = FALSE => {"db", "postgres", "queue", "redis"} \subseteq seen[h]
      <4>1. degraded'[h] = FALSE => {"db", "postgres"} \subseteq seen[h]
        BY <1>0, <1>1, <1>4, <3>1, <3>2 DEF HonestFor
      <4>2. degraded'[h] = FALSE => {"queue", "redis"} \subseteq seen[h]
        BY <1>0, <1>1, <1>4, <3>2, OutageSeen DEF ServerOf, Pools
      <4>3. QED
        BY <4>1, <4>2
    <3>5. QED
      BY <1>0, <1>1, <1>2, <1>4, <3>1, <3>2, <3>3, <3>4 DEF HonestFor, Look, Serving
  <2>4. CASE CheckRedis(h, "cache", "done")
    <3>1. pc'[h] = "done"
      BY <1>0, <2>4 DEF CheckRedis, Goto
    <3>2. QED
      BY <3>1 DEF HonestFor, Serving
  <2>5. QED
    BY <2>1, <2>2, <2>3, <2>4 DEF RequestStep
<1>5. QED
  BY <1>3, <1>4

LEMMA HonestStep == Shape /\ Phases /\ Honest /\ [Next]_vars => Honest'
<1> SUFFICES ASSUME Shape, Phases, Honest, [Next]_vars, NEW h \in Requests PROVE HonestFor(h)'
  BY DEF Honest
<1> USE LifecycleAssumption
<1>0. /\ HonestFor(h) /\ h \in Procs /\ h # "main" /\ pc \in [Procs -> Labels]
      /\ up \in [Parts -> BOOLEAN] /\ degraded \in [Requests -> BOOLEAN]
      /\ seen \in [Requests -> SUBSET (Parts \cup {"outage"})]
  BY DEF Shape, TypeOK, Labels, Running, Procs, Honest
<1>1. CASE \/ MainStep \/ Listen \/ ServeReturns \/ Signal \/ UNCHANGED vars
           \/ \E w \in Workers : WorkerTick(w) \/ WorkerEndsTick(w) \/ WorkerStops(w)
  <2>1. /\ UNCHANGED <<up, seen, degraded>> /\ pc'[h] = pc[h]
        /\ h \in late' <=> h \in late
        /\ dropped \subseteq dropped'
    BY <1>1, NotOfRequests
  <2>2. QED
    BY <1>0, <2>1, HonestKept
<1>2. ASSUME NEW g \in Requests, Arrive(g), g # h PROVE HonestFor(h)'
  <2>1. /\ up' = up /\ late' = late /\ dropped' = dropped /\ degraded' = degraded
        /\ pc'[h] = pc[h] /\ seen'[h] = seen[h]
    BY <1>0, <1>2 DEF Arrive, Goto, calls, others
  <2>2. QED
    BY <1>0, <2>1, HonestKept
<1>3. CASE Arrive(h)
  <2>1. /\ pc[h] = "none" /\ pc'[h] = "ping" /\ seen'[h] = {Look(x, up[x]) : x \in Parts}
        /\ up' = up /\ late' = late /\ degraded' = degraded
    BY <1>0, <1>3 DEF Arrive, Goto, calls, others
  <2>2. QED
    BY <1>0, <2>1 DEF HonestFor, Look
<1>4. ASSUME NEW g \in Requests, RequestStep(g), g # h PROVE HonestFor(h)'
  <2>1. up' = up /\ dropped' = dropped /\ pc'[h] = pc[h] /\ seen'[h] = seen[h]
    BY <1>0, <1>4 DEF RequestStep, Ping, PingOk, PingFails, PingAgain, CheckPostgres, CheckRedis,
                      Goto, others, environment
  <2>2. degraded'[h] = degraded[h]
    BY <1>0, <1>4 DEF RequestStep, Ping, PingOk, PingFails, PingAgain, CheckPostgres, CheckRedis,
                      Rate, others
  <2>3. late' = late \/ late' = late \ {g}
    BY <1>4 DEF RequestStep, Ping, PingOk, PingFails, PingAgain, CheckPostgres, CheckRedis, Returns,
                calls
  <2>4. QED
    BY <1>0, <1>4, <2>1, <2>2, <2>3, HonestKept
<1>5. CASE RequestStep(h)
  BY <1>5, HonestRequest
<1>6. ASSUME NEW p \in Procs, Waits(p), p # h PROVE HonestFor(h)'
  <2>1. UNCHANGED <<pc, up, seen, degraded, dropped>> /\ late' = late \cup {p}
    BY <1>6 DEF Waits, others, environment
  <2>2. QED
    BY <1>0, <1>6, <2>1, HonestKept
<1>7. CASE Waits(h)
  <2>1. UNCHANGED <<pc, up, seen, degraded, dropped>> /\ late' = late \cup {h}
    BY <1>7 DEF Waits, others, environment
  <2>2. pc[h] \in Serving
    BY <1>0, <1>7 DEF Waits, Shape, Serving
  <2>3. PICK pool \in Pools : ~ Answers(pool)
    BY <1>7 DEF Waits, Pools
  <2>4. PICK x \in Parts : up[x] = FALSE
    BY <1>0, <2>3 DEF Answers, ServerOf, Parts, Servers
  <2>5. "outage" \in seen[h]
    BY <1>0, <2>2, <2>4 DEF HonestFor, Look
  <2>6. QED
    BY <1>0, <2>1, <2>2, <2>5 DEF HonestFor, Look, Serving
<1>8. ASSUME NEW x \in Parts, Outage(x) \/ Recover(x) PROVE HonestFor(h)'
  <2>1. PICK on \in BOOLEAN : Turn(x, on)
    BY <1>8 DEF Outage, Recover
  <2>2. UNCHANGED <<pc, late, degraded, dropped>>
    BY <2>1 DEF Turn, program
  <2>3. \A y \in Parts : up'[y] = IF y = x THEN on ELSE up[y]
    BY <1>0, <2>1 DEF Turn
  <2>4. seen[h] \subseteq seen'[h] /\ (h \in Active => Look(x, on) \in seen'[h])
    BY <1>0, <2>1 DEF Turn
  <2>5. pc[h] \in Serving => h \in Active
    BY DEF Serving, Active
  <2>6. pc'[h] \in Serving => \A y \in Parts : Look(y, up'[y]) \in seen'[h]
    BY <1>0, <2>2, <2>3, <2>4, <2>5 DEF HonestFor
  <2>7. QED
    BY <1>0, <2>2, <2>4, <2>6 DEF HonestFor, Look
<1>9. QED
  BY <1>1, <1>2, <1>3, <1>4, <1>5, <1>6, <1>7, <1>8 DEF Next, Over

----------------------------------------------------------------------------
(* The inductive invariant of the process: what main has opened by then,   *)
(* who still runs and which requests are left in each of its phases, also  *)
(* those whose handlers outlive Shutdown.                                  *)
THEOREM LifecycleInvHolds == Spec => []LifecycleInv
<1>1. LifecycleInv /\ [Next]_vars => LifecycleInv'
  BY ShapeStep, PhasesStep, HonestStep DEF LifecycleInv
<1>2. QED
  BY InitInv, <1>1, PTL DEF Spec

(* The state keeps its shape: the channel of signal.Notify never holds two *)
(* signals, and a StatusCheck never pings a fifth time.                    *)
THEOREM TypeOKHolds == Spec => []TypeOK
<1>1. LifecycleInv => TypeOK
  BY DEF LifecycleInv, Shape
<1>2. QED
  BY LifecycleInvHolds, <1>1, PTL

(* Only a request that Shutdown has given up can meet a pool that main has *)
(* closed: workers and all other requests are gone before the first Close. *)
THEOREM UsersHavePoolsHolds == Spec => []UsersHavePools
<1>1. LifecycleInv => UsersHavePools
  <2>1. SUFFICES ASSUME LifecycleInv,
                        (\E w \in Workers : worker[w] \in {"idle", "busy"}) \/ Active \ dropped # {}
                 PROVE  pools = Pools
    BY DEF UsersHavePools
  <2>2. pc["main"] \in Running
    BY <2>1 DEF LifecycleInv, Shape, TypeOK, Procs, Labels, Phases, WorkersStop, RequestsEnd,
                Running, Ended
  <2>3. QED
    BY <2>1, <2>2 DEF LifecycleInv, Phases, PoolsOpen
<1>2. QED
  BY LifecycleInvHolds, <1>1, PTL

(* main leaves no pool and no worker behind when it returns, and no        *)
(* request but those it had given up after ten seconds.                    *)
THEOREM ExitedIsCleanHolds == Spec => []ExitedIsClean
<1>1. LifecycleInv => ExitedIsClean
  BY DEF LifecycleInv, Phases, PoolsOpen, WorkersStop, RequestsEnd, ExitedIsClean, Running
<1>2. QED
  BY LifecycleInvHolds, <1>1, PTL

(* The health answer is about something that was so while it was made.     *)
THEOREM HealthIsHonestHolds == Spec => HealthIsHonest
<1>1. LifecycleInv /\ [Next]_vars =>
        \A h \in Requests \ dropped : h \in Active /\ pc'[h] = "done" =>
          IF degraded'[h] THEN "outage" \in seen[h] ELSE Parts \subseteq seen[h]
  <2>1. SUFFICES ASSUME LifecycleInv, [Next]_vars, NEW h \in Requests, h \notin dropped,
                        h \in Active, pc'[h] = "done"
                 PROVE  IF degraded'[h] THEN "outage" \in seen[h] ELSE Parts \subseteq seen[h]
    OBVIOUS
  <2>2. /\ Shape /\ Phases /\ HonestFor(h) /\ h \in Procs /\ h # "main" /\ pc[h] # "done"
        /\ pc \in [Procs -> Labels] /\ degraded \in [Requests -> BOOLEAN]
    BY <2>1, LifecycleAssumption
       DEF LifecycleInv, Honest, Procs, Active, Shape, TypeOK, Labels, Running
  <2>3. CheckRedis(h, "cache", "done")
    <3>1. ~ (\/ MainStep \/ Listen \/ ServeReturns \/ Signal \/ UNCHANGED vars
             \/ \E w \in Workers : WorkerTick(w) \/ WorkerEndsTick(w) \/ WorkerStops(w))
      BY <2>1, <2>2, NotOfRequests
    <3>2. ~ ((\E p \in Procs : Waits(p)) \/ \E x \in Parts : Outage(x) \/ Recover(x))
      BY <2>1, <2>2 DEF Waits, Outage, Recover, Turn, program
    <3>3. \A g \in Requests : ~ Arrive(g) /\ (RequestStep(g) => g = h)
      BY <2>1, <2>2 DEF Arrive, RequestStep, Ping, PingOk, PingFails, PingAgain, CheckPostgres,
                        CheckRedis, Goto
    <3>4. RequestStep(h)
      BY <2>1, <3>1, <3>2, <3>3 DEF Next, Over
    <3>5. QED
      BY <2>1, <2>2, <3>4 DEF RequestStep, Ping, PingOk, PingFails, PingAgain, CheckPostgres,
                              CheckRedis, Goto
  <2>4. /\ degraded'[h] \in BOOLEAN
        /\ degraded'[h] = FALSE => degraded[h] = FALSE /\ Reachable("cache")
        /\ degraded'[h] = TRUE => degraded[h] \/ h \in late \/ ~ Reachable("cache")
        /\ pc[h] = "cache"
    BY <2>2, <2>3 DEF CheckRedis, Rate
  <2>5. degraded'[h] = TRUE => "outage" \in seen[h]
    BY <2>1, <2>2, <2>4, OutageSeen DEF HonestFor, Pools, Serving
  <2>6. degraded'[h] = FALSE => {"db", "postgres", "queue", "redis"} \subseteq seen[h]
    BY <2>1, <2>2, <2>4 DEF HonestFor, Serving
  <2>7. degraded'[h] = FALSE => "cache" \in seen[h]
    BY <2>1, <2>2, <2>4, OutageSeen DEF Pools
  <2>8. QED
    BY <2>4, <2>5, <2>6, <2>7 DEF Parts, Servers, Pools
<1>2. QED
  BY LifecycleInvHolds, <1>1, PTL DEF Spec, HealthIsHonest

(* Once the server has failed no step of anybody ends the process. *)
THEOREM OrphanStaysUpHolds == Spec => OrphanStaysUp
<1>1. LifecycleInv /\ [Next]_vars => (Orphaned => Orphaned')
  <2> SUFFICES ASSUME LifecycleInv, Orphaned, [Next]_vars PROVE Orphaned'
    OBVIOUS
  <2>1. \A w \in Workers : worker[w] # "stopped"
    BY DEF LifecycleInv, Phases, WorkersStop, Orphaned
  <2>2. pc["main"] = "waiting" /\ ~ cancelled /\ "main" \in Procs /\ DOMAIN pc = Procs
    BY DEF Orphaned, Procs, LifecycleInv, Shape, TypeOK
  <2>3. ~ WaitReturns
    BY <2>1 DEF WaitReturns, Workers
  <2>4. pc'["main"] = "waiting"
    BY <2>2, <2>3, LifecycleAssumption
       DEF Next, MainStep, OpenDB, Ping, PingOk, PingFails, PingAgain, StartStatus, StatusOk,
           StatusFails, OpenRedis, Notify, SpawnServer, StartWorkers, ServerFailed, ShutdownBegins, ShutdownTimesOut,
           Drained, ClosePool, Exit, Main, Goto, Listen, ServeReturns, Signal, Starting, WorkerTick,
           WorkerEndsTick, WorkerStops, MoveWorker, Arrive, RequestStep, CheckPostgres, CheckRedis,
           Waits, Notified, Outage, Recover, Turn, program, Over, vars, Ended
  <2>5. cancelled' = cancelled
    BY <2>2
       DEF Next, MainStep, OpenDB, Ping, PingOk, PingFails, PingAgain, StartStatus, OpenRedis,
           Notify, SpawnServer, StartWorkers, ServerFailed, ShutdownBegins, ShutdownTimesOut,
           Drained, WaitReturns, ClosePool, Exit, Main, Listen, ServeReturns, Signal, WorkerTick,
           WorkerEndsTick, WorkerStops, MoveWorker, Arrive, RequestStep, CheckPostgres, CheckRedis,
           Waits, Outage, Recover, Turn, program, Over, vars, others
  <2>6. QED
    BY <2>2, <2>4, <2>5 DEF Orphaned
<1>2. QED
  BY LifecycleInvHolds, <1>1, PTL DEF Spec, OrphanStaysUp

(* A process that has once started its server returns from main for no     *)
(* other reason than a signal, however its server, its workers, the        *)
(* database and Redis fail.                                                *)
ExitNeedsSignal == pc["main"] = "exited" /\ server # "none" => signals > 0

(* Who has spawned the server, who may have cancelled, and on what.        *)
SignalInv ==
  /\ server # "none" => pc["main"] \in Running \cup {"closing", "exited"}
  /\ server # "none" /\ pc["main"] \in {"closing", "exited"} => cancelled
  /\ sig = 1 \/ cancelled => signals > 0

LEMMA SignalInvStep == LifecycleInv /\ SignalInv /\ [Next]_vars => SignalInv'
<1> SUFFICES ASSUME LifecycleInv, SignalInv, [Next]_vars PROVE SignalInv'
  OBVIOUS
<1> USE LifecycleAssumption DEF SignalInv, Running
<1>0. /\ "main" \in Procs /\ DOMAIN pc = Procs /\ pc["main"] \in Labels
      /\ signals \in Nat /\ sig \in 0..1 /\ cancelled \in BOOLEAN
  BY DEF LifecycleInv, Shape, TypeOK, Procs, Labels
<1>1. CASE OpenDB \/ StartStatus \/ Ping("main")
        \/ OpenRedis("cache", "queue") \/ OpenRedis("queue", "notify") \/ Notify
  <2>1. UNCHANGED <<server, cancelled, sig, signals>> /\ pc["main"] \in Starting \cup {"notify"}
    BY <1>1 DEF OpenDB, StartStatus, StatusOk, StatusFails, Ping, PingOk, PingFails, PingAgain,
                OpenRedis, Notify, Main, others, environment, Starting
  <2>2. server = "none"
    BY <2>1 DEF Starting
  <2>3. QED
    BY <2>1, <2>2
<1>2. CASE SpawnServer \/ StartWorkers \/ ServerFailed \/ ShutdownBegins \/ ShutdownTimesOut
        \/ Drained
  <2>1. pc'["main"] \in Running
    BY <1>0, <1>2 DEF SpawnServer, StartWorkers, ServerFailed, ShutdownBegins, ShutdownTimesOut,
                      Drained, Main, Goto
  <2>2. /\ signals' = signals
        /\ (sig' = sig /\ cancelled' = cancelled) \/ sig = 1
    BY <1>2 DEF SpawnServer, StartWorkers, ServerFailed, ShutdownBegins, ShutdownTimesOut,
                Drained, environment, others
  <2>3. QED
    BY <2>1, <2>2
<1>3. CASE WaitReturns
  <2>1. \A w \in Workers : worker[w] = "stopped"
    BY <1>3 DEF WaitReturns
  <2>2. cancelled
    BY <2>1 DEF LifecycleInv, Phases, WorkersStop, Workers
  <2>3. UNCHANGED <<server, cancelled, sig, signals>> /\ pc'["main"] = "closing"
    BY <1>0, <1>3 DEF WaitReturns, Main, Goto, others, environment
  <2>4. QED
    BY <2>2, <2>3
<1>4. CASE ClosePool \/ Exit
  <2>1. /\ UNCHANGED <<server, cancelled, sig, signals>>
        /\ pc["main"] = "closing" /\ pc'["main"] \in {"closing", "exited"}
    BY <1>0, <1>4 DEF ClosePool, Exit, Main, Goto, others, environment
  <2>2. QED
    BY <2>1
<1>5. CASE Listen \/ ServeReturns
  <2>1. UNCHANGED <<pc, cancelled, sig, signals>> /\ server # "none"
    BY <1>5 DEF Listen, ServeReturns, environment
  <2>2. QED
    BY <2>1
<1>6. CASE Signal
  <2>1. UNCHANGED <<server, cancelled>> /\ signals' = signals + 1
    BY <1>6 DEF Signal
  <2>2. pc'["main"] = pc["main"] \/ pc["main"] \in Starting \cup {"notify"} \/ server = "none"
    BY <1>0, <1>6 DEF Signal, Notified, Goto
  <2>3. signals' > 0
    BY <1>0, <2>1
  <2>4. QED
    BY <2>1, <2>2, <2>3 DEF Starting
<1>7. ASSUME NEW w \in Workers, WorkerTick(w) \/ WorkerEndsTick(w) \/ WorkerStops(w)
      PROVE SignalInv'
  <2>1. UNCHANGED <<pc, server, cancelled, sig, signals>>
    BY <1>7 DEF WorkerTick, WorkerEndsTick, WorkerStops, MoveWorker, environment
  <2>2. QED
    BY <2>1
<1>8. ASSUME NEW h \in Requests, Arrive(h) \/ RequestStep(h) PROVE SignalInv'
  <2>1. UNCHANGED <<server, cancelled, sig, signals>> /\ pc'["main"] = pc["main"]
    BY <1>0, <1>8 DEF Arrive, RequestStep, Ping, PingOk, PingFails, PingAgain, CheckPostgres, CheckRedis, Goto,
                      others, environment
  <2>2. QED
    BY <2>1
<1>9. CASE (\E p \in Procs : Waits(p)) \/ \E x \in Parts : Outage(x) \/ Recover(x)
  <2>1. UNCHANGED <<pc, server, cancelled, sig, signals>>
    BY <1>9 DEF Waits, others, environment, Outage, Recover, Turn, program
  <2>2. QED
    BY <2>1
<1>10. CASE UNCHANGED vars
  BY <1>10 DEF vars, program
<1>11. QED
  BY <1>1, <1>2, <1>3, <1>4, <1>5, <1>6, <1>7, <1>8, <1>9, <1>10 DEF Next, MainStep, Over

(* The wait for the workers is what keeps a process up: they stop for      *)
(* workerCancel only, and only a signal has it called.                     *)
THEOREM ExitNeedsSignalHolds == Spec => []ExitNeedsSignal
<1>1. Init => SignalInv
  BY DEF Init, SignalInv
<1>2. LifecycleInv /\ SignalInv => ExitNeedsSignal
  BY DEF SignalInv, ExitNeedsSignal
<1>3. QED
  BY <1>1, <1>2, SignalInvStep, LifecycleInvHolds, PTL DEF Spec
=============================================================================
