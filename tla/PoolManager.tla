----------------------------- MODULE PoolManager -----------------------------
(***************************************************************************)
(* The pool manager (libpoolprotocols/PoolManager.cpp): it owns the list   *)
(* of configured pools and one client at a time, reconnects and fails over *)
(* between pools, passes jobs to the farm, obeys the API and is stopped by *)
(* the main thread.                                                        *)
(*                                                                         *)
(* The io thread runs one handler at a time: socket events of the client,  *)
(* API requests, and the handlers in `queue', which are posted or expired  *)
(* and run in order.  The main thread runs stop() step by step between     *)
(* them.  A timer whose wait is over is in the queue and is not recalled   *)
(* by cancel().                                                            *)
(*                                                                         *)
(* The client is seen through the PoolClient interface only; the three     *)
(* families differ in what their connect() and disconnect() do, and the    *)
(* simulation has a thread of its own, which delivers one job.  A call     *)
(* through a null m_conn or p_client, or of a destroyed client, ends the   *)
(* program: `crashed'.  m_connectionSwitches, m_epochChanges and what is   *)
(* logged are not modelled: nothing reads them but the API.                *)
(***************************************************************************)
EXTENDS Integers, Sequences, Functions

CONSTANTS Pools,              \* the URI objects that may be in the list
          InitConns,          \* the list given on the command line
          Family,             \* [Pools -> {"stratum", "getwork", "simulation"}]
          TLS,                \* the pools whose sockets are encrypted
          Version,            \* the stratum flavour the scheme names, Unset if none
          ExitPools,          \* the entries written as '-P exit'
          Reachable,          \* the pools that accept a connection at all
          Epochs,             \* the epochs of the jobs
          MaxRetries,         \* connectionMaxRetries
          DelayBeforeRetry,   \* delayBeforeRetry > 0
          FailoverTimeout,    \* poolFailoverTimeout > 0
          ReportHashrate,     \* reportHashrate
          MaxConns,           \* bound on the length of the list
          MaxQueue            \* bound on the handlers waiting to run

ASSUME PoolsAssumption ==
    /\ InitConns \in Seq(Pools) /\ InitConns # <<>>
    /\ Family \in [Pools -> {"stratum", "getwork", "simulation"}]
    /\ TLS \subseteq Pools /\ Version \in [Pools -> 0..4]
    /\ ExitPools \subseteq Pools /\ Reachable \subseteq Pools

ASSUME SettingsAssumption ==
    /\ MaxRetries \in Nat /\ MaxConns \in Nat /\ MaxQueue \in Nat /\ Epochs \subseteq Nat
    /\ {DelayBeforeRetry, FailoverTimeout, ReportHashrate} \subseteq BOOLEAN

VARIABLES connections,            \* m_Settings.connections
          uris,                   \* what a URI object remembers of its pool
          m_activeConnectionIdx,
          m_connectionAttempt,
          m_running, m_stopping, m_async_pending,
          client,                 \* p_client
          m_currentWp,
          farm,
          timers,                 \* the timers somebody waits for
          queue,                  \* handlers of the io thread, ready to run
          main,                   \* where the main thread is
          crashed

pool == <<connections, uris, m_activeConnectionIdx, m_connectionAttempt>>
flags == <<m_running, m_stopping, m_async_pending>>
vars == <<pool, flags, client, m_currentWp, farm, timers, queue, main, crashed>>

Unset == 4      \* stratum mode 999
NoSeed == -1    \* the zero hash of a WorkPackage without a seed
RandomSeed == -2   \* the seed of a simulated job, a new one for each job

NewUri == [mode |-> Unset, confirmed |-> FALSE, unrecoverable |-> FALSE]

Handlers == {"rotateConnect", "failover", "submithr", "reconnect", "disconnect", "restart"}

TypeOK == /\ connections \in Seq(Pools)
          /\ uris \in [Pools -> [mode : 0..4, confirmed : BOOLEAN, unrecoverable : BOOLEAN]]
          /\ m_activeConnectionIdx \in Nat
          /\ m_connectionAttempt \in Nat
          /\ {m_running, m_stopping, m_async_pending, crashed} \subseteq BOOLEAN
          /\ client \in [conn : Pools, responds : BOOLEAN, thread : BOOLEAN,
                         st : {"none", "fresh", "dialing", "linked", "session", "shutdown", "closed"}]
          /\ m_currentWp \in [job : BOOLEAN, seed : Epochs \union {NoSeed, RandomSeed},
                              epoch : Epochs \union {-1}]
          /\ farm \in [mining : BOOLEAN, paused : BOOLEAN, held : BOOLEAN, work : BOOLEAN]
          /\ timers \subseteq {"failover", "submithr", "reconnect"}
          /\ queue \in Seq(Handlers)
          /\ main \in {"serving", "stop", "flagged", "test", "disconnect", "waiting",
                       "cancel", "stopFarm", "done"}

(* The state after PoolManager::start().                                   *)
Init == /\ connections = InitConns
        /\ uris = [p \in Pools |-> NewUri]
        /\ m_activeConnectionIdx = 0
        /\ m_connectionAttempt = 0
        /\ m_running = TRUE
        /\ m_stopping = FALSE
        /\ m_async_pending = TRUE
        /\ client = [conn |-> InitConns[1], responds |-> FALSE, thread |-> FALSE, st |-> "none"]
        /\ m_currentWp = [job |-> FALSE, seed |-> NoSeed, epoch |-> -1]
        /\ farm = [mining |-> FALSE, paused |-> FALSE, held |-> FALSE, work |-> FALSE]
        /\ timers = {}
        /\ queue = <<"rotateConnect">>
        /\ main = "serving"
        /\ crashed = FALSE

(* connections.erase(connections.begin() + idx)                            *)
erase(list, idx) == SubSeq(list, 1, idx) \o SubSeq(list, idx + 2, Len(list))

IoRuns == ~crashed /\ main # "done"
Crash == crashed' = TRUE /\ UNCHANGED <<pool, flags, client, m_currentWp, farm, timers, queue, main>>

Posted(h) == h \in Range(queue)

(* A dial begins in a handler; what is already posted runs before it ends. *)
Dialing == client.st = "dialing" /\ ~Posted("rotateConnect")

isConnected == client.st \in {"linked", "session"}
IsFamily(f) == Family[client.conn] = f
Encrypted == IsFamily("stratum") /\ client.conn \in TLS

-----------------------------------------------------------------------------
(* The farm as the pool manager drives it: `held' is the farm's pause flag *)
(* of the miners, `work' that they have a job.                             *)

FarmStart(f) == [f EXCEPT !.mining = TRUE, !.held = IF f.mining THEN @ ELSE FALSE]
FarmStop(f) == [f EXCEPT !.mining = FALSE, !.work = FALSE]
(* Mutant: paused miners keep their job.                                    *)
FarmPauseKeepsWork(f) == [f EXCEPT !.paused = TRUE, !.held = TRUE]
FarmPause(f) == [f EXCEPT !.paused = TRUE, !.held = TRUE, !.work = FALSE]
(* Mutant: the miners stay held.                                            *)
FarmResumeHeld(f) == [f EXCEPT !.paused = FALSE]
FarmResume(f) == [f EXCEPT !.paused = FALSE, !.held = FALSE]
FarmSetWork(f) == [f EXCEPT !.work = f.mining /\ ~f.held]

-----------------------------------------------------------------------------
(* The handlers a client calls.  `q' is the queue they post to.            *)

FarmGoes(f) == IF f.mining /\ f.paused THEN FarmResume(f) ELSE FarmStart(f)

(* Mutant: the index test is inverted.                                      *)
RearmFailoverForPrimary(idx) == IF idx = 0 /\ FailoverTimeout THEN {"failover"} ELSE {}
RearmFailover(idx) == IF idx # 0 /\ FailoverTimeout THEN {"failover"} ELSE {}

(* `thread': the simulation's thread is started and has yet to deliver.    *)
onConnected(p, idx, st) ==
    /\ client' = [conn |-> p, responds |-> TRUE, thread |-> Family[p] = "simulation", st |-> st]
    /\ m_currentWp' = [m_currentWp EXCEPT !.job = FALSE]
    /\ timers' = (timers \ {"failover"})
                   \union RearmFailover(idx)
                   \union (IF ReportHashrate THEN {"submithr"} ELSE {})
    /\ farm' = FarmGoes(farm)
    /\ m_connectionAttempt' = 0
    /\ m_async_pending' = FALSE

(* Mutant: rotateConnect is not posted.                                     *)
PostNothing(q) == q
PostRotate(q) == Append(q, "rotateConnect")

onDisconnected(q) ==
    /\ client' = [client EXCEPT !.st = "closed"]
    /\ m_currentWp' = [m_currentWp EXCEPT !.job = FALSE]
    /\ timers' = timers \ {"failover", "submithr"}
    /\ \/ /\ m_stopping
          /\ farm' = FarmStop(farm)
          /\ m_running' = FALSE
          /\ queue' = q
          /\ UNCHANGED m_async_pending
       \/ /\ ~m_stopping
          /\ m_async_pending' = TRUE
          /\ farm' = FarmPause(farm)
          /\ queue' = PostRotate(q)
          /\ UNCHANGED m_running

(* Mutant: the seed alone decides.                                          *)
NewSeed(wp, mode3) == m_currentWp.epoch = -1 \/ wp.seed # m_currentWp.seed
NewEpoch(wp, mode3) == \/ m_currentWp.epoch = -1
                       \/ mode3 /\ wp.epoch # m_currentWp.epoch
                       \/ ~mode3 /\ (wp.seed # m_currentWp.seed \/ wp.seed = RandomSeed)

(* `blockEpoch' is block / 30000 for a job with a block number, else -1.    *)
onWorkReceived(wp, blockEpoch) ==
    LET mode3 == IsFamily("stratum") /\ uris[client.conn].mode = 3
        derived == CASE wp.epoch # -1 -> wp.epoch
                     [] wp.epoch = -1 /\ blockEpoch >= 0 -> blockEpoch
                     [] OTHER -> wp.seed
    IN  /\ m_currentWp' = [wp EXCEPT !.epoch = IF NewEpoch(wp, mode3) THEN derived ELSE m_currentWp.epoch]
        /\ farm' = FarmSetWork(farm)

-----------------------------------------------------------------------------
(* p_client->disconnect(), called from a handler that leaves the queue q   *)
(* and the flag m_async_pending = a.  A dial has its socket open or not    *)
(* yet: an encrypted one is shut down in the first case.                   *)

(* A stratum client still looking for the pool's flavour dials again for   *)
(* the next one and tells nobody; out of flavours, it gives the pool up.   *)
Detecting == /\ IsFamily("stratum")
             /\ client.responds
             /\ ~uris[client.conn].unrecoverable
             /\ ~uris[client.conn].confirmed

disconnect_finalize(q) ==
    \/ /\ Detecting
       /\ uris[client.conn].mode > 0
       /\ uris' = [uris EXCEPT ![client.conn].mode = @ - 1]
       /\ client' = [client EXCEPT !.st = "dialing"]
       /\ queue' = q
       /\ UNCHANGED <<m_currentWp, timers, farm, m_running, m_async_pending>>
    \/ /\ ~(Detecting /\ uris[client.conn].mode > 0)
       /\ uris' = [uris EXCEPT ![client.conn].unrecoverable = @ \/ Detecting]
       /\ onDisconnected(q)

disconnect(q, a) ==
    \/ /\ client.st \notin {"none", "closed", "shutdown"}
       /\ ~(Encrypted /\ isConnected)
       /\ disconnect_finalize(q)
       /\ UNCHANGED crashed
    \/ /\ client.st \in {"dialing", "linked", "session", "shutdown"}
       /\ client.st # "shutdown" => Encrypted
       /\ client' = [client EXCEPT !.st = "shutdown"]
       /\ queue' = q
       /\ m_async_pending' = a
       /\ UNCHANGED <<uris, m_currentWp, timers, farm, m_running, crashed>>
    \/ /\ client.st = "closed" /\ IsFamily("getwork")
       /\ onDisconnected(q)
       /\ UNCHANGED <<uris, crashed>>
    \/ /\ client.st = "none" \/ (client.st = "closed" /\ ~IsFamily("getwork"))
       /\ crashed' = TRUE
       /\ queue' = q
       /\ UNCHANGED <<uris, client, m_currentWp, timers, farm, m_running, m_async_pending>>

-----------------------------------------------------------------------------
(* Socket events of the client, in the order in which the pool lets them   *)
(* happen.                                                                 *)

(* A flavour the scheme names is confirmed; the search begins with 3.      *)
Flavoured(p, u) == CASE Version[p] # Unset -> [u EXCEPT !.mode = Version[p], !.confirmed = TRUE]
                     [] Version[p] = Unset /\ ~u.confirmed /\ u.mode = Unset -> [u EXCEPT !.mode = 3]
                     [] OTHER -> u

Linked == /\ IoRuns
          /\ Dialing /\ IsFamily("stratum")
          /\ client.conn \in Reachable
          /\ client' = [client EXCEPT !.st = "linked", !.responds = TRUE]
          /\ uris' = [uris EXCEPT ![client.conn] = Flavoured(client.conn, @)]
          /\ UNCHANGED <<connections, m_activeConnectionIdx, m_connectionAttempt,
                         flags, m_currentWp, farm, timers, queue, main, crashed>>

(* The login is answered (stratum), the socket is connected (getwork).     *)
SessionStarts == /\ IoRuns
                 /\ \/ client.st = "linked"
                    \/ Dialing /\ IsFamily("getwork") /\ client.conn \in Reachable
                 /\ onConnected(client.conn, m_activeConnectionIdx, "session")
                 /\ uris' = [uris EXCEPT ![client.conn].confirmed = @ \/ IsFamily("stratum")]
                 /\ UNCHANGED <<connections, m_activeConnectionIdx, m_running, m_stopping,
                                queue, main, crashed>>

(* TLS is shutting down when the answer to the login is read.              *)
LateLogin == /\ IoRuns
             /\ client.st = "shutdown" /\ Detecting
             /\ onConnected(client.conn, m_activeConnectionIdx, "shutdown")
             /\ uris' = [uris EXCEPT ![client.conn].confirmed = TRUE]
             /\ UNCHANGED <<connections, m_activeConnectionIdx, m_running, m_stopping,
                            queue, main, crashed>>

(* Jobs of stratum mode 3 carry their epoch; the others carry a seed and,  *)
(* some of them, a block number.                                           *)
Job(e) == LET mode3 == IsFamily("stratum") /\ uris[client.conn].mode = 3
          IN  [job |-> TRUE, seed |-> IF mode3 THEN NoSeed ELSE e, epoch |-> IF mode3 THEN e ELSE -1]

WorkReceived(e) == /\ IoRuns
                   /\ client.st = "session" /\ ~IsFamily("simulation")
                   /\ \E blockEpoch \in {-1, e} : onWorkReceived(Job(e), blockEpoch)
                   /\ UNCHANGED <<pool, flags, client, timers, queue, main, crashed>>

(* workLoop delivers its job on the simulation's own thread, also when the *)
(* session was closed in the meantime: onWorkReceived then finds m_conn    *)
(* null, unless the job is the first and it does not look.                 *)
SimulatedJob == [job |-> TRUE, seed |-> RandomSeed, epoch |-> -1]

SimulatedWork(e) == /\ IoRuns
                    /\ IsFamily("simulation") /\ client.thread
                    /\ client' = [client EXCEPT !.thread = FALSE]
                    /\ \/ /\ client.st = "closed" /\ m_currentWp.epoch # -1
                          /\ crashed' = TRUE
                          /\ UNCHANGED <<m_currentWp, farm>>
                       \/ /\ ~(client.st = "closed" /\ m_currentWp.epoch # -1)
                          /\ onWorkReceived(SimulatedJob, e)
                          /\ UNCHANGED crashed
                    /\ UNCHANGED <<pool, flags, timers, queue, main>>

(* No address answers, or the host does not resolve.                       *)
DialFails == /\ IoRuns
             /\ Dialing
             /\ disconnect_finalize(queue)
             /\ UNCHANGED <<connections, m_activeConnectionIdx, m_connectionAttempt, m_stopping,
                            main, crashed>>

(* An error, a refusal or a timeout: a stratum client posts its own        *)
(* disconnect, after marking the pool if it refused the account or the TLS *)
(* handshake; a getwork client disconnects at once.                        *)
PoolFails == /\ IoRuns
             /\ isConnected /\ IsFamily("stratum")
             /\ Len(queue) < MaxQueue
             /\ queue' = Append(queue, "disconnect")
             /\ \/ UNCHANGED uris
                \/ /\ uris[client.conn].confirmed \/ (client.conn \in TLS /\ client.st = "linked")
                   /\ uris' = [uris EXCEPT ![client.conn].unrecoverable = TRUE]
             /\ UNCHANGED <<connections, m_activeConnectionIdx, m_connectionAttempt, flags, client,
                            m_currentWp, farm, timers, main, crashed>>

GetworkFails == /\ IoRuns
                /\ client.st = "session" /\ IsFamily("getwork")
                /\ disconnect(queue, m_async_pending)
                /\ UNCHANGED <<connections, m_activeConnectionIdx, m_connectionAttempt, m_stopping, main>>

ShutdownEnds == /\ IoRuns
                /\ client.st = "shutdown"
                /\ disconnect_finalize(queue)
                /\ UNCHANGED <<connections, m_activeConnectionIdx, m_connectionAttempt, m_stopping,
                               main, crashed>>

-----------------------------------------------------------------------------
(* The handlers of the queue.                                              *)

Runs(h) == IoRuns /\ queue # <<>> /\ Head(queue) = h

(* Mutant: the index does not move.                                         *)
NoRotation(idx, n) == idx
Rotation(idx, n) == IF idx >= n - 1 THEN 0 ELSE idx + 1

(* The list, the index and the attempt count with which rotateConnect goes *)
(* on to connect.                                                          *)
Selected ==
    LET n == Len(connections)
        idx == IF m_activeConnectionIdx >= n THEN 0 ELSE m_activeConnectionIdx
        shorter == erase(connections, idx)
    IN  CASE uris[connections[idx + 1]].unrecoverable ->
               [list |-> shorter, idx |-> IF idx >= n - 1 THEN 0 ELSE idx, attempt |-> 0]
          [] ~uris[connections[idx + 1]].unrecoverable /\ m_connectionAttempt >= MaxRetries /\ n = 1 ->
               [list |-> shorter, idx |-> idx, attempt |-> m_connectionAttempt]
          [] ~uris[connections[idx + 1]].unrecoverable /\ m_connectionAttempt >= MaxRetries /\ n > 1 ->
               [list |-> connections, idx |-> Rotation(idx, n), attempt |-> 0]
          [] OTHER ->
               [list |-> connections, idx |-> idx, attempt |-> m_connectionAttempt]

(* connect() of a client for p, freshly made or waiting for its delay.     *)
connect(p, idx, attempt) ==
    \/ /\ Family[p] = "simulation"
       /\ onConnected(p, idx, "session")
    \/ /\ Family[p] # "simulation"
       /\ client' = [conn |-> p, responds |-> FALSE, thread |-> FALSE, st |-> "dialing"]
       /\ m_connectionAttempt' = attempt
       /\ UNCHANGED <<m_currentWp, timers, farm, m_async_pending>>

(* The destructor of a simulation client joins its thread.                 *)
rotateConnect ==
    /\ Runs("rotateConnect")
    /\ queue' = Tail(queue)
    /\ \/ /\ isConnected
          /\ UNCHANGED <<pool, flags, client, m_currentWp, farm, timers, crashed>>
       \/ /\ ~isConnected
          /\ connections = <<>> \/ client.st \in {"dialing", "shutdown"}
                                \/ "disconnect" \in Range(Tail(queue))
          /\ crashed' = TRUE
          /\ UNCHANGED <<pool, flags, client, m_currentWp, farm, timers>>
       \/ /\ ~isConnected
          /\ connections # <<>> /\ client.st \notin {"dialing", "shutdown"}
          /\ "disconnect" \notin Range(Tail(queue))
          /\ LET sel == Selected
                 exit == ~(sel.list # <<>> /\ sel.list[sel.idx + 1] \notin ExitPools)
             IN  /\ connections' = sel.list
                 /\ m_activeConnectionIdx' = sel.idx
                 /\ \/ /\ exit
                       /\ farm' = FarmStop(farm)
                       /\ m_running' = FALSE
                       /\ m_connectionAttempt' = sel.attempt
                       /\ UNCHANGED <<client, m_currentWp, timers, m_async_pending>>
                    \/ /\ ~exit
                       /\ ~client.thread
                       /\ sel.attempt > 0 /\ DelayBeforeRetry
                       /\ client' = [conn |-> sel.list[sel.idx + 1], responds |-> FALSE,
                                     thread |-> FALSE, st |-> "fresh"]
                       /\ m_connectionAttempt' = sel.attempt + 1
                       /\ timers' = timers \union {"reconnect"}
                       /\ UNCHANGED <<m_currentWp, farm, m_running, m_async_pending>>
                    \/ /\ ~exit
                       /\ ~client.thread
                       /\ ~(sel.attempt > 0 /\ DelayBeforeRetry)
                       /\ connect(sel.list[sel.idx + 1], sel.idx, sel.attempt + 1)
                       /\ UNCHANGED m_running
          /\ UNCHANGED <<uris, m_stopping, crashed>>
    /\ UNCHANGED main

failovertimer_elapsed ==
    /\ Runs("failover")
    /\ \/ /\ m_running /\ m_activeConnectionIdx # 0
          /\ m_activeConnectionIdx' = 0
          /\ m_connectionAttempt' = 0
          /\ disconnect(Tail(queue), m_async_pending)
          /\ UNCHANGED <<connections, m_stopping>>
       \/ /\ ~(m_running /\ m_activeConnectionIdx # 0)
          /\ queue' = Tail(queue)
          /\ UNCHANGED <<pool, flags, client, m_currentWp, farm, timers, crashed>>
    /\ UNCHANGED main

submithrtimer_elapsed ==
    /\ Runs("submithr")
    /\ queue' = Tail(queue)
    /\ timers' = IF m_running THEN timers \union {"submithr"} ELSE timers
    /\ UNCHANGED <<pool, flags, client, m_currentWp, farm, main, crashed>>

reconnecttimer_elapsed ==
    /\ Runs("reconnect")
    /\ queue' = Tail(queue)
    /\ \/ /\ m_running /\ client.st = "fresh"
          /\ connect(client.conn, m_activeConnectionIdx, m_connectionAttempt)
       \/ /\ ~(m_running /\ client.st = "fresh")
          /\ UNCHANGED <<client, m_connectionAttempt, m_currentWp, timers, farm, m_async_pending>>
    /\ UNCHANGED <<connections, uris, m_activeConnectionIdx, m_running, m_stopping, main, crashed>>

(* The disconnect a stratum client posted to itself.                       *)
PostedDisconnect == /\ Runs("disconnect")
                    /\ disconnect(Tail(queue), m_async_pending)
                    /\ UNCHANGED <<connections, m_activeConnectionIdx, m_connectionAttempt, m_stopping, main>>

onMinerRestart == /\ Runs("restart")
                  /\ queue' = Tail(queue)
                  /\ farm' = FarmStart(FarmStop(farm))
                  /\ UNCHANGED <<pool, flags, client, m_currentWp, timers, main, crashed>>

(* The intervals are seconds or minutes: a timer armed again does not      *)
(* elapse before the handler of its previous wait has run.                 *)
TimerExpires(t) == /\ IoRuns
                   /\ t \in timers /\ ~Posted(t)
                   /\ timers' = timers \ {t}
                   /\ queue' = Append(queue, t)
                   /\ UNCHANGED <<pool, flags, client, m_currentWp, farm, main, crashed>>

-----------------------------------------------------------------------------
(* API requests, handled on the io thread until the main thread stops.     *)

ApiRuns == IoRuns /\ main = "serving"

addConnection(p) == /\ ApiRuns
                    /\ Len(connections) < MaxConns
                    /\ p \notin Range(connections) \union {client.conn}
                    /\ connections' = Append(connections, p)
                    /\ uris' = [uris EXCEPT ![p] = NewUri]
                    /\ UNCHANGED <<m_activeConnectionIdx, m_connectionAttempt, flags, client, m_currentWp,
                                   farm, timers, queue, main, crashed>>

(* Mutant: the index is not adjusted.                                       *)
NoShift(idx) == m_activeConnectionIdx
(* Mutant: the index goes below zero.                                       *)
ShiftTooFar(idx) == m_activeConnectionIdx - 1
ShiftedIdx(idx) == IF m_activeConnectionIdx > idx THEN m_activeConnectionIdx - 1 ELSE m_activeConnectionIdx

removeConnection(idx) == /\ ApiRuns
                         /\ ~m_async_pending
                         /\ idx < Len(connections)
                         /\ idx # m_activeConnectionIdx
                         /\ connections' = erase(connections, idx)
                         /\ m_activeConnectionIdx' = ShiftedIdx(idx)
                         /\ UNCHANGED <<uris, m_connectionAttempt, flags, client, m_currentWp,
                                        farm, timers, queue, main, crashed>>

(* Selecting the active pool again changes nothing.                        *)
setActiveConnection(idx) == /\ ApiRuns
                            /\ ~m_async_pending
                            /\ idx < Len(connections)
                            /\ idx # m_activeConnectionIdx
                            /\ m_activeConnectionIdx' = idx
                            /\ m_connectionAttempt' = 0
                            /\ disconnect(queue, TRUE)
                            /\ UNCHANGED <<connections, m_stopping, main>>

restart_async == /\ ApiRuns
                 /\ Len(queue) < MaxQueue
                 /\ queue' = Append(queue, "restart")
                 /\ UNCHANGED <<pool, flags, client, m_currentWp, farm, timers, main, crashed>>

-----------------------------------------------------------------------------
(* The main thread: doMiner waits for a signal, then runs stop().  Its     *)
(* return ends the io thread.                                              *)

At(from, to) == ~crashed /\ main = from /\ main' = to

Interrupt == /\ At("serving", IF m_running THEN "stop" ELSE "done")
             /\ UNCHANGED <<pool, flags, client, m_currentWp, farm, timers, queue, crashed>>

StoreAsyncPending == /\ At("stop", "flagged")
                     /\ m_async_pending' = TRUE
                     /\ UNCHANGED <<pool, m_running, m_stopping, client, m_currentWp, farm, timers,
                                    queue, crashed>>

(* Mutant: the flag is not set.                                             *)
StoreNothing == /\ At("flagged", "test")
                /\ UNCHANGED <<pool, flags, client, m_currentWp, farm, timers, queue, crashed>>

StoreStopping == /\ At("flagged", "test")
                 /\ m_stopping' = TRUE
                 /\ UNCHANGED <<pool, m_running, m_async_pending, client, m_currentWp, farm, timers,
                                queue, crashed>>

TestConnected == /\ At("test", IF isConnected THEN "disconnect" ELSE "cancel")
                 /\ UNCHANGED <<pool, flags, client, m_currentWp, farm, timers, queue, crashed>>

StopDisconnects == /\ At("disconnect", "waiting")
                   /\ disconnect(queue, m_async_pending)
                   /\ UNCHANGED <<connections, m_activeConnectionIdx, m_connectionAttempt, m_stopping>>

WaitEnds == /\ At("waiting", "done")
            /\ ~m_running /\ ~client.thread
            /\ client' = [client EXCEPT !.st = "none"]
            /\ UNCHANGED <<pool, flags, m_currentWp, farm, timers, queue, crashed>>

StopCancels == /\ At("cancel", "stopFarm")
               /\ timers' = {}
               /\ UNCHANGED <<pool, flags, client, m_currentWp, farm, queue, crashed>>

StopStopsFarm == /\ At("stopFarm", "done")
                 /\ farm' = FarmStop(farm)
                 /\ UNCHANGED <<pool, flags, client, m_currentWp, timers, queue, crashed>>

MainStep == \/ StoreAsyncPending
            \/ StoreStopping
            \/ TestConnected
            \/ StopDisconnects
            \/ WaitEnds
            \/ StopCancels
            \/ StopStopsFarm

QueueStep == \/ rotateConnect
             \/ failovertimer_elapsed
             \/ submithrtimer_elapsed
             \/ reconnecttimer_elapsed
             \/ PostedDisconnect
             \/ onMinerRestart

DialStep == Linked \/ DialFails

Next == \/ DialStep
        \/ SessionStarts \/ LateLogin
        \/ PoolFails
        \/ GetworkFails
        \/ ShutdownEnds
        \/ \E e \in Epochs : WorkReceived(e) \/ SimulatedWork(e)
        \/ QueueStep
        \/ \E t \in timers : TimerExpires(t)
        \/ \E p \in Pools : addConnection(p)
        \/ \E idx \in 0..(MaxConns - 1) : removeConnection(idx) \/ setActiveConnection(idx)
        \/ restart_async
        \/ Interrupt
        \/ MainStep

Spec == Init /\ [][Next]_vars

(* The io thread keeps running handlers, a dial ends one way or the other, *)
(* delays elapse, the simulation's and the main thread are scheduled.      *)
(* Nothing obliges a pool to end a session, nor to answer the shutdown of  *)
(* an encrypted one, which has no working timeout.                         *)
Scheduling == /\ WF_vars(QueueStep)
              /\ WF_vars(DialStep)
              /\ WF_vars(TimerExpires("reconnect"))
              /\ WF_vars(\E e \in Epochs : SimulatedWork(e))
              /\ WF_vars(MainStep)
              /\ WF_vars(~m_running /\ Interrupt)

(* A pool that is reachable takes a connection when it is tried often      *)
(* enough, and answers the login and the shutdown.                         *)
PoolsAnswer == SF_vars(Linked) /\ SF_vars(SessionStarts) /\ WF_vars(ShutdownEnds)

ScheduledSpec == Spec /\ Scheduling

LiveSpec == ScheduledSpec /\ PoolsAnswer

-----------------------------------------------------------------------------
(* Properties.                                                             *)

InSession == client.st = "session"

(* m_async_pending is what protects the list from the API: while it is     *)
(* FALSE the client is in session with the pool at the active index, or is *)
(* closing that session for the failover timer, which does not set it.     *)
ActiveIsConnected ==
    (~m_async_pending /\ ~m_stopping) =>
       \/ client.st = "shutdown"
       \/ /\ InSession
          /\ m_activeConnectionIdx < Len(connections)
          /\ connections[m_activeConnectionIdx + 1] = client.conn

(* However a session was reached (first start, a reconnection after a      *)
(* pause, a restart of the miners in between), the miners are running and  *)
(* not suspended.                                                          *)
MinersRunInSession == (InSession /\ ~m_stopping) => farm.mining /\ ~farm.held

(* Nobody works for a pool that is gone: miners hold a job, and the        *)
(* manager a header, only while the session that gave it exists.  The job  *)
(* of a simulation, which its own thread may deliver late, is exempt.      *)
WorkIsForSession ==
    (main # "done" /\ m_currentWp.seed # RandomSeed /\ (farm.work \/ m_currentWp.job)) =>
       client.st \in {"session", "shutdown"}

(* In session with a pool that is not the primary one, the return to the   *)
(* primary is pending.                                                     *)
FailoverIsPending ==
    (FailoverTimeout /\ m_running /\ InSession /\ m_activeConnectionIdx # 0 /\ ~m_stopping) =>
       "failover" \in timers \/ Posted("failover")

(* The manager is never left without a next step: it is connected or       *)
(* connecting, or the handler that connects is on its way.                 *)
NeverStranded ==
    (m_running /\ main = "serving" /\ ~crashed) =>
       \/ client.st \in {"dialing", "linked", "session", "shutdown"}
       \/ Posted("rotateConnect")
       \/ client.st = "fresh" /\ ("reconnect" \in timers \/ Posted("reconnect"))

(* Whatever pools and flavours the previous jobs came from, and whether    *)
(* it is sent, or derived from a block number or from a seed, the epoch    *)
(* the farm is given is the epoch of the job.                              *)
EpochIsRight == [][\A e \in Epochs : WorkReceived(e) \/ SimulatedWork(e) =>
                      m_currentWp'.epoch = e \/ crashed']_vars

(* A list with a reachable pool leads to a session: failures are retried,  *)
(* counted and rotated past ("passes to the next connection available and  *)
(* so on", main.cpp:691).                                                  *)
ReachesAPool == <>(InSession \/ crashed \/ ~m_running \/ main # "serving")


(* stop() returns, however its steps interleave with those of the io       *)
(* thread, unless it waits for a pool that never answers the shutdown of   *)
(* an encrypted connection.                                                *)
StopReturns == main = "waiting" ~> (main = "done" \/ crashed \/ [](client.st = "shutdown"))

(* "Wait for async operations to complete" (PoolManager.cpp:237): they do. *)
StopAlwaysReturns == main = "waiting" ~> (main = "done" \/ crashed)

(* "simulate" jobs included, a closed session leaves no job.               *)
NoWorkWithoutSession == (main # "done" /\ (farm.work \/ m_currentWp.job)) =>
                           client.st \in {"session", "shutdown"}

(* "If this connection is marked Unrecoverable then discard it"            *)
(* (PoolManager.cpp:388): no client is made for such a pool.               *)
NeverDialsUnrecoverable == client.st = "fresh" \/ (client.st = "dialing" /\ ~client.responds) =>
                              ~uris[client.conn].unrecoverable

(* "Stop timing actors" (PoolManager.cpp:131): once the client is closed   *)
(* the failover timer does not act on it.                                  *)
TimersAreStopped == [][client.st = "closed" /\ Runs("failover") =>
                         m_activeConnectionIdx' = m_activeConnectionIdx]_vars

(* "Max number of connection retries" (PoolManager.h:33): the only pool is *)
(* dropped for being unrecoverable or after it was tried.                  *)
OnlyPoolIsTried == [][Len(connections) = 1 /\ connections' = <<>> =>
                        \/ uris[connections[1]].unrecoverable
                        \/ m_connectionAttempt > 0]_vars

=============================================================================
