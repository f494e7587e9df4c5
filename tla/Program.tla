-------------------------------- MODULE Program --------------------------------
(***************************************************************************)
(* The program around the API server (coreminer/main.cpp): doMiner on the  *)
(* main thread, which starts the server and the pool manager, sleeps until *)
(* a signal, and takes both down; the signal handler; and the end of the   *)
(* io thread in the destructor of MinerCLI.                                *)
(*                                                                         *)
(* The handler sets g_running and notifies without holding m_climtx.  It   *)
(* runs on whatever thread the signal reaches, also on the io thread, by   *)
(* the raise(SIGTERM) of PoolManager::rotateConnect.                       *)
(*                                                                         *)
(* The pool manager, the subject of PoolManager, is what it does to the    *)
(* other threads: its handlers hold the io thread, and its stop() holds    *)
(* the main thread, for any time, perhaps for ever.                        *)
(***************************************************************************)
EXTENDS ApiServer

VARIABLES main,        \* place of the main thread
          g_running,
          managed,     \* PoolManager::isRunning()
          inManager    \* the io thread is in a handler of the pool manager

manager == <<managed, inManager>>
allVars == <<listener, io, main, g_running, manager>>

(* In doMiner, from "begin" to "return"; "tested" is between the test of   *)
(* g_running and the wait; then the destructor of MinerCLI.                *)
Places == {"begin", "test", "tested", "waiting", "api", "join", "store", "clear", "pool", "poolStop",
           "return", "dtor", "joinIo", "done"}

ProgramInit == ServerInit /\ main = "begin" /\ g_running = TRUE /\ managed = FALSE /\ inManager = FALSE

Goes(a, b) == main = a /\ main' = b /\ UNCHANGED g_running

(* g_shouldstop.wait without a predicate: the loop tests again.            *)
WaitsForSignal ==
    /\ \/ Goes("test", IF g_running THEN "tested" ELSE "api")
       \/ Goes("tested", "waiting")
       \/ Goes("waiting", "test")         \* a spurious wake-up
    /\ UNCHANGED <<listener, io, manager>>

StopsApi ==
    /\ \/ m_running /\ Goes("api", "join") /\ CloseAcceptor
       \/ ~m_running /\ Goes("api", "pool") /\ UNCHANGED <<listener, io>>
       \/ Goes("join", "store") /\ JoinWorkThread
       \/ Goes("store", "clear") /\ StoreStopped
       \/ Goes("clear", "pool") /\ ClearSessions
    /\ UNCHANGED manager

StopsManager ==
    /\ \/ Goes("pool", IF managed THEN "poolStop" ELSE "return")
       \/ Goes("poolStop", "return")
    /\ UNCHANGED <<listener, io, manager>>

(* doMiner returns, which destroys the server; then the io service is      *)
(* stopped, and its thread joined once it has left the handler it is in.   *)
Ends == /\ \/ Goes("return", "dtor") /\ ClearSessions
           \/ Goes("dtor", "joinIo") /\ UNCHANGED <<listener, io>>
           \/ ~inManager /\ Goes("joinIo", "done") /\ UNCHANGED <<listener, io>>
        /\ UNCHANGED manager

doMiner == /\ fate = "alive"
           /\ \/ Goes("begin", "test") /\ start /\ managed' = TRUE /\ UNCHANGED inManager
              \/ WaitsForSignal \/ StopsApi \/ StopsManager \/ Ends

(* The steps of the main thread that depend neither on chance nor on the   *)
(* pool manager.                                                           *)
MainGoesOn == doMiner /\ main \notin {"waiting", "poolStop"}

(* g_running is reset and whoever waits is notified.                       *)
Signalled == g_running' = FALSE /\ main' = IF main = "waiting" THEN "test" ELSE main

signalHandler == main # "done" /\ fate = "alive" /\ Signalled /\ UNCHANGED <<listener, io, manager>>

(* A handler of the manager runs.  It may end the manager: because stop()  *)
(* asked for it, or at the end of the list, which raises the signal.       *)
ManagerHandler ==
    /\ fate = "alive" /\ UNCHANGED <<listener, io>>
    /\ \/ /\ ~inManager /\ main \notin {"begin", "joinIo", "done"}
          /\ inManager' = TRUE /\ UNCHANGED <<main, g_running, managed>>
       \/ /\ inManager /\ inManager' = FALSE
          /\ \/ UNCHANGED <<main, g_running, managed>>
             \/ main = "poolStop" /\ managed' = FALSE /\ UNCHANGED <<main, g_running>>
             \/ managed' = FALSE /\ Signalled

ServerLives == main \notin {"dtor", "joinIo", "done"}

(* The io thread: handlers of a server that is destroyed are not recalled. *)
IoThread == /\ main \notin {"joinIo", "done"} /\ ~inManager /\ UNCHANGED <<main, g_running, manager>>
            /\ \/ ServerLives /\ \E s \in Sessions : handle_accept(s)
               \/ \E s \in Sessions : SessionHandler(s)
               \/ /\ ~ServerLives /\ \E s \in Sessions, h \in {"accept", "acceptErr"} : Runs(s, h)
                  /\ FindsNothing

Network == main # "done" /\ SocketStep /\ UNCHANGED <<main, g_running, manager>>

ServerThread == fate = "alive" /\ WorkThread /\ UNCHANGED <<main, g_running, manager>>

ProgramNext == doMiner \/ signalHandler \/ ManagerHandler \/ IoThread \/ Network \/ ServerThread

ProgramSpec == /\ ProgramInit /\ [][ProgramNext]_allVars
               /\ WF_allVars(MainGoesOn) /\ WF_allVars(IoThread) /\ WF_allVars(ServerThread)

-----------------------------------------------------------------------------
(* Properties.                                                             *)

(* Once doMiner has seen the signal the program ends, wherever start,      *)
(* accepts and sessions stand, unless PoolManager::stop never returns, a   *)
(* handler of the pool manager never does, or a completion meets a         *)
(* destroyed object first: ApiServer::stop and the destructor of MinerCLI  *)
(* wait for no thread that waits for them.                                 *)
ProgramEnds == main = "api" ~> \/ main = "done" \/ fate # "alive"
                               \/ [](main = "poolStop") \/ [](inManager)

(* "Dispose all sessions (if any)" (ApiServer.cpp:286): a stopped server   *)
(* has no sessions.                                                        *)
StoppedHasNone == main \in {"pool", "poolStop", "return", "dtor"} /\ ~m_running => m_sessions = {}

(* "Stay in non-busy wait till signals arrive" (main.cpp:754): one signal  *)
(* ends the wait.                                                          *)
SignalIsHeard == ~g_running ~> (main \notin {"tested", "waiting"} \/ fate # "alive")

==============================================================================
