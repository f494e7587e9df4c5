---------------------------- MODULE GetworkClient ----------------------------
(***************************************************************************)
(* One client of a getwork node (libpoolprotocols/getwork/                 *)
(* XcbGetworkClient.cpp), from its connect() until the pool manager        *)
(* destroys it.  Every request opens a connection of its own, and jobs are *)
(* polled: the answer to a request for work starts the timer that sends    *)
(* the next one.                                                           *)
(*                                                                         *)
(* As in StratumClient the client is a record, the io thread runs the      *)
(* handlers of g.queue in order, and g.ops are the operations under way.   *)
(* disconnect() does not cancel them.                                      *)
(***************************************************************************)
EXTENDS Integers, Sequences, Functions

CONSTANTS MaxEndpoints,   \* bound: addresses of the host
          MaxTx,          \* bound: requests that wait in m_txQueue
          Malformed,      \* the node may answer something that is no answer
          Breaks          \* a connection may break while it is written to

ASSUME GetworkAssumption == /\ MaxEndpoints \in Nat \ {0} /\ MaxTx \in Nat \ {0}
                            /\ Malformed \in BOOLEAN /\ Breaks \in BOOLEAN

VARIABLE g

Requests == {"getWork", "share", "hashrate"}
Handlers == {"resolved", "unresolved", "connected", "refused", "written", "broken",
             "read", "readErr", "timer", "rotateConnect"}

Clients == [m_connecting : BOOLEAN, session : BOOLEAN, m_txPending : BOOLEAN,
            m_txQueue : Seq(Requests), m_pendingJReq : Requests \union {"none"},
            m_endpoints : 0..MaxEndpoints,
            ops : SUBSET {"resolve", "connect", "write", "read"},
            armed : BOOLEAN, stale : BOOLEAN, queue : Seq(Handlers),
            told : BOOLEAN, gone : BOOLEAN, crashed : BOOLEAN]

GetworkTypeOK == g \in Clients

-----------------------------------------------------------------------------

Crash(x) == [x EXCEPT !.crashed = TRUE]

(* The manager's onDisconnected clears m_conn and posts rotateConnect.     *)
disconnect(x) ==
    [x EXCEPT !.session = FALSE, !.m_connecting = FALSE, !.m_txPending = FALSE,
              !.armed = FALSE, !.m_txQueue = <<>>,
              !.told = TRUE, !.queue = Append(@, "rotateConnect")]

begin_connect(x) == CASE x.m_endpoints > 0 -> [x EXCEPT !.ops = @ \union {"connect"}]
                      [] x.m_endpoints = 0 /\ x.told -> Crash(x)
                      [] OTHER -> disconnect(x)

(* Mutant: m_txPending is not tested.                                       *)
SendAlways(x, r) == begin_connect([x EXCEPT !.m_txQueue = Append(@, r), !.m_txPending = TRUE])

send(x, r) == LET y == [x EXCEPT !.m_txQueue = Append(@, r)]
              IN  IF x.m_txPending THEN y ELSE begin_connect([y EXCEPT !.m_txPending = TRUE])

(* connect(): a name is resolved first, an address is used as it is.       *)
Fresh == [m_connecting |-> TRUE, session |-> FALSE, m_txPending |-> FALSE, m_txQueue |-> <<>>,
          m_pendingJReq |-> "none", m_endpoints |-> 0, ops |-> {}, armed |-> FALSE, stale |-> FALSE,
          queue |-> <<>>, told |-> FALSE, gone |-> FALSE, crashed |-> FALSE]

connect(byName) == IF byName THEN [Fresh EXCEPT !.ops = {"resolve"}]
                             ELSE send([Fresh EXCEPT !.m_endpoints = 1], "getWork")

GetworkInit == \E byName \in BOOLEAN : g = connect(byName)

(* Mutant: one address too many.                                            *)
HandleResolveOneMore(x, n) == IF n > 0 THEN send([x EXCEPT !.m_endpoints = n + 1], "getWork")
                                       ELSE disconnect(x)
handle_resolve(x, n) == CASE n > 0 -> send([x EXCEPT !.m_endpoints = n], "getWork")
                          [] n = 0 /\ x.told -> Crash(x)
                          [] OTHER -> disconnect(x)

(* The first connection opens the session.  One waiting request is taken.  *)
StartsSession(x) == IF x.m_connecting THEN [x EXCEPT !.session = TRUE, !.m_connecting = FALSE, !.stale = FALSE]
                                      ELSE x

handle_connect(x) ==
    LET y == StartsSession(x)
    IN  CASE x.m_txQueue = <<>> -> [y EXCEPT !.m_txPending = FALSE]
          [] x.m_txQueue # <<>> /\ x.told -> Crash(x)
          [] OTHER -> [y EXCEPT !.m_pendingJReq = Head(x.m_txQueue), !.m_txQueue = Tail(@),
                                !.ops = @ \union {"write"}]

(* After a refused connection or a broken one the next address is tried.   *)
NextEndpoint(x) == IF x.told \/ x.m_endpoints = 0 THEN Crash(x)
                   ELSE begin_connect([x EXCEPT !.m_endpoints = @ - 1])

handle_write(x) == [x EXCEPT !.ops = @ \union {"read"}]

-----------------------------------------------------------------------------
(* Answers: to a request for work the job of before, a new one, or one     *)
(* that is the first of the manager's session; an error, an answer without *)
(* the members it must have, a body that is no JSON, or an HTTP failure.   *)
Replies == {"answer", "job", "first", "error", "http"}
             \union (IF Malformed THEN {"malformed", "garbage"} ELSE {})

Rearm(x) == [x EXCEPT !.armed = TRUE]

processResponse(x, reply) ==
    IF x.m_pendingJReq = "getWork" /\ reply \in {"answer", "job", "first", "error"}
      THEN Rearm([x EXCEPT !.stale = @ /\ reply \notin {"job", "first"}])
      ELSE x

(* What handle_read, processResponse and the manager's onWorkReceived name *)
(* the host, or look up the mode of the connection, for: m_conn is null    *)
(* once the manager was told.                                              *)
NeedsConn(x, reply) == \/ reply \in {"http", "malformed"}
                       \/ reply \in {"error", "job"} /\ x.m_pendingJReq = "getWork"

TakesNext(x) == IF x.m_txQueue # <<>> THEN begin_connect(x) ELSE [x EXCEPT !.m_txPending = FALSE]

handle_read(x, reply) == CASE x.told /\ NeedsConn(x, reply) -> Crash(x)
                           [] ~x.told /\ reply = "http" -> disconnect(x)
                           [] OTHER -> TakesNext(processResponse(x, reply))

ReadFails(x) == IF x.told THEN Crash(x) ELSE disconnect(x)

(* A timer that had expired when it was cancelled still runs.              *)
getwork_timer_elapsed(x) == CASE ~x.stale -> send(x, "getWork")
                              [] x.stale /\ x.m_endpoints = 0 -> Crash(x)
                              [] OTHER -> disconnect([x EXCEPT !.m_endpoints = @ - 1])

-----------------------------------------------------------------------------
Alive == ~g.crashed /\ ~g.gone
Runs(h) == Alive /\ g.queue # <<>> /\ Head(g.queue) = h
Rest == [g EXCEPT !.queue = Tail(@)]

Resolved == Runs("resolved") /\ \E n \in 1..MaxEndpoints : g' = handle_resolve(Rest, n)
Unresolved == Runs("unresolved") /\ g' = handle_resolve(Rest, 0)
Connected == Runs("connected") /\ g' = handle_connect(Rest)
Refused == Runs("refused") /\ g' = NextEndpoint(Rest)
Written == Runs("written") /\ g' = handle_write(Rest)
Broken == Runs("broken") /\ g' = NextEndpoint(Rest)
Read == Runs("read") /\ \E reply \in Replies : g' = handle_read(Rest, reply)
ReadFailed == Runs("readErr") /\ g' = ReadFails(Rest)
Timer == Runs("timer") /\ g' = getwork_timer_elapsed(Rest)
RotateConnect == Runs("rotateConnect") /\ g' = [Rest EXCEPT !.gone = TRUE]

GetworkIoStep == \/ Resolved \/ Unresolved \/ Connected \/ Refused \/ Written \/ Broken
                 \/ Read \/ ReadFailed \/ Timer \/ RotateConnect

(* The operating system completes an operation.                            *)
Completions == [resolve |-> {"resolved", "unresolved"}, connect |-> {"connected", "refused"},
                write |-> {"written"} \union (IF Breaks THEN {"broken"} ELSE {}),
                read |-> {"read", "readErr"}]

Completes(op) == /\ Alive /\ op \in g.ops
                 /\ \E h \in Completions[op] :
                       g' = [g EXCEPT !.ops = @ \ {op}, !.queue = Append(@, h)]

TimerExpires == Alive /\ g.armed /\ g' = [g EXCEPT !.armed = FALSE, !.queue = Append(@, "timer")]
WorkIsLate == Alive /\ g.session /\ ~g.stale /\ g' = [g EXCEPT !.stale = TRUE]

submitSolution == Alive /\ g.session /\ Len(g.m_txQueue) < MaxTx /\ g' = send(g, "share")
submitHashrate == Alive /\ g.session /\ Len(g.m_txQueue) < MaxTx /\ g' = send(g, "hashrate")
ManagerDisconnects == Alive /\ g.session /\ g' = disconnect(g)

GetworkNext == \/ GetworkIoStep \/ \E op \in DOMAIN Completions : Completes(op)
               \/ TimerExpires \/ WorkIsLate
               \/ submitSolution \/ submitHashrate \/ ManagerDisconnects

GetworkSpec == GetworkInit /\ [][GetworkNext]_g

-----------------------------------------------------------------------------
(* Properties.                                                             *)

(* The completions that wait in the queue of x, by their places.           *)
IsCompletion(h) == h \notin {"timer", "rotateConnect"}
Completed(x) == {k \in 1..Len(x.queue) : IsCompletion(x.queue[k])}

Idle(x) == x.ops = {} /\ Completed(x) = {}

(* "Whether or not an async socket operation is pending": m_txPending does *)
(* what it is for.  Until the report of the disconnection at most one      *)
(* operation is under way or waits to be handled, and one is while         *)
(* m_txPending is set: the requests of the miners, of the timer and of the *)
(* answers never use the socket at once, and none is left waiting.         *)
OneOperation == ~g.told /\ ~g.crashed =>
    /\ g.m_txPending => ~Idle(g)
    /\ \A a, b \in g.ops : a = b
    /\ \A j, k \in Completed(g) : j = k
    /\ g.ops = {} \/ Completed(g) = {}

(* Polling never stops in a session: a request for work waits or is under  *)
(* way, or the timer that sends it runs ("Otherwise resubmit another       *)
(* getwork request", XcbGetworkClient.cpp:402).                            *)
PollingGoesOn == (g.session /\ ~g.crashed) =>
    \/ g.armed \/ "timer" \in Range(g.queue)
    \/ "getWork" \in Range(g.m_txQueue)
    \/ g.m_pendingJReq = "getWork" /\ ~Idle(g)

==============================================================================
