---------------------------- MODULE StratumClient ----------------------------
(***************************************************************************)
(* One client of a stratum pool (libpoolprotocols/stratum/                 *)
(* XcbStratumClient.cpp) from its connect() until it tells the pool        *)
(* manager that it is disconnected, and until the handlers left over then  *)
(* have run.                                                               *)
(*                                                                         *)
(* The client is one record `c', its handlers are functions of it, and the *)
(* io thread runs those in c.queue in order.  c.ops are the operations     *)
(* started and not yet completed; cancel() or close() complete them with   *)
(* an error, but do not recall a completion that is already in the queue.  *)
(* Jobs, nonces and texts are not modelled; of a transmission the kinds    *)
(* and the order of its messages are.  A pool answers what it was asked,   *)
(* at most once, and may notify at any time.                               *)
(***************************************************************************)
EXTENDS Integers, Sequences, Functions

CONSTANTS TLS,            \* SecLevel() is not NONE
          Version,        \* the flavour the scheme names, Unset if none
          MaxEndpoints,   \* bound: addresses the host name resolves to
          MaxPleas,       \* bound: answers awaited when a solution is sent
          Flavours,       \* the flavours the pool speaks
          EarlyNotify     \* whether the pool may notify before the login

Unset == 4                \* mode 999
Modes == 0..3             \* STRATUM, ETHPROXY, CORESTRATUM, CORESTRATUM2

ASSUME StratumAssumption == /\ TLS \in BOOLEAN /\ EarlyNotify \in BOOLEAN
                            /\ Version \in Modes \union {Unset} /\ Flavours \subseteq Modes
                            /\ MaxEndpoints \in Nat \ {0} /\ MaxPleas \in Nat

VARIABLE c

NoSession == [on |-> FALSE, subscribed |-> FALSE, authorized |-> FALSE, set |-> FALSE]

Handlers == {"resolved", "unresolved", "start_connect", "connected", "refused", "recv", "recvErr",
             "sent", "sendErr", "sendShut", "tick", "fake", "disconnect", "shutdown", "finalize"}

Clients == [mode : Modes \union {Unset}, confirmed : BOOLEAN, unrecoverable : BOOLEAN,
            responds : BOOLEAN,
            m_connecting : BOOLEAN, m_disconnecting : BOOLEAN, m_connected : BOOLEAN,
            m_authpending : BOOLEAN, m_txPending : BOOLEAN, more : BOOLEAN,
            m_socket : {"null", "closed", "open"}, m_endpoints : 0..MaxEndpoints,
            session : [on : BOOLEAN, subscribed : BOOLEAN, authorized : BOOLEAN, set : BOOLEAN],
            pleas : Nat, age : 0..2, stale : BOOLEAN, armed : BOOLEAN,
            ops : SUBSET {"resolve", "connect", "read", "write", "shutdown"},
            queue : Seq(Handlers), told : BOOLEAN, crashed : BOOLEAN,
            asked : SUBSET {"login", "sub", "auth", "work", "share"},
            loginMode : Modes \union {Unset},
            current : 0..2, last : 0..2, tried : SUBSET Modes]

TypeOK == c \in Clients

(* After connect(): a host name is being resolved, an address needs none.  *)
Init == \E byName \in BOOLEAN :
    c = [mode |-> Unset, confirmed |-> FALSE, unrecoverable |-> FALSE, responds |-> FALSE,
         m_connecting |-> FALSE, m_disconnecting |-> FALSE, m_connected |-> FALSE,
         m_authpending |-> FALSE, m_txPending |-> FALSE, more |-> FALSE,
         m_socket |-> "closed", m_endpoints |-> IF byName THEN 0 ELSE 1,
         session |-> NoSession, pleas |-> 0, age |-> 0, stale |-> FALSE, armed |-> TRUE,
         ops |-> IF byName THEN {"resolve"} ELSE {},
         queue |-> IF byName THEN <<>> ELSE <<"start_connect">>,
         told |-> FALSE, crashed |-> FALSE, asked |-> {}, loginMode |-> Unset,
         current |-> 0, last |-> 0, tried |-> {}]

-----------------------------------------------------------------------------
(* Helpers of the handlers.  `x' is the client.                            *)

isPendingState(x) == x.m_connecting \/ x.m_disconnecting
isConnected(x) == x.m_connected /\ ~isPendingState(x)

Crash(x) == [x EXCEPT !.crashed = TRUE]
Post(x, h) == [x EXCEPT !.queue = Append(@, h)]

enqueue_response_plea(x) == [x EXCEPT !.pleas = @ + 1, !.age = IF x.pleas = 0 THEN 0 ELSE @]
(* Mutant: counts an answer nobody awaits.                                  *)
DequeueUnchecked(x) == [x EXCEPT !.pleas = @ - 1]
dequeue_response_plea(x) == [x EXCEPT !.pleas = IF @ > 0 THEN @ - 1 ELSE 0]
clear_response_pleas(x) == [x EXCEPT !.pleas = 0, !.age = 0]

(* The handlers with which cancelled operations complete.                  *)
Aborted(ops) == (IF "read" \in ops THEN <<"recvErr">> ELSE <<>>)
                  \o (IF "write" \in ops THEN <<"sendErr">> ELSE <<>>)
                  \o (IF "connect" \in ops THEN <<"refused">> ELSE <<>>)
                  \o (IF "shutdown" \in ops THEN <<"shutdown">> ELSE <<>>)

CancelOps(x) == [x EXCEPT !.queue = @ \o Aborted(x.ops), !.ops = @ \intersect {"resolve"}]
CloseSocket(x) == [CancelOps(x) EXCEPT !.m_socket = "closed"]

sendSocketData(x) == IF isConnected(x) /\ x.more
                       THEN [x EXCEPT !.more = FALSE, !.ops = @ \union {"write"}]
                       ELSE [x EXCEPT !.more = FALSE, !.m_txPending = FALSE]

send(x) == IF x.m_txPending THEN [x EXCEPT !.more = TRUE]
                            ELSE sendSocketData([x EXCEPT !.more = TRUE, !.m_txPending = TRUE])

recvSocketData(x) == [x EXCEPT !.ops = @ \union {"read"}]

-----------------------------------------------------------------------------
(* Disconnection.                                                          *)

(* Mutant: the flavour stays.                                               *)
SameFlavour(x) == x
NextFlavour(x) == [x EXCEPT !.mode = @ - 1]

(* While the flavour is being detected the next one is tried and nobody is *)
(* told.  The manager's onDisconnected clears m_conn: what runs afterwards *)
(* and needs it ends the program.                                          *)
disconnect_finalize(x) ==
    LET y == [x EXCEPT !.m_socket = "null", !.session = NoSession, !.m_authpending = FALSE,
                       !.m_disconnecting = FALSE, !.m_txPending = FALSE]
        detecting == ~x.unrecoverable /\ ~x.confirmed /\ x.responds
    IN  CASE x.told -> Crash(x)
          [] ~x.told /\ detecting /\ x.mode > 0 -> Post(NextFlavour(y), "start_connect")
          [] OTHER -> [clear_response_pleas(y) EXCEPT !.unrecoverable = @ \/ detecting,
                                                      !.armed = FALSE, !.told = TRUE]

(* Mutant: the flag is not tested.                                          *)
NeverDisconnecting(x) == FALSE
IsDisconnecting(x) == x.m_disconnecting

(* cancel() of a closed socket throws.                                     *)
disconnect(x) ==
    LET y == [x EXCEPT !.m_connected = FALSE, !.m_disconnecting = TRUE]
    IN  CASE IsDisconnecting(x) -> x
          [] ~IsDisconnecting(x) /\ x.m_socket = "open" /\ TLS ->
               enqueue_response_plea([CancelOps(y) EXCEPT !.ops = @ \union {"shutdown"}])
          [] ~IsDisconnecting(x) /\ x.m_socket = "open" /\ ~TLS -> disconnect_finalize(CloseSocket(y))
          [] ~IsDisconnecting(x) /\ x.m_socket = "closed" -> Crash(x)
          [] OTHER -> disconnect_finalize(y)

onSSLShutdownCompleted(x) == Post(clear_response_pleas(x), "finalize")

-----------------------------------------------------------------------------
(* Connection.                                                             *)

(* Mutant: a failure is not reported.                                       *)
ResolveHandlerSilent(x, n) == IF n > 0 THEN Post([x EXCEPT !.m_endpoints = n], "start_connect")
                                       ELSE [x EXCEPT !.m_connecting = FALSE]
resolve_handler(x, n) == IF n > 0 THEN Post([x EXCEPT !.m_endpoints = n], "start_connect")
                                  ELSE disconnect_finalize([x EXCEPT !.m_connecting = FALSE])

start_connect(x) ==
    CASE x.m_connecting -> x
      [] ~x.m_connecting /\ x.told -> Crash(x)
      [] ~x.m_connecting /\ ~x.told /\ x.m_endpoints > 0 ->
           enqueue_response_plea([clear_response_pleas(x) EXCEPT
               !.m_connecting = TRUE, !.m_socket = "open", !.ops = @ \union {"connect"}])
      [] OTHER -> disconnect_finalize(x)

(* The first message, by which the flavour is negotiated.                  *)
Login(x) == LET mode == IF Version # Unset THEN Version ELSE IF x.mode = Unset THEN 3 ELSE x.mode
            IN  send(enqueue_response_plea(recvSocketData([clear_response_pleas(x) EXCEPT
                    !.mode = mode, !.confirmed = @ \/ Version # Unset,
                    !.tried = @ \union {mode}, !.asked = {"login"}, !.loginMode = mode])))

connect_handler(x, ok, handshake) ==
    LET y == [x EXCEPT !.m_connecting = FALSE]
        linked == [y EXCEPT !.responds = TRUE, !.m_connected = TRUE, !.more = FALSE]
        failed == ~ok \/ x.m_socket # "open"
    IN  CASE x.m_socket = "null" \/ (failed /\ x.m_endpoints = 0) -> Crash(x)
          [] x.m_socket # "null" /\ failed /\ x.m_endpoints > 0 ->
               Post([CloseSocket(y) EXCEPT !.m_endpoints = @ - 1], "start_connect")
          [] ~failed /\ TLS /\ ~handshake ->
               Post([linked EXCEPT !.unrecoverable = TRUE], "disconnect")
          [] OTHER -> Login(linked)

-----------------------------------------------------------------------------
(* The workloop timer.  m_response_plea_older is of age 2 when it is       *)
(* m_responsetimeout ago; that is at least two seconds, so that the timer, *)
(* while it is armed, expires once (age 1) before.  `stale' says that the  *)
(* last job is m_worktimeout ago.                                          *)

IsLate(x) == x.age = 2

Rearm(x) == [x EXCEPT !.armed = TRUE]

GivesUpEndpoint(x) ==
    IF x.m_endpoints = 0 THEN Crash(x)
    ELSE Post(clear_response_pleas([x EXCEPT !.m_endpoints = @ - 1]), "disconnect")

(* What is late while linked.                                              *)
LateResponse(x) ==
    CASE IsLate(x) /\ ~x.confirmed /\ ~x.unrecoverable -> Post(clear_response_pleas(x), "fake")
      [] IsLate(x) /\ (x.confirmed \/ x.unrecoverable) -> GivesUpEndpoint(x)
      [] ~IsLate(x) /\ x.session.on /\ x.stale -> GivesUpEndpoint(x)
      [] OTHER -> x

(* The test is as the code has it: the sockets are closed while the answer *)
(* is NOT late, and the timer is then left unarmed.                        *)
Closes(x) == /\ x.pleas > 0 /\ ~IsLate(x)
             /\ x.m_connecting \/ (x.m_disconnecting /\ TLS /\ x.m_socket = "open")

workloop_timer_elapsed(x, quiet) ==
    LET y == IF x.mode = 3 /\ x.session.on /\ quiet THEN send(x) ELSE x
    IN  CASE x.told -> x
          [] ~x.told /\ Closes(y) -> CloseSocket(y)
          [] ~x.told /\ ~Closes(y) /\ y.pleas > 0 /\ isConnected(y) -> Rearm(LateResponse(y))
          [] OTHER -> Rearm(y)

-----------------------------------------------------------------------------
(* Messages of the pool.  A message m is the n-th of its transmission.     *)

Answered(x, a) == [x EXCEPT !.asked = @ \ {a}]
Asks(x, a) == send([x EXCEPT !.asked = @ \union {a}])
AsksAwaited(x, a) == Asks(enqueue_response_plea(x), a)
Unusable(x) == Post([x EXCEPT !.unrecoverable = TRUE], "disconnect")

startSession(x) == [x EXCEPT !.session = [NoSession EXCEPT !.on = TRUE], !.stale = FALSE]

LoginRefused(x) == Post([dequeue_response_plea(x) EXCEPT !.unrecoverable = @ \/ x.confirmed], "disconnect")

LoginAccepted(x) ==
    LET y == startSession([dequeue_response_plea(x) EXCEPT !.confirmed = TRUE])
    IN  CASE x.mode = 3 -> AsksAwaited(y, "sub")
          [] x.mode = 2 -> AsksAwaited([send(y) EXCEPT !.session.subscribed = TRUE, !.m_authpending = TRUE], "auth")
          [] x.mode = 1 -> Asks([y EXCEPT !.session.subscribed = TRUE, !.session.authorized = TRUE], "work")
          [] x.mode = 0 -> AsksAwaited([y EXCEPT !.session.subscribed = TRUE, !.m_authpending = TRUE], "auth")

Subscribed(x) == IF ~x.session.on THEN Crash(x)
                 ELSE AsksAwaited([dequeue_response_plea(x) EXCEPT !.session.subscribed = TRUE,
                                                                   !.m_authpending = TRUE], "auth")

(* Mutant: the authorisation stays pending.                                 *)
AuthorizedYetPending(x) == IF ~x.session.on THEN Crash(x)
                           ELSE [dequeue_response_plea(x) EXCEPT !.session.authorized = TRUE]
Authorized(x) == IF ~x.session.on THEN Crash(x)
                 ELSE [dequeue_response_plea(x) EXCEPT !.session.authorized = TRUE, !.m_authpending = FALSE]

NotAuthorized(x) ==
    CASE x.mode = 3 -> Unusable(dequeue_response_plea(x))
      [] x.mode # 3 /\ ~x.session.on -> Crash(x)
      [] OTHER -> Unusable([dequeue_response_plea(x) EXCEPT !.session.authorized = FALSE,
                                                            !.m_authpending = FALSE])

(* An error under the identifier 999 stands for any request.               *)
UnknownRefused(x) == IF ~x.confirmed \/ ~x.session.subscribed \/ ~x.session.authorized
                       THEN Post(x, "disconnect") ELSE x

NewJob(x, n) == [x EXCEPT !.current = n, !.stale = FALSE]

NotifyV1(x, n) == IF x.session.subscribed /\ x.current = 0 THEN NewJob(x, n) ELSE x
NotifyV2(x, n) == IF x.session.set THEN NewJob(x, n) ELSE x

notify(x, n) == LET y == [x EXCEPT !.last = n]
                IN  IF x.mode = 3 THEN NotifyV2(y, n) ELSE NotifyV1(y, n)

MiningSet(x) == CASE x.mode \in {2, 3} /\ ~x.session.on -> Crash(x)
                  [] x.mode \in {2, 3} /\ x.session.on -> [x EXCEPT !.session.set = @ \/ x.mode = 3]
                  [] OTHER -> send(x)

Notification(x, m, n) == CASE ~x.confirmed -> x
                           [] x.confirmed /\ m = "notify" -> notify(x, n)
                           [] x.confirmed /\ m = "set" -> MiningSet(x)
                           [] x.confirmed /\ m = "bye" /\ x.mode = 3 -> Post(x, "disconnect")
                           [] OTHER -> send(x)

Answer(x, m, n) ==
    CASE m = "login" -> LoginAccepted(Answered(x, "login"))
      [] m = "loginBad" -> LoginRefused(Answered(x, "login"))
      [] m = "sub" -> Subscribed(Answered(x, "sub"))
      [] m = "subBad" -> Unusable(dequeue_response_plea(Answered(x, "sub")))
      [] m = "auth" -> Authorized(Answered(x, "auth"))
      [] m = "authBad" -> NotAuthorized(Answered(x, "auth"))
      [] m = "share" -> dequeue_response_plea(Answered(x, "share"))
      [] m = "work" -> Notification(Answered(x, "work"), "notify", n)
      [] m = "err999" -> UnknownRefused([x EXCEPT !.asked = {}])

Notifications == {"notify", "set", "bye", "other"}

processResponse(x, m, n) == CASE x.crashed -> x
                              [] ~x.crashed /\ x.told -> Crash(x)
                              [] ~x.crashed /\ ~x.told /\ m = "invalid" -> Post(x, "disconnect")
                              [] ~x.crashed /\ ~x.told /\ m \in Notifications -> Notification(x, m, n)
                              [] OTHER -> Answer(x, m, n)

(* What the pool may send now: answers to what it was asked, and notices.  *)
Accepts(x, a, m) == IF a \in x.asked THEN {m} ELSE {}

(* The login of one flavour may be answered when the client is at another: *)
(* modes 0 and 1 take any answer but an error.                             *)
LoginFits(x) == x.loginMode \in Flavours /\ x.mode \in {x.loginMode, 0, 1}

Messages(x) ==
    Accepts(x, "login", IF LoginFits(x) THEN "login" ELSE "loginBad")
      \union Accepts(x, "sub", "sub") \union Accepts(x, "sub", "subBad")
      \union Accepts(x, "auth", "auth") \union Accepts(x, "auth", "authBad")
      \union Accepts(x, "share", "share") \union Accepts(x, "work", "work")
      \union (IF x.asked \intersect {"login", "sub", "auth"} # {} THEN {"err999"} ELSE {})
      \union (IF EarlyNotify \/ x.session.on THEN Notifications \union {"invalid"} ELSE {})

Request == [login |-> "login", loginBad |-> "login", sub |-> "sub", subBad |-> "sub",
            auth |-> "auth", authBad |-> "auth", share |-> "share", work |-> "work"]

(* A transmission of one line or two, or of none that matters.             *)
Transmissions(x) ==
    (IF Messages(x) = {} THEN {<<>>} ELSE {}) \union {<<m>> : m \in Messages(x)}
      \union {s \in Messages(x) \X Messages(x) :
                s[1] \in Notifications \/ (s[1] \in DOMAIN Request /\ s[2] \notin DOMAIN Request)}

Processed(x, s) == CASE Len(s) = 0 -> x
                     [] Len(s) = 1 -> processResponse(x, s[1], 1)
                     [] Len(s) = 2 -> processResponse(processResponse(x, s[1], 1), s[2], 2)

(* Mutant: a job ends the reading.                                          *)
ReadsNoMoreAfterJob(x) == IF isConnected(x) /\ x.current = 0 THEN recvSocketData(x) ELSE x
KeepsReading(x) == IF isConnected(x) THEN recvSocketData(x) ELSE x

(* m_newjobprocessed is that x.current is not 0: m_current is dispatched.  *)
onRecvSocketDataCompleted(x, s) == KeepsReading(Processed([x EXCEPT !.current = 0, !.last = 0], s))

RecvFails(x) == CASE ~isConnected(x) -> x
                  [] isConnected(x) /\ x.m_authpending -> Unusable(x)
                  [] OTHER -> Post(x, "disconnect")

onSendSocketDataCompleted(x) == IF x.more THEN sendSocketData(x) ELSE [x EXCEPT !.m_txPending = FALSE]

(* A write that failed because TLS is shut down asks for a disconnection   *)
(* whether or not the client is connected, and once more if it is.         *)
SendFails(x, shut) ==
    LET y == [x EXCEPT !.more = FALSE, !.m_txPending = FALSE]
        z == IF shut THEN Post(y, "disconnect") ELSE y
    IN  IF isConnected(x) THEN Post(z, "disconnect") ELSE z

-----------------------------------------------------------------------------
(* The io thread runs the first handler.                                   *)
Runs(h) == ~c.crashed /\ c.queue # <<>> /\ Head(c.queue) = h
Rest == [c EXCEPT !.queue = Tail(@)]

Resolved == Runs("resolved") /\ \E n \in 1..MaxEndpoints : c' = resolve_handler(Rest, n)
Unresolved == Runs("unresolved") /\ c' = resolve_handler(Rest, 0)
StartConnect == Runs("start_connect") /\ c' = start_connect(Rest)
Connected == Runs("connected") /\ \E handshake \in BOOLEAN : c' = connect_handler(Rest, TRUE, handshake)
Refused == Runs("refused") /\ c' = connect_handler(Rest, FALSE, FALSE)
Received == Runs("recv") /\ \E s \in Transmissions(c) : c' = onRecvSocketDataCompleted(Rest, s)
ReceiveFailed == Runs("recvErr") /\ c' = RecvFails(Rest)
Sent == Runs("sent") /\ c' = onSendSocketDataCompleted(Rest)
SendFailed == Runs("sendErr") /\ c' = SendFails(Rest, FALSE)
SendShut == Runs("sendShut") /\ c' = SendFails(Rest, TRUE)
Tick == Runs("tick") /\ \E quiet \in BOOLEAN : c' = workloop_timer_elapsed(Rest, quiet)
FakeResponse == Runs("fake") /\ c' = IF c.told THEN Crash(Rest) ELSE LoginRefused(Rest)
Disconnect == Runs("disconnect") /\ c' = disconnect(Rest)
ShutdownCompleted == Runs("shutdown") /\ c' = onSSLShutdownCompleted(Rest)
Finalize == Runs("finalize") /\ c' = disconnect_finalize(Rest)

IoStep == \/ Resolved \/ Unresolved \/ StartConnect \/ Connected \/ Refused
          \/ Received \/ ReceiveFailed \/ Sent \/ SendFailed \/ SendShut
          \/ Tick \/ FakeResponse \/ Disconnect \/ ShutdownCompleted \/ Finalize

(* The operating system completes an operation.                            *)
Completions == [resolve |-> {"resolved", "unresolved"}, connect |-> {"connected", "refused"},
                read |-> {"recv", "recvErr"}, shutdown |-> {"shutdown"},
                write |-> {"sent", "sendErr"} \union (IF TLS THEN {"sendShut"} ELSE {})]

Completes(op) == /\ ~c.crashed /\ op \in c.ops
                 /\ \E h \in Completions[op] :
                       c' = Post([c EXCEPT !.ops = @ \ {op}], h)

TimerExpires == /\ ~c.crashed /\ c.armed
                /\ c' = Post([c EXCEPT !.armed = FALSE, !.age = IF @ = 0 /\ c.pleas > 0 THEN 1 ELSE @], "tick")

ResponseIsLate == /\ ~c.crashed /\ c.pleas > 0 /\ ~IsLate(c)
                  /\ c.age = 1 \/ ~(c.armed \/ "tick" \in Range(c.queue))
                  /\ c' = [c EXCEPT !.age = 2]

WorkIsLate == ~c.crashed /\ c.session.on /\ ~c.stale /\ c' = [c EXCEPT !.stale = TRUE]

(* What the pool manager calls: solutions and hash rates go to a session,  *)
(* while stop() tests no more than isConnected().                          *)
InSession == ~c.crashed /\ c.session.on /\ isConnected(c)

submitSolution == /\ InSession /\ c.session.authorized /\ c.pleas < MaxPleas
                  /\ "share" \notin c.asked /\ c' = AsksAwaited(c, "share")
submitHashrate == InSession /\ ~c.more /\ c' = send(c)
ManagerDisconnects == ~c.crashed /\ isConnected(c) /\ c' = disconnect(c)

Next == \/ IoStep \/ \E op \in DOMAIN Completions : Completes(op)
        \/ TimerExpires \/ ResponseIsLate \/ WorkIsLate
        \/ submitSolution \/ submitHashrate \/ ManagerDisconnects

Spec == Init /\ [][Next]_c

(* The io thread, the timer and the clock go on, and the operating system  *)
(* ends what the peer cannot hold up.                                      *)
Fairness == /\ WF_c(IoStep) /\ WF_c(TimerExpires) /\ WF_c(ResponseIsLate)
            /\ \A op \in {"resolve", "connect", "write"} : WF_c(Completes(op))

LiveSpec == Spec /\ Fairness

(* The same with a pool and a peer that answer.                            *)
AnsweredSpec == LiveSpec /\ WF_c(Completes("read")) /\ WF_c(Completes("shutdown"))

-----------------------------------------------------------------------------
(* Properties.                                                             *)

(* While a client has not reported its disconnection, a handler is queued  *)
(* or an operation is under way: no early return of a handler strands the  *)
(* manager, which waits for the report with m_async_pending set.           *)
NeverStranded == ~c.told /\ ~c.crashed => c.queue # <<>> \/ c.ops # {}

(* A linked client reads from its socket, or is about to disconnect: every *)
(* path through onRecvSocketDataCompleted starts the next read.            *)
LinkIsWatched == isConnected(c) /\ ~c.crashed =>
    "read" \in c.ops \/ Range(c.queue) \intersect {"recv", "recvErr", "disconnect"} # {}

(* A pool that has authorised the session stays usable: whatever arrives,  *)
(* fails or expires later on, in whichever order, MarkUnrecoverable() is   *)
(* called no more.  The one exception is the error the client sends to     *)
(* itself when a login is late (the case of AcceptedIsKept).               *)
AuthorizedIsKept == [][c.session.authorized /\ ~FakeResponse => c'.unrecoverable = c.unrecoverable]_c

(* "Waiting for a response from pool to a login request": the error which  *)
(* the client sends to itself stands for a missing answer, so it refuses   *)
(* no login that has been answered.                                        *)
AcceptedIsKept == [][FakeResponse => ~c.session.on]_c

(* "Autodetection process passes all known stratum modes": a pool is given *)
(* up for want of a flavour only when all were tried on it.                *)
AllModesTried == [][~c.told /\ c'.told /\ ~c.unrecoverable /\ c'.unrecoverable => c.tried = Modes]_c

(* "As multiple jobs may come in with a single transmission only the last  *)
(* will be dispatched".                                                    *)
LastIsDispatched == c.current # 0 => c.current = c.last

(* No handler runs into what a disconnection or a missing session left     *)
(* null.                                                                   *)
NoNullDereference == ~c.crashed

(* "Check status of connection before triggering all stack of calls": what *)
(* is read by the time the client is disconnected changes nothing.         *)
LateDataIsDropped ==
    [][Received /\ ~isConnected(c) => c' = [Rest EXCEPT !.current = 0, !.last = 0]]_c

(* With a pool that answers, a connection attempt ends: in a session or in *)
(* the report that it is over.  Autodetection does not go round forever.   *)
Settles == <>(c.session.on \/ c.told \/ c.crashed)

(* A login that nobody answers is given up.                                *)
LoginIsBounded == (isConnected(c) /\ "login" \in c.asked) ~>
                     (~isConnected(c) \/ "login" \notin c.asked \/ c.crashed)

(* A TLS shutdown that the peer does not answer is given up.               *)
ShutdownIsBounded == c.m_disconnecting ~> (~c.m_disconnecting \/ c.crashed)

(* The phase the pool manager sees.                                        *)
Phase == CASE c.told -> "closed"
           [] ~c.told /\ c.m_disconnecting -> "shutdown"
           [] ~c.told /\ ~c.m_disconnecting /\ c.m_connected /\ c.session.on -> "session"
           [] ~c.told /\ ~c.m_disconnecting /\ c.m_connected /\ ~c.session.on -> "linked"
           [] OTHER -> "dialing"

Abstract == INSTANCE PoolClient WITH
    st <- Phase, responds <- c.responds, mode <- c.mode, confirmed <- c.confirmed,
    unrecoverable <- c.unrecoverable

(* The client keeps the promise PoolClient makes to the pool manager.      *)
ImplementsPoolClient == Abstract!Spec

==============================================================================
