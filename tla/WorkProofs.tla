-------------------------------- MODULE WorkProofs ---------------------------
(***************************************************************************)
(* The way of the work to the miners, for any constants: the getwork       *)
(* client has one socket operation at a time, and the farm hands each work *)
(* over to every miner.                                                    *)
(***************************************************************************)
EXTENDS GetworkClient, Farm, TLAPS

(* What is under way before the session is the resolution of the name: no  *)
(* request can be made, since there is no session and no timer.            *)
Resolving(x) == /\ ~x.session /\ ~x.armed /\ ~x.m_txPending
                /\ x.ops \subseteq {"resolve"}
                /\ \A k \in 1..Len(x.queue) : x.queue[k] \in {"resolved", "unresolved"}

NoResolution(x) == /\ "resolve" \notin x.ops
                   /\ \A k \in 1..Len(x.queue) : x.queue[k] \notin {"resolved", "unresolved"}

Serial(x) == /\ \A a, b \in x.ops : a = b
             /\ \A j, k \in Completed(x) : j = k
             /\ x.ops = {} \/ Completed(x) = {}

(* m_txPending is set exactly while an operation other than the resolution *)
(* is under way or waits to be handled.                                    *)
Good(x) == /\ Serial(x)
           /\ x.m_txPending => ~Idle(x) /\ NoResolution(x)
           /\ ~x.m_txPending => Idle(x) \/ Resolving(x)

OpInv(x) == x \in Clients /\ (x.told \/ x.crashed \/ Good(x))

(* A crash keeps the invariant of the operations.                          *)
LEMMA CrashKeeps == ASSUME NEW x \in Clients PROVE OpInv(Crash(x))
BY Zenon DEF Crash, OpInv, Clients

(* A disconnection, after which the client is told, keeps the invariant of *)
(* the operations.                                                         *)
LEMMA DisconnectKeeps == ASSUME NEW x \in Clients PROVE OpInv(disconnect(x))
<1>a. x.queue \in Seq(Handlers) /\ "rotateConnect" \in Handlers BY DEF Clients, Handlers
<1>b. Append(x.queue, "rotateConnect") \in Seq(Handlers) BY <1>a
<1>c. <<>> \in Seq(Requests) OBVIOUS
<1>1. disconnect(x) \in Clients BY Zenon, <1>b, <1>c DEF disconnect, Clients
<1>2. disconnect(x).told BY DEF disconnect, Clients
<1> QED BY <1>1, <1>2 DEF OpInv

(* A connection is begun when nothing else is under way.                   *)
LEMMA BeginConnectKeeps == ASSUME NEW x \in Clients, Idle(x), x.m_txPending
                           PROVE  OpInv(begin_connect(x))
<1>1. CASE x.m_endpoints > 0
  <2> DEFINE y == [x EXCEPT !.ops = @ \union {"connect"}]
  <2>1. begin_connect(x) = y BY <1>1 DEF begin_connect
  <2>2. y \in Clients BY DEF Clients
  <2>3. y.ops = {"connect"} /\ y.queue = x.queue /\ y.m_txPending = x.m_txPending
    BY Zenon DEF Clients, Idle
  <2>4. Completed(y) = {} BY <2>3 DEF Idle, Completed
  <2>5. \A k \in 1..Len(x.queue) : ~IsCompletion(x.queue[k]) BY DEF Idle, Completed
  <2>6. NoResolution(y) BY <2>3, <2>5 DEF NoResolution, IsCompletion
  <2>7. Good(y) BY <2>3, <2>4, <2>6 DEF Good, Serial, Idle
  <2> QED BY <2>1, <2>2, <2>7 DEF OpInv
<1>2. CASE x.m_endpoints = 0 /\ x.told
  BY <1>2, CrashKeeps DEF begin_connect
<1>3. CASE x.m_endpoints = 0 /\ ~x.told
  BY <1>3, DisconnectKeeps DEF begin_connect
<1> QED BY <1>1, <1>2, <1>3 DEF Clients

(* Afterwards nothing is claimed.                                          *)
LEMMA BeginConnectAny == ASSUME NEW x \in Clients, x.told \/ x.crashed
                         PROVE  OpInv(begin_connect(x))
<1>1. CASE x.m_endpoints > 0
  <2> DEFINE y == [x EXCEPT !.ops = @ \union {"connect"}]
  <2>1. begin_connect(x) = y BY <1>1 DEF begin_connect
  <2>2. y \in Clients /\ y.told = x.told /\ y.crashed = x.crashed BY DEF Clients
  <2> QED BY <2>1, <2>2 DEF OpInv
<1>2. CASE x.m_endpoints = 0 /\ x.told
  BY <1>2, CrashKeeps DEF begin_connect
<1>3. CASE x.m_endpoints = 0 /\ ~x.told
  BY <1>3, DisconnectKeeps DEF begin_connect
<1> QED BY <1>1, <1>2, <1>3 DEF Clients

(* send: the test of m_txPending is what keeps operations apart.           *)
LEMMA SendKeeps == ASSUME NEW x \in Clients, NEW r \in Requests,
                          x.told \/ x.crashed \/ Good(x),
                          ~x.told /\ ~x.crashed /\ ~x.m_txPending => Idle(x)
                   PROVE  OpInv(send(x, r))
<1> DEFINE y == [x EXCEPT !.m_txQueue = Append(@, r)]
           z == [y EXCEPT !.m_txPending = TRUE]
<1>a. x.m_txQueue \in Seq(Requests) BY DEF Clients
<1>b. Append(x.m_txQueue, r) \in Seq(Requests) BY <1>a
<1>c. y \in Clients BY Zenon, <1>b DEF Clients
<1>d. z \in Clients BY Zenon, <1>c DEF Clients
<1>1. y \in Clients /\ z \in Clients BY <1>c, <1>d
<1>2. /\ y.ops = x.ops /\ y.queue = x.queue /\ y.m_txPending = x.m_txPending
      /\ y.told = x.told /\ y.crashed = x.crashed /\ y.session = x.session /\ y.armed = x.armed
      /\ z.ops = x.ops /\ z.queue = x.queue /\ z.m_txPending
      /\ z.told = x.told /\ z.crashed = x.crashed
  BY DEF Clients
<1>3. Completed(y) = Completed(x) /\ Completed(z) = Completed(x)
  BY <1>2 DEF Completed
<1>4. CASE x.m_txPending
  <2>1. send(x, r) = y BY <1>4 DEF send
  <2>2. Good(x) => Good(y)
    BY ZenonT(60), <1>2, <1>3 DEF Good, Serial, Idle, Resolving, NoResolution
  <2> QED BY <1>1, <1>2, <2>1, <2>2 DEF OpInv
<1>5. CASE ~x.m_txPending
  <2>1. send(x, r) = begin_connect(z) BY <1>5 DEF send
  <2>2. CASE ~x.told /\ ~x.crashed
    <3>1. Idle(z) BY <1>2, <1>3, <1>5, <2>2 DEF Idle
    <3> QED BY Zenon, <1>1, <1>2, <2>1, <3>1, BeginConnectKeeps
  <2>3. CASE x.told \/ x.crashed
    <3>1. z.told \/ z.crashed BY <1>2, <2>3
    <3> QED BY Zenon, <1>1, <2>1, <3>1, BeginConnectAny
  <2> QED BY <2>2, <2>3
<1> QED BY <1>4, <1>5

(* After a completion is taken from the queue nothing is under way; after  *)
(* the timer or the report is, as much as before.                          *)
LEMMA RestIsIdle == ASSUME OpInv(g), NEW h, Runs(h), IsCompletion(h)
                    PROVE  /\ Rest \in Clients
                           /\ ~g.told => Idle(Rest)
                           /\ Rest.told = g.told /\ Rest.crashed = g.crashed
                           /\ ~g.told => Rest.m_txPending = (h \notin {"resolved", "unresolved"})
<1>1. g \in Clients /\ g.queue \in Seq(Handlers) /\ g.queue # <<>> /\ Head(g.queue) = h
  BY DEF OpInv, Clients, Runs
<1>2. Tail(g.queue) \in Seq(Handlers) BY <1>1
<1>3. Rest \in Clients /\ Rest.queue = Tail(g.queue) /\ Rest.ops = g.ops /\ Rest.told = g.told
      /\ Rest.crashed = g.crashed /\ Rest.m_txPending = g.m_txPending
  BY Zenon, <1>1, <1>2 DEF Rest, Clients
<1>4. ASSUME ~g.told PROVE Idle(Rest)
  <2>1. Serial(g) BY <1>4 DEF OpInv, Good, Runs, Alive
  <2>2. 1 \in Completed(g) BY <1>1 DEF Completed
  <2>3. g.ops = {} BY <2>1, <2>2 DEF Serial
  <2>4. ASSUME NEW k \in Completed(Rest) PROVE FALSE
    <3>1. k \in 1..Len(Tail(g.queue)) /\ IsCompletion(Tail(g.queue)[k]) BY <1>3 DEF Completed
    <3>2. k + 1 \in 1..Len(g.queue) /\ Tail(g.queue)[k] = g.queue[k + 1] BY <1>1, <3>1
    <3>3. k + 1 \in Completed(g) BY <3>1, <3>2 DEF Completed
    <3> QED BY <2>1, <2>2, <3>1, <3>3 DEF Serial
  <2> QED BY <1>3, <2>3, <2>4 DEF Idle
<1>5. ASSUME ~g.told PROVE Rest.m_txPending = (h \notin {"resolved", "unresolved"})
  <2>1. Good(g) BY <1>5 DEF OpInv, Runs, Alive
  <2>2. 1 \in 1..Len(g.queue) /\ g.queue[1] = h BY <1>1
  <2>3. ~Idle(g) BY <2>2 DEF Idle, Completed
  <2>4. CASE g.m_txPending
    <3>1. NoResolution(g) BY <2>1, <2>4 DEF Good
    <3> QED BY Zenon, <1>3, <2>2, <2>4, <3>1 DEF NoResolution
  <2>5. CASE ~g.m_txPending
    <3>1. Resolving(g) BY <2>1, <2>3, <2>5 DEF Good
    <3>2. h \in {"resolved", "unresolved"} BY <2>2, <3>1 DEF Resolving
    <3> QED BY <1>1, <1>3, <2>5, <3>2 DEF Clients
  <2> QED BY <2>4, <2>5
<1> QED BY <1>3, <1>4, <1>5

(* Taking a handler that completes nothing off the queue changes no        *)
(* operation.                                                              *)
LEMMA RestIsAsBefore == ASSUME OpInv(g), NEW h, Runs(h), ~IsCompletion(h)
                        PROVE  /\ OpInv(Rest)
                               /\ ~g.told /\ ~g.m_txPending => Idle(Rest)
<1>1. g \in Clients /\ g.queue \in Seq(Handlers) /\ g.queue # <<>> /\ Head(g.queue) = h
  BY DEF OpInv, Clients, Runs
<1>2. Tail(g.queue) \in Seq(Handlers) BY <1>1
<1>3. Rest \in Clients /\ Rest.queue = Tail(g.queue) /\ Rest.ops = g.ops /\ Rest.told = g.told
      /\ Rest.crashed = g.crashed /\ Rest.m_txPending = g.m_txPending
  BY Zenon, <1>1, <1>2 DEF Rest, Clients
<1>4. \A k \in 1..Len(Rest.queue) : k + 1 \in 1..Len(g.queue) /\ Rest.queue[k] = g.queue[k + 1]
  BY <1>1, <1>3
<1>5. \A k \in Completed(Rest) : k \in Nat /\ k + 1 \in Completed(g)
  BY <1>4 DEF Completed
<1>6. \A k \in Completed(g) : k \in Nat /\ k - 1 \in Completed(Rest)
  <2> TAKE k \in Completed(g)
  <2>1. k \in 1..Len(g.queue) /\ IsCompletion(g.queue[k]) BY DEF Completed
  <2>2. k # 1 BY <1>1, <2>1
  <2>3. k - 1 \in 1..Len(Tail(g.queue)) /\ Tail(g.queue)[k - 1] = g.queue[k] BY <1>1, <2>1, <2>2
  <2> QED BY <1>3, <2>1, <2>3 DEF Completed
<1>7. ASSUME ~g.told PROVE Good(Rest) /\ (~g.m_txPending => Idle(Rest))
  <2>1. Good(g) BY <1>7 DEF OpInv, Runs, Alive
  <2>2. ~Resolving(g)
    BY <1>1 DEF Resolving, IsCompletion
  <2>3. Completed(g) = {} <=> Completed(Rest) = {} BY <1>5, <1>6
  <2>4. Idle(g) <=> Idle(Rest) BY <1>3, <2>3 DEF Idle
  <2>5. Serial(Rest)
    BY <1>3, <1>5, <2>1, <2>3 DEF Good, Serial
  <2>6. NoResolution(g) => NoResolution(Rest) BY <1>3, <1>4 DEF NoResolution
  <2> QED BY <1>3, <2>1, <2>2, <2>4, <2>5, <2>6 DEF Good
<1> QED BY <1>3, <1>7 DEF OpInv

-----------------------------------------------------------------------------
(* The handlers, from a client x whose completion was taken.               *)

Taken(x, pending) == x \in Clients /\ (x.told \/ (Idle(x) /\ x.m_txPending = pending))

(* The number of endpoints resolved bears on no operation.                 *)
LEMMA EndpointsKeep == ASSUME NEW x \in Clients, NEW n \in 0..MaxEndpoints
                       PROVE  LET y == [x EXCEPT !.m_endpoints = n]
                              IN  /\ y \in Clients /\ (Idle(x) => Idle(y))
                                  /\ y.told = x.told /\ y.m_txPending = x.m_txPending
<1> DEFINE y == [x EXCEPT !.m_endpoints = n]
<1>1. y \in Clients /\ y.ops = x.ops /\ y.queue = x.queue /\ y.told = x.told
      /\ y.m_txPending = x.m_txPending
  BY DEF Clients
<1>2. Completed(y) = Completed(x) BY <1>1 DEF Completed
<1> QED BY <1>1, <1>2 DEF Idle

(* A client with no operation and no request pending is in a good state.   *)
LEMMA IdleIsGood == ASSUME NEW x, Idle(x), ~x.m_txPending PROVE Good(x)
BY DEF Good, Serial, Idle

(* The resolve handler keeps the invariant of the operations.              *)
LEMMA ResolveKeeps == ASSUME NEW x, NEW n \in 0..MaxEndpoints, Taken(x, FALSE)
                      PROVE  OpInv(handle_resolve(x, n))
<1>1. x \in Clients BY DEF Taken
<1>2. CASE n > 0
  <2> DEFINE y == [x EXCEPT !.m_endpoints = n]
  <2>1. handle_resolve(x, n) = send(y, "getWork") BY <1>2 DEF handle_resolve
  <2>2. y \in Clients /\ (Idle(x) => Idle(y)) /\ y.told = x.told /\ y.m_txPending = x.m_txPending
    BY <1>1, EndpointsKeep
  <2>3. y.told \/ (Idle(y) /\ ~y.m_txPending) BY <2>2 DEF Taken
  <2>4. y.told \/ Good(y) BY Zenon, <2>3, IdleIsGood
  <2>5. "getWork" \in Requests BY DEF Requests
  <2>6. ~y.told /\ ~y.crashed /\ ~y.m_txPending => Idle(y) BY <2>3
  <2> HIDE DEF y
  <2>7. OpInv(send(y, "getWork")) BY <2>2, <2>4, <2>5, <2>6, SendKeeps
  <2> QED BY <2>1, <2>7
<1>3. CASE n = 0 /\ x.told
  BY <1>1, <1>3, CrashKeeps DEF handle_resolve
<1>4. CASE n = 0 /\ ~x.told
  BY <1>1, <1>4, DisconnectKeeps DEF handle_resolve
<1> QED BY <1>2, <1>3, <1>4

(* Starting a connection keeps the invariant of the operations.            *)
LEMMA ConnectsKeeps == ASSUME NEW x, Taken(x, TRUE) PROVE OpInv(begin_connect(x))
<1>1. x \in Clients BY DEF Taken
<1>2. CASE x.told BY <1>1, <1>2, BeginConnectAny
<1>3. CASE ~x.told
  <2>1. Idle(x) /\ x.m_txPending BY <1>3 DEF Taken
  <2> QED BY <1>1, <2>1, BeginConnectKeeps
<1> QED BY <1>2, <1>3

(* Going on to the next endpoint keeps the invariant of the operations.    *)
LEMMA NextEndpointKeeps == ASSUME NEW x, Taken(x, TRUE) PROVE OpInv(NextEndpoint(x))
<1>1. x \in Clients BY DEF Taken
<1>2. CASE x.told \/ x.m_endpoints = 0
  BY <1>1, <1>2, CrashKeeps DEF NextEndpoint
<1>3. CASE ~(x.told \/ x.m_endpoints = 0)
  <2> DEFINE y == [x EXCEPT !.m_endpoints = @ - 1]
  <2>1. x.m_endpoints - 1 \in 0..MaxEndpoints BY <1>1, <1>3, GetworkAssumption DEF Clients
  <2>2. y = [x EXCEPT !.m_endpoints = x.m_endpoints - 1] OBVIOUS
  <2>3. Taken(y, TRUE) BY <1>1, <1>3, <2>1, <2>2, EndpointsKeep DEF Taken
  <2>4. NextEndpoint(x) = begin_connect(y) BY <1>3 DEF NextEndpoint
  <2> QED BY Zenon, <2>3, <2>4, ConnectsKeeps
<1> QED BY <1>2, <1>3

(* A client that starts the operation o, and nothing else.                *)
LEMMA StartsOperation == ASSUME NEW x, Taken(x, TRUE), NEW o \in {"write", "read"},
                                NEW y \in Clients, y.ops = x.ops \union {o}, y.queue = x.queue,
                                y.told = x.told, y.m_txPending = x.m_txPending
                         PROVE  OpInv(y)
<1>1. CASE x.told BY <1>1 DEF OpInv
<1>2. CASE ~x.told
  <2>1. Idle(x) /\ y.m_txPending BY <1>2 DEF Taken
  <2>2. y.ops = {o} /\ Completed(y) = {} BY <2>1 DEF Idle, Completed
  <2>3. \A k \in 1..Len(y.queue) : ~IsCompletion(y.queue[k]) BY <2>2 DEF Completed
  <2>4. NoResolution(y) BY <2>2, <2>3 DEF NoResolution, IsCompletion
  <2>5. Good(y) BY <2>1, <2>2, <2>4 DEF Good, Serial, Idle
  <2> QED BY <2>5 DEF OpInv
<1> QED BY <1>1, <1>2

(* A client that ends the series of operations.                            *)
LEMMA EndsOperations == ASSUME NEW x, Taken(x, TRUE), NEW y \in Clients, ~y.m_txPending,
                               y.ops = x.ops, y.queue = x.queue, y.told = x.told
                        PROVE  OpInv(y)
<1>1. CASE x.told BY <1>1 DEF OpInv
<1>2. CASE ~x.told
  <2>1. Idle(y) BY <1>2 DEF Taken, Idle, Completed
  <2> QED BY <2>1, IdleIsGood DEF OpInv
<1> QED BY <1>1, <1>2

(* The connect handler keeps the invariant of the operations.              *)
LEMMA ConnectKeeps == ASSUME NEW x, Taken(x, TRUE) PROVE OpInv(handle_connect(x))
<1> DEFINE y == StartsSession(x)
<1>1. x \in Clients BY DEF Taken
<1>2. /\ y \in Clients /\ y.ops = x.ops /\ y.queue = x.queue /\ y.told = x.told
      /\ y.m_txPending = x.m_txPending /\ y.m_txQueue = x.m_txQueue
  BY Zenon, <1>1 DEF StartsSession, Clients
<1> HIDE DEF y
<1>3. CASE x.m_txQueue = <<>>
  <2> DEFINE z == [y EXCEPT !.m_txPending = FALSE]
  <2>1. /\ z \in Clients /\ ~z.m_txPending
        /\ z.ops = x.ops /\ z.queue = x.queue /\ z.told = x.told
    BY Zenon, <1>2 DEF Clients
  <2>2. handle_connect(x) = z BY <1>3 DEF handle_connect, y
  <2> HIDE DEF z
  <2> QED BY Zenon, <2>1, <2>2, EndsOperations
<1>4. CASE x.m_txQueue # <<>> /\ x.told
  BY <1>1, <1>4, CrashKeeps DEF handle_connect
<1>5. CASE x.m_txQueue # <<>> /\ ~x.told
  <2> DEFINE z == [y EXCEPT !.m_pendingJReq = Head(x.m_txQueue), !.m_txQueue = Tail(@),
                            !.ops = @ \union {"write"}]
  <2>1. x.m_txQueue \in Seq(Requests) BY <1>1 DEF Clients
  <2>2. Head(x.m_txQueue) \in Requests /\ Tail(x.m_txQueue) \in Seq(Requests) BY <1>5, <2>1
  <2>3. /\ z \in Clients /\ z.ops = x.ops \union {"write"} /\ z.queue = x.queue
        /\ z.told = x.told /\ z.m_txPending = x.m_txPending
    BY Zenon, <1>2, <2>2 DEF Clients
  <2>4. handle_connect(x) = z BY <1>5 DEF handle_connect, y
  <2> HIDE DEF z
  <2> QED BY Zenon, <2>3, <2>4, StartsOperation
<1> QED BY <1>3, <1>4, <1>5

(* The write handler keeps the invariant of the operations.                *)
LEMMA WriteKeeps == ASSUME NEW x, Taken(x, TRUE) PROVE OpInv(handle_write(x))
<1> DEFINE z == [x EXCEPT !.ops = @ \union {"read"}]
<1>1. /\ z \in Clients /\ z.ops = x.ops \union {"read"} /\ z.queue = x.queue
      /\ z.told = x.told /\ z.m_txPending = x.m_txPending
  BY DEF Taken, Clients
<1>2. handle_write(x) = z BY DEF handle_write
<1> HIDE DEF z
<1> QED BY Zenon, <1>1, <1>2, StartsOperation

(* The read handler, for every reply, keeps the invariant of the           *)
(* operations.                                                             *)
LEMMA ReadKeeps == ASSUME NEW x, Taken(x, TRUE), NEW reply
                   PROVE  OpInv(handle_read(x, reply))
<1> DEFINE y == processResponse(x, reply)
<1>1. x \in Clients BY DEF Taken
<1>2. /\ y \in Clients /\ y.ops = x.ops /\ y.queue = x.queue /\ y.told = x.told
      /\ y.m_txPending = x.m_txPending
  <2> DEFINE v == [x EXCEPT !.stale = @ /\ reply \notin {"job", "first"}]
  <2>1. /\ v \in Clients /\ v.ops = x.ops /\ v.queue = x.queue /\ v.told = x.told
        /\ v.m_txPending = x.m_txPending
    BY Zenon, <1>1 DEF Clients
  <2>2. y = x \/ y = Rearm(v) BY DEF processResponse
  <2> HIDE DEF v, y
  <2> QED BY Zenon, <1>1, <2>1, <2>2 DEF Rearm, Clients
<1>3. Taken(y, TRUE)
  <2>1. Completed(y) = Completed(x) BY <1>2 DEF Completed
  <2> QED BY <1>2, <2>1 DEF Taken, Idle
<1> HIDE DEF y
<1>4. OpInv(TakesNext(y))
  <2>1. CASE y.m_txQueue # <<>>
    BY Zenon, <1>3, <2>1, ConnectsKeeps DEF TakesNext
  <2>2. CASE y.m_txQueue = <<>>
    <3> DEFINE z == [y EXCEPT !.m_txPending = FALSE]
    <3>1. /\ z \in Clients /\ ~z.m_txPending
          /\ z.ops = y.ops /\ z.queue = y.queue /\ z.told = y.told
      BY Zenon, <1>2 DEF Clients
    <3>2. TakesNext(y) = z BY <2>2 DEF TakesNext
    <3> HIDE DEF z
    <3> QED BY Zenon, <1>3, <3>1, <3>2, EndsOperations
  <2> QED BY <2>1, <2>2
<1>5. handle_read(x, reply) \in {Crash(x), disconnect(x), TakesNext(y)}
  BY DEF handle_read, y
<1> QED BY <1>1, <1>4, <1>5, CrashKeeps, DisconnectKeeps

(* A failed read keeps the invariant of the operations.                    *)
LEMMA ReadFailsKeeps == ASSUME NEW x, Taken(x, TRUE) PROVE OpInv(ReadFails(x))
BY CrashKeeps, DisconnectKeeps DEF ReadFails, Taken

-----------------------------------------------------------------------------
(* The other steps.                                                        *)

(* The handler of the getwork timer keeps the invariant of the operations. *)
LEMMA TimerKeeps == ASSUME OpInv(g), Timer PROVE OpInv(g')
<1> DEFINE x == Rest
<1>1. Runs("timer") /\ ~IsCompletion("timer") BY DEF Timer, IsCompletion
<1>2. OpInv(x) /\ (~g.told /\ ~g.m_txPending => Idle(x)) BY <1>1, RestIsAsBefore
<1>3. x.told = g.told /\ x.m_txPending = g.m_txPending BY DEF Rest, OpInv, Clients
<1>4. g' = getwork_timer_elapsed(x) BY DEF Timer
<1> HIDE DEF x
<1>5. CASE ~x.stale
  <2>1. "getWork" \in Requests BY DEF Requests
  <2>2. OpInv(send(x, "getWork")) BY <1>2, <1>3, <2>1, SendKeeps DEF OpInv
  <2> QED BY <1>4, <1>5, <2>2 DEF getwork_timer_elapsed
<1>6. CASE x.stale /\ x.m_endpoints = 0
  BY <1>2, <1>4, <1>6, CrashKeeps DEF getwork_timer_elapsed, OpInv
<1>7. CASE x.stale /\ x.m_endpoints # 0
  <2> DEFINE y == [x EXCEPT !.m_endpoints = @ - 1]
  <2>1. x \in Clients /\ x.m_endpoints - 1 \in 0..MaxEndpoints
    BY <1>2, <1>7, GetworkAssumption DEF OpInv, Clients
  <2>2. y \in Clients BY <2>1 DEF Clients
  <2>3. g' = disconnect(y) BY <1>4, <1>7 DEF getwork_timer_elapsed
  <2> HIDE DEF y
  <2> QED BY <2>2, <2>3, DisconnectKeeps
<1> QED BY <1>5, <1>6, <1>7

(* A client of which neither the operations nor the flags of the invariant *)
(* have changed.                                                           *)
LEMMA QuietKeeps == ASSUME NEW x, OpInv(x), NEW y \in Clients,
                           y.ops = x.ops, y.queue = x.queue, y.m_txPending = x.m_txPending,
                           y.told = x.told, y.crashed = x.crashed,
                           y.session = x.session, y.armed = x.armed
                    PROVE  OpInv(y)
<1>1. Completed(y) = Completed(x) BY DEF Completed
<1>2. Good(x) => Good(y) BY <1>1 DEF Good, Serial, Idle, Resolving, NoResolution
<1> QED BY <1>2 DEF OpInv

(* A rotation to the pool keeps the invariant of the operations.           *)
LEMMA RotateKeeps == ASSUME OpInv(g), RotateConnect PROVE OpInv(g')
<1> DEFINE x == Rest
<1>1. Runs("rotateConnect") /\ ~IsCompletion("rotateConnect") BY DEF RotateConnect, IsCompletion
<1>2. OpInv(x) BY <1>1, RestIsAsBefore
<1>3. g' = [x EXCEPT !.gone = TRUE] BY DEF RotateConnect
<1> HIDE DEF x
<1>4. /\ g' \in Clients /\ g'.ops = x.ops /\ g'.queue = x.queue /\ g'.m_txPending = x.m_txPending
      /\ g'.told = x.told /\ g'.crashed = x.crashed
      /\ g'.session = x.session /\ g'.armed = x.armed
  BY Zenon, <1>2, <1>3 DEF OpInv, Clients
<1> QED BY <1>2, <1>4, QuietKeeps

(* A job that is late keeps the invariant of the operations.               *)
LEMMA LateKeeps == ASSUME OpInv(g), WorkIsLate PROVE OpInv(g')
<1>1. /\ g' \in Clients /\ g'.ops = g.ops /\ g'.queue = g.queue /\ g'.m_txPending = g.m_txPending
      /\ g'.told = g.told /\ g'.crashed = g.crashed
      /\ g'.session = g.session /\ g'.armed = g.armed
  BY Zenon DEF WorkIsLate, OpInv, Clients
<1> QED BY <1>1, QuietKeeps

(* In a session nothing is being resolved.                                 *)
LEMMA SubmitKeeps == ASSUME OpInv(g), NEW r \in Requests, g.session, g' = send(g, r)
                     PROVE  OpInv(g')
<1>1. ~Resolving(g) BY DEF Resolving
<1>2. ~g.told /\ ~g.crashed /\ ~g.m_txPending => Idle(g) BY <1>1 DEF OpInv, Good
<1> QED BY <1>2, SendKeeps DEF OpInv

(* The expiry of the getwork timer keeps the invariant of the operations.  *)
LEMMA ExpiresKeeps == ASSUME OpInv(g), TimerExpires PROVE OpInv(g')
<1>1. g \in Clients /\ g.queue \in Seq(Handlers) /\ "timer" \in Handlers
  BY DEF OpInv, Clients, Handlers
<1>2. Append(g.queue, "timer") \in Seq(Handlers) BY <1>1
<1>3. g' \in Clients /\ g'.ops = g.ops /\ g'.queue = Append(g.queue, "timer")
      /\ g'.m_txPending = g.m_txPending /\ g'.told = g.told /\ g'.crashed = g.crashed
  BY Zenon, <1>1, <1>2 DEF TimerExpires, Clients
<1>4. Completed(g') = Completed(g)
  <2>1. Len(g'.queue) = Len(g.queue) + 1 /\ g'.queue[Len(g.queue) + 1] = "timer"
        /\ \A k \in 1..Len(g.queue) : g'.queue[k] = g.queue[k]
    BY <1>1, <1>3
  <2>2. Len(g.queue) \in Nat BY <1>1
  <2> QED BY <2>1, <2>2 DEF Completed, IsCompletion
<1>5. ~Resolving(g) BY DEF TimerExpires, Resolving
<1>6. NoResolution(g) => NoResolution(g')
  <2>1. \A k \in 1..Len(g'.queue) : g'.queue[k] = "timer" \/ (k \in 1..Len(g.queue) /\ g'.queue[k] = g.queue[k])
    BY <1>1, <1>3
  <2> QED BY <1>3, <2>1 DEF NoResolution
<1>7. Good(g) => Good(g') BY <1>3, <1>4, <1>5, <1>6 DEF Good, Serial, Idle
<1> QED BY <1>3, <1>7 DEF OpInv

(* The completion of an operation, which queues its handler, keeps the     *)
(* invariant.                                                              *)
LEMMA CompletesKeeps == ASSUME OpInv(g), NEW o \in DOMAIN Completions, Completes(o) PROVE OpInv(g')
<1>1. PICK h \in Completions[o] : g' = [g EXCEPT !.ops = @ \ {o}, !.queue = Append(@, h)]
  BY Zenon DEF Completes
<1>2. /\ h \in Handlers /\ IsCompletion(h) /\ o \in {"resolve", "connect", "write", "read"}
      /\ o = "resolve" <=> h \in {"resolved", "unresolved"}
  BY DEF Completions, Handlers, IsCompletion
<1>3. g \in Clients /\ g.queue \in Seq(Handlers) /\ o \in g.ops
  BY DEF OpInv, Clients, Completes
<1>4. Append(g.queue, h) \in Seq(Handlers) BY <1>2, <1>3
<1>5. g' \in Clients /\ g'.ops = g.ops \ {o} /\ g'.queue = Append(g.queue, h)
      /\ g'.m_txPending = g.m_txPending /\ g'.told = g.told /\ g'.crashed = g.crashed
      /\ g'.session = g.session /\ g'.armed = g.armed
  BY Zenon, <1>1, <1>3, <1>4 DEF Clients
<1>6. ASSUME Good(g) PROVE Good(g')
  <2> DEFINE n == Len(g.queue)
  <2>1. n \in Nat /\ Len(g'.queue) = n + 1 /\ g'.queue[n + 1] = h
        /\ \A k \in 1..n : g'.queue[k] = g.queue[k]
    BY <1>3, <1>5
  <2>2. g.ops = {o} /\ Completed(g) = {} BY <1>3, <1>6 DEF Good, Serial
  <2>3. Completed(g') = {n + 1}
    BY <1>2, <2>1, <2>2 DEF Completed
  <2>4. g'.ops = {} BY <1>5, <2>2
  <2>5. Serial(g') /\ ~Idle(g') BY <2>3, <2>4 DEF Serial, Idle
  <2>6. CASE g.m_txPending
    <3>1. NoResolution(g) BY <1>6, <2>6 DEF Good
    <3>2. h \notin {"resolved", "unresolved"} BY <1>2, <1>3, <3>1 DEF NoResolution
    <3>3. NoResolution(g') BY SMTT(30), <2>1, <2>4, <3>1, <3>2 DEF NoResolution
    <3> QED BY <1>5, <2>5, <2>6, <3>3 DEF Good
  <2>7. CASE ~g.m_txPending
    <3>1. Resolving(g) BY <1>3, <1>6, <2>7 DEF Good, Idle
    <3>2. h \in {"resolved", "unresolved"} BY <1>2, <1>3, <3>1 DEF Resolving
    <3>3. Resolving(g') BY <1>5, <2>1, <2>4, <3>1, <3>2 DEF Resolving
    <3> QED BY <1>5, <2>5, <2>7, <3>3 DEF Good
  <2> QED BY <2>6, <2>7
<1> QED BY <1>5, <1>6 DEF OpInv

(* The invariant of the operations holds at the start.                     *)
LEMMA InitOpInv == ASSUME GetworkInit PROVE OpInv(g)
<1>1. PICK byName \in BOOLEAN : g = connect(byName) BY DEF GetworkInit
<1>2. /\ Fresh \in Clients /\ Fresh.ops = {} /\ Fresh.queue = <<>> /\ ~Fresh.m_txPending
      /\ ~Fresh.session /\ ~Fresh.armed
  BY GetworkAssumption DEF Fresh, Clients
<1>3. Idle(Fresh) BY <1>2 DEF Idle, Completed
<1>4. CASE byName
  <2>1. g = [Fresh EXCEPT !.ops = {"resolve"}] BY <1>1, <1>4 DEF connect
  <2>2. g \in Clients /\ g.ops = {"resolve"} /\ g.queue = <<>> /\ ~g.m_txPending
        /\ ~g.session /\ ~g.armed
    BY <1>2, <2>1 DEF Clients
  <2>3. Completed(g) = {} /\ Resolving(g) BY <2>2 DEF Completed, Resolving
  <2>4. Good(g) BY <2>2, <2>3 DEF Good, Serial
  <2> QED BY <2>2, <2>4 DEF OpInv
<1>5. CASE ~byName
  <2> DEFINE y == [Fresh EXCEPT !.m_endpoints = 1]
  <2>1. 1 \in 0..MaxEndpoints /\ "getWork" \in Requests BY GetworkAssumption DEF Requests
  <2>2. y \in Clients /\ Idle(y) /\ ~y.m_txPending BY <1>2, <1>3, <2>1, EndpointsKeep
  <2>3. g = send(y, "getWork") BY <1>1, <1>5 DEF connect
  <2> HIDE DEF y
  <2>4. Good(y) BY <2>2, IdleIsGood
  <2> QED BY <2>1, <2>2, <2>3, <2>4, SendKeeps
<1> QED BY <1>4, <1>5

(* Every step keeps the invariant of the operations.                       *)
LEMMA NextOpInv == ASSUME OpInv(g), [GetworkNext]_g PROVE OpInv(g')
<1>1. ASSUME NEW h \in {"resolved", "unresolved"}, Runs(h) PROVE Taken(Rest, FALSE)
  BY Zenon, <1>1, RestIsIdle DEF Taken, IsCompletion
<1>a. ASSUME NEW h \in {"connected", "refused", "written", "broken", "read", "readErr"}, Runs(h)
      PROVE  Taken(Rest, TRUE)
  <2>1. IsCompletion(h) /\ h \notin {"resolved", "unresolved"} BY <1>a DEF IsCompletion
  <2>2. Rest \in Clients /\ Rest.told = g.told /\ (~g.told => Idle(Rest) /\ Rest.m_txPending)
    BY Zenon, <1>a, <2>1, RestIsIdle
  <2>3. g.told \in BOOLEAN /\ Rest.m_txPending \in BOOLEAN BY <2>2 DEF OpInv, Clients
  <2> QED BY <2>2, <2>3 DEF Taken
<1>2. CASE Resolved
  <2>1. Taken(Rest, FALSE) BY Zenon, <1>1, <1>2 DEF Resolved
  <2>2. PICK n \in 1..MaxEndpoints : g' = handle_resolve(Rest, n) BY <1>2 DEF Resolved
  <2>3. n \in 0..MaxEndpoints OBVIOUS
  <2> QED BY Zenon, <2>1, <2>2, <2>3, ResolveKeeps
<1>3. CASE Unresolved
  <2>1. Taken(Rest, FALSE) BY Zenon, <1>1, <1>3 DEF Unresolved
  <2>2. 0 \in 0..MaxEndpoints BY GetworkAssumption
  <2>3. g' = handle_resolve(Rest, 0) BY <1>3 DEF Unresolved
  <2> QED BY Zenon, <2>1, <2>2, <2>3, ResolveKeeps
<1>4. CASE Connected
  <2>1. Taken(Rest, TRUE) BY Zenon, <1>a, <1>4 DEF Connected
  <2> QED BY Zenon, <1>4, <2>1, ConnectKeeps DEF Connected
<1>5. CASE Refused
  <2>1. Taken(Rest, TRUE) BY Zenon, <1>a, <1>5 DEF Refused
  <2> QED BY Zenon, <1>5, <2>1, NextEndpointKeeps DEF Refused
<1>6. CASE Written
  <2>1. Taken(Rest, TRUE) BY Zenon, <1>a, <1>6 DEF Written
  <2> QED BY Zenon, <1>6, <2>1, WriteKeeps DEF Written
<1>7. CASE Broken
  <2>1. Taken(Rest, TRUE) BY Zenon, <1>a, <1>7 DEF Broken
  <2> QED BY Zenon, <1>7, <2>1, NextEndpointKeeps DEF Broken
<1>8. CASE Read
  <2>1. Taken(Rest, TRUE) BY Zenon, <1>a, <1>8 DEF Read
  <2>2. PICK reply \in Replies : g' = handle_read(Rest, reply)
    BY <1>8 DEF Read
  <2> QED BY Zenon, <2>1, <2>2, ReadKeeps
<1>9. CASE ReadFailed
  <2>1. Taken(Rest, TRUE) BY Zenon, <1>a, <1>9 DEF ReadFailed
  <2> QED BY Zenon, <1>9, <2>1, ReadFailsKeeps DEF ReadFailed
<1>10. CASE \E o \in DOMAIN Completions : Completes(o) BY <1>10, CompletesKeeps
<1>11. CASE submitSolution
  <2>1. "share" \in Requests /\ g.session /\ g' = send(g, "share")
    BY <1>11 DEF submitSolution, Requests
  <2> QED BY <2>1, SubmitKeeps
<1>12. CASE submitHashrate
  <2>1. "hashrate" \in Requests /\ g.session /\ g' = send(g, "hashrate")
    BY <1>12 DEF submitHashrate, Requests
  <2> QED BY <2>1, SubmitKeeps
<1>13. CASE ManagerDisconnects
  BY <1>13, DisconnectKeeps DEF ManagerDisconnects, OpInv
<1>14. CASE UNCHANGED g BY <1>14
<1> QED BY <1>2, <1>3, <1>4, <1>5, <1>6, <1>7, <1>8, <1>9, <1>10, <1>11, <1>12, <1>13, <1>14,
           TimerKeeps, RotateKeeps, ExpiresKeeps, LateKeeps DEF GetworkNext, GetworkIoStep

(* The inductive invariant, of the one client.                             *)
GInv == OpInv(g)

(* Every handler and every event keeps the invariant.                      *)
THEOREM GetworkInvariant == GetworkSpec => []GInv
<1>1. GetworkInit => GInv BY InitOpInv DEF GInv
<1>2. GInv /\ [GetworkNext]_g => GInv' BY NextOpInv DEF GInv
<1> QED BY <1>1, <1>2, PTL DEF GetworkSpec

(* m_txPending serialises the socket operations of send, handle_read and   *)
(* the timer: there is never more than one, and while it is set there is   *)
(* one.                                                                    *)
THEOREM OperationsAreSerial == GetworkSpec => []OneOperation
<1>1. GInv => OneOperation
  BY DEF GInv, OpInv, Good, Serial, OneOperation
<1> QED BY <1>1, GetworkInvariant, PTL

(* The client has the types the code declares; m_endpoints, for one, is    *)
(* never popped when it is empty.                                          *)
THEOREM GetworkTypes == GetworkSpec => []GetworkTypeOK
<1>1. GInv => GetworkTypeOK
  BY DEF GInv, OpInv, Clients, GetworkTypeOK
<1> QED BY <1>1, GetworkInvariant, PTL

-----------------------------------------------------------------------------
(* The type invariant holds at the start.                                  *)
LEMMA InitTypeOK == Init => TypeOK
<1> SUFFICES ASSUME Init PROVE TypeOK
  OBVIOUS
<1> USE FarmAssumption DEF Init, Miners, All
<1>1. MinerTypes
  BY DEF MinerTypes, NoWork, Torn
<1>2. ThreadTypes
  BY DEF ThreadTypes, LoopPlaces, NoWork, Torn
<1>3. ControlTypes
  BY DEF ControlTypes, Methods, MethodPlaces
<1> QED
  BY <1>1, <1>2, <1>3 DEF TypeOK

(* What the methods do to the variables of the control threads.            *)
LEMMA CallsTypes ==
    ASSUME ControlTypes, NEW t \in Threads, NEW i \in Miners,
           NEW method \in Methods, NEW first \in MethodPlaces,
           Calls(t, method, first, i), x_minerWork' \in {x_minerWork, t}
    PROVE  ControlTypes'
  BY DEF ControlTypes, Calls

(* A move within a method keeps the control types.                         *)
LEMMA MovesTypes ==
    ASSUME ControlTypes, NEW t \in Threads, NEW to \in MethodPlaces, Moves(t, to),
           UNCHANGED x_minerWork
    PROVE  ControlTypes'
  BY DEF ControlTypes, Moves

(* Going on to the next miner, or out of the loop, keeps the control       *)
(* types.                                                                  *)
LEMMA NextMinerTypes ==
    ASSUME ControlTypes, NEW t \in Threads, NEW first \in MethodPlaces, NextMiner(t, first)
    PROVE  ControlTypes'
  BY FarmAssumption DEF ControlTypes, NextMiner, Miners

(* The return of a method keeps the control types.                         *)
LEMMA ReturnsTypes ==
    ASSUME ControlTypes, NEW t \in Threads, Returns(t)
    PROVE  ControlTypes'
  BY FarmAssumption DEF ControlTypes, Returns, Methods, MethodPlaces, Miners

(* Every step keeps the type invariant.                                    *)
LEMMA NextTypeOK == TypeOK /\ [Next]_vars => TypeOK'
<1> SUFFICES ASSUME TypeOK, [Next]_vars PROVE TypeOK'
  OBVIOUS
<1>0. 0 \in Miners /\ {"none", "setWork", "pause", "stop"} \subseteq Methods
      /\ {"check", "write", "flag", "clear", "kick", "join"} \subseteq MethodPlaces
      /\ NoWork \in Torn..MaxJobs /\ Torn \in Torn..MaxJobs
  BY FarmAssumption DEF Miners, Methods, MethodPlaces, NoWork, Torn
<1> USE FarmAssumption, <1>0, CallsTypes, MovesTypes, NextMinerTypes, ReturnsTypes DEF TypeOK
<1>1. ASSUME NEW t \in Threads, setWork(t) PROVE TypeOK'
  <2>1. MinerTypes' /\ ThreadTypes'
    BY <1>1 DEF setWork, MinerTypes, ThreadTypes, miner, thread
  <2>2. ControlTypes'
    <3>1. CASE m_isMining
      BY <1>1, <3>1 DEF setWork, Locks
    <3>2. CASE ~m_isMining
      BY <1>1, <3>2 DEF setWork, ControlTypes, control
    <3> QED
      BY <3>1, <3>2
  <2> QED
    BY <1>1, <2>1, <2>2 DEF setWork
<1>2. ASSUME NEW t \in Threads, FarmPauses(t) \/ stop(t) PROVE TypeOK'
  <2>1. MinerTypes' /\ ThreadTypes'
    BY SMTT(30), <1>2 DEF FarmPauses, stop, MinerTypes, ThreadTypes, miner, thread
  <2> QED
    BY <1>2, <2>1 DEF FarmPauses, stop, Locks
<1>3. ASSUME NEW t \in Threads, NEW i \in Miners, ApiPauses(t, i) PROVE TypeOK'
  <2>1. MinerTypes' /\ ThreadTypes'
    BY SMTT(30), <1>3 DEF ApiPauses, MinerTypes, ThreadTypes, miner, thread
  <2> QED
    BY <1>3, <2>1 DEF ApiPauses
<1>4. ASSUME NEW t \in Threads, start(t) PROVE TypeOK'
  <2>1. MinerTypes'
    BY <1>4 DEF start, MinerTypes, All, NoWork, Torn
  <2>2. ThreadTypes'
    BY <1>4 DEF start, ThreadTypes, LoopPlaces, All, NoWork, Torn
  <2>3. ControlTypes'
    BY <1>4 DEF start, ControlTypes, control
  <2> QED
    BY <1>4, <2>1, <2>2, <2>3 DEF start
<1>5. ASSUME NEW t \in Threads, MinerChecksPaused(t) PROVE TypeOK'
  <2>1. MinerTypes' /\ ThreadTypes'
    <3>1. m_work' \in [Miners -> Torn..MaxJobs]
      BY <1>5, Zenon DEF MinerChecksPaused, MinerTypes
    <3> QED
      BY <1>5, <3>1 DEF MinerChecksPaused, MinerTypes, ThreadTypes, thread
  <2>2. ControlTypes'
    BY <1>5 DEF MinerChecksPaused
  <2> QED
    BY <1>5, <2>1, <2>2 DEF MinerChecksPaused
<1>6. ASSUME NEW t \in Threads, MinerTakesWork(t) PROVE TypeOK'
  <2>1. MinerTypes' /\ ThreadTypes'
    <3>1. job \in Torn..MaxJobs
      BY DEF Torn
    <3>2. EpochOf[job] \in Int
      OBVIOUS
    <3> QED
      BY <1>6, <3>1, <3>2, Zenon DEF MinerTakesWork, MinerTypes, ThreadTypes, thread
  <2>2. ControlTypes'
    BY <1>6 DEF MinerTakesWork
  <2> QED
    BY <1>6, <2>1, <2>2 DEF MinerTakesWork
<1>7. ASSUME NEW t \in Threads, setWorkKicks(t) PROVE TypeOK'
  <2>1. MinerTypes' /\ ThreadTypes'
    BY <1>7, Zenon DEF setWorkKicks, Kicks, MinerTypes, ThreadTypes, thread
  <2>2. ControlTypes'
    BY <1>7 DEF setWorkKicks, NextOrReturns
  <2> QED
    BY <1>7, <2>1, <2>2 DEF setWorkKicks
<1>8. ASSUME NEW t \in Threads, pause(t) PROVE TypeOK'
  <2>1. MinerTypes'
    <3>1. Reason(t) \in Reasons
      BY DEF Reason, Reasons
    <3>2. m_work' \in [Miners -> Torn..MaxJobs]
      BY <1>8 DEF pause, MinerTypes
    <3>3. m_pauseFlags' \in [Miners -> SUBSET Reasons]
      BY <1>8, <3>1, SMTT(30) DEF pause, MinerTypes
    <3>4. m_new_work' \in [Miners -> BOOLEAN]
      BY <1>8, Zenon DEF pause, MinerTypes, Kicks
    <3> QED
      BY <1>8, <3>2, <3>3, <3>4 DEF pause, MinerTypes
  <2>2. ControlTypes'
    BY <1>8 DEF pause, NextOrReturns
  <2> QED
    BY <1>8, <2>1, <2>2 DEF pause, ThreadTypes, thread
<1>9. ASSUME NEW t \in Threads, NEW S, NEW reason, resume(t, S, reason) PROVE TypeOK'
  <2>1. MinerTypes'
    BY <1>9 DEF resume, MinerTypes
  <2>2. ControlTypes'
    BY <1>9 DEF resume, ControlTypes, control
  <2> QED
    BY <1>9, <2>1, <2>2 DEF resume, ThreadTypes, thread
<1>10. ASSUME NEW t \in Threads, triggerStopWorking(t) PROVE TypeOK'
  <2>1. MinerTypes' /\ ThreadTypes'
    BY <1>10, Zenon DEF triggerStopWorking, Kicks, MinerTypes, ThreadTypes, thread
  <2>2. ControlTypes'
    <3>1. CASE NextMiner(t, "kick")
      BY <3>1
    <3>2. CASE ~NextMiner(t, "kick")
      BY <1>10, <3>2, SMTT(30) DEF triggerStopWorking, ControlTypes
    <3> QED
      BY <3>1, <3>2
  <2> QED
    BY <1>10, <2>1, <2>2 DEF triggerStopWorking
<1>11. ASSUME NEW t \in Threads, stopWorking(t) PROVE TypeOK'
  <2>1. MinerTypes' /\ ThreadTypes'
    BY <1>11, Zenon DEF stopWorking, MinerTypes, ThreadTypes, miner, thread
  <2>2. ControlTypes'
    BY <1>11 DEF stopWorking, NextOrReturns
  <2> QED
    BY <1>11, <2>1, <2>2 DEF stopWorking
<1>12. ASSUME NEW i \in Miners, MinerStep(i) PROVE TypeOK'
  <2>1. m_isMining' = m_isMining /\ job' = job /\ ControlTypes' /\ x_minerWork' = x_minerWork
    BY <1>12 DEF MinerStep, WhileNotStopping, work, timed_wait, initEpoch, initEpoch_internal,
                 AdvanceDagLoad, search, ResetNewWork, Goes, ControlTypes, control
  <2>2. MinerTypes'
    BY <1>12, Zenon DEF MinerStep, WhileNotStopping, work, timed_wait, initEpoch, initEpoch_internal,
                 AdvanceDagLoad, search, ResetNewWork, Goes, MinerTypes
  <2>3. ThreadTypes'
    <3> USE DEF ThreadTypes, Goes, LoopPlaces
    <3>1. CASE WhileNotStopping(i) \/ timed_wait(i) \/ initEpoch(i) \/ search(i) \/ ResetNewWork(i)
      BY <3>1, Zenon DEF WhileNotStopping, timed_wait, initEpoch, search, ResetNewWork
    <3>2. CASE work(i)
      BY <3>2 DEF work, MinerTypes
    <3>3. CASE initEpoch_internal(i)
      BY <3>3 DEF initEpoch_internal, Miners
    <3>4. CASE AdvanceDagLoad(i)
      BY <3>4 DEF AdvanceDagLoad
    <3> QED
      BY <1>12, <3>1, <3>2, <3>3, <3>4, Zenon DEF MinerStep
  <2> QED
    BY <2>1, <2>2, <2>3
<1>13. CASE UNCHANGED vars
  BY <1>13, SMTT(30) DEF vars, miner, thread, control, MinerTypes, ThreadTypes, ControlTypes
<1> QED
  BY <1>1, <1>2, <1>3, <1>4, <1>5, <1>6, <1>7, <1>8, <1>9, <1>10, <1>11, <1>12, <1>13, Zenon
     DEF Next, ControlStep

(* The variables of the farm keep their types, so that no method of Farm   *)
(* walks past the last miner and the index of DAG loading stays in range.  *)
THEOREM FarmTypes == Spec => []TypeOK
  BY InitTypeOK, NextTypeOK, PTL DEF Spec

(* The hand-over itself: m_work is changed only by a step that leaves its  *)
(* thread about to kick, and that thread moves on only by kicking.  The    *)
(* miner takes up m_work and forgets a kick in steps that leave the search.*)
LEMMA NextStaleSearchIsKicked ==
    TypeOK /\ StaleSearchIsKicked /\ [Next]_vars => StaleSearchIsKicked'
<1> SUFFICES ASSUME TypeOK, StaleSearchIsKicked, [Next]_vars,
                    NEW i \in Miners, pc'[i] = "search", w'[i] # m_work'[i]
             PROVE  m_new_work'[i] \/ AboutToKick(i)'
  BY DEF StaleSearchIsKicked
<1> USE DEF TypeOK, MinerTypes, ThreadTypes, ControlTypes
<1>1. ASSUME pc[i] = "search", w[i] # m_work[i] PROVE m_new_work[i] \/ AboutToKick(i)
  BY <1>1 DEF StaleSearchIsKicked
<1>2. ASSUME NEW t \in Threads,
             op[t] = "none", \A u \in Threads \ {t} : UNCHANGED <<op[u], at[u], idx[u]>>,
             UNCHANGED <<pc, w, m_work, m_new_work>>
      PROVE  m_new_work'[i] \/ AboutToKick(i)'
  <2>1. m_new_work[i] \/ AboutToKick(i)
    BY <1>1, <1>2
  <2> QED
    BY <1>2, <2>1 DEF AboutToKick
<1>3. ASSUME NEW t \in Threads, setWork(t) \/ FarmPauses(t) \/ stop(t)
      PROVE  m_new_work'[i] \/ AboutToKick(i)'
  <2>1. op[t] = "none" /\ \A u \in Threads \ {t} : UNCHANGED <<op[u], at[u], idx[u]>>
    BY <1>3 DEF setWork, FarmPauses, stop, Calls, control
  <2>2. UNCHANGED <<pc, w, m_work, m_new_work>>
    BY <1>3 DEF setWork, FarmPauses, stop, miner, thread
  <2> QED
    BY <1>2, <2>1, <2>2
<1>4. ASSUME NEW t \in Threads, NEW j \in Miners, ApiPauses(t, j)
      PROVE  m_new_work'[i] \/ AboutToKick(i)'
  <2>1. op[t] = "none" /\ \A u \in Threads \ {t} : UNCHANGED <<op[u], at[u], idx[u]>>
    BY <1>4 DEF ApiPauses, Calls
  <2>2. UNCHANGED <<pc, w, m_work, m_new_work>>
    BY <1>4 DEF ApiPauses, miner, thread
  <2> QED
    BY <1>2, <2>1, <2>2
<1>5. ASSUME NEW t \in Threads, start(t) PROVE m_new_work'[i] \/ AboutToKick(i)'
  BY <1>5 DEF start, All
<1>6. ASSUME NEW t \in Threads, NEW S, NEW reason, resume(t, S, reason)
      PROVE  m_new_work'[i] \/ AboutToKick(i)'
  BY <1>1, <1>6 DEF resume, thread, control, AboutToKick
<1>7. ASSUME NEW t \in Threads, MinerChecksPaused(t) \/ MinerTakesWork(t)
      PROVE  m_new_work'[i] \/ AboutToKick(i)'
  <2>1. /\ op[t] = "setWork" /\ at[t] \in {"check", "write"}
        /\ UNCHANGED <<pc, w, m_new_work, op, idx>>
        /\ \A u \in Threads \ {t} : UNCHANGED at[u]
        /\ at'[t] = "kick" \/ UNCHANGED m_work
        /\ \A j \in Miners \ {idx[t]} : UNCHANGED m_work[j]
    BY <1>7 DEF MinerChecksPaused, MinerTakesWork, Moves, thread
  <2>2. CASE idx[t] = i /\ at'[t] = "kick"
    BY <2>1, <2>2 DEF AboutToKick
  <2>3. CASE idx[t] # i \/ at'[t] # "kick"
    BY <1>1, <2>1, <2>3 DEF AboutToKick
  <2> QED
    BY <2>2, <2>3
<1>8. ASSUME NEW t \in Threads, setWorkKicks(t) \/ triggerStopWorking(t)
      PROVE  m_new_work'[i] \/ AboutToKick(i)'
  <2>1. /\ m_new_work' = [m_new_work EXCEPT ![idx[t]] = TRUE]
        /\ UNCHANGED <<pc, w, m_work>>
        /\ \A u \in Threads \ {t} : UNCHANGED <<op[u], at[u], idx[u]>>
    BY <1>8 DEF setWorkKicks, triggerStopWorking, Kicks, NextOrReturns, NextMiner, Returns, thread
  <2> QED
    BY <1>1, <2>1 DEF AboutToKick
<1>9. ASSUME NEW t \in Threads, pause(t) PROVE m_new_work'[i] \/ AboutToKick(i)'
  <2>1. UNCHANGED <<pc, w>> /\ op[t] = "pause"
    BY <1>9, SMTT(30) DEF pause, thread
  <2>2. CASE at[t] # "kick"
    <3>1. /\ at'[t] \in {"clear", "kick"} /\ UNCHANGED <<op, idx, m_new_work>>
          /\ \A u \in Threads \ {t} : UNCHANGED at[u]
          /\ \A j \in Miners \ {idx[t]} : UNCHANGED m_work[j]
      BY <1>9, <2>2 DEF pause, Moves
    <3>2. CASE idx[t] = i
      BY <2>1, <3>1, <3>2 DEF AboutToKick
    <3>3. CASE idx[t] # i
      BY <1>1, <2>1, <3>1, <3>3 DEF AboutToKick
    <3> QED
      BY Zenon, <3>2, <3>3
  <2>3. CASE at[t] = "kick"
    <3>1. /\ m_new_work' = [m_new_work EXCEPT ![idx[t]] = TRUE] /\ UNCHANGED m_work
          /\ \A u \in Threads \ {t} : UNCHANGED <<op[u], at[u], idx[u]>>
      BY <1>9, <2>3 DEF pause, Kicks, NextOrReturns, NextMiner, Returns
    <3> QED
      BY <1>1, <2>1, <3>1 DEF AboutToKick
  <2> QED
    BY Zenon, <2>2, <2>3
<1>10. ASSUME NEW t \in Threads, stopWorking(t) PROVE m_new_work'[i] \/ AboutToKick(i)'
  <2>1. /\ op[t] = "stop" /\ UNCHANGED <<pc, w, m_work, m_new_work>>
        /\ \A u \in Threads \ {t} : UNCHANGED <<op[u], at[u], idx[u]>>
    BY <1>10 DEF stopWorking, NextOrReturns, NextMiner, Returns, miner, thread
  <2> QED
    BY <1>1, <2>1 DEF AboutToKick
<1>11. ASSUME NEW j \in Miners, MinerStep(j) PROVE m_new_work'[i] \/ AboutToKick(i)'
  <2>1. UNCHANGED <<m_work, op, at, idx>>
    BY <1>11, SMTT(30) DEF MinerStep, WhileNotStopping, work, timed_wait, initEpoch, initEpoch_internal,
                 AdvanceDagLoad, search, ResetNewWork, Goes, control
  <2>2. CASE i # j
    <3>1. UNCHANGED <<pc[i], w[i], m_new_work[i]>>
      BY <1>11, <2>2, SMTT(30) DEF MinerStep, WhileNotStopping, work, timed_wait, initEpoch,
                         initEpoch_internal, AdvanceDagLoad, search, ResetNewWork, Goes
    <3> QED
      BY Zenon, <1>1, <2>1, <3>1 DEF AboutToKick
  <2>3. CASE i = j
    <3>1. w'[i] = m_work[i]
      BY <1>11, <2>3 DEF MinerStep, WhileNotStopping, work, timed_wait, initEpoch,
                         initEpoch_internal, AdvanceDagLoad, search, ResetNewWork, Goes
    <3> QED
      BY Zenon, <2>1, <3>1
  <2> QED
    BY <2>2, <2>3
<1>12. CASE UNCHANGED vars
  BY <1>1, <1>12 DEF vars, miner, thread, control, AboutToKick
<1> QED
  BY <1>3, <1>4, <1>5, <1>6, <1>7, <1>8, <1>9, <1>10, <1>11, <1>12, Zenon DEF Next, ControlStep

(* For any number of miners, whichever thread delivers the jobs: a miner   *)
(* never goes on hashing a job that Miner::setWork replaced or Miner::pause*)
(* withdrew without having been kicked.                                    *)
THEOREM WorkHandover == Spec => []StaleSearchIsKicked
<1>1. Init => TypeOK /\ StaleSearchIsKicked
  BY InitTypeOK DEF Init, StaleSearchIsKicked, All
<1>2. TypeOK /\ StaleSearchIsKicked /\ [Next]_vars => (TypeOK /\ StaleSearchIsKicked)'
  BY NextTypeOK, NextStaleSearchIsKicked
<1> QED
  BY <1>1, <1>2, PTL DEF Spec

(* Why a suspended miner stays without work when one thread delivers jobs  *)
(* and suspends: the flags cannot be set between the test and the write of *)
(* Miner::setWork.                                                         *)
OneWriter == /\ \A t \in Threads \ {"io"} : op[t] \notin {"setWork", "pause"}
             /\ op["io"] = "setWork" /\ at["io"] = "write" => m_pauseFlags[idx["io"]] = {}
             /\ op["io"] = "pause" /\ at["io"] = "kick" => m_work[idx["io"]] = NoWork

(* If one thread hands out the work, every step keeps a paused farm        *)
(* without work.                                                           *)
LEMMA NextPausedIsVoid ==
    ASSUME SetWorkThread = "io", TypeOK, OneWriter, PausedIsVoid, [Next]_vars
    PROVE  (OneWriter /\ PausedIsVoid)'
<1> USE DEF TypeOK, MinerTypes, ThreadTypes, ControlTypes
<1>0. "io" \in Threads
  BY DEF Threads
<1> USE <1>0 DEF OneWriter
<1>1. ASSUME NEW i \in Miners, m_pauseFlags[i] # {}
      PROVE  \/ m_work[i] = NoWork
             \/ idx["io"] = i /\ op["io"] = "pause" /\ at["io"] \in {"clear", "kick"}
  BY <1>1 DEF PausedIsVoid, HoldsPause
<1>2. ASSUME NEW i \in Miners,
             \/ m_work'[i] = NoWork
             \/ idx'["io"] = i /\ op'["io"] = "pause" /\ at'["io"] \in {"clear", "kick"}
             \/ m_pauseFlags'[i] = {}
      PROVE  m_pauseFlags'[i] # {} => m_work'[i] = NoWork \/ \E t \in Threads : HoldsPause(t, i)'
  BY <1>2 DEF HoldsPause
<1>3. ASSUME NEW t \in Threads, setWork(t) \/ FarmPauses(t) \/ stop(t) \/ stopWorking(t)
      PROVE  (OneWriter /\ PausedIsVoid)'
  <2>1. UNCHANGED <<m_work, m_pauseFlags>>
    BY <1>3 DEF setWork, FarmPauses, stop, stopWorking, miner
  <2>2. OneWriter'
    BY <1>3, <2>1 DEF setWork, FarmPauses, stop, stopWorking, Calls, NextOrReturns, NextMiner,
                      Returns, control
  <2>3. ASSUME op["io"] = "pause" PROVE UNCHANGED <<op["io"], at["io"], idx["io"]>>
    BY <1>3, <2>3 DEF setWork, FarmPauses, stop, stopWorking, Calls, NextOrReturns, NextMiner,
                      Returns, control
  <2> QED
    BY <1>1, <1>2, <2>1, <2>2, <2>3 DEF PausedIsVoid
<1>4. ASSUME NEW t \in Threads, NEW j \in Miners, ApiPauses(t, j)
      PROVE  (OneWriter /\ PausedIsVoid)'
  BY <1>1, <1>2, <1>4 DEF ApiPauses, Calls, miner, PausedIsVoid
<1>5. ASSUME NEW t \in Threads, start(t) PROVE (OneWriter /\ PausedIsVoid)'
  BY <1>5 DEF start, All, control, PausedIsVoid
<1>6. ASSUME NEW t \in Threads, NEW S, NEW reason, resume(t, S, reason)
      PROVE  (OneWriter /\ PausedIsVoid)'
  <2>1. /\ t = "io" /\ op["io"] = "none" /\ UNCHANGED <<m_work, op, at, idx>>
        /\ \A i \in Miners : m_pauseFlags'[i] # {} => m_pauseFlags[i] # {}
    BY <1>6 DEF resume, control
  <2> QED
    BY <1>1, <1>2, <2>1 DEF PausedIsVoid
<1>7. ASSUME NEW t \in Threads, MinerChecksPaused(t) PROVE (OneWriter /\ PausedIsVoid)'
  <2>1. /\ t = "io" /\ op["io"] = "setWork" /\ UNCHANGED <<op, idx, m_pauseFlags>>
        /\ \A i \in Miners : m_work'[i] \in {m_work[i], NoWork}
        /\ at'["io"] = "write" => m_pauseFlags[idx["io"]] = {}
    BY <1>7 DEF MinerChecksPaused, MinerPaused, Moves
  <2> QED
    BY <1>1, <1>2, <2>1 DEF PausedIsVoid
<1>8. ASSUME NEW t \in Threads, MinerTakesWork(t) PROVE (OneWriter /\ PausedIsVoid)'
  <2>1. /\ t = "io" /\ op["io"] = "setWork" /\ UNCHANGED <<op, idx, m_pauseFlags>>
        /\ at'["io"] = "kick" /\ m_pauseFlags[idx["io"]] = {}
        /\ \A i \in Miners \ {idx["io"]} : UNCHANGED m_work[i]
    BY <1>8 DEF MinerTakesWork, Moves
  <2> QED
    BY <1>1, <1>2, <2>1 DEF PausedIsVoid
<1>9. ASSUME NEW t \in Threads, setWorkKicks(t) \/ triggerStopWorking(t)
      PROVE  (OneWriter /\ PausedIsVoid)'
  <2>1. UNCHANGED <<m_work, m_pauseFlags>> /\ op[t] \in {"setWork", "stop"}
    BY <1>9 DEF setWorkKicks, triggerStopWorking
  <2>2. /\ \A u \in Threads : op'[u] \in {op[u], "none"}
        /\ at'[t] # "write"
        /\ \A u \in Threads \ {t} : UNCHANGED <<op[u], at[u], idx[u]>>
    BY <1>9 DEF setWorkKicks, triggerStopWorking, NextOrReturns, NextMiner, Returns
  <2> QED
    BY <1>1, <1>2, <2>1, <2>2 DEF PausedIsVoid
<1>10. ASSUME NEW t \in Threads, pause(t) PROVE (OneWriter /\ PausedIsVoid)'
  <2>1. t = "io" /\ op["io"] = "pause"
    BY <1>10 DEF pause
  <2>2. OneWriter'
    BY <1>10, <2>1, SMTT(30) DEF pause, Moves, NextOrReturns, NextMiner, Returns
  <2>3. CASE at["io"] = "flag"
    <3>1. /\ at'["io"] = "clear" /\ UNCHANGED <<op, idx>>
          /\ \A i \in Miners \ {idx["io"]} : UNCHANGED <<m_work[i], m_pauseFlags[i]>>
      BY <1>10, <2>1, <2>3 DEF pause, Moves
    <3> QED
      BY <1>1, <1>2, <2>1, <2>2, <2>3, <3>1, Zenon DEF PausedIsVoid
  <2>4. CASE at["io"] = "clear"
    <3>1. /\ m_work'[idx["io"]] = NoWork /\ UNCHANGED m_pauseFlags
          /\ \A i \in Miners \ {idx["io"]} : UNCHANGED m_work[i]
      BY <1>10, <2>1, <2>4 DEF pause
    <3> QED
      BY <1>1, <1>2, <2>2, <3>1 DEF PausedIsVoid
  <2>5. CASE at["io"] = "kick"
    <3>1. UNCHANGED <<m_work, m_pauseFlags>> /\ m_work[idx["io"]] = NoWork
      BY <1>10, <2>1, <2>5 DEF pause
    <3> QED
      BY <1>1, <1>2, <2>2, <3>1 DEF PausedIsVoid
  <2> QED
    BY <1>10, <2>1, <2>3, <2>4, <2>5 DEF pause
<1>11. ASSUME NEW j \in Miners, MinerStep(j) PROVE (OneWriter /\ PausedIsVoid)'
  <2>1. UNCHANGED <<m_work, m_pauseFlags, op, at, idx>>
    BY <1>11 DEF MinerStep, WhileNotStopping, work, timed_wait, initEpoch, initEpoch_internal,
                 AdvanceDagLoad, search, ResetNewWork, Goes, control
  <2> QED
    BY <1>1, <1>2, <2>1 DEF PausedIsVoid
<1>12. CASE UNCHANGED vars
  BY <1>1, <1>2, <1>12 DEF vars, miner, control, PausedIsVoid
<1> QED
  BY <1>3, <1>4, <1>5, <1>6, <1>7, <1>8, <1>9, <1>10, <1>11, <1>12, Zenon DEF Next, ControlStep

(* With a pool, whose jobs arrive on the thread that also serves the API,  *)
(* a suspended miner has no work, for any number of miners and any         *)
(* succession of jobs, suspensions by farm and API, and restarts.          *)
THEOREM PausedMinersRest ==
    ASSUME SetWorkThread = "io"
    PROVE  Spec => []PausedIsVoid
<1> DEFINE PauseInv == TypeOK /\ OneWriter /\ PausedIsVoid
<1>1. Init => PauseInv
  BY InitTypeOK DEF Init, All, OneWriter, PausedIsVoid, Threads
<1>2. PauseInv /\ [Next]_vars => PauseInv'
  BY NextTypeOK, NextPausedIsVoid
<1>3. PauseInv => PausedIsVoid
  OBVIOUS
<1> QED
  BY <1>1, <1>2, <1>3, PTL DEF Spec
==============================================================================
