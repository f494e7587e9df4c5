----------------------------- MODULE StratumLink -----------------------------
(***************************************************************************)
(* The steps by which the stratum client gains a link, gives it up and     *)
(* shuts it down keep the invariant.                                       *)
(***************************************************************************)
EXTENDS StratumInvariant

(* The queue after several handlers were posted.                           *)
LEMMA Joining == ASSUME NEW q \in Seq(Handlers), NEW s \in Seq(Handlers)
                 PROVE  /\ q \o s \in Seq(Handlers)
                        /\ Range(q \o s) = Range(q) \union Range(s)
                        /\ \A h : After(q \o s, h) \subseteq
                             After(q, h) \union After(s, h) \union (IF h \in Range(q) THEN Range(s) ELSE {})
                        /\ \A h : After(q, h) \subseteq After(q \o s, h)
<1> DEFINE p == q \o s
<1>1. /\ p \in Seq(Handlers) /\ Len(p) = Len(q) + Len(s) /\ Len(q) \in Nat /\ Len(s) \in Nat
      /\ \A i \in 1..Len(q) : p[i] = q[i]
      /\ \A i \in 1..Len(s) : p[Len(q) + i] = s[i]
  OBVIOUS
<1>2. Range(p) = {p[j] : j \in 1..Len(p)} /\ Range(q) = {q[j] : j \in 1..Len(q)}
      /\ Range(s) = {s[j] : j \in 1..Len(s)}
  BY DEF Range
<1> HIDE DEF p
<1>3. \A j \in 1..Len(p) : j \in 1..Len(q) \/ (j - Len(q) \in 1..Len(s) /\ p[j] = s[j - Len(q)])
  <2> TAKE j \in 1..Len(p)
  <2>1. CASE j \notin 1..Len(q)
    <3>1. j - Len(q) \in 1..Len(s) /\ Len(q) + (j - Len(q)) = j
      BY <1>1, <2>1
    <3> QED BY Zenon, <1>1, <3>1
  <2> QED BY <2>1
<1>4. \A i \in 1..Len(q) : i \in 1..Len(p)
  BY <1>1
<1>5. \A i \in 1..Len(s) : Len(q) + i \in 1..Len(p)
  BY <1>1
<1>6. Range(p) = Range(q) \union Range(s)
  <2>1. Range(p) \subseteq Range(q) \union Range(s)
    BY Zenon, <1>1, <1>2, <1>3
  <2>2. Range(q) \subseteq Range(p)
    BY <1>1, <1>2, <1>4
  <2>3. Range(s) \subseteq Range(p)
    BY <1>1, <1>2, <1>5
  <2> QED BY <2>1, <2>2, <2>3
<1>7. ASSUME NEW h, NEW y \in After(p, h)
      PROVE  y \in After(q, h) \union After(s, h) \union (IF h \in Range(q) THEN Range(s) ELSE {})
  <2>1. PICK k \in 1..Len(p) : y = p[k] /\ \E i \in 1..(k - 1) : p[i] = h
    BY <1>7 DEF After
  <2>2. PICK i \in 1..(k - 1) : p[i] = h
    BY <2>1
  <2>3. i \in 1..Len(p) /\ i < k
    BY <1>1, <2>1, <2>2
  <2>4. CASE k \in 1..Len(q)
    <3>1. i \in 1..Len(q) /\ q[k] = y /\ q[i] = h
      BY SMTT(30), <1>1, <2>1, <2>2, <2>3, <2>4
    <3> QED BY <2>2, <2>4, <3>1 DEF After
  <2>5. CASE k \notin 1..Len(q) /\ i \in 1..Len(q)
    <3>1. q[i] = h /\ k - Len(q) \in 1..Len(s) /\ s[k - Len(q)] = y
      BY <1>1, <1>3, <2>1, <2>2, <2>5
    <3> QED BY <1>2, <2>5, <3>1
  <2>6. CASE k \notin 1..Len(q) /\ i \notin 1..Len(q)
    <3>1. k - Len(q) \in 1..Len(s) /\ s[k - Len(q)] = y /\ s[i - Len(q)] = h /\ i - Len(q) \in 1..Len(s)
      BY SMTT(30), <1>3, <2>1, <2>2, <2>3, <2>6
    <3>2. i - Len(q) \in 1..((k - Len(q)) - 1)
      BY <1>1, <2>1, <2>3, <3>1
    <3> QED BY Zenon, <3>1, <3>2 DEF After
  <2> QED BY <2>4, <2>5, <2>6
<1>8. ASSUME NEW h, NEW y \in After(q, h) PROVE y \in After(p, h)
  <2>1. PICK k \in 1..Len(q) : y = q[k] /\ \E i \in 1..(k - 1) : q[i] = h
    BY <1>8 DEF After
  <2>2. PICK i \in 1..(k - 1) : q[i] = h
    BY <2>1
  <2>3. i \in 1..Len(q) /\ k \in 1..Len(p)
    BY <1>1, <2>1, <2>2
  <2>4. p[k] = y /\ p[i] = h
    BY <1>1, <2>1, <2>2, <2>3
  <2> QED BY <2>2, <2>3, <2>4 DEF After
<1> QED BY <1>1, <1>6, <1>7, <1>8 DEF p

(* A queue of one handler, ...                                             *)
LEMMA OneHandler == ASSUME NEW h \in Handlers
                    PROVE  <<h>> \in Seq(Handlers) /\ Range(<<h>>) = {h} /\ \A k : After(<<h>>, k) = {}
<1>1. <<h>> \in Seq(Handlers) /\ Len(<<h>>) = 1 /\ <<h>>[1] = h /\ DOMAIN <<h>> = {1}
  OBVIOUS
<1>2. \A k \in 1..1 : \A i \in 1..(k - 1) : FALSE
  OBVIOUS
<1> QED BY <1>1, <1>2 DEF Range, After

(* ... and an empty one.                                                   *)
LEMMA NoHandler == <<>> \in Seq(Handlers) /\ Range(<<>>) = {} /\ \A k : After(<<>>, k) = {}
<1>1. <<>> \in Seq(Handlers) /\ Len(<<>>) = 0 /\ DOMAIN <<>> = {}
  OBVIOUS
<1>2. \A k \in 1..0 : FALSE
  OBVIOUS
<1> QED BY <1>1, <1>2 DEF Range, After

(* Nothing waits behind a handler that does not wait.                      *)
LEMMA NothingAfter == ASSUME NEW q \in Seq(Handlers), NEW h, h \notin Range(q)
                      PROVE  After(q, h) = {}
<1>1. ASSUME NEW y \in After(q, h) PROVE FALSE
  <2>1. PICK k \in 1..Len(q) : \E i \in 1..(k - 1) : q[i] = h
    BY <1>1 DEF After
  <2>2. PICK i \in 1..(k - 1) : q[i] = h
    BY <2>1
  <2>3. i \in DOMAIN q
    BY <2>1, <2>2
  <2> QED BY <2>2, <2>3 DEF Range
<1> QED BY <1>1

(* What cancelled operations leave in the queue.                           *)
AbortedAs(ops) == (IF "read" \in ops THEN {"recvErr"} ELSE {})
                    \union (IF "write" \in ops THEN {"sendErr"} ELSE {})
                    \union (IF "connect" \in ops THEN {"refused"} ELSE {})
                    \union (IF "shutdown" \in ops THEN {"shutdown"} ELSE {})

(* The handlers of the operations that are aborted, in the order in which  *)
(* they are posted.                                                        *)
LEMMA Aborting == ASSUME NEW ops
                  PROVE  /\ Aborted(ops) \in Seq(Handlers) /\ Range(Aborted(ops)) = AbortedAs(ops)
                         /\ ops \intersect {"read", "write"} = {} /\ ~({"connect", "shutdown"} \subseteq ops)
                              => \A h : After(Aborted(ops), h) = {}
                         /\ \A h : h \notin AbortedAs(ops) => After(Aborted(ops), h) = {}
<1> DEFINE a == IF "read" \in ops THEN <<"recvErr">> ELSE <<>>
           b == IF "write" \in ops THEN <<"sendErr">> ELSE <<>>
           d == IF "connect" \in ops THEN <<"refused">> ELSE <<>>
           e == IF "shutdown" \in ops THEN <<"shutdown">> ELSE <<>>
<1>1. \A h \in {"recvErr", "sendErr", "refused", "shutdown"} : h \in Handlers
  BY DEF Handlers
<1>2. a \in Seq(Handlers) /\ Range(a) = IF "read" \in ops THEN {"recvErr"} ELSE {}
  BY Zenon, <1>1, OneHandler, NoHandler
<1>3. b \in Seq(Handlers) /\ Range(b) = IF "write" \in ops THEN {"sendErr"} ELSE {}
  BY SMTT(30), <1>1, OneHandler, NoHandler
<1>4. d \in Seq(Handlers) /\ Range(d) = IF "connect" \in ops THEN {"refused"} ELSE {}
  BY Zenon, <1>1, OneHandler, NoHandler
<1>5. e \in Seq(Handlers) /\ Range(e) = IF "shutdown" \in ops THEN {"shutdown"} ELSE {}
  BY Zenon, <1>1, OneHandler, NoHandler
<1>6. Aborted(ops) = a \o b \o d \o e
  BY DEF Aborted
<1> HIDE DEF a, b, d, e
<1>7. a \o b \in Seq(Handlers) /\ Range(a \o b) = Range(a) \union Range(b)
  BY <1>2, <1>3, Joining
<1>8. a \o b \o d \in Seq(Handlers) /\ Range(a \o b \o d) = Range(a) \union Range(b) \union Range(d)
  BY ZenonT(60), <1>4, <1>7, Joining
<1>9. a \o b \o d \o e \in Seq(Handlers)
      /\ Range(a \o b \o d \o e) = Range(a) \union Range(b) \union Range(d) \union Range(e)
  BY ZenonT(60), <1>5, <1>8, Joining
<1>10. Aborted(ops) \in Seq(Handlers) /\ Range(Aborted(ops)) = AbortedAs(ops)
  BY <1>2, <1>3, <1>4, <1>5, <1>6, <1>9, Zenon DEF AbortedAs
<1>11. ASSUME ops \intersect {"read", "write"} = {}, ~({"connect", "shutdown"} \subseteq ops)
       PROVE  \A h : After(Aborted(ops), h) = {}
  <2> TAKE h
  <2>1. Range(a) = {} /\ Range(b) = {} /\ (Range(d) = {} \/ Range(e) = {})
    BY <1>2, <1>3, <1>4, <1>5, <1>11
  <2>2. After(a, h) = {} /\ After(b, h) = {} /\ After(d, h) = {} /\ After(e, h) = {}
    BY <1>1, OneHandler, NoHandler DEF a, b, d, e
  <2>3. After(a \o b, h) = {} /\ Range(a \o b) = {}
    BY Zenon, <1>2, <1>3, <1>7, <2>1, <2>2, Joining
  <2>4. After(a \o b \o d, h) = {} /\ Range(a \o b \o d) = Range(d)
    <3>1. After(a \o b \o d, h) \subseteq
            After(a \o b, h) \union After(d, h) \union (IF h \in Range(a \o b) THEN Range(d) ELSE {})
      BY Zenon, <1>4, <1>7, Joining
    <3> QED BY <1>7, <1>8, <2>1, <2>2, <2>3, <3>1
  <2>5. After(a \o b \o d \o e, h) = {}
    BY ZenonT(60), <1>5, <1>8, <2>1, <2>2, <2>4, Joining
  <2> QED BY <1>6, <2>5
<1>12. \A h : h \notin AbortedAs(ops) => After(Aborted(ops), h) = {}
  BY <1>10, NothingAfter
<1> QED BY <1>10, <1>11, <1>12

-----------------------------------------------------------------------------

(* Cancelling the operations of a socket posts their handlers with an      *)
(* error; the resolver is not part of it.                                  *)
LEMMA Cancelling == ASSUME NEW x \in Clients, NEW z, z = CancelOps(x)
                    PROVE  /\ z \in Clients /\ SameFlags(x, z) /\ SameMind(x, z)
                           /\ z.ops = x.ops \intersect {"resolve"}
                           /\ Queued(z) = Queued(x) \union AbortedAs(x.ops)
                           /\ \A h : After(x.queue, h) \subseteq After(z.queue, h)
                           /\ \A h : After(z.queue, h) \subseteq After(x.queue, h) \union AbortedAs(x.ops)
                           /\ \A h : h \notin Queued(x) \union AbortedAs(x.ops) => After(z.queue, h) = {}
                           /\ \A h : h \notin AbortedAs(x.ops) => After(z.queue, h) \subseteq
                                        After(x.queue, h) \union (IF h \in Queued(x) THEN AbortedAs(x.ops) ELSE {})
                           /\ x.ops \intersect {"read", "write"} = {} /\ ~({"connect", "shutdown"} \subseteq x.ops) =>
                                \A h : After(z.queue, h) \subseteq
                                        After(x.queue, h) \union (IF h \in Queued(x) THEN AbortedAs(x.ops) ELSE {})
<1> DEFINE s == Aborted(x.ops)
           q == x.queue \o s
           o == x.ops \intersect {"resolve"}
<1>1. /\ s \in Seq(Handlers) /\ Range(s) = AbortedAs(x.ops)
      /\ x.ops \intersect {"read", "write"} = {} /\ ~({"connect", "shutdown"} \subseteq x.ops)
           => \A h : After(s, h) = {}
      /\ \A h : h \notin AbortedAs(x.ops) => After(s, h) = {}
  BY Aborting
<1>2. x.queue \in Seq(Handlers) /\ o \in SUBSET {"resolve", "connect", "read", "write", "shutdown"}
  BY DEF Clients
<1>3. z = [x EXCEPT !.queue = q, !.ops = o]
  BY DEF CancelOps
<1> HIDE DEF s
<1>4. /\ q \in Seq(Handlers) /\ Range(q) = Range(x.queue) \union Range(s)
      /\ \A h : After(q, h) \subseteq
           After(x.queue, h) \union After(s, h) \union (IF h \in Range(x.queue) THEN Range(s) ELSE {})
      /\ \A h : After(x.queue, h) \subseteq After(q, h)
  BY <1>1, <1>2, Joining
<1> HIDE DEF q, o
<1>5. [x EXCEPT !.queue = q, !.ops = o] \in Clients
  BY <1>2, <1>4, Zenon DEF Clients
<1>6. z \in Clients
  BY <1>3, <1>5
<1>7. SameFlags(x, z) /\ SameMind(x, z) /\ z.ops = o /\ z.queue = q
  BY <1>3 DEF Clients, SameFlags, SameMind, SameLogin
<1>8. \A h : After(s, h) \subseteq Range(s)
  <2>1. ASSUME NEW h, NEW e \in After(s, h) PROVE e \in Range(s)
    <3>1. PICK j \in 1..Len(s) : e = s[j]
      BY DEF After
    <3> QED BY <1>1, <3>1 DEF Range
  <2> QED BY <2>1
<1>9. Queued(z) = Queued(x) \union AbortedAs(x.ops) /\ Queued(x) = Range(x.queue)
  BY <1>1, <1>4, <1>7 DEF Queued
<1>10. ASSUME NEW h PROVE /\ After(x.queue, h) \subseteq After(z.queue, h)
                          /\ After(z.queue, h) \subseteq After(x.queue, h) \union AbortedAs(x.ops)
  BY <1>1, <1>4, <1>7, <1>8
<1>11. ASSUME NEW h, h \notin Queued(x) \union AbortedAs(x.ops) PROVE After(z.queue, h) = {}
  BY <1>2, <1>1, <1>4, <1>7, <1>9, <1>11, NothingAfter
<1>12. ASSUME NEW h, After(s, h) = {}
       PROVE  After(z.queue, h) \subseteq After(x.queue, h) \union (IF h \in Queued(x) THEN AbortedAs(x.ops) ELSE {})
  BY <1>1, <1>4, <1>7, <1>9, <1>12
<1> QED BY <1>1, <1>6, <1>7, <1>9, <1>10, <1>11, <1>12 DEF o

(* Closing the socket cancels what is under way on it.                     *)
LEMMA ClosingSocket == ASSUME NEW x \in Clients, NEW z, z = CloseSocket(x), NEW y, y = CancelOps(x)
                  PROVE  /\ z \in Clients /\ SameMind(x, z) /\ z.m_socket = "closed"
                         /\ z.ops = y.ops /\ z.queue = y.queue
                         /\ z.m_connecting = x.m_connecting /\ z.m_disconnecting = x.m_disconnecting
                         /\ z.m_connected = x.m_connected /\ z.m_endpoints = x.m_endpoints /\ z.armed = x.armed
                         /\ z.told = x.told /\ z.responds = x.responds
<1>1. y \in Clients /\ SameFlags(x, y) /\ SameMind(x, y)
  BY Cancelling
<1>2. z = [y EXCEPT !.m_socket = "closed"]
  BY DEF CloseSocket
<1>3. [y EXCEPT !.m_socket = "closed"] \in Clients
  <2>1. "closed" \in {"null", "closed", "open"}
    OBVIOUS
  <2> QED BY <1>1, <2>1, ZenonT(60) DEF Clients
<1>4. z \in Clients
  BY <1>2, <1>3
<1>5. /\ SameMind(y, z) /\ z.m_socket = "closed"
      /\ z.ops = y.ops /\ z.queue = y.queue
      /\ z.m_connecting = y.m_connecting /\ z.m_disconnecting = y.m_disconnecting
      /\ z.m_connected = y.m_connected /\ z.m_endpoints = y.m_endpoints /\ z.armed = y.armed
      /\ z.told = y.told /\ z.responds = y.responds
  BY <1>1, <1>2 DEF Clients, SameMind, SameLogin
<1> QED BY <1>1, <1>4, <1>5 DEF SameFlags, SameMind, SameLogin

(* start_connect dials the next address, ends the attempt when none is     *)
(* left, or finds no socket; the invariant is kept.                        *)
LEMMA StartConnectStep == ASSUME c \in Clients, Good(c), StartConnect
                          PROVE  Goes(c, c') /\ (SamePhase(c, c') \/ (Ended(c, c') /\ ~c.m_connected))
<1> DEFINE x == Rest
           z == c'
<1>1. z = start_connect(x) /\ Runs("start_connect")
  BY DEF StartConnect
<1>2. /\ x \in Clients /\ ~c.crashed /\ SameFlags(c, x) /\ x.ops = c.ops /\ Queued(c) = {"start_connect"} \union Queued(x)
      /\ After(c.queue, "start_connect") = Queued(x)
      /\ \A k : /\ After(x.queue, k) \subseteq After(c.queue, k)
                /\ k # "start_connect" => After(x.queue, k) = After(c.queue, k)
  BY <1>1, RestIs
<1>3. Knowledge(x) /\ SameMind(c, x)
  BY <1>1, RestKnows
<1> HIDE DEF x
<1>4. ~c.m_connected /\ ~c.m_disconnecting /\ ~x.crashed
  BY <1>2, <1>3 DEF Good, Skeleton, Linked, Shutting, Dialing, SameMind, SameLogin
<1>5. SamePhase(c, x)
  BY <1>2, <1>3 DEF SamePhase, SameFlags, SameMind, SameLogin, SameView
<1> USE DEF Good, Skeleton, SameFlags
<1>6. CASE x.m_connecting
  <2>1. z = x
    BY <1>1, <1>6 DEF start_connect
  <2>2. Naming(x) /\ Linked(x) /\ Shutting(x) /\ Told(x) /\ Resting(x)
    BY <1>2, <1>4, <1>6 DEF Naming, Linked, Shutting, Told, Resting
  <2>3. Connecting(x)
    BY <1>2, <1>6 DEF Connecting
  <2>4. Operations(x)
    BY <1>2 DEF Operations
  <2>5. OneLife(x)
    BY <1>2 DEF OneLife, Dialing
  <2>6. LastReport(x)
    BY <1>2, <1>4 DEF LastReport
  <2>7. Watched(x)
    BY <1>2, <1>4 DEF Watched
  <2>8. Good(x)
    BY <1>3, <2>2, <2>3, <2>4, <2>5, <2>6, <2>7
  <2> QED BY <1>2, <1>4, <1>5, <2>1, <2>8 DEF Goes
<1>7. CASE ~x.m_connecting /\ x.told
  <2>1. z = Crash(x)
    BY <1>1, <1>7 DEF start_connect
  <2>2. /\ z \in Clients /\ z.crashed /\ SameFlags(x, z) /\ z.mode = x.mode /\ SameView(x, z)
    BY <1>2, <2>1, CrashMoves
  <2>3. ~Harmless
    BY <1>2, <1>7 DEF Harmless, LastReport
  <2>4. SamePhase(c, z)
    BY <1>5, <2>2 DEF SamePhase, SameView
  <2> QED BY <1>4, <2>2, <2>3, <2>4 DEF Goes
<1>8. ASSUME ~x.m_connecting, ~x.told
      PROVE  /\ x.ops = {} /\ ~c.told /\ ~c.m_connecting
             /\ "resolved" \notin Queued(x) /\ "unresolved" \notin Queued(x)
             /\ "shutdown" \notin Queued(x) /\ "finalize" \notin Queued(x)
             /\ "connected" \notin Queued(x) /\ "refused" \notin Queued(x)
             /\ "tick" \in Queued(x) => ~x.armed /\ "tick" \notin After(x.queue, "tick")
             /\ Clean => \A h \in Dialing : h \notin Queued(x)
             /\ TLS => Queued(x) \subseteq {"tick"}
  <2>1. x.ops = {}
    <3>1. x.ops \subseteq {"resolve", "connect", "read", "write", "shutdown"}
      BY <1>2 DEF Clients
    <3>2. "connect" \notin x.ops /\ "read" \notin x.ops /\ "write" \notin x.ops /\ "shutdown" \notin x.ops
      BY <1>2, <1>4, <1>8 DEF Operations
    <3>3. "resolve" \notin x.ops
      BY <1>2, <1>4, <1>8 DEF Naming
    <3> QED BY <3>1, <3>2, <3>3
  <2>2. /\ "resolved" \notin Queued(x) /\ "unresolved" \notin Queued(x)
        /\ "shutdown" \notin Queued(x) /\ "finalize" \notin Queued(x)
        /\ "connected" \notin Queued(x) /\ "refused" \notin Queued(x)
    BY <1>2, <1>4, <1>8 DEF Operations, Naming
  <2>3. "tick" \in Queued(x) => ~x.armed /\ "tick" \notin After(x.queue, "tick")
    BY <1>2 DEF Operations
  <2>4. Clean => (\A h \in Dialing : h \notin Queued(x)) /\ Queued(x) \subseteq {"tick"}
    BY <1>2, <1>4, <1>8 DEF OneLife, Dialing
  <2> QED BY <1>2, <1>8, <2>1, <2>2, <2>3, <2>4 DEF Clean
<1>9. CASE ~x.m_connecting /\ ~x.told /\ ~(x.m_endpoints > 0)
  <2>1. z = disconnect_finalize(x)
    BY <1>1, <1>9 DEF start_connect
  <2>2. (~x.m_connected /\ "recv" \notin Queued(x)) \/ x.mode \in Modes
    BY <1>2, <1>3, <1>4 DEF Knowledge
  <2>3. Ending(x)
    BY <1>2, <1>3, <1>4, <1>8, <1>9 DEF Ending, Knowledge
  <2>4. /\ z \in Clients /\ ~z.crashed /\ Good(z)
        /\ Leaves(x, z) /\ (Tries(x, z) \/ Tells(x, z))
    BY <1>2, <1>4, <2>1, <2>3, EndsWell
  <2>5. Ended(c, z)
    <3>1. ~x.told /\ x.told = c.told /\ x.responds = c.responds /\ x.confirmed = c.confirmed
          /\ x.mode = c.mode /\ x.unrecoverable = c.unrecoverable /\ ~x.m_connected
      BY <1>2, <1>3, <1>4, <1>9 DEF SameMind, SameLogin
    <3> QED BY <2>4, <3>1, EndIsSeen
  <2> QED BY <1>4, <2>4, <2>5 DEF Goes
<1>10. CASE ~x.m_connecting /\ ~x.told /\ x.m_endpoints > 0
  <2> DEFINE d == clear_response_pleas(x)
             o == d.ops \union {"connect"}
             e == [d EXCEPT !.m_connecting = TRUE, !.m_socket = "open", !.ops = o]
  <2>1. z = enqueue_response_plea(e)
    BY <1>1, <1>10 DEF start_connect
  <2>2. d \in Clients /\ SameFlags(x, d) /\ SameMind(x, d) /\ d.ops = x.ops /\ d.queue = x.queue
    BY <1>2, Pleading
  <2> HIDE DEF d
  <2>3. o \in SUBSET {"resolve", "connect", "read", "write", "shutdown"} /\ "open" \in {"null", "closed", "open"}
        /\ o = {"connect"}
    BY <1>8, <1>10, <2>2
  <2> HIDE DEF o
  <2>4. e \in Clients
    BY <2>2, <2>3, ZenonT(60) DEF Clients
  <2>5. /\ SameMind(d, e) /\ e.queue = d.queue /\ e.ops = o /\ e.m_socket = "open"
        /\ e.m_disconnecting = d.m_disconnecting /\ e.m_connected = d.m_connected
        /\ e.m_endpoints = d.m_endpoints /\ e.armed = d.armed /\ e.told = d.told /\ e.responds = d.responds
    BY <2>2 DEF Clients, SameMind, SameLogin
  <2>6. e.m_connecting
    BY <2>2, Zenon DEF Clients
  <2> HIDE DEF e
  <2>7. z \in Clients /\ SameFlags(e, z) /\ SameMind(e, z) /\ z.ops = e.ops /\ z.queue = e.queue
    BY <2>1, <2>4, Pleading
  <2> HIDE DEF z
  <2>8. /\ SameMind(c, z) /\ z.queue = x.queue /\ z.ops = {"connect"} /\ z.m_socket = "open" /\ z.m_connecting
        /\ z.m_disconnecting = c.m_disconnecting /\ z.m_connected = c.m_connected
        /\ z.m_endpoints = c.m_endpoints /\ z.armed = c.armed /\ z.told = c.told /\ z.responds = c.responds
        /\ Queued(z) = Queued(x)
    BY <1>2, <1>3, <2>2, <2>3, <2>5, <2>6, <2>7 DEF SameMind, SameLogin, Queued
  <2>a. z.m_endpoints > 0 /\ ~z.told /\ ~z.m_connected /\ ~z.m_disconnecting
    BY <1>2, <1>4, <1>10, <2>8
  <2>b. /\ After(z.queue, "connected") = {} /\ After(z.queue, "refused") = {}
        /\ After(z.queue, "shutdown") = {} /\ After(z.queue, "finalize") = {}
    BY <1>8, <1>10, <2>7, <2>8, AbsentAfter
  <2>9. Naming(z) /\ Connecting(z) /\ Linked(z) /\ Shutting(z) /\ Told(z) /\ Resting(z)
    BY <1>8, <1>10, <2>8, <2>a, <2>b DEF Naming, Connecting, Linked, Shutting, Told, Resting
  <2>10. Operations(z)
    BY <1>2, <1>8, <1>10, <2>8, <2>a DEF Operations
  <2>11. OneLife(z)
    <3>1. Clean => \A h \in Dialing : After(z.queue, h) = {}
      BY <1>8, <1>10, <2>7, <2>8, AbsentAfter
    <3>2. Clean => Queued(z) \subseteq Dialing \union {"tick"}
      BY <1>2, <1>4, <1>8, <1>10, <2>8 DEF OneLife
    <3>3. Clean => TLS \/ ~z.responds
      BY <1>4, <1>8, <1>10, <2>8 DEF OneLife
    <3> QED BY <1>8, <1>10, <2>8, <2>a, <3>1, <3>2, <3>3 DEF OneLife
  <2>12. LastReport(z) /\ Watched(z)
    BY <1>8, <1>10, <2>8, <2>a, <2>b DEF LastReport, Watched
  <2>13. Knowledge(z)
    <3>1. "read" \notin z.ops /\ Queued(z) = Queued(x)
      BY <2>8
    <3>2. z.told = x.told /\ z.m_connected = x.m_connected /\ z.m_disconnecting = x.m_disconnecting /\ z.responds = x.responds
      BY <1>2, <2>8
    <3>3. SameMind(x, z)
      BY <1>3, <2>8 DEF SameMind, SameLogin
    <3> QED BY <1>3, <3>1, <3>2, <3>3 DEF Knowledge, SameMind, SameLogin
  <2>14. ~z.crashed /\ SamePhase(c, z)
    BY <1>2, <2>8 DEF SameMind, SameLogin, SamePhase, SameView
  <2> QED BY <2>7, <2>9, <2>10, <2>11, <2>12, <2>13, <2>14 DEF Goes, z
<1> QED BY <1>6, <1>7, <1>9, <1>10

(* What the pool manager sees of a link.                                   *)
Linking(x, z) == /\ ~x.told /\ ~x.m_connected /\ ~x.m_disconnecting
                 /\ ~z.told /\ z.m_connected /\ ~z.m_disconnecting /\ z.responds
                 /\ Clean => ~z.session.on
                 /\ \/ TLS /\ z.unrecoverable /\ z.mode = x.mode /\ z.confirmed = x.confirmed
                    \/ /\ z.mode = IF Version # Unset THEN Version ELSE IF x.mode = Unset THEN 3 ELSE x.mode
                       /\ z.confirmed = (x.confirmed \/ Version # Unset)
                       /\ z.unrecoverable = x.unrecoverable

(* What holds when the handler of a connect begins to run.                 *)
LEMMA AtConnect == ASSUME c \in Clients, Good(c), NEW h \in {"connected", "refused"}, Runs(h), NEW x, x = Rest
                   PROVE  /\ x \in Clients /\ ~x.crashed /\ SameFlags(c, x) /\ SameMind(c, x) /\ Knowledge(x)
                          /\ x.m_connecting /\ ~x.m_connected /\ ~x.m_disconnecting /\ x.m_endpoints > 0
                          /\ x.ops = {} /\ (x.told => x.m_socket = "null")
                          /\ "resolved" \notin Queued(x) /\ "unresolved" \notin Queued(x)
                          /\ "shutdown" \notin Queued(x) /\ "finalize" \notin Queued(x)
                          /\ "connected" \notin Queued(x) /\ "refused" \notin Queued(x)
                          /\ x.m_socket = "open" => "start_connect" \notin Queued(x)
                          /\ "tick" \in Queued(x) => ~x.armed /\ "tick" \notin After(x.queue, "tick")
                          /\ Clean => /\ ~x.told /\ Queued(x) \subseteq {"tick"} /\ x.m_socket # "null"
                                      /\ TLS \/ ~x.responds
<1>1. /\ x \in Clients /\ ~c.crashed /\ SameFlags(c, x) /\ x.ops = c.ops /\ Queued(c) = {h} \union Queued(x)
      /\ After(c.queue, h) = Queued(x)
      /\ \A k : /\ After(x.queue, k) \subseteq After(c.queue, k)
                /\ k # h => After(x.queue, k) = After(c.queue, k)
  BY RestIs
<1>2. Knowledge(x) /\ SameMind(c, x)
  BY RestKnows
<1> USE DEF Good, Skeleton, SameFlags
<1>3. x.m_connecting
  BY <1>1 DEF Operations
<1>4. ~x.m_connected /\ ~x.m_disconnecting /\ x.m_endpoints > 0 /\ "connect" \notin x.ops
  BY <1>1, <1>3 DEF Connecting
<1>5. "resolve" \notin x.ops /\ "resolved" \notin Queued(x) /\ "unresolved" \notin Queued(x)
  BY <1>1, <1>3 DEF Naming
<1>6. x.ops = {} /\ "shutdown" \notin Queued(x) /\ "finalize" \notin Queued(x)
  BY <1>1, <1>4, <1>5 DEF Operations, Clients
<1>7. /\ "connected" \notin Queued(x) /\ "refused" \notin Queued(x)
      /\ x.m_socket = "open" => "start_connect" \notin Queued(x)
  BY <1>1, <1>3 DEF Connecting
<1>8. "tick" \in Queued(x) => ~x.armed /\ "tick" \notin After(x.queue, "tick")
  BY <1>1 DEF Operations
<1>9. (x.told => x.m_socket = "null") /\ ~x.crashed
  BY <1>1, <1>2 DEF Told, SameMind, SameLogin
<1>10. ASSUME Clean
       PROVE  ~x.told /\ Queued(x) \subseteq {"tick"} /\ x.m_socket # "null" /\ (TLS \/ ~x.responds)
  <2>1. ~x.told
    BY <1>1, <1>3, <1>10 DEF OneLife
  <2> QED BY <1>1, <1>3, <1>4, <1>10, <2>1 DEF OneLife, Dialing
<1> QED BY <1>1, <1>2, <1>3, <1>4, <1>5, <1>6, <1>7, <1>8, <1>9, <1>10

(* The next address is tried.                                              *)
Redials(x) == LET w == CloseSocket([x EXCEPT !.m_connecting = FALSE])
                  n == w.m_endpoints - 1
              IN  Post([w EXCEPT !.m_endpoints = n], "start_connect")

(* The flag m_connecting may be reset.                                     *)
LEMMA NotConnecting == ASSUME NEW x \in Clients PROVE [x EXCEPT !.m_connecting = FALSE] \in Clients
BY Zenon DEF Clients

(* A failed connect tries the next address.                                *)
LEMMA ConnectFails == ASSUME c \in Clients, Good(c), NEW h \in {"connected", "refused"}, Runs(h), NEW x, x = Rest,
                             x.m_socket # "null", NEW z, z = Redials(x)
                      PROVE  Goes(c, z) /\ SamePhase(c, z)
<1> DEFINE y == [x EXCEPT !.m_connecting = FALSE]
           u == CancelOps(y)
           w == CloseSocket(y)
           n == w.m_endpoints - 1
           v == [w EXCEPT !.m_endpoints = n]
<1>1. /\ x \in Clients /\ ~x.crashed /\ SameFlags(c, x) /\ SameMind(c, x) /\ Knowledge(x)
      /\ x.m_connecting /\ ~x.m_connected /\ ~x.m_disconnecting /\ x.m_endpoints > 0
      /\ x.ops = {} /\ (x.told => x.m_socket = "null")
      /\ "resolved" \notin Queued(x) /\ "unresolved" \notin Queued(x)
      /\ "shutdown" \notin Queued(x) /\ "finalize" \notin Queued(x)
      /\ "connected" \notin Queued(x) /\ "refused" \notin Queued(x)
      /\ "tick" \in Queued(x) => ~x.armed /\ "tick" \notin After(x.queue, "tick")
      /\ Clean => Queued(x) \subseteq {"tick"} /\ (TLS \/ ~x.responds)
  BY AtConnect
<1>2. y \in Clients
  BY <1>1, NotConnecting
<1>3. /\ SameMind(x, y) /\ y.queue = x.queue /\ y.ops = x.ops
      /\ y.m_disconnecting = x.m_disconnecting /\ y.m_connected = x.m_connected /\ y.m_socket = x.m_socket
      /\ y.m_endpoints = x.m_endpoints /\ y.armed = x.armed /\ y.told = x.told /\ y.responds = x.responds
  BY <1>1 DEF Clients, SameMind, SameLogin
<1>4. ~y.m_connecting
  BY <1>1, Zenon DEF Clients
<1>u. u = CancelOps(y) /\ w = CloseSocket(y)
  OBVIOUS
<1>z. z = Post(v, "start_connect")
  BY DEF Redials
<1> HIDE DEF y, u, w
<1>5. /\ u.ops = {} /\ Queued(u) = Queued(x)
      /\ \A k : After(u.queue, k) \subseteq After(x.queue, k)
  <2>1. /\ u.ops = y.ops \intersect {"resolve"} /\ Queued(u) = Queued(y) \union AbortedAs(y.ops)
        /\ \A k : After(u.queue, k) \subseteq After(y.queue, k) \union AbortedAs(y.ops)
    BY <1>2, <1>u, Cancelling
  <2>2. AbortedAs(y.ops) = {} /\ Queued(y) = Queued(x)
    BY <1>1, <1>3 DEF AbortedAs, Queued
  <2> QED BY <1>1, <1>3, <2>1, <2>2
<1>6. /\ w \in Clients /\ SameMind(y, w) /\ w.m_socket = "closed" /\ w.ops = u.ops /\ w.queue = u.queue
      /\ w.m_connecting = y.m_connecting /\ w.m_disconnecting = y.m_disconnecting
      /\ w.m_connected = y.m_connected /\ w.m_endpoints = y.m_endpoints /\ w.armed = y.armed
      /\ w.told = y.told /\ w.responds = y.responds
  BY <1>2, <1>u, ClosingSocket
<1>7. n \in 0..MaxEndpoints
  <2>1. x.m_endpoints \in 0..MaxEndpoints /\ x.m_endpoints > 0 /\ w.m_endpoints = x.m_endpoints
    BY <1>1, <1>3, <1>6 DEF Clients
  <2> QED BY <2>1, StratumAssumption
<1> HIDE DEF n
<1>8. v \in Clients
  <2>1. [w EXCEPT !.m_endpoints = n] \in Clients
    BY <1>6, <1>7, Zenon DEF Clients
  <2> QED BY <2>1
<1>9. /\ SameMind(w, v) /\ v.m_socket = w.m_socket /\ v.ops = w.ops /\ v.queue = w.queue
      /\ v.m_connecting = w.m_connecting /\ v.m_disconnecting = w.m_disconnecting
      /\ v.m_connected = w.m_connected /\ v.armed = w.armed /\ v.told = w.told /\ v.responds = w.responds
  BY <1>6 DEF Clients, SameMind, SameLogin
<1> HIDE DEF v
<1>10. "start_connect" \in Handlers
  BY DEF Handlers
<1>11. /\ z \in Clients /\ SameFlags(v, z) /\ SameMind(v, z) /\ z.ops = v.ops
       /\ Queued(z) = Queued(v) \union {"start_connect"}
       /\ \A k : After(z.queue, k) = After(v.queue, k) \union (IF k \in Queued(v) THEN {"start_connect"} ELSE {})
  <2> HIDE DEF Post
  <2>1. LET p == Post(v, "start_connect")
        IN  /\ p \in Clients /\ SameFlags(v, p) /\ SameMind(v, p) /\ p.ops = v.ops
            /\ Queued(p) = Queued(v) \union {"start_connect"}
            /\ \A k : After(p.queue, k) = After(v.queue, k) \union (IF k \in Queued(v) THEN {"start_connect"} ELSE {})
    BY Zenon, <1>8, <1>10, Posts
  <2> QED BY <1>z, <2>1
<1>12. /\ SameMind(x, z) /\ SameMind(c, z) /\ z.ops = {} /\ z.m_socket = "closed"
       /\ ~z.m_connecting /\ ~z.m_disconnecting /\ ~z.m_connected /\ ~z.told
       /\ z.told = c.told /\ z.responds = c.responds /\ z.armed = x.armed /\ z.responds = x.responds /\ z.told = x.told
       /\ z.m_disconnecting = x.m_disconnecting /\ z.m_connected = x.m_connected
       /\ z.m_disconnecting = c.m_disconnecting /\ z.m_connected = c.m_connected
  <2>1. /\ SameMind(x, z) /\ z.ops = {} /\ z.m_socket = "closed" /\ ~z.m_connecting
        /\ z.responds = x.responds /\ z.armed = x.armed /\ z.told = x.told
        /\ z.m_disconnecting = x.m_disconnecting /\ z.m_connected = x.m_connected
    BY <1>3, <1>4, <1>5, <1>6, <1>9, <1>11 DEF SameFlags, SameMind, SameLogin
  <2>2. SameMind(c, z)
    BY <1>1, <2>1 DEF SameMind, SameLogin
  <2> QED BY <1>1, <2>1, <2>2 DEF SameFlags
<1>13. /\ Queued(z) = Queued(x) \union {"start_connect"}
       /\ \A k : After(z.queue, k) \subseteq
             After(x.queue, k) \union (IF k \in Queued(x) THEN {"start_connect"} ELSE {})
  <2>1. v.queue = u.queue /\ Queued(v) = Queued(x)
    BY <1>5, <1>6, <1>9 DEF Queued
  <2> QED BY <1>5, <1>11, <2>1
<1>14. \A k : k \notin Queued(x) => After(z.queue, k) = {}
  BY <1>1, <1>13, AbsentAfter
<1>15. Naming(z) /\ Connecting(z) /\ Linked(z) /\ Shutting(z) /\ Told(z) /\ Resting(z)
  BY <1>1, <1>12, <1>13 DEF Naming, Connecting, Linked, Shutting, Told, Resting
<1>16. Operations(z)
  BY <1>1, <1>12, <1>13 DEF Operations
<1>17. OneLife(z)
  BY <1>1, <1>12, <1>13, <1>14 DEF OneLife, Dialing
<1>18. LastReport(z) /\ Watched(z)
  BY <1>1, <1>12, <1>13, <1>14 DEF LastReport, Watched
<1>19. Knowledge(z)
  BY <1>1, <1>12, <1>13 DEF Knowledge, SameMind, SameLogin
<1>20. ~z.crashed /\ SamePhase(c, z)
  BY <1>1, <1>12 DEF SameMind, SameLogin, SamePhase, SameView
<1> QED BY <1>11, <1>15, <1>16, <1>17, <1>18, <1>19, <1>20 DEF Goes, Good, Skeleton

(* A client that has just linked, before it reads or asks.                 *)
LEMMA JustLinked == ASSUME c \in Clients, Good(c), NEW h \in {"connected", "refused"}, Runs(h), NEW x, x = Rest,
                           x.m_socket = "open", NEW w \in Clients, w.queue = x.queue, w.ops = x.ops,
                           ~w.m_connecting, w.m_connected, w.m_disconnecting = x.m_disconnecting, w.m_socket = x.m_socket,
                           w.m_endpoints = x.m_endpoints, w.armed = x.armed, w.told = x.told, w.responds
                    PROVE  Skeleton(w) /\ MayPost(w)
<1>1. /\ x \in Clients /\ ~x.m_connected /\ ~x.m_disconnecting /\ x.m_endpoints > 0
      /\ x.ops = {} /\ (x.told => x.m_socket = "null")
      /\ "resolved" \notin Queued(x) /\ "unresolved" \notin Queued(x)
      /\ "shutdown" \notin Queued(x) /\ "finalize" \notin Queued(x)
      /\ "connected" \notin Queued(x) /\ "refused" \notin Queued(x)
      /\ x.m_socket = "open" => "start_connect" \notin Queued(x)
      /\ "tick" \in Queued(x) => ~x.armed /\ "tick" \notin After(x.queue, "tick")
  BY AtConnect
<1>2. Queued(w) = Queued(x) /\ ~w.told /\ w.ops = {}
  BY <1>1 DEF Queued
<1>3. After(w.queue, "shutdown") = {}
  BY <1>1, AbsentAfter
<1>4. Naming(w) /\ Connecting(w) /\ Linked(w) /\ Shutting(w) /\ Told(w) /\ Resting(w)
  BY <1>1, <1>2 DEF Naming, Connecting, Linked, Shutting, Told, Resting, Dialing
<1>5. Operations(w) /\ OneLife(w) /\ LastReport(w)
  BY <1>1, <1>2, <1>3 DEF Operations, OneLife, LastReport
<1>6. MayPost(w)
  BY <1>1, <1>2 DEF MayPost
<1> QED BY <1>4, <1>5, <1>6 DEF Skeleton

(* A conversation that sends, or awaits an answer, is still one.           *)
LEMMA SendsOn == ASSUME NEW x, Talks(x), Watched(x), NEW z, z = send(x) \/ z = enqueue_response_plea(x)
                 PROVE  Talks(z) /\ Watched(z) /\ SameFlags(x, z) /\ SameMind(x, z)
<1>0. x \in Clients
  BY DEF Talks
<1>1. /\ z \in Clients /\ SameFlags(x, z) /\ SameMind(x, z) /\ z.queue = x.queue
      /\ z.ops = x.ops \/ (x.m_connected /\ z.ops = x.ops \union {"write"})
  <2>1. CASE z = send(x)
    BY Zenon, <1>0, <2>1, Sending
  <2>2. CASE z = enqueue_response_plea(x)
    BY <1>0, <2>2, Pleading
  <2> QED BY <2>1, <2>2
<1>2. Skeleton(z) /\ Queued(z) = Queued(x) /\ MayPost(z) /\ Watched(z)
  BY <1>1, TalkKeeps DEF Talks
<1>3. "read" \in z.ops \/ "recv" \in Queued(z) => z.mode \in Modes
  BY <1>1, <1>2 DEF Talks, Knowledge, SameMind, SameLogin
<1>4. Knowledge(z)
  BY <1>1, <1>2, <1>3, KnowledgeKeeps DEF Talks
<1> QED BY <1>1, <1>2, <1>4 DEF Talks

(* What a successful connect sets.                                         *)
LEMMA LinkedIs == ASSUME NEW x \in Clients, NEW w,
                         w = [[x EXCEPT !.m_connecting = FALSE] EXCEPT !.responds = TRUE, !.m_connected = TRUE, !.more = FALSE]
                  PROVE  /\ w \in Clients /\ SameMind(x, w) /\ w.queue = x.queue /\ w.ops = x.ops
                         /\ ~w.m_connecting /\ w.m_connected /\ w.m_disconnecting = x.m_disconnecting
                         /\ w.m_socket = x.m_socket /\ w.m_endpoints = x.m_endpoints /\ w.armed = x.armed
                         /\ w.told = x.told /\ w.responds
<1> DEFINE y == [x EXCEPT !.m_connecting = FALSE]
           v == [y EXCEPT !.responds = TRUE, !.m_connected = TRUE, !.more = FALSE]
<1>1. y \in Clients
  BY NotConnecting
<1>2. /\ SameMind(x, y) /\ y.queue = x.queue /\ y.ops = x.ops /\ y.m_disconnecting = x.m_disconnecting
      /\ y.m_socket = x.m_socket /\ y.m_endpoints = x.m_endpoints /\ y.armed = x.armed /\ y.told = x.told
      /\ y.m_connecting = FALSE
  BY DEF Clients, SameMind, SameLogin
<1>3. w = v
  OBVIOUS
<1> HIDE DEF y
<1>4. v \in Clients
  BY <1>1, ZenonT(60) DEF Clients
<1>5. /\ SameMind(y, v) /\ v.queue = y.queue /\ v.ops = y.ops /\ v.m_disconnecting = y.m_disconnecting
      /\ v.m_socket = y.m_socket /\ v.m_endpoints = y.m_endpoints /\ v.armed = y.armed /\ v.told = y.told
      /\ v.m_connecting = y.m_connecting
  BY <1>1 DEF Clients, SameMind, SameLogin
<1>6. v.m_connected /\ v.responds
  BY <1>1, Zenon DEF Clients
<1> HIDE DEF v
<1> QED BY <1>2, <1>3, <1>4, <1>5, <1>6 DEF SameMind, SameLogin

(* A successful connect.                                                   *)
Links(x) == [[x EXCEPT !.m_connecting = FALSE] EXCEPT !.responds = TRUE, !.m_connected = TRUE, !.more = FALSE]

(* The certificate of the pool is refused.                                 *)
LEMMA HandshakeFails == ASSUME c \in Clients, Good(c), NEW h \in {"connected", "refused"}, Runs(h), NEW x, x = Rest,
                               x.m_socket = "open", TLS, NEW z,
                               z = Post([Links(x) EXCEPT !.unrecoverable = TRUE], "disconnect")
                        PROVE  Goes(c, z) /\ Linking(c, z)
<1> DEFINE w == Links(x)
           v == [w EXCEPT !.unrecoverable = TRUE]
<1>1. /\ x \in Clients /\ ~x.crashed /\ SameFlags(c, x) /\ SameMind(c, x) /\ Knowledge(x)
      /\ ~x.m_connected /\ ~x.m_disconnecting /\ x.ops = {} /\ ~x.told
  BY AtConnect
<1>2. /\ w \in Clients /\ SameMind(x, w) /\ w.queue = x.queue /\ w.ops = x.ops
      /\ ~w.m_connecting /\ w.m_connected /\ w.m_disconnecting = x.m_disconnecting
      /\ w.m_socket = x.m_socket /\ w.m_endpoints = x.m_endpoints /\ w.armed = x.armed
      /\ w.told = x.told /\ w.responds
  BY ZenonT(60), <1>1, LinkedIs DEF Links
<1>z. z = Post(v, "disconnect")
  OBVIOUS
<1> HIDE DEF w
<1>3. v \in Clients
  BY <1>2, ZenonT(60) DEF Clients
<1>4. /\ SameFlags(w, v) /\ v.queue = w.queue /\ v.ops = w.ops /\ v.mode = w.mode /\ v.confirmed = w.confirmed
      /\ v.session = w.session /\ v.m_authpending = w.m_authpending
      /\ v.crashed = w.crashed /\ v.asked = w.asked
  BY Zenon, <1>2 DEF Clients, SameFlags
<1>5. v.unrecoverable
  BY <1>2, Zenon DEF Clients
<1> HIDE DEF v
<1>6. /\ v.queue = x.queue /\ v.ops = x.ops
      /\ ~v.m_connecting /\ v.m_connected /\ v.m_disconnecting = x.m_disconnecting /\ v.m_socket = x.m_socket
      /\ v.m_endpoints = x.m_endpoints /\ v.armed = x.armed /\ v.told = x.told /\ v.responds
  BY <1>2, <1>4 DEF SameFlags
<1>7. Skeleton(v) /\ MayPost(v)
  BY <1>3, <1>6, JustLinked
<1>8. Knowledge(v)
  <2>1. Queued(v) = Queued(x) /\ "read" \notin v.ops
    BY <1>1, <1>6 DEF Queued
  <2>2. /\ v.session = x.session /\ v.confirmed = x.confirmed /\ v.asked = x.asked /\ v.mode = x.mode
        /\ v.m_authpending = x.m_authpending
    BY <1>2, <1>4 DEF SameMind, SameLogin
  <2> QED BY <1>1, <1>5, <1>6, <2>1, <2>2 DEF Knowledge, Clean
<1>9. Talks(v)
  BY <1>3, <1>7, <1>8 DEF Talks
<1>10. Talks(z) /\ SameFlags(v, z) /\ SameMind(v, z) /\ Watched(z)
  BY <1>9, <1>z, TalksOut
<1>11. z \in Clients /\ ~z.crashed /\ Good(z)
  BY <1>1, <1>2, <1>4, <1>10 DEF Talks, Good, SameMind, SameLogin
<1>12. Clean => ~z.session.on
  BY <1>1, <1>2, <1>4, <1>10 DEF Knowledge, SameMind, SameLogin
<1>13. Linking(c, z)
  <2>1. ~c.told /\ ~c.m_connected /\ ~c.m_disconnecting
    BY <1>1 DEF SameFlags
  <2>2. ~z.told /\ z.m_connected /\ ~z.m_disconnecting /\ z.responds
    BY Zenon, <1>1, <1>6, <1>10 DEF SameFlags
  <2>3. z.unrecoverable /\ z.mode = c.mode /\ z.confirmed = c.confirmed
    <3>1. z.unrecoverable = v.unrecoverable /\ z.mode = c.mode /\ z.confirmed = c.confirmed
      BY <1>1, <1>2, <1>4, <1>10 DEF SameMind, SameLogin
    <3> QED BY <1>5, <3>1, Zenon
  <2> QED BY <1>12, <2>1, <2>2, <2>3 DEF Linking
<1> QED BY <1>11, <1>13 DEF Goes

(* The login is sent.                                                      *)
LEMMA LogsIn == ASSUME c \in Clients, Good(c), NEW h \in {"connected", "refused"}, Runs(h), NEW x, x = Rest,
                       x.m_socket = "open", NEW z, z = Login(Links(x))
                PROVE  Goes(c, z) /\ Linking(c, z)
<1> DEFINE w == Links(x)
           p == clear_response_pleas(w)
           m == IF Version # Unset THEN Version ELSE IF w.mode = Unset THEN 3 ELSE w.mode
           b == p.confirmed \/ Version # Unset
           t == p.tried \union {m}
           u == [p EXCEPT !.mode = m, !.confirmed = b, !.tried = t, !.asked = {"login"}, !.loginMode = m]
           r == recvSocketData(u)
           e == enqueue_response_plea(r)
<1>1. /\ x \in Clients /\ ~x.crashed /\ SameFlags(c, x) /\ SameMind(c, x) /\ Knowledge(x)
      /\ ~x.m_connected /\ ~x.m_disconnecting /\ x.ops = {} /\ ~x.told
  BY AtConnect
<1>2. /\ w \in Clients /\ SameMind(x, w) /\ w.queue = x.queue /\ w.ops = x.ops
      /\ ~w.m_connecting /\ w.m_connected /\ w.m_disconnecting = x.m_disconnecting
      /\ w.m_socket = x.m_socket /\ w.m_endpoints = x.m_endpoints /\ w.armed = x.armed
      /\ w.told = x.told /\ w.responds
  BY ZenonT(60), <1>1, LinkedIs DEF Links
<1>z. z = send(e)
  BY DEF Login
<1> HIDE DEF w
<1>3. p \in Clients /\ SameFlags(w, p) /\ SameMind(w, p) /\ p.ops = w.ops /\ p.queue = w.queue
  BY <1>2, Pleading
<1> HIDE DEF p
<1>4. m \in Modes /\ b \in BOOLEAN
  BY <1>2, <1>3, StratumAssumption DEF Clients, Modes, Unset
<1>m. /\ m = IF Version # Unset THEN Version ELSE IF c.mode = Unset THEN 3 ELSE c.mode
      /\ b = (c.confirmed \/ Version # Unset)
      /\ (Version # Unset => m = Version /\ b) /\ (c.confirmed => b) /\ (Version = Unset => b = c.confirmed)
  <2>1. w.mode = c.mode /\ p.confirmed = c.confirmed /\ c.confirmed \in BOOLEAN
    BY <1>1, <1>2, <1>3 DEF Clients, SameMind, SameLogin
  <2> QED BY <2>1
<1> HIDE DEF m, b
<1>5. t \in SUBSET Modes
  BY <1>3, <1>4 DEF Clients
<1> HIDE DEF t
<1>6. u \in Clients
  <2>1. m \in Modes \union {Unset} /\ {"login"} \in SUBSET {"login", "sub", "auth", "work", "share"}
    BY <1>4
  <2> QED BY <1>3, <1>4, <1>5, <2>1, ZenonT(60) DEF Clients
<1>7. /\ SameFlags(p, u) /\ u.queue = p.queue /\ u.ops = p.ops /\ u.mode = m /\ u.confirmed = b
      /\ u.unrecoverable = p.unrecoverable /\ u.session = p.session /\ u.m_authpending = p.m_authpending
      /\ u.crashed = p.crashed /\ u.asked = {"login"}
  BY <1>3 DEF Clients, SameFlags
<1> HIDE DEF u
<1>8. /\ u.queue = x.queue /\ u.ops = x.ops
      /\ ~u.m_connecting /\ u.m_connected /\ u.m_disconnecting = x.m_disconnecting /\ u.m_socket = x.m_socket
      /\ u.m_endpoints = x.m_endpoints /\ u.armed = x.armed /\ u.told = x.told /\ u.responds
  BY <1>2, <1>3, <1>7 DEF SameFlags
<1>9. /\ u.unrecoverable = x.unrecoverable /\ u.session = x.session /\ u.m_authpending = x.m_authpending
      /\ u.crashed = x.crashed
      /\ x.confirmed = c.confirmed
  BY <1>1, <1>2, <1>3, <1>7 DEF SameMind, SameLogin
<1>10. Skeleton(u) /\ MayPost(u)
  BY <1>6, <1>8, JustLinked
<1>11. Knowledge(u)
  <2>1. Queued(u) = Queued(x) /\ "sub" \notin u.asked /\ "auth" \notin u.asked
    BY <1>7, <1>8 DEF Queued
  <2> QED BY <1>1, <1>4, <1>m, <1>7, <1>8, <1>9, <2>1 DEF Knowledge
<1>12. Talks(u)
  BY <1>6, <1>10, <1>11 DEF Talks
<1>13. isConnected(u) /\ ~u.crashed /\ u.mode \in Modes
  BY <1>1, <1>4, <1>7, <1>8, <1>9 DEF isConnected, isPendingState
<1>14. r = KeepsReading(u)
  BY <1>13 DEF KeepsReading
<1> HIDE DEF r
<1>15. Talks(r) /\ Watched(r) /\ SameFlags(u, r) /\ SameMind(u, r)
  BY <1>12, <1>13, <1>14, Reading
<1>16. Talks(e) /\ Watched(e) /\ SameFlags(r, e) /\ SameMind(r, e)
  BY <1>15, SendsOn
<1> HIDE DEF e
<1>17. Talks(z) /\ Watched(z) /\ SameFlags(e, z) /\ SameMind(e, z)
  BY <1>16, <1>z, SendsOn
<1>18. SameFlags(u, z) /\ SameMind(u, z)
  BY <1>15, <1>16, <1>17, SamesCompose
<1>19. z \in Clients /\ ~z.crashed /\ Good(z)
  BY <1>1, <1>9, <1>17, <1>18 DEF Talks, Good, SameMind, SameLogin
<1>20. Linking(c, z)
  <2>1. ~c.told /\ ~c.m_connected /\ ~c.m_disconnecting
    BY <1>1 DEF SameFlags
  <2>2. ~z.told /\ z.m_connected /\ ~z.m_disconnecting /\ z.responds
    BY <1>1, <1>8, <1>18 DEF SameFlags
  <2>3. z.mode = m /\ z.confirmed = b /\ z.unrecoverable = c.unrecoverable /\ z.session = x.session
    BY <1>1, <1>7, <1>9, <1>18 DEF SameMind, SameLogin
  <2>4. Clean => ~z.session.on
    BY <1>1, <2>3 DEF Knowledge
  <2> QED BY <1>m, <2>1, <2>2, <2>3, <2>4 DEF Linking
<1> QED BY <1>19, <1>20 DEF Goes

(* connect_handler fails, finds no socket, or links; the invariant is      *)
(* kept.                                                                   *)
LEMMA ConnectHandler == ASSUME c \in Clients, Good(c), NEW h \in {"connected", "refused"}, Runs(h), NEW ok, NEW hs,
                               NEW z, z = connect_handler(Rest, ok, hs)
                        PROVE  Goes(c, z) /\ (SamePhase(c, z) \/ Linking(c, z))
<1> DEFINE x == Rest
           y == [x EXCEPT !.m_connecting = FALSE]
           linked == [y EXCEPT !.responds = TRUE, !.m_connected = TRUE, !.more = FALSE]
           failed == ~ok \/ x.m_socket # "open"
<1>1. z = CASE x.m_socket = "null" \/ (failed /\ x.m_endpoints = 0) -> Crash(x)
            [] x.m_socket # "null" /\ failed /\ x.m_endpoints > 0 ->
               Post([CloseSocket(y) EXCEPT !.m_endpoints = @ - 1], "start_connect")
            [] ~failed /\ TLS /\ ~hs ->
               Post([linked EXCEPT !.unrecoverable = TRUE], "disconnect")
            [] OTHER -> Login(linked)
  BY DEF connect_handler
<1>2. /\ x \in Clients /\ ~x.crashed /\ SameFlags(c, x) /\ SameMind(c, x) /\ Knowledge(x) /\ x.m_endpoints > 0
      /\ Clean => x.m_socket # "null"
  BY AtConnect
<1>3. linked = Links(x)
  BY DEF Links
<1>4. Post([CloseSocket(y) EXCEPT !.m_endpoints = @ - 1], "start_connect") = Redials(x)
  BY DEF Redials
<1>x. x = Rest
  OBVIOUS
<1> HIDE DEF x, y, linked
<1>5. CASE x.m_socket = "null"
  <2>1. z = Crash(x)
    BY <1>1, <1>5
  <2>2. /\ z \in Clients /\ z.crashed /\ SameFlags(x, z) /\ z.mode = x.mode /\ SameView(x, z)
    BY <1>2, <2>1, CrashMoves
  <2>3. ~Harmless
    BY <1>2, <1>5 DEF Harmless, Clean
  <2>5. SamePhase(c, z)
    BY <1>2, <2>2 DEF SamePhase, SameView, SameFlags, SameMind, SameLogin
  <2> QED BY <1>2, <2>2, <2>3, <2>5 DEF Goes, SameMind, SameLogin
<1>6. CASE x.m_socket # "null" /\ failed
  <2>1. z = Redials(x)
    BY <1>1, <1>2, <1>4, <1>6
  <2> QED BY <1>6, <1>x, <2>1, ConnectFails
<1>7. CASE x.m_socket # "null" /\ ~failed /\ TLS /\ ~hs
  <2>1. z = Post([Links(x) EXCEPT !.unrecoverable = TRUE], "disconnect")
    BY <1>1, <1>3, <1>7
  <2> QED BY Zenon, <1>7, <1>x, <2>1, HandshakeFails
<1>8. CASE x.m_socket # "null" /\ ~failed /\ ~(TLS /\ ~hs)
  <2>1. z = Login(Links(x))
    BY <1>1, <1>3, <1>8
  <2> QED BY <1>8, <1>x, <2>1, LogsIn
<1> QED BY <1>5, <1>6, <1>7, <1>8

(* Both outcomes of a connect keep the invariant.                          *)
LEMMA ConnectedStep == ASSUME c \in Clients, Good(c), Connected \/ Refused
                       PROVE  Goes(c, c') /\ (SamePhase(c, c') \/ Linking(c, c'))
<1>1. CASE Connected
  <2>1. PICK hs \in BOOLEAN : c' = connect_handler(Rest, TRUE, hs)
    BY Zenon, <1>1 DEF Connected
  <2> QED BY Zenon, <1>1, <2>1, ConnectHandler DEF Connected
<1>2. CASE Refused
  BY Zenon, <1>2, ConnectHandler DEF Refused
<1> QED BY <1>1, <1>2

(* The workloop timer.                                                     *)
LEMMA Rearming == ASSUME NEW x \in Clients, Skeleton(x), Watched(x), Knowledge(x), "tick" \notin Queued(x),
                         NEW z, z = Rearm(x)
                  PROVE  z \in Clients /\ Good(z) /\ SameMind(x, z) /\ SamePhase(x, z)
<1>1. z = [x EXCEPT !.armed = TRUE]
  BY DEF Rearm
<1>2. [x EXCEPT !.armed = TRUE] \in Clients
  BY Zenon DEF Clients
<1>3. z \in Clients
  BY <1>1, <1>2
<1>4. /\ SameMind(x, z) /\ z.queue = x.queue /\ z.ops = x.ops
      /\ z.m_connecting = x.m_connecting /\ z.m_disconnecting = x.m_disconnecting
      /\ z.m_connected = x.m_connected /\ z.m_socket = x.m_socket
      /\ z.m_endpoints = x.m_endpoints /\ z.told = x.told /\ z.responds = x.responds
  BY <1>1 DEF Clients, SameMind, SameLogin
<1>5. Queued(z) = Queued(x)
  BY <1>4 DEF Queued
<1>6. Naming(z) /\ Connecting(z) /\ Linked(z) /\ Shutting(z) /\ Told(z) /\ Resting(z)
  BY <1>4, <1>5 DEF Skeleton, Naming, Connecting, Linked, Shutting, Told, Resting
<1>7. Operations(z) /\ OneLife(z) /\ LastReport(z)
  BY <1>4, <1>5 DEF Skeleton, Operations, OneLife, LastReport
<1>8. Watched(z) /\ Knowledge(z)
  BY <1>4, <1>5 DEF Watched, Knowledge, SameMind, SameLogin
<1>9. SamePhase(x, z)
  BY <1>4 DEF SamePhase, SameView, SameMind, SameLogin
<1> QED BY <1>3, <1>4, <1>6, <1>7, <1>8, <1>9 DEF Good, Skeleton

(* What the tick leaves of a link that is late.                            *)
LEMMA LinkPosts == ASSUME NEW y \in Clients, Skeleton(y), Watched(y), Knowledge(y), y.m_connected, "tick" \notin Queued(y),
                          NEW z \in Clients, z.ops = y.ops, SameMind(y, z),
                          z.m_connecting = y.m_connecting, z.m_disconnecting = y.m_disconnecting,
                          z.m_connected = y.m_connected, z.m_socket = y.m_socket, z.armed = y.armed,
                          z.told = y.told, z.responds = y.responds,
                          \/ z.queue = Append(y.queue, "fake") /\ z.m_endpoints = y.m_endpoints /\ Version = Unset
                          \/ z.queue = Append(y.queue, "disconnect")
                   PROVE  Skeleton(z) /\ Watched(z) /\ Knowledge(z) /\ "tick" \notin Queued(z)
<1>1. PICK h \in {"fake", "disconnect"} :
        /\ z.queue = Append(y.queue, h)
        /\ h = "fake" => z.m_endpoints = y.m_endpoints /\ Version = Unset
  OBVIOUS
<1>2. y.queue \in Seq(Handlers) /\ h \in Handlers
  BY DEF Clients, Handlers
<1>3. /\ Queued(z) = Queued(y) \union {h}
      /\ \A k : After(z.queue, k) = After(y.queue, k) \union (IF k \in Queued(y) THEN {h} ELSE {})
  BY <1>1, <1>2, Posting DEF Queued
<1>4. ~y.m_connecting /\ ~y.m_disconnecting /\ ~y.told
  BY DEF Skeleton, Linked
<1>5. "shutdown" \notin Queued(y) /\ "finalize" \notin Queued(y) /\ "resolve" \notin y.ops /\ "shutdown" \notin y.ops
      /\ "resolved" \notin Queued(y) /\ "unresolved" \notin Queued(y)
  BY <1>4 DEF Skeleton, Operations, Naming
<1>6. After(z.queue, "shutdown") = {}
  BY <1>3, <1>5, AbsentAfter
<1>7. Naming(z) /\ Connecting(z) /\ Linked(z) /\ Shutting(z) /\ Told(z) /\ Resting(z)
  BY <1>3, <1>4, <1>5 DEF Skeleton, Naming, Connecting, Linked, Shutting, Told, Resting, Dialing
<1>8. Operations(z) /\ OneLife(z)
  BY Zenon, <1>3, <1>4, <1>5 DEF Skeleton, Operations, OneLife
<1>9. LastReport(z)
  BY <1>1, <1>3, <1>4, <1>5, <1>6 DEF Skeleton, LastReport
<1>10. Watched(z)
  BY <1>3 DEF Watched
<1>11. Knowledge(z)
  BY <1>1, <1>3 DEF Knowledge, SameMind, SameLogin
<1> QED BY <1>3, <1>7, <1>8, <1>9, <1>10, <1>11 DEF Skeleton

(* The socket of a connect, or of a TLS shutdown, is closed.               *)
LEMMA TickCloses == ASSUME NEW y \in Clients, Skeleton(y), Knowledge(y), ~y.told, "tick" \notin Queued(y),
                           y.m_connecting \/ y.m_disconnecting, NEW z, z = CloseSocket(y)
                    PROVE  z \in Clients /\ Good(z) /\ SameMind(y, z) /\ SamePhase(y, z)
<1> DEFINE u == CancelOps(y)
           a == AbortedAs(y.ops)
<1>1. /\ u.ops = y.ops \intersect {"resolve"}
      /\ Queued(u) = Queued(y) \union a
      /\ y.ops \intersect {"read", "write"} = {} /\ ~({"connect", "shutdown"} \subseteq y.ops) =>
            \A h : After(u.queue, h) \subseteq
                     After(y.queue, h) \union (IF h \in Queued(y) THEN a ELSE {})
  BY SMTT(30), Cancelling
<1>2. /\ z \in Clients /\ SameMind(y, z) /\ z.m_socket = "closed" /\ z.ops = u.ops /\ z.queue = u.queue
      /\ z.m_connecting = y.m_connecting /\ z.m_disconnecting = y.m_disconnecting
      /\ z.m_connected = y.m_connected /\ z.m_endpoints = y.m_endpoints /\ z.armed = y.armed
      /\ z.told = y.told /\ z.responds = y.responds
  BY ClosingSocket
<1>3. ~y.m_connected /\ ~(y.m_connecting /\ y.m_disconnecting) /\ "resolve" \notin y.ops
      /\ "resolved" \notin Queued(y) /\ "unresolved" \notin Queued(y)
  BY DEF Skeleton, Connecting, Shutting, Naming
<1>4. /\ y.ops \intersect {"read", "write"} = {}
      /\ "connect" \in y.ops => y.m_connecting
      /\ "shutdown" \in y.ops => y.m_disconnecting
  BY <1>3 DEF Skeleton, Operations
<1>5. a = (IF "connect" \in y.ops THEN {"refused"} ELSE {}) \union (IF "shutdown" \in y.ops THEN {"shutdown"} ELSE {})
  BY <1>4 DEF AbortedAs
<1> HIDE DEF u, a
<1>6. /\ Queued(z) = Queued(y) \union a /\ z.ops = {}
      /\ \A h : After(z.queue, h) \subseteq After(y.queue, h) \union (IF h \in Queued(y) THEN a ELSE {})
  BY <1>1, <1>2, <1>3, <1>4 DEF Queued
<1>7. \A h : h \notin Queued(y) => After(z.queue, h) = {}
  BY <1>6, AbsentAfter
<1>8. CASE y.m_connecting
  <2>1. ~y.m_disconnecting /\ a = IF "connect" \in y.ops THEN {"refused"} ELSE {}
    BY <1>3, <1>4, <1>5, <1>8
  <2>2. Naming(z) /\ Linked(z) /\ Shutting(z) /\ Told(z) /\ Resting(z)
    BY <1>2, <1>3, <1>6, <1>8, <2>1 DEF Naming, Linked, Shutting, Told, Resting
  <2>3. Connecting(z)
    <3>1. CASE "connect" \in y.ops
      <4>1. "connected" \notin Queued(y) /\ "refused" \notin Queued(y)
        BY <1>8, <3>1 DEF Skeleton, Connecting
      <4> QED BY <1>2, <1>6, <1>7, <1>8, <2>1, <3>1, <4>1 DEF Skeleton, Connecting
    <3>2. CASE "connect" \notin y.ops
      BY <1>2, <1>6, <1>8, <2>1, <3>2 DEF Skeleton, Connecting
    <3> QED BY <3>1, <3>2
  <2>4. Operations(z)
    BY <1>2, <1>6, <1>8, <2>1 DEF Skeleton, Operations
  <2>5. OneLife(z)
    <3>0. ASSUME Clean PROVE /\ Queued(y) \subseteq Dialing \union {"tick"}
                             /\ \A h \in Dialing : \A k \in Dialing : k \notin After(y.queue, h)
                             /\ y.ops # {} => \A h \in Dialing : h \notin Queued(y)
                             /\ TLS \/ ~y.responds
      BY <1>3, <2>1, <3>0 DEF Skeleton, OneLife
    <3>1. ASSUME Clean PROVE \A h \in Dialing : \A k \in Dialing : k \notin After(z.queue, h)
      <4>1. CASE "connect" \in y.ops
        BY <1>7, <3>0, <3>1, <4>1
      <4>2. CASE "connect" \notin y.ops
        BY <1>6, <2>1, <3>0, <3>1, <4>2
      <4> QED BY <4>1, <4>2
    <3>2. ASSUME Clean PROVE Queued(z) \subseteq Dialing \union {"tick"}
      BY <1>6, <2>1, <3>0, <3>2 DEF Dialing
    <3> QED BY <1>2, <1>3, <1>6, <2>1, <3>0, <3>1, <3>2 DEF OneLife
  <2>6. LastReport(z)
    <3>1. "shutdown" \notin Queued(y) /\ "finalize" \notin Queued(y)
      BY <2>1 DEF Skeleton, Operations
    <3> QED BY <1>2, <1>3, <1>6, <1>7, <2>1, <3>1 DEF LastReport
  <2> QED BY Zenon, <2>2, <2>3, <2>4, <2>5, <2>6, <1>2, <1>3, <1>6, <2>1
          DEF Good, Skeleton, Watched, Knowledge, SameMind, SameLogin, SamePhase, SameView
<1>9. CASE y.m_disconnecting
  <2>1. ~y.m_connecting /\ a = IF "shutdown" \in y.ops THEN {"shutdown"} ELSE {}
    BY <1>3, <1>4, <1>5, <1>9
  <2>2. Naming(z) /\ Connecting(z) /\ Linked(z) /\ Told(z) /\ Resting(z)
    BY <1>2, <1>3, <1>6, <1>9, <2>1 DEF Naming, Connecting, Linked, Told, Resting
  <2>3. Shutting(z)
    BY <1>2, <1>6, <1>9, <2>1 DEF Skeleton, Shutting, Dialing
  <2>4. Operations(z) /\ OneLife(z)
    BY <1>2, <1>6, <1>9, <2>1 DEF Skeleton, Operations, OneLife
  <2>5. LastReport(z)
    <3>1. CASE "shutdown" \in y.ops
      BY <1>2, <1>3, <1>6, <1>7, <2>1, <3>1 DEF Skeleton, LastReport
    <3>2. CASE "shutdown" \notin y.ops
      BY <1>2, <1>3, <1>6, <2>1, <3>2 DEF Skeleton, LastReport
    <3> QED BY <3>1, <3>2
  <2> QED BY Zenon, <2>2, <2>3, <2>4, <2>5, <1>2, <1>3, <1>6, <2>1
          DEF Good, Skeleton, Watched, Knowledge, SameMind, SameLogin, SamePhase, SameView
<1> QED BY <1>8, <1>9

(* Two steps that stay in a phase are one.                                 *)
LEMMA PhasesCompose == ASSUME NEW x, NEW y, NEW z, SamePhase(x, y), SamePhase(y, z)
                       PROVE  SamePhase(x, z)
BY DEF SamePhase, SameView

(* What is late while linked.                                              *)
LEMMA Lateness == ASSUME NEW y \in Clients, Skeleton(y), Watched(y), Knowledge(y), y.m_connected, "tick" \notin Queued(y),
                         ~y.crashed, TLS => y.m_endpoints > 0, NEW z, z = LateResponse(y)
                  PROVE  /\ z \in Clients /\ SamePhase(y, z)
                         /\ z.crashed => ~TLS
                         /\ ~z.crashed => Skeleton(z) /\ Watched(z) /\ Knowledge(z) /\ "tick" \notin Queued(z)
<1>1. CASE z = y
  BY Zenon, <1>1 DEF SamePhase, SameView
<1>2. CASE ~y.confirmed /\ ~y.unrecoverable /\ z = Post(clear_response_pleas(y), "fake")
  <2> DEFINE p == clear_response_pleas(y)
  <2>1. p \in Clients /\ SameFlags(y, p) /\ SameMind(y, p) /\ p.ops = y.ops /\ p.queue = y.queue
    BY Pleading
  <2>2. "fake" \in Handlers /\ z = Post(p, "fake")
    BY <1>2 DEF Handlers
  <2> HIDE DEF p
  <2>3. /\ z \in Clients /\ SameFlags(p, z) /\ SameMind(p, z) /\ z.ops = p.ops
        /\ z.queue = Append(p.queue, "fake")
    BY <2>1, <2>2, Posts
  <2>4. SameFlags(y, z) /\ SameMind(y, z) /\ z.ops = y.ops /\ z.queue = Append(y.queue, "fake")
    BY <2>1, <2>3, SamesCompose
  <2>5. Version = Unset
    BY <1>2 DEF Knowledge, Skeleton, Linked
  <2>6. Skeleton(z) /\ Watched(z) /\ Knowledge(z) /\ "tick" \notin Queued(z)
    BY Zenon, <2>3, <2>4, <2>5, LinkPosts DEF SameFlags
  <2> QED BY <2>3, <2>4, <2>6 DEF SameFlags, SameMind, SameLogin, SamePhase, SameView
<1>3. CASE z = GivesUpEndpoint(y)
  <2>1. CASE y.m_endpoints = 0
    <3>1. z = Crash(y)
      BY <1>3, <2>1 DEF GivesUpEndpoint
    <3>2. /\ z \in Clients /\ z.crashed /\ SameFlags(y, z) /\ z.mode = y.mode /\ SameView(y, z)
      BY <3>1, CrashMoves
    <3> QED BY <2>1, <3>2 DEF SamePhase, SameFlags
  <2>2. CASE y.m_endpoints # 0
    <3> DEFINE n == y.m_endpoints - 1
               v == [y EXCEPT !.m_endpoints = n]
               p == clear_response_pleas(v)
    <3>1. n \in 0..MaxEndpoints
      <4>1. y.m_endpoints \in 0..MaxEndpoints
        BY DEF Clients
      <4> QED BY <2>2, <4>1, StratumAssumption
    <3>2. z = Post(p, "disconnect")
      BY <1>3, <2>2 DEF GivesUpEndpoint
    <3> HIDE DEF n
    <3>3. v \in Clients
      BY <3>1, Zenon DEF Clients
    <3>4. /\ SameMind(y, v) /\ v.queue = y.queue /\ v.ops = y.ops
          /\ v.m_connecting = y.m_connecting /\ v.m_disconnecting = y.m_disconnecting
          /\ v.m_connected = y.m_connected /\ v.m_socket = y.m_socket /\ v.armed = y.armed
          /\ v.told = y.told /\ v.responds = y.responds
      BY Zenon DEF Clients, SameMind, SameLogin
    <3> HIDE DEF v
    <3>5. p \in Clients /\ SameFlags(v, p) /\ SameMind(v, p) /\ p.ops = v.ops /\ p.queue = v.queue
      BY <3>3, Pleading
    <3> HIDE DEF p
    <3>6. "disconnect" \in Handlers
      BY DEF Handlers
    <3>7. /\ z \in Clients /\ SameFlags(p, z) /\ SameMind(p, z) /\ z.ops = p.ops
          /\ z.queue = Append(p.queue, "disconnect")
      BY <3>2, <3>5, <3>6, Posts
    <3>8. /\ SameMind(y, z) /\ z.queue = Append(y.queue, "disconnect") /\ z.ops = y.ops
          /\ z.m_connecting = y.m_connecting /\ z.m_disconnecting = y.m_disconnecting
          /\ z.m_connected = y.m_connected /\ z.m_socket = y.m_socket /\ z.armed = y.armed
          /\ z.told = y.told /\ z.responds = y.responds
      BY <3>4, <3>5, <3>7 DEF SameFlags, SameMind, SameLogin
    <3>9. Skeleton(z) /\ Watched(z) /\ Knowledge(z) /\ "tick" \notin Queued(z)
      BY Zenon, <3>7, <3>8, LinkPosts
    <3> QED BY <3>7, <3>8, <3>9 DEF SameMind, SameLogin, SamePhase, SameView
  <2> QED BY <2>1, <2>2
<1>4. z = y \/ z = GivesUpEndpoint(y) \/ (~y.confirmed /\ ~y.unrecoverable /\ z = Post(clear_response_pleas(y), "fake"))
  BY DEF LateResponse
<1> QED BY <1>1, <1>2, <1>3, <1>4

(* The work loop timer keeps the invariant, whatever it finds overdue.     *)
LEMMA TickStep == ASSUME c \in Clients, Good(c), Tick
                  PROVE  Goes(c, c') /\ SamePhase(c, c')
<1>1. PICK quiet \in BOOLEAN : c' = workloop_timer_elapsed(Rest, quiet)
  BY DEF Tick
<1> DEFINE x == Rest
           y == IF x.mode = 3 /\ x.session.on /\ quiet THEN send(x) ELSE x
           z == c'
<1>2. z = CASE x.told -> x
            [] ~x.told /\ Closes(y) -> CloseSocket(y)
            [] ~x.told /\ ~Closes(y) /\ y.pleas > 0 /\ isConnected(y) -> Rearm(LateResponse(y))
            [] OTHER -> Rearm(y)
  BY <1>1 DEF workloop_timer_elapsed
<1>3. Runs("tick")
  BY DEF Tick
<1>4. /\ x \in Clients /\ ~c.crashed /\ SameFlags(c, x) /\ x.ops = c.ops /\ Queued(c) = {"tick"} \union Queued(x)
      /\ After(c.queue, "tick") = Queued(x)
      /\ \A k : k # "tick" => After(x.queue, k) = After(c.queue, k)
  BY <1>3, RestIs
<1>5. Knowledge(x) /\ SameMind(c, x)
  BY <1>3, RestKnows
<1>6. Skeleton(x)
  BY <1>3, RestKeeps DEF Good
<1> HIDE DEF x
<1>7. "tick" \notin Queued(x) /\ Watched(x) /\ ~x.crashed /\ SamePhase(c, x)
  BY <1>4, <1>5 DEF Good, Skeleton, Operations, Watched, SameFlags, SameMind, SameLogin, SamePhase, SameView
<1>8. TLS /\ x.m_connected => x.m_endpoints > 0
  <2>1. "tick" \notin After(x.queue, "disconnect")
    BY SMTT(30), <1>4, <1>7, AbsentAfter
  <2>2. TLS /\ x.m_connected => x.m_endpoints # 0
    BY <1>4, <2>1 DEF Good, Skeleton, LastReport, SameFlags
  <2>3. x.m_endpoints \in 0..MaxEndpoints
    BY <1>4 DEF Clients
  <2> QED BY <2>2, <2>3, StratumAssumption
<1>9. /\ y \in Clients /\ SameFlags(x, y) /\ SameMind(x, y) /\ y.queue = x.queue
      /\ y.ops = x.ops \/ (x.m_connected /\ y.ops = x.ops \union {"write"})
  <2>1. CASE x.mode = 3 /\ x.session.on /\ quiet
    BY Zenon, <1>4, <2>1, Sending
  <2>2. CASE ~(x.mode = 3 /\ x.session.on /\ quiet)
    BY <1>4, <2>2 DEF SameFlags, SameMind, SameLogin
  <2> QED BY <2>1, <2>2
<1> HIDE DEF y
<1>10. Skeleton(y) /\ Queued(y) = Queued(x) /\ Watched(y)
  BY <1>6, <1>7, <1>9, TalkKeeps
<1>11. Knowledge(y)
  <2>1. "read" \in y.ops \/ "recv" \in Queued(y) => y.mode \in Modes
    BY <1>5, <1>9, <1>10 DEF Knowledge, SameMind, SameLogin
  <2> QED BY <1>5, <1>9, <1>10, <2>1, KnowledgeKeeps
<1>12. SamePhase(c, y) /\ ~y.crashed /\ y.told = x.told
  <2>1. SamePhase(x, y)
    BY <1>9 DEF SamePhase, SameView, SameFlags, SameMind, SameLogin
  <2>2. ~y.crashed /\ y.told = x.told
    BY <1>5, <1>7, <1>9 DEF SameFlags, SameMind, SameLogin
  <2> QED BY <1>7, <2>1, <2>2, PhasesCompose
<1> HIDE DEF z
<1>13. CASE x.told
  <2>1. z = x
    BY <1>2, <1>13
  <2> QED BY <1>4, <1>5, <1>6, <1>7, <2>1 DEF Goes, Good, SameMind, SameLogin, z
<1>14. CASE ~x.told /\ Closes(y)
  <2>1. z = CloseSocket(y) /\ (y.m_connecting \/ y.m_disconnecting) /\ ~y.told
    BY <1>2, <1>12, <1>14 DEF Closes
  <2>2. z \in Clients /\ Good(z) /\ SameMind(y, z) /\ SamePhase(y, z)
    BY <1>7, <1>9, <1>10, <1>11, <2>1, TickCloses
  <2>3. ~z.crashed
    BY <1>12, <2>2 DEF SameMind, SameLogin
  <2> QED BY <1>12, <2>2, <2>3, PhasesCompose DEF Goes, z
<1>15. CASE ~x.told /\ ~Closes(y) /\ y.pleas > 0 /\ isConnected(y)
  <2> DEFINE v == LateResponse(y)
  <2>1. z = Rearm(v) /\ y.m_connected /\ (TLS => y.m_endpoints > 0)
    BY <1>2, <1>8, <1>9, <1>15 DEF isConnected, SameFlags
  <2>2. /\ v \in Clients /\ SamePhase(y, v)
        /\ v.crashed => ~TLS
        /\ ~v.crashed => Skeleton(v) /\ Watched(v) /\ Knowledge(v) /\ "tick" \notin Queued(v)
    BY <1>7, <1>9, <1>10, <1>11, <1>12, <2>1, Lateness
  <2> HIDE DEF v
  <2>3. CASE v.crashed
    <3>1. z = [v EXCEPT !.armed = TRUE]
      BY <2>1 DEF Rearm
    <3>2. [v EXCEPT !.armed = TRUE] \in Clients
      BY <2>2, ZenonT(60) DEF Clients
    <3>3. z \in Clients
      BY <3>1, <3>2
    <3>4. /\ SameMind(v, z) /\ z.m_disconnecting = v.m_disconnecting
          /\ z.m_connected = v.m_connected /\ z.told = v.told /\ z.responds = v.responds
      BY <2>2, <3>1 DEF Clients, SameMind, SameLogin
    <3>5. SamePhase(v, z) /\ z.crashed
      BY <2>3, <3>4 DEF SamePhase, SameView, SameMind, SameLogin
    <3>6. SamePhase(c, z)
      BY <1>12, <2>2, <3>5, PhasesCompose
    <3> QED BY <1>12, <2>2, <2>3, <3>3, <3>5, <3>6 DEF Goes, Harmless, z
  <2>4. CASE ~v.crashed
    <3>1. z \in Clients /\ Good(z) /\ SameMind(v, z) /\ SamePhase(v, z)
      BY <2>1, <2>2, <2>4, Rearming
    <3>2. SamePhase(c, z)
      BY <1>12, <2>2, <3>1, PhasesCompose
    <3> QED BY <1>12, <2>2, <2>4, <3>1, <3>2 DEF Goes, SameMind, SameLogin, z
  <2> QED BY <2>3, <2>4
<1>16. CASE ~x.told /\ ~Closes(y) /\ ~(y.pleas > 0 /\ isConnected(y))
  <2>1. z = Rearm(y)
    BY <1>2, <1>16
  <2>2. z \in Clients /\ Good(z) /\ SameMind(y, z) /\ SamePhase(y, z)
    BY <1>7, <1>9, <1>10, <1>11, <2>1, Rearming
  <2>3. ~z.crashed
    BY <1>12, <2>2 DEF SameMind, SameLogin
  <2> QED BY <1>12, <2>2, <2>3, PhasesCompose DEF Goes, z
<1> QED BY <1>13, <1>14, <1>15, <1>16

(* Disconnection.                                                          *)

(* A client that may be asked to disconnect.                               *)
Hangs(x) == /\ x \in Clients /\ ~x.crashed /\ Knowledge(x) /\ MayPost(x)
            /\ Naming(x) /\ Connecting(x) /\ Linked(x) /\ Shutting(x) /\ Told(x) /\ Resting(x)
            /\ Operations(x) /\ OneLife(x)
            /\ TLS => /\ x.m_connected \/ x.m_disconnecting
                      /\ "shutdown" \in x.ops => "shutdown" \notin Queued(x)
                      /\ After(x.queue, "shutdown") \subseteq {"disconnect", "tick"}

(* What holds when a posted disconnect begins to run.                      *)
LEMMA AtDisconnect == ASSUME c \in Clients, Good(c), Runs("disconnect"), NEW x, x = Rest, ~(TLS /\ "finalize" \in Queued(x))
                      PROVE  Hangs(x) /\ SameFlags(c, x) /\ SameMind(c, x)
<1>1. /\ x \in Clients /\ ~c.crashed /\ SameFlags(c, x) /\ x.ops = c.ops /\ Queued(c) = {"disconnect"} \union Queued(x)
      /\ After(c.queue, "disconnect") = Queued(x)
      /\ \A k : /\ After(x.queue, k) \subseteq After(c.queue, k)
                /\ k # "disconnect" => After(x.queue, k) = After(c.queue, k)
  BY RestIs
<1>2. Knowledge(x) /\ SameMind(c, x)
  BY RestKnows
<1> USE DEF Good, Skeleton, SameFlags
<1>3. Naming(x)
  BY <1>1 DEF Naming
<1>4. Connecting(x) /\ Linked(x) /\ Shutting(x) /\ Told(x) /\ Resting(x) /\ Operations(x)
  BY <1>1 DEF Connecting, Linked, Shutting, Told, Resting, Operations, Dialing
<1>5. OneLife(x)
  BY Zenon, <1>1 DEF OneLife, Dialing
<1>6. TLS => ~x.told
  BY <1>1 DEF LastReport
<1>7. Clean => x.m_connected \/ x.m_disconnecting \/ x.told
  BY <1>1 DEF OneLife, Dialing
<1>8. MayPost(x)
  BY <1>1, <1>6, <1>7 DEF MayPost, Naming
<1>9. TLS => /\ x.m_connected \/ x.m_disconnecting
             /\ "shutdown" \in x.ops => "shutdown" \notin Queued(x)
             /\ After(x.queue, "shutdown") \subseteq {"disconnect", "tick"}
  BY <1>1, <1>6, <1>7 DEF LastReport, Clean
<1>10. ~x.crashed
  BY <1>1, <1>2 DEF SameMind, SameLogin
<1> QED BY Zenon, <1>1, <1>2, <1>3, <1>4, <1>5, <1>8, <1>9, <1>10 DEF Hangs

(* A client that is being disconnected already.                            *)
LEMMA DisconnectingRest == ASSUME c \in Clients, Good(c), Runs("disconnect"), NEW x, x = Rest, x.m_disconnecting
                           PROVE  Goes(c, x) /\ SamePhase(c, x)
<1>1. /\ x \in Clients /\ ~c.crashed /\ SameFlags(c, x) /\ x.ops = c.ops /\ Queued(c) = {"disconnect"} \union Queued(x)
      /\ After(c.queue, "disconnect") = Queued(x)
      /\ \A k : /\ After(x.queue, k) \subseteq After(c.queue, k)
                /\ k # "disconnect" => After(x.queue, k) = After(c.queue, k)
  BY RestIs
<1>2. Knowledge(x) /\ SameMind(c, x)
  BY RestKnows
<1> USE DEF Good, Skeleton, SameFlags
<1>3. Naming(x)
  BY <1>1 DEF Naming
<1>4. Connecting(x) /\ Linked(x) /\ Shutting(x) /\ Told(x) /\ Resting(x) /\ Operations(x)
  BY <1>1 DEF Connecting, Linked, Shutting, Told, Resting, Operations, Dialing
<1>5. OneLife(x) /\ ~x.m_connected
  BY Zenon, <1>1 DEF OneLife, Dialing, Shutting
<1>6. LastReport(x) /\ Watched(x)
  BY <1>1, <1>5 DEF LastReport, Watched
<1>7. ~x.crashed /\ SamePhase(c, x)
  BY Zenon, <1>1, <1>2 DEF SameMind, SameLogin, SamePhase, SameView
<1> QED BY <1>1, <1>2, <1>3, <1>4, <1>5, <1>6, <1>7 DEF Goes

(* What the pool manager sees of a TLS shutdown that starts.               *)
ShutsDown(x, z) == /\ TLS /\ ~x.told /\ x.m_connected /\ ~x.m_disconnecting
                   /\ ~z.told /\ z.m_disconnecting
                   /\ z.responds = x.responds /\ z.mode = x.mode /\ z.confirmed = x.confirmed
                   /\ z.unrecoverable = x.unrecoverable

(* disconnect resets the link.                                             *)
HangUp(x) == [x EXCEPT !.m_connected = FALSE, !.m_disconnecting = TRUE]

(* What disconnect changes first.                                          *)
LEMMA HangingUp == ASSUME NEW x \in Clients, NEW y, y = HangUp(x)
                   PROVE  /\ y \in Clients /\ SameMind(x, y) /\ y.queue = x.queue /\ y.ops = x.ops
                          /\ ~y.m_connected /\ y.m_disconnecting
                          /\ y.m_connecting = x.m_connecting /\ y.m_socket = x.m_socket
                          /\ y.m_endpoints = x.m_endpoints /\ y.armed = x.armed /\ y.told = x.told
                          /\ y.responds = x.responds
<1> DEFINE v == [x EXCEPT !.m_connected = FALSE, !.m_disconnecting = TRUE]
<1>1. v \in Clients
  BY Zenon DEF Clients
<1>2. /\ SameMind(x, v) /\ v.queue = x.queue /\ v.ops = x.ops
      /\ v.m_connecting = x.m_connecting /\ v.m_socket = x.m_socket
      /\ v.m_endpoints = x.m_endpoints /\ v.armed = x.armed /\ v.told = x.told /\ v.responds = x.responds
  BY DEF Clients, SameMind, SameLogin
<1>3. ~v.m_connected /\ v.m_disconnecting
  BY Zenon DEF Clients
<1>4. y = v
  BY DEF HangUp
<1> HIDE DEF v
<1> QED BY <1>1, <1>2, <1>3, <1>4

(* With TLS: the socket's operations are cancelled and TLS is shut down.   *)
StartsShutdown(x) == LET u == CancelOps(HangUp(x))
                         o == u.ops \union {"shutdown"}
                     IN  enqueue_response_plea([u EXCEPT !.ops = o])

(* A link behind TLS is shut down.                                         *)
LEMMA ShutdownStarts == ASSUME NEW x, Hangs(x), TLS, ~x.m_disconnecting, NEW z,
                               z = StartsShutdown(x)
                        PROVE  Goes(x, z) /\ ShutsDown(x, z)
<1> DEFINE y == HangUp(x)
           u == CancelOps(y)
           o == u.ops \union {"shutdown"}
           v == [u EXCEPT !.ops = o]
           a == AbortedAs(x.ops)
<1> USE DEF Hangs
<1>1. /\ y \in Clients /\ SameMind(x, y) /\ y.queue = x.queue /\ y.ops = x.ops
      /\ ~y.m_connected /\ y.m_disconnecting
      /\ y.m_connecting = x.m_connecting /\ y.m_socket = x.m_socket
      /\ y.m_endpoints = x.m_endpoints /\ y.armed = x.armed /\ y.told = x.told
      /\ y.responds = x.responds
  BY HangingUp
<1>z. z = enqueue_response_plea(v)
  BY DEF StartsShutdown
<1>u. u = CancelOps(y)
  OBVIOUS
<1>y. y \in Clients
  BY <1>1
<1> HIDE DEF y, u
<1>2. /\ u \in Clients /\ SameFlags(y, u) /\ SameMind(y, u)
      /\ u.ops = x.ops \intersect {"resolve"}
      /\ Queued(u) = Queued(x) \union a
      /\ \A h : After(u.queue, h) \subseteq After(x.queue, h) \union a
      /\ \A h : h \notin Queued(x) \union a => After(u.queue, h) = {}
  <2>1. Queued(y) = Queued(x) /\ AbortedAs(y.ops) = a
    BY <1>1 DEF Queued
  <2>2. /\ u \in Clients /\ SameFlags(y, u) /\ SameMind(y, u)
        /\ u.ops = y.ops \intersect {"resolve"}
        /\ Queued(u) = Queued(y) \union AbortedAs(y.ops)
        /\ \A h : After(u.queue, h) \subseteq After(y.queue, h) \union AbortedAs(y.ops)
        /\ \A h : h \notin Queued(y) \union AbortedAs(y.ops) => After(u.queue, h) = {}
    BY Zenon, <1>u, <1>y, Cancelling
  <2> HIDE DEF a
  <2> QED BY <1>1, <2>1, <2>2
<1> HIDE DEF u, a
<1>3. x.m_connected /\ "resolve" \notin x.ops
  BY DEF Naming
<1>4. o = {"shutdown"} /\ o \in SUBSET {"resolve", "connect", "read", "write", "shutdown"}
  BY <1>2, <1>3
<1> HIDE DEF o
<1>5. v \in Clients
  BY <1>2, <1>4, ZenonT(60) DEF Clients
<1>6. SameFlags(u, v) /\ SameMind(u, v) /\ v.queue = u.queue /\ v.ops = o
  BY <1>2 DEF Clients, SameFlags, SameMind, SameLogin
<1> HIDE DEF v
<1>7. z \in Clients /\ SameFlags(v, z) /\ SameMind(v, z) /\ z.ops = v.ops /\ z.queue = v.queue
  BY <1>5, <1>z, Pleading
<1>8. SameFlags(y, z) /\ SameMind(y, z) /\ z.ops = {"shutdown"} /\ z.queue = u.queue /\ Queued(z) = Queued(u)
  <2>1. SameFlags(y, v) /\ SameMind(y, v)
    BY <1>2, <1>6, SamesCompose
  <2>2. SameFlags(y, z) /\ SameMind(y, z)
    BY <1>7, <2>1, SamesCompose
  <2> QED BY <1>4, <1>6, <1>7, <2>2 DEF Queued
<1>9. /\ SameMind(x, z) /\ ~z.m_connected /\ z.m_disconnecting
      /\ z.m_connecting = x.m_connecting /\ z.m_socket = x.m_socket
      /\ z.armed = x.armed /\ z.told = x.told /\ z.responds = x.responds
  BY <1>1, <1>8 DEF SameFlags, SameMind, SameLogin
<1>10. ~x.told /\ ~x.m_connecting /\ x.responds /\ x.m_socket = "open" /\ (\A h \in Dialing : h \notin Queued(x))
  BY <1>3 DEF Linked
<1>11. "connect" \notin x.ops /\ "shutdown" \notin x.ops /\ "shutdown" \notin Queued(x) /\ "finalize" \notin Queued(x)
  BY <1>10 DEF Operations
<1>12. a \subseteq {"recvErr", "sendErr"}
  BY <1>11 DEF a, AbortedAs
<1>13. After(z.queue, "shutdown") = {} /\ "shutdown" \notin Queued(z) /\ "finalize" \notin Queued(z)
  BY <1>2, <1>8, <1>11, <1>12
<1>14. \A h \in Dialing : h \notin Queued(z)
  BY <1>2, <1>8, <1>10, <1>12 DEF Dialing
<1>15. Naming(z) /\ Connecting(z) /\ Linked(z) /\ Shutting(z) /\ Told(z) /\ Resting(z)
  BY Zenon, <1>8, <1>9, <1>10, <1>14 DEF Naming, Connecting, Linked, Shutting, Told, Resting, Dialing
<1>16. Operations(z)
  <2>1. "tick" \in Queued(z) => ~z.armed /\ "tick" \notin After(z.queue, "tick")
    BY <1>2, <1>8, <1>9, <1>12 DEF Operations
  <2> QED BY <1>8, <1>9, <1>13, <1>14, <2>1 DEF Operations, Dialing
<1>17. OneLife(z) /\ LastReport(z) /\ Watched(z)
  BY Zenon, <1>8, <1>9, <1>10, <1>13 DEF OneLife, LastReport, Watched
<1>18. Knowledge(z)
  <2>1. ("recv" \in Queued(z) => "recv" \in Queued(x)) /\ ("fake" \in Queued(z) => "fake" \in Queued(x)) /\ "read" \notin z.ops
    <3>1. Queued(z) = Queued(x) \union a
      BY <1>2, <1>8
    <3>2. "read" \notin z.ops
      BY <1>8
    <3> QED BY <1>12, <3>1, <3>2
  <2> QED BY Zenon, <1>9, <2>1 DEF Knowledge, SameMind, SameLogin
<1>19. ~z.crashed /\ ShutsDown(x, z)
  <2>1. ~z.told /\ z.m_disconnecting /\ ~x.told /\ x.m_connected
    BY <1>3, <1>9, <1>10
  <2> QED BY <1>9, <2>1 DEF ShutsDown, SameMind, SameLogin
<1> QED BY <1>7, <1>15, <1>16, <1>17, <1>18, <1>19 DEF Goes, Good, Skeleton

(* The operations and the queue of w are those of x, which had nothing to  *)
(* abort, or those x has once its socket is closed.                        *)
Cuts(x, w) ==
    \/ w.ops = x.ops /\ w.queue = x.queue /\ ~x.m_connected /\ "connect" \notin x.ops
    \/ /\ w.ops = x.ops \intersect {"resolve"}
       /\ Queued(w) = Queued(x) \union AbortedAs(x.ops)
       /\ \A h : After(w.queue, h) \subseteq After(x.queue, h) \union AbortedAs(x.ops)
       /\ x.ops \intersect {"read", "write"} = {} /\ ~({"connect", "shutdown"} \subseteq x.ops) =>
            \A h : After(w.queue, h) \subseteq
                    After(x.queue, h) \union (IF h \in Queued(x) THEN AbortedAs(x.ops) ELSE {})

(* Without a socket, or without TLS, the end follows at once.              *)
LEMMA HangsToEnd == ASSUME NEW x, Hangs(x), ~TLS, ~x.told, NEW w \in Clients, SameMind(x, w), ~w.m_connected,
                           w.m_connecting = x.m_connecting, w.m_endpoints = x.m_endpoints, w.armed = x.armed,
                           w.told = x.told, w.responds = x.responds,
                           Cuts(x, w),
                           NEW z, z = disconnect_finalize(w)
                    PROVE  Goes(x, z) /\ Ended(x, z)
<1> DEFINE a == AbortedAs(x.ops)
<1> USE DEF Hangs
<1>1. ~x.m_disconnecting /\ "resolve" \notin x.ops /\ "shutdown" \notin x.ops
      /\ "resolved" \notin Queued(x) /\ "unresolved" \notin Queued(x)
      /\ "shutdown" \notin Queued(x) /\ "finalize" \notin Queued(x)
  BY DEF Shutting, MayPost, Operations
<1>2. /\ ("connect" \in x.ops => x.m_connecting) /\ ("read" \in x.ops \/ "write" \in x.ops => x.m_connected)
      /\ x.ops \subseteq {"resolve", "connect", "read", "write", "shutdown"} /\ ~(x.m_connected /\ x.m_connecting)
  BY DEF Operations, Linked, Clients
<1>3. a \subseteq {"recvErr", "sendErr", "refused"} /\ ("refused" \in a => "connect" \in x.ops)
      /\ ("connect" \in x.ops => "refused" \in a)
  BY <1>1 DEF AbortedAs
<1>4. w.ops = {}
  BY <1>1, <1>2 DEF Cuts
<1>5. /\ Queued(x) \subseteq Queued(w) /\ Queued(w) \subseteq Queued(x) \union a
      /\ "refused" \in Queued(w) => "refused" \in Queued(x) \/ "connect" \in x.ops
      /\ "connect" \in x.ops => "refused" \in Queued(w)
      /\ \A h : After(w.queue, h) \subseteq After(x.queue, h) \union a
  BY <1>3 DEF Cuts, Queued
<1> HIDE DEF a
<1>6. /\ "resolved" \notin Queued(w) /\ "unresolved" \notin Queued(w)
      /\ "shutdown" \notin Queued(w) /\ "finalize" \notin Queued(w)
      /\ "recv" \in Queued(w) => "recv" \in Queued(x)
      /\ "fake" \in Queued(w) => "fake" \in Queued(x)
      /\ "connected" \in Queued(w) \/ "refused" \in Queued(w) => w.m_connecting
  <2>1. Queued(w) \subseteq Queued(x) \union {"recvErr", "sendErr", "refused"}
    <3>1. Queued(w) \subseteq Queued(x) \union a /\ a \subseteq {"recvErr", "sendErr", "refused"}
      BY Zenon, <1>3, <1>5
    <3> HIDE DEF Hangs
    <3> QED BY Zenon, <3>1
  <2>2. "connected" \in Queued(w) \/ "refused" \in Queued(w) => w.m_connecting
    <3>1. "connected" \in Queued(x) \/ "refused" \in Queued(x) \/ "connect" \in x.ops => x.m_connecting
      BY DEF Operations
    <3>2. "connected" \in Queued(w) => "connected" \in Queued(x)
      BY <2>1
    <3>3. "refused" \in Queued(w) => "refused" \in Queued(x) \/ "connect" \in x.ops
      BY <1>5
    <3> QED BY Zenon, <3>1, <3>2, <3>3
  <2> QED BY <1>1, <2>1, <2>2
<1>7. "tick" \in Queued(w) => ~w.armed /\ "tick" \notin After(w.queue, "tick")
  BY <1>3, <1>5 DEF Operations
<1>8. ASSUME w.m_connecting
      PROVE  /\ w.m_endpoints > 0 /\ ("connected" \in Queued(w) \/ "refused" \in Queued(w))
             /\ \A h \in {"connected", "refused"} :
                   "connected" \notin After(w.queue, h) /\ "refused" \notin After(w.queue, h)
  <2>1. /\ x.m_connecting /\ x.m_endpoints > 0 /\ w.m_endpoints > 0
        /\ "connect" \in x.ops \/ "connected" \in Queued(x) \/ "refused" \in Queued(x)
        /\ "connect" \in x.ops => "connected" \notin Queued(x) /\ "refused" \notin Queued(x)
        /\ \A h \in {"connected", "refused"} :
             "connected" \notin After(x.queue, h) /\ "refused" \notin After(x.queue, h)
    BY <1>8 DEF Connecting
  <2>2. "connected" \in Queued(w) \/ "refused" \in Queued(w)
    BY <1>5, <2>1
  <2>3. ASSUME NEW h \in {"connected", "refused"}
        PROVE  "connected" \notin After(w.queue, h) /\ "refused" \notin After(w.queue, h)
    <3>1. CASE "connect" \notin x.ops
      BY <1>3, <1>5, <2>1, <3>1
    <3>2. CASE "connect" \in x.ops
      <4>1. x.ops \intersect {"read", "write"} = {} /\ ~({"connect", "shutdown"} \subseteq x.ops) /\ h \notin Queued(x)
        <5>1. "read" \notin x.ops /\ "write" \notin x.ops /\ "shutdown" \notin x.ops
          BY <1>1, <1>2, <2>1
        <5>2. h \notin Queued(x)
          BY <2>1, <2>3, <3>2
        <5> QED BY <5>1, <5>2
      <4>2. After(w.queue, h) \subseteq After(x.queue, h)
        BY <3>2, <4>1 DEF Cuts
      <4> QED BY <2>1, <4>2
    <3> QED BY <3>1, <3>2
  <2> QED BY <2>1, <2>2, <2>3
<1>9. Clean => ~w.m_connecting /\ \A h \in Dialing : h \notin Queued(w)
  <2>1. Clean => x.m_connected
    BY <1>1 DEF MayPost
  <2>2. Clean => (\A h \in Dialing : h \notin Queued(x)) /\ ~x.m_connecting
    BY <2>1 DEF Linked
  <2> QED BY <1>2, <1>3, <1>5, <2>2 DEF Dialing
<1>10. Ending(w)
  <2>1. /\ "sub" \in w.asked \/ "auth" \in w.asked => w.confirmed
        /\ "recv" \in Queued(w) => w.mode \in Modes
        /\ Version # Unset => /\ w.responds => w.confirmed \/ w.unrecoverable
                              /\ w.mode \in {Version, Unset} /\ "fake" \notin Queued(w)
        /\ Clean /\ "auth" \in w.asked => "sub" \notin w.asked
    BY Zenon, <1>6 DEF Knowledge, SameMind, SameLogin
  <2>2. ~w.told /\ ~w.m_connected
    BY Zenon
  <2> QED BY Zenon, <1>4, <1>6, <1>7, <1>8, <1>9, <2>1, <2>2 DEF Ending
<1>11. ~w.crashed /\ w.mode = x.mode /\ w.confirmed = x.confirmed
       /\ w.unrecoverable = x.unrecoverable
  BY Zenon DEF SameMind, SameLogin
<1>12. /\ z \in Clients /\ ~z.crashed /\ Good(z)
       /\ Leaves(w, z) /\ (Tries(w, z) \/ Tells(w, z))
  BY Zenon, <1>10, <1>11, EndsWell
<1>13. Ended(x, z)
  <2>1. ~w.told
    OBVIOUS
  <2> QED BY Zenon, <1>11, <1>12, <2>1, EndIsSeen
<1> QED BY <1>11, <1>12, <1>13 DEF Goes

(* disconnect shuts TLS down, ends the connection, or finds its socket     *)
(* gone; the invariant is kept.                                            *)
LEMMA DisconnectEnds == ASSUME NEW x, Hangs(x), ~x.m_disconnecting, NEW z, z = disconnect(x)
                        PROVE  /\ Goes(x, z)
                               /\ SamePhase(x, z) \/ ShutsDown(x, z) \/ (~TLS /\ Ended(x, z))
<1> DEFINE y == HangUp(x)
           w == CloseSocket(y)
           u == CancelOps(y)
<1>0. x \in Clients /\ ~x.crashed /\ Knowledge(x)
  BY DEF Hangs
<1>1. /\ y \in Clients /\ SameMind(x, y) /\ y.queue = x.queue /\ y.ops = x.ops
      /\ ~y.m_connected /\ y.m_disconnecting
      /\ y.m_connecting = x.m_connecting /\ y.m_socket = x.m_socket
      /\ y.m_endpoints = x.m_endpoints /\ y.armed = x.armed /\ y.told = x.told
      /\ y.responds = x.responds
  BY <1>0, HangingUp
<1>2. z = CASE x.m_socket = "open" /\ TLS -> StartsShutdown(x)
            [] x.m_socket = "open" /\ ~TLS -> disconnect_finalize(w)
            [] x.m_socket = "closed" -> Crash(x)
            [] OTHER -> disconnect_finalize(y)
  BY DEF disconnect, IsDisconnecting, HangUp, StartsShutdown
<1>3. x.m_socket \in {"null", "closed", "open"}
  BY <1>0 DEF Clients
<1>4. (TLS => x.m_socket = "open") /\ (x.told => x.m_socket = "null")
  BY DEF Hangs, Linked, Told
<1> HIDE DEF w, y
<1>5. CASE x.m_socket = "open" /\ TLS
  <2>1. z = StartsShutdown(x)
    BY <1>2, <1>5
  <2> QED BY <1>5, <2>1, ShutdownStarts
<1>6. CASE x.m_socket = "open" /\ ~TLS
  <2>1. z = disconnect_finalize(w)
    BY <1>2, <1>6
  <2>2. /\ u.ops = y.ops \intersect {"resolve"}
        /\ Queued(u) = Queued(y) \union AbortedAs(y.ops)
        /\ \A h : After(u.queue, h) \subseteq After(y.queue, h) \union AbortedAs(y.ops)
        /\ y.ops \intersect {"read", "write"} = {} /\ ~({"connect", "shutdown"} \subseteq y.ops) =>
             \A h : After(u.queue, h) \subseteq
                     After(y.queue, h) \union (IF h \in Queued(y) THEN AbortedAs(y.ops) ELSE {})
    <3>1. u = CancelOps(y) /\ y \in Clients
      BY <1>1
    <3> HIDE DEF u
    <3> QED BY SMTT(30), <3>1, Cancelling
  <2>3. /\ w \in Clients /\ SameMind(y, w) /\ w.ops = u.ops /\ w.queue = u.queue
        /\ w.m_connecting = y.m_connecting /\ w.m_connected = y.m_connected /\ w.m_endpoints = y.m_endpoints
        /\ w.armed = y.armed /\ w.told = y.told /\ w.responds = y.responds
    BY <1>1, ClosingSocket DEF w
  <2> HIDE DEF u
  <2>4. Cuts(x, w)
    BY <1>1, <2>2, <2>3 DEF Cuts, Queued
  <2>5. /\ SameMind(x, w) /\ ~w.m_connected
        /\ w.m_connecting = x.m_connecting /\ w.m_endpoints = x.m_endpoints /\ w.armed = x.armed
        /\ w.told = x.told /\ w.responds = x.responds
    BY <1>1, <2>3 DEF SameMind, SameLogin
  <2>6. ~x.told /\ ~TLS
    BY <1>4, <1>6
  <2> QED BY <2>1, <2>3, <2>4, <2>5, <2>6, HangsToEnd
<1>7. CASE x.m_socket = "closed"
  <2>1. z = Crash(x)
    BY <1>2, <1>7
  <2>2. /\ z \in Clients /\ z.crashed /\ SameFlags(x, z) /\ z.mode = x.mode /\ SameView(x, z)
    BY <1>0, <2>1, CrashMoves
  <2>3. ~Harmless
    BY <1>4, <1>7 DEF Harmless
  <2>5. SamePhase(x, z)
    BY <2>2 DEF SamePhase, SameFlags
  <2> QED BY <2>2, <2>3, <2>5 DEF Goes
<1>8. CASE x.m_socket = "null"
  <2>1. z = disconnect_finalize(y)
    BY <1>2, <1>8
  <2>2. CASE x.told
    <3>1. z = Crash(y)
      BY <1>1, <2>1, <2>2 DEF disconnect_finalize
    <3>2. /\ z \in Clients /\ z.crashed /\ SameFlags(y, z) /\ z.mode = y.mode /\ SameView(y, z)
      BY <1>1, <3>1, CrashMoves
    <3>3. ~Harmless
      BY <1>4, <1>8 DEF Harmless
    <3>5. SamePhase(x, z)
      BY ZenonT(60), <1>1, <2>2, <3>2 DEF SamePhase, SameFlags, SameView, SameMind, SameLogin
    <3> QED BY <3>2, <3>3, <3>5 DEF Goes
  <2>3. CASE ~x.told
    <3>1. ~TLS
      BY <1>4, <1>8
    <3>2. ~x.m_connected /\ "connect" \notin x.ops
      BY <1>8 DEF Hangs, Linked, Connecting, Operations
    <3>3. Cuts(x, y)
      BY <1>1, <3>2 DEF Cuts
    <3> QED BY <1>1, <2>1, <2>3, <3>1, <3>2, <3>3, HangsToEnd
  <2> QED BY <2>2, <2>3
<1> QED BY <1>3, <1>5, <1>6, <1>7, <1>8

(* The disconnect that was posted keeps the invariant.                     *)
LEMMA DisconnectStep == ASSUME c \in Clients, Good(c), Disconnect
                        PROVE  Goes(c, c') /\ (SamePhase(c, c') \/ ShutsDown(c, c') \/ (~TLS /\ Ended(c, c')))
<1> DEFINE x == Rest
<1>1. Runs("disconnect") /\ c' = disconnect(x)
  BY DEF Disconnect
<1>x. x = Rest
  OBVIOUS
<1>2. CASE x.m_disconnecting
  <2>1. c' = x
    BY <1>1, <1>2 DEF disconnect, IsDisconnecting
  <2> QED BY <1>1, <1>2, <2>1, DisconnectingRest
<1>3. CASE ~x.m_disconnecting
  <2>1. /\ SameFlags(c, x) /\ Queued(c) = {"disconnect"} \union Queued(x)
    BY <1>1, RestIs
  <2> HIDE DEF x
  <2>2. "finalize" \notin Queued(x)
    BY <1>3, <2>1 DEF Good, Skeleton, Operations, SameFlags
  <2>3. Hangs(x) /\ SameMind(c, x)
    BY <1>1, <1>x, <2>2, AtDisconnect
  <2>4. Goes(x, c') /\ (SamePhase(x, c') \/ ShutsDown(x, c') \/ (~TLS /\ Ended(x, c')))
    BY <1>1, <1>3, <2>3, DisconnectEnds
  <2>5. Goes(c, c')
    BY <2>3, <2>4 DEF Goes, SameMind, SameLogin
  <2>6. SamePhase(c, x)
    BY <2>1, <2>3 DEF SamePhase, SameView, SameFlags, SameMind, SameLogin
  <2>7. ShutsDown(x, c') => ShutsDown(c, c')
    BY <2>1, <2>3 DEF ShutsDown, SameFlags, SameMind, SameLogin
  <2>8. Ended(x, c') => Ended(c, c')
    <3>1. /\ x.told = c.told /\ x.responds = c.responds /\ x.confirmed = c.confirmed /\ x.mode = c.mode
          /\ x.unrecoverable = c.unrecoverable
      BY <2>1, <2>3 DEF SameFlags, SameMind, SameLogin
    <3> QED BY <3>1, Zenon DEF Ended, Detecting
  <2> QED BY <2>4, <2>5, <2>6, <2>7, <2>8, PhasesCompose
<1> QED BY <1>2, <1>3

(* The disconnect that the manager calls keeps the invariant.              *)
LEMMA ManagerDisconnectsStep == ASSUME c \in Clients, Good(c), ManagerDisconnects
                                PROVE  Goes(c, c') /\ (SamePhase(c, c') \/ ShutsDown(c, c') \/ (~TLS /\ Ended(c, c')))
<1>1. ~c.crashed /\ c.m_connected /\ c' = disconnect(c)
  BY DEF ManagerDisconnects, isConnected
<1>2. ~c.m_disconnecting /\ ~c.told /\ ~c.m_connecting
  BY <1>1 DEF Good, Skeleton, Linked
<1>3. MayPost(c)
  BY <1>1, <1>2 DEF Good, Skeleton, MayPost, Naming, Operations
<1>4. Hangs(c)
  BY <1>1, <1>3 DEF Good, Skeleton, Hangs, LastReport
<1> QED BY <1>1, <1>2, <1>4, DisconnectEnds

(* The end of the TLS shutdown, or its error, posts the end of the         *)
(* connection.                                                             *)
LEMMA ShutdownCompletedStep == ASSUME c \in Clients, Good(c), ShutdownCompleted
                               PROVE  Goes(c, c') /\ SamePhase(c, c')
<1> DEFINE x == Rest
           p == clear_response_pleas(x)
           z == c'
<1>1. Runs("shutdown") /\ z = Post(p, "finalize") /\ "finalize" \in Handlers
  BY DEF ShutdownCompleted, onSSLShutdownCompleted, Handlers
<1>2. /\ x \in Clients /\ ~c.crashed /\ SameFlags(c, x) /\ x.ops = c.ops /\ Queued(c) = {"shutdown"} \union Queued(x)
      /\ After(c.queue, "shutdown") = Queued(x)
  BY <1>1, RestIs
<1>3. Knowledge(x) /\ SameMind(c, x)
  BY <1>1, RestKnows
<1>t. "tick" \in Queued(x) => ~x.armed /\ "tick" \notin After(x.queue, "tick")
  <2>1. \A k : After(x.queue, k) \subseteq After(c.queue, k)
    BY <1>1, RestIs
  <2> QED BY <1>2, <2>1 DEF Good, Skeleton, Operations, SameFlags
<1> HIDE DEF x
<1>4. p \in Clients /\ SameFlags(x, p) /\ SameMind(x, p) /\ p.ops = x.ops /\ p.queue = x.queue
  BY <1>2, Pleading
<1> HIDE DEF p
<1>5. /\ z \in Clients /\ SameFlags(p, z) /\ SameMind(p, z) /\ z.ops = p.ops
      /\ Queued(z) = Queued(p) \union {"finalize"}
      /\ \A k : After(z.queue, k) = After(p.queue, k) \union (IF k \in Queued(p) THEN {"finalize"} ELSE {})
  <2>1. LET q == Post(p, "finalize")
        IN  /\ q \in Clients /\ SameFlags(p, q) /\ SameMind(p, q) /\ q.ops = p.ops
            /\ Queued(q) = Queued(p) \union {"finalize"}
            /\ \A k : After(q.queue, k) = After(p.queue, k) \union (IF k \in Queued(p) THEN {"finalize"} ELSE {})
    BY Zenon, <1>1, <1>4, Posts
  <2> QED BY <1>1, <2>1
<1> HIDE DEF z
<1>6. SameFlags(c, z) /\ SameMind(c, z) /\ z.ops = c.ops /\ Queued(z) = Queued(x) \union {"finalize"}
  <2>1. SameFlags(c, p) /\ SameMind(c, p)
    BY <1>2, <1>3, <1>4, SamesCompose
  <2> QED BY <1>2, <1>4, <1>5, <2>1, SamesCompose DEF Queued
<1>7. \A k : After(z.queue, k) = After(x.queue, k) \union (IF k \in Queued(x) THEN {"finalize"} ELSE {})
  BY <1>4, <1>5 DEF Queued
<1>8. c.m_disconnecting /\ TLS /\ ~c.told /\ ~c.m_connected /\ ~c.m_connecting /\ c.responds /\ c.m_socket # "null"
  BY <1>2 DEF Good, Skeleton, Operations, Shutting
<1>9. "shutdown" \notin c.ops /\ Queued(x) \subseteq {"disconnect", "tick"}
  BY <1>2, <1>8 DEF Good, Skeleton, LastReport
<1>10. After(z.queue, "shutdown") = {} /\ After(z.queue, "finalize") = {}
  BY <1>2, <1>7, <1>9, AbsentAfter
<1>11. Naming(z) /\ Connecting(z) /\ Linked(z) /\ Shutting(z) /\ Told(z) /\ Resting(z)
  BY Zenon, <1>2, <1>6, <1>8, <1>9 DEF Good, Skeleton, SameFlags, Naming, Connecting, Linked, Shutting, Told, Resting, Dialing
<1>12. Operations(z) /\ OneLife(z)
  BY Zenon, <1>2, <1>t, <1>6, <1>7, <1>8, <1>9 DEF Good, Skeleton, SameFlags, Operations, OneLife
<1>13. LastReport(z) /\ Watched(z)
  BY <1>6, <1>8, <1>9, <1>10 DEF SameFlags, LastReport, Watched
<1>14. Knowledge(z)
  BY <1>6, <1>9 DEF Good, Knowledge, SameFlags, SameMind, SameLogin
<1>15. ~z.crashed /\ SamePhase(c, z)
  BY <1>2, <1>6 DEF SameFlags, SameMind, SameLogin, SamePhase, SameView
<1> QED BY <1>5, <1>11, <1>12, <1>13, <1>14, <1>15 DEF Goes, Good, Skeleton, z

(* The posted end of a connection is the end that the promise speaks of.   *)
LEMMA FinalizeStep == ASSUME c \in Clients, Good(c), Finalize
                      PROVE  Goes(c, c') /\ Ended(c, c') /\ ~c.m_connected
<1> DEFINE x == Rest
<1>1. Runs("finalize") /\ c' = disconnect_finalize(x)
  BY DEF Finalize
<1>2. /\ x \in Clients /\ ~c.crashed /\ SameFlags(c, x) /\ x.ops = c.ops /\ Queued(c) = {"finalize"} \union Queued(x)
      /\ After(c.queue, "finalize") = Queued(x)
      /\ \A k : After(x.queue, k) \subseteq After(c.queue, k)
  BY <1>1, RestIs
<1>3. Knowledge(x) /\ SameMind(c, x)
  BY <1>1, RestKnows
<1> HIDE DEF x
<1>4. c.m_disconnecting /\ TLS /\ ~c.told /\ ~c.m_connected /\ ~c.m_connecting
  BY <1>2 DEF Good, Skeleton, Operations, Shutting
<1>5. "shutdown" \notin c.ops /\ Queued(x) \subseteq {"tick"}
  BY <1>2, <1>4 DEF Good, Skeleton, LastReport
<1>6. x.ops = {}
  BY SMTT(30), <1>2, <1>4, <1>5 DEF Good, Skeleton, Operations, Naming, Clients
<1>7. "tick" \in Queued(x) => ~x.armed /\ "tick" \notin After(x.queue, "tick")
  BY <1>2 DEF Good, Skeleton, Operations, SameFlags
<1>8. ~x.told /\ ~x.m_connected /\ ~x.m_connecting
  BY <1>2, <1>4 DEF SameFlags
<1>9. Ending(x)
  BY <1>3, <1>5, <1>6, <1>7, <1>8 DEF Ending, Knowledge, Dialing
<1>10. ~x.crashed /\ x.mode = c.mode /\ x.confirmed = c.confirmed
       /\ x.unrecoverable = c.unrecoverable /\ x.told = c.told /\ x.responds = c.responds
  BY <1>2, <1>3 DEF SameFlags, SameMind, SameLogin
<1>11. /\ c' \in Clients /\ ~c'.crashed /\ Good(c')
       /\ Leaves(x, c') /\ (Tries(x, c') \/ Tells(x, c'))
  BY <1>1, <1>2, <1>9, <1>10, EndsWell
<1>12. Ended(c, c')
  BY <1>8, <1>10, <1>11, EndIsSeen
<1> QED BY <1>4, <1>10, <1>11, <1>12 DEF Goes

==============================================================================
