-------------------------- MODULE StratumInvariant ---------------------------
(***************************************************************************)
(* The inductive invariant of the stratum client, what its helpers change, *)
(* and the steps that neither gain nor give up a link: completions of      *)
(* operations, timers, and the calls of the manager.                       *)
(***************************************************************************)
EXTENDS StratumClient, TLAPS

(* The handlers that wait.                                                 *)
Queued(x) == Range(x.queue)

(* The handlers that wait behind a handler h.                              *)
After(q, h) == {q[j] : j \in {k \in 1..Len(q) : \E i \in 1..(k - 1) : q[i] = h}}

(* The handlers of an attempt to connect.                                  *)
Dialing == {"resolved", "unresolved", "start_connect", "connected", "refused"}

(* Nothing of an earlier connection waits when the client dials anew: with *)
(* TLS the report comes last, and a flavour that is known is never changed.*)
Clean == TLS \/ Version # Unset

-----------------------------------------------------------------------------

(* How queues change.                                                      *)
LEMMA Posting == ASSUME NEW q \in Seq(Handlers), NEW e \in Handlers
                 PROVE  /\ Append(q, e) \in Seq(Handlers)
                        /\ Range(Append(q, e)) = Range(q) \union {e}
                        /\ \A h : After(Append(q, e), h) =
                                    After(q, h) \union (IF h \in Range(q) THEN {e} ELSE {})
<1> DEFINE p == Append(q, e)
<1>1. p \in Seq(Handlers) /\ Len(p) = Len(q) + 1 /\ p[Len(q) + 1] = e
      /\ \A i \in 1..Len(q) : p[i] = q[i]
  OBVIOUS
<1>2. DOMAIN p = 1..(Len(q) + 1) /\ DOMAIN q = 1..Len(q) /\ Len(q) \in Nat
  OBVIOUS
<1> HIDE DEF p
<1>3. Range(p) = Range(q) \union {e}
  BY <1>1, <1>2 DEF Range
<1>4. ASSUME NEW h PROVE After(p, h) = After(q, h) \union (IF h \in Range(q) THEN {e} ELSE {})
  <2>1. ASSUME NEW y \in After(p, h)
        PROVE  y \in After(q, h) \union (IF h \in Range(q) THEN {e} ELSE {})
    <3>1. PICK k \in 1..Len(p) : y = p[k] /\ \E i \in 1..(k - 1) : p[i] = h
      BY <2>1 DEF After
    <3>2. PICK i \in 1..(k - 1) : p[i] = h
      BY <3>1
    <3>3. i \in 1..Len(q) /\ q[i] = h
      BY <1>1, <1>2, <3>2
    <3>4. CASE k \in 1..Len(q)
      BY <1>1, <3>1, <3>3, <3>4, <3>2 DEF After
    <3>5. CASE k = Len(q) + 1
      BY <1>1, <1>2, <3>1, <3>3, <3>5 DEF Range
    <3> QED BY <1>1, <1>2, <3>4, <3>5
  <2>2. ASSUME NEW y \in After(q, h) PROVE y \in After(p, h)
    <3>1. PICK k \in 1..Len(q) : y = q[k] /\ \E i \in 1..(k - 1) : q[i] = h
      BY <2>2 DEF After
    <3>2. PICK i \in 1..(k - 1) : q[i] = h
      BY <3>1
    <3>3. k \in 1..Len(p) /\ p[k] = y /\ p[i] = h
      BY <1>1, <1>2, <3>1, <3>2
    <3> QED BY <3>2, <3>3 DEF After
  <2>3. h \in Range(q) => e \in After(p, h)
    <3> SUFFICES ASSUME h \in Range(q) PROVE e \in After(p, h)
      OBVIOUS
    <3>1. PICK i \in 1..Len(q) : q[i] = h
      BY <1>2 DEF Range
    <3>2. i \in 1..((Len(q) + 1) - 1) /\ p[i] = h /\ Len(q) + 1 \in 1..Len(p) /\ p[Len(q) + 1] = e
      BY <1>1, <1>2, <3>1
    <3> QED BY <3>2 DEF After
  <2> QED BY <2>1, <2>2, <2>3
<1> QED BY <1>1, <1>3, <1>4 DEF p

(* What running the first handler does to the queue.                       *)
LEMMA Popping == ASSUME NEW q \in Seq(Handlers), q # <<>>
                 PROVE  /\ Tail(q) \in Seq(Handlers) /\ Head(q) \in Handlers
                        /\ Range(q) = {Head(q)} \union Range(Tail(q))
                        /\ After(q, Head(q)) = Range(Tail(q))
                        /\ \A h : /\ After(Tail(q), h) \subseteq After(q, h)
                                  /\ h # Head(q) => After(Tail(q), h) = After(q, h)
                                  /\ After(q, h) \subseteq Range(Tail(q))
<1> DEFINE t == Tail(q)
<1>1. /\ t \in Seq(Handlers) /\ Len(q) = Len(t) + 1 /\ Len(t) \in Nat /\ q[1] = Head(q)
      /\ \A i \in 1..Len(t) : t[i] = q[i + 1]
      /\ Head(q) \in Handlers
  OBVIOUS
<1>2. DOMAIN t = 1..Len(t) /\ DOMAIN q = 1..Len(q)
  OBVIOUS
<1> HIDE DEF t
<1>3. Range(q) = {Head(q)} \union Range(t)
  <2>1. \A j \in 1..Len(q) : j = 1 \/ (j - 1 \in 1..Len(t) /\ q[j] = t[j - 1])
    BY <1>1
  <2>2. \A i \in 1..Len(t) : i + 1 \in 1..Len(q) /\ t[i] = q[i + 1]
    BY <1>1
  <2>3. 1 \in 1..Len(q)
    BY <1>1
  <2>4. Range(q) = {q[j] : j \in 1..Len(q)} /\ Range(t) = {t[j] : j \in 1..Len(t)}
    BY <1>2 DEF Range
  <2>5. Range(q) \subseteq {Head(q)} \union Range(t)
    BY <1>1, <2>1, <2>4
  <2>6. Range(t) \subseteq Range(q) /\ Head(q) \in Range(q)
    BY <1>1, <2>2, <2>3, <2>4
  <2> QED BY <2>5, <2>6
<1>4. ASSUME NEW h, NEW y \in After(q, h) PROVE y \in Range(t) /\ (h # Head(q) => y \in After(t, h))
  <2>1. PICK k \in 1..Len(q) : y = q[k] /\ \E i \in 1..(k - 1) : q[i] = h
    BY <1>4 DEF After
  <2>2. PICK i \in 1..(k - 1) : q[i] = h
    BY <2>1
  <2>3. k - 1 \in 1..Len(t) /\ t[k - 1] = y
    BY <1>1, <2>1, <2>2
  <2>4. ASSUME h # Head(q) PROVE y \in After(t, h)
    <3>0. i # 1
      BY <1>1, <2>2, <2>4
    <3>1. i - 1 \in 1..((k - 1) - 1) /\ i - 1 \in 1..Len(t) /\ (i - 1) + 1 = i
      BY <1>1, <2>1, <2>2, <3>0
    <3>2. t[i - 1] = h
      BY <1>1, <2>2, <3>1
    <3> QED BY <2>3, <3>1, <3>2 DEF After
  <2> QED BY <1>2, <2>3, <2>4 DEF Range
<1>5. ASSUME NEW h, NEW y \in After(t, h) PROVE y \in After(q, h)
  <2>1. PICK k \in 1..Len(t) : y = t[k] /\ \E i \in 1..(k - 1) : t[i] = h
    BY <1>5 DEF After
  <2>2. PICK i \in 1..(k - 1) : t[i] = h
    BY <2>1
  <2>3. k + 1 \in 1..Len(q) /\ q[k + 1] = y /\ i + 1 \in 1..((k + 1) - 1) /\ q[i + 1] = h
    BY <1>1, <2>1, <2>2
  <2> QED BY <2>3 DEF After
<1>6. ASSUME NEW y \in Range(t) PROVE y \in After(q, Head(q))
  <2>1. PICK k \in 1..Len(t) : y = t[k]
    BY <1>2, <1>6 DEF Range
  <2>2. k + 1 \in 1..Len(q) /\ q[k + 1] = y /\ 1 \in 1..((k + 1) - 1) /\ q[1] = Head(q)
    BY <1>1, <2>1
  <2> QED BY <2>2 DEF After
<1>7. After(q, Head(q)) = Range(t)
  BY Zenon, <1>4, <1>6
<1>8. \A h : /\ After(t, h) \subseteq After(q, h)
             /\ h # Head(q) => After(t, h) = After(q, h)
             /\ After(q, h) \subseteq Range(t)
  <2> TAKE h
  <2>1. After(t, h) \subseteq After(q, h) /\ After(q, h) \subseteq Range(t)
    BY <1>4, <1>5
  <2>2. h # Head(q) => After(q, h) \subseteq After(t, h)
    BY <1>4
  <2> QED BY Zenon, <2>1, <2>2
<1> QED BY <1>1, <1>3, <1>7, <1>8 DEF t

(* The inductive invariant.  Its skeleton says what the client is doing    *)
(* and what may therefore wait in the queue.                               *)

(* The name is being resolved, and nothing else is done.                   *)
Naming(x) == "resolve" \in x.ops \/ "resolved" \in Queued(x) \/ "unresolved" \in Queued(x) =>
    /\ ~x.told /\ ~x.m_connected /\ ~x.m_connecting /\ ~x.m_disconnecting /\ ~x.responds
    /\ x.ops \subseteq {"resolve"} /\ Queued(x) \subseteq {"resolved", "unresolved", "tick"}
    /\ "resolve" \in x.ops => Queued(x) \subseteq {"tick"}
    /\ After(x.queue, "resolved") \subseteq {"tick"} /\ After(x.queue, "unresolved") \subseteq {"tick"}

(* One connect is under way or completed.  If the socket is still open,    *)
(* no other is asked for.                                                  *)
Connecting(x) == x.m_connecting =>
    /\ ~x.m_connected /\ ~x.m_disconnecting /\ x.m_endpoints > 0
    /\ "connect" \in x.ops => x.m_socket = "open" /\ "connected" \notin Queued(x) /\ "refused" \notin Queued(x)
    /\ "connect" \in x.ops \/ "connected" \in Queued(x) \/ "refused" \in Queued(x)
    /\ \A h \in {"connected", "refused"} :
          /\ "connected" \notin After(x.queue, h) /\ "refused" \notin After(x.queue, h)
          /\ x.m_socket = "open" => "start_connect" \notin After(x.queue, h)

(* A link is watched by nobody else: no attempt to connect is left.        *)
Linked(x) == x.m_connected =>
    /\ ~x.told /\ ~x.m_connecting /\ ~x.m_disconnecting /\ x.responds /\ x.m_socket = "open"
    /\ \A h \in Dialing : h \notin Queued(x)

(* TLS shuts down: the end of it is under way or in the queue.             *)
Shutting(x) == x.m_disconnecting =>
    /\ TLS /\ ~x.told /\ ~x.m_connected /\ ~x.m_connecting /\ x.responds /\ x.m_socket # "null"
    /\ \A h \in Dialing : h \notin Queued(x)
    /\ "shutdown" \in x.ops \/ "shutdown" \in Queued(x) \/ "finalize" \in Queued(x)

(* Once the manager was told of the end, the socket is gone.               *)
Told(x) == x.told => ~x.m_connected /\ ~x.m_disconnecting /\ x.m_socket = "null"

(* A client that neither dials nor is linked, and has told nobody, is      *)
(* about to dial.                                                          *)
Resting(x) == ~x.told /\ ~x.m_connected /\ ~x.m_connecting /\ ~x.m_disconnecting =>
    \/ "resolve" \in x.ops \/ "resolved" \in Queued(x) \/ "unresolved" \in Queued(x)
    \/ "start_connect" \in Queued(x)

(* Operations and their completions belong to the phase that started them, *)
(* and there is one tick of the timer at a time.                           *)
Operations(x) == /\ "read" \in x.ops \/ "write" \in x.ops => x.m_connected
                 /\ "connect" \in x.ops => x.m_connecting
                 /\ "shutdown" \in x.ops => x.m_disconnecting
                 /\ "connected" \in Queued(x) \/ "refused" \in Queued(x) => x.m_connecting
                 /\ "shutdown" \in Queued(x) \/ "finalize" \in Queued(x) => x.m_disconnecting
                 /\ "tick" \in Queued(x) => ~x.armed /\ "tick" \notin After(x.queue, "tick")

(* Where Clean holds, a client that dials has nothing else to do, and one  *)
(* that has told the manager does not dial.                                *)
OneLife(x) == Clean =>
    /\ ~x.told /\ ~x.m_connected /\ ~x.m_disconnecting =>
         /\ Queued(x) \subseteq Dialing \union {"tick"}
         /\ \A h \in Dialing : \A k \in Dialing : k \notin After(x.queue, h)
         /\ x.ops # {} => \A h \in Dialing : h \notin Queued(x)
         /\ x.m_connecting => x.m_socket # "null"
         /\ TLS \/ ~x.responds
    /\ x.told => (\A h \in Dialing : h \notin Queued(x)) /\ x.ops = {} /\ ~x.m_connecting

(* With TLS the report comes last, and no address is given up twice.       *)
LastReport(x) == TLS =>
    /\ x.told => Queued(x) \subseteq {"tick"}
    /\ x.m_connected /\ x.m_endpoints = 0 =>
         "disconnect" \in Queued(x) /\ ("tick" \in Queued(x) => "tick" \in After(x.queue, "disconnect"))
    /\ "shutdown" \in x.ops => "shutdown" \notin Queued(x) /\ "finalize" \notin Queued(x)
    /\ After(x.queue, "shutdown") \subseteq {"disconnect", "tick"}
    /\ "finalize" \in Queued(x) => /\ Queued(x) \subseteq {"disconnect", "tick", "finalize"}
                                   /\ After(x.queue, "finalize") \subseteq {"tick"}

(* What the client does and what may wait for it.                          *)
Skeleton(x) == /\ Naming(x) /\ Connecting(x) /\ Linked(x) /\ Shutting(x) /\ Told(x) /\ Resting(x)
               /\ Operations(x) /\ OneLife(x) /\ LastReport(x)

(* A link is watched.                                                      *)
Watched(x) == x.m_connected => \/ "read" \in x.ops \/ "recv" \in Queued(x)
                               \/ "recvErr" \in Queued(x) \/ "disconnect" \in Queued(x)

(* What is known of the pool.                                              *)
Knowledge(x) ==
    /\ x.session.on => x.confirmed /\ ~x.told
    /\ Clean /\ x.session.on => "login" \notin x.asked /\ (x.m_connected \/ x.m_disconnecting)
    /\ x.session.set => x.session.on
    /\ x.m_authpending => x.session.on
    /\ "sub" \in x.asked \/ "auth" \in x.asked => x.confirmed /\ (x.session.on \/ x.told)
    /\ Version = Unset /\ x.confirmed => x.session.on \/ x.told
    /\ "read" \in x.ops \/ "recv" \in Queued(x) => x.mode \in Modes
    /\ Version # Unset /\ x.responds => x.confirmed \/ x.unrecoverable
    /\ Version # Unset => x.mode \in {Version, Unset} /\ "fake" \notin Queued(x)
    /\ Clean /\ "auth" \in x.asked => "sub" \notin x.asked
    /\ Clean /\ x.session.authorized => /\ x.session.on /\ ~x.m_authpending
                                        /\ "sub" \notin x.asked /\ "auth" \notin x.asked

(* The state of a client that has not crashed.                             *)
Good(x) == Skeleton(x) /\ Watched(x) /\ Knowledge(x)

(* Asking for a disconnection.                                             *)
MayPost(x) == /\ "resolve" \notin x.ops /\ "resolved" \notin Queued(x) /\ "unresolved" \notin Queued(x)
              /\ Clean => x.m_connected \/ x.m_disconnecting \/ x.told
              /\ TLS => ~x.told /\ "finalize" \notin Queued(x)

(* z is at the same point of the connection as x.                          *)
SameFlags(x, z) == /\ z.m_connecting = x.m_connecting /\ z.m_disconnecting = x.m_disconnecting
                   /\ z.m_connected = x.m_connected /\ z.m_socket = x.m_socket
                   /\ z.m_endpoints = x.m_endpoints /\ z.armed = x.armed
                   /\ z.told = x.told /\ z.responds = x.responds

(* A step that leaves the flags, the operations and the queue alone leaves *)
(* the skeleton.                                                           *)
LEMMA FrameKeeps == ASSUME NEW x, NEW z, SameFlags(x, z), z.ops = x.ops, z.queue = x.queue
                    PROVE  /\ Queued(z) = Queued(x) /\ Watched(z) = Watched(x) /\ MayPost(z) = MayPost(x)
                           /\ Skeleton(x) => Skeleton(z)
<1>1. Queued(z) = Queued(x)
  BY DEF Queued
<1> QED BY <1>1 DEF SameFlags, Watched, MayPost, Skeleton, Naming, Connecting, Linked, Shutting, Told,
                    Resting, Operations, OneLife, LastReport

(* disconnect may be posted whenever the client is linked or shutting      *)
(* down.                                                                   *)
LEMMA PostKeeps == ASSUME NEW x \in Clients, NEW z, SameFlags(x, z), z.ops = x.ops,
                          z.queue = Append(x.queue, "disconnect"), MayPost(x), Skeleton(x)
                   PROVE  /\ Queued(z) = Queued(x) \union {"disconnect"}
                          /\ Watched(z) /\ MayPost(z) /\ Skeleton(z)
<1>1. x.queue \in Seq(Handlers) /\ "disconnect" \in Handlers
  BY DEF Clients, Handlers
<1>2. /\ Queued(z) = Queued(x) \union {"disconnect"}
      /\ \A h : After(z.queue, h) = After(x.queue, h) \union (IF h \in Queued(x) THEN {"disconnect"} ELSE {})
  BY <1>1, Posting DEF Queued
<1>3. Watched(z) /\ MayPost(z)
  BY <1>2 DEF Watched, MayPost, SameFlags
<1> USE DEF SameFlags, MayPost, Skeleton
<1>4. Naming(z)
  BY <1>2 DEF Naming
<1>5. Connecting(z)
  BY <1>2 DEF Connecting
<1>6. Linked(z) /\ Shutting(z) /\ Told(z) /\ Resting(z)
  BY <1>2 DEF Linked, Shutting, Told, Resting, Dialing
<1>7. Operations(z)
  BY <1>2 DEF Operations
<1>8. OneLife(z)
  BY <1>2 DEF OneLife, Dialing
<1>9. LastReport(z)
  BY <1>2 DEF LastReport
<1> QED BY <1>2, <1>3, <1>4, <1>5, <1>6, <1>7, <1>8, <1>9

(* Taking a handler from the queue that no phase waits for.                *)
LEMMA RestIs == ASSUME c \in Clients, NEW h, Runs(h)
                PROVE  /\ Rest \in Clients /\ ~c.crashed /\ h \in Handlers
                       /\ Rest = [c EXCEPT !.queue = Tail(c.queue)]
                       /\ SameFlags(c, Rest) /\ Rest.ops = c.ops
                       /\ Rest.queue = Tail(c.queue) /\ c.queue # <<>>
                       /\ Queued(c) = {h} \union Queued(Rest)
                       /\ After(c.queue, h) = Queued(Rest) /\ After(Rest.queue, h) \subseteq Queued(Rest)
                       /\ \A k : /\ After(Rest.queue, k) \subseteq After(c.queue, k)
                                 /\ k # h => After(Rest.queue, k) = After(c.queue, k)
<1>1. c.queue \in Seq(Handlers) /\ c.queue # <<>> /\ Head(c.queue) = h /\ ~c.crashed
  BY DEF Clients, Runs
<1>2. Tail(c.queue) \in Seq(Handlers)
  BY <1>1, Popping
<1>3. Rest = [c EXCEPT !.queue = Tail(c.queue)]
  BY DEF Rest
<1>4. Rest \in Clients /\ SameFlags(c, Rest) /\ Rest.ops = c.ops /\ Rest.queue = Tail(c.queue)
  BY <1>2, <1>3, ZenonT(60) DEF Clients, SameFlags
<1>5. /\ Queued(c) = {h} \union Queued(Rest) /\ h \in Handlers
      /\ After(c.queue, h) = Queued(Rest) /\ After(Rest.queue, h) \subseteq Queued(Rest)
      /\ \A k : /\ After(Rest.queue, k) \subseteq After(c.queue, k)
                /\ k # h => After(Rest.queue, k) = After(c.queue, k)
  BY <1>1, <1>4, Popping DEF Queued
<1> QED BY Zenon, <1>1, <1>3, <1>4, <1>5

(* The handlers of a conversation.                                         *)
Talking == {"recv", "recvErr", "sent", "sendErr", "sendShut", "fake"}

(* The skeleton holds without the handler of a conversation that begins to *)
(* run.                                                                    *)
LEMMA RestKeeps == ASSUME c \in Clients, Skeleton(c), NEW h \in Talking \union {"tick"}, Runs(h)
                   PROVE  Skeleton(Rest) /\ (h # "tick" => MayPost(Rest))
<1> DEFINE x == Rest
<1>1. /\ SameFlags(c, x) /\ x.ops = c.ops /\ Queued(c) = {h} \union Queued(x)
      /\ After(c.queue, h) = Queued(x)
      /\ \A k : /\ After(x.queue, k) \subseteq After(c.queue, k)
                /\ k # h => After(x.queue, k) = After(c.queue, k)
  BY RestIs
<1> HIDE DEF x
<1> USE DEF SameFlags, Skeleton, Talking
<1>4. Naming(x)
  BY <1>1 DEF Naming
<1>5. Connecting(x)
  BY <1>1 DEF Connecting
<1>6. Linked(x) /\ Shutting(x) /\ Told(x) /\ Resting(x)
  BY <1>1 DEF Linked, Shutting, Told, Resting, Dialing
<1>7. Operations(x)
  BY <1>1 DEF Operations
<1>8. OneLife(x)
  BY <1>1 DEF OneLife, Dialing
<1>9. LastReport(x)
  BY <1>1 DEF LastReport
<1>10. h # "tick" => MayPost(x)
  BY <1>1 DEF MayPost, Naming, OneLife, LastReport, Dialing
<1> QED BY <1>4, <1>5, <1>6, <1>7, <1>8, <1>9, <1>10 DEF x

(* What the helpers of the handlers leave alone.                           *)
SameLogin(x, z) == /\ z.mode = x.mode /\ z.confirmed = x.confirmed /\ z.unrecoverable = x.unrecoverable
                   /\ z.session = x.session /\ z.m_authpending = x.m_authpending
                   /\ z.crashed = x.crashed

(* z has learned nothing of the pool that x does not know, and waits for   *)
(* the same answers.                                                       *)
SameMind(x, z) == SameLogin(x, z) /\ z.asked = x.asked

(* What is known of the pool is kept by a step that changes neither it nor *)
(* what is read.                                                           *)
LEMMA KnowledgeKeeps == ASSUME NEW x, NEW z, SameFlags(x, z), SameMind(x, z), Knowledge(x),
                               "read" \in z.ops \/ "recv" \in Queued(z) => z.mode \in Modes,
                               "fake" \in Queued(z) => "fake" \in Queued(x) \/ Version = Unset
                        PROVE  Knowledge(z)
BY DEF SameFlags, SameLogin, SameMind, Knowledge

(* The three functions that keep the pleas change nothing else.            *)
LEMMA Pleading == ASSUME NEW x \in Clients, NEW z \in {enqueue_response_plea(x), dequeue_response_plea(x),
                                                       clear_response_pleas(x)}
                  PROVE  z \in Clients /\ SameFlags(x, z) /\ SameMind(x, z) /\ z.ops = x.ops /\ z.queue = x.queue
<1>1. ASSUME NEW p \in Nat, NEW a \in 0..2
      PROVE  [x EXCEPT !.pleas = p, !.age = a] \in Clients /\ [x EXCEPT !.pleas = p] \in Clients
  BY ZenonT(60) DEF Clients
<1>2. ASSUME NEW p, NEW a, z = [x EXCEPT !.pleas = p, !.age = a] \/ z = [x EXCEPT !.pleas = p]
      PROVE  SameFlags(x, z) /\ SameMind(x, z) /\ z.ops = x.ops /\ z.queue = x.queue
  BY ZenonT(60), <1>2 DEF Clients, SameFlags, SameLogin, SameMind
<1>3. x.pleas \in Nat /\ x.age \in 0..2 /\ 0 \in 0..2
  BY DEF Clients
<1>4. CASE z = enqueue_response_plea(x)
  <2> DEFINE p == x.pleas + 1
             a == IF x.pleas = 0 THEN 0 ELSE x.age
  <2>1. p \in Nat /\ a \in 0..2
    BY <1>3
  <2>2. z = [x EXCEPT !.pleas = p, !.age = a]
    BY <1>4 DEF enqueue_response_plea
  <2> HIDE DEF p, a
  <2> QED BY Zenon, <1>1, <1>2, <2>1, <2>2
<1>5. CASE z = dequeue_response_plea(x)
  <2> DEFINE p == IF x.pleas > 0 THEN x.pleas - 1 ELSE 0
  <2>1. p \in Nat
    BY <1>3
  <2>2. z = [x EXCEPT !.pleas = p]
    BY <1>5 DEF dequeue_response_plea
  <2> HIDE DEF p
  <2> QED BY Zenon, <1>1, <1>2, <1>3, <2>1, <2>2
<1>6. CASE z = clear_response_pleas(x)
  <2>1. z = [x EXCEPT !.pleas = 0, !.age = 0]
    BY <1>6 DEF clear_response_pleas
  <2> QED BY Zenon, <1>1, <1>2, <1>3, <2>1
<1> QED BY <1>4, <1>5, <1>6

(* send and sendSocketData start a write on a linked socket at most.       *)
LEMMA Sending == ASSUME NEW x \in Clients, NEW z \in {send(x), sendSocketData(x)}
                 PROVE  /\ z \in Clients /\ SameFlags(x, z) /\ SameMind(x, z) /\ z.queue = x.queue
                        /\ \/ z.ops = x.ops
                           \/ x.m_connected /\ z.ops = x.ops \union {"write"}
<1>1. ASSUME NEW y \in Clients, NEW w, w = sendSocketData(y)
      PROVE  /\ w \in Clients /\ SameFlags(y, w) /\ SameMind(y, w) /\ w.queue = y.queue
             /\ w.ops = y.ops \/ (y.m_connected /\ w.ops = y.ops \union {"write"})
  <2>1. CASE isConnected(y) /\ y.more
    <3>1. w = [y EXCEPT !.more = FALSE, !.ops = y.ops \union {"write"}]
      BY <1>1, <2>1 DEF sendSocketData
    <3>2. y.ops \union {"write"} \in SUBSET {"resolve", "connect", "read", "write", "shutdown"}
      BY DEF Clients
    <3>3. [y EXCEPT !.more = FALSE, !.ops = y.ops \union {"write"}] \in Clients
      BY <3>2, ZenonT(60) DEF Clients
    <3>4. w \in Clients
      BY <3>1, <3>3
    <3>5. SameFlags(y, w) /\ SameMind(y, w) /\ w.queue = y.queue /\ w.ops = y.ops \union {"write"}
      BY <3>1 DEF Clients, SameFlags, SameLogin, SameMind
    <3> QED BY <2>1, <3>4, <3>5 DEF isConnected
  <2>2. CASE ~(isConnected(y) /\ y.more)
    <3>1. w = [y EXCEPT !.more = FALSE, !.m_txPending = FALSE]
      BY <1>1, <2>2 DEF sendSocketData
    <3>2. [y EXCEPT !.more = FALSE, !.m_txPending = FALSE] \in Clients
      BY ZenonT(60) DEF Clients
    <3>3. w \in Clients
      BY <3>1, <3>2
    <3>4. SameFlags(y, w) /\ SameMind(y, w) /\ w.queue = y.queue /\ w.ops = y.ops
      BY <3>1 DEF Clients, SameFlags, SameLogin, SameMind
    <3> QED BY <3>3, <3>4
  <2> QED BY <2>1, <2>2
<1>2. CASE z = sendSocketData(x)
  BY <1>1, <1>2
<1>3. CASE z = send(x) /\ x.m_txPending
  <2>1. z = [x EXCEPT !.more = TRUE]
    BY <1>3 DEF send
  <2>2. [x EXCEPT !.more = TRUE] \in Clients
    BY Zenon DEF Clients
  <2>3. z \in Clients
    BY <2>1, <2>2
  <2>4. SameFlags(x, z) /\ SameMind(x, z) /\ z.queue = x.queue /\ z.ops = x.ops
    BY <2>1 DEF Clients, SameFlags, SameLogin, SameMind
  <2> QED BY <2>3, <2>4
<1>4. CASE z = send(x) /\ ~x.m_txPending
  <2> DEFINE y == [x EXCEPT !.more = TRUE, !.m_txPending = TRUE]
  <2>1. z = sendSocketData(y)
    BY <1>4 DEF send
  <2>2. y \in Clients
    BY Zenon DEF Clients
  <2>3. SameFlags(x, y) /\ SameMind(x, y) /\ y.queue = x.queue /\ y.ops = x.ops
    BY DEF Clients, SameFlags, SameLogin, SameMind
  <2> HIDE DEF y
  <2>4. z \in Clients /\ SameFlags(y, z) /\ SameMind(y, z) /\ z.queue = y.queue
        /\ (z.ops = y.ops \/ (y.m_connected /\ z.ops = y.ops \union {"write"}))
    BY <1>1, <2>1, <2>2
  <2> QED BY <2>3, <2>4 DEF SameFlags, SameLogin, SameMind
<1> QED BY <1>2, <1>3, <1>4

(* Reading and writing on a link disturb nothing.                          *)
LEMMA TalkKeeps == ASSUME NEW x, NEW z, SameFlags(x, z), z.queue = x.queue, Skeleton(x),
                          z.ops \in {x.ops, x.ops \union {"read"}, x.ops \union {"write"}},
                          x.m_connected \/ z.ops = x.ops
                   PROVE  /\ Skeleton(z) /\ Queued(z) = Queued(x) /\ (MayPost(x) => MayPost(z))
                          /\ Watched(x) => Watched(z)
<1>1. Queued(z) = Queued(x)
  BY DEF Queued
<1>2. CASE z.ops = x.ops
  BY <1>1, <1>2, FrameKeeps
<1>3. CASE x.m_connected
  <2>1. /\ Naming(z) /\ Connecting(z) /\ Linked(z) /\ Shutting(z) /\ Told(z) /\ Resting(z)
        /\ Operations(z) /\ OneLife(z)
    BY <1>1, <1>3 DEF SameFlags, Skeleton, Naming, Connecting, Linked, Shutting, Told, Resting, Operations, OneLife
  <2>2. LastReport(z)
    BY <1>1, <1>3 DEF SameFlags, Skeleton, LastReport
  <2>3. (MayPost(x) => MayPost(z)) /\ (Watched(x) => Watched(z))
    BY <1>1 DEF SameFlags, MayPost, Watched
  <2> QED BY <1>1, <2>1, <2>2, <2>3 DEF Skeleton
<1> QED BY <1>2, <1>3

(* Messages of the pool.                                                   *)

(* A client that a message is processed for.                               *)
Talks(x) == x \in Clients /\ Skeleton(x) /\ MayPost(x) /\ Knowledge(x)

(* What the client asks a pool.                                            *)
Requests == {"login", "sub", "auth", "work", "share"}

(* A request that is sent awaits its answer and starts a write at most.    *)
LEMMA Asking == ASSUME NEW x \in Clients, NEW a \in Requests, NEW z \in {Asks(x, a), AsksAwaited(x, a)}
                PROVE  /\ z \in Clients /\ SameFlags(x, z) /\ SameLogin(x, z) /\ z.queue = x.queue
                       /\ z.asked = x.asked \union {a}
                       /\ z.ops = x.ops \/ (x.m_connected /\ z.ops = x.ops \union {"write"})
<1>1. ASSUME NEW y \in Clients, NEW w, w = Asks(y, a)
      PROVE  /\ w \in Clients /\ SameFlags(y, w) /\ SameLogin(y, w) /\ w.queue = y.queue
             /\ w.asked = y.asked \union {a}
             /\ w.ops = y.ops \/ (y.m_connected /\ w.ops = y.ops \union {"write"})
  <2> DEFINE u == [y EXCEPT !.asked = y.asked \union {a}]
  <2>1. w = send(u)
    BY <1>1 DEF Asks
  <2>2. y.asked \union {a} \in SUBSET {"login", "sub", "auth", "work", "share"}
    BY DEF Clients, Requests
  <2>3. u \in Clients
    BY <2>2, Zenon DEF Clients
  <2>4. SameFlags(y, u) /\ SameLogin(y, u) /\ u.queue = y.queue /\ u.ops = y.ops /\ u.asked = y.asked \union {a}
    BY DEF Clients, SameFlags, SameLogin
  <2> HIDE DEF u
  <2>5. w \in Clients /\ SameFlags(u, w) /\ SameMind(u, w) /\ w.queue = u.queue
        /\ (w.ops = u.ops \/ (u.m_connected /\ w.ops = u.ops \union {"write"}))
    BY Zenon, <2>1, <2>3, Sending
  <2> QED BY <2>4, <2>5 DEF SameFlags, SameLogin, SameMind
<1>2. CASE z = Asks(x, a)
  BY <1>1, <1>2
<1>3. CASE z = AsksAwaited(x, a)
  <2> DEFINE y == enqueue_response_plea(x)
  <2>1. z = Asks(y, a)
    BY <1>3 DEF AsksAwaited
  <2>2. y \in Clients /\ SameFlags(x, y) /\ SameMind(x, y) /\ y.ops = x.ops /\ y.queue = x.queue
    BY Pleading
  <2> HIDE DEF y
  <2>3. /\ z \in Clients /\ SameFlags(y, z) /\ SameLogin(y, z) /\ z.queue = y.queue
        /\ z.asked = y.asked \union {a}
        /\ z.ops = y.ops \/ (y.m_connected /\ z.ops = y.ops \union {"write"})
    BY <1>1, <2>1, <2>2
  <2> QED BY <2>2, <2>3 DEF SameFlags, SameLogin, SameMind
<1> QED BY <1>2, <1>3

(* What posting a handler changes.                                         *)
LEMMA Posts == ASSUME NEW x \in Clients, NEW h \in Handlers
               PROVE  LET z == Post(x, h)
                      IN  /\ z \in Clients /\ SameFlags(x, z) /\ SameMind(x, z) /\ z.ops = x.ops
                          /\ z.queue = Append(x.queue, h) /\ Queued(z) = Queued(x) \union {h}
                          /\ \A k : After(z.queue, k) = After(x.queue, k) \union (IF k \in Queued(x) THEN {h} ELSE {})
<1> DEFINE z == [x EXCEPT !.queue = Append(x.queue, h)]
<1>1. x.queue \in Seq(Handlers)
  BY DEF Clients
<1>2. /\ Append(x.queue, h) \in Seq(Handlers) /\ Range(Append(x.queue, h)) = Range(x.queue) \union {h}
      /\ \A k : After(Append(x.queue, h), k) = After(x.queue, k) \union (IF k \in Range(x.queue) THEN {h} ELSE {})
  BY <1>1, Posting
<1>3. z \in Clients
  BY <1>2, Zenon DEF Clients
<1>4. SameFlags(x, z) /\ SameMind(x, z) /\ z.ops = x.ops /\ z.queue = Append(x.queue, h)
  BY DEF Clients, SameFlags, SameMind, SameLogin
<1>5. Post(x, h) = z
  BY DEF Post
<1> HIDE DEF z
<1> QED BY Zenon, <1>2, <1>3, <1>4, <1>5 DEF Queued

(* A conversation that posts disconnect is still one, and is watched.      *)
LEMMA TalksOut == ASSUME NEW x, Talks(x)
                  PROVE  LET z == Post(x, "disconnect")
                         IN  Talks(z) /\ SameFlags(x, z) /\ SameMind(x, z) /\ Watched(z)
<1> DEFINE z == Post(x, "disconnect")
<1>1. "disconnect" \in Handlers /\ x \in Clients
  BY DEF Handlers, Talks
<1>2. /\ z \in Clients /\ SameFlags(x, z) /\ SameMind(x, z) /\ z.ops = x.ops
      /\ z.queue = Append(x.queue, "disconnect") /\ Queued(z) = Queued(x) \union {"disconnect"}
  BY <1>1, Posts
<1> HIDE DEF z
<1>3. Watched(z) /\ MayPost(z) /\ Skeleton(z)
  BY <1>1, <1>2, PostKeeps DEF Talks
<1>4. Knowledge(z)
  <2>1. "read" \in z.ops \/ "recv" \in Queued(z) => z.mode \in Modes
    BY <1>2 DEF Talks, Knowledge, SameMind, SameLogin
  <2> QED BY <1>2, <2>1, KnowledgeKeeps DEF Talks
<1> QED BY <1>2, <1>3, <1>4 DEF Talks, z

(* What the pool manager sees of the login.                                *)
SameView(x, z) == /\ z.confirmed = x.confirmed /\ z.unrecoverable = x.unrecoverable
                  /\ z.session.on = x.session.on

(* A crash changes nothing that is seen of the client.                     *)
LEMMA CrashMoves == ASSUME NEW x \in Clients
                    PROVE  LET z == Crash(x)
                           IN  /\ z \in Clients /\ z.crashed /\ SameFlags(x, z) /\ z.mode = x.mode /\ SameView(x, z)
                               /\ z.session = x.session
<1> DEFINE z == [x EXCEPT !.crashed = TRUE]
<1>1. z \in Clients
  BY Zenon DEF Clients
<1>2. /\ z.crashed /\ SameFlags(x, z) /\ z.mode = x.mode /\ SameView(x, z)
      /\ z.session = x.session
  BY DEF Clients, SameFlags, SameView
<1>3. Crash(x) = z
  BY DEF Crash
<1> HIDE DEF z
<1> QED BY <1>1, <1>2, <1>3

(* Where the pool has answered a login there is a session, and a client    *)
(* that TLS protects from late messages finds it.                          *)
Harmless == TLS /\ (~EarlyNotify \/ Version \notin {2, 3})

(* The handlers of a link.                                                 *)

(* What every step preserves.                                              *)
Goes(x, z) == /\ z \in Clients /\ (z.crashed \/ Good(z)) /\ (Harmless => ~z.crashed)

(* Starting a handler changes nothing of what is known of the pool.        *)
LEMMA RestKnows == ASSUME c \in Clients, Good(c), NEW h, Runs(h)
                   PROVE  Knowledge(Rest) /\ SameMind(c, Rest)
<1> DEFINE x == Rest
<1>1. /\ SameFlags(c, x) /\ x.ops = c.ops /\ Queued(c) = {h} \union Queued(x)
      /\ x = [c EXCEPT !.queue = Tail(c.queue)]
  BY RestIs
<1> HIDE DEF x
<1>2. SameMind(c, x)
  BY <1>1 DEF Clients, SameMind, SameLogin
<1>3. "read" \in x.ops \/ "recv" \in Queued(x) => x.mode \in Modes
  BY <1>1, <1>2 DEF Good, Knowledge, SameMind, SameLogin
<1>4. Knowledge(x)
  BY Zenon, <1>1, <1>2, <1>3, KnowledgeKeeps DEF Good
<1> QED BY <1>2, <1>4 DEF x

(* recvSocketData is called again: the link is read.                       *)
LEMMA Reading == ASSUME NEW x, Talks(x), ~x.crashed, x.mode \in Modes
                 PROVE  LET z == KeepsReading(x)
                        IN  /\ Talks(z) /\ Watched(z) /\ ~z.crashed /\ SameFlags(x, z) /\ SameMind(x, z)
<1> DEFINE z == KeepsReading(x)
<1>1. CASE isConnected(x)
  <2>1. z = [x EXCEPT !.ops = x.ops \union {"read"}]
    BY <1>1 DEF KeepsReading, recvSocketData
  <2>2. x.ops \union {"read"} \in SUBSET {"resolve", "connect", "read", "write", "shutdown"} /\ x \in Clients
    BY DEF Talks, Clients
  <2>3. [x EXCEPT !.ops = x.ops \union {"read"}] \in Clients
    BY <2>2, Zenon DEF Clients
  <2>4. z \in Clients
    BY <2>1, <2>3
  <2> HIDE DEF z
  <2>5. /\ SameFlags(x, z) /\ SameMind(x, z) /\ z.queue = x.queue /\ z.ops = x.ops \union {"read"} /\ z.crashed = x.crashed
    BY <2>1, <2>2 DEF Clients, SameFlags, SameMind, SameLogin
  <2>6. Skeleton(z) /\ MayPost(z) /\ Queued(z) = Queued(x)
    BY <1>1, <2>5, TalkKeeps DEF Talks, isConnected
  <2>7. Knowledge(z)
    BY <2>5, <2>6, KnowledgeKeeps DEF Talks, SameMind, SameLogin
  <2> QED BY <2>4, <2>5, <2>6, <2>7 DEF Talks, Watched, z
<1>2. CASE ~isConnected(x)
  <2>1. z = x
    BY <1>2 DEF KeepsReading
  <2>2. ~x.m_connected
    BY <1>2 DEF isConnected, isPendingState, Talks, Skeleton, Linked
  <2> QED BY <2>1, <2>2 DEF Watched, SameFlags, SameMind, SameLogin
<1> QED BY <1>1, <1>2

(* Two steps that change nothing of this are one.                          *)
LEMMA SamesCompose == ASSUME NEW x, NEW y, NEW z, SameFlags(x, y), SameMind(x, y), SameFlags(y, z), SameMind(y, z)
                      PROVE  SameFlags(x, z) /\ SameMind(x, z)
BY DEF SameFlags, SameMind, SameLogin

(* What others do: the pool manager, the clock, the operating system.      *)

(* The pool manager sees no change.                                        *)
SamePhase(x, z) == /\ z.told = x.told
                   /\ x.told \/ (z.m_disconnecting = x.m_disconnecting /\ z.m_connected = x.m_connected)
                   /\ z.responds = x.responds /\ z.mode = x.mode /\ SameView(x, z)

(* A step that only writes to a link, and asks no more than for a share,   *)
(* keeps the invariant.                                                    *)
LEMMA LinkGoes == ASSUME c \in Clients, Good(c), ~c.crashed, c' \in Clients, SameFlags(c, c'), SameLogin(c, c'),
                         c'.queue = c.queue, c'.ops = c.ops \/ (c.m_connected /\ c'.ops = c.ops \union {"write"}),
                         c'.asked \subseteq c.asked \union {"share"}
                  PROVE  Goes(c, c') /\ SamePhase(c, c')
<1>1. Skeleton(c') /\ Queued(c') = Queued(c) /\ Watched(c')
  BY TalkKeeps DEF Good
<1>2. "read" \in c'.ops \/ "recv" \in Queued(c') => c'.mode \in Modes
  BY <1>1 DEF Good, Knowledge, SameLogin
<1>3. Knowledge(c')
  BY <1>1, <1>2 DEF Good, Knowledge, SameLogin, SameFlags
<1> QED BY <1>1, <1>3 DEF Goes, Good, SameLogin, SameFlags, SamePhase, SameView

(* submitSolution and submitHashrate keep the invariant.                   *)
LEMMA ManagerStep == ASSUME c \in Clients, Good(c), submitSolution \/ submitHashrate
                     PROVE  Goes(c, c') /\ SamePhase(c, c')
<1>1. CASE submitSolution
  <2>1. c' = AsksAwaited(c, "share") /\ "share" \in Requests /\ ~c.crashed
    BY <1>1 DEF submitSolution, InSession, Requests
  <2>2. /\ c' \in Clients /\ SameFlags(c, c') /\ SameLogin(c, c') /\ c'.queue = c.queue
        /\ c'.asked = c.asked \union {"share"}
        /\ c'.ops = c.ops \/ (c.m_connected /\ c'.ops = c.ops \union {"write"})
    BY <2>1, Asking
  <2> QED BY <2>1, <2>2, LinkGoes
<1>2. CASE submitHashrate
  <2>1. c' = send(c) /\ ~c.crashed
    BY <1>2 DEF submitHashrate, InSession
  <2>2. /\ c' \in Clients /\ SameFlags(c, c') /\ SameMind(c, c') /\ c'.queue = c.queue
        /\ c'.ops = c.ops \/ (c.m_connected /\ c'.ops = c.ops \union {"write"})
    BY Zenon, <2>1, Sending
  <2> QED BY <2>1, <2>2, LinkGoes DEF SameMind
<1> QED BY <1>1, <1>2

(* The passing of a timeout, which the next tick sees, keeps the           *)
(* invariant.                                                              *)
LEMMA ClockStep == ASSUME c \in Clients, Good(c), ResponseIsLate \/ WorkIsLate
                   PROVE  Goes(c, c') /\ SamePhase(c, c')
<1>1. ~c.crashed /\ (c' = [c EXCEPT !.age = 2] \/ c' = [c EXCEPT !.stale = TRUE])
  BY DEF ResponseIsLate, WorkIsLate
<1>2. [c EXCEPT !.age = 2] \in Clients /\ [c EXCEPT !.stale = TRUE] \in Clients
  <2>1. 2 \in 0..2
    OBVIOUS
  <2> QED BY <2>1, ZenonT(60) DEF Clients
<1>3. c' \in Clients
  BY Zenon, <1>1, <1>2
<1>4. SameFlags(c, c') /\ SameMind(c, c') /\ c'.queue = c.queue /\ c'.ops = c.ops
  <2>1. CASE c' = [c EXCEPT !.age = 2]
    BY <2>1 DEF Clients, SameFlags, SameMind, SameLogin
  <2>2. CASE c' = [c EXCEPT !.stale = TRUE]
    BY <2>2 DEF Clients, SameFlags, SameMind, SameLogin
  <2> QED BY <1>1, <2>1, <2>2
<1> QED BY <1>1, <1>3, <1>4, LinkGoes DEF SameMind

(* The expiry of the work loop timer keeps the invariant: its handler is   *)
(* queued once.                                                            *)
LEMMA TimerStep == ASSUME c \in Clients, Good(c), TimerExpires
                   PROVE  Goes(c, c') /\ SamePhase(c, c')
<1> DEFINE a == IF c.age = 0 /\ c.pleas > 0 THEN 1 ELSE c.age
           y == [c EXCEPT !.armed = FALSE, !.age = a]
<1>1. c' = Post(y, "tick") /\ ~c.crashed /\ c.armed /\ "tick" \in Handlers
  BY DEF TimerExpires, Handlers
<1>2. a \in 0..2
  BY DEF Clients
<1> HIDE DEF a
<1>3. y \in Clients
  BY <1>2, Zenon DEF Clients
<1>4. /\ SameMind(c, y) /\ y.queue = c.queue /\ y.ops = c.ops /\ ~y.armed
      /\ y.m_connecting = c.m_connecting /\ y.m_disconnecting = c.m_disconnecting
      /\ y.m_connected = c.m_connected /\ y.m_socket = c.m_socket
      /\ y.m_endpoints = c.m_endpoints
      /\ y.told = c.told /\ y.responds = c.responds
  BY DEF Clients, SameMind, SameLogin
<1> HIDE DEF y
<1> DEFINE z == c'
<1>5. /\ z \in Clients /\ SameFlags(y, z) /\ SameMind(y, z) /\ z.ops = y.ops
      /\ Queued(z) = Queued(y) \union {"tick"}
      /\ \A k : After(z.queue, k) = After(y.queue, k) \union (IF k \in Queued(y) THEN {"tick"} ELSE {})
  BY ZenonT(60), <1>1, <1>3, Posts
<1>6. Queued(y) = Queued(c)
  BY <1>4 DEF Queued
<1>7. /\ SameMind(c, z) /\ z.ops = c.ops /\ ~z.armed
      /\ z.m_connecting = c.m_connecting /\ z.m_disconnecting = c.m_disconnecting
      /\ z.m_connected = c.m_connected /\ z.m_socket = c.m_socket
      /\ z.m_endpoints = c.m_endpoints
      /\ z.told = c.told /\ z.responds = c.responds
      /\ Queued(z) = Queued(c) \union {"tick"}
      /\ \A k : After(z.queue, k) = After(c.queue, k) \union (IF k \in Queued(c) THEN {"tick"} ELSE {})
  BY <1>4, <1>5, <1>6 DEF SameFlags, SameMind, SameLogin
<1>8. z \in Clients
  BY <1>5
<1> HIDE DEF z
<1> USE DEF Good, Skeleton
<1>9. Naming(z) /\ Connecting(z)
  BY <1>7 DEF Naming, Connecting
<1>10. Linked(z) /\ Shutting(z) /\ Told(z) /\ Resting(z)
  BY <1>7 DEF Linked, Shutting, Told, Resting, Dialing
<1>11. "tick" \notin Queued(c)
  BY <1>1 DEF Operations
<1>12. "tick" \notin After(c.queue, "tick")
  BY <1>11 DEF After, Queued, Range
<1>13. Operations(z)
  BY <1>7, <1>11, <1>12 DEF Operations
<1>14. OneLife(z)
  BY <1>7 DEF OneLife, Dialing
<1>15. LastReport(z)
  BY <1>7 DEF LastReport
<1>16. Watched(z)
  BY <1>7 DEF Watched
<1>17. Knowledge(z)
  BY <1>7 DEF Knowledge, SameMind, SameLogin
<1>18. ~z.crashed /\ SamePhase(c, z)
  BY <1>1, <1>7 DEF SameMind, SameLogin, SamePhase, SameView
<1> QED BY <1>8, <1>9, <1>10, <1>13, <1>14, <1>15, <1>16, <1>17, <1>18 DEF Goes, z

(* A handler that does not wait is behind none, and none is behind it.     *)
LEMMA AbsentAfter == ASSUME NEW x \in Clients, NEW h, h \notin Queued(x)
                     PROVE  (\A k : h \notin After(x.queue, k)) /\ After(x.queue, h) = {}
<1>1. x.queue \in Seq(Handlers)
  BY DEF Clients
<1> QED BY <1>1, Range(x.queue) = {x.queue[i] : i \in 1..Len(x.queue)} DEF After, Queued, Range

(* The completion of an operation, with success or with an error, keeps    *)
(* the invariant.                                                          *)
LEMMA CompletesStep == ASSUME c \in Clients, Good(c), NEW op \in DOMAIN Completions, Completes(op)
                       PROVE  Goes(c, c') /\ SamePhase(c, c')
<1>1. PICK h \in Completions[op] : c' = Post([c EXCEPT !.ops = c.ops \ {op}], h)
  BY DEF Completes
<1>2. ~c.crashed /\ op \in c.ops
  BY DEF Completes
<1>3. \/ op = "resolve" /\ h \in {"resolved", "unresolved"}
      \/ op = "connect" /\ h \in {"connected", "refused"}
      \/ op = "read" /\ h \in {"recv", "recvErr"}
      \/ op = "shutdown" /\ h = "shutdown"
      \/ op = "write" /\ h \in {"sent", "sendErr", "sendShut"}
  BY DEF Completions
<1>4. h \in Handlers
  BY <1>3 DEF Handlers
<1> DEFINE y == [c EXCEPT !.ops = c.ops \ {op}]
           z == c'
<1>5. c.ops \ {op} \in SUBSET {"resolve", "connect", "read", "write", "shutdown"}
  BY DEF Clients
<1>6. y \in Clients
  BY <1>5, Zenon DEF Clients
<1>7. SameFlags(c, y) /\ SameMind(c, y) /\ y.queue = c.queue /\ y.ops = c.ops \ {op}
  BY DEF Clients, SameFlags, SameMind, SameLogin
<1> HIDE DEF y
<1>8. /\ z \in Clients /\ SameFlags(y, z) /\ SameMind(y, z) /\ z.ops = y.ops
      /\ Queued(z) = Queued(y) \union {h}
      /\ \A k : After(z.queue, k) = After(y.queue, k) \union (IF k \in Queued(y) THEN {h} ELSE {})
  BY ZenonT(60), <1>1, <1>4, <1>6, Posts DEF y
<1> HIDE DEF z
<1>9. Queued(y) = Queued(c)
  BY <1>7 DEF Queued
<1>10. /\ SameFlags(c, z) /\ SameMind(c, z) /\ z.ops = c.ops \ {op}
       /\ Queued(z) = Queued(c) \union {h}
       /\ \A k : After(z.queue, k) = After(c.queue, k) \union (IF k \in Queued(c) THEN {h} ELSE {})
  BY <1>7, <1>8, <1>9 DEF SameFlags, SameMind, SameLogin
<1>11. ASSUME NEW k, k \notin Queued(c) PROVE (\A i : k \notin After(c.queue, i)) /\ After(c.queue, k) = {}
  BY <1>11, AbsentAfter
<1> USE DEF Good, Skeleton, SameFlags
<1>12. ASSUME op = "resolve" PROVE Skeleton(z) /\ Watched(z)
  <2>1. h \in {"resolved", "unresolved"}
    BY <1>3, <1>12
  <2>2. Naming(z)
    BY <1>2, <1>10, <1>11, <1>12, <2>1 DEF Naming
  <2>3. Connecting(z) /\ Linked(z) /\ Shutting(z) /\ Told(z) /\ Resting(z)
    BY <1>2, <1>10, <1>12, <2>1 DEF Naming, Connecting, Linked, Shutting, Told, Resting
  <2>4. Operations(z)
    BY <1>2, <1>10, <1>11, <1>12, <2>1 DEF Naming, Operations
  <2>5. OneLife(z)
    <3>1. c.ops = {"resolve"} /\ \A k \in Dialing : k \notin Queued(c)
      BY <1>2, <1>12 DEF Naming, Dialing
    <3> QED BY <1>2, <1>10, <1>11, <1>12, <2>1, <3>1 DEF OneLife, Dialing
  <2>6. LastReport(z)
    BY <1>2, <1>10, <1>11, <1>12, <2>1 DEF Naming, LastReport
  <2>7. Watched(z)
    BY <1>2, <1>10, <1>12 DEF Naming, Watched
  <2> QED BY <2>2, <2>3, <2>4, <2>5, <2>6, <2>7
<1>13. ASSUME op = "connect" PROVE Skeleton(z) /\ Watched(z)
  <2>1. h \in {"connected", "refused"}
    BY <1>3, <1>13
  <2>2. Naming(z)
    BY <1>2, <1>10, <1>13, <2>1 DEF Naming, Operations
  <2>3. Connecting(z)
    BY <1>2, <1>10, <1>11, <1>13, <2>1 DEF Connecting, Operations
  <2>4. Linked(z) /\ Shutting(z) /\ Told(z) /\ Resting(z)
    BY <1>2, <1>10, <1>13, <2>1 DEF Linked, Shutting, Told, Resting, Connecting, Operations
  <2>5. Operations(z)
    BY <1>2, <1>10, <1>13, <2>1 DEF Operations
  <2>6. OneLife(z)
    <3>1. c.m_connecting /\ c.ops \subseteq {"connect"}
      BY <1>2, <1>13 DEF Operations, Connecting, Naming, Clients
    <3>2. Clean => \A k \in Dialing : k \notin Queued(c)
      BY <1>2, <1>13, <3>1 DEF OneLife, Connecting, Told
    <3> QED BY <1>10, <1>11, <1>13, <2>1, <3>1, <3>2 DEF OneLife, Dialing, Connecting, Told
  <2>7. LastReport(z)
    BY <1>2, <1>10, <1>11, <1>13, <2>1 DEF LastReport, Operations, Connecting, OneLife, Clean
  <2>8. Watched(z)
    BY <1>2, <1>10, <1>13 DEF Connecting, Operations, Watched
  <2> QED BY <2>2, <2>3, <2>4, <2>5, <2>6, <2>7, <2>8
<1>14. ASSUME op = "read" \/ op = "write" PROVE Skeleton(z) /\ Watched(z)
  <2>1. h \in {"recv", "recvErr", "sent", "sendErr", "sendShut"} /\ (op = "read" => h \in {"recv", "recvErr"})
    BY <1>3, <1>14
  <2>2. c.m_connected
    BY <1>2, <1>14 DEF Operations
  <2>3. Naming(z) /\ Connecting(z) /\ Linked(z) /\ Shutting(z) /\ Told(z) /\ Resting(z)
    BY <1>10, <2>1, <2>2 DEF Naming, Connecting, Linked, Shutting, Told, Resting, Dialing
  <2>4. Operations(z)
    BY <1>10, <2>1, <2>2 DEF Operations
  <2>5. OneLife(z)
    BY <1>10, <2>2 DEF OneLife, Linked
  <2>6. LastReport(z)
    BY <1>10, <1>11, <2>1, <2>2 DEF LastReport, Linked, Operations
  <2>7. Watched(z)
    BY <1>2, <1>10, <1>14, <2>1 DEF Watched
  <2> QED BY <2>3, <2>4, <2>5, <2>6, <2>7
<1>15. ASSUME op = "shutdown" PROVE Skeleton(z) /\ Watched(z)
  <2>1. h = "shutdown" /\ c.m_disconnecting
    BY <1>2, <1>3, <1>15 DEF Operations
  <2>2. Naming(z) /\ Connecting(z) /\ Linked(z) /\ Shutting(z) /\ Told(z) /\ Resting(z)
    BY <1>10, <2>1 DEF Naming, Connecting, Linked, Shutting, Told, Resting, Dialing
  <2>3. Operations(z)
    BY <1>10, <2>1 DEF Operations
  <2>4. OneLife(z)
    BY <1>10, <2>1 DEF OneLife, Shutting
  <2>5. LastReport(z)
    BY <1>2, <1>10, <1>11, <1>15, <2>1 DEF LastReport, Shutting
  <2>6. Watched(z)
    BY <1>10, <2>1 DEF Watched, Shutting
  <2> QED BY <2>2, <2>3, <2>4, <2>5, <2>6
<1>16. Skeleton(z) /\ Watched(z)
  BY <1>3, <1>12, <1>13, <1>14, <1>15
<1>17. Knowledge(z)
  <2>1. h = "recv" => "read" \in c.ops
    BY <1>2, <1>3
  <2>2. "read" \in z.ops \/ "recv" \in Queued(z) => z.mode \in Modes
    BY <1>10, <2>1 DEF Knowledge, SameMind, SameLogin
  <2>3. h # "fake"
    BY <1>3
  <2> QED BY <1>10, <2>2, <2>3, KnowledgeKeeps
<1>18. ~z.crashed /\ SamePhase(c, z)
  BY <1>2, <1>10 DEF SameMind, SameLogin, SamePhase, SameView
<1> QED BY <1>8, <1>16, <1>17, <1>18 DEF Goes, z

(* The end of a connection.                                                *)
Detecting(x) == x.responds /\ ~x.confirmed /\ ~x.unrecoverable

(* The client that disconnect_finalize leaves, where the next flavour is   *)
(* tried and where the manager is told.                                    *)
Tries(x, z) == /\ Detecting(x) /\ x.mode > 0 /\ z.mode = x.mode - 1 /\ ~z.told
               /\ z.unrecoverable = x.unrecoverable /\ z.armed = x.armed
               /\ z.queue = Append(x.queue, "start_connect")

(* The end is told to the manager, ...                                     *)
Tells(x, z) == /\ ~(Detecting(x) /\ x.mode > 0) /\ z.mode = x.mode /\ z.told
               /\ z.unrecoverable = (x.unrecoverable \/ Detecting(x)) /\ ~z.armed /\ z.queue = x.queue

(* ... and in both cases the session is gone and the rest is left alone.   *)
Leaves(x, z) == /\ z.m_socket = "null" /\ z.session = NoSession /\ ~z.m_authpending /\ ~z.m_disconnecting
                /\ z.m_connecting = x.m_connecting /\ z.m_connected = x.m_connected
                /\ z.m_endpoints = x.m_endpoints /\ z.responds = x.responds /\ z.confirmed = x.confirmed
                /\ z.asked = x.asked /\ z.ops = x.ops
                /\ z.crashed = x.crashed

(* disconnect_finalize dials again for the next flavour or tells the       *)
(* manager.                                                                *)
LEMMA Finalizing == ASSUME NEW x \in Clients, ~x.told, NEW z, z = disconnect_finalize(x)
                    PROVE  z \in Clients /\ Leaves(x, z) /\ (Tries(x, z) \/ Tells(x, z))
<1> DEFINE y == [x EXCEPT !.m_socket = "null", !.session = NoSession, !.m_authpending = FALSE,
                          !.m_disconnecting = FALSE, !.m_txPending = FALSE]
           d == ~x.unrecoverable /\ ~x.confirmed /\ x.responds
<1>1. d = Detecting(x)
  BY DEF Detecting
<1>2. y \in Clients
  <2>1. NoSession \in [on : BOOLEAN, subscribed : BOOLEAN, authorized : BOOLEAN, set : BOOLEAN]
    BY DEF NoSession
  <2>2. "null" \in {"null", "closed", "open"}
    OBVIOUS
  <2> HIDE DEF NoSession
  <2> QED BY <2>1, <2>2, ZenonT(60) DEF Clients
<1>3. Leaves(x, y) /\ y.mode = x.mode /\ y.told = x.told /\ y.unrecoverable = x.unrecoverable
      /\ y.armed = x.armed /\ y.queue = x.queue
  <2> HIDE DEF NoSession
  <2> QED BY DEF Clients, Leaves
<1>4. z = CASE x.told -> Crash(x)
            [] ~x.told /\ d /\ x.mode > 0 -> Post(NextFlavour(y), "start_connect")
            [] OTHER -> [clear_response_pleas(y) EXCEPT !.unrecoverable = @ \/ d, !.armed = FALSE, !.told = TRUE]
  BY DEF disconnect_finalize
<1> HIDE DEF y
<1>5. CASE d /\ x.mode > 0
  <2> DEFINE m == y.mode - 1
             w == [y EXCEPT !.mode = m]
  <2>1. m \in Modes \union {Unset}
    BY <1>2, <1>3, <1>5 DEF Clients, Modes, Unset
  <2>2. z = Post(w, "start_connect")
    BY <1>4, <1>5 DEF NextFlavour
  <2> HIDE DEF m
  <2>3. w \in Clients
    BY <1>2, <2>1, Zenon DEF Clients
  <2>4. /\ SameFlags(y, w) /\ w.queue = y.queue /\ w.ops = y.ops /\ w.mode = m /\ w.confirmed = y.confirmed
        /\ w.unrecoverable = y.unrecoverable /\ w.session = y.session /\ w.m_authpending = y.m_authpending
        /\ w.asked = y.asked
        /\ w.crashed = y.crashed
    BY <1>2 DEF Clients, SameFlags
  <2> HIDE DEF w
  <2>5. "start_connect" \in Handlers
    BY DEF Handlers
  <2>6. /\ z \in Clients /\ SameFlags(w, z) /\ SameMind(w, z) /\ z.ops = w.ops
        /\ z.queue = Append(w.queue, "start_connect")
    BY <2>2, <2>3, <2>5, Posts
  <2>7. Leaves(x, z)
    BY <1>3, <2>4, <2>6 DEF Leaves, SameFlags, SameMind, SameLogin
  <2>8. Tries(x, z)
    BY Zenon, <1>1, <1>3, <1>5, <2>4, <2>6 DEF Tries, SameFlags, SameMind, SameLogin, m
  <2> QED BY <2>6, <2>7, <2>8
<1>6. CASE ~(d /\ x.mode > 0)
  <2> DEFINE p == clear_response_pleas(y)
             b == p.unrecoverable \/ d
             w == [p EXCEPT !.unrecoverable = b, !.armed = FALSE, !.told = TRUE]
  <2>1. p \in Clients /\ SameFlags(y, p) /\ SameMind(y, p) /\ p.ops = y.ops /\ p.queue = y.queue
    BY <1>2, Pleading
  <2>2. z = w
    BY <1>4, <1>6
  <2> HIDE DEF p
  <2>3. b \in BOOLEAN /\ b = (x.unrecoverable \/ d)
    BY <1>3, <2>1 DEF Clients, SameMind, SameLogin
  <2> HIDE DEF b
  <2>4. w \in Clients
    <3>1. p \in Clients /\ b \in BOOLEAN
      BY <2>1, <2>3
    <3> QED BY <3>1, ZenonT(60) DEF Clients
  <2>5. /\ w.m_connecting = p.m_connecting /\ w.m_disconnecting = p.m_disconnecting
        /\ w.m_connected = p.m_connected /\ w.m_socket = p.m_socket /\ w.m_endpoints = p.m_endpoints
        /\ w.responds = p.responds /\ w.queue = p.queue /\ w.ops = p.ops
    BY <2>1 DEF Clients
  <2>a. /\ w.mode = p.mode /\ w.confirmed = p.confirmed
        /\ w.session = p.session /\ w.m_authpending = p.m_authpending
        /\ w.asked = p.asked
        /\ w.crashed = p.crashed
    BY <2>1 DEF Clients
  <2>u. w.unrecoverable = b /\ ~w.armed /\ w.told
    BY <2>1, Zenon DEF Clients
  <2> HIDE DEF w
  <2>6. Leaves(x, w)
    BY <1>3, <2>1, <2>5, <2>a DEF Leaves, SameFlags, SameMind, SameLogin
  <2>7. Tells(x, w)
    <3>1. w.mode = x.mode /\ w.queue = x.queue /\ w.told /\ ~w.armed /\ ~(Detecting(x) /\ x.mode > 0)
      BY Zenon, <1>1, <1>3, <1>6, <2>1, <2>5, <2>a, <2>u DEF SameFlags, SameMind, SameLogin
    <3>2. w.unrecoverable = (x.unrecoverable \/ Detecting(x))
      BY Zenon, <1>1, <2>3, <2>u
    <3> QED BY <3>1, <3>2 DEF Tells
  <2> QED BY <2>2, <2>4, <2>6, <2>7
<1> QED BY <1>5, <1>6

(* A connection that may end.                                              *)
Ending(x) ==
    /\ ~x.told /\ ~x.m_connected /\ x.ops = {}
    /\ "resolved" \notin Queued(x) /\ "unresolved" \notin Queued(x)
    /\ "shutdown" \notin Queued(x) /\ "finalize" \notin Queued(x)
    /\ x.m_connecting => /\ x.m_endpoints > 0 /\ ("connected" \in Queued(x) \/ "refused" \in Queued(x))
                         /\ \A h \in {"connected", "refused"} :
                              "connected" \notin After(x.queue, h) /\ "refused" \notin After(x.queue, h)
    /\ "connected" \in Queued(x) \/ "refused" \in Queued(x) => x.m_connecting
    /\ "tick" \in Queued(x) => ~x.armed /\ "tick" \notin After(x.queue, "tick")
    /\ Clean => ~x.m_connecting /\ \A h \in Dialing : h \notin Queued(x)
    /\ TLS => Queued(x) \subseteq {"tick"}
    /\ "sub" \in x.asked \/ "auth" \in x.asked => x.confirmed
    /\ "recv" \in Queued(x) => x.mode \in Modes
    /\ Version # Unset => /\ x.responds => x.confirmed \/ x.unrecoverable
                          /\ x.mode \in {Version, Unset} /\ "fake" \notin Queued(x)
    /\ Clean /\ "auth" \in x.asked => "sub" \notin x.asked

(* A client that is over when it calls disconnect_finalize is good after   *)
(* it.                                                                     *)
LEMMA EndsWell == ASSUME NEW x \in Clients, ~x.crashed, Ending(x), NEW z, z = disconnect_finalize(x)
                  PROVE  /\ z \in Clients /\ ~z.crashed /\ Good(z)
                         /\ Leaves(x, z) /\ (Tries(x, z) \/ Tells(x, z))
<1>1. z \in Clients /\ Leaves(x, z) /\ (Tries(x, z) \/ Tells(x, z))
  BY Finalizing DEF Ending
<1>2. ~z.crashed /\ ~z.session.on /\ ~z.session.set /\ ~z.session.authorized
  BY <1>1 DEF Leaves, NoSession
<1>3. CASE Tells(x, z)
  <2>1. Queued(z) = Queued(x) /\ z.queue = x.queue /\ z.told /\ ~z.armed
    BY <1>3 DEF Tells, Queued
  <2>2. /\ Naming(z) /\ Connecting(z) /\ Linked(z) /\ Shutting(z) /\ Told(z) /\ Resting(z)
    BY <1>1, <2>1 DEF Ending, Leaves, Naming, Connecting, Linked, Shutting, Told, Resting
  <2>3. Operations(z) /\ OneLife(z)
    BY <1>1, <2>1 DEF Ending, Leaves, Operations, OneLife
  <2>4. LastReport(z)
    <3>1. After(x.queue, "shutdown") = {} /\ After(x.queue, "finalize") = {}
      BY AbsentAfter DEF Ending
    <3> QED BY <1>1, <2>1, <3>1 DEF Ending, Leaves, LastReport
  <2>5. Watched(z)
    BY <1>1 DEF Ending, Leaves, Watched
  <2>6. Knowledge(z)
    BY Zenon, <1>1, <1>2, <1>3, <2>1 DEF Ending, Leaves, Tells, Detecting, Knowledge
  <2> QED BY <1>1, <1>2, <2>2, <2>3, <2>4, <2>5, <2>6 DEF Good, Skeleton
<1>4. CASE Tries(x, z)
  <2>1. /\ Queued(z) = Queued(x) \union {"start_connect"}
        /\ \A k : After(z.queue, k) = After(x.queue, k) \union (IF k \in Queued(x) THEN {"start_connect"} ELSE {})
    <3>1. x.queue \in Seq(Handlers) /\ "start_connect" \in Handlers
      BY DEF Clients, Handlers
    <3> QED BY <1>4, <3>1, Posting DEF Tries, Queued
  <2>2. ~z.told /\ z.armed = x.armed /\ z.mode \in Modes /\ Version = Unset /\ ~z.confirmed
    <3>1. ~z.told /\ z.armed = x.armed /\ ~z.confirmed
      BY <1>1, <1>4 DEF Tries, Detecting, Leaves
    <3>2. Version = Unset
      BY <1>4 DEF Tries, Detecting, Ending
    <3>3. z.mode \in Modes
      BY <1>4 DEF Tries, Clients, Modes, Unset
    <3> QED BY <3>1, <3>2, <3>3
  <2>3. /\ Naming(z) /\ Linked(z) /\ Shutting(z) /\ Told(z) /\ Resting(z)
    BY <1>1, <2>1, <2>2 DEF Ending, Leaves, Naming, Linked, Shutting, Told, Resting
  <2>c. Connecting(z)
    BY <1>1, <2>1, <2>2 DEF Ending, Leaves, Connecting
  <2>4. Operations(z)
    BY <1>1, <2>1, <2>2 DEF Ending, Leaves, Operations
  <2>5. OneLife(z)
    <3>1. Clean => TLS
      BY <2>2 DEF Clean
    <3>2. \A k \in Dialing : Clean => After(x.queue, k) = {}
      BY AbsentAfter DEF Ending
    <3> QED BY <1>1, <2>1, <2>2, <3>1, <3>2 DEF Ending, Leaves, OneLife, Dialing
  <2>6. LastReport(z)
    <3>1. After(x.queue, "shutdown") = {} /\ After(x.queue, "finalize") = {}
      BY AbsentAfter DEF Ending
    <3> QED BY <1>1, <2>1, <2>2, <3>1 DEF Ending, Leaves, LastReport
  <2>7. Watched(z)
    BY <1>1 DEF Ending, Leaves, Watched
  <2>8. Knowledge(z)
    BY <1>1, <1>2, <2>1, <2>2 DEF Ending, Leaves, Knowledge
  <2> QED BY <1>1, <1>2, <2>3, <2>c, <2>4, <2>5, <2>6, <2>7, <2>8 DEF Good, Skeleton
<1> QED BY <1>1, <1>2, <1>3, <1>4

(* Dialing.                                                                *)

(* What the pool manager sees of an end.                                   *)
Ended(x, z) == /\ ~x.told /\ ~z.m_connected /\ ~z.m_disconnecting
               /\ z.responds = x.responds /\ z.confirmed = x.confirmed
               /\ \/ /\ Detecting(x) /\ x.mode > 0 /\ z.mode = x.mode - 1 /\ ~z.told
                     /\ z.unrecoverable = x.unrecoverable
                  \/ /\ ~(Detecting(x) /\ x.mode > 0) /\ z.mode = x.mode /\ z.told
                     /\ z.unrecoverable = (x.unrecoverable \/ Detecting(x))

(* What disconnect_finalize does is the end that the promise of PoolClient *)
(* speaks of.                                                              *)
LEMMA EndIsSeen == ASSUME NEW x, NEW y, NEW z, ~y.told, y.told = x.told, y.responds = x.responds, y.confirmed = x.confirmed,
                          y.mode = x.mode, y.unrecoverable = x.unrecoverable, ~y.m_connected,
                          Leaves(y, z), Tries(y, z) \/ Tells(y, z)
                   PROVE  Ended(x, z)
<1>1. Detecting(y) = Detecting(x)
  BY DEF Detecting
<1>2. ~x.told /\ ~z.m_connected /\ ~z.m_disconnecting /\ z.responds = x.responds /\ z.confirmed = x.confirmed
  BY DEF Leaves
<1>3. CASE Tries(y, z)
  BY <1>1, <1>2, <1>3 DEF Tries, Ended
<1>4. CASE Tells(y, z)
  <2>1. ~(Detecting(x) /\ x.mode > 0) /\ z.mode = x.mode /\ z.told
    BY <1>1, <1>4 DEF Tells
  <2>2. z.unrecoverable = (x.unrecoverable \/ Detecting(x))
    BY <1>1, <1>4 DEF Tells
  <2> QED BY <1>2, <2>1, <2>2, Zenon DEF Ended
<1> QED BY <1>3, <1>4

(* The addresses of the host are there: start_connect is posted.           *)
LEMMA ResolvedStep == ASSUME c \in Clients, Good(c), Resolved
                      PROVE  Goes(c, c') /\ SamePhase(c, c')
<1>1. PICK n \in 1..MaxEndpoints : c' = Post([Rest EXCEPT !.m_endpoints = n], "start_connect")
  BY DEF Resolved, resolve_handler
<1> DEFINE x == Rest
           y == [x EXCEPT !.m_endpoints = n]
           z == c'
<1>2. Runs("resolved")
  BY DEF Resolved
<1>3. /\ x \in Clients /\ ~c.crashed /\ SameFlags(c, x) /\ x.ops = c.ops /\ Queued(c) = {"resolved"} \union Queued(x)
      /\ After(c.queue, "resolved") = Queued(x)
      /\ \A k : After(x.queue, k) \subseteq After(c.queue, k)
  BY <1>2, RestIs
<1>4. Knowledge(x) /\ SameMind(c, x)
  BY <1>2, RestKnows
<1> HIDE DEF x
<1>5. y \in Clients
  <2>1. n \in 0..MaxEndpoints
    BY StratumAssumption
  <2> QED BY <1>3, <2>1, Zenon DEF Clients
<1>6. /\ SameMind(x, y) /\ y.queue = x.queue /\ y.ops = x.ops /\ y.armed = x.armed
      /\ y.m_connecting = x.m_connecting /\ y.m_disconnecting = x.m_disconnecting
      /\ y.m_connected = x.m_connected /\ y.m_socket = x.m_socket
      /\ y.told = x.told /\ y.responds = x.responds
  BY <1>3 DEF Clients, SameMind, SameLogin
<1> HIDE DEF y
<1>7. "start_connect" \in Handlers
  BY DEF Handlers
<1>8. /\ z \in Clients /\ SameFlags(y, z) /\ SameMind(y, z) /\ z.ops = y.ops
      /\ Queued(z) = Queued(y) \union {"start_connect"}
      /\ \A k : After(z.queue, k) = After(y.queue, k) \union (IF k \in Queued(y) THEN {"start_connect"} ELSE {})
  BY ZenonT(60), <1>1, <1>5, <1>7, Posts DEF y, x
<1> HIDE DEF z
<1>9. /\ ~c.told /\ ~c.m_connected /\ ~c.m_connecting /\ ~c.m_disconnecting /\ ~c.responds
      /\ c.ops = {} /\ Queued(x) \subseteq {"tick"}
  BY <1>3 DEF Good, Skeleton, Naming
<1>10. Queued(y) = Queued(x) /\ \A k : After(y.queue, k) \subseteq After(c.queue, k)
  BY <1>3, <1>6 DEF Queued
<1>11. /\ ~z.told /\ ~z.m_connected /\ ~z.m_connecting /\ ~z.m_disconnecting /\ ~z.responds
       /\ z.ops = {} /\ Queued(z) = Queued(x) \union {"start_connect"} /\ z.armed = c.armed
       /\ \A k : After(z.queue, k) \subseteq After(c.queue, k) \union (IF k \in Queued(x) THEN {"start_connect"} ELSE {})
       /\ \A k : k \notin Queued(x) => After(z.queue, k) = {}
  <2>1. ASSUME NEW k, k \notin Queued(x) PROVE After(y.queue, k) = {}
    BY <1>5, <1>10, <2>1, AbsentAfter
  <2> QED BY <1>3, <1>6, <1>8, <1>9, <1>10, <2>1 DEF SameFlags
<1>12. Naming(z) /\ Connecting(z) /\ Linked(z) /\ Shutting(z) /\ Told(z) /\ Resting(z)
  BY <1>9, <1>11 DEF Naming, Connecting, Linked, Shutting, Told, Resting
<1>13. Operations(z)
  BY <1>3, <1>9, <1>11 DEF Operations, Good, Skeleton
<1>14. OneLife(z)
  BY <1>9, <1>11 DEF OneLife, Dialing
<1>15. LastReport(z) /\ Watched(z)
  BY <1>9, <1>11 DEF LastReport, Watched
<1>16. SameMind(x, z)
  BY <1>6, <1>8 DEF SameMind, SameLogin
<1>17. Knowledge(z)
  <2>1. z.told = x.told /\ z.m_connected = x.m_connected /\ z.m_disconnecting = x.m_disconnecting /\ z.responds = x.responds
    BY <1>6, <1>8 DEF SameFlags
  <2>2. "read" \notin z.ops /\ "recv" \notin Queued(z) /\ "fake" \notin Queued(z)
    BY <1>9, <1>11
  <2> QED BY <1>4, <1>16, <2>1, <2>2 DEF Knowledge, SameMind, SameLogin
<1>18. ~z.crashed /\ SamePhase(c, z)
  BY <1>3, <1>4, <1>6, <1>8, <1>16 DEF SameFlags, SameMind, SameLogin, SamePhase, SameView
<1> QED BY <1>8, <1>12, <1>13, <1>14, <1>15, <1>17, <1>18 DEF Goes, Good, Skeleton, z

(* The host does not resolve: the attempt ends.                            *)
LEMMA UnresolvedStep == ASSUME c \in Clients, Good(c), Unresolved
                        PROVE  Goes(c, c') /\ Ended(c, c') /\ ~c.m_connected
<1> DEFINE x == Rest
           y == [x EXCEPT !.m_connecting = FALSE]
<1>1. c' = disconnect_finalize(y) /\ Runs("unresolved")
  BY DEF Unresolved, resolve_handler
<1>3. /\ x \in Clients /\ ~c.crashed /\ SameFlags(c, x) /\ x.ops = c.ops /\ Queued(c) = {"unresolved"} \union Queued(x)
      /\ After(c.queue, "unresolved") = Queued(x)
      /\ \A k : After(x.queue, k) \subseteq After(c.queue, k)
  BY <1>1, RestIs
<1>4. Knowledge(x) /\ SameMind(c, x)
  BY <1>1, RestKnows
<1> HIDE DEF x
<1>5. y \in Clients
  BY <1>3, ZenonT(60) DEF Clients
<1>6. /\ SameMind(x, y) /\ y.queue = x.queue /\ y.ops = x.ops /\ y.armed = x.armed
      /\ y.m_disconnecting = x.m_disconnecting
      /\ y.m_connected = x.m_connected /\ y.m_socket = x.m_socket
      /\ y.told = x.told /\ y.responds = x.responds
  BY <1>3 DEF Clients, SameMind, SameLogin
<1>7. ~y.m_connecting
  BY <1>3 DEF Clients
<1> HIDE DEF y
<1>8. Queued(y) = Queued(x)
  BY <1>6 DEF Queued
<1>9. /\ ~c.told /\ ~c.m_connected /\ ~c.m_connecting /\ ~c.m_disconnecting /\ ~c.responds
      /\ c.ops = {} /\ Queued(x) \subseteq {"tick"}
  BY <1>3 DEF Good, Skeleton, Naming
<1>10. "tick" \in Queued(x) => ~c.armed /\ "tick" \notin After(c.queue, "tick")
  BY <1>3 DEF Good, Skeleton, Operations
<1>11. Ending(y)
  BY <1>3, <1>4, <1>6, <1>7, <1>8, <1>9, <1>10 DEF Ending, SameFlags, SameMind, SameLogin, Knowledge, Dialing
<1>12. ~y.crashed
  BY <1>3, <1>4, <1>6 DEF SameMind, SameLogin
<1>13. /\ c' \in Clients /\ ~c'.crashed /\ Good(c')
       /\ Leaves(y, c') /\ (Tries(y, c') \/ Tells(y, c'))
  BY Zenon, <1>1, <1>5, <1>11, <1>12, EndsWell DEF y, x
<1>14. Ended(c, c')
  <2>1. ~y.told /\ y.told = c.told /\ y.responds = c.responds /\ y.confirmed = c.confirmed
        /\ y.mode = c.mode /\ y.unrecoverable = c.unrecoverable /\ ~y.m_connected
    BY <1>3, <1>4, <1>6, <1>9 DEF SameFlags, SameMind, SameLogin
  <2> QED BY <1>13, <2>1, EndIsSeen
<1> QED BY <1>9, <1>12, <1>13, <1>14 DEF Goes

==============================================================================
