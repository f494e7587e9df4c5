---------------------------- MODULE StratumProofs ----------------------------
(***************************************************************************)
(* The stratum client, for any pool, any number of addresses and any order *)
(* of its handlers: what a conversation with a pool keeps, and, with every *)
(* step seen, that the client is never stranded, that a link is watched,   *)
(* and that it keeps the promise of PoolClient where nothing of an earlier *)
(* connection can be left in the queue.                                    *)
(***************************************************************************)
EXTENDS StratumLink

(* The inductive invariant: a client is good until a handler crashes.      *)
Inv == c \in Clients /\ (c.crashed \/ Good(c))

-----------------------------------------------------------------------------

(* An answer is awaited no more.                                           *)
LEMMA Answering == ASSUME NEW x \in Clients, NEW a
                   PROVE  LET z == Answered(x, a)
                          IN  /\ z \in Clients /\ SameFlags(x, z) /\ SameLogin(x, z)
                              /\ z.asked = x.asked \ {a} /\ z.ops = x.ops /\ z.queue = x.queue
<1> DEFINE z == [x EXCEPT !.asked = x.asked \ {a}]
<1>1. x.asked \ {a} \in SUBSET {"login", "sub", "auth", "work", "share"}
  BY DEF Clients
<1>2. z \in Clients
  BY <1>1, Zenon DEF Clients
<1>3. SameFlags(x, z) /\ SameLogin(x, z) /\ z.asked = x.asked \ {a} /\ z.ops = x.ops /\ z.queue = x.queue
  BY DEF Clients, SameFlags, SameLogin
<1>4. Answered(x, a) = z
  BY DEF Answered
<1> HIDE DEF z
<1> QED BY <1>2, <1>3, <1>4

(* What a message leaves alone, and what it may add.                       *)
LEMMA TalksOn == ASSUME NEW x, NEW z, Talks(x), z \in Clients, SameFlags(x, z), z.mode = x.mode, z.queue = x.queue,
                        z.ops = x.ops \/ (x.m_connected /\ z.ops = x.ops \union {"write"}),
                        Knowledge(z)
                 PROVE  Talks(z)
BY TalkKeeps DEF Talks

(* What of the login the other handlers do not depend on.                  *)
SameJobs(x, z) == z.mode = x.mode /\ z.crashed = x.crashed

(* What the answers to mining.subscribe and mining.authorize change.       *)
LEMMA Subscribing == ASSUME NEW y \in Clients,
                            NEW z \in {[y EXCEPT !.session.subscribed = TRUE, !.m_authpending = TRUE],
                                       [y EXCEPT !.session.subscribed = TRUE, !.session.authorized = TRUE],
                                       [y EXCEPT !.session.authorized = TRUE, !.m_authpending = FALSE],
                                       [y EXCEPT !.session.authorized = FALSE, !.m_authpending = FALSE]}
                     PROVE  /\ z \in Clients /\ SameFlags(y, z) /\ SameJobs(y, z)
                            /\ z.queue = y.queue /\ z.ops = y.ops /\ z.asked = y.asked
                            /\ z.confirmed = y.confirmed /\ z.unrecoverable = y.unrecoverable
                            /\ z.session.on = y.session.on /\ z.session.set = y.session.set
<1> DEFINE S == [on : BOOLEAN, subscribed : BOOLEAN, authorized : BOOLEAN, set : BOOLEAN]
           Fits(w) == /\ w \in Clients /\ SameFlags(y, w) /\ SameJobs(y, w)
                      /\ w.queue = y.queue /\ w.ops = y.ops /\ w.asked = y.asked
                      /\ w.confirmed = y.confirmed /\ w.unrecoverable = y.unrecoverable
                      /\ w.session.on = y.session.on /\ w.session.set = y.session.set
<1>1. y.session \in S
  BY Zenon DEF Clients
<1>2. ASSUME NEW s \in S, NEW b \in BOOLEAN, s.on = y.session.on, s.set = y.session.set
      PROVE  Fits([y EXCEPT !.session = s, !.m_authpending = b]) /\ Fits([y EXCEPT !.session = s])
  <2>1. [y EXCEPT !.session = s, !.m_authpending = b] \in Clients /\ [y EXCEPT !.session = s] \in Clients
    BY ZenonT(60) DEF Clients
  <2>2. ASSUME NEW w, w = [y EXCEPT !.session = s, !.m_authpending = b]
        PROVE  /\ SameFlags(y, w) /\ SameJobs(y, w)
               /\ w.queue = y.queue /\ w.ops = y.ops /\ w.asked = y.asked /\ w.session = s
               /\ w.confirmed = y.confirmed /\ w.unrecoverable = y.unrecoverable
    BY <2>2 DEF Clients, SameFlags, SameJobs
  <2>3. ASSUME NEW w, w = [y EXCEPT !.session = s]
        PROVE  /\ SameFlags(y, w) /\ SameJobs(y, w)
               /\ w.queue = y.queue /\ w.ops = y.ops /\ w.asked = y.asked /\ w.session = s
               /\ w.confirmed = y.confirmed /\ w.unrecoverable = y.unrecoverable
    BY <2>3 DEF Clients, SameFlags, SameJobs
  <2> QED BY <1>2, <2>1, <2>2, <2>3
<1> HIDE DEF Fits
<1>3. ASSUME NEW s, s \in {[y.session EXCEPT !.subscribed = TRUE],
                           [y.session EXCEPT !.subscribed = TRUE, !.authorized = TRUE],
                           [y.session EXCEPT !.authorized = TRUE], [y.session EXCEPT !.authorized = FALSE]}
      PROVE  s \in S /\ s.on = y.session.on /\ s.set = y.session.set
  BY Zenon, <1>1, <1>3
<1>4. CASE z = [y EXCEPT !.session.subscribed = TRUE, !.m_authpending = TRUE]
  <2>1. z = [y EXCEPT !.session = [y.session EXCEPT !.subscribed = TRUE], !.m_authpending = TRUE]
    BY <1>4
  <2> QED BY ZenonT(60), <1>2, <1>3, <2>1 DEF Fits
<1>5. CASE z = [y EXCEPT !.session.subscribed = TRUE, !.session.authorized = TRUE]
  <2>1. z = [y EXCEPT !.session = [y.session EXCEPT !.subscribed = TRUE, !.authorized = TRUE]]
    BY <1>5, Zenon DEF Clients
  <2> QED BY Zenon, <1>2, <1>3, <2>1 DEF Fits
<1>6. CASE z = [y EXCEPT !.session.authorized = TRUE, !.m_authpending = FALSE]
  <2>1. z = [y EXCEPT !.session = [y.session EXCEPT !.authorized = TRUE], !.m_authpending = FALSE]
    BY <1>6
  <2> QED BY Zenon, <1>2, <1>3, <2>1 DEF Fits
<1>7. CASE z = [y EXCEPT !.session.authorized = FALSE, !.m_authpending = FALSE]
  <2>1. z = [y EXCEPT !.session = [y.session EXCEPT !.authorized = FALSE], !.m_authpending = FALSE]
    BY <1>7
  <2> QED BY Zenon, <1>2, <1>3, <2>1 DEF Fits
<1> QED BY <1>4, <1>5, <1>6, <1>7

(* Only these change who is authorized and whether that is awaited.        *)
LEMMA Granting ==
    ASSUME NEW y \in Clients
    PROVE  /\ LET z == [y EXCEPT !.session.subscribed = TRUE, !.m_authpending = TRUE]
              IN  z.session.authorized = y.session.authorized
           /\ LET z == [y EXCEPT !.session.subscribed = TRUE, !.session.authorized = TRUE]
              IN  z.m_authpending = y.m_authpending
           /\ LET z == [y EXCEPT !.session.authorized = TRUE, !.m_authpending = FALSE]
              IN  ~z.m_authpending
           /\ LET z == [y EXCEPT !.session.authorized = FALSE, !.m_authpending = FALSE]
              IN  ~z.session.authorized
BY DEF Clients

(* An authorized client awaits no answer that could refuse it.             *)
Settled(x) == Clean =>
    /\ "auth" \in x.asked => "sub" \notin x.asked
    /\ x.session.authorized => /\ x.session.on /\ ~x.m_authpending
                               /\ "sub" \notin x.asked /\ "auth" \notin x.asked

(* It stays so while nothing is granted and nothing is asked.              *)
LEMMA SettledStays == ASSUME NEW x, NEW z, Settled(x), z.session.on = x.session.on,
                             z.session.authorized => x.session.authorized,
                             z.m_authpending => x.m_authpending, z.asked \subseteq x.asked
                      PROVE  Settled(z)
BY DEF Settled

(* The session that an accepted login starts.                              *)
LEMMA Starting == ASSUME NEW x \in Clients
                  PROVE  LET z == startSession([dequeue_response_plea(x) EXCEPT !.confirmed = TRUE])
                         IN  /\ z \in Clients /\ SameFlags(x, z) /\ SameJobs(x, z)
                             /\ z.queue = x.queue /\ z.ops = x.ops /\ z.asked = x.asked
                             /\ z.confirmed /\ z.unrecoverable = x.unrecoverable
                             /\ z.session.on /\ ~z.session.set /\ ~z.session.authorized
                             /\ z.m_authpending = x.m_authpending
<1> DEFINE d == dequeue_response_plea(x)
           e == [d EXCEPT !.confirmed = TRUE]
           s == [NoSession EXCEPT !.on = TRUE]
           z == [e EXCEPT !.session = s, !.stale = FALSE]
<1>1. d \in Clients /\ SameFlags(x, d) /\ SameMind(x, d) /\ d.ops = x.ops /\ d.queue = x.queue
  BY Pleading
<1> HIDE DEF d
<1>2. s \in [on : BOOLEAN, subscribed : BOOLEAN, authorized : BOOLEAN, set : BOOLEAN]
      /\ s.on /\ ~s.set /\ ~s.authorized
  BY Zenon DEF NoSession
<1> HIDE DEF s
<1>3. e \in Clients
  BY <1>1, ZenonT(60) DEF Clients
<1>4. /\ SameFlags(d, e) /\ SameJobs(d, e) /\ e.queue = d.queue /\ e.ops = d.ops /\ e.asked = d.asked
      /\ e.confirmed /\ e.unrecoverable = d.unrecoverable /\ e.m_authpending = d.m_authpending
  BY <1>1 DEF Clients, SameFlags, SameJobs
<1> HIDE DEF e
<1>5. z \in Clients
  BY <1>2, <1>3, ZenonT(60) DEF Clients
<1>6. /\ SameFlags(e, z) /\ SameJobs(e, z) /\ z.queue = e.queue /\ z.ops = e.ops /\ z.asked = e.asked
      /\ z.confirmed = e.confirmed /\ z.unrecoverable = e.unrecoverable /\ z.session = s
      /\ z.m_authpending = e.m_authpending
  BY <1>3 DEF Clients, SameFlags, SameJobs
<1>7. startSession([dequeue_response_plea(x) EXCEPT !.confirmed = TRUE]) = z
  BY DEF startSession, z, e, s, d
<1> HIDE DEF z
<1>8. /\ SameFlags(x, z) /\ SameJobs(x, z) /\ z.queue = x.queue /\ z.ops = x.ops /\ z.asked = x.asked
      /\ z.unrecoverable = x.unrecoverable /\ z.m_authpending = x.m_authpending
  BY <1>1, <1>4, <1>6 DEF SameFlags, SameJobs, SameMind, SameLogin
<1>9. z.confirmed /\ z.session.on /\ ~z.session.set /\ ~z.session.authorized
  BY <1>2, <1>4, <1>6, Zenon
<1> QED BY <1>5, <1>7, <1>8, <1>9, Zenon

(* An accepted login is followed by the requests of its flavour, within    *)
(* the conversation.                                                       *)
LEMMA LoginIsAccepted == ASSUME NEW x, Talks(x), ~x.told, x.mode \in Modes, "login" \in x.asked
                         PROVE  LET z == LoginAccepted(Answered(x, "login"))
                                IN  /\ Talks(z) /\ SameFlags(x, z) /\ SameJobs(x, z)
                                    /\ z.confirmed /\ z.session.on /\ z.unrecoverable = x.unrecoverable
<1> DEFINE u == Answered(x, "login")
           y == startSession([dequeue_response_plea(u) EXCEPT !.confirmed = TRUE])
           z == LoginAccepted(u)
           Follows(w) == /\ w \in Clients /\ SameFlags(x, w) /\ SameJobs(x, w) /\ w.queue = x.queue
                         /\ w.ops = x.ops \/ (x.m_connected /\ w.ops = x.ops \union {"write"})
                         /\ w.confirmed /\ w.unrecoverable = x.unrecoverable
                         /\ w.session.on
<1>1. /\ u \in Clients /\ SameFlags(x, u) /\ SameLogin(x, u)
      /\ u.asked = x.asked \ {"login"} /\ u.ops = x.ops /\ u.queue = x.queue
  BY Answering DEF Talks
<1> HIDE DEF u
<1>2. /\ y \in Clients /\ SameFlags(u, y) /\ SameJobs(u, y)
      /\ y.queue = u.queue /\ y.ops = u.ops /\ y.asked = u.asked
      /\ y.confirmed /\ y.unrecoverable = u.unrecoverable
      /\ y.session.on /\ ~y.session.set /\ ~y.session.authorized
      /\ y.m_authpending = u.m_authpending
  BY <1>1, Starting
<1>3. z = CASE u.mode = 3 -> AsksAwaited(y, "sub")
            [] u.mode = 2 -> AsksAwaited([send(y) EXCEPT !.session.subscribed = TRUE, !.m_authpending = TRUE], "auth")
            [] u.mode = 1 -> Asks([y EXCEPT !.session.subscribed = TRUE, !.session.authorized = TRUE], "work")
            [] u.mode = 0 -> AsksAwaited([y EXCEPT !.session.subscribed = TRUE, !.m_authpending = TRUE], "auth")
  BY DEF LoginAccepted
<1> HIDE DEF y, z
<1>4. Follows(y) /\ "login" \notin y.asked
  BY <1>1, <1>2 DEF SameFlags, SameLogin, SameJobs
<1>5. ASSUME NEW w, Follows(w), "login" \notin w.asked, NEW a \in Requests \ {"login"},
             NEW v \in {Asks(w, a), AsksAwaited(w, a)}
      PROVE  Follows(v) /\ "login" \notin v.asked
  <2>1. /\ v \in Clients /\ SameFlags(w, v) /\ SameLogin(w, v) /\ v.queue = w.queue
        /\ v.asked = w.asked \union {a}
        /\ v.ops = w.ops \/ (w.m_connected /\ v.ops = w.ops \union {"write"})
    BY <1>5, Asking
  <2>2. /\ SameFlags(x, v) /\ SameJobs(x, v) /\ v.queue = x.queue
        /\ v.ops = x.ops \/ (x.m_connected /\ v.ops = x.ops \union {"write"})
    BY <1>5, <2>1 DEF SameFlags, SameLogin, SameJobs
  <2>3. "login" \notin v.asked /\ v.unrecoverable = x.unrecoverable
    BY <1>5, <2>1 DEF SameLogin, Requests
  <2>4. v.confirmed /\ v.session.on
    BY <1>5, <2>1, Zenon DEF SameLogin
  <2> QED BY <2>1, <2>2, <2>3, <2>4
<1>6. ASSUME NEW w, Follows(w), "login" \notin w.asked,
             NEW v \in {[w EXCEPT !.session.subscribed = TRUE, !.m_authpending = TRUE],
                        [w EXCEPT !.session.subscribed = TRUE, !.session.authorized = TRUE]}
      PROVE  Follows(v) /\ "login" \notin v.asked
  <2>0. w \in Clients
    BY <1>6
  <2>1. /\ v \in Clients /\ SameFlags(w, v) /\ SameJobs(w, v)
        /\ v.queue = w.queue /\ v.ops = w.ops /\ v.asked = w.asked
        /\ v.confirmed = w.confirmed /\ v.unrecoverable = w.unrecoverable
        /\ v.session.on = w.session.on
    <3>1. v \in {[w EXCEPT !.session.subscribed = TRUE, !.m_authpending = TRUE],
                [w EXCEPT !.session.subscribed = TRUE, !.session.authorized = TRUE],
                [w EXCEPT !.session.authorized = TRUE, !.m_authpending = FALSE],
                [w EXCEPT !.session.authorized = FALSE, !.m_authpending = FALSE]}
      BY <1>6, Zenon
    <3> HIDE DEF Follows
    <3> QED BY <2>0, <3>1, Subscribing, Zenon
  <2>2. /\ SameFlags(x, v) /\ SameJobs(x, v) /\ v.queue = x.queue
        /\ v.ops = x.ops \/ (x.m_connected /\ v.ops = x.ops \union {"write"})
        /\ "login" \notin v.asked /\ v.unrecoverable = x.unrecoverable
    BY <1>6, <2>1 DEF SameFlags, SameJobs
  <2>3. v.confirmed /\ v.session.on
    BY <1>6, <2>1, Zenon
  <2> QED BY <2>1, <2>2, <2>3
<1>7. Follows(send(y)) /\ "login" \notin send(y).asked
  <2> DEFINE w == send(y)
  <2>1. /\ w \in Clients /\ SameFlags(y, w) /\ SameMind(y, w) /\ w.queue = y.queue
        /\ w.ops = y.ops \/ (y.m_connected /\ w.ops = y.ops \union {"write"})
    BY Zenon, <1>2, Sending
  <2> HIDE DEF w
  <2>2. /\ SameFlags(x, w) /\ SameJobs(x, w) /\ w.queue = x.queue
        /\ w.ops = x.ops \/ (x.m_connected /\ w.ops = x.ops \union {"write"})
        /\ "login" \notin w.asked /\ w.unrecoverable = x.unrecoverable
    BY <1>4, <2>1 DEF SameFlags, SameJobs, SameMind, SameLogin
  <2>3. w.confirmed /\ w.session.on
    BY <1>4, <2>1, Zenon DEF SameMind, SameLogin
  <2> QED BY <2>1, <2>2, <2>3 DEF w
<1> HIDE DEF Follows
<1>8. Follows(z) /\ "login" \notin z.asked
  <2>0. u.mode = 0 \/ u.mode = 1 \/ u.mode = 2 \/ u.mode = 3
    BY <1>1 DEF SameLogin, Talks, Modes
  <2>r. {"sub", "auth", "work"} \subseteq Requests \ {"login"}
    BY DEF Requests
  <2>1. CASE u.mode = 3
    <3>1. z = AsksAwaited(y, "sub")
      BY <1>3, <2>1
    <3> QED BY <1>4, <1>5, <2>r, <3>1
  <2>2. CASE u.mode = 2
    <3>1. z = AsksAwaited([send(y) EXCEPT !.session.subscribed = TRUE, !.m_authpending = TRUE], "auth")
      BY <1>3, <2>2
    <3> QED BY Zenon, <1>5, <1>6, <1>7, <2>r, <3>1
  <2>3. CASE u.mode = 1
    <3>1. z = Asks([y EXCEPT !.session.subscribed = TRUE, !.session.authorized = TRUE], "work")
      BY <1>3, <2>3
    <3> QED BY Zenon, <1>4, <1>5, <1>6, <2>r, <3>1
  <2>4. CASE u.mode = 0
    <3>1. z = AsksAwaited([y EXCEPT !.session.subscribed = TRUE, !.m_authpending = TRUE], "auth")
      BY <1>3, <2>4
    <3> QED BY Zenon, <1>4, <1>5, <1>6, <2>r, <3>1
  <2> QED BY <2>0, <2>1, <2>2, <2>3, <2>4
<1>s. Settled(z)
  <2>0. u.mode = 0 \/ u.mode = 1 \/ u.mode = 2 \/ u.mode = 3
    BY <1>1 DEF SameLogin, Talks, Modes
  <2>r. {"sub", "auth", "work"} \subseteq Requests
    BY DEF Requests
  <2>1. Clean => "sub" \notin y.asked /\ "auth" \notin y.asked /\ ~y.m_authpending
    BY <1>1, <1>2 DEF Talks, Knowledge, SameLogin
  <2>2. CASE u.mode = 3
    <3>1. z = AsksAwaited(y, "sub")
      BY <1>3, <2>2
    <3>2. SameLogin(y, z) /\ z.asked = y.asked \union {"sub"}
      BY <1>2, <2>r, <3>1, Asking
    <3> QED BY <1>2, <2>1, <3>2 DEF Settled, SameLogin
  <2>3. ASSUME NEW w \in Clients, w.asked = y.asked, ~w.session.authorized,
               z = AsksAwaited([w EXCEPT !.session.subscribed = TRUE, !.m_authpending = TRUE], "auth")
        PROVE  Settled(z)
    <3> DEFINE v == [w EXCEPT !.session.subscribed = TRUE, !.m_authpending = TRUE]
    <3>1. v \in Clients /\ v.asked = w.asked
      BY <2>3, Zenon, Subscribing
    <3>2. ~v.session.authorized
      BY <2>3, Granting
    <3> HIDE DEF v
    <3>3. SameLogin(v, z) /\ z.asked = v.asked \union {"auth"}
      BY <2>r, <2>3, <3>1, Asking DEF v
    <3> QED BY <2>1, <2>3, <3>1, <3>2, <3>3 DEF Settled, SameLogin
  <2>4. CASE u.mode = 2
    <3>1. z = AsksAwaited([send(y) EXCEPT !.session.subscribed = TRUE, !.m_authpending = TRUE], "auth")
      BY <1>3, <2>4
    <3>2. send(y) \in Clients /\ SameMind(y, send(y))
      BY Zenon, <1>2, Sending
    <3> QED BY <1>2, <2>3, <3>1, <3>2 DEF SameMind, SameLogin
  <2>5. CASE u.mode = 1
    <3> DEFINE v == [y EXCEPT !.session.subscribed = TRUE, !.session.authorized = TRUE]
    <3>1. z = Asks(v, "work")
      BY <1>3, <2>5
    <3>2. v \in Clients /\ v.asked = y.asked /\ v.session.on = y.session.on
      BY <1>2, Zenon, Subscribing
    <3>3. v.m_authpending = y.m_authpending
      BY <1>2, Granting
    <3> HIDE DEF v
    <3>4. SameLogin(v, z) /\ z.asked = v.asked \union {"work"}
      BY <2>r, <3>1, <3>2, Asking
    <3> QED BY <1>2, <2>1, <3>2, <3>3, <3>4 DEF Settled, SameLogin
  <2>6. CASE u.mode = 0
    <3>1. z = AsksAwaited([y EXCEPT !.session.subscribed = TRUE, !.m_authpending = TRUE], "auth")
      BY <1>3, <2>6
    <3> QED BY <1>2, <2>3, <3>1
  <2> QED BY <2>0, <2>2, <2>4, <2>5, <2>6
<1>9. Knowledge(z)
  <2>1. Queued(z) = Queued(x)
    BY <1>8 DEF Follows, Queued
  <2>2. ("read" \in z.ops \/ "recv" \in Queued(z) => z.mode \in Modes) /\ z.responds = x.responds
    BY <1>8 DEF Follows, SameJobs, SameFlags, Talks
  <2>3. z.session.on /\ z.confirmed
    BY <1>8, Zenon DEF Follows
  <2> QED BY <1>8, <1>s, <2>1, <2>2, <2>3 DEF Follows, SameFlags, SameJobs, Talks, Knowledge, MayPost, Settled
<1>10. Talks(z)
  BY <1>8, <1>9, TalksOn DEF Follows, SameJobs
<1> QED BY <1>8, <1>10, Zenon DEF Follows, z, u

(* A conversation goes on when it does not forget what it knows.           *)
LEMMA TalksMore == ASSUME NEW x, NEW z \in Clients, Talks(x), ~x.told, SameFlags(x, z), z.mode = x.mode, z.queue = x.queue,
                          z.ops = x.ops \/ (x.m_connected /\ z.ops = x.ops \union {"write"}),
                          z.confirmed = x.confirmed, z.session.on = x.session.on,
                          z.session.set => z.session.on, z.m_authpending => z.session.on,
                          "login" \in z.asked => "login" \in x.asked,
                          "sub" \in z.asked \/ "auth" \in z.asked => z.confirmed /\ z.session.on,
                          x.unrecoverable => z.unrecoverable, Settled(z)
                   PROVE  Talks(z)
<1>1. Queued(z) = Queued(x)
  BY DEF Queued
<1>2. "read" \in z.ops \/ "recv" \in Queued(z) => z.mode \in Modes
  BY <1>1 DEF Talks, Knowledge
<1>3. Knowledge(z)
  BY <1>1, <1>2 DEF SameFlags, Talks, Knowledge, Settled
<1> QED BY <1>3, TalksOn

(* What is known in a conversation whose end was not told.                 *)
LEMMA Known == ASSUME NEW x, Talks(x), ~x.told
               PROVE  /\ x.session.set => x.session.on
                      /\ x.m_authpending => x.session.on
                      /\ "sub" \in x.asked \/ "auth" \in x.asked => x.confirmed /\ x.session.on
                      /\ Version = Unset /\ x.confirmed => x.session.on
                      /\ Settled(x)
BY Zenon DEF Talks, Knowledge, Settled

(* The mark of the pool changes alone.                                     *)
LEMMA Marking == ASSUME NEW x \in Clients, NEW b \in BOOLEAN, NEW z, z = [x EXCEPT !.unrecoverable = b]
         PROVE  /\ z \in Clients /\ SameFlags(x, z) /\ SameJobs(x, z) /\ z.queue = x.queue /\ z.ops = x.ops
                /\ z.confirmed = x.confirmed /\ z.session = x.session
                /\ z.m_authpending = x.m_authpending /\ z.asked = x.asked
                /\ z.unrecoverable = b
<1>1. [x EXCEPT !.unrecoverable = b] \in Clients
  BY Zenon DEF Clients
<1>2. /\ SameFlags(x, z) /\ SameJobs(x, z) /\ z.queue = x.queue /\ z.ops = x.ops
      /\ z.confirmed = x.confirmed /\ z.session = x.session
      /\ z.m_authpending = x.m_authpending /\ z.asked = x.asked
      /\ z.unrecoverable = b
  BY DEF Clients, SameFlags, SameJobs
<1> QED BY <1>1, <1>2, Zenon

(* A pool that refuses is given up.                                        *)
LEMMA Refusing == ASSUME NEW x, Talks(x), ~x.told, NEW y \in Clients, SameFlags(x, y), SameJobs(x, y),
                         y.queue = x.queue, y.ops = x.ops,
                         y.confirmed = x.confirmed, y.session.on = x.session.on, y.session.set = x.session.set,
                         y.m_authpending => x.m_authpending, y.asked \subseteq x.asked,
                         y.session.authorized => x.session.authorized,
                         NEW b \in BOOLEAN, x.unrecoverable => b
                  PROVE  LET z == Post([y EXCEPT !.unrecoverable = b], "disconnect")
                         IN  /\ Talks(z) /\ SameFlags(x, z) /\ SameJobs(x, z) /\ z.confirmed = x.confirmed
                             /\ z.session.on = x.session.on /\ z.session.set = x.session.set
                             /\ z.unrecoverable = b /\ Watched(z)
<1> DEFINE e == [y EXCEPT !.unrecoverable = b]
           z == Post(e, "disconnect")
<1>1. /\ e \in Clients /\ SameFlags(y, e) /\ SameJobs(y, e) /\ e.queue = y.queue /\ e.ops = y.ops
      /\ e.confirmed = y.confirmed /\ e.session = y.session
      /\ e.m_authpending = y.m_authpending /\ e.asked = y.asked
      /\ e.unrecoverable = b
  <2>1. e = [y EXCEPT !.unrecoverable = b]
    OBVIOUS
  <2> HIDE DEF e
  <2> QED BY <2>1, Marking
<1> HIDE DEF e
<1>2. SameFlags(x, e) /\ SameJobs(x, e) /\ e.queue = x.queue /\ e.ops = x.ops /\ e.mode = x.mode
  BY <1>1 DEF SameFlags, SameJobs
<1>s. Settled(e)
  BY <1>1, Known, SettledStays
<1>3. Talks(e)
  BY <1>1, <1>2, <1>s, Known, TalksMore
<1>4. Talks(z) /\ SameFlags(e, z) /\ SameMind(e, z) /\ Watched(z)
  BY <1>3, TalksOut
<1> HIDE DEF z
<1>5. SameFlags(x, z) /\ SameJobs(x, z)
  BY <1>2, <1>4 DEF SameFlags, SameJobs, SameMind, SameLogin
<1>6. z.confirmed = x.confirmed /\ z.session.on = x.session.on /\ z.session.set = x.session.set /\ z.unrecoverable = b
  BY <1>1, <1>4 DEF SameMind, SameLogin
<1> QED BY <1>4, <1>5, <1>6 DEF z, e

(* A message is processed and the client goes on as it was.                *)
Carries(x, z) == Talks(z) /\ SameFlags(x, z) /\ SameJobs(x, z)

(* The same client but for what it awaits.                                 *)
Alike(x, y) == /\ y \in Clients /\ SameFlags(x, y) /\ SameJobs(x, y) /\ y.queue = x.queue /\ y.ops = x.ops
               /\ y.confirmed = x.confirmed /\ y.session = x.session /\ y.unrecoverable = x.unrecoverable
               /\ y.m_authpending = x.m_authpending /\ y.asked \subseteq x.asked

(* Noting that an answer came, ...                                         *)
LEMMA AlikeAnswered == ASSUME NEW x, NEW y, Alike(x, y), NEW a PROVE Alike(x, Answered(y, a))
<1> DEFINE z == Answered(y, a)
<1>1. /\ z \in Clients /\ SameFlags(y, z) /\ SameLogin(y, z)
      /\ z.asked = y.asked \ {a} /\ z.ops = y.ops /\ z.queue = y.queue
  BY Answering DEF Alike
<1> HIDE DEF z
<1> QED BY <1>1 DEF Alike, SameFlags, SameJobs, SameLogin, z

(* ... and taking its plea from the list leave the rest alone.             *)
LEMMA AlikePleading == ASSUME NEW x, NEW y, Alike(x, y)
                       PROVE  Alike(x, dequeue_response_plea(y))
<1> DEFINE z == dequeue_response_plea(y)
<1>1. z \in Clients /\ SameFlags(y, z) /\ SameMind(y, z) /\ z.ops = y.ops /\ z.queue = y.queue
  BY Pleading DEF Alike
<1> HIDE DEF z
<1> QED BY <1>1 DEF Alike, SameFlags, SameJobs, SameMind, SameLogin, z

(* A refused login marks a pool whose flavour is known, and posts          *)
(* disconnect.                                                             *)
LEMMA LoginIsRefused ==
    ASSUME NEW x, Talks(x), ~x.told, NEW y, Alike(x, y)
    PROVE  LET z == LoginRefused(y)
           IN  /\ Carries(x, z) /\ z.confirmed = x.confirmed
               /\ z.session.on = x.session.on /\ z.session.set = x.session.set
               /\ z.unrecoverable = (x.unrecoverable \/ x.confirmed) /\ Watched(z)
<1> DEFINE d == dequeue_response_plea(y)
           b == d.unrecoverable \/ y.confirmed
           z == Post([d EXCEPT !.unrecoverable = b], "disconnect")
<1>1. Alike(x, d)
  BY AlikePleading
<1>2. LoginRefused(y) = z
  BY DEF LoginRefused
<1> HIDE DEF d
<1>3. b \in BOOLEAN /\ (x.unrecoverable => b) /\ b = (x.unrecoverable \/ x.confirmed)
  BY <1>1 DEF Alike, Clients
<1> HIDE DEF b
<1>5. /\ Talks(z) /\ SameFlags(x, z) /\ SameJobs(x, z) /\ z.confirmed = x.confirmed
      /\ z.session.on = x.session.on /\ z.session.set = x.session.set
      /\ z.unrecoverable = b /\ Watched(z)
  <2>1. /\ d \in Clients /\ SameFlags(x, d) /\ SameJobs(x, d) /\ d.queue = x.queue /\ d.ops = x.ops
        /\ d.confirmed = x.confirmed /\ d.session.on = x.session.on /\ d.session.set = x.session.set
        /\ (d.m_authpending => x.m_authpending) /\ d.asked \subseteq x.asked
        /\ (d.session.authorized => x.session.authorized)
    BY <1>1, Zenon DEF Alike
  <2>2. b \in BOOLEAN /\ (x.unrecoverable => b)
    BY <1>3
  <2> QED BY <2>1, <2>2, Refusing
<1> HIDE DEF z
<1> QED BY <1>2, <1>3, <1>5, Zenon DEF Carries

(* A pool that answers what cannot be used is marked, and disconnect is    *)
(* posted.                                                                 *)
LEMMA PoolIsUnusable ==
    ASSUME NEW x, Talks(x), ~x.told, NEW y \in Clients, SameFlags(x, y), SameJobs(x, y),
           y.queue = x.queue, y.ops = x.ops,
           y.confirmed = x.confirmed, y.session.on = x.session.on, y.session.set = x.session.set,
           y.m_authpending => x.m_authpending, y.asked \subseteq x.asked,
           y.session.authorized => x.session.authorized
    PROVE  LET z == Unusable(y)
           IN  /\ Carries(x, z) /\ z.confirmed = x.confirmed
               /\ z.session.on = x.session.on /\ z.session.set = x.session.set /\ z.unrecoverable /\ Watched(z)
<1> DEFINE z == Post([y EXCEPT !.unrecoverable = TRUE], "disconnect")
<1>1. /\ Talks(z) /\ SameFlags(x, z) /\ SameJobs(x, z) /\ z.confirmed = x.confirmed
      /\ z.session.on = x.session.on /\ z.session.set = x.session.set
      /\ z.unrecoverable = TRUE /\ Watched(z)
  BY Zenon, Refusing
<1>2. Unusable(y) = z
  BY DEF Unusable
<1> HIDE DEF z
<1> QED BY <1>1, <1>2, Zenon DEF Carries

(* A step that leaves the rest alone goes on with the conversation.        *)
LEMMA AlikeTalks == ASSUME NEW x, Talks(x), ~x.told, NEW y, Alike(x, y)
                    PROVE  Carries(x, y) /\ SameView(x, y) /\ y.session = x.session
<1>s. Settled(y)
  BY Known, SettledStays DEF Alike
<1>1. Talks(y)
  BY <1>s, Known, TalksMore DEF Alike, SameJobs
<1> QED BY <1>1 DEF Alike, Carries, SameView

(* The authorization that follows a subscription.                          *)
LEMMA AsksMore == ASSUME NEW x, Talks(x), ~x.told, NEW y \in Clients, SameFlags(x, y), SameJobs(x, y),
                         y.queue = x.queue, y.ops = x.ops,
                         y.confirmed = x.confirmed, y.session.on = x.session.on, y.session.set = x.session.set,
                         y.unrecoverable = x.unrecoverable, y.asked \subseteq x.asked, "sub" \notin y.asked,
                         Clean => ~y.session.authorized, x.confirmed, x.session.on
                  PROVE  LET z == AsksAwaited(y, "auth")
                         IN  Carries(x, z) /\ SameView(x, z) /\ z.session.set = x.session.set
<1> DEFINE z == AsksAwaited(y, "auth")
<1>1. "auth" \in Requests
  BY DEF Requests
<1>2. /\ z \in Clients /\ SameFlags(y, z) /\ SameLogin(y, z) /\ z.queue = y.queue
      /\ z.asked = y.asked \union {"auth"}
      /\ z.ops = y.ops \/ (y.m_connected /\ z.ops = y.ops \union {"write"})
  BY <1>1, Asking
<1> HIDE DEF z
<1>3. /\ SameFlags(x, z) /\ SameJobs(x, z) /\ SameView(x, z) /\ z.session.set = x.session.set
      /\ z.queue = x.queue
      /\ z.ops = x.ops \/ (x.m_connected /\ z.ops = x.ops \union {"write"})
  BY ZenonT(60), <1>2 DEF SameFlags, SameJobs, SameLogin, SameView
<1>4. z.confirmed /\ z.session.on
  BY <1>3, Zenon DEF SameView
<1>s. Settled(z) /\ ("login" \in z.asked => "login" \in x.asked)
  BY <1>2 DEF Settled, SameLogin
<1>5. Talks(z)
  BY Zenon, <1>2, <1>3, <1>4, <1>s, Known, TalksMore DEF SameView, SameJobs
<1> QED BY <1>3, <1>5 DEF Carries, z

(* The answer to mining.subscribe.                                         *)
LEMMA Subscribes == ASSUME NEW x, Talks(x), ~x.told, "sub" \in x.asked
                    PROVE  LET z == Subscribed(Answered(x, "sub"))
                           IN  Carries(x, z) /\ SameView(x, z) /\ z.session.set = x.session.set
<1> DEFINE u == Answered(x, "sub")
           d == dequeue_response_plea(u)
           y == [d EXCEPT !.session.subscribed = TRUE, !.m_authpending = TRUE]
<1>1. x \in Clients /\ x.confirmed /\ x.session.on
  BY Known DEF Talks
<1>2. Alike(x, x)
  BY <1>1 DEF Alike, SameFlags, SameJobs
<1>3. Alike(x, u)
  BY <1>2, AlikeAnswered
<1>4. Alike(x, d)
  BY <1>3, AlikePleading
<1>5. "sub" \notin d.asked
  <2>1. u.asked = x.asked \ {"sub"} /\ u \in Clients
    BY <1>1, Answering
  <2>2. Alike(u, d)
    BY <2>1, AlikePleading DEF Alike, SameFlags, SameJobs
  <2> QED BY <2>1, <2>2 DEF Alike
<1>6. u.session.on
  BY <1>1, <1>3 DEF Alike
<1>7. Subscribed(u) = AsksAwaited(y, "auth")
  BY <1>6 DEF Subscribed
<1> HIDE DEF u, d
<1>8. /\ y \in Clients /\ SameFlags(d, y) /\ SameJobs(d, y)
      /\ y.queue = d.queue /\ y.ops = d.ops /\ y.asked = d.asked
      /\ y.confirmed = d.confirmed /\ y.unrecoverable = d.unrecoverable
      /\ y.session.on = d.session.on /\ y.session.set = d.session.set
  <2>1. d \in Clients
    BY <1>4 DEF Alike
  <2> QED BY Zenon, <2>1, Subscribing
<1>s. Clean => ~y.session.authorized
  <2>1. d \in Clients /\ d.session = x.session
    BY <1>4 DEF Alike
  <2>2. Clean => ~x.session.authorized
    BY Known DEF Settled
  <2> QED BY <2>1, <2>2, Granting
<1> HIDE DEF y
<1>9. /\ SameFlags(x, y) /\ SameJobs(x, y) /\ y.queue = x.queue /\ y.ops = x.ops
      /\ y.confirmed = x.confirmed /\ y.session.on = x.session.on /\ y.session.set = x.session.set
      /\ y.unrecoverable = x.unrecoverable /\ y.asked \subseteq x.asked /\ "sub" \notin y.asked
  BY <1>4, <1>5, <1>8 DEF Alike, SameFlags, SameJobs
<1> QED BY ZenonT(60), <1>1, <1>7, <1>8, <1>s, <1>9, AsksMore DEF u

(* The answer that authorizes an account, ...                              *)
LEMMA Authorizes == ASSUME NEW x, Talks(x), ~x.told, "auth" \in x.asked
                    PROVE  LET z == Authorized(Answered(x, "auth"))
                           IN  Carries(x, z) /\ SameView(x, z) /\ z.session.set = x.session.set
<1> DEFINE u == Answered(x, "auth")
           d == dequeue_response_plea(u)
           y == [d EXCEPT !.session.authorized = TRUE, !.m_authpending = FALSE]
<1>1. x \in Clients /\ x.confirmed /\ x.session.on
  BY Known DEF Talks
<1>2. Alike(x, x)
  BY <1>1 DEF Alike, SameFlags, SameJobs
<1>3. Alike(x, u)
  BY <1>2, AlikeAnswered
<1>4. Alike(x, d)
  BY <1>3, AlikePleading
<1>a. "auth" \notin d.asked
  <2>1. u.asked = x.asked \ {"auth"} /\ u \in Clients
    BY <1>1, Answering
  <2>2. Alike(u, d)
    BY <2>1, AlikePleading DEF Alike, SameFlags, SameJobs
  <2> QED BY <2>1, <2>2 DEF Alike
<1>5. u.session.on
  BY <1>1, <1>3 DEF Alike
<1>6. Authorized(u) = y
  BY <1>5 DEF Authorized
<1> HIDE DEF u, d
<1>7. /\ y \in Clients /\ SameFlags(d, y) /\ SameJobs(d, y)
      /\ y.queue = d.queue /\ y.ops = d.ops /\ y.asked = d.asked
      /\ y.confirmed = d.confirmed /\ y.unrecoverable = d.unrecoverable
      /\ y.session.on = d.session.on /\ y.session.set = d.session.set
  <2>1. d \in Clients
    BY <1>4 DEF Alike
  <2> QED BY Zenon, <2>1, Subscribing
<1>m. ~y.m_authpending
  <2>1. d \in Clients
    BY <1>4 DEF Alike
  <2> QED BY <2>1, Granting
<1> HIDE DEF y
<1>8. /\ SameFlags(x, y) /\ SameJobs(x, y) /\ y.queue = x.queue /\ y.ops = x.ops
      /\ y.confirmed = x.confirmed /\ y.session.on = x.session.on /\ y.session.set = x.session.set
      /\ y.unrecoverable = x.unrecoverable /\ y.asked \subseteq x.asked
  BY <1>4, <1>7 DEF Alike, SameFlags, SameJobs
<1>9. y.session.on /\ y.confirmed
  BY <1>1, <1>8, Zenon
<1>s. Settled(y)
  <2>1. Clean => "sub" \notin x.asked
    BY Known DEF Settled
  <2> QED BY <1>a, <1>m, <1>7, <1>8, <1>9, <2>1 DEF Settled
<1>10. Talks(y)
  BY Zenon, <1>m, <1>7, <1>8, <1>9, <1>s, Known, TalksMore DEF SameJobs
<1> QED BY <1>6, <1>8, <1>10 DEF u, Carries, SameView

(* ... and the one that refuses it.                                        *)
LEMMA NotAuthorizes == ASSUME NEW x, Talks(x), ~x.told, "auth" \in x.asked
                       PROVE  LET z == NotAuthorized(Answered(x, "auth"))
                              IN  /\ Carries(x, z) /\ z.confirmed = x.confirmed /\ z.unrecoverable
                                  /\ z.session.on = x.session.on /\ z.session.set = x.session.set
<1> DEFINE u == Answered(x, "auth")
           d == dequeue_response_plea(u)
           y == [d EXCEPT !.session.authorized = FALSE, !.m_authpending = FALSE]
<1>1. x \in Clients /\ x.confirmed /\ x.session.on
  BY Known DEF Talks
<1>2. Alike(x, x)
  BY <1>1 DEF Alike, SameFlags, SameJobs
<1>3. Alike(x, u)
  BY <1>2, AlikeAnswered
<1>4. Alike(x, d)
  BY <1>3, AlikePleading
<1>5. u.session.on
  BY <1>1, <1>3, Zenon DEF Alike
<1>6. NotAuthorized(u) = IF u.mode = 3 THEN Unusable(d) ELSE Unusable(y)
  BY <1>5 DEF NotAuthorized
<1> HIDE DEF u, d
<1>d. d \in Clients
  BY <1>4 DEF Alike
<1>7. /\ y \in Clients /\ SameFlags(d, y) /\ SameJobs(d, y)
      /\ y.queue = d.queue /\ y.ops = d.ops /\ y.asked = d.asked
      /\ y.confirmed = d.confirmed /\ y.unrecoverable = d.unrecoverable
      /\ y.session.on = d.session.on /\ y.session.set = d.session.set
  BY Zenon, <1>d, Subscribing
<1>m. ~y.m_authpending /\ ~y.session.authorized
  <2>1. ~y.m_authpending
    BY <1>d DEF Clients
  <2> QED BY <1>d, <2>1, Granting
<1> HIDE DEF y
<1>8. /\ SameFlags(x, y) /\ SameJobs(x, y) /\ y.queue = x.queue /\ y.ops = x.ops
      /\ y.confirmed = x.confirmed /\ y.session.on = x.session.on /\ y.session.set = x.session.set
      /\ y.asked \subseteq x.asked
  BY <1>4, <1>7 DEF Alike, SameFlags, SameJobs
<1>9. LET z == Unusable(d)
      IN  /\ Carries(x, z) /\ z.confirmed = x.confirmed
          /\ z.session.on = x.session.on /\ z.session.set = x.session.set /\ z.unrecoverable
  BY <1>4, PoolIsUnusable DEF Alike
<1>10. LET z == Unusable(y)
       IN  /\ Carries(x, z) /\ z.confirmed = x.confirmed
           /\ z.session.on = x.session.on /\ z.session.set = x.session.set /\ z.unrecoverable
  BY <1>7, <1>m, <1>8, PoolIsUnusable
<1> QED BY <1>6, <1>9, <1>10 DEF u

(* Jobs, difficulties and extranonces are noted.                           *)
LEMMA Notes == ASSUME NEW x, Talks(x), ~x.told, x.mode \in Modes, NEW n \in 1..2
               PROVE  LET z == notify(x, n)
                      IN  /\ Talks(z) /\ SameFlags(x, z) /\ z.mode = x.mode /\ z.crashed = x.crashed
                          /\ SameView(x, z) /\ z.session = x.session /\ z.asked = x.asked
<1> DEFINE z == notify(x, n)
           y == [x EXCEPT !.last = n]
<1>1. x \in Clients /\ n \in 0..2
  BY DEF Talks
<1>2. z = NewJob(y, n) \/ z = y
  <2> HIDE DEF y
  <2>1. z = IF x.mode = 3 THEN NotifyV2(y, n) ELSE NotifyV1(y, n)
    BY DEF notify, y
  <2> QED BY <2>1 DEF NotifyV1, NotifyV2
<1>3. y \in Clients
  BY <1>1, Zenon DEF Clients
<1>4. /\ SameFlags(x, y) /\ y.mode = x.mode /\ y.crashed = x.crashed /\ SameView(x, y) /\ y.session = x.session
      /\ y.queue = x.queue /\ y.ops = x.ops /\ y.m_authpending = x.m_authpending /\ y.asked = x.asked
  BY <1>1 DEF Clients, SameFlags, SameView
<1> HIDE DEF y
<1>5. /\ z \in Clients
      /\ SameFlags(y, z) /\ z.mode = y.mode /\ z.crashed = y.crashed /\ SameView(y, z) /\ z.session = y.session
      /\ z.queue = y.queue /\ z.ops = y.ops /\ z.m_authpending = y.m_authpending /\ z.asked = y.asked
  <2>1. CASE z = y
    BY <1>3, <1>4, <2>1 DEF SameFlags, SameView
  <2>2. CASE z = NewJob(y, n)
    <3>1. z = [y EXCEPT !.current = n, !.stale = FALSE]
      BY <2>2 DEF NewJob
    <3>2. [y EXCEPT !.current = n, !.stale = FALSE] \in Clients
      BY <1>1, <1>3, ZenonT(60) DEF Clients
    <3>3. z \in Clients
      BY <3>1, <3>2
    <3> HIDE DEF z
    <3>4. /\ SameFlags(y, z) /\ z.mode = y.mode /\ z.crashed = y.crashed /\ SameView(y, z) /\ z.session = y.session
          /\ z.queue = y.queue /\ z.ops = y.ops /\ z.m_authpending = y.m_authpending /\ z.asked = y.asked
      BY <1>3, <3>1 DEF Clients, SameFlags, SameView
    <3> QED BY <1>4, <3>3, <3>4
  <2> QED BY <1>2, <2>1, <2>2
<1> HIDE DEF z
<1>6. /\ SameFlags(x, z) /\ z.mode = x.mode /\ z.crashed = x.crashed /\ SameView(x, z) /\ z.session = x.session
      /\ z.queue = x.queue /\ z.ops = x.ops /\ z.m_authpending = x.m_authpending /\ z.asked = x.asked
  BY <1>4, <1>5 DEF SameFlags, SameView
<1>s. Settled(z)
  BY <1>6, Known, SettledStays
<1>7. Talks(z)
  BY <1>5, <1>6, <1>s, Known, TalksMore DEF SameView
<1> QED BY <1>6, <1>7 DEF z

(* Sending goes on with the conversation.                                  *)
LEMMA SendTalks == ASSUME NEW x, Talks(x), ~x.told
                   PROVE  Carries(x, send(x)) /\ SameMind(x, send(x))
<1> DEFINE z == send(x)
<1>1. /\ z \in Clients /\ SameFlags(x, z) /\ SameMind(x, z) /\ z.queue = x.queue
      /\ z.ops = x.ops \/ (x.m_connected /\ z.ops = x.ops \union {"write"})
  BY Zenon, Sending DEF Talks
<1> HIDE DEF z
<1>s. Settled(z)
  BY <1>1, Known, SettledStays DEF SameMind, SameLogin
<1>2. Talks(z)
  BY <1>1, <1>s, Known, TalksMore DEF SameMind, SameLogin
<1> QED BY <1>1, <1>2 DEF Carries, SameMind, SameLogin, SameJobs, z

(* mining.set of stratum mode 3.                                           *)
LEMMA SetsUp == ASSUME NEW x, Talks(x), ~x.told
                PROVE  LET z == MiningSet(x)
                       IN  \/ x.mode \in {2, 3} /\ ~x.session.on /\ z = Crash(x)
                           \/ /\ Carries(x, z) /\ SameView(x, z) /\ z.asked = x.asked
                              /\ x.session.set => z.session.set
<1> DEFINE z == MiningSet(x)
           b == x.session.set \/ x.mode = 3
           y == [x EXCEPT !.session = [x.session EXCEPT !.set = b]]
<1>1. CASE x.mode \in {2, 3} /\ ~x.session.on
  BY <1>1 DEF MiningSet
<1>2. CASE x.mode \in {2, 3} /\ x.session.on
  <2>1. z = y
    BY <1>2 DEF MiningSet
  <2>2. x \in Clients /\ x.session \in [on : BOOLEAN, subscribed : BOOLEAN, authorized : BOOLEAN, set : BOOLEAN]
    BY Zenon DEF Talks, Clients
  <2>3. b \in BOOLEAN /\ (x.session.set => b)
    BY <2>2
  <2> HIDE DEF b
  <2> DEFINE s == [x.session EXCEPT !.set = b]
  <2>4. /\ s \in [on : BOOLEAN, subscribed : BOOLEAN, authorized : BOOLEAN, set : BOOLEAN]
        /\ s.on = x.session.on /\ s.set = b /\ s.authorized = x.session.authorized
    BY <2>2, <2>3
  <2> HIDE DEF s
  <2>5. [x EXCEPT !.session = s] \in Clients
    BY <2>2, <2>4, Zenon DEF Clients
  <2>6. ASSUME NEW w, w = [x EXCEPT !.session = s]
        PROVE  /\ SameFlags(x, w) /\ SameJobs(x, w) /\ w.queue = x.queue /\ w.ops = x.ops /\ w.session = s
               /\ w.confirmed = x.confirmed /\ w.unrecoverable = x.unrecoverable
               /\ w.m_authpending = x.m_authpending /\ w.asked = x.asked
    BY <2>2, <2>6 DEF Clients, SameFlags, SameJobs
  <2>7. z = [x EXCEPT !.session = s]
    BY <2>1 DEF s
  <2> HIDE DEF z
  <2>8. /\ z \in Clients
        /\ SameFlags(x, z) /\ SameJobs(x, z) /\ z.queue = x.queue /\ z.ops = x.ops /\ z.session = s
        /\ z.confirmed = x.confirmed /\ z.unrecoverable = x.unrecoverable
        /\ z.m_authpending = x.m_authpending /\ z.asked = x.asked
    BY <2>5, <2>6, <2>7
  <2>9. /\ z.session.on = x.session.on /\ z.session.on /\ (x.session.set => z.session.set)
        /\ z.session.authorized = x.session.authorized
    BY <1>2, <2>3, <2>4, <2>8, Zenon
  <2>s. Settled(z)
    BY <2>8, <2>9, Known, SettledStays
  <2>10. Talks(z)
    BY <2>8, <2>9, <2>s, Known, TalksMore DEF SameJobs
  <2> QED BY Zenon, <2>8, <2>9, <2>10 DEF Carries, SameView, z
<1>3. CASE x.mode \notin {2, 3}
  <2>1. z = send(x)
    BY <1>3 DEF MiningSet
  <2>2. Carries(x, send(x)) /\ SameMind(x, send(x))
    BY SendTalks
  <2> QED BY <2>1, <2>2 DEF SameMind, SameLogin, SameView
<1> QED BY <1>1, <1>2, <1>3

(* The answers of a pool, ...                                              *)
Answers == {"login", "loginBad", "sub", "subBad", "auth", "authBad", "share", "work"}

(* ... those that refuse, ...                                              *)
Refusals == {"loginBad", "subBad", "authBad"}

(* ... and every kind of message.                                          *)
Kinds == Answers \union Notifications \union {"invalid", "err999"}

(* The pool is asked before it answers.                                    *)
Fits(x, m) == /\ m \in Kinds
              /\ m \in Answers => Request[m] \in x.asked

(* What a message may do to the client.                                    *)
Does(x, m, z) ==
    \/ /\ Carries(x, z) \/ (m \in {"notify", "work"} /\ Talks(z) /\ SameFlags(x, z) /\ z.mode = x.mode
                                                     /\ z.crashed = x.crashed)
       /\ m \in Notifications => z.asked = x.asked
       /\ IF m = "login" THEN z.confirmed /\ z.session.on /\ z.unrecoverable = x.unrecoverable
          ELSE /\ z.confirmed = x.confirmed /\ z.session.on = x.session.on
               /\ z.unrecoverable = x.unrecoverable \/ (m \in Refusals /\ x.confirmed /\ z.unrecoverable)
    \/ m = "set" /\ x.confirmed /\ x.mode \in {2, 3} /\ ~x.session.on /\ z = Crash(x)

(* Every notification goes on with the conversation or crashes for want of *)
(* a session.                                                              *)
LEMMA Notifying == ASSUME NEW x, Talks(x), ~x.told, x.mode \in Modes, NEW m \in Notifications, NEW n \in 1..2
                   PROVE  Does(x, m, Notification(x, m, n))
<1> DEFINE z == Notification(x, m, n)
<1> USE DEF Notifications
<1>1. ASSUME Carries(x, z), SameView(x, z), z.asked = x.asked, x.session.set => z.session.set
      PROVE  Does(x, m, z)
  BY <1>1, Zenon DEF Does, SameView, Carries
<1>2. CASE z = x
  BY <1>1, <1>2 DEF Carries, SameView, SameFlags, SameJobs
<1>3. CASE z = send(x)
  BY <1>1, <1>3, SendTalks DEF SameView, SameMind, SameLogin
<1>4. CASE z = Post(x, "disconnect")
  <2>1. Talks(z) /\ SameFlags(x, z) /\ SameMind(x, z)
    BY <1>4, TalksOut
  <2> HIDE DEF z
  <2>2. Carries(x, z) /\ SameView(x, z) /\ z.session = x.session /\ z.asked = x.asked
    BY <2>1 DEF Carries, SameJobs, SameView, SameMind, SameLogin
  <2> QED BY <1>1, <2>2 DEF z
<1>5. CASE z = notify(x, n) /\ m = "notify"
  <2>1. /\ Talks(z) /\ SameFlags(x, z) /\ z.mode = x.mode /\ z.crashed = x.crashed
        /\ SameView(x, z) /\ z.session = x.session /\ z.asked = x.asked
    BY <1>5, Notes
  <2> QED BY <1>5, <2>1, Zenon DEF Does, SameView
<1>6. CASE z = MiningSet(x) /\ m = "set" /\ x.confirmed
  <2>1. \/ x.mode \in {2, 3} /\ ~x.session.on /\ z = Crash(x)
        \/ Carries(x, z) /\ SameView(x, z) /\ z.asked = x.asked /\ (x.session.set => z.session.set)
    BY <1>6, SetsUp
  <2> QED BY Zenon, <1>1, <1>6, <2>1 DEF Does
<1> QED BY <1>2, <1>3, <1>4, <1>5, <1>6 DEF Notification

(* Every answer goes on with the conversation or ends it by a posted       *)
(* disconnect.                                                             *)
LEMMA AnswerHandled == ASSUME NEW x, Talks(x), ~x.told, x.mode \in Modes, NEW m \in Answers \union {"err999"}, Fits(x, m), NEW n \in 1..2
                    PROVE  Does(x, m, Answer(x, m, n))
<1>n. m \notin Notifications
  BY DEF Answers, Notifications
<1> DEFINE z == Answer(x, m, n)
<1>0. x \in Clients /\ Alike(x, x)
  BY DEF Talks, Alike, SameFlags, SameJobs
<1>1. ASSUME Carries(x, z), z.session.set = x.session.set, z.confirmed = x.confirmed, z.session.on = x.session.on,
             z.unrecoverable = x.unrecoverable \/ (m \in Refusals /\ x.confirmed /\ z.unrecoverable), m # "login"
      PROVE  Does(x, m, z)
  BY <1>n, <1>1, Zenon DEF Does, Carries
<1>2. CASE m = "login"
  <2>1. z = LoginAccepted(Answered(x, "login")) /\ "login" \in x.asked
    BY <1>2 DEF Answer, Fits, Answers, Request
  <2>2. /\ Talks(z) /\ SameFlags(x, z) /\ SameJobs(x, z)
        /\ z.confirmed /\ z.session.on /\ z.unrecoverable = x.unrecoverable
    BY <2>1, LoginIsAccepted
  <2> QED BY <1>n, <1>2, <2>2, Zenon DEF Does, Carries, SameJobs
<1>3. CASE m = "loginBad"
  <2> DEFINE y == Answered(x, "login")
  <2>1. z = LoginRefused(y)
    BY <1>3 DEF Answer
  <2>5. Alike(x, y)
    BY <1>0, AlikeAnswered
  <2> HIDE DEF y
  <2>7. /\ Carries(x, z) /\ z.confirmed = x.confirmed
        /\ z.session.on = x.session.on /\ z.session.set = x.session.set
        /\ z.unrecoverable = (x.unrecoverable \/ x.confirmed)
    BY <2>1, <2>5, LoginIsRefused
  <2>8. z.unrecoverable = x.unrecoverable \/ (x.confirmed /\ z.unrecoverable)
    BY <1>0, <2>7 DEF Clients
  <2> QED BY <1>1, <1>3, <2>7, <2>8 DEF Refusals
<1>4. CASE m = "sub"
  <2>1. z = Subscribed(Answered(x, "sub")) /\ "sub" \in x.asked
    BY <1>4 DEF Answer, Fits, Answers, Request
  <2>2. Carries(x, z) /\ SameView(x, z) /\ z.session.set = x.session.set
    BY <2>1, Subscribes
  <2> QED BY <1>1, <1>4, <2>2 DEF SameView
<1>5. CASE m = "subBad"
  <2> DEFINE u == Answered(x, "sub")
             d == dequeue_response_plea(u)
  <2>1. z = Unusable(d)
    BY <1>5 DEF Answer
  <2>4. Alike(x, u)
    BY <1>0, AlikeAnswered
  <2>5. Alike(x, d)
    BY <2>4, AlikePleading
  <2> HIDE DEF d
  <2>6. /\ Carries(x, z) /\ z.confirmed = x.confirmed
        /\ z.session.on = x.session.on /\ z.session.set = x.session.set /\ z.unrecoverable
    BY <2>1, <2>5, PoolIsUnusable DEF Alike
  <2>7. x.confirmed
    BY <1>5, Known DEF Fits, Answers, Request
  <2> QED BY <1>1, <1>5, <2>6, <2>7 DEF Refusals
<1>6. CASE m = "auth"
  <2>1. z = Authorized(Answered(x, "auth")) /\ "auth" \in x.asked
    BY <1>6 DEF Answer, Fits, Answers, Request
  <2>2. Carries(x, z) /\ SameView(x, z) /\ z.session.set = x.session.set
    BY <2>1, Authorizes
  <2> QED BY <1>1, <1>6, <2>2 DEF SameView
<1>7. CASE m = "authBad"
  <2>1. z = NotAuthorized(Answered(x, "auth")) /\ "auth" \in x.asked
    BY <1>7 DEF Answer, Fits, Answers, Request
  <2>2. /\ Carries(x, z) /\ z.confirmed = x.confirmed /\ z.unrecoverable
        /\ z.session.on = x.session.on /\ z.session.set = x.session.set
    BY <2>1, NotAuthorizes
  <2>3. x.confirmed
    BY <2>1, Known
  <2> QED BY <1>1, <1>7, <2>2, <2>3 DEF Refusals
<1>8. CASE m = "share"
  <2>1. z = dequeue_response_plea(Answered(x, "share"))
    BY <1>8 DEF Answer
  <2>2. Alike(x, z)
    BY <1>0, <2>1, AlikeAnswered, AlikePleading
  <2> QED BY <1>1, <1>8, <2>2, AlikeTalks DEF SameView
<1>9. CASE m = "work"
  <2> DEFINE y == Answered(x, "work")
  <2>1. z = IF y.confirmed THEN notify(y, n) ELSE y
    BY <1>9 DEF Answer, Notification
  <2>2. Alike(x, y)
    BY <1>0, AlikeAnswered
  <2> HIDE DEF y
  <2>3. Carries(x, y) /\ SameView(x, y) /\ y.session = x.session
    BY <2>2, AlikeTalks
  <2>4. CASE z = y
    BY <1>1, <1>9, <2>3, <2>4 DEF SameView
  <2>5. CASE z = notify(y, n)
    <3>1. ~y.told /\ Talks(y) /\ y.mode \in Modes
      BY <2>3 DEF Carries, SameFlags, SameJobs
    <3>2. /\ Talks(z) /\ SameFlags(y, z) /\ z.mode = y.mode /\ z.crashed = y.crashed
          /\ SameView(y, z) /\ z.session = y.session
      BY <2>5, <3>1, Notes
    <3> HIDE DEF z
    <3>4. SameFlags(x, z) /\ z.mode = x.mode /\ z.crashed = x.crashed /\ SameView(x, z)
      BY <2>3, <3>2 DEF Carries, SameFlags, SameJobs, SameView
    <3> QED BY <1>n, <1>9, <3>2, <3>4, Zenon DEF Does, SameView, z
  <2> QED BY <2>1, <2>4, <2>5
<1>10. CASE m = "err999"
  <2> DEFINE y == [x EXCEPT !.asked = {}]
  <2>1. z = UnknownRefused(y)
    BY <1>10 DEF Answer
  <2>2. y \in Clients
    <3>1. {} \in SUBSET {"login", "sub", "auth", "work", "share"}
      OBVIOUS
    <3> QED BY <1>0, <3>1, Zenon DEF Clients
  <2>3. /\ SameFlags(x, y) /\ SameJobs(x, y) /\ y.queue = x.queue /\ y.ops = x.ops
        /\ y.confirmed = x.confirmed /\ y.session = x.session /\ y.unrecoverable = x.unrecoverable
        /\ y.m_authpending = x.m_authpending /\ y.asked = {}
    BY <1>0 DEF Clients, SameFlags, SameJobs
  <2> HIDE DEF y
  <2>4. Alike(x, y)
    BY <2>2, <2>3 DEF Alike
  <2>5. Carries(x, y) /\ SameView(x, y) /\ y.session = x.session
    BY <2>4, AlikeTalks
  <2>6. CASE z = y
    BY <1>1, <1>10, <2>5, <2>6 DEF SameView
  <2>7. CASE z = Post(y, "disconnect")
    <3>1. Talks(z) /\ SameFlags(y, z) /\ SameMind(y, z)
      BY <2>5, <2>7, TalksOut DEF Carries
    <3> HIDE DEF z
    <3>2. Carries(x, z) /\ SameView(x, z) /\ z.session = x.session
      BY <2>5, <3>1 DEF Carries, SameFlags, SameJobs, SameView, SameMind, SameLogin
    <3> QED BY <1>1, <1>10, <3>2 DEF SameView, z
  <2> QED BY <2>1, <2>6, <2>7 DEF UnknownRefused
<1> QED BY <1>2, <1>3, <1>4, <1>5, <1>6, <1>7, <1>8, <1>9, <1>10 DEF Answers

(* What the pool manager may see of a transmission.                        *)
Moves(x, z) == /\ SameFlags(x, z) /\ z.mode = x.mode
               /\ \/ SameView(x, z)
                  \/ /\ ~x.told /\ "login" \in x.asked
                     /\ z.confirmed /\ z.session.on /\ z.unrecoverable = x.unrecoverable
                  \/ /\ ~x.told /\ x.confirmed
                     /\ z.confirmed /\ z.session.on = x.session.on /\ z.unrecoverable

(* A pool that has authorized the account is not held to be unusable.      *)
Spares(x, z) == Clean /\ x.session.authorized => z.unrecoverable = x.unrecoverable

(* A pool that has authorized the account has nothing left to refuse.      *)
LEMMA Granted == ASSUME NEW x, Talks(x), ~x.told, Clean, x.session.authorized, NEW m, Fits(x, m)
                 PROVE  m \notin Refusals
BY DEF Talks, Knowledge, Fits, Refusals, Answers, Request

(* Where a message finds no session.                                       *)
Sessionless(x) == x.told \/ (x.confirmed /\ x.mode \in {2, 3} /\ ~x.session.on)

(* processResponse, for every message a pool sends.                        *)
LEMMA Processing == ASSUME NEW x, Talks(x), ~x.crashed, x.mode \in Modes, NEW m, Fits(x, m), NEW n \in 1..2, NEW z, z = processResponse(x, m, n)
                    PROVE  /\ z \in Clients /\ Moves(x, z)
                           /\ z.crashed => x.told \/ (m = "set" /\ Sessionless(x))
                           /\ ~z.crashed => ~x.told /\ Does(x, m, z) /\ Talks(z)
                           /\ m \notin Answers => SameView(x, z)
                           /\ m \in Notifications /\ ~z.crashed => z.asked = x.asked
                           /\ x.session.on => z.session.on
                           /\ m \notin Refusals => z.unrecoverable = x.unrecoverable
<1>0. x \in Clients
  BY DEF Talks
<1>1. CASE x.told
  <2>1. z = Crash(x)
    BY <1>1 DEF processResponse
  <2>2. /\ z \in Clients /\ z.crashed /\ SameFlags(x, z) /\ z.mode = x.mode /\ SameView(x, z)
        /\ z.session = x.session
    BY <1>0, <2>1, CrashMoves
  <2> QED BY <1>0, <1>1, <2>2 DEF Moves, SameView
<1>2. CASE ~x.told /\ m = "invalid"
  <2>1. z = Post(x, "disconnect")
    BY <1>2 DEF processResponse, Notifications
  <2>2. Talks(z) /\ SameFlags(x, z) /\ SameMind(x, z)
    BY <2>1, TalksOut
  <2>3. Carries(x, z) /\ SameView(x, z) /\ z.session = x.session
    BY <2>2 DEF Carries, SameJobs, SameView, SameMind, SameLogin
  <2>4. m \notin Notifications /\ m \notin Answers /\ m # "login"
    BY <1>2 DEF Notifications, Answers
  <2>6. Does(x, m, z)
    BY <2>3, <2>4, Zenon DEF Does, SameView
  <2>7. ~z.crashed /\ z \in Clients /\ Moves(x, z)
    BY <2>2, <2>3 DEF Moves, Talks, SameMind, SameLogin
  <2> QED BY <1>2, <2>2, <2>3, <2>4, <2>6, <2>7 DEF SameView
<1>3. CASE ~x.told /\ m # "invalid"
  <2>1. Does(x, m, z)
    <3>1. CASE m \in Notifications
      <4>1. z = Notification(x, m, n)
        BY <1>3, <3>1 DEF processResponse
      <4> QED BY <1>3, <3>1, <4>1, Notifying
    <3>2. CASE m \notin Notifications
      <4>1. z = Answer(x, m, n)
        BY <1>3, <3>2 DEF processResponse
      <4>2. m \in Answers \union {"err999"}
        BY <1>3, <3>2 DEF Fits, Kinds
      <4> QED BY <1>3, <4>1, <4>2, AnswerHandled
    <3> QED BY <3>1, <3>2
  <2>2. CASE z = Crash(x) /\ m = "set" /\ x.confirmed /\ x.mode \in {2, 3} /\ ~x.session.on
    <3>1. /\ z \in Clients /\ z.crashed /\ SameFlags(x, z) /\ z.mode = x.mode /\ SameView(x, z)
          /\ z.session = x.session
      BY <1>0, <2>2, CrashMoves
    <3> QED BY <1>0, <2>2, <3>1 DEF Moves, Sessionless, SameView
  <2>3. CASE ~(z = Crash(x) /\ m = "set" /\ x.confirmed /\ x.mode \in {2, 3} /\ ~x.session.on)
    <3>1. /\ Talks(z) /\ SameFlags(x, z) /\ z.mode = x.mode /\ z.crashed = x.crashed
          /\ m \in Notifications => z.asked = x.asked
          /\ IF m = "login" THEN z.confirmed /\ z.session.on /\ z.unrecoverable = x.unrecoverable
             ELSE /\ z.confirmed = x.confirmed /\ z.session.on = x.session.on
                  /\ z.unrecoverable = x.unrecoverable \/ (m \in Refusals /\ x.confirmed /\ z.unrecoverable)
      BY <2>1, <2>3, Zenon DEF Does, Carries, SameJobs
    <3>2. z \in Clients /\ ~z.crashed
      BY <3>1 DEF Talks
    <3>3. m = "login" => "login" \in x.asked
      BY DEF Fits, Answers, Request
    <3>4. Moves(x, z)
      BY <1>3, <3>1, <3>3 DEF Moves, SameView
    <3>5. m \notin Answers => SameView(x, z)
      BY <3>1 DEF SameView, Answers, Refusals
    <3>6. x.session.on => z.session.on
      BY <3>1, Zenon
    <3>7. m \notin Refusals => z.unrecoverable = x.unrecoverable
      BY <3>1, Zenon
    <3> QED BY <1>3, <2>1, <3>1, <3>2, <3>4, <3>5, <3>6, <3>7
  <2> QED BY <2>2, <2>3
<1> QED BY <1>1, <1>2, <1>3

(* The messages of a pool are answers to what was asked, or notifications. *)
LEMMA MessagesFit == ASSUME NEW x, NEW m \in Messages(x)
                     PROVE  Fits(x, m) /\ (m = "set" => EarlyNotify \/ x.session.on)
<1>1. ASSUME NEW a, NEW k, m \in Accepts(x, a, k) PROVE m = k /\ a \in x.asked
  BY <1>1 DEF Accepts
<1>2. CASE m \in Accepts(x, "login", IF LoginFits(x) THEN "login" ELSE "loginBad")
  <2>1. m \in {"login", "loginBad"} /\ "login" \in x.asked
    BY <1>1, <1>2
  <2> QED BY <2>1 DEF Fits, Kinds, Answers, Request
<1>3. CASE \/ m \in Accepts(x, "sub", "sub") \/ m \in Accepts(x, "sub", "subBad")
           \/ m \in Accepts(x, "auth", "auth") \/ m \in Accepts(x, "auth", "authBad")
           \/ m \in Accepts(x, "share", "share") \/ m \in Accepts(x, "work", "work")
  <2>1. \/ m \in {"sub", "subBad"} /\ "sub" \in x.asked
        \/ m \in {"auth", "authBad"} /\ "auth" \in x.asked
        \/ m \in {"share"} /\ "share" \in x.asked
        \/ m \in {"work"} /\ "work" \in x.asked
    BY <1>1, <1>3
  <2> QED BY <2>1 DEF Fits, Kinds, Answers, Request
<1>4. CASE m = "err999"
  BY <1>4 DEF Fits, Kinds, Answers
<1>5. CASE m \in Notifications \union {"invalid"} /\ (EarlyNotify \/ x.session.on)
  BY <1>5 DEF Fits, Kinds, Answers, Notifications
<1>6. \/ m \in {"err999"} \/ (m \in Notifications \union {"invalid"} /\ (EarlyNotify \/ x.session.on))
      \/ m \in Accepts(x, "login", IF LoginFits(x) THEN "login" ELSE "loginBad")
      \/ m \in Accepts(x, "sub", "sub") \/ m \in Accepts(x, "sub", "subBad")
      \/ m \in Accepts(x, "auth", "auth") \/ m \in Accepts(x, "auth", "authBad")
      \/ m \in Accepts(x, "share", "share") \/ m \in Accepts(x, "work", "work")
  BY Zenon DEF Messages
<1> QED BY <1>2, <1>3, <1>4, <1>5, <1>6

(* Every request is one of these.                                          *)
LEMMA RequestsAre == DOMAIN Request = Answers
BY DEF Request, Answers

(* In which states a message finds a session.                              *)
LEMMA SessionIsThere == ASSUME NEW x, Talks(x), ~x.told, Harmless, EarlyNotify \/ x.session.on
                        PROVE  ~Sessionless(x)
<1>1. CASE x.session.on
  BY <1>1 DEF Sessionless
<1>2. CASE EarlyNotify
  <2>1. Version \notin {2, 3}
    BY <1>2 DEF Harmless
  <2>2. CASE Version = Unset
    BY <2>2, Known DEF Sessionless
  <2>3. CASE Version # Unset
    BY <2>1, <2>3 DEF Sessionless, Talks, Knowledge, Unset
  <2> QED BY <2>2, <2>3
<1> QED BY <1>1, <1>2

(* Two messages, one after the other.                                      *)
LEMMA MovesOn == ASSUME NEW x, NEW y, NEW z, Moves(x, y), Moves(y, z),
                        SameView(y, z) \/ (SameView(x, y) /\ y.asked = x.asked)
                 PROVE  Moves(x, z)
<1>1. SameFlags(x, z) /\ z.mode = x.mode /\ y.told = x.told
  BY DEF Moves, SameFlags
<1>2. CASE SameView(y, z)
  BY <1>1, <1>2 DEF Moves, SameView
<1>3. CASE SameView(x, y) /\ y.asked = x.asked
  BY <1>1, <1>3 DEF Moves, SameView
<1> QED BY <1>2, <1>3

(* The one or two messages of a read, in the order in which they are       *)
(* processed.                                                              *)
LEMMA Transmission ==
    ASSUME NEW x, Talks(x), ~x.crashed, x.mode \in Modes,
           NEW u, u.asked = x.asked, u.session = x.session, NEW s \in Transmissions(u), NEW z, z = Processed(x, s)
    PROVE  /\ z \in Clients /\ Moves(x, z)
           /\ ~z.crashed => Talks(z)
           /\ ~x.told /\ Harmless => ~z.crashed
           /\ Spares(x, z)
<1>0. x \in Clients /\ 1 \in 1..2 /\ 2 \in 1..2
  BY DEF Talks
<1>g. ASSUME NEW m, Fits(x, m), ~x.told, Clean, x.session.authorized PROVE m \notin Refusals
  BY <1>g, Granted
<1>f. ASSUME NEW m \in Messages(u) PROVE Fits(x, m) /\ (m = "set" => EarlyNotify \/ x.session.on)
  BY MessagesFit DEF Fits
<1>1. CASE s = <<>>
  <2>1. z = x
    BY <1>1 DEF Processed
  <2> QED BY <1>0, <2>1 DEF Moves, SameFlags, SameView, Spares
<1>2. CASE \E m \in Messages(u) : s = <<m>>
  <2>1. PICK m \in Messages(u) : s = <<m>>
    BY <1>2
  <2>2. z = processResponse(x, m, 1)
    BY <2>1 DEF Processed
  <2>3. Fits(x, m) /\ (m = "set" => EarlyNotify \/ x.session.on)
    BY <1>f
  <2>4. /\ z \in Clients /\ Moves(x, z)
        /\ z.crashed => x.told \/ (m = "set" /\ Sessionless(x))
        /\ ~z.crashed => Talks(z)
        /\ m \notin Refusals => z.unrecoverable = x.unrecoverable
    BY <1>0, <2>2, <2>3, Processing
  <2>5. Spares(x, z)
    BY <1>g, <2>3, <2>4 DEF Spares, Moves, SameView
  <2> QED BY <2>3, <2>4, <2>5, SessionIsThere
<1>3. CASE /\ s \in Messages(u) \X Messages(u)
           /\ s[1] \in Notifications \/ (s[1] \in DOMAIN Request /\ s[2] \notin DOMAIN Request)
  <2> DEFINE m == s[1]
             k == s[2]
             y == processResponse(x, m, 1)
  <2>1. m \in Messages(u) /\ k \in Messages(u) /\ Len(s) = 2
    BY <1>3
  <2>2. z = processResponse(y, k, 2)
    BY <2>1 DEF Processed
  <2>3. m \in Notifications \/ (m \in Answers /\ k \notin Answers)
    BY <1>3, RequestsAre
  <2>4. Fits(x, m) /\ (m = "set" => EarlyNotify \/ x.session.on)
    BY <1>f, <2>1
  <2>5. Fits(x, k) /\ (k = "set" => EarlyNotify \/ x.session.on)
    BY <1>f, <2>1
  <2>y. y = processResponse(x, m, 1)
    OBVIOUS
  <2> HIDE DEF m, k, y
  <2>6. /\ y \in Clients /\ Moves(x, y)
        /\ y.crashed => x.told \/ (m = "set" /\ Sessionless(x))
        /\ ~y.crashed => ~x.told /\ Talks(y)
        /\ m \notin Answers => SameView(x, y)
        /\ m \in Notifications /\ ~y.crashed => y.asked = x.asked
        /\ x.session.on => y.session.on
        /\ m \notin Refusals => y.unrecoverable = x.unrecoverable
    BY <1>0, <2>4, <2>y, Processing
  <2>7. CASE y.crashed
    <3>1. z = y
      BY <2>2, <2>7 DEF processResponse
    <3>2. Spares(x, z)
      BY <1>g, <2>4, <2>6, <3>1 DEF Spares, Moves, SameView
    <3> QED BY <2>4, <2>6, <2>7, <3>1, <3>2, SessionIsThere
  <2>8. CASE ~y.crashed
    <3>1. Fits(y, k) /\ y.mode \in Modes
      BY <2>3, <2>5, <2>6, <2>8 DEF Fits, Moves
    <3>2. /\ z \in Clients /\ Moves(y, z)
          /\ z.crashed => y.told \/ (k = "set" /\ Sessionless(y))
          /\ ~z.crashed => Talks(z)
          /\ k \notin Answers => SameView(y, z)
          /\ k \notin Refusals => z.unrecoverable = y.unrecoverable
      BY <1>0, <2>2, <2>6, <2>8, <3>1, Processing
    <3>3. m \in Notifications => m \notin Answers
      BY DEF Notifications, Answers
    <3>4. Moves(x, z)
      BY <2>3, <2>6, <2>8, <3>2, <3>3, MovesOn
    <3>5. ~y.told
      BY <2>6, <2>8 DEF Moves, SameFlags
    <3>6. Harmless /\ k = "set" => ~Sessionless(y)
      BY <2>5, <2>6, <2>8, <3>5, SessionIsThere
    <3>7. Spares(x, z)
      BY <1>g, <2>4, <2>5, <2>6, <2>8, <3>2 DEF Spares
    <3> QED BY <2>6, <3>2, <3>4, <3>5, <3>6, <3>7
  <2> QED BY <2>7, <2>8
<1> QED BY <1>1, <1>2, <1>3 DEF Transmissions

(* What holds when a handler of the conversation begins to run.            *)
LEMMA AtTalk == ASSUME c \in Clients, Good(c), NEW h \in Talking, Runs(h)
                PROVE  /\ Talks(Rest) /\ SameFlags(c, Rest) /\ SameMind(c, Rest) /\ ~Rest.crashed
                       /\ TLS => ~Rest.told
                       /\ h \notin {"recv", "recvErr"} => Watched(Rest)
<1> DEFINE x == Rest
<1>1. /\ x \in Clients /\ ~c.crashed /\ SameFlags(c, x) /\ x.ops = c.ops /\ Queued(c) = {h} \union Queued(x)
  BY RestIs
<1>2. Skeleton(x) /\ MayPost(x)
  BY RestKeeps DEF Good, Talking
<1>3. Knowledge(x) /\ SameMind(c, x)
  BY RestKnows
<1> HIDE DEF x
<1>4. ~x.crashed
  BY <1>1, <1>3 DEF SameMind, SameLogin
<1>5. TLS => ~x.told
  BY <1>1 DEF Good, Skeleton, LastReport, SameFlags, Talking
<1>6. h \notin {"recv", "recvErr"} => Watched(x)
  BY <1>1 DEF Good, Watched, SameFlags, Talking
<1> QED BY <1>1, <1>2, <1>3, <1>4, <1>5, <1>6 DEF Talks, x

(* A conversation that goes on keeps the invariant.                        *)
LEMMA TalkGoes == ASSUME NEW x, Talks(x), Watched(x), ~x.crashed, NEW y, SameMind(y, x)
                  PROVE  Goes(y, x)
BY DEF Talks, Goes, Good, SameMind, SameLogin

(* What was read is processed, and the link is read again: the invariant   *)
(* is kept.                                                                *)
LEMMA ReceivedStep == ASSUME c \in Clients, Good(c), Received
                      PROVE  Goes(c, c') /\ Moves(c, c') /\ Spares(c, c')
<1>1. PICK s \in Transmissions(c) : c' = onRecvSocketDataCompleted(Rest, s)
  BY DEF Received
<1> DEFINE x == [Rest EXCEPT !.current = 0, !.last = 0]
           w == Processed(x, s)
<1>2. c' = KeepsReading(w)
  BY <1>1 DEF onRecvSocketDataCompleted
<1>3. Runs("recv") /\ "recv" \in Talking
  BY DEF Received, Talking
<1>4. /\ Talks(Rest) /\ SameFlags(c, Rest) /\ SameMind(c, Rest) /\ ~Rest.crashed
      /\ TLS => ~Rest.told
  BY <1>3, AtTalk
<1>5. Rest.mode \in Modes
  <2>1. "recv" \in Queued(c)
    BY <1>3, RestIs
  <2> QED BY <1>4, <2>1 DEF Good, Knowledge, SameMind, SameLogin
<1>6. x \in Clients
  <2>1. 0 \in 0..2 /\ Rest \in Clients
    BY <1>4 DEF Talks
  <2> QED BY <2>1, Zenon DEF Clients
<1>7. /\ SameFlags(Rest, x) /\ x.queue = Rest.queue /\ x.ops = Rest.ops /\ x.mode = Rest.mode
      /\ x.session = Rest.session /\ x.asked = Rest.asked /\ x.crashed = Rest.crashed
      /\ x.confirmed = Rest.confirmed /\ x.unrecoverable = Rest.unrecoverable
      /\ x.m_authpending = Rest.m_authpending
  <2>1. Rest \in Clients
    BY <1>4 DEF Talks
  <2> HIDE DEF Rest
  <2> QED BY <2>1 DEF Clients, SameFlags
<1> HIDE DEF x
<1>8. Talks(x)
  <2>1. Queued(x) = Queued(Rest)
    BY <1>7 DEF Queued
  <2>2. Knowledge(x)
    BY <1>4, <1>7, <2>1 DEF Talks, Knowledge, SameFlags
  <2> QED BY <1>4, <1>6, <1>7, <2>2, TalksOn
<1>9. ~x.crashed /\ x.mode \in Modes /\ c.asked = x.asked /\ c.session = x.session
  BY <1>4, <1>5, <1>7 DEF SameMind, SameLogin
<1>10. w = Processed(x, s)
  OBVIOUS
<1> HIDE DEF w
<1>11. /\ w \in Clients /\ Moves(x, w)
       /\ ~w.crashed => Talks(w)
       /\ Spares(x, w)
       /\ ~x.told /\ Harmless => ~w.crashed
  BY <1>7, <1>8, <1>9, <1>10, Transmission
<1>12. Moves(c, w) /\ Spares(c, w)
  <2>1. Moves(c, x) /\ SameView(c, x)
    BY <1>4, <1>7 DEF Moves, SameFlags, SameMind, SameLogin, SameView
  <2>2. Spares(c, w)
    BY <1>9, <1>11, <2>1 DEF Spares, SameView
  <2> QED BY <1>9, <1>11, <2>1, <2>2, MovesOn
<1>13. Harmless => ~w.crashed
  BY <1>4, <1>7, <1>11 DEF Harmless, SameFlags
<1>14. CASE w.crashed
  <2>1. c' = w \/ c' = [w EXCEPT !.ops = w.ops \union {"read"}]
    BY <1>2 DEF KeepsReading, recvSocketData
  <2>2. CASE c' = w
    BY <1>11, <1>12, <1>13, <1>14, <2>2 DEF Goes
  <2>3. CASE c' = [w EXCEPT !.ops = w.ops \union {"read"}]
    <3>1. w.ops \union {"read"} \in SUBSET {"resolve", "connect", "read", "write", "shutdown"}
      BY <1>11 DEF Clients
    <3>2. [w EXCEPT !.ops = w.ops \union {"read"}] \in Clients
      BY <1>11, <3>1, Zenon DEF Clients
    <3>3. c' \in Clients
      BY <2>3, <3>2
    <3>4. SameFlags(w, c') /\ SameMind(w, c')
      BY <1>11, <2>3 DEF Clients, SameFlags, SameMind, SameLogin
    <3>5. Moves(w, c') /\ SameView(w, c')
      BY <3>4 DEF Moves, SameView, SameMind, SameLogin
    <3> QED BY <1>11, <1>12, <1>13, <1>14, <3>3, <3>4, <3>5, MovesOn DEF Goes, SameMind, SameLogin, Spares
  <2> QED BY <2>1, <2>2, <2>3
<1>15. CASE ~w.crashed
  <2>1. w.mode \in Modes
    BY <1>9, <1>11 DEF Moves
  <2>2. Talks(c') /\ Watched(c') /\ ~c'.crashed /\ SameFlags(w, c') /\ SameMind(w, c')
    BY <1>2, <1>11, <1>15, <2>1, Reading
  <2>3. Moves(w, c') /\ SameView(w, c')
    BY <2>2 DEF Moves, SameView, SameMind, SameLogin
  <2>4. Moves(c, c') /\ Spares(c, c')
    BY <1>12, <2>3, MovesOn DEF Spares, SameView
  <2> QED BY <1>11, <2>2, <2>4 DEF Goes, Talks, Good, SameMind, SameLogin
<1> QED BY <1>14, <1>15

(* A step that stays in its phase.                                         *)
LEMMA StillMoves == ASSUME NEW x, NEW z, SameFlags(x, z), SameMind(x, z) PROVE Moves(x, z) /\ Spares(x, z)
BY DEF Moves, SameView, SameMind, SameLogin, Spares

(* A client that is not linked is in no conversation.                      *)
LEMMA Unlinked == ASSUME NEW x, Skeleton(x), ~isConnected(x) PROVE ~x.m_connected /\ Watched(x)
BY DEF isConnected, isPendingState, Skeleton, Linked, Watched

(* An error of a read posts disconnect, and marks a pool whose TLS failed. *)
LEMMA ReceiveFailedStep == ASSUME c \in Clients, Good(c), ReceiveFailed
                           PROVE  Goes(c, c') /\ Moves(c, c') /\ Spares(c, c')
<1> DEFINE x == Rest
<1>1. Runs("recvErr") /\ "recvErr" \in Talking /\ c' = RecvFails(x)
  BY DEF ReceiveFailed, Talking
<1>2. Talks(x) /\ SameFlags(c, x) /\ SameMind(c, x) /\ ~x.crashed
  BY <1>1, AtTalk
<1> HIDE DEF x
<1>3. CASE ~isConnected(x)
  <2>1. c' = x
    BY <1>1, <1>3 DEF RecvFails
  <2>2. Watched(x)
    BY <1>2, <1>3, Unlinked DEF Talks
  <2> QED BY <1>2, <2>1, <2>2, TalkGoes, StillMoves
<1>4. CASE isConnected(x) /\ ~x.m_authpending
  <2>1. c' = Post(x, "disconnect")
    BY <1>1, <1>4 DEF RecvFails
  <2>2. Talks(c') /\ SameFlags(x, c') /\ SameMind(x, c') /\ Watched(c')
    BY <1>2, <2>1, TalksOut
  <2>3. SameFlags(c, c') /\ SameMind(c, c') /\ ~c'.crashed
    BY <1>2, <2>2, SamesCompose DEF SameMind, SameLogin
  <2> QED BY <2>2, <2>3, TalkGoes, StillMoves
<1>5. CASE isConnected(x) /\ x.m_authpending
  <2>1. c' = Unusable(x)
    BY <1>1, <1>5 DEF RecvFails
  <2>3. Alike(x, x)
    BY <1>2 DEF Talks, Alike, SameFlags, SameJobs
  <2>4. ~x.told /\ x.session.on /\ x.confirmed
    BY <1>2, <1>5 DEF Talks, Skeleton, Linked, isConnected, Knowledge
  <2>5. /\ Carries(x, c') /\ c'.confirmed = x.confirmed
        /\ c'.session.on = x.session.on /\ c'.session.set = x.session.set /\ c'.unrecoverable /\ Watched(c')
    BY Zenon, <1>2, <2>1, <2>3, <2>4, PoolIsUnusable DEF Alike
  <2>6. Moves(c, x) /\ SameView(c, x)
    BY <1>2, StillMoves DEF SameView, SameMind, SameLogin
  <2>7. Moves(x, c') /\ c.asked = x.asked
    BY Zenon, <1>2, <2>4, <2>5 DEF Moves, Carries, SameJobs, SameMind
  <2>8. Moves(c, c') /\ Spares(c, c')
    <3>1. Clean => ~c.session.authorized
      BY <1>2, <1>5 DEF Talks, Knowledge, SameMind, SameLogin
    <3> QED BY <2>6, <2>7, <3>1, MovesOn DEF Spares
  <2>9. Talks(c') /\ c'.crashed = c.crashed
    BY <1>2, <2>5 DEF Carries, SameJobs, SameMind, SameLogin
  <2>10. ~c'.crashed
    BY <1>2, <2>9 DEF SameMind, SameLogin
  <2> QED BY <2>5, <2>8, <2>9, <2>10 DEF Goes, Good, Talks
<1> QED BY <1>3, <1>4, <1>5

(* The end of a write starts the next.                                     *)
LEMMA SentStep == ASSUME c \in Clients, Good(c), Sent
                  PROVE  Goes(c, c') /\ Moves(c, c') /\ Spares(c, c')
<1> DEFINE x == Rest
<1>1. Runs("sent") /\ "sent" \in Talking /\ c' = onSendSocketDataCompleted(x)
  BY DEF Sent, Talking
<1>2. Talks(x) /\ SameFlags(c, x) /\ SameMind(c, x) /\ ~x.crashed /\ Watched(x)
  BY <1>1, AtTalk
<1> HIDE DEF x
<1>3. x \in Clients
  BY <1>2 DEF Talks
<1>4. /\ c' \in Clients /\ SameFlags(x, c') /\ SameMind(x, c') /\ c'.queue = x.queue
      /\ c'.ops = x.ops \/ (x.m_connected /\ c'.ops = x.ops \union {"write"})
  <2>1. CASE c' = sendSocketData(x)
    BY Zenon, <1>3, <2>1, Sending
  <2>2. CASE c' = [x EXCEPT !.m_txPending = FALSE]
    <3>1. [x EXCEPT !.m_txPending = FALSE] \in Clients
      BY <1>3, ZenonT(60) DEF Clients
    <3>2. c' \in Clients
      BY <2>2, <3>1
    <3>3. SameFlags(x, c') /\ SameMind(x, c') /\ c'.queue = x.queue /\ c'.ops = x.ops
      BY <1>3, <2>2 DEF Clients, SameFlags, SameMind, SameLogin
    <3> QED BY <3>2, <3>3
  <2> QED BY <1>1, <2>1, <2>2 DEF onSendSocketDataCompleted
<1>5. Skeleton(c') /\ MayPost(c') /\ Watched(c') /\ Queued(c') = Queued(x)
  BY <1>2, <1>4, TalkKeeps DEF Talks
<1>6. "read" \in c'.ops \/ "recv" \in Queued(c') => c'.mode \in Modes
  BY <1>2, <1>4, <1>5 DEF Talks, Knowledge, SameMind, SameLogin
<1>7. Knowledge(c')
  BY <1>2, <1>4, <1>5, <1>6, KnowledgeKeeps DEF Talks
<1>8. SameFlags(c, c') /\ SameMind(c, c') /\ ~c'.crashed
  BY <1>2, <1>4, SamesCompose DEF SameMind, SameLogin
<1> QED BY <1>4, <1>5, <1>7, <1>8, TalkGoes, StillMoves DEF Talks

(* An error of a write posts disconnect.                                   *)
LEMMA SendFailsStep == ASSUME c \in Clients, Good(c), NEW shut \in BOOLEAN, NEW h \in {"sendErr", "sendShut"},
                              Runs(h), c' = SendFails(Rest, shut)
                       PROVE  Goes(c, c') /\ Moves(c, c') /\ Spares(c, c')
<1> DEFINE x == Rest
           y == [x EXCEPT !.more = FALSE, !.m_txPending = FALSE]
           w == IF shut THEN Post(y, "disconnect") ELSE y
<1>1. h \in Talking /\ h \notin {"recv", "recvErr"} /\ c' = IF isConnected(x) THEN Post(w, "disconnect") ELSE w
  BY DEF SendFails, Talking
<1>2. Talks(x) /\ SameFlags(c, x) /\ SameMind(c, x) /\ ~x.crashed /\ Watched(x)
  BY <1>1, AtTalk
<1> HIDE DEF x
<1>3. x \in Clients
  BY <1>2 DEF Talks
<1>4. y \in Clients
  BY <1>3, ZenonT(60) DEF Clients
<1>5. SameFlags(x, y) /\ SameMind(x, y) /\ y.queue = x.queue /\ y.ops = x.ops
  BY <1>3 DEF Clients, SameFlags, SameMind, SameLogin
<1> HIDE DEF y
<1>6. Talks(y) /\ Watched(y)
  <2>1. Skeleton(y) /\ Watched(y) /\ MayPost(y) /\ Queued(y) = Queued(x)
    BY <1>2, <1>5, FrameKeeps DEF Talks
  <2>2. "read" \in y.ops \/ "recv" \in Queued(y) => y.mode \in Modes
    BY <1>2, <1>5, <2>1 DEF Talks, Knowledge, SameMind, SameLogin
  <2>3. Knowledge(y)
    BY <1>2, <1>5, <2>1, <2>2, KnowledgeKeeps DEF Talks
  <2> QED BY <1>4, <2>1, <2>3 DEF Talks
<1>7. SameFlags(c, y) /\ SameMind(c, y)
  BY <1>2, <1>5, SamesCompose
<1>8. Talks(w) /\ Watched(w) /\ SameFlags(c, w) /\ SameMind(c, w)
  <2>1. CASE w = y
    BY <1>6, <1>7, <2>1
  <2>2. CASE w = Post(y, "disconnect")
    BY <1>6, <1>7, <2>2, TalksOut, SamesCompose
  <2> QED BY <2>1, <2>2
<1> HIDE DEF w
<1>9. Talks(c') /\ Watched(c') /\ SameFlags(c, c') /\ SameMind(c, c')
  <2>1. CASE c' = w
    BY <1>8, <2>1
  <2>2. CASE c' = Post(w, "disconnect")
    BY <1>8, <2>2, TalksOut, SamesCompose
  <2> QED BY <1>1, <2>1, <2>2
<1>10. ~c'.crashed
  BY <1>2, <1>9 DEF SameMind, SameLogin
<1> QED BY <1>9, <1>10, TalkGoes, StillMoves

(* The answer that the client makes up for a flavour that did not answer.  *)
LEMMA FakeStep == ASSUME c \in Clients, Good(c), FakeResponse
                  PROVE  Goes(c, c') /\ Moves(c, c')
<1> DEFINE x == Rest
<1>1. Runs("fake") /\ "fake" \in Talking /\ c' = IF c.told THEN Crash(x) ELSE LoginRefused(x)
  BY DEF FakeResponse, Talking
<1>2. Talks(x) /\ SameFlags(c, x) /\ SameMind(c, x) /\ ~x.crashed /\ (TLS => ~x.told)
  BY <1>1, AtTalk
<1>v. Version = Unset
  <2>1. "fake" \in Queued(c)
    BY <1>1, RestIs
  <2> QED BY <2>1 DEF Good, Knowledge
<1> HIDE DEF x
<1>3. x \in Clients /\ x.told = c.told /\ c.asked = x.asked
  BY <1>2 DEF Talks, SameFlags, SameMind
<1>m. Moves(c, x) /\ SameView(c, x)
  BY <1>2, StillMoves DEF SameView, SameMind, SameLogin
<1>4. CASE c.told
  <2>1. c' = Crash(x)
    BY <1>1, <1>4
  <2>2. /\ c' \in Clients /\ c'.crashed /\ SameFlags(x, c') /\ c'.mode = x.mode /\ SameView(x, c')
    BY <1>3, <2>1, CrashMoves
  <2>3. ~Harmless
    BY <1>2, <1>3, <1>4 DEF Harmless
  <2>4. Moves(c, c')
    BY <1>3, <1>m, <2>2, MovesOn DEF Moves
  <2> QED BY <1>v, <1>2, <2>2, <2>3, <2>4 DEF Goes, SameMind, SameLogin
<1>5. CASE ~c.told
  <2>1. c' = LoginRefused(x)
    BY <1>1, <1>5
  <2>2. Alike(x, x)
    BY <1>3 DEF Alike, SameFlags, SameJobs
  <2>3. /\ Carries(x, c') /\ c'.confirmed = x.confirmed
        /\ c'.session.on = x.session.on
        /\ c'.unrecoverable = (x.unrecoverable \/ x.confirmed) /\ Watched(c')
    BY <1>2, <1>v, <1>3, <1>5, <2>1, <2>2, LoginIsRefused
  <2>4. Moves(x, c')
    <3>1. CASE x.confirmed
      BY Zenon, <1>3, <1>5, <2>3, <3>1 DEF Moves, Carries, SameJobs
    <3>2. CASE ~x.confirmed
      <4>1. c'.unrecoverable = x.unrecoverable
        BY <1>3, <2>3, <3>2 DEF Clients
      <4> QED BY <2>3, <4>1 DEF Moves, Carries, SameJobs, SameView
    <3> QED BY <3>1, <3>2
  <2>5. Moves(c, c')
    BY <1>3, <1>m, <2>4, MovesOn
  <2>6. Talks(c') /\ c'.crashed = c.crashed
    BY <1>2, <2>3 DEF Carries, SameJobs, SameMind, SameLogin
  <2>7. ~c'.crashed
    BY <1>2, <2>6 DEF SameMind, SameLogin
  <2> QED BY <2>3, <2>5, <2>6, <2>7 DEF Goes, Good, Talks
<1> QED BY <1>4, <1>5

(* All steps.                                                              *)

(* What a step shows the pool manager.                                     *)
Shows(x, z) == \/ SamePhase(x, z)
               \/ Moves(x, z) /\ (Clean => x.told \/ x.m_connected \/ x.m_disconnecting)
               \/ Ended(x, z) /\ (~TLS \/ ~x.m_connected)
               \/ Linking(x, z) \/ ShutsDown(x, z)

(* A conversation is linked or shutting down.                              *)
LEMMA TalkIsLinked == ASSUME c \in Clients, Good(c), NEW h \in Talking, Runs(h)
                      PROVE  Clean => c.told \/ c.m_connected \/ c.m_disconnecting
<1>1. h \in Queued(c)
  BY RestIs
<1> QED BY <1>1 DEF Good, Skeleton, OneLife, Talking, Dialing

(* No other step than a message or the made-up answer is held against a    *)
(* pool that has authorized the account.                                   *)
LEMMA PhasesSpare == ASSUME c \in Clients, Good(c),
                            SamePhase(c, c') \/ Ended(c, c') \/ Linking(c, c') \/ ShutsDown(c, c')
                     PROVE  Spares(c, c')
<1>1. CASE SamePhase(c, c')
  BY <1>1 DEF SamePhase, SameView, Spares
<1>2. CASE Ended(c, c')
  <2>1. Clean /\ c.session.authorized => ~Detecting(c)
    BY DEF Good, Knowledge, Detecting
  <2>2. c.unrecoverable \in BOOLEAN
    BY DEF Clients
  <2> QED BY <1>2, <2>1, <2>2 DEF Ended, Spares
<1>3. CASE Linking(c, c')
  BY <1>3 DEF Linking, Good, Knowledge, Spares
<1>4. CASE ShutsDown(c, c')
  BY <1>4 DEF ShutsDown, Spares
<1> QED BY <1>1, <1>2, <1>3, <1>4

(* Every step of a good client keeps the invariant, and is seen as a step  *)
(* of the promise of PoolClient.                                           *)
LEMMA Step == ASSUME c \in Clients, Good(c), Next
              PROVE  Goes(c, c') /\ Shows(c, c') /\ ~c.crashed /\ (FakeResponse \/ Spares(c, c'))
<1>1. CASE Resolved
  BY <1>1, ResolvedStep, PhasesSpare DEF Shows, Resolved, Runs
<1>2. CASE Unresolved
  BY <1>2, UnresolvedStep, PhasesSpare DEF Shows, Unresolved, Runs
<1>3. CASE StartConnect
  BY <1>3, StartConnectStep, PhasesSpare DEF Shows, StartConnect, Runs
<1>4. CASE Connected \/ Refused
  BY Zenon, <1>4, ConnectedStep, PhasesSpare DEF Shows, Connected, Refused, Runs
<1>5. CASE Received
  BY <1>5, ReceivedStep, TalkIsLinked DEF Shows, Received, Runs, Talking
<1>6. CASE ReceiveFailed
  BY <1>6, ReceiveFailedStep, TalkIsLinked DEF Shows, ReceiveFailed, Runs, Talking
<1>7. CASE Sent
  BY <1>7, SentStep, TalkIsLinked DEF Shows, Sent, Runs, Talking
<1>8. CASE SendFailed
  BY Zenon, <1>8, SendFailsStep, TalkIsLinked DEF Shows, SendFailed, Runs, Talking
<1>9. CASE SendShut
  BY Zenon, <1>9, SendFailsStep, TalkIsLinked DEF Shows, SendShut, Runs, Talking
<1>10. CASE Tick
  BY <1>10, TickStep, PhasesSpare DEF Shows, Tick, Runs
<1>11. CASE FakeResponse
  BY <1>11, FakeStep, TalkIsLinked DEF Shows, FakeResponse, Runs, Talking
<1>12. CASE Disconnect
  BY <1>12, DisconnectStep, PhasesSpare DEF Shows, Disconnect, Runs
<1>13. CASE ShutdownCompleted
  BY <1>13, ShutdownCompletedStep, PhasesSpare DEF Shows, ShutdownCompleted, Runs
<1>14. CASE Finalize
  BY <1>14, FinalizeStep, PhasesSpare DEF Shows, Finalize, Runs
<1>15. CASE \E op \in DOMAIN Completions : Completes(op)
  BY <1>15, CompletesStep, PhasesSpare DEF Shows, Completes
<1>16. CASE TimerExpires
  BY <1>16, TimerStep, PhasesSpare DEF Shows, TimerExpires
<1>17. CASE ResponseIsLate \/ WorkIsLate
  BY <1>17, ClockStep, PhasesSpare DEF Shows, ResponseIsLate, WorkIsLate
<1>18. CASE submitSolution \/ submitHashrate
  BY <1>18, ManagerStep, PhasesSpare DEF Shows, submitSolution, submitHashrate, InSession
<1>19. CASE ManagerDisconnects
  BY <1>19, ManagerDisconnectsStep, PhasesSpare DEF Shows, ManagerDisconnects
<1> QED BY <1>1, <1>2, <1>3, <1>4, <1>5, <1>6, <1>7, <1>8, <1>9, <1>10, <1>11, <1>12, <1>13, <1>14, <1>15,
           <1>16, <1>17, <1>18, <1>19 DEF Next, IoStep

(* A crashed program takes no step.                                        *)
LEMMA CrashIsFinal == Next => ~c.crashed
<1>1. IoStep => ~c.crashed
  BY Zenon DEF IoStep, Runs, Resolved, Unresolved, StartConnect, Connected, Refused, Received, ReceiveFailed, Sent, SendFailed,
         SendShut, Tick, FakeResponse, Disconnect, ShutdownCompleted, Finalize
<1> QED BY Zenon, <1>1 DEF Next, Completes, TimerExpires, ResponseIsLate, WorkIsLate, InSession,
                    submitSolution, submitHashrate, ManagerDisconnects

(* The client that connect has prepared is good.                           *)
LEMMA InitInv == Init => Inv /\ ~c.crashed
                         /\ ~c.told /\ ~c.m_disconnecting /\ ~c.m_connected /\ c.mode = Unset
                         /\ ~c.responds /\ ~c.confirmed /\ ~c.unrecoverable
<1> SUFFICES ASSUME Init
             PROVE  Inv /\ ~c.crashed
                    /\ ~c.told /\ ~c.m_disconnecting /\ ~c.m_connected /\ c.mode = Unset
                    /\ ~c.responds /\ ~c.confirmed /\ ~c.unrecoverable
  OBVIOUS
<1>1. PICK byName \in BOOLEAN :
        c = [mode |-> Unset, confirmed |-> FALSE, unrecoverable |-> FALSE, responds |-> FALSE,
         m_connecting |-> FALSE, m_disconnecting |-> FALSE, m_connected |-> FALSE,
         m_authpending |-> FALSE, m_txPending |-> FALSE, more |-> FALSE,
         m_socket |-> "closed", m_endpoints |-> IF byName THEN 0 ELSE 1,
         session |-> NoSession, pleas |-> 0, age |-> 0, stale |-> FALSE, armed |-> TRUE,
         ops |-> IF byName THEN {"resolve"} ELSE {},
         queue |-> IF byName THEN <<>> ELSE <<"start_connect">>,
         told |-> FALSE, crashed |-> FALSE, asked |-> {}, loginMode |-> Unset,
         current |-> 0, last |-> 0, tried |-> {}]
  BY Zenon DEF Init
<1> DEFINE n == IF byName THEN 0 ELSE 1
           o == IF byName THEN {"resolve"} ELSE {}
           q == IF byName THEN <<>> ELSE <<"start_connect">>
<1>2. /\ n \in 0..MaxEndpoints /\ o \in SUBSET {"resolve", "connect", "read", "write", "shutdown"}
      /\ NoSession \in [on : BOOLEAN, subscribed : BOOLEAN, authorized : BOOLEAN, set : BOOLEAN]
      /\ ~NoSession.on /\ ~NoSession.set /\ ~NoSession.authorized
      /\ Unset \in Modes \union {Unset}
      /\ q \in Seq(Handlers) /\ Range(q) = (IF byName THEN {} ELSE {"start_connect"}) /\ \A h : After(q, h) = {}
  <2>1. n \in 0..MaxEndpoints /\ o \in SUBSET {"resolve", "connect", "read", "write", "shutdown"}
        /\ Unset \in Modes \union {Unset}
    BY StratumAssumption
  <2>2. /\ NoSession \in [on : BOOLEAN, subscribed : BOOLEAN, authorized : BOOLEAN, set : BOOLEAN]
        /\ ~NoSession.on /\ ~NoSession.set /\ ~NoSession.authorized
    BY DEF NoSession
  <2>3. q \in Seq(Handlers) /\ Range(q) = (IF byName THEN {} ELSE {"start_connect"})
    <3>1. CASE byName
      BY <3>1, NoHandler
    <3>2. CASE ~byName
      BY <3>2, OneHandler DEF Handlers
    <3> QED BY <3>1, <3>2
  <2>4. \A h : After(q, h) = {}
    BY DEF After
  <2> QED BY <2>1, <2>2, <2>3, <2>4
<1> HIDE DEF n, o, q
<1>3. /\ c.mode = Unset /\ c.confirmed = FALSE /\ c.unrecoverable = FALSE /\ c.responds = FALSE
      /\ c.m_connecting = FALSE /\ c.m_disconnecting = FALSE /\ c.m_connected = FALSE
      /\ c.m_authpending = FALSE /\ c.m_socket = "closed" /\ c.m_endpoints = n
      /\ c.session = NoSession /\ c.armed = TRUE /\ c.ops = o /\ c.queue = q
      /\ c.told = FALSE /\ c.crashed = FALSE /\ c.asked = {}
  BY <1>1 DEF n, o, q
<1>4. c \in Clients
  <2>1. 0 \in Nat /\ 0 \in 0..2 /\ {} \in SUBSET Modes /\ {} \in SUBSET {"login", "sub", "auth", "work", "share"}
        /\ "closed" \in {"null", "closed", "open"}
    OBVIOUS
  <2> QED BY <1>1, <1>2, <2>1 DEF Clients, n, o, q
<1>5. Queued(c) = (IF byName THEN {} ELSE {"start_connect"}) /\ (\A h : After(c.queue, h) = {})
      /\ c.ops = (IF byName THEN {"resolve"} ELSE {})
  BY <1>2, <1>3 DEF Queued, o
<1>6. Naming(c) /\ Connecting(c) /\ Linked(c) /\ Shutting(c) /\ Told(c) /\ Resting(c)
  BY <1>3, <1>5 DEF Naming, Connecting, Linked, Shutting, Told, Resting
<1>7. Operations(c) /\ OneLife(c) /\ LastReport(c) /\ Watched(c)
  BY <1>3, <1>5 DEF Operations, OneLife, LastReport, Watched, Dialing
<1>8. Knowledge(c)
  BY <1>2, <1>3, <1>5 DEF Knowledge
<1> QED BY <1>3, <1>4, <1>6, <1>7, <1>8 DEF Inv, Good, Skeleton

(* The invariant is inductive.                                             *)
LEMMA NextInv == Inv /\ [Next]_c => Inv'
<1> SUFFICES ASSUME Inv, [Next]_c PROVE Inv'
  OBVIOUS
<1>1. CASE Next
  BY <1>1, CrashIsFinal, Step DEF Inv, Goes, Good, Skeleton
<1>2. CASE UNCHANGED c
  BY <1>2, Zenon DEF Inv
<1> QED BY <1>1, <1>2

(* The client is type-correct, for all constants: the pleas are never      *)
(* counted below none (dequeue_response_plea), and no index leaves the     *)
(* list of addresses.                                                      *)
THEOREM StratumTypes == Spec => []TypeOK
<1>1. Inv => TypeOK
  BY DEF Inv, TypeOK
<1> QED BY <1>1, InitInv, NextInv, PTL DEF Spec

(* No handler forgets to go on: a client that has not told the manager of  *)
(* its end has an operation under way or a handler that waits, through     *)
(* every error and every order of the handlers.                            *)
THEOREM ClientIsNeverStranded == Spec => []NeverStranded
<1>1. Inv => NeverStranded
  <2> SUFFICES ASSUME c \in Clients, Good(c), ~c.told, c.queue = <<>>, c.ops = {} PROVE FALSE
    BY DEF Inv, NeverStranded
  <2>1. Queued(c) = {}
    BY NoHandler DEF Queued
  <2>2. ~c.m_connected
    BY <2>1 DEF Good, Watched
  <2>3. ~c.m_connecting /\ ~c.m_disconnecting
    BY <2>1 DEF Good, Skeleton, Connecting, Shutting
  <2> QED BY <2>1, <2>2, <2>3 DEF Good, Skeleton, Resting
<1> QED BY <1>1, InitInv, NextInv, PTL DEF Spec

(* A link is read, or its next read or its end is posted: a pool that      *)
(* sends is heard and one that closes is noticed (recvSocketData,          *)
(* onRecvSocketDataCompleted).                                             *)
THEOREM LinksAreWatched == Spec => []LinkIsWatched
<1>1. Inv => LinkIsWatched
  BY DEF Inv, LinkIsWatched, Good, Watched, Queued, isConnected
<1> QED BY <1>1, InitInv, NextInv, PTL DEF Spec

(* Behind TLS, and unless the pool sends notifications of stratum modes 2  *)
(* or 3 before it answers the login, no handler uses the session or the    *)
(* socket that a disconnection left null.                                  *)
THEOREM NoHandlerCrashes == ASSUME Harmless PROVE Spec => []NoNullDereference
<1>1. Inv /\ ~c.crashed /\ [Next]_c => ~c'.crashed
  BY Step DEF Inv, Goes
<1>2. Init => Inv /\ ~c.crashed
  BY InitInv
<1>3. (Inv /\ ~c.crashed) /\ [Next]_c => (Inv /\ ~c.crashed)'
  BY <1>1, NextInv
<1>4. Inv /\ ~c.crashed => NoNullDereference
  BY DEF NoNullDereference
<1> QED BY <1>2, <1>3, <1>4, PTL DEF Spec

(* A pool that has authorized the account is kept: behind TLS, or with a   *)
(* scheme that names the flavour, nothing that it sends, no error, no late *)
(* answer of an earlier connection and no disconnection marks it           *)
(* unrecoverable (m_conn->MarkUnrecoverable), but for the answer that the  *)
(* client makes up itself.                                                 *)
THEOREM AuthorizedPoolsAreKept == ASSUME Clean PROVE Spec => AuthorizedIsKept
<1>1. Inv /\ [Next]_c => [c.session.authorized /\ ~FakeResponse => c'.unrecoverable = c.unrecoverable]_c
  <2> SUFFICES ASSUME Inv, Next, c.session.authorized, ~FakeResponse PROVE c'.unrecoverable = c.unrecoverable
    OBVIOUS
  <2>1. c \in Clients /\ Good(c)
    BY CrashIsFinal DEF Inv
  <2> QED BY <2>1, Step DEF Spares
<1> QED BY <1>1, InitInv, NextInv, PTL DEF Spec, AuthorizedIsKept

-----------------------------------------------------------------------------

(* The refinement.                                                         *)
LEMMA ShowsNext == ASSUME Clean, c \in Clients, Good(c), c' \in Clients, Shows(c, c')
                   PROVE  [Abstract!Next]_(Abstract!vars)
<1> USE DEF Clients
<1>1. CASE SamePhase(c, c')
  <2>1. Phase' = Phase /\ c'.responds = c.responds /\ c'.mode = c.mode /\ c'.confirmed = c.confirmed
        /\ c'.unrecoverable = c.unrecoverable
    BY <1>1 DEF SamePhase, SameView, Phase
  <2> QED BY <2>1 DEF Abstract!vars
<1>2. CASE Moves(c, c') /\ (c.told \/ c.m_connected \/ c.m_disconnecting)
  <2>1. /\ c'.told = c.told /\ c'.m_connected = c.m_connected /\ c'.m_disconnecting = c.m_disconnecting
        /\ c'.responds = c.responds /\ c'.mode = c.mode
    BY <1>2 DEF Moves, SameFlags
  <2>2. CASE SameView(c, c')
    <3>1. Phase' = Phase /\ c'.confirmed = c.confirmed /\ c'.unrecoverable = c.unrecoverable
      BY <2>1, <2>2 DEF SameView, Phase
    <3> QED BY <2>1, <3>1 DEF Abstract!vars
  <2>3. CASE ~c.told /\ "login" \in c.asked /\ c'.confirmed /\ c'.session.on /\ c'.unrecoverable = c.unrecoverable
    <3>1. ~c.session.on
      BY <2>3 DEF Good, Knowledge
    <3>2. CASE c.m_disconnecting
      <4>1. TLS /\ Phase = "shutdown" /\ Phase' = "shutdown"
        BY <2>1, <2>3, <3>2 DEF Good, Skeleton, Shutting, Phase
      <4> QED BY <2>1, <2>3, <4>1 DEF Abstract!Next, Abstract!LateLogin
    <3>3. CASE ~c.m_disconnecting
      <4>1. Phase = "linked" /\ Phase' = "session"
        BY <1>2, <2>1, <2>3, <3>1, <3>3 DEF Phase
      <4> QED BY <2>1, <2>3, <4>1 DEF Abstract!Next, Abstract!SessionStarts
    <3> QED BY <3>2, <3>3
  <2>4. CASE ~c.told /\ c.confirmed /\ c'.confirmed /\ c'.session.on = c.session.on /\ c'.unrecoverable
    <3>1. Phase \in {"linked", "session", "shutdown"} /\ Phase' = Phase
      BY <1>2, <2>1, <2>4 DEF Phase
    <3>2. c'.confirmed = c.confirmed
      BY <2>4
    <3> QED BY <2>1, <2>4, <3>1, <3>2 DEF Abstract!Next, Abstract!PoolIsMarked
  <2> QED BY <1>2, <2>2, <2>3, <2>4 DEF Moves
<1>3. CASE Ended(c, c') /\ (~TLS \/ ~c.m_connected)
  <2>1. Phase \in {"dialing", "shutdown"} \/ (~TLS /\ Phase \in {"linked", "session"})
    BY <1>3 DEF Ended, Phase
  <2>2. Phase' = IF c'.told THEN "closed" ELSE "dialing"
    BY <1>3 DEF Ended, Phase
  <2> QED BY <1>3, <2>1, <2>2 DEF Ended, Detecting, Abstract!Next, Abstract!Ends, Abstract!Detecting
<1>4. CASE Linking(c, c')
  <2>1. Phase = "dialing" /\ Phase' = "linked"
    BY <1>4 DEF Linking, Phase
  <2> QED BY <1>4, <2>1 DEF Linking, Abstract!Next, Abstract!Links, Abstract!HandshakeFails
<1>5. CASE ShutsDown(c, c')
  <2>1. Phase \in {"linked", "session"} /\ Phase' = "shutdown"
    BY <1>5 DEF ShutsDown, Phase
  <2> QED BY <1>5, <2>1 DEF ShutsDown, Abstract!Next, Abstract!ShutsDown
<1> QED BY <1>1, <1>2, <1>3, <1>4, <1>5 DEF Shows

(* Behind TLS, or with a scheme that names the flavour, the client         *)
(* implements PoolClient: the pool manager sees the steps of the promise   *)
(* and no others, whatever is left in the queue.                           *)
THEOREM ClientKeepsPromise == ASSUME Clean PROVE Spec => ImplementsPoolClient
<1>1. Init => Abstract!Init
  BY InitInv DEF Abstract!Init, Phase
<1>2. Inv /\ [Next]_c => [Abstract!Next]_(Abstract!vars)
  <2> SUFFICES ASSUME Inv, [Next]_c PROVE [Abstract!Next]_(Abstract!vars)
    OBVIOUS
  <2>1. CASE Next
    <3>1. Good(c) /\ c \in Clients
      BY <2>1, CrashIsFinal DEF Inv
    <3> QED BY <2>1, <3>1, Step, ShowsNext DEF Goes
  <2>2. CASE UNCHANGED c
    BY <2>2 DEF Abstract!vars, Phase
  <2> QED BY <2>1, <2>2
<1> QED BY <1>1, <1>2, InitInv, NextInv, PTL DEF Spec, ImplementsPoolClient, Abstract!Spec

==============================================================================
