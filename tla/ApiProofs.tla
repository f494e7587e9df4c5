-------------------------------- MODULE ApiProofs ----------------------------
(***************************************************************************)
(* The API and what it acts on, for any constants: the sessions of the     *)
(* server, what a request may change, and the nonces the miners search.    *)
(*                                                                         *)
(* ApiInv, the invariant of the server, tells which completions the io     *)
(* thread has yet to run.  NonceInv, the invariant of the nonces, tells    *)
(* where every nonce is that a miner tries or will try next, counted from  *)
(* the start of its segment and before it wraps.  Cleared and pow2 are     *)
(* recursive functions: lemma Recursion shows that they exist.             *)
(***************************************************************************)
EXTENDS Program, Rig, Recursion, TLAPS

(* The completions the io thread runs.                                     *)
Entries == Sessions \X Handlers

(* A completion of an accept, and one of a read of session s.              *)
IsAccept(e) == e[2] \in {"accept", "acceptErr"}

IsRecv(e, s) == e[1] = s /\ e[2] \in {"recv", "recvErr"}

(* No completion of an accept is in q, at most one is; no completion of a  *)
(* read of s, at most one.                                                 *)
NoAccept(q) == \A i \in DOMAIN q : ~IsAccept(q[i])
OneAccept(q) == \A i, j \in DOMAIN q : IsAccept(q[i]) /\ IsAccept(q[j]) => i = j
NoRecv(q, s) == \A i \in DOMAIN q : ~IsRecv(q[i], s)
OneRecv(q, s) == \A i, j \in DOMAIN q : IsRecv(q[i], s) /\ IsRecv(q[j], s) => i = j

(* A completion that reads on or ends session s is in q.                   *)
Serves(e, s) == e[1] = s /\ e[2] \in {"recv", "recvErr", "sentLast", "sendErr"}
Served(q, s) == \E i \in DOMAIN q : Serves(q[i], s)

(* An accept is for the session after the last, everything else for one up *)
(* to it.                                                                  *)
Numbered(q, last) == \A i \in DOMAIN q : IF IsAccept(q[i]) THEN q[i][1] = last + 1 ELSE q[i][1] <= last

(* One accept is under way, waits in the queue, or is yet to be begun.     *)
AcceptInv == /\ OneAccept(queue) /\ Numbered(queue, lastSessionId)
             /\ (accepting \/ ~NoAccept(queue) => lastSessionId < MaxSessions /\ m_workThread = "ended")
             /\ (accepting => NoAccept(queue))

(* A session that reads has no completion of a read in the queue, and a    *)
(* session that is gone writes nothing.                                    *)
ReadInv == /\ \A s \in m_sessions : OneRecv(queue, s) /\ (s \in reading => NoRecv(queue, s))
           /\ \A s \in Sessions \ m_sessions : writes[s] = <<>>

(* A session is read from, or something that ends it is on its way: the    *)
(* completion of an answer alone would not serve it any more once it has   *)
(* run.                                                                    *)
ServeInv == fate = "alive" => \A s \in m_sessions : m_message[s] # "short" =>
               \/ s \in reading \/ Served(queue, s) \/ \E i \in DOMAIN writes[s] : writes[s][i]

(* ServerListens in the terms of NoAccept.                                 *)
ListenInv == m_running /\ lastSessionId < MaxSessions /\ fate = "alive" =>
               accepting \/ m_workThread = "runs" \/ ~NoAccept(queue)

(* Where doMiner stands tells whether the server runs: stop clears the     *)
(* sessions after it stored m_running.                                     *)
MainInv == /\ main \in Places
           /\ (main = "begin" => ~m_running /\ m_workThread = "none")
           /\ (main \in {"clear", "pool", "poolStop", "return", "dtor", "joinIo", "done"} => ~m_running)

(* The inductive invariant of the API server.                              *)
ApiInv == ServerTypeOK /\ AcceptInv /\ ReadInv /\ ServeInv /\ ListenInv /\ MainInv

(* What taking the first completion off the queue leaves.                  *)
LEMMA TailKeeps ==
    ASSUME NEW q \in Seq(Entries), q # <<>>, NEW last \in Nat
    PROVE  /\ Tail(q) \in Seq(Entries) /\ Head(q) \in Entries
           /\ (OneAccept(q) => OneAccept(Tail(q))) /\ (NoAccept(q) => NoAccept(Tail(q)))
           /\ (Numbered(q, last) => Numbered(Tail(q), last))
           /\ (IsAccept(Head(q)) /\ OneAccept(q) => NoAccept(Tail(q)))
           /\ (~IsAccept(Head(q)) /\ NoAccept(Tail(q)) => NoAccept(q))
<1>1. /\ Tail(q) \in Seq(Entries) /\ Head(q) = q[1] /\ 1 \in DOMAIN q /\ Head(q) \in Entries
      /\ \A i \in DOMAIN Tail(q) : i \in Nat /\ i + 1 \in DOMAIN q /\ Tail(q)[i] = q[i + 1] /\ i + 1 # 1
      /\ \A i \in DOMAIN q : i # 1 => i - 1 \in DOMAIN Tail(q) /\ Tail(q)[i - 1] = q[i]
  OBVIOUS
<1> DEFINE t == Tail(q)
<1> HIDE DEF t
<1>2. ASSUME OneAccept(q), NEW i \in DOMAIN t, NEW j \in DOMAIN t, IsAccept(t[i]), IsAccept(t[j])
      PROVE  i = j
  <2>1. i \in Nat /\ j \in Nat /\ i + 1 \in DOMAIN q /\ j + 1 \in DOMAIN q
        /\ t[i] = q[i + 1] /\ t[j] = q[j + 1] BY <1>1 DEF t
  <2>2. i + 1 = j + 1 BY <1>2, <2>1 DEF OneAccept
  <2> QED BY <2>1, <2>2
<1>3. NoAccept(q) => NoAccept(t) BY <1>1 DEF NoAccept, t
<1>4. Numbered(q, last) => Numbered(t, last) BY <1>1 DEF Numbered, t
<1>5. ASSUME IsAccept(Head(q)), OneAccept(q), NEW i \in DOMAIN t, IsAccept(t[i]) PROVE FALSE
  <2>1. i + 1 \in DOMAIN q /\ t[i] = q[i + 1] /\ i + 1 # 1 BY <1>1 DEF t
  <2> QED BY <1>1, <1>5, <2>1 DEF OneAccept
<1>6. ASSUME ~IsAccept(Head(q)), NoAccept(t), NEW i \in DOMAIN q, IsAccept(q[i]) PROVE FALSE
  <2>1. CASE i = 1 BY <1>1, <1>6, <2>1
  <2>2. CASE i # 1
    <3>1. i - 1 \in DOMAIN t /\ t[i - 1] = q[i] BY <1>1, <2>2 DEF t
    <3> QED BY <1>6, <3>1 DEF NoAccept
  <2> QED BY <2>1, <2>2
<1>7. OneAccept(q) => OneAccept(t) BY <1>2 DEF OneAccept
<1>8. IsAccept(Head(q)) /\ OneAccept(q) => NoAccept(t) BY <1>5 DEF NoAccept
<1>9. ~IsAccept(Head(q)) /\ NoAccept(t) => NoAccept(q) BY <1>6 DEF NoAccept
<1> QED BY <1>1, <1>3, <1>4, <1>7, <1>8, <1>9 DEF t

(* The same for the completions of one session.                            *)
LEMMA TailKeepsSession ==
    ASSUME NEW q \in Seq(Entries), q # <<>>, NEW s
    PROVE  /\ (OneRecv(q, s) => OneRecv(Tail(q), s)) /\ (NoRecv(q, s) => NoRecv(Tail(q), s))
           /\ (IsRecv(Head(q), s) /\ OneRecv(q, s) => NoRecv(Tail(q), s))
           /\ (~Serves(Head(q), s) /\ Served(q, s) => Served(Tail(q), s))
<1>1. /\ Head(q) = q[1] /\ 1 \in DOMAIN q
      /\ \A i \in DOMAIN Tail(q) : i \in Nat /\ i + 1 \in DOMAIN q /\ Tail(q)[i] = q[i + 1] /\ i + 1 # 1
      /\ \A i \in DOMAIN q : i # 1 => i - 1 \in DOMAIN Tail(q) /\ Tail(q)[i - 1] = q[i]
  OBVIOUS
<1> DEFINE t == Tail(q)
<1> HIDE DEF t
<1>2. ASSUME OneRecv(q, s), NEW i \in DOMAIN t, NEW j \in DOMAIN t, IsRecv(t[i], s), IsRecv(t[j], s)
      PROVE  i = j
  <2>1. i \in Nat /\ j \in Nat /\ i + 1 \in DOMAIN q /\ j + 1 \in DOMAIN q
        /\ t[i] = q[i + 1] /\ t[j] = q[j + 1] BY <1>1 DEF t
  <2>2. i + 1 = j + 1 BY <1>2, <2>1 DEF OneRecv
  <2> QED BY <2>1, <2>2
<1>3. NoRecv(q, s) => NoRecv(t, s) BY <1>1 DEF NoRecv, t
<1>4. ASSUME IsRecv(Head(q), s), OneRecv(q, s), NEW i \in DOMAIN t, IsRecv(t[i], s) PROVE FALSE
  <2>1. i + 1 \in DOMAIN q /\ t[i] = q[i + 1] /\ i + 1 # 1 BY <1>1 DEF t
  <2> QED BY <1>1, <1>4, <2>1 DEF OneRecv
<1>5. ASSUME ~Serves(Head(q), s), Served(q, s) PROVE Served(t, s)
  <2>1. PICK i \in DOMAIN q : Serves(q[i], s) BY <1>5 DEF Served
  <2>2. i # 1 BY <1>1, <1>5, <2>1
  <2>3. i - 1 \in DOMAIN t /\ t[i - 1] = q[i] BY <1>1, <2>2 DEF t
  <2> QED BY <2>1, <2>3 DEF Served
<1>6. OneRecv(q, s) => OneRecv(t, s) BY <1>2 DEF OneRecv
<1>7. IsRecv(Head(q), s) /\ OneRecv(q, s) => NoRecv(t, s) BY <1>4 DEF NoRecv
<1> QED BY <1>3, <1>5, <1>6, <1>7 DEF t

(* What a completion that is added makes of the queue.                     *)
LEMMA AppendKeeps ==
    ASSUME NEW q \in Seq(Entries), NEW e \in Entries, NEW last \in Nat
    PROVE  /\ Append(q, e) \in Seq(Entries)
           /\ (OneAccept(q) /\ (IsAccept(e) => NoAccept(q)) => OneAccept(Append(q, e)))
           /\ (NoAccept(q) /\ ~IsAccept(e) => NoAccept(Append(q, e)))
           /\ (IsAccept(e) \/ ~NoAccept(q) => ~NoAccept(Append(q, e)))
           /\ (Numbered(q, last) /\ (IF IsAccept(e) THEN e[1] = last + 1 ELSE e[1] <= last)
                  => Numbered(Append(q, e), last))
<1> DEFINE t == Append(q, e)
           n == Len(q) + 1
<1>1. /\ t \in Seq(Entries) /\ n \in DOMAIN t /\ t[n] = e
      /\ \A i \in DOMAIN q : i \in DOMAIN t /\ t[i] = q[i] /\ i # n
      /\ \A i \in DOMAIN t : i # n => i \in DOMAIN q /\ t[i] = q[i]
  OBVIOUS
<1> HIDE DEF t, n
<1>2. OneAccept(q) /\ (IsAccept(e) => NoAccept(q)) => OneAccept(t)
  <2> SUFFICES ASSUME OneAccept(q), IsAccept(e) => NoAccept(q), NEW i \in DOMAIN t, NEW j \in DOMAIN t,
                      IsAccept(t[i]), IsAccept(t[j])
               PROVE  i = j
    BY Zenon DEF OneAccept
  <2>1. CASE i = n /\ j = n BY <2>1
  <2>2. CASE i # n /\ j # n BY <1>1, <2>2 DEF OneAccept
  <2>3. CASE i = n /\ j # n BY <1>1, <2>3 DEF NoAccept
  <2>4. CASE i # n /\ j = n BY <1>1, <2>4 DEF NoAccept
  <2> QED BY <2>1, <2>2, <2>3, <2>4
<1>3. NoAccept(q) /\ ~IsAccept(e) => NoAccept(t) BY <1>1 DEF NoAccept
<1>4. IsAccept(e) \/ ~NoAccept(q) => ~NoAccept(t) BY <1>1 DEF NoAccept
<1>5. Numbered(q, last) /\ (IF IsAccept(e) THEN e[1] = last + 1 ELSE e[1] <= last) => Numbered(t, last)
  <2> SUFFICES ASSUME Numbered(q, last), IF IsAccept(e) THEN e[1] = last + 1 ELSE e[1] <= last,
                      NEW i \in DOMAIN t
               PROVE  IF IsAccept(t[i]) THEN t[i][1] = last + 1 ELSE t[i][1] <= last
    BY Zenon DEF Numbered
  <2>1. CASE i = n BY Zenon, <1>1, <2>1
  <2>2. CASE i # n BY Zenon, <1>1, <2>2 DEF Numbered
  <2> QED BY <2>1, <2>2
<1> QED BY <1>1, <1>2, <1>3, <1>4, <1>5 DEF t

(* The same for the completions of one session.                            *)
LEMMA AppendKeepsSession ==
    ASSUME NEW q \in Seq(Entries), NEW e \in Entries, NEW s
    PROVE  /\ (OneRecv(q, s) /\ (IsRecv(e, s) => NoRecv(q, s)) => OneRecv(Append(q, e), s))
           /\ (NoRecv(q, s) /\ ~IsRecv(e, s) => NoRecv(Append(q, e), s))
           /\ (Serves(e, s) \/ Served(q, s) => Served(Append(q, e), s))
<1> DEFINE t == Append(q, e)
           n == Len(q) + 1
<1>1. /\ n \in DOMAIN t /\ t[n] = e
      /\ \A i \in DOMAIN q : i \in DOMAIN t /\ t[i] = q[i] /\ i # n
      /\ \A i \in DOMAIN t : i # n => i \in DOMAIN q /\ t[i] = q[i]
  OBVIOUS
<1> HIDE DEF t, n
<1>2. OneRecv(q, s) /\ (IsRecv(e, s) => NoRecv(q, s)) => OneRecv(t, s)
  <2> SUFFICES ASSUME OneRecv(q, s), IsRecv(e, s) => NoRecv(q, s), NEW i \in DOMAIN t, NEW j \in DOMAIN t,
                      IsRecv(t[i], s), IsRecv(t[j], s)
               PROVE  i = j
    BY Zenon DEF OneRecv
  <2>1. CASE i = n /\ j = n BY <2>1
  <2>2. CASE i # n /\ j # n BY <1>1, <2>2 DEF OneRecv
  <2>3. CASE i = n /\ j # n BY <1>1, <2>3 DEF NoRecv
  <2>4. CASE i # n /\ j = n BY <1>1, <2>4 DEF NoRecv
  <2> QED BY <2>1, <2>2, <2>3, <2>4
<1>3. NoRecv(q, s) /\ ~IsRecv(e, s) => NoRecv(t, s) BY <1>1 DEF NoRecv
<1>4. Serves(e, s) \/ Served(q, s) => Served(t, s) BY <1>1 DEF Served
<1> QED BY <1>2, <1>3, <1>4 DEF t

(* The completions r of a session x whose socket is closed.                *)
Closing(r, x) == /\ r \in Seq(Entries) /\ \A i \in DOMAIN r : r[i][1] = x /\ r[i][2] \in {"recvErr", "sendErr"}

(* The completions of a closed socket are no accepts, and of no other      *)
(* session.                                                                *)
LEMMA ClosingKeeps ==
    ASSUME NEW q \in Seq(Entries), NEW r, NEW x, Closing(r, x), NEW last \in Nat, x <= last
    PROVE  /\ q \o r \in Seq(Entries)
           /\ (OneAccept(q) => OneAccept(q \o r)) /\ (NoAccept(q) <=> NoAccept(q \o r))
           /\ (Numbered(q, last) => Numbered(q \o r, last))
           /\ \A s : /\ (s # x /\ OneRecv(q, s) => OneRecv(q \o r, s))
                     /\ (s # x /\ NoRecv(q, s) => NoRecv(q \o r, s))
                     /\ (Served(q, s) => Served(q \o r, s))
<1> DEFINE t == q \o r
<1>0. r \in Seq(Entries) /\ \A i \in DOMAIN r : r[i][1] = x /\ r[i][2] \in {"recvErr", "sendErr"}
  BY DEF Closing
<1>1. /\ t \in Seq(Entries)
      /\ \A i \in DOMAIN q : i \in DOMAIN t /\ t[i] = q[i]
      /\ \A i \in DOMAIN t : i \notin DOMAIN q => i - Len(q) \in DOMAIN r /\ t[i] = r[i - Len(q)]
  BY <1>0
<1>2. \A i \in DOMAIN t : i \notin DOMAIN q => t[i][1] = x /\ t[i][2] \in {"recvErr", "sendErr"}
  BY <1>0, <1>1
<1> HIDE DEF t
<1>3. \A i \in DOMAIN t : i \notin DOMAIN q => ~IsAccept(t[i]) BY <1>2 DEF IsAccept
<1>4. \A s, i : s # x /\ i \in DOMAIN t /\ i \notin DOMAIN q => ~IsRecv(t[i], s) BY <1>2 DEF IsRecv
<1>5. OneAccept(q) => OneAccept(t) BY <1>1, <1>3 DEF OneAccept
<1>6. NoAccept(q) <=> NoAccept(t) BY <1>1, <1>3 DEF NoAccept
<1>7. Numbered(q, last) => Numbered(t, last)
  <2> SUFFICES ASSUME Numbered(q, last), NEW i \in DOMAIN t
               PROVE  IF IsAccept(t[i]) THEN t[i][1] = last + 1 ELSE t[i][1] <= last
    BY Zenon DEF Numbered
  <2>1. CASE i \in DOMAIN q BY Zenon, <1>1, <2>1 DEF Numbered
  <2>2. CASE i \notin DOMAIN q BY Zenon, <1>2, <1>3, <2>2
  <2> QED BY <2>1, <2>2
<1>8. ASSUME NEW s, s # x, OneRecv(q, s) PROVE OneRecv(t, s)
  BY <1>1, <1>4, <1>8 DEF OneRecv
<1>9. ASSUME NEW s, s # x, NoRecv(q, s) PROVE NoRecv(t, s)
  BY <1>1, <1>4, <1>9 DEF NoRecv
<1>10. ASSUME NEW s, Served(q, s) PROVE Served(t, s)
  BY <1>1, <1>10 DEF Served
<1> QED BY <1>1, <1>5, <1>6, <1>7, <1>8, <1>9, <1>10 DEF t

(* Aborted consists of such completions.                                   *)
LEMMA AbortedCloses ==
    ASSUME ServerTypeOK, NEW s \in Sessions
    PROVE  Closing(Aborted(s), s)
<1> DEFINE a == IF s \in reading THEN <<<<s, "recvErr">>>> ELSE <<>>
           n == Len(writes[s])
           b == [i \in 1..n |-> <<s, "sendErr">>]
<1>1. n \in Nat BY DEF ServerTypeOK
<1>2. <<s, "recvErr">> \in Entries /\ <<s, "sendErr">> \in Entries BY DEF Entries, Handlers
<1>3. a \in Seq(Entries) /\ \A i \in DOMAIN a : a[i] = <<s, "recvErr">> BY <1>2
<1> HIDE DEF n
<1>4. b \in Seq(Entries) /\ \A i \in DOMAIN b : b[i] = <<s, "sendErr">> BY <1>1, <1>2
<1>5. Aborted(s) = a \o b BY DEF Aborted, n
<1> HIDE DEF a, b
<1>6. a \o b \in Seq(Entries) BY <1>3, <1>4
<1>7. ASSUME NEW i \in DOMAIN (a \o b) PROVE (a \o b)[i] \in {<<s, "recvErr">>, <<s, "sendErr">>}
  BY <1>3, <1>4
<1>8. ASSUME NEW i \in DOMAIN (a \o b) PROVE (a \o b)[i][1] = s /\ (a \o b)[i][2] \in {"recvErr", "sendErr"}
  BY <1>7
<1> QED BY <1>5, <1>6, <1>8 DEF Closing

(* The queues stop may leave: those in which no accept is new.             *)
Kept == {q \in Seq(Entries) : /\ Numbered(q, lastSessionId) /\ OneAccept(q)
                              /\ (NoAccept(queue) => NoAccept(q))}

(* The clear of m_sessions in stop adds no accept.                         *)
LEMMA ClearedIsKept ==
    ASSUME ServerTypeOK, AcceptInv
    PROVE  Cleared[MaxSessions] \in Kept
<1> DEFINE step == [n \in Nat |-> [q \in Kept |-> IF n + 1 \in m_sessions THEN q \o Aborted(n + 1) ELSE q]]
<1>0. lastSessionId \in Nat /\ m_sessions \subseteq 1..lastSessionId /\ m_sessions \subseteq Sessions
      /\ MaxSessions \in Nat /\ queue \in Seq(Entries)
  BY ApiAssumption DEF ServerTypeOK, Sessions, Entries
<1>1. queue \in Kept BY <1>0 DEF Kept, AcceptInv
<1>2. ASSUME NEW s \in m_sessions, NEW q \in Kept PROVE q \o Aborted(s) \in Kept
  <2>1. s \in Sessions /\ s <= lastSessionId BY <1>0
  <2>2. Closing(Aborted(s), s) BY <2>1, AbortedCloses
  <2>3. q \in Seq(Entries) /\ Numbered(q, lastSessionId) /\ OneAccept(q) /\ (NoAccept(queue) => NoAccept(q))
    BY DEF Kept
  <2>4. /\ q \o Aborted(s) \in Seq(Entries) /\ OneAccept(q \o Aborted(s))
        /\ (NoAccept(q) => NoAccept(q \o Aborted(s))) /\ Numbered(q \o Aborted(s), lastSessionId)
    BY Zenon, <1>0, <2>1, <2>2, <2>3, ClosingKeeps
  <2> QED BY Zenon, <2>3, <2>4 DEF Kept
<1>3. step \in [Nat -> [Kept -> Kept]] BY <1>2
<1>4. PICK g : Stepwise(g, Kept, queue, step)
  <2> HIDE DEF step
  <2>1. step \in Steps(Kept) BY Zenon, <1>3 DEF Steps
  <2> QED BY Zenon, <1>1, <2>1, Recursion
<1>5. ASSUME NEW n \in Nat
      PROVE  g[n + 1] = IF n + 1 \in m_sessions THEN g[n] \o Aborted(n + 1) ELSE g[n]
  <2>1. g[n] \in Kept /\ g[n + 1] = step[n][g[n]]
    <3> HIDE DEF step
    <3> QED BY Zenon, <1>4 DEF Stepwise
  <2> QED BY Zenon, <2>1
<1>6. ASSUME NEW s \in Nat
      PROVE  g[s] = IF s = 0 THEN queue ELSE IF s \in m_sessions THEN g[s - 1] \o Aborted(s) ELSE g[s - 1]
  <2>1. CASE s = 0 BY Zenon, <1>4, <2>1 DEF Stepwise
  <2>2. CASE s # 0
    <3>1. s - 1 \in Nat /\ (s - 1) + 1 = s BY <2>2
    <3> QED BY Zenon, <1>5, <2>2, <3>1
  <2> QED BY <2>1, <2>2
<1>7. g = [s \in Nat |-> IF s = 0 THEN queue
                          ELSE IF s \in m_sessions THEN g[s - 1] \o Aborted(s) ELSE g[s - 1]]
  BY Zenon, <1>4, <1>6 DEF Stepwise
<1> DEFINE Defines(f) == f = [s \in Nat |-> IF s = 0 THEN queue
                             ELSE IF s \in m_sessions THEN f[s - 1] \o Aborted(s) ELSE f[s - 1]]
<1>8. Defines(Cleared)
  <2>1. \E f : Defines(f) BY Zenon, <1>7
  <2> QED BY Zenon, <2>1 DEF Cleared
<1> DEFINE T == {n \in Nat : Cleared[n] \in Kept}
<1>9. Cleared[0] = queue BY <1>8
<1>10. ASSUME NEW n \in T PROVE n + 1 \in T
  <2>1. n + 1 \in Nat /\ n + 1 # 0 /\ (n + 1) - 1 = n OBVIOUS
  <2>2. Cleared[n + 1] = IF n + 1 \in m_sessions THEN Cleared[n] \o Aborted(n + 1) ELSE Cleared[n]
    BY Zenon, <1>8, <2>1
  <2> QED BY Zenon, <1>2, <2>1, <2>2
<1>11. T = Nat
  <2>1. T \in SUBSET Nat /\ 0 \in T BY <1>1, <1>9
  <2> HIDE DEF T
  <2> QED BY Zenon, <1>10, <2>1, Induction
<1> QED BY <1>0, <1>11

(* What the types say.                                                     *)
LEMMA ServerFacts ==
    ASSUME ServerTypeOK
    PROVE  /\ MaxSessions \in Nat \ {0} /\ Sessions = 1..MaxSessions /\ lastSessionId \in Nat
           /\ lastSessionId <= MaxSessions
           /\ queue \in Seq(Entries) /\ m_sessions \subseteq 1..lastSessionId /\ m_sessions \subseteq Sessions
           /\ reading \subseteq m_sessions
  BY ApiAssumption DEF ServerTypeOK, Sessions, Entries

(* begin_accept, once no accept is under way.                              *)
LEMMA AcceptBegins ==
    ASSUME NEW n \in 0..MaxSessions, NEW q \in Seq(Entries), NoAccept(q), Numbered(q, n), begin_accept(n, q)
    PROVE  /\ queue' \in Seq(Entries) /\ accepting' \in BOOLEAN
           /\ OneAccept(queue') /\ Numbered(queue', n)
           /\ (accepting' \/ ~NoAccept(queue') => n < MaxSessions)
           /\ (accepting' => NoAccept(queue'))
           /\ (m_running /\ n < MaxSessions => accepting' \/ ~NoAccept(queue'))
           /\ \A s : /\ (OneRecv(q, s) => OneRecv(queue', s)) /\ (NoRecv(q, s) => NoRecv(queue', s))
                     /\ (Served(q, s) => Served(queue', s))
<1>0. MaxSessions \in Nat /\ n \in Nat /\ OneAccept(q) BY ApiAssumption DEF NoAccept, OneAccept
<1>1. CASE ~m_running \/ n >= MaxSessions
  <2>1. accepting' = FALSE /\ queue' = q BY Zenon, <1>1 DEF begin_accept
  <2>2. ~(m_running /\ n < MaxSessions) BY <1>0, <1>1
  <2> QED BY Zenon, <1>0, <2>1, <2>2
<1>2. CASE ~(~m_running \/ n >= MaxSessions) /\ m_acceptor = "open"
  <2>1. accepting' = TRUE /\ queue' = q BY Zenon, <1>2 DEF begin_accept
  <2>2. n < MaxSessions BY <1>0, <1>2
  <2> QED BY Zenon, <1>0, <2>1, <2>2
<1>3. CASE ~(~m_running \/ n >= MaxSessions) /\ m_acceptor # "open"
  <2> DEFINE e == <<n + 1, "acceptErr">>
  <2>1. accepting' = FALSE /\ queue' = Append(q, e) BY Zenon, <1>3 DEF begin_accept
  <2>2. n < MaxSessions BY <1>0, <1>3
  <2>3. e \in Entries /\ e[1] = n + 1 BY <1>0, <2>2 DEF Entries, Sessions, Handlers
  <2>4. IsAccept(e) BY DEF IsAccept
  <2>5. \A s : ~IsRecv(e, s) BY DEF IsRecv
  <2> HIDE DEF e
  <2>6. /\ Append(q, e) \in Seq(Entries) /\ OneAccept(Append(q, e)) /\ ~NoAccept(Append(q, e))
        /\ Numbered(Append(q, e), n)
    BY Zenon, <1>0, <2>3, <2>4, AppendKeeps
  <2>7. \A s : /\ (OneRecv(q, s) => OneRecv(Append(q, e), s)) /\ (NoRecv(q, s) => NoRecv(Append(q, e), s))
               /\ (Served(q, s) => Served(Append(q, e), s))
    BY Zenon, <2>3, <2>5, AppendKeepsSession
  <2> QED BY Zenon, <2>1, <2>2, <2>6, <2>7
<1> QED BY <1>1, <1>2, <1>3

(* The invariant holds when the program starts, ...                        *)
LEMMA ApiInitHolds == ProgramInit => ApiInv
<1> SUFFICES ASSUME ProgramInit PROVE ApiInv OBVIOUS
<1> USE DEF ProgramInit, ServerInit
<1>1. ServerTypeOK
  <2>1. 0 \in 0..MaxSessions BY ApiAssumption
  <2>2. writes \in [Sessions -> Seq(BOOLEAN)] /\ m_message \in [Sessions -> Parts] BY DEF Parts
  <2>3. queue \in Seq(Sessions \X Handlers) /\ fate \in Fates BY DEF Fates
  <2> QED BY Zenon, <2>1, <2>2, <2>3 DEF ServerTypeOK
<1>2. DOMAIN queue = {} OBVIOUS
<1>3. NoAccept(queue) /\ OneAccept(queue) /\ Numbered(queue, lastSessionId)
  BY <1>2 DEF NoAccept, OneAccept, Numbered
<1>4. AcceptInv BY Zenon, <1>3 DEF AcceptInv
<1>5. ReadInv BY DEF ReadInv
<1>6. ServeInv /\ ListenInv BY Zenon DEF ServeInv, ListenInv
<1>7. MainInv BY DEF MainInv, Places
<1> QED BY <1>1, <1>4, <1>5, <1>6, <1>7 DEF ApiInv

(* Steps that touch the main thread's place at most.                       *)
LEMMA QuietKeepsApi == ASSUME ApiInv, UNCHANGED <<listener, io>>, MainInv' PROVE ApiInv'
<1>1. /\ m_running' = m_running /\ m_acceptor' = m_acceptor /\ m_workThread' = m_workThread
      /\ accepting' = accepting /\ lastSessionId' = lastSessionId /\ m_sessions' = m_sessions
      /\ reading' = reading /\ writes' = writes /\ m_message' = m_message /\ queue' = queue /\ fate' = fate
  BY DEF listener, server, io
<1>2. ServerTypeOK' BY Zenon, <1>1 DEF ApiInv, ServerTypeOK
<1>3. AcceptInv' BY Zenon, <1>1 DEF ApiInv, AcceptInv
<1>4. ReadInv' BY Zenon, <1>1 DEF ApiInv, ReadInv
<1>5. ServeInv' BY Zenon, <1>1 DEF ApiInv, ServeInv
<1>6. ListenInv' BY Zenon, <1>1 DEF ApiInv, ListenInv
<1> QED BY Zenon, <1>2, <1>3, <1>4, <1>5, <1>6 DEF ApiInv

(* ApiServer::start keeps it, ...                                          *)
LEMMA StartKeepsApi == ASSUME ApiInv, main = "begin", main' = "test", start PROVE ApiInv'
<1>1. MainInv' BY DEF MainInv, Places
<1>2. CASE UNCHANGED server
  BY Zenon, <1>1, <1>2, QuietKeepsApi DEF start, listener
<1>3. CASE m_running' = TRUE /\ m_acceptor' = "open" /\ m_workThread' = "runs"
  <2>1. /\ accepting' = accepting /\ lastSessionId' = lastSessionId /\ m_sessions' = m_sessions
        /\ reading' = reading /\ writes' = writes /\ m_message' = m_message /\ queue' = queue /\ fate' = fate
    BY DEF start, io
  <2>2. m_workThread = "none" BY DEF ApiInv, MainInv
  <2>3. ~accepting /\ NoAccept(queue) BY <2>2 DEF ApiInv, AcceptInv
  <2>4. ServerTypeOK' BY Zenon, <1>3, <2>1 DEF ApiInv, ServerTypeOK
  <2>5. AcceptInv' BY Zenon, <2>1, <2>3 DEF ApiInv, AcceptInv
  <2>6. ReadInv' /\ ServeInv' BY Zenon, <2>1 DEF ApiInv, ReadInv, ServeInv
  <2>7. ListenInv' BY Zenon, <1>3 DEF ListenInv
  <2> QED BY Zenon, <1>1, <2>4, <2>5, <2>6, <2>7 DEF ApiInv
<1> QED BY Zenon, <1>2, <1>3 DEF start

(* ... stop in each of its steps: the acceptor is closed, ...              *)
LEMMA CloseKeepsApi == ASSUME ApiInv, CloseAcceptor, main' = "join" PROVE ApiInv'
<1>1. MainInv' BY DEF MainInv, Places
<1>2. /\ m_acceptor' = "closed" /\ accepting' = FALSE /\ m_running' = m_running /\ m_workThread' = m_workThread
      /\ lastSessionId' = lastSessionId /\ m_sessions' = m_sessions /\ reading' = reading
      /\ writes' = writes /\ m_message' = m_message /\ fate' = fate
      /\ queue' = IF accepting THEN Append(queue, <<lastSessionId + 1, "acceptErr">>) ELSE queue
  BY DEF CloseAcceptor
<1>3. ServerTypeOK /\ AcceptInv /\ ReadInv /\ ServeInv /\ ListenInv BY DEF ApiInv
<1> DEFINE e == <<lastSessionId + 1, "acceptErr">>
<1>4. CASE accepting
  <2>1. lastSessionId < MaxSessions /\ m_workThread = "ended" /\ NoAccept(queue) /\ OneAccept(queue)
        /\ Numbered(queue, lastSessionId)
    BY <1>3, <1>4 DEF AcceptInv
  <2>2. queue' = Append(queue, e) BY <1>2, <1>4
  <2>3. e \in Entries /\ e[1] = lastSessionId + 1
    BY <1>3, <2>1, ServerFacts DEF Entries, Handlers
  <2>4. IsAccept(e) /\ \A s : ~IsRecv(e, s) BY DEF IsAccept, IsRecv
  <2>5. queue \in Seq(Entries) /\ lastSessionId \in Nat BY <1>3, ServerFacts
  <2> HIDE DEF e
  <2>6. /\ queue' \in Seq(Entries) /\ OneAccept(queue') /\ ~NoAccept(queue') /\ Numbered(queue', lastSessionId)
    BY Zenon, <2>1, <2>2, <2>3, <2>4, <2>5, AppendKeeps
  <2>7. \A s : /\ (OneRecv(queue, s) => OneRecv(queue', s)) /\ (NoRecv(queue, s) => NoRecv(queue', s))
               /\ (Served(queue, s) => Served(queue', s))
    BY Zenon, <2>2, <2>3, <2>4, <2>5, AppendKeepsSession
  <2>8. ServerTypeOK' BY Zenon, <1>2, <1>3, <2>6 DEF ServerTypeOK, Entries
  <2>9. AcceptInv' BY Zenon, <1>2, <2>1, <2>6 DEF AcceptInv
  <2>10. ReadInv' BY Zenon, <1>2, <1>3, <2>7 DEF ReadInv
  <2>11. ServeInv' BY Zenon, <1>2, <1>3, <2>7 DEF ServeInv
  <2>12. ListenInv' BY Zenon, <2>6 DEF ListenInv
  <2> QED BY Zenon, <1>1, <2>8, <2>9, <2>10, <2>11, <2>12 DEF ApiInv
<1>5. CASE ~accepting
  <2>1. queue' = queue BY <1>2, <1>5
  <2>2. ServerTypeOK' BY Zenon, <1>2, <1>3, <2>1 DEF ServerTypeOK
  <2>3. AcceptInv' BY Zenon, <1>2, <1>3, <2>1 DEF AcceptInv
  <2>4. ReadInv' /\ ServeInv' BY Zenon, <1>2, <1>3, <2>1 DEF ReadInv, ServeInv
  <2>5. ListenInv' BY Zenon, <1>2, <1>3, <1>5, <2>1 DEF ListenInv
  <2> QED BY Zenon, <1>1, <2>2, <2>3, <2>4, <2>5 DEF ApiInv
<1> QED BY <1>4, <1>5

(* ... m_running is stored, ...                                            *)
LEMMA StoreKeepsApi == ASSUME ApiInv, StoreStopped, main' = "clear" PROVE ApiInv'
<1>1. /\ m_running' = FALSE /\ m_acceptor' = m_acceptor /\ m_workThread' = m_workThread
      /\ accepting' = accepting /\ lastSessionId' = lastSessionId /\ m_sessions' = m_sessions
      /\ reading' = reading /\ writes' = writes /\ m_message' = m_message /\ queue' = queue /\ fate' = fate
  BY DEF StoreStopped, io
<1>2. ServerTypeOK' BY Zenon, <1>1 DEF ApiInv, ServerTypeOK
<1>3. AcceptInv' BY Zenon, <1>1 DEF ApiInv, AcceptInv
<1>4. ReadInv' /\ ServeInv' BY Zenon, <1>1 DEF ApiInv, ReadInv, ServeInv
<1>5. ListenInv' BY Zenon, <1>1 DEF ListenInv
<1>6. MainInv' BY <1>1 DEF MainInv, Places
<1> QED BY Zenon, <1>2, <1>3, <1>4, <1>5, <1>6 DEF ApiInv

(* ... and the sessions are cleared.                                       *)
LEMMA ClearKeepsApi == ASSUME ApiInv, ClearSessions, ~m_running, MainInv' PROVE ApiInv'
<1>1. /\ m_running' = m_running /\ m_acceptor' = m_acceptor /\ m_workThread' = m_workThread
      /\ accepting' = accepting /\ lastSessionId' = lastSessionId /\ m_sessions' = {}
      /\ reading' = {} /\ writes' = [s \in Sessions |-> <<>>] /\ m_message' = m_message
      /\ queue' = Cleared[MaxSessions] /\ fate' = fate
  BY DEF ClearSessions, listener, server
<1>2. ServerTypeOK /\ AcceptInv BY DEF ApiInv
<1>3. queue' \in Kept BY Zenon, <1>1, <1>2, ClearedIsKept
<1>4. /\ queue' \in Seq(Entries) /\ Numbered(queue', lastSessionId) /\ OneAccept(queue')
      /\ (NoAccept(queue) => NoAccept(queue'))
  BY Zenon, <1>3 DEF Kept
<1>5. ServerTypeOK'
  <2>1. writes' \in [Sessions -> Seq(BOOLEAN)] BY <1>1
  <2> QED BY Zenon, <1>1, <1>2, <1>4, <2>1 DEF ServerTypeOK, Entries
<1>6. AcceptInv' BY Zenon, <1>1, <1>2, <1>4 DEF AcceptInv
<1>7. ReadInv' BY Zenon, <1>1 DEF ReadInv
<1>8. ServeInv' /\ ListenInv' BY Zenon, <1>1 DEF ServeInv, ListenInv
<1> QED BY Zenon, <1>5, <1>6, <1>7, <1>8 DEF ApiInv

(* MainInv depends on the place of doMiner, m_running and the thread.      *)
LEMMA MainStays == ASSUME MainInv, main' = main, m_running' = m_running, main # "begin" \/ m_workThread' = m_workThread
                   PROVE  MainInv'
  BY Zenon DEF MainInv

(* The first begin_accept.                                                 *)
LEMMA WorkThreadKeepsApi == ASSUME ApiInv, WorkThread, main' = main PROVE ApiInv'
<1>1. /\ m_workThread = "runs" /\ m_workThread' = "ended" /\ m_running' = m_running /\ m_acceptor' = m_acceptor
      /\ lastSessionId' = lastSessionId /\ m_sessions' = m_sessions /\ reading' = reading
      /\ writes' = writes /\ m_message' = m_message /\ fate' = fate
  BY DEF WorkThread
<1>2. ServerTypeOK /\ AcceptInv /\ ReadInv /\ ServeInv /\ ListenInv /\ MainInv BY DEF ApiInv
<1>3. NoAccept(queue) /\ Numbered(queue, lastSessionId) BY <1>1, <1>2 DEF AcceptInv
<1>4. lastSessionId \in 0..MaxSessions /\ queue \in Seq(Entries) BY <1>2, ServerFacts DEF ServerTypeOK
<1>5. begin_accept(lastSessionId, queue) BY DEF WorkThread
<1>6. /\ queue' \in Seq(Entries) /\ accepting' \in BOOLEAN
      /\ OneAccept(queue') /\ Numbered(queue', lastSessionId)
      /\ (accepting' \/ ~NoAccept(queue') => lastSessionId < MaxSessions)
      /\ (accepting' => NoAccept(queue'))
      /\ (m_running /\ lastSessionId < MaxSessions => accepting' \/ ~NoAccept(queue'))
      /\ \A s : /\ (OneRecv(queue, s) => OneRecv(queue', s)) /\ (NoRecv(queue, s) => NoRecv(queue', s))
                /\ (Served(queue, s) => Served(queue', s))
  BY Zenon, <1>3, <1>4, <1>5, AcceptBegins
<1>7. ServerTypeOK' BY Zenon, <1>1, <1>2, <1>6 DEF ServerTypeOK, Entries
<1>8. AcceptInv' BY Zenon, <1>1, <1>6 DEF AcceptInv
<1>9. ReadInv' BY Zenon, <1>1, <1>2, <1>6 DEF ReadInv
<1>10. ServeInv' BY Zenon, <1>1, <1>2, <1>6 DEF ServeInv
<1>11. ListenInv' BY Zenon, <1>1, <1>6 DEF ListenInv
<1>12. MainInv'
  <2>1. main # "begin" BY <1>1, <1>2 DEF MainInv
  <2> QED BY Zenon, <1>1, <1>2, <2>1, MainStays
<1> QED BY Zenon, <1>7, <1>8, <1>9, <1>10, <1>11, <1>12 DEF ApiInv

(* The completion that runs is the first of the queue.                     *)
LEMMA Running == ASSUME ApiInv, NEW s, NEW h, Runs(s, h)
                 PROVE  /\ queue \in Seq(Entries) /\ queue # <<>> /\ Head(queue) = <<s, h>> /\ fate = "alive"
                        /\ Head(queue) \in Entries /\ s \in Sessions /\ h \in Handlers
                        /\ lastSessionId \in Nat
                        /\ (h \in {"accept", "acceptErr"} => s = lastSessionId + 1)
                        /\ (h \notin {"accept", "acceptErr"} => s <= lastSessionId)
                        /\ (h \in {"accept", "acceptErr"} <=> IsAccept(Head(queue)))
<1>1. ServerTypeOK /\ AcceptInv BY DEF ApiInv
<1>2. queue \in Seq(Entries) /\ lastSessionId \in Nat BY <1>1, ServerFacts
<1>3. queue # <<>> /\ Head(queue) = <<s, h>> /\ fate = "alive" BY DEF Runs
<1>4. 1 \in DOMAIN queue /\ Head(queue) = queue[1] /\ Head(queue) \in Entries BY <1>2, <1>3
<1>5. s \in Sessions /\ h \in Handlers BY <1>3, <1>4 DEF Entries
<1>6. h \in {"accept", "acceptErr"} <=> IsAccept(Head(queue)) BY <1>3 DEF IsAccept
<1>7. IF IsAccept(queue[1]) THEN queue[1][1] = lastSessionId + 1 ELSE queue[1][1] <= lastSessionId
  BY Zenon, <1>1, <1>4 DEF AcceptInv, Numbered
<1>8. queue[1][1] = s BY <1>3, <1>4
<1> QED BY <1>2, <1>3, <1>4, <1>5, <1>6, <1>7, <1>8

(* After the completion is off the queue.                                  *)
LEMMA Popped == ASSUME ApiInv, NEW s, NEW h, Runs(s, h)
                PROVE  /\ Tail(queue) \in Seq(Entries) /\ OneAccept(Tail(queue))
                       /\ (NoAccept(queue) => NoAccept(Tail(queue)))
                       /\ Numbered(Tail(queue), lastSessionId)
                       /\ (h \in {"accept", "acceptErr"} => NoAccept(Tail(queue)) /\ ~NoAccept(queue))
                       /\ (h \notin {"accept", "acceptErr"} /\ NoAccept(Tail(queue)) => NoAccept(queue))
                       /\ \A x \in m_sessions : /\ OneRecv(Tail(queue), x)
                                                /\ (x \in reading => NoRecv(Tail(queue), x))
                                                /\ (x # s /\ Served(queue, x) => Served(Tail(queue), x))
                                                /\ (h = "sent" /\ Served(queue, x) => Served(Tail(queue), x))
                                                /\ (x = s /\ h \in {"recv", "recvErr"}
                                                       => NoRecv(Tail(queue), x) /\ x \notin reading)
<1>1. /\ queue \in Seq(Entries) /\ queue # <<>> /\ Head(queue) = <<s, h>> /\ lastSessionId \in Nat
      /\ (h \in {"accept", "acceptErr"} <=> IsAccept(Head(queue)))
  BY Running
<1>2. AcceptInv /\ ReadInv BY DEF ApiInv
<1>3. OneAccept(queue) /\ Numbered(queue, lastSessionId) BY <1>2 DEF AcceptInv
<1>4. 1 \in DOMAIN queue /\ queue[1] = Head(queue) BY <1>1
<1>5. IsAccept(Head(queue)) => ~NoAccept(queue) BY <1>4 DEF NoAccept
<1>6. /\ Tail(queue) \in Seq(Entries) /\ OneAccept(Tail(queue)) /\ (NoAccept(queue) => NoAccept(Tail(queue)))
      /\ Numbered(Tail(queue), lastSessionId)
      /\ (IsAccept(Head(queue)) => NoAccept(Tail(queue)))
      /\ (~IsAccept(Head(queue)) /\ NoAccept(Tail(queue)) => NoAccept(queue))
  BY Zenon, <1>1, <1>3, TailKeeps
<1>7. ASSUME NEW x \in m_sessions
      PROVE  /\ OneRecv(Tail(queue), x) /\ (x \in reading => NoRecv(Tail(queue), x))
             /\ (x # s /\ Served(queue, x) => Served(Tail(queue), x))
             /\ (h = "sent" /\ Served(queue, x) => Served(Tail(queue), x))
             /\ (x = s /\ h \in {"recv", "recvErr"} => NoRecv(Tail(queue), x) /\ x \notin reading)
  <2>1. OneRecv(queue, x) /\ (x \in reading => NoRecv(queue, x)) BY <1>2 DEF ReadInv
  <2>2. /\ OneRecv(Tail(queue), x) /\ (NoRecv(queue, x) => NoRecv(Tail(queue), x))
        /\ (IsRecv(Head(queue), x) => NoRecv(Tail(queue), x))
        /\ (~Serves(Head(queue), x) /\ Served(queue, x) => Served(Tail(queue), x))
    BY Zenon, <1>1, <2>1, TailKeepsSession
  <2>3. (x # s \/ h = "sent") => ~Serves(Head(queue), x) BY <1>1 DEF Serves
  <2>4. x = s /\ h \in {"recv", "recvErr"} => IsRecv(Head(queue), x) BY <1>1 DEF IsRecv
  <2>5. IsRecv(Head(queue), x) => ~NoRecv(queue, x) BY <1>4 DEF NoRecv
  <2> QED BY Zenon, <2>1, <2>2, <2>3, <2>4, <2>5
<1> QED BY Zenon, <1>1, <1>5, <1>6, <1>7

(* The queue has no completion of a session that is yet to come.           *)
LEMMA UnknownIsQuiet == ASSUME NEW q, NEW last \in Nat, Numbered(q, last)
                        PROVE  NoRecv(q, last + 1)
<1> SUFFICES ASSUME NEW i \in DOMAIN q, IsRecv(q[i], last + 1) PROVE FALSE BY DEF NoRecv
<1>1. ~IsAccept(q[i]) /\ q[i][1] = last + 1 BY DEF IsAccept, IsRecv
<1>2. q[i][1] <= last BY Zenon, <1>1 DEF Numbered
<1> QED BY <1>1, <1>2

(* No completion is at most one.                                           *)
LEMMA NoneIsOne == ASSUME NEW q, NEW s, NoRecv(q, s) PROVE OneRecv(q, s)
  BY DEF NoRecv, OneRecv

(* Without an accept, the numbers stay right when one is given.            *)
LEMMA NumberedGrows == ASSUME NEW q \in Seq(Entries), NEW last \in Nat, Numbered(q, last), NoAccept(q)
                       PROVE  Numbered(q, last + 1)
<1> SUFFICES ASSUME NEW i \in DOMAIN q PROVE ~IsAccept(q[i]) /\ q[i][1] <= last + 1 BY DEF Numbered
<1>1. ~IsAccept(q[i]) BY DEF NoAccept
<1>2. q[i][1] <= last BY Zenon, <1>1 DEF Numbered
<1>3. q[i] \in Entries BY DEF Entries
<1>4. q[i][1] \in Nat BY <1>3, ApiAssumption DEF Entries, Sessions
<1> QED BY <1>1, <1>2, <1>4

(* handle_accept with a client: the session is new, ...                    *)
LEMMA AcceptedKeepsApi == ASSUME ApiInv, NEW s, Runs(s, "accept"), SessionAccepted(s), UNCHANGED server, main' = main
                          PROVE  ApiInv'
<1>1. /\ queue \in Seq(Entries) /\ s \in Sessions /\ s = lastSessionId + 1 /\ lastSessionId \in Nat /\ fate = "alive"
  BY Running
<1> DEFINE q == Tail(queue)
<1>2. /\ q \in Seq(Entries) /\ OneAccept(q) /\ Numbered(q, lastSessionId) /\ NoAccept(q) /\ ~NoAccept(queue)
      /\ \A x \in m_sessions : /\ OneRecv(q, x) /\ (x \in reading => NoRecv(q, x))
                               /\ (x # s /\ Served(queue, x) => Served(q, x))
  BY Zenon, Popped
<1>3. ServerTypeOK /\ AcceptInv /\ ReadInv /\ ServeInv /\ ListenInv /\ MainInv BY DEF ApiInv
<1>4. NoRecv(q, s) /\ OneRecv(q, s) BY Zenon, <1>1, <1>2, UnknownIsQuiet, NoneIsOne
<1>5. Numbered(q, s) BY Zenon, <1>1, <1>2, NumberedGrows
<1>6. m_workThread = "ended" /\ ~accepting BY Zenon, <1>2, <1>3 DEF AcceptInv
<1>7. s \notin m_sessions /\ s \notin reading /\ m_sessions' \subseteq 1..s /\ s \in 0..MaxSessions
      /\ \A x \in m_sessions : x # s
  BY <1>1, <1>3, ServerFacts DEF SessionAccepted
<1>8. /\ m_running' = m_running /\ m_acceptor' = m_acceptor /\ m_workThread' = m_workThread
      /\ lastSessionId' = s /\ m_sessions' = m_sessions \union {s} /\ writes' = writes /\ m_message' = m_message
  BY DEF SessionAccepted, server
<1>9. MainInv' BY Zenon, <1>3, <1>8, MainStays
<1> HIDE DEF q
<1>10. CASE fate' = fate /\ reading' = reading \union {s} /\ begin_accept(s, q)
  <2>1. /\ queue' \in Seq(Entries) /\ accepting' \in BOOLEAN
        /\ OneAccept(queue') /\ Numbered(queue', s)
        /\ (accepting' \/ ~NoAccept(queue') => s < MaxSessions)
        /\ (accepting' => NoAccept(queue'))
        /\ (m_running /\ s < MaxSessions => accepting' \/ ~NoAccept(queue'))
        /\ \A x : /\ (OneRecv(q, x) => OneRecv(queue', x)) /\ (NoRecv(q, x) => NoRecv(queue', x))
                  /\ (Served(q, x) => Served(queue', x))
    BY Zenon, <1>2, <1>5, <1>7, <1>10, AcceptBegins
  <2>2. ServerTypeOK'
    <3>1. reading' \subseteq m_sessions' BY Zenon, <1>3, <1>8, <1>10 DEF ServerTypeOK
    <3> QED BY Zenon, <1>3, <1>7, <1>8, <1>10, <2>1, <3>1 DEF ServerTypeOK, Entries
  <2>3. AcceptInv' BY Zenon, <1>6, <1>8, <2>1 DEF AcceptInv
  <2>4. ReadInv'
    <3>1. ASSUME NEW x \in m_sessions' PROVE OneRecv(queue', x) /\ (x \in reading' => NoRecv(queue', x))
      <4>1. CASE x = s BY Zenon, <1>4, <2>1, <4>1
      <4>2. CASE x # s
        <5>1. x \in m_sessions /\ (x \in reading' => x \in reading) BY <1>8, <1>10, <4>2
        <5> QED BY Zenon, <1>2, <2>1, <5>1
      <4> QED BY <4>1, <4>2
    <3>2. \A x \in Sessions \ m_sessions' : writes'[x] = <<>> BY <1>3, <1>8 DEF ReadInv
    <3> QED BY Zenon, <3>1, <3>2 DEF ReadInv
  <2>5. ServeInv' BY Zenon, <1>1, <1>2, <1>3, <1>7, <1>8, <1>10, <2>1 DEF ServeInv
  <2>6. ListenInv' BY Zenon, <1>8, <2>1 DEF ListenInv
  <2> QED BY Zenon, <1>9, <2>2, <2>3, <2>4, <2>5, <2>6 DEF ApiInv
<1>11. CASE fate' = "terminated" /\ queue' = q /\ UNCHANGED <<reading, accepting>>
  <2>1. reading' = reading /\ accepting' = accepting /\ fate' # "alive" BY <1>11
  <2>2. ServerTypeOK'
    <3>1. reading' \subseteq m_sessions' /\ fate' \in Fates BY <1>3, <1>8, <1>11, <2>1 DEF ServerTypeOK, Fates
    <3> QED BY Zenon, <1>2, <1>3, <1>7, <1>8, <1>11, <2>1, <3>1 DEF ServerTypeOK, Entries
  <2>3. AcceptInv'
    <3>1. ~accepting' /\ NoAccept(queue') /\ OneAccept(queue') /\ Numbered(queue', lastSessionId')
      BY <1>2, <1>5, <1>6, <1>8, <1>11, <2>1
    <3> QED BY Zenon, <3>1 DEF AcceptInv
  <2>4. ReadInv'
    <3>1. ASSUME NEW x \in m_sessions' PROVE OneRecv(queue', x) /\ (x \in reading' => NoRecv(queue', x))
      <4>1. CASE x = s BY Zenon, <1>4, <1>11, <4>1
      <4>2. CASE x # s
        <5>1. x \in m_sessions BY <1>8, <4>2
        <5> QED BY Zenon, <1>2, <1>11, <2>1, <5>1
      <4> QED BY <4>1, <4>2
    <3>2. \A x \in Sessions \ m_sessions' : writes'[x] = <<>> BY <1>3, <1>8 DEF ReadInv
    <3> QED BY Zenon, <3>1, <3>2 DEF ReadInv
  <2>5. ServeInv' /\ ListenInv' BY Zenon, <2>1 DEF ServeInv, ListenInv
  <2> QED BY Zenon, <1>9, <2>2, <2>3, <2>4, <2>5 DEF ApiInv
<1> QED BY Zenon, <1>10, <1>11 DEF SessionAccepted, q

(* ... and without: the next accept begins all the same.                   *)
LEMMA AcceptFailsKeepsApi == ASSUME ApiInv, NEW s, Runs(s, "acceptErr"), AcceptFails(s), UNCHANGED server, main' = main
                             PROVE  ApiInv'
<1>1. lastSessionId \in 0..MaxSessions /\ s \in Sessions /\ s = lastSessionId + 1
      /\ \A x \in m_sessions : x # s
  BY Running, ServerFacts DEF ApiInv
<1> DEFINE q == Tail(queue)
<1>2. /\ q \in Seq(Entries) /\ Numbered(q, lastSessionId) /\ NoAccept(q) /\ ~NoAccept(queue)
      /\ \A x \in m_sessions : /\ OneRecv(q, x) /\ (x \in reading => NoRecv(q, x))
                               /\ (x # s /\ Served(queue, x) => Served(q, x))
  BY Zenon, Popped
<1>3. ServerTypeOK /\ AcceptInv /\ ReadInv /\ ServeInv /\ ListenInv /\ MainInv BY DEF ApiInv
<1>4. m_workThread = "ended" BY Zenon, <1>2, <1>3 DEF AcceptInv
<1>5. /\ m_running' = m_running /\ m_acceptor' = m_acceptor /\ m_workThread' = m_workThread
      /\ lastSessionId' = lastSessionId /\ m_sessions' = m_sessions /\ writes' = writes /\ m_message' = m_message
      /\ reading' = reading /\ fate' = fate
  BY DEF AcceptFails, server
<1>6. begin_accept(lastSessionId, q) BY DEF AcceptFails
<1> HIDE DEF q
<1>7. /\ queue' \in Seq(Entries) /\ accepting' \in BOOLEAN
      /\ OneAccept(queue') /\ Numbered(queue', lastSessionId)
      /\ (accepting' \/ ~NoAccept(queue') => lastSessionId < MaxSessions)
      /\ (accepting' => NoAccept(queue'))
      /\ (m_running /\ lastSessionId < MaxSessions => accepting' \/ ~NoAccept(queue'))
      /\ \A x : /\ (OneRecv(q, x) => OneRecv(queue', x)) /\ (NoRecv(q, x) => NoRecv(queue', x))
                /\ (Served(q, x) => Served(queue', x))
  BY Zenon, <1>1, <1>2, <1>6, AcceptBegins
<1>8. ServerTypeOK' BY Zenon, <1>3, <1>5, <1>7 DEF ServerTypeOK, Entries
<1>9. AcceptInv' BY Zenon, <1>4, <1>5, <1>7 DEF AcceptInv
<1>10. ReadInv' BY Zenon, <1>2, <1>3, <1>5, <1>7 DEF ReadInv
<1>11. ServeInv' BY Zenon, <1>1, <1>2, <1>3, <1>5, <1>7 DEF ServeInv
<1>12. ListenInv' BY Zenon, <1>5, <1>7 DEF ListenInv
<1>13. MainInv' BY Zenon, <1>3, <1>5, MainStays
<1> QED BY Zenon, <1>8, <1>9, <1>10, <1>11, <1>12, <1>13 DEF ApiInv

(* A completion that finds its object destroyed: nothing runs after it.    *)
LEMMA NothingKeepsApi == ASSUME ApiInv, NEW s, NEW h, Runs(s, h), FindsNothing, main' = main PROVE ApiInv'
<1>1. /\ m_running' = m_running /\ m_acceptor' = m_acceptor /\ m_workThread' = m_workThread
      /\ accepting' = accepting /\ lastSessionId' = lastSessionId /\ m_sessions' = m_sessions
      /\ reading' = reading /\ writes' = writes /\ m_message' = m_message /\ queue' = Tail(queue)
      /\ fate' = "freed"
  BY DEF FindsNothing, listener, server
<1>2. ServerTypeOK /\ AcceptInv /\ ReadInv /\ MainInv BY DEF ApiInv
<1>3. /\ queue' \in Seq(Entries) /\ OneAccept(queue') /\ Numbered(queue', lastSessionId)
      /\ (NoAccept(queue) => NoAccept(queue'))
      /\ \A x \in m_sessions : OneRecv(queue', x) /\ (x \in reading => NoRecv(queue', x))
  BY Zenon, <1>1, Popped
<1>4. ServerTypeOK'
  <2>1. fate' \in Fates BY <1>1 DEF Fates
  <2> QED BY Zenon, <1>1, <1>2, <1>3, <2>1 DEF ServerTypeOK, Entries
<1>5. AcceptInv' BY Zenon, <1>1, <1>2, <1>3 DEF AcceptInv
<1>6. ReadInv' BY Zenon, <1>1, <1>2, <1>3 DEF ReadInv
<1>7. ServeInv' /\ ListenInv' BY <1>1 DEF ServeInv, ListenInv
<1>8. MainInv' BY Zenon, <1>1, <1>2, MainStays
<1> QED BY Zenon, <1>4, <1>5, <1>6, <1>7, <1>8 DEF ApiInv

(* The parts of the invariant that a handler of a session cannot disturb.  *)
LEMMA HandlerLeaves ==
    ASSUME ApiInv, UNCHANGED listener, fate' = fate, main' = main, queue' \in Seq(Entries),
           OneAccept(queue'), Numbered(queue', lastSessionId), NoAccept(queue) <=> NoAccept(queue'),
           m_sessions' \subseteq m_sessions, reading' \subseteq m_sessions',
           writes' \in [Sessions -> Seq(BOOLEAN)], m_message' \in [Sessions -> Parts], ReadInv', ServeInv'
    PROVE  ApiInv'
<1>1. /\ m_running' = m_running /\ m_acceptor' = m_acceptor /\ m_workThread' = m_workThread
      /\ accepting' = accepting /\ lastSessionId' = lastSessionId
  BY DEF listener, server
<1>2. ServerTypeOK /\ AcceptInv /\ ListenInv /\ MainInv BY DEF ApiInv
<1>3. m_sessions' \subseteq 1..lastSessionId BY <1>2 DEF ServerTypeOK
<1>4. ServerTypeOK' BY Zenon, <1>1, <1>2, <1>3 DEF ServerTypeOK, Entries
<1>5. AcceptInv' BY Zenon, <1>1, <1>2 DEF AcceptInv
<1>6. ListenInv' BY Zenon, <1>1, <1>2 DEF ListenInv
<1>7. MainInv' BY Zenon, <1>1, <1>2, MainStays
<1> QED BY Zenon, <1>4, <1>5, <1>6, <1>7 DEF ApiInv

(* onSendSocketDataCompleted of an answer that is not the last.            *)
LEMMA SentKeepsApi == ASSUME ApiInv, NEW s, onSendSocketDataCompleted(s), UNCHANGED listener, main' = main
                      PROVE  ApiInv'
<1>1. /\ Runs(s, "sent") /\ queue' = Tail(queue) /\ m_sessions' = m_sessions /\ reading' = reading
      /\ writes' = writes /\ m_message' = m_message /\ fate' = fate
  BY DEF onSendSocketDataCompleted
<1>2. /\ queue' \in Seq(Entries) /\ OneAccept(queue') /\ Numbered(queue', lastSessionId)
      /\ (NoAccept(queue) => NoAccept(queue')) /\ (NoAccept(queue') => NoAccept(queue))
      /\ \A x \in m_sessions : /\ OneRecv(queue', x) /\ (x \in reading => NoRecv(queue', x))
                               /\ (Served(queue, x) => Served(queue', x))
  BY <1>1, Popped
<1>3. ServerTypeOK /\ ReadInv /\ ServeInv BY DEF ApiInv
<1>4. ReadInv' BY Zenon, <1>1, <1>2, <1>3 DEF ReadInv
<1>5. ServeInv' BY Zenon, <1>1, <1>2, <1>3 DEF ServeInv
<1>6. /\ m_sessions' \subseteq m_sessions /\ reading' \subseteq m_sessions'
      /\ writes' \in [Sessions -> Seq(BOOLEAN)] /\ m_message' \in [Sessions -> Parts]
  BY <1>1, <1>3 DEF ServerTypeOK
<1> QED BY Zenon, <1>1, <1>2, <1>4, <1>5, <1>6, HandlerLeaves

(* disconnect, from any completion of the session.                         *)
LEMMA DisconnectKeepsApi ==
    ASSUME ApiInv, NEW s \in m_sessions, NEW h \in Handlers \ {"accept", "acceptErr"}, Runs(s, h), disconnect(s),
           UNCHANGED listener, main' = main
    PROVE  ApiInv'
<1> DEFINE q == Tail(queue)
           a == Aborted(s)
<1>1. /\ m_sessions' = m_sessions \ {s} /\ reading' = reading \ {s}
      /\ writes' = [writes EXCEPT ![s] = <<>>] /\ queue' = q \o a
      /\ m_message' = m_message /\ fate' = fate
  BY DEF disconnect
<1>2. /\ q \in Seq(Entries) /\ OneAccept(q) /\ Numbered(q, lastSessionId) /\ (NoAccept(queue) <=> NoAccept(q))
      /\ \A x \in m_sessions : /\ OneRecv(q, x) /\ (x \in reading => NoRecv(q, x))
                               /\ (x # s /\ Served(queue, x) => Served(q, x))
  BY Zenon, Popped
<1>3. ServerTypeOK /\ ReadInv /\ ServeInv BY DEF ApiInv
<1>4. s \in Sessions /\ s <= lastSessionId /\ lastSessionId \in Nat BY <1>3, ServerFacts
<1>5. Closing(a, s) BY Zenon, <1>3, <1>4, AbortedCloses
<1> HIDE DEF q, a
<1>6. /\ queue' \in Seq(Entries) /\ OneAccept(queue') /\ (NoAccept(q) <=> NoAccept(queue'))
      /\ Numbered(queue', lastSessionId)
      /\ \A x : /\ (x # s /\ OneRecv(q, x) => OneRecv(queue', x)) /\ (x # s /\ NoRecv(q, x) => NoRecv(queue', x))
                /\ (Served(q, x) => Served(queue', x))
  BY Zenon, <1>1, <1>2, <1>4, <1>5, ClosingKeeps
<1>7. \A x : x \in m_sessions' <=> x \in m_sessions /\ x # s BY <1>1
<1>8. writes' \in [Sessions -> Seq(BOOLEAN)] /\ (\A x \in Sessions : x # s => writes'[x] = writes[x])
      /\ writes'[s] = <<>>
  BY <1>1, <1>3, <1>4 DEF ServerTypeOK
<1>9. /\ m_sessions' \subseteq m_sessions /\ reading' \subseteq m_sessions' /\ reading' \subseteq reading
      /\ m_message' \in [Sessions -> Parts]
  BY <1>1, <1>3 DEF ServerTypeOK
<1>10. ReadInv'
  <2>1. ASSUME NEW x \in m_sessions' PROVE OneRecv(queue', x) /\ (x \in reading' => NoRecv(queue', x))
    BY Zenon, <1>2, <1>6, <1>7, <1>9
  <2>2. ASSUME NEW x \in Sessions \ m_sessions' PROVE writes'[x] = <<>>
    BY <1>3, <1>7, <1>8 DEF ReadInv
  <2> QED BY Zenon, <2>1, <2>2 DEF ReadInv
<1>11. ServeInv'
  <2> SUFFICES ASSUME fate = "alive", NEW x \in m_sessions', m_message[x] # "short"
               PROVE  x \in reading' \/ Served(queue', x) \/ \E i \in DOMAIN writes'[x] : writes'[x][i]
    BY Zenon, <1>1 DEF ServeInv
  <2>1. x \in m_sessions /\ x # s /\ x \in Sessions BY <1>3, <1>7, ServerFacts
  <2>2. x \in reading \/ Served(queue, x) \/ \E i \in DOMAIN writes[x] : writes[x][i]
    BY Zenon, <1>3, <2>1 DEF ServeInv
  <2>3. x \in reading => x \in reading' BY <1>1, <2>1
  <2>4. Served(queue, x) => Served(queue', x) BY Zenon, <1>2, <1>6, <2>1
  <2>5. writes'[x] = writes[x] BY <1>8, <2>1
  <2> QED BY Zenon, <2>2, <2>3, <2>4, <2>5
<1> QED BY Zenon, <1>1, <1>2, <1>6, <1>8, <1>9, <1>10, <1>11, HandlerLeaves

(* onRecvSocketDataCompleted: lines, a fragment, or an HTTP request.       *)
LEMMA RecvKeepsApi ==
    ASSUME ApiInv, NEW s \in m_sessions, onRecvSocketDataCompleted(s), UNCHANGED listener, main' = main
    PROVE  ApiInv'
<1> DEFINE q == Tail(queue)
<1>1. Runs(s, "recv") /\ queue' = q /\ m_sessions' = m_sessions /\ fate' = fate
  BY DEF onRecvSocketDataCompleted
<1>2. /\ q \in Seq(Entries) /\ OneAccept(q) /\ Numbered(q, lastSessionId)
      /\ (NoAccept(queue) => NoAccept(q)) /\ (NoAccept(q) => NoAccept(queue))
      /\ \A x \in m_sessions : /\ OneRecv(q, x) /\ (x \in reading => NoRecv(q, x))
                               /\ (x # s /\ Served(queue, x) => Served(q, x))
                               /\ (x = s => NoRecv(q, x) /\ x \notin reading)
  BY <1>1, Popped
<1>3. ServerTypeOK /\ ReadInv /\ ServeInv BY DEF ApiInv
<1>4. s \in Sessions BY <1>3, ServerFacts
<1> HIDE DEF q
<1>5. ASSUME /\ reading' \subseteq reading \union {s}
             /\ writes' \in [Sessions -> Seq(BOOLEAN)] /\ m_message' \in [Sessions -> Parts]
             /\ \A x \in Sessions : x # s => writes'[x] = writes[x] /\ m_message'[x] = m_message[x]
             /\ reading \subseteq reading'
             /\ m_message'[s] = "short" \/ s \in reading' \/ \E i \in DOMAIN writes'[s] : writes'[s][i]
      PROVE  ApiInv'
  <2>1. reading' \subseteq m_sessions' /\ m_sessions' \subseteq m_sessions BY <1>1, <1>3, <1>5 DEF ServerTypeOK
  <2>2. ReadInv'
    <3>1. ASSUME NEW x \in m_sessions' PROVE OneRecv(queue', x) /\ (x \in reading' => NoRecv(queue', x))
      <4>1. CASE x = s BY Zenon, <1>1, <1>2, <4>1
      <4>2. CASE x # s
        <5>1. x \in reading' => x \in reading BY <1>5, <4>2
        <5> QED BY Zenon, <1>1, <1>2, <5>1
      <4> QED BY <4>1, <4>2
    <3>2. ASSUME NEW x \in Sessions \ m_sessions' PROVE writes'[x] = <<>>
      <4>1. x \in Sessions \ m_sessions /\ x # s BY <1>1
      <4> QED BY Zenon, <1>3, <1>5, <4>1 DEF ReadInv
    <3> QED BY Zenon, <3>1, <3>2 DEF ReadInv
  <2>3. ServeInv'
    <3> SUFFICES ASSUME fate = "alive", NEW x \in m_sessions, m_message'[x] # "short"
                 PROVE  x \in reading' \/ Served(queue', x) \/ \E i \in DOMAIN writes'[x] : writes'[x][i]
      BY Zenon, <1>1 DEF ServeInv
    <3>1. CASE x = s BY Zenon, <1>5, <3>1
    <3>2. CASE x # s
      <4>1. x \in Sessions BY <1>3, ServerFacts
      <4>2. writes'[x] = writes[x] /\ m_message'[x] = m_message[x] BY Zenon, <1>5, <3>2, <4>1
      <4>3. x \in reading \/ Served(queue, x) \/ \E i \in DOMAIN writes[x] : writes[x][i]
        BY Zenon, <1>3, <4>2 DEF ServeInv
      <4>4. x \in reading => x \in reading' BY <1>5
      <4>5. Served(queue, x) => Served(queue', x) BY Zenon, <1>1, <1>2, <3>2
      <4> QED BY Zenon, <4>2, <4>3, <4>4, <4>5
    <3> QED BY <3>1, <3>2
  <2> QED BY Zenon, <1>1, <1>2, <1>5, <2>1, <2>2, <2>3, HandlerLeaves
<1>6. writes \in [Sessions -> Seq(BOOLEAN)] /\ m_message \in [Sessions -> Parts] BY <1>3 DEF ServerTypeOK
<1>7. CASE Lines(s)
  <2>1. PICK n \in 0..(MaxWrites - Unsent) :
            /\ writes' = [writes EXCEPT ![s] = @ \o [i \in 1..n |-> FALSE]]
            /\ \E part \in Parts : m_message' = [m_message EXCEPT ![s] = part]
            /\ reading' = reading \union {s}
    BY Zenon, <1>7 DEF Lines, KeepsReading, recvSocketData
  <2>2. n \in Nat OBVIOUS
  <2>3. [i \in 1..n |-> FALSE] \in Seq(BOOLEAN) BY <2>2
  <2>4. writes[s] \o [i \in 1..n |-> FALSE] \in Seq(BOOLEAN) BY <1>4, <1>6, <2>3
  <2>5. writes' \in [Sessions -> Seq(BOOLEAN)] /\ \A x \in Sessions : x # s => writes'[x] = writes[x]
    BY <1>4, <1>6, <2>1, <2>4
  <2>6. m_message' \in [Sessions -> Parts] /\ \A x \in Sessions : x # s => m_message'[x] = m_message[x]
    BY Zenon, <1>6, <2>1
  <2>7. reading' \subseteq reading \union {s} /\ reading \subseteq reading' /\ s \in reading' BY <2>1
  <2> QED BY Zenon, <1>5, <2>5, <2>6, <2>7
<1>8. CASE Fragment(s)
  <2>1. reading' = reading /\ writes' = writes /\ m_message' = [m_message EXCEPT ![s] = "short"]
    BY <1>8 DEF Fragment
  <2>2. m_message' \in [Sessions -> Parts] /\ m_message'[s] = "short"
        /\ \A x \in Sessions : x # s => m_message'[x] = m_message[x]
    BY <1>4, <1>6, <2>1 DEF Parts
  <2>3. reading' \subseteq reading \union {s} /\ reading \subseteq reading' BY <2>1
  <2> QED BY Zenon, <1>5, <1>6, <2>1, <2>2, <2>3
<1>9. CASE Http(s)
  <2>1. reading' = reading /\ writes' = [writes EXCEPT ![s] = Append(@, TRUE)]
        /\ m_message' = [m_message EXCEPT ![s] = "none"]
    BY <1>9 DEF Http
  <2>2. m_message' \in [Sessions -> Parts] /\ \A x \in Sessions : x # s => m_message'[x] = m_message[x]
    BY <1>4, <1>6, <2>1 DEF Parts
  <2>3. reading' \subseteq reading \union {s} /\ reading \subseteq reading' BY <2>1
  <2>4. writes[s] \in Seq(BOOLEAN) BY <1>4, <1>6
  <2>5. Append(writes[s], TRUE) \in Seq(BOOLEAN) /\ Len(writes[s]) + 1 \in DOMAIN Append(writes[s], TRUE)
        /\ Append(writes[s], TRUE)[Len(writes[s]) + 1] = TRUE
    BY <2>4
  <2>6. writes' \in [Sessions -> Seq(BOOLEAN)] /\ (\A x \in Sessions : x # s => writes'[x] = writes[x])
        /\ writes'[s] = Append(writes[s], TRUE)
    BY Zenon, <1>4, <1>6, <2>1, <2>5
  <2>7. \E i \in DOMAIN writes'[s] : writes'[s][i] BY Zenon, <2>5, <2>6
  <2> QED BY Zenon, <1>5, <2>2, <2>3, <2>6, <2>7
<1> QED BY Zenon, <1>7, <1>8, <1>9 DEF onRecvSocketDataCompleted

(* The operating system completes an accept, ...                           *)
LEMMA AcceptCompletesKeepsApi == ASSUME ApiInv, AcceptCompletes, main' = main PROVE ApiInv'
<1>1. PICK h \in {"accept", "acceptErr"} : queue' = Append(queue, <<lastSessionId + 1, h>>)
  BY DEF AcceptCompletes
<1> DEFINE e == <<lastSessionId + 1, h>>
<1>2. /\ accepting /\ accepting' = FALSE /\ m_running' = m_running /\ m_acceptor' = m_acceptor
      /\ m_workThread' = m_workThread /\ lastSessionId' = lastSessionId /\ m_sessions' = m_sessions
      /\ reading' = reading /\ writes' = writes /\ m_message' = m_message /\ fate' = fate
  BY DEF AcceptCompletes, server
<1>3. ServerTypeOK /\ AcceptInv /\ ReadInv /\ ServeInv /\ MainInv BY DEF ApiInv
<1>4. lastSessionId < MaxSessions /\ m_workThread = "ended" /\ NoAccept(queue) /\ OneAccept(queue)
      /\ Numbered(queue, lastSessionId)
  BY <1>2, <1>3 DEF AcceptInv
<1>5. e \in Entries /\ e[1] = lastSessionId + 1 BY <1>3, <1>4, ServerFacts DEF Entries, Handlers
<1>6. IsAccept(e) /\ \A s : ~IsRecv(e, s) BY DEF IsAccept, IsRecv
<1>7. queue \in Seq(Entries) /\ lastSessionId \in Nat BY <1>3, ServerFacts
<1>8. queue' = Append(queue, e) BY <1>1
<1> HIDE DEF e
<1>9. queue' \in Seq(Entries) /\ OneAccept(queue') /\ ~NoAccept(queue') /\ Numbered(queue', lastSessionId)
  BY Zenon, <1>4, <1>5, <1>6, <1>7, <1>8, AppendKeeps
<1>10. \A s : /\ (OneRecv(queue, s) => OneRecv(queue', s)) /\ (NoRecv(queue, s) => NoRecv(queue', s))
              /\ (Served(queue, s) => Served(queue', s))
  BY Zenon, <1>5, <1>6, <1>7, <1>8, AppendKeepsSession
<1>11. ServerTypeOK' BY Zenon, <1>2, <1>3, <1>9 DEF ServerTypeOK, Entries
<1>12. AcceptInv' BY Zenon, <1>2, <1>4, <1>9 DEF AcceptInv
<1>13. ReadInv' BY Zenon, <1>2, <1>3, <1>10 DEF ReadInv
<1>14. ServeInv' BY Zenon, <1>2, <1>3, <1>10 DEF ServeInv
<1>15. ListenInv' BY Zenon, <1>9 DEF ListenInv
<1>16. MainInv' BY Zenon, <1>2, <1>3, MainStays
<1> QED BY Zenon, <1>11, <1>12, <1>13, <1>14, <1>15, <1>16 DEF ApiInv

(* A completion of session s, which exists, is added.                      *)
LEMMA CompletionAdded ==
    ASSUME ApiInv, NEW s \in m_sessions, NEW h \in Handlers \ {"accept", "acceptErr"},
           queue' = Append(queue, <<s, h>>)
    PROVE  /\ queue' \in Seq(Entries) /\ OneAccept(queue') /\ Numbered(queue', lastSessionId)
           /\ (NoAccept(queue) <=> NoAccept(queue'))
           /\ \A x : /\ (x # s \/ h \notin {"recv", "recvErr"} \/ NoRecv(queue, x)) /\ OneRecv(queue, x)
                           => OneRecv(queue', x)
                     /\ ((x # s \/ h \notin {"recv", "recvErr"}) /\ NoRecv(queue, x) => NoRecv(queue', x))
                     /\ (Served(queue, x) => Served(queue', x))
           /\ (h # "sent" => Served(queue', s))
<1> DEFINE e == <<s, h>>
<1>1. ServerTypeOK /\ AcceptInv BY DEF ApiInv
<1>2. queue \in Seq(Entries) /\ lastSessionId \in Nat /\ s \in Sessions /\ s <= lastSessionId BY <1>1, ServerFacts
<1>3. OneAccept(queue) /\ Numbered(queue, lastSessionId) BY <1>1 DEF AcceptInv
<1>4. e \in Entries /\ e[1] = s BY <1>2 DEF Entries
<1>5. ~IsAccept(e) BY DEF IsAccept
<1>6. \A x : IsRecv(e, x) <=> x = s /\ h \in {"recv", "recvErr"} BY DEF IsRecv
<1>7. h # "sent" => Serves(e, s) BY DEF Serves, Handlers
<1>8. queue' = Append(queue, e) OBVIOUS
<1> HIDE DEF e
<1>9. /\ queue' \in Seq(Entries) /\ OneAccept(queue') /\ (NoAccept(queue) => NoAccept(queue'))
      /\ (~NoAccept(queue) => ~NoAccept(queue')) /\ Numbered(queue', lastSessionId)
  BY Zenon, <1>2, <1>3, <1>4, <1>5, <1>8, AppendKeeps
<1>10. ASSUME NEW x
       PROVE  /\ (OneRecv(queue, x) /\ (IsRecv(e, x) => NoRecv(queue, x)) => OneRecv(queue', x))
              /\ (NoRecv(queue, x) /\ ~IsRecv(e, x) => NoRecv(queue', x))
              /\ (Serves(e, x) \/ Served(queue, x) => Served(queue', x))
  BY Zenon, <1>2, <1>4, <1>8, AppendKeepsSession
<1> QED BY Zenon, <1>6, <1>7, <1>9, <1>10

(* ... a read, ...                                                         *)
LEMMA ReadCompletesKeepsApi == ASSUME ApiInv, NEW s, ReadCompletes(s), main' = main PROVE ApiInv'
<1>1. PICK h \in {"recv", "recvErr"} : queue' = Append(queue, <<s, h>>) BY DEF ReadCompletes
<1>2. /\ s \in reading /\ reading' = reading \ {s} /\ UNCHANGED listener /\ m_sessions' = m_sessions
      /\ writes' = writes /\ m_message' = m_message /\ fate' = fate
  BY DEF ReadCompletes
<1>3. ServerTypeOK /\ ReadInv /\ ServeInv BY DEF ApiInv
<1>4. s \in m_sessions /\ h \in Handlers \ {"accept", "acceptErr"} /\ h # "sent"
  BY <1>2, <1>3 DEF ServerTypeOK, Handlers
<1>5. NoRecv(queue, s) BY <1>2, <1>3, <1>4 DEF ReadInv
<1>6. /\ queue' \in Seq(Entries) /\ OneAccept(queue') /\ Numbered(queue', lastSessionId)
      /\ (NoAccept(queue) <=> NoAccept(queue'))
      /\ \A x : /\ (x # s \/ NoRecv(queue, x)) /\ OneRecv(queue, x) => OneRecv(queue', x)
                /\ (x # s /\ NoRecv(queue, x) => NoRecv(queue', x))
                /\ (Served(queue, x) => Served(queue', x))
      /\ Served(queue', s)
  BY Zenon, <1>1, <1>4, CompletionAdded
<1>7. \A x : x \in reading' <=> x \in reading /\ x # s BY <1>2
<1>8. ReadInv'
  <2>1. ASSUME NEW x \in m_sessions' PROVE OneRecv(queue', x) /\ (x \in reading' => NoRecv(queue', x))
    <3>1. OneRecv(queue, x) /\ (x \in reading => NoRecv(queue, x)) BY Zenon, <1>2, <1>3 DEF ReadInv
    <3> QED BY Zenon, <1>5, <1>6, <1>7, <3>1
  <2> QED BY Zenon, <1>2, <1>3, <2>1 DEF ReadInv
<1>9. ServeInv'
  <2> SUFFICES ASSUME fate = "alive", NEW x \in m_sessions, m_message[x] # "short"
               PROVE  x \in reading' \/ Served(queue', x) \/ \E i \in DOMAIN writes[x] : writes[x][i]
    BY Zenon, <1>2 DEF ServeInv
  <2>1. x \in reading \/ Served(queue, x) \/ \E i \in DOMAIN writes[x] : writes[x][i]
    BY Zenon, <1>3 DEF ServeInv
  <2> QED BY Zenon, <1>6, <1>7, <2>1
<1>10. /\ m_sessions' \subseteq m_sessions /\ reading' \subseteq m_sessions'
       /\ writes' \in [Sessions -> Seq(BOOLEAN)] /\ m_message' \in [Sessions -> Parts]
  BY <1>2, <1>3 DEF ServerTypeOK
<1> QED BY Zenon, <1>2, <1>6, <1>8, <1>9, <1>10, HandlerLeaves

(* The indices of the rest of a sequence.                                  *)
LEMMA TailIndices == ASSUME NEW S, NEW q \in Seq(S), q # <<>>
                     PROVE  /\ Tail(q) \in Seq(S) /\ Head(q) = q[1]
                            /\ \A i \in DOMAIN q : i # 1 => i - 1 \in DOMAIN Tail(q) /\ Tail(q)[i - 1] = q[i]
  OBVIOUS

(* ... or a write: if it was the last of its session, its completion ends  *)
(* it.                                                                     *)
LEMMA WriteCompletesKeepsApi == ASSUME ApiInv, NEW s \in Sessions, WriteCompletes(s), main' = main PROVE ApiInv'
<1>1. PICK h \in {IF Head(writes[s]) THEN "sentLast" ELSE "sent", "sendErr"} : queue' = Append(queue, <<s, h>>)
  BY Zenon DEF WriteCompletes
<1>2. /\ writes[s] # <<>> /\ writes' = [writes EXCEPT ![s] = Tail(@)] /\ UNCHANGED listener
      /\ m_sessions' = m_sessions /\ reading' = reading /\ m_message' = m_message /\ fate' = fate
  BY Zenon DEF WriteCompletes
<1>3. ServerTypeOK /\ ReadInv /\ ServeInv BY Zenon DEF ApiInv
<1>4. s \in m_sessions BY Zenon, <1>2, <1>3 DEF ReadInv
<1>5. h \in Handlers \ {"accept", "acceptErr"} /\ h \notin {"recv", "recvErr"} /\ (Head(writes[s]) => h # "sent")
  BY Zenon DEF Handlers
<1>6. /\ queue' \in Seq(Entries) /\ OneAccept(queue') /\ Numbered(queue', lastSessionId)
      /\ (NoAccept(queue) <=> NoAccept(queue'))
      /\ \A x : /\ (OneRecv(queue, x) => OneRecv(queue', x)) /\ (NoRecv(queue, x) => NoRecv(queue', x))
                /\ (Served(queue, x) => Served(queue', x))
      /\ (h # "sent" => Served(queue', s))
  BY Zenon, <1>1, <1>4, <1>5, CompletionAdded
<1>7. writes \in [Sessions -> Seq(BOOLEAN)] /\ m_message \in [Sessions -> Parts] BY Zenon, <1>3 DEF ServerTypeOK
<1>8. writes[s] \in Seq(BOOLEAN) BY Zenon, <1>7
<1>9. /\ Tail(writes[s]) \in Seq(BOOLEAN) /\ Head(writes[s]) = writes[s][1]
      /\ \A i \in DOMAIN writes[s] : i # 1 => i - 1 \in DOMAIN Tail(writes[s]) /\ Tail(writes[s])[i - 1] = writes[s][i]
  BY Zenon, <1>2, <1>8, TailIndices
<1>10. writes' \in [Sessions -> Seq(BOOLEAN)] /\ (\A x \in Sessions : x # s => writes'[x] = writes[x])
       /\ writes'[s] = Tail(writes[s])
  BY Zenon, <1>2, <1>7, <1>9
<1>11. ReadInv'
  <2>1. ASSUME NEW x \in Sessions \ m_sessions' PROVE writes'[x] = <<>>
    <3>1. x \in Sessions \ m_sessions /\ x # s BY Zenon, <1>2, <1>4
    <3> QED BY Zenon, <1>3, <1>10, <3>1 DEF ReadInv
  <2> QED BY Zenon, <1>2, <1>3, <1>6, <2>1 DEF ReadInv
<1>12. ServeInv'
  <2> SUFFICES ASSUME fate = "alive", NEW x \in m_sessions, m_message[x] # "short"
               PROVE  x \in reading \/ Served(queue', x) \/ \E i \in DOMAIN writes'[x] : writes'[x][i]
    BY Zenon, <1>2 DEF ServeInv
  <2>1. x \in Sessions BY Zenon, <1>3, ServerFacts
  <2>2. x \in reading \/ Served(queue, x) \/ \E i \in DOMAIN writes[x] : writes[x][i]
    BY Zenon, <1>3 DEF ServeInv
  <2>3. CASE x # s
    <3>1. writes'[x] = writes[x] BY Zenon, <1>10, <2>1, <2>3
    <3> QED BY Zenon, <1>6, <2>2, <3>1
  <2>4. CASE x = s
    <3>1. ASSUME NEW i \in DOMAIN writes[s], writes[s][i]
          PROVE  Served(queue', s) \/ \E j \in DOMAIN writes'[s] : writes'[s][j]
      <4>1. CASE i = 1
        <5>1. Head(writes[s]) BY Zenon, <1>9, <3>1, <4>1
        <5> QED BY Zenon, <1>5, <1>6, <5>1
      <4>2. CASE i # 1
        <5>1. i - 1 \in DOMAIN Tail(writes[s]) /\ Tail(writes[s])[i - 1] = writes[s][i]
          BY Zenon, <1>9, <4>2
        <5> QED BY Zenon, <1>10, <3>1, <5>1
      <4> QED BY Zenon, <4>1, <4>2
    <3> QED BY Zenon, <1>6, <2>2, <2>4, <3>1
  <2> QED BY Zenon, <2>3, <2>4
<1>13. m_sessions' \subseteq m_sessions /\ reading' \subseteq m_sessions' /\ m_message' \in [Sessions -> Parts]
  BY Zenon, <1>2, <1>3 DEF ServerTypeOK
<1> QED BY Zenon, <1>2, <1>6, <1>10, <1>11, <1>12, <1>13, HandlerLeaves

(* Every step of the program keeps the invariant.                          *)
LEMMA ApiStepHolds == ApiInv /\ [ProgramNext]_allVars => ApiInv'
<1> SUFFICES ASSUME ApiInv, [ProgramNext]_allVars PROVE ApiInv' OBVIOUS
<1>0. MainInv BY DEF ApiInv
<1>1. CASE doMiner
  <2>1. CASE Goes("begin", "test") /\ start
    BY Zenon, <2>1, StartKeepsApi DEF Goes
  <2>2. CASE WaitsForSignal
    <3>1. UNCHANGED <<listener, io>> BY <2>2 DEF WaitsForSignal
    <3>2. m_running' = m_running BY <3>1 DEF listener, server
    <3>3. main' \in {"test", "tested", "api", "waiting"} BY <2>2 DEF WaitsForSignal, Goes
    <3>4. MainInv' BY <3>2, <3>3 DEF MainInv, Places
    <3> QED BY Zenon, <3>1, <3>4, QuietKeepsApi
  <2>3. CASE StopsApi
    <3>1. CASE m_running /\ Goes("api", "join") /\ CloseAcceptor
      BY Zenon, <3>1, CloseKeepsApi DEF Goes
    <3>2. CASE ~m_running /\ Goes("api", "pool") /\ UNCHANGED <<listener, io>>
      <4>1. ~m_running' /\ main' = "pool" BY <3>2 DEF listener, server, Goes
      <4>2. MainInv' BY <4>1 DEF MainInv, Places
      <4> QED BY Zenon, <3>2, <4>2, QuietKeepsApi
    <3>3. CASE Goes("join", "store") /\ JoinWorkThread
      <4>1. UNCHANGED <<listener, io>> /\ main' = "store" BY <3>3 DEF JoinWorkThread, Goes
      <4>2. MainInv' BY <4>1 DEF MainInv, Places
      <4> QED BY Zenon, <4>1, <4>2, QuietKeepsApi
    <3>4. CASE Goes("store", "clear") /\ StoreStopped
      BY Zenon, <3>4, StoreKeepsApi DEF Goes
    <3>5. CASE Goes("clear", "pool") /\ ClearSessions
      <4>1. ~m_running /\ main' = "pool" /\ m_running' = m_running
        BY <1>0, <3>5 DEF MainInv, Goes, ClearSessions, listener, server
      <4>2. MainInv' BY <4>1 DEF MainInv, Places
      <4> QED BY Zenon, <3>5, <4>1, <4>2, ClearKeepsApi
    <3> QED BY Zenon, <2>3, <3>1, <3>2, <3>3, <3>4, <3>5 DEF StopsApi
  <2>4. CASE StopsManager \/ Ends
    <3>1. ~m_running
      <4>1. main \in {"pool", "poolStop", "return", "dtor", "joinIo"} BY <2>4 DEF StopsManager, Ends, Goes
      <4> QED BY <1>0, <4>1 DEF MainInv
    <3>2. m_running' = m_running /\ main' \in {"poolStop", "return", "dtor", "joinIo", "done"}
      BY <2>4 DEF StopsManager, Ends, Goes, ClearSessions, listener, server
    <3>3. MainInv' BY <3>1, <3>2 DEF MainInv, Places
    <3> QED BY Zenon, <2>4, <3>1, <3>3, ClearKeepsApi, QuietKeepsApi DEF StopsManager, Ends
  <2> QED BY Zenon, <1>1, <2>1, <2>2, <2>3, <2>4 DEF doMiner
<1>2. CASE signalHandler \/ ManagerHandler
  <2>1. UNCHANGED <<listener, io>> /\ main' \in {main, "test"}
    BY <1>2 DEF signalHandler, ManagerHandler, Signalled
  <2>2. m_running' = m_running /\ m_workThread' = m_workThread BY <2>1 DEF listener, server
  <2>3. MainInv' BY <1>0, <2>1, <2>2 DEF MainInv, Places
  <2> QED BY Zenon, <2>1, <2>3, QuietKeepsApi
<1>3. CASE IoThread
  <2>0. main' = main BY <1>3 DEF IoThread
  <2>1. ASSUME NEW s \in Sessions, handle_accept(s) PROVE ApiInv'
    BY Zenon, <2>0, <2>1, AcceptedKeepsApi, AcceptFailsKeepsApi DEF handle_accept
  <2>2. ASSUME NEW s \in Sessions, SessionHandler(s) PROVE ApiInv'
    <3>1. CASE s \notin m_sessions /\ (\E h \in Handlers \ {"accept", "acceptErr"} : Runs(s, h)) /\ FindsNothing
      BY Zenon, <2>0, <3>1, NothingKeepsApi
    <3>2. CASE s \in m_sessions /\ UNCHANGED listener /\ onRecvSocketDataCompleted(s)
      BY Zenon, <2>0, <3>2, RecvKeepsApi
    <3>3. CASE s \in m_sessions /\ UNCHANGED listener /\ onSendSocketDataCompleted(s)
      BY Zenon, <2>0, <3>3, SentKeepsApi
    <3>4. CASE s \in m_sessions /\ UNCHANGED listener /\ (RecvFails(s) \/ SendEnds(s))
      <4>1. PICK h \in {"recvErr", "sentLast", "sendErr"} : Runs(s, h)
        BY <3>4 DEF RecvFails, SendEnds
      <4>2. h \in Handlers \ {"accept", "acceptErr"} BY DEF Handlers
      <4>3. disconnect(s) BY <3>4 DEF RecvFails, SendEnds
      <4> QED BY Zenon, <2>0, <3>4, <4>1, <4>2, <4>3, DisconnectKeepsApi
    <3> QED BY Zenon, <2>2, <3>1, <3>2, <3>3, <3>4 DEF SessionHandler
  <2>3. ASSUME NEW s \in Sessions, NEW h \in {"accept", "acceptErr"}, Runs(s, h), FindsNothing PROVE ApiInv'
    BY Zenon, <2>0, <2>3, NothingKeepsApi
  <2> QED BY Zenon, <1>3, <2>1, <2>2, <2>3 DEF IoThread
<1>4. CASE Network
  <2>0. main' = main BY <1>4 DEF Network
  <2> QED BY Zenon, <1>4, <2>0, AcceptCompletesKeepsApi, ReadCompletesKeepsApi, WriteCompletesKeepsApi
          DEF Network, SocketStep
<1>5. CASE ServerThread
  BY Zenon, <1>5, WorkThreadKeepsApi DEF ServerThread
<1>6. CASE UNCHANGED allVars
  <2>1. UNCHANGED <<listener, io>> /\ main' = main BY <1>6 DEF allVars
  <2>2. m_running' = m_running /\ m_workThread' = m_workThread BY <2>1 DEF listener, server
  <2> QED BY Zenon, <1>0, <2>1, <2>2, MainStays, QuietKeepsApi
<1> QED BY Zenon, <1>1, <1>2, <1>3, <1>4, <1>5, <1>6 DEF ProgramNext

(* ApiInv holds always.                                                    *)
LEMMA ApiInvariance == ProgramSpec => []ApiInv
  BY ApiInitHolds, ApiStepHolds, PTL DEF ProgramSpec

(* "Run in sync so no 2 different async reads may overlap"                 *)
(* (ApiServer.cpp:888): for any number of sessions and whatever the        *)
(* clients send, no two reads of a session are under way or to be handled  *)
(* at once.                                                                *)
THEOREM OneReadAtATime == ProgramSpec => []ReadsDoNotOverlap
<1>1. ApiInv => ReadsDoNotOverlap
  <2> SUFFICES ASSUME ApiInv, NEW s \in m_sessions
               PROVE  /\ \A i, j \in Received(s) : i = j
                      /\ s \in reading => Received(s) = {}
    BY DEF ReadsDoNotOverlap
  <2>1. OneRecv(queue, s) /\ (s \in reading => NoRecv(queue, s)) BY DEF ApiInv, ReadInv
  <2>2. \A i \in Received(s) : i \in DOMAIN queue /\ IsRecv(queue[i], s) BY DEF IsRecv, Received
  <2> QED BY <2>1, <2>2 DEF OneRecv, NoRecv
<1> QED BY <1>1, ApiInvariance, PTL

(* A session that exists waits for data, writes, or has a completion on    *)
(* its way, unless it holds fewer than four bytes of a request             *)
(* (onRecvSocketDataCompleted).                                            *)
THEOREM SessionsAreServed == ProgramSpec => []LiveIsServed
<1>1. ApiInv => LiveIsServed
  <2> SUFFICES ASSUME ApiInv, fate = "alive", NEW s \in m_sessions, m_message[s] # "short"
               PROVE  s \in reading \/ writes[s] # <<>> \/ Waiting(s) # {}
    BY Zenon DEF LiveIsServed
  <2>1. s \in reading \/ Served(queue, s) \/ \E i \in DOMAIN writes[s] : writes[s][i]
    BY Zenon DEF ApiInv, ServeInv
  <2>2. ASSUME NEW i \in DOMAIN writes[s] PROVE writes[s] # <<>>
    BY <2>2
  <2>3. ASSUME Served(queue, s) PROVE Waiting(s) # {}
    <3>1. PICK i \in DOMAIN queue : Serves(queue[i], s) BY <2>3 DEF Served
    <3>2. queue \in Seq(Entries) BY ServerFacts DEF ApiInv
    <3>3. queue[i] \in Entries BY <3>2
    <3>4. queue[i] = <<s, queue[i][2]>> /\ queue[i][2] \in Handlers BY <3>1, <3>3 DEF Serves, Entries
    <3>5. queue[i] \in Range(queue) BY DEF Range
    <3> QED BY <3>4, <3>5 DEF Waiting
  <2> QED BY Zenon, <2>1, <2>2, <2>3
<1> QED BY <1>1, ApiInvariance, PTL

(* A server that runs accepts the next client (begin_accept,               *)
(* handle_accept), whatever happened to the last one.                      *)
THEOREM ServerIsReachable == ProgramSpec => []ServerListens
<1>1. ApiInv => ServerListens
  BY DEF ApiInv, ListenInv, ServerListens, NoAccept, IsAccept
<1> QED BY <1>1, ApiInvariance, PTL

-----------------------------------------------------------------------------
(* m_is_authenticated is never left over: with a password it means that    *)
(* the last api_authorize showed it.                                       *)
AuthInv == m_is_authenticated => (m_password => shown)

(* processRequest passes both checks before it changes anything.           *)
LEMMA ChangeIsChecked == ASSUME NEW r, Effect(r) # "none"
                         PROVE  m_is_authenticated /\ ~m_readonly
<1>1. /\ Error(m_is_authenticated, m_readonly, r) = NoError
      /\ r.method \in Commands \union (DOMAIN Members \ {"api_authorize"})
  BY DEF Effect, Change
<1>2. r.method \notin Queries \union {"api_authorize", "other"}
  BY <1>1 DEF Commands, Members, Queries
<1>3. r.header = "good"
  BY <1>1 DEF Error, HeaderError, NoError, Uncoded
<1> QED BY <1>1, <1>2, <1>3 DEF Error, NoError, checkApiWriteAccess

(* processRequest sets m_is_authenticated only with the password.          *)
LEMMA RequestKeeps == ASSUME NEW r, NEW seed, NEW width, AuthInv, processRequest(r, seed, width)
                      PROVE  AuthInv'
<1>1. m_password' = m_password BY DEF processRequest, settings
<1>2. CASE r.header = "good" /\ r.method = "api_authorize"
  BY <1>2 DEF AuthInv, processRequest, Authenticated, api_authorize
<1>3. CASE ~(r.header = "good" /\ r.method = "api_authorize")
  BY Zenon, <1>1, <1>3 DEF AuthInv, processRequest, Authenticated
<1> QED BY <1>2, <1>3

(* A request changes something only when the API is writable and the       *)
(* password, if there is one, was shown last: for any sequence of          *)
(* requests, right or wrong, between any jobs.                             *)
THEOREM OnlyAllowedChanges == RigSpec => []ChangesAreAllowed
<1>1. RigInit => AuthInv
  BY Zenon DEF RigInit, AuthInv
<1>2. AuthInv /\ [RigNext]_rigVars => AuthInv'
  <2> SUFFICES ASSUME AuthInv, [RigNext]_rigVars PROVE AuthInv' OBVIOUS
  <2>1. CASE Request
    BY <2>1, RequestKeeps DEF Request
  <2>2. CASE Job
    BY <2>2 DEF Job, NewWork, AuthInv, settings, connection
  <2>3. CASE \E seed \in Seeds : Connected(seed)
    BY <2>3 DEF Connected, AuthInv, settings, connection
  <2>4. CASE \E i \in Miners : SearchBlock(i)
    BY <2>4 DEF SearchBlock, AuthInv, settings, connection
  <2>5. CASE UNCHANGED rigVars
    BY <2>5 DEF rigVars, AuthInv, settings, connection
  <2> QED BY <2>1, <2>2, <2>3, <2>4, <2>5 DEF RigNext
<1>3. AuthInv => ChangesAreAllowed
  BY ChangeIsChecked DEF AuthInv, ChangesAreAllowed
<1> QED BY <1>1, <1>2, <1>3, PTL DEF RigSpec

-----------------------------------------------------------------------------
(* pow2 is what its definition says, and positive.                         *)
LEMMA Powers == /\ pow2 \in [Nat -> Nat \ {0}] /\ pow2[0] = 1
                /\ \A k \in Nat : pow2[k + 1] = 2 * pow2[k]
<1> DEFINE P == Nat \ {0}
           double == [n \in Nat |-> [x \in P |-> 2 * x]]
<1>1. 1 \in P /\ double \in [Nat -> [P -> P]]
  OBVIOUS
<1> HIDE DEF P, double
<1>2. PICK g : Stepwise(g, P, 1, double)
  <2>1. 1 \in P /\ double \in Steps(P)
    BY Zenon, <1>1 DEF Steps
  <2> QED BY Zenon, <2>1, Recursion
<1>3. ASSUME NEW n \in Nat PROVE g[n + 1] = 2 * g[n]
  BY Zenon, <1>2 DEF P, double, Stepwise
<1>4. ASSUME NEW k \in Nat PROVE g[k] = IF k = 0 THEN 1 ELSE 2 * g[k - 1]
  <2>1. CASE k = 0 BY <1>2, <2>1 DEF Stepwise
  <2>2. CASE k # 0
    <3>1. k - 1 \in Nat /\ (k - 1) + 1 = k BY <2>2
    <3> QED BY <1>3, <2>2, <3>1
  <2> QED BY <2>1, <2>2
<1>5. g = [k \in Nat |-> IF k = 0 THEN 1 ELSE 2 * g[k - 1]]
  BY Zenon, <1>2, <1>4 DEF Stepwise
<1>6. pow2 = [k \in Nat |-> IF k = 0 THEN 1 ELSE 2 * pow2[k - 1]]
  <2>1. \E f : f = [k \in Nat |-> IF k = 0 THEN 1 ELSE 2 * f[k - 1]] BY Zenon, <1>5
  <2> QED BY Zenon, <2>1 DEF pow2
<1>7. pow2[0] = 1
  BY <1>6
<1>8. ASSUME NEW k \in Nat PROVE pow2[k + 1] = 2 * pow2[k]
  <2>1. k + 1 \in Nat /\ k + 1 # 0 /\ (k + 1) - 1 = k OBVIOUS
  <2> QED BY <1>6, <2>1
<1> DEFINE T == {k \in Nat : pow2[k] \in Nat \ {0}}
<1>9. T = Nat
  <2>1. 0 \in T BY <1>7
  <2>2. ASSUME NEW k \in T PROVE k + 1 \in T BY <1>8
  <2>3. T \in SUBSET Nat OBVIOUS
  <2> HIDE DEF T
  <2> QED BY Zenon, <2>1, <2>2, <2>3, Induction
<1>10. \A k \in Nat : pow2[k] \in Nat \ {0}
  BY <1>9
<1>11. pow2 \in [Nat -> Nat \ {0}]
  <2>1. pow2 = [k \in Nat |-> pow2[k]] BY Zenon, <1>6
  <2> QED BY <1>10, <2>1
<1> QED BY <1>7, <1>8, <1>11

(* 2^(j+k) is the product of 2^j and 2^k.                                  *)
LEMMA PowersMultiply == \A j, k \in Nat : pow2[j + k] = pow2[j] * pow2[k]
<1> SUFFICES ASSUME NEW j \in Nat PROVE \A k \in Nat : pow2[j + k] = pow2[j] * pow2[k]
  OBVIOUS
<1> DEFINE T == {k \in Nat : pow2[j + k] = pow2[j] * pow2[k]}
<1>0. pow2[j] \in Nat
  BY Powers
<1>1. 0 \in T
  <2>1. j + 0 = j /\ pow2[j] * 1 = pow2[j] BY <1>0
  <2> QED BY <2>1, Powers
<1>2. ASSUME NEW k \in T PROVE k + 1 \in T
  <2>1. j + k \in Nat /\ j + (k + 1) = (j + k) + 1 /\ pow2[k] \in Nat BY Powers
  <2>2. pow2[(j + k) + 1] = 2 * pow2[j + k] /\ pow2[k + 1] = 2 * pow2[k] BY <2>1, Powers
  <2>3. 2 * (pow2[j] * pow2[k]) = pow2[j] * (2 * pow2[k]) BY <1>0, <2>1
  <2> QED BY <2>1, <2>2, <2>3
<1>3. T \in SUBSET Nat
  OBVIOUS
<1>4. T = Nat
  <2> HIDE DEF T
  <2> QED BY Zenon, <1>1, <1>2, <1>3, Induction
<1> QED BY <1>4

(* 2^k grows with k.                                                       *)
LEMMA PowersGrow == ASSUME NEW j \in Nat, NEW k \in Nat, j <= k PROVE pow2[j] <= pow2[k]
<1> DEFINE d == k - j
<1>1. d \in Nat /\ k = j + d OBVIOUS
<1> HIDE DEF d
<1>2. pow2[k] = pow2[j] * pow2[d] BY <1>1, PowersMultiply
<1>3. pow2[j] \in Nat /\ pow2[d] \in Nat /\ 1 <= pow2[d] BY <1>1, Powers
<1>4. pow2[j] * 1 <= pow2[j] * pow2[d] BY <1>3, Products
<1> QED BY <1>2, <1>3, <1>4

-----------------------------------------------------------------------------
(* A set of numbers that is bounded and not empty has a maximum.           *)
LEMMA Greatest == ASSUME NEW b \in Nat, NEW S \in SUBSET (0..b), S # {}
                  PROVE  Max(S) \in S
<1> DEFINE T == {k \in Nat : b - k \in S}
<1>1. T \subseteq Nat /\ T # {}
  <2>1. PICK k \in S : TRUE BY Zenon
  <2>2. b - k \in Nat /\ b - (b - k) = k BY <2>1
  <2>3. b - k \in T BY <2>1, <2>2
  <2> QED BY <2>3
<1>2. PICK x \in T : \A y \in T : x <= y
  <2> HIDE DEF T
  <2> QED BY Zenon, <1>1, Least
<1>3. ASSUME NEW y \in S PROVE b - x >= y
  <2>1. b - y \in Nat /\ b - (b - y) = y OBVIOUS
  <2>2. b - y \in T BY <2>1
  <2>3. x <= b - y BY Zenon, <1>2, <2>2
  <2> QED BY <2>1, <2>3
<1>4. b - x \in S
  BY Zenon, <1>2
<1> HIDE DEF T
<1> QED BY Zenon, <1>3, <1>4 DEF Max

(* The number of nonces.                                                   *)
Modulus == pow2[NonceBits]

(* Nonce k is what is left of x in NonceBits bits.                         *)
Wraps(k, x) == \E q \in Nat : x = k + q * Modulus

(* The nonces are the numbers below the modulus.                           *)
LEMMA Sizes == /\ Modulus \in Nat \ {0} /\ NonceBits \in Nat
               /\ \A k : k \in Nonces64 <=> k \in Nat /\ k < Modulus
  BY Powers, NoncesAssumption DEF Modulus, Nonces64

(* What is left of x in NonceBits bits is a nonce.                         *)
LEMMA Remainder == ASSUME NEW x \in Nat
                   PROVE  x % Modulus \in Nonces64 /\ Wraps(x % Modulus, x)
<1> DEFINE q == x \div Modulus
<1>1. Modulus \in Nat \ {0} BY Sizes
<1>2. q \in Nat /\ x % Modulus \in Nat /\ x % Modulus < Modulus BY <1>1
<1>3. x = (x % Modulus) + q * Modulus BY <1>1
<1> HIDE DEF q
<1> QED BY Zenon, <1>2, <1>3, Sizes DEF Wraps

(* Advancing a nonce by e advances what it stands for by e.                *)
LEMMA Advance == ASSUME NEW k \in Nat, NEW x \in Nat, NEW e \in Nat, Wraps(k, x)
                 PROVE  Wraps((k + e) % Modulus, x + e) /\ Wraps(k + e, x + e)
<1>0. Modulus \in Nat BY Sizes
<1>1. PICK q \in Nat : x = k + q * Modulus BY DEF Wraps
<1> DEFINE r == (k + e) % Modulus
<1>2. r \in Nonces64 /\ Wraps(r, k + e) BY Remainder
<1>3. PICK p \in Nat : k + e = r + p * Modulus BY <1>2 DEF Wraps
<1>4. r \in Nat BY <1>2, Sizes
<1> HIDE DEF r
<1>5. p + q \in Nat /\ (p + q) * Modulus = p * Modulus + q * Modulus BY <1>0
<1>6. p * Modulus \in Nat /\ q * Modulus \in Nat BY <1>0
<1>7. x + e = r + (p + q) * Modulus BY <1>1, <1>3, <1>4, <1>5, <1>6
<1>8. x + e = (k + e) + q * Modulus BY <1>1, <1>6
<1>9. Wraps(r, x + e) BY <1>5, <1>7 DEF Wraps
<1>10. Wraps(k + e, x + e) BY <1>8 DEF Wraps
<1> QED BY <1>9, <1>10 DEF r

(* Two numbers less than the modulus apart do not wrap to one nonce.       *)
LEMMA WrapsOnce == ASSUME NEW k \in Nat, NEW x \in Nat, NEW y \in Nat, Wraps(k, x), Wraps(k, y),
                          x <= y, y - x < Modulus
                   PROVE  x = y
<1>0. Modulus \in Nat \ {0} BY Sizes
<1>1. PICK q \in Nat : x = k + q * Modulus BY DEF Wraps
<1>2. PICK p \in Nat : y = k + p * Modulus BY DEF Wraps
<1>3. q * Modulus \in Nat /\ p * Modulus \in Nat BY <1>0
<1>4. CASE p <= q
  <2>1. p * Modulus <= q * Modulus BY <1>0, <1>4, Products
  <2> QED BY <1>1, <1>2, <1>3, <2>1
<1>5. CASE q + 1 <= p
  <2>1. (q + 1) * Modulus <= p * Modulus BY <1>0, <1>5, Products
  <2>2. (q + 1) * Modulus = q * Modulus + Modulus BY <1>0
  <2> QED BY <1>0, <1>1, <1>2, <1>3, <2>1, <2>2
<1> QED BY <1>4, <1>5

(* A number below the modulus does not wrap.                               *)
LEMMA NoWrap == ASSUME NEW k \in Nonces64, NEW x \in Nat, Wraps(k, x), x < Modulus
                PROVE  k = x
<1>1. k \in Nat BY Sizes
<1>2. Modulus \in Nat /\ k + 0 * Modulus = k BY <1>1, Sizes
<1>3. Wraps(k, k) BY <1>2 DEF Wraps
<1>4. k <= x
  <2>1. PICK q \in Nat : x = k + q * Modulus BY DEF Wraps
  <2>2. q * Modulus \in Nat BY <1>2
  <2> QED BY <1>1, <2>1, <2>2
<1> QED BY <1>1, <1>2, <1>3, <1>4, WrapsOnce

-----------------------------------------------------------------------------
(* The segments of all miners fit into the nonces: the widths a farm can   *)
(* have without an extranonce are the default one and at most HighWidth.   *)
WidthsFit == \A w \in {DefaultWidth, HighWidth} : N * pow2[w] <= pow2[NonceBits]

(* A width at which the segments of all miners fit.                        *)
Fits(w) == w \in Nat /\ (WidthsFit => N * pow2[w] <= Modulus)

(* Nonce number d of the segment of miner i, before it wraps.              *)
Offset(f, i, d) == f.starts[1] + (i - 1) * pow2[f.given] + d

(* The farms that module Nonces makes.                                     *)
Farms == [m_nonce_scrambler : Nonces64, m_nonce_segment_with : Nat, exSizeBytes : Nat, startNonce : Nat,
          starts : {<<>>} \union [Miners -> Nonces64], given : Nat]

(* The extranonce of the job is ahead of the nonces of all segments.       *)
Prefixing(f) == /\ RoomBits(f.exSizeBytes) \in Nat
                /\ \E prefix \in Nat : /\ f.startNonce = prefix * pow2[RoomBits(f.exSizeBytes)]
                                       /\ prefix < pow2[DigitBits * f.exSizeBytes]
                /\ (f.exSizeBytes > 0 => /\ f.starts \in [Miners -> Nonces64] /\ f.starts[1] = f.startNonce
                                         /\ N * pow2[f.given] <= pow2[RoomBits(f.exSizeBytes)])

(* The next nonce n of miner i, after b blocks, and those it tried, t, are *)
(* of its segment, as long as that is.                                     *)
Searched(f, i, b, n, t) == /\ Wraps(n, Offset(f, i, b * BlockSize))
                           /\ \A k \in t : \E d \in Nat : d < b * BlockSize /\ Wraps(k, Offset(f, i, d))

(* What holds of the farm,                                                 *)
FarmInv(f) == /\ f \in Farms /\ Fits(f.m_nonce_segment_with) /\ Fits(f.given) /\ Prefixing(f)

(* of the search: before the first job nothing is searched;                *)
SearchInv == /\ blocks \in [Miners -> 0..MaxBlocks] /\ nonce \in [Miners -> Nonces64]
             /\ tried \in [Miners -> SUBSET Nonces64]
             /\ \/ farm.starts = <<>> /\ \A i \in Miners : tried[i] = {} /\ blocks[i] = MaxBlocks
                \/ farm.starts \in [Miners -> Nonces64] /\ \A i \in Miners : Searched(farm, i, blocks[i], nonce[i], tried[i])

(* and of both: the inductive invariant of the nonces.                     *)
NonceInv == FarmInv(farm) /\ SearchInv

(* What the assumptions say of the constants.                              *)
LEMMA Constants == /\ N \in Nat \ {0} /\ BlockSize \in Nat \ {0} /\ MaxBlocks \in Nat \ {0} /\ DigitBits \in Nat \ {0}
                   /\ {DefaultWidth, LowWidth, HighWidth, AboveHigh} \subseteq Nat /\ 0 \in Nonces64
                   /\ Miners = 1..N
  BY NoncesAssumption, RigAssumption, Sizes DEF Miners

(* A width that is not above one that fits does.                           *)
LEMMA NarrowerFits == ASSUME NEW v \in Nat, NEW w \in Nat, v <= w, Fits(w)
                      PROVE  Fits(v)
<1> SUFFICES ASSUME WidthsFit PROVE N * pow2[v] <= Modulus BY DEF Fits
<1>1. pow2[v] \in Nat /\ pow2[w] \in Nat /\ pow2[v] <= pow2[w] BY Zenon, Powers, PowersGrow
<1>2. N * pow2[v] <= N * pow2[w] BY <1>1, Constants, Products
<1>3. N * pow2[w] <= Modulus BY DEF Fits
<1>4. N * pow2[v] \in Nat /\ N * pow2[w] \in Nat BY <1>1, Constants
<1> QED BY <1>2, <1>3, <1>4, Sizes

(* The API leaves a width that fits (the limits of                         *)
(* miner_setscramblerinfo).                                                *)
LEMMA LimitedFits == ASSUME NEW w \in Nat PROVE Fits(Limited(w))
<1>1. Fits(HighWidth) BY Constants DEF Fits, WidthsFit, Modulus
<1>2. Limited(w) \in Nat /\ Limited(w) <= HighWidth BY Constants, NoncesAssumption DEF Limited
<1> QED BY <1>1, <1>2, Constants, NarrowerFits

(* The width that setWork derives from the extranonce fits into the nonces *)
(* the pool left.                                                          *)
LEMMA SegmentFits == ASSUME NEW digits \in Extras
                     PROVE  /\ SegmentWidth(digits, N) \in Nat /\ Fits(SegmentWidth(digits, N))
                            /\ N * pow2[SegmentWidth(digits, N)] <= pow2[RoomBits(digits)]
<1> DEFINE S == {k \in 0..NonceBits : pow2[k] * N <= pow2[RoomBits(digits)]}
<1>1. digits \in Nat /\ RoomBits(digits) \in Nat /\ N <= pow2[RoomBits(digits)] BY RigAssumption
<1>2. 0 \in S
  <2>1. pow2[0] * N = N BY Powers, Constants
  <2> QED BY <1>1, <2>1, Sizes
<1>3. S \in SUBSET (0..NonceBits) /\ S # {} BY <1>2
<1> DEFINE w == SegmentWidth(digits, N)
<1>4. w = Max(S) BY DEF SegmentWidth
<1>5. w \in S
  <2> HIDE DEF S, w
  <2> QED BY <1>3, <1>4, Greatest, Sizes
<1> HIDE DEF w
<1>6. w \in Nat /\ pow2[w] * N <= pow2[RoomBits(digits)] /\ pow2[w] * N = N * pow2[w]
  BY <1>5, Sizes, Powers, Constants
<1>7. RoomBits(digits) <= NonceBits
  <2>1. DigitBits * digits \in Nat BY <1>1, Constants
  <2> QED BY <2>1, Sizes DEF RoomBits
<1>8. pow2[RoomBits(digits)] <= Modulus
  <2>1. pow2[RoomBits(digits)] <= pow2[NonceBits] BY <1>1, <1>7, PowersGrow, Sizes
  <2> QED BY <2>1 DEF Modulus
<1>9. N * pow2[w] <= Modulus
  <2>1. N * pow2[w] \in Nat /\ pow2[RoomBits(digits)] \in Nat
    <3>1. pow2[w] \in Nat BY <1>6, Powers
    <3>2. pow2[RoomBits(digits)] \in Nat BY <1>1, Powers
    <3> QED BY <3>1, <3>2, Constants
  <2> QED BY <1>6, <1>8, <2>1, Sizes
<1>10. Fits(w) BY <1>6, <1>9 DEF Fits
<1> QED BY <1>6, <1>10 DEF w

(* The nonces of one extranonce end before the nonces wrap.                *)
LEMMA PrefixFits == ASSUME NEW digits \in Nat, RoomBits(digits) \in Nat, NEW prefix \in Nat, prefix < pow2[DigitBits * digits]
                    PROVE  /\ prefix * pow2[RoomBits(digits)] \in Nat
                           /\ prefix * pow2[RoomBits(digits)] + pow2[RoomBits(digits)] <= Modulus
<1> DEFINE R == pow2[RoomBits(digits)]
           P == pow2[DigitBits * digits]
<1>1. DigitBits * digits \in Nat BY Constants
<1>2. R \in Nat \ {0} /\ P \in Nat BY <1>1, Powers
<1>3. DigitBits * digits + RoomBits(digits) = NonceBits BY <1>1, Sizes DEF RoomBits
<1>4. P * R = Modulus BY Zenon, <1>1, <1>3, PowersMultiply DEF Modulus
<1>5. prefix + 1 <= P BY <1>2
<1> HIDE DEF R, P
<1>6. (prefix + 1) * R <= P * R BY <1>2, <1>5, Products
<1>7. (prefix + 1) * R = prefix * R + R /\ prefix * R \in Nat BY <1>2
<1> QED BY <1>4, <1>6, <1>7 DEF R

(* Offset is a natural number.                                             *)
LEMMA Offsets == ASSUME NEW f, f \in Farms, f.starts \in [Miners -> Nonces64], NEW i \in Miners, NEW d \in Nat
                 PROVE  /\ Offset(f, i, d) \in Nat /\ f.starts[1] \in Nat /\ pow2[f.given] \in Nat
                        /\ (i - 1) * pow2[f.given] \in Nat
<1>1. f.given \in Nat BY DEF Farms
<1>2. pow2[f.given] \in Nat BY <1>1, Powers
<1>3. 1 \in Miners /\ i - 1 \in Nat BY Constants
<1>4. f.starts[1] \in Nat BY <1>3, Sizes
<1>5. (i - 1) * pow2[f.given] \in Nat BY <1>2, <1>3
<1> QED BY <1>2, <1>4, <1>5 DEF Offset

(* setWork starts every miner at the beginning of its segment.             *)
LEMMA setWorkFits ==
    ASSUME NEW f, FarmInv(f), NEW digits \in Extras, NEW prefix \in 0..(pow2[DigitBits * digits] - 1),
           NEW seed \in Nonces64, NEW e, NEW h,
           h = setWork(f, digits, prefix * pow2[RoomBits(digits)], N, e, seed)
    PROVE  /\ FarmInv(h) /\ h.starts \in [Miners -> Nonces64]
           /\ \A i \in Miners : Wraps(h.starts[i], Offset(h, i, 0))
<1> DEFINE origin == prefix * pow2[RoomBits(digits)]
           g == IF e = 2 /\ digits = 0 THEN shuffle(f, seed) ELSE f
           first == IF digits > 0 THEN origin ELSE g.m_nonce_scrambler
           width == IF digits > 0 THEN SegmentWidth(digits, N) ELSE g.m_nonce_segment_with
           starts == [i \in 1..N |-> (first + (i - 1) * pow2[width]) % pow2[NonceBits]]
<1>1. digits \in Nat /\ RoomBits(digits) \in Nat /\ DigitBits * digits \in Nat BY RigAssumption, Constants
<1>2. pow2[RoomBits(digits)] \in Nat \ {0} /\ pow2[DigitBits * digits] \in Nat BY <1>1, Powers
<1>3. prefix \in Nat /\ prefix < pow2[DigitBits * digits] BY <1>2
<1>4. origin \in Nat /\ origin + pow2[RoomBits(digits)] <= Modulus BY <1>1, <1>3, PrefixFits
<1>5. origin < Modulus BY <1>2, <1>4, Sizes
<1>6. g \in Farms /\ g.m_nonce_segment_with = f.m_nonce_segment_with
  BY DEF FarmInv, shuffle, Farms
<1>7. h = [g EXCEPT !.exSizeBytes = digits, !.startNonce = origin, !.m_nonce_segment_with = width,
                    !.given = width, !.starts = starts]
  BY DEF setWork
<1> HIDE DEF g
<1>8. first \in Nonces64 BY <1>1, <1>4, <1>5, <1>6, Sizes DEF Farms
<1>9. width \in Nat /\ Fits(width)
  <2>1. CASE digits > 0 BY <2>1, SegmentFits
  <2>2. CASE ~(digits > 0) BY <1>6, <2>2 DEF FarmInv, Farms
  <2> QED BY <2>1, <2>2
<1>10. digits > 0 => N * pow2[width] <= pow2[RoomBits(digits)] BY SegmentFits
<1>11. digits > 0 => first = origin OBVIOUS
<1> HIDE DEF first, width
<1>12. pow2[width] \in Nat BY <1>9, Powers
<1>13. ASSUME NEW i \in Miners
       PROVE  /\ first + (i - 1) * pow2[width] \in Nat
              /\ starts[i] = (first + (i - 1) * pow2[width]) % Modulus
  <2>1. i \in 1..N /\ i - 1 \in Nat /\ first \in Nat BY <1>8, Constants, Sizes
  <2>2. (i - 1) * pow2[width] \in Nat BY <1>12, <2>1
  <2> QED BY <2>1, <2>2 DEF Modulus
<1>14. starts \in [Miners -> Nonces64]
  <2>1. \A i \in Miners : starts[i] \in Nonces64 BY Zenon, <1>13, Remainder
  <2>2. starts = [i \in Miners |-> starts[i]] BY Constants
  <2> HIDE DEF starts
  <2> QED BY <2>1, <2>2
<1>15. starts[1] = first
  <2>1. 1 \in Miners /\ first \in Nat BY <1>8, Constants, Sizes
  <2>2. first + (1 - 1) * pow2[width] = first BY <1>12, <2>1
  <2>3. starts[1] = first % Modulus BY Zenon, <1>13, <2>1, <2>2
  <2>4. first % Modulus = first BY <1>8, Sizes
  <2> QED BY <2>3, <2>4
<1> HIDE DEF starts, origin
<1>16. /\ h \in Farms /\ h.starts = starts /\ h.given = width /\ h.m_nonce_segment_with = width
       /\ h.exSizeBytes = digits /\ h.startNonce = origin
  BY Zenon, <1>1, <1>4, <1>6, <1>7, <1>9, <1>14 DEF Farms
<1>17. Prefixing(h)
  <2>1. origin = prefix * pow2[RoomBits(digits)] BY DEF origin
  <2> QED BY <1>1, <1>3, <1>10, <1>11, <1>14, <1>15, <1>16, <2>1 DEF Prefixing
<1>18. FarmInv(h) BY <1>9, <1>16, <1>17 DEF FarmInv
<1>19. ASSUME NEW i \in Miners PROVE Wraps(h.starts[i], Offset(h, i, 0))
  <2>1. Offset(h, i, 0) = first + (i - 1) * pow2[width]
    <3>1. Offset(h, i, 0) = first + (i - 1) * pow2[width] + 0 BY <1>15, <1>16 DEF Offset
    <3> QED BY <1>13, <3>1
  <2> QED BY <1>13, <1>16, <2>1, Remainder
<1> QED BY <1>14, <1>16, <1>18, <1>19

(* A block of CPUMiner::search goes on where the last one ended, also      *)
(* where the nonces wrap.                                                  *)
LEMMA BlockIsAhead ==
    ASSUME NEW f, f \in Farms, f.starts \in [Miners -> Nonces64], NEW i \in Miners, NEW b \in Nat,
           NEW n \in Nonces64, NEW t \in SUBSET Nonces64, Searched(f, i, b, n, t)
    PROVE  /\ BlockEnd(n) \in Nonces64 /\ t \union Block(n) \in SUBSET Nonces64
           /\ Searched(f, i, b + 1, BlockEnd(n), t \union Block(n))
<1> DEFINE len == b * BlockSize
           x == Offset(f, i, len)
<1>1. len \in Nat /\ (b + 1) * BlockSize = len + BlockSize /\ BlockSize \in Nat BY Constants
<1>2. n \in Nat BY Sizes
<1>3. \A d \in Nat : Offset(f, i, d) \in Nat BY Offsets
<1>4. x \in Nat BY <1>1, <1>3
<1>5. \A d \in Nat : Offset(f, i, len + d) = x + d
  BY <1>1, Offsets DEF Offset
<1>6. Wraps(n, x) /\ \A k \in t : \E d \in Nat : d < len /\ Wraps(k, Offset(f, i, d)) BY DEF Searched
<1>7. BlockEnd(n) = (n + BlockSize) % Modulus BY DEF BlockEnd, Modulus
<1> HIDE DEF x, len
<1>8. BlockEnd(n) \in Nonces64 BY <1>1, <1>2, <1>7, Remainder
<1>9. Wraps(BlockEnd(n), Offset(f, i, (b + 1) * BlockSize))
  BY Zenon, <1>1, <1>2, <1>4, <1>5, <1>6, <1>7, Advance
<1>10. ASSUME NEW k \in Block(n)
       PROVE  \E d \in Nat : d < len + BlockSize /\ Wraps(k, Offset(f, i, d))
  <2> DEFINE e == k - n
  <2>1. k \in Nonces64 /\ n <= k /\ k < BlockEnd(n) BY DEF Block
  <2>2. BlockEnd(n) <= n + BlockSize
    <3>1. PICK q \in Nat : n + BlockSize = BlockEnd(n) + q * Modulus
      BY <1>1, <1>2, <1>7, Remainder DEF Wraps
    <3>2. q * Modulus \in Nat /\ BlockEnd(n) \in Nat BY <1>8, Sizes
    <3> QED BY <1>1, <1>2, <3>1, <3>2
  <2>3. k \in Nat /\ BlockEnd(n) \in Nat BY <1>8, <2>1, Sizes
  <2>4. e \in Nat /\ e < BlockSize /\ n + e = k BY <1>1, <1>2, <2>1, <2>2, <2>3
  <2> HIDE DEF e
  <2>5. Wraps(k, x + e) BY Zenon, <1>2, <1>4, <1>6, <2>4, Advance
  <2>6. len + e \in Nat /\ len + e < len + BlockSize BY <1>1, <2>4
  <2> QED BY <1>5, <2>4, <2>5, <2>6
<1>11. ASSUME NEW k \in t PROVE \E d \in Nat : d < len + BlockSize /\ Wraps(k, Offset(f, i, d))
  <2>1. PICK d \in Nat : d < len /\ Wraps(k, Offset(f, i, d)) BY <1>6
  <2>2. d < len + BlockSize BY <1>1, <2>1
  <2> QED BY <2>1, <2>2
<1>12. \A k \in t \union Block(n) : \E d \in Nat : d < (b + 1) * BlockSize /\ Wraps(k, Offset(f, i, d))
  BY <1>1, <1>10, <1>11
<1>13. t \union Block(n) \in SUBSET Nonces64 BY DEF Block
<1> QED BY <1>8, <1>9, <1>12, <1>13 DEF Searched

(* A new farm satisfies the invariant.                                     *)
LEMMA NonceInitHolds == RigInit => NonceInv
<1> SUFFICES ASSUME RigInit PROVE NonceInv OBVIOUS
<1>1. PICK seed \in Seeds : farm = NewFarm(seed) BY DEF RigInit
<1>2. /\ seed \in Nonces64 /\ DefaultWidth \in Nat BY Constants, RigAssumption
<1>3. farm \in Farms /\ farm.m_nonce_segment_with = DefaultWidth /\ farm.given = DefaultWidth
      /\ farm.exSizeBytes = 0 /\ farm.startNonce = 0 /\ farm.starts = <<>>
  BY <1>1, <1>2 DEF NewFarm, Farms
<1>4. Fits(DefaultWidth) BY <1>2 DEF Fits, WidthsFit, Modulus
<1>5. Prefixing(farm)
  <2>1. DigitBits * 0 = 0 /\ RoomBits(0) = NonceBits BY Constants, Sizes DEF RoomBits
  <2>2. 0 = 0 * pow2[NonceBits] /\ 0 < pow2[0] BY Sizes, Powers DEF Modulus
  <2> QED BY <1>3, <2>1, <2>2, Sizes DEF Prefixing
<1>6. FarmInv(farm) BY <1>3, <1>4, <1>5 DEF FarmInv
<1>7. SearchInv BY <1>3, Constants DEF RigInit, SearchInv
<1> QED BY <1>6, <1>7 DEF NonceInv

(* A farm with another scrambler and another width for the next job.       *)
Reseeded(f, seed, w) == [f EXCEPT !.m_nonce_scrambler = seed, !.m_nonce_segment_with = w]

(* A change of the scrambler or of the width is for the next job: the      *)
(* segments of this one stay.                                              *)
LEMMA SeedKeeps == ASSUME NEW f, FarmInv(f), NEW seed \in Nonces64, NEW w, Fits(w)
                   PROVE  /\ FarmInv(Reseeded(f, seed, w)) /\ Reseeded(f, seed, w).starts = f.starts
                          /\ Reseeded(f, seed, w).given = f.given
<1> DEFINE h == Reseeded(f, seed, w)
<1>1. w \in Nat BY DEF Fits
<1>2. /\ h \in Farms /\ h.m_nonce_segment_with = w /\ h.given = f.given /\ h.exSizeBytes = f.exSizeBytes
      /\ h.startNonce = f.startNonce /\ h.starts = f.starts
  BY Zenon, <1>1 DEF FarmInv, Farms, Reseeded
<1> HIDE DEF h
<1>3. FarmInv(h) BY <1>2 DEF FarmInv, Prefixing
<1> QED BY <1>2, <1>3 DEF h

(* A step that keeps the segments and the search keeps the invariant.      *)
LEMMA SearchKeeps == ASSUME NonceInv, FarmInv(farm'), farm'.starts = farm.starts, farm'.given = farm.given,
                            UNCHANGED search
                     PROVE  NonceInv'
<1>1. blocks' = blocks /\ nonce' = nonce /\ tried' = tried BY DEF search
<1>2. \A i, d : Offset(farm', i, d) = Offset(farm, i, d) BY DEF Offset
<1>3. \A i, b, n, t : Searched(farm, i, b, n, t) => Searched(farm', i, b, n, t) BY <1>2 DEF Searched
<1> QED BY <1>1, <1>3 DEF NonceInv, SearchInv

(* Farm::shuffle keeps the invariant, ...                                  *)
LEMMA ShuffleKeeps == ASSUME NonceInv, NEW seed \in Nonces64, farm' = shuffle(farm, seed), UNCHANGED search
                      PROVE  NonceInv'
<1>1. Fits(farm.m_nonce_segment_with) /\ farm \in Farms BY DEF NonceInv, FarmInv
<1>2. farm' = Reseeded(farm, seed, farm.m_nonce_segment_with)
  BY Zenon, <1>1 DEF shuffle, Farms, Reseeded
<1>3. FarmInv(farm') /\ farm'.starts = farm.starts /\ farm'.given = farm.given
  BY <1>1, <1>2, SeedKeeps DEF NonceInv
<1> QED BY <1>3, SearchKeeps

(* ... miner_setscramblerinfo does, whatever it is given, ...              *)
LEMMA ScramblerKeeps ==
    ASSUME NonceInv, NEW r, NEW seed \in Nonces64, NEW width \in Nat,
           farm' = ScramblerChange(farm, r, seed, width), UNCHANGED search
    PROVE  NonceInv'
<1> DEFINE s == IF r.params["noncescrambler"] = "absent" THEN farm.m_nonce_scrambler ELSE seed
           w == IF r.params["segmentwidth"] = "absent" THEN farm.m_nonce_segment_with ELSE width
<1>1. FarmInv(farm) /\ Fits(farm.m_nonce_segment_with) /\ farm \in Farms BY DEF NonceInv, FarmInv
<1>2. s \in Nonces64 /\ w \in Nat BY <1>1 DEF Farms
<1>3. farm' = setscramblerinfo(farm, s, w) BY DEF ScramblerChange
<1> HIDE DEF s, w
<1>4. PICK v : Fits(v) /\ farm' = Reseeded(farm, s, v)
  <2>1. CASE farm.exSizeBytes = 0
    <3>1. farm' = Reseeded(farm, s, Limited(w))
      BY <1>1, <1>3, <2>1 DEF setscramblerinfo, set_nonce_segment_width, Farms, Reseeded
    <3> QED BY <1>2, <3>1, LimitedFits
  <2>2. CASE farm.exSizeBytes # 0
    <3>1. farm' = Reseeded(farm, s, farm.m_nonce_segment_with)
      BY Zenon, <1>1, <1>3, <2>2 DEF setscramblerinfo, set_nonce_segment_width, Farms, Reseeded
    <3> QED BY <1>1, <3>1
  <2> QED BY <2>1, <2>2
<1>5. FarmInv(farm') /\ farm'.starts = farm.starts /\ farm'.given = farm.given
  BY <1>1, <1>2, <1>4, SeedKeeps
<1> QED BY <1>5, SearchKeeps

(* ... and so does every step of the rig.                                  *)
LEMMA NonceStepHolds == NonceInv /\ [RigNext]_rigVars => NonceInv'
<1> SUFFICES ASSUME NonceInv, [RigNext]_rigVars PROVE NonceInv' OBVIOUS
<1>1. ASSUME NEW r, NEW seed \in Nonces64, NEW width \in Nat, processRequest(r, seed, width)
      PROVE  NonceInv'
  <2>1. UNCHANGED search BY <1>1 DEF processRequest
  <2>2. CASE farm' = shuffle(farm, seed) BY <2>1, <2>2, ShuffleKeeps
  <2>3. CASE farm' = ScramblerChange(farm, r, seed, width) BY <2>1, <2>3, ScramblerKeeps
  <2>4. CASE farm' = farm BY <2>1, <2>4, SearchKeeps DEF NonceInv
  <2> QED BY Zenon, <1>1, <2>2, <2>3, <2>4 DEF processRequest
<1>2. CASE Request
  <2>1. Seeds \subseteq Nonces64 /\ 0 \in Nonces64 BY RigAssumption, Constants
  <2>2. 0 \in Nat /\ {0, LowWidth, HighWidth, HighWidth + 1} \subseteq Nat BY Constants
  <2> QED BY <1>1, <1>2, <2>1, <2>2 DEF Request
<1>3. ASSUME NEW digits \in Extras, NEW prefix \in 0..(pow2[DigitBits * digits] - 1), NEW seed \in Seeds,
             NewWork(digits, prefix, seed)
      PROVE  NonceInv'
  <2>1. seed \in Nonces64 /\ FarmInv(farm) BY RigAssumption DEF NonceInv
  <2>2. farm' = setWork(farm, digits, prefix * pow2[RoomBits(digits)], N, ergodicity, seed) BY <1>3 DEF NewWork
  <2>3. /\ FarmInv(farm') /\ farm'.starts \in [Miners -> Nonces64]
        /\ \A i \in Miners : Wraps(farm'.starts[i], Offset(farm', i, 0))
    BY Zenon, <2>1, <2>2, setWorkFits
  <2>4. nonce' = farm'.starts /\ blocks' = [i \in Miners |-> 0] /\ tried' = [i \in Miners |-> {}]
    BY <1>3 DEF NewWork
  <2>5. 0 * BlockSize = 0 /\ 0 \in 0..MaxBlocks BY Constants
  <2>6. ASSUME NEW i \in Miners PROVE Searched(farm', i, blocks'[i], nonce'[i], tried'[i])
    BY <2>3, <2>4, <2>5 DEF Searched
  <2>7. blocks' \in [Miners -> 0..MaxBlocks] /\ tried' \in [Miners -> SUBSET Nonces64] BY <2>4, <2>5
  <2> QED BY <2>3, <2>4, <2>6, <2>7 DEF NonceInv, SearchInv
<1>4. ASSUME NEW seed \in Seeds, Connected(seed) PROVE NonceInv'
  BY <1>4, RigAssumption, ShuffleKeeps DEF Connected
<1>5. ASSUME NEW i \in Miners, SearchBlock(i) PROVE NonceInv'
  <2>1. farm' = farm /\ farm \in Farms /\ FarmInv(farm) BY <1>5 DEF SearchBlock, NonceInv, FarmInv
  <2>2. /\ blocks \in [Miners -> 0..MaxBlocks] /\ nonce \in [Miners -> Nonces64]
        /\ tried \in [Miners -> SUBSET Nonces64]
    BY DEF NonceInv, SearchInv
  <2>3. /\ blocks[i] < MaxBlocks /\ blocks' = [blocks EXCEPT ![i] = @ + 1]
        /\ tried' = [tried EXCEPT ![i] = @ \union Block(nonce[i])]
        /\ nonce' = [nonce EXCEPT ![i] = BlockEnd(@)]
    BY <1>5 DEF SearchBlock
  <2>4. blocks[i] \in Nat /\ blocks[i] # MaxBlocks /\ blocks[i] + 1 \in 0..MaxBlocks BY <2>2, <2>3, Constants
  <2>5. /\ farm.starts \in [Miners -> Nonces64]
        /\ \A j \in Miners : Searched(farm, j, blocks[j], nonce[j], tried[j])
    BY <2>4 DEF NonceInv, SearchInv
  <2>6. /\ BlockEnd(nonce[i]) \in Nonces64 /\ tried[i] \union Block(nonce[i]) \in SUBSET Nonces64
        /\ Searched(farm, i, blocks[i] + 1, BlockEnd(nonce[i]), tried[i] \union Block(nonce[i]))
    BY Zenon, <2>1, <2>2, <2>4, <2>5, BlockIsAhead
  <2>7. /\ blocks' \in [Miners -> 0..MaxBlocks] /\ nonce' \in [Miners -> Nonces64]
        /\ tried' \in [Miners -> SUBSET Nonces64]
    BY <2>2, <2>3, <2>4, <2>6
  <2>8. \A j \in Miners : Searched(farm', j, blocks'[j], nonce'[j], tried'[j])
    BY <2>1, <2>2, <2>3, <2>5, <2>6
  <2> QED BY <2>1, <2>5, <2>7, <2>8 DEF NonceInv, SearchInv
<1>6. CASE UNCHANGED rigVars
  BY <1>6, SearchKeeps DEF rigVars, NonceInv
<1> QED BY <1>2, <1>3, <1>4, <1>5, <1>6 DEF RigNext, Job

(* Where a nonce within the segment of miner i is, before it wraps.        *)
LEMMA InSegment ==
    ASSUME NonceInv, NEW i \in Miners, WithinSegment(i), NEW k \in tried[i]
    PROVE  /\ farm \in Farms /\ farm.starts \in [Miners -> Nonces64] /\ k \in Nonces64 /\ farm.given \in Nat
           /\ \E d \in Nat : d < pow2[farm.given] /\ Wraps(k, Offset(farm, i, d))
<1>1. farm \in Farms /\ farm.given \in Nat BY DEF NonceInv, FarmInv, Farms
<1>2. /\ farm.starts \in [Miners -> Nonces64] /\ k \in Nonces64 /\ blocks[i] \in Nat
      /\ Searched(farm, i, blocks[i], nonce[i], tried[i])
  BY Constants DEF NonceInv, SearchInv
<1>3. PICK d \in Nat : d < blocks[i] * BlockSize /\ Wraps(k, Offset(farm, i, d)) BY <1>2 DEF Searched
<1>4. pow2[farm.given] \in Nat /\ blocks[i] * BlockSize \in Nat
  <2>1. pow2[farm.given] \in Nat BY <1>1, Powers
  <2> QED BY <1>2, <2>1, Constants
<1>5. d < pow2[farm.given] BY <1>3, <1>4 DEF WithinSegment
<1> QED BY <1>1, <1>2, <1>3, <1>5

(* The segments of two miners do not meet.                                 *)
LEMMA SegmentsApart ==
    ASSUME NonceInv, WidthsFit, NEW i \in Miners, NEW j \in Miners, i < j,
           WithinSegment(i), WithinSegment(j)
    PROVE  tried[i] \cap tried[j] = {}
<1> SUFFICES ASSUME NEW k \in tried[i], k \in tried[j] PROVE FALSE
  OBVIOUS
<1> DEFINE W == pow2[farm.given]
           s == farm.starts[1]
<1>1. farm \in Farms /\ farm.starts \in [Miners -> Nonces64] /\ k \in Nat /\ farm.given \in Nat
  BY InSegment, Sizes
<1>2. PICK d \in Nat : d < W /\ Wraps(k, Offset(farm, i, d)) BY InSegment
<1>3. PICK e \in Nat : e < W /\ Wraps(k, Offset(farm, j, e)) BY InSegment
<1>4. N * W <= Modulus BY DEF NonceInv, FarmInv, Fits
<1>5. s \in Nat /\ W \in Nat BY Zenon, <1>1, Offsets
<1>6. Offset(farm, i, d) = s + (i - 1) * W + d /\ Offset(farm, j, e) = s + (j - 1) * W + e BY DEF Offset
<1> HIDE DEF W, s
<1>7. i \in Nat /\ j \in Nat /\ i - 1 \in Nat /\ j - 1 \in Nat /\ i <= j - 1 /\ j <= N /\ N \in Nat BY Constants
<1>8. i * W <= (j - 1) * W /\ j * W <= N * W BY <1>5, <1>7, Products
<1>9. i * W = (i - 1) * W + W /\ j * W = (j - 1) * W + W BY <1>5, <1>7
<1>10. (i - 1) * W \in Nat /\ (j - 1) * W \in Nat /\ N * W \in Nat BY <1>5, <1>7
<1> DEFINE x == Offset(farm, i, d)
           y == Offset(farm, j, e)
           A == (i - 1) * W
           B == (j - 1) * W
<1>11. A \in Nat /\ B \in Nat /\ A + W <= B /\ B + W <= Modulus
  <2>1. A + W <= B BY <1>5, <1>8, <1>9, <1>10
  <2>2. B + W <= Modulus BY <1>4, <1>5, <1>8, <1>9, <1>10, Sizes
  <2> QED BY <1>10, <2>1, <2>2
<1>12. x = s + A + d /\ y = s + B + e BY <1>6
<1> HIDE DEF A, B, x, y
<1>13. x \in Nat /\ y \in Nat /\ x < y /\ y - x < Modulus
  BY <1>2, <1>3, <1>5, <1>11, <1>12, Sizes
<1>14. Wraps(k, x) /\ Wraps(k, y) BY <1>2, <1>3 DEF x, y
<1>15. x = y BY <1>1, <1>13, <1>14, WrapsOnce
<1> QED BY <1>13, <1>15

(* Miners that stay in their segments try no nonce twice between them      *)
(* (Farm::setWork, "unique, non overlapping" in docs/API.md:512), for any  *)
(* number of miners whose segments fit into the nonces, whatever the API   *)
(* does to the scrambler and the width between the jobs.                   *)
THEOREM NoncesAreTriedOnce == ASSUME WidthsFit PROVE RigSpec => []NoNonceTwice
<1>1. NonceInv => NoNonceTwice
  <2> SUFFICES ASSUME NonceInv, NEW i \in Miners, NEW j \in Miners, i # j, WithinSegment(i), WithinSegment(j)
               PROVE  tried[i] \cap tried[j] = {}
    BY DEF NoNonceTwice
  <2>1. CASE i < j BY <2>1, SegmentsApart
  <2>2. CASE j < i
    <3>1. tried[j] \cap tried[i] = {} BY <2>2, SegmentsApart
    <3> QED BY <3>1
  <2> QED BY <2>1, <2>2, Constants
<1> QED BY <1>1, NonceInitHolds, NonceStepHolds, PTL DEF RigSpec

(* Dividing by R leaves out what is below R.                               *)
LEMMA Quotient == ASSUME NEW p \in Nat, NEW R \in Nat \ {0}, NEW d \in Nat, d < R
                  PROVE  (p * R + d) \div R = p
<1> DEFINE x == p * R + d
           q == x \div R
<1>1. x \in Nat /\ p * R \in Nat OBVIOUS
<1>2. x = p * R + d OBVIOUS
<1> HIDE DEF x
<1>3. q \in Nat /\ q * R <= x /\ x < q * R + R BY <1>1
<1> HIDE DEF q
<1>4. q * R \in Nat BY <1>3
<1>5. ~(p + 1 <= q)
  <2> SUFFICES ASSUME p + 1 <= q PROVE FALSE OBVIOUS
  <2>1. (p + 1) * R <= q * R BY <1>3, Products
  <2>2. (p + 1) * R = p * R + R OBVIOUS
  <2> QED BY <1>1, <1>2, <1>3, <1>4, <2>1, <2>2
<1>6. ~(q + 1 <= p)
  <2> SUFFICES ASSUME q + 1 <= p PROVE FALSE OBVIOUS
  <2>1. (q + 1) * R <= p * R BY <1>3, Products
  <2>2. (q + 1) * R = q * R + R BY <1>3
  <2> QED BY <1>1, <1>2, <1>3, <1>4, <2>1, <2>2
<1>7. q = p BY <1>3, <1>5, <1>6
<1> QED BY <1>7 DEF q, x

(* The nonces a miner tries within its segment begin with the extranonce   *)
(* of its job (Farm::setWork), for any extranonce that leaves a nonce for  *)
(* each miner.                                                             *)
THEOREM ExtranonceIsKept == RigSpec => []PrefixIsKept
<1>1. NonceInv => PrefixIsKept
  <2> SUFFICES ASSUME NonceInv, NEW i \in Miners, WithinSegment(i), NEW k \in tried[i]
               PROVE  Prefixed(k)
    BY DEF PrefixIsKept
  <2> DEFINE digits == farm.exSizeBytes
             R == pow2[RoomBits(digits)]
             W == pow2[farm.given]
             s == farm.startNonce
  <2>1. farm \in Farms /\ farm.starts \in [Miners -> Nonces64] /\ k \in Nonces64 /\ farm.given \in Nat
    BY InSegment
  <2>2. PICK d \in Nat : d < W /\ Wraps(k, Offset(farm, i, d)) BY InSegment
  <2>3. digits \in Nat /\ RoomBits(digits) \in Nat BY <2>1 DEF NonceInv, FarmInv, Prefixing, Farms
  <2>4. PICK prefix \in Nat : s = prefix * R /\ prefix < pow2[DigitBits * digits]
    BY DEF NonceInv, FarmInv, Prefixing
  <2>5. s \in Nat /\ s + R <= Modulus BY <2>3, <2>4, PrefixFits
  <2>6. R \in Nat \ {0} /\ W \in Nat BY <2>1, <2>3, Powers
  <2>7. \E e \in Nat : e < R /\ k = s + e
    <3>1. CASE digits > 0
      <4>1. farm.starts[1] = s /\ N * W <= R BY <3>1 DEF NonceInv, FarmInv, Prefixing
      <4> DEFINE A == (i - 1) * W
                 x == Offset(farm, i, d)
      <4>2. x = s + A + d BY <4>1 DEF Offset
      <4>3. A \in Nat /\ A + W <= R
        <5>1. i \in Nat /\ i - 1 \in Nat /\ i <= N /\ N \in Nat BY Constants
        <5>2. i * W <= N * W /\ i * W = A + W /\ A \in Nat /\ N * W \in Nat
          <6> HIDE DEF W
          <6>1. i * W <= N * W BY <2>6, <5>1, Products
          <6> QED BY <2>6, <5>1, <6>1
        <5> HIDE DEF A, W, R
        <5> QED BY <2>6, <4>1, <5>2
      <4> HIDE DEF A, x, R, W, s
      <4>4. A + d \in Nat /\ A + d < R /\ x \in Nat /\ x < Modulus /\ x = s + (A + d)
        BY <2>2, <2>5, <2>6, <4>2, <4>3, Sizes
      <4>5. Wraps(k, x) BY <2>2 DEF x
      <4>6. k = x BY <2>1, <4>4, <4>5, NoWrap
      <4> QED BY <4>4, <4>6
    <3>2. CASE digits = 0
      <4>1. DigitBits * digits = 0 /\ RoomBits(digits) = NonceBits BY <3>2, Constants, Sizes DEF RoomBits
      <4>2. prefix = 0 BY <2>4, <4>1, Powers
      <4>3. s = 0 /\ R = Modulus BY <2>4, <2>6, <4>1, <4>2 DEF Modulus
      <4> QED BY <2>1, <4>3, Sizes
    <3> QED BY <2>3, <3>1, <3>2
  <2>8. PICK e \in Nat : e < R /\ k = s + e BY <2>7
  <2>9. (prefix * R + e) \div R = prefix /\ (prefix * R + 0) \div R = prefix
    <3> HIDE DEF R
    <3> QED BY <2>6, <2>8, Quotient
  <2>10. k \div R = prefix /\ s \div R = prefix
    <3> HIDE DEF R, s
    <3>1. prefix * R + 0 = prefix * R BY <2>6
    <3> QED BY <2>4, <2>8, <2>9, <3>1
  <2> QED BY Zenon, <2>10 DEF Prefixed
<1> QED BY <1>1, NonceInitHolds, NonceStepHolds, PTL DEF RigSpec

==============================================================================
