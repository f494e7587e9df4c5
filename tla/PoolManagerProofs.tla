-------------------------- MODULE PoolManagerProofs --------------------------
(***************************************************************************)
(* The pool manager always has a next step, runs the miners while it is in *)
(* session and gives them work of that session only, for any list of       *)
(* pools, any mixture of families and flavours and any settings.           *)
(***************************************************************************)
EXTENDS PoolManager, TLAPS

Uris == [mode : 0..4, confirmed : BOOLEAN, unrecoverable : BOOLEAN]
Clients == [conn : Pools, responds : BOOLEAN, thread : BOOLEAN,
            st : {"none", "fresh", "dialing", "linked", "session", "shutdown", "closed"}]
Packages == [job : BOOLEAN, seed : Epochs \union {NoSeed, RandomSeed}, epoch : Epochs \union {-1}]
Farms == [mining : BOOLEAN, paused : BOOLEAN, held : BOOLEAN, work : BOOLEAN]

(* The part of the state a client's callbacks change.                      *)
ClientTypes == /\ uris \in [Pools -> Uris]
               /\ m_running \in BOOLEAN /\ m_async_pending \in BOOLEAN /\ crashed \in BOOLEAN
               /\ client \in Clients
               /\ m_currentWp \in Packages
               /\ farm \in Farms
               /\ timers \subseteq {"failover", "submithr", "reconnect"}
               /\ queue \in Seq(Handlers)

ListTypes == /\ connections \in Seq(Pools)
             /\ m_activeConnectionIdx \in Nat
             /\ m_connectionAttempt \in Nat
             /\ m_stopping \in BOOLEAN
             /\ main \in {"serving", "stop", "flagged", "test", "disconnect", "waiting",
                          "cancel", "stopFarm", "done"}

(* m_stopping follows the main thread.                                     *)
StopInv == /\ m_stopping => main \notin {"serving", "stop", "flagged"}
           /\ main \in {"test", "disconnect", "waiting", "cancel", "stopFarm"} => m_stopping

(* Miners are held by a pause only, so that start() after a pause that was *)
(* never resumed cannot leave them held.                                   *)
HeldInv == farm.held => farm.paused

(* A stratum session has confirmed its flavour.                            *)
SessionInv == InSession /\ IsFamily("stratum") => uris[client.conn].confirmed

(* Work that is not simulated belongs to a session or to its shutdown, the *)
(* flavour confirmed: that shutdown never leads back to the search for a   *)
(* flavour, which would keep the work.                                     *)
Pledged == m_currentWp.seed # RandomSeed /\ (farm.work \/ m_currentWp.job)

WorkInv == (main # "done" /\ Pledged) =>
              /\ client.st \in {"session", "shutdown"}
              /\ IsFamily("stratum") => uris[client.conn].confirmed

(* A seed is kept with its own epoch, whatever jobs without a seed came in *)
(* between.                                                                *)
EpochInv == (m_currentWp.seed \notin {NoSeed, RandomSeed} /\ m_currentWp.epoch # -1) =>
               m_currentWp.epoch = m_currentWp.seed

Inv == /\ ClientTypes /\ ListTypes /\ StopInv /\ HeldInv /\ SessionInv /\ WorkInv /\ EpochInv
       /\ MinersRunInSession /\ FailoverIsPending /\ NeverStranded

-----------------------------------------------------------------------------
(* The queue.                                                              *)

(* Posting a handler adds it, and no other, to the handlers queued.        *)
LEMMA Posting == ASSUME NEW q \in Seq(Handlers), NEW h \in Handlers
                 PROVE  /\ Append(q, h) \in Seq(Handlers)
                        /\ Range(Append(q, h)) = Range(q) \union {h}
<1>1. /\ Append(q, h) \in Seq(Handlers)
      /\ Len(Append(q, h)) = Len(q) + 1
      /\ \A i \in 1..Len(q) : Append(q, h)[i] = q[i]
      /\ Append(q, h)[Len(q) + 1] = h
  OBVIOUS
<1>2. DOMAIN Append(q, h) = 1..(Len(q) + 1) /\ DOMAIN q = 1..Len(q) BY <1>1
<1>3. Len(q) \in Nat OBVIOUS
<1> HIDE DEF Handlers
<1>4. ASSUME NEW x PROVE x \in Range(Append(q, h)) <=> x \in Range(q) \union {h}
  BY <1>1, <1>2, <1>3 DEF Range
<1> QED BY <1>1, <1>4

(* The handlers queued are the one that runs next and those behind it.     *)
LEMMA Popping == ASSUME NEW q \in Seq(Handlers), q # <<>>
                 PROVE  /\ Tail(q) \in Seq(Handlers)
                        /\ Range(q) = Range(Tail(q)) \union {Head(q)}
<1>1. /\ Tail(q) \in Seq(Handlers)
      /\ Len(q) \in Nat /\ Len(q) > 0 /\ Len(Tail(q)) = Len(q) - 1
      /\ \A i \in 1..Len(Tail(q)) : Tail(q)[i] = q[i + 1]
      /\ Head(q) = q[1]
  OBVIOUS
<1>2. DOMAIN Tail(q) = 1..(Len(q) - 1) /\ DOMAIN q = 1..Len(q) BY <1>1
<1>3. ASSUME NEW x \in Range(q) PROVE x \in Range(Tail(q)) \union {Head(q)}
  <2>1. PICK i \in 1..Len(q) : x = q[i] BY <1>2 DEF Range
  <2>2. CASE i = 1 BY <2>1, <2>2, <1>1
  <2>3. CASE i # 1
    <3>1. i - 1 \in 1..(Len(q) - 1) BY <2>1, <2>3, <1>1
    <3>2. Tail(q)[i - 1] = x BY <3>1, <2>1, <1>1
    <3> QED BY Zenon, <3>1, <3>2, <1>2 DEF Range
  <2> QED BY <2>2, <2>3
<1>4. ASSUME NEW x \in Range(Tail(q)) \union {Head(q)} PROVE x \in Range(q)
  <2>1. CASE x = Head(q) BY <2>1, <1>1, <1>2 DEF Range
  <2>2. CASE x \in Range(Tail(q))
    <3>1. PICK i \in 1..(Len(q) - 1) : x = Tail(q)[i] BY <2>2, <1>2 DEF Range
    <3>2. i + 1 \in 1..Len(q) /\ x = q[i + 1] BY <3>1, <1>1
    <3> QED BY <3>2, <1>2 DEF Range
  <2> QED BY <2>1, <2>2
<1> QED BY <1>1, <1>3, <1>4

-----------------------------------------------------------------------------
(* What the end of a connection leaves, whichever way the client ends it.  *)

Leaves(q) == /\ ClientTypes'
             /\ client'.conn = client.conn
             /\ client'.st \in {"dialing", "shutdown"} \/ client'.st \in {"closed", "none"}
             /\ Range(q) \subseteq Range(queue')
             /\ m_running' => m_running
             /\ ~m_stopping => \/ client'.st \in {"dialing", "shutdown"}
                               \/ "rotateConnect" \in Range(queue')
                               \/ crashed'
             /\ HeldInv'
             /\ Pledged' =>
                   /\ Pledged
                   /\ client'.st = "shutdown"
                   /\ uris' = uris
             /\ m_currentWp'.seed = m_currentWp.seed /\ m_currentWp'.epoch = m_currentWp.epoch

(* The disconnected callback leaves that, with the client closed.          *)
LEMMA onDisconnectedLeaves ==
    ASSUME ClientTypes, HeldInv, NEW q \in Seq(Handlers), m_stopping \in BOOLEAN,
           onDisconnected(q), uris' \in [Pools -> Uris], crashed' = crashed
    PROVE  Leaves(q) /\ client'.st = "closed"
<1>1. client' \in Clients /\ client'.conn = client.conn /\ client'.st = "closed"
  BY ZenonT(60) DEF onDisconnected, ClientTypes, Clients
<1>2. m_currentWp' \in Packages /\ m_currentWp'.job = FALSE
      /\ m_currentWp'.seed = m_currentWp.seed /\ m_currentWp'.epoch = m_currentWp.epoch
  BY Zenon DEF onDisconnected, ClientTypes, Packages
<1>3. farm' \in Farms /\ farm'.work = FALSE /\ HeldInv'
  BY Zenon DEF onDisconnected, ClientTypes, Farms, FarmStop, FarmPause, HeldInv
<1>4. timers' \subseteq {"failover", "submithr", "reconnect"} BY DEF onDisconnected, ClientTypes
<1>5. "rotateConnect" \in Handlers BY DEF Handlers
<1>6. /\ queue' \in Seq(Handlers) /\ Range(q) \subseteq Range(queue')
      /\ ~m_stopping => "rotateConnect" \in Range(queue')
  <2>1. queue' = q \/ queue' = Append(q, "rotateConnect") BY DEF onDisconnected, PostRotate
  <2>2. ~m_stopping => queue' = Append(q, "rotateConnect") BY DEF onDisconnected, PostRotate
  <2>3. /\ Append(q, "rotateConnect") \in Seq(Handlers)
        /\ Range(Append(q, "rotateConnect")) = Range(q) \union {"rotateConnect"}
    BY <1>5, Posting
  <2> QED BY Zenon, <2>1, <2>2, <2>3
<1>7. m_running' \in BOOLEAN /\ m_async_pending' \in BOOLEAN /\ (m_running' => m_running)
  <2>1. m_running \in BOOLEAN /\ m_async_pending \in BOOLEAN BY DEF ClientTypes
  <2>2. m_running' = FALSE \/ m_running' = m_running BY Zenon DEF onDisconnected
  <2>3. m_async_pending' = TRUE \/ m_async_pending' = m_async_pending BY Zenon DEF onDisconnected
  <2>4. m_running' \in BOOLEAN /\ m_async_pending' \in BOOLEAN BY Zenon, <2>1, <2>2, <2>3
  <2>5. m_running' => m_running BY Zenon, <2>2
  <2> QED BY <2>4, <2>5
<1>8. ClientTypes' BY <1>1, <1>2, <1>3, <1>4, <1>6, <1>7 DEF ClientTypes
<1> QED BY <1>1, <1>2, <1>3, <1>6, <1>7, <1>8 DEF Leaves, Pledged

(* The end of a disconnection leaves that: it dials again in the next mode *)
(* or closes.                                                              *)
LEMMA FinalizeLeaves ==
    ASSUME ClientTypes, HeldInv, WorkInv, NEW q \in Seq(Handlers), m_stopping \in BOOLEAN,
           disconnect_finalize(q), crashed' = crashed, main # "done"
    PROVE  Leaves(q) /\ client'.st \in {"dialing", "closed"}
<1>0. client.conn \in Pools /\ uris[client.conn] \in Uris BY DEF ClientTypes, Clients
<1>1. CASE Detecting /\ uris[client.conn].mode > 0
  <2>1. /\ uris' = [uris EXCEPT ![client.conn].mode = @ - 1]
        /\ client' = [client EXCEPT !.st = "dialing"]
        /\ queue' = q
        /\ UNCHANGED <<m_currentWp, timers, farm, m_running, m_async_pending>>
    BY <1>1 DEF disconnect_finalize
  <2>2. uris' \in [Pools -> Uris] BY <2>1, <1>0, <1>1 DEF Uris, ClientTypes
  <2>3. client' \in Clients /\ client'.conn = client.conn /\ client'.st = "dialing"
    BY SMTT(30), <2>1 DEF ClientTypes, Clients
  <2>4. ~Pledged BY <1>1 DEF WorkInv, Detecting
  <2>5. ClientTypes' BY <2>1, <2>2, <2>3 DEF ClientTypes
  <2>6. ~Pledged' BY Zenon, <2>1, <2>4 DEF Pledged
  <2> QED BY <2>1, <2>3, <2>5, <2>6 DEF Leaves, HeldInv
<1>2. CASE ~(Detecting /\ uris[client.conn].mode > 0)
  <2>1. uris' = [uris EXCEPT ![client.conn].unrecoverable = @ \/ Detecting] /\ onDisconnected(q)
    BY <1>2 DEF disconnect_finalize
  <2>2. uris' \in [Pools -> Uris] BY Zenon, <2>1, <1>0 DEF Uris, ClientTypes
  <2> QED BY <2>1, <2>2, onDisconnectedLeaves
<1> QED BY <1>1, <1>2

(* A disconnection leaves that, in whichever state the client is.          *)
LEMMA DisconnectLeaves ==
    ASSUME ClientTypes, HeldInv, WorkInv, NEW q \in Seq(Handlers), NEW a \in BOOLEAN,
           m_stopping \in BOOLEAN, disconnect(q, a), main # "done"
    PROVE  Leaves(q)
<1>1. CASE disconnect_finalize(q) /\ UNCHANGED crashed BY <1>1, FinalizeLeaves
<1>2. CASE /\ client.st \in {"dialing", "linked", "session", "shutdown"}
           /\ client' = [client EXCEPT !.st = "shutdown"]
           /\ queue' = q
           /\ m_async_pending' = a
           /\ UNCHANGED <<uris, m_currentWp, timers, farm, m_running, crashed>>
  <2>1. client' \in Clients /\ client'.conn = client.conn /\ client'.st = "shutdown"
    BY <1>2 DEF ClientTypes, Clients
  <2>2. ClientTypes' BY <1>2, <2>1 DEF ClientTypes
  <2>3. Pledged' => Pledged BY Zenon, <1>2 DEF Pledged
  <2> QED BY <1>2, <2>1, <2>2, <2>3 DEF Leaves, HeldInv
<1>3. CASE onDisconnected(q) /\ UNCHANGED <<uris, crashed>>
  BY <1>3, onDisconnectedLeaves DEF ClientTypes
<1>4. CASE /\ client.st \in {"none", "closed"}
           /\ crashed' = TRUE
           /\ queue' = q
           /\ UNCHANGED <<uris, client, m_currentWp, timers, farm, m_running, m_async_pending>>
  <2>1. ClientTypes' BY <1>4 DEF ClientTypes
  <2>2. ~Pledged BY <1>4 DEF WorkInv
  <2>3. ~Pledged' BY Zenon, <1>4, <2>2 DEF Pledged
  <2> QED BY <1>4, <2>1, <2>3 DEF Leaves, HeldInv
<1> QED BY Zenon, <1>1, <1>2, <1>3, <1>4 DEF disconnect

(* The invariant after such an end, in a handler or on the main thread:    *)
(* what was posted is still posted, less the handler that runs.            *)
LEMMA LeavingKeeps ==
    ASSUME Inv, NEW q, Leaves(q), ListTypes', StopInv', main # "done",
           m_stopping' = m_stopping
    PROVE  Inv'
<1>1. client'.st # "session" BY DEF Leaves
<1>2. WorkInv' BY DEF Inv, WorkInv, Leaves, IsFamily
<1>3. EpochInv' BY DEF Inv, EpochInv, Leaves
<1>4. MinersRunInSession' /\ FailoverIsPending' /\ SessionInv'
  BY <1>1 DEF MinersRunInSession, FailoverIsPending, SessionInv, InSession
<1>5. NeverStranded' BY DEF NeverStranded, Leaves, StopInv, Posted, Inv, ListTypes
<1> QED BY <1>2, <1>3, <1>4, <1>5 DEF Inv, Leaves

-----------------------------------------------------------------------------
(* What the begin of a session leaves.                                     *)

Joins(idx) == /\ client' \in Clients /\ m_currentWp' \in Packages /\ farm' \in Farms
              /\ timers' \subseteq {"failover", "submithr", "reconnect"}
              /\ m_async_pending' = FALSE /\ m_connectionAttempt' = 0
              /\ idx # 0 /\ FailoverTimeout => "failover" \in timers'
              /\ farm'.mining /\ ~farm'.held
              /\ farm'.work = farm.work /\ ~m_currentWp'.job
              /\ m_currentWp'.seed = m_currentWp.seed /\ m_currentWp'.epoch = m_currentWp.epoch

(* The connected callback leaves the state of a session just joined.       *)
LEMMA onConnectedJoins ==
    ASSUME ClientTypes, HeldInv, NEW p \in Pools, NEW idx \in Nat,
           NEW st \in {"session", "shutdown"}, onConnected(p, idx, st)
    PROVE  Joins(idx) /\ client'.conn = p /\ client'.st = st
<1>1. client' \in Clients /\ client'.conn = p /\ client'.st = st BY DEF onConnected, Clients
<1>2. m_currentWp' \in Packages /\ ~m_currentWp'.job
      /\ m_currentWp'.seed = m_currentWp.seed /\ m_currentWp'.epoch = m_currentWp.epoch
  BY Zenon DEF onConnected, ClientTypes, Packages
<1>3. farm' \in Farms /\ farm'.mining /\ ~farm'.held /\ farm'.work = farm.work
  BY Zenon DEF onConnected, ClientTypes, Farms, FarmGoes, FarmResume, FarmStart, HeldInv
<1>4. /\ timers' \subseteq {"failover", "submithr", "reconnect"}
      /\ idx # 0 /\ FailoverTimeout => "failover" \in timers'
  BY DEF onConnected, ClientTypes, RearmFailover
<1>5. m_async_pending' = FALSE /\ m_connectionAttempt' = 0 BY DEF onConnected
<1> QED BY <1>1, <1>2, <1>3, <1>4, <1>5 DEF Joins

(* Erasing an entry leaves a list of pools shorter by one.                 *)
LEMMA Erasing == ASSUME NEW s \in Seq(Pools), NEW i \in 0..(Len(s) - 1)
                 PROVE  erase(s, i) \in Seq(Pools) /\ Len(erase(s, i)) = Len(s) - 1
<1> DEFINE m == Len(s)
           before == SubSeq(s, 1, i)
           after == SubSeq(s, i + 2, m)
<1>0. m \in Nat /\ i \in Nat /\ i < m /\ \A k \in 1..m : s[k] \in Pools OBVIOUS
<1>1. before \in Seq(Pools) /\ Len(before) = i
  <2>1. \A k \in 1..i : s[k] \in Pools BY <1>0
  <2> QED BY <2>1, <1>0
<1>2. after \in Seq(Pools) /\ Len(after) = IF i + 2 <= m THEN m - (i + 2) + 1 ELSE 0
  <2>1. \A k \in (i + 2)..m : s[k] \in Pools BY <1>0
  <2>2. i + 2 \in Int /\ m \in Int BY <1>0
  <2> QED BY <2>1, <2>2
<1>3. erase(s, i) = before \o after BY DEF erase
<1> HIDE DEF m, before, after
<1>4. Len(after) = m - 1 - i BY <1>0, <1>2
<1>5. before \o after \in Seq(Pools) /\ Len(before \o after) = Len(before) + Len(after) BY SMTT(30), <1>1, <1>2
<1>6. Len(before) + Len(after) = m - 1 BY <1>0, <1>1, <1>4
<1> QED BY <1>3, <1>5, <1>6 DEF m

(* The pool a rotation selects is an entry of the list it leaves, if it    *)
(* leaves any.                                                             *)
LEMMA SelectedIsListed ==
    ASSUME ListTypes, connections # <<>>
    PROVE  /\ Selected.list \in Seq(Pools) /\ Selected.idx \in Nat /\ Selected.attempt \in Nat
           /\ Selected.list # <<>> => /\ Selected.list[Selected.idx + 1] \in Pools
                                      /\ Selected.idx < Len(Selected.list)
<1> DEFINE n == Len(connections)
           idx == IF m_activeConnectionIdx >= n THEN 0 ELSE m_activeConnectionIdx
           shorter == erase(connections, idx)
<1>1. n \in Nat /\ n > 0 /\ idx \in 0..(n - 1) /\ m_connectionAttempt \in Nat
      /\ connections \in Seq(Pools) /\ m_activeConnectionIdx \in Nat
  BY DEF ListTypes
<1>2. shorter \in Seq(Pools) /\ Len(shorter) = n - 1
  <2>1. idx \in 0..(Len(connections) - 1) BY <1>1
  <2> QED BY <2>1, <1>1, Erasing
<1>3. \/ Selected = [list |-> shorter, idx |-> IF idx >= n - 1 THEN 0 ELSE idx, attempt |-> 0]
      \/ n = 1 /\ Selected = [list |-> shorter, idx |-> idx, attempt |-> m_connectionAttempt]
      \/ n > 1 /\ Selected = [list |-> connections, idx |-> Rotation(idx, n), attempt |-> 0]
      \/ Selected = [list |-> connections, idx |-> idx, attempt |-> m_connectionAttempt]
  BY <1>1 DEF Selected
<1>4. Rotation(idx, n) \in 0..(n - 1) BY <1>1 DEF Rotation
<1> HIDE DEF n, idx, shorter
<1>5. \A s \in Seq(Pools) : s # <<>> => \A i \in 0..(Len(s) - 1) : s[i + 1] \in Pools
  <2> SUFFICES ASSUME NEW s \in Seq(Pools), NEW i \in 0..(Len(s) - 1) PROVE s[i + 1] \in Pools
    OBVIOUS
  <2>1. i + 1 \in 1..Len(s) OBVIOUS
  <2> QED BY <2>1
<1>6. shorter # <<>> => Len(shorter) > 0 BY <1>2
<1>7. connections \in Seq(Pools) /\ Len(connections) = n BY <1>1 DEF n
<1>8. CASE Selected = [list |-> shorter, idx |-> IF idx >= n - 1 THEN 0 ELSE idx, attempt |-> 0]
  <2>1. Selected.list = shorter /\ Selected.attempt = 0
        /\ Selected.idx = IF idx >= n - 1 THEN 0 ELSE idx BY <1>8
  <2>2. Selected.idx \in Nat BY <2>1, <1>1
  <2>3. shorter # <<>> => Selected.idx \in 0..(Len(shorter) - 1) BY <2>1, <1>1, <1>2, <1>6
  <2> QED BY <2>1, <2>2, <2>3, <1>2, <1>5
<1>9. CASE n = 1 /\ Selected = [list |-> shorter, idx |-> idx, attempt |-> m_connectionAttempt]
  BY <1>9, <1>1, <1>2, <1>6
<1>10. CASE n > 1 /\ Selected = [list |-> connections, idx |-> Rotation(idx, n), attempt |-> 0]
  BY <1>10, <1>1, <1>4, <1>5, <1>7
<1>11. CASE Selected = [list |-> connections, idx |-> idx, attempt |-> m_connectionAttempt]
  BY <1>11, <1>1, <1>5, <1>7
<1> QED BY <1>3, <1>8, <1>9, <1>10, <1>11

(* The invariant after a session begins; no work is left from another one. *)
LEMMA JoiningKeeps ==
    ASSUME Inv, Joins(m_activeConnectionIdx'), client'.st \in {"session", "shutdown"}, SessionInv',
           ~Pledged, uris' \in [Pools -> Uris], queue' \in Seq(Handlers), ListTypes', StopInv',
           m_running' = m_running, crashed' = crashed
    PROVE  Inv'
<1>1. ClientTypes'
  <2>1. m_async_pending' \in BOOLEAN BY Zenon DEF Joins
  <2>2. m_running' \in BOOLEAN /\ crashed' \in BOOLEAN BY DEF Inv, ClientTypes
  <2> QED BY <2>1, <2>2 DEF Joins, ClientTypes
<1>2. HeldInv' /\ MinersRunInSession' BY DEF Joins, HeldInv, MinersRunInSession
<1>3. WorkInv' BY DEF Joins, WorkInv, Pledged
<1>4. EpochInv' BY DEF Inv, EpochInv, Joins
<1>5. FailoverIsPending' BY DEF FailoverIsPending, Joins
<1>6. NeverStranded' BY DEF NeverStranded
<1> QED BY <1>1, <1>2, <1>3, <1>4, <1>5, <1>6 DEF Inv

-----------------------------------------------------------------------------
(* The steps, one lemma for each group.                                    *)

(* The client's steps keep the invariant.                                  *)
LEMMA ClientSteps ==
    ASSUME Inv, DialStep \/ SessionStarts \/ LateLogin \/ PoolFails \/ GetworkFails \/ ShutdownEnds
    PROVE  Inv'
<1>0. /\ ClientTypes /\ ListTypes /\ StopInv /\ HeldInv /\ WorkInv
      /\ m_stopping \in BOOLEAN /\ queue \in Seq(Handlers) /\ m_async_pending \in BOOLEAN
      /\ client.conn \in Pools /\ uris \in [Pools -> Uris] /\ uris[client.conn] \in Uris
      /\ client \in Clients /\ m_activeConnectionIdx \in Nat
  BY DEF Inv, ClientTypes, ListTypes, Clients
<1>1. CASE Linked
  <2>1. client' \in Clients /\ client'.st = "linked" /\ client'.conn = client.conn
    BY Zenon, <1>0, <1>1 DEF Linked, Clients
  <2>2. uris' \in [Pools -> Uris]
    <3>1. Version[client.conn] \in 0..4 BY <1>0, PoolsAssumption
    <3>2. Flavoured(client.conn, uris[client.conn]) \in Uris
      <4> DEFINE u == uris[client.conn]
      <4>1. [u EXCEPT !.mode = Version[client.conn], !.confirmed = TRUE] \in Uris
        BY Zenon, <1>0, <3>1 DEF Uris
      <4>2. [u EXCEPT !.mode = 3] \in Uris BY <1>0 DEF Uris
      <4>3. CASE Version[client.conn] # Unset BY <4>1, <4>3 DEF Flavoured
      <4>4. CASE Version[client.conn] = Unset /\ ~u.confirmed /\ u.mode = Unset
        BY <4>2, <4>4 DEF Flavoured
      <4>5. CASE Version[client.conn] = Unset /\ ~(~u.confirmed /\ u.mode = Unset)
        BY <1>0, <4>5 DEF Flavoured
      <4> QED BY <4>3, <4>4, <4>5
    <3>3. uris' = [uris EXCEPT ![client.conn] = Flavoured(client.conn, uris[client.conn])]
      BY <1>1 DEF Linked
    <3> QED BY <1>0, <3>2, <3>3
  <2>3. /\ UNCHANGED <<connections, m_activeConnectionIdx, m_connectionAttempt, m_running,
                       m_stopping, m_async_pending, m_currentWp, farm, timers, queue, main, crashed>>
        /\ client.st = "dialing" /\ main # "done"
    BY <1>1 DEF Linked, flags, Dialing, IoRuns
  <2>4. ClientTypes' BY <1>0, <2>1, <2>2, <2>3 DEF ClientTypes
  <2>5. ListTypes' /\ StopInv' /\ HeldInv' /\ EpochInv'
    BY <2>3 DEF Inv, ListTypes, StopInv, HeldInv, EpochInv
  <2>6. WorkInv' BY <1>0, <2>1, <2>3 DEF WorkInv, Pledged
  <2>7. MinersRunInSession' /\ FailoverIsPending' /\ NeverStranded' /\ SessionInv'
    BY <2>1 DEF MinersRunInSession, FailoverIsPending, InSession, NeverStranded, SessionInv
  <2> QED BY <2>4, <2>5, <2>6, <2>7 DEF Inv
<1>2. CASE DialFails \/ ShutdownEnds
  <2>1. /\ disconnect_finalize(queue) /\ main # "done"
        /\ UNCHANGED <<connections, m_activeConnectionIdx, m_connectionAttempt, m_stopping, main, crashed>>
    BY <1>2 DEF DialFails, ShutdownEnds, IoRuns
  <2>2. Leaves(queue) BY <1>0, <2>1, FinalizeLeaves
  <2>3. ListTypes' /\ StopInv' BY <1>0, <2>1 DEF ListTypes, StopInv
  <2> QED BY <2>1, <2>2, <2>3, LeavingKeeps
<1>3. CASE SessionStarts
  <2>1. /\ onConnected(client.conn, m_activeConnectionIdx, "session")
        /\ client.st \in {"linked", "dialing"} /\ main # "done"
        /\ uris' = [uris EXCEPT ![client.conn].confirmed = @ \/ IsFamily("stratum")]
        /\ UNCHANGED <<connections, m_activeConnectionIdx, m_running, m_stopping, queue, main, crashed>>
    BY <1>3 DEF SessionStarts, IoRuns, Dialing
  <2>2. Joins(m_activeConnectionIdx) /\ client'.st = "session" /\ client'.conn = client.conn
    BY <1>0, <2>1, onConnectedJoins
  <2>3. uris' \in [Pools -> Uris] /\ SessionInv'
    <3>1. uris'[client.conn].confirmed = (uris[client.conn].confirmed \/ IsFamily("stratum"))
      BY <1>0, <2>1 DEF Uris
    <3>2. uris' \in [Pools -> Uris] BY Zenon, <1>0, <2>1 DEF Uris
    <3> QED BY Zenon, <2>2, <3>1, <3>2 DEF SessionInv, IsFamily
  <2>4. ~Pledged BY <1>0, <2>1 DEF WorkInv
  <2>5. ListTypes' /\ StopInv' BY <1>0, <2>1, <2>2 DEF ListTypes, StopInv, Joins
  <2>6. Joins(m_activeConnectionIdx') BY <2>1, <2>2 DEF Joins
  <2> QED BY <1>0, <2>1, <2>2, <2>3, <2>4, <2>5, <2>6, JoiningKeeps
<1>4. CASE LateLogin
  <2>1. /\ onConnected(client.conn, m_activeConnectionIdx, "shutdown")
        /\ Detecting /\ main # "done"
        /\ uris' = [uris EXCEPT ![client.conn].confirmed = TRUE]
        /\ UNCHANGED <<connections, m_activeConnectionIdx, m_running, m_stopping, queue, main, crashed>>
    BY <1>4 DEF LateLogin, IoRuns
  <2>2. Joins(m_activeConnectionIdx) /\ client'.st = "shutdown"
    BY <1>0, <2>1, onConnectedJoins
  <2>3. uris' \in [Pools -> Uris] /\ SessionInv'
    BY Zenon, <1>0, <2>1, <2>2 DEF Uris, SessionInv, InSession
  <2>4. ~Pledged BY <1>0, <2>1 DEF WorkInv, Detecting
  <2>5. ListTypes' /\ StopInv' BY <1>0, <2>1, <2>2 DEF ListTypes, StopInv, Joins
  <2>6. Joins(m_activeConnectionIdx') BY <2>1, <2>2 DEF Joins
  <2> QED BY <1>0, <2>1, <2>2, <2>3, <2>4, <2>5, <2>6, JoiningKeeps
<1>5. CASE PoolFails
  <2>1. /\ queue' = Append(queue, "disconnect")
        /\ client.st \in {"linked", "session"}
        /\ \/ UNCHANGED uris
           \/ uris' = [uris EXCEPT ![client.conn].unrecoverable = TRUE]
        /\ UNCHANGED <<connections, m_activeConnectionIdx, m_connectionAttempt, m_running, m_stopping,
                       m_async_pending, client, m_currentWp, farm, timers, main, crashed>>
    BY <1>5 DEF PoolFails, isConnected, flags
  <2>2. uris' \in [Pools -> Uris] BY ZenonT(60), <1>0, <2>1 DEF Uris
  <2>3. uris'[client.conn].confirmed = uris[client.conn].confirmed BY <1>0, <2>1 DEF Uris
  <2>4. queue' \in Seq(Handlers) /\ Range(queue) \subseteq Range(queue')
    <3>1. "disconnect" \in Handlers BY DEF Handlers
    <3> QED BY <1>0, <2>1, <3>1, Posting
  <2>5. ClientTypes' BY <1>0, <2>1, <2>2, <2>4 DEF ClientTypes
  <2>6. ListTypes' /\ StopInv' /\ HeldInv' /\ EpochInv' /\ MinersRunInSession'
    BY <2>1 DEF Inv, ListTypes, StopInv, HeldInv, EpochInv, MinersRunInSession, InSession
  <2>7. WorkInv' /\ SessionInv'
    BY <1>0, <2>1, <2>3 DEF Inv, WorkInv, Pledged, SessionInv, IsFamily, InSession
  <2>8. FailoverIsPending' BY <2>1, <2>4 DEF Inv, FailoverIsPending, InSession, Posted
  <2>9. NeverStranded' BY <2>1 DEF NeverStranded
  <2> QED BY <2>5, <2>6, <2>7, <2>8, <2>9 DEF Inv
<1>6. CASE GetworkFails
  <2>1. /\ disconnect(queue, m_async_pending) /\ main # "done"
        /\ UNCHANGED <<connections, m_activeConnectionIdx, m_connectionAttempt, m_stopping, main>>
    BY <1>6 DEF GetworkFails, IoRuns
  <2>2. Leaves(queue) BY <1>0, <2>1, DisconnectLeaves
  <2>3. ListTypes' /\ StopInv' BY <1>0, <2>1 DEF ListTypes, StopInv
  <2> QED BY <2>1, <2>2, <2>3, LeavingKeeps
<1> QED BY <1>1, <1>2, <1>3, <1>4, <1>5, <1>6 DEF DialStep

(* The epoch a job is given is its own: the old one is kept only when the  *)
(* seed it was derived from, or the epoch itself, is the same.             *)
LEMMA WorkHasItsEpoch ==
    ASSUME Inv, NEW e \in Epochs, WorkReceived(e)
    PROVE  /\ m_currentWp' \in Packages
           /\ m_currentWp'.epoch = e
           /\ m_currentWp'.seed \in {NoSeed, e}
<1> DEFINE mode3 == IsFamily("stratum") /\ uris[client.conn].mode = 3
           wp == Job(e)
<1>0. PICK b \in {-1, e} : onWorkReceived(wp, b) BY DEF WorkReceived
<1> DEFINE derived == CASE wp.epoch # -1 -> wp.epoch
                        [] wp.epoch = -1 /\ b >= 0 -> b
                        [] OTHER -> wp.seed
<1>1. m_currentWp' = [wp EXCEPT !.epoch = IF NewEpoch(wp, mode3) THEN derived ELSE m_currentWp.epoch]
  BY <1>0 DEF onWorkReceived
<1>2. e \in Nat /\ e # -1 /\ e \notin {NoSeed, RandomSeed}
  BY SettingsAssumption DEF NoSeed, RandomSeed
<1>3. m_currentWp \in Packages /\ EpochInv BY DEF Inv, ClientTypes
<1>4. CASE mode3
  <2>0. wp = [job |-> TRUE, seed |-> NoSeed, epoch |-> e] BY <1>4 DEF Job
  <2>1. wp.epoch = e /\ wp.seed = NoSeed BY <2>0
  <2>2. derived = e BY <1>2, <2>1
  <2>3. ~NewEpoch(wp, mode3) => m_currentWp.epoch = e BY <1>4, <2>1 DEF NewEpoch
  <2>4. m_currentWp' = [wp EXCEPT !.epoch = e] BY <1>1, <2>2, <2>3
  <2>5. m_currentWp' = [job |-> TRUE, seed |-> NoSeed, epoch |-> e]
    <3> HIDE DEF wp
    <3> QED BY Zenon, <2>0, <2>4
  <2> QED BY <2>5 DEF Packages
<1>5. CASE ~mode3
  <2>0. wp = [job |-> TRUE, seed |-> e, epoch |-> -1] BY Zenon, <1>5 DEF Job
  <2>1. wp.epoch = -1 /\ wp.seed = e BY <2>0
  <2>2. derived = e BY <1>0, <1>2, <2>1
  <2>3. ~NewEpoch(wp, mode3) => m_currentWp.epoch = e
    BY <1>2, <1>3, <1>5, <2>1 DEF NewEpoch, EpochInv
  <2>4. m_currentWp' = [wp EXCEPT !.epoch = e] BY <1>1, <2>2, <2>3
  <2>5. m_currentWp' = [job |-> TRUE, seed |-> e, epoch |-> e]
    <3> HIDE DEF wp
    <3> QED BY Zenon, <2>0, <2>4
  <2> QED BY <2>5 DEF Packages
<1> QED BY <1>4, <1>5

(* The epoch of a simulated job is that of its block: its seed is never    *)
(* the one the manager holds.                                              *)
LEMMA SimulationHasItsEpoch ==
    ASSUME Inv, NEW e \in Epochs, client.conn \in Pools, IsFamily("simulation"),
           onWorkReceived(SimulatedJob, e)
    PROVE  /\ m_currentWp' \in Packages
           /\ m_currentWp'.epoch = e
           /\ m_currentWp'.seed = RandomSeed
<1> DEFINE mode3 == IsFamily("stratum") /\ uris[client.conn].mode = 3
           wp == SimulatedJob
           derived == CASE wp.epoch # -1 -> wp.epoch
                        [] wp.epoch = -1 /\ e >= 0 -> e
                        [] OTHER -> wp.seed
<1>1. m_currentWp' = [wp EXCEPT !.epoch = IF NewEpoch(wp, mode3) THEN derived ELSE m_currentWp.epoch]
  BY DEF onWorkReceived
<1>2. e \in Nat /\ e >= 0 BY SettingsAssumption
<1>3. wp = [job |-> TRUE, seed |-> RandomSeed, epoch |-> -1] BY DEF SimulatedJob
<1>4. wp.epoch = -1 /\ wp.seed = RandomSeed BY <1>3
<1>5. derived = e BY <1>2, <1>4
<1>6. ~mode3 BY DEF IsFamily
<1>7. NewEpoch(wp, mode3) BY <1>4, <1>6 DEF NewEpoch
<1>8. m_currentWp' = [wp EXCEPT !.epoch = e] BY <1>1, <1>5, <1>7
<1>9. m_currentWp' = [job |-> TRUE, seed |-> RandomSeed, epoch |-> e] BY Zenon, <1>3, <1>8
<1> QED BY <1>9 DEF Packages

(* A job from the pool keeps the invariant.                                *)
LEMMA WorkKeeps == ASSUME Inv, NEW e \in Epochs, WorkReceived(e)
                   PROVE  Inv'
<1>1. /\ farm' = FarmSetWork(farm) /\ client.st = "session"
      /\ UNCHANGED <<connections, uris, m_activeConnectionIdx, m_connectionAttempt, m_running,
                     m_stopping, m_async_pending, client, timers, queue, main, crashed>>
  BY DEF WorkReceived, onWorkReceived, pool, flags
<1>2. farm' \in Farms /\ farm'.mining = farm.mining /\ farm'.held = farm.held /\ farm'.paused = farm.paused
  BY Zenon, <1>1 DEF Inv, ClientTypes, Farms, FarmSetWork
<1>3. ClientTypes' BY <1>1, <1>2, WorkHasItsEpoch DEF Inv, ClientTypes
<1>4. ListTypes' /\ StopInv' /\ SessionInv'
  BY <1>1 DEF Inv, ListTypes, StopInv, SessionInv, InSession, IsFamily
<1>5. HeldInv' /\ MinersRunInSession'
  BY <1>1, <1>2 DEF Inv, HeldInv, MinersRunInSession, InSession
<1>6. WorkInv' BY <1>1 DEF Inv, WorkInv, SessionInv, InSession, IsFamily
<1>7. EpochInv' BY WorkHasItsEpoch DEF EpochInv
<1>8. FailoverIsPending' /\ NeverStranded'
  BY <1>1 DEF Inv, FailoverIsPending, NeverStranded, InSession, Posted
<1> QED BY <1>3, <1>4, <1>5, <1>6, <1>7, <1>8 DEF Inv

(* So does the job of a simulation's thread, delivered in time or late.    *)
LEMMA SimulationKeeps == ASSUME Inv, NEW e \in Epochs, SimulatedWork(e)
                         PROVE  Inv'
<1>0. ClientTypes /\ client \in Clients /\ client.conn \in Pools BY DEF Inv, ClientTypes, Clients
<1>1. /\ client' = [client EXCEPT !.thread = FALSE]
      /\ UNCHANGED <<connections, uris, m_activeConnectionIdx, m_connectionAttempt, m_running,
                     m_stopping, m_async_pending, timers, queue, main>>
  BY DEF SimulatedWork, pool, flags
<1>2. client' \in Clients /\ client'.st = client.st /\ client'.conn = client.conn
  BY Zenon, <1>0, <1>1 DEF Clients
<1>3. IsFamily("simulation") BY DEF SimulatedWork
<1>4. CASE crashed' = TRUE /\ UNCHANGED <<m_currentWp, farm>>
  <2>1. ClientTypes' BY Zenon, <1>0, <1>1, <1>2, <1>4 DEF ClientTypes
  <2>2. ListTypes' /\ StopInv' /\ HeldInv' /\ EpochInv'
    BY <1>1, <1>4 DEF Inv, ListTypes, StopInv, HeldInv, EpochInv
  <2>3. SessionInv' /\ WorkInv' /\ MinersRunInSession'
    BY <1>1, <1>2, <1>4 DEF Inv, SessionInv, WorkInv, Pledged, MinersRunInSession, InSession, IsFamily
  <2>4. FailoverIsPending' /\ NeverStranded'
    BY <1>1, <1>2, <1>4 DEF Inv, FailoverIsPending, NeverStranded, InSession, Posted
  <2> QED BY <2>1, <2>2, <2>3, <2>4 DEF Inv
<1>5. CASE onWorkReceived(SimulatedJob, e) /\ UNCHANGED crashed
  <2>1. farm' = FarmSetWork(farm) BY <1>5 DEF onWorkReceived
  <2>2. farm' \in Farms /\ farm'.mining = farm.mining /\ farm'.held = farm.held /\ farm'.paused = farm.paused
    BY Zenon, <1>0, <2>1 DEF ClientTypes, Farms, FarmSetWork
  <2>3. m_currentWp' \in Packages /\ m_currentWp'.seed = RandomSeed
    BY <1>0, <1>3, <1>5, SimulationHasItsEpoch
  <2>4. ClientTypes' BY <1>0, <1>1, <1>2, <1>5, <2>2, <2>3 DEF ClientTypes
  <2>5. ListTypes' /\ StopInv' /\ HeldInv'
    BY <1>1, <2>2 DEF Inv, ListTypes, StopInv, HeldInv
  <2>6. EpochInv' /\ WorkInv' BY <2>3 DEF EpochInv, WorkInv, Pledged
  <2>7. SessionInv' /\ MinersRunInSession'
    BY <1>1, <1>2, <2>2 DEF Inv, SessionInv, MinersRunInSession, InSession, IsFamily
  <2>8. FailoverIsPending' /\ NeverStranded'
    BY <1>1, <1>2, <1>5 DEF Inv, FailoverIsPending, NeverStranded, InSession, Posted
  <2> QED BY <2>4, <2>5, <2>6, <2>7, <2>8 DEF Inv
<1> QED BY Zenon, <1>4, <1>5 DEF SimulatedWork

(* connect() is called for a client that holds no work.                    *)
LEMMA ConnectKeeps ==
    ASSUME Inv, NEW p \in Pools, NEW idx \in Nat, NEW attempt \in Nat, connect(p, idx, attempt),
           client.st \in {"none", "fresh", "closed"}, main # "done",
           m_activeConnectionIdx' = idx, connections' \in Seq(Pools), queue' \in Seq(Handlers),
           UNCHANGED <<uris, m_running, m_stopping, main, crashed>>
    PROVE  Inv'
<1>0. ClientTypes /\ HeldInv /\ StopInv /\ EpochInv BY DEF Inv
<1>1. ~Pledged BY DEF Inv, WorkInv
<1>2. m_stopping' \in BOOLEAN /\ main' \in {"serving", "stop", "flagged", "test", "disconnect",
                                            "waiting", "cancel", "stopFarm", "done"} /\ StopInv'
  BY DEF Inv, ListTypes, StopInv
<1>3. CASE Family[p] = "simulation" /\ onConnected(p, idx, "session")
  <2>1. Joins(idx) /\ client'.conn = p /\ client'.st = "session" BY <1>0, <1>3, onConnectedJoins
  <2>2. Joins(m_activeConnectionIdx') BY <2>1 DEF Joins
  <2>3. SessionInv' BY <1>3, <2>1 DEF SessionInv, IsFamily
  <2>4. ListTypes' BY <1>2, <2>1 DEF ListTypes, Joins
  <2>5. uris' \in [Pools -> Uris] BY <1>0 DEF ClientTypes
  <2> QED BY <1>1, <1>2, <2>1, <2>2, <2>3, <2>4, <2>5, JoiningKeeps
<1>4. CASE /\ client' = [conn |-> p, responds |-> FALSE, thread |-> FALSE, st |-> "dialing"]
           /\ m_connectionAttempt' = attempt
           /\ UNCHANGED <<m_currentWp, timers, farm, m_async_pending>>
  <2>1. client' \in Clients /\ client'.st = "dialing" BY <1>4 DEF Clients
  <2>2. ClientTypes' BY <1>0, <1>4, <2>1 DEF ClientTypes
  <2>3. ListTypes' BY <1>2, <1>4 DEF ListTypes
  <2>4. HeldInv' /\ EpochInv' BY <1>0, <1>4 DEF HeldInv, EpochInv
  <2>5. WorkInv' BY <1>1, <1>4 DEF WorkInv, Pledged
  <2>6. SessionInv' /\ MinersRunInSession' /\ FailoverIsPending' /\ NeverStranded'
    BY <2>1 DEF SessionInv, MinersRunInSession, FailoverIsPending, InSession, NeverStranded
  <2> QED BY <1>2, <2>2, <2>3, <2>4, <2>5, <2>6 DEF Inv
<1> QED BY <1>3, <1>4 DEF connect

(* A step that changes no more than the queue, the timers and whether the  *)
(* program has crashed.                                                    *)
LEMMA QueueKeeps ==
    ASSUME Inv, queue' \in Seq(Handlers), crashed' \in BOOLEAN,
           timers' \subseteq {"failover", "submithr", "reconnect"},
           UNCHANGED <<connections, uris, m_activeConnectionIdx, m_connectionAttempt, m_running,
                       m_stopping, m_async_pending, client, m_currentWp, farm, main>>,
           FailoverIsPending', NeverStranded'
    PROVE  Inv'
<1>1. ClientTypes' BY DEF Inv, ClientTypes
<1>2. ListTypes' /\ StopInv' /\ HeldInv' /\ EpochInv' BY DEF Inv, ListTypes, StopInv, HeldInv, EpochInv
<1>3. SessionInv' /\ WorkInv' /\ MinersRunInSession'
  BY DEF Inv, SessionInv, WorkInv, Pledged, MinersRunInSession, InSession, IsFamily
<1> QED BY <1>1, <1>2, <1>3 DEF Inv

(* A rotation to the next pool keeps the invariant.                        *)
LEMMA RotateKeeps == ASSUME Inv, rotateConnect PROVE Inv'
<1>0. /\ ClientTypes /\ ListTypes /\ queue \in Seq(Handlers) /\ queue # <<>>
      /\ Head(queue) = "rotateConnect" /\ main # "done" /\ ~crashed
      /\ queue' = Tail(queue) /\ UNCHANGED main
  BY DEF Inv, ClientTypes, rotateConnect, Runs, IoRuns
<1>1. /\ queue' \in Seq(Handlers)
      /\ \A h : Posted(h) /\ h # "rotateConnect" => Posted(h)'
  BY <1>0, Popping DEF Posted
<1> DEFINE stays == /\ isConnected \/ crashed'
                    /\ crashed' \in BOOLEAN
                    /\ UNCHANGED <<pool, flags, client, m_currentWp, farm, timers>>
<1>2. CASE stays
  <2>1. UNCHANGED <<connections, uris, m_activeConnectionIdx, m_connectionAttempt, m_running,
                    m_stopping, m_async_pending, client, m_currentWp, farm, timers>>
    BY <1>2 DEF pool, flags
  <2>2. FailoverIsPending' BY <1>1, <2>1 DEF Inv, FailoverIsPending, InSession
  <2>3. NeverStranded' BY <1>2, <2>1 DEF NeverStranded, isConnected
  <2>4. timers' \subseteq {"failover", "submithr", "reconnect"} BY <1>0, <2>1 DEF ClientTypes
  <2> QED BY <1>0, <1>1, <1>2, <2>1, <2>2, <2>3, <2>4, QueueKeeps
<1> DEFINE sel == Selected
           goes == sel.list # <<>> /\ sel.list[sel.idx + 1] \notin ExitPools
           moves ==
           /\ ~isConnected /\ connections # <<>> /\ client.st \notin {"dialing", "shutdown"}
           /\ connections' = sel.list /\ m_activeConnectionIdx' = sel.idx
           /\ \/ /\ ~goes
                 /\ farm' = FarmStop(farm)
                 /\ m_running' = FALSE
                 /\ m_connectionAttempt' = sel.attempt
                 /\ UNCHANGED <<client, m_currentWp, timers, m_async_pending>>
              \/ /\ goes
                 /\ client' = [conn |-> sel.list[sel.idx + 1], responds |-> FALSE, thread |-> FALSE, st |-> "fresh"]
                 /\ m_connectionAttempt' = sel.attempt + 1
                 /\ timers' = timers \union {"reconnect"}
                 /\ UNCHANGED <<m_currentWp, farm, m_running, m_async_pending>>
              \/ /\ goes
                 /\ connect(sel.list[sel.idx + 1], sel.idx, sel.attempt + 1)
                 /\ UNCHANGED m_running
           /\ UNCHANGED <<uris, m_stopping, crashed>>
<1>3. CASE moves
  <2>1. /\ sel.list \in Seq(Pools) /\ sel.idx \in Nat /\ sel.attempt \in Nat
        /\ goes => sel.list[sel.idx + 1] \in Pools
    BY <1>0, <1>3, SelectedIsListed
  <2> HIDE DEF sel, goes
  <2>2. client.st \in {"none", "fresh", "closed"} BY <1>0, <1>3 DEF ClientTypes, Clients, isConnected
  <2>3. ~Pledged BY <1>0, <2>2 DEF Inv, WorkInv
  <2>4. /\ m_stopping' \in BOOLEAN /\ StopInv'
        /\ main' \in {"serving", "stop", "flagged", "test", "disconnect",
                      "waiting", "cancel", "stopFarm", "done"}
    BY <1>0, <1>3 DEF Inv, ListTypes, StopInv
  <2>5. CASE /\ farm' = FarmStop(farm)
             /\ m_running' = FALSE
             /\ m_connectionAttempt' = sel.attempt
             /\ UNCHANGED <<client, m_currentWp, timers, m_async_pending>>
    <3>1. farm' \in Farms /\ ~farm'.work /\ HeldInv'
      BY Zenon, <1>0, <2>5 DEF Inv, ClientTypes, Farms, FarmStop, HeldInv
    <3>2. ClientTypes' BY Zenon, <1>0, <1>1, <1>3, <2>5, <3>1 DEF ClientTypes
    <3>3. ListTypes' BY <1>3, <2>1, <2>4, <2>5 DEF ListTypes
    <3>4. EpochInv' BY <2>5 DEF Inv, EpochInv
    <3>5. WorkInv' BY <2>3, <2>5, <3>1 DEF WorkInv, Pledged
    <3>6. SessionInv' /\ MinersRunInSession' /\ FailoverIsPending' /\ NeverStranded'
      BY <2>2, <2>5 DEF SessionInv, MinersRunInSession, FailoverIsPending, InSession, NeverStranded
    <3> QED BY <2>4, <3>1, <3>2, <3>3, <3>4, <3>5, <3>6 DEF Inv
  <2>6. CASE /\ goes
             /\ client' = [conn |-> sel.list[sel.idx + 1], responds |-> FALSE, thread |-> FALSE, st |-> "fresh"]
             /\ m_connectionAttempt' = sel.attempt + 1
             /\ timers' = timers \union {"reconnect"}
             /\ UNCHANGED <<m_currentWp, farm, m_running, m_async_pending>>
    <3>1. client' \in Clients /\ client'.st = "fresh" BY <2>1, <2>6 DEF Clients
    <3>2. ClientTypes'
      <4>1. timers' \subseteq {"failover", "submithr", "reconnect"} BY <1>0, <2>6 DEF ClientTypes
      <4>2. UNCHANGED <<uris, m_running, m_async_pending, crashed, m_currentWp, farm>> BY <1>3, <2>6
      <4> QED BY <1>0, <1>1, <3>1, <4>1, <4>2 DEF ClientTypes
    <3>3. ListTypes' BY <1>3, <2>1, <2>4, <2>6 DEF ListTypes
    <3>4. EpochInv' /\ HeldInv' BY <2>6 DEF Inv, EpochInv, HeldInv
    <3>5. WorkInv' BY <2>3, <2>6 DEF WorkInv, Pledged
    <3>6. SessionInv' /\ MinersRunInSession' /\ FailoverIsPending'
      BY <3>1 DEF SessionInv, MinersRunInSession, FailoverIsPending, InSession
    <3>7. NeverStranded' BY <2>6, <3>1 DEF NeverStranded
    <3> QED BY <2>4, <3>2, <3>3, <3>4, <3>5, <3>6, <3>7 DEF Inv
  <2>7. CASE /\ goes
             /\ connect(sel.list[sel.idx + 1], sel.idx, sel.attempt + 1)
             /\ UNCHANGED m_running
    <3>1. sel.attempt + 1 \in Nat BY <2>1
    <3> QED BY <1>0, <1>1, <1>3, <2>1, <2>2, <2>7, <3>1, ConnectKeeps
  <2> QED BY Zenon, <1>3, <2>5, <2>6, <2>7
<1>4. stays \/ moves
  <2>1. crashed \in BOOLEAN BY <1>0 DEF ClientTypes
  <2>2. CASE isConnected /\ UNCHANGED <<pool, flags, client, m_currentWp, farm, timers, crashed>>
    BY Zenon, <2>1, <2>2
  <2>3. CASE crashed' = TRUE /\ UNCHANGED <<pool, flags, client, m_currentWp, farm, timers>>
    BY <2>3
  <2> HIDE DEF stays
  <2>4. CASE ~(<2>2!1 \/ <2>3!1) BY Zenon, <2>4 DEF rotateConnect
  <2> QED BY Zenon, <2>2, <2>3, <2>4
<1> QED BY Zenon, <1>2, <1>3, <1>4

(* The other handlers of the queue keep the invariant.                     *)
LEMMA HandlerSteps ==
    ASSUME Inv, \/ failovertimer_elapsed \/ submithrtimer_elapsed \/ reconnecttimer_elapsed
                \/ PostedDisconnect \/ onMinerRestart
    PROVE  Inv'
<1>0. /\ ClientTypes /\ ListTypes /\ HeldInv /\ WorkInv /\ StopInv
      /\ m_stopping \in BOOLEAN /\ m_async_pending \in BOOLEAN /\ crashed \in BOOLEAN
      /\ queue \in Seq(Handlers) /\ queue # <<>> /\ main # "done" /\ ~crashed
      /\ Head(queue) # "rotateConnect" /\ UNCHANGED main
      /\ timers \subseteq {"failover", "submithr", "reconnect"}
  BY DEF Inv, ClientTypes, ListTypes, Runs, IoRuns, failovertimer_elapsed, submithrtimer_elapsed,
         reconnecttimer_elapsed, PostedDisconnect, onMinerRestart
<1>1. /\ Tail(queue) \in Seq(Handlers)
      /\ \A h : Posted(h) /\ h # Head(queue) => h \in Range(Tail(queue))
  BY <1>0, Popping DEF Posted
<1>2. CASE failovertimer_elapsed
  <2>0. Head(queue) = "failover" BY <1>2 DEF failovertimer_elapsed, Runs
  <2>1. CASE /\ m_activeConnectionIdx' = 0 /\ m_connectionAttempt' = 0
             /\ disconnect(Tail(queue), m_async_pending)
             /\ UNCHANGED <<connections, m_stopping>>
    <3>1. Leaves(Tail(queue)) BY Zenon, <1>0, <1>1, <2>1, DisconnectLeaves
    <3>2. ListTypes' /\ StopInv' BY <1>0, <2>1 DEF ListTypes, StopInv
    <3> QED BY <1>0, <2>1, <3>1, <3>2, LeavingKeeps
  <2>2. CASE /\ ~(m_running /\ m_activeConnectionIdx # 0)
             /\ queue' = Tail(queue)
             /\ UNCHANGED <<pool, flags, client, m_currentWp, farm, timers, crashed>>
    <3>1. UNCHANGED <<connections, uris, m_activeConnectionIdx, m_connectionAttempt, m_running,
                      m_stopping, m_async_pending, client, m_currentWp, farm, timers, main, crashed>>
      BY <1>0, <2>2 DEF pool, flags
    <3>2. FailoverIsPending' BY <2>2, <3>1 DEF FailoverIsPending
    <3>3. NeverStranded' BY <1>0, <1>1, <2>0, <2>2, <3>1 DEF Inv, NeverStranded, Posted
    <3> QED BY <1>0, <1>1, <2>2, <3>1, <3>2, <3>3, QueueKeeps
  <2> QED BY <1>2, <2>1, <2>2 DEF failovertimer_elapsed
<1>3. CASE submithrtimer_elapsed
  <2>1. /\ Head(queue) = "submithr" /\ queue' = Tail(queue)
        /\ timers' = IF m_running THEN timers \union {"submithr"} ELSE timers
        /\ UNCHANGED <<connections, uris, m_activeConnectionIdx, m_connectionAttempt, m_running,
                       m_stopping, m_async_pending, client, m_currentWp, farm, main, crashed>>
    BY <1>3 DEF submithrtimer_elapsed, Runs, pool, flags
  <2>2. timers' \subseteq {"failover", "submithr", "reconnect"} /\ timers \subseteq timers'
    BY <1>0, <2>1
  <2>3. FailoverIsPending' BY <1>1, <2>1, <2>2 DEF Inv, FailoverIsPending, InSession, Posted
  <2>4. NeverStranded' BY <1>1, <2>1, <2>2 DEF Inv, NeverStranded, Posted
  <2> QED BY <1>0, <1>1, <2>1, <2>2, <2>3, <2>4, QueueKeeps
<1>4. CASE reconnecttimer_elapsed
  <2>1. /\ Head(queue) = "reconnect" /\ queue' = Tail(queue)
        /\ UNCHANGED <<connections, uris, m_activeConnectionIdx, m_running, m_stopping, main, crashed>>
    BY <1>4 DEF reconnecttimer_elapsed, Runs
  <2>2. CASE /\ client.st = "fresh"
             /\ connect(client.conn, m_activeConnectionIdx, m_connectionAttempt)
    <3>1. client.conn \in Pools BY <1>0 DEF ClientTypes, Clients
    <3>2. /\ m_activeConnectionIdx \in Nat /\ m_connectionAttempt \in Nat
          /\ m_activeConnectionIdx' = m_activeConnectionIdx /\ connections' \in Seq(Pools)
      BY <1>0, <2>1 DEF ListTypes
    <3> QED BY <1>0, <1>1, <2>1, <2>2, <3>1, <3>2, ConnectKeeps
  <2>3. CASE /\ ~(m_running /\ client.st = "fresh")
             /\ UNCHANGED <<client, m_connectionAttempt, m_currentWp, timers, farm, m_async_pending>>
    <3>1. FailoverIsPending' BY <1>1, <2>1, <2>3 DEF Inv, FailoverIsPending, InSession, Posted
    <3>2. NeverStranded' BY <1>1, <2>1, <2>3 DEF Inv, NeverStranded, Posted
    <3> QED BY <1>0, <1>1, <2>1, <2>3, <3>1, <3>2, QueueKeeps
  <2> QED BY <1>4, <2>2, <2>3 DEF reconnecttimer_elapsed
<1>5. CASE PostedDisconnect
  <2>1. /\ disconnect(Tail(queue), m_async_pending)
        /\ UNCHANGED <<connections, m_activeConnectionIdx, m_connectionAttempt, m_stopping, main>>
    BY <1>5 DEF PostedDisconnect
  <2>2. Leaves(Tail(queue)) BY Zenon, <1>0, <1>1, <2>1, DisconnectLeaves
  <2>3. ListTypes' /\ StopInv' BY <1>0, <2>1 DEF ListTypes, StopInv
  <2> QED BY <1>0, <2>1, <2>2, <2>3, LeavingKeeps
<1>6. CASE onMinerRestart
  <2>1. /\ Head(queue) = "restart" /\ queue' = Tail(queue)
        /\ farm' = FarmStart(FarmStop(farm))
        /\ UNCHANGED <<connections, uris, m_activeConnectionIdx, m_connectionAttempt, m_running,
                       m_stopping, m_async_pending, client, m_currentWp, timers, main, crashed>>
    BY <1>6 DEF onMinerRestart, Runs, pool, flags
  <2>2. farm' \in Farms /\ farm'.mining /\ ~farm'.held /\ ~farm'.work
    BY Zenon, <1>0, <2>1 DEF ClientTypes, Farms, FarmStart, FarmStop
  <2>3. ClientTypes' BY <1>0, <1>1, <2>1, <2>2 DEF ClientTypes
  <2>4. ListTypes' /\ StopInv' /\ EpochInv' BY <2>1 DEF Inv, ListTypes, StopInv, EpochInv
  <2>5. HeldInv' /\ MinersRunInSession' BY <2>2 DEF HeldInv, MinersRunInSession
  <2>6. SessionInv' /\ WorkInv' BY <2>1, <2>2 DEF Inv, SessionInv, WorkInv, Pledged, InSession, IsFamily
  <2>7. FailoverIsPending' BY <1>1, <2>1 DEF Inv, FailoverIsPending, InSession, Posted
  <2>8. NeverStranded' BY <1>1, <2>1 DEF Inv, NeverStranded, Posted
  <2> QED BY <2>3, <2>4, <2>5, <2>6, <2>7, <2>8 DEF Inv
<1> QED BY <1>2, <1>3, <1>4, <1>5, <1>6

(* The expiry of a timer, which posts its handler, keeps the invariant.    *)
LEMMA TimerSteps == ASSUME Inv, NEW t \in timers, TimerExpires(t) PROVE Inv'
<1>0. /\ queue \in Seq(Handlers) /\ crashed \in BOOLEAN
      /\ timers \subseteq {"failover", "submithr", "reconnect"}
  BY DEF Inv, ClientTypes
<1>1. /\ timers' = timers \ {t} /\ queue' = Append(queue, t)
      /\ UNCHANGED <<connections, uris, m_activeConnectionIdx, m_connectionAttempt, m_running,
                     m_stopping, m_async_pending, client, m_currentWp, farm, main, crashed>>
  BY DEF TimerExpires, pool, flags
<1>2. t \in Handlers BY <1>0 DEF Handlers
<1>3. queue' \in Seq(Handlers) /\ Range(queue') = Range(queue) \union {t} BY <1>0, <1>1, <1>2, Posting
<1>4. \A h : h \in timers \/ Posted(h) => (h \in timers \/ Posted(h))' BY <1>1, <1>3 DEF Posted
<1>5. FailoverIsPending' BY <1>1, <1>4 DEF Inv, FailoverIsPending, InSession
<1>6. NeverStranded' BY <1>1, <1>3, <1>4 DEF Inv, NeverStranded, Posted
<1> QED BY <1>0, <1>1, <1>3, <1>5, <1>6, QueueKeeps

(* The API's calls that change the list or restart the miners keep the     *)
(* invariant.                                                              *)
LEMMA ApiSteps ==
    ASSUME Inv, \/ \E p \in Pools : addConnection(p)
                \/ \E idx \in 0..(MaxConns - 1) : removeConnection(idx) \/ setActiveConnection(idx)
                \/ restart_async
    PROVE  Inv'
<1>0. /\ ClientTypes /\ ListTypes /\ HeldInv /\ WorkInv /\ StopInv
      /\ m_stopping \in BOOLEAN /\ crashed \in BOOLEAN /\ queue \in Seq(Handlers)
      /\ timers \subseteq {"failover", "submithr", "reconnect"}
      /\ uris \in [Pools -> Uris] /\ client.conn \in Pools
      /\ connections \in Seq(Pools) /\ m_activeConnectionIdx \in Nat
  BY DEF Inv, ClientTypes, ListTypes, Clients
<1>1. ASSUME NEW p \in Pools, addConnection(p) PROVE Inv'
  <2>1. /\ p # client.conn
        /\ connections' = Append(connections, p)
        /\ uris' = [uris EXCEPT ![p] = NewUri]
        /\ UNCHANGED <<m_activeConnectionIdx, m_connectionAttempt, m_running, m_stopping,
                       m_async_pending, client, m_currentWp, farm, timers, queue, main, crashed>>
    BY <1>1 DEF addConnection, flags
  <2>2. NewUri \in Uris BY DEF NewUri, Uris, Unset
  <2>3. uris' \in [Pools -> Uris] /\ uris'[client.conn] = uris[client.conn] BY <1>0, <2>1, <2>2
  <2>4. connections' \in Seq(Pools) BY <1>0, <2>1
  <2>5. ClientTypes' /\ ListTypes' BY <1>0, <2>1, <2>3, <2>4 DEF ClientTypes, ListTypes
  <2>6. StopInv' /\ HeldInv' /\ EpochInv' BY <2>1 DEF Inv, StopInv, HeldInv, EpochInv
  <2>7. SessionInv' /\ WorkInv' BY <2>1, <2>3 DEF Inv, SessionInv, WorkInv, Pledged, InSession, IsFamily
  <2>8. MinersRunInSession' /\ FailoverIsPending' /\ NeverStranded'
    BY <2>1 DEF Inv, MinersRunInSession, FailoverIsPending, NeverStranded, InSession, Posted
  <2> QED BY <2>5, <2>6, <2>7, <2>8 DEF Inv
<1>2. ASSUME NEW idx \in 0..(MaxConns - 1), removeConnection(idx) PROVE Inv'
  <2>1. /\ idx < Len(connections) /\ connections' = erase(connections, idx)
        /\ m_activeConnectionIdx' = ShiftedIdx(idx)
        /\ UNCHANGED <<uris, m_connectionAttempt, m_running, m_stopping, m_async_pending, client,
                       m_currentWp, farm, timers, queue, main, crashed>>
    BY <1>2 DEF removeConnection, flags
  <2>2. connections' \in Seq(Pools)
    <3>1. idx \in 0..(Len(connections) - 1) BY <1>0, <2>1, SettingsAssumption
    <3> QED BY <1>0, <2>1, <3>1, Erasing
  <2>3. m_activeConnectionIdx' \in Nat /\ (m_activeConnectionIdx' # 0 => m_activeConnectionIdx # 0)
    BY <1>0, <2>1, SettingsAssumption DEF ShiftedIdx
  <2>4. ClientTypes' /\ ListTypes' BY <1>0, <2>1, <2>2, <2>3 DEF ClientTypes, ListTypes
  <2>5. StopInv' /\ HeldInv' /\ EpochInv' BY <2>1 DEF Inv, StopInv, HeldInv, EpochInv
  <2>6. SessionInv' /\ WorkInv' BY <2>1 DEF Inv, SessionInv, WorkInv, Pledged, InSession, IsFamily
  <2>7. MinersRunInSession' /\ NeverStranded'
    BY <2>1 DEF Inv, MinersRunInSession, NeverStranded, InSession, Posted
  <2>8. FailoverIsPending' BY <2>1, <2>3 DEF Inv, FailoverIsPending, InSession, Posted
  <2> QED BY <2>4, <2>5, <2>6, <2>7, <2>8 DEF Inv
<1>3. ASSUME NEW idx \in 0..(MaxConns - 1), setActiveConnection(idx) PROVE Inv'
  <2>1. /\ m_activeConnectionIdx' = idx /\ m_connectionAttempt' = 0
        /\ disconnect(queue, TRUE) /\ main # "done"
        /\ UNCHANGED <<connections, m_stopping, main>>
    BY Zenon, <1>3 DEF setActiveConnection, ApiRuns, IoRuns
  <2>2. Leaves(queue) BY Zenon, <1>0, <2>1, DisconnectLeaves
  <2>3. idx \in Nat BY SettingsAssumption
  <2>4. ListTypes' /\ StopInv' BY <1>0, <2>1, <2>3 DEF ListTypes, StopInv
  <2> QED BY <2>1, <2>2, <2>4, LeavingKeeps
<1>4. CASE restart_async
  <2>1. /\ queue' = Append(queue, "restart")
        /\ UNCHANGED <<connections, uris, m_activeConnectionIdx, m_connectionAttempt, m_running,
                       m_stopping, m_async_pending, client, m_currentWp, farm, timers, main, crashed>>
    BY <1>4 DEF restart_async, pool, flags
  <2>2. "restart" \in Handlers BY DEF Handlers
  <2>3. queue' \in Seq(Handlers) /\ Range(queue) \subseteq Range(queue') BY <1>0, <2>1, <2>2, Posting
  <2>4. FailoverIsPending' BY <2>1, <2>3 DEF Inv, FailoverIsPending, InSession, Posted
  <2>5. NeverStranded' BY <2>1, <2>3 DEF Inv, NeverStranded, Posted
  <2> QED BY <1>0, <2>1, <2>3, <2>4, <2>5, QueueKeeps
<1> QED BY <1>1, <1>2, <1>3, <1>4

(* Steps of the main thread that leave the client's state alone.           *)
LEMMA MainKeeps ==
    ASSUME Inv, main # "done", main' # "serving", ListTypes', StopInv', m_async_pending' \in BOOLEAN,
           timers' \subseteq timers, timers' = timers \/ m_stopping',
           UNCHANGED <<uris, m_activeConnectionIdx, m_running, client, m_currentWp, queue, crashed>>,
           farm' = farm \/ (farm' = FarmStop(farm) /\ m_stopping'),
           m_stopping => m_stopping'
    PROVE  Inv'
<1>1. /\ farm' \in Farms /\ farm'.held = farm.held /\ farm'.paused = farm.paused
      /\ farm'.work => farm.work
  BY Zenon DEF Inv, ClientTypes, Farms, FarmStop
<1>2. ClientTypes' BY <1>1 DEF Inv, ClientTypes
<1>3. HeldInv' /\ EpochInv' BY <1>1 DEF Inv, HeldInv, EpochInv
<1>4. SessionInv' /\ WorkInv' BY <1>1 DEF Inv, SessionInv, WorkInv, Pledged, InSession, IsFamily
<1>5. MinersRunInSession' BY DEF Inv, MinersRunInSession, InSession
<1>6. FailoverIsPending' BY DEF Inv, FailoverIsPending, InSession, Posted
<1>7. NeverStranded' BY DEF NeverStranded
<1> QED BY <1>2, <1>3, <1>4, <1>5, <1>6, <1>7 DEF Inv

(* The signal handler and the main thread's steps keep the invariant.      *)
LEMMA MainSteps == ASSUME Inv, Interrupt \/ MainStep PROVE Inv'
<1>0. /\ ClientTypes /\ ListTypes /\ HeldInv /\ WorkInv /\ StopInv
      /\ m_stopping \in BOOLEAN /\ m_async_pending \in BOOLEAN /\ queue \in Seq(Handlers)
      /\ client \in Clients
  BY DEF Inv, ClientTypes, ListTypes
<1>1. CASE Interrupt \/ TestConnected
  <2>1. /\ \/ main = "serving" /\ main' \in {"stop", "done"}
           \/ main = "test" /\ main' \in {"disconnect", "cancel"}
        /\ UNCHANGED <<connections, uris, m_activeConnectionIdx, m_connectionAttempt, m_running,
                       m_stopping, m_async_pending, client, m_currentWp, farm, timers, queue, crashed>>
    BY <1>1 DEF Interrupt, TestConnected, At, pool, flags
  <2>2. ListTypes' BY <1>0, <2>1 DEF ListTypes
  <2>3. StopInv' BY <1>0, <2>1 DEF StopInv
  <2> QED BY <1>0, <2>1, <2>2, <2>3, MainKeeps
<1>2. CASE StoreAsyncPending
  <2>1. /\ main = "stop" /\ main' = "flagged" /\ m_async_pending' = TRUE
        /\ UNCHANGED <<connections, uris, m_activeConnectionIdx, m_connectionAttempt, m_running,
                       m_stopping, client, m_currentWp, farm, timers, queue, crashed>>
    BY <1>2 DEF StoreAsyncPending, At, pool
  <2>2. ListTypes' /\ StopInv' BY <1>0, <2>1 DEF ListTypes, StopInv
  <2> QED BY <1>0, <2>1, <2>2, MainKeeps
<1>3. CASE StoreStopping
  <2>1. /\ main = "flagged" /\ main' = "test" /\ m_stopping' = TRUE
        /\ UNCHANGED <<connections, uris, m_activeConnectionIdx, m_connectionAttempt, m_running,
                       m_async_pending, client, m_currentWp, farm, timers, queue, crashed>>
    BY <1>3 DEF StoreStopping, At, pool
  <2>2. ListTypes' /\ StopInv' BY <1>0, <2>1 DEF ListTypes, StopInv
  <2> QED BY <1>0, <2>1, <2>2, MainKeeps
<1>4. CASE StopDisconnects
  <2>1. /\ main = "disconnect" /\ main' = "waiting" /\ disconnect(queue, m_async_pending)
        /\ UNCHANGED <<connections, m_activeConnectionIdx, m_connectionAttempt, m_stopping>>
    BY <1>4 DEF StopDisconnects, At
  <2>2. Leaves(queue) BY <1>0, <2>1, DisconnectLeaves
  <2>3. ListTypes' /\ StopInv' BY <1>0, <2>1 DEF ListTypes, StopInv
  <2> QED BY <2>1, <2>2, <2>3, LeavingKeeps
<1>5. CASE WaitEnds
  <2>1. /\ main = "waiting" /\ main' = "done" /\ client' = [client EXCEPT !.st = "none"]
        /\ UNCHANGED <<connections, uris, m_activeConnectionIdx, m_connectionAttempt, m_running,
                       m_stopping, m_async_pending, m_currentWp, farm, timers, queue, crashed>>
    BY <1>5 DEF WaitEnds, At, pool, flags
  <2>2. client' \in Clients /\ client'.st = "none" BY <1>0, <2>1 DEF Clients
  <2>3. ClientTypes' BY <1>0, <2>1, <2>2 DEF ClientTypes
  <2>4. ListTypes' /\ StopInv' /\ HeldInv' /\ EpochInv'
    BY <1>0, <2>1 DEF Inv, ListTypes, StopInv, HeldInv, EpochInv
  <2>5. SessionInv' /\ WorkInv' /\ MinersRunInSession' /\ FailoverIsPending' /\ NeverStranded'
    BY <2>1, <2>2 DEF SessionInv, WorkInv, MinersRunInSession, FailoverIsPending, NeverStranded, InSession
  <2> QED BY <2>3, <2>4, <2>5 DEF Inv
<1>6. CASE StopCancels
  <2>1. /\ main = "cancel" /\ main' = "stopFarm" /\ timers' = {} /\ m_stopping
        /\ UNCHANGED <<connections, uris, m_activeConnectionIdx, m_connectionAttempt, m_running,
                       m_stopping, m_async_pending, client, m_currentWp, farm, queue, crashed>>
    BY <1>0, <1>6 DEF StopCancels, At, pool, flags, StopInv
  <2>2. ListTypes' /\ StopInv' BY <1>0, <2>1 DEF ListTypes, StopInv
  <2> QED BY <1>0, <2>1, <2>2, MainKeeps
<1>7. CASE StopStopsFarm
  <2>1. /\ main = "stopFarm" /\ main' = "done" /\ farm' = FarmStop(farm) /\ m_stopping
        /\ UNCHANGED <<connections, uris, m_activeConnectionIdx, m_connectionAttempt, m_running,
                       m_stopping, m_async_pending, client, m_currentWp, timers, queue, crashed>>
    BY <1>0, <1>7 DEF StopStopsFarm, At, pool, flags, StopInv
  <2>2. ListTypes' /\ StopInv' BY <1>0, <2>1 DEF ListTypes, StopInv
  <2> QED BY <1>0, <2>1, <2>2, MainKeeps
<1> QED BY <1>1, <1>2, <1>3, <1>4, <1>5, <1>6, <1>7 DEF MainStep

-----------------------------------------------------------------------------
(* The invariant holds at the start.                                       *)
LEMMA InitHolds == Init => Inv
<1> SUFFICES ASSUME Init PROVE Inv OBVIOUS
<1>1. InitConns \in Seq(Pools) /\ InitConns[1] \in Pools BY PoolsAssumption
<1>2. "rotateConnect" \in Handlers BY DEF Handlers
<1>3. queue \in Seq(Handlers) /\ Range(queue) = {"rotateConnect"}
  <2>1. queue = Append(<<>>, "rotateConnect") BY DEF Init
  <2>2. <<>> \in Seq(Handlers) /\ Range(<<>>) = {} BY DEF Range
  <2> QED BY Zenon, <1>2, <2>1, <2>2, Posting
<1>4. client \in Clients /\ client.st = "none" BY <1>1 DEF Init, Clients
<1>5. m_currentWp \in Packages /\ farm \in Farms BY DEF Init, Packages, Farms, NoSeed
<1>6. NewUri \in Uris BY DEF NewUri, Uris, Unset
<1>7. uris \in [Pools -> Uris] BY <1>6 DEF Init
<1>8. ClientTypes BY Zenon, <1>3, <1>4, <1>5, <1>7 DEF Init, ClientTypes
<1>9. ListTypes /\ StopInv /\ HeldInv /\ EpochInv /\ WorkInv
  BY Zenon, <1>1 DEF Init, ListTypes, StopInv, HeldInv, EpochInv, WorkInv, Pledged
<1>10. SessionInv /\ MinersRunInSession /\ FailoverIsPending /\ NeverStranded
  BY <1>3, <1>4 DEF SessionInv, MinersRunInSession, FailoverIsPending, NeverStranded, InSession, Posted
<1> QED BY <1>8, <1>9, <1>10 DEF Inv

(* Every step keeps the invariant.                                         *)
LEMMA StepHolds == Inv /\ [Next]_vars => Inv'
<1> SUFFICES ASSUME Inv, [Next]_vars PROVE Inv' OBVIOUS
<1>1. CASE DialStep \/ SessionStarts \/ LateLogin \/ PoolFails \/ GetworkFails \/ ShutdownEnds
  BY <1>1, ClientSteps
<1>2. CASE \E e \in Epochs : WorkReceived(e) \/ SimulatedWork(e) BY <1>2, WorkKeeps, SimulationKeeps
<1>3. CASE QueueStep BY <1>3, RotateKeeps, HandlerSteps DEF QueueStep
<1>4. CASE \E t \in timers : TimerExpires(t) BY <1>4, TimerSteps
<1>5. CASE \/ \E p \in Pools : addConnection(p)
           \/ \E idx \in 0..(MaxConns - 1) : removeConnection(idx) \/ setActiveConnection(idx)
           \/ restart_async
  BY <1>5, ApiSteps
<1>6. CASE Interrupt \/ MainStep BY <1>6, MainSteps
<1>7. CASE UNCHANGED vars
  <2>1. UNCHANGED <<connections, uris, m_activeConnectionIdx, m_connectionAttempt, m_running,
                    m_stopping, m_async_pending, client, m_currentWp, farm, timers, queue, main, crashed>>
    BY <1>7 DEF vars, pool, flags
  <2>2. FailoverIsPending' /\ NeverStranded'
    BY <2>1 DEF Inv, FailoverIsPending, NeverStranded, InSession, Posted
  <2>3. /\ queue' \in Seq(Handlers) /\ crashed' \in BOOLEAN
        /\ timers' \subseteq {"failover", "submithr", "reconnect"}
    BY <2>1 DEF Inv, ClientTypes
  <2> QED BY <2>1, <2>2, <2>3, QueueKeeps
<1> QED BY <1>1, <1>2, <1>3, <1>4, <1>5, <1>6, <1>7 DEF Next

(* The invariant holds in every reachable state.                           *)
LEMMA Invariance == Spec => []Inv
BY InitHolds, StepHolds, PTL DEF Spec

(* The invariant implies the type invariant.                               *)
LEMMA TypesHold == Inv => TypeOK
<1> SUFFICES ASSUME Inv PROVE TypeOK OBVIOUS
<1>1. {m_running, m_stopping, m_async_pending, crashed} \subseteq BOOLEAN
  BY DEF Inv, ClientTypes, ListTypes
<1> QED BY <1>1 DEF Inv, ClientTypes, ListTypes, TypeOK, Uris, Clients, Packages, Farms

(* Every handler, timer and API request of PoolManager.cpp keeps the types *)
(* of the manager's state; the active index never goes below zero.         *)
THEOREM ManagerTypes == Spec => []TypeOK
BY Invariance, TypesHold, PTL

(* While the manager runs it is connected, connecting, or the handler that *)
(* connects is posted or timed: whatever the pools, the retries and the    *)
(* API do, rotateConnect is never forgotten.                               *)
THEOREM ManagerGoesOn == Spec => []NeverStranded
<1>1. Inv => NeverStranded BY DEF Inv
<1> QED BY <1>1, Invariance, PTL

(* In every session the miners run and are not suspended: onConnected      *)
(* resumes them or starts them, also after a restart during a pause.       *)
THEOREM MinersRun == Spec => []MinersRunInSession
<1>1. Inv => MinersRunInSession BY DEF Inv
<1> QED BY <1>1, Invariance, PTL

(* onDisconnected takes the work of a lost session from the farm and from  *)
(* the manager, on every path by which a session is lost.                  *)
THEOREM WorkEnds == Spec => []WorkIsForSession
<1>1. Inv => WorkIsForSession BY DEF Inv, WorkInv, Pledged, WorkIsForSession
<1> QED BY <1>1, Invariance, PTL

(* A session with a pool other than the first has the failover timer armed *)
(* or elapsed, also after removeConnection has shifted the active index.   *)
THEOREM FailoverReturns == Spec => []FailoverIsPending
<1>1. Inv => FailoverIsPending BY DEF Inv
<1> QED BY <1>1, Invariance, PTL

(* onWorkReceived gives the farm the epoch of the job it received, in any  *)
(* sequence of jobs that carry their epoch, a block number or a seed.      *)
THEOREM EpochFollowsJob == Spec => EpochIsRight
<1>1. ASSUME Inv, NEW e \in Epochs, SimulatedWork(e) PROVE m_currentWp'.epoch = e \/ crashed'
  <2>1. IsFamily("simulation") /\ client.conn \in Pools
    BY <1>1 DEF SimulatedWork, Inv, ClientTypes, Clients
  <2>2. crashed' = TRUE \/ onWorkReceived(SimulatedJob, e) BY Zenon, <1>1 DEF SimulatedWork
  <2> QED BY <1>1, <2>1, <2>2, SimulationHasItsEpoch
<1>2. Inv /\ [Next]_vars => [\A e \in Epochs : WorkReceived(e) \/ SimulatedWork(e) =>
                                m_currentWp'.epoch = e \/ crashed']_vars
  BY <1>1, WorkHasItsEpoch
<1> QED BY <1>2, Invariance, PTL DEF Spec, EpochIsRight

-----------------------------------------------------------------------------
(***************************************************************************)
(* The list of pools and the client.  Whether the client is that of the    *)
(* active pool is not inductive by itself: the failover timer and the API  *)
(* move the index, and handlers that were posted or timers that elapsed    *)
(* before still run after the move.                                        *)
(***************************************************************************)

(* The client's pool is the one at the active index.                       *)
AtIndex == /\ m_activeConnectionIdx < Len(connections)
           /\ connections[m_activeConnectionIdx + 1] = client.conn

(* The client is in session, or closes a session and will tell.            *)
Attached == client.st = "session" \/ (client.st = "shutdown" /\ ~Detecting)

(* The client is, or will be, in session unless its pool fails.            *)
Seeking == \/ client.st \in {"dialing", "linked", "session"}
           \/ client.st = "fresh" /\ m_running
           \/ client.st = "shutdown" /\ Detecting

(* A failover that waits to run is followed by a rotation.                 *)
Followed(q) == \A i \in 1..Len(q) : q[i] = "failover" =>
                  \E j \in (i + 1)..Len(q) : q[j] = "rotateConnect"

(* When a rotation is posted, the client is closed or was made by an       *)
(* earlier rotation.                                                       *)
Rotating == Posted("rotateConnect") =>
               \/ client.st \in {"none", "closed", "fresh"}
               \/ client.st = "dialing" /\ ~client.responds
               \/ client.st = "session" /\ IsFamily("simulation")
               \/ client.st = "shutdown" /\ ~Detecting

FreshInv == client.st = "fresh" => ~client.responds

(* m_async_pending is reset, and the failover timer is armed, for a        *)
(* session only; the end of a session posts a rotation behind whatever     *)
(* failover is left.                                                       *)
ListInv == /\ FreshInv /\ Rotating
           /\ ~m_stopping => /\ ~m_async_pending => Attached
                             /\ "failover" \in timers => Attached
                             /\ Attached \/ Followed(queue)
                             /\ Seeking => AtIndex

-----------------------------------------------------------------------------

(* What is posted behind a failover, and what is run before it, leaves it  *)
(* followed.                                                               *)
LEMMA FollowedPosting ==
    ASSUME NEW q \in Seq(Handlers), NEW h \in Handlers
    PROVE  /\ Followed(Append(q, "rotateConnect"))
           /\ h # "failover" /\ Followed(q) => Followed(Append(q, h))
<1>1. ASSUME NEW x
      PROVE  /\ Len(Append(q, x)) = Len(q) + 1 /\ Len(q) \in Nat
             /\ \A i \in 1..Len(q) : Append(q, x)[i] = q[i]
             /\ Append(q, x)[Len(q) + 1] = x
  OBVIOUS
<1>2. Followed(Append(q, "rotateConnect"))
  <2> DEFINE p == Append(q, "rotateConnect")
  <2>1. Len(p) = Len(q) + 1 /\ Len(q) \in Nat /\ p[Len(q) + 1] = "rotateConnect" BY <1>1
  <2> HIDE DEF p
  <2>2. ASSUME NEW i \in 1..Len(p), p[i] = "failover"
        PROVE  \E j \in (i + 1)..Len(p) : p[j] = "rotateConnect"
    <3>1. Len(p) \in (i + 1)..Len(p) BY <2>1, <2>2
    <3> QED BY <2>1, <3>1
  <2> QED BY <2>2 DEF Followed, p
<1>3. ASSUME h # "failover", Followed(q) PROVE Followed(Append(q, h))
  <2> DEFINE p == Append(q, h)
  <2>1. Len(p) = Len(q) + 1 /\ Len(q) \in Nat /\ p[Len(q) + 1] = h
        /\ \A i \in 1..Len(q) : p[i] = q[i] BY <1>1
  <2> HIDE DEF p
  <2>2. ASSUME NEW i \in 1..Len(p), p[i] = "failover"
        PROVE  \E j \in (i + 1)..Len(p) : p[j] = "rotateConnect"
    <3>1. i \in 1..Len(q) /\ q[i] = "failover" BY <1>3, <2>1, <2>2
    <3>2. PICK j \in (i + 1)..Len(q) : q[j] = "rotateConnect" BY <1>3, <3>1 DEF Followed
    <3>3. j \in (i + 1)..Len(p) /\ p[j] = "rotateConnect" BY <2>1, <3>1, <3>2
    <3> QED BY <3>3
  <2> QED BY <2>2 DEF Followed, p
<1> QED BY <1>2, <1>3

(* Running a handler keeps every failover queued followed by a rotation.   *)
LEMMA FollowedPopping ==
    ASSUME NEW q \in Seq(Handlers), q # <<>>, Followed(q)
    PROVE  /\ Followed(Tail(q))
           /\ Head(q) = "failover" => "rotateConnect" \in Range(q)
<1>1. /\ Len(q) \in Nat /\ Len(q) > 0 /\ Len(Tail(q)) = Len(q) - 1
      /\ \A i \in 1..Len(Tail(q)) : Tail(q)[i] = q[i + 1]
      /\ Head(q) = q[1] /\ DOMAIN q = 1..Len(q)
  OBVIOUS
<1>2. Followed(Tail(q))
  <2> DEFINE p == Tail(q)
  <2> HIDE DEF p
  <2>1. ASSUME NEW i \in 1..Len(p), p[i] = "failover"
        PROVE  \E j \in (i + 1)..Len(p) : p[j] = "rotateConnect"
    <3>1. i + 1 \in 1..Len(q) /\ q[i + 1] = "failover" BY <1>1, <2>1 DEF p
    <3>2. PICK j \in ((i + 1) + 1)..Len(q) : q[j] = "rotateConnect" BY <3>1 DEF Followed
    <3>3. j - 1 \in (i + 1)..Len(p) /\ p[j - 1] = "rotateConnect" BY <1>1, <3>1, <3>2 DEF p
    <3> QED BY <3>3
  <2> QED BY <2>1 DEF Followed, p
<1>3. ASSUME Head(q) = "failover" PROVE "rotateConnect" \in Range(q)
  <2>1. 1 \in 1..Len(q) /\ q[1] = "failover" BY <1>1, <1>3
  <2>2. PICK j \in (1 + 1)..Len(q) : q[j] = "rotateConnect" BY <2>1 DEF Followed
  <2>3. j \in DOMAIN q BY <1>1, <2>2
  <2> QED BY <2>2, <2>3 DEF Range
<1> QED BY <1>2, <1>3

(* The entries that remain are in their order, one place earlier behind    *)
(* the one that is erased.                                                 *)
LEMMA ErasingShifts ==
    ASSUME NEW s \in Seq(Pools), NEW i \in 0..(Len(s) - 1), NEW k \in 0..(Len(s) - 1), k # i
    PROVE  erase(s, i)[(IF k > i THEN k - 1 ELSE k) + 1] = s[k + 1]
<1> DEFINE m == Len(s)
           before == SubSeq(s, 1, i)
           after == SubSeq(s, i + 2, m)
<1>0. m \in Nat /\ i \in Nat /\ i < m /\ k \in Nat /\ k < m /\ \A j \in 1..m : s[j] \in Pools OBVIOUS
<1>1. before \in Seq(Pools) /\ Len(before) = i /\ \A j \in 1..i : before[j] = s[j]
  <2>1. \A j \in 1..i : s[j] \in Pools BY <1>0
  <2> QED BY <2>1, <1>0
<1>2. CASE k < i
  <2>1. after \in Seq(Pools)
    <3>1. \A j \in (i + 2)..m : s[j] \in Pools BY <1>0
    <3>2. i + 2 \in Int /\ m \in Int BY <1>0
    <3> QED BY <3>1, <3>2
  <2>2. erase(s, i) = before \o after BY DEF erase
  <2> HIDE DEF m, before, after
  <2>3. k + 1 \in 1..Len(before) BY <1>0, <1>1, <1>2
  <2>4. (before \o after)[k + 1] = before[k + 1] BY <1>1, <2>1, <2>3
  <2>5. before[k + 1] = s[k + 1] BY <1>0, <1>1, <1>2
  <2>6. (IF k > i THEN k - 1 ELSE k) + 1 = k + 1 BY <1>0, <1>2
  <2> QED BY <2>2, <2>4, <2>5, <2>6, Zenon
<1>3. CASE k > i
  <2>1. after \in Seq(Pools) /\ Len(after) = m - (i + 2) + 1 /\ \A j \in 1..(m - i - 1) : after[j] = s[i + 1 + j]
    <3>1. \A j \in (i + 2)..m : s[j] \in Pools BY <1>0
    <3>2. i + 2 \in Int /\ m \in Int /\ i + 2 <= m BY <1>0, <1>3
    <3> QED BY <3>1, <3>2
  <2>2. erase(s, i) = before \o after BY DEF erase
  <2> HIDE DEF m, before, after
  <2> DEFINE d == k - i
  <2>3. d \in Nat /\ d \in 1..Len(after) /\ d \in 1..(m - i - 1) BY <1>0, <1>3, <2>1
  <2>4. after[d] = s[i + 1 + d] /\ i + 1 + d = k + 1 BY <1>0, <2>1, <2>3
  <2>5. (IF k > i THEN k - 1 ELSE k) + 1 = i + d BY <1>0, <1>3
  <2> HIDE DEF d
  <2>6. i + d \in 1..(i + Len(after)) /\ i + d > i /\ (i + d) - i = d /\ Len(after) \in Nat
    BY <1>0, <2>1, <2>3
  <2>7. (before \o after)[i + d] = after[d]
    <3>1. Len(before) = i /\ i + d \in 1..(Len(before) + Len(after)) /\ ~(i + d <= Len(before))
      BY <1>0, <1>1, <2>3, <2>6
    <3>2. (before \o after)[i + d] = after[(i + d) - Len(before)] BY <1>1, <2>1, <3>1
    <3> QED BY <2>6, <3>1, <3>2
  <2> QED BY <2>2, <2>4, <2>5, <2>7, Zenon
<1> QED BY <1>0, <1>2, <1>3

(* A session, and what has not reached a pool, does not look for flavours. *)
LEMMA NotDetecting ==
    ASSUME Inv, ListInv
    PROVE  /\ client.st = "session" => ~Detecting
           /\ client.st = "fresh" => ~Detecting
           /\ ~client.responds => ~Detecting
           /\ IsFamily("simulation") => ~Detecting
<1>1. client.st = "session" => ~Detecting BY DEF Inv, SessionInv, InSession, Detecting
<1>2. ~client.responds => ~Detecting BY Zenon DEF Detecting
<1>3. client.st = "fresh" => ~client.responds BY Zenon DEF ListInv, FreshInv
<1>4. IsFamily("simulation") => ~Detecting BY DEF IsFamily, Detecting
<1> QED BY Zenon, <1>1, <1>2, <1>3, <1>4

(* A step that does not change what the client does.                       *)
LEMMA QuietKeepsList ==
    ASSUME ListInv, client' = client, AtIndex => AtIndex', Attached => Attached', Seeking' => Seeking,
           m_stopping => m_stopping', m_async_pending => m_async_pending',
           "failover" \in timers' => "failover" \in timers,
           Posted("rotateConnect")' => Posted("rotateConnect"),
           ~m_stopping /\ Followed(queue) => Followed(queue') \/ Attached
    PROVE  ListInv'
<1>1. FreshInv' BY Zenon DEF ListInv, FreshInv
<1>2. IsFamily("simulation")' <=> IsFamily("simulation") BY Zenon DEF IsFamily
<1>3. client.st = "shutdown" /\ ~Detecting => ~Detecting' BY DEF Attached
<1>4. Rotating' BY Zenon, <1>2, <1>3 DEF ListInv, Rotating
<1> QED BY Zenon, <1>1, <1>4 DEF ListInv

(* onDisconnected leaves nothing to protect, and posts the rotation last.  *)
LEMMA EndKeepsList ==
    ASSUME Inv, NEW q \in Seq(Handlers), onDisconnected(q), m_stopping' = m_stopping
    PROVE  ListInv'
<1>1. client'.st = "closed" BY DEF onDisconnected, Inv, ClientTypes, Clients
<1>2. FreshInv' /\ Rotating' /\ ~Seeking' /\ "failover" \notin timers'
  BY <1>1 DEF FreshInv, Rotating, Seeking, onDisconnected
<1>3. CASE m_stopping BY Zenon, <1>2, <1>3 DEF ListInv
<1>4. CASE ~m_stopping
  <2>1. m_async_pending' /\ queue' = Append(q, "rotateConnect")
    BY Zenon, <1>4 DEF onDisconnected, PostRotate
  <2>2. "rotateConnect" \in Handlers BY DEF Handlers
  <2>3. Followed(queue') BY Zenon, <2>1, <2>2, FollowedPosting
  <2> QED BY Zenon, <1>2, <2>1, <2>3 DEF ListInv
<1> QED BY Zenon, <1>3, <1>4

(* The index may move under a client that is attached, or that no posted   *)
(* handler will find connected.                                            *)
Settled == \/ Attached
           \/ client.st \in {"none", "closed", "fresh"}
           \/ client.st = "dialing" /\ ~client.responds

(* The handlers a step leaves in the queue.                                *)
Remains(q) == /\ q \in Seq(Handlers)
              /\ Range(q) \subseteq Range(queue)
              /\ Followed(queue) => Followed(q)

(* disconnect_finalize dials for the next flavour or reports the end.      *)
LEMMA FinalizeKeepsList ==
    ASSUME Inv, ListInv, NEW q, Remains(q), disconnect_finalize(q),
           client.st \notin {"none", "closed"},
           m_stopping' = m_stopping, connections' = connections,
           m_activeConnectionIdx' = m_activeConnectionIdx \/ Settled \/ m_stopping
    PROVE  ListInv'
<1>1. CASE Detecting /\ uris[client.conn].mode > 0
  <2>1. /\ client' = [client EXCEPT !.st = "dialing"] /\ queue' = q
        /\ UNCHANGED <<timers, m_running, m_async_pending>>
    BY Zenon, <1>1 DEF disconnect_finalize
  <2>2. client'.st = "dialing" /\ client'.conn = client.conn
    BY <2>1 DEF Inv, ClientTypes, Clients
  <2>3. client.st \notin {"session", "fresh"} /\ client.responds /\ ~IsFamily("simulation")
    BY Zenon, <1>1, NotDetecting
  <2>4. ~Attached /\ ~Settled
    BY Zenon, <1>1, <2>3 DEF Attached, Settled
  <2>5. ~Posted("rotateConnect")
    BY Zenon, <1>1, <2>3 DEF ListInv, Rotating
  <2>6. ~Posted("rotateConnect")' BY <2>1, <2>5 DEF Posted, Remains
  <2>7. FreshInv' /\ Rotating' BY <2>2, <2>6 DEF FreshInv, Rotating
  <2>8. Seeking
    BY <1>1, <2>3 DEF Seeking, Inv, ClientTypes, Clients
  <2>9. AtIndex => AtIndex' \/ m_stopping BY <2>2, <2>4 DEF AtIndex
  <2>10. Followed(queue) => Followed(queue') BY Zenon, <2>1 DEF Remains
  <2> QED BY Zenon, <2>1, <2>4, <2>7, <2>8, <2>9, <2>10 DEF ListInv
<1>2. CASE ~(Detecting /\ uris[client.conn].mode > 0)
  <2>1. onDisconnected(q) BY Zenon, <1>2 DEF disconnect_finalize
  <2> QED BY Zenon, <2>1, EndKeepsList DEF Remains
<1> QED BY Zenon, <1>1, <1>2

(* So does disconnect, in its four cases.                                  *)
LEMMA DisconnectKeepsList ==
    ASSUME Inv, ListInv, NEW q, Remains(q), NEW a, m_async_pending => a, disconnect(q, a),
           m_stopping' = m_stopping, connections' = connections,
           m_activeConnectionIdx' = m_activeConnectionIdx \/ Settled \/ m_stopping
    PROVE  ListInv'
<1>1. CASE disconnect_finalize(q) /\ client.st \notin {"none", "closed"}
  BY Zenon, <1>1, FinalizeKeepsList
<1>2. CASE /\ client.st \in {"dialing", "linked", "session", "shutdown"}
           /\ client' = [client EXCEPT !.st = "shutdown"]
           /\ queue' = q
           /\ m_async_pending' = a
           /\ UNCHANGED <<uris, timers>>
  <2>1. client'.st = "shutdown" /\ client'.conn = client.conn /\ client'.responds = client.responds
    BY <1>2 DEF Inv, ClientTypes, Clients
  <2>2. Detecting' <=> Detecting BY Zenon, <1>2, <2>1 DEF Detecting, IsFamily
  <2>3. Attached => Attached' BY Zenon, <2>1, <2>2, NotDetecting DEF Attached
  <2>4. FreshInv' BY <2>1 DEF FreshInv
  <2>5. Rotating'
    <3>1. Posted("rotateConnect")' => Posted("rotateConnect") BY <1>2 DEF Posted, Remains
    <3>2. Posted("rotateConnect") => ~Detecting BY <1>2, NotDetecting DEF ListInv, Rotating
    <3> QED BY Zenon, <2>1, <2>2, <3>1, <3>2 DEF Rotating
  <2>6. Seeking' => AtIndex' \/ m_stopping
    <3> SUFFICES ASSUME Seeking', ~m_stopping PROVE AtIndex' BY Zenon
    <3>1. Detecting BY <2>1, <2>2 DEF Seeking
    <3>2. client.st \in {"dialing", "linked", "shutdown"} /\ client.responds
      BY Zenon, <1>2, <3>1, NotDetecting
    <3>3. Seeking BY <3>1, <3>2 DEF Seeking
    <3>4. ~Settled BY <3>1, <3>2 DEF Settled, Attached
    <3>5. AtIndex BY Zenon, <3>3 DEF ListInv
    <3> QED BY <2>1, <3>4, <3>5 DEF AtIndex
  <2>7. Followed(queue) => Followed(queue') BY Zenon, <1>2 DEF Remains
  <2> QED BY Zenon, <1>2, <2>3, <2>4, <2>5, <2>6, <2>7 DEF ListInv
<1>3. CASE onDisconnected(q) BY Zenon, <1>3, EndKeepsList DEF Remains
<1>4. CASE /\ client.st \in {"none", "closed"}
           /\ queue' = q
           /\ UNCHANGED <<uris, client, timers, m_running, m_async_pending>>
  <2>1. ~Attached /\ ~Attached' /\ ~Seeking' BY <1>4 DEF Attached, Seeking
  <2>2. FreshInv' /\ Rotating' BY <1>4 DEF FreshInv, Rotating
  <2>3. Followed(queue) => Followed(queue') BY Zenon, <1>4 DEF Remains
  <2> QED BY Zenon, <1>4, <2>1, <2>2, <2>3 DEF ListInv
<1> QED BY Zenon, <1>1, <1>2, <1>3, <1>4 DEF disconnect

(* The client's own events.                                                *)
LEMMA ClientStepsKeepList ==
    ASSUME Inv, ListInv,
           DialStep \/ SessionStarts \/ LateLogin \/ PoolFails \/ GetworkFails \/ ShutdownEnds
    PROVE  ListInv'
<1>0. /\ client \in Clients /\ queue \in Seq(Handlers) /\ uris \in [Pools -> Uris] /\ client.conn \in Pools
      /\ Remains(queue)
  BY DEF Inv, ClientTypes, Clients, Remains
<1>1. CASE Linked
  <2>1. /\ client.st = "dialing" /\ ~Posted("rotateConnect")
        /\ client' = [client EXCEPT !.st = "linked", !.responds = TRUE]
        /\ UNCHANGED <<connections, m_activeConnectionIdx, m_stopping, m_async_pending, timers, queue>>
    BY Zenon, <1>1 DEF Linked, Dialing, flags
  <2>2. client'.st = "linked" /\ client'.conn = client.conn BY <1>0, <2>1 DEF Clients
  <2>3. FreshInv' /\ Rotating' /\ ~Attached BY <2>1, <2>2 DEF FreshInv, Rotating, Posted, Attached
  <2>4. Seeking BY <2>1 DEF Seeking
  <2>5. AtIndex => AtIndex' BY <2>1, <2>2 DEF AtIndex
  <2> QED BY Zenon, <2>1, <2>3, <2>4, <2>5 DEF ListInv
<1>2. CASE DialFails \/ ShutdownEnds
  <2>1. /\ disconnect_finalize(queue) /\ client.st \in {"dialing", "shutdown"}
        /\ m_stopping' = m_stopping /\ connections' = connections
        /\ m_activeConnectionIdx' = m_activeConnectionIdx
    BY Zenon, <1>2 DEF DialFails, ShutdownEnds, Dialing
  <2>2. client.st \notin {"none", "closed"} BY <2>1
  <2> QED BY Zenon, <1>0, <2>1, <2>2, FinalizeKeepsList
<1>3. CASE SessionStarts
  <2>1. /\ onConnected(client.conn, m_activeConnectionIdx, "session")
        /\ client.st = "linked" \/ (client.st = "dialing" /\ ~Posted("rotateConnect"))
        /\ UNCHANGED <<connections, m_activeConnectionIdx, m_stopping, queue>>
    BY Zenon, <1>3 DEF SessionStarts, Dialing
  <2>2. client'.st = "session" /\ client'.conn = client.conn
    BY <2>1 DEF onConnected
  <2>3. ~Posted("rotateConnect")' BY <2>1 DEF ListInv, Rotating, Posted
  <2>4. FreshInv' /\ Rotating' /\ Attached' BY Zenon, <2>2, <2>3 DEF FreshInv, Rotating, Attached
  <2>5. Seeking BY <2>1 DEF Seeking
  <2>6. AtIndex => AtIndex' BY <2>1, <2>2 DEF AtIndex
  <2> QED BY Zenon, <2>1, <2>4, <2>5, <2>6 DEF ListInv
<1>4. CASE LateLogin
  <2>1. /\ onConnected(client.conn, m_activeConnectionIdx, "shutdown")
        /\ client.st = "shutdown" /\ Detecting
        /\ uris' = [uris EXCEPT ![client.conn].confirmed = TRUE]
        /\ UNCHANGED <<m_stopping, queue>>
    BY Zenon, <1>4 DEF LateLogin
  <2>2. client'.st = "shutdown" /\ client'.conn = client.conn BY <2>1 DEF onConnected
  <2>3. uris'[client.conn].confirmed BY <1>0, <2>1 DEF Uris
  <2>4. ~Detecting' BY Zenon, <2>2, <2>3 DEF Detecting
  <2>5. ~Posted("rotateConnect")
    <3>1. ~IsFamily("simulation") BY Zenon, <2>1, NotDetecting
    <3> QED BY <2>1, <3>1 DEF ListInv, Rotating
  <2>6. FreshInv' /\ Rotating' BY <2>1, <2>2, <2>5 DEF FreshInv, Rotating, Posted
  <2>7. Attached' /\ ~Seeking' BY <2>2, <2>4 DEF Attached, Seeking
  <2> QED BY Zenon, <2>1, <2>6, <2>7 DEF ListInv
<1>5. CASE PoolFails
  <2>1. /\ queue' = Append(queue, "disconnect") /\ client.st \in {"linked", "session"}
        /\ UNCHANGED <<connections, m_activeConnectionIdx, m_running, m_stopping, m_async_pending,
                       client, timers>>
    BY Zenon, <1>5 DEF PoolFails, isConnected, flags
  <2>2. "disconnect" \in Handlers /\ "disconnect" # "failover" BY DEF Handlers
  <2>3. /\ Posted("rotateConnect")' => Posted("rotateConnect")
        /\ Followed(queue) => Followed(queue')
    BY <1>0, <2>1, <2>2, Posting, FollowedPosting DEF Posted
  <2>4. (AtIndex => AtIndex') /\ (Attached => Attached') /\ (Seeking' => Seeking)
    BY <2>1 DEF AtIndex, Attached, Seeking
  <2> QED BY Zenon, <2>1, <2>3, <2>4, QuietKeepsList
<1>6. CASE GetworkFails
  <2>1. /\ disconnect(queue, m_async_pending)
        /\ UNCHANGED <<connections, m_activeConnectionIdx, m_stopping>>
    BY Zenon, <1>6 DEF GetworkFails
  <2> QED BY Zenon, <1>0, <2>1, DisconnectKeepsList
<1> QED BY Zenon, <1>1, <1>2, <1>3, <1>4, <1>5, <1>6 DEF DialStep

(* connect() of a client for the pool at the index with which it is        *)
(* called, the queue less the handler that calls.                          *)
LEMMA ConnectKeepsList ==
    ASSUME Inv, ListInv, NEW p \in Pools, NEW idx, NEW attempt, connect(p, idx, attempt), Remains(queue'),
           client.st \in {"none", "fresh", "closed"}, m_stopping' = m_stopping,
           \/ m_stopping
           \/ m_activeConnectionIdx' < Len(connections') /\ connections'[m_activeConnectionIdx' + 1] = p
    PROVE  ListInv'
<1>1. ~Attached BY DEF Attached
<1>2. CASE Family[p] = "simulation" /\ onConnected(p, idx, "session")
  <2>1. client'.st = "session" /\ client'.conn = p BY <1>2 DEF onConnected
  <2>2. FreshInv' /\ Attached' BY <2>1 DEF FreshInv, Attached
  <2>3. Rotating' /\ (AtIndex' \/ m_stopping) BY <1>2, <2>1 DEF Rotating, IsFamily, AtIndex
  <2> QED BY Zenon, <2>2, <2>3 DEF ListInv
<1>3. CASE /\ client' = [conn |-> p, responds |-> FALSE, thread |-> FALSE, st |-> "dialing"]
           /\ UNCHANGED <<timers, m_async_pending>>
  <2>1. client'.st = "dialing" /\ client'.conn = p /\ ~client'.responds BY <1>3
  <2>2. FreshInv' /\ Rotating' /\ (AtIndex' \/ m_stopping) BY <2>1 DEF FreshInv, Rotating, AtIndex
  <2>3. Followed(queue) => Followed(queue') BY Zenon DEF Remains
  <2> QED BY Zenon, <1>1, <1>3, <2>2, <2>3 DEF ListInv
<1> QED BY Zenon, <1>2, <1>3 DEF connect

(* A handler that only leaves the queue.                                   *)
LEMMA PoppingKeepsList ==
    ASSUME ListInv, Remains(queue'), "failover" \in timers' => "failover" \in timers,
           UNCHANGED <<connections, m_activeConnectionIdx, m_running, m_stopping, m_async_pending,
                       client, uris>>
    PROVE  ListInv'
<1>1. Posted("rotateConnect")' => Posted("rotateConnect") BY Zenon DEF Posted, Remains
<1>2. Detecting' <=> Detecting BY Zenon DEF Detecting, IsFamily
<1>3. (AtIndex => AtIndex') /\ (Attached => Attached') /\ (Seeking' => Seeking)
  BY Zenon, <1>2 DEF AtIndex, Attached, Seeking
<1>4. Followed(queue) => Followed(queue') BY Zenon DEF Remains
<1> QED BY Zenon, <1>1, <1>3, <1>4, QuietKeepsList

(* The handlers of the queue.                                              *)
LEMMA HandlerStepsKeepList ==
    ASSUME Inv, ListInv, \/ failovertimer_elapsed \/ submithrtimer_elapsed \/ reconnecttimer_elapsed
                         \/ PostedDisconnect \/ onMinerRestart
    PROVE  ListInv'
<1>0. /\ queue \in Seq(Handlers) /\ queue # <<>> /\ client.conn \in Pools
  BY DEF Inv, ClientTypes, Clients, Runs, failovertimer_elapsed, submithrtimer_elapsed,
         reconnecttimer_elapsed, PostedDisconnect, onMinerRestart
<1>1. Remains(Tail(queue)) BY <1>0, Popping, FollowedPopping DEF Remains
<1>2. CASE failovertimer_elapsed
  <2>0. Head(queue) = "failover" BY <1>2 DEF failovertimer_elapsed, Runs
  <2>1. CASE /\ disconnect(Tail(queue), m_async_pending)
             /\ UNCHANGED <<connections, m_stopping>>
    <3>1. CASE m_stopping
      BY Zenon, <1>1, <2>1, <3>1, DisconnectKeepsList
    <3>2. CASE ~m_stopping
      <4>1. Attached \/ Posted("rotateConnect")
        BY Zenon, <1>0, <2>0, <3>2, FollowedPopping DEF ListInv, Posted
      <4>2. client.st = "session" \/ (client.st = "shutdown" /\ ~Detecting) => Attached
        BY Zenon DEF Attached
      <4>3. Settled BY Zenon, <4>1, <4>2 DEF ListInv, Rotating, Settled
      <4> QED BY Zenon, <1>1, <2>1, <4>3, DisconnectKeepsList
    <3> QED BY Zenon, <3>1, <3>2
  <2>2. CASE /\ queue' = Tail(queue)
             /\ UNCHANGED <<pool, flags, client, m_currentWp, farm, timers, crashed>>
    <3>1. /\ UNCHANGED <<connections, m_activeConnectionIdx, m_running, m_stopping, m_async_pending,
                         client, uris>>
          /\ "failover" \in timers' => "failover" \in timers
      BY Zenon, <2>2 DEF pool, flags
    <3>2. Remains(queue') BY Zenon, <1>1, <2>2
    <3> QED BY Zenon, <3>1, <3>2, PoppingKeepsList
  <2> QED BY Zenon, <1>2, <2>1, <2>2 DEF failovertimer_elapsed
<1>3. CASE submithrtimer_elapsed \/ onMinerRestart
  <2>1. /\ queue' = Tail(queue)
        /\ UNCHANGED <<connections, m_activeConnectionIdx, m_running, m_stopping, m_async_pending,
                       client, uris>>
        /\ "failover" \in timers' => "failover" \in timers
    BY <1>3 DEF submithrtimer_elapsed, onMinerRestart, pool, flags
  <2>2. Remains(queue') BY Zenon, <1>1, <2>1
  <2> QED BY Zenon, <2>1, <2>2, PoppingKeepsList
<1>4. CASE reconnecttimer_elapsed
  <2>1. /\ queue' = Tail(queue)
        /\ UNCHANGED <<connections, uris, m_activeConnectionIdx, m_running, m_stopping>>
    BY Zenon, <1>4 DEF reconnecttimer_elapsed
  <2>2. Remains(queue') BY Zenon, <1>1, <2>1
  <2>3. CASE /\ m_running /\ client.st = "fresh"
             /\ connect(client.conn, m_activeConnectionIdx, m_connectionAttempt)
    <3>1. m_stopping \/ AtIndex BY Zenon, <2>3 DEF ListInv, Seeking
    <3>2. \/ m_stopping
          \/ /\ m_activeConnectionIdx' < Len(connections')
             /\ connections'[m_activeConnectionIdx' + 1] = client.conn
      BY Zenon, <2>1, <3>1 DEF AtIndex
    <3>3. client.st \in {"none", "fresh", "closed"} BY <2>3
    <3> QED BY Zenon, <1>0, <2>1, <2>2, <2>3, <3>2, <3>3, ConnectKeepsList
  <2>4. CASE UNCHANGED <<client, m_connectionAttempt, m_currentWp, timers, farm, m_async_pending>>
    <3>1. /\ UNCHANGED <<client, m_async_pending>>
          /\ "failover" \in timers' => "failover" \in timers
      BY Zenon, <2>4
    <3> QED BY Zenon, <2>1, <2>2, <3>1, PoppingKeepsList
  <2> QED BY Zenon, <1>4, <2>3, <2>4 DEF reconnecttimer_elapsed
<1>5. CASE PostedDisconnect
  <2>1. /\ disconnect(Tail(queue), m_async_pending)
        /\ UNCHANGED <<connections, m_activeConnectionIdx, m_stopping>>
    BY Zenon, <1>5 DEF PostedDisconnect
  <2> QED BY Zenon, <1>1, <2>1, DisconnectKeepsList
<1> QED BY Zenon, <1>2, <1>3, <1>4, <1>5

(* rotateConnect makes a client for the pool it selects.                   *)
LEMMA RotateKeepsList == ASSUME Inv, ListInv, rotateConnect PROVE ListInv'
<1>0. /\ queue \in Seq(Handlers) /\ queue # <<>> /\ queue' = Tail(queue)
      /\ client \in Clients /\ ListTypes
  BY DEF Inv, ClientTypes, rotateConnect, Runs
<1>1. Remains(queue') BY <1>0, Popping, FollowedPopping DEF Remains
<1>2. CASE UNCHANGED <<pool, flags, client, timers>>
  <2>1. /\ UNCHANGED <<connections, m_activeConnectionIdx, m_running, m_stopping, m_async_pending,
                       client, uris>>
        /\ "failover" \in timers' => "failover" \in timers
    BY Zenon, <1>2 DEF pool, flags
  <2> QED BY Zenon, <1>1, <2>1, PoppingKeepsList
<1> DEFINE sel == Selected
           goes == sel.list # <<>> /\ sel.list[sel.idx + 1] \notin ExitPools
           moves ==
           /\ ~isConnected /\ connections # <<>> /\ client.st \notin {"dialing", "shutdown"}
           /\ connections' = sel.list /\ m_activeConnectionIdx' = sel.idx
           /\ \/ /\ m_running' = FALSE
                 /\ UNCHANGED <<client, timers, m_async_pending>>
              \/ /\ goes
                 /\ client' = [conn |-> sel.list[sel.idx + 1], responds |-> FALSE, thread |-> FALSE, st |-> "fresh"]
                 /\ timers' = timers \union {"reconnect"}
                 /\ UNCHANGED <<m_running, m_async_pending>>
              \/ /\ goes
                 /\ connect(sel.list[sel.idx + 1], sel.idx, sel.attempt + 1)
           /\ UNCHANGED <<uris, m_stopping>>
<1>3. CASE moves
  <2>1. goes => sel.idx < Len(sel.list) /\ sel.list[sel.idx + 1] \in Pools
    BY <1>0, <1>3, SelectedIsListed
  <2> HIDE DEF sel, goes
  <2>2. client.st \in {"none", "fresh", "closed"} BY <1>0, <1>3 DEF Clients, isConnected
  <2>3. ~Attached BY <2>2 DEF Attached
  <2>4. Followed(queue) => Followed(queue') BY Zenon, <1>1 DEF Remains
  <2>5. CASE m_running' = FALSE /\ UNCHANGED <<client, timers, m_async_pending>>
    <3>1. FreshInv' BY Zenon, <2>5 DEF ListInv, FreshInv
    <3>2. Rotating' BY <2>2, <2>5 DEF Rotating
    <3>3. ~Seeking' BY <2>2, <2>5 DEF Seeking
    <3> QED BY Zenon, <1>3, <2>3, <2>4, <2>5, <3>1, <3>2, <3>3 DEF ListInv
  <2>6. CASE /\ goes
             /\ client' = [conn |-> sel.list[sel.idx + 1], responds |-> FALSE, thread |-> FALSE, st |-> "fresh"]
             /\ timers' = timers \union {"reconnect"}
             /\ UNCHANGED <<m_running, m_async_pending>>
    <3>1. client'.st = "fresh" /\ client'.conn = sel.list[sel.idx + 1] /\ ~client'.responds BY <2>6
    <3>2. FreshInv' /\ Rotating' BY <3>1 DEF FreshInv, Rotating
    <3>3. AtIndex' BY Zenon, <1>3, <2>1, <2>6, <3>1 DEF AtIndex
    <3>4. "failover" \in timers' => "failover" \in timers BY <2>6
    <3> QED BY Zenon, <1>3, <2>3, <2>4, <2>6, <3>2, <3>3, <3>4 DEF ListInv
  <2>7. CASE goes /\ connect(sel.list[sel.idx + 1], sel.idx, sel.attempt + 1)
    <3>1. /\ m_activeConnectionIdx' < Len(connections')
          /\ connections'[m_activeConnectionIdx' + 1] = sel.list[sel.idx + 1]
          /\ sel.list[sel.idx + 1] \in Pools /\ m_stopping' = m_stopping
      BY Zenon, <1>3, <2>1, <2>7
    <3> QED BY Zenon, <1>1, <2>2, <2>7, <3>1, ConnectKeepsList
  <2> QED BY Zenon, <1>3, <2>5, <2>6, <2>7
<1>4. UNCHANGED <<pool, flags, client, timers>> \/ moves
  <2>1. CASE UNCHANGED <<pool, flags, client, m_currentWp, farm, timers>> BY Zenon, <2>1
  <2>2. CASE ~(UNCHANGED <<pool, flags, client, m_currentWp, farm, timers>>)
    BY Zenon, <2>2 DEF rotateConnect
  <2> QED BY Zenon, <2>1, <2>2
<1> QED BY Zenon, <1>2, <1>3, <1>4

(* A timer elapses; the failover timer runs for a session only.            *)
LEMMA TimerKeepsList == ASSUME Inv, ListInv, NEW t \in timers, TimerExpires(t) PROVE ListInv'
<1>0. queue \in Seq(Handlers) /\ t \in {"failover", "submithr", "reconnect"}
  BY DEF Inv, ClientTypes
<1>1. /\ timers' = timers \ {t} /\ queue' = Append(queue, t)
      /\ UNCHANGED <<connections, uris, m_activeConnectionIdx, m_running, m_stopping, m_async_pending, client>>
  BY Zenon DEF TimerExpires, pool, flags
<1>2. t \in Handlers /\ t # "rotateConnect" BY <1>0 DEF Handlers
<1>3. Posted("rotateConnect")' => Posted("rotateConnect") BY <1>0, <1>1, <1>2, Posting DEF Posted
<1>4. "failover" \in timers' => "failover" \in timers BY <1>1
<1>5. t = "failover" /\ ~m_stopping => Attached BY Zenon DEF ListInv
<1>6. t # "failover" /\ Followed(queue) => Followed(queue') BY Zenon, <1>0, <1>1, <1>2, FollowedPosting
<1>7. Detecting' <=> Detecting BY Zenon, <1>1 DEF Detecting, IsFamily
<1>8. (AtIndex => AtIndex') /\ (Attached => Attached') /\ (Seeking' => Seeking)
  BY Zenon, <1>1, <1>7 DEF AtIndex, Attached, Seeking
<1> QED BY Zenon, <1>1, <1>3, <1>4, <1>5, <1>6, <1>8, QuietKeepsList

(* API requests.  Only while m_async_pending is reset, that is in session, *)
(* does the index move.                                                    *)
LEMMA ApiStepsKeepList ==
    ASSUME Inv, ListInv,
           \/ \E p \in Pools : addConnection(p)
           \/ \E idx \in 0..(MaxConns - 1) : removeConnection(idx) \/ setActiveConnection(idx)
           \/ restart_async
    PROVE  ListInv'
<1>0. /\ queue \in Seq(Handlers) /\ client.conn \in Pools /\ uris \in [Pools -> Uris]
      /\ connections \in Seq(Pools) /\ m_activeConnectionIdx \in Nat /\ Remains(queue)
  BY DEF Inv, ClientTypes, ListTypes, Clients, Remains
<1>1. ASSUME NEW p \in Pools, addConnection(p) PROVE ListInv'
  <2>1. /\ p # client.conn /\ connections' = Append(connections, p)
        /\ uris' = [uris EXCEPT ![p] = NewUri]
        /\ UNCHANGED <<m_activeConnectionIdx, m_running, m_stopping, m_async_pending, client, timers, queue>>
    BY <1>1 DEF addConnection, flags
  <2>2. uris'[client.conn] = uris[client.conn] BY <1>0, <2>1
  <2>3. Detecting' <=> Detecting BY Zenon, <2>1, <2>2 DEF Detecting, IsFamily
  <2>4. (Attached => Attached') /\ (Seeking' => Seeking) BY Zenon, <2>1, <2>3 DEF Attached, Seeking
  <2>5. AtIndex => AtIndex'
    <3> SUFFICES ASSUME AtIndex PROVE AtIndex' OBVIOUS
    <3>1. Len(connections') = Len(connections) + 1
          /\ \A i \in 1..Len(connections) : connections'[i] = connections[i]
      BY <1>0, <2>1
    <3>2. m_activeConnectionIdx + 1 \in 1..Len(connections) BY <1>0 DEF AtIndex
    <3> QED BY <1>0, <2>1, <3>1, <3>2 DEF AtIndex
  <2>6. Posted("rotateConnect")' => Posted("rotateConnect") BY Zenon, <2>1 DEF Posted
  <2> QED BY Zenon, <2>1, <2>4, <2>5, <2>6, QuietKeepsList
<1>2. ASSUME NEW idx \in 0..(MaxConns - 1), removeConnection(idx) PROVE ListInv'
  <2>1. /\ idx < Len(connections) /\ idx # m_activeConnectionIdx
        /\ connections' = erase(connections, idx)
        /\ m_activeConnectionIdx' = ShiftedIdx(idx)
        /\ UNCHANGED <<uris, m_running, m_stopping, m_async_pending, client, timers, queue>>
    BY <1>2 DEF removeConnection, flags
  <2>2. idx \in 0..(Len(connections) - 1) BY <1>0, <2>1, SettingsAssumption
  <2>3. Detecting' <=> Detecting BY Zenon, <2>1 DEF Detecting, IsFamily
  <2>4. (Attached => Attached') /\ (Seeking' => Seeking) BY Zenon, <2>1, <2>3 DEF Attached, Seeking
  <2>5. AtIndex => AtIndex'
    <3> SUFFICES ASSUME AtIndex PROVE AtIndex' OBVIOUS
    <3> DEFINE k == m_activeConnectionIdx
    <3>0. m_activeConnectionIdx < Len(connections) /\ Len(connections) \in Nat
      <4>1. m_activeConnectionIdx < Len(connections) BY Zenon DEF AtIndex
      <4> QED BY <1>0, <4>1
    <3>1. k \in 0..(Len(connections) - 1) /\ k # idx BY <1>0, <2>1, <3>0
    <3>2. erase(connections, idx)[(IF k > idx THEN k - 1 ELSE k) + 1] = connections[k + 1]
      BY Zenon, <1>0, <2>2, <3>1, ErasingShifts
    <3>3. Len(connections') = Len(connections) - 1 BY <1>0, <2>1, <2>2, Erasing
    <3>4. m_activeConnectionIdx' = (IF k > idx THEN k - 1 ELSE k) BY Zenon, <2>1 DEF ShiftedIdx
    <3>5. m_activeConnectionIdx' < Len(connections') BY <1>0, <2>2, <3>1, <3>3, <3>4
    <3>6. connections'[m_activeConnectionIdx' + 1] = client.conn
      BY Zenon, <2>1, <3>2, <3>4 DEF AtIndex
    <3>7. client'.conn = client.conn BY Zenon, <2>1
    <3> QED BY Zenon, <3>5, <3>6, <3>7 DEF AtIndex
  <2>6. Posted("rotateConnect")' => Posted("rotateConnect") BY Zenon, <2>1 DEF Posted
  <2> QED BY Zenon, <2>1, <2>4, <2>5, <2>6, QuietKeepsList
<1>3. ASSUME NEW idx \in 0..(MaxConns - 1), setActiveConnection(idx) PROVE ListInv'
  <2>1. /\ ~m_async_pending /\ main = "serving" /\ disconnect(queue, TRUE)
        /\ UNCHANGED <<connections, m_stopping>>
    BY Zenon, <1>3 DEF setActiveConnection, ApiRuns
  <2>2. ~m_stopping BY <2>1 DEF Inv, StopInv
  <2>3. Settled BY Zenon, <2>1, <2>2 DEF ListInv, Settled
  <2> QED BY Zenon, <1>0, <2>1, <2>3, DisconnectKeepsList
<1>4. CASE restart_async
  <2>1. /\ queue' = Append(queue, "restart")
        /\ UNCHANGED <<connections, uris, m_activeConnectionIdx, m_running, m_stopping, m_async_pending,
                       client, timers>>
    BY Zenon, <1>4 DEF restart_async, pool, flags
  <2>2. "restart" \in Handlers /\ "restart" # "failover" BY DEF Handlers
  <2>3. /\ Posted("rotateConnect")' => Posted("rotateConnect")
        /\ Followed(queue) => Followed(queue')
    BY <1>0, <2>1, <2>2, Posting, FollowedPosting DEF Posted
  <2>4. Detecting' <=> Detecting BY Zenon, <2>1 DEF Detecting, IsFamily
  <2>5. (AtIndex => AtIndex') /\ (Attached => Attached') /\ (Seeking' => Seeking)
    BY Zenon, <2>1, <2>4 DEF AtIndex, Attached, Seeking
  <2> QED BY Zenon, <2>1, <2>3, <2>5, QuietKeepsList
<1> QED BY Zenon, <1>1, <1>2, <1>3, <1>4

(* The simulation's thread.                                                *)
LEMMA SimulationKeepsList == ASSUME Inv, ListInv, NEW e \in Epochs, SimulatedWork(e) PROVE ListInv'
<1>1. /\ client' = [client EXCEPT !.thread = FALSE]
      /\ UNCHANGED <<connections, uris, m_activeConnectionIdx, m_running, m_stopping, m_async_pending,
                     timers, queue>>
  BY Zenon DEF SimulatedWork, pool, flags
<1>2. client'.st = client.st /\ client'.conn = client.conn /\ client'.responds = client.responds
  BY Zenon, <1>1 DEF Inv, ClientTypes, Clients
<1>3. (Detecting' <=> Detecting) /\ (IsFamily("simulation")' <=> IsFamily("simulation"))
  BY Zenon, <1>1, <1>2 DEF Detecting, IsFamily
<1>4. (AtIndex => AtIndex') /\ (Attached => Attached') /\ (Seeking' => Seeking)
  BY Zenon, <1>1, <1>2, <1>3 DEF AtIndex, Attached, Seeking
<1>5. Posted("rotateConnect")' => Posted("rotateConnect") BY Zenon, <1>1 DEF Posted
<1>6. FreshInv' /\ Rotating' BY Zenon, <1>2, <1>3, <1>5 DEF ListInv, FreshInv, Rotating
<1> QED BY Zenon, <1>1, <1>4, <1>6 DEF ListInv

(* The main thread.                                                        *)
LEMMA MainStepsKeepList == ASSUME Inv, ListInv, Interrupt \/ MainStep PROVE ListInv'
<1>0. Remains(queue) /\ client \in Clients BY DEF Inv, ClientTypes, Remains
<1>1. CASE StopDisconnects
  <2>1. /\ disconnect(queue, m_async_pending)
        /\ UNCHANGED <<connections, m_activeConnectionIdx, m_stopping>>
    BY Zenon, <1>1 DEF StopDisconnects
  <2> QED BY Zenon, <1>0, <2>1, DisconnectKeepsList
<1>2. CASE WaitEnds
  <2>1. /\ m_stopping' /\ client' = [client EXCEPT !.st = "none"]
    BY Zenon, <1>2 DEF WaitEnds, At, flags, Inv, StopInv
  <2>2. client'.st = "none" BY <1>0, <2>1 DEF Clients
  <2>3. FreshInv' /\ Rotating' BY <2>2 DEF FreshInv, Rotating
  <2> QED BY Zenon, <2>1, <2>3 DEF ListInv
<1>3. CASE \/ Interrupt \/ StoreAsyncPending \/ StoreStopping \/ TestConnected
           \/ StopCancels \/ StopStopsFarm
  <2>1. /\ UNCHANGED <<connections, uris, m_activeConnectionIdx, m_running, client, queue>>
        /\ m_stopping => m_stopping'
        /\ m_async_pending => m_async_pending'
        /\ "failover" \in timers' => "failover" \in timers
    BY <1>3 DEF Interrupt, StoreAsyncPending, StoreStopping, TestConnected, StopCancels,
                StopStopsFarm, pool, flags
  <2>2. Detecting' <=> Detecting BY Zenon, <2>1 DEF Detecting, IsFamily
  <2>3. (AtIndex => AtIndex') /\ (Attached => Attached') /\ (Seeking' => Seeking)
    BY Zenon, <2>1, <2>2 DEF AtIndex, Attached, Seeking
  <2>4. Posted("rotateConnect")' => Posted("rotateConnect") BY Zenon, <2>1 DEF Posted
  <2> QED BY Zenon, <2>1, <2>3, <2>4, QuietKeepsList
<1> QED BY Zenon, <1>1, <1>2, <1>3 DEF MainStep

(* The list invariant holds at the start.                                  *)
LEMMA ListInitHolds == Init => ListInv
<1> SUFFICES ASSUME Init PROVE ListInv OBVIOUS
<1>1. client.st = "none" /\ m_async_pending /\ timers = {} BY Zenon DEF Init
<1>2. FreshInv /\ Rotating /\ ~Seeking BY <1>1 DEF FreshInv, Rotating, Seeking
<1>3. Followed(queue)
  <2>1. queue = Append(<<>>, "rotateConnect") BY DEF Init
  <2>2. <<>> \in Seq(Handlers) /\ "rotateConnect" \in Handlers BY DEF Handlers
  <2> QED BY Zenon, <2>1, <2>2, FollowedPosting
<1>4. "failover" \notin timers BY <1>1
<1> QED BY Zenon, <1>1, <1>2, <1>3, <1>4 DEF ListInv

(* Every step keeps the list invariant.                                    *)
LEMMA ListStepHolds == Inv /\ ListInv /\ [Next]_vars => ListInv'
<1> SUFFICES ASSUME Inv, ListInv, [Next]_vars PROVE ListInv' OBVIOUS
<1>0. Remains(queue) BY DEF Inv, ClientTypes, Remains
<1>1. CASE DialStep \/ SessionStarts \/ LateLogin \/ PoolFails \/ GetworkFails \/ ShutdownEnds
  BY Zenon, <1>1, ClientStepsKeepList
<1>2. CASE (\E e \in Epochs : WorkReceived(e)) \/ UNCHANGED vars
  <2>1. /\ UNCHANGED <<connections, m_activeConnectionIdx, m_running, m_stopping, m_async_pending,
                       client, uris>>
        /\ queue' = queue
        /\ "failover" \in timers' => "failover" \in timers
    BY Zenon, <1>2 DEF WorkReceived, vars, pool, flags
  <2>2. Remains(queue') BY Zenon, <1>0, <2>1
  <2> QED BY Zenon, <2>1, <2>2, PoppingKeepsList
<1>3. CASE QueueStep BY Zenon, <1>3, RotateKeepsList, HandlerStepsKeepList DEF QueueStep
<1>4. CASE \E t \in timers : TimerExpires(t) BY Zenon, <1>4, TimerKeepsList
<1>5. CASE \/ \E p \in Pools : addConnection(p)
           \/ \E idx \in 0..(MaxConns - 1) : removeConnection(idx) \/ setActiveConnection(idx)
           \/ restart_async
  BY Zenon, <1>5, ApiStepsKeepList
<1>6. CASE Interrupt \/ MainStep BY Zenon, <1>6, MainStepsKeepList
<1>7. CASE \E e \in Epochs : SimulatedWork(e) BY Zenon, <1>7, SimulationKeepsList
<1> QED BY Zenon, <1>1, <1>2, <1>3, <1>4, <1>5, <1>6, <1>7 DEF Next

(* While m_async_pending is reset the client is that of the pool at the    *)
(* active index, or closes its session: a request of the API that moves or *)
(* removes pools (setActiveConnection, removeConnection) never finds an    *)
(* index that belongs to another client, whatever failovers, rotations and *)
(* refusals came before.                                                   *)
THEOREM ActiveIsThePoolInUse == Spec => []ActiveIsConnected
<1>1. ListInv => ActiveIsConnected
  <2> SUFFICES ASSUME ListInv, ~m_async_pending, ~m_stopping, client.st # "shutdown"
               PROVE  InSession /\ AtIndex
    BY Zenon DEF ActiveIsConnected, AtIndex
  <2>1. client.st = "session" BY Zenon DEF ListInv, Attached
  <2>2. Seeking BY <2>1 DEF Seeking
  <2> QED BY Zenon, <2>1, <2>2 DEF ListInv, InSession
<1>2. Spec => [](Inv /\ ListInv)
  BY InitHolds, StepHolds, ListInitHolds, ListStepHolds, PTL DEF Spec
<1> QED BY <1>1, <1>2, PTL

==============================================================================
