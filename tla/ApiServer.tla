------------------------------- MODULE ApiServer -------------------------------
(***************************************************************************)
(* The API server (libapicore/ApiServer.cpp): its start and stop on the    *)
(* main thread, and the accepting, reading, answering and closing of       *)
(* sessions on the io thread.  What the requests do is the business of     *)
(* PoolManager and Farm; here a request is answered.                       *)
(*                                                                         *)
(* The io thread runs the completions in `queue' in order.  They are bound *)
(* to the raw server or session object: `fate' says that one ran after its *)
(* object was destroyed, or that one let an exception out of the thread.   *)
(***************************************************************************)
EXTENDS Integers, Sequences, Functions

CONSTANTS MaxSessions,    \* bound: sessions that are accepted
          MaxWrites,      \* bound: answers being written
          Fragments       \* a request may arrive in pieces of under 4 bytes

ASSUME ApiAssumption == /\ {MaxSessions, MaxWrites} \subseteq Nat \ {0}
                        /\ Fragments \in BOOLEAN

Sessions == 1..MaxSessions

VARIABLES m_running,           \* the server was started and not stopped
          m_acceptor,          \* "open" or "closed"
          m_workThread,        \* the thread that runs the first begin_accept
          accepting,           \* an accept is under way
          lastSessionId,       \* of the last session that was accepted
          m_sessions,          \* the sessions that exist
          reading,             \* those that wait for data
          writes,              \* writes[s]: pending answers, TRUE for the last of its session
          m_message,           \* the part of a request s holds: none, under four bytes, or more
          queue, fate

server == <<m_running, m_acceptor, m_workThread>>
listener == <<server, accepting, lastSessionId>>
io == <<m_sessions, reading, writes, m_message, queue, fate>>

Parts == {"none", "short", "long"}

Handlers == {"accept", "acceptErr", "recv", "recvErr", "sent", "sentLast", "sendErr"}

Fates == {"alive", "freed", "terminated"}

ServerTypeOK == /\ m_running \in BOOLEAN /\ m_acceptor \in {"open", "closed"}
                /\ m_workThread \in {"none", "runs", "ended"}
                /\ accepting \in BOOLEAN /\ lastSessionId \in 0..MaxSessions
                /\ m_sessions \subseteq 1..lastSessionId /\ reading \subseteq m_sessions
                /\ writes \in [Sessions -> Seq(BOOLEAN)]
                /\ m_message \in [Sessions -> Parts]
                /\ queue \in Seq(Sessions \X Handlers) /\ fate \in Fates

ServerInit == /\ m_running = FALSE /\ m_acceptor = "closed" /\ m_workThread = "none"
              /\ accepting = FALSE /\ lastSessionId = 0 /\ m_sessions = {} /\ reading = {}
              /\ writes = [s \in Sessions |-> <<>>]
              /\ m_message = [s \in Sessions |-> "none"]
              /\ queue = <<>> /\ fate = "alive"

-----------------------------------------------------------------------------
(* The main thread.                                                        *)

(* start: the port may be taken.                                           *)
start == /\ \/ /\ m_running' = TRUE /\ m_acceptor' = "open" /\ m_workThread' = "runs"
            \/ UNCHANGED server
         /\ UNCHANGED <<accepting, lastSessionId, io>>

(* stop, which touches state of the io thread, in its steps: cancel and    *)
(* close, join, store, clear.                                              *)
CloseAcceptor == /\ m_acceptor' = "closed" /\ accepting' = FALSE
                 /\ queue' = IF accepting THEN Append(queue, <<lastSessionId + 1, "acceptErr">>)
                                          ELSE queue
                 /\ UNCHANGED <<m_running, m_workThread, lastSessionId, m_sessions, reading, writes,
                                m_message, fate>>

JoinWorkThread == m_workThread = "ended" /\ UNCHANGED <<listener, io>>

StoreStopped == m_running' = FALSE /\ UNCHANGED <<m_acceptor, m_workThread, accepting, lastSessionId, io>>

(* What is pending on a socket that is destroyed completes with an error.  *)
Aborted(s) == (IF s \in reading THEN <<<<s, "recvErr">>>> ELSE <<>>)
                \o [i \in 1..Len(writes[s]) |-> <<s, "sendErr">>]

(* The queue once the sessions up to s are destroyed.                      *)
Cleared[s \in Nat] == IF s = 0 THEN queue
                      ELSE IF s \in m_sessions THEN Cleared[s - 1] \o Aborted(s) ELSE Cleared[s - 1]

ClearSessions ==
    /\ queue' = Cleared[MaxSessions]
    /\ m_sessions' = {} /\ reading' = {} /\ writes' = [s \in Sessions |-> <<>>]
    /\ UNCHANGED <<listener, m_message, fate>>

-----------------------------------------------------------------------------
(* Accepting.  The number of a session is used up when one is accepted;    *)
(* the code also uses up one for each accept that fails.                   *)

(* On an acceptor that is closed the accept fails at once.  n is the last  *)
(* number given, q the queue.                                              *)
begin_accept(n, q) ==
    IF ~m_running \/ n >= MaxSessions THEN accepting' = FALSE /\ queue' = q
    ELSE IF m_acceptor = "open" THEN accepting' = TRUE /\ queue' = q
    ELSE accepting' = FALSE /\ queue' = Append(q, <<n + 1, "acceptErr">>)

(* Mutant: the thread serves as long as the server runs.                   *)
WorkThreadStays == /\ m_workThread = "runs" /\ ~m_running /\ m_workThread' = "ended"
                   /\ begin_accept(lastSessionId, queue)
                   /\ UNCHANGED <<m_running, m_acceptor, lastSessionId, m_sessions, reading, writes,
                                  m_message, fate>>
WorkThread == /\ m_workThread = "runs" /\ m_workThread' = "ended"
              /\ begin_accept(lastSessionId, queue)
              /\ UNCHANGED <<m_running, m_acceptor, lastSessionId, m_sessions, reading, writes,
                             m_message, fate>>

Runs(s, h) == fate = "alive" /\ queue # <<>> /\ Head(queue) = <<s, h>>

(* A client has connected: the session is kept, reads, and the next accept *)
(* begins; remote_endpoint(), whose result is logged, throws if the client *)
(* is gone.                                                                *)
SessionAccepted(s) ==
    /\ lastSessionId' = s /\ m_sessions' = m_sessions \union {s}
    /\ \/ fate' = fate /\ reading' = reading \union {s} /\ begin_accept(s, Tail(queue))
       \/ fate' = "terminated" /\ queue' = Tail(queue) /\ UNCHANGED <<reading, accepting>>
    /\ UNCHANGED <<writes, m_message>>

(* Mutant: a failed accept is the last.                                    *)
AcceptFailsForGood(s) == /\ queue' = Tail(queue)
                         /\ UNCHANGED <<accepting, lastSessionId, m_sessions, reading, writes,
                                        m_message, fate>>
AcceptFails(s) == /\ begin_accept(lastSessionId, Tail(queue))
                  /\ UNCHANGED <<lastSessionId, m_sessions, reading, writes, m_message, fate>>

handle_accept(s) == /\ \/ Runs(s, "accept") /\ SessionAccepted(s)
                       \/ Runs(s, "acceptErr") /\ AcceptFails(s)
                    /\ UNCHANGED server

(* A completion that finds its object destroyed.                           *)
FindsNothing == /\ fate' = "freed" /\ queue' = Tail(queue)
                /\ UNCHANGED <<listener, m_sessions, reading, writes, m_message>>

(* The socket is closed, which completes what is pending with an error,    *)
(* and the server erases the session.                                      *)
disconnect(s) == /\ m_sessions' = m_sessions \ {s}
                 /\ reading' = reading \ {s}
                 /\ writes' = [writes EXCEPT ![s] = <<>>]
                 /\ queue' = Tail(queue) \o Aborted(s)
                 /\ UNCHANGED <<m_message, fate>>

-----------------------------------------------------------------------------
(* Requests.                                                               *)

recvSocketData(s) == reading' = reading \union {s}

(* Mutant: reads on only after a complete line.                            *)
ReadsAfterAnswers(s, n) == reading' = IF n > 0 THEN reading \union {s} ELSE reading
KeepsReading(s, n) == recvSocketData(s)

(* The bound counts the answers whose completion has not run yet.          *)
Unsent == SumFunction([s \in Sessions |-> Len(writes[s])])
            + Len(SelectSeq(queue, LAMBDA e : e[2] \in {"sent", "sentLast", "sendErr"}))

(* Every line of the transmission is answered.                             *)
Lines(s) == \E n \in 0..(MaxWrites - Unsent) :
    /\ writes' = [writes EXCEPT ![s] = @ \o [i \in 1..n |-> FALSE]]
    /\ \E part \in Parts : m_message' = [m_message EXCEPT ![s] = part]
    /\ KeepsReading(s, n)

(* Under four bytes: the handler returns, and does not read again.         *)
Fragment(s) == /\ Fragments /\ m_message[s] # "long"
               /\ m_message' = [m_message EXCEPT ![s] = "short"]
               /\ UNCHANGED <<reading, writes>>

(* One HTTP request is answered, and the answer ends the session.          *)
Http(s) == /\ Unsent < MaxWrites
           /\ writes' = [writes EXCEPT ![s] = Append(@, TRUE)]
           /\ m_message' = [m_message EXCEPT ![s] = "none"]
           /\ UNCHANGED reading

onRecvSocketDataCompleted(s) ==
    /\ Runs(s, "recv")
    /\ Lines(s) \/ Fragment(s) \/ Http(s)
    /\ queue' = Tail(queue) /\ UNCHANGED <<m_sessions, fate>>

RecvFails(s) == Runs(s, "recvErr") /\ disconnect(s)

(* Mutant: the completion of an answer reads, too.                         *)
ReadsOnSend(s) == /\ Runs(s, "sent")
                  /\ queue' = Tail(queue) /\ recvSocketData(s)
                  /\ UNCHANGED <<m_sessions, writes, m_message, fate>>

onSendSocketDataCompleted(s) ==
    /\ Runs(s, "sent") /\ queue' = Tail(queue)
    /\ UNCHANGED <<m_sessions, reading, writes, m_message, fate>>

SendEnds(s) == (Runs(s, "sentLast") \/ Runs(s, "sendErr")) /\ disconnect(s)

(* The handlers of a session, which may be gone.                           *)
SessionHandler(s) ==
    \/ /\ s \in m_sessions
       /\ \/ onRecvSocketDataCompleted(s) \/ RecvFails(s)
          \/ onSendSocketDataCompleted(s) \/ SendEnds(s)
       /\ UNCHANGED listener
    \/ /\ s \notin m_sessions
       /\ \E h \in Handlers \ {"accept", "acceptErr"} : Runs(s, h)
       /\ FindsNothing

-----------------------------------------------------------------------------
(* The operating system completes an accept, a read or the oldest write.   *)
AcceptCompletes == /\ accepting /\ fate = "alive" /\ accepting' = FALSE
                   /\ \E h \in {"accept", "acceptErr"} : queue' = Append(queue, <<lastSessionId + 1, h>>)
                   /\ UNCHANGED <<server, lastSessionId, m_sessions, reading, writes,
                                  m_message, fate>>

ReadCompletes(s) == /\ s \in reading /\ fate = "alive"
                    /\ reading' = reading \ {s}
                    /\ \E h \in {"recv", "recvErr"} : queue' = Append(queue, <<s, h>>)
                    /\ UNCHANGED <<listener, m_sessions, writes, m_message, fate>>

WriteCompletes(s) ==
    /\ writes[s] # <<>> /\ fate = "alive"
    /\ writes' = [writes EXCEPT ![s] = Tail(@)]
    /\ \E h \in {IF Head(writes[s]) THEN "sentLast" ELSE "sent", "sendErr"} :
          queue' = Append(queue, <<s, h>>)
    /\ UNCHANGED <<listener, m_sessions, reading, m_message, fate>>

SocketStep == AcceptCompletes \/ \E s \in Sessions : ReadCompletes(s) \/ WriteCompletes(s)

-----------------------------------------------------------------------------
(* Properties.                                                             *)

Waiting(s) == {h \in Handlers : <<s, h>> \in Range(queue)}

(* A session that exists is served: it waits for data, or a completion of  *)
(* its own is on its way, unless fewer than four bytes of a request are    *)
(* held: onRecvSocketDataCompleted then returns without reading on         *)
(* (ApiServer.cpp:781), although its comment says "Wait for other data to  *)
(* come in".                                                               *)
LiveIsServed == fate = "alive" => \A s \in m_sessions :
    m_message[s] # "short" => s \in reading \/ writes[s] # <<>> \/ Waiting(s) # {}

(* "Run in sync so no 2 different async reads may overlap"                 *)
(* (ApiServer.cpp:888): while data is handled no read is under way.        *)
Received(s) == {i \in DOMAIN queue : queue[i] \in {<<s, "recv">>, <<s, "recvErr">>}}
ReadsDoNotOverlap == \A s \in m_sessions :
    /\ \A i, j \in Received(s) : i = j
    /\ s \in reading => Received(s) = {}

(* A server that runs is reachable: an accept is under way, or its         *)
(* completion is, or the first begin_accept: neither a failed accept nor   *)
(* the end of a session stops handle_accept from accepting the next one.   *)
ServerListens == m_running /\ lastSessionId < MaxSessions /\ fate = "alive" =>
    \/ accepting \/ m_workThread = "runs"
    \/ \E i \in DOMAIN queue : queue[i][2] \in {"accept", "acceptErr"}

(* "Cancel pending operations" (ApiServer.cpp:337): no completion runs     *)
(* after its session was destroyed.                                        *)
SessionOutlivesHandlers == fate # "freed"

==============================================================================
