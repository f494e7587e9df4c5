------------------------------ MODULE Solutions ------------------------------
(***************************************************************************)
(* The way of a solution: a miner thread finds it and posts it             *)
(* (Farm::submitProof), the io thread verifies it and hands it to the      *)
(* client that is connected by then (Farm::submitProofAsync, PoolManager's *)
(* onSolutionFound, submitSolution of the three clients), the pool answers *)
(* and the answer is counted for the miner and for the farm                *)
(* (Farm::accountSolution).  Meanwhile connections end, others begin, and  *)
(* the API restarts the miners.                                            *)
(*                                                                         *)
(* Handlers of the io thread are atomic here; the threads of the miners    *)
(* interleave with them.  A job is the number of the session it came from. *)
(***************************************************************************)
EXTENDS Integers, Sequences, Functions, FiniteSetsExt, Pleas

CONSTANTS N,            \* number of miners
          Families,     \* the clients that may be created: "stratum", "getwork", "simulation"
          noEval,       \* solutions are not verified before they are submitted
          Timeout,      \* m_responsetimeout
          MaxTime,      \* bound of the clock
          MaxFound,     \* bound: solutions found
          MaxSessions,  \* bound: connections
          MaxStarts     \* bound: times the farm starts its miners

ASSUME SolutionsAssumption ==
    /\ N \in Nat \ {0} /\ noEval \in BOOLEAN
    /\ Families \subseteq {"stratum", "getwork", "simulation"}
    /\ {Timeout, MaxTime, MaxFound, MaxSessions, MaxStarts} \subseteq Nat

Miners == 0..(N - 1)

VARIABLES session,      \* number of the last connection
          family,       \* of the client
          phase,        \* of the connection
          m_solution_submitted_max_id,
          now, pleas,   \* clock and awaited answers of the stratum client
          awaited,      \* awaited[i]: answers the pool owes to miner i
          work,         \* the job the farm gave, 0 for none
          searching,    \* searching[i]: the job whose nonces miner i tries
          posted,       \* solutions on their way to the io thread
          m_telemetry,  \* counts of the farm, and one entry per miner and start
          found, sent, lost   \* history: found, and per miner submitted and never answered

client == <<session, family, phase, m_solution_submitted_max_id, pleas, awaited>>
counts == <<m_telemetry, found, sent, lost>>
vars == <<client, now, work, searching, posted, counts>>

Phases == {"down", "dialing", "login", "auth", "open"}
Solution == [midx : Miners, of : Nat, good : BOOLEAN]
Kinds == {"accepted", "rejected", "failed", "wasted"}
NoCounts == [k \in Kinds |-> 0]

TypeOK == /\ session \in 0..MaxSessions /\ family \in Families /\ phase \in Phases
          /\ m_solution_submitted_max_id \in Nat
          /\ now \in 0..MaxTime /\ pleas \in PleaRecords
          /\ awaited \in [Miners -> Nat]
          /\ work \in 0..MaxSessions /\ searching \in [Miners -> 0..MaxSessions]
          /\ posted \in Seq(Solution)
          /\ m_telemetry \in [farm : [Kinds -> Nat], miners : Seq([Kinds -> Nat])]
          /\ found \in 0..MaxFound /\ sent \in [Miners -> Nat] /\ lost \in [Miners -> Nat]

Zero == [i \in Miners |-> 0]

Init == /\ session = 0 /\ family \in Families /\ phase = "down"
        /\ m_solution_submitted_max_id = 0
        /\ now = 0 /\ pleas = clear_response_pleas(0)
        /\ awaited = Zero /\ work = 0 /\ searching = Zero /\ posted = <<>>
        /\ m_telemetry = [farm |-> NoCounts, miners |-> <<>>]
        /\ found = 0 /\ sent = Zero /\ lost = Zero

-----------------------------------------------------------------------------
(* Farm.                                                                   *)

(* Farm::accountSolution.  Entries are numbered from 0; the farm's count   *)
(* is raised before at() may throw.                                        *)
accountSolution(t, i, kind) ==
    [farm |-> [t.farm EXCEPT ![kind] = @ + 1],
     miners |-> IF i + 1 \in DOMAIN t.miners THEN [t.miners EXCEPT ![i + 1][kind] = @ + 1]
                                             ELSE t.miners]

(* Mutant: the entries are made anew, the farm's counts are kept.          *)
EntriesAnew(t) == [t EXCEPT !.miners = [i \in 1..N |-> NoCounts]]

(* Farm::start appends an entry per miner.                                 *)
AppendEntries(t) == [t EXCEPT !.miners = @ \o [i \in 1..N |-> NoCounts]]

Mining == m_telemetry.miners # <<>>

(* The API's miner_restart: Farm::stop, if miners run, and Farm::start, in *)
(* one handler, also before the first connection.                          *)
Restart == /\ Len(m_telemetry.miners) < N * MaxStarts
           /\ m_telemetry' = AppendEntries(m_telemetry)
           /\ work' = 0 /\ searching' = Zero
           /\ UNCHANGED <<client, now, posted, found, sent, lost>>

-----------------------------------------------------------------------------
(* Miner threads.                                                          *)

PicksUp(i) == /\ Mining /\ searching[i] # work
              /\ searching' = [searching EXCEPT ![i] = work]
              /\ UNCHANGED <<client, now, work, posted, counts>>

(* CPUMiner::search and Farm::submitProof.  `good' is the verdict of       *)
(* EthashAux::eval.                                                        *)
submitProof(i, good) ==
    /\ searching[i] # 0 /\ found < MaxFound
    /\ posted' = Append(posted, [midx |-> i, of |-> searching[i], good |-> good])
    /\ found' = found + 1
    /\ UNCHANGED <<client, now, work, searching, m_telemetry, sent, lost>>

-----------------------------------------------------------------------------
(* The connection.  The stratum client asks to log in and then to be       *)
(* authorised; the others are ready once they are connected.               *)

isConnected == phase \in {"login", "auth", "open"}
isAuthorized == phase = "open"

(* start_connect.  The getwork client does not initialise the number.      *)
Dials == /\ phase = "down" /\ session < MaxSessions
         /\ session' = session + 1
         /\ \E f \in Families :
               /\ family' = f
               /\ m_solution_submitted_max_id' \in (IF f = "getwork" THEN {0, 40 + N} ELSE {0})
         /\ phase' = "dialing"
         /\ pleas' = enqueue_response_plea(clear_response_pleas(now), now)
         /\ UNCHANGED <<awaited, now, work, searching, posted, counts>>

(* The first connection starts the miners.                                 *)
Spins == m_telemetry' = IF Mining THEN m_telemetry ELSE AppendEntries(m_telemetry)

(* connect_handler of the stratum client sends the login.                  *)
Links == /\ phase = "dialing"
         /\ \/ /\ family = "stratum" /\ phase' = "login"
               /\ pleas' = enqueue_response_plea(clear_response_pleas(now), now)
               /\ UNCHANGED m_telemetry
            \/ family # "stratum" /\ phase' = "open" /\ Spins /\ UNCHANGED pleas
         /\ UNCHANGED <<session, family, m_solution_submitted_max_id, awaited, now, work, searching,
                        posted, found, sent, lost>>

LoginAnswered ==
    /\ phase = "login" /\ phase' = "auth" /\ Spins
    /\ pleas' = enqueue_response_plea(dequeue_response_plea(pleas), now)
    /\ UNCHANGED <<session, family, m_solution_submitted_max_id, awaited, now, work, searching,
                   posted, found, sent, lost>>

AuthAnswered ==
    /\ phase = "auth" /\ phase' = "open"
    /\ pleas' = dequeue_response_plea(pleas)
    /\ UNCHANGED <<session, family, m_solution_submitted_max_id, awaited, now, work, searching,
                   posted, counts>>

(* onWorkReceived.                                                         *)
JobArrives == /\ phase \in {"auth", "open"} /\ work' = session
              /\ UNCHANGED <<client, now, searching, posted, counts>>

(* disconnect_finalize and onDisconnected, which pauses the miners.  What  *)
(* the pool still owes is never answered.                                  *)
Disconnects == /\ phase # "down" /\ phase' = "down"
               /\ pleas' = clear_response_pleas(now)
               /\ m_solution_submitted_max_id' =
                     IF family = "stratum" THEN 0 ELSE m_solution_submitted_max_id
               /\ lost' = [i \in Miners |-> lost[i] + awaited[i]]
               /\ awaited' = Zero /\ work' = 0
               /\ UNCHANGED <<session, family, now, searching, posted, m_telemetry, found, sent>>

(* workloop_timer_elapsed.                                                 *)
GivesUp == /\ family = "stratum" /\ isConnected /\ ResponseTimeout(pleas, now, Timeout)
           /\ Disconnects

Ticks == now < MaxTime /\ now' = now + 1 /\ UNCHANGED <<client, work, searching, posted, counts>>

-----------------------------------------------------------------------------
(* Submission.                                                             *)

(* Mutant: the identifier of the last solution, not the highest.           *)
LastId(id) == id
HighestId(id) == Max({m_solution_submitted_max_id, id})

(* XcbStratumClient::submitSolution and XcbGetworkClient::submitSolution.  *)
Submits(s) ==
    /\ m_solution_submitted_max_id' = HighestId(40 + s.midx)
    /\ awaited' = [awaited EXCEPT ![s.midx] = @ + 1]
    /\ sent' = [sent EXCEPT ![s.midx] = @ + 1]
    /\ pleas' = IF family = "stratum" THEN enqueue_response_plea(pleas, now) ELSE pleas
    /\ UNCHANGED m_telemetry

(* SimulateClient::submitSolution verifies the solution and reports.       *)
Simulates(s) ==
    /\ m_telemetry' = accountSolution(m_telemetry, s.midx, IF s.good THEN "accepted" ELSE "rejected")
    /\ sent' = [sent EXCEPT ![s.midx] = @ + 1]
    /\ UNCHANGED <<m_solution_submitted_max_id, awaited, pleas>>

(* "wasted" and "not authorized" are logged, and not counted.              *)
Drops == UNCHANGED <<m_solution_submitted_max_id, awaited, pleas, m_telemetry, sent>>

onSolutionFound(s) ==
    \/ ~isAuthorized /\ Drops
    \/ isAuthorized /\ family # "simulation" /\ Submits(s)
    \/ isAuthorized /\ family = "simulation" /\ Simulates(s)

submitProofAsync ==
    /\ posted # <<>> /\ posted' = Tail(posted)
    /\ LET s == Head(posted)
       IN  \/ /\ ~noEval /\ ~s.good
              /\ m_telemetry' = accountSolution(m_telemetry, s.midx, "failed")
              /\ UNCHANGED <<m_solution_submitted_max_id, awaited, pleas, sent>>
           \/ (noEval \/ s.good) /\ onSolutionFound(s)
    /\ UNCHANGED <<session, family, phase, now, work, searching, found, lost>>

(* Mutant: a rejection leaves its plea.                                    *)
PleaOfAccepted(kind) == IF kind = "accepted" THEN dequeue_response_plea(pleas) ELSE pleas
PleaAnswered(kind) == dequeue_response_plea(pleas)

(* processResponse of both clients: the identifier names the miner.        *)
Answers(i, kind) ==
    /\ isAuthorized /\ awaited[i] > 0
    /\ awaited' = [awaited EXCEPT ![i] = @ - 1]
    /\ \/ /\ 40 + i <= m_solution_submitted_max_id
          /\ m_telemetry' = accountSolution(m_telemetry, i, kind)
          /\ pleas' = IF family = "stratum" THEN PleaAnswered(kind) ELSE pleas
       \/ 40 + i > m_solution_submitted_max_id /\ UNCHANGED <<m_telemetry, pleas>>
    /\ UNCHANGED <<session, family, phase, m_solution_submitted_max_id, now, work, searching,
                   posted, found, sent, lost>>

-----------------------------------------------------------------------------
IoStep == \/ Restart \/ Dials \/ Links \/ LoginAnswered \/ AuthAnswered \/ JobArrives
          \/ Disconnects \/ GivesUp \/ submitProofAsync
          \/ \E i \in Miners, kind \in {"accepted", "rejected"} : Answers(i, kind)

MinerStep(i) == PicksUp(i) \/ \E good \in BOOLEAN : submitProof(i, good)

Next == IoStep \/ Ticks \/ \E i \in Miners : MinerStep(i)

Spec == Init /\ [][Next]_vars

-----------------------------------------------------------------------------
(* Properties.                                                             *)

(* Every answer of a pool is credited to the miner that found the solution:*)
(* what a miner had submitted is counted as accepted or rejected, still    *)
(* awaited, or was awaited when its connection ended.  The test of the     *)
(* identifier against m_solution_submitted_max_id drops no answer, across  *)
(* connections of any kind and restarts of the miners.                     *)
Credited(i) == IF Mining THEN m_telemetry.miners[i + 1]["accepted"]
                                + m_telemetry.miners[i + 1]["rejected"]
                         ELSE 0
AnswersAreCredited == \A i \in Miners : Credited(i) + awaited[i] + lost[i] = sent[i]

(* The counts of the farm, which the display and the API report, are the   *)
(* sums of those of the miners: accountSolution changes both, and no       *)
(* restart (Farm::start) loses an entry that was counted.                  *)
AccountsAgree == \A k \in Kinds :
    m_telemetry.farm[k] = SumFunction([j \in DOMAIN m_telemetry.miners |-> m_telemetry.miners[j][k]])

(* The pleas of an open stratum connection are the answers its pool owes:  *)
(* no share, accepted, rejected or lost with a connection, leaves a plea   *)
(* that workloop_timer_elapsed would later take for a late answer.         *)
PleasAreAwaited == phase = "open" /\ family = "stratum" => pleas.count = SumFunction(awaited)

(* An answer that is late is noticed: although m_response_plea_older lags  *)
(* behind the queue (dequeue_response_plea stores the time of the answered *)
(* request), it is never later than a request that is still awaited, so    *)
(* that the test of workloop_timer_elapsed misses none.                    *)
LateIsNoticed == \A k \in DOMAIN pleas.times :
    now - pleas.times[k] >= Timeout => ResponseTimeout(pleas, now, Timeout)

(* A connection is given up only if an answer is late.                     *)
OnlyLateIsGivenUp == isConnected /\ ResponseTimeout(pleas, now, Timeout) =>
    \E k \in DOMAIN pleas.times : now - pleas.times[k] >= Timeout

(* A solution goes to the pool that gave its job.                          *)
OwnPool == isAuthorized /\ posted # <<>> => Head(posted).of = session

(* There is one entry per miner ("Detailed ETH hashrate in KH/s per GPU",  *)
(* docs/API.md:271).                                                       *)
OneEntryPerMiner == Len(m_telemetry.miners) <= N

=============================================================================
