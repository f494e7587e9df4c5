-------------------------------- MODULE Farm --------------------------------
(***************************************************************************)
(* The farm and its miners (libethcore/Farm.cpp, libethcore/Miner.cpp,     *)
(* libethash-cpu/CPUMiner.cpp): how a job reaches the threads that hash,   *)
(* and how these are suspended, resumed, started and stopped.              *)
(*                                                                         *)
(* Control threads run the methods of Farm and Miner step by step: `io'    *)
(* handles the pool and the API, `main' stops the program, and `sim' is    *)
(* the thread of SimulateClient, which delivers the jobs of a simulation.  *)
(* Farm methods hold x_minerWork; Miner::setWork holds the miner's x_work, *)
(* Miner::pause its x_pause, and pause writes m_work.header without x_work,*)
(* so that a reader can see it half written (Torn).                        *)
(*                                                                         *)
(* A miner thread is a Worker; of its m_state only the request to stop     *)
(* matters here (see module Worker).                                       *)
(***************************************************************************)
EXTENDS Integers, FiniteSets

CONSTANTS N,             \* number of miners
          MaxJobs,       \* bound: jobs 1..MaxJobs arrive, in this order
          EpochOf,       \* the epoch of each job (job 0: none)
          Sequential,    \* dagLoadMode = DAG_LOAD_MODE_SEQUENTIAL
          SetWorkThread, \* the thread that delivers jobs: "io" or "sim"
          Pauses,        \* whether miners are suspended and resumed
          Stops          \* whether the farm is stopped

ASSUME FarmAssumption == /\ N \in Nat \ {0} /\ MaxJobs \in Nat
                         /\ EpochOf \in [0..MaxJobs -> Nat]
                         /\ SetWorkThread \in {"io", "sim"}
                         /\ {Sequential, Pauses, Stops} \subseteq BOOLEAN

Miners == 0..(N - 1)
Threads == {"io", "main", "sim"}
Reasons == {"farm", "api"}     \* PauseDueToFarmPaused, PauseDueToAPIRequest
NoWork == 0                    \* the zero header
Torn == -1

VARIABLES m_isMining,          \* the miners exist
          job,                 \* the last job delivered
          m_work, m_epoch,     \* per miner: the header and the epoch of m_work
          m_pauseFlags,
          m_new_work,
          stopping,            \* per miner: m_state is no longer Started
          pc, w, w_epoch,      \* per miner: place of the thread and `w' of workLoop,
          current,             \* and `current.epoch'
          s_dagLoadIndex,
          op, at, idx,         \* per control thread: method, place in it and miner
          x_minerWork          \* the control thread that holds the mutex

miner == <<m_work, m_epoch, m_pauseFlags, m_new_work, stopping>>
thread == <<pc, w, w_epoch, current, s_dagLoadIndex>>
control == <<op, at, idx>>
vars == <<m_isMining, job, miner, thread, control, x_minerWork>>

Free == "free"

Methods == {"none", "setWork", "pause", "stop"}
MethodPlaces == {"check", "write", "flag", "clear", "kick", "join"}
LoopPlaces == {"loop", "read", "idle", "init", "loading", "advance", "search", "reset", "out"}

MinerTypes == /\ m_work \in [Miners -> Torn..MaxJobs] /\ m_epoch \in [Miners -> Int]
              /\ m_pauseFlags \in [Miners -> SUBSET Reasons]
              /\ m_new_work \in [Miners -> BOOLEAN] /\ stopping \in [Miners -> BOOLEAN]

ThreadTypes == /\ pc \in [Miners -> LoopPlaces]
               /\ w \in [Miners -> Torn..MaxJobs] /\ w_epoch \in [Miners -> Int]
               /\ current \in [Miners -> Int]
               /\ s_dagLoadIndex \in 0..N

ControlTypes == /\ op \in [Threads -> Methods]
                /\ at \in [Threads -> MethodPlaces]
                /\ idx \in [Threads -> Miners]
                /\ x_minerWork \in Threads \union {Free}

TypeOK == /\ m_isMining \in BOOLEAN /\ job \in 0..MaxJobs
          /\ MinerTypes /\ ThreadTypes /\ ControlTypes

All(v) == [i \in Miners |-> v]

(* The farm just started.                                                  *)
Init == /\ m_isMining = TRUE
        /\ job = 0
        /\ m_work = All(NoWork) /\ m_epoch = All(-1) /\ m_pauseFlags = All({})
        /\ m_new_work = All(FALSE) /\ stopping = All(FALSE)
        /\ pc = All("loop") /\ w = All(NoWork) /\ w_epoch = All(-1) /\ current = All(-1)
        /\ s_dagLoadIndex = 0
        /\ op = [t \in Threads |-> "none"]
        /\ at = [t \in Threads |-> "check"] /\ idx = [t \in Threads |-> 0]
        /\ x_minerWork = Free

-----------------------------------------------------------------------------
(* Control threads.                                                        *)

(* Miner i is inside a method of t that holds x_work, or x_pause.          *)
HoldsWork(t, i) == idx[t] = i /\ op[t] = "setWork" /\ at[t] = "write"
HoldsPause(t, i) == idx[t] = i /\ op[t] = "pause" /\ at[t] \in {"clear", "kick"}

Moves(t, to) == at' = [at EXCEPT ![t] = to] /\ UNCHANGED <<op, idx>>

(* Mutant: notifies without raising the flag.                              *)
KicksNothing(i) == UNCHANGED m_new_work

Kicks(i) == m_new_work' = [m_new_work EXCEPT ![i] = TRUE]

(* Mutant: one miner too many.                                             *)
NextMinerTooFar(t, first) == /\ idx[t] < N
                             /\ idx' = [idx EXCEPT ![t] = @ + 1]
                             /\ at' = [at EXCEPT ![t] = first]
                             /\ UNCHANGED <<op, x_minerWork>>

(* After miner i, a method of the farm goes on with the next one, or ends. *)
NextMiner(t, first) == /\ idx[t] < N - 1
                       /\ idx' = [idx EXCEPT ![t] = @ + 1]
                       /\ at' = [at EXCEPT ![t] = first]
                       /\ UNCHANGED <<op, x_minerWork>>

Returns(t) == /\ op' = [op EXCEPT ![t] = "none"]
              /\ x_minerWork' = IF x_minerWork = t THEN Free ELSE x_minerWork
              /\ at' = [at EXCEPT ![t] = "check"]
              /\ idx' = [idx EXCEPT ![t] = 0]

NextOrReturns(t, first) == \/ NextMiner(t, first)
                           \/ idx[t] = N - 1 /\ Returns(t)

Calls(t, method, first, i) == /\ op[t] = "none"
                              /\ op' = [op EXCEPT ![t] = method]
                              /\ at' = [at EXCEPT ![t] = first]
                              /\ idx' = [idx EXCEPT ![t] = i]

Locks(t) == x_minerWork = Free /\ x_minerWork' = t

(* Farm::setWork.  A job that finds no miners goes to none.                *)
setWork(t) == /\ t = SetWorkThread
              /\ job < MaxJobs
              /\ job' = job + 1
              /\ \/ /\ m_isMining
                    /\ Calls(t, "setWork", "check", 0) /\ Locks(t)
                 \/ /\ ~m_isMining /\ op[t] = "none" /\ x_minerWork = Free
                    /\ UNCHANGED <<control, x_minerWork>>
              /\ UNCHANGED <<m_isMining, miner, thread>>

(* Mutant: pauseTest(PauseDueToFarmPaused) instead of paused().            *)
MinerPausedByFarm(i) == "farm" \in m_pauseFlags[i]

(* Miner::paused.                                                          *)
MinerPaused(i) == m_pauseFlags[i] # {}

(* Miner::setWork: the test of paused(), and the write it decides.         *)
MinerChecksPaused(t) ==
    LET i == idx[t] IN
    /\ op[t] = "setWork" /\ at[t] = "check"
    /\ \A u \in Threads : ~HoldsPause(u, i)
    /\ \/ /\ MinerPaused(i)
          /\ m_work' = [m_work EXCEPT ![i] = NoWork]
          /\ Moves(t, "kick")
       \/ /\ ~MinerPaused(i)
          /\ Moves(t, "write")
          /\ UNCHANGED m_work
    /\ UNCHANGED <<m_isMining, job, m_epoch, m_pauseFlags, m_new_work, stopping, thread, x_minerWork>>

MinerTakesWork(t) ==
    /\ op[t] = "setWork" /\ at[t] = "write"
    /\ m_work' = [m_work EXCEPT ![idx[t]] = job]
    /\ m_epoch' = [m_epoch EXCEPT ![idx[t]] = EpochOf[job]]
    /\ Moves(t, "kick")
    /\ UNCHANGED <<m_isMining, job, m_pauseFlags, m_new_work, stopping, thread, x_minerWork>>

setWorkKicks(t) == /\ op[t] = "setWork" /\ at[t] = "kick"
                   /\ Kicks(idx[t])
                   /\ NextOrReturns(t, "check")
                   /\ UNCHANGED <<m_isMining, job, m_work, m_epoch, m_pauseFlags, stopping, thread>>

(* Farm::pause, which holds x_minerWork, and the API's miner_pausegpu,     *)
(* which does not, call Miner::pause.                                      *)
FarmPauses(t) == /\ t = "io" /\ Pauses /\ m_isMining
                 /\ Calls(t, "pause", "flag", 0) /\ Locks(t)
                 /\ UNCHANGED <<m_isMining, job, miner, thread>>

Stopping == \E t \in Threads : op[t] = "stop"

ApiPauses(t, i) == /\ t = "io" /\ Pauses /\ m_isMining /\ ~Stopping
                   /\ Calls(t, "pause", "flag", i)
                   /\ UNCHANGED <<m_isMining, job, miner, thread, x_minerWork>>

Reason(t) == IF x_minerWork = t THEN "farm" ELSE "api"

pause(t) == LET i == idx[t] IN
    /\ op[t] = "pause"
    /\ \/ /\ at[t] = "flag"
          /\ m_pauseFlags' = [m_pauseFlags EXCEPT ![i] = @ \union {Reason(t)}]
          /\ m_work' = [m_work EXCEPT ![i] = IF @ = NoWork THEN NoWork ELSE Torn]
          /\ Moves(t, "clear")
          /\ UNCHANGED <<m_new_work, x_minerWork>>
       \/ /\ at[t] = "clear"
          /\ m_work' = [m_work EXCEPT ![i] = NoWork]
          /\ Moves(t, "kick")
          /\ UNCHANGED <<m_pauseFlags, m_new_work, x_minerWork>>
       \/ /\ at[t] = "kick"
          /\ Kicks(i)
          /\ \/ x_minerWork = t /\ NextOrReturns(t, "flag")
             \/ x_minerWork # t /\ Returns(t)
          /\ UNCHANGED <<m_work, m_pauseFlags>>
    /\ UNCHANGED <<m_isMining, job, m_epoch, stopping, thread>>

(* Farm::resume and the API's resume of one miner (Miner::resume).         *)
resume(t, S, reason) ==
    /\ t = "io" /\ Pauses /\ m_isMining /\ op[t] = "none"
    /\ \/ reason = "farm" /\ x_minerWork = Free /\ S = Miners
       \/ reason = "api" /\ ~Stopping /\ Cardinality(S) = 1
    /\ m_pauseFlags' = [i \in Miners |-> IF i \in S THEN m_pauseFlags[i] \ {reason}
                                                    ELSE m_pauseFlags[i]]
    /\ UNCHANGED <<m_isMining, job, m_work, m_epoch, m_new_work, stopping, thread, control, x_minerWork>>

(* Farm::stop: every miner is told to stop and kicked, then destroyed in   *)
(* order, which waits for its thread (Worker::stopWorking).                *)
stop(t) == /\ t \in {"io", "main"} /\ Stops /\ m_isMining
           /\ Calls(t, "stop", "kick", 0) /\ Locks(t)
           /\ UNCHANGED <<m_isMining, job, miner, thread>>

triggerStopWorking(t) == /\ op[t] = "stop" /\ at[t] = "kick"
                         /\ stopping' = [stopping EXCEPT ![idx[t]] = TRUE]
                         /\ Kicks(idx[t])
                         /\ \/ NextMiner(t, "kick")
                            \/ /\ idx[t] = N - 1
                               /\ at' = [at EXCEPT ![t] = "join"]
                               /\ idx' = [idx EXCEPT ![t] = 0]
                               /\ UNCHANGED <<op, x_minerWork>>
                         /\ UNCHANGED <<m_isMining, job, m_work, m_epoch, m_pauseFlags, thread>>

stopWorking(t) == /\ op[t] = "stop" /\ at[t] = "join"
                  /\ pc[idx[t]] = "out"
                  /\ NextOrReturns(t, "join")
                  /\ m_isMining' = (idx[t] < N - 1)
                  /\ UNCHANGED <<job, miner, thread>>

(* Farm::start after a stop: new miners, and DAG loading starts over.      *)
start(t) == /\ t = "io" /\ ~m_isMining
            /\ op[t] = "none" /\ x_minerWork = Free
            /\ m_isMining' = TRUE
            /\ m_work' = All(NoWork) /\ m_epoch' = All(-1) /\ m_pauseFlags' = All({})
            /\ m_new_work' = All(FALSE) /\ stopping' = All(FALSE)
            /\ pc' = All("loop") /\ w' = All(NoWork) /\ w_epoch' = All(-1) /\ current' = All(-1)
            /\ s_dagLoadIndex' = 0
            /\ UNCHANGED <<job, control, x_minerWork>>

-----------------------------------------------------------------------------
(* Miner threads: CPUMiner::workLoop, search and Miner::initEpoch.         *)

Goes(i, from, to) == /\ m_isMining
                     /\ pc[i] = from
                     /\ pc' = [pc EXCEPT ![i] = to]
                     /\ UNCHANGED <<m_isMining, job, m_work, m_epoch, m_pauseFlags, stopping,
                                    control, x_minerWork>>

(* Mutant: while (true).                                                   *)
WhileTrue(i) == /\ Goes(i, "loop", "read")
                /\ UNCHANGED <<m_new_work, w, w_epoch, current, s_dagLoadIndex>>

WhileNotStopping(i) == /\ Goes(i, "loop", IF stopping[i] THEN "out" ELSE "read")
                       /\ UNCHANGED <<m_new_work, w, w_epoch, current, s_dagLoadIndex>>

(* work() takes x_work.                                                    *)
work(i) == /\ \A t \in Threads : ~HoldsWork(t, i)
           /\ w' = [w EXCEPT ![i] = m_work[i]]
           /\ w_epoch' = [w_epoch EXCEPT ![i] = m_epoch[i]]
           /\ Goes(i, "read", IF m_work[i] = NoWork THEN "idle"
                              ELSE IF m_epoch[i] # current[i] THEN "init" ELSE "search")
           /\ UNCHANGED <<m_new_work, current, s_dagLoadIndex>>

(* The timed wait ends at a kick, or after 3 seconds.                      *)
timed_wait(i) == /\ Goes(i, "idle", "loop")
                 /\ UNCHANGED <<m_new_work, w, w_epoch, current, s_dagLoadIndex>>

MayLoad(i) == Sequential => s_dagLoadIndex >= i

initEpoch(i) == /\ MayLoad(i)
                /\ Goes(i, "init", IF Sequential /\ stopping[i] THEN "out" ELSE "loading")
                /\ UNCHANGED <<m_new_work, w, w_epoch, current, s_dagLoadIndex>>

initEpoch_internal(i) == /\ Goes(i, "loading", "advance")
                         /\ s_dagLoadIndex' = IF Sequential THEN i + 1 ELSE s_dagLoadIndex
                         /\ UNCHANGED <<m_new_work, w, w_epoch, current>>

AdvanceDagLoad(i) ==
    /\ Goes(i, "advance", "loop")
    /\ s_dagLoadIndex' = IF Sequential /\ s_dagLoadIndex = N THEN 0 ELSE s_dagLoadIndex
    /\ current' = [current EXCEPT ![i] = w_epoch[i]]
    /\ UNCHANGED <<m_new_work, w, w_epoch>>

(* The two tests at the head of each block of nonces.                      *)
search(i) == /\ m_new_work[i] \/ stopping[i]
             /\ Goes(i, "search", IF m_new_work[i] THEN "reset" ELSE "loop")
             /\ UNCHANGED <<m_new_work, w, w_epoch, current, s_dagLoadIndex>>

ResetNewWork(i) == /\ Goes(i, "reset", "loop")
                   /\ m_new_work' = [m_new_work EXCEPT ![i] = FALSE]
                   /\ UNCHANGED <<w, w_epoch, current, s_dagLoadIndex>>

-----------------------------------------------------------------------------
ControlStep(t) == \/ MinerChecksPaused(t) \/ MinerTakesWork(t) \/ setWorkKicks(t)
                  \/ pause(t) \/ triggerStopWorking(t) \/ stopWorking(t)

MinerStep(i) == \/ WhileNotStopping(i) \/ work(i) \/ timed_wait(i)
                \/ initEpoch(i) \/ initEpoch_internal(i) \/ AdvanceDagLoad(i)
                \/ search(i) \/ ResetNewWork(i)

Next == \/ \E t \in Threads : \/ setWork(t) \/ FarmPauses(t) \/ stop(t) \/ start(t)
                              \/ ControlStep(t)
                              \/ \E i \in Miners : ApiPauses(t, i) \/ resume(t, {i}, "api")
                              \/ resume(t, Miners, "farm")
        \/ \E i \in Miners : MinerStep(i)

Spec == Init /\ [][Next]_vars

(* The operating system runs every thread that can go on.                  *)
Fairness == /\ \A t \in Threads : WF_vars(ControlStep(t))
            /\ \A i \in Miners : WF_vars(MinerStep(i))

LiveSpec == Spec /\ Fairness

-----------------------------------------------------------------------------
(* A control thread has changed miner i's m_work and has yet to kick it.   *)
AboutToKick(i) == \E t \in Threads :
    /\ idx[t] = i
    /\ \/ op[t] = "setWork" /\ at[t] = "kick"
       \/ op[t] = "pause" /\ at[t] \in {"clear", "kick"}

(* No job is hashed for long after it was replaced or withdrawn: a miner   *)
(* that searches anything but its m_work has been kicked or is about to be,*)
(* whatever the thread that changed m_work (Miner::setWork, Miner::pause,  *)
(* against the test and reset of m_new_work in CPUMiner::search).          *)
StaleSearchIsKicked == \A i \in Miners :
    pc[i] = "search" /\ w[i] # m_work[i] => m_new_work[i] \/ AboutToKick(i)

(* A suspended miner has nothing to hash: "Void work if this miner is      *)
(* paused" (Miner.cpp:42), for both reasons to suspend it and any          *)
(* succession of them, unless the suspension is still under way.           *)
PausedIsVoid == \A i \in Miners :
    m_pauseFlags[i] # {} => m_work[i] = NoWork \/ \E t \in Threads : HoldsPause(t, i)

(* "When loading of DAG is sequential wait for this instance to become     *)
(* current" (Miner.cpp:136): no two miners load at once.                   *)
OneLoads == Sequential => Cardinality({i \in Miners : pc[i] = "loading"}) <= 1

(* Every miner gets to search the newest job it is given, if it is not     *)
(* taken back by a pause or a stop, whatever happens while its epoch loads.*)
JobIsPickedUp == \A i \in Miners :
    m_work[i] = MaxJobs ~> \/ pc[i] = "search" /\ w[i] = MaxJobs
                           \/ m_work[i] # MaxJobs \/ stopping[i]

(* "All mining activities to a full stop. Implies all mining threads are   *)
(* stopped." (Farm.h:80): a call of Farm::stop ends.                       *)
StopEnds == \A t \in Threads : op[t] = "stop" ~> op[t] = "none"

=============================================================================
