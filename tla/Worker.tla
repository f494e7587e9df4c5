------------------------------- MODULE Worker -------------------------------
(***************************************************************************)
(* A Worker (libdevcore/Worker.cpp): an object that owns one thread and    *)
(* drives it through the atomic m_state.  The threads that hold the object *)
(* (Callers) start it, ask it to stop, stop it and destroy it; every call  *)
(* runs under the mutex x_work, which is also held while the call busy     *)
(* waits for the thread.                                                   *)
(*                                                                         *)
(* The thread itself takes no lock: each of its accesses to m_state is an  *)
(* atomic operation and a step of its own here.                            *)
(***************************************************************************)
CONSTANTS Callers,      \* the threads that may call the methods of the object
          NoCaller      \* x_work is free

ASSUME NoCallerAssumption == NoCaller \notin Callers

VARIABLES m_state,      \* std::atomic<WorkerState>
          thread,       \* where the owned thread is; "none": m_work is null
          ex,           \* the thread's local variable of the same name
          x_work,       \* the caller that holds the mutex
          call,         \* the call every caller is waiting in
          alive         \* the destructor has not completed

workerVars == <<m_state, thread, ex, x_work, call, alive>>

WorkerState == {"Starting", "Started", "Stopping", "Stopped", "Killing"}

ThreadPlaces == {"none", "test", "cas", "workLoop", "left", "restore", "parked", "done"}

WorkerTypeOK == /\ m_state \in WorkerState
                /\ thread \in ThreadPlaces
                /\ ex \in WorkerState
                /\ x_work \in Callers \union {NoCaller}
                /\ call \in [Callers -> {"idle", "starting", "stopping", "killing"}]
                /\ alive \in BOOLEAN

WorkerInit == /\ m_state = "Starting"
              /\ thread = "none"
              /\ ex = "Starting"
              /\ x_work = NoCaller
              /\ call = [c \in Callers |-> "idle"]
              /\ alive = TRUE

-----------------------------------------------------------------------------
(* The callers.                                                            *)

CAS(expected, desired) == m_state' = IF m_state = expected THEN desired ELSE m_state

Enter(c, what) == /\ alive
                  /\ call[c] = "idle"
                  /\ x_work = NoCaller
                  /\ x_work' = c
                  /\ call' = [call EXCEPT ![c] = what]

Return(c) == /\ x_work' = NoCaller
             /\ call' = [call EXCEPT ![c] = "idle"]

startWorking(c) == /\ Enter(c, "starting")
                   /\ \/ /\ thread # "none"
                         /\ CAS("Stopped", "Starting")
                         /\ UNCHANGED thread
                      \/ /\ thread = "none"
                         /\ m_state' = "Starting"
                         /\ thread' = "test"
                   /\ UNCHANGED <<ex, alive>>

startWorkingReturns(c) == /\ call[c] = "starting"
                          /\ m_state # "Starting"
                          /\ Return(c)
                          /\ UNCHANGED <<m_state, thread, ex, alive>>

triggerStopWorking(c) == /\ alive
                         /\ call[c] = "idle"
                         /\ x_work = NoCaller
                         /\ thread # "none"
                         /\ CAS("Started", "Stopping")
                         /\ UNCHANGED <<thread, ex, x_work, call, alive>>

stopWorking(c) == /\ Enter(c, "stopping")
                  /\ thread # "none"
                  /\ CAS("Started", "Stopping")
                  /\ UNCHANGED <<thread, ex, alive>>

stopWorkingReturns(c) == /\ call[c] = "stopping"
                         /\ m_state = "Stopped"
                         /\ Return(c)
                         /\ UNCHANGED <<m_state, thread, ex, alive>>

(* The destructor: the language lets nobody else be inside a method.       *)
Destroy(c) == /\ \A d \in Callers : call[d] = "idle"
              /\ \/ /\ thread # "none"
                    /\ Enter(c, "killing")
                    /\ m_state' = "Killing"
                    /\ UNCHANGED <<thread, ex, alive>>
                 \/ /\ alive
                    /\ thread = "none"
                    /\ alive' = FALSE
                    /\ UNCHANGED <<m_state, thread, ex, x_work, call>>

Joined(c) == /\ call[c] = "killing"
             /\ thread = "done"
             /\ thread' = "none"
             /\ alive' = FALSE
             /\ Return(c)
             /\ UNCHANGED <<m_state, ex>>

-----------------------------------------------------------------------------
(* The thread.                                                             *)

Step(from, to) == /\ thread = from
                  /\ thread' = to
                  /\ UNCHANGED <<x_work, call, alive>>

WhileNotKilling == /\ Step("test", IF m_state = "Killing" THEN "done" ELSE "cas")
                   /\ UNCHANGED <<m_state, ex>>

(* Mutant: the new state is never published.                               *)
SetNothing == /\ Step("cas", "workLoop")
              /\ ex' = m_state
              /\ UNCHANGED m_state

SetStarted == /\ Step("cas", "workLoop")
              /\ CAS("Starting", "Started")
              /\ ex' = m_state

(* shouldStop is what ends the loop of a subclass; the loop may also end   *)
(* by itself, by a failed initialisation or by an exception.               *)
shouldStop == m_state # "Started"

WorkLoopReturns == /\ Step("workLoop", "left")
                   /\ UNCHANGED <<m_state, ex>>

ExchangeStopped == /\ Step("left", "restore")
                   /\ ex' = m_state
                   /\ m_state' = "Stopped"

(* Mutant: the overwritten Killing is not put back.                        *)
RestoreOnlyStarting == /\ Step("restore", "parked")
                       /\ m_state' = IF ex = "Starting" THEN ex ELSE m_state
                       /\ UNCHANGED ex

RestoreRequest == /\ Step("restore", "parked")
                  /\ m_state' = IF ex \in {"Killing", "Starting"} THEN ex ELSE m_state
                  /\ UNCHANGED ex

(* Mutant: the parked thread does not wait.                                *)
WhileNothing == /\ Step("parked", "test")
                /\ UNCHANGED <<m_state, ex>>

WhileStopped == /\ m_state # "Stopped"
                /\ Step("parked", "test")
                /\ UNCHANGED <<m_state, ex>>

ThreadStep == \/ WhileNotKilling
              \/ SetStarted
              \/ ExchangeStopped
              \/ RestoreRequest
              \/ WhileStopped

CallerStep(c) == \/ startWorking(c) \/ startWorkingReturns(c) \/ triggerStopWorking(c)
                 \/ stopWorking(c) \/ stopWorkingReturns(c) \/ Destroy(c) \/ Joined(c)

WorkerNext == \/ \E c \in Callers : CallerStep(c)
              \/ ThreadStep
              \/ WorkLoopReturns

WorkerSpec == WorkerInit /\ [][WorkerNext]_workerVars

(* Every thread is scheduled, a busy wait sees its condition, and a work   *)
(* loop that should stop does return.                                      *)
Fairness == /\ WF_workerVars(ThreadStep)
            /\ WF_workerVars(shouldStop /\ WorkLoopReturns)
            /\ \A c \in Callers : WF_workerVars(\/ startWorkingReturns(c)
                                                \/ stopWorkingReturns(c)
                                                \/ Joined(c))

LiveSpec == WorkerSpec /\ Fairness

-----------------------------------------------------------------------------
(* Whoever reads Stopped, as stopWorking does before it returns, knows     *)
(* that the thread is out of workLoop and stays out: "waits till thread    *)
(* has stopped" (Worker.h:61).                                             *)
StoppedIsOutside == m_state = "Stopped" => thread \in {"restore", "parked"}

(* The Killing of the destructor is never lost.  The thread overwrites it  *)
(* with Stopped when it leaves workLoop, but only until it has put back    *)
(* what it overwrote.                                                      *)
KillIsKept == (\E c \in Callers : call[c] = "killing") =>
                 \/ m_state = "Killing"
                 \/ /\ thread = "restore"
                    /\ ex = "Killing"

(* A startWorking that waits for the thread to pick up Starting waits for  *)
(* a thread that is on its way to do so, and that does not overwrite it.   *)
StartIsSeen == (thread # "none" /\ m_state = "Starting") =>
                  \/ thread \in {"parked", "test", "cas"}
                  \/ /\ thread = "restore"
                     /\ ex \in {"Started", "Stopping"}

(* What the thread can find in m_state at each of its places.  In          *)
(* particular the exchange at Worker.cpp:72 never finds Starting, so that  *)
(* half of the test at Worker.cpp:74 is never true.                        *)
Phase == [none     |-> WorkerState,
          test     |-> {"Starting", "Killing"},
          cas      |-> {"Starting", "Killing"},
          workLoop |-> {"Started", "Stopping", "Killing"},
          left     |-> {"Started", "Stopping", "Killing"},
          restore  |-> {"Stopped", "Starting", "Killing"},
          parked   |-> {"Stopped", "Starting", "Killing"},
          done     |-> {"Killing"}]

PhaseInv == /\ m_state \in Phase[thread]
            /\ thread = "restore" => ex \in {"Started", "Stopping", "Killing"}

(* The mutex is held by exactly the caller that is inside a call.          *)
HolderIsInside == \A c \in Callers : x_work = c <=> call[c] # "idle"

(* Nobody but the destructor writes Killing.                               *)
KillingHasOwner == (/\ thread # "none"
                    /\ m_state = "Killing" \/ (thread = "restore" /\ ex = "Killing"))
                      => \E c \in Callers : call[c] = "killing"

(* The inductive invariant: the three properties above together with what  *)
(* the thread knows at each place and who holds the mutex.                 *)
IndInv == /\ WorkerTypeOK
          /\ HolderIsInside
          /\ PhaseInv
          /\ KillingHasOwner
          /\ StoppedIsOutside
          /\ KillIsKept
          /\ StartIsSeen

(* No call waits for ever: the thread answers every startWorking, every    *)
(* stopWorking and the join of the destructor.                             *)
CallsReturn == \A c \in Callers : call[c] # "idle" ~> call[c] = "idle"

=============================================================================
