----------------------------- MODULE MinerThread -----------------------------
(***************************************************************************)
(* A miner is a Worker (module Worker) whose loop hashes blocks of nonces. *)
(* Its hash rate is passed to the io thread by a handshake of two atomics  *)
(* (libethcore/Miner.cpp): Farm::collectData reads the rate and sets       *)
(* m_hashRateUpdate, the thread clears it after its next block and stores  *)
(* a new rate; a request that nobody has answered by the next collection   *)
(* makes the rate 0.                                                       *)
(*                                                                         *)
(* Each access to an atomic is a step.  The io thread is one of the        *)
(* callers, and does nothing else while it collects.  A rate is a number   *)
(* of the collection in which it was measured, 0 for none.                 *)
(***************************************************************************)
EXTENDS Worker, Integers

CONSTANTS IoThread,         \* the caller that runs collectData
          MaxCollections    \* bound: collections

ASSUME MinerThreadAssumption == IoThread \in Callers /\ MaxCollections \in Nat

VARIABLES m_hashRateUpdate, m_hashRate,
          update,           \* the thread is between its exchange and its store
          collect,          \* the place of the io thread in collectData
          hashrate,         \* of the miner, in m_telemetry
          collections,      \* number of collections begun
          last              \* history: the collection after which the last block was hashed

rate == <<m_hashRateUpdate, m_hashRate, update, collect, hashrate, collections, last>>

CollectPlaces == {"none", "trigger", "zero", "dangling"}

RateTypeOK == /\ m_hashRateUpdate \in BOOLEAN /\ update \in BOOLEAN
              /\ collect \in CollectPlaces /\ collections \in 0..MaxCollections
              /\ m_hashRate \in 0..MaxCollections /\ hashrate \in 0..MaxCollections
              /\ last \in 0..MaxCollections

RateInit == /\ m_hashRateUpdate = FALSE /\ m_hashRate = 0 /\ update = FALSE
            /\ collect = "none" /\ hashrate = 0 /\ collections = 0 /\ last = 0

-----------------------------------------------------------------------------
(* The thread, after a block: Miner::updateHashRate.                       *)

updateHashRate == /\ thread = "workLoop" /\ ~update
                  /\ last' = collections
                  /\ update' = m_hashRateUpdate
                  /\ m_hashRateUpdate' = FALSE
                  /\ UNCHANGED <<m_hashRate, collect, hashrate, collections>>

StoresRate == /\ update /\ update' = FALSE
              /\ m_hashRate' = collections /\ last' = collections
              /\ UNCHANGED <<m_hashRateUpdate, collect, hashrate, collections>>

-----------------------------------------------------------------------------
(* The io thread: Farm::collectData, for this miner.  A paused one is      *)
(* reported with 0.                                                        *)

RetrieveHashRate == /\ alive /\ collect = "none" /\ call[IoThread] = "idle"
                    /\ collections < MaxCollections
                    /\ collections' = collections + 1
                    /\ hashrate' \in {0, m_hashRate}
                    /\ collect' = "trigger"
                    /\ UNCHANGED <<m_hashRateUpdate, m_hashRate, update, last>>

(* Mutant: a request that was not answered is left at that.                *)
TriggersOnly == /\ collect = "trigger"
                /\ m_hashRateUpdate' = TRUE
                /\ collect' = IF alive THEN "none" ELSE "dangling"
                /\ UNCHANGED <<m_hashRate, update, hashrate, collections, last>>

TriggerHashRateUpdate ==
    /\ collect = "trigger"
    /\ m_hashRateUpdate' = TRUE
    /\ collect' = CASE ~alive -> "dangling"
                    [] alive /\ m_hashRateUpdate -> "zero"
                    [] OTHER -> "none"
    /\ UNCHANGED <<m_hashRate, update, hashrate, collections, last>>

AssumesDead == /\ collect = "zero"
               /\ collect' = IF alive THEN "none" ELSE "dangling"
               /\ m_hashRate' = 0
               /\ UNCHANGED <<m_hashRateUpdate, update, hashrate, collections, last>>

-----------------------------------------------------------------------------
RateStep == \/ updateHashRate \/ StoresRate
            \/ RetrieveHashRate \/ TriggerHashRateUpdate \/ AssumesDead

(* The loop is left between two blocks.                                    *)
WorkerStep == \/ \E c \in Callers : CallerStep(c) /\ (c = IoThread => collect = "none")
              \/ ThreadStep
              \/ ~update /\ WorkLoopReturns

MinerInit == WorkerInit /\ RateInit

MinerNext == \/ WorkerStep /\ UNCHANGED rate
             \/ RateStep /\ UNCHANGED workerVars

(* The io thread also goes on with a collection it has begun.              *)
MinerSpec == /\ MinerInit /\ [][MinerNext]_<<workerVars, rate>> /\ Fairness
             /\ WF_<<workerVars, rate>>(StoresRate /\ UNCHANGED workerVars)
             /\ WF_<<workerVars, rate>>((TriggerHashRateUpdate \/ AssumesDead) /\ UNCHANGED workerVars)

-----------------------------------------------------------------------------
(* Properties.                                                             *)

Idle == IF update THEN 0 ELSE collections - last

(* A miner that has stopped hashing, because it was stopped, is suspended  *)
(* or hangs, is reported with a rate of 0 by the third collection after    *)
(* its last block ("GPU didn't respond to last trigger, assume it's dead", *)
(* Miner.cpp:128), whatever the accesses to the two atomics interleave     *)
(* with.                                                                   *)
IdleIsZero == Idle >= 3 => hashrate = 0

(* What makes it so, by the number of collections begun since the last     *)
(* block: the first leaves a request behind, the second, when it ends, a   *)
(* rate of 0, and the third reports it.                                    *)
RateInv == /\ RateTypeOK /\ last <= collections
           /\ Idle >= 2 \/ (Idle = 1 /\ collect # "trigger") => m_hashRateUpdate
           /\ Idle >= 3 \/ (Idle = 2 /\ collect = "none") => m_hashRate = 0
           /\ IdleIsZero

(* A miner that has answered a request is not taken for dead.              *)
AnsweredIsAlive == [][AssumesDead => m_hashRateUpdate \/ collections - m_hashRate >= 2]_<<workerVars, rate>>

(* collectData uses miners that exist: "Process miners" (Farm.cpp:384)     *)
(* reads m_miners without x_minerWork, which Farm::stop holds when it      *)
(* destroys them.                                                          *)
MinersAreThere == collect # "dangling"

=============================================================================
