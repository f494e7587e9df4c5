------------------------------- MODULE MinerProofs ---------------------------
(***************************************************************************)
(* A miner, for any constants: the handshake of its thread with the        *)
(* callers of Worker, the hash rate it reports, the part of the dataset    *)
(* each thread writes, and what becomes of the solutions it finds.         *)
(***************************************************************************)
EXTENDS MinerThread, Dataset, Solutions, Recursion, SequenceTheorems, FiniteSetTheorems, TLAPS

(* A worker that was just created satisfies IndInv (module Worker).        *)
LEMMA InitIndInv == WorkerInit => IndInv
  BY NoCallerAssumption DEF WorkerInit, IndInv, WorkerTypeOK, HolderIsInside, PhaseInv, Phase, KillingHasOwner,
     StoppedIsOutside, KillIsKept, StartIsSeen, WorkerState, ThreadPlaces

(* Every step of a caller and every step of the thread preserves IndInv.   *)
LEMMA NextIndInv == IndInv /\ [WorkerNext]_workerVars => IndInv'
<1> SUFFICES ASSUME IndInv, [WorkerNext]_workerVars
             PROVE  IndInv'
  OBVIOUS
<1> USE NoCallerAssumption DEF IndInv, WorkerTypeOK, HolderIsInside, PhaseInv, Phase, KillingHasOwner,
        StoppedIsOutside, KillIsKept, StartIsSeen, WorkerState, ThreadPlaces
<1>1. ASSUME NEW c \in Callers, startWorking(c)
      PROVE  IndInv'
  BY <1>1 DEF startWorking, Enter, CAS
<1>2. ASSUME NEW c \in Callers, startWorkingReturns(c)
      PROVE  IndInv'
  BY <1>2 DEF startWorkingReturns, Return
<1>3. ASSUME NEW c \in Callers, triggerStopWorking(c)
      PROVE  IndInv'
  BY <1>3 DEF triggerStopWorking, CAS
<1>4. ASSUME NEW c \in Callers, stopWorking(c)
      PROVE  IndInv'
  BY <1>4 DEF stopWorking, Enter, CAS
<1>5. ASSUME NEW c \in Callers, stopWorkingReturns(c)
      PROVE  IndInv'
  BY <1>5 DEF stopWorkingReturns, Return
<1>6. ASSUME NEW c \in Callers, Destroy(c)
      PROVE  IndInv'
  <2>1. CASE thread # "none"
    BY <1>6, <2>1 DEF Destroy, Enter
  <2>2. CASE thread = "none"
    <3>1. alive' = FALSE /\ UNCHANGED <<m_state, thread, ex, x_work, call>>
      BY <1>6, <2>2 DEF Destroy
    <3>2. QED
      BY ZenonT(60), <3>1
  <2>3. QED
    BY <2>1, <2>2
<1>7. ASSUME NEW c \in Callers, Joined(c)
      PROVE  IndInv'
  BY Zenon, <1>7 DEF Joined, Return
<1>8. CASE WhileNotKilling
  BY <1>8 DEF WhileNotKilling, Step
<1>9. CASE SetStarted
  BY <1>9 DEF SetStarted, Step, CAS
<1>10. CASE WorkLoopReturns
  BY <1>10 DEF WorkLoopReturns, Step
<1>11. CASE ExchangeStopped
  BY <1>11 DEF ExchangeStopped, Step
<1>12. CASE RestoreRequest
  BY <1>12 DEF RestoreRequest, Step
<1>13. CASE WhileStopped
  BY <1>13 DEF WhileStopped, Step
<1>14. CASE UNCHANGED workerVars
  BY <1>14 DEF workerVars
<1>15. QED
  BY <1>1, <1>2, <1>3, <1>4, <1>5, <1>6, <1>7, <1>8, <1>9, <1>10, <1>11, <1>12, <1>13, <1>14
     DEF WorkerNext, CallerStep, ThreadStep

(* In every reachable state, whatever the callers do and however the       *)
(* thread is scheduled, all the parts of IndInv hold: the types, the       *)
(* mutex, and the three properties of the handshake.                       *)
THEOREM WorkerSafety == WorkerSpec => []IndInv
  BY InitIndInv, NextIndInv, PTL DEF WorkerSpec

(* A caller of stopWorking that sees Stopped knows the thread is outside   *)
(* of workLoop (Worker.h:61).                                              *)
THEOREM StopWaitsForThread == WorkerSpec => []StoppedIsOutside
<1>1. IndInv => StoppedIsOutside
  BY DEF IndInv
<1>2. QED
  BY <1>1, WorkerSafety, PTL

(* A startWorking that waits is seen by the thread, which is on its way to *)
(* take Starting (Worker.cpp:47-53).                                       *)
THEOREM StartIsHeard == WorkerSpec => []StartIsSeen
<1>1. IndInv => StartIsSeen
  BY DEF IndInv
<1>2. QED
  BY <1>1, WorkerSafety, PTL

(* The destructor's request survives the exchange the thread does when it  *)
(* leaves workLoop, so the join ends.                                      *)
THEOREM DestructorIsHeard == WorkerSpec => []KillIsKept
<1>1. IndInv => KillIsKept
  BY DEF IndInv
<1>2. QED
  BY <1>1, WorkerSafety, PTL

-----------------------------------------------------------------------------
(* A miner that was just created satisfies RateInv (module MinerThread).   *)
LEMMA InitRateInv == RateInit => RateInv
<1> SUFFICES ASSUME RateInit PROVE RateInv
  OBVIOUS
<1>1. Idle = 0
  <2>1. Idle = collections - last
    BY Zenon DEF RateInit, Idle
  <2> QED
    BY <2>1 DEF RateInit
<1>2. RateTypeOK
  <2>1. 0 \in 0..MaxCollections
    BY MinerThreadAssumption
  <2> QED
    BY <2>1, Zenon DEF RateInit, RateTypeOK, CollectPlaces
<1>3. last <= collections
  BY DEF RateInit
<1>4. Idle \notin {1, 2} /\ ~(Idle >= 2) /\ ~(Idle >= 3)
  BY <1>1
<1> QED
  BY <1>2, <1>3, <1>4, Zenon DEF RateInv, IdleIsZero

(* Steps of the callers and of the thread's own control leave the rate     *)
(* alone; each access to the two atomics preserves RateInv.                *)
LEMMA NextRateInv == RateInv /\ [MinerNext]_<<workerVars, rate>> => RateInv'
<1> SUFFICES ASSUME RateInv, [MinerNext]_<<workerVars, rate>> PROVE RateInv'
  OBVIOUS
<1> USE MinerThreadAssumption DEF RateInv, RateTypeOK, CollectPlaces, IdleIsZero
<1>1. CASE updateHashRate
  <2>1. Idle' = 0
    <3>1. Idle' \in {0, collections' - last'}
      BY Zenon DEF Idle
    <3> QED
      BY <1>1, <3>1 DEF updateHashRate
  <2>2. RateTypeOK' /\ last' <= collections'
    <3>1. RateTypeOK'
      BY <1>1, Zenon DEF updateHashRate
    <3>2. last' <= collections'
      BY <1>1 DEF updateHashRate
    <3> QED
      BY <3>1, <3>2
  <2>3. Idle' \notin {1, 2} /\ ~(Idle' >= 2) /\ ~(Idle' >= 3)
    BY <2>1
  <2> QED
    BY <2>2, <2>3, Zenon
<1>2. CASE StoresRate
  <2>1. Idle' = 0
    <3>1. Idle' \in {0, collections' - last'}
      BY Zenon DEF Idle
    <3> QED
      BY <1>2, <3>1 DEF StoresRate
  <2>2. RateTypeOK' /\ last' <= collections'
    <3>1. RateTypeOK'
      BY <1>2, Zenon DEF StoresRate
    <3>2. last' <= collections'
      BY <1>2 DEF StoresRate
    <3> QED
      BY <3>1, <3>2
  <2>3. Idle' \notin {1, 2} /\ ~(Idle' >= 2) /\ ~(Idle' >= 3)
    BY <2>1
  <2> QED
    BY <2>2, <2>3, Zenon
<1> USE DEF Idle
<1>3. CASE RetrieveHashRate
  BY <1>3 DEF RetrieveHashRate
<1>4. CASE TriggerHashRateUpdate
  BY <1>4 DEF TriggerHashRateUpdate
<1>5. CASE AssumesDead
  BY <1>5 DEF AssumesDead
<1>6. CASE UNCHANGED rate
  BY <1>6 DEF rate
<1> QED
  BY <1>1, <1>2, <1>3, <1>4, <1>5, <1>6 DEF MinerNext, RateStep

(* The third collection after its last block reports a miner with a rate   *)
(* of 0 (Miner::TriggerHashRateUpdate), for any interleaving.              *)
THEOREM IdleMinersAreReported == MinerSpec => []IdleIsZero
<1>1. MinerInit => RateInv
  BY InitRateInv DEF MinerInit
<1>2. RateInv => IdleIsZero
  BY DEF RateInv
<1> QED
  BY <1>1, <1>2, NextRateInv, PTL DEF MinerSpec

(* A miner implements Worker: the handshake of the hash rate does not      *)
(* disturb the states of its thread.                                       *)
THEOREM MinerIsWorker == MinerSpec => WorkerSpec
<1>1. MinerInit => WorkerInit
  BY DEF MinerInit
<1>2. [MinerNext]_<<workerVars, rate>> => [WorkerNext]_workerVars
  BY DEF MinerNext, WorkerStep, WorkerNext
<1> QED
  BY <1>1, <1>2, PTL DEF MinerSpec, WorkerSpec

(* So a miner that was stopped is out of its loop when stopWorking returns.*)
THEOREM StoppedMinerIsOutside == MinerSpec => []StoppedIsOutside
  BY MinerIsWorker, StopWaitsForThread, PTL

-----------------------------------------------------------------------------

-----------------------------------------------------------------------------
(* Each part ends where the next one starts, and the last one at the end   *)
(* of the dataset.                                                         *)
LEMMA PartsMeet ==
    ASSUME NEW items \in Nat, NEW threads \in Nat \ {0}, NEW i \in 0..(threads - 1)
    PROVE  /\ perThread(items, threads) \in Nat
           /\ startItem(i, items, threads) \in Nat
           /\ startItem(i, items, threads) + count(i, items, threads)
                = IF i = threads - 1 THEN items ELSE startItem(i + 1, items, threads)
<1> DEFINE p == perThread(items, threads)
           r == remainder(items, threads)
<1>1. p \in Nat /\ r \in Nat /\ items = threads * p + r
  BY DEF perThread, remainder
<1>2. (i + 1) * p = i * p + p BY <1>1
<1>3. i * p \in Nat BY <1>1
<1>4. CASE i = threads - 1
  <2>1. threads * p = (i + 1) * p BY <1>4
  <2> QED BY <1>1, <1>2, <1>3, <1>4, <2>1 DEF startItem, count
<1>5. CASE i # threads - 1
  BY <1>1, <1>2, <1>3, <1>5 DEF startItem, count
<1> QED BY <1>4, <1>5

(* The threads of getRandomYDataset write disjoint parts of the dataset,   *)
(* so that they need no lock, ...                                          *)
THEOREM PartsAreDisjoint ==
    ASSUME NEW items \in Nat, NEW threads \in Nat \ {0},
           NEW i \in 0..(threads - 1), NEW j \in 0..(threads - 1), i < j
    PROVE  Part(i, items, threads) \cap Part(j, items, threads) = {}
<1> DEFINE p == perThread(items, threads)
<1>1. startItem(i, items, threads) + count(i, items, threads) = startItem(i + 1, items, threads)
  BY PartsMeet
<1>2. p \in Nat BY PartsMeet
<1>3. (i + 1) * p <= j * p BY <1>2, Products
<1>4. (i + 1) * p \in Nat /\ j * p \in Nat BY <1>2
<1> QED BY <1>1, <1>3, <1>4 DEF Part, startItem

(* ... and leave no item of it out, whatever the remainder.                *)
THEOREM PartsCover ==
    ASSUME NEW items \in Nat, NEW threads \in Nat \ {0}, NEW x \in 0..(items - 1)
    PROVE  \E i \in 0..(threads - 1) : x \in Part(i, items, threads)
<1> DEFINE p == perThread(items, threads)
           r == remainder(items, threads)
           end == threads - 1
<1>1. p \in Nat BY PartsMeet
<1>2. CASE end * p <= x
  <2>1. startItem(end, items, threads) + count(end, items, threads) = items BY PartsMeet
  <2> QED BY <1>2, <2>1 DEF Part, startItem
<1>3. CASE x < end * p
  <2>1. p > 0 BY <1>1, <1>3
  <2> DEFINE i == x \div p
  <2>2. i \in Nat /\ i * p <= x /\ x < i * p + p BY <1>1, <2>1
  <2>3. i < end
    <3>1. SUFFICES ASSUME end <= i PROVE FALSE BY <2>2
    <3>2. end * p <= i * p BY <1>1, <2>2, <3>1, Products
    <3>3. end * p \in Nat /\ i * p \in Nat BY <1>1, <2>2
    <3> QED BY <1>3, <2>2, <3>2, <3>3
  <2>4. i \in 0..end /\ count(i, items, threads) = p BY <1>1, <2>2, <2>3 DEF count
  <2>5. x \in Part(i, items, threads) BY <2>2, <2>4 DEF Part, startItem
  <2> QED BY <2>4, <2>5
<1>4. end * p \in Nat BY <1>1
<1> QED BY <1>2, <1>3, <1>4

-----------------------------------------------------------------------------
(* Sums.                                                                   *)

(* SumFunctionOnSet picks the elements one after the other; AddsUp is the  *)
(* recursion by which it adds their values.                                *)
Picked(s) == CHOOSE x \in s : TRUE

AddsUp(it, f, S) ==
    it = [s \in SUBSET S |-> IF s = {} THEN 0 ELSE f[Picked(s)] + it[s \ {Picked(s)}]]

(* The sum over S is the value at S of the function that adds up its       *)
(* subsets.                                                                *)
LEMMA SumIsAddedUp == ASSUME NEW f, NEW S
                   PROVE  SumFunctionOnSet(f, S) = (CHOOSE it : AddsUp(it, f, S))[S]
  BY Zenon DEF SumFunctionOnSet, FoldFunctionOnSet, MapThenFoldSet, AddsUp, Picked

(* Induction over the subsets of a finite set.                             *)
LEMMA SubsetInduction ==
    ASSUME NEW S, IsFiniteSet(S), NEW G \in SUBSET (SUBSET S), {} \in G,
           \A s \in SUBSET S : s # {} /\ (\A x \in s : s \ {x} \in G) => s \in G
    PROVE  G = SUBSET S
<1> DEFINE T == {n \in Nat : \A s \in SUBSET S : Cardinality(s) <= n => s \in G}
<1>0. \A s \in SUBSET S : IsFiniteSet(s) /\ Cardinality(s) \in Nat
  BY Zenon, FS_Subset, FS_CardinalityType
<1>1. 0 \in T
  <2>1. ASSUME NEW s \in SUBSET S, Cardinality(s) <= 0 PROVE s = {}
    <3>1. Cardinality(s) = 0 BY <1>0, <2>1
    <3> QED BY Zenon, <1>0, <3>1, FS_EmptySet
  <2> QED BY <2>1
<1>2. ASSUME NEW n \in T PROVE n + 1 \in T
  <2> SUFFICES ASSUME NEW s \in SUBSET S, Cardinality(s) <= n + 1 PROVE s \in G
    BY <1>2
  <2>1. ASSUME NEW x \in s PROVE s \ {x} \in G
    <3>1. Cardinality(s \ {x}) = Cardinality(s) - 1 BY Zenon, <1>0, FS_RemoveElement
    <3>2. Cardinality(s \ {x}) <= n BY <1>0, <3>1
    <3> QED BY Zenon, <1>2, <3>2
  <2> QED BY Zenon, <2>1
<1>3. T = Nat
  <2> HIDE DEF T
  <2>1. T \subseteq Nat BY DEF T
  <2> QED BY <1>1, <1>2, <2>1, Induction
<1>4. ASSUME NEW s \in SUBSET S PROVE s \in G
  <2>1. Cardinality(s) \in T BY <1>0, <1>3
  <2>2. Cardinality(s) <= Cardinality(s) BY <1>0
  <2> QED BY Zenon, <2>1, <2>2
<1> QED BY Zenon, <1>4

(* Two such functions agree where both are defined.                        *)
LEMMA AddingAgrees ==
    ASSUME NEW S, IsFiniteSet(S), NEW f, NEW t \in SUBSET S, NEW u \in SUBSET S, NEW it, NEW ut,
           AddsUp(it, f, t), AddsUp(ut, f, u)
    PROVE  \A s \in SUBSET S : s \subseteq t /\ s \subseteq u => it[s] = ut[s]
<1> DEFINE G == {s \in SUBSET S : s \subseteq t /\ s \subseteq u => it[s] = ut[s]}
<1>1. {} \in G
  BY DEF AddsUp
<1>2. ASSUME NEW s \in SUBSET S, s # {}, \A x \in s : s \ {x} \in G PROVE s \in G
  <2> SUFFICES ASSUME s \subseteq t, s \subseteq u PROVE it[s] = ut[s]
    OBVIOUS
  <2>1. Picked(s) \in s
    BY Zenon, <1>2 DEF Picked
  <2>2. it[s \ {Picked(s)}] = ut[s \ {Picked(s)}]
    BY <1>2, <2>1
  <2>3. /\ it[s] = f[Picked(s)] + it[s \ {Picked(s)}]
        /\ ut[s] = f[Picked(s)] + ut[s \ {Picked(s)}]
    BY Zenon, <1>2 DEF AddsUp
  <2> QED BY <2>2, <2>3
<1>3. G = SUBSET S
  <2> HIDE DEF G
  <2>1. G \in SUBSET (SUBSET S) BY DEF G
  <2> QED BY Zenon, <1>1, <1>2, <2>1, SubsetInduction
<1> QED BY Zenon, <1>3

(* There is one for every finite set, and its last value is the sum.       *)
LEMMA AddingEnds ==
    ASSUME NEW S, IsFiniteSet(S), NEW f, NEW t \in SUBSET S
    PROVE  \E it : AddsUp(it, f, t) /\ it[t] = SumFunctionOnSet(f, t)
<1> DEFINE G == {s \in SUBSET S : \E it : AddsUp(it, f, s)}
           W(s) == CHOOSE it : AddsUp(it, f, s)
<1>1. {} \in G
  <2>1. AddsUp([s \in SUBSET {} |-> 0], f, {})
    BY DEF AddsUp
  <2> QED BY Zenon, <2>1
<1>2. ASSUME NEW s \in G, NEW u \in SUBSET s PROVE u \in G
  <2>1. PICK it : AddsUp(it, f, s)
    BY Zenon
  <2> DEFINE ut == [v \in SUBSET u |-> it[v]]
  <2>2. ASSUME NEW v \in SUBSET u
        PROVE  ut[v] = IF v = {} THEN 0 ELSE f[Picked(v)] + ut[v \ {Picked(v)}]
    <3>1. ut[v] = it[v] /\ ut[v \ {Picked(v)}] = it[v \ {Picked(v)}]
      OBVIOUS
    <3>2. it[v] = IF v = {} THEN 0 ELSE f[Picked(v)] + it[v \ {Picked(v)}]
      BY Zenon, <2>1 DEF AddsUp
    <3> HIDE DEF ut
    <3> QED BY <3>1, <3>2
  <2>3. ut = [v \in SUBSET u |-> ut[v]]
    OBVIOUS
  <2>4. AddsUp(ut, f, u)
    <3> HIDE DEF ut
    <3> QED BY Zenon, <2>2, <2>3 DEF AddsUp
  <2> QED BY Zenon, <2>4
<1>3. ASSUME NEW s \in G PROVE AddsUp(W(s), f, s)
  BY Zenon
<1>4. ASSUME NEW s \in SUBSET S, s # {}, \A x \in s : s \ {x} \in G PROVE s \in G
  <2> DEFINE p == Picked(s)
             it == [u \in SUBSET s |-> IF u = s THEN f[p] + W(s \ {p})[s \ {p}] ELSE W(u)[u]]
  <2>1. p \in s
    BY Zenon, <1>4 DEF Picked
  <2>2. ASSUME NEW u \in SUBSET s, u # s PROVE u \in G
    <3>1. PICK x \in s : x \notin u
      BY Zenon, <2>2
    <3>2. u \in SUBSET (s \ {x})
      BY Zenon, <3>1
    <3> QED BY ZenonT(60), <1>2, <1>4, <3>2
  <2>3. ASSUME NEW u \in SUBSET s
        PROVE  it[u] = IF u = {} THEN 0 ELSE f[Picked(u)] + it[u \ {Picked(u)}]
    <3>1. CASE u = s
      <4>1. s \ {p} \in SUBSET s /\ s \ {p} # s
        BY Zenon, <2>1
      <4>2. it[s] = f[p] + W(s \ {p})[s \ {p}] /\ it[s \ {p}] = W(s \ {p})[s \ {p}]
        <5> HIDE DEF W, p
        <5> QED BY <4>1
      <4> HIDE DEF W, it
      <4> QED BY Zenon, <1>4, <3>1, <4>2
    <3>2. CASE u # s /\ u = {}
      <4>1. u \in G /\ it[u] = W(u)[u]
        <5> HIDE DEF W, p, G
        <5> QED BY <2>2, <3>2
      <4>2. AddsUp(W(u), f, u)
        BY Zenon, <1>3, <4>1
      <4> HIDE DEF W, p, it
      <4> QED BY <3>2, <4>1, <4>2 DEF AddsUp
    <3>3. CASE u # s /\ u # {}
      <4> DEFINE q == Picked(u)
                 v == u \ {q}
      <4>1. q \in u
        BY Zenon, <3>3 DEF Picked
      <4>2. v \in SUBSET s /\ v # s /\ v \in SUBSET u /\ v \in SUBSET S /\ u \in SUBSET S
        BY Zenon, <4>1
      <4>3. it[u] = W(u)[u] /\ it[v] = W(v)[v]
        <5> HIDE DEF W, p, v
        <5> QED BY <3>3, <4>2
      <4>4. AddsUp(W(u), f, u) /\ AddsUp(W(v), f, v)
        <5>1. u \in G /\ v \in G
          <6> HIDE DEF G, v
          <6> QED BY Zenon, <2>2, <3>3, <4>2
        <5> QED BY Zenon, <1>3, <5>1
      <4>5. W(u)[v] = W(v)[v]
        <5> HIDE DEF W, v
        <5>1. \A x \in SUBSET S : x \subseteq u /\ x \subseteq v => W(u)[x] = W(v)[x]
          BY <4>2, <4>4, AddingAgrees
        <5> QED BY Zenon, <4>2, <5>1
      <4>6. W(u)[u] = f[q] + W(u)[v]
        <5>1. PICK wt : wt = W(u)
          OBVIOUS
        <5>2. AddsUp(wt, f, u)
          BY Zenon, <4>4, <5>1
        <5>3. wt[u] = f[q] + wt[v]
          <6> HIDE DEF W
          <6> QED BY Zenon, <3>3, <5>2 DEF AddsUp
        <5> QED BY Zenon, <5>1, <5>3
      <4> HIDE DEF W, it
      <4> QED BY Zenon, <3>3, <4>3, <4>5, <4>6
    <3> QED BY Zenon, <3>1, <3>2, <3>3
  <2>4. it = [u \in SUBSET s |-> it[u]]
    <3> HIDE DEF W, p
    <3> QED OBVIOUS
  <2>5. AddsUp(it, f, s)
    <3> HIDE DEF it
    <3> QED BY Zenon, <2>3, <2>4 DEF AddsUp
  <2> QED BY Zenon, <2>5
<1>5. G = SUBSET S
  <2> HIDE DEF G
  <2>1. G \in SUBSET (SUBSET S) BY DEF G
  <2> QED BY Zenon, <1>1, <1>4, <2>1, SubsetInduction
<1>6. AddsUp(W(t), f, t)
  BY Zenon, <1>3, <1>5
<1> QED BY Zenon, <1>6, SumIsAddedUp

(* A sum goes on by the element that is picked.                            *)
LEMMA SumPicks ==
    ASSUME NEW S, IsFiniteSet(S), NEW f, NEW t \in SUBSET S
    PROVE  SumFunctionOnSet(f, t) = IF t = {} THEN 0
             ELSE f[Picked(t)] + SumFunctionOnSet(f, t \ {Picked(t)})
<1>1. PICK it : AddsUp(it, f, t) /\ it[t] = SumFunctionOnSet(f, t)
  BY Zenon, AddingEnds
<1>2. it[t] = IF t = {} THEN 0 ELSE f[Picked(t)] + it[t \ {Picked(t)}]
  BY Zenon, <1>1 DEF AddsUp
<1> DEFINE u == t \ {Picked(t)}
<1>3. u \in SUBSET S /\ u \subseteq t
  OBVIOUS
<1>4. it[u] = SumFunctionOnSet(f, u)
  <2> HIDE DEF u
  <2>1. PICK ut : AddsUp(ut, f, u) /\ ut[u] = SumFunctionOnSet(f, u)
    BY Zenon, <1>3, AddingEnds
  <2>2. \A x \in SUBSET S : x \subseteq t /\ x \subseteq u => it[x] = ut[x]
    BY <1>1, <1>3, <2>1, AddingAgrees
  <2> QED BY Zenon, <1>3, <2>1, <2>2
<1> QED BY <1>1, <1>2, <1>4

(* The sum over no index is zero.                                          *)
LEMMA SumOfNothing == ASSUME NEW f PROVE SumFunctionOnSet(f, {}) = 0
<1>1. IsFiniteSet({})
  BY Zenon, FS_EmptySet
<1> QED BY <1>1, SumPicks

(* What is added are numbers, and so is the sum.                           *)
Numbers(f, S) == \A x \in S : f[x] \in Nat

(* A sum of numbers over a subset of a finite set is a number.             *)
LEMMA SumIsNumber ==
    ASSUME NEW S, IsFiniteSet(S), NEW f, Numbers(f, S)
    PROVE  \A t \in SUBSET S : SumFunctionOnSet(f, t) \in Nat
<1> DEFINE G == {t \in SUBSET S : SumFunctionOnSet(f, t) \in Nat}
<1>1. {} \in G
  BY SumOfNothing
<1>2. ASSUME NEW t \in SUBSET S, t # {}, \A x \in t : t \ {x} \in G PROVE t \in G
  <2>1. Picked(t) \in t
    BY Zenon, <1>2 DEF Picked
  <2>2. f[Picked(t)] \in Nat /\ SumFunctionOnSet(f, t \ {Picked(t)}) \in Nat
    BY <1>2, <2>1 DEF Numbers
  <2>3. SumFunctionOnSet(f, t) = f[Picked(t)] + SumFunctionOnSet(f, t \ {Picked(t)})
    BY <1>2, SumPicks
  <2> QED BY <2>2, <2>3
<1>3. G = SUBSET S
  <2> HIDE DEF G
  <2>1. G \in SUBSET (SUBSET S) BY DEF G
  <2> QED BY Zenon, <1>1, <1>2, <2>1, SubsetInduction
<1> QED BY Zenon, <1>3

(* Any element can be taken from a sum first.                              *)
LEMMA SumTakes ==
    ASSUME NEW S, IsFiniteSet(S), NEW f, Numbers(f, S)
    PROVE  \A t \in SUBSET S : \A x \in t :
             SumFunctionOnSet(f, t) = f[x] + SumFunctionOnSet(f, t \ {x})
<1> DEFINE G == {t \in SUBSET S : \A x \in t :
                    SumFunctionOnSet(f, t) = f[x] + SumFunctionOnSet(f, t \ {x})}
<1>1. {} \in G
  OBVIOUS
<1>2. ASSUME NEW t \in SUBSET S, t # {}, \A x \in t : t \ {x} \in G PROVE t \in G
  <2> SUFFICES ASSUME NEW x \in t
               PROVE  SumFunctionOnSet(f, t) = f[x] + SumFunctionOnSet(f, t \ {x})
    OBVIOUS
  <2> DEFINE p == Picked(t)
             rest == (t \ {p}) \ {x}
  <2>1. p \in t
    BY Zenon, <1>2 DEF Picked
  <2>2. SumFunctionOnSet(f, t) = f[p] + SumFunctionOnSet(f, t \ {p})
    BY <1>2, SumPicks
  <2>3. CASE x = p
    BY <2>2, <2>3
  <2>4. CASE x # p
    <3>1. SumFunctionOnSet(f, t \ {p}) = f[x] + SumFunctionOnSet(f, rest)
      BY Zenon, <1>2, <2>1, <2>4
    <3>2. (t \ {x}) \ {p} = rest
      BY Zenon
    <3>3. SumFunctionOnSet(f, t \ {x}) = f[p] + SumFunctionOnSet(f, (t \ {x}) \ {p})
      BY Zenon, <1>2, <2>1, <2>4
    <3>4. rest \in SUBSET S /\ f[p] \in Nat /\ f[x] \in Nat
      BY <2>1 DEF Numbers
    <3>5. SumFunctionOnSet(f, rest) \in Nat
      BY Zenon, <3>4, SumIsNumber
    <3>6. SumFunctionOnSet(f, t \ {x}) = f[p] + SumFunctionOnSet(f, rest)
      BY Zenon, <3>2, <3>3
    <3> HIDE DEF p, rest
    <3> QED BY <2>2, <3>1, <3>4, <3>5, <3>6
  <2> QED BY Zenon, <2>3, <2>4
<1>3. G = SUBSET S
  <2> HIDE DEF G
  <2>1. G \in SUBSET (SUBSET S) BY DEF G
  <2> QED BY Zenon, <1>1, <1>2, <2>1, SubsetInduction
<1> QED BY Zenon, <1>3

(* Functions that agree on a set have one sum over it.                     *)
LEMMA SumsAgree ==
    ASSUME NEW S, IsFiniteSet(S), NEW f, NEW g, Numbers(f, S), \A x \in S : f[x] = g[x]
    PROVE  SumFunctionOnSet(f, S) = SumFunctionOnSet(g, S)
<1> DEFINE G == {t \in SUBSET S : SumFunctionOnSet(f, t) = SumFunctionOnSet(g, t)}
<1>1. {} \in G
  BY SumOfNothing
<1>2. ASSUME NEW t \in SUBSET S, t # {}, \A x \in t : t \ {x} \in G PROVE t \in G
  <2>1. Picked(t) \in t
    BY Zenon, <1>2 DEF Picked
  <2>2. /\ f[Picked(t)] = g[Picked(t)]
        /\ SumFunctionOnSet(f, t \ {Picked(t)}) = SumFunctionOnSet(g, t \ {Picked(t)})
    BY Zenon, <1>2, <2>1
  <2>3. /\ SumFunctionOnSet(f, t) = f[Picked(t)] + SumFunctionOnSet(f, t \ {Picked(t)})
        /\ SumFunctionOnSet(g, t) = g[Picked(t)] + SumFunctionOnSet(g, t \ {Picked(t)})
    BY <1>2, SumPicks
  <2> QED BY <2>2, <2>3
<1>3. G = SUBSET S
  <2> HIDE DEF G
  <2>1. G \in SUBSET (SUBSET S) BY DEF G
  <2> QED BY Zenon, <1>1, <1>2, <2>1, SubsetInduction
<1>4. S \in G
  BY Zenon, <1>3
<1> QED BY Zenon, <1>4

(* A function that differs at one place: its sum differs by as much.       *)
LEMMA SumChanges ==
    ASSUME NEW S, IsFiniteSet(S), NEW f, NEW g, Numbers(f, S), Numbers(g, S), NEW x \in S,
           \A y \in S \ {x} : f[y] = g[y]
    PROVE  /\ SumFunctionOnSet(f, S) \in Nat /\ SumFunctionOnSet(f, S) >= f[x]
           /\ SumFunctionOnSet(g, S) = SumFunctionOnSet(f, S) - f[x] + g[x]
<1> DEFINE rest == S \ {x}
<1>1. IsFiniteSet(rest) /\ Numbers(f, rest) /\ rest \in SUBSET S /\ S \in SUBSET S
  BY FS_RemoveElement DEF Numbers
<1>2. SumFunctionOnSet(f, rest) = SumFunctionOnSet(g, rest)
  <2>1. \A y \in rest : f[y] = g[y]
    OBVIOUS
  <2> HIDE DEF rest
  <2> QED BY <1>1, <2>1, SumsAgree
<1>3. SumFunctionOnSet(f, S) = f[x] + SumFunctionOnSet(f, rest)
  BY <1>1, SumTakes
<1>4. SumFunctionOnSet(g, S) = g[x] + SumFunctionOnSet(g, rest)
  BY <1>1, SumTakes
<1>5. SumFunctionOnSet(f, rest) \in Nat /\ f[x] \in Nat /\ g[x] \in Nat
  BY <1>1, SumIsNumber DEF Numbers
<1> HIDE DEF rest
<1> QED BY <1>2, <1>3, <1>4, <1>5

(* What is zero can be added to what is summed.                            *)
LEMMA SumGrows ==
    ASSUME NEW S, IsFiniteSet(S), NEW f, Numbers(f, S), NEW T \in SUBSET S,
           \A x \in S \ T : f[x] = 0
    PROVE  SumFunctionOnSet(f, S) = SumFunctionOnSet(f, T)
<1> DEFINE G == {t \in SUBSET S : SumFunctionOnSet(f, t) = SumFunctionOnSet(f, t \cap T)}
<1>1. {} \in G
  <2>1. {} \cap T = {}
    OBVIOUS
  <2> QED BY Zenon, <2>1
<1>2. ASSUME NEW t \in SUBSET S, t # {}, \A x \in t : t \ {x} \in G PROVE t \in G
  <2>1. PICK x \in t : TRUE
    BY Zenon, <1>2
  <2>2. SumFunctionOnSet(f, t) = f[x] + SumFunctionOnSet(f, t \ {x})
    BY SumTakes
  <2>3. SumFunctionOnSet(f, t \ {x}) = SumFunctionOnSet(f, (t \ {x}) \cap T)
    BY Zenon, <1>2
  <2>4. CASE x \in T
    <3>1. t \cap T \in SUBSET S /\ x \in t \cap T /\ (t \cap T) \ {x} = (t \ {x}) \cap T
      BY Zenon, <2>4
    <3>2. SumFunctionOnSet(f, t \cap T) = f[x] + SumFunctionOnSet(f, (t \cap T) \ {x})
      BY <3>1, SumTakes
    <3> QED BY Zenon, <2>2, <2>3, <3>1, <3>2
  <2>5. CASE x \notin T
    <3>1. (t \ {x}) \cap T = t \cap T /\ t \cap T \in SUBSET S
      BY Zenon, <2>5
    <3>2. f[x] = 0
      BY Zenon, <2>5
    <3>3. SumFunctionOnSet(f, t \cap T) \in Nat
      BY Zenon, <3>1, SumIsNumber
    <3>4. SumFunctionOnSet(f, t) = 0 + SumFunctionOnSet(f, t \cap T)
      BY Zenon, <2>2, <2>3, <3>1, <3>2
    <3>5. SumFunctionOnSet(f, t) = SumFunctionOnSet(f, t \cap T)
      BY <3>3, <3>4
    <3> QED BY Zenon, <3>5
  <2> QED BY Zenon, <2>4, <2>5
<1>3. G = SUBSET S
  <2> HIDE DEF G
  <2>1. G \in SUBSET (SUBSET S) BY DEF G
  <2> QED BY Zenon, <1>1, <1>2, <2>1, SubsetInduction
<1>4. S \in G /\ S \cap T = T
  BY Zenon, <1>3
<1> QED BY Zenon, <1>4

(* The sum of zeros.                                                       *)
LEMMA SumOfZeros ==
    ASSUME NEW S, IsFiniteSet(S), NEW f, \A x \in S : f[x] = 0
    PROVE  SumFunctionOnSet(f, S) = 0
<1>1. Numbers(f, S) /\ {} \in SUBSET S
  BY DEF Numbers
<1>2. SumFunctionOnSet(f, S) = SumFunctionOnSet(f, {})
  BY Zenon, <1>1, SumGrows
<1> QED BY Zenon, <1>2, SumOfNothing

-----------------------------------------------------------------------------
(* Each operation on the pleas, and the passing of time, preserves         *)
(* PleasInv.                                                               *)

(* Clearing the pleas, as a new session does, leaves a sound queue of      *)
(* them.                                                                   *)
LEMMA ClearKeeps == ASSUME NEW n \in Nat PROVE PleasInv(clear_response_pleas(n), n)
  BY DEF PleasInv, PleaRecords, clear_response_pleas

(* Queueing a plea for the request just sent keeps the queue sound.        *)
LEMMA EnqueueKeeps ==
    ASSUME NEW p, NEW n, PleasInv(p, n)
    PROVE  PleasInv(enqueue_response_plea(p, n), n)
  BY DEF PleasInv, PleaRecords, enqueue_response_plea

(* Taking the oldest plea off for the answer just read keeps the queue     *)
(* sound.                                                                  *)
LEMMA DequeueKeeps ==
    ASSUME NEW p, NEW n, PleasInv(p, n)
    PROVE  PleasInv(dequeue_response_plea(p), n)
<1>1. CASE p.times = <<>>
  BY <1>1 DEF PleasInv, PleaRecords, dequeue_response_plea
<1>2. CASE p.times # <<>>
  <2> DEFINE q == dequeue_response_plea(p)
  <2>1. q.older = p.times[1] /\ q.times = Tail(p.times) /\ q \in PleaRecords /\ q.count = Len(q.times)
    BY <1>2 DEF PleasInv, PleaRecords, dequeue_response_plea
  <2>2. ASSUME NEW k \in DOMAIN q.times
        PROVE  q.times[k] = p.times[k + 1] /\ k + 1 \in DOMAIN p.times /\ 1 \in DOMAIN p.times
    BY SMTT(30), <1>2, <2>1 DEF PleasInv, PleaRecords
  <2>3. q.older <= n
    BY <1>2, <2>1 DEF PleasInv, PleaRecords
  <2>4. \A k \in DOMAIN q.times : q.older <= q.times[k] /\ q.times[k] <= n
    BY <2>1, <2>2 DEF PleasInv, PleaRecords
  <2>5. \A j, k \in DOMAIN q.times : j <= k => q.times[j] <= q.times[k]
    BY <2>1, <2>2 DEF PleasInv, PleaRecords
  <2> QED
    BY <2>1, <2>3, <2>4, <2>5 DEF PleasInv
<1> QED
  BY <1>1, <1>2

(* The passing of time keeps the queue of pleas sound.                     *)
LEMMA TimeKeeps == ASSUME NEW p, NEW n, PleasInv(p, n) PROVE PleasInv(p, n + 1)
  BY DEF PleasInv, PleaRecords

(* An answer that is late makes the test of the timer succeed.             *)
LEMMA LateIsOlder == PleasInv(pleas, now) => LateIsNoticed
  BY SolutionsAssumption DEF PleasInv, PleaRecords, LateIsNoticed, ResponseTimeout

(* Every step keeps the queue of pleas sound.                              *)
LEMMA NextPleasInv == PleasInv(pleas, now) /\ [Next]_vars => PleasInv(pleas, now)'
<1> SUFFICES ASSUME PleasInv(pleas, now), [Next]_vars PROVE PleasInv(pleas', now')
  OBVIOUS
<1> USE DEF client, counts
<1>0. now \in Nat
  BY DEF PleasInv
<1>1. CASE Dials \/ (Links /\ family = "stratum")
  BY <1>0, <1>1, ClearKeeps, EnqueueKeeps DEF Dials, Links
<1>2. CASE LoginAnswered
  BY <1>2, DequeueKeeps, EnqueueKeeps DEF LoginAnswered
<1>3. CASE AuthAnswered
  BY <1>3, DequeueKeeps DEF AuthAnswered
<1>4. CASE Disconnects \/ GivesUp
  BY <1>0, <1>4, ClearKeeps DEF Disconnects, GivesUp
<1>5. CASE Ticks
  BY <1>5, TimeKeeps DEF Ticks
<1>6. CASE submitProofAsync
  BY <1>6, EnqueueKeeps, Zenon DEF submitProofAsync, onSolutionFound, Submits, Simulates, Drops
<1>7. ASSUME NEW i \in Miners, NEW kind, Answers(i, kind) PROVE PleasInv(pleas', now')
  BY <1>7, DequeueKeeps DEF Answers, PleaAnswered
<1>8. ASSUME UNCHANGED <<pleas, now>> PROVE PleasInv(pleas', now')
  BY <1>8
<1>9. CASE Restart \/ (Links /\ family # "stratum") \/ JobArrives
  BY <1>8, <1>9 DEF Restart, Links, JobArrives
<1>10. ASSUME NEW i \in Miners, MinerStep(i) PROVE PleasInv(pleas', now')
  BY Zenon, <1>8, <1>10 DEF MinerStep, PicksUp, submitProof
<1>11. CASE UNCHANGED vars
  BY <1>8, <1>11 DEF vars
<1> QED
  BY <1>1, <1>2, <1>3, <1>4, <1>5, <1>6, <1>7, <1>9, <1>10, <1>11, Zenon DEF Next, IoStep

(* The test of workloop_timer_elapsed finds every answer that is late,     *)
(* whatever the order of requests, answers and connections.                *)
THEOREM LateAnswersAreNoticed == Spec => []LateIsNoticed
<1>1. Init => PleasInv(pleas, now)
  BY ClearKeeps DEF Init
<1> QED
  BY <1>1, NextPleasInv, LateIsOlder, PTL DEF Spec
-----------------------------------------------------------------------------
(* The inductive invariant behind AnswersAreCredited: every miner has its  *)
(* entry once the farm has started; answers are awaited only on an open    *)
(* connection, and only ones whose identifier passes the test.             *)
Telemetry == [farm : [Kinds -> Nat], miners : Seq([Kinds -> Nat])]

CreditTypes == /\ m_solution_submitted_max_id \in Nat
               /\ awaited \in [Miners -> Nat] /\ sent \in [Miners -> Nat] /\ lost \in [Miners -> Nat]
               /\ m_telemetry \in Telemetry
               /\ posted \in Seq(Solution)

CreditInv == /\ CreditTypes /\ AnswersAreCredited
             /\ Mining => Len(m_telemetry.miners) >= N
             /\ phase \in {"auth", "open"} => Mining
             /\ phase # "open" => \A i \in Miners : awaited[i] = 0
             /\ \A i \in Miners : awaited[i] > 0 => 40 + i <= m_solution_submitted_max_id

(* The larger of two numbers is a number and at least each of them.        *)
LEMMA MaxOfTwo == ASSUME NEW a \in Nat, NEW b \in Nat
                  PROVE  Max({a, b}) \in Nat /\ Max({a, b}) >= a /\ Max({a, b}) >= b
<1>1. \E x \in {a, b} : \A y \in {a, b} : x >= y
  OBVIOUS
<1>2. Max({a, b}) \in {a, b} /\ \A y \in {a, b} : Max({a, b}) >= y
  BY <1>1, Zenon DEF Max
<1> QED
  BY <1>2

(* accountSolution raises by one the count of the miner it is given, if    *)
(* that miner has an entry, and no other count.                            *)
LEMMA AccountRaises ==
    ASSUME NEW t \in Telemetry, NEW i \in Miners, i + 1 <= Len(t.miners), NEW kind \in Kinds,
           NEW u, u = accountSolution(t, i, kind)
    PROVE  /\ u \in Telemetry /\ Len(u.miners) = Len(t.miners)
           /\ u.miners[i + 1][kind] = t.miners[i + 1][kind] + 1
           /\ \A k \in Kinds \ {kind} : u.miners[i + 1][k] = t.miners[i + 1][k]
           /\ Len(t.miners) >= N => \A j \in Miners \ {i} : u.miners[j + 1] = t.miners[j + 1]
<1> DEFINE e == [t.miners[i + 1] EXCEPT ![kind] = @ + 1]
           f == [t.farm EXCEPT ![kind] = @ + 1]
<1>0. i \in Nat /\ i + 1 \in DOMAIN t.miners /\ t.miners[i + 1] \in [Kinds -> Nat]
  BY SolutionsAssumption DEF Miners, Telemetry
<1>1. e \in [Kinds -> Nat] /\ e[kind] = t.miners[i + 1][kind] + 1
      /\ \A k \in Kinds \ {kind} : e[k] = t.miners[i + 1][k]
  BY <1>0
<1>2. f \in [Kinds -> Nat]
  BY DEF Telemetry
<1>3. u = [farm |-> f, miners |-> [t.miners EXCEPT ![i + 1] = e]]
  BY <1>0 DEF accountSolution
<1> HIDE DEF e, f
<1>4. u.farm = f /\ u.miners = [t.miners EXCEPT ![i + 1] = e] /\ t.miners \in Seq([Kinds -> Nat])
  BY <1>3 DEF Telemetry
<1>5. /\ u.miners \in Seq([Kinds -> Nat]) /\ Len(u.miners) = Len(t.miners)
      /\ DOMAIN u.miners = DOMAIN t.miners /\ u.miners[i + 1] = e
  BY <1>0, <1>1, <1>4
<1>6. u \in Telemetry
  BY <1>2, <1>3, <1>4, <1>5 DEF Telemetry
<1>7. ASSUME Len(t.miners) >= N, NEW j \in Miners \ {i} PROVE u.miners[j + 1] = t.miners[j + 1]
  <2>1. j \in Nat /\ j + 1 # i + 1 /\ j + 1 >= 1 /\ j + 1 <= N
    BY <1>0, SolutionsAssumption DEF Miners
  <2>2. Len(t.miners) \in Nat /\ DOMAIN t.miners = 1..Len(t.miners) BY <1>4
  <2>3. j + 1 \in DOMAIN t.miners BY <1>7, <2>1, <2>2, SolutionsAssumption
  <2> QED BY <1>4, <2>1, <2>3
<1> QED
  BY <1>1, <1>5, <1>6, <1>7

(* Appending entries for a restart changes no entry that is in use.        *)
LEMMA AppendKeeps ==
    ASSUME NEW t \in Telemetry, NEW u, u = AppendEntries(t)
    PROVE  /\ u \in Telemetry /\ Len(u.miners) = Len(t.miners) + N
           /\ \A j \in 1..Len(t.miners) : u.miners[j] = t.miners[j]
           /\ t.miners = <<>> => \A j \in 1..N : u.miners[j] = NoCounts
<1> DEFINE new == [i \in 1..N |-> NoCounts]
<1>1. new \in Seq([Kinds -> Nat]) /\ Len(new) = N /\ \A j \in 1..N : new[j] = NoCounts
  BY SolutionsAssumption DEF NoCounts
<1>2. u.farm = t.farm /\ u.miners = t.miners \o new /\ u = [farm |-> t.farm, miners |-> t.miners \o new]
  BY Zenon DEF AppendEntries, Telemetry
<1> HIDE DEF new
<1>3. t.miners \in Seq([Kinds -> Nat]) /\ t.farm \in [Kinds -> Nat]
  BY DEF Telemetry
<1>4. u \in Telemetry /\ Len(u.miners) = Len(t.miners) + N
  <2> DEFINE all == t.miners \o new
  <2>1. all \in Seq([Kinds -> Nat]) /\ Len(all) = Len(t.miners) + N
    BY Zenon, <1>1, <1>3, ConcatProperties
  <2> HIDE DEF all
  <2>2. u = [farm |-> t.farm, miners |-> all]
    BY <1>2 DEF all
  <2> QED
    BY <1>3, <2>1, <2>2 DEF Telemetry
<1>5. \A j \in 1..Len(t.miners) : u.miners[j] = t.miners[j]
  BY <1>1, <1>2, <1>3
<1>6. t.miners = <<>> => u.miners = new
  BY <1>1, <1>2
<1> QED
  BY <1>1, <1>4, <1>5, <1>6

(* Once the farm has started, every miner has an entry, and what it is     *)
(* credited with is a number.                                              *)
LEMMA MinersAreNumbers == \A i \in Miners : i \in Nat /\ i + 1 \in 1..N /\ 40 + i \in Nat
  BY SolutionsAssumption DEF Miners

(* While the farm mines, every miner has an entry in the telemetry to be   *)
(* counted in.                                                             *)
LEMMA EveryMinerHasAnEntry ==
    ASSUME CreditInv, NEW i \in Miners
    PROVE  /\ Mining => /\ i + 1 <= Len(m_telemetry.miners)
                        /\ m_telemetry.miners[i + 1] \in [Kinds -> Nat]
           /\ Credited(i) \in Nat
<1> DEFINE e == m_telemetry.miners
<1>1. e \in Seq([Kinds -> Nat])
  BY DEF CreditInv, CreditTypes, Telemetry
<1>2. Mining => Len(e) >= N
  BY Zenon DEF CreditInv
<1> HIDE DEF e
<1>3. Mining => i + 1 <= Len(e) /\ e[i + 1] \in [Kinds -> Nat]
  <2>1. i \in Nat /\ i + 1 <= N /\ N \in Nat /\ Len(e) \in Nat
    BY <1>1, MinersAreNumbers, SolutionsAssumption
  <2>2. \A k \in 1..Len(e) : e[k] \in [Kinds -> Nat]
    BY <1>1
  <2>3. Mining => i + 1 \in 1..Len(e)
    BY <1>2, <2>1
  <2> QED
    BY <2>1, <2>2, <2>3
<1>4. Credited(i) \in Nat
  BY <1>3 DEF Credited, Kinds, e
<1> QED
  BY <1>3, <1>4 DEF e

(* An answer, and only an answer, raises what its miner is credited with.  *)
LEMMA CreditRaised ==
    ASSUME CreditInv, Mining, NEW m \in Miners, NEW kind \in Kinds,
           m_telemetry' = accountSolution(m_telemetry, m, kind)
    PROVE  /\ m_telemetry' \in Telemetry /\ Len(m_telemetry'.miners) >= N /\ Mining'
           /\ kind \in {"accepted", "rejected"} => Credited(m)' = Credited(m) + 1
           /\ kind \notin {"accepted", "rejected"} => Credited(m)' = Credited(m)
           /\ \A i \in Miners \ {m} : Credited(i)' = Credited(i)
<1> DEFINE e == m_telemetry.miners
           f == m_telemetry'.miners
<1>1. m + 1 <= Len(e) /\ e[m + 1] \in [Kinds -> Nat] /\ Len(e) >= N /\ m_telemetry \in Telemetry
  BY EveryMinerHasAnEntry DEF CreditInv, CreditTypes
<1>2. /\ m_telemetry' \in Telemetry /\ Len(f) = Len(e) /\ f[m + 1][kind] = e[m + 1][kind] + 1
      /\ \A k \in Kinds \ {kind} : f[m + 1][k] = e[m + 1][k]
      /\ \A j \in Miners \ {m} : f[j + 1] = e[j + 1]
  BY <1>1, AccountRaises
<1>3. Len(f) >= N /\ f # <<>>
  <2>1. f \in Seq([Kinds -> Nat])
    BY <1>2 DEF Telemetry
  <2> QED
    BY <1>1, <1>2, <2>1, SolutionsAssumption
<1> HIDE DEF e, f
<1>4. /\ Credited(m) = e[m + 1]["accepted"] + e[m + 1]["rejected"]
      /\ Credited(m)' = f[m + 1]["accepted"] + f[m + 1]["rejected"]
      /\ \A i \in Miners \ {m} : Credited(i)' = Credited(i)
  BY <1>2, <1>3, Zenon DEF Credited, Mining, e, f
<1>5. e[m + 1]["accepted"] \in Nat /\ e[m + 1]["rejected"] \in Nat
  BY <1>1 DEF Kinds
<1>6. kind = "accepted" => Credited(m)' = Credited(m) + 1
  BY <1>2, <1>4, <1>5 DEF Kinds
<1>7. kind = "rejected" => Credited(m)' = Credited(m) + 1
  BY <1>2, <1>4, <1>5 DEF Kinds
<1>8. kind \notin {"accepted", "rejected"} => Credited(m)' = Credited(m)
  BY <1>2, <1>4, <1>5 DEF Kinds
<1>9. m_telemetry' \in Telemetry /\ Len(f) >= N /\ Mining'
  BY <1>2, <1>3 DEF Mining, f
<1> QED
  BY <1>4, <1>6, <1>7, <1>8, <1>9 DEF f

(* Nothing is disturbed by a step that changes none of the counts and does *)
(* not open a connection.                                                  *)
LEMMA QuietKeeps ==
    ASSUME CreditInv, UNCHANGED <<awaited, sent, lost, m_telemetry, m_solution_submitted_max_id>>,
           posted' \in Seq(Solution), phase' = phase \/ (phase = "auth" /\ phase' = "open")
    PROVE  CreditInv'
<1>1. CreditTypes' /\ AnswersAreCredited'
  BY Zenon DEF CreditInv, CreditTypes, AnswersAreCredited, Credited, Mining
<1> QED
  BY <1>1 DEF CreditInv, Mining

(* A connection, the first of which starts the miners, keeps the credit    *)
(* invariant.                                                              *)
LEMMA SpinsKeeps ==
    ASSUME CreditInv, Spins, UNCHANGED <<awaited, sent, lost, m_solution_submitted_max_id, posted>>,
           phase # "open"
    PROVE  CreditInv'
<1>1. CASE Mining
  <2>1. UNCHANGED m_telemetry
    BY <1>1 DEF Spins
  <2>2. CreditTypes' /\ AnswersAreCredited'
    BY <2>1, Zenon DEF CreditInv, CreditTypes, AnswersAreCredited, Credited, Mining
  <2> QED
    BY <1>1, <2>1, <2>2 DEF CreditInv, Mining
<1>2. CASE ~Mining
  <2> DEFINE e == m_telemetry'.miners
  <2>1. m_telemetry.miners = <<>> /\ m_telemetry' = AppendEntries(m_telemetry)
    BY <1>2 DEF Spins, Mining
  <2>2. m_telemetry' \in Telemetry /\ Len(e) = N /\ \A j \in 1..N : e[j] = NoCounts
    BY <2>1, AppendKeeps, SolutionsAssumption DEF CreditInv, CreditTypes
  <2> HIDE DEF e
  <2>3. \A i \in Miners : i + 1 \in 1..N /\ e[i + 1]["accepted"] = 0 /\ e[i + 1]["rejected"] = 0
    BY <2>2, SolutionsAssumption DEF Miners, NoCounts, Kinds
  <2>4. \A i \in Miners : awaited[i] + lost[i] = sent[i]
    BY <1>2 DEF CreditInv, CreditTypes, AnswersAreCredited, Credited
  <2>5. AnswersAreCredited'
    BY <2>3, <2>4 DEF AnswersAreCredited, Credited, CreditInv, CreditTypes, e
  <2>6. CreditTypes' /\ Mining'
    BY <2>2, SolutionsAssumption DEF CreditInv, CreditTypes, Mining, e
  <2> QED
    BY <2>2, <2>5, <2>6, SolutionsAssumption DEF CreditInv, e
<1> QED
  BY <1>1, <1>2

(* A solution is submitted, or verified by the simulation client.          *)
LEMMA SubmissionKeeps ==
    ASSUME CreditInv, submitProofAsync PROVE CreditInv'
<1> DEFINE s == Head(posted)
<1>0. posted # <<>> /\ posted \in Seq(Solution) /\ posted' = Tail(posted)
      /\ phase' = phase /\ lost' = lost
  BY DEF CreditInv, CreditTypes, submitProofAsync
<1>1. s \in Solution /\ posted' \in Seq(Solution) /\ s.midx \in Miners
  <2>1. s \in Solution /\ posted' \in Seq(Solution)
    BY <1>0
  <2> QED
    BY <2>1 DEF Solution
<1>m. PICK m \in Miners : m = s.midx
  BY <1>1
<1> HIDE DEF s
<1>2. CASE UNCHANGED <<m_solution_submitted_max_id, awaited, m_telemetry, sent>>
  BY <1>0, <1>1, <1>2, QuietKeeps
<1>3. CASE isAuthorized /\ Submits(s)
  <2>1. /\ m_solution_submitted_max_id' = Max({m_solution_submitted_max_id, 40 + m})
        /\ awaited' = [awaited EXCEPT ![m] = @ + 1] /\ sent' = [sent EXCEPT ![m] = @ + 1]
        /\ m_telemetry' = m_telemetry /\ phase = "open" /\ m \in Miners
    BY <1>m, <1>3 DEF Submits, HighestId, isAuthorized
  <2>2. m_solution_submitted_max_id \in Nat /\ m \in Nat /\ 40 + m \in Nat
    BY <2>1, MinersAreNumbers DEF CreditInv, CreditTypes
  <2>3. /\ m_solution_submitted_max_id' \in Nat
        /\ m_solution_submitted_max_id' >= m_solution_submitted_max_id
        /\ m_solution_submitted_max_id' >= 40 + m
    BY <2>1, <2>2, MaxOfTwo
  <2>4. CreditTypes'
    <3>1. awaited \in [Miners -> Nat] /\ sent \in [Miners -> Nat] /\ lost \in [Miners -> Nat]
          /\ m_telemetry \in Telemetry
      BY DEF CreditInv, CreditTypes
    <3>2. awaited' \in [Miners -> Nat] /\ sent' \in [Miners -> Nat]
      BY <2>1, <3>1
    <3> QED
      BY <1>0, <1>1, <2>1, <2>3, <3>1, <3>2 DEF CreditTypes
  <2>5. \A i \in Miners : Credited(i)' = Credited(i)
    BY <2>1 DEF Credited, Mining
  <2>6. AnswersAreCredited'
    <3> SUFFICES ASSUME NEW i \in Miners PROVE Credited(i)' + awaited'[i] + lost'[i] = sent'[i]
      BY DEF AnswersAreCredited
    <3>1. Credited(i) \in Nat
      BY EveryMinerHasAnEntry
    <3> QED
      BY <1>0, <2>1, <2>5, <3>1 DEF CreditInv, CreditTypes, AnswersAreCredited
  <2>7. \A i \in Miners : awaited'[i] > 0 => 40 + i <= m_solution_submitted_max_id'
    <3> SUFFICES ASSUME NEW i \in Miners, awaited'[i] > 0
                 PROVE  40 + i <= m_solution_submitted_max_id'
      OBVIOUS
    <3>1. CASE i = m
      BY <2>2, <2>3, <3>1
    <3>2. CASE i # m
      <4>1. awaited'[i] = awaited[i]
        BY <2>1, <3>2 DEF CreditInv, CreditTypes
      <4>2. 40 + i <= m_solution_submitted_max_id /\ 40 + i \in Nat
        BY <4>1, MinersAreNumbers DEF CreditInv
      <4> QED
        BY <2>2, <2>3, <4>2
    <3> QED
      BY <3>1, <3>2
  <2> QED
    BY Zenon, <1>0, <2>1, <2>4, <2>6, <2>7 DEF CreditInv, Mining
<1>4. ASSUME isAuthorized, NEW kind \in {"accepted", "rejected"}, m_telemetry' = accountSolution(m_telemetry, m, kind),
             sent' = [sent EXCEPT ![m] = @ + 1], UNCHANGED <<m_solution_submitted_max_id, awaited>>
      PROVE  CreditInv'
  <2>1. m \in Miners /\ phase = "open" /\ Mining
    BY <1>4 DEF isAuthorized, CreditInv
  <2>2. /\ m_telemetry' \in Telemetry /\ Len(m_telemetry'.miners) >= N
        /\ Mining' /\ Credited(m)' = Credited(m) + 1
        /\ \A i \in Miners \ {m} : Credited(i)' = Credited(i)
    <3>1. kind \in Kinds /\ kind \in {"accepted", "rejected"}
      BY <1>4 DEF Kinds
    <3> QED
      BY <1>4, <2>1, <3>1, CreditRaised, Zenon
  <2>3. AnswersAreCredited'
    <3> SUFFICES ASSUME NEW i \in Miners PROVE Credited(i)' + awaited'[i] + lost'[i] = sent'[i]
      BY DEF AnswersAreCredited
    <3>1. Credited(i) \in Nat
      BY EveryMinerHasAnEntry
    <3>2. /\ awaited[i] \in Nat /\ lost[i] \in Nat /\ sent[i] \in Nat
          /\ Credited(i) + awaited[i] + lost[i] = sent[i]
          /\ awaited'[i] = awaited[i] /\ lost'[i] = lost[i]
          /\ sent'[i] = IF i = m THEN sent[i] + 1 ELSE sent[i]
      BY <1>0, <1>4, <2>1 DEF CreditInv, CreditTypes, AnswersAreCredited
    <3> QED
      BY SMTT(30), <2>2, <3>1, <3>2
  <2> QED
    BY <1>0, <1>1, <1>4, <2>1, <2>2, <2>3 DEF CreditInv, CreditTypes
<1>5. ASSUME m_telemetry' = accountSolution(m_telemetry, m, "failed"),
             UNCHANGED <<m_solution_submitted_max_id, awaited, sent>>
      PROVE  CreditInv'
  <2>1. m \in Miners /\ "failed" \in Kinds /\ "failed" \notin {"accepted", "rejected"}
    BY DEF Kinds
  <2>2. CASE Mining
    <3>1. /\ m_telemetry' \in Telemetry /\ Len(m_telemetry'.miners) >= N /\ Mining'
          /\ \A i \in Miners : Credited(i)' = Credited(i)
      BY <1>5, <2>1, <2>2, CreditRaised
    <3>2. AnswersAreCredited'
      BY <1>0, <1>5, <3>1 DEF CreditInv, AnswersAreCredited
    <3> QED
      BY <1>0, <1>1, <1>5, <3>1, <3>2 DEF CreditInv, CreditTypes
  <2>3. CASE ~Mining
    <3>1. m_telemetry'.miners = <<>> /\ m_telemetry.miners = <<>> /\ m_telemetry' \in Telemetry
      BY <1>5, <2>1, <2>3 DEF Mining, accountSolution, CreditInv, CreditTypes, Telemetry
    <3>2. ~Mining' /\ \A i \in Miners : Credited(i)' = Credited(i)
      BY <3>1 DEF Mining, Credited
    <3>3. AnswersAreCredited'
      BY <1>0, <1>5, <3>2 DEF CreditInv, AnswersAreCredited
    <3> QED
      BY <1>0, <1>1, <1>5, <2>3, <3>1, <3>2, <3>3 DEF CreditInv, CreditTypes
  <2> QED
    BY <2>2, <2>3
<1>6. \/ m_telemetry' = accountSolution(m_telemetry, s.midx, "failed")
         /\ UNCHANGED <<m_solution_submitted_max_id, awaited, sent>>
      \/ onSolutionFound(s)
  BY Zenon DEF submitProofAsync, s
<1> QED
  BY <1>m, <1>2, <1>3, <1>4, <1>5, <1>6 DEF onSolutionFound, Drops, Simulates

(* An answer moves one solution from awaited to credited: the test of its  *)
(* identifier succeeds.                                                    *)
LEMMA AnswerKeeps ==
    ASSUME CreditInv, NEW i \in Miners, NEW kind \in {"accepted", "rejected"}, Answers(i, kind)
    PROVE  CreditInv'
<1>1. /\ phase = "open" /\ phase' = "open" /\ awaited[i] > 0
      /\ awaited' = [awaited EXCEPT ![i] = @ - 1]
      /\ UNCHANGED <<m_solution_submitted_max_id, posted, sent, lost>>
  BY DEF Answers, isAuthorized
<1>2. 40 + i <= m_solution_submitted_max_id /\ Mining
  BY <1>1 DEF CreditInv
<1>3. m_telemetry' = accountSolution(m_telemetry, i, kind) /\ kind \in Kinds
  BY <1>2, MinersAreNumbers DEF Answers, Kinds, CreditInv, CreditTypes
<1>4. /\ m_telemetry' \in Telemetry /\ Len(m_telemetry'.miners) >= N /\ Mining'
      /\ Credited(i)' = Credited(i) + 1
      /\ \A j \in Miners \ {i} : Credited(j)' = Credited(j)
  BY <1>2, <1>3, CreditRaised
<1>5. ASSUME NEW j \in Miners
      PROVE  /\ awaited[j] \in Nat /\ lost[j] \in Nat /\ sent[j] \in Nat /\ Credited(j) \in Nat
             /\ Credited(j) + awaited[j] + lost[j] = sent[j]
             /\ awaited'[j] = IF j = i THEN awaited[j] - 1 ELSE awaited[j]
             /\ awaited[j] > 0 => 40 + j <= m_solution_submitted_max_id
  BY <1>1, EveryMinerHasAnEntry DEF CreditInv, CreditTypes, AnswersAreCredited
<1>6. AnswersAreCredited'
  BY <1>1, <1>4, <1>5 DEF AnswersAreCredited
<1>7. \A j \in Miners : awaited'[j] > 0 => 40 + j <= m_solution_submitted_max_id'
  BY <1>1, <1>5
<1>8. CreditTypes'
  <2>1. awaited \in [Miners -> Nat] /\ awaited[i] - 1 \in Nat
    BY <1>1, <1>5 DEF CreditInv, CreditTypes
  <2>2. awaited' \in [Miners -> Nat]
    BY <1>1, <2>1
  <2> QED
    BY <1>1, <1>4, <2>2 DEF CreditInv, CreditTypes
<1> QED
  BY <1>1, <1>4, <1>6, <1>7, <1>8 DEF CreditInv

(* The end of a session, which loses the answers still awaited, keeps the  *)
(* credit invariant.                                                       *)
LEMMA DisconnectKeeps == ASSUME CreditInv, Disconnects PROVE CreditInv'
<1>1. /\ lost' = [i \in Miners |-> lost[i] + awaited[i]] /\ awaited' = [i \in Miners |-> 0]
      /\ UNCHANGED <<posted, m_telemetry, sent>> /\ phase' = "down"
      /\ m_solution_submitted_max_id' \in Nat
  BY DEF Disconnects, Zero, CreditInv, CreditTypes
<1>2. CreditTypes'
  BY <1>1 DEF CreditInv, CreditTypes
<1>3. AnswersAreCredited'
  <2> SUFFICES ASSUME NEW i \in Miners PROVE Credited(i)' + awaited'[i] + lost'[i] = sent'[i]
    BY DEF AnswersAreCredited
  <2>1. Credited(i)' = Credited(i) /\ Credited(i) \in Nat
    BY <1>1, EveryMinerHasAnEntry DEF Credited, Mining
  <2> QED
    BY <1>1, <2>1 DEF CreditInv, CreditTypes, AnswersAreCredited
<1> QED
  BY <1>1, <1>2, <1>3 DEF CreditInv, Mining

(* The restart of the miners, also if none run, keeps the credit           *)
(* invariant.                                                              *)
LEMMA RestartKeeps == ASSUME CreditInv, Restart PROVE CreditInv'
<1> DEFINE e == m_telemetry.miners
           f == m_telemetry'.miners
<1>1. /\ UNCHANGED <<awaited, lost, sent, posted, m_solution_submitted_max_id, phase>>
      /\ m_telemetry' = AppendEntries(m_telemetry) /\ m_telemetry \in Telemetry
  BY DEF Restart, client, CreditInv, CreditTypes
<1>2. CASE ~Mining
  <2>1. Spins BY <1>1, <1>2 DEF Spins
  <2>2. phase # "open" BY <1>2 DEF CreditInv
  <2> QED BY <1>1, <2>1, <2>2, SpinsKeeps
<1>3. CASE Mining
  <2>1. m_telemetry' \in Telemetry /\ Len(f) = Len(e) + N /\ \A j \in 1..Len(e) : f[j] = e[j]
    BY <1>1, AppendKeeps
  <2>2. e \in Seq([Kinds -> Nat]) /\ f \in Seq([Kinds -> Nat]) /\ Len(e) >= N
    BY <1>1, <1>3, <2>1 DEF Telemetry, CreditInv
  <2> HIDE DEF e, f
  <2>3. f # <<>> /\ Len(f) >= N /\ \A i \in Miners : f[i + 1] = e[i + 1]
    <3>1. Len(f) >= N /\ Len(f) # 0
      BY <2>1, <2>2, SolutionsAssumption
    <3>2. \A i \in Miners : i + 1 \in 1..Len(e)
      BY <2>2, MinersAreNumbers, SolutionsAssumption
    <3> QED
      BY <2>1, <3>1, <3>2
  <2>4. Mining' /\ \A i \in Miners : Credited(i)' = Credited(i)
    BY <1>3, <2>3 DEF Mining, Credited, e, f
  <2>5. AnswersAreCredited'
    BY <1>1, <2>4 DEF CreditInv, AnswersAreCredited
  <2>6. CreditTypes'
    BY <1>1, <2>1 DEF CreditInv, CreditTypes
  <2> QED
    BY <1>1, <2>3, <2>4, <2>5, <2>6 DEF CreditInv, f
<1> QED BY <1>2, <1>3

(* The jobs that are searched are numbers of connections.                  *)
JobTypes == session \in Nat /\ work \in Nat /\ searching \in [Miners -> Nat]

(* Every step keeps the types of the job variables.                        *)
LEMMA NextJobTypes == JobTypes /\ [Next]_vars => JobTypes'
<1> SUFFICES ASSUME JobTypes, [Next]_vars PROVE JobTypes'
  OBVIOUS
<1> USE DEF client, counts
<1>1. CASE Restart \/ Dials \/ Disconnects \/ GivesUp
  BY <1>1 DEF JobTypes, Restart, Dials, Disconnects, GivesUp, Zero
<1>2. CASE JobArrives
  BY <1>2 DEF JobTypes, JobArrives
<1>3. ASSUME NEW i \in Miners, PicksUp(i) PROVE JobTypes'
  BY <1>3 DEF JobTypes, PicksUp
<1>4. ASSUME UNCHANGED <<session, work, searching>> PROVE JobTypes'
  BY <1>4 DEF JobTypes
<1>5. CASE Links \/ LoginAnswered \/ AuthAnswered \/ submitProofAsync \/ Ticks \/ UNCHANGED vars
  BY <1>4, <1>5 DEF Links, LoginAnswered, AuthAnswered, submitProofAsync, Ticks, vars
<1>6. ASSUME NEW i \in Miners, NEW kind, Answers(i, kind) PROVE JobTypes'
  BY <1>4, <1>6 DEF Answers
<1>7. ASSUME NEW i \in Miners, NEW good, submitProof(i, good) PROVE JobTypes'
  BY <1>4, <1>7 DEF submitProof
<1> QED
  BY <1>1, <1>2, <1>3, <1>5, <1>6, <1>7, Zenon DEF Next, IoStep, MinerStep

(* Every step keeps the credit invariant.                                  *)
LEMMA NextCreditInv == CreditInv /\ JobTypes /\ [Next]_vars => CreditInv'
<1> SUFFICES ASSUME CreditInv, JobTypes, [Next]_vars PROVE CreditInv'
  OBVIOUS
<1> USE DEF client, counts
<1>0. posted \in Seq(Solution)
  BY DEF CreditInv, CreditTypes
<1>1. CASE Dials
  <2>1. /\ UNCHANGED <<awaited, sent, lost, m_telemetry, posted>> /\ phase = "down" /\ phase' = "dialing"
        /\ m_solution_submitted_max_id' \in {0, 40 + N}
    BY <1>1 DEF Dials
  <2>2. AnswersAreCredited' /\ (Mining' <=> Mining)
    BY <2>1, Zenon DEF CreditInv, AnswersAreCredited, Credited, Mining
  <2>3. CreditTypes'
    BY <2>1, SolutionsAssumption DEF CreditInv, CreditTypes
  <2> QED
    BY <2>1, <2>2, <2>3 DEF CreditInv
<1>2. CASE Links /\ family = "stratum"
  <2>1. /\ UNCHANGED <<awaited, sent, lost, m_telemetry, m_solution_submitted_max_id, posted>>
        /\ phase = "dialing" /\ phase' = "login"
    BY <1>2 DEF Links
  <2>2. CreditTypes' /\ AnswersAreCredited'
    BY <2>1, Zenon DEF CreditInv, CreditTypes, AnswersAreCredited, Credited, Mining
  <2> QED
    BY <2>1, <2>2 DEF CreditInv, Mining
<1>3. CASE (Links /\ family # "stratum") \/ LoginAnswered
  BY <1>3, SpinsKeeps DEF Links, LoginAnswered
<1>4. CASE AuthAnswered \/ JobArrives \/ Ticks \/ UNCHANGED vars
  BY <1>0, <1>4, QuietKeeps DEF AuthAnswered, JobArrives, Ticks, vars
<1>5. CASE Disconnects \/ GivesUp
  BY <1>5, DisconnectKeeps DEF GivesUp
<1>6. CASE submitProofAsync \/ Restart
  BY <1>6, SubmissionKeeps, RestartKeeps
<1>7. ASSUME NEW i \in Miners, NEW kind \in {"accepted", "rejected"}, Answers(i, kind) PROVE CreditInv'
  BY <1>7, AnswerKeeps
<1>8. ASSUME NEW i \in Miners, PicksUp(i) PROVE CreditInv'
  BY <1>0, <1>8, QuietKeeps DEF PicksUp
<1>9. ASSUME NEW i \in Miners, NEW good \in BOOLEAN, submitProof(i, good) PROVE CreditInv'
  <2>1. [midx |-> i, of |-> searching[i], good |-> good] \in Solution
    BY DEF Solution, JobTypes
  <2>2. posted' \in Seq(Solution)
    BY <1>0, <1>9, <2>1 DEF submitProof
  <2> QED
    BY <1>9, <2>2, QuietKeeps DEF submitProof
<1> QED
  BY <1>1, <1>2, <1>3, <1>4, <1>5, <1>6, <1>7, <1>8, <1>9, Zenon DEF Next, IoStep, MinerStep

(* The credit invariant holds at the start.                                *)
LEMMA InitCreditInv == Init => CreditInv /\ JobTypes
<1>1. Init => CreditInv
  BY SolutionsAssumption DEF Init, CreditInv, CreditTypes, Telemetry, AnswersAreCredited, Credited,
     Mining, Zero, NoCounts, Kinds
<1>2. Init => JobTypes
  BY DEF Init, JobTypes, Zero
<1> QED
  BY <1>1, <1>2

(* No answer of a pool is credited to nobody or to another miner, for any  *)
(* number of miners, connections of the three kinds and restarts.          *)
THEOREM AnswersReachTheirMiner == Spec => []AnswersAreCredited
<1>1. CreditInv => AnswersAreCredited
  BY DEF CreditInv
<1> QED
  BY <1>1, InitCreditInv, NextCreditInv, NextJobTypes, PTL DEF Spec

-----------------------------------------------------------------------------
(* The sums of the counts.                                                 *)

Column(t, k) == [j \in DOMAIN t.miners |-> t.miners[j][k]]
Agree(t) == \A k \in Kinds : t.farm[k] = SumFunction(Column(t, k))

(* Where accountSolution and AppendEntries leave the counts as they were.  *)
LEMMA AccountTouches ==
    ASSUME NEW t \in Telemetry, NEW i \in Miners, NEW kind \in Kinds, NEW u, u = accountSolution(t, i, kind)
    PROVE  /\ \A j \in 1..Len(t.miners) : j # i + 1 => u.miners[j] = t.miners[j]
           /\ u.farm = [t.farm EXCEPT ![kind] = @ + 1]
<1>1. u.farm = [t.farm EXCEPT ![kind] = @ + 1]
  BY Zenon DEF accountSolution
<1>2. t.miners \in Seq([Kinds -> Nat])
  BY DEF Telemetry
<1>3. \/ u.miners = t.miners
      \/ u.miners = [t.miners EXCEPT ![i + 1][kind] = @ + 1]
  BY Zenon DEF accountSolution
<1>4. \A j \in 1..Len(t.miners) : j # i + 1 => u.miners[j] = t.miners[j]
  BY SMTT(30), <1>2, <1>3
<1> QED
  BY <1>1, <1>4

(* An entry the telemetry gains for a new miner starts with nothing        *)
(* counted.                                                                *)
LEMMA AppendTouches ==
    ASSUME NEW t \in Telemetry, NEW u, u = AppendEntries(t), NEW j \in 1..Len(u.miners), j > Len(t.miners)
    PROVE  u.miners[j] = NoCounts
<1> DEFINE new == [i \in 1..N |-> NoCounts]
           all == t.miners \o new
           l == Len(t.miners)
<1>1. new \in Seq([Kinds -> Nat]) /\ Len(new) = N /\ \A i \in 1..N : new[i] = NoCounts
  BY SolutionsAssumption DEF NoCounts
<1>2. u.miners = all
  BY Zenon DEF AppendEntries, Telemetry
<1>3. t.miners \in Seq([Kinds -> Nat]) /\ l \in Nat
  BY DEF Telemetry
<1> HIDE DEF new
<1>4. /\ Len(all) = l + Len(new)
      /\ \A i \in 1..(l + Len(new)) : all[i] = IF i <= l THEN t.miners[i] ELSE new[i - l]
  BY Zenon, <1>1, <1>3, ConcatProperties
<1> HIDE DEF all, l
<1>5. j \in 1..(l + N) /\ j > l
  BY <1>1, <1>2, <1>4 DEF l
<1>6. ~(j <= l) /\ j - l \in 1..N
  BY <1>3, <1>5, SolutionsAssumption
<1>7. all[j] = new[j - l]
  BY <1>1, <1>4, <1>5, <1>6
<1> QED
  BY <1>1, <1>2, <1>6, <1>7

(* The counts of one kind are a function on an interval.                   *)
LEMMA ColumnTypes ==
    ASSUME NEW t \in Telemetry, NEW k \in Kinds
    PROVE  /\ DOMAIN Column(t, k) = 1..Len(t.miners) /\ Len(t.miners) \in Nat
           /\ IsFiniteSet(1..Len(t.miners)) /\ Numbers(Column(t, k), 1..Len(t.miners))
           /\ \A j \in 1..Len(t.miners) : Column(t, k)[j] = t.miners[j][k]
<1>1. t.miners \in Seq([Kinds -> Nat])
  BY DEF Telemetry
<1>2. /\ DOMAIN t.miners = 1..Len(t.miners) /\ Len(t.miners) \in Nat
      /\ \A j \in 1..Len(t.miners) : t.miners[j] \in [Kinds -> Nat]
  BY <1>1
<1>3. IsFiniteSet(1..Len(t.miners))
  BY <1>2, FS_Interval
<1>4. \A j \in 1..Len(t.miners) : t.miners[j][k] \in Nat
  BY <1>2
<1> QED
  BY Zenon, <1>2, <1>3, <1>4 DEF Column, Numbers

(* accountSolution raises the count of the farm and that of the miner.     *)
LEMMA AccountAgrees ==
    ASSUME NEW t \in Telemetry, Agree(t), NEW i \in Miners, i + 1 <= Len(t.miners),
           NEW kind \in Kinds, NEW u, u = accountSolution(t, i, kind)
    PROVE  Agree(u)
<1>a. /\ \A j \in 1..Len(t.miners) : j # i + 1 => u.miners[j] = t.miners[j]
      /\ u.farm = [t.farm EXCEPT ![kind] = @ + 1]
  BY AccountTouches
<1>1. /\ u \in Telemetry /\ Len(u.miners) = Len(t.miners)
      /\ u.miners[i + 1][kind] = t.miners[i + 1][kind] + 1
      /\ \A k \in Kinds \ {kind} : u.miners[i + 1][k] = t.miners[i + 1][k]
  BY AccountRaises
<1> SUFFICES ASSUME NEW k \in Kinds PROVE u.farm[k] = SumFunction(Column(u, k))
  BY DEF Agree
<1> DEFINE S == 1..Len(t.miners)
           f == Column(t, k)
           g == Column(u, k)
           x == i + 1
<1>2. /\ DOMAIN f = S /\ DOMAIN g = S /\ IsFiniteSet(S) /\ Numbers(f, S) /\ Numbers(g, S)
      /\ \A j \in S : f[j] = t.miners[j][k] /\ g[j] = u.miners[j][k]
  <2>1. DOMAIN f = S /\ IsFiniteSet(S) /\ Numbers(f, S) /\ \A j \in S : f[j] = t.miners[j][k]
    BY Zenon, ColumnTypes
  <2>2. DOMAIN g = S /\ Numbers(g, S) /\ \A j \in S : g[j] = u.miners[j][k]
    <3>1. S = 1..Len(u.miners) /\ u \in Telemetry
      BY Zenon, <1>1
    <3>2. DOMAIN g = 1..Len(u.miners) /\ Numbers(g, 1..Len(u.miners))
          /\ \A j \in 1..Len(u.miners) : g[j] = u.miners[j][k]
      BY Zenon, <3>1, ColumnTypes
    <3> HIDE DEF g, S
    <3> QED BY Zenon, <3>1, <3>2
  <2> HIDE DEF f, g, S
  <2> QED BY Zenon, <2>1, <2>2
<1>3. t.farm[k] = SumFunctionOnSet(f, S)
  BY Zenon, <1>2 DEF Agree, SumFunction
<1>4. SumFunction(g) = SumFunctionOnSet(g, S)
  BY Zenon, <1>2 DEF SumFunction
<1>5. x \in S /\ \A j \in S \ {x} : f[j] = g[j]
  <2>1. x \in S
    BY ColumnTypes, MinersAreNumbers
  <2>2. \A j \in S : j # x => u.miners[j] = t.miners[j]
    BY Zenon, <1>a
  <2>3. ASSUME NEW j \in S \ {x} PROVE f[j] = g[j]
    <3> HIDE DEF f, g, S, x
    <3> QED BY Zenon, <1>2, <2>2
  <2> HIDE DEF f, g, S, x
  <2> QED BY Zenon, <2>1, <2>3
<1>6. t.farm \in [Kinds -> Nat]
  BY DEF Telemetry
<1>7. CASE k = kind
  <2>1. f[x] \in Nat /\ g[x] = f[x] + 1
    <3> HIDE DEF f, g, S
    <3> QED BY <1>1, <1>2, <1>5, <1>7 DEF Numbers
  <2>2. /\ SumFunctionOnSet(f, S) \in Nat
        /\ SumFunctionOnSet(g, S) = SumFunctionOnSet(f, S) - f[x] + g[x]
    <3> HIDE DEF f, g, S, x
    <3> QED BY <1>2, <1>5, SumChanges
  <2>3. u.farm[k] = t.farm[k] + 1
    BY <1>a, <1>6, <1>7
  <2> HIDE DEF f, g, S, x
  <2>4. SumFunctionOnSet(g, S) = SumFunctionOnSet(f, S) + 1
    BY <2>1, <2>2
  <2> QED BY <1>3, <1>4, <2>3, <2>4 DEF g
<1>8. CASE k # kind
  <2>1. u.farm[k] = t.farm[k]
    BY <1>a, <1>6, <1>8
  <2>2. \A j \in S : f[j] = g[j]
    <3>1. f[x] = g[x]
      BY Zenon, <1>1, <1>2, <1>5, <1>8
    <3> HIDE DEF f, g, S, x
    <3> QED BY Zenon, <1>5, <3>1
  <2>3. SumFunctionOnSet(f, S) = SumFunctionOnSet(g, S)
    <3> HIDE DEF f, g, S, x
    <3> QED BY <1>2, <2>2, SumsAgree
  <2> QED BY Zenon, <1>3, <1>4, <2>1, <2>3
<1> QED
  BY <1>7, <1>8

(* The entries that Farm::start appends count nothing.                     *)
LEMMA AppendAgrees ==
    ASSUME NEW t \in Telemetry, Agree(t), NEW u, u = AppendEntries(t)
    PROVE  Agree(u)
<1>1. /\ u \in Telemetry /\ Len(u.miners) = Len(t.miners) + N
      /\ \A j \in 1..Len(t.miners) : u.miners[j] = t.miners[j]
      /\ \A j \in 1..Len(u.miners) : j > Len(t.miners) => u.miners[j] = NoCounts
  BY AppendKeeps, AppendTouches
<1>f. u.farm = t.farm
  BY Zenon DEF AppendEntries, Telemetry
<1> SUFFICES ASSUME NEW k \in Kinds PROVE u.farm[k] = SumFunction(Column(u, k))
  BY DEF Agree
<1> DEFINE S == 1..Len(u.miners)
           T == 1..Len(t.miners)
           f == Column(t, k)
           g == Column(u, k)
<1>2. /\ DOMAIN f = T /\ DOMAIN g = S /\ IsFiniteSet(S) /\ IsFiniteSet(T)
      /\ Numbers(f, T) /\ Numbers(g, S) /\ Len(t.miners) \in Nat /\ Len(u.miners) \in Nat
      /\ \A j \in T : f[j] = t.miners[j][k]
      /\ \A j \in S : g[j] = u.miners[j][k]
  BY Zenon, <1>1, ColumnTypes
<1>3. T \in SUBSET S
  BY <1>1, <1>2, SolutionsAssumption
<1>4. \A j \in S \ T : g[j] = 0
  <2> SUFFICES ASSUME NEW j \in S, j \notin T PROVE g[j] = 0
    OBVIOUS
  <2>1. j > Len(t.miners)
    BY <1>2
  <2>2. u.miners[j] = NoCounts
    BY <1>1, <2>1
  <2> HIDE DEF g
  <2> QED BY <1>2, <2>2 DEF NoCounts
<1>5. \A j \in T : f[j] = g[j]
  BY Zenon, <1>1, <1>2, <1>3
<1>6. t.farm[k] = SumFunctionOnSet(f, T) /\ SumFunction(g) = SumFunctionOnSet(g, S)
  BY Zenon, <1>2 DEF Agree, SumFunction
<1> HIDE DEF f, g, S, T
<1>7. SumFunctionOnSet(g, S) = SumFunctionOnSet(g, T)
  BY <1>2, <1>3, <1>4, SumGrows
<1>8. SumFunctionOnSet(f, T) = SumFunctionOnSet(g, T)
  BY <1>2, <1>5, SumsAgree
<1> QED
  BY Zenon, <1>f, <1>6, <1>7, <1>8 DEF g

(* A solution on its way, and a search, are those of miners that the farm  *)
(* has started; Farm::stop leaves their entries.  Without it a solution    *)
(* could be counted for the farm alone.                                    *)
FoundByMiners == /\ posted # <<>> => Mining
                 /\ \A i \in Miners : searching[i] # 0 => Mining

(* A step leaves the counts, starts miners, or counts one solution of a    *)
(* miner that has its entry.                                               *)
Counts == \/ m_telemetry' = m_telemetry
          \/ m_telemetry' = AppendEntries(m_telemetry)
          \/ /\ Mining
             /\ \E i \in Miners, kind \in Kinds : m_telemetry' = accountSolution(m_telemetry, i, kind)

(* Every step is one of those kinds.                                       *)
LEMMA NextCounts == ASSUME CreditInv, FoundByMiners, [Next]_vars PROVE Counts
<1> USE DEF client, counts
<1>1. CASE Restart \/ Links \/ LoginAnswered
  BY Zenon, <1>1 DEF Restart, Links, LoginAnswered, Spins, Counts
<1>2. CASE Dials \/ AuthAnswered \/ JobArrives \/ Disconnects \/ GivesUp \/ Ticks \/ UNCHANGED vars
  BY Zenon, <1>2 DEF Dials, AuthAnswered, JobArrives, Disconnects, GivesUp, Ticks, vars, Counts
<1>3. CASE submitProofAsync
  <2>1. posted # <<>> /\ posted \in Seq(Solution)
    BY <1>3 DEF submitProofAsync, CreditInv, CreditTypes
  <2>2. Head(posted).midx \in Miners /\ Mining
    <3>1. Head(posted) \in Solution
      BY <2>1
    <3> QED BY <2>1, <3>1 DEF Solution, FoundByMiners
  <2>3. {"accepted", "rejected", "failed"} \subseteq Kinds
    BY DEF Kinds
  <2>4. \/ m_telemetry' = m_telemetry
        \/ \E kind \in {"accepted", "rejected", "failed"} :
              m_telemetry' = accountSolution(m_telemetry, Head(posted).midx, kind)
    BY Zenon, <1>3 DEF submitProofAsync, onSolutionFound, Submits, Simulates, Drops
  <2> QED BY Zenon, <2>2, <2>3, <2>4 DEF Counts
<1>4. ASSUME NEW i \in Miners, NEW kind \in {"accepted", "rejected"}, Answers(i, kind) PROVE Counts
  <2>1. kind \in Kinds /\ Mining
    BY <1>4 DEF Kinds, Answers, isAuthorized, CreditInv
  <2>2. m_telemetry' = m_telemetry \/ m_telemetry' = accountSolution(m_telemetry, i, kind)
    BY Zenon, <1>4 DEF Answers
  <2> QED BY Zenon, <2>1, <2>2 DEF Counts
<1>5. ASSUME NEW i \in Miners, MinerStep(i) PROVE Counts
  BY Zenon, <1>5 DEF MinerStep, PicksUp, submitProof, Counts
<1> QED
  BY Zenon, <1>1, <1>2, <1>3, <1>4, <1>5 DEF Next, IoStep

(* A step of those kinds keeps the farm's counts equal to the sums of its  *)
(* miners' counts.                                                         *)
LEMMA CountsAgree == ASSUME CreditInv, Agree(m_telemetry), Counts PROVE Agree(m_telemetry')
<1>1. m_telemetry \in Telemetry
  BY DEF CreditInv, CreditTypes
<1>2. CASE m_telemetry' = m_telemetry
  BY Zenon, <1>2
<1>3. CASE m_telemetry' = AppendEntries(m_telemetry)
  BY <1>1, <1>3, AppendAgrees
<1>4. ASSUME Mining, NEW i \in Miners, NEW kind \in Kinds,
             m_telemetry' = accountSolution(m_telemetry, i, kind)
      PROVE  Agree(m_telemetry')
  <2>1. i + 1 <= Len(m_telemetry.miners)
    BY <1>4, EveryMinerHasAnEntry
  <2> QED BY <1>1, <1>4, <2>1, AccountAgrees
<1> QED
  BY Zenon, <1>2, <1>3, <1>4 DEF Counts

(* Entries are never removed.                                              *)
LEMMA EntriesStay == ASSUME CreditInv, Counts, Mining PROVE Mining'
<1>1. m_telemetry \in Telemetry /\ Len(m_telemetry.miners) >= N
  BY DEF CreditInv, CreditTypes
<1>2. CASE m_telemetry' = m_telemetry
  BY Zenon, <1>2 DEF Mining
<1>3. CASE m_telemetry' = AppendEntries(m_telemetry)
  <2>1. /\ m_telemetry' \in Telemetry
        /\ Len(m_telemetry'.miners) = Len(m_telemetry.miners) + N
    BY <1>1, <1>3, AppendKeeps
  <2>2. m_telemetry.miners \in Seq([Kinds -> Nat]) /\ m_telemetry'.miners \in Seq([Kinds -> Nat])
    BY <1>1, <2>1 DEF Telemetry
  <2>3. Len(m_telemetry'.miners) # 0
    BY <1>1, <2>1, <2>2, SolutionsAssumption
  <2> QED BY <2>2, <2>3 DEF Mining
<1>4. ASSUME NEW i \in Miners, NEW kind \in Kinds, m_telemetry' = accountSolution(m_telemetry, i, kind)
      PROVE  Mining'
  BY Zenon, <1>4, CreditRaised
<1> QED
  BY Zenon, <1>2, <1>3, <1>4 DEF Counts

(* Every step keeps solutions posted, and work searched, only where the    *)
(* miners were started.                                                    *)
LEMMA NextFound ==
    ASSUME CreditInv, JobTypes, FoundByMiners, [Next]_vars PROVE FoundByMiners'
<1> USE DEF client, counts
<1>0. Mining => Mining'
  BY Zenon, NextCounts, EntriesStay
<1>1. ASSUME posted' = posted \/ posted # <<>> \/ Mining,
             \A i \in Miners : searching'[i] # 0 => searching[i] # 0 \/ Mining
      PROVE  FoundByMiners'
  BY Zenon, <1>0, <1>1 DEF FoundByMiners
<1>2. CASE UNCHANGED <<posted, searching>>
  BY Zenon, <1>1, <1>2
<1>3. CASE Dials \/ Links \/ LoginAnswered \/ AuthAnswered \/ JobArrives \/ Disconnects
           \/ GivesUp \/ Ticks \/ UNCHANGED vars
  BY Zenon, <1>2, <1>3 DEF Dials, Links, LoginAnswered, AuthAnswered, JobArrives, Disconnects, GivesUp,
     Ticks, vars
<1>4. CASE Restart
  <2>1. posted' = posted /\ \A i \in Miners : searching'[i] = 0
    BY <1>4 DEF Restart, Zero
  <2> QED BY Zenon, <1>1, <2>1
<1>5. CASE submitProofAsync
  BY Zenon, <1>1, <1>5 DEF submitProofAsync
<1>6. ASSUME NEW i \in Miners, NEW kind \in {"accepted", "rejected"}, Answers(i, kind)
      PROVE  FoundByMiners'
  BY Zenon, <1>2, <1>6 DEF Answers
<1>7. ASSUME NEW i \in Miners, PicksUp(i) PROVE FoundByMiners'
  BY Zenon, <1>1, <1>7 DEF PicksUp
<1>8. ASSUME NEW i \in Miners, NEW good \in BOOLEAN, submitProof(i, good) PROVE FoundByMiners'
  <2>1. Mining /\ searching' = searching
    BY Zenon, <1>8 DEF submitProof, FoundByMiners
  <2> QED BY Zenon, <1>1, <2>1
<1> QED
  BY Zenon, <1>3, <1>4, <1>5, <1>6, <1>7, <1>8 DEF Next, IoStep, MinerStep

(* What the farm reports is the sum of what its miners have done, for any  *)
(* number of miners, of answers and of restarts.                           *)
THEOREM FarmCountsItsMiners == Spec => []AccountsAgree
<1> DEFINE I == CreditInv /\ JobTypes /\ FoundByMiners /\ Agree(m_telemetry)
<1>1. Init => I
  <2> SUFFICES ASSUME Init PROVE I
    OBVIOUS
  <2>1. CreditInv /\ JobTypes
    BY InitCreditInv
  <2>2. FoundByMiners
    BY Zenon DEF Init, FoundByMiners, Zero
  <2>3. m_telemetry = [farm |-> NoCounts, miners |-> <<>>] /\ m_telemetry \in Telemetry
    BY <2>1 DEF Init, CreditInv, CreditTypes
  <2>4. ASSUME NEW k \in Kinds PROVE m_telemetry.farm[k] = SumFunction(Column(m_telemetry, k))
    <3>1. m_telemetry.farm[k] = 0 /\ Len(m_telemetry.miners) = 0
      BY <2>3 DEF NoCounts
    <3>2. DOMAIN Column(m_telemetry, k) = {}
      <4>1. DOMAIN Column(m_telemetry, k) = 1..Len(m_telemetry.miners)
        BY Zenon, <2>3, ColumnTypes
      <4> QED BY <3>1, <4>1
    <3>3. SumFunction(Column(m_telemetry, k)) = 0
      BY Zenon, <3>2, SumOfNothing DEF SumFunction
    <3> QED BY Zenon, <3>1, <3>3
  <2> QED BY Zenon, <2>1, <2>2, <2>4 DEF Agree
<1>2. I /\ [Next]_vars => I'
  <2> SUFFICES ASSUME I, [Next]_vars PROVE I'
    OBVIOUS
  <2>1. CreditInv' /\ JobTypes'
    BY NextCreditInv, NextJobTypes
  <2>2. Counts
    BY Zenon, NextCounts
  <2>3. Agree(m_telemetry')
    BY Zenon, <2>2, CountsAgree
  <2>4. FoundByMiners'
    BY Zenon, NextFound
  <2>5. Agree(m_telemetry)'
    BY Zenon, <2>3 DEF Agree, Column
  <2> QED BY Zenon, <2>1, <2>4, <2>5
<1>3. I => AccountsAgree
  BY Zenon DEF Agree, Column, AccountsAgree
<1> QED
  BY <1>1, <1>2, <1>3, PTL DEF Spec

-----------------------------------------------------------------------------
(* The pleas and the answers that are awaited.                             *)

(* Of an open stratum connection they agree; before, one answer is awaited,*)
(* to the login or to the authorisation.                                   *)
PleaPhases == family = "stratum" =>
    /\ (phase \in {"login", "auth"} => pleas.count = 1)
    /\ (phase = "open" => pleas.count = SumFunctionOnSet(awaited, Miners))

(* The farm has finitely many miners.                                      *)
LEMMA MinersAreFinite == IsFiniteSet(Miners)
  BY SolutionsAssumption, FS_Interval DEF Miners

(* One more, or one less, answer is awaited.                               *)
LEMMA AwaitedChanges ==
    ASSUME NEW a \in [Miners -> Nat], NEW i \in Miners, NEW n \in Nat
    PROVE  /\ SumFunctionOnSet(a, Miners) \in Nat /\ SumFunctionOnSet(a, Miners) >= a[i]
           /\ SumFunctionOnSet([a EXCEPT ![i] = n], Miners) = SumFunctionOnSet(a, Miners) - a[i] + n
<1> DEFINE b == [a EXCEPT ![i] = n]
<1>1. Numbers(a, Miners) /\ Numbers(b, Miners) /\ b[i] = n /\ \A j \in Miners \ {i} : a[j] = b[j]
  BY DEF Numbers
<1> HIDE DEF b
<1>2. /\ SumFunctionOnSet(a, Miners) \in Nat /\ SumFunctionOnSet(a, Miners) >= a[i]
      /\ SumFunctionOnSet(b, Miners) = SumFunctionOnSet(a, Miners) - a[i] + b[i]
  BY <1>1, MinersAreFinite, SumChanges
<1> QED BY Zenon, <1>1, <1>2 DEF b

(* A submission adds one plea and one awaited answer, so the two stay      *)
(* tied.                                                                   *)
LEMMA PleaOfSubmission == ASSUME CreditInv, PleaPhases, submitProofAsync PROVE PleaPhases'
<1>0. /\ posted # <<>> /\ posted \in Seq(Solution) /\ awaited \in [Miners -> Nat]
      /\ family' = family /\ phase' = phase
  BY DEF submitProofAsync, CreditInv, CreditTypes
<1>1. Head(posted).midx \in Miners
  <2>1. Head(posted) \in Solution
    BY <1>0
  <2> QED BY <2>1 DEF Solution
<1>2. PICK m \in Miners : m = Head(posted).midx
  BY Zenon, <1>1
<1>3. CASE UNCHANGED <<pleas, awaited>>
  BY Zenon, <1>0, <1>3 DEF PleaPhases
<1>4. CASE phase = "open" /\ Submits(Head(posted))
  <2> SUFFICES ASSUME family = "stratum" PROVE pleas'.count = SumFunctionOnSet(awaited', Miners)
    BY <1>0, <1>4 DEF PleaPhases
  <2>1. pleas' = enqueue_response_plea(pleas, now) /\ awaited' = [awaited EXCEPT ![m] = awaited[m] + 1]
    BY Zenon, <1>2, <1>4 DEF Submits
  <2>2. pleas'.count = pleas.count + 1
    BY Zenon, <2>1 DEF enqueue_response_plea
  <2>3. pleas.count = SumFunctionOnSet(awaited, Miners)
    BY Zenon, <1>4 DEF PleaPhases
  <2>4. awaited[m] \in Nat /\ awaited[m] + 1 \in Nat
    BY <1>0
  <2>5. /\ SumFunctionOnSet(awaited, Miners) \in Nat
        /\ SumFunctionOnSet(awaited', Miners) =
              SumFunctionOnSet(awaited, Miners) - awaited[m] + (awaited[m] + 1)
    BY Zenon, <1>0, <2>1, <2>4, AwaitedChanges
  <2> QED BY <2>2, <2>3, <2>4, <2>5
<1>5. UNCHANGED <<pleas, awaited>> \/ (phase = "open" /\ Submits(Head(posted)))
  BY Zenon DEF submitProofAsync, onSolutionFound, isAuthorized, Simulates, Drops
<1> QED
  BY <1>3, <1>4, <1>5

(* An answer takes off one plea and one awaited answer, so the two stay    *)
(* tied.                                                                   *)
LEMMA PleaOfAnswer ==
    ASSUME CreditInv, PleaPhases, NEW i \in Miners, NEW kind \in {"accepted", "rejected"}, Answers(i, kind)
    PROVE  PleaPhases'
<1>1. /\ phase = "open" /\ phase' = "open" /\ family' = family /\ awaited[i] > 0
      /\ awaited' = [awaited EXCEPT ![i] = awaited[i] - 1] /\ awaited \in [Miners -> Nat]
  BY DEF Answers, isAuthorized, CreditInv, CreditTypes
<1>2. 40 + i <= m_solution_submitted_max_id
  BY <1>1 DEF CreditInv
<1> SUFFICES ASSUME family = "stratum" PROVE pleas'.count = SumFunctionOnSet(awaited', Miners)
  BY <1>1 DEF PleaPhases
<1>3. pleas' = dequeue_response_plea(pleas)
  <2>1. ~(40 + i > m_solution_submitted_max_id)
    BY <1>2, MinersAreNumbers DEF CreditInv, CreditTypes
  <2> QED BY Zenon, <2>1 DEF Answers, PleaAnswered
<1>4. pleas.count = SumFunctionOnSet(awaited, Miners)
  BY Zenon, <1>1 DEF PleaPhases
<1>5. awaited[i] \in Nat /\ awaited[i] - 1 \in Nat
  BY <1>1
<1>6. /\ SumFunctionOnSet(awaited, Miners) \in Nat /\ SumFunctionOnSet(awaited, Miners) >= awaited[i]
      /\ SumFunctionOnSet(awaited', Miners) =
            SumFunctionOnSet(awaited, Miners) - awaited[i] + (awaited[i] - 1)
  BY Zenon, <1>1, <1>5, AwaitedChanges
<1>7. pleas.count > 0
  BY <1>1, <1>4, <1>5, <1>6
<1>8. pleas'.count = pleas.count - 1
  BY Zenon, <1>3, <1>7 DEF dequeue_response_plea
<1> QED BY <1>4, <1>5, <1>6, <1>8

(* Every step keeps the number of pleas tied to the number of answers      *)
(* awaited.                                                                *)
LEMMA NextPleaPhases == ASSUME CreditInv, PleaPhases, [Next]_vars PROVE PleaPhases'
<1> USE DEF client, counts
<1>1. CASE Dials \/ Disconnects \/ GivesUp
  BY <1>1 DEF Dials, Disconnects, GivesUp, PleaPhases
<1>2. CASE Links
  <2>1. CASE family = "stratum"
    <3>1. phase' = "login" /\ pleas' = enqueue_response_plea(clear_response_pleas(now), now)
      BY Zenon, <1>2, <2>1 DEF Links
    <3>2. pleas'.count = 1
      BY <3>1 DEF enqueue_response_plea, clear_response_pleas
    <3> QED BY <3>1, <3>2 DEF PleaPhases
  <2>2. CASE family # "stratum"
    BY Zenon, <1>2, <2>2 DEF Links, PleaPhases
  <2> QED BY <2>1, <2>2
<1>3. CASE LoginAnswered
  <2> SUFFICES ASSUME family = "stratum" PROVE pleas'.count = 1
    BY <1>3 DEF LoginAnswered, PleaPhases
  <2>1. pleas.count = 1 /\ pleas' = enqueue_response_plea(dequeue_response_plea(pleas), now)
    BY Zenon, <1>3 DEF LoginAnswered, PleaPhases
  <2> QED BY <2>1 DEF enqueue_response_plea, dequeue_response_plea
<1>4. CASE AuthAnswered
  <2> SUFFICES ASSUME family = "stratum" PROVE pleas'.count = SumFunctionOnSet(awaited', Miners)
    BY <1>4 DEF AuthAnswered, PleaPhases
  <2>1. /\ pleas.count = 1 /\ pleas' = dequeue_response_plea(pleas)
        /\ awaited' = awaited /\ phase = "auth"
    BY Zenon, <1>4 DEF AuthAnswered, PleaPhases
  <2>2. pleas'.count = 0
    BY <2>1 DEF dequeue_response_plea
  <2>3. \A i \in Miners : awaited'[i] = 0
    BY <2>1 DEF CreditInv
  <2>4. SumFunctionOnSet(awaited', Miners) = 0
    BY Zenon, <2>3, MinersAreFinite, SumOfZeros
  <2> QED BY Zenon, <2>2, <2>4
<1>5. CASE submitProofAsync
  BY Zenon, <1>5, PleaOfSubmission
<1>6. ASSUME NEW i \in Miners, NEW kind \in {"accepted", "rejected"}, Answers(i, kind) PROVE PleaPhases'
  BY Zenon, <1>6, PleaOfAnswer
<1>7. CASE UNCHANGED <<family, phase, pleas, awaited>>
  BY Zenon, <1>7 DEF PleaPhases
<1>8. CASE Restart \/ JobArrives \/ Ticks \/ UNCHANGED vars
  BY Zenon, <1>7, <1>8 DEF Restart, JobArrives, Ticks, vars
<1>9. ASSUME NEW i \in Miners, MinerStep(i) PROVE PleaPhases'
  BY Zenon, <1>7, <1>9 DEF MinerStep, PicksUp, submitProof
<1> QED
  BY Zenon, <1>1, <1>2, <1>3, <1>4, <1>5, <1>6, <1>8, <1>9 DEF Next, IoStep

(* The pleas of an open stratum connection are the answers its pool owes,  *)
(* for any number of miners and of connections: neither an answer nor a    *)
(* connection that ended leaves a plea behind.                             *)
THEOREM PleasAreOwed == Spec => []PleasAreAwaited
<1> DEFINE I == CreditInv /\ JobTypes /\ PleaPhases
<1>1. Init => I
  <2> SUFFICES ASSUME Init PROVE I
    OBVIOUS
  <2>1. CreditInv /\ JobTypes
    BY InitCreditInv
  <2>2. PleaPhases
    BY DEF Init, PleaPhases
  <2> QED BY <2>1, <2>2
<1>2. I /\ [Next]_vars => I'
  BY NextCreditInv, NextJobTypes, NextPleaPhases
<1>3. I => PleasAreAwaited
  <2> SUFFICES ASSUME I PROVE PleasAreAwaited
    OBVIOUS
  <2>1. DOMAIN awaited = Miners
    BY DEF CreditInv, CreditTypes
  <2> QED BY Zenon, <2>1 DEF PleaPhases, PleasAreAwaited, SumFunction
<1> QED
  BY <1>1, <1>2, <1>3, PTL DEF Spec
=============================================================================
