-------------------------------- MODULE Pleas --------------------------------
(***************************************************************************)
(* The answers a stratum client awaits (libpoolprotocols/stratum/          *)
(* XcbStratumClient.cpp, enqueue_response_plea and the two after it).  A   *)
(* plea is the time at which a request was sent; the client keeps the      *)
(* number of pleas, the queue of their times and, beside the queue, the    *)
(* time m_response_plea_older from which the timer measures the delay.     *)
(*                                                                         *)
(* The operators are functions of the record of these three; `now' is the  *)
(* reading of the steady clock.                                            *)
(***************************************************************************)
EXTENDS Integers, Sequences

PleaRecords == [count : Nat, older : Nat, times : Seq(Nat)]

(* Mutant: the last request is taken for the oldest.                       *)
EnqueueAsOldest(p, now) ==
    [count |-> p.count + 1, older |-> now, times |-> Append(p.times, now)]

enqueue_response_plea(p, now) ==
    [count |-> p.count + 1,
     older |-> IF p.count = 0 THEN now ELSE p.older,
     times |-> Append(p.times, now)]

(* The time that is popped, that of the answered request, becomes the      *)
(* older one; a request sent since may still be awaited.                   *)
dequeue_response_plea(p) ==
    [count |-> IF p.count > 0 THEN p.count - 1 ELSE 0,
     older |-> IF p.times = <<>> THEN p.older ELSE Head(p.times),
     times |-> IF p.times = <<>> THEN <<>> ELSE Tail(p.times)]

clear_response_pleas(now) == [count |-> 0, older |-> now, times |-> <<>>]

(* The test of workloop_timer_elapsed on a linked client.                  *)
ResponseTimeout(p, now, timeout) == p.count > 0 /\ now - p.older >= timeout

-----------------------------------------------------------------------------
(* The count and the queue agree, the queue is in the order of time, and   *)
(* the older time is no later than any that is awaited.                    *)
PleasInv(p, now) == /\ p \in PleaRecords /\ now \in Nat
                    /\ p.count = Len(p.times)
                    /\ p.older <= now
                    /\ \A k \in DOMAIN p.times : p.older <= p.times[k] /\ p.times[k] <= now
                    /\ \A j, k \in DOMAIN p.times : j <= k => p.times[j] <= p.times[k]

=============================================================================
