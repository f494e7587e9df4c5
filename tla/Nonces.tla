-------------------------------- MODULE Nonces --------------------------------
(***************************************************************************)
(* How the farm divides nonces among its miners (Farm::setWork and the     *)
(* API's miner_setscramblerinfo).  The farm is a record of what these      *)
(* functions read and write; starts[i] is the start nonce of miner i and   *)
(* `given' the width of its segment when it got its job.                   *)
(*                                                                         *)
(* The code has 64-bit nonces, hexadecimal digits of 4 bits, a default     *)
(* width of 32, the limits 10, 50 and 40, and blocks of 30 nonces; these   *)
(* are constants here.                                                     *)
(***************************************************************************)
EXTENDS Integers, Sequences, FiniteSetsExt

CONSTANTS NonceBits, DigitBits, DefaultWidth, LowWidth, HighWidth, AboveHigh,
          BlockSize

(* 2^k, as a function one can reason about.                                *)
pow2[k \in Nat] == IF k = 0 THEN 1 ELSE 2 * pow2[k - 1]

ASSUME NoncesAssumption ==
    /\ {NonceBits, DigitBits, DefaultWidth, LowWidth, HighWidth, AboveHigh, BlockSize}
         \subseteq Nat \ {0}
    /\ LowWidth <= AboveHigh /\ AboveHigh <= HighWidth /\ HighWidth <= NonceBits

Nonces64 == 0..(pow2[NonceBits] - 1)

(* The nonces a pool leaves to a session whose extranonce has ex digits    *)
(* (exSizeBytes counts digits).                                            *)
RoomBits(ex) == NonceBits - DigitBits * ex

NewFarm(nonce) == [m_nonce_scrambler |-> nonce, m_nonce_segment_with |-> DefaultWidth,
                   exSizeBytes |-> 0, startNonce |-> 0, starts |-> <<>>,
                   given |-> DefaultWidth]

shuffle(f, nonce) == [f EXCEPT !.m_nonce_scrambler = nonce]

(* Mutant: the logarithm is rounded up.                                    *)
RoundedUp(ex, n) == Min({k \in 0..NonceBits : pow2[k] * n >= pow2[RoomBits(ex)]})

(* (unsigned)log2(pow(2, room) / n), for n from 1 to 2^room.               *)
SegmentWidth(ex, n) == Max({k \in 0..NonceBits : pow2[k] * n <= pow2[RoomBits(ex)]})

(* Farm::setWork for n miners; `random' is the nonce a shuffle would draw. *)
setWork(f, ex, start, n, ergodicity, random) ==
    LET g == IF ergodicity = 2 /\ ex = 0 THEN shuffle(f, random) ELSE f
        first == IF ex > 0 THEN start ELSE g.m_nonce_scrambler
        width == IF ex > 0 THEN SegmentWidth(ex, n) ELSE g.m_nonce_segment_with
    IN  [g EXCEPT !.exSizeBytes = ex, !.startNonce = start, !.m_nonce_segment_with = width,
                  !.given = width,
                  !.starts = [i \in 1..n |-> (first + (i - 1) * pow2[width]) % pow2[NonceBits]]]

(* Mutant: no upper limit.                                                 *)
LimitedBelow(width) == IF width < LowWidth THEN LowWidth ELSE width

(* processRequest: the limits of miner_setscramblerinfo.                   *)
Limited(width) == IF width < LowWidth THEN LowWidth ELSE IF width > HighWidth THEN AboveHigh ELSE width

set_nonce_segment_width(f, width) ==
    IF f.exSizeBytes = 0 THEN [f EXCEPT !.m_nonce_segment_with = width] ELSE f

setscramblerinfo(f, nonce, width) ==
    set_nonce_segment_width([f EXCEPT !.m_nonce_scrambler = nonce], Limited(width))

(* getMinerStatDetailPerMiner: the first nonce reported for miner i.       *)
ReportedStart(f, i) == (f.m_nonce_scrambler + (i - 1) * pow2[f.m_nonce_segment_with]) % pow2[NonceBits]

(* CPUMiner::search: the nonces of the block that starts at n, none if its *)
(* end has wrapped, and where the next one starts.                         *)
BlockEnd(n) == (n + BlockSize) % pow2[NonceBits]

Block(n) == {k \in Nonces64 : n <= k /\ k < BlockEnd(n)}

=============================================================================
