---------------------------------- MODULE Rig ----------------------------------
(***************************************************************************)
(* One connection to the API, the nonces of the farm it changes, and the   *)
(* miners that search them.  A job reaches every miner at once: how it     *)
(* does is the business of module Farm.                                    *)
(***************************************************************************)
EXTENDS ApiRequests, Nonces

CONSTANTS N,             \* number of miners
          Seeds,         \* the scramblers that are drawn or set
          Extras,        \* the lengths of the extranonces of a pool
          MaxBlocks      \* bound: blocks a miner searches of one job

ASSUME RigAssumption == /\ {N, MaxBlocks} \subseteq Nat \ {0} /\ Seeds \subseteq Nonces64
                        /\ \A ex \in Extras : ex \in Nat /\ RoomBits(ex) \in Nat /\ N <= pow2[RoomBits(ex)]

Miners == 1..N

VARIABLES m_readonly,          \* the API port was given as a negative number
          m_password,          \* a password was given
          m_is_authenticated,
          shown,               \* whether the last api_authorize showed the password
          ergodicity,
          farm,
          blocks,              \* per miner: blocks searched of this job,
          nonce,               \* the next nonce,
          tried                \* and those tried

settings == <<m_readonly, m_password, ergodicity>>
connection == <<m_is_authenticated, shown>>
search == <<blocks, nonce, tried>>
rigVars == <<settings, connection, farm, search>>

RigTypeOK == /\ {m_readonly, m_password, m_is_authenticated, shown} \subseteq BOOLEAN
             /\ farm.m_nonce_scrambler \in Nonces64 /\ farm.m_nonce_segment_with \in 0..NonceBits
             /\ blocks \in [Miners -> 0..MaxBlocks]
             /\ nonce \in [Miners -> Nonces64] /\ tried \in [Miners -> SUBSET Nonces64]

RigInit == /\ m_readonly \in BOOLEAN /\ m_password \in BOOLEAN /\ ergodicity \in 0..2
           /\ m_is_authenticated = ~m_password /\ shown = FALSE
           /\ \E seed \in Seeds : farm = NewFarm(seed)
           /\ blocks = [i \in Miners |-> MaxBlocks] /\ nonce = [i \in Miners |-> 0]
           /\ tried = [i \in Miners |-> {}]

(* The members that are given; a width out of range is limited.            *)
ScramblerChange(f, r, seed, width) ==
    setscramblerinfo(f, IF r.params["noncescrambler"] = "absent" THEN f.m_nonce_scrambler ELSE seed,
                        IF r.params["segmentwidth"] = "absent" THEN f.m_nonce_segment_with ELSE width)

(* What a request changes.                                                 *)
Effect(r) == Change(m_is_authenticated, m_readonly, r)

processRequest(r, seed, width) ==
    /\ m_is_authenticated' = Authenticated(m_is_authenticated, r)
    /\ shown' = IF r.header = "good" /\ r.method = "api_authorize"
                THEN r.params # NoParams /\ r.params["psw"] = "good" ELSE shown
    /\ farm' = CASE Effect(r) = "miner_shuffle" -> shuffle(farm, seed)
                 [] Effect(r) = "miner_setscramblerinfo" -> ScramblerChange(farm, r, seed, width)
                 [] OTHER -> farm
    /\ UNCHANGED <<settings, search>>

(* A job with the extranonce `prefix', of ex digits.                       *)
NewWork(ex, prefix, seed) ==
    /\ farm' = setWork(farm, ex, prefix * pow2[RoomBits(ex)], N, ergodicity, seed)
    /\ nonce' = farm'.starts
    /\ blocks' = [i \in Miners |-> 0] /\ tried' = [i \in Miners |-> {}]
    /\ UNCHANGED <<settings, connection>>

(* onConnected: a session starts.                                          *)
Connected(seed) == /\ ergodicity = 1
                   /\ farm' = shuffle(farm, seed)
                   /\ UNCHANGED <<settings, connection, search>>

SearchBlock(i) == /\ blocks[i] < MaxBlocks
                  /\ blocks' = [blocks EXCEPT ![i] = @ + 1]
                  /\ tried' = [tried EXCEPT ![i] = @ \union Block(nonce[i])]
                  /\ nonce' = [nonce EXCEPT ![i] = BlockEnd(@)]
                  /\ UNCHANGED <<settings, connection, farm>>

(* Requests that leave the nonces alone need no seed and no width.         *)
Request == \/ \E r \in Requests : Effect(r) \notin {"miner_shuffle", "miner_setscramblerinfo"}
                                  /\ processRequest(r, 0, 0)
           \/ \E r \in Requests, seed \in Seeds : Effect(r) = "miner_shuffle" /\ processRequest(r, seed, 0)
           \/ \E r \in Requests, seed \in Seeds, width \in {0, LowWidth, HighWidth, HighWidth + 1} :
                 Effect(r) = "miner_setscramblerinfo" /\ processRequest(r, seed, width)

Job == \E ex \in Extras, seed \in Seeds :
          \E prefix \in 0..(pow2[DigitBits * ex] - 1) : NewWork(ex, prefix, seed)

RigNext == Request \/ Job \/ (\E seed \in Seeds : Connected(seed)) \/ \E i \in Miners : SearchBlock(i)

RigSpec == RigInit /\ [][RigNext]_rigVars

-----------------------------------------------------------------------------
(* A request changes something only through a writable API and, if there   *)
(* is a password, when the last api_authorize of the connection showed it: *)
(* m_is_authenticated is not left over from an earlier one.                *)
ChangesAreAllowed == \A r \in Requests : Effect(r) # "none" => ~m_readonly /\ (m_password => shown)

(* Miner i has not searched past the segment it was given.                 *)
WithinSegment(i) == blocks[i] * BlockSize <= pow2[farm.given]

(* "unique, non overlapping" (docs/API.md:512): miners that stay in their  *)
(* segments try no nonce twice between them, whatever the API did to the   *)
(* scrambler and the width, now or before.                                 *)
NoNonceTwice == \A i, j \in Miners : i # j /\ WithinSegment(i) /\ WithinSegment(j)
                                        => tried[i] \cap tried[j] = {}

(* The nonces tried begin with the extranonce of the job, so that the      *)
(* digits submitSolution leaves out are those the pool puts back.          *)
Prefixed(n) == n \div pow2[RoomBits(farm.exSizeBytes)] = farm.startNonce \div pow2[RoomBits(farm.exSizeBytes)]

PrefixIsKept == \A i \in Miners : WithinSegment(i) => \A n \in tried[i] : Prefixed(n)

-----------------------------------------------------------------------------
(* Stated by a document, or what the code counts on, and violated.         *)

(* The nonces tried begin with the extranonce however long a miner has     *)
(* searched: it does not stop at the end of its segment.                   *)
PoolsNoncesOnly == \A i \in Miners, n \in Nonces64 : n \in tried[i] => Prefixed(n)

(* "To compute the effective start_nonce assigned to each device you can   *)
(* use" (docs/API.md:537) the scrambler: not with an extranonce.           *)
ReportIsTrue == \A i \in DOMAIN farm.starts : ReportedStart(farm, i) = farm.starts[i]

(* "Not below" (ApiServer.cpp, miner_setscramblerinfo): a job without      *)
(* extranonce inherits the width of the last job with one.                 *)
WidthIsNotBelow == farm.exSizeBytes = 0 => farm.m_nonce_segment_with >= LowWidth

(* Every answer has a result or an error with a code, as docs/API.md:115   *)
(* shows for api_authorize.                                                *)
AnswerIsComplete == \A r \in Requests : \/ HasResult(m_is_authenticated, m_readonly, r)
                                        \/ Error(m_is_authenticated, m_readonly, r) \notin {NoError, Uncoded}

(* A block tries as many nonces as updateHashRate counts: not the one in   *)
(* which the nonces wrap.                                                  *)
BlockIsFull == \A i \in Miners : Cardinality(tried[i]) = IF farm.starts = <<>> THEN 0
                                                         ELSE blocks[i] * BlockSize

=============================================================================
