------------------------------ MODULE PoolClient ------------------------------
(***************************************************************************)
(* What a stratum client promises its pool manager: the connection status  *)
(* behind the PoolClient interface, and what becomes of the URI object.    *)
(* The clients of PoolManager behave so; StratumClient implements it.      *)
(***************************************************************************)
EXTENDS Integers

CONSTANTS TLS,            \* the socket is encrypted
          Version,        \* the flavour the scheme names, Unset if none
          Unset

VARIABLES st,             \* the phase of the connection
          responds,       \* the pool accepted a connection
          mode, confirmed, unrecoverable

vars == <<st, responds, mode, confirmed, unrecoverable>>

Init == /\ st = "dialing" /\ mode = Unset
        /\ ~responds /\ ~confirmed /\ ~unrecoverable

Links == /\ st = "dialing" /\ st' = "linked" /\ responds'
         /\ mode' = IF Version # Unset THEN Version ELSE IF mode = Unset THEN 3 ELSE mode
         /\ confirmed' = (confirmed \/ Version # Unset)
         /\ UNCHANGED unrecoverable

HandshakeFails == /\ TLS /\ st = "dialing" /\ st' = "linked" /\ responds' /\ unrecoverable'
                  /\ UNCHANGED <<mode, confirmed>>

SessionStarts == /\ st = "linked" /\ st' = "session" /\ confirmed'
                 /\ UNCHANGED <<responds, mode, unrecoverable>>

(* The answer to the login arrives while TLS shuts down.                   *)
LateLogin == /\ TLS /\ st = "shutdown" /\ confirmed'
             /\ UNCHANGED <<st, responds, mode, unrecoverable>>

PoolIsMarked == /\ st \in {"linked", "session", "shutdown"} /\ confirmed /\ unrecoverable'
                /\ UNCHANGED <<st, responds, mode, confirmed>>

ShutsDown == /\ TLS /\ st \in {"linked", "session"} /\ st' = "shutdown"
             /\ UNCHANGED <<responds, mode, confirmed, unrecoverable>>

Detecting == responds /\ ~confirmed /\ ~unrecoverable

Ends == /\ st \in {"dialing", "shutdown"} \/ (~TLS /\ st \in {"linked", "session"})
        /\ \/ /\ Detecting /\ mode > 0
              /\ st' = "dialing" /\ mode' = mode - 1
              /\ UNCHANGED <<responds, confirmed, unrecoverable>>
           \/ /\ ~(Detecting /\ mode > 0)
              /\ st' = "closed" /\ unrecoverable' = (unrecoverable \/ Detecting)
              /\ UNCHANGED <<responds, mode, confirmed>>

Next == Links \/ HandshakeFails \/ SessionStarts \/ LateLogin \/ PoolIsMarked \/ ShutsDown \/ Ends

Spec == Init /\ [][Next]_vars

==============================================================================
