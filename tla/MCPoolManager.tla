---------------------------- MODULE MCPoolManager ----------------------------
(* Small lists of pools for TLC: a is the primary, b its fail-over, c a    *)
(* pool the API may add.                                                   *)
EXTENDS PoolManager

CONSTANTS a, b, c

AB == <<a, b>>

AllStratum == [p \in Pools |-> "stratum"]
Families == [p \in Pools |-> CASE p = a -> "stratum" [] p = b -> "getwork" [] OTHER -> "simulation"]

Autodetect == [p \in Pools |-> Unset]
Fixed == [p \in Pools |-> IF p = a THEN 3 ELSE 1]

==============================================================================
