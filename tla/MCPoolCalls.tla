---------------------------- MODULE MCPoolCalls -----------------------------
(* Small instances of PoolCalls for TLC. *)
EXTENDS PoolCalls

MCWeight == [u \in 1..N |-> IF u = 1 THEN 2 ELSE 1]
=============================================================================
