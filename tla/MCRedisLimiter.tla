--------------------------- MODULE MCRedisLimiter ---------------------------
(***************************************************************************)
(* RedisLimiter with two keys for one bucket of the in-memory limiter.     *)
(* The second key calls only at the start, often enough to evict the       *)
(* running windows of the first again and again.                           *)
(***************************************************************************)
EXTENDS RedisLimiter, TLC

CONSTANTS k1, k2

MCLastCall == k1 :> MaxTime @@ k2 :> 0
=============================================================================
