--------------------------- MODULE MCRedisLimiter ---------------------------
(* RedisLimiter for TLC: the requests are interchangeable.                  *)
EXTENDS RedisLimiter, TLC

Symmetry == Permutations(Requests)

=============================================================================
