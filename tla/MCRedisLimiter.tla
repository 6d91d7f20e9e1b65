--------------------------- MODULE MCRedisLimiter ---------------------------
(* Instances of RedisRateLimiter: clocks that agree.                        *)
EXTENDS RedisRateLimiter

MCSkew == [g \in Gateways |-> 0]

=============================================================================
