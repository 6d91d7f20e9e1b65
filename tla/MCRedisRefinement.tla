------------------------- MODULE MCRedisRefinement -------------------------
(* Instances of RedisRefinement.                                            *)
EXTENDS RedisRefinement

MCSkew == [g \in Gateways |-> 0]

=============================================================================
