--------------------------- MODULE MCRedisLedger ---------------------------
(* Instances of RedisLedger.                                                *)
EXTENDS RedisLedger, TLC

\* One gateway is a tick ahead of the others.
MCSkewed ==
    LET ahead == CHOOSE g \in Gateways : TRUE
    IN  [g \in Gateways |-> IF g = ahead THEN 1 ELSE 0]

\* Requests only name slots.
MCSymmetry == Permutations(Requests)

=============================================================================
