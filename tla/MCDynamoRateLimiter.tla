------------------------ MODULE MCDynamoRateLimiter ------------------------
(* Instances of DynamoRateLimiter.                                          *)
EXTENDS DynamoRateLimiter

\* One thread's process is a tick ahead of the others.
MCSkewed ==
    LET ahead == CHOOSE r \in Requests : TRUE
    IN  [r \in Requests |-> IF r = ahead THEN 1 ELSE 0]

=============================================================================
