-------------------------- MODULE RedisRefinement --------------------------
(***************************************************************************)
(* RedisRateLimiter implements RateLimiterContract, for gateways whose     *)
(* clocks agree with Redis's: loading the script, the round trips and the  *)
(* key expiries are invisible to the callers.                              *)
(***************************************************************************)
EXTENDS RedisRateLimiter

VARIABLE since   \* history: since[r] is when the call in slot r was entered

refinementVars == <<limiterVars, since>>

RInit == Init /\ since = [r \in Requests |-> 0]

RNext ==
    /\ Next
    /\ since' = [r \in Requests |->
                   IF ~InFlight(r) /\ call'[r].pc # "idle" THEN clock ELSE since[r]]

RSpec == RInit /\ [][RNext]_refinementVars

\* The fairness of FairSpec; `since` follows the calls.
RFairSpec == RSpec /\ \A r \in Requests : WF_limiterVars(Progress(r))

-----------------------------------------------------------------------------
\* A missing key is a full bucket.
AbstractBucket ==
    [u \in Users |->
        IF BucketLive(u)
        THEN [tokens |-> bucket[u].tokens, lastRefill |-> bucket[u].lastRefill]
        ELSE [tokens |-> Capacity, lastRefill |-> 0]]

\* The key is visible up to its expiry.
AbstractBlock == [u \in Users |-> blockedUntil[u] + 1]

\* Until Redis has executed the script a call is pending, and so it is when it has
\* nothing but an exception to report; a stalled one stays what it was.
AbstractCall ==
    [r \in Requests |->
        IF ~InFlight(r) THEN [pc |-> "idle"]
        ELSE IF call[r].pc \in {"reply", "stalled"} /\ call[r].verdict \notin {"none", "noscript"}
        THEN [pc |-> "answered", user |-> call[r].user, verdict |-> call[r].verdict,
              left |-> call[r].left]
        ELSE [pc |-> "pending", user |-> call[r].user, since |-> since[r]]]

Contract ==
    INSTANCE RateLimiterContract
        WITH bucket <- AbstractBucket, blockedUntil <- AbstractBlock, call <- AbstractCall

\* Every behaviour of the gateways and Redis is one the contract allows: each call
\* takes effect at once, with a timestamp read during the call, and no expiry, no
\* restart and no lost connection shows as anything but a full bucket or an
\* exception.
ImplementsContract == Contract!Spec

=============================================================================
