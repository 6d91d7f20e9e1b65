------------------------- MODULE MemoryRateLimiter -------------------------
(***************************************************************************)
(* The in-memory limiter for local development and tests                   *)
(* (services/memory_rate_limiter.py).  Its three operations hold an        *)
(* asyncio lock and never suspend while they do, nor between reading the   *)
(* clock and taking the lock, so each is one step of the event loop; what  *)
(* interleaves are the tasks that await them.                              *)
(***************************************************************************)
EXTENDS TokenBucket

CONSTANTS Users, Requests, BucketTTL, BlockTTL, MaxTime

ASSUME MemoryAssumption == BucketTTL \in Nat /\ BlockTTL \in Nat

VARIABLES
    clock,
    bucketState,   \* _bucket_state
    blockedUntil,  \* _blocked_until
    call           \* call[r]: one allow_request call

memoryVars == <<clock, bucketState, blockedUntil, call>>

Absent == [absent |-> TRUE]
NotBlocked == 0
Idle == [pc |-> "idle"]

Init ==
    /\ clock = 0
    /\ bucketState = [u \in Users |-> Absent]
    /\ blockedUntil = [u \in Users |-> NotBlocked]
    /\ call = [r \in Requests |-> Idle]

\* A task that will run allow_request(u) is scheduled.
Schedule(r, u) ==
    /\ call[r].pc = "idle"
    /\ call' = [call EXCEPT ![r] = [pc |-> "scheduled", user |-> u, since |-> clock]]
    /\ UNCHANGED <<clock, bucketState, blockedUntil>>

Level(u) ==
    IF bucketState[u] = Absent
    THEN Refilled(Capacity, clock, clock)
    ELSE Refilled(bucketState[u].tokens, bucketState[u].lastRefill, clock)

\* The answer; the proxy cuts the level down to whole tokens for its header.
Reply(r, verdict, left) ==
    call' = [call EXCEPT ![r] =
               [pc |-> "answered", user |-> call[r].user, verdict |-> verdict, left |-> left]]

\* allow_request runs for a user whose block lasts.
RunBlocked(r) ==
    /\ call[r].pc = "scheduled"
    /\ blockedUntil[call[r].user] > clock
    /\ Reply(r, "blocked", 0)
    /\ UNCHANGED <<clock, bucketState, blockedUntil>>

\* Mutant: a denial stores the time but not the tokens refilled until then.
StoredCreditLost(u) ==
    [tokens |-> IF bucketState[u] # Absent /\ ~HasToken(Level(u))
                THEN bucketState[u].tokens ELSE Spend(Level(u)),
     lastRefill |-> clock]

Stored(u) == [tokens |-> Spend(Level(u)), lastRefill |-> clock]

\* allow_request runs for any other user; an entry of an expired block is popped.
Run(r) ==
    LET u == call[r].user
    IN  /\ call[r].pc = "scheduled"
        /\ blockedUntil[u] <= clock
        /\ blockedUntil' = [blockedUntil EXCEPT ![u] = NotBlocked]
        /\ bucketState' = [bucketState EXCEPT ![u] = Stored(u)]
        /\ Reply(r, IF HasToken(Level(u)) THEN "allowed" ELSE "denied",
                 WholeTokens(Stored(u).tokens))
        /\ UNCHANGED clock

\* The awaiting task goes on, or is cancelled before allow_request ran.
Return(r) ==
    /\ call[r].pc # "idle"
    /\ call' = [call EXCEPT ![r] = Idle]
    /\ UNCHANGED <<clock, bucketState, blockedUntil>>

BlockUser(u) ==
    /\ blockedUntil' = [blockedUntil EXCEPT ![u] = clock + BlockTTL]
    /\ UNCHANGED <<clock, bucketState, call>>

UnblockUser(u) ==
    /\ blockedUntil' = [blockedUntil EXCEPT ![u] = NotBlocked]
    /\ UNCHANGED <<clock, bucketState, call>>

Tick ==
    /\ clock < MaxTime
    /\ clock' = clock + 1
    /\ UNCHANGED <<bucketState, blockedUntil, call>>

Next ==
    \/ \E r \in Requests : \/ \E u \in Users : Schedule(r, u)
                           \/ RunBlocked(r) \/ Run(r) \/ Return(r)
    \/ \E u \in Users : BlockUser(u) \/ UnblockUser(u)
    \/ Tick

Spec == Init /\ [][Next]_memoryVars

-----------------------------------------------------------------------------
Contract ==
    INSTANCE RateLimiterContract
        WITH bucket <- [u \in Users |->
                          IF bucketState[u] = Absent
                          THEN [tokens |-> Capacity, lastRefill |-> 0]
                          ELSE bucketState[u]],
             call <- [r \in Requests |->
                        IF call[r].pc = "scheduled"
                        THEN [pc |-> "pending", user |-> call[r].user,
                              since |-> call[r].since]
                        ELSE call[r]]

\* A gateway on the memory limiter cannot tell it from the one on Redis: every
\* behaviour is one of the contract that the Redis limiter implements as well.
ImplementsContract == Contract!Spec

=============================================================================
