------------------------ MODULE RateLimiterContract ------------------------
(***************************************************************************)
(* What the gateway expects of a limiter behind RateLimiterProtocol: each  *)
(* call of allow_request takes effect at one instant, on one bucket per    *)
(* user, with clock readings that belong to the call.  The implementations *)
(* differ in where they keep the bucket and in how many steps they need;   *)
(* this is what they must look like.                                       *)
(***************************************************************************)
EXTENDS TokenBucket

CONSTANTS
    Users,
    Requests,   \* slots for concurrent calls
    BucketTTL,  \* how long a bucket must be kept after its last use
    BlockTTL,   \* how long block_user blocks
    MaxTime     \* bound on the clock

VARIABLES
    clock,
    bucket,        \* bucket[u]: Full, or the level at the last refill
    blockedUntil,  \* blockedUntil[u]: the first instant without the block
    call           \* call[r]: idle, pending, or answered

contractVars == <<clock, bucket, blockedUntil, call>>

-----------------------------------------------------------------------------
Full == [tokens |-> Capacity, lastRefill |-> 0]
NotBlocked == 0
Idle == [pc |-> "idle"]

Pending(u, since) == [pc |-> "pending", user |-> u, since |-> since]
Answered(u, verdict, left) ==
    [pc |-> "answered", user |-> u, verdict |-> verdict, left |-> left]

Init ==
    /\ clock = 0
    /\ bucket = [u \in Users |-> Full]
    /\ blockedUntil = [u \in Users |-> NotBlocked]
    /\ call = [r \in Requests |-> Idle]

\* allow_request(user_id) is called.
Invoke(r, u) ==
    /\ call[r].pc = "idle"
    /\ call' = [call EXCEPT ![r] = Pending(u, clock)]
    /\ UNCHANGED <<clock, bucket, blockedUntil>>

\* An instant of a pending call.
Instants(r) == call[r].since .. clock

\* The call finds the user blocked.
Refuse(r) ==
    /\ call[r].pc = "pending"
    /\ \E t \in Instants(r) : t < blockedUntil[call[r].user]
    /\ call' = [call EXCEPT ![r] = Answered(call[r].user, "blocked", 0)]
    /\ UNCHANGED <<clock, bucket, blockedUntil>>

\* The call finds the user not blocked, and refills and spends the bucket as of
\* one of its instants.  A block that is over may be forgotten on the way.
Decide(r) ==
    LET u == call[r].user
    IN  /\ call[r].pc = "pending"
        /\ \E t \in Instants(r) : t >= blockedUntil[u]
        /\ \E now \in Instants(r) :
             LET level == Refilled(bucket[u].tokens, bucket[u].lastRefill, now)
             IN  /\ bucket' = [bucket EXCEPT ![u] =
                                 [tokens |-> Spend(level), lastRefill |-> now]]
                 /\ call' = [call EXCEPT ![r] =
                               Answered(u, IF HasToken(level) THEN "allowed" ELSE "denied",
                                        WholeTokens(Spend(level)))]
        /\ \/ UNCHANGED blockedUntil
           \/ /\ blockedUntil[u] <= clock
              /\ blockedUntil' = [blockedUntil EXCEPT ![u] = NotBlocked]
        /\ UNCHANGED clock

\* The caller gets the answer, or an exception instead of it.
Return(r) ==
    /\ call[r].pc = "answered" \/ call[r].pc = "pending"
    /\ call' = [call EXCEPT ![r] = Idle]
    /\ UNCHANGED <<clock, bucket, blockedUntil>>

\* block_user; whether the last instant belongs to the block is left open.
Block(u) ==
    /\ \E last \in {0, 1} :
         blockedUntil' = [blockedUntil EXCEPT ![u] = clock + BlockTTL + last]
    /\ UNCHANGED <<clock, bucket, call>>

\* unblock_user.
Unblock(u) ==
    /\ blockedUntil' = [blockedUntil EXCEPT ![u] = NotBlocked]
    /\ UNCHANGED <<clock, bucket, call>>

\* Time passes; buckets that were not used for BucketTTL may be given up, for a
\* full one takes their place.
Tick ==
    /\ clock < MaxTime
    /\ clock' = clock + 1
    /\ \E gone \in SUBSET {u \in Users : clock' > bucket[u].lastRefill + BucketTTL} :
         bucket' = [u \in Users |-> IF u \in gone THEN Full ELSE bucket[u]]
    /\ UNCHANGED <<blockedUntil, call>>

\* The store restarts and loses everything, or some processes restart and their
\* calls end without an answer, or both.
Restart ==
    /\ \E lost \in {{}, Users} :
         /\ bucket' = [u \in Users |-> IF u \in lost THEN Full ELSE bucket[u]]
         /\ blockedUntil' = [u \in Users |-> IF u \in lost THEN NotBlocked ELSE blockedUntil[u]]
    /\ \E dead \in SUBSET Requests :
         call' = [r \in Requests |-> IF r \in dead THEN Idle ELSE call[r]]
    /\ UNCHANGED clock

Next ==
    \/ \E r \in Requests : \/ \E u \in Users : Invoke(r, u)
                           \/ Refuse(r) \/ Decide(r) \/ Return(r)
    \/ \E u \in Users : Block(u) \/ Unblock(u)
    \/ Tick
    \/ Restart

Spec == Init /\ [][Next]_contractVars

=============================================================================
