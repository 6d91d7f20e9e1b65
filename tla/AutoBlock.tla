----------------------------- MODULE AutoBlock -----------------------------
(***************************************************************************)
(* The deployed system's blocking path: the detector writes block records  *)
(* to the DynamoDB blocklist table, the gateways' limiter looks for block  *)
(* keys in Redis.  Composes RedisRateLimiter with the detector's put       *)
(* (AnomalyDetector has the whole handler).                                *)
(***************************************************************************)
EXTENDS RedisRateLimiter

VARIABLES
    blocklist,   \* blocklist[u]: ttl of u's item in the blocklist table
    slipped      \* history: users admitted while their item was active

autoBlockVars == <<limiterVars, blocklist, slipped>>

NoRecord == 0

ABInit ==
    /\ Init
    /\ blocklist = [u \in Users |-> NoRecord]
    /\ slipped = {}

\* put_item of _auto_block_users.
DetectorBlocks(u) ==
    /\ blocklist' = [blocklist EXCEPT ![u] = clock + BlockTTL]
    /\ UNCHANGED <<limiterVars, slipped>>

\* A step of the gateways and of Redis; none of them reads the table.
GatewayStep ==
    /\ Next
    /\ slipped' = slipped \cup
         {u \in Users :
            /\ blocklist[u] > clock
            /\ \E r \in Requests :
                 /\ call[r].pc = "eval" /\ call[r].user = u
                 /\ call'[r].pc = "reply" /\ call'[r].verdict = "allowed"}
    /\ UNCHANGED blocklist

ABNext == GatewayStep \/ \E u \in Users : DetectorBlocks(u)

ABSpec == ABInit /\ [][ABNext]_autoBlockVars

\* "scheduled anomaly detection with auto-blocking" (README): while the detector's
\* block of a user lasts, the gateways admit no request of that user.
AutoBlockedUsersAreRefused == slipped = {}

=============================================================================
