-------------------------- MODULE RedisRateLimiter --------------------------
(***************************************************************************)
(* The production rate limiter: gateway processes that evaluate a Lua      *)
(* script on one shared Redis (services/rate_limiter.py).                  *)
(*                                                                         *)
(* allow_request is not one step.  It may first await SCRIPT LOAD, then it *)
(* reads the process's clock, and only later does Redis execute EVALSHA    *)
(* with that timestamp; calls of one process and of several are            *)
(* interleaved at each of those points, so Redis can execute the scripts   *)
(* in another order than the timestamps were read.  Redis may restart (the *)
(* deployed node is a single cache node that keeps nothing), a gateway     *)
(* process may restart, and a connection may break, or stall without a     *)
(* timeout, before or after the command took effect.                       *)
(***************************************************************************)
EXTENDS TokenBucket, FiniteSets

CONSTANTS
    Gateways,   \* gateway processes (ECS tasks)
    Users,      \* authenticated user identifiers
    Requests,   \* slots for concurrent allow_request calls
    BucketTTL,  \* EXPIRE bucket_key 7200, in ticks
    BlockTTL,   \* settings.anomaly_auto_block_ttl_seconds, in ticks
    Skew,       \* Skew[g]: offset of g's clock from the Redis server's
    MaxTime     \* bound on the clock

ASSUME LimiterAssumption ==
    /\ BucketTTL \in Nat
    /\ BlockTTL \in Nat
    /\ Skew \in [Gateways -> Int]
    /\ MaxTime \in Nat

VARIABLES
    clock,         \* the Redis server's clock
    bucket,        \* bucket[u]: the hash sentinel:bucket:u
    blockedUntil,  \* blockedUntil[u]: expiry of the key <blocklist_prefix>:u
    scriptLoaded,  \* Redis has the script in its script cache
    sha,           \* sha[g]: gateway g has cached lua_sha
    call           \* call[r]: the progress of one allow_request call

limiterVars == <<clock, bucket, blockedUntil, scriptLoaded, sha, call>>

-----------------------------------------------------------------------------
(* Redis data.  A key is visible up to its expiry time, and gone after it;  *)
(* an expiry before time 0 stands for a key that was never set.             *)

Never == -1
NoBucket == [tokens |-> 0, lastRefill |-> 0, expireAt |-> Never]

BucketLive(u) == clock <= bucket[u].expireAt
Blocked(u) == clock <= blockedUntil[u]

\* What the script reads and computes before it decides: a missing bucket is a
\* full one.
LevelAt(u, now) ==
    IF BucketLive(u)
    THEN Refilled(bucket[u].tokens, bucket[u].lastRefill, now)
    ELSE Refilled(Capacity, now, now)

\* Mutant: HMSET writes the tokens only.
WrittenOldStamp(u, now) ==
    [tokens     |-> Spend(LevelAt(u, now)),
     lastRefill |-> bucket[u].lastRefill,
     expireAt   |-> clock + BucketTTL]

\* Mutant: a denial writes the time but not the tokens refilled until then.
WrittenCreditLost(u, now) ==
    [tokens     |-> IF BucketLive(u) /\ ~HasToken(LevelAt(u, now))
                    THEN bucket[u].tokens
                    ELSE Spend(LevelAt(u, now)),
     lastRefill |-> now,
     expireAt   |-> clock + BucketTTL]

Written(u, now) ==
    [tokens     |-> Spend(LevelAt(u, now)),
     lastRefill |-> now,
     expireAt   |-> clock + BucketTTL]

-----------------------------------------------------------------------------
(* Calls.                                                                   *)

Verdicts == {"none", "allowed", "denied", "blocked", "noscript"}

\* A slot without a call.
Idle == [pc |-> "idle"]

InFlight(r) == call[r].pc # "idle"
Stalled(r) == call[r].pc = "stalled"

\* time.time() in the process that serves r.
LocalTime(g) == clock + Skew[g]

Init ==
    /\ clock = 0
    /\ bucket = [u \in Users |-> NoBucket]
    /\ blockedUntil = [u \in Users |-> Never]
    /\ scriptLoaded = FALSE
    /\ sha = [g \in Gateways |-> FALSE]
    /\ call = [r \in Requests |-> Idle]

\* allow_request is entered.  With a cached SHA the clock is read and EVALSHA is
\* sent without a suspension point in between; otherwise init() is awaited.
Call(r, g, u) ==
    /\ ~InFlight(r)
    /\ call' = [call EXCEPT ![r] =
                  [pc      |-> IF sha[g] THEN "eval" ELSE "load",
                   gw      |-> g,
                   user    |-> u,
                   stamp   |-> IF sha[g] THEN LocalTime(g) ELSE 0,
                   verdict |-> "none",
                   left    |-> 0]]
    /\ UNCHANGED <<clock, bucket, blockedUntil, scriptLoaded, sha>>

\* Redis executes SCRIPT LOAD.
LoadScript(r) ==
    /\ call[r].pc = "load"
    /\ scriptLoaded' = TRUE
    /\ call' = [call EXCEPT ![r].pc = "loaded"]
    /\ UNCHANGED <<clock, bucket, blockedUntil, sha>>

\* The reply of SCRIPT LOAD arrives: init() stores the SHA, allow_request reads
\* the clock and sends EVALSHA.
CacheSha(r) ==
    /\ call[r].pc = "loaded"
    /\ sha' = [sha EXCEPT ![call[r].gw] = TRUE]
    /\ call' = [call EXCEPT ![r].pc = "eval", ![r].stamp = LocalTime(call[r].gw)]
    /\ UNCHANGED <<clock, bucket, blockedUntil, scriptLoaded>>

Reply(r, verdict, left) ==
    call' = [call EXCEPT ![r].pc = "reply", ![r].verdict = verdict, ![r].left = left]

\* Mutant: the script refills the bucket before it looks at the block key.
EvalBlockedLate(r) ==
    /\ call[r].pc = "eval"
    /\ scriptLoaded
    /\ Blocked(call[r].user)
    /\ bucket' = [bucket EXCEPT ![call[r].user] = Written(call[r].user, call[r].stamp)]
    /\ Reply(r, "blocked", 0)
    /\ UNCHANGED <<clock, blockedUntil, scriptLoaded, sha>>

\* Redis executes EVALSHA for a user whose block key exists.
EvalBlocked(r) ==
    /\ call[r].pc = "eval"
    /\ scriptLoaded
    /\ Blocked(call[r].user)
    /\ Reply(r, "blocked", 0)
    /\ UNCHANGED <<clock, bucket, blockedUntil, scriptLoaded, sha>>

\* Redis executes EVALSHA for any other user: refill, decide, write back and
\* renew the key's expiry.  The reply carries the level with its fraction cut.
Evaluate(r) ==
    LET u == call[r].user
        level == LevelAt(u, call[r].stamp)
        written == Written(u, call[r].stamp)
    IN  /\ call[r].pc = "eval"
        /\ scriptLoaded
        /\ ~Blocked(u)
        /\ bucket' = [bucket EXCEPT ![u] = written]
        /\ Reply(r, IF HasToken(level) THEN "allowed" ELSE "denied",
                 WholeTokens(written.tokens))
        /\ UNCHANGED <<clock, blockedUntil, scriptLoaded, sha>>

\* Mutant: NOSCRIPT is answered by loading the script and trying again, without
\* a bound on the attempts.
EvalNoScriptReload(r) ==
    /\ call[r].pc = "eval"
    /\ ~scriptLoaded
    /\ sha' = [sha EXCEPT ![call[r].gw] = FALSE]
    /\ call' = [call EXCEPT ![r].pc = "load"]
    /\ UNCHANGED <<clock, bucket, blockedUntil, scriptLoaded>>

\* Redis has no script with that SHA: EVALSHA raises, and nothing in
\* allow_request clears lua_sha or loads the script again.
EvalNoScript(r) ==
    /\ call[r].pc = "eval"
    /\ ~scriptLoaded
    /\ Reply(r, "noscript", 0)
    /\ UNCHANGED <<clock, bucket, blockedUntil, scriptLoaded, sha>>

\* The caller gets the pair (allowed, remaining), (False, None), or the exception.
Return(r) ==
    /\ call[r].pc = "reply"
    /\ call' = [call EXCEPT ![r] = Idle]
    /\ UNCHANGED <<clock, bucket, blockedUntil, scriptLoaded, sha>>

\* The connection stalls at any point of the exchange: no answer comes and no error,
\* and the client was built without a socket timeout.
Stall(r) ==
    /\ call[r].pc \in {"load", "loaded", "eval", "reply"}
    /\ call' = [call EXCEPT ![r].pc = "stalled", ![r].stamp = 0]
    /\ UNCHANGED <<clock, bucket, blockedUntil, scriptLoaded, sha>>

\* The connection breaks at any point of the exchange, or after it stalled, and the
\* error propagates.
ConnectionError(r) ==
    /\ InFlight(r)
    /\ call' = [call EXCEPT ![r] = Idle]
    /\ UNCHANGED <<clock, bucket, blockedUntil, scriptLoaded, sha>>

-----------------------------------------------------------------------------
(* Block list, restarts and time.                                           *)

\* block_user: SET block_key 1 EX ttl.
BlockUser(u) ==
    /\ blockedUntil' = [blockedUntil EXCEPT ![u] = clock + BlockTTL]
    /\ UNCHANGED <<clock, bucket, scriptLoaded, sha, call>>

\* unblock_user: DEL block_key.
UnblockUser(u) ==
    /\ blockedUntil' = [blockedUntil EXCEPT ![u] = Never]
    /\ UNCHANGED <<clock, bucket, scriptLoaded, sha, call>>

\* The cache node restarts empty: buckets, blocks and scripts are gone.
RedisRestart ==
    /\ bucket' = [u \in Users |-> NoBucket]
    /\ blockedUntil' = [u \in Users |-> Never]
    /\ scriptLoaded' = FALSE
    /\ UNCHANGED <<clock, sha, call>>

\* A gateway process is replaced: its calls die and a new RateLimiter starts
\* with lua_sha = None.
GatewayRestart(g) ==
    /\ sha' = [sha EXCEPT ![g] = FALSE]
    /\ call' = [r \in Requests |->
                  IF InFlight(r) /\ call[r].gw = g THEN Idle ELSE call[r]]
    /\ UNCHANGED <<clock, bucket, blockedUntil, scriptLoaded>>

Tick ==
    /\ clock < MaxTime
    /\ clock' = clock + 1
    /\ UNCHANGED <<bucket, blockedUntil, scriptLoaded, sha, call>>

-----------------------------------------------------------------------------
\* Everything but the step that reads and writes a bucket.
OtherStep ==
    \/ \E r \in Requests :
         \/ \E g \in Gateways, u \in Users : Call(r, g, u)
         \/ LoadScript(r)
         \/ CacheSha(r)
         \/ EvalBlocked(r)
         \/ EvalNoScript(r)
         \/ Return(r)
         \/ Stall(r)
         \/ ConnectionError(r)
    \/ \E u \in Users : BlockUser(u) \/ UnblockUser(u)
    \/ \E g \in Gateways : GatewayRestart(g)
    \/ Tick

Next ==
    \/ \E r \in Requests : Evaluate(r)
    \/ RedisRestart
    \/ OtherStep

Spec == Init /\ [][Next]_limiterVars

(* Fairness.  On a connection that does not stall Redis executes what it is *)
(* sent and the event loop resumes a coroutine whose reply has arrived, so  *)
(* the call moves on; nothing obliges a client to call, a stalled           *)
(* connection to break, a process to restart or an operator to block.       *)
Progress(r) ==
    \/ LoadScript(r)
    \/ CacheSha(r)
    \/ EvalBlocked(r)
    \/ Evaluate(r)
    \/ EvalNoScript(r)
    \/ Return(r)

FairSpec == Spec /\ \A r \in Requests : WF_limiterVars(Progress(r))

\* Clients keep calling through every gateway, their connections do not break
\* every time, and from some time on neither Redis nor a gateway restarts and no
\* connection stalls; one that did stall breaks in the end.
BusySpec ==
    /\ Spec
    /\ <>[][~ \/ RedisRestart
              \/ \E g \in Gateways : GatewayRestart(g)
              \/ \E r \in Requests : Stall(r)]_limiterVars
    /\ \A r \in Requests :
         /\ SF_limiterVars(Progress(r))
         /\ WF_limiterVars(Stalled(r) /\ ConnectionError(r))
         /\ \A g \in Gateways : SF_limiterVars(\E u \in Users : Call(r, g, u))

-----------------------------------------------------------------------------
(* Properties.                                                              *)

Buckets == [tokens : 0..Capacity, lastRefill : Int, expireAt : Nat \cup {Never}]

Calls == [pc : {"load", "loaded", "eval", "reply", "stalled"},
          gw : Gateways, user : Users, stamp : Int,
          verdict : Verdicts, left : Nat]

\* Every variable has its type; in particular the level of a bucket stays
\* between empty and the capacity through refills, spends and stale stamps.
TypeOK ==
    /\ clock \in Nat
    /\ bucket \in [Users -> Buckets]
    /\ blockedUntil \in [Users -> Nat \cup {Never}]
    /\ scriptLoaded \in BOOLEAN
    /\ sha \in [Gateways -> BOOLEAN]
    /\ call \in [Requests -> Calls \cup {Idle}]

\* While a user's block key exists, no step reads, refills or spends that
\* user's bucket: a blocked user's requests cost nothing, and the time of the
\* block counts as refill time once it ends (the script returns before HMGET).
BlockFreezesBucket ==
    [][\A u \in Users :
         Blocked(u) /\ blockedUntil'[u] = blockedUntil[u] => bucket'[u] = bucket[u]
      ]_limiterVars

\* Every allow_request call whose connection does not stall ends, with a pair or with
\* an exception, whatever Redis, the gateways and the connections of other calls do in
\* between.
CallsEnd == \A r \in Requests : InFlight(r) ~> ~InFlight(r) \/ Stalled(r)

\* Gateway g has an answer of this kind to hand to its caller.
Answers(g, verdicts) ==
    \E r \in Requests :
        call[r].pc = "reply" /\ call[r].gw = g /\ call[r].verdict \in verdicts

\* "Evaluate whether request is allowed and return remaining tokens"
\* (allow_request's docstring): a gateway that keeps getting requests is not left
\* for ever with a SHA that Redis does not know, so after an EVALSHA that fails
\* for want of the script it evaluates requests again.
GatewayRecovers ==
    \A g \in Gateways :
        Answers(g, {"noscript"}) ~> Answers(g, {"allowed", "denied", "blocked"})

=============================================================================
