------------------------------ MODULE Gateway ------------------------------
(***************************************************************************)
(* The request pipeline of the gateway (main.py, services/proxy.py): a     *)
(* request is authenticated, asks the limiter, is forwarded to the         *)
(* upstream, is logged, and only then answered.  It composes               *)
(* RateLimiterContract, which stands for whichever limiter is behind the   *)
(* protocol, with RequestLogger; both run on the clock they share, and     *)
(* other requests of the same process interleave at every await.  The      *)
(* upstream may execute a request and never answer it, or execute it after *)
(* the gateway gave it up.                                                 *)
(***************************************************************************)
EXTENDS RequestLogger, TokenBucket

CONSTANTS
    BucketTTL,
    BlockTTL,
    MaxFresh   \* bound on how often a bucket is lost

ASSUME GatewayAssumption ==
    /\ BucketTTL \in Nat
    /\ BlockTTL \in Nat
    /\ MaxFresh \in Nat

VARIABLES
    bucket, blockedUntil, call,   \* the limiter, see RateLimiterContract
    req,       \* req[r]: where the handler of request r is
    upstream,  \* upstream[r]: what the upstream knows of r
    fresh,     \* history: how often u's bucket was replaced by a full one
    regress    \* history: by how much the refill times of u's bucket went back

limiterVars == <<bucket, blockedUntil, call>>
tableVars == <<owner, thread, row, count>>
pipelineVars == <<req, upstream>>
historyVars == <<fresh, regress>>
gatewayVars == <<loggerVars, limiterVars, pipelineVars, historyVars>>

Limiter == INSTANCE RateLimiterContract

-----------------------------------------------------------------------------
LocalAnswers == {"401", "429", "200 verified"}
InFlight(r) == req[r].pc \in {"limiting", "stalled", "forwarding", "logging"}
WaitsForLimiter(r) == req[r].pc \in {"limiting", "stalled"}
Answered(r, status) == req[r].pc = "answered" /\ req[r].status \in status

\* The handler moves on, or ends with an answer to the client.
Goto(r, pc) == req' = [req EXCEPT ![r].pc = pc]
Answer(r, status) == req' = [req EXCEPT ![r].pc = "answered", ![r].status = status]

\* A user may have been blocked before; nothing in the repository calls block_user
\* or unblock_user while requests are served.
GInit ==
    /\ Init
    /\ bucket = [u \in Users |-> Limiter!Full]
    /\ blockedUntil \in [Users -> {Limiter!NotBlocked, BlockTTL}]
    /\ call = [r \in Requests |-> Limiter!Idle]
    /\ req = [r \in Requests |-> [pc |-> "new", user |-> NoUser, status |-> "none"]]
    /\ upstream = [r \in Requests |-> "unknown"]
    /\ fresh = [u \in Users |-> 0]
    /\ regress = [u \in Users |-> 0]

\* A bucket whose refill time went back, or that was replaced by a full one.
Recorded ==
    /\ regress' = [u \in Users |->
                     regress[u] + Elapsed(bucket'[u].lastRefill, bucket[u].lastRefill)]
    /\ fresh' = [u \in Users |->
                   fresh[u] + IF bucket'[u] = Limiter!Full /\ bucket[u] # Limiter!Full
                              THEN 1 ELSE 0]

-----------------------------------------------------------------------------
(* The handler.                                                             *)

\* No usable bearer token, or decode_token raises AuthError: 401.
Unauthorized(r) ==
    /\ req[r].pc = "new"
    /\ Answer(r, "401")
    /\ UNCHANGED <<loggerVars, limiterVars, upstream, historyVars>>

\* /auth/verify answers an authenticated request at once.
Verify(r) ==
    /\ req[r].pc = "new"
    /\ Answer(r, "200 verified")
    /\ UNCHANGED <<loggerVars, limiterVars, upstream, historyVars>>

\* /proxy: the request is u's, and the limiter is asked.
Receive(r, u) ==
    /\ req[r].pc = "new"
    /\ Limiter!Invoke(r, u)
    /\ req' = [req EXCEPT ![r].pc = "limiting", ![r].user = u]
    /\ UNCHANGED <<tableVars, upstream, historyVars>>

\* The call takes effect in the limiter.
LimiterDecides(r) ==
    /\ Limiter!Refuse(r) \/ Limiter!Decide(r)
    /\ Recorded
    /\ UNCHANGED <<tableVars, pipelineVars>>

LimiterSays(r, verdicts) ==
    req[r].pc = "limiting" /\ call[r].pc = "answered" /\ call[r].verdict \in verdicts

\* Not allowed: 429, without a trace in the tables.
Refuse(r) ==
    /\ LimiterSays(r, {"denied", "blocked"})
    /\ Limiter!Return(r)
    /\ Answer(r, "429")
    /\ UNCHANGED <<tableVars, upstream, historyVars>>

\* allow_request raises, before or after it took effect: 500.
LimiterRaises(r) ==
    /\ req[r].pc = "limiting"
    /\ Limiter!Return(r)
    /\ Answer(r, "500")
    /\ UNCHANGED <<tableVars, upstream, historyVars>>

\* The limiter's connection stalls: without a socket timeout the handler waits for
\* as long as that lasts, whatever becomes of the call in the store.
LimiterStalls(r) ==
    /\ req[r].pc = "limiting"
    /\ Goto(r, "stalled")
    /\ UNCHANGED <<loggerVars, limiterVars, upstream, historyVars>>

\* The connection comes back, with the answer or with an error.
LimiterResumes(r) ==
    /\ req[r].pc = "stalled"
    /\ Goto(r, "limiting")
    /\ UNCHANGED <<loggerVars, limiterVars, upstream, historyVars>>

\* Mutant: the verdict is not looked at.
ForwardUnchecked(r) ==
    /\ LimiterSays(r, {"allowed", "denied", "blocked"})
    /\ Limiter!Return(r)
    /\ Goto(r, "forwarding")
    /\ UNCHANGED <<tableVars, upstream, historyVars>>

\* Allowed: forward_request reads the body and builds the upstream request.
Forward(r) ==
    /\ LimiterSays(r, {"allowed"})
    /\ Limiter!Return(r)
    /\ Goto(r, "forwarding")
    /\ UNCHANGED <<tableVars, upstream, historyVars>>

\* client.send puts the request on the wire.
Send(r) ==
    /\ req[r].pc = "forwarding"
    /\ upstream[r] = "unknown"
    /\ upstream' = [upstream EXCEPT ![r] = "sent"]
    /\ UNCHANGED <<loggerVars, limiterVars, req, historyVars>>

\* The upstream executes what it was sent, whether or not anyone still waits.
UpstreamExecutes(r) ==
    /\ upstream[r] = "sent"
    /\ upstream' = [upstream EXCEPT ![r] = "executed"]
    /\ UNCHANGED <<loggerVars, limiterVars, req, historyVars>>

\* Mutant: a request that timed out is logged and answered like one that came back.
UpstreamAnswersOrTimesOut(r) ==
    /\ req[r].pc = "forwarding"
    /\ LogRequest(r, req[r].user)
    /\ Goto(r, "logging")
    /\ UNCHANGED <<limiterVars, upstream, historyVars>>

\* The response arrives, and log_request starts its threads.
UpstreamAnswers(r) ==
    /\ req[r].pc = "forwarding"
    /\ upstream[r] = "executed"
    /\ LogRequest(r, req[r].user)
    /\ Goto(r, "logging")
    /\ UNCHANGED <<limiterVars, upstream, historyVars>>

\* The response arrives, and log_request raises: a warning is written, and the
\* client gets the response.
LoggerRaises(r) ==
    /\ req[r].pc = "forwarding"
    /\ upstream[r] = "executed"
    /\ Answer(r, "upstream")
    /\ UNCHANGED <<loggerVars, limiterVars, upstream, historyVars>>

\* The client left before its body was read, the connection failed, or the timeout
\* passed: the exception makes the answer a 500, and nothing is logged.
ForwardFails(r) ==
    /\ req[r].pc = "forwarding"
    /\ Answer(r, "500")
    /\ UNCHANGED <<loggerVars, limiterVars, upstream, historyVars>>

\* Both threads of log_request have ended, well or not: the client is answered.
Respond(r) ==
    /\ req[r].pc = "logging"
    /\ \A k \in Kinds : thread[r][k].pc \in Ends
    /\ Answer(r, "upstream")
    /\ UNCHANGED <<loggerVars, limiterVars, upstream, historyVars>>

-----------------------------------------------------------------------------
(* The rest of the process, its stores, and time.                           *)

LoggerThread(r) ==
    /\ \E k \in Kinds : ThreadStep(r, k)
    /\ UNCHANGED <<limiterVars, pipelineVars, historyVars>>

\* The process is stopped and started again: its requests and threads are gone,
\* and startup builds every client and service anew.
ProcessRestarts ==
    /\ GatewayStops
    /\ req' = [r \in Requests |-> IF InFlight(r) THEN [req[r] EXCEPT !.pc = "lost"] ELSE req[r]]
    /\ call' = [r \in Requests |-> Limiter!Idle]
    /\ UNCHANGED <<bucket, blockedUntil, upstream, historyVars>>

\* The limiter's store restarts empty.
StoreRestarts ==
    /\ \A u \in Users : fresh[u] < MaxFresh
    /\ bucket' = [u \in Users |-> Limiter!Full]
    /\ blockedUntil' = [u \in Users |-> Limiter!NotBlocked]
    /\ Recorded
    /\ UNCHANGED <<clock, call, tableVars, pipelineVars>>

GTick ==
    /\ Tick
    /\ Limiter!Tick
    /\ Recorded
    /\ UNCHANGED <<blockedUntil, call, pipelineVars>>

HandlerStep(r) ==
    \/ LimiterDecides(r)
    \/ Refuse(r)
    \/ LimiterRaises(r)
    \/ Forward(r)
    \/ Send(r)
    \/ UpstreamAnswers(r)
    \/ LoggerRaises(r)
    \/ ForwardFails(r)
    \/ Respond(r)

GNext ==
    \/ \E r \in Requests :
         \/ Unauthorized(r)
         \/ Verify(r)
         \/ \E u \in Users : Receive(r, u)
         \/ HandlerStep(r)
         \/ LimiterStalls(r)
         \/ LimiterResumes(r)
         \/ UpstreamExecutes(r)
         \/ LoggerThread(r)
    \/ ProcessRestarts
    \/ StoreRestarts
    \/ GTick

GSpec == GInit /\ [][GNext]_gatewayVars

(* The event loop resumes handlers, the limiter ends the calls whose        *)
(* connection does not stall (CallsEnd of RedisRateLimiter), httpx gives up *)
(* after request_timeout_seconds, so one of UpstreamAnswers and             *)
(* ForwardFails comes, and threads are scheduled.  Nothing obliges a stalled *)
(* connection to come back, the upstream to execute or a client to call.    *)
GFairSpec == GSpec /\ \A r \in Requests : WF_gatewayVars(HandlerStep(r) \/ LoggerThread(r))

-----------------------------------------------------------------------------
(* Properties.                                                              *)

\* Every variable has its type, and a request holds a limiter call exactly while
\* its handler waits for the limiter.
GTypeOK ==
    /\ TypeOK
    /\ bucket \in [Users -> [tokens : 0..Capacity, lastRefill : Times]]
    /\ blockedUntil \in [Users -> Nat]
    /\ req \in [Requests ->
         [pc : {"new", "limiting", "stalled", "forwarding", "logging", "answered", "lost"},
          user : Users \cup {NoUser},
          status : LocalAnswers \cup {"none", "500", "upstream"}]]
    /\ upstream \in [Requests -> {"unknown", "sent", "executed"}]
    /\ \A r \in Requests : call[r].pc # "idle" <=> WaitsForLimiter(r)

\* What the client is told is what happened: a refused request never reaches the
\* upstream, not even late; a request answered with the upstream's response was
\* executed; and a request that is logged was executed for the user it is logged
\* under.  A 500 leaves open whether the upstream executed it.
AnswersMatchUpstream ==
    \A r \in Requests :
        /\ Answered(r, LocalAnswers) => upstream[r] = "unknown"
        /\ Answered(r, {"upstream"}) => upstream[r] = "executed"
        /\ owner[r] # NoUser => upstream[r] = "executed" /\ owner[r] = req[r].user

\* The detector's input is bounded by what the limiter admits: however many requests
\* a user sends, and whatever fails or is written twice on the way, his counters
\* hold no more than MaxWrites times the tokens his bucket can have given out
\* - the capacity for each full bucket he got and the refill of the time, with
\* the time that stale clock readings count again.  Refused requests add nothing.
CountedIsAdmitted ==
    \A u \in Users :
        Unit * Total(u) <=
            MaxWrites * (Capacity * (1 + fresh[u]) + Rate * (clock + regress[u]))

\* Every request that comes is answered, unless its process stops or its own connection to the
\* limiter's store stalls: no other request's stall and no failure of the limiter, the
\* upstream or DynamoDB keeps a client waiting for ever, although the answer waits for
\* the log.
RequestsEnd ==
    \A r \in Requests :
        []<>(req[r].pc \in {"new", "answered", "lost", "stalled"})

=============================================================================
