--------------------------- MODULE RequestLogger ---------------------------
(***************************************************************************)
(* Request telemetry (DynamoDBRequestLogger): log_request starts two       *)
(* worker threads, one that puts the raw record of the request and one     *)
(* that adds to the user's counter of the current 15-minute bucket, each   *)
(* with its own clock reading and its own retries, and waits for both.     *)
(* DynamoDB may apply a write and lose the answer, and below the           *)
(* logger's attempts botocore sends each of them again by itself.          *)
(***************************************************************************)
EXTENDS Integers, FiniteSets, Functions

CONSTANTS
    Users,
    Requests,     \* requests that were forwarded and answered
    MaxRetries,   \* _MAX_RETRIES
    Sends,        \* how often botocore sends the request of one attempt
    BucketTicks,  \* length of an aggregate bucket (900 s), in ticks
    MaxTime       \* bound on the clock

NoRequest == "no request"
NoUser == "no user"

ASSUME LoggerAssumption ==
    /\ MaxRetries \in Nat \ {0}
    /\ Sends \in Nat \ {0}
    /\ BucketTicks \in Nat \ {0}
    /\ MaxTime \in Nat
    /\ NoRequest \notin Requests
    /\ NoUser \notin Users

VARIABLES
    clock,
    owner,     \* owner[r]: the user of request r, once it is logged
    thread,    \* thread[r][k]: the worker thread of kind k
    row,       \* row[u][t]: the request in the raw item with key (USER#u, t)
    count      \* count[u][b]: requestCount of user u in bucket b

loggerVars == <<clock, owner, thread, row, count>>

-----------------------------------------------------------------------------
Kinds == {"raw", "aggregate"}
Times == 0..MaxTime

BucketOf(t) == t \div BucketTicks
Buckets == {BucketOf(t) : t \in Times}

At(pc) == [pc |-> pc, stamp |-> 0, tries |-> 0]
NotStarted == At("new")

Init ==
    /\ clock = 0
    /\ owner = [r \in Requests |-> NoUser]
    /\ thread = [r \in Requests |-> [k \in Kinds |-> NotStarted]]
    /\ row = [u \in Users |-> [t \in Times |-> NoRequest]]
    /\ count = [u \in Users |-> [b \in Buckets |-> 0]]

\* log_request: both threads are handed to the executor.
LogRequest(r, u) ==
    /\ owner[r] = NoUser
    /\ owner' = [owner EXCEPT ![r] = u]
    /\ thread' = [thread EXCEPT ![r] = [k \in Kinds |-> At("queued")]]
    /\ UNCHANGED <<clock, row, count>>

\* A worker picks the job up and reads the clock, once for all its attempts.
StartThread(r, k) ==
    /\ thread[r][k].pc = "queued"
    /\ thread' = [thread EXCEPT ![r][k] = [At("sending") EXCEPT !.stamp = clock]]
    /\ UNCHANGED <<clock, owner, row, count>>

\* What an attempt of thread k does to the tables when DynamoDB applies it n times:
\* the put writes the same item again, the ADD adds again.
Apply(r, k, n) ==
    LET u == owner[r]
        t == thread[r][k].stamp
    IN  IF k = "raw"
        THEN /\ row' = [row EXCEPT ![u][t] = r]
             /\ UNCHANGED count
        ELSE /\ count' = [count EXCEPT ![u][BucketOf(t)] = @ + n]
             /\ UNCHANGED row

\* Mutant: one attempt too many.
RetriedOnceMore(th) ==
    IF th.tries = MaxRetries
    THEN At("failed")
    ELSE [th EXCEPT !.tries = th.tries + 1]

\* Mutant: every attempt reads the clock again.
RetriedWithNewStamp(th) ==
    IF th.tries + 1 = MaxRetries
    THEN At("failed")
    ELSE [th EXCEPT !.tries = th.tries + 1, !.stamp = clock]

\* Mutant: the last failure waits for a retry that never comes.
RetriedStuck(th) ==
    IF th.tries + 1 = MaxRetries
    THEN At("backoff")
    ELSE [th EXCEPT !.tries = th.tries + 1]

\* The thread after an attempt that raised a BotoCoreError or ClientError.
Retried(th) ==
    IF th.tries + 1 = MaxRetries
    THEN At("failed")
    ELSE [th EXCEPT !.tries = th.tries + 1]

\* An attempt is acknowledged: one of its sends was answered, and those before it may
\* have been applied as well.
WriteAcked(r, k) ==
    /\ thread[r][k].pc = "sending"
    /\ \E n \in 1..Sends : Apply(r, k, n)
    /\ thread' = [thread EXCEPT ![r][k] = At("done")]
    /\ UNCHANGED <<clock, owner>>

\* An attempt is applied but no send of it is answered.
WriteUnanswered(r, k) ==
    /\ thread[r][k].pc = "sending"
    /\ \E n \in 1..Sends : Apply(r, k, n)
    /\ thread' = [thread EXCEPT ![r][k] = Retried(thread[r][k])]
    /\ UNCHANGED <<clock, owner>>

\* Mutant: the error is swallowed without another attempt.
WriteFailedSilently(r, k) ==
    /\ thread[r][k].pc = "sending"
    /\ thread' = [thread EXCEPT ![r][k] = At("done")]
    /\ UNCHANGED <<clock, owner, row, count>>

\* An attempt fails without effect.
WriteFailed(r, k) ==
    /\ thread[r][k].pc = "sending"
    /\ thread' = [thread EXCEPT ![r][k] = Retried(thread[r][k])]
    /\ UNCHANGED <<clock, owner, row, count>>

\* Any other exception ends the thread; gather collects it and log_request
\* writes a warning.
UnexpectedError(r, k) ==
    /\ thread[r][k].pc = "sending"
    /\ thread' = [thread EXCEPT ![r][k] = At("failed")]
    /\ UNCHANGED <<clock, owner, row, count>>

\* The gateway process is stopped: its threads die where they are.
GatewayStops ==
    /\ thread' = [r \in Requests |-> [k \in Kinds |->
                    IF thread[r][k].pc \in {"queued", "sending"}
                    THEN At("failed")
                    ELSE thread[r][k]]]
    /\ UNCHANGED <<clock, owner, row, count>>

Tick ==
    /\ clock < MaxTime
    /\ clock' = clock + 1
    /\ UNCHANGED <<owner, thread, row, count>>

ThreadStep(r, k) ==
    \/ StartThread(r, k)
    \/ WriteAcked(r, k)
    \/ WriteUnanswered(r, k)
    \/ WriteFailed(r, k)
    \/ UnexpectedError(r, k)

Next ==
    \/ \E r \in Requests : \/ \E u \in Users : LogRequest(r, u)
                           \/ \E k \in Kinds : ThreadStep(r, k)
    \/ GatewayStops
    \/ Tick

Spec == Init /\ [][Next]_loggerVars

-----------------------------------------------------------------------------
(* Properties.                                                              *)

Ends == {"done", "failed"}

\* Every variable has its type, and a thread that is going to try once more has
\* tried less than MaxRetries times.
TypeOK ==
    /\ clock \in Times
    /\ owner \in [Requests -> Users \cup {NoUser}]
    /\ thread \in [Requests -> [Kinds ->
         [pc : {"new", "queued", "sending"} \cup Ends, stamp : Times, tries : 0..MaxRetries]]]
    /\ \A r \in Requests, k \in Kinds :
         thread[r][k].pc \in {"queued", "sending"} => thread[r][k].tries < MaxRetries
    /\ row \in [Users -> [Times -> Requests \cup {NoRequest}]]
    /\ count \in [Users -> [Buckets -> Nat]]

LoggedBy(u) == {r \in Requests : owner[r] = u}

\* One request leaves at most one raw row, however often its put is retried after
\* an answer was lost: every attempt carries the key of the first.
OneRowPerRequest ==
    \A r \in Requests :
        Cardinality({ut \in Users \X Times : row[ut[1]][ut[2]] = r}) <= 1

\* The sum of a user's counters over all buckets.
Total(u) == SumFunction(count[u])

\* How often the write of one request can be applied: by every send of every attempt.
MaxWrites == MaxRetries * Sends

\* A user's counters lie between the requests that were acknowledged and MaxWrites
\* times the requests that were logged: no acknowledged request is missing from the
\* detector's input, and lost answers inflate it by no more than the logger's retries
\* and the resends below them.
CountsWithinBounds ==
    \A u \in Users :
        /\ Cardinality({r \in LoggedBy(u) : thread[r]["aggregate"].pc = "done"})
             <= Total(u)
        /\ Total(u) <= MaxWrites * Cardinality(LoggedBy(u))

=============================================================================
