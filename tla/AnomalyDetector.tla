-------------------------- MODULE AnomalyDetector --------------------------
(***************************************************************************)
(* The scheduled detector (lambda/anomaly_detector/handler.py): it reads   *)
(* the aggregate counters of the current and of the baseline window, query *)
(* by query and page by page, while gateways keep counting; flags users    *)
(* whose current traffic is a multiple of their baseline; writes a block   *)
(* record for each, one put at a time; and then publishes one alert.  The  *)
(* queries are eventually consistent: a page may come from a replica that  *)
(* has not heard of the last requests counted.  The handler takes no lock: *)
(* the schedule, calls on demand and events delivered twice run side by    *)
(* side.  Any call may raise, which fails the invocation; Lambda invokes a *)
(* failed asynchronous event again, a few times.                           *)
(***************************************************************************)
EXTENDS DetectorRules, FiniteSets

CONSTANTS
    Users,
    Events,            \* deliveries of an event, each with its invocations
    Attempts,          \* invocations of one event, the first included
    MaxRequests        \* bound on the requests counted

ASSUME DetectorAssumption ==
    /\ IsFiniteSet(Users)
    /\ Attempts \in Nat \ {0}
    /\ MaxRequests \in Nat

VARIABLES
    clock,
    count,    \* count[u][b]: requestCount of user u in bucket b
    settled,  \* settled[u][b]: what every replica holds of it
    run,      \* run[e]: the invocation for event e
    blockTtl, \* blockTtl[u]: ttl of u's record in the blocklist table
    alerts    \* the alerts published

detectorVars == <<clock, count, settled, run, blockTtl, alerts>>
tableVars == <<clock, count, settled>>

-----------------------------------------------------------------------------
Idle == [pc |-> "idle", tries |-> 0]

NoCounts == [u \in Users |-> 0]

Init ==
    /\ clock = 0
    /\ count = [u \in Users |-> [b \in Buckets |-> 0]]
    /\ settled = count
    /\ run = [e \in Events |-> Idle]
    /\ blockTtl = [u \in Users |-> NoRecord]
    /\ alerts = {}

\* What the Lambda has read when it starts on a bucket (before: history, what
\* every replica held when it was invoked).
Reading(now, before, tries, i, current, baseline) ==
    [pc |-> "reading", now |-> now, before |-> before, tries |-> tries, offset |-> i,
     unread |-> Users, current |-> current, baseline |-> baseline]

\* EventBridge, a caller, or a retry of a failed event invokes the handler.
Invoke(e) ==
    /\ run[e].pc = "idle" \/ run[e].pc = "failed"
    /\ run' = [run EXCEPT ![e] =
                 Reading(clock, settled, run[e].tries + 1, 0, NoCounts, NoCounts)]
    /\ UNCHANGED <<tableVars, blockTtl, alerts>>

\* A replica answers with what all have, or with more of what there is.
MayRead(u, b, n) == CountAt(settled[u], b) <= n /\ n <= CountAt(count[u], b)

Added(counts, seen) ==
    [u \in Users |-> counts[u] + IF u \in DOMAIN seen THEN seen[u] ELSE 0]

\* What an invocation has read after one more page.
WithPage(r, seen) ==
    IF r.offset \in CurrentOffsets
    THEN [r EXCEPT !.unread = @ \ DOMAIN seen, !.current = Added(@, seen)]
    ELSE [r EXCEPT !.unread = @ \ DOMAIN seen, !.baseline = Added(@, seen)]

\* Mutant: LastEvaluatedKey is ignored, the first page is the whole answer.
ReadFirstPage(e, seen) ==
    /\ run[e].pc = "reading"
    /\ DOMAIN seen # {} /\ DOMAIN seen \subseteq run[e].unread
    /\ \A u \in DOMAIN seen : MayRead(u, SeriesBucket(run[e].now, run[e].offset), seen[u])
    /\ run' = [run EXCEPT ![e] = [WithPage(@, seen) EXCEPT !.unread = {}]]
    /\ UNCHANGED <<tableVars, blockTtl, alerts>>

\* One page of the query for a bucket: the counters of some users not yet read.
ReadPage(e, seen) ==
    /\ run[e].pc = "reading"
    /\ DOMAIN seen # {} /\ DOMAIN seen \subseteq run[e].unread
    /\ \A u \in DOMAIN seen : MayRead(u, SeriesBucket(run[e].now, run[e].offset), seen[u])
    /\ run' = [run EXCEPT ![e] = WithPage(@, seen)]
    /\ UNCHANGED <<tableVars, blockTtl, alerts>>

\* The last page of a bucket is read; the next bucket of the series follows.
NextBucket(e) ==
    /\ run[e].pc = "reading"
    /\ run[e].unread = {}
    /\ run[e].offset < LastOffset
    /\ run' = [run EXCEPT ![e] = Reading(@.now, @.before, @.tries, @.offset + 1,
                                         @.current, @.baseline)]
    /\ UNCHANGED <<tableVars, blockTtl, alerts>>

\* Sorted by (ratio, requestsLastHour), descending.
RanksBefore(r, u, v) ==
    LET left == r.current[u] * Normal(r.baseline[v])
        right == r.current[v] * Normal(r.baseline[u])
    IN  left > right \/ (left = right /\ r.current[u] >= r.current[v])

\* What _detect_anomalies makes of the sums of an invocation.
Decision(r) ==
    LET anomalies == {u \in Users : IsAnomaly(r.current[u], r.baseline[u])}
    IN  [pc |-> IF anomalies = {} THEN "done"
                ELSE IF AutoBlock THEN "blocking" ELSE "publishing",
         now |-> r.now, before |-> r.before, tries |-> r.tries,
         anomalies |-> anomalies, unblocked |-> anomalies,
         current |-> r.current, baseline |-> r.baseline]

\* All buckets are read.
Detect(e) ==
    /\ run[e].pc = "reading"
    /\ run[e].unread = {}
    /\ run[e].offset = LastOffset
    /\ run' = [run EXCEPT ![e] = Decision(@)]
    /\ UNCHANGED <<tableVars, blockTtl, alerts>>

\* The anomaly that is next in the list.
IsNext(e, u) ==
    /\ run[e].pc = "blocking"
    /\ u \in run[e].unblocked
    /\ \A v \in run[e].unblocked : RanksBefore(run[e], u, v)

WithBlock(r, u) ==
    [r EXCEPT !.unblocked = @ \ {u},
              !.pc = IF r.unblocked = {u} THEN "publishing" ELSE "blocking"]

\* Mutant: a put that raises is skipped.
PutBlockOrSkip(e, u) ==
    /\ IsNext(e, u)
    /\ \/ blockTtl' = [blockTtl EXCEPT ![u] = run[e].now + BlockTTL]
       \/ UNCHANGED blockTtl
    /\ run' = [run EXCEPT ![e] = WithBlock(@, u)]
    /\ UNCHANGED <<tableVars, alerts>>

\* put_item replaces the record, whatever it says.
PutBlock(e, u) ==
    /\ IsNext(e, u)
    /\ blockTtl' = [blockTtl EXCEPT ![u] = run[e].now + BlockTTL]
    /\ run' = [run EXCEPT ![e] = WithBlock(@, u)]
    /\ UNCHANGED <<tableVars, alerts>>

Alert(e) == [users |-> run[e].anomalies, at |-> run[e].now, autoBlocked |-> AutoBlock]

\* The SNS message; without a topic the step publishes nothing.
Publish(e, topic) ==
    /\ run[e].pc = "publishing"
    /\ alerts' = IF topic THEN alerts \cup {Alert(e)} ELSE alerts
    /\ run' = [run EXCEPT ![e] = [@ EXCEPT !.pc = "done"]]
    /\ UNCHANGED <<tableVars, blockTtl>>

Working(e) == run[e].pc \in {"reading", "blocking", "publishing", "done"}

\* Mutant: the attempts of an event are not counted against its limit.
FailUncounted(e) ==
    /\ Working(e)
    /\ run' = [run EXCEPT ![e] = [pc |-> "failed", tries |-> @.tries]]
    /\ UNCHANGED <<tableVars, blockTtl, alerts>>

\* Any boto3 call raises, or the Lambda times out; the call may have taken effect
\* (the PutBlock or Publish step, followed by this one).
Fail(e) ==
    /\ Working(e)
    /\ run' = [run EXCEPT ![e] = IF @.tries < Attempts THEN [pc |-> "failed", tries |-> @.tries]
                                                       ELSE Idle]
    /\ UNCHANGED <<tableVars, blockTtl, alerts>>

\* The handler returns its summary.
Return(e) ==
    /\ run[e].pc = "done"
    /\ run' = [run EXCEPT ![e] = Idle]
    /\ UNCHANGED <<tableVars, blockTtl, alerts>>

-----------------------------------------------------------------------------
Requested == SumFunction([u \in Users |-> SumFunction(count[u])])

\* A gateway counts a request of u, in the bucket of its clock or, late, in the
\* one before.
CountRequest(u, b) ==
    /\ b \in {clock, clock - 1} \cap Buckets
    /\ Requested < MaxRequests
    /\ count' = [count EXCEPT ![u][b] = @ + 1]
    /\ UNCHANGED <<clock, settled, run, blockTtl, alerts>>

\* The last replica hears of requests that were counted.
Replicate(u, b) ==
    /\ \E n \in (settled[u][b] + 1) .. count[u][b] : settled' = [settled EXCEPT ![u][b] = n]
    /\ UNCHANGED <<clock, count, run, blockTtl, alerts>>

\* Lambda has ended an invocation when its time is up (Fail).
Tick ==
    /\ clock < MaxTime
    /\ \A e \in Events : Working(e) => clock < run[e].now + InvocationTime
    /\ clock' = clock + 1
    /\ UNCHANGED <<count, settled, run, blockTtl, alerts>>

HandlerStep(e) ==
    \/ Invoke(e)
    \/ \E users \in SUBSET Users : \E seen \in [users -> 0..MaxRequests] : ReadPage(e, seen)
    \/ NextBucket(e)
    \/ Detect(e)
    \/ \E u \in Users : PutBlock(e, u)
    \/ \E topic \in BOOLEAN : Publish(e, topic)
    \/ Fail(e)
    \/ Return(e)

Next ==
    \/ \E e \in Events : HandlerStep(e)
    \/ \E u \in Users, b \in Buckets : CountRequest(u, b) \/ Replicate(u, b)
    \/ Tick

Spec == Init /\ [][Next]_detectorVars

-----------------------------------------------------------------------------
(* Properties.                                                              *)

\* Every variable has its type, and an event is not invoked more than Attempts times.
TypeOK ==
    /\ clock \in Buckets
    /\ count \in [Users -> [Buckets -> 0..MaxRequests]]
    /\ settled \in [Users -> [Buckets -> 0..MaxRequests]]
    /\ \A e \in Events :
         /\ run[e].tries \in 0..Attempts
         /\ run[e].pc \in {"idle", "failed", "reading", "blocking", "publishing", "done"}
    /\ blockTtl \in [Users -> Nat \cup {NoRecord}]
    /\ \A a \in alerts : a.users \subseteq Users /\ a.at \in Buckets

\* A user's requests in either window of an invocation, in a table of counters.
LastHour(table, e, u) == WindowTotal(table[u], run[e].now, 0 .. (CurrentBuckets - 1))
Baseline(table, e, u) ==
    WindowTotal(table[u], run[e].now,
                CurrentBuckets .. (CurrentBuckets + BaselineBuckets - 1))

Decided(e) == run[e].pc \in {"blocking", "publishing", "done"}

\* Nobody is flagged for traffic he did not send: a flagged user's counters, as
\* they are now, hold at least the minimum for the current window, and the
\* threshold times the baseline every replica had when the handler started -
\* although the counters moved between the queries, the replicas lag, and the
\* windows move with them across a bucket boundary ("exceeds baseline
\* hourly-average threshold", _detect_anomalies).
FlaggedUsersWereBusy ==
    \A e \in Events : Decided(e) =>
        \A u \in run[e].anomalies :
            /\ LastHour(count, e, u) >= MinRequests
            /\ LastHour(count, e, u) * BaselineHours
                 >= Threshold * Normal(Baseline(run[e].before, e, u))

\* Whoever was over the threshold by what every replica knew when the handler
\* started is not overlooked: not even when the baseline is taken as it is now.
\* No bucket falls between the two windows, and none is in both.  (What a replica
\* has not heard of yet a query may miss: such a user is left to the next run.)
BusyUsersAreFlagged ==
    \A e \in Events : Decided(e) =>
        \A u \in Users :
            IsAnomaly(LastHour(run[e].before, e, u), Baseline(count, e, u))
                => u \in run[e].anomalies

\* An alert that says autoBlocked is published after all its users are in the
\* blocklist, whatever puts failed and were repeated by another invocation before.
\* Their blocks are cut short by no more than the time an invocation takes: one
\* that runs beside it may put a record with an earlier end in the place of its own.
AlertedUsersAreBlocked ==
    \A a \in alerts :
        a.autoBlocked =>
            \A u \in a.users : blockTtl[u] >= a.at + BlockTTL - InvocationTime

=============================================================================
