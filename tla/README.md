# SentinelAPI in TLA+

Models, model-checking runs and proofs for SentinelAPI: an API gateway (FastAPI on ECS Fargate)
that authenticates requests with JWTs, limits each user with a token bucket in Redis, forwards
what is left to an upstream, and logs it to DynamoDB; and a scheduled Lambda that reads the
logged traffic, flags users whose traffic jumped, and blocks them. An SDK deploys all of it with
CloudFormation.

Paths below are relative to the repository; `services/` is `src/sentinel_api/services/`.

## 1. The system

| Component | Code | State it keeps | Operations | Talks to |
|---|---|---|---|---|
| Redis limiter | `services/rate_limiter.py` | in Redis: a bucket hash and a block key per user, the script cache; in the gateway: `lua_sha` | `init`, `allow_request` (Lua script), `block_user`, `unblock_user` | Redis; awaited by the gateway |
| Limiter protocol | `services/rate_limiter_base.py` | - | the three operations of a backend | - |
| In-memory limiter | `services/memory_rate_limiter.py` | two dicts, an asyncio lock | the same three | event loop |
| DynamoDB limiter | `services/dynamodb_rate_limiter.py` | a bucket item and a block item per user | the same three, as sequences of table calls on worker threads | DynamoDB |
| Authentication | `services/auth.py` | JWKS by kid, expiry of that cache | `decode_token` | the identity provider's JWKS document |
| Request logger | `services/request_logger.py` | raw rows and 15-minute counters in DynamoDB | `log_request`: two worker threads with retries | DynamoDB |
| Anomaly detector | `lambda/anomaly_detector/handler.py` | blocklist table; an SNS topic | `handler`, every 15 minutes | aggregate table (written by the logger), blocklist table, SNS |
| Gateway | `src/sentinel_api/main.py`, `services/proxy.py` | clients and services on `app.state` | `/proxy`, `/auth/verify`, `/health`, startup, shutdown | all of the above, the upstream |
| Runtime configuration | `src/sentinel_api/config.py` | `os.environ`, `settings` | layering of shell, `.env` and presets at import | - |
| SDK deployer | `src/sentinel_api/sdk_deployer.py` | a CloudFormation stack, an S3 bucket, an ECR repository | `resolve_config`, `deploy_stack`, `teardown_stack` | AWS, docker |
| Anomaly smoke script | `scripts/anomaly_smoke.py` | what it has read so far; counters it seeds | one run: seed, burst, settle, top up, invoke, verify | gateway, aggregate table, the Lambda, blocklist table |
| JWT script | `scripts/generate_jwt.py` | - | finds a secret and signs a token | the gateway, through the secret |
| Templates, CI, examples | `infrastructure/`, `.github/`, `examples/`, `infrakit/` | - | - | - |

**How they interact.** A request to `/proxy` runs `decode_token` (synchronously, on the event
loop), then awaits `allow_request`, the upstream and `log_request`, in that order. Gateways share
Redis and DynamoDB and nothing else. The detector sees the gateways only through the counters the
logger keeps; the gateways should see the detector through blocks.

**What is hard, and what makes each component correct.**

* *Redis limiter.* The script is atomic, but the time it refills by is read in the gateway before
  the round trip: scripts run in another order than their stamps, from one gateway or from several
  with different clocks. Keys expire, Redis restarts empty, the cached script SHA goes stale.
  Correct: a window admits no more than capacity plus refill; a waiting user is not denied; a
  blocked user's bucket is left alone; every call ends unless its connection stalls (the client has no
  socket timeout); a gateway recovers from a Redis restart.
* *In-memory limiter.* Tasks interleave at the lock. Correct: the same contract.
* *DynamoDB limiter.* Read, compute and put are separate calls; reads of both tables may be stale; a
  delete follows a read; every process reads its own clock. Correct: as above, for calls that neither
  overlap nor read a stale item; block records last.
* *Authentication.* The provider rotates keys at any moment of a call; fetches fail or are slow.
  Correct: withdrawn keys stop verifying, published keys are not rejected, calls end.
* *Request logger.* Attempts are repeated after their answers were lost, and botocore resends each of
  them by itself; two threads read two clocks. Correct: one row per request, counters between the
  acknowledged requests and the retries' and resends' worth of them, the client is not kept waiting
  for ever.
* *Detector.* Counters move and bucket boundaries pass while the windows are read, from replicas that
  lag; puts fail in the middle; events are repeated and overlap. Correct: flags follow from the traffic
  as far as the replicas know it; who is alerted is blocked.
* *Auto-blocking.* Crosses three components. Correct: the gateways refuse whom the detector blocked.
* *Gateway.* A token is spent before the upstream call that may fail or be executed and never
  answered; refused and failed requests are not logged; the client waits for the log. Correct: the
  client is told what happened; what is logged happened, for that user; the counters follow what
  the limiter admitted; every client is answered whose own connection to Redis does not stall.
* *Configuration.* Three resolvers (import, SDK, JWT script), each with prefixed and legacy names
  and its own idea of a blank value; the import parses numbers, the SDK strips texts; the import changes
  `os.environ`, which the SDK reads; the template hands on a part of the plan. Correct: the documented
  precedence; the resolvers agree where they can; what is deployed starts and runs as planned.
* *Deployer.* Checks and then acts on a stack others change, asks for outcomes by name, and names a
  prebuilt image without asking for it. Correct: a report is true; the stack runs images that exist and
  the code that was built; calls end, and do not fail for nothing.
* *Smoke script.* Restates the detector's windows and ratio, reads what may be stale, and runs while the
  clock and the scheduled detector do. Correct: it passes only if something was detected, and does not blame a
  detector that works.

## 2. Modules

| Module | Models | EXTENDS / INSTANCE |
|---|---|---|
| `TokenBucket` | the arithmetic of the three limiters: refill, spend, whole tokens | |
| `RedisRateLimiter` | `services/rate_limiter.py` on several gateways and one Redis | `TokenBucket` |
| `RedisLedger` | the same, watched by a ledger of script executions | `RedisRateLimiter` |
| `RateLimiterContract` | abstract: one bucket and one block per user, each call one instant | `TokenBucket` |
| `RedisRefinement` | `RedisRateLimiter` implements the contract | both |
| `MemoryRateLimiter` | `services/memory_rate_limiter.py`; implements the contract | `TokenBucket`, the contract |
| `DynamoRateLimiter` | `services/dynamodb_rate_limiter.py` | `TokenBucket` |
| `JwksAuth` | the JWKS path of `services/auth.py`, and a provider that rotates | |
| `RequestLogger` | `services/request_logger.py` | |
| `Gateway` | `main.py` and `services/proxy.py`: the pipeline, composed of limiter, logger and upstream | `RequestLogger`, the contract |
| `DetectorRules` | the detector's windows and its decision | |
| `AnomalyDetector` | `lambda/anomaly_detector/handler.py` | `DetectorRules` |
| `AutoBlock` | the detector's blocks composed with the gateways | `RedisRateLimiter` |
| `AnomalySmoke` | `scripts/anomaly_smoke.py`, with the detector by its guarantees | `DetectorRules` |
| `ConfigResolution` | `config.py`, `resolve_config`, the container's environment, `generate_jwt.py` | |
| `StackDeployer` | `deploy_stack`, `teardown_stack` and CloudFormation | |
| `ArithmeticLemmas` | lemmas on the token bucket and on sums of counters, section 4 | `TokenBucket` |
| `RedisProofs` | theorems about the Redis limiter, its ledger and its refinement | `RedisLedger`, `RedisRefinement`, `ArithmeticLemmas` |
| `MemoryRateLimiterProofs`, `DynamoRateLimiterProofs` | theorems about the other two limiters | the module of that name, `ArithmeticLemmas` |
| `GatewayProofs` | theorems about the pipeline and the logger in it | `Gateway`, `ArithmeticLemmas` |
| `AnomalyDetectorProofs` | theorems about the detector and the smoke script | `AnomalyDetector`, `AnomalySmoke`, `ArithmeticLemmas` |
| `ConfigAndKeysProofs` | theorems about the resolvers and the key cache | `ConfigResolution`, `JwksAuth` |
| `StackDeployerProofs` | theorems about the deployer | `StackDeployer` |
| `MC*` | constants for TLC | |

### Correspondence to the code

**TokenBucket.** Tokens are counted in fractions: `Unit` fractions are a token, `Rate` fractions
are refilled per tick, `Capacity` is the capacity in fractions. `Refilled` is
`min(capacity, tokens + max(0, now - last_refill) * rate)`, `HasToken` the comparison with 1,
`Spend` what is written back, `WholeTokens` the truncation: Redis turns a Lua number in a reply into
an integer, and `main.py:136` cuts the header down to one as well. Floating-point rounding is not
modelled.

**RedisRateLimiter.** `bucket[u]` is the hash with its expiry, `blockedUntil[u]` the block key's
expiry, `scriptLoaded` Redis's script cache, `sha[g]` whether gateway g has `lua_sha`, `call[r]` one
`allow_request` coroutine. A call moves `load -> loaded -> eval -> reply`; the clock is read on
entering `eval` (`Call`, or `CacheSha` after the script was loaded), as line 62 does with no await
before `evalsha`. `EvalBlocked`, `Evaluate` and `EvalNoScript` are what Redis does when it executes
the command; `Return` and `ConnectionError` end a call. A connection may also stall (`Stall`): `main.py:30`
builds the client without a socket timeout, so such a call may never end. redis-py's pool has no limit
that a few stalled calls could reach, so it takes a stalled call's own request only. `RedisRestart` loses keys and script (the
template deploys one cache node without a snapshot), `GatewayRestart` loses `lua_sha` and the calls.
`Skew[g]` is g's clock offset.

**RedisLedger** adds a history that disables nothing but beyond `MaxEvals` executions of a window:
how many script executions a window saw, when it started, what it admitted, and `regress`, the
total by which stamps went back. Windows are closed and opened at will (`CloseWindow`), so the
bound is one for every window of a behaviour, not for those from time 0 only.

**RateLimiterContract.** `Decide` picks an instant of the call as the time of the refill;
`Refuse` a blocked instant. The Redis mapping (`RedisRefinement`) makes a missing key a full
bucket, and a call pending until the script ran. The in-memory mapping is in `MemoryRateLimiter`:
its three operations never suspend while they hold the lock, nor between reading the clock and
taking it, so each is one step; `_blocked_until` has an exclusive end there and an inclusive one
in Redis, which is why `Block` leaves the last instant open.

**DynamoRateLimiter.** `allow_request` is `Start` (line 28 reads the clock of its process, `Skew[r]`
ahead of the slowest), `ReadBlock`, `DeleteBlock`, `ReadBucket`, `WriteDenied` or `WriteAllowed`, with
`Raise` at each table call; `Put` may be applied although the call raised. `oldBucket` and `oldBlock`
are what a lagging replica may still answer: neither `get_item` is a consistent read. DynamoDB deletes
expired items by a clock of its own (`TableSkew`). `disturbed` is the history of users whose calls
overlapped (a `block_user` counts as well) or who read a stale item; `regress` by how much the stamps
of a bucket went back, as they do when calls of skewed processes alternate. The record without a ttl
that line 97 takes for active is left out: nothing writes one. `main.py` does not build this limiter
at this commit.

**JwksAuth.** Keys are their kids. `Decode` makes the decision of `_resolve_jwks_key` up to the
first fetch, `ProviderAnswers` fixes the document, `StoreKeys`, `NoUsableKeys` and `FetchFails` are
the ends of `_refresh_jwks_cache` (a document that is not an object *raises* something else than
`AuthError`, which the client sees as a 500); a forced refresh follows one that was not forced, once.
`decode_token` is synchronous, so a process has one call at a time. `lastPublished` and `absent`
are histories of the provider. Signatures, claims and static keys are functions of the token and
left out.

**RequestLogger.** `thread[r][k]` is a worker thread of request r: `raw` puts the row whose key is
the thread's clock reading, `aggregate` adds one to the counter of its own reading's bucket. An
attempt is acknowledged, applied without an answer, or failed; `Retried` is the bookkeeping of
`_call_with_retry`. One attempt is one boto3 call, which botocore sends up to `Sends` times (line 65
leaves its retries at their default): the resends of an attempt are one step, in which the write is
applied as often as any of them was. The most a request can add is `MaxWrites`. The other counters of the item (4xx, 5xx, endpoint score) are added by the same
ADD and left out. It has no run of its own: its properties are checked inside `Gateway`, whose
requests are the ones it gets.

**Gateway.** `req[r]` says where the handler of a request stands:
`new -> limiting (-> stalled -> limiting) -> forwarding -> logging -> answered`, each step ending at an await of
`main.py:95-137`. Authentication is an outcome here (its content is `JwksAuth`). Whichever limiter
is behind the protocol is `RateLimiterContract`, and `LimiterRaises` is an exception from it at any
point. `LimiterStalls` and `LimiterResumes` are a connection to the store that stalls and comes back, if
ever. `Send` is `client.send`; from then on the upstream may execute the request at any time, also
after `ForwardFails` gave it up. `UpstreamAnswers` starts both logger threads, `Respond` waits for
them as `log_request` does; `LoggerRaises` is the caught exception of `main.py:128`.
`ProcessRestarts` loses handlers and threads, `StoreRestarts` the limiter's memory. `fresh` and
`regress` are histories that `CountedIsAdmitted` measures with.

**AnomalyDetector, DetectorRules.** Time is counted in buckets of 900 s: keys are aligned, so bucket
i of a series is `now - i`. `run[e]` is the invocation for one delivery of an event; the handler takes
no lock, so those of several events interleave. `ReadPage` reads any nonempty part of a bucket's users;
the queries are eventually consistent, so a page shows of each counter something between what every
replica holds (`settled`) and what there is (`count`). `NextBucket` goes on, `Detect` is
`_detect_anomalies` with the ratio compared without division, `PutBlock` one `put_item` in the sorted
order, `Publish` the alert; with `AutoBlock` off there are no puts. `Fail` may strike at any point; a
failed event is invoked again up to `Attempts` times, as Lambda does for asynchronous events, and no
invocation outlives `InvocationTime`, the function's timeout. A gateway counts requests meanwhile, in
its bucket or, late, in the one before. `before` is what every replica held when the invocation
started. The rules are a module of their own because the smoke script restates them.

**AutoBlock.** The detector's put next to the whole Redis limiter; nothing in the repository
connects the two (finding 2).

**AnomalySmoke.** `Seed`, `Burst`, `Settle`, `TopUp`, `InvokeDetector` and `Verify` are the steps of
`main()`; `smoke.window` is the clock reading from which the script computes its windows, taken
after the burst. The detector is not repeated: an invocation must flag whom `BusyUsersAreFlagged`
says it flags, may flag whom `FlaggedUsersWereBusy` allows, and is free in between; where its queries
are not `fresh` nothing is known of what it reads. The scheduled invocation runs next to the script's.
The script's own reads may be stale too: `Settle` and `TopUp` see any part of the window's counters,
`Verify` the record or an `earlier` one. `spoilt` records what the script cannot know: a boundary
between its reading and the detector's, a foreign baseline, late counters, a failed invocation, a
replica that lagged when the detector asked or when the script looked for the block.

**ConfigResolution.** Seven names stand for the ways a value is used: `OPTIMIZE_FOR` (selects the
preset), `KNOB` (the numeric settings with a preset that the template takes as strings and hands to
the container), `TASK` (the four that it takes as numbers for its own resources and does not hand
over: `FARGATE_CPU`, `FARGATE_MEMORY_MIB`, `ECS_DESIRED_COUNT`, `LOG_RETENTION_DAYS`), `SECRET`,
`KEY` (the public key or the JWKS address, which the gateway prefers to the secret), `UPSTREAM`
(needed by the deployment only) and `REGION`. `given` holds what dictionary, shell and `.env` say, in
either form of a name: blank, with blanks around it (`Strip`), a number or not one (`Parses`). Both
readers of `.env` strip its values. `Import` is `_apply_layered_env`, `_apply_optimization_defaults` and
`Settings()`, which refuses a wrong mode, a number that does not parse and a configuration without a
JWT key; it leaves the result in `env`. `ResolveConfig` is the SDK's, which strips and does not parse,
and takes its region from `AWS_REGION` alone, with another default than the runtime
(`sdk_deployer.py:223`, `config.py:178`). `StartContainer` gives the result to the same import under
prefixed names, but for `TASK`, as the task definition in `full.yaml` does. `SigningSecret` is
`generate_jwt.py` with `--env-file` or, without a file, without it; `VerificationKey` is what
`auth.py:59-67` verifies with.

**StackDeployer.** `call[o]` is one `deploy_stack` or `teardown_stack`, one step per request to AWS:
`bucket -> make bucket -> repo -> make repo -> tag -> build -> push -> check -> create | update |
delete -> await -> outputs -> done`. The tag is read, the image built and pushed in three steps, and
the tree may be edited and committed in between; `built` is what the docker daemon has under a tag, `image`
what a registry has. The prebuilt image (`Release`) is named after the tree's version or an override
and never asked for (`sdk_deployer.py:250-253`, `681-699`); it exists from `Publish` on, the release
workflow's step, which may come at any time or never. A full stack whose image is missing cannot be put
in place (`TasksStart`): CloudFormation rolls back. (A desired count of zero, which starts no task, is
not modelled, nor is a release that is published again with other content.) `Good` and `Bad` are the statuses at which boto3's waiters succeed and fail;
`GiveUp` is any `ClientError`, a failed build, or a waiter out of polls; `Interrupt` a stopped
process (`deploy.yml` cancels a running job). `StackSucceeds` and `StackFails` are CloudFormation.
Versions of the working tree stand for its content: the Lambda key is the version, the image tag the
last *commit*, so that a dirty tree reuses a tag. An uploaded archive is never removed and thus not a
variable. `retagged`, `touched` and `disturbed` are histories.

## 3. Runs

| Run | Checks | Shows |
|---|---|---|
| `redis_ledger` | `LTypeOK`, `AdmissionBound`, `DeniedOnlyTooEarly` | admissions of any window are bounded, stale stamps included; who waited is not denied |
| `redis_refinement` | `BlockFreezesBucket`, `CallsEnd`, `ImplementsContract` | with agreeing clocks the gateways and Redis look like one bucket with instantaneous calls; a blocked bucket never moves; every call ends whose connection does not stall |
| `memory_limiter` | `ImplementsContract` | so does the in-memory limiter |
| `dynamo` | `TypeOK`, `SerialCallsKeepPromise`, `SerialCallsKeepBlocks` | whatever the clocks, over-admission beyond the time on them and lost blocks need overlapping calls or a stale read |
| `jwks` | `JwksTypeOK`, `WithdrawnKeysExpire`, `RotationIsFollowed`, `DecodeEnds` | rotation at any moment of a call is handled |
| `gateway` | `GTypeOK`, `OneRowPerRequest`, `CountsWithinBounds`, `AnswersMatchUpstream`, `CountedIsAdmitted`, `RequestsEnd` | answers and logs tell what happened; retries are harmless for rows and bounded for counters; the detector's input is bounded by what the limiter admits; clients are answered, but for those whose own connection stalls |
| `detector` | `TypeOK`, `FlaggedUsersWereBusy`, `BusyUsersAreFlagged`, `AlertedUsersAreBlocked` | flags follow from traffic that moves while it is read, as far as the replicas know it; alerts follow blocks, overlapping invocations included |
| `smoke` | `PassIsEarned`, `WorkingDetectorPasses` | the smoke test's verdict is right whenever its measurement was and no read was stale |
| `config` | `TypeOK`, `RuntimeFollowsPrecedence`, `ResolversAgree`, `DeploymentFollowsPrecedence`, `ContainerRunsPlan`, `TokensVerify` | precedence with its exceptions, agreement of the resolvers with theirs, when the container starts and with what, which tokens verify |
| `deployer` | `TypeOK`, `ReportedIsApplied`, `SomeReportIsTrue`, `ArtifactsExist`, `GatewayRunsBuiltCode`, `UndisturbedCallsSucceed`, `CallsEnd` | reports of concurrent deployers are true, built images precede references, a missing prebuilt image is never in place, calls end and fail only for a reason |
| `redis_recovery` | `GatewayRecovers` is violated | finding 1 |
| `autoblock` | `AutoBlockedUsersAreRefused` is violated | finding 2 |

Each property of a passing run has a mutant, an operator next to the definition it replaces and
marked `Mutant:` there, that a plausible bug would look like and that the run must reject.

**Deadlock** is checked where the system always has a next step (a call can be made, ended or
blocked). `config`, `smoke` and `deployer` end: all resolvers have run, the script is through, the
bounded calls are made and the stack is at rest.

### Bounds, and why they are enough

* Two calls and one user per bucket: the script and the items are per user, and every race in this
  code is between two calls. Two gateways where their number matters (ledger, refinement, script
  loading), two users in the in-memory limiter and the detector.
* Half tokens (`Unit = 2`), a capacity of one token or one and a half and a rate of half a token
  per tick: the smallest values with a fractional level, a denial that earns credit, and a refill
  cut off by the capacity.
* `BucketTTL` is just long enough for `ExpiryAssumption` in the ledger's run (with one tick less
  `AdmissionBound` fails at the same bounds) and shorter where the assumption is not needed.
* In the passing limiter and JWKS runs `MaxTime` is larger than the TTLs: an expiry, a use after it and,
  for the JWKS cache, a second filling of the cache happen. `MaxEvals = 3` gives a window with an
  execution that goes back between two others.
* `CallTime` and `FetchTime` bound how long a DynamoDB call or a fetch takes: one tick, so that the
  clock can move in the middle. `urlopen` bounds each socket operation, not the whole fetch; the age
  of a key in `WithdrawnKeysExpire` is given in terms of that time.
* `dynamo`: whole tokens (`Unit = 1`, a capacity of one), two threads of processes a tick apart, and
  DynamoDB's clock a tick ahead of the slower one: a stamp that goes back, a second refill of the same
  time, an expiry and a use after it all happen in three ticks. `MaxGrants` and `MaxRegress` stop
  behaviours, they hide no step before.
* `gateway`: two requests of one user, `MaxRetries = 2` instead of 3 (one attempt that is repeated
  and one that is not), `Sends = 2` instead of botocore's five (one resend), one tick that is also a
  bucket boundary (`BucketTicks = 1`), one loss of the bucket (`MaxFresh = 1`). A longer clock
  multiplies the states and adds no case of the pipeline; longer times are those of the limiter runs,
  and the proofs have none of these bounds.
* `detector`: two events, `Attempts = 2`, `MaxRequests = 2`, windows of one bucket each, one boundary: a
  flag needs a comparison of two nonempty windows, an overlap two invocations, and a repetition one that
  failed after some puts. `AutoBlock = TRUE`; without it `Detect` goes straight on to `Publish`, and the
  proofs hold for both.
* `smoke`: a baseline of two buckets, so that a share is put into each, a minimum above the threshold
  (so that the larger of the two decides), and a counter large enough to be flagged; the clock starts
  where the baseline window begins at 0 and may cross a boundary once.
* `config`: each name at up to two places (`MaxPlaces = 2`) of six: every exception is between two
  places. Names that interact vary together (`Together`); the others are given once or not at all. The
  proof covers any number of places and any numbers.
* `deployer`: two operators and two calls, which may overlap or follow one another, on nothing or on what
  an earlier deployment left; two versions, and the stack's whole life. `UsEast1 = FALSE`, where creating
  an existing bucket raises; with TRUE it does not, which only removes failures. The safety proofs are
  for any region and any numbers.

### Fairness

* `RedisRateLimiter!FairSpec` (`RFairSpec`): weak fairness of each call's progress. Redis executes
  what it is sent over a connection that does not stall, and the event loop resumes coroutines. Nothing
  obliges a stalled connection to break or to come back, clients to call, connections to break or
  processes to restart; hence `CallsEnd` leaves out the stalled calls, and says that they hold up no
  other.
* `BusySpec` (for `GatewayRecovers`): clients keep calling through every gateway, connections do not
  always break (strong fairness of progress and of calls), stalled ones break in the end, and after some
  time nothing restarts or stalls any more. The property fails even so.
* `JwksAuth!JwksFairSpec`: weak fairness of the call's own steps, for `urlopen` has a timeout. It is one
  per socket operation: a provider that keeps sending a byte at a time is assumed away.
* `Gateway!GFairSpec`: weak fairness of each request's handler and logger threads together: httpx
  has a timeout (per operation as well), the limiter's calls end unless they stall (`CallsEnd`), boto3
  calls time out and the backoff is finite. The upstream need not execute anything, and a stalled
  limiter need not resume: `RequestsEnd` leaves that request out.
* `StackDeployer!FairSpec`: weak fairness of each call's steps, among them `GiveUp`: boto3 has
  timeouts and a waiter has a number of polls. `docker build` and `docker push`
  (`sdk_deployer.py:590-591`) have no timeout; that they end is assumed. CloudFormation, operators and the tree are under no
  obligation: `CallsEnd` holds although a stack may stay busy for ever.

## 4. Proofs

All theorems hold for every value of the constants, under the assumptions declared with them:
`BucketAssumption` (`TokenBucket`), `LimiterAssumption`, `LedgerAssumption`, `MemoryAssumption`,
`JwksAssumption`, `LoggerAssumption`, `GatewayAssumption`, `RulesAssumption`, `DetectorAssumption`,
`SmokeAssumption`, `DynamoAssumption` and `DeployerAssumption` (types, a finite set of users, at least
one operator, and model values that are no members of the sets they are apart from),
`NumbersAssumption` (an explicit number is not blank and parses) and, for the ledger and for the
DynamoDB limiter, `ExpiryAssumption`: an empty bucket is full again before it expires
(`Capacity <= Rate * BucketTTL`, less the time of a call where the item's age counts from before the
write, and less the skew of the table's clock). It holds for both presets. TLC evaluates each of them in a
run. Two theorems have a hypothesis of their own, given below: `RedisImplementsContract` and
`WorkingPasses`.

Every safety property that a passing run checks is stated by a theorem.

**`ArithmeticLemmas`.** The token bucket: a level stays in `0..Capacity` under `Refilled` and `Spend`
even for stale stamps (`RefilledRange`, `SpendRange`), and refills of adjacent times add up. Sums: the
totals of counters are `SumFunction`, a fold, and the provers have no induction over data. `SumNat`,
`SumMonotone`, `SumUpdate`, `SumIncrement`, `SumTerm` and `SumZero` hold for any finite set all the
same: the fold is unfolded once (`PartialSumsUnfold`, from the finiteness of the set), and a statement
about all subsets follows from there being no smallest subset at which it fails (`SmallestSubset`).

**`RedisProofs`.**

* `TypeCorrect`: `Spec => []TypeOK`, by induction on the steps as it stands.
* `BlockedBucketFrozen`: an action property that needs `TypeOK` only, one step per action.
* `LedgerTypeCorrect`: the same for the ledger.
* `AdmissionsBounded` and `NoEarlyDenial`: neither is inductive. `LedgerInv` is
  `ClosedIsEmpty /\ AdmissionBound /\ CreditKept`. `AdmissionBound` counts the tokens left in the
  bucket with those admitted, which makes a spend neutral. Where the bucket has expired the next
  execution finds a full one, and the bound survives only because the time since the last refill has
  paid for it: that is where `ExpiryAssumption` enters, with `Mark`, the stamp from which the next is
  in order. `ClosedIsEmpty` says that a closed window has admitted nothing, which opens a new one with
  a true bound. `CreditKept` says that a live bucket holds at least what was refilled since the latest
  admission, up to the capacity, so that a denial after a whole token's time is impossible.
* `RedisImplementsContract`: under the mapping of `RedisRefinement` every step of gateways and Redis is
  a step of the contract or a stutter. The hypothesis is `ClocksAgree` (`Skew[g] = 0` for every
  gateway): with skewed clocks the refill time need not be an instant of the call, and TLC shows the
  contract violated. `RefinementInv` supplies what the mapping needs: a call in flight was stamped
  between its start and now (`StampsInCalls`), and a live key expires no earlier than its TTL after the
  stamp it holds (`KeysKept`). An execution is the contract's decision at the instant of the stamp,
  loading the script and losing it are stutters, and an expiry or a restart is a step of the
  contract that forgets the bucket.

**`MemoryRateLimiterProofs`.** `MemoryImplementsContract` is the whole refinement: under the mapping
in `MemoryRateLimiter` initial states are initial states of the contract and every step is a step of
it or a stutter. `MemoryInv` supplies what the mapping needs: a stored level has a refill time that
has passed, and a scheduled call was scheduled in the past, so that "now" is an instant of the call.

**`DynamoRateLimiterProofs`.** `DynamoTypeCorrect`, `SerialPromise` and `SerialBlocks` rest on
`DynamoInv`. For the users whose calls neither overlapped nor read a stale item it says, next to
types, times and the age of items: no two calls are at work at once (`OneByOne`); what was admitted and
what is left is paid for by the capacity and the time on the clocks (`Paid`), in the item and in the
level that a call is about to write. Where the stamp of that call is older than the item's, the step
back is counted as time (`Counted`), because the next call will refill it again; an item that TTL
deleted had been full by then (`ExpiryAssumption`), and the time is counted from the earliest stamp a
call at work can have (`Earliest`). `BlockKept`: until its time has come on every clock the item of a
promised block is there and nobody is about to delete it.

**`GatewayProofs`.** `GatewayImplementsLogger`: at the variables of `RequestLogger`, every step of the
pipeline is a step of the logger or a stutter, so what is proved of the logger holds in the pipeline.

* `OneRow`: `OneRowPerRequest` is not inductive. `LoggerInv` adds where the row of a request may be
  while another attempt is to come - under the key that attempt has, and nowhere else - which is why a
  retry replaces its own row.
* `CountsWithin`: `CountsInv` bounds a user's total by the set of writes its requests have attempted,
  a set that grows by one with every attempt (`Writes`), `Sends` times over for the resends below an
  attempt, and from below by the acknowledged requests. A counter that is increased adds as much to
  the sum over the buckets (`SumIncrement`).
* `GatewayTypeCorrect`, `AnswersAreTrue`: `PipelineInv`, the types and, per request, what the upstream
  and the log know of it where the handler stands (`Progress`).
* `CountedAdmitted`: the chain from the token bucket to the detector's input. `LedgerInv` is the
  bucket's ledger in the pipeline - tokens left and requests admitted against capacity and refill, with
  `fresh` for lost buckets and `regress` for stale readings -, a logged request was admitted, and
  `CountsInv` bounds the counters by the logged requests.

**`AnomalyDetectorProofs`.** `DetectorInv` has four parts. `CountInv` and `RunInv` are types, and that
no replica runs ahead of the counters, nor behind what all replicas held when the invocation started.
`SumsInv` is the substance of `FlaggedWereBusy` and `BusyAreFlagged`: each sum of an invocation lies
between the total of the buckets it has read, as every replica had them at the start, and as they are
now (`SeenTotal`); which replica answers does not matter. One page of a
query adds a bucket to what was seen of some users (`PageBetween`); when all is read the sums lie
between the two totals of the windows (`SeriesSplits`: the windows are adjacent and disjoint), and the
decision is monotone (`RuleMonotone`). `BlocksInv` is `AlertedAreBlocked`: while puts are under way
everybody before the next one is in the blocklist for the full time, less what an invocation that runs
beside this one may have cut off: it is no older than `InvocationTime`, and nor is the end it puts.

The second part is the smoke script. `PassEarned` needs that an invocation that blocks has flagged and
that a record active in between, a replaced one included, was so before or is such an invocation's
(`EarnedInv`).
`WorkingPasses` needs `JudgedInv`: in an undisturbed run the window measured is that of one instant, its
baseline is what was seeded - requests counted in time fall into the current window (`BaselineApart`) -
and the invocation, with fresh replicas, started with no fewer requests than were measured; and that the script's ratio,
`Hourly * Threshold + 1`, is enough for the detector's (`RequiredIsAnomaly`), for any windows. Its
hypothesis is `InvocationsAreShort`, an invocation ends before a block put by it expires: the templates
give the Lambda 60 seconds and the presets' block time is an hour. Without it TLC finds the older
scheduled invocation that overwrites the script's block with one that has expired.

**`ConfigAndKeysProofs`.** `ConfigInv` says of every resolver that has run which environment it
ran on: the shell's, or the one the import left. Each property is then a statement about operators,
proved by cases on which source has a name; the theorems hold for every assignment of texts to
places, not just for two places.

`PlansRun` and `ResolversDoAgree` turn on what `Strip` and `Parses` do to a text that one resolver has
stripped and the other parses; `TokensAreVerified` on a blank prefixed secret, with which a gateway
without another key does not start.

`JwksInv` adds to the two properties of the key cache where they come from. `ProviderInv`:
a published key was last published now. `CacheInv`: a cached key was published no earlier than
the cache's expiry less TTL and travel time; this is what a refresh that fails must not disturb, and
what ties the age of a key to `cacheExpiresAt` instead of to the fetch. `CallInv`: an answer under way
is younger than `FetchTime`, its keys were published when it was made, and whatever the document
lacked then is in `absent`.

**`StackDeployerProofs`.** `DeployerInv` keeps the steps of deployments and teardowns apart and gives
every deployment a plan. `ImageInv` says that plans of calls and of the stack name built images that
are there, that the plan in place has its image wherever it comes from (`ArtifactsCorrect`: a full stack
is in place only after its tasks started), and that between the tag, the build and the push a tag that
docker gave to no second version stands for the code the call built. `AppliedInv` says what a call may believe of a stack nobody else touched at each
of its steps - which is not what the waiters check, since they see a status by name - and gives
`ReportsAreApplied`; with `ImageInv`, `GatewayIsBuiltCode`. `LastWordIsTrue` needs the same belief of one
operator at any time (`SomeoneKnows`): whoever changes the stack knows it then, whoever only looks on
leaves it to the one who knew. `CalmCallsSucceed` rests on `CalmInv`: an undisturbed call is the only one at
work, and finds stack, bucket and repository as its step needs them (`Steady`).

**Only model-checked:** the liveness properties (`CallsEnd`, `DecodeEnds`, `RequestsEnd`), for the
prover has no rules for fairness, and the two properties that the code violates (section 5).

## 5. Findings

1. `redis_recovery`. `lua_sha` is never cleared (`services/rate_limiter.py:59`): after Redis lost
   its script cache each gateway that had loaded it raises on every request until it is restarted,
   and `/health` stays "ok".
2. `autoblock`. The detector writes blocks to DynamoDB (`handler.py:145`), the gateway's limiter
   reads a Redis key nobody sets: auto-blocked users are admitted, against `README.md:3` and the
   architecture diagram.

Behaviour that the models show, or that was met while writing them, and that no run is about:

* The script stores the caller's stamp even when it is older than the stored one
  (`services/rate_limiter.py:39`), and the same interval is then refilled again. `AdmissionBound`
  says by exactly how much: once more for every step back.
* Two requests of a user stamped in the same microsecond share a raw row's key
  (`request_logger.py:110`): the second replaces the first.
* Two overlapping calls of the DynamoDB limiter admit two requests on one token; so does a call that reads
  the bucket before the last put has reached every replica. The deletion of an expired block record can
  hit a fresh one, after an overlap or after a stale read of the expired one; and calls of processes whose
  clocks differ refill the difference again each time their stamps go back. It is not wired up at this
  commit.
* botocore resends an `update_item` below the logger's own three attempts: one request may be counted
  up to `MaxWrites` times, not three.
* Without a socket timeout a stalled connection to Redis holds its request for as long as it stalls.
* An ANOMALY or limiter setting that is not a number passes `resolve_config`; the gateway's container then
  does not start, and CloudFormation finds out when its tasks do not come up. (Some template parameters
  are numbers or lists of allowed values: those CloudFormation refuses itself.)
* The container is not given `FARGATE_CPU`, `FARGATE_MEMORY_MIB`, `ECS_DESIRED_COUNT` and
  `LOG_RETENTION_DAYS`: its `Settings` has the preset's, whatever was deployed.
* The SDK takes its region from the caller's `AWS_REGION` or "us-east-1", the runtime from either form
  and `.env` or "us-west-2": the two agree where the shell gives `AWS_REGION`.
* The SDK strips what it deploys: a token signed with a secret with blanks around it verifies at a gateway
  of the same environment and not at the deployed one. A gateway with a public key or a JWKS address
  verifies no token of `generate_jwt.py`, whatever the secret; nor does one whose public key is blanks, which
  the validator ignores and `auth.py:64` takes.
* A prebuilt image that is not published (the tag is the tree's version, the release workflow runs after
  the tag) makes a deployment roll back.
* A prefixed name in `.env` wins over the legacy name in the shell (`config.py:69-71`, `Shadowed`),
  although "`.env`" is documented to respect the environment (`config.py:64`).
* Importing `sentinel_api.config` leaves the preset in `os.environ`; a deployment of the other mode
  in the same process then takes the old preset as explicit (`DeploymentFollowsPrecedence`).
* `JWT_ISSUER` and `JWT_AUDIENCE` are settings of the gateway that the SDK never passes on.
* The image tag is the commit of a possibly dirty tree (`sdk_deployer.py:499-516`), while
  `sdk_deployer.py:570` speaks of an immutable URI: CloudFormation then sees no change and the
  gateway keeps running the older build (`retagged` in `GatewayRunsBuiltCode`).
* The archive's digest covers the members' modification times: an unchanged checkout made anew is
  uploaded under another key. Both kinds of stack share the default stack name, so that a foundation
  deployment of a full stack removes its gateway. A dry run previews the prebuilt image even where a
  build was asked for.
* An older invocation of the detector may put its record after a newer one, with the earlier end: what an
  alert announces may be cut short by the time of an invocation (`AlertedUsersAreBlocked`).
* Requests that a replica has not heard of are missing from a run of the detector (`BusyUsersAreFlagged`
  speaks of what every replica knew), and the smoke script may look for the block at a replica that has
  not heard of it.

## 6. Not modelled, and why

* The command lines (`infrastructure/*.py`, `deploy.sh`, `teardown.sh`) parse arguments and call the
  SDK. `smoke_aws.sh` is a list of requests.
* The packaged copies under `src/sentinel_api/assets/` are identical to the originals. Examples and
  `infrakit` are notes.
* Of the templates only the container's environment and the replacement of tasks; of the workflows only
  that a newer run cancels the one at work and that the release publishes the prebuilt image: the rest is
  declarative.
* Floating-point rounding of token levels; `Decimal` conversion in the DynamoDB limiter; the parsing
  of `.env` lines and numbers character by character; booleans, which the runtime refuses and the SDK
  replaces by a default; a blank region; the `region` argument of `resolve_config` and the `--secret`
  argument of `generate_jwt.py`, which win over everything.
* The timeouts of httpx and `urlopen` per operation, docker's lack of any, and the stalls between botocore's
  resends: section 3, Fairness, says what is assumed.
* More than one machine of operators: they share a working tree and a docker daemon here.
* Resending of commands by redis-py's retry policy: the client is built with defaults.
* Static keys, signatures and claims; header filtering; the stdout logger; `dry_run`: functions of
  their input.

## 7. Plan

Done, in this order: `TokenBucket`, `RedisRateLimiter`, `RedisLedger` and their proofs, `JwksAuth`,
`RequestLogger`, `AnomalyDetector`, `AutoBlock`, `RateLimiterContract` with `RedisRefinement` and
`MemoryRateLimiter`, `DynamoRateLimiter`; then `Gateway`, `ConfigResolution`, `StackDeployer`,
`DetectorRules` with `AnomalySmoke`, and the proofs of the in-memory refinement, the key cache, the
pipeline, the resolvers and the deployer; then the lemmas on sums, and with them the counters, the
admissions and the detector's windows; the Redis refinement; the DynamoDB limiter; the deployer's
last word and its undisturbed calls; the smoke test; and last what the services below the code add: stalled
connections, resent writes, replicas that lag, clocks of several processes, overlapping invocations,
texts that do not parse and images that are not published.

Left:

1. A theorem that ties `AnomalySmoke`'s detector to `AnomalyDetector` for one user: both are stated
   with the same windows (`DetectorRules`), and the guarantees that `AnomalySmoke` assumes are the
   theorems `BusyAreFlagged` and `FlaggedWereBusy`, but the correspondence is by reading.
2. What the Redis limiter promises where clocks disagree, as a contract with a skew: `AdmissionBound`
   says it for admissions only.
