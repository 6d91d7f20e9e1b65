---------------------------- MODULE RedisProofs ----------------------------
(***************************************************************************)
(* The production limiter, for any number of gateways, users and           *)
(* concurrent calls and any token-bucket parameters: its types and its     *)
(* blocks, for any clock skew; what its script promises of admissions, for *)
(* a bucket whose TTL outlasts its refill (ExpiryAssumption, which only    *)
(* the ledger's part uses); and that it implements the contract of a       *)
(* limiter when the gateways' clocks agree with Redis's.                   *)
(***************************************************************************)
EXTENDS RedisLedger, RedisRefinement, ArithmeticLemmas

-----------------------------------------------------------------------------
(* The bucket in Redis.                                                    *)

\* The script writes a bucket within its type, whatever the stamp.
LEMMA WrittenType ==
    ASSUME TypeOK, NEW u \in Users, NEW now \in Int
    PROVE  /\ LevelAt(u, now) \in 0..Capacity
           /\ Written(u, now) \in Buckets
  <1>1. bucket[u] \in Buckets
    BY DEF TypeOK
  <1>2. Capacity \in 0..Capacity
    BY BucketAssumption
  <1>3. LevelAt(u, now) \in 0..Capacity
    BY <1>1, <1>2, RefilledRange DEF LevelAt, Buckets
  <1>4. clock + BucketTTL \in Nat
    BY LimiterAssumption DEF TypeOK
  <1> QED
    BY <1>3, <1>4, SpendRange DEF Written, Buckets

-----------------------------------------------------------------------------
(* Type correctness.                                                       *)

\* A call that is under way is a full record.
LEMMA InFlightCall ==
    ASSUME TypeOK, NEW r \in Requests, InFlight(r)
    PROVE  call[r] \in Calls
  BY DEF TypeOK, InFlight, Idle, Calls

\* A missing bucket is one.
LEMMA NoBucketType == NoBucket \in Buckets
  BY BucketAssumption DEF NoBucket, Buckets

\* The initial state is well typed.
LEMMA InitType == Init => TypeOK
  <1> SUFFICES ASSUME Init PROVE TypeOK
    OBVIOUS
  <1>1. clock \in Nat /\ scriptLoaded \in BOOLEAN /\ sha \in [Gateways -> BOOLEAN]
    BY DEF Init
  <1>2. bucket \in [Users -> Buckets]
    BY NoBucketType DEF Init
  <1>3. blockedUntil \in [Users -> Nat \cup {Never}]
    BY DEF Init
  <1>4. call \in [Requests -> Calls \cup {Idle}]
    BY DEF Init
  <1> QED
    BY <1>1, <1>2, <1>3, <1>4 DEF TypeOK

\* A call whose connection stalls is still a call.
LEMMA StalledCall ==
    ASSUME NEW c \in Calls
    PROVE  [c EXCEPT !.pc = "stalled", !.stamp = 0] \in Calls
  <1>1. [c EXCEPT !.pc = "stalled"] \in Calls
    BY DEF Calls
  <1>2. \A d \in Calls : [d EXCEPT !.stamp = 0] \in Calls
    BY DEF Calls
  <1> QED
    BY <1>1, <1>2

\* Every step of the gateways, of Redis and of time keeps the types.
LEMMA TypeStep == TypeOK /\ [Next]_limiterVars => TypeOK'
  <1> SUFFICES ASSUME TypeOK, [Next]_limiterVars PROVE TypeOK'
    OBVIOUS
  <1> USE DEF TypeOK
  <1>1. ASSUME NEW r \in Requests, NEW g \in Gateways, NEW u \in Users, Call(r, g, u)
        PROVE  TypeOK'
    <2>1. LocalTime(g) \in Int
      BY LimiterAssumption DEF LocalTime
    <2> QED
      BY <1>1, <2>1 DEF Call, Calls, Verdicts
  <1>2. ASSUME NEW r \in Requests, LoadScript(r) PROVE TypeOK'
    <2>1. call[r] \in Calls
      BY <1>2, InFlightCall DEF LoadScript, InFlight
    <2> QED
      BY <1>2, <2>1 DEF LoadScript, Calls
  <1>3. ASSUME NEW r \in Requests, CacheSha(r) PROVE TypeOK'
    <2>1. call[r] \in Calls
      BY <1>3, InFlightCall DEF CacheSha, InFlight
    <2>2. LocalTime(call[r].gw) \in Int
      BY <2>1, LimiterAssumption DEF LocalTime, Calls
    <2> QED
      BY <1>3, <2>1, <2>2 DEF CacheSha, Calls
  <1>4. ASSUME NEW r \in Requests, EvalBlocked(r) PROVE TypeOK'
    <2>1. call[r] \in Calls
      BY <1>4, InFlightCall DEF EvalBlocked, InFlight
    <2> QED
      BY <1>4, <2>1 DEF EvalBlocked, Reply, Calls, Verdicts
  <1>5. ASSUME NEW r \in Requests, Evaluate(r) PROVE TypeOK'
    <2>1. call[r] \in Calls
      BY <1>5, InFlightCall DEF Evaluate, InFlight
    <2>2. Written(call[r].user, call[r].stamp) \in Buckets
      BY <2>1, WrittenType DEF Calls
    <2>3. WholeTokens(Written(call[r].user, call[r].stamp).tokens) \in Nat
      BY <2>2, WholeTokensNat DEF Buckets
    <2> QED
      BY <1>5, <2>1, <2>2, <2>3 DEF Evaluate, Reply, Calls, Verdicts
  <1>6. ASSUME NEW r \in Requests, EvalNoScript(r) PROVE TypeOK'
    <2>1. call[r] \in Calls
      BY <1>6, InFlightCall DEF EvalNoScript, InFlight
    <2> QED
      BY <1>6, <2>1 DEF EvalNoScript, Reply, Calls, Verdicts
  <1>7. ASSUME NEW r \in Requests, Return(r) \/ ConnectionError(r) \/ Stall(r)
        PROVE  TypeOK'
    <2>1. CASE Return(r) \/ ConnectionError(r)
      BY <2>1 DEF Return, ConnectionError
    <2>2. CASE Stall(r)
      <3>1. call[r] \in Calls
        BY <2>2, InFlightCall DEF Stall, InFlight
      <3>2. [call[r] EXCEPT !.pc = "stalled", !.stamp = 0] \in Calls
        BY <3>1, StalledCall
      <3>3. /\ call' = [call EXCEPT ![r] = [call[r] EXCEPT !.pc = "stalled", !.stamp = 0]]
            /\ UNCHANGED <<clock, bucket, blockedUntil, scriptLoaded, sha>>
        BY <2>2 DEF Stall
      <3> QED
        BY <3>2, <3>3
    <2> QED
      BY <1>7, <2>1, <2>2
  <1>8. ASSUME NEW u \in Users, BlockUser(u) \/ UnblockUser(u) PROVE TypeOK'
    BY <1>8, LimiterAssumption DEF BlockUser, UnblockUser
  <1>9. CASE RedisRestart
    BY <1>9, NoBucketType DEF RedisRestart
  <1>10. ASSUME NEW g \in Gateways, GatewayRestart(g) PROVE TypeOK'
    BY <1>10 DEF GatewayRestart
  <1>11. CASE Tick
    BY <1>11 DEF Tick
  <1>12. CASE UNCHANGED limiterVars
    BY <1>12 DEF limiterVars
  <1> QED
    BY <1>1, <1>2, <1>3, <1>4, <1>5, <1>6, <1>7, <1>8, <1>9, <1>10, <1>11, <1>12
    DEF Next, OtherStep

\* Every reachable state is well typed: no interleaving of gateways, stale or
\* skewed stamps, restarts and expiries drives a bucket out of 0..Capacity.
THEOREM TypeCorrect == Spec => []TypeOK
  BY InitType, TypeStep, PTL DEF Spec

-----------------------------------------------------------------------------
(* A blocked user's bucket.                                                *)

\* Whatever step is taken, the bucket of a user whose block key exists before it
\* and is left alone by it does not change: the script returns before it reads
\* the bucket, and a restart that empties the buckets removes the block as well.
THEOREM BlockedBucketFrozen == Spec => BlockFreezesBucket
  <1> DEFINE Frozen ==
        \A u \in Users :
          Blocked(u) /\ blockedUntil'[u] = blockedUntil[u] => bucket'[u] = bucket[u]
  <1>1. TypeOK /\ [Next]_limiterVars => [Frozen]_limiterVars
    <2> SUFFICES ASSUME TypeOK, Next, NEW u \in Users, Blocked(u),
                        blockedUntil'[u] = blockedUntil[u]
                 PROVE  bucket'[u] = bucket[u]
      OBVIOUS
    <2>1. ASSUME NEW r \in Requests, Evaluate(r) PROVE bucket'[u] = bucket[u]
      BY <2>1 DEF Evaluate, TypeOK
    <2>2. CASE RedisRestart
      <3>1. blockedUntil'[u] = Never
        BY <2>2 DEF RedisRestart
      <3> QED
        BY <3>1 DEF Blocked, Never, TypeOK
    <2>3. CASE OtherStep
      BY <2>3 DEF OtherStep, Call, LoadScript, CacheSha, EvalBlocked, EvalNoScript,
                  Return, Stall, ConnectionError, BlockUser, UnblockUser, GatewayRestart, Tick
    <2> QED
      BY <2>1, <2>2, <2>3 DEF Next
  <1> QED
    BY <1>1, TypeCorrect, PTL DEF Spec, BlockFreezesBucket

\* A missing bucket is a full one.
LEMMA FreshLevel ==
    ASSUME NEW u \in Users, NEW now \in Int, ~BucketLive(u)
    PROVE  LevelAt(u, now) = Capacity
  <1>1. Elapsed(now, now) = 0
    BY DEF Elapsed
  <1>2. Rate * 0 = 0
    BY BucketAssumption
  <1> QED
    BY <1>1, <1>2, BucketAssumption DEF LevelAt, Refilled

-----------------------------------------------------------------------------
(* Every step of the observed system is a step of the limiter.             *)

\* The ledger only watches: its steps are steps of the limiter.
LEMMA ObservedStep == LNext => [Next]_limiterVars
  BY DEF LNext, LEvaluate, CloseWindow, LRedisRestart, Next

\* The initial ledger is well typed.
LEMMA LTypeInit == LInit => LTypeOK
  BY InitType DEF LInit, LTypeOK, Closed, Entries

\* An execution leaves a well-typed entry.
LEMMA EntryType ==
    ASSUME LTypeOK, NEW u \in Users, NEW now \in Int
    PROVE  Entry(u, now) \in Entries
  <1>1. ledger[u] \in Entries /\ bucket[u] \in Buckets
    BY DEF LTypeOK, TypeOK
  <1>2. Mark(u) \in Int
    BY <1>1, LimiterAssumption DEF Mark, Buckets
  <1>3. Elapsed(now, Mark(u)) \in Nat
    BY <1>2, ElapsedNat
  <1> QED
    BY <1>1, <1>3 DEF Entry, Entries

\* Every step keeps the types.
LEMMA LTypeStep == LTypeOK /\ [LNext]_ledgerVars => LTypeOK'
  <1> SUFFICES ASSUME LTypeOK, [LNext]_ledgerVars PROVE LTypeOK'
    OBVIOUS
  <1>1. TypeOK'
    BY ObservedStep, TypeStep DEF LTypeOK, ledgerVars
  <1>2. ledger' \in [Users -> Entries]
    <2>1. ASSUME NEW r \in Requests, LEvaluate(r) PROVE ledger' \in [Users -> Entries]
      <3>1. call[r] \in Calls
        BY <2>1, InFlightCall DEF LEvaluate, Evaluate, InFlight, LTypeOK
      <3>2. Entry(call[r].user, call[r].stamp) \in Entries
        BY <3>1, EntryType DEF Calls
      <3> QED
        BY <2>1, <3>2 DEF LEvaluate, LTypeOK
    <2>2. ASSUME NEW u \in Users, CloseWindow(u) PROVE ledger' \in [Users -> Entries]
      BY <2>2 DEF CloseWindow, LTypeOK, Closed, Entries
    <2>3. CASE LRedisRestart
      BY <2>3 DEF LRedisRestart, Closed, Entries
    <2>4. CASE UNCHANGED ledger
      BY <2>4 DEF LTypeOK
    <2> QED
      BY <2>1, <2>2, <2>3, <2>4 DEF LNext, ledgerVars
  <1> QED
    BY <1>1, <1>2 DEF LTypeOK

\* The limiter and its ledger are well typed in every reachable state.
THEOREM LedgerTypeCorrect == LSpec => []LTypeOK
  BY LTypeInit, LTypeStep, PTL DEF LSpec

-----------------------------------------------------------------------------
(* The inductive invariant: a closed window has counted nothing, the bound *)
(* on admissions, and the credit a live bucket owes its user.              *)

ClosedIsEmpty == \A u \in Users : ~Open(u) => ledger[u].granted = 0

CreditKept ==
    \A u \in Users :
        BucketLive(u) =>
            \/ bucket[u].tokens = Capacity
            \/ bucket[u].tokens >= Rate * (bucket[u].lastRefill - ledger[u].lastGrant)

LedgerInv == ClosedIsEmpty /\ AdmissionBound /\ CreditKept

\* The inductive invariant holds while nothing was executed.
LEMMA LedgerInvInit == LInit => LedgerInv
  BY DEF LInit, Init, LedgerInv, ClosedIsEmpty, AdmissionBound, CreditKept,
         Open, Closed, BucketLive, NoBucket, Never

\* What an admission adds to the count it takes from the bucket.
LEMMA GrantTakesToken ==
    ASSUME LTypeOK, NEW u \in Users, NEW now \in Int
    PROVE  Entry(u, now).granted * Unit + Written(u, now).tokens
             = ledger[u].granted * Unit + LevelAt(u, now)
  <1>1. ledger[u].granted \in Nat /\ LevelAt(u, now) \in 0..Capacity
    BY WrittenType DEF LTypeOK, Entries
  <1>2. Unit \in Nat /\ Capacity \in Nat
    BY BucketAssumption
  <1>3. CASE HasToken(LevelAt(u, now))
    <2>1. /\ Entry(u, now).granted = ledger[u].granted + 1
          /\ Written(u, now).tokens = LevelAt(u, now) - Unit
      BY <1>3 DEF Entry, Written, Spend
    <2>2. (ledger[u].granted + 1) * Unit = ledger[u].granted * Unit + Unit
      BY <1>1, <1>2
    <2>3. ledger[u].granted * Unit \in Nat
      BY <1>1, UnitProduct
    <2> QED
      BY <1>1, <1>2, <2>1, <2>2, <2>3
  <1>4. CASE ~HasToken(LevelAt(u, now))
    BY <1>4 DEF Entry, Written, Spend
  <1> QED
    BY <1>3, <1>4

\* An evaluation keeps the bound: in order or stale, on a live or an expired key.
LEMMA AdmissionStep ==
    ASSUME LTypeOK, ClosedIsEmpty, AdmissionBound, NEW u \in Users, NEW now \in Int
    PROVE  Entry(u, now).granted * Unit + Written(u, now).tokens
             <= Capacity + Rate * (now - Entry(u, now).start + Entry(u, now).regress)
  <1> DEFINE e == ledger[u]
             b == bucket[u]
             L == LevelAt(u, now)
             span == b.lastRefill - e.start + e.regress
  <1>1. /\ e \in Entries
        /\ b \in Buckets
        /\ L \in 0..Capacity
    BY WrittenType DEF LTypeOK, TypeOK
  <1>2. /\ Capacity \in Nat
        /\ Rate \in Nat
        /\ BucketTTL \in Nat
    BY BucketAssumption, LimiterAssumption
  <1>3. /\ e.granted \in Nat /\ e.start \in Int /\ e.regress \in Nat
        /\ b.lastRefill \in Int /\ b.tokens \in Nat
    BY <1>1, <1>2 DEF Entries, Buckets
  <1>3a. e.granted * Unit \in Nat
    BY <1>3, UnitProduct
  <1>4. SUFFICES e.granted * Unit + L
                   <= Capacity + Rate * (now - Entry(u, now).start + Entry(u, now).regress)
    BY GrantTakesToken
  <1>5. CASE ~Open(u)
    <2>1. now - Entry(u, now).start + Entry(u, now).regress = 0
      BY <1>5 DEF Entry
    <2>2. e.granted = 0
      BY <1>5 DEF ClosedIsEmpty
    <2> HIDE DEF L
    <2> QED
      BY <1>1, <1>2, <2>1, <2>2, BucketAssumption
  <1>6. CASE Open(u) /\ BucketLive(u)
    <2>1. now - Entry(u, now).start + Entry(u, now).regress
            = span + Elapsed(b.lastRefill, now)
      <3>1. now + Elapsed(now, b.lastRefill)
              = b.lastRefill + Elapsed(b.lastRefill, now)
        BY <1>1, ElapsedBalance DEF Buckets
      <3>2. /\ Entry(u, now).start = e.start
            /\ Entry(u, now).regress = e.regress + Elapsed(now, b.lastRefill)
        BY <1>6 DEF Entry, Mark
      <3>3. /\ Elapsed(now, b.lastRefill) \in Nat
            /\ Elapsed(b.lastRefill, now) \in Nat
        BY <1>1, ElapsedNat DEF Buckets
      <3> QED
        BY <1>3, <3>1, <3>2, <3>3
    <2>2. L <= b.tokens + Rate * Elapsed(b.lastRefill, now)
      BY <1>1, <1>6, RefilledBound DEF LevelAt, Buckets
    <2>3. e.granted * Unit + b.tokens <= Capacity + Rate * span
      BY <1>6 DEF AdmissionBound
    <2>4. /\ span \in Int
          /\ Elapsed(b.lastRefill, now) \in Nat
      <3>1. span \in Int
        BY <1>3
      <3>2. Elapsed(b.lastRefill, now) \in Nat
        BY <1>3, ElapsedNat
      <3> QED
        BY <3>1, <3>2
    <2>5. /\ Rate * span \in Int
          /\ Rate * Elapsed(b.lastRefill, now) \in Nat
          /\ Rate * (span + Elapsed(b.lastRefill, now))
               = Rate * span + Rate * Elapsed(b.lastRefill, now)
      <3> HIDE DEF span
      <3> QED
        BY <1>2, <2>4, ProductNat, RateProduct, Distribute
    <2>6. b.tokens \in Int
      BY <1>1 DEF Buckets
    <2> HIDE DEF L, span
    <2> QED
      BY <1>1, <1>2, <1>3a, <2>1, <2>2, <2>3, <2>4, <2>5, <2>6
  <1>7. CASE Open(u) /\ ~BucketLive(u)
    <2> DEFINE over == b.lastRefill + BucketTTL
    <2>1. over \in Int
      BY <1>1, <1>2 DEF Buckets
    <2>2. now - Entry(u, now).start + Entry(u, now).regress
            = span + (BucketTTL + Elapsed(over, now))
      <3>1. now + Elapsed(now, over) = over + Elapsed(over, now)
        BY <2>1, ElapsedBalance
      <3>2. /\ Entry(u, now).start = e.start
            /\ Entry(u, now).regress = e.regress + Elapsed(now, over)
        BY <1>7 DEF Entry, Mark
      <3>3. /\ Elapsed(now, over) \in Nat
            /\ Elapsed(over, now) \in Nat
        BY <2>1, ElapsedNat
      <3> QED
        BY <1>2, <1>3, <3>1, <3>2, <3>3
    <2>3. L = Capacity
      BY <1>7, FreshLevel
    <2>4. e.granted * Unit + b.tokens <= Capacity + Rate * span
      BY <1>7 DEF AdmissionBound
    <2>5. /\ span \in Int
          /\ Elapsed(over, now) \in Nat
          /\ b.tokens \in Nat
      <3>1. span \in Int
        BY <1>3
      <3>2. Elapsed(over, now) \in Nat
        BY <2>1, ElapsedNat
      <3> QED
        BY <1>3, <3>1, <3>2
    <2>6. /\ Rate * span \in Int
          /\ Rate * BucketTTL \in Nat
          /\ Rate * Elapsed(over, now) \in Nat
          /\ Rate * (span + (BucketTTL + Elapsed(over, now)))
               = Rate * span + (Rate * BucketTTL + Rate * Elapsed(over, now))
      <3> HIDE DEF span, over
      <3>1. /\ Rate * (span + (BucketTTL + Elapsed(over, now)))
                 = Rate * span + Rate * (BucketTTL + Elapsed(over, now))
            /\ Rate * (BucketTTL + Elapsed(over, now))
                 = Rate * BucketTTL + Rate * Elapsed(over, now)
        BY <1>2, <2>5, Distribute
      <3> QED
        BY <1>2, <2>5, <3>1, ProductNat, RateProduct
    <2> HIDE DEF L, span, over
    <2> QED
      BY <1>2, <1>3a, <2>2, <2>3, <2>4, <2>5, <2>6, ExpiryAssumption
  <1> QED
    BY <1>5, <1>6, <1>7

\* An evaluation keeps the user's credit: what a denial writes back has grown
\* with the time since the latest admission.
LEMMA CreditStep ==
    ASSUME LTypeOK, CreditKept, NEW u \in Users, NEW now \in Int
    PROVE  /\ \/ Written(u, now).tokens = Capacity
              \/ Written(u, now).tokens >= Rate * (now - Entry(u, now).lastGrant)
           /\ ~HasToken(LevelAt(u, now)) =>
                \/ Capacity < Unit
                \/ Rate * (now - ledger[u].lastGrant) < Unit
  <1> DEFINE b == bucket[u]
             g == ledger[u].lastGrant
             L == LevelAt(u, now)
  <1>1. /\ b \in Buckets
        /\ g \in Int
        /\ L \in 0..Capacity
    BY WrittenType DEF LTypeOK, TypeOK, Entries
  <1>2. /\ Capacity \in Nat
        /\ Rate \in Nat
        /\ Unit \in Nat
    BY BucketAssumption
  <1>3. L = Capacity \/ L >= Rate * (now - g)
    <2>1. CASE ~BucketLive(u)
      BY <2>1, FreshLevel
    <2>2. CASE BucketLive(u)
      <3> DEFINE E == Elapsed(b.lastRefill, now)
      <3>1. /\ b.tokens \in 0..Capacity
            /\ b.lastRefill \in Int
            /\ E \in Nat
        BY <1>1, ElapsedNat DEF Buckets
      <3>2. L >= b.tokens /\ (L = Capacity \/ L = b.tokens + Rate * E)
        BY <2>2, <3>1, RefilledRange, RefilledBound DEF LevelAt
      <3>3. b.tokens = Capacity \/ b.tokens >= Rate * (b.lastRefill - g)
        BY <2>2 DEF CreditKept
      <3>4. Rate * ((b.lastRefill - g) + E) = Rate * (b.lastRefill - g) + Rate * E
        <4>1. b.lastRefill - g \in Int /\ E \in Int
          BY <1>1, <3>1
        <4> QED
          BY <1>2, <4>1, Distribute
      <3>5. Rate * (now - g) <= Rate * ((b.lastRefill - g) + E)
        <4>1. now <= b.lastRefill + E
          BY <3>1 DEF Elapsed
        <4>2. PICK d \in Nat : (b.lastRefill - g) + E = (now - g) + d
          <5> HIDE DEF E
          <5>1. b.lastRefill + E - now \in Nat
            BY <3>1, <4>1
          <5> QED
            BY <1>1, <3>1, <5>1
        <4>3. Rate * ((now - g) + d) = Rate * (now - g) + Rate * d
          BY <1>1, <1>2, Distribute
        <4>4. Rate * d \in Nat /\ Rate * (now - g) \in Int
          BY <1>1, <1>2, ProductNat, RateProduct
        <4> QED
          BY <4>2, <4>3, <4>4
      <3>6. /\ Rate * (now - g) \in Int
            /\ Rate * (b.lastRefill - g) \in Int
            /\ Rate * E \in Nat
        BY <1>1, <1>2, <3>1, ProductNat, RateProduct
      <3> HIDE DEF L, E
      <3> QED
        BY <1>1, <1>2, <3>1, <3>2, <3>3, <3>4, <3>5, <3>6
    <2> QED
      BY <2>1, <2>2
  <1>4. CASE HasToken(L)
    <2>1. Entry(u, now).lastGrant = now
      BY <1>4 DEF Entry
    <2>2. Rate * (now - now) = 0
      BY <1>2
    <2>3. Written(u, now).tokens \in Nat
      BY <1>2, WrittenType DEF LTypeOK, Buckets
    <2> QED
      BY <1>4, <2>1, <2>2, <2>3
  <1>5. CASE ~HasToken(L)
    <2>1. Entry(u, now).lastGrant = g /\ Written(u, now).tokens = L
      BY <1>5 DEF Entry, Written, Spend
    <2>2. L < Unit
      BY <1>1, <1>2, <1>5 DEF HasToken
    <2>3. Rate * (now - g) \in Int
      BY <1>1, RateProduct
    <2> HIDE DEF L
    <2> QED
      BY <1>1, <1>2, <1>3, <2>1, <2>2, <2>3
  <1> QED
    BY <1>4, <1>5

\* Every step keeps the inductive invariant.
LEMMA LedgerInvStep == LTypeOK /\ LedgerInv /\ [LNext]_ledgerVars => LedgerInv'
  <1> SUFFICES ASSUME LTypeOK, LedgerInv, [LNext]_ledgerVars PROVE LedgerInv'
    OBVIOUS
  <1>1. ASSUME NEW r \in Requests, LEvaluate(r) PROVE LedgerInv'
    <2> DEFINE u == call[r].user
               now == call[r].stamp
    <2>1. u \in Users /\ now \in Int
      BY <1>1, InFlightCall DEF LEvaluate, Evaluate, InFlight, LTypeOK, Calls
    <2>2. /\ bucket' = [bucket EXCEPT ![u] = Written(u, now)]
          /\ ledger' = [ledger EXCEPT ![u] = Entry(u, now)]
          /\ clock' = clock
      BY <1>1 DEF LEvaluate, Evaluate
    <2>3. /\ bucket'[u] = Written(u, now)
          /\ ledger'[u] = Entry(u, now)
          /\ \A v \in Users \ {u} : bucket'[v] = bucket[v] /\ ledger'[v] = ledger[v]
      BY <2>1, <2>2 DEF LTypeOK, TypeOK
    <2>4. Written(u, now).lastRefill = now
      BY DEF Written
    <2>5. ClosedIsEmpty'
      <3>1. Entry(u, now).evals > 0
        BY <2>1 DEF Entry, LTypeOK, Entries
      <3> HIDE DEF u, now
      <3> QED
        BY <2>3, <3>1 DEF ClosedIsEmpty, Open, LedgerInv
    <2>6. AdmissionBound'
      <3>1. Entry(u, now).granted * Unit + Written(u, now).tokens
              <= Capacity + Rate * (now - Entry(u, now).start + Entry(u, now).regress)
        BY <2>1, AdmissionStep DEF LedgerInv
      <3> HIDE DEF u, now
      <3> QED
        BY <2>3, <2>4, <3>1 DEF AdmissionBound, Open, LedgerInv
    <2>7. CreditKept'
      <3>1. \/ Written(u, now).tokens = Capacity
            \/ Written(u, now).tokens >= Rate * (now - Entry(u, now).lastGrant)
        BY <2>1, CreditStep DEF LedgerInv
      <3> HIDE DEF u, now
      <3> QED
        BY <2>2, <2>3, <2>4, <3>1 DEF CreditKept, BucketLive, LedgerInv
    <2> QED
      BY <2>5, <2>6, <2>7 DEF LedgerInv
  <1>2. ASSUME NEW u \in Users, CloseWindow(u) PROVE LedgerInv'
    <2>1. /\ ledger'[u] = [Closed EXCEPT !.lastGrant = ledger[u].lastGrant]
          /\ \A v \in Users \ {u} : ledger'[v] = ledger[v]
          /\ bucket' = bucket
          /\ clock' = clock
      BY <1>2 DEF CloseWindow, limiterVars, LTypeOK
    <2>2. /\ ledger'[u].evals = 0
          /\ ledger'[u].granted = 0
          /\ ledger'[u].lastGrant = ledger[u].lastGrant
      BY <2>1 DEF Closed
    <2>3. ClosedIsEmpty'
      BY <2>1, <2>2 DEF LedgerInv, ClosedIsEmpty, Open
    <2>4. AdmissionBound'
      <3>1. ~ Open(u)'
        BY <2>2 DEF Open
      <3>2. \A v \in Users \ {u} : bucket'[v] = bucket[v] /\ ledger'[v] = ledger[v]
        BY <2>1
      <3> QED
        BY <3>1, <3>2 DEF LedgerInv, AdmissionBound, Open
    <2>5. CreditKept'
      BY <2>1, <2>2 DEF LedgerInv, CreditKept, BucketLive
    <2> QED
      BY <2>3, <2>4, <2>5 DEF LedgerInv
  <1>3. CASE LRedisRestart
    BY <1>3 DEF LRedisRestart, RedisRestart, LTypeOK, TypeOK, LedgerInv, ClosedIsEmpty,
                AdmissionBound, CreditKept, Open, Closed, BucketLive, NoBucket, Never
  <1>4. CASE OtherStep /\ UNCHANGED ledger
    <2>1. bucket' = bucket /\ (clock' = clock \/ clock' = clock + 1)
      BY <1>4 DEF OtherStep, Call, LoadScript, CacheSha, EvalBlocked, EvalNoScript,
                  Return, Stall, ConnectionError, BlockUser, UnblockUser, GatewayRestart, Tick
    <2>2. \A u \in Users : BucketLive(u)' => BucketLive(u)
      BY <2>1 DEF BucketLive, LTypeOK, TypeOK, Buckets, Never
    <2>3. ClosedIsEmpty' /\ AdmissionBound'
      BY <1>4, <2>1 DEF LedgerInv, ClosedIsEmpty, AdmissionBound, Open
    <2>4. CreditKept'
      BY <1>4, <2>1, <2>2 DEF LedgerInv, CreditKept
    <2> QED
      BY <2>3, <2>4 DEF LedgerInv
  <1>5. CASE UNCHANGED ledgerVars
    BY <1>5 DEF ledgerVars, limiterVars, LedgerInv, ClosedIsEmpty, AdmissionBound,
                CreditKept, Open, BucketLive
  <1> QED
    BY <1>1, <1>2, <1>3, <1>4, <1>5 DEF LNext

\* The inductive invariant, with the types it needs, holds in every reachable state:
\* the argument behind the two theorems below.
THEOREM LedgerInvariant == LSpec => [](LTypeOK /\ LedgerInv)
  BY LTypeInit, LTypeStep, LedgerInvInit, LedgerInvStep, PTL DEF LSpec

\* No interleaving of gateways admits more than the capacity plus the refill of
\* the stamps' span, where every step back of the stamps counts once more.
THEOREM AdmissionsBounded == LSpec => []AdmissionBound
  BY LedgerInvariant, PTL DEF LedgerInv

\* No interleaving denies a user whose latest admission is a whole token's refill
\* old: retries and denials never postpone the refill.
THEOREM NoEarlyDenial == LSpec => DeniedOnlyTooEarly
  <1> DEFINE Fair ==
        \A r \in Requests :
          /\ call[r].pc = "eval"
          /\ call'[r].pc = "reply"
          /\ call'[r].verdict = "denied"
          => \/ Capacity < Unit
             \/ Rate * (call[r].stamp - ledger[call[r].user].lastGrant) < Unit
  <1>1. LTypeOK /\ LedgerInv /\ [LNext]_ledgerVars => [Fair]_ledgerVars
    <2> SUFFICES ASSUME LTypeOK, LedgerInv, LNext, NEW r \in Requests,
                        call[r].pc = "eval", call'[r].pc = "reply",
                        call'[r].verdict = "denied"
                 PROVE  \/ Capacity < Unit
                        \/ Rate * (call[r].stamp - ledger[call[r].user].lastGrant) < Unit
      OBVIOUS
    <2>1. call[r] \in Calls
      BY InFlightCall DEF InFlight, LTypeOK
    <2>2. ~ HasToken(LevelAt(call[r].user, call[r].stamp))
      <3>1. ASSUME NEW q \in Requests, Evaluate(q) PROVE q = r /\ ~ HasToken(LevelAt(call[r].user, call[r].stamp))
        BY <3>1 DEF Evaluate, Reply, LTypeOK, TypeOK
      <3>2. CASE RedisRestart
        BY <3>2 DEF RedisRestart
      <3>3. CASE OtherStep
        <4>1. ASSUME NEW q \in Requests,
                     \/ \E g \in Gateways, v \in Users : Call(q, g, v)
                     \/ LoadScript(q) \/ CacheSha(q) \/ EvalBlocked(q)
                     \/ EvalNoScript(q) \/ Return(q) \/ ConnectionError(q) \/ Stall(q)
              PROVE  FALSE
          <5>1. q = r
            BY <4>1 DEF Call, LoadScript, CacheSha, EvalBlocked, EvalNoScript, Return,
                        ConnectionError, Stall, InFlight, Reply, LTypeOK, TypeOK
          <5>2. call[q].pc = "eval" /\ call'[q].pc = "reply" /\ call'[q].verdict = "denied"
            BY <5>1
          <5>3. CASE EvalBlocked(q) \/ EvalNoScript(q)
            BY <2>1, <5>1, <5>2, <5>3
            DEF EvalBlocked, EvalNoScript, Reply, LTypeOK, TypeOK, Calls
          <5>4. CASE Return(q) \/ ConnectionError(q) \/ Stall(q)
            BY <2>1, <5>1, <5>2, <5>4
            DEF Return, ConnectionError, Stall, Idle, LTypeOK, TypeOK, Calls
          <5>5. CASE \E g \in Gateways, v \in Users : Call(q, g, v)
            BY <5>2, <5>5 DEF Call, InFlight
          <5>6. CASE LoadScript(q) \/ CacheSha(q)
            BY <5>2, <5>6 DEF LoadScript, CacheSha
          <5> QED
            BY <4>1, <5>3, <5>4, <5>5, <5>6
        <4>2. CASE \E g \in Gateways : GatewayRestart(g)
          BY <4>2 DEF GatewayRestart, Idle
        <4>3. CASE Tick \/ \E v \in Users : BlockUser(v) \/ UnblockUser(v)
          BY <4>3 DEF Tick, BlockUser, UnblockUser
        <4> QED
          BY <3>3, <4>1, <4>2, <4>3 DEF OtherStep
      <3>4. CASE UNCHANGED limiterVars
        BY <3>4 DEF limiterVars
      <3> QED
        BY <3>1, <3>2, <3>3, <3>4, ObservedStep DEF Next
    <2> QED
      BY <2>1, <2>2, CreditStep DEF Calls, LedgerInv
  <1> QED
    BY <1>1, LedgerInvariant, PTL DEF LSpec, DeniedOnlyTooEarly

-----------------------------------------------------------------------------
(* The refinement: every step of the limiter is a step of the contract, or  *)
(* invisible to the callers.                                                *)

\* The gateways' clocks agree with Redis's.
ClocksAgree == \A g \in Gateways : Skew[g] = 0

\* A call is stamped between its start and its execution.
StampsInCalls ==
    \A r \in Requests :
        InFlight(r) =>
            /\ since[r] \in 0..clock
            /\ call[r].pc = "eval" => call[r].stamp \in since[r]..clock

\* Only a call that Redis has answered has a verdict.
Undecided == {"load", "loaded", "eval"}
VerdictsComeLast ==
    \A r \in Requests : call[r].pc \in Undecided => call[r].verdict = "none"

\* A key outlives the TTL counted from the stamp it was written with.
KeysKept ==
    \A u \in Users : BucketLive(u) => bucket[u].lastRefill + BucketTTL <= bucket[u].expireAt

RefinementInv ==
    /\ TypeOK
    /\ since \in [Requests -> Nat]
    /\ StampsInCalls
    /\ VerdictsComeLast
    /\ KeysKept

\* At first no call is under way and no key is set.
LEMMA RefinementInvInit == RInit => RefinementInv
  <1> SUFFICES ASSUME RInit PROVE RefinementInv
    OBVIOUS
  <1>1. TypeOK
    BY InitType DEF RInit
  <1>2. since \in [Requests -> Nat]
    BY DEF RInit
  <1>3. StampsInCalls
    BY DEF RInit, Init, StampsInCalls, InFlight, Idle
  <1>5. VerdictsComeLast
    BY DEF RInit, Init, VerdictsComeLast, Undecided, Idle
  <1>4. KeysKept
    BY DEF RInit, Init, KeysKept, BucketLive, NoBucket, Never
  <1> QED
    BY <1>1, <1>2, <1>3, <1>4, <1>5 DEF RefinementInv

\* What a step does to the calls: it starts one, moves one on, or ends some.
CallStep(r) ==
    \/ call'[r] = call[r]
    \/ /\ InFlight(r)'
       /\ call'[r].pc = "eval" => call'[r].stamp = clock
       /\ call'[r].pc \in Undecided => call'[r].verdict = "none"
    \/ ~InFlight(r)'

\* Every step moves every call as CallStep says.
LEMMA CallsMove ==
    ASSUME TypeOK, VerdictsComeLast, ClocksAgree, Next, NEW r \in Requests
    PROVE  CallStep(r)
  <1> USE DEF TypeOK, VerdictsComeLast, Undecided
  <1>1. ASSUME NEW q \in Requests, NEW g \in Gateways, NEW u \in Users, Call(q, g, u)
        PROVE  CallStep(r)
    BY <1>1 DEF Call, CallStep, InFlight, LocalTime, ClocksAgree, Idle
  <1>2. ASSUME NEW q \in Requests,
               LoadScript(q) \/ CacheSha(q) \/ EvalBlocked(q) \/ Evaluate(q) \/ EvalNoScript(q)
        PROVE  CallStep(r)
    <2>1. call[q] \in Calls
      BY <1>2, InFlightCall DEF LoadScript, CacheSha, EvalBlocked, Evaluate, EvalNoScript, InFlight
    <2>2. CASE LoadScript(q)
      BY <2>1, <2>2 DEF LoadScript, CallStep, InFlight, Calls
    <2>3. CASE CacheSha(q)
      BY <2>1, <2>3 DEF CacheSha, CallStep, InFlight, Calls, LocalTime, ClocksAgree
    <2>4. CASE EvalBlocked(q)
      BY <2>1, <2>4 DEF EvalBlocked, Reply, CallStep, InFlight, Calls
    <2>5. CASE Evaluate(q)
      BY <2>1, <2>5 DEF Evaluate, Reply, CallStep, InFlight, Calls
    <2>6. CASE EvalNoScript(q)
      BY <2>1, <2>6 DEF EvalNoScript, Reply, CallStep, InFlight, Calls
    <2> QED
      BY <1>2, <2>2, <2>3, <2>4, <2>5, <2>6
  <1>3. ASSUME NEW q \in Requests, Return(q) \/ ConnectionError(q) \/ Stall(q)
        PROVE  CallStep(r)
    <2>1. CASE Return(q) \/ ConnectionError(q)
      BY <2>1 DEF Return, ConnectionError, CallStep, InFlight, Idle
    <2>2. CASE Stall(q)
      <3>1. call[q] \in Calls
        BY <2>2, InFlightCall DEF Stall, InFlight
      <3> QED
        BY <2>2, <3>1 DEF Stall, CallStep, InFlight, Calls
    <2> QED
      BY <1>3, <2>1, <2>2
  <1>4. ASSUME NEW g \in Gateways, GatewayRestart(g)
        PROVE  CallStep(r)
    BY <1>4 DEF GatewayRestart, CallStep, InFlight, Idle
  <1>5. ASSUME \/ RedisRestart \/ Tick
               \/ \E u \in Users : BlockUser(u) \/ UnblockUser(u)
        PROVE  CallStep(r)
    BY <1>5 DEF RedisRestart, Tick, BlockUser, UnblockUser, CallStep
  <1> QED
    BY <1>1, <1>2, <1>3, <1>4, <1>5 DEF Next, OtherStep

\* A step changes the history of a call only when it starts it.
LEMMA SinceStep ==
    ASSUME RefinementInv, RNext, NEW r \in Requests
    PROVE  since'[r] = IF ~InFlight(r) /\ InFlight(r)' THEN clock ELSE since[r]
  BY DEF RefinementInv, RNext, InFlight

\* Time only moves forward, and only some steps write a key.
LEMMA ClockStep == ASSUME TypeOK, Next PROVE clock' \in {clock, clock + 1}
  <1>1. ASSUME NEW r \in Requests, Evaluate(r) PROVE clock' = clock
    BY <1>1 DEF Evaluate
  <1>2. CASE RedisRestart
    BY <1>2 DEF RedisRestart
  <1>3. CASE OtherStep
    BY <1>3 DEF OtherStep, Call, LoadScript, CacheSha, EvalBlocked, EvalNoScript, Return,
                Stall, ConnectionError, BlockUser, UnblockUser, GatewayRestart, Tick
  <1> QED
    BY <1>1, <1>2, <1>3 DEF Next

\* The steps that run no script leave the buckets alone.
LEMMA OtherKeepsBuckets == OtherStep => bucket' = bucket
  BY DEF OtherStep, Call, LoadScript, CacheSha, EvalBlocked, EvalNoScript, Return,
         Stall, ConnectionError, BlockUser, UnblockUser, GatewayRestart, Tick

\* A key that is live after a step was live before, or is written by the step.
LEMMA KeysMove ==
    ASSUME TypeOK, Next, NEW u \in Users, BucketLive(u)'
    PROVE  \/ BucketLive(u) /\ bucket'[u] = bucket[u]
           \/ \E r \in Requests : /\ Evaluate(r) /\ call[r].user = u
                                  /\ bucket'[u] = Written(u, call[r].stamp)
  <1> USE DEF TypeOK
  <1>1. ASSUME NEW r \in Requests, Evaluate(r)
        PROVE  \/ BucketLive(u) /\ bucket'[u] = bucket[u]
               \/ call[r].user = u /\ bucket'[u] = Written(u, call[r].stamp)
    <2>1. call[r].user \in Users
      BY <1>1, InFlightCall DEF Evaluate, InFlight, Calls
    <2>2. /\ bucket' = [bucket EXCEPT ![call[r].user] = Written(call[r].user, call[r].stamp)]
          /\ clock' = clock
      BY <1>1 DEF Evaluate
    <2> QED
      BY <2>1, <2>2 DEF BucketLive
  <1>2. CASE RedisRestart
    <2>1. bucket'[u].expireAt = -1 /\ clock' \in Nat
      BY <1>2 DEF RedisRestart, NoBucket, Never
    <2> QED
      BY <2>1 DEF BucketLive
  <1>3. CASE OtherStep
    <2>1. bucket' = bucket /\ clock' \in {clock, clock + 1}
      BY <1>3, ClockStep, OtherKeepsBuckets
    <2>2. bucket[u].expireAt \in Nat \cup {Never}
      BY DEF Buckets
    <2> QED
      BY <2>1, <2>2 DEF BucketLive, Never
  <1> QED
    BY <1>1, <1>2, <1>3 DEF Next

\* Every step keeps the stamps between start and execution, and the keys' lives.
LEMMA RefinementInvStep ==
    ClocksAgree /\ RefinementInv /\ [RNext]_refinementVars => RefinementInv'
  <1> SUFFICES ASSUME ClocksAgree, RefinementInv, [RNext]_refinementVars PROVE RefinementInv'
    OBVIOUS
  <1>1. CASE UNCHANGED refinementVars
    BY <1>1 DEF refinementVars, limiterVars, RefinementInv, TypeOK, StampsInCalls, KeysKept,
                VerdictsComeLast, InFlight, BucketLive
  <1>2. CASE RNext
    <2>1. Next
      BY <1>2 DEF RNext
    <2>2. TypeOK'
      BY <2>1, TypeStep DEF RefinementInv
    <2>3. since' \in [Requests -> Nat]
      BY <1>2 DEF RNext, RefinementInv, TypeOK
    <2>4. clock \in Nat /\ clock' \in Nat /\ clock' >= clock
      BY <2>1, ClockStep DEF RefinementInv, TypeOK
    <2>5. ASSUME NEW r \in Requests, InFlight(r)'
          PROVE  /\ since'[r] \in 0..clock'
                 /\ call'[r].pc = "eval" => call'[r].stamp \in since'[r]..clock'
      <3>1. CallStep(r) /\ since'[r] = IF ~InFlight(r) /\ InFlight(r)' THEN clock ELSE since[r]
        BY <1>2, <2>1, CallsMove, SinceStep DEF RefinementInv
      <3>2. InFlight(r) => /\ since[r] \in 0..clock
                           /\ call[r].pc = "eval" => call[r].stamp \in since[r]..clock
        BY DEF RefinementInv, StampsInCalls
      <3>3. since'[r] \in 0..clock
        BY <2>4, <2>5, <3>1, <3>2
      <3>4. ASSUME call'[r].pc = "eval" PROVE call'[r].stamp \in since'[r]..clock
        <4>1. CASE call'[r] = call[r]
          BY <2>4, <2>5, <3>1, <3>2, <3>4, <4>1 DEF InFlight
        <4>2. CASE call'[r].stamp = clock
          BY <2>4, <3>3, <4>2
        <4> QED
          BY <2>5, <3>1, <3>4, <4>1, <4>2 DEF CallStep
      <3> QED
        BY <2>4, <3>3, <3>4
    <2>7. VerdictsComeLast'
      <3> SUFFICES ASSUME NEW r \in Requests, call'[r].pc \in Undecided
                   PROVE  call'[r].verdict = "none"
        BY DEF VerdictsComeLast
      <3>1. CallStep(r) /\ (call[r].pc \in Undecided => call[r].verdict = "none")
        BY <2>1, CallsMove DEF RefinementInv, VerdictsComeLast
      <3> QED
        BY <3>1 DEF CallStep, InFlight, Undecided
    <2>6. ASSUME NEW u \in Users, BucketLive(u)'
          PROVE  bucket'[u].lastRefill + BucketTTL <= bucket'[u].expireAt
      <3>1. CASE BucketLive(u) /\ bucket'[u] = bucket[u]
        BY <3>1 DEF RefinementInv, KeysKept
      <3>2. CASE \E r \in Requests : /\ Evaluate(r) /\ call[r].user = u
                                     /\ bucket'[u] = Written(u, call[r].stamp)
        <4>1. PICK r \in Requests : Evaluate(r) /\ bucket'[u] = Written(u, call[r].stamp)
          BY <3>2
        <4>2. call[r].stamp \in since[r]..clock /\ since[r] \in Nat
          BY <4>1 DEF RefinementInv, StampsInCalls, Evaluate, InFlight
        <4> QED
          BY <2>4, <4>1, <4>2, LimiterAssumption DEF Written
      <3> QED
        BY <2>1, <2>6, <3>1, <3>2, KeysMove DEF RefinementInv
    <2> QED
      BY <2>2, <2>3, <2>5, <2>6, <2>7 DEF RefinementInv, StampsInCalls, KeysKept
  <1> QED
    BY <1>1, <1>2

-----------------------------------------------------------------------------
(* The mapping, step by step.                                              *)

\* What the contract sees of a call.
CallOf(c, entered) ==
    IF c.pc = "idle" THEN [pc |-> "idle"]
    ELSE IF c.pc \in {"reply", "stalled"} /\ c.verdict \notin {"none", "noscript"}
    THEN [pc |-> "answered", user |-> c.user, verdict |-> c.verdict, left |-> c.left]
    ELSE [pc |-> "pending", user |-> c.user, since |-> entered]

\* The abstract calls are read off the detailed ones, before and after a step.
LEMMA AbstractCallIs ==
    /\ AbstractCall = [r \in Requests |-> CallOf(call[r], since[r])]
    /\ AbstractCall' = [r \in Requests |-> CallOf(call'[r], since'[r])]
  BY DEF AbstractCall, CallOf, InFlight

\* A call that a step leaves alone looks the same after it.
LEMMA CallOfKept ==
    ASSUME RefinementInv, RNext, NEW r \in Requests, call'[r] = call[r]
    PROVE  CallOf(call'[r], since'[r]) = CallOf(call[r], since[r])
  BY SinceStep DEF CallOf, InFlight

\* A step on one call changes what the contract sees of that one.
LEMMA OneCallMoves ==
    ASSUME RefinementInv, RNext, NEW r \in Requests, NEW new,
           \A q \in Requests : q # r => call'[q] = call[q],
           CallOf(call'[r], since'[r]) = new
    PROVE  AbstractCall' = [AbstractCall EXCEPT ![r] = new]
  <1>1. \A q \in Requests : q # r => CallOf(call'[q], since'[q]) = CallOf(call[q], since[q])
    BY CallOfKept
  <1> QED
    BY <1>1, AbstractCallIs

\* No call moves.
LEMMA CallsStay ==
    ASSUME RefinementInv, RNext, call' = call
    PROVE  AbstractCall' = AbstractCall
  <1>1. \A r \in Requests : CallOf(call'[r], since'[r]) = CallOf(call[r], since[r])
    BY CallOfKept
  <1> QED
    BY <1>1, AbstractCallIs

\* The abstract buckets stay when the stored ones and the clock do,
LEMMA BucketsStay ==
    ASSUME bucket' = bucket, clock' = clock
    PROVE  AbstractBucket' = AbstractBucket
  BY DEF AbstractBucket, BucketLive

\* and the abstract blocks when the stored ones do.
LEMMA BlocksStay ==
    ASSUME blockedUntil' = blockedUntil
    PROVE  AbstractBlock' = AbstractBlock
  BY DEF AbstractBlock

\* The contract counts tokens as the script does.
LEMMA SameArithmetic ==
    /\ \A tokens, last, now : Contract!Refilled(tokens, last, now) = Refilled(tokens, last, now)
    /\ \A level : /\ Contract!HasToken(level) = HasToken(level)
                  /\ Contract!Spend(level) = Spend(level)
                  /\ Contract!WholeTokens(level) = WholeTokens(level)
  BY DEF Contract!Refilled, Refilled, Contract!Elapsed, Elapsed, Contract!HasToken, HasToken,
         Contract!Spend, Spend, Contract!WholeTokens, WholeTokens

\* A missing key gives the level of a full bucket, whatever the instant.
LEMMA SameLevel ==
    ASSUME TypeOK, NEW u \in Users, NEW now \in Int
    PROVE  LevelAt(u, now)
             = Refilled(AbstractBucket[u].tokens, AbstractBucket[u].lastRefill, now)
  <1>1. CASE BucketLive(u)
    BY <1>1 DEF LevelAt, AbstractBucket
  <1>2. CASE ~BucketLive(u)
    <2>1. AbstractBucket[u].tokens = Capacity /\ AbstractBucket[u].lastRefill = 0
      BY <1>2 DEF AbstractBucket
    <2>2. Refilled(Capacity, 0, now) = Capacity
      BY RefilledRange, BucketAssumption
    <2> QED
      BY <1>2, <2>1, <2>2, FreshLevel
  <1> QED
    BY <1>1, <1>2

\* Initial states map to initial states.
LEMMA RefinedInit == RInit => Contract!Init
  BY DEF RInit, Init, Contract!Init, Contract!Full, Contract!NotBlocked, Contract!Idle,
         AbstractBucket, AbstractBlock, AbstractCall, InFlight, Idle, BucketLive, NoBucket, Never

\* Entering allow_request is the contract's invocation.
LEMMA RefinedCall ==
    ASSUME RefinementInv, RNext, NEW r \in Requests, NEW g \in Gateways, NEW u \in Users,
           Call(r, g, u)
    PROVE  Contract!Invoke(r, u)
  <1>1. /\ call[r].pc = "idle"
        /\ call'[r].pc \in {"eval", "load"}
        /\ call'[r].user = u
        /\ \A q \in Requests : q # r => call'[q] = call[q]
        /\ bucket' = bucket /\ clock' = clock /\ blockedUntil' = blockedUntil
    BY DEF Call, InFlight, RefinementInv, TypeOK
  <1>2. since'[r] = clock
    BY <1>1, SinceStep DEF InFlight
  <1>3. CallOf(call'[r], since'[r]) = [pc |-> "pending", user |-> u, since |-> clock]
    BY <1>1, <1>2 DEF CallOf
  <1>4. AbstractCall' = [AbstractCall EXCEPT ![r] = [pc |-> "pending", user |-> u, since |-> clock]]
    BY <1>1, <1>3, OneCallMoves
  <1>5. AbstractCall[r].pc = "idle"
    BY <1>1, AbstractCallIs DEF CallOf
  <1> QED
    BY <1>1, <1>4, <1>5, BucketsStay, BlocksStay DEF Contract!Invoke, Contract!Pending

\* Loading the script, and finding that Redis has lost it, are invisible.
LEMMA RefinedScript ==
    ASSUME RefinementInv, RNext, NEW r \in Requests,
           LoadScript(r) \/ CacheSha(r) \/ EvalNoScript(r)
    PROVE  UNCHANGED Contract!contractVars
  <1>1. /\ call[r] \in Calls
        /\ call[r].pc \in {"load", "loaded", "eval"}
    BY InFlightCall DEF LoadScript, CacheSha, EvalNoScript, InFlight, RefinementInv
  <1>2. /\ \A q \in Requests : q # r => call'[q] = call[q]
        /\ call'[r].user = call[r].user
        /\ call'[r].pc \in {"loaded", "eval", "reply"}
        /\ call'[r].pc = "reply" => call'[r].verdict = "noscript"
        /\ bucket' = bucket /\ clock' = clock /\ blockedUntil' = blockedUntil
    BY <1>1 DEF LoadScript, CacheSha, EvalNoScript, Reply, Calls, RefinementInv, TypeOK
  <1>3. since'[r] = since[r]
    BY <1>1, SinceStep DEF InFlight
  <1>4. CallOf(call'[r], since'[r]) = CallOf(call[r], since[r])
    BY <1>1, <1>2, <1>3 DEF CallOf
  <1>5. AbstractCall' = AbstractCall
    BY <1>2, <1>4, CallOfKept, AbstractCallIs
  <1> QED
    BY <1>2, <1>5, BucketsStay, BlocksStay DEF Contract!contractVars

\* What a call looks like that Redis executes the script for, before and after.
LEMMA RefinedReply ==
    ASSUME RefinementInv, RNext, NEW r \in Requests, call[r].pc = "eval",
           NEW verdict, NEW left, Reply(r, verdict, left),
           verdict \notin {"none", "noscript"}
    PROVE  /\ AbstractCall[r].pc = "pending"
           /\ AbstractCall[r].user = call[r].user
           /\ AbstractCall[r].since = since[r]
           /\ AbstractCall' = [AbstractCall EXCEPT ![r] =
                 [pc |-> "answered", user |-> call[r].user, verdict |-> verdict, left |-> left]]
  <1>1. call[r] \in Calls
    BY InFlightCall DEF InFlight, RefinementInv
  <1>2. /\ \A q \in Requests : q # r => call'[q] = call[q]
        /\ call'[r].pc = "reply" /\ call'[r].user = call[r].user
        /\ call'[r].verdict = verdict /\ call'[r].left = left
    BY <1>1 DEF Reply, Calls, RefinementInv, TypeOK
  <1>3. CallOf(call'[r], since'[r])
          = [pc |-> "answered", user |-> call[r].user, verdict |-> verdict, left |-> left]
    BY <1>2 DEF CallOf
  <1>4. AbstractCall' = [AbstractCall EXCEPT ![r] =
           [pc |-> "answered", user |-> call[r].user, verdict |-> verdict, left |-> left]]
    BY <1>2, <1>3, OneCallMoves
  <1> QED
    BY <1>4, AbstractCallIs DEF CallOf

\* The script finds the block key at an instant of the call: now.
LEMMA RefinedBlocked ==
    ASSUME RefinementInv, RNext, NEW r \in Requests, EvalBlocked(r)
    PROVE  Contract!Refuse(r)
  <1>1. PICK u \in Users : u = call[r].user
    BY InFlightCall DEF EvalBlocked, InFlight, Calls, RefinementInv
  <1>2. /\ call[r].pc = "eval" /\ Reply(r, "blocked", 0)
        /\ clock <= blockedUntil[u]
        /\ bucket' = bucket /\ clock' = clock /\ blockedUntil' = blockedUntil
    BY <1>1 DEF EvalBlocked, Blocked
  <1>3. since[r] \in Nat /\ since[r] <= clock /\ clock \in Nat
        /\ blockedUntil[u] \in Nat \cup {Never}
    BY <1>2 DEF RefinementInv, StampsInCalls, InFlight, TypeOK
  <1>4. clock \in since[r]..clock /\ clock < AbstractBlock[u]
    BY <1>2, <1>3 DEF AbstractBlock, Never
  <1>5. /\ AbstractCall[r].pc = "pending"
        /\ AbstractCall[r].user = u
        /\ AbstractCall[r].since = since[r]
        /\ AbstractCall' = [AbstractCall EXCEPT ![r] =
              [pc |-> "answered", user |-> u, verdict |-> "blocked", left |-> 0]]
    BY <1>1, <1>2, RefinedReply
  <1> QED
    BY <1>2, <1>4, <1>5, BucketsStay, BlocksStay
    DEF Contract!Refuse, Contract!Instants, Contract!Answered

\* The script refills and spends the contract's bucket as of the stamp, which is
\* an instant of the call, and finds no block at another: now.
LEMMA RefinedEvaluate ==
    ASSUME RefinementInv, RNext, NEW r \in Requests, Evaluate(r)
    PROVE  Contract!Decide(r)
  <1>1. PICK u \in Users : u = call[r].user
    BY InFlightCall DEF Evaluate, InFlight, Calls, RefinementInv
  <1>2. PICK now \in Int : now = call[r].stamp
    BY InFlightCall DEF Evaluate, InFlight, Calls, RefinementInv
  <1> DEFINE level == Contract!Refilled(AbstractBucket[u].tokens, AbstractBucket[u].lastRefill,
                                        now)
             verdict == IF Contract!HasToken(level) THEN "allowed" ELSE "denied"
             left == Contract!WholeTokens(Contract!Spend(level))
             spent == [tokens |-> Contract!Spend(level), lastRefill |-> now]
  <1>3. /\ call[r].pc = "eval" /\ clock > blockedUntil[u]
        /\ bucket' = [bucket EXCEPT ![u] = Written(u, now)]
        /\ Reply(r, IF HasToken(LevelAt(u, now)) THEN "allowed" ELSE "denied",
                 WholeTokens(Written(u, now).tokens))
        /\ clock' = clock /\ blockedUntil' = blockedUntil
    <2>1. clock \in Nat /\ blockedUntil[u] \in Int
      BY DEF RefinementInv, TypeOK, Never
    <2> QED
      BY <1>1, <1>2, <2>1 DEF Evaluate, Blocked
  <1>4. /\ now \in since[r]..clock
        /\ since[r] \in Nat /\ since[r] <= clock /\ clock \in Nat
    BY <1>2, <1>3 DEF RefinementInv, StampsInCalls, InFlight, TypeOK
  <1>5. level = LevelAt(u, now)
    BY SameLevel, SameArithmetic DEF RefinementInv
  <1>6. Written(u, now).tokens = spent.tokens /\ Reply(r, verdict, left)
    BY <1>3, <1>5, SameArithmetic DEF Written
  <1>7. AbstractBucket' = [AbstractBucket EXCEPT ![u] = spent]
    <2>1. /\ bucket'[u] = Written(u, now)
          /\ \A v \in Users : v # u => bucket'[v] = bucket[v]
      BY <1>3 DEF RefinementInv, TypeOK
    <2>2. BucketLive(u)' /\ bucket'[u].lastRefill = now
      BY <1>3, <1>4, <2>1, LimiterAssumption DEF Written, BucketLive
    <2>3. AbstractBucket'[u] = spent
      BY <1>6, <2>1, <2>2 DEF AbstractBucket
    <2>4. \A v \in Users : v # u => AbstractBucket'[v] = AbstractBucket[v]
      BY <1>3, <2>1 DEF AbstractBucket, BucketLive
    <2> HIDE DEF spent
    <2>5. /\ AbstractBucket = [v \in Users |-> AbstractBucket[v]]
          /\ AbstractBucket' = [v \in Users |-> AbstractBucket'[v]]
      BY DEF AbstractBucket
    <2> QED
      BY <2>3, <2>4, <2>5
  <1> HIDE DEF level, verdict, left, spent
  <1>8. /\ AbstractCall[r].pc = "pending"
        /\ AbstractCall[r].user = u
        /\ AbstractCall[r].since = since[r]
        /\ AbstractCall' = [AbstractCall EXCEPT ![r] =
              [pc |-> "answered", user |-> u, verdict |-> verdict, left |-> left]]
    <2>1. verdict \notin {"none", "noscript"}
      BY DEF verdict
    <2> QED
      BY <1>1, <1>3, <1>6, <2>1, RefinedReply
  <1>9. \E n \in since[r]..clock :
          LET lv == Contract!Refilled(AbstractBucket[u].tokens, AbstractBucket[u].lastRefill, n)
          IN  /\ AbstractBucket' = [AbstractBucket EXCEPT ![u] =
                                      [tokens |-> Contract!Spend(lv), lastRefill |-> n]]
              /\ AbstractCall' = [AbstractCall EXCEPT ![r] =
                    Contract!Answered(u, IF Contract!HasToken(lv) THEN "allowed" ELSE "denied",
                                      Contract!WholeTokens(Contract!Spend(lv)))]
    <2>1. now \in since[r]..clock
      BY <1>4
    <2> WITNESS now \in since[r]..clock
    <2>2. level = Contract!Refilled(AbstractBucket[u].tokens, AbstractBucket[u].lastRefill, now)
      BY DEF level
    <2> QED
      BY <1>7, <1>8, <2>2 DEF Contract!Answered, verdict, left, spent
  <1>10. \E t \in since[r]..clock : t >= AbstractBlock[u]
    <2>1. blockedUntil[u] \in Nat \cup {Never}
      BY DEF RefinementInv, TypeOK
    <2>2. clock >= AbstractBlock[u] /\ clock \in since[r]..clock
      BY <1>3, <1>4, <2>1 DEF AbstractBlock, Never
    <2> QED
      BY <2>2
  <1>11. AbstractBlock' = AbstractBlock
    BY <1>3, BlocksStay
  <1> QED
    BY <1>3, <1>8, <1>9, <1>10, <1>11, Zenon DEF Contract!Decide, Contract!Instants

\* A stalled connection shows nothing.
LEMMA RefinedStall ==
    ASSUME RefinementInv, RNext, NEW r \in Requests, Stall(r)
    PROVE  UNCHANGED Contract!contractVars
  <1>1. call[r] \in Calls /\ call[r].pc \in Undecided \cup {"reply"}
    BY InFlightCall DEF Stall, InFlight, RefinementInv, Undecided
  <1>2. /\ \A q \in Requests : q # r => call'[q] = call[q]
        /\ call'[r].user = call[r].user /\ call'[r].pc = "stalled"
        /\ call'[r].verdict = call[r].verdict /\ call'[r].left = call[r].left
        /\ bucket' = bucket /\ clock' = clock /\ blockedUntil' = blockedUntil
    BY <1>1 DEF Stall, Calls, RefinementInv, TypeOK
  <1>3. since'[r] = since[r] /\ call[r].pc # "idle"
    BY <1>1, SinceStep DEF InFlight, Undecided
  <1>4. call[r].pc \in Undecided => call[r].verdict = "none"
    BY DEF RefinementInv, VerdictsComeLast
  <1>5. CallOf(call'[r], since'[r]) = CallOf(call[r], since[r])
    BY <1>1, <1>2, <1>3, <1>4 DEF CallOf, Undecided
  <1>6. AbstractCall' = AbstractCall
    BY <1>2, <1>5, CallOfKept, AbstractCallIs
  <1> QED
    BY <1>2, <1>6, BucketsStay, BlocksStay DEF Contract!contractVars

\* A call ends: its caller has the answer, or an exception.
LEMMA RefinedReturn ==
    ASSUME RefinementInv, RNext, NEW r \in Requests, Return(r) \/ ConnectionError(r)
    PROVE  Contract!Return(r)
  <1>1. /\ call[r].pc # "idle"
        /\ call' = [call EXCEPT ![r] = Idle]
        /\ bucket' = bucket /\ clock' = clock /\ blockedUntil' = blockedUntil
    BY DEF Return, ConnectionError, InFlight
  <1>2. /\ \A q \in Requests : q # r => call'[q] = call[q]
        /\ call'[r] = Idle
    BY <1>1 DEF RefinementInv, TypeOK
  <1>3. CallOf(call'[r], since'[r]) = [pc |-> "idle"]
    BY <1>2 DEF CallOf, Idle
  <1>4. AbstractCall' = [AbstractCall EXCEPT ![r] = [pc |-> "idle"]]
    BY <1>2, <1>3, OneCallMoves
  <1>5. AbstractCall[r].pc \in {"pending", "answered"}
    BY <1>1, AbstractCallIs DEF CallOf
  <1> QED
    BY <1>1, <1>4, <1>5, BucketsStay, BlocksStay DEF Contract!Return, Contract!Idle

\* block_user: the last instant of the key's life belongs to the block.
LEMMA RefinedBlock ==
    ASSUME RefinementInv, RNext, NEW u \in Users, BlockUser(u)
    PROVE  Contract!Block(u)
  <1>1. /\ blockedUntil' = [blockedUntil EXCEPT ![u] = clock + BlockTTL]
        /\ bucket' = bucket /\ clock' = clock /\ call' = call
    BY DEF BlockUser
  <1>2. AbstractBlock' = [AbstractBlock EXCEPT ![u] = clock + BlockTTL + 1]
    BY <1>1 DEF AbstractBlock, RefinementInv, TypeOK
  <1> QED
    BY <1>1, <1>2, BucketsStay, CallsStay DEF Contract!Block

\* unblock_user.
LEMMA RefinedUnblock ==
    ASSUME RefinementInv, RNext, NEW u \in Users, UnblockUser(u)
    PROVE  Contract!Unblock(u)
  <1>1. /\ blockedUntil' = [blockedUntil EXCEPT ![u] = Never]
        /\ bucket' = bucket /\ clock' = clock /\ call' = call
    BY DEF UnblockUser
  <1>2. AbstractBlock' = [AbstractBlock EXCEPT ![u] = 0]
    <2>1. Never + 1 = 0
      BY DEF Never
    <2> QED
      BY <1>1, <2>1 DEF AbstractBlock, RefinementInv, TypeOK
  <1> QED
    BY <1>1, <1>2, BucketsStay, CallsStay DEF Contract!Unblock, Contract!NotBlocked

\* Redis comes back empty: every bucket is full and nobody blocked.
LEMMA RefinedRedisRestart ==
    ASSUME RefinementInv, RNext, RedisRestart
    PROVE  Contract!Restart
  <1>1. /\ bucket' = [u \in Users |-> NoBucket]
        /\ blockedUntil' = [u \in Users |-> Never]
        /\ clock' = clock /\ call' = call /\ clock \in Nat
    BY DEF RedisRestart, RefinementInv, TypeOK
  <1>2. AbstractBucket' = [u \in Users |-> IF u \in Users THEN Contract!Full
                                                           ELSE AbstractBucket[u]]
    BY <1>1 DEF AbstractBucket, BucketLive, NoBucket, Never, Contract!Full
  <1>3. AbstractBlock' = [u \in Users |-> IF u \in Users THEN Contract!NotBlocked
                                                          ELSE AbstractBlock[u]]
    BY <1>1 DEF AbstractBlock, Never, Contract!NotBlocked
  <1>4. AbstractCall' = [r \in Requests |-> IF r \in {} THEN Contract!Idle ELSE AbstractCall[r]]
    <2>1. AbstractCall' = AbstractCall
      BY <1>1, CallsStay
    <2> QED
      BY <2>1 DEF AbstractCall
  <1>5. \E lost \in {{}, Users} :
          /\ AbstractBucket' = [u \in Users |-> IF u \in lost THEN Contract!Full
                                                              ELSE AbstractBucket[u]]
          /\ AbstractBlock' = [u \in Users |-> IF u \in lost THEN Contract!NotBlocked
                                                             ELSE AbstractBlock[u]]
    BY <1>2, <1>3, Zenon
  <1>6. \E dead \in SUBSET Requests :
          AbstractCall' = [r \in Requests |-> IF r \in dead THEN Contract!Idle
                                                            ELSE AbstractCall[r]]
    <2>1. {} \in SUBSET Requests
      OBVIOUS
    <2> QED
      BY <1>4, <2>1, Zenon
  <1> QED
    BY <1>1, <1>5, <1>6, Zenon DEF Contract!Restart

\* A gateway process is replaced: its calls end, Redis keeps everything.
LEMMA RefinedGatewayRestart ==
    ASSUME RefinementInv, RNext, NEW g \in Gateways, GatewayRestart(g)
    PROVE  Contract!Restart
  <1>1. /\ call' = [r \in Requests |-> IF InFlight(r) /\ call[r].gw = g THEN Idle ELSE call[r]]
        /\ bucket' = bucket /\ clock' = clock /\ blockedUntil' = blockedUntil
    BY DEF GatewayRestart
  <1>2. PICK dead \in SUBSET Requests :
          dead = {r \in Requests : InFlight(r) /\ call[r].gw = g}
    OBVIOUS
  <1>3. \A r \in Requests : CallOf(call'[r], since'[r])
                              = IF r \in dead THEN Contract!Idle ELSE CallOf(call[r], since[r])
    <2> SUFFICES ASSUME NEW r \in Requests
                 PROVE  CallOf(call'[r], since'[r])
                          = IF r \in dead THEN Contract!Idle ELSE CallOf(call[r], since[r])
      OBVIOUS
    <2>1. CASE r \in dead
      BY <1>1, <1>2, <2>1 DEF CallOf, Idle, Contract!Idle
    <2>2. CASE r \notin dead
      <3>1. call'[r] = call[r]
        BY <1>1, <1>2, <2>2
      <3> QED
        BY <2>2, <3>1, CallOfKept
    <2> QED
      BY <2>1, <2>2
  <1>4. AbstractCall' = [r \in Requests |-> IF r \in dead THEN Contract!Idle ELSE AbstractCall[r]]
    BY <1>3, AbstractCallIs
  <1>5. /\ AbstractBucket' = [u \in Users |-> IF u \in {} THEN Contract!Full
                                                         ELSE AbstractBucket[u]]
        /\ AbstractBlock' = [u \in Users |-> IF u \in {} THEN Contract!NotBlocked
                                                        ELSE AbstractBlock[u]]
    <2>1. AbstractBucket' = AbstractBucket /\ AbstractBlock' = AbstractBlock
      BY <1>1, BucketsStay, BlocksStay
    <2> QED
      BY <2>1 DEF AbstractBucket, AbstractBlock
  <1>6. \E lost \in {{}, Users} :
          /\ AbstractBucket' = [u \in Users |-> IF u \in lost THEN Contract!Full
                                                              ELSE AbstractBucket[u]]
          /\ AbstractBlock' = [u \in Users |-> IF u \in lost THEN Contract!NotBlocked
                                                             ELSE AbstractBlock[u]]
    BY <1>5, Zenon
  <1> QED
    BY <1>1, <1>4, <1>6, Zenon DEF Contract!Restart

\* Time passes: a key expires only when its bucket was not used for the TTL.
LEMMA RefinedTick ==
    ASSUME RefinementInv, RNext, Tick
    PROVE  Contract!Tick
  <1>1. /\ clock < MaxTime /\ clock' = clock + 1 /\ clock \in Nat
        /\ bucket' = bucket /\ blockedUntil' = blockedUntil /\ call' = call
    BY DEF Tick, RefinementInv, TypeOK
  <1>2. PICK gone \in SUBSET Users : gone = {u \in Users : BucketLive(u) /\ ~BucketLive(u)'}
    OBVIOUS
  <1>3. ASSUME NEW u \in gone
        PROVE  /\ u \in Users
               /\ clock' > AbstractBucket[u].lastRefill + BucketTTL
    <2>1. /\ u \in Users /\ BucketLive(u) /\ clock' > bucket[u].expireAt
          /\ bucket[u] \in Buckets
      <3>1. u \in Users /\ BucketLive(u) /\ ~BucketLive(u)' /\ bucket[u] \in Buckets
        BY <1>2, <1>3 DEF RefinementInv, TypeOK
      <3>2. bucket[u].expireAt \in Int
        BY <3>1 DEF Buckets, Never
      <3> QED
        BY <1>1, <3>1, <3>2 DEF BucketLive
    <2>2. bucket[u].lastRefill + BucketTTL <= bucket[u].expireAt
      BY <2>1 DEF RefinementInv, KeysKept
    <2>3. AbstractBucket[u].lastRefill = bucket[u].lastRefill
      BY <2>1 DEF AbstractBucket
    <2>4. /\ bucket[u].expireAt \in Int /\ bucket[u].lastRefill \in Int /\ BucketTTL \in Nat
          /\ clock' \in Nat
      BY <1>1, <2>1, LimiterAssumption DEF Buckets, Never
    <2> QED
      BY <2>1, <2>2, <2>3, <2>4
  <1>4. AbstractBucket' = [u \in Users |-> IF u \in gone THEN Contract!Full
                                                         ELSE AbstractBucket[u]]
    <2> SUFFICES ASSUME NEW u \in Users
                 PROVE  AbstractBucket'[u] = IF u \in gone THEN Contract!Full
                                                           ELSE AbstractBucket[u]
      BY DEF AbstractBucket
    <2>1. bucket[u].expireAt \in Int
      BY DEF RefinementInv, TypeOK, Buckets, Never
    <2>2. BucketLive(u)' => BucketLive(u)
      BY <1>1, <2>1 DEF BucketLive
    <2> QED
      BY <1>1, <1>2, <2>2 DEF AbstractBucket, Contract!Full
  <1>5. gone \in SUBSET {u \in Users : clock' > AbstractBucket[u].lastRefill + BucketTTL}
    BY <1>3
  <1>6. AbstractBlock' = AbstractBlock /\ AbstractCall' = AbstractCall
    BY <1>1, BlocksStay, CallsStay
  <1> QED
    BY <1>1, <1>4, <1>5, <1>6, Zenon DEF Contract!Tick

\* Each step of the limiter, as the contract sees it.
LEMMA RefinedStep ==
    ClocksAgree /\ RefinementInv /\ [RNext]_refinementVars
      => [Contract!Next]_(Contract!contractVars)
  <1> SUFFICES ASSUME RefinementInv, [RNext]_refinementVars
               PROVE  [Contract!Next]_(Contract!contractVars)
    OBVIOUS
  <1>1. CASE UNCHANGED refinementVars
    BY <1>1 DEF refinementVars, limiterVars, Contract!contractVars, AbstractBucket, AbstractBlock,
                AbstractCall, BucketLive, InFlight
  <1>2. CASE RNext
    <2>1. ASSUME NEW r \in Requests, NEW g \in Gateways, NEW u \in Users, Call(r, g, u)
          PROVE  Contract!Next
      BY <1>2, <2>1, RefinedCall DEF Contract!Next
    <2>2. ASSUME NEW r \in Requests,
                 LoadScript(r) \/ CacheSha(r) \/ EvalNoScript(r) \/ Stall(r)
          PROVE  UNCHANGED Contract!contractVars
      BY <1>2, <2>2, RefinedScript, RefinedStall
    <2>3. ASSUME NEW r \in Requests,
                 EvalBlocked(r) \/ Evaluate(r) \/ Return(r) \/ ConnectionError(r)
          PROVE  Contract!Next
      <3>1. Contract!Refuse(r) \/ Contract!Decide(r) \/ Contract!Return(r)
        BY <1>2, <2>3, RefinedBlocked, RefinedEvaluate, RefinedReturn
      <3> QED
        BY <3>1 DEF Contract!Next
    <2>4. ASSUME NEW u \in Users, BlockUser(u) \/ UnblockUser(u)
          PROVE  Contract!Next
      <3>1. Contract!Block(u) \/ Contract!Unblock(u)
        BY <1>2, <2>4, RefinedBlock, RefinedUnblock
      <3> QED
        BY <3>1 DEF Contract!Next
    <2>5. ASSUME RedisRestart \/ \E g \in Gateways : GatewayRestart(g)
          PROVE  Contract!Next
      <3>1. Contract!Restart
        BY <1>2, <2>5, RefinedRedisRestart, RefinedGatewayRestart
      <3> QED
        BY <3>1 DEF Contract!Next
    <2>6. CASE Tick
      <3>1. Contract!Tick
        BY <1>2, <2>6, RefinedTick
      <3> QED
        BY <3>1 DEF Contract!Next
    <2> QED
      BY <1>2, <2>1, <2>2, <2>3, <2>4, <2>5, <2>6 DEF RNext, Next, OtherStep
  <1> QED
    BY <1>1, <1>2

\* For gateways whose clocks agree with Redis's, allow_request behaves as if it
\* took effect at one instant of the call: no interleaving of script loads, round
\* trips, key expiries, restarts and broken connections shows its callers anything
\* but a full bucket, a block forgotten by a restart, or an exception.
THEOREM RedisImplementsContract == ClocksAgree => (RSpec => ImplementsContract)
  <1> SUFFICES ASSUME ClocksAgree PROVE RSpec => ImplementsContract
    OBVIOUS
  <1>1. RefinementInv /\ [RNext]_refinementVars => RefinementInv'
    BY RefinementInvStep
  <1>2. RefinementInv /\ [RNext]_refinementVars => [Contract!Next]_(Contract!contractVars)
    BY RefinedStep
  <1> QED
    BY <1>1, <1>2, RefinementInvInit, RefinedInit, PTL
    DEF RSpec, ImplementsContract, Contract!Spec

=============================================================================
