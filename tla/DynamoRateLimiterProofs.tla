----------------------- MODULE DynamoRateLimiterProofs -----------------------
(***************************************************************************)
(* Proofs about DynamoRateLimiter, for any users, worker threads, capacity *)
(* and rate, and for any times to live that outlast a refill.              *)
(***************************************************************************)
EXTENDS DynamoRateLimiter, ArithmeticLemmas

-----------------------------------------------------------------------------
(* The invariant.                                                           *)

\* The steps of a call.
Working == {"block", "delete", "read", "write"}
CallRecords == [pc : Working, user : Users, now : Nat, level : 0..Capacity]
StoredItems == [tokens : 0..Capacity, lastRefill : Nat, ttl : Nat]

\* What TypeOK says, and what a call is when it is idle.
TypesInv ==
    /\ clock \in Nat /\ clock <= MaxTime
    /\ bucket \in [Users -> Items]
    /\ oldBucket \in [Users -> Items]
    /\ block \in [Users -> Nat \cup {NoBlock}]
    /\ oldBlock \in [Users -> Nat \cup {NoBlock}]
    /\ call \in [Requests -> {Idle} \cup CallRecords]
    /\ granted \in [Users -> Nat] /\ \A u \in Users : granted[u] <= MaxGrants
    /\ regress \in [Users -> Nat] /\ \A u \in Users : regress[u] <= MaxRegress
    /\ disturbed \subseteq Users
    /\ blockPromise \in [Users -> Nat \cup {NoBlock}]

\* A call has read the clock in the past, and none takes longer than CallTime.
TimesInv ==
    \A r \in Requests : ~At(r, "idle") =>
        /\ call[r].now <= LocalTime(r)
        /\ LocalTime(r) <= call[r].now + CallTime

\* An item was written in the past and is kept for BucketTTL from its last refill.
ItemsInv ==
    \A u \in Users : bucket[u] # NoItem =>
        /\ bucket[u].lastRefill <= clock + MaxSkew
        /\ bucket[u].lastRefill + BucketTTL <= bucket[u].ttl

\* The calls on u's items follow one another.
OneByOne(u) == \A q, r \in Requests : Serves(q, u) /\ Serves(r, u) => q = r

\* The earliest stamp a call that is still at work can have.
Earliest == IF clock > CallTime THEN clock - CallTime ELSE 0

\* The time a stamp stands for, once the steps back of the stamps before it, and its
\* own behind the stored item, are counted as time.
Counted(u, now) == now + regress[u] + Back(u, now)

\* What u was admitted and what is left to it were refilled in the time that
\* passed; an item that is gone had been full.
Paid(u) ==
    /\ bucket[u] = NoItem => granted[u] * Unit <= Rate * (Earliest + regress[u])
    /\ bucket[u] # NoItem =>
         granted[u] * Unit + bucket[u].tokens
           <= Capacity + Rate * (bucket[u].lastRefill + regress[u])
    /\ \A r \in Requests : Serves(r, u) /\ At(r, "write") =>
         granted[u] * Unit + call[r].level <= Capacity + Rate * Counted(u, call[r].now)

\* The item of a promised block is there, and no call has got past it.
BlockKept(u) ==
    blockPromise[u] > clock + MaxSkew =>
        /\ block[u] = blockPromise[u]
        /\ \A r \in Requests : Serves(r, u) => At(r, "block")

SerialInv ==
    \A u \in Users : u \notin disturbed => OneByOne(u) /\ Paid(u) /\ BlockKept(u)

DynamoInv == TypesInv /\ TimesInv /\ ItemsInv /\ SerialInv

USE DEF bucketVars, blockVars

-----------------------------------------------------------------------------
(* Arithmetic.                                                              *)

\* A refill keeps what was admitted within the capacity and the time, a step back of
\* the clock counted as time once more.
LEMMA RefillPaid ==
    ASSUME NEW spent \in Nat, NEW tokens \in 0..Capacity, NEW last \in Nat,
           NEW now \in Nat, NEW more \in Nat,
           spent + tokens <= Capacity + Rate * (last + more)
    PROVE  spent + Refilled(tokens, last, now)
             <= Capacity + Rate * (now + more + Elapsed(now, last))
  <1>0. last \in Int /\ now \in Int
    OBVIOUS
  <1>1. PICK d \in Nat : d = Elapsed(last, now)
    BY <1>0, ElapsedNat
  <1>2. /\ last + more \in Nat
        /\ now + more + Elapsed(now, last) = (last + more) + d
    BY <1>1 DEF Elapsed
  <1>3. Rate * d \in Nat /\ Rate * (last + more) \in Nat
    BY <1>1, <1>2, ProductNat, BucketAssumption
  <1>4. Rate * (now + more + Elapsed(now, last)) = Rate * (last + more) + Rate * d
    <2>1. PICK a \in Nat : a = last + more
      BY <1>2
    <2>2. Rate * (a + d) = Rate * a + Rate * d
      BY <1>1, Distribute, BucketAssumption
    <2> QED
      BY <1>2, <2>1, <2>2
  <1>5. Refilled(tokens, last, now) <= tokens + Rate * d
    BY <1>0, <1>1, RefilledBound
  <1>6. Refilled(tokens, last, now) \in 0..Capacity
    BY <1>0, RefilledRange
  <1> QED
    BY <1>3, <1>4, <1>5, <1>6, BucketAssumption

\* A bucket of which nothing is stored is full.
LEMMA FullLevel ==
    ASSUME NEW now \in Nat
    PROVE  Refilled(Capacity, now, now) = Capacity
  <1>1. Rate * 0 = 0
    BY BucketAssumption
  <1> QED
    BY <1>1, BucketAssumption DEF Refilled, Elapsed

\* More time refills more.
LEMMA RateMonotone ==
    ASSUME NEW a \in Nat, NEW b \in Nat, a <= b
    PROVE  Rate * a <= Rate * b
  <1>1. PICK d \in Nat : b = a + d
    <2>1. b - a \in Nat
      OBVIOUS
    <2> QED
      BY <2>1
  <1>2. Rate * a \in Nat /\ Rate * d \in Nat
    BY ProductNat, BucketAssumption
  <1>3. Rate * b = Rate * a + Rate * d
    BY <1>1, Distribute, BucketAssumption
  <1> QED
    BY <1>2, <1>3

\* By the time an item has expired, a bucket would have refilled, even for a call
\* that started CallTime ago on the slowest clock.
LEMMA ExpiredIsFull ==
    ASSUME NEW last \in Nat, NEW now \in Nat, last + BucketTTL < now + TableSkew
    PROVE  LET early == IF now > CallTime THEN now - CallTime ELSE 0
           IN  Capacity + Rate * last <= Rate * early /\ last <= early
  <1> DEFINE early == IF now > CallTime THEN now - CallTime ELSE 0
  <1>1. early \in Nat
    BY DynamoAssumption
  <1>2. CallTime \in Nat /\ TableSkew \in Nat /\ BucketTTL \in Nat
    BY DynamoAssumption
  <1>3. PICK d \in Nat : d = BucketTTL - (CallTime + TableSkew)
    BY <1>2, ExpiryAssumption
  <1>4. last + d <= early
    BY <1>2, <1>3
  <1>5. Rate * (last + d) <= Rate * early
    <2>1. last + d \in Nat
      OBVIOUS
    <2> HIDE DEF early
    <2> QED
      BY <1>1, <1>4, <2>1, RateMonotone
  <1>6. Rate * (last + d) = Rate * last + Rate * d
    BY Distribute, BucketAssumption
  <1>7. Capacity <= Rate * d
    BY <1>3, ExpiryAssumption
  <1>8. Rate * last \in Nat /\ Rate * d \in Nat /\ Rate * early \in Nat
    BY <1>1, ProductNat, BucketAssumption
  <1> HIDE DEF early
  <1>9. Capacity + Rate * last <= Rate * early /\ last <= early
    BY <1>1, <1>4, <1>5, <1>6, <1>7, <1>8, BucketAssumption
  <1> QED
    BY <1>9 DEF early

\* A product by a sum of times.
LEMMA RateSum ==
    ASSUME NEW a \in Nat, NEW b \in Nat
    PROVE  Rate * (a + b) = Rate * a + Rate * b /\ Rate * a \in Nat /\ Rate * b \in Nat
  BY Distribute, ProductNat, BucketAssumption

\* Another admission costs a token.
LEMMA AnotherGrant ==
    ASSUME NEW g \in Nat
    PROVE  (g + 1) * Unit = g * Unit + Unit /\ g * Unit \in Nat
  BY BucketAssumption, UnitProduct

-----------------------------------------------------------------------------
(* Calls and items.                                                         *)

\* No stored item is the missing one, and no call under way is an idle one.
LEMMA KindsApart ==
    /\ NoItem \notin StoredItems
    /\ Items = {NoItem} \cup StoredItems
    /\ \A c \in {Idle} \cup CallRecords : c.pc # "idle" => c \in CallRecords
    /\ \A c \in CallRecords : c.pc \in Working /\ c.pc # "idle" /\ c # Idle
    /\ Idle.pc = "idle"
    /\ "idle" \notin Working
  BY DEF NoItem, StoredItems, Items, Idle, CallRecords, Working

\* The steps of a call that was started.
CallStep(r) ==
    \/ ReadBlock(r) \/ DeleteBlock(r) \/ ReadBucket(r)
    \/ WriteDenied(r) \/ WriteAllowed(r) \/ Raise(r)

\* The call of thread r becomes new.
Becomes(r, new) == call' = [call EXCEPT ![r] = new]

\* A call is idle or a record, and one step of a thread changes its own call only.
LEMMA CallIs ==
    ASSUME TypesInv, NEW r \in Requests
    PROVE  /\ call[r] \in {Idle} \cup CallRecords
           /\ ~At(r, "idle") => call[r] \in CallRecords
           /\ \A new : Becomes(r, new) =>
                /\ call'[r] = new
                /\ \A q \in Requests \ {r} : call'[q] = call[q]
  BY KindsApart DEF TypesInv, At, Becomes

\* The level of an item is a level.
LEMMA LevelType ==
    ASSUME NEW item \in Items, NEW now \in Nat
    PROVE  LevelOf(item, now) \in 0..Capacity
  <1>1. CASE item = NoItem
    BY <1>1, FullLevel, BucketAssumption DEF LevelOf
  <1>2. CASE item # NoItem
    <2>1. item \in StoredItems
      BY <1>2, KindsApart
    <2>2. item.tokens \in 0..Capacity /\ item.lastRefill \in Int /\ now \in Int
      BY <2>1 DEF StoredItems
    <2>3. Refilled(item.tokens, item.lastRefill, now) \in 0..Capacity
      BY <2>2, RefilledRange
    <2> QED
      BY <1>2, <2>3 DEF LevelOf
  <1> QED
    BY <1>1, <1>2

\* A call returns, or keeps its user and its time, and its level but when it reads one.
LEMMA CallMoves ==
    ASSUME TypesInv, NEW r \in Requests, CallStep(r)
    PROVE  /\ call[r] \in CallRecords /\ call[r].pc \in Working
           /\ \E new \in {Idle} \cup CallRecords :
                /\ Becomes(r, new)
                /\ new # Idle => new.user = call[r].user /\ new.now = call[r].now
                /\ call[r].pc = "block" /\ new # Idle =>
                     \E item \in {block[call[r].user], oldBlock[call[r].user]} :
                        /\ ~RecordActive(item, call[r].now)
                        /\ item # block[call[r].user] => call[r].user \in disturbed'
                /\ new.pc = "write" =>
                     \E item \in {bucket[call[r].user], oldBucket[call[r].user]} :
                        /\ new.level = LevelOf(item, call[r].now)
                        /\ item # bucket[call[r].user] => call[r].user \in disturbed'
                /\ ReadBucket(r) => new.pc = "write"
  <1> DEFINE c == call[r]
             u == call[r].user
  <1>1. c.pc \in Working
    BY DEF CallStep, ReadBlock, DeleteBlock, ReadBucket, WriteDenied, WriteAllowed, Raise,
           At, Working
  <1>2. c \in CallRecords
    BY <1>1, KindsApart DEF TypesInv
  <1> DEFINE Passed == \E item \in {block[u], oldBlock[u]} :
                        ~RecordActive(item, c.now) /\ (item # block[u] => u \in disturbed')
  <1>3. ASSUME NEW pc \in Working, Goto(r, pc), pc # "write", c.pc = "block" => Passed
        PROVE  \E new \in CallRecords :
                 /\ Becomes(r, new)
                 /\ new.user = u /\ new.now = c.now
                 /\ c.pc = "block" => Passed
                 /\ new.pc # "write"
    <2> DEFINE new == [c EXCEPT !.pc = pc]
    <2>1. new \in CallRecords /\ new.user = u /\ new.now = c.now /\ new.pc = pc
      BY <1>2 DEF CallRecords
    <2>2. Becomes(r, new)
      BY <1>3 DEF Goto, Becomes
    <2> QED
      BY <1>3, <2>1, <2>2
  <1>4. CASE ~ReadBucket(r)
    <2>1. \/ Return(r)
          \/ \E pc \in Working : Goto(r, pc) /\ pc # "write" /\ (c.pc = "block" => Passed)
      <3>1. CASE ReadBlock(r)
        <4>1. PICK item \in {block[u], oldBlock[u]} :
                /\ IF RecordActive(item, c.now) THEN Return(r)
                   ELSE Goto(r, IF item # NoBlock THEN "delete" ELSE "read")
                /\ ReadOf(u, item, block[u])
          BY <3>1 DEF ReadBlock
        <4>2. item # block[u] => u \in disturbed'
          BY <4>1 DEF ReadOf
        <4>3. CASE RecordActive(item, c.now)
          BY <4>1, <4>3
        <4>4. CASE ~RecordActive(item, c.now)
          BY <4>1, <4>2, <4>4 DEF Working
        <4> QED
          BY <4>3, <4>4
      <3>2. CASE DeleteBlock(r)
        BY <3>2 DEF DeleteBlock, At, Working
      <3>3. CASE WriteDenied(r) \/ WriteAllowed(r) \/ Raise(r)
        BY <3>3 DEF WriteDenied, WriteAllowed, Raise
      <3> QED
        BY <1>4, <3>1, <3>2, <3>3 DEF CallStep
    <2>2. CASE Return(r)
      <3>1. Becomes(r, Idle)
        BY <2>2 DEF Return, Becomes
      <3>2. Idle.pc # "write"
        BY DEF Idle
      <3> QED
        BY <1>1, <1>2, <1>4, <3>1, <3>2
    <2> QED
      BY <1>1, <1>2, <1>3, <1>4, <2>1, <2>2
  <1>5. CASE ReadBucket(r)
    <2>1. PICK item \in {bucket[u], oldBucket[u]} :
            /\ call' = [call EXCEPT ![r].pc = "write", ![r].level = LevelOf(item, c.now)]
            /\ ReadOf(u, item, bucket[u])
            /\ c.pc = "read"
      BY <1>5 DEF ReadBucket, At
    <2> DEFINE new == [c EXCEPT !.pc = "write", !.level = LevelOf(item, c.now)]
    <2>2. u \in Users /\ c.now \in Nat
      BY <1>2 DEF CallRecords
    <2>3. LevelOf(item, c.now) \in 0..Capacity
      BY <2>1, <2>2, LevelType DEF TypesInv
    <2>4. /\ new \in CallRecords /\ new.user = u /\ new.now = c.now /\ new.pc = "write"
          /\ new.level = LevelOf(item, c.now)
      BY <1>2, <2>3 DEF CallRecords, Working
    <2>5. Becomes(r, new)
      BY <2>1 DEF Becomes
    <2>6. item # bucket[u] => u \in disturbed'
      BY <2>1 DEF ReadOf
    <2> QED
      BY <1>1, <1>2, <2>1, <2>4, <2>5, <2>6
  <1> QED
    BY <1>4, <1>5

\* What a write puts.
PutItem(r) ==
    [tokens |-> Spend(call[r].level), lastRefill |-> call[r].now, ttl |-> LocalTime(r) + BucketTTL]

\* Every clock is a clock, between the slowest and the fastest.
LEMMA LocalTimeNat ==
    ASSUME TypesInv, NEW r \in Requests
    PROVE  LocalTime(r) \in Nat /\ clock <= LocalTime(r) /\ LocalTime(r) <= clock + MaxSkew
  BY DynamoAssumption DEF TypesInv, LocalTime

\* What a write puts is a stored item.
LEMMA PutType ==
    ASSUME TypesInv, NEW r \in Requests, call[r] \in CallRecords
    PROVE  /\ PutItem(r) \in StoredItems
           /\ PutItem(r) # NoItem
           /\ PutItem(r).tokens = Spend(call[r].level)
           /\ PutItem(r).lastRefill = call[r].now
           /\ PutItem(r).ttl = LocalTime(r) + BucketTTL
           /\ Back(call[r].user, call[r].now) \in Nat
  <1>1. Spend(call[r].level) \in 0..Capacity /\ call[r].now \in Nat
    BY SpendRange DEF CallRecords
  <1>2. PutItem(r) \in StoredItems
    BY <1>1, LocalTimeNat, DynamoAssumption DEF PutItem, StoredItems
  <1>3. Back(call[r].user, call[r].now) \in Nat
    <2>1. call[r].user \in Users
      BY DEF CallRecords
    <2>2. CASE bucket[call[r].user] = NoItem
      BY <2>2 DEF Back
    <2>3. CASE bucket[call[r].user] # NoItem
      <3>1. bucket[call[r].user].lastRefill \in Nat
        BY <2>1, <2>3, KindsApart DEF TypesInv, StoredItems
      <3>2. PICK now \in Int, last \in Int :
              now = call[r].now /\ last = bucket[call[r].user].lastRefill
        BY <1>1, <3>1
      <3>3. Elapsed(now, last) \in Nat
        BY ElapsedNat
      <3> QED
        BY <2>3, <3>2, <3>3 DEF Back
    <2> QED
      BY <2>2, <2>3
  <1> QED
    BY <1>2, <1>3, KindsApart DEF PutItem

\* The bucket items change when a call writes and when one expires.
LEMMA CallStepItems ==
    ASSUME TypesInv, NEW r \in Requests, CallStep(r)
    PROVE  /\ clock' = clock
           /\ \/ UNCHANGED <<bucket, oldBucket, regress>>
              \/ /\ At(r, "write") /\ call'[r] = Idle
                 /\ regress[call[r].user] + Back(call[r].user, call[r].now) <= MaxRegress
                 /\ regress' = [regress EXCEPT ![call[r].user] =
                                  regress[call[r].user] + Back(call[r].user, call[r].now)]
                 /\ bucket' = [bucket EXCEPT ![call[r].user] = PutItem(r)]
                 /\ oldBucket' = [oldBucket EXCEPT ![call[r].user] = bucket[call[r].user]]
           /\ \/ UNCHANGED granted
              \/ WriteAllowed(r)
           /\ \/ UNCHANGED <<block, oldBlock>>
              \/ At(r, "delete") /\ StoreBlock(call[r].user, NoBlock)
           /\ blockPromise' = blockPromise
           /\ disturbed \subseteq disturbed'
           /\ disturbed' \subseteq disturbed \cup {call[r].user}
  <1>1. Return(r) => call'[r] = Idle
    BY DEF Return, TypesInv
  <1>2. CASE WriteDenied(r) \/ WriteAllowed(r) \/ Raise(r)
    <2>1. \/ UNCHANGED <<bucket, oldBucket, regress>>
          \/ At(r, "write") /\ Put(r) /\ call'[r] = Idle
      BY <1>1, <1>2 DEF WriteDenied, WriteAllowed, Raise
    <2>2. /\ UNCHANGED <<clock, block, oldBlock, blockPromise, disturbed>>
          /\ UNCHANGED granted \/ WriteAllowed(r)
      BY <1>2 DEF WriteDenied, WriteAllowed, Raise
    <2> QED
      BY <2>1, <2>2 DEF Put, PutItem
  <1>3. CASE ReadBlock(r) \/ ReadBucket(r)
    BY <1>3 DEF ReadBlock, ReadBucket, ReadOf
  <1>4. CASE DeleteBlock(r)
    BY <1>4 DEF DeleteBlock
  <1> QED
    BY <1>2, <1>3, <1>4 DEF CallStep

-----------------------------------------------------------------------------
(* Types and times.                                                         *)

\* A step of a call.
LEMMA CallStepTypes ==
    ASSUME TypesInv, NEW r \in Requests, CallStep(r)
    PROVE  TypesInv'
  <1>1. PICK new \in {Idle} \cup CallRecords : Becomes(r, new)
    BY CallMoves
  <1>2. call' \in [Requests -> {Idle} \cup CallRecords]
    BY <1>1 DEF TypesInv, Becomes
  <1>3. call[r].user \in Users /\ call[r] \in CallRecords
    BY CallMoves DEF CallRecords
  <1>4. bucket' \in [Users -> Items] /\ oldBucket' \in [Users -> Items]
    BY <1>3, CallStepItems, PutType, KindsApart DEF TypesInv
  <1>7. regress' \in [Users -> Nat] /\ \A u \in Users : regress'[u] <= MaxRegress
    BY <1>3, CallStepItems, PutType DEF TypesInv
  <1>5. granted' \in [Users -> Nat] /\ \A u \in Users : granted'[u] <= MaxGrants
    <2>1. CASE UNCHANGED granted
      BY <2>1 DEF TypesInv
    <2>2. CASE WriteAllowed(r)
      <3>1. /\ granted[call[r].user] < MaxGrants
            /\ granted' = [granted EXCEPT ![call[r].user] = granted[call[r].user] + 1]
        BY <2>2 DEF WriteAllowed
      <3> QED
        BY <1>3, <3>1, DynamoAssumption DEF TypesInv
    <2> QED
      BY <2>1, <2>2, CallStepItems
  <1>6. /\ block' \in [Users -> Nat \cup {NoBlock}]
        /\ oldBlock' \in [Users -> Nat \cup {NoBlock}]
    BY <1>3, CallStepItems DEF TypesInv, StoreBlock
  <1> QED
    BY <1>2, <1>3, <1>4, <1>5, <1>6, <1>7, CallStepItems DEF TypesInv

\* Every step keeps the types.
LEMMA TypesStep ==
    ASSUME TypesInv, [Next]_dynamoVars
    PROVE  TypesInv'
  <1>1. ASSUME NEW r \in Requests, CallStep(r) PROVE TypesInv'
    BY <1>1, CallStepTypes
  <1>2. ASSUME NEW r \in Requests, NEW u \in Users, Start(r, u) PROVE TypesInv'
    <2> DEFINE new == [pc |-> "block", user |-> u, now |-> LocalTime(r), level |-> 0]
    <2>1. new \in CallRecords
      BY BucketAssumption, LocalTimeNat DEF CallRecords, Working
    <2>2. call' = [call EXCEPT ![r] = new]
      BY <1>2 DEF Start
    <2>3. call' \in [Requests -> {Idle} \cup CallRecords]
      BY <2>1, <2>2 DEF TypesInv
    <2> QED
      BY <1>2, <2>3 DEF Start, Overlapped, TypesInv
  <1>4. ASSUME NEW r \in Requests, NEW u \in Users, BlockUser(r, u) PROVE TypesInv'
    <2>1. /\ block' \in [Users -> Nat \cup {NoBlock}]
          /\ oldBlock' \in [Users -> Nat \cup {NoBlock}]
          /\ blockPromise' \in [Users -> Nat \cup {NoBlock}]
      BY <1>4, LocalTimeNat, DynamoAssumption DEF BlockUser, StoreBlock, TypesInv
    <2> QED
      BY <1>4, <2>1 DEF BlockUser, Overlapped, TypesInv
  <1>5. ASSUME NEW u \in Users, UnblockUser(u) PROVE TypesInv'
    BY <1>5 DEF UnblockUser, StoreBlock, TypesInv
  <1>6. ASSUME NEW u \in Users, Replicate(u) \/ ExpireBucket(u) \/ ExpireBlock(u)
        PROVE  TypesInv'
    BY <1>6 DEF Replicate, ExpireBucket, ExpireBlock, StoreBlock, TypesInv, Items
  <1>7. CASE Tick
    BY <1>7, DynamoAssumption DEF Tick, TypesInv
  <1>8. CASE UNCHANGED dynamoVars
    BY <1>8 DEF dynamoVars, TypesInv
  <1> QED
    BY <1>1, <1>2, <1>4, <1>5, <1>6, <1>7, <1>8 DEF Next, CallStep

\* Every step keeps the times of the calls.
LEMMA TimesStep ==
    ASSUME TypesInv, TimesInv, [Next]_dynamoVars
    PROVE  TimesInv'
  <1>1. ASSUME NEW r \in Requests, CallStep(r) PROVE TimesInv'
    <2>1. PICK new \in {Idle} \cup CallRecords :
            Becomes(r, new) /\ (new # Idle => new.now = call[r].now)
      BY <1>1, CallMoves
    <2>2. call'[r] = new /\ \A q \in Requests \ {r} : call'[q] = call[q]
      BY <2>1, CallIs
    <2>3. call[r].pc \in Working /\ ~At(r, "idle") /\ clock' = clock
      BY <1>1, CallMoves, CallStepItems, KindsApart DEF At
    <2> QED
      BY <2>1, <2>2, <2>3, KindsApart DEF TimesInv, At, LocalTime
  <1>2. ASSUME NEW r \in Requests, NEW u \in Users, Start(r, u) PROVE TimesInv'
    <2> DEFINE new == [pc |-> "block", user |-> u, now |-> LocalTime(r), level |-> 0]
    <2>1. Becomes(r, new) /\ clock' = clock
      BY <1>2 DEF Start, Becomes
    <2>2. call'[r] = new /\ \A q \in Requests \ {r} : call'[q] = call[q]
      BY <2>1, CallIs
    <2>3. LocalTime(r) <= LocalTime(r) + CallTime /\ LocalTime(r) <= LocalTime(r)
      BY LocalTimeNat, DynamoAssumption
    <2>4. \A q \in Requests : LocalTime(q)' = LocalTime(q)
      BY <2>1 DEF LocalTime
    <2> QED
      BY <2>1, <2>2, <2>3, <2>4 DEF TimesInv, At
  <1>4. CASE UNCHANGED <<call, clock>>
    BY <1>4 DEF TimesInv, At, LocalTime
  <1>5. CASE Tick
    <2>1. clock' = clock + 1 /\ call' = call
          /\ \A r \in Requests : ~At(r, "idle") => LocalTime(r) < call[r].now + CallTime
      BY <1>5 DEF Tick
    <2>2. \A r \in Requests : ~At(r, "idle") => call[r].now \in Nat
      BY CallIs DEF CallRecords
    <2>3. \A r \in Requests : LocalTime(r) \in Nat /\ LocalTime(r)' = LocalTime(r) + 1
      BY <2>1, LocalTimeNat, DynamoAssumption DEF LocalTime, TypesInv
    <2> QED
      BY <2>1, <2>2, <2>3, DynamoAssumption DEF TimesInv, At
  <1> QED
    BY <1>1, <1>2, <1>4, <1>5
    DEF Next, CallStep, BlockUser, UnblockUser, Replicate, ExpireBucket, ExpireBlock, dynamoVars

\* Every step keeps the times of the items.
LEMMA ItemsStep ==
    ASSUME TypesInv, TimesInv, ItemsInv, [Next]_dynamoVars
    PROVE  ItemsInv'
  <1>1. ASSUME NEW r \in Requests, CallStep(r) PROVE ItemsInv'
    <2>1. clock' = clock
      BY <1>1, CallStepItems
    <2>2. CASE UNCHANGED bucket
      BY <2>1, <2>2 DEF ItemsInv
    <2>3. CASE bucket' = [bucket EXCEPT ![call[r].user] = PutItem(r)]
      <3>1. call[r] \in CallRecords /\ call[r].now <= LocalTime(r)
        BY <1>1, CallMoves, KindsApart DEF TimesInv, At
      <3>2. /\ call[r].now \in Nat /\ clock \in Nat /\ LocalTime(r) \in Nat
            /\ LocalTime(r) <= clock + MaxSkew /\ MaxSkew \in Nat
        BY <3>1, LocalTimeNat, DynamoAssumption DEF CallRecords, TypesInv
      <3>3. /\ call[r].now + BucketTTL <= LocalTime(r) + BucketTTL
            /\ call[r].now <= clock + MaxSkew
        BY <3>1, <3>2, DynamoAssumption
      <3>4. ASSUME NEW u \in Users, bucket'[u] # NoItem
            PROVE  bucket'[u].lastRefill <= clock + MaxSkew
                   /\ bucket'[u].lastRefill + BucketTTL <= bucket'[u].ttl
        <4>1. CASE u = call[r].user
          <5>1. bucket'[u] = PutItem(r)
            BY <2>3, <4>1 DEF TypesInv
          <5> QED
            BY <3>1, <3>3, <5>1, PutType
        <4>2. CASE u # call[r].user
          <5>1. bucket'[u] = bucket[u]
            BY <2>3, <4>2 DEF TypesInv
          <5> QED
            BY <3>4, <5>1 DEF ItemsInv
        <4> QED
          BY <4>1, <4>2
      <3> QED
        BY <2>1, <3>4 DEF ItemsInv
    <2> QED
      BY <1>1, <2>2, <2>3, CallStepItems
  <1>2. CASE UNCHANGED <<bucket, clock>>
    BY <1>2 DEF ItemsInv
  <1>3. ASSUME NEW u \in Users, ExpireBucket(u) PROVE ItemsInv'
    <2>1. bucket' = [bucket EXCEPT ![u] = NoItem] /\ clock' = clock
      BY <1>3 DEF ExpireBucket
    <2> QED
      BY <2>1 DEF ItemsInv, TypesInv
  <1>4. CASE Tick
    <2>1. clock' = clock + 1 /\ bucket' = bucket
      BY <1>4 DEF Tick
    <2>2. \A u \in Users : bucket[u] # NoItem => bucket[u].lastRefill \in Nat
      BY KindsApart DEF TypesInv, StoredItems
    <2> QED
      BY <2>1, <2>2, DynamoAssumption DEF ItemsInv, TypesInv
  <1> QED
    BY <1>1, <1>2, <1>3, <1>4
    DEF Next, CallStep, Start, BlockUser, UnblockUser, Replicate, ExpireBlock, dynamoVars

-----------------------------------------------------------------------------
(* Calls that follow one another.                                           *)

\* An undisturbed user was undisturbed before.
LEMMA DisturbedStays == [Next]_dynamoVars => disturbed \subseteq disturbed'
  <1>1. ASSUME NEW r \in Requests, CallStep(r) PROVE disturbed \subseteq disturbed'
    BY <1>1 DEF CallStep, ReadBlock, DeleteBlock, ReadBucket, WriteDenied, WriteAllowed, Raise,
                 ReadOf
  <1> QED
    BY <1>1 DEF Next, CallStep, Start, Overlapped, BlockUser, UnblockUser, Replicate,
           ExpireBucket, ExpireBlock, Tick, dynamoVars

\* What a step of a call does to the calls and items of one user.
LEMMA CallStepOf ==
    ASSUME TypesInv, NEW r \in Requests, CallStep(r), NEW u \in Users
    PROVE  /\ \A q \in Requests : Serves(q, u)' => Serves(q, u)
           /\ \A q \in Requests : q # r => call'[q] = call[q]
           /\ call[r].user # u =>
                /\ bucket'[u] = bucket[u] /\ regress'[u] = regress[u]
                /\ granted'[u] = granted[u] /\ block'[u] = block[u]
           /\ call[r].user = u =>
                /\ Serves(r, u)
                /\ \/ bucket'[u] = bucket[u] /\ regress'[u] = regress[u]
                   \/ /\ bucket'[u] = PutItem(r)
                      /\ regress'[u] = regress[u] + Back(u, call[r].now)
                      /\ At(r, "write") /\ call'[r] = Idle
  <1>1. PICK new \in {Idle} \cup CallRecords :
          Becomes(r, new) /\ (new # Idle => new.user = call[r].user)
    BY CallMoves
  <1>2. call'[r] = new /\ \A q \in Requests \ {r} : call'[q] = call[q]
    BY <1>1, CallIs
  <1>3. Idle.pc = "idle" /\ call[r].pc # "idle" /\ call[r].user \in Users
    BY CallMoves, KindsApart DEF CallRecords
  <1>4. \A q \in Requests : Serves(q, u)' => Serves(q, u)
    BY <1>1, <1>2, <1>3 DEF Serves, At
  <1>6. call[r].user # u =>
          /\ bucket'[u] = bucket[u] /\ regress'[u] = regress[u]
          /\ granted'[u] = granted[u] /\ block'[u] = block[u]
    <2>1. WriteAllowed(r) =>
            granted' = [granted EXCEPT ![call[r].user] = granted[call[r].user] + 1]
      BY DEF WriteAllowed
    <2> QED
      BY <1>3, <2>1, CallStepItems DEF TypesInv, StoreBlock
  <1>7. call[r].user = u =>
          /\ Serves(r, u)
          /\ \/ bucket'[u] = bucket[u] /\ regress'[u] = regress[u]
             \/ /\ bucket'[u] = PutItem(r)
                /\ regress'[u] = regress[u] + Back(u, call[r].now)
                /\ At(r, "write") /\ call'[r] = Idle
    BY <1>3, CallStepItems DEF Serves, At, TypesInv
  <1> QED
    BY <1>2, <1>4, <1>6, <1>7

\* What a starting call does to the calls of one user.
LEMMA StartOf ==
    ASSUME TypesInv, NEW r \in Requests, NEW v \in Users, Start(r, v), NEW u \in Users
    PROVE  /\ UNCHANGED <<clock, bucketVars, blockVars>>
           /\ call'[r].pc = "block" /\ call'[r].now = LocalTime(r)
           /\ \A q \in Requests : q # r => call'[q] = call[q]
           /\ \A q \in Requests : Serves(q, u)' => Serves(q, u) \/ (q = r /\ u = v)
           /\ ~Serves(r, u)
           /\ u = v /\ u \notin disturbed' => \A q \in Requests : ~Serves(q, u)
  <1> DEFINE new == [pc |-> "block", user |-> v, now |-> LocalTime(r), level |-> 0]
  <1>1. Becomes(r, new) /\ At(r, "idle")
    BY DEF Start, Becomes
  <1>2. call'[r] = new /\ \A q \in Requests \ {r} : call'[q] = call[q]
    BY <1>1, CallIs
  <1>3. ~Serves(r, u)
    BY <1>1 DEF Serves
  <1>4. \A q \in Requests : Serves(q, u)' => Serves(q, u) \/ (q = r /\ u = v)
    BY <1>2 DEF Serves, At
  <1>5. u = v /\ u \notin disturbed' => \A q \in Requests : ~Serves(q, u)
    BY DEF Start, Overlapped
  <1> QED
    BY <1>2, <1>3, <1>4, <1>5 DEF Start

\* What the other steps leave of one user's calls and items.
Outside ==
    \/ \E r \in Requests, u \in Users : BlockUser(r, u)
    \/ \E u \in Users : UnblockUser(u) \/ Replicate(u) \/ ExpireBucket(u) \/ ExpireBlock(u)
    \/ Tick
    \/ UNCHANGED dynamoVars

\* What everything outside the threads may change of one user.
LEMMA OutsideOf ==
    ASSUME TypesInv, Outside, NEW u \in Users
    PROVE  /\ UNCHANGED <<call, granted, regress>>
           /\ \A q \in Requests : Serves(q, u)' <=> Serves(q, u)
           /\ clock' \in {clock, clock + 1}
           /\ \/ bucket'[u] = bucket[u]
              \/ /\ bucket[u] # NoItem /\ bucket[u].ttl < clock + TableSkew
                 /\ bucket'[u] = NoItem /\ clock' = clock
  <1>1. UNCHANGED <<call, granted, regress>>
    BY DEF Outside, BlockUser, UnblockUser, Replicate, ExpireBucket, ExpireBlock, Tick, dynamoVars
  <1>2. clock' \in {clock, clock + 1}
    BY DEF Outside, BlockUser, UnblockUser, Replicate, ExpireBucket, ExpireBlock, Tick, dynamoVars
  <1>3. CASE \E v \in Users : ExpireBucket(v)
    BY <1>1, <1>2, <1>3 DEF ExpireBucket, TypesInv, Serves, At
  <1>4. CASE ~\E v \in Users : ExpireBucket(v)
    <2>1. bucket' = bucket
      BY <1>4 DEF Outside, BlockUser, UnblockUser, Replicate, ExpireBlock, Tick, dynamoVars
    <2> QED
      BY <1>1, <1>2, <2>1 DEF Serves, At
  <1> QED
    BY <1>3, <1>4

\* The kinds of steps.
LEMMA StepKinds ==
    ASSUME [Next]_dynamoVars
    PROVE  \/ \E r \in Requests : CallStep(r)
           \/ \E r \in Requests, u \in Users : Start(r, u)
           \/ Outside
  BY DEF Next, CallStep, Outside

\* The calls of an undisturbed user go on following one another.
LEMMA OneByOneStep ==
    ASSUME DynamoInv, [Next]_dynamoVars, NEW u \in Users, u \notin disturbed'
    PROVE  OneByOne(u)'
  <1>1. u \notin disturbed /\ OneByOne(u) /\ TypesInv
    BY DisturbedStays DEF DynamoInv, SerialInv
  <1>2. ASSUME NEW r \in Requests, CallStep(r) PROVE OneByOne(u)'
    BY <1>1, <1>2, CallStepOf DEF OneByOne
  <1>3. ASSUME NEW r \in Requests, NEW v \in Users, Start(r, v) PROVE OneByOne(u)'
    BY <1>1, <1>3, StartOf DEF OneByOne
  <1>5. CASE Outside
    BY <1>1, <1>5, OutsideOf DEF OneByOne
  <1> QED
    BY <1>2, <1>3, <1>5, StepKinds

\* A call that is still at work has no earlier stamp than Earliest.
LEMMA StampsAreRecent ==
    ASSUME TypesInv, TimesInv, NEW r \in Requests, call[r].pc \in Working
    PROVE  Earliest \in Nat /\ call[r].now \in Nat /\ Earliest <= call[r].now
  <1>1. ~At(r, "idle") /\ call[r] \in CallRecords
    BY CallIs, KindsApart DEF At
  <1>2. call[r].now \in Nat /\ LocalTime(r) <= call[r].now + CallTime
    BY <1>1 DEF CallRecords, TimesInv
  <1>3. clock \in Nat /\ CallTime \in Nat /\ LocalTime(r) \in Nat /\ clock <= LocalTime(r)
    BY LocalTimeNat, DynamoAssumption DEF TypesInv
  <1> QED
    BY <1>2, <1>3 DEF Earliest

\* What a call reads of an undisturbed bucket is paid for at the call's time.
LEMMA ReadIsPaid ==
    ASSUME DynamoInv, NEW u \in Users, u \notin disturbed, NEW r \in Requests,
           Serves(r, u), call[r].pc \in Working
    PROVE  granted[u] * Unit + LevelOf(bucket[u], call[r].now)
             <= Capacity + Rate * Counted(u, call[r].now)
  <1>1. TypesInv /\ TimesInv /\ Paid(u)
    BY DEF DynamoInv, SerialInv
  <1>2. PICK g \in Nat, now \in Nat, more \in Nat :
          g = granted[u] /\ now = call[r].now /\ more = regress[u]
    BY <1>1, StampsAreRecent DEF TypesInv
  <1>3. g * Unit \in Nat
    BY UnitProduct
  <1>4. CASE bucket[u] = NoItem
    <2>1. PICK early \in Nat : early = Earliest /\ early <= now
      BY <1>1, <1>2, StampsAreRecent
    <2>2. Rate * (early + more) <= Rate * (now + more) /\ Rate * (early + more) \in Nat
          /\ Rate * (now + more) \in Nat
      <3>1. PICK a \in Nat, b \in Nat : a = early + more /\ b = now + more
        OBVIOUS
      <3>2. a <= b
        BY <2>1, <3>1
      <3>3. Rate * a <= Rate * b /\ Rate * a \in Nat /\ Rate * b \in Nat
        BY <3>2, RateMonotone, ProductNat, BucketAssumption
      <3> QED
        BY <3>1, <3>3
    <2>3. g * Unit <= Rate * (early + more)
      BY <1>1, <1>2, <1>4, <2>1 DEF Paid
    <2>4. LevelOf(bucket[u], now) = Capacity
      BY <1>4, FullLevel DEF LevelOf
    <2>5. Counted(u, now) = now + more
      BY <1>2, <1>4 DEF Counted, Back
    <2> QED
      BY <1>2, <1>3, <2>2, <2>3, <2>4, <2>5, BucketAssumption
  <1>5. CASE bucket[u] # NoItem
    <2>1. PICK tokens, last : tokens = bucket[u].tokens /\ last = bucket[u].lastRefill
      OBVIOUS
    <2>2. tokens \in 0..Capacity /\ last \in Nat
      BY <1>1, <1>5, <2>1, KindsApart DEF TypesInv, StoredItems
    <2>3. g * Unit + tokens <= Capacity + Rate * (last + more)
      BY <1>1, <1>2, <1>5, <2>1 DEF Paid
    <2>4. g * Unit + Refilled(tokens, last, now)
            <= Capacity + Rate * (now + more + Elapsed(now, last))
      BY <1>3, <2>2, <2>3, RefillPaid
    <2>5. LevelOf(bucket[u], now) = Refilled(tokens, last, now)
      BY <1>5, <2>1 DEF LevelOf
    <2>6. Counted(u, now) = now + more + Elapsed(now, last)
      BY <1>2, <1>5, <2>1 DEF Counted, Back
    <2> QED
      BY <1>2, <2>4, <2>5, <2>6
  <1> QED
    BY <1>4, <1>5

\* A write of an undisturbed user's call: the token of an admission is taken from
\* what was paid for.
LEMMA WriteIsPaid ==
    ASSUME DynamoInv, NEW u \in Users, u \notin disturbed, NEW r \in Requests,
           CallStep(r), Serves(r, u), At(r, "write")
    PROVE  granted'[u] * Unit + Spend(call[r].level)
             <= Capacity + Rate * Counted(u, call[r].now)
  <1>1. TypesInv /\ Paid(u)
    BY DEF DynamoInv, SerialInv
  <1>2. call[r] \in CallRecords /\ call[r].user = u
    BY <1>1, CallMoves DEF Serves
  <1>3. PICK g \in Nat, level \in 0..Capacity, most \in Nat :
          g = granted[u] /\ level = call[r].level /\ most = Counted(u, call[r].now)
    <2>1. Back(u, call[r].now) \in Nat /\ regress[u] \in Nat /\ call[r].now \in Nat
      BY <1>1, <1>2, PutType DEF TypesInv, CallRecords
    <2>2. Counted(u, call[r].now) \in Nat
      BY <2>1 DEF Counted
    <2> QED
      BY <1>1, <1>2, <2>2 DEF TypesInv, CallRecords
  <1>4. g * Unit + level <= Capacity + Rate * most
    BY <1>1, <1>3 DEF Paid
  <1>5. g * Unit \in Nat /\ Rate * most \in Nat /\ (g + 1) * Unit = g * Unit + Unit
    BY AnotherGrant, ProductNat, BucketAssumption
  <1>6. CASE WriteAllowed(r)
    <2>1. granted'[u] = g + 1 /\ HasToken(level)
      BY <1>1, <1>2, <1>3, <1>6 DEF WriteAllowed, TypesInv
    <2>2. Spend(level) = level - Unit
      BY <2>1 DEF Spend
    <2> QED
      BY <1>3, <1>4, <1>5, <2>1, <2>2, BucketAssumption
  <1>7. CASE granted' = granted
    <2>1. Spend(level) <= level /\ Spend(level) \in Int
      BY BucketAssumption DEF Spend
    <2> QED
      BY <1>3, <1>4, <1>5, <1>7, <2>1, BucketAssumption
  <1> QED
    BY <1>1, <1>6, <1>7, CallStepItems

\* A step of an undisturbed user's call.
LEMMA CallStepPaid ==
    ASSUME DynamoInv, NEW u \in Users, u \notin disturbed', u \notin disturbed,
           NEW r \in Requests, CallStep(r), call[r].user = u
    PROVE  Paid(u)'
  <1>1. TypesInv /\ TimesInv /\ OneByOne(u) /\ Paid(u) /\ clock' = clock
    BY CallStepItems DEF DynamoInv, SerialInv
  <1>2. /\ call[r] \in CallRecords /\ call[r].pc \in Working /\ Serves(r, u)
        /\ \A q \in Requests : Serves(q, u)' => Serves(q, u)
    BY <1>1, CallMoves, CallStepOf
  <1>3. PICK new \in {Idle} \cup CallRecords :
          /\ Becomes(r, new)
          /\ new # Idle => new.user = u /\ new.now = call[r].now
          /\ new.pc = "write" =>
               \E item \in {bucket[u], oldBucket[u]} :
                  /\ new.level = LevelOf(item, call[r].now)
                  /\ item # bucket[u] => u \in disturbed'
          /\ ReadBucket(r) => new.pc = "write"
    BY <1>1, CallMoves
  <1>4. call'[r] = new
    BY <1>1, <1>3, CallIs
  <1>5. ASSUME bucket'[u] = bucket[u], granted'[u] = granted[u], regress'[u] = regress[u]
        PROVE  Paid(u)'
    <2>1. \A now : Counted(u, now)' = Counted(u, now)
      BY <1>5 DEF Counted, Back
    <2>2. ASSUME NEW q \in Requests, Serves(q, u)', At(q, "write")'
          PROVE  granted'[u] * Unit + call'[q].level <= Capacity + Rate * Counted(u, call[q].now)'
      <3>1. q = r
        BY <1>1, <1>2, <2>2 DEF OneByOne
      <3>2. new.level = LevelOf(bucket[u], call[r].now) /\ new.now = call[r].now
        BY <1>3, <1>4, <2>2, <3>1, KindsApart DEF At
      <3>3. Counted(u, call[q].now)' = Counted(u, call[r].now)
        BY <1>4, <1>5, <3>1, <3>2 DEF Counted, Back
      <3> QED
        BY <1>2, <1>4, <1>5, <3>1, <3>2, <3>3, ReadIsPaid
    <2> QED
      BY <1>1, <1>5, <2>2 DEF Paid, Earliest
  <1>6. ASSUME At(r, "write"), bucket'[u] = PutItem(r), call'[r] = Idle,
               regress'[u] = regress[u] + Back(u, call[r].now)
        PROVE  Paid(u)'
    <2>1. /\ bucket'[u] # NoItem /\ bucket'[u].tokens = Spend(call[r].level)
          /\ bucket'[u].lastRefill = call[r].now
      BY <1>1, <1>2, <1>6, PutType
    <2>2. bucket'[u].lastRefill + regress'[u] = Counted(u, call[r].now)
      <3>1. call[r].now \in Nat /\ regress[u] \in Nat /\ Back(u, call[r].now) \in Nat
        BY <1>1, <1>2, PutType DEF TypesInv, CallRecords, Serves
      <3> QED
        BY <1>6, <2>1, <3>1 DEF Counted
    <2>3. granted'[u] * Unit + bucket'[u].tokens
            <= Capacity + Rate * (bucket'[u].lastRefill + regress'[u])
      BY <1>2, <1>6, <2>1, <2>2, WriteIsPaid
    <2>4. \A q \in Requests : Serves(q, u)' => ~At(q, "write")'
      BY <1>1, <1>2, <1>6, KindsApart DEF OneByOne, At
    <2> QED
      BY <2>1, <2>3, <2>4 DEF Paid
  <1>7. \/ /\ At(r, "write") /\ bucket'[u] = PutItem(r) /\ call'[r] = Idle
           /\ regress'[u] = regress[u] + Back(u, call[r].now)
        \/ bucket'[u] = bucket[u] /\ granted'[u] = granted[u] /\ regress'[u] = regress[u]
    <2>1. u \in Users /\ bucket \in [Users -> Items] /\ regress \in [Users -> Nat]
      BY <1>1 DEF TypesInv
    <2>2. CASE WriteAllowed(r)
      <3>1. /\ At(r, "write") /\ bucket' = [bucket EXCEPT ![u] = PutItem(r)]
            /\ regress' = [regress EXCEPT ![u] = regress[u] + Back(u, call[r].now)]
        BY <2>2 DEF WriteAllowed, Put, PutItem
      <3>2. call'[r] = Idle
        BY <1>1, <2>2 DEF WriteAllowed, Return, TypesInv
      <3> QED
        BY <2>1, <3>1, <3>2
    <2>3. CASE UNCHANGED granted
      BY <1>1, <2>3, CallStepOf
    <2> QED
      BY <1>1, <2>2, <2>3, CallStepItems
  <1> QED
    BY <1>5, <1>6, <1>7

\* An undisturbed user's admissions stay paid for when its item and its calls stay, and
\* time may pass.
LEMMA StillPaid ==
    ASSUME TypesInv, NEW u \in Users, Paid(u), clock' \in {clock, clock + 1},
           bucket'[u] = bucket[u], granted'[u] = granted[u], regress'[u] = regress[u],
           \A q \in Requests : Serves(q, u)' /\ At(q, "write")' =>
             Serves(q, u) /\ call'[q] = call[q]
    PROVE  Paid(u)'
  <1>1. \A now : Counted(u, now)' = Counted(u, now)
    BY DEF Counted, Back
  <1>2. ASSUME NEW q \in Requests, Serves(q, u)', At(q, "write")'
        PROVE  granted'[u] * Unit + call'[q].level <= Capacity + Rate * Counted(u, call[q].now)'
    <2>1. Serves(q, u) /\ call'[q] = call[q] /\ At(q, "write")
      BY <1>2 DEF At
    <2>2. Counted(u, call[q].now)' = Counted(u, call[q].now)
      BY <2>1 DEF Counted, Back
    <2> QED
      BY <2>1, <2>2 DEF Paid
  <1>3. ASSUME bucket[u] = NoItem
        PROVE  granted[u] * Unit <= Rate * (Earliest' + regress[u])
    <2>1. PICK c \in Nat, limit \in Nat, g \in Nat, more \in Nat :
            c = clock /\ limit = CallTime /\ g = granted[u] /\ more = regress[u]
      BY DynamoAssumption DEF TypesInv
    <2>2. PICK d \in Nat : d = clock' /\ c <= d
      BY <2>1
    <2>3. PICK a \in Nat, b \in Nat : a = Earliest + more /\ b = Earliest' + more /\ a <= b
      <3>1. Earliest = IF c > limit THEN c - limit ELSE 0
        BY <2>1 DEF Earliest
      <3>2. Earliest' = IF d > limit THEN d - limit ELSE 0
        BY <2>1, <2>2 DEF Earliest
      <3> QED
        BY <2>2, <3>1, <3>2
    <2>4. Rate * a <= Rate * b /\ Rate * a \in Nat /\ Rate * b \in Nat
      BY <2>3, RateMonotone, ProductNat, BucketAssumption
    <2>5. g * Unit <= Rate * a /\ g * Unit \in Nat
      BY <1>3, <2>1, <2>3, UnitProduct DEF Paid
    <2> QED
      BY <2>1, <2>3, <2>4, <2>5
  <1> QED
    BY <1>2, <1>3 DEF Paid

\* An expired item had been full: the user's admissions stay paid for without it.
LEMMA ExpiryIsPaid ==
    ASSUME DynamoInv, NEW u \in Users, u \notin disturbed,
           bucket[u] # NoItem, bucket[u].ttl < clock + TableSkew, bucket'[u] = NoItem,
           UNCHANGED <<clock, call, granted, regress>>
    PROVE  Paid(u)'
  <1>1. TypesInv /\ TimesInv /\ ItemsInv /\ Paid(u)
    BY DEF DynamoInv, SerialInv
  <1>2. PICK g \in Nat, more \in Nat, c \in Nat :
          g = granted[u] /\ more = regress[u] /\ c = clock
    BY <1>1 DEF TypesInv
  <1>3. PICK tokens, last, ttl :
          tokens = bucket[u].tokens /\ last = bucket[u].lastRefill /\ ttl = bucket[u].ttl
    OBVIOUS
  <1>4. tokens \in 0..Capacity /\ last \in Nat /\ ttl \in Nat
    BY <1>1, <1>3, KindsApart DEF TypesInv, StoredItems
  <1>5. last + BucketTTL < c + TableSkew
    BY <1>1, <1>2, <1>3, <1>4, DynamoAssumption DEF ItemsInv
  <1>6. PICK early \in Nat :
          early = Earliest /\ Capacity + Rate * last <= Rate * early /\ last <= early
    <2>1. LET early == IF c > CallTime THEN c - CallTime ELSE 0
          IN  Capacity + Rate * last <= Rate * early /\ last <= early
      BY <1>4, <1>5, ExpiredIsFull
    <2>2. Earliest \in Nat
      BY <1>2, DynamoAssumption DEF Earliest
    <2> QED
      BY <1>2, <2>1, <2>2 DEF Earliest
  <1>7. g * Unit + tokens <= Capacity + Rate * (last + more)
    BY <1>1, <1>2, <1>3 DEF Paid
  <1>8. /\ Rate * (last + more) = Rate * last + Rate * more
        /\ Rate * (early + more) = Rate * early + Rate * more
        /\ Rate * last \in Nat /\ Rate * more \in Nat /\ Rate * early \in Nat
    BY <1>4, RateSum
  <1>9. g * Unit <= Rate * (early + more)
    <2>1. g * Unit \in Nat
      BY UnitProduct
    <2> QED
      BY <1>4, <1>6, <1>7, <1>8, <2>1, BucketAssumption
  <1>10. Earliest' = early
    BY <1>6 DEF Earliest
  <1>11. ASSUME NEW q \in Requests, Serves(q, u)', At(q, "write")'
         PROVE  granted'[u] * Unit + call'[q].level <= Capacity + Rate * Counted(u, call[q].now)'
    <2>1. Serves(q, u) /\ At(q, "write") /\ call'[q] = call[q]
      BY <1>11 DEF Serves, At
    <2>2. call[q].now \in Nat /\ early <= call[q].now
      BY <1>1, <1>6, <2>1, StampsAreRecent DEF At, Working
    <2>3. Elapsed(call[q].now, last) = 0
      BY <1>4, <1>6, <2>2 DEF Elapsed
    <2>4. Back(u, call[q].now) = 0
      BY <1>3, <2>3 DEF Back
    <2>5. Counted(u, call[q].now)' = Counted(u, call[q].now)
      BY <2>1, <2>4 DEF Counted, Back
    <2> QED
      BY <1>1, <2>1, <2>5 DEF Paid
  <1> QED
    BY <1>2, <1>9, <1>10, <1>11, <1>6 DEF Paid

\* An undisturbed user's admissions stay paid for.
LEMMA PaidStep ==
    ASSUME DynamoInv, [Next]_dynamoVars, NEW u \in Users, u \notin disturbed'
    PROVE  Paid(u)'
  <1>1. u \notin disturbed /\ Paid(u) /\ TypesInv
    BY DisturbedStays DEF DynamoInv, SerialInv
  <1>2. ASSUME NEW r \in Requests, CallStep(r) PROVE Paid(u)'
    <2>1. CASE call[r].user = u
      BY <1>1, <1>2, <2>1, CallStepPaid
    <2>2. CASE call[r].user # u
      <3>1. /\ bucket'[u] = bucket[u] /\ granted'[u] = granted[u]
            /\ regress'[u] = regress[u] /\ clock' = clock
        BY <1>1, <1>2, <2>2, CallStepOf, CallStepItems
      <3>2. \A q \in Requests : Serves(q, u)' => Serves(q, u) /\ call'[q] = call[q]
        BY <1>1, <1>2, <2>2, CallStepOf DEF Serves
      <3> QED
        BY <1>1, <3>1, <3>2, StillPaid
    <2> QED
      BY <2>1, <2>2
  <1>3. ASSUME NEW r \in Requests, NEW v \in Users, Start(r, v) PROVE Paid(u)'
    <2>1. UNCHANGED <<clock, bucketVars>>
      BY <1>1, <1>3, StartOf
    <2>2. \A q \in Requests : Serves(q, u)' /\ At(q, "write")' => Serves(q, u) /\ call'[q] = call[q]
      BY <1>1, <1>3, StartOf DEF At
    <2> QED
      BY <1>1, <2>1, <2>2, StillPaid
  <1>5. CASE Outside
    <2>1. /\ UNCHANGED <<call, granted, regress>> /\ clock' \in {clock, clock + 1}
          /\ \A q \in Requests : Serves(q, u)' <=> Serves(q, u)
          /\ \/ bucket'[u] = bucket[u]
             \/ /\ bucket[u] # NoItem /\ bucket[u].ttl < clock + TableSkew
                /\ bucket'[u] = NoItem /\ clock' = clock
      BY <1>1, <1>5, OutsideOf
    <2>2. CASE bucket'[u] = bucket[u]
      BY <1>1, <2>1, <2>2, StillPaid
    <2>3. CASE bucket'[u] # bucket[u]
      BY <1>1, <2>1, <2>3, ExpiryIsPaid
    <2> QED
      BY <2>2, <2>3
  <1> QED
    BY <1>2, <1>3, <1>5, StepKinds

\* A step of a call keeps the promised block: a call deletes only an item it has found
\* expired, and none that finds the block gets past it.
LEMMA CallKeepsBlock ==
    ASSUME DynamoInv, NEW u \in Users, u \notin disturbed', u \notin disturbed,
           NEW r \in Requests, CallStep(r)
    PROVE  BlockKept(u)'
  <1>1. TypesInv /\ TimesInv /\ BlockKept(u)
    BY DEF DynamoInv, SerialInv
  <1>2. SUFFICES ASSUME blockPromise[u] > clock + MaxSkew
                 PROVE  /\ block'[u] = blockPromise[u]
                        /\ \A q \in Requests : Serves(q, u)' => At(q, "block")'
    BY <1>1, CallStepItems DEF BlockKept, At
  <1>3. /\ block[u] = blockPromise[u]
        /\ \A q \in Requests : Serves(q, u) => At(q, "block")
    BY <1>1, <1>2 DEF BlockKept, At
  <1>4. CASE call[r].user # u
    BY <1>1, <1>3, <1>4, CallStepOf DEF Serves, At
  <1>5. CASE call[r].user = u
    <2>1. Serves(r, u) /\ call[r] \in CallRecords /\ call[r].pc \in Working
      BY <1>1, <1>5, CallStepOf, CallMoves
    <2>2. call[r].pc = "block"
      BY <1>3, <2>1 DEF Working, At
    <2>3. PICK new \in {Idle} \cup CallRecords :
            /\ Becomes(r, new)
            /\ new # Idle =>
                 \E item \in {block[u], oldBlock[u]} :
                    ~RecordActive(item, call[r].now) /\ (item # block[u] => u \in disturbed')
      BY <1>1, <1>5, <2>2, CallMoves
    <2>4. RecordActive(block[u], call[r].now)
      <3>1. call[r].now \in Nat /\ call[r].now <= LocalTime(r)
        BY <1>1, <2>1, KindsApart DEF TimesInv, CallRecords, At
      <3>2. /\ LocalTime(r) \in Nat /\ LocalTime(r) <= clock + MaxSkew
            /\ clock \in Nat /\ MaxSkew \in Nat /\ blockPromise[u] \in Nat \cup {NoBlock}
        BY <1>1, LocalTimeNat, DynamoAssumption DEF TypesInv
      <3> QED
        BY <1>2, <1>3, <3>1, <3>2 DEF RecordActive, NoBlock
    <2>5. new = Idle
      BY <2>3, <2>4
    <2>6. block' = block
      BY <1>1, <2>2, CallStepItems DEF At
    <2> QED
      BY <1>1, <1>3, <2>3, <2>5, <2>6, CallIs, CallStepOf, KindsApart DEF Serves, At
  <1> QED
    BY <1>4, <1>5

\* The promised blocks of an undisturbed user stay.
LEMMA BlockKeptStep ==
    ASSUME DynamoInv, [Next]_dynamoVars, NEW u \in Users, u \notin disturbed'
    PROVE  BlockKept(u)'
  <1>1. /\ u \notin disturbed /\ BlockKept(u) /\ TypesInv /\ clock \in Nat
        /\ blockPromise[u] \in Nat \cup {NoBlock} /\ block[u] \in Nat \cup {NoBlock}
        /\ MaxSkew \in Nat /\ TableSkew \in 0..MaxSkew
    BY DisturbedStays, DynamoAssumption DEF DynamoInv, SerialInv, TypesInv
  <1>2. ASSUME NEW r \in Requests, CallStep(r) PROVE BlockKept(u)'
    BY <1>1, <1>2, CallKeepsBlock
  <1>3. ASSUME NEW r \in Requests, NEW v \in Users, Start(r, v) PROVE BlockKept(u)'
    <2>1. UNCHANGED <<block, blockPromise, clock>>
      BY <1>1, <1>3, StartOf
    <2>2. \A q \in Requests :
            Serves(q, u)' => call'[q].pc = "block" \/ (Serves(q, u) /\ call'[q] = call[q])
      BY <1>1, <1>3, StartOf
    <2> QED
      BY <1>1, <2>1, <2>2 DEF BlockKept, At
  <1>5. CASE Outside
    <2>1. /\ call' = call /\ \A q \in Requests : Serves(q, u)' <=> Serves(q, u)
      BY <1>1, <1>5, OutsideOf
    <2>2. CASE \E r \in Requests, v \in Users : BlockUser(r, v)
      <3>1. PICK r \in Requests, v \in Users : BlockUser(r, v)
        BY <2>2
      <3>2. /\ block' = [block EXCEPT ![v] = LocalTime(r) + BlockTTL]
            /\ blockPromise' = [blockPromise EXCEPT ![v] = LocalTime(r) + BlockTTL]
            /\ clock' = clock
        BY <3>1 DEF BlockUser, StoreBlock
      <3>3. CASE u = v
        <4>1. \A q \in Requests : ~Serves(q, u)
          BY <3>1, <3>3 DEF BlockUser, Overlapped
        <4>2. block'[u] = blockPromise'[u]
          BY <1>1, <3>2, <3>3 DEF TypesInv
        <4> QED
          BY <2>1, <4>1, <4>2 DEF BlockKept, At
      <3>4. CASE u # v
        BY <1>1, <2>1, <3>2, <3>4 DEF BlockKept, At, TypesInv
      <3> QED
        BY <3>3, <3>4
    <2>3. CASE \E v \in Users : UnblockUser(v)
      <3>1. PICK v \in Users : UnblockUser(v)
        BY <2>3
      <3>2. /\ block' = [block EXCEPT ![v] = NoBlock] /\ clock' = clock
            /\ blockPromise' = [blockPromise EXCEPT ![v] = NoBlock]
        BY <3>1 DEF UnblockUser, StoreBlock
      <3>3. CASE u = v
        <4>1. blockPromise'[u] = NoBlock
          BY <1>1, <3>2, <3>3 DEF TypesInv
        <4>2. ~(blockPromise'[u] > clock' + MaxSkew)
          BY <1>1, <3>2, <4>1 DEF NoBlock
        <4> QED
          BY <4>2 DEF BlockKept, At
      <3>4. CASE u # v
        BY <1>1, <2>1, <3>2, <3>4 DEF BlockKept, At, TypesInv
      <3> QED
        BY <3>3, <3>4
    <2>4. CASE \E v \in Users : ExpireBlock(v)
      <3>1. PICK v \in Users : ExpireBlock(v)
        BY <2>4
      <3>2. /\ block[v] < clock + TableSkew /\ block' = [block EXCEPT ![v] = NoBlock]
            /\ UNCHANGED <<clock, blockPromise>>
        BY <3>1 DEF ExpireBlock, StoreBlock
      <3>3. block'[u] = block[u] \/ block[u] < clock + TableSkew
        BY <1>1, <3>2 DEF TypesInv
      <3>4. block[u] = blockPromise[u] /\ blockPromise[u] > clock + MaxSkew =>
              block'[u] = block[u]
        BY <1>1, <3>3 DEF NoBlock
      <3> QED
        BY <1>1, <2>1, <3>2, <3>4 DEF BlockKept, At
    <2>5. CASE Tick
      <3>1. clock' = clock + 1 /\ UNCHANGED <<block, blockPromise>>
        BY <2>5 DEF Tick
      <3>2. blockPromise[u] > clock + 1 + MaxSkew => blockPromise[u] > clock + MaxSkew
        BY <1>1 DEF NoBlock
      <3> QED
        BY <1>1, <2>1, <3>1, <3>2 DEF BlockKept, At
    <2>6. CASE UNCHANGED <<block, blockPromise, clock>>
      BY <1>1, <2>1, <2>6 DEF BlockKept, At
    <2> QED
      BY <1>5, <2>2, <2>3, <2>4, <2>5, <2>6 DEF Outside, Replicate, ExpireBucket, dynamoVars
  <1> QED
    BY <1>2, <1>3, <1>5, StepKinds

-----------------------------------------------------------------------------
(* The theorems.                                                            *)

\* At first nothing is stored and nobody was admitted.
LEMMA DynamoInit == Init => DynamoInv
  <1> SUFFICES ASSUME Init PROVE DynamoInv
    OBVIOUS
  <1>1. TypesInv
    BY DynamoAssumption DEF Init, TypesInv, Items, NoBlock
  <1>2. \A r \in Requests : At(r, "idle")
    BY KindsApart DEF Init, At
  <1>3. TimesInv /\ ItemsInv
    BY <1>2 DEF Init, TimesInv, ItemsInv
  <1>4. ASSUME NEW u \in Users PROVE OneByOne(u) /\ Paid(u) /\ BlockKept(u)
    <2>1. \A r \in Requests : ~Serves(r, u)
      BY <1>2 DEF Serves
    <2>2. granted[u] * Unit <= Rate * (Earliest + regress[u])
      <3>1. granted[u] = 0 /\ Earliest = 0 /\ regress[u] = 0
        BY DynamoAssumption DEF Init, Earliest
      <3>2. 0 * Unit = 0 /\ Rate * (0 + 0) = 0
        BY BucketAssumption
      <3> QED
        BY <3>1, <3>2
    <2>3. ~(blockPromise[u] > clock + MaxSkew) /\ bucket[u] = NoItem
      BY DynamoAssumption DEF Init, NoBlock
    <2> QED
      BY <2>1, <2>2, <2>3 DEF OneByOne, Paid, BlockKept, At
  <1> QED
    BY <1>1, <1>3, <1>4 DEF DynamoInv, SerialInv

\* Every step keeps the invariant.
LEMMA DynamoStep == DynamoInv /\ [Next]_dynamoVars => DynamoInv'
  <1> SUFFICES ASSUME DynamoInv, [Next]_dynamoVars PROVE DynamoInv'
    OBVIOUS
  <1>1. TypesInv' /\ TimesInv' /\ ItemsInv'
    BY TypesStep, TimesStep, ItemsStep DEF DynamoInv
  <1>2. SerialInv'
    BY OneByOneStep, PaidStep, BlockKeptStep DEF SerialInv
  <1> QED
    BY <1>1, <1>2 DEF DynamoInv

\* The invariant holds of every history of the limiter.
LEMMA DynamoAlways == Spec => []DynamoInv
  BY DynamoInit, DynamoStep, PTL DEF Spec

\* Items, blocks and calls stay well typed through overlapping calls, stale reads,
\* exceptions and expiring items, for any users, threads, capacity and rate.
THEOREM DynamoTypeCorrect == Spec => []TypeOK
  <1>1. DynamoInv => TypeOK
    <2> SUFFICES ASSUME DynamoInv PROVE TypeOK
      OBVIOUS
    <2>1. TypesInv /\ TimesInv
      BY DEF DynamoInv
    <2>2. ASSUME NEW r \in Requests, ~At(r, "idle")
          PROVE  /\ call[r].pc \in {"block", "delete", "read", "write"}
                 /\ call[r].user \in Users
                 /\ call[r].now \in 0..LocalTime(r)
                 /\ call[r].level \in 0..Capacity
      <3>1. call[r] \in CallRecords /\ call[r].now <= LocalTime(r) /\ LocalTime(r) \in Nat
        BY <2>1, <2>2, CallIs, LocalTimeNat DEF TimesInv
      <3> QED
        BY <2>1, <3>1 DEF CallRecords, Working
    <2>3. /\ granted \in [Users -> 0..MaxGrants] /\ clock \in 0..MaxTime
          /\ regress \in [Users -> 0..MaxRegress]
      BY <2>1, DynamoAssumption DEF TypesInv
    <2> QED
      BY <2>1, <2>2, <2>3 DEF TypesInv, TypeOK
  <1> QED
    BY <1>1, DynamoAlways, PTL

\* Calls that follow one another on fresh items keep the promise of a token bucket, from
\* whatever processes with whatever clocks, for any parameters under which an item
\* outlives the refill: only overlapping calls and stale reads can admit too much.
THEOREM SerialPromise == Spec => []SerialCallsKeepPromise
  <1>1. DynamoInv => SerialCallsKeepPromise
    <2> SUFFICES ASSUME DynamoInv, NEW u \in Users, u \notin disturbed
                 PROVE  WithinPromise(u)
      BY DEF SerialCallsKeepPromise
    <2>1. Paid(u) /\ TypesInv /\ ItemsInv
      BY DEF DynamoInv, SerialInv
    <2>2. PICK g \in Nat, c \in Nat, more \in Nat, limit \in Nat :
            g = granted[u] /\ c = clock /\ more = regress[u] /\ limit = MaxSkew
      BY <2>1, DynamoAssumption DEF TypesInv
    <2>3. PICK time \in Nat : time = c + limit + more
      OBVIOUS
    <2>4. WithinPromise(u) <=> g * Unit <= Capacity + Rate * time
      BY <2>2, <2>3 DEF WithinPromise, TimeOnClocks
    <2>5. g * Unit \in Nat /\ Rate * time \in Nat
      BY UnitProduct, ProductNat, BucketAssumption
    <2>6. CASE bucket[u] = NoItem
      <3>1. PICK early \in Nat : early = Earliest + more /\ early <= time
        BY <2>2, <2>3, DynamoAssumption DEF Earliest
      <3>2. Rate * early <= Rate * time /\ Rate * early \in Nat
        BY <3>1, RateMonotone, ProductNat, BucketAssumption
      <3>3. g * Unit <= Rate * early
        BY <2>1, <2>2, <2>6, <3>1 DEF Paid
      <3> QED
        BY <2>4, <2>5, <3>2, <3>3, BucketAssumption
    <2>7. CASE bucket[u] # NoItem
      <3>1. PICK tokens, last : tokens = bucket[u].tokens /\ last = bucket[u].lastRefill
        OBVIOUS
      <3>2. tokens \in 0..Capacity /\ last \in Nat /\ last <= c + limit
        BY <2>1, <2>2, <2>7, <3>1, KindsApart DEF TypesInv, StoredItems, ItemsInv
      <3>3. PICK last2 \in Nat : last2 = last + more /\ last2 <= time
        BY <2>3, <3>2
      <3>4. Rate * last2 <= Rate * time /\ Rate * last2 \in Nat
        BY <3>3, RateMonotone, ProductNat, BucketAssumption
      <3>5. g * Unit + tokens <= Capacity + Rate * last2
        BY <2>1, <2>2, <2>7, <3>1, <3>3 DEF Paid
      <3> QED
        BY <2>4, <2>5, <3>2, <3>4, <3>5, BucketAssumption
    <2> QED
      BY <2>6, <2>7
  <1> QED
    BY <1>1, DynamoAlways, PTL

\* A promised block is there until its time, and stops every call that follows it,
\* unless the user was unblocked, a call overlapped or a read was stale.
THEOREM SerialBlocks == Spec => []SerialCallsKeepBlocks
  <1>1. DynamoInv => SerialCallsKeepBlocks
    <2> SUFFICES ASSUME DynamoInv, NEW u \in Users, u \notin disturbed,
                        blockPromise[u] > clock + MaxSkew
                 PROVE  /\ block[u] # NoBlock
                        /\ \A r \in Requests : Serves(r, u) => At(r, "block")
      BY DEF SerialCallsKeepBlocks
    <2>1. /\ block[u] = blockPromise[u] /\ clock \in Nat
          /\ \A r \in Requests : Serves(r, u) => At(r, "block")
      BY DEF DynamoInv, SerialInv, BlockKept, At, TypesInv
    <2> QED
      BY <2>1, DynamoAssumption DEF NoBlock
  <1> QED
    BY <1>1, DynamoAlways, PTL

==============================================================================
