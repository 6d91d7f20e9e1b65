---------------------- MODULE MemoryRateLimiterProofs ----------------------
(***************************************************************************)
(* The in-memory limiter implements the contract of the limiters, for any  *)
(* users, calls, capacity, rate and block time.                            *)
(***************************************************************************)
EXTENDS MemoryRateLimiter, ArithmeticLemmas

-----------------------------------------------------------------------------
(* Types.                                                                   *)

Levels == [tokens : 0..Capacity, lastRefill : Nat]
Calls ==
    [pc : {"scheduled"}, user : Users, since : Nat]
    \cup [pc : {"answered"}, user : Users, verdict : {"allowed", "denied", "blocked"},
          left : Nat]

\* A bucket has a level and a time that has passed, a block ends at some time, and
\* a call was scheduled in the past.
MemoryInv ==
    /\ clock \in Nat
    /\ bucketState \in [Users -> Levels \cup {Absent}]
    /\ \A u \in Users :
         bucketState[u] # Absent => bucketState[u].lastRefill <= clock
    /\ blockedUntil \in [Users -> Nat]
    /\ call \in [Requests -> Calls \cup {Idle}]
    /\ \A r \in Requests : call[r].pc = "scheduled" => call[r].since <= clock

\* A dictionary entry is not the absence of one, nor a call that is under way the
\* idle one.
LEMMA RecordsApart ==
    /\ Absent \notin Levels
    /\ \A c \in Calls : c # Idle
    /\ Idle.pc = "idle"
  <1>1. \A b \in Levels : DOMAIN b = {"tokens", "lastRefill"}
    BY DEF Levels
  <1>2. DOMAIN Absent = {"absent"}
    BY DEF Absent
  <1>3. \A c \in Calls : c.pc # "idle"
    BY DEF Calls
  <1>4. Idle.pc = "idle"
    BY DEF Idle
  <1> QED
    BY <1>1, <1>2, <1>3, <1>4

\* A scheduled call is one of the first kind, an answered call of the second.
LEMMA CallKinds ==
    ASSUME MemoryInv, NEW r \in Requests
    PROVE  /\ call[r].pc = "scheduled" =>
                call[r] \in [pc : {"scheduled"}, user : Users, since : Nat]
           /\ call[r].pc # "scheduled" /\ call[r].pc # "idle" => call[r].pc = "answered"
  <1>1. call[r] \in Calls \cup {Idle}
    BY DEF MemoryInv
  <1> QED
    BY <1>1, RecordsApart DEF Calls

\* The level that a call finds, and what it stores.
LEMMA LevelTypes ==
    ASSUME MemoryInv, NEW u \in Users
    PROVE  Level(u) \in 0..Capacity /\ Stored(u) \in Levels
  <1>1. Level(u) \in 0..Capacity
    <2>1. CASE bucketState[u] = Absent
      BY <2>1, RefilledRange, BucketAssumption DEF Level, MemoryInv
    <2>2. CASE bucketState[u] # Absent
      <3>1. bucketState[u] \in Levels
        BY <2>2 DEF MemoryInv
      <3> QED
        BY <2>2, <3>1, RefilledRange DEF Level, MemoryInv, Levels
    <2> QED
      BY <2>1, <2>2
  <1>2. Stored(u) \in Levels
    BY <1>1, SpendRange DEF Stored, Levels, MemoryInv
  <1> QED
    BY <1>1, <1>2

\* The initial state satisfies the invariant.
LEMMA MemoryInit == Init => MemoryInv
  <1> SUFFICES ASSUME Init PROVE MemoryInv
    OBVIOUS
  <1>1. call = [r \in Requests |-> Idle] /\ \A r \in Requests : call[r].pc # "scheduled"
    BY RecordsApart DEF Init
  <1> QED
    BY <1>1 DEF Init, MemoryInv, NotBlocked

\* A step that gives one call another record.
LEMMA OneCallInv ==
    ASSUME MemoryInv, NEW r \in Requests, NEW new \in Calls \cup {Idle},
           call' = [call EXCEPT ![r] = new],
           new.pc = "scheduled" => new.since <= clock,
           UNCHANGED clock
    PROVE  /\ call' \in [Requests -> Calls \cup {Idle}]
           /\ \A q \in Requests : call'[q].pc = "scheduled" => call'[q].since <= clock'
  BY DEF MemoryInv

\* Every step keeps the invariant.
LEMMA MemoryStep == MemoryInv /\ [Next]_memoryVars => MemoryInv'
  <1> SUFFICES ASSUME MemoryInv, [Next]_memoryVars PROVE MemoryInv'
    OBVIOUS
  <1>1. ASSUME NEW r \in Requests, NEW u \in Users, Schedule(r, u) PROVE MemoryInv'
    <2> DEFINE new == [pc |-> "scheduled", user |-> u, since |-> clock]
    <2>1. new \in Calls /\ new.since <= clock
      BY DEF Calls, MemoryInv
    <2>2. call' = [call EXCEPT ![r] = new] /\ UNCHANGED <<clock, bucketState, blockedUntil>>
      BY <1>1 DEF Schedule
    <2> HIDE DEF new
    <2> QED
      BY <2>1, <2>2, OneCallInv DEF MemoryInv
  <1>2. ASSUME NEW r \in Requests, NEW verdict \in {"allowed", "denied", "blocked"},
               NEW left \in Nat, Reply(r, verdict, left), call[r].pc = "scheduled",
               UNCHANGED clock
        PROVE  /\ call' \in [Requests -> Calls \cup {Idle}]
               /\ \A q \in Requests : call'[q].pc = "scheduled" => call'[q].since <= clock'
    <2> DEFINE new == [pc |-> "answered", user |-> call[r].user, verdict |-> verdict,
                       left |-> left]
    <2>1. call[r].user \in Users
      BY <1>2, CallKinds
    <2>2. new \in Calls /\ new.pc = "answered"
      BY <2>1 DEF Calls
    <2>3. call' = [call EXCEPT ![r] = new]
      BY <1>2 DEF Reply
    <2> HIDE DEF new
    <2> QED
      BY <1>2, <2>2, <2>3, OneCallInv
  <1>3. ASSUME NEW r \in Requests, RunBlocked(r) PROVE MemoryInv'
    BY <1>2, <1>3 DEF RunBlocked, MemoryInv
  <1>4. ASSUME NEW r \in Requests, Run(r) PROVE MemoryInv'
    <2> DEFINE u == call[r].user
    <2>1. u \in Users /\ call[r].pc = "scheduled"
      BY <1>4, CallKinds DEF Run
    <2>2. Stored(u) \in Levels /\ WholeTokens(Stored(u).tokens) \in Nat
      BY <2>1, LevelTypes, WholeTokensNat DEF Levels
    <2>3. /\ blockedUntil' = [blockedUntil EXCEPT ![u] = NotBlocked]
          /\ bucketState' = [bucketState EXCEPT ![u] = Stored(u)]
          /\ Reply(r, IF HasToken(Level(u)) THEN "allowed" ELSE "denied",
                   WholeTokens(Stored(u).tokens))
          /\ UNCHANGED clock
      BY <1>4 DEF Run
    <2>4. Stored(u).lastRefill = clock
      BY DEF Stored
    <2> HIDE DEF u
    <2>5. /\ call' \in [Requests -> Calls \cup {Idle}]
          /\ \A q \in Requests : call'[q].pc = "scheduled" => call'[q].since <= clock'
      BY <1>2, <2>1, <2>2, <2>3
    <2>6. /\ bucketState' \in [Users -> Levels \cup {Absent}]
          /\ \A v \in Users : bucketState'[v] # Absent => bucketState'[v].lastRefill <= clock'
      BY <2>1, <2>2, <2>3, <2>4 DEF MemoryInv
    <2>7. clock' \in Nat /\ blockedUntil' \in [Users -> Nat]
      BY <2>3 DEF MemoryInv, NotBlocked
    <2> QED
      BY <2>5, <2>6, <2>7 DEF MemoryInv
  <1>5. ASSUME NEW r \in Requests, Return(r) PROVE MemoryInv'
    <2>1. call' = [call EXCEPT ![r] = Idle] /\ UNCHANGED <<clock, bucketState, blockedUntil>>
      BY <1>5 DEF Return
    <2> QED
      BY <2>1, RecordsApart, OneCallInv DEF MemoryInv
  <1>6. ASSUME NEW u \in Users, BlockUser(u) \/ UnblockUser(u) PROVE MemoryInv'
    <2>1. clock + BlockTTL \in Nat
      BY MemoryAssumption DEF MemoryInv
    <2> QED
      BY <1>6, <2>1 DEF BlockUser, UnblockUser, NotBlocked, MemoryInv
  <1>7. CASE Tick
    <2>1. clock' = clock + 1 /\ UNCHANGED <<bucketState, blockedUntil, call>>
      BY <1>7 DEF Tick
    <2>2. \A u \in Users :
            bucketState[u] # Absent => bucketState[u].lastRefill <= clock + 1
      BY DEF MemoryInv, Levels
    <2>3. \A r \in Requests : call[r].pc = "scheduled" => call[r].since <= clock + 1
      BY CallKinds DEF MemoryInv
    <2> QED
      BY <2>1, <2>2, <2>3 DEF MemoryInv
  <1>8. CASE UNCHANGED memoryVars
    BY <1>8 DEF memoryVars, MemoryInv
  <1> QED
    BY <1>1, <1>3, <1>4, <1>5, <1>6, <1>7, <1>8 DEF Next

-----------------------------------------------------------------------------
(* The refinement.                                                          *)

\* The contract's bucket of a user: a full one for a user without an entry.
ContractBucket(u) ==
    IF bucketState[u] = Absent THEN [tokens |-> Capacity, lastRefill |-> 0] ELSE bucketState[u]

ContractCall(r) ==
    IF call[r].pc = "scheduled"
    THEN [pc |-> "pending", user |-> call[r].user, since |-> call[r].since]
    ELSE call[r]

\* The contract's buckets and calls.
BarBucket == [u \in Users |->
                IF bucketState[u] = Absent
                THEN [tokens |-> Capacity, lastRefill |-> 0]
                ELSE bucketState[u]]
BarCall == [r \in Requests |->
              IF call[r].pc = "scheduled"
              THEN [pc |-> "pending", user |-> call[r].user, since |-> call[r].since]
              ELSE call[r]]

\* The contract's decision, over these.
LEMMA ContractDecides ==
    ASSUME NEW r \in Requests
    PROVE  Contract!Decide(r) <=>
             /\ BarCall[r].pc = "pending"
             /\ \E t \in BarCall[r].since .. clock : t >= blockedUntil[BarCall[r].user]
             /\ \E now \in BarCall[r].since .. clock :
                  LET u == BarCall[r].user
                      level == Contract!Refilled(BarBucket[u].tokens, BarBucket[u].lastRefill,
                                                 now)
                  IN  /\ BarBucket' = [BarBucket EXCEPT ![u] =
                                         [tokens |-> Contract!Spend(level), lastRefill |-> now]]
                      /\ BarCall' = [BarCall EXCEPT ![r] =
                            Contract!Answered(u,
                              IF Contract!HasToken(level) THEN "allowed" ELSE "denied",
                              Contract!WholeTokens(Contract!Spend(level)))]
             /\ \/ UNCHANGED blockedUntil
                \/ /\ blockedUntil[BarCall[r].user] <= clock
                   /\ blockedUntil' = [blockedUntil EXCEPT ![BarCall[r].user] = NotBlocked]
             /\ UNCHANGED clock
  BY Zenon DEF Contract!Decide, Contract!Instants, Contract!NotBlocked, NotBlocked,
               BarBucket, BarCall

\* The contract's passing of time, over these.
LEMMA ContractTicks ==
    Contract!Tick <=>
      /\ clock < MaxTime
      /\ clock' = clock + 1
      /\ \E gone \in SUBSET {u \in Users : clock' > BarBucket[u].lastRefill + BucketTTL} :
           BarBucket' = [u \in Users |-> IF u \in gone THEN Contract!Full ELSE BarBucket[u]]
      /\ UNCHANGED <<blockedUntil, BarCall>>
  BY Zenon DEF Contract!Tick, BarBucket, BarCall

\* The two ways to write them.
LEMMA BarIs ==
    /\ BarBucket = [u \in Users |-> ContractBucket(u)]
    /\ BarBucket' = [u \in Users |-> ContractBucket(u)']
    /\ BarCall = [r \in Requests |-> ContractCall(r)]
    /\ BarCall' = [r \in Requests |-> ContractCall(r)']
  BY DEF BarBucket, BarCall, ContractBucket, ContractCall

\* The contract counts tokens as the limiter does.
LEMMA SameArithmetic ==
    /\ \A tokens, last, now : Contract!Refilled(tokens, last, now) = Refilled(tokens, last, now)
    /\ \A level : /\ Contract!HasToken(level) = HasToken(level)
                  /\ Contract!Spend(level) = Spend(level)
                  /\ Contract!WholeTokens(level) = WholeTokens(level)
  BY DEF Contract!Refilled, Refilled, Contract!Elapsed, Elapsed, Contract!HasToken, HasToken,
         Contract!Spend, Spend, Contract!WholeTokens, WholeTokens

\* A missing entry is a full bucket: both give the level of the capacity.
LEMMA SameLevel ==
    ASSUME MemoryInv, NEW u \in Users
    PROVE  Level(u) = Refilled(ContractBucket(u).tokens, ContractBucket(u).lastRefill, clock)
  <1>1. CASE bucketState[u] = Absent
    <2>1. ContractBucket(u).tokens = Capacity /\ ContractBucket(u).lastRefill = 0
      BY <1>1 DEF ContractBucket
    <2>2. /\ Refilled(Capacity, clock, clock) = Capacity
          /\ Refilled(Capacity, 0, clock) = Capacity
      <3>1. Capacity \in 0..Capacity /\ clock \in Int /\ 0 \in Int
        BY BucketAssumption DEF MemoryInv
      <3> QED
        BY <3>1, RefilledRange, BucketAssumption
    <2> QED
      BY <1>1, <2>1, <2>2 DEF Level
  <1>2. CASE bucketState[u] # Absent
    BY <1>2 DEF Level, ContractBucket
  <1> QED
    BY <1>1, <1>2

\* Initial states map to initial states.
LEMMA RefinedInit == Init => Contract!Init
  <1> SUFFICES ASSUME Init PROVE Contract!Init
    OBVIOUS
  <1>1. \A r \in Requests : call[r].pc # "scheduled"
    BY RecordsApart DEF Init
  <1> QED
    BY <1>1 DEF Init, Contract!Init, Contract!Full, Contract!NotBlocked, NotBlocked,
                Contract!Idle, Idle

\* Scheduling is the contract's invocation.
LEMMA RefinedSchedule ==
    ASSUME MemoryInv, NEW r \in Requests, NEW u \in Users, Schedule(r, u)
    PROVE  Contract!Invoke(r, u)
  <1>1. call[r].pc = "idle" /\ call' = [call EXCEPT ![r] =
                                 [pc |-> "scheduled", user |-> u, since |-> clock]]
    BY DEF Schedule
  <1>2. call'[r].pc = "scheduled" /\ call'[r].user = u /\ call'[r].since = clock
    BY <1>1 DEF MemoryInv
  <1>3. \A q \in Requests : q # r => call'[q] = call[q]
    BY <1>1 DEF MemoryInv
  <1>4. UNCHANGED <<clock, bucketState, blockedUntil>>
    BY DEF Schedule
  <1> QED
    BY <1>1, <1>2, <1>3, <1>4 DEF Contract!Invoke, Contract!Pending

\* An answer: the contract's call is answered in the same way.
LEMMA RefinedReply ==
    ASSUME MemoryInv, NEW r \in Requests, NEW verdict, NEW left, Reply(r, verdict, left),
           call[r].pc = "scheduled"
    PROVE  /\ ContractCall(r).pc = "pending" /\ ContractCall(r).user = call[r].user
           /\ ContractCall(r).since = call[r].since
           /\ [q \in Requests |-> ContractCall(q)'] =
                [[q \in Requests |-> ContractCall(q)] EXCEPT ![r] =
                   [pc |-> "answered", user |-> call[r].user, verdict |-> verdict,
                    left |-> left]]
  <1> DEFINE new == [pc |-> "answered", user |-> call[r].user, verdict |-> verdict,
                     left |-> left]
  <1>1. call' = [call EXCEPT ![r] = new] /\ new.pc = "answered"
    BY DEF Reply
  <1> HIDE DEF new
  <1>2. call'[r] = new /\ \A q \in Requests : q # r => call'[q] = call[q]
    BY <1>1 DEF MemoryInv
  <1>3. ContractCall(r)' = new /\ \A q \in Requests : q # r => ContractCall(q)' = ContractCall(q)
    BY <1>1, <1>2 DEF ContractCall
  <1>4. [q \in Requests |-> ContractCall(q)'] =
          [[q \in Requests |-> ContractCall(q)] EXCEPT ![r] = new]
    BY <1>3
  <1> QED
    BY <1>4 DEF new, ContractCall

\* A refused call found the block at an instant of its own: now.
LEMMA RefinedBlocked ==
    ASSUME MemoryInv, NEW r \in Requests, RunBlocked(r)
    PROVE  Contract!Refuse(r)
  <1>1. /\ call[r].pc = "scheduled" /\ blockedUntil[call[r].user] > clock
        /\ Reply(r, "blocked", 0) /\ UNCHANGED <<clock, bucketState, blockedUntil>>
    BY DEF RunBlocked
  <1>2. call[r].since <= clock /\ call[r].since \in Nat /\ clock \in Nat
        /\ blockedUntil[call[r].user] \in Nat
    BY <1>1, CallKinds DEF MemoryInv
  <1>3. clock \in call[r].since .. clock /\ clock < blockedUntil[call[r].user]
    BY <1>1, <1>2
  <1>4. /\ ContractCall(r).pc = "pending" /\ ContractCall(r).user = call[r].user
        /\ ContractCall(r).since = call[r].since
        /\ [q \in Requests |-> ContractCall(q)'] =
             [[q \in Requests |-> ContractCall(q)] EXCEPT ![r] =
                [pc |-> "answered", user |-> call[r].user, verdict |-> "blocked", left |-> 0]]
    BY <1>1, RefinedReply
  <1>5. [u \in Users |-> ContractBucket(u)'] = [u \in Users |-> ContractBucket(u)]
    BY <1>1 DEF ContractBucket
  <1> QED
    BY <1>1, <1>3, <1>4, <1>5
    DEF Contract!Refuse, Contract!Instants, Contract!Answered, ContractCall, ContractBucket

\* A decided call refills and spends the contract's bucket as of now.
LEMMA RefinedRun ==
    ASSUME MemoryInv, NEW r \in Requests, Run(r)
    PROVE  Contract!Decide(r)
  <1>0. PICK u \in Users : u = call[r].user
    <2>1. call[r].user \in Users
      BY CallKinds DEF Run
    <2> QED
      BY <2>1
  <1> DEFINE level == Contract!Refilled(ContractBucket(u).tokens,
                                        ContractBucket(u).lastRefill, clock)
             verdict == IF Contract!HasToken(level) THEN "allowed" ELSE "denied"
             left == Contract!WholeTokens(Contract!Spend(level))
             spent == [tokens |-> Contract!Spend(level), lastRefill |-> clock]
  <1>1. /\ call[r].pc = "scheduled" /\ blockedUntil[u] <= clock
        /\ blockedUntil' = [blockedUntil EXCEPT ![u] = NotBlocked]
        /\ bucketState' = [bucketState EXCEPT ![u] = Stored(u)]
        /\ Reply(r, IF HasToken(Level(u)) THEN "allowed" ELSE "denied",
                 WholeTokens(Stored(u).tokens))
        /\ UNCHANGED clock
    BY <1>0 DEF Run
  <1>2. call[r].since <= clock /\ call[r].since \in Nat /\ clock \in Nat
    BY <1>1, CallKinds DEF MemoryInv
  <1>3. level = Level(u)
    BY <1>2, SameLevel, SameArithmetic
  <1>4. Stored(u) = spent /\ Reply(r, verdict, left)
    BY <1>1, <1>3, SameArithmetic DEF Stored
  <1>5. clock \in call[r].since .. clock
    BY <1>2
  <1>6. Stored(u) # Absent
    BY <1>2, LevelTypes, RecordsApart
  <1>7. bucketState'[u] = Stored(u) /\ \A v \in Users : v # u => bucketState'[v] = bucketState[v]
    BY <1>1, <1>2 DEF MemoryInv
  <1> HIDE DEF level, verdict, left, spent
  <1>8. /\ ContractCall(r).pc = "pending" /\ ContractCall(r).user = u
        /\ ContractCall(r).since = call[r].since
        /\ [q \in Requests |-> ContractCall(q)'] =
             [[q \in Requests |-> ContractCall(q)] EXCEPT ![r] =
                [pc |-> "answered", user |-> u, verdict |-> verdict, left |-> left]]
    BY <1>0, <1>1, <1>4, RefinedReply
  <1>9. [v \in Users |-> ContractBucket(v)'] =
          [[v \in Users |-> ContractBucket(v)] EXCEPT ![u] = spent]
    <2>1. ContractBucket(u)' = spent
      BY <1>4, <1>6, <1>7 DEF ContractBucket
    <2>2. \A v \in Users : v # u => ContractBucket(v)' = ContractBucket(v)
      BY <1>7 DEF ContractBucket
    <2> QED
      BY <2>1, <2>2
  <1>10. \E now \in call[r].since .. clock :
           LET lv == Contract!Refilled(ContractBucket(u).tokens, ContractBucket(u).lastRefill, now)
           IN  /\ [v \in Users |-> ContractBucket(v)'] =
                    [[v \in Users |-> ContractBucket(v)] EXCEPT ![u] =
                       [tokens |-> Contract!Spend(lv), lastRefill |-> now]]
               /\ [q \in Requests |-> ContractCall(q)'] =
                    [[q \in Requests |-> ContractCall(q)] EXCEPT ![r] =
                       Contract!Answered(u, IF Contract!HasToken(lv) THEN "allowed" ELSE "denied",
                                         Contract!WholeTokens(Contract!Spend(lv)))]
    <2> WITNESS clock \in call[r].since .. clock
    <2>1. level = Contract!Refilled(ContractBucket(u).tokens, ContractBucket(u).lastRefill, clock)
      BY DEF level
    <2> QED
      BY <1>8, <1>9, <2>1 DEF Contract!Answered, verdict, left, spent
  <1>11. \E t \in call[r].since .. clock : t >= blockedUntil[u]
    BY <1>1, <1>2, <1>5 DEF MemoryInv
  <1>12. /\ BarCall[r].pc = "pending" /\ BarCall[r].user = u
         /\ BarCall[r].since = call[r].since /\ BarBucket[u] = ContractBucket(u)
    BY <1>8, BarIs
  <1>13. \E now \in BarCall[r].since .. clock :
           LET lv == Contract!Refilled(BarBucket[u].tokens, BarBucket[u].lastRefill, now)
           IN  /\ BarBucket' = [BarBucket EXCEPT ![u] =
                                  [tokens |-> Contract!Spend(lv), lastRefill |-> now]]
               /\ BarCall' = [BarCall EXCEPT ![r] =
                     Contract!Answered(u, IF Contract!HasToken(lv) THEN "allowed" ELSE "denied",
                                       Contract!WholeTokens(Contract!Spend(lv)))]
    BY <1>10, <1>12, BarIs
  <1> QED
    BY <1>1, <1>11, <1>12, <1>13, ContractDecides

\* The other steps.
LEMMA RefinedOther ==
    ASSUME MemoryInv, [Next]_memoryVars,
           \A r \in Requests : ~RunBlocked(r) /\ ~Run(r)
    PROVE  [Contract!Next]_(Contract!contractVars)
  <1>1. ASSUME NEW r \in Requests, NEW u \in Users, Schedule(r, u)
        PROVE  Contract!Next
    BY <1>1, RefinedSchedule DEF Contract!Next
  <1>2. ASSUME NEW r \in Requests, Return(r)
        PROVE  Contract!Return(r)
    <2>1. /\ call[r].pc # "idle" /\ call' = [call EXCEPT ![r] = Idle]
          /\ UNCHANGED <<clock, bucketState, blockedUntil>>
      BY <1>2 DEF Return
    <2>2. call[r].pc = "scheduled" \/ call[r].pc = "answered"
      BY <2>1, CallKinds
    <2>3. call'[r] = Idle /\ \A q \in Requests : q # r => call'[q] = call[q]
      BY <2>1 DEF MemoryInv
    <2>4. Idle.pc # "scheduled"
      BY RecordsApart
    <2>5. [q \in Requests |-> ContractCall(q)'] =
            [[q \in Requests |-> ContractCall(q)] EXCEPT ![r] = Idle]
      <3>1. ContractCall(r)' = Idle
        BY <2>3, <2>4 DEF ContractCall
      <3>2. \A q \in Requests : q # r => ContractCall(q)' = ContractCall(q)
        BY <2>3 DEF ContractCall
      <3> QED
        BY <3>1, <3>2
    <2>6. ContractCall(r).pc \in {"pending", "answered"}
      BY <2>2 DEF ContractCall
    <2> QED
      BY <2>1, <2>5, <2>6
      DEF Contract!Return, Contract!Idle, Idle, ContractCall
  <1>3. ASSUME NEW u \in Users, BlockUser(u)
        PROVE  Contract!Block(u)
    <2>1. clock + BlockTTL = clock + BlockTTL + 0
      BY MemoryAssumption DEF MemoryInv
    <2>2. blockedUntil' = [blockedUntil EXCEPT ![u] = clock + BlockTTL + 0]
          /\ UNCHANGED <<clock, bucketState, call>>
      BY <1>3, <2>1 DEF BlockUser
    <2> QED
      BY <2>2 DEF Contract!Block
  <1>4. ASSUME NEW u \in Users, UnblockUser(u)
        PROVE  Contract!Unblock(u)
    BY <1>4 DEF UnblockUser, Contract!Unblock, Contract!NotBlocked, NotBlocked
  <1>5. CASE Tick
    <2>1. /\ clock < MaxTime /\ clock' = clock + 1
          /\ UNCHANGED <<bucketState, blockedUntil, call>>
      BY <1>5 DEF Tick
    <2>2. BarBucket' = [u \in Users |-> IF u \in {} THEN Contract!Full ELSE BarBucket[u]]
      BY <2>1 DEF BarBucket
    <2>3. {} \in SUBSET {u \in Users : clock' > BarBucket[u].lastRefill + BucketTTL}
      OBVIOUS
    <2>4. \E gone \in SUBSET {u \in Users : clock' > BarBucket[u].lastRefill + BucketTTL} :
            BarBucket' = [u \in Users |-> IF u \in gone THEN Contract!Full ELSE BarBucket[u]]
      BY <2>2, <2>3, Zenon
    <2>5. UNCHANGED BarCall
      BY <2>1 DEF BarCall
    <2>6. Contract!Tick
      BY <2>1, <2>4, <2>5, ContractTicks
    <2> QED
      BY <2>6 DEF Contract!Next
  <1>6. CASE UNCHANGED memoryVars
    BY <1>6 DEF memoryVars, Contract!contractVars
  <1> QED
    BY <1>1, <1>2, <1>3, <1>4, <1>5, <1>6 DEF Next, Contract!Next

\* A gateway on the memory limiter cannot tell it from the one on Redis: with its
\* absent entries read as full buckets, every step is one of the contract or none.
THEOREM MemoryImplementsContract == Spec => ImplementsContract
  <1>1. MemoryInv /\ [Next]_memoryVars => [Contract!Next]_(Contract!contractVars)
    <2> SUFFICES ASSUME MemoryInv, [Next]_memoryVars
                 PROVE  [Contract!Next]_(Contract!contractVars)
      OBVIOUS
    <2>1. ASSUME NEW r \in Requests, RunBlocked(r) \/ Run(r)
          PROVE  Contract!Next
      BY <2>1, RefinedBlocked, RefinedRun DEF Contract!Next
    <2> QED
      BY <2>1, RefinedOther
  <1> QED
    BY <1>1, MemoryInit, MemoryStep, RefinedInit, PTL DEF Spec, ImplementsContract, Contract!Spec

=============================================================================
