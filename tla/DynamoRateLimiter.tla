------------------------- MODULE DynamoRateLimiter -------------------------
(***************************************************************************)
(* The DynamoDB limiter (services/dynamodb_rate_limiter.py), which         *)
(* implements RateLimiterProtocol but is not the one main.py builds.       *)
(* allow_request runs on a worker thread and is a sequence of separate     *)
(* table calls: read the block item, perhaps delete it, read the bucket    *)
(* item, write it back.  Threads of one gateway and of several interleave  *)
(* between the calls, each process reads its own clock, both reads are     *)
(* eventually consistent (get_item without ConsistentRead), and any call   *)
(* may raise.  A block has a ttl: every writer of the blocklist table puts *)
(* one, so the record without it that line 97 provides for is left out.    *)
(***************************************************************************)
EXTENDS TokenBucket

CONSTANTS
    Users,
    Requests,   \* worker threads
    Skew,       \* Skew[r]: how far r's process is ahead of the slowest clock
    TableSkew,  \* how far DynamoDB is, when it deletes expired items
    MaxSkew,    \* how far the fastest of them is
    BucketTTL,  \* 7200 s, in ticks
    BlockTTL,   \* settings.anomaly_auto_block_ttl_seconds, in ticks
    CallTime,   \* longest time a call takes (boto3's timeouts and retries)
    MaxTime,    \* bound on the clock
    MaxGrants,  \* bound on the admissions of a user
    MaxRegress  \* bound on the time a user's stamps go back in total

ASSUME DynamoAssumption ==
    /\ MaxSkew \in Nat
    /\ Skew \in [Requests -> 0..MaxSkew]
    /\ TableSkew \in 0..MaxSkew
    /\ BucketTTL \in Nat
    /\ BlockTTL \in Nat
    /\ CallTime \in Nat
    /\ MaxTime \in Nat
    /\ MaxGrants \in Nat
    /\ MaxRegress \in Nat

\* An item outlives the refill of an empty bucket by more than a call takes and
\* clocks differ; so it does with both presets (7200 s, and 100 s or 60 s to refill).
ASSUME ExpiryAssumption ==
    /\ CallTime + TableSkew <= BucketTTL
    /\ Capacity <= Rate * (BucketTTL - (CallTime + TableSkew))

VARIABLES
    clock,        \* the slowest clock's time
    bucket,       \* bucket[u]: the item of the rate-limit table
    oldBucket,    \* oldBucket[u]: what a lagging replica still has for it
    block,        \* block[u]: ttl of the item of the blocklist table
    oldBlock,     \* oldBlock[u]: what a lagging replica still has for it
    call,         \* call[r]: the allow_request call of thread r
    granted,      \* history: requests of u admitted since time 0
    regress,      \* history: how far the stamps written for u went back, in total
    disturbed,    \* history: users with overlapping calls or a stale read
    blockPromise  \* history: until when block_user promised the block to last

bucketVars == <<bucket, oldBucket, granted, regress>>
blockVars == <<block, oldBlock, blockPromise>>
dynamoVars == <<clock, call, disturbed, bucketVars, blockVars>>

-----------------------------------------------------------------------------
NoItem == [ttl |-> -1]
NoBlock == -1
Idle == [pc |-> "idle"]

Init ==
    /\ clock = 0
    /\ bucket = [u \in Users |-> NoItem]
    /\ oldBucket = bucket
    /\ block = [u \in Users |-> NoBlock]
    /\ oldBlock = block
    /\ call = [r \in Requests |-> Idle]
    /\ granted = [u \in Users |-> 0]
    /\ regress = [u \in Users |-> 0]
    /\ disturbed = {}
    /\ blockPromise = [u \in Users |-> NoBlock]

At(r, pc) == call[r].pc = pc
Serves(r, u) == ~At(r, "idle") /\ call[r].user = u

\* The history, when a call on u's items starts: it may overlap another.
Overlapped(u) == disturbed' = disturbed \cup {v \in {u} : \E q \in Requests : Serves(q, v)}

\* time.time() in r's process.
LocalTime(r) == clock + Skew[r]

\* The worker thread reads the clock.
Start(r, u) ==
    /\ At(r, "idle")
    /\ call' = [call EXCEPT ![r] =
                  [pc |-> "block", user |-> u, now |-> LocalTime(r), level |-> 0]]
    /\ Overlapped(u)
    /\ UNCHANGED <<clock, bucketVars, blockVars>>

Goto(r, pc) == call' = [call EXCEPT ![r].pc = pc]
Return(r) == call' = [call EXCEPT ![r] = Idle]

\* Mutant: a record counts as expired in its last second.
RecordActiveTooShort(item, now) == item > now + 1

\* _is_block_record_active, for an item with a ttl.
RecordActive(item, now) == item > now

\* The history, when a call reads the value found of what is stored.
ReadOf(u, found, stored) ==
    disturbed' = IF found = stored THEN disturbed ELSE disturbed \cup {u}

\* get_item on the blocklist table, from the leader or from a lagging replica: an
\* active item refuses the request, an inactive one is to be deleted.
ReadBlock(r) ==
    LET u == call[r].user
    IN  /\ At(r, "block")
        /\ \E item \in {block[u], oldBlock[u]} :
             /\ IF RecordActive(item, call[r].now) THEN Return(r)
                ELSE Goto(r, IF item # NoBlock THEN "delete" ELSE "read")
             /\ ReadOf(u, item, block[u])
        /\ UNCHANGED <<clock, bucketVars, blockVars>>

StoreBlock(u, item) ==
    /\ block' = [block EXCEPT ![u] = item]
    /\ oldBlock' = [oldBlock EXCEPT ![u] = block[u]]

\* delete_item on whatever is there by now; an error is ignored.
DeleteBlock(r) ==
    /\ At(r, "delete")
    /\ \/ StoreBlock(call[r].user, NoBlock)
       \/ UNCHANGED <<block, oldBlock>>
    /\ Goto(r, "read")
    /\ UNCHANGED <<clock, bucketVars, disturbed, blockPromise>>

LevelOf(item, now) ==
    IF item = NoItem THEN Refilled(Capacity, now, now)
    ELSE Refilled(item.tokens, item.lastRefill, now)

\* get_item on the rate-limit table, from the leader or from a lagging replica.
ReadBucket(r) ==
    LET u == call[r].user
    IN  /\ At(r, "read")
        /\ \E item \in {bucket[u], oldBucket[u]} :
             /\ call' = [call EXCEPT ![r].pc = "write",
                                     ![r].level = LevelOf(item, call[r].now)]
             /\ ReadOf(u, item, bucket[u])
        /\ UNCHANGED <<clock, bucketVars, blockVars>>

\* How far the stamp now is behind that of the item it replaces.
Back(u, now) == IF bucket[u] = NoItem THEN 0 ELSE Elapsed(now, bucket[u].lastRefill)

\* Mutant: the refilled level is written, the token is not taken from it.
PutUnspent(r) ==
    LET u == call[r].user
    IN  /\ regress[u] + Back(u, call[r].now) <= MaxRegress
        /\ regress' = [regress EXCEPT ![u] = @ + Back(u, call[r].now)]
        /\ oldBucket' = [oldBucket EXCEPT ![u] = bucket[u]]
        /\ bucket' = [bucket EXCEPT ![u] = [tokens |-> call[r].level,
                                            lastRefill |-> call[r].now,
                                            ttl |-> LocalTime(r) + BucketTTL]]

\* put_item with the level spent or, when it is below one token, unspent; the
\* item is replaced whatever was written since it was read.
Put(r) ==
    LET u == call[r].user
    IN  /\ regress[u] + Back(u, call[r].now) <= MaxRegress
        /\ regress' = [regress EXCEPT ![u] = @ + Back(u, call[r].now)]
        /\ oldBucket' = [oldBucket EXCEPT ![u] = bucket[u]]
        /\ bucket' = [bucket EXCEPT ![u] = [tokens |-> Spend(call[r].level),
                                            lastRefill |-> call[r].now,
                                            ttl |-> LocalTime(r) + BucketTTL]]

WriteDenied(r) ==
    /\ At(r, "write")
    /\ ~HasToken(call[r].level)
    /\ Put(r)
    /\ Return(r)
    /\ UNCHANGED <<clock, granted, disturbed, blockVars>>

WriteAllowed(r) ==
    LET u == call[r].user
    IN  /\ At(r, "write")
        /\ HasToken(call[r].level)
        /\ granted[u] < MaxGrants
        /\ Put(r)
        /\ granted' = [granted EXCEPT ![u] = @ + 1]
        /\ Return(r)
        /\ UNCHANGED <<clock, disturbed, blockVars>>

\* A table call raises: on the read of the bucket the request is refused with
\* (False, 0.0), elsewhere the exception propagates.  A put may have been applied.
Raise(r) ==
    /\ call[r].pc \in {"block", "read", "write"}
    /\ \/ UNCHANGED <<bucket, oldBucket, regress>>
       \/ At(r, "write") /\ Put(r)
    /\ Return(r)
    /\ UNCHANGED <<clock, granted, disturbed, blockVars>>

-----------------------------------------------------------------------------
\* block_user in the process of thread r: put_item with a ttl of its clock.
BlockUser(r, u) ==
    /\ StoreBlock(u, LocalTime(r) + BlockTTL)
    /\ blockPromise' = [blockPromise EXCEPT ![u] = LocalTime(r) + BlockTTL]
    /\ Overlapped(u)
    /\ UNCHANGED <<clock, call, bucketVars>>

UnblockUser(u) ==
    /\ StoreBlock(u, NoBlock)
    /\ blockPromise' = [blockPromise EXCEPT ![u] = NoBlock]
    /\ UNCHANGED <<clock, call, disturbed, bucketVars>>

\* The replicas of either table catch up.
Replicate(u) ==
    /\ \/ oldBucket' = [oldBucket EXCEPT ![u] = bucket[u]] /\ UNCHANGED oldBlock
       \/ oldBlock' = [oldBlock EXCEPT ![u] = block[u]] /\ UNCHANGED oldBucket
    /\ UNCHANGED <<clock, call, disturbed, bucket, granted, regress, block, blockPromise>>

\* DynamoDB deletes expired items some time after their ttl, by its own clock.
ExpireBucket(u) ==
    /\ bucket[u] # NoItem
    /\ bucket[u].ttl < clock + TableSkew
    /\ bucket' = [bucket EXCEPT ![u] = NoItem]
    /\ oldBucket' = [oldBucket EXCEPT ![u] = bucket[u]]
    /\ UNCHANGED <<clock, call, disturbed, granted, regress, blockVars>>

ExpireBlock(u) ==
    /\ block[u] # NoBlock
    /\ block[u] < clock + TableSkew
    /\ StoreBlock(u, NoBlock)
    /\ UNCHANGED <<clock, call, disturbed, blockPromise, bucketVars>>

Tick ==
    /\ clock < MaxTime
    /\ \A r \in Requests :
         ~At(r, "idle") => LocalTime(r) < call[r].now + CallTime
    /\ clock' = clock + 1
    /\ UNCHANGED <<call, disturbed, bucketVars, blockVars>>

Next ==
    \/ \E r \in Requests :
         \/ \E u \in Users : Start(r, u) \/ BlockUser(r, u)
         \/ ReadBlock(r) \/ DeleteBlock(r) \/ ReadBucket(r)
         \/ WriteDenied(r) \/ WriteAllowed(r) \/ Raise(r)
    \/ \E u \in Users :
         \/ UnblockUser(u) \/ Replicate(u) \/ ExpireBucket(u) \/ ExpireBlock(u)
    \/ Tick

Spec == Init /\ [][Next]_dynamoVars

-----------------------------------------------------------------------------
(* Properties.                                                              *)

Items == {NoItem} \cup [tokens : 0..Capacity, lastRefill : Nat, ttl : Nat]

\* Every variable has its type.
TypeOK ==
    /\ clock \in 0..MaxTime
    /\ bucket \in [Users -> Items]
    /\ oldBucket \in [Users -> Items]
    /\ block \in [Users -> Nat \cup {NoBlock}]
    /\ oldBlock \in [Users -> Nat \cup {NoBlock}]
    /\ \A r \in Requests : ~At(r, "idle") =>
         /\ call[r].pc \in {"block", "delete", "read", "write"}
         /\ call[r].user \in Users
         /\ call[r].now \in 0..LocalTime(r)
         /\ call[r].level \in 0..Capacity
    /\ granted \in [Users -> 0..MaxGrants]
    /\ regress \in [Users -> 0..MaxRegress]
    /\ disturbed \subseteq Users

\* The time that passed by the clock of some process, each step back of the stamps
\* counted as time once more.
TimeOnClocks(u) == clock + MaxSkew + regress[u]

WithinPromise(u) == granted[u] * Unit <= Capacity + Rate * TimeOnClocks(u)

\* A user admitted beyond the capacity and the refill of the time that passed on the
\* clocks had two calls that overlapped, or one that read a stale replica: calls that
\* follow one another on fresh items keep the promise, from whatever process they come,
\* through exceptions, lost answers, blocks and expiring items.
SerialCallsKeepPromise == \A u \in Users : u \notin disturbed => WithinPromise(u)

\* Until its time on every clock a block that nobody lifted has its record, and no
\* call gets past it, unless calls overlapped or read a stale replica: a record is
\* removed only when it has expired for some process or for DynamoDB.
SerialCallsKeepBlocks ==
    \A u \in Users :
        u \notin disturbed /\ blockPromise[u] > clock + MaxSkew =>
            /\ block[u] # NoBlock
            /\ \A r \in Requests : Serves(r, u) => At(r, "block")

=============================================================================
