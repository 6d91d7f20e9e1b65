------------------------ MODULE AnomalyDetectorProofs ------------------------
(***************************************************************************)
(* The detector's decision, for any number of users and requests, any      *)
(* window lengths and threshold, any paging of the queries and any number  *)
(* of failed invocations: types, who is flagged, who is not overlooked,    *)
(* and that an alert that claims blocks comes after them.  Then the smoke  *)
(* script that tests it, for any baseline.  (The token bucket's constants, *)
(* which come with ArithmeticLemmas, are not used.)                        *)
(***************************************************************************)
EXTENDS AnomalyDetector, AnomalySmoke, ArithmeticLemmas

-----------------------------------------------------------------------------
(* Windows, and what of them was read.                                     *)

Offsets == 0..LastOffset

\* The part of a window's total that lies in the buckets at the offsets seen.
SeenTotal(seen, counts, now, offsets) ==
    SumFunction([i \in offsets |->
        IF i \in seen THEN CountAt(counts, SeriesBucket(now, i)) ELSE 0])

\* The offsets of a run and the counted buckets are finite sets of integers.
LEMMA OffsetsFinite ==
    /\ IsFiniteSet(CurrentOffsets) /\ CurrentOffsets \subseteq Int
    /\ IsFiniteSet(BaselineOffsets) /\ BaselineOffsets \subseteq Int
    /\ IsFiniteSet(Buckets)
  <1>1. \A a, b \in Int : IsFiniteSet(a..b)
    BY FS_Interval
  <1>2. /\ 0 \in Int /\ CurrentBuckets - 1 \in Int /\ CurrentBuckets \in Int
        /\ CurrentBuckets + BaselineBuckets - 1 \in Int /\ MaxTime \in Int
    BY RulesAssumption
  <1> QED
    BY <1>1, <1>2 DEF CurrentOffsets, BaselineOffsets, LastOffset, Buckets

\* The series is the current window followed by the baseline window.
LEMMA SeriesSplits ==
    /\ Offsets = CurrentOffsets \cup BaselineOffsets
    /\ CurrentOffsets \cap BaselineOffsets = {}
    /\ LastOffset \in Nat
  BY RulesAssumption DEF Offsets, LastOffset, CurrentOffsets, BaselineOffsets

\* A bucket's counter is a natural number, and grows with the table.
LEMMA CountAtOrder ==
    ASSUME NEW c \in [Buckets -> Nat], NEW d \in [Buckets -> Nat],
           \A b \in Buckets : c[b] <= d[b], NEW b \in Int
    PROVE  /\ CountAt(c, b) \in Nat
           /\ CountAt(d, b) \in Nat
           /\ CountAt(c, b) <= CountAt(d, b)
  BY DEF CountAt

\* The sum over finitely many buckets of which a run has seen some is a natural number.
LEMMA SeenNat ==
    ASSUME NEW seen, NEW c \in [Buckets -> Nat], NEW now \in Int,
           NEW offsets \in SUBSET Int, IsFiniteSet(offsets)
    PROVE  SeenTotal(seen, c, now, offsets) \in Nat
  <1>1. \A i \in offsets : CountAt(c, SeriesBucket(now, i)) \in Nat
    BY CountAtOrder DEF SeriesBucket
  <1>2. [i \in offsets |-> IF i \in seen THEN CountAt(c, SeriesBucket(now, i)) ELSE 0]
          \in [offsets -> Nat]
    BY <1>1
  <1> QED
    BY <1>2, SumNat DEF SeenTotal

\* Larger counters, larger totals.
LEMMA SeenMonotone ==
    ASSUME NEW seen, NEW c \in [Buckets -> Nat], NEW d \in [Buckets -> Nat],
           \A b \in Buckets : c[b] <= d[b],
           NEW now \in Int, NEW offsets \in SUBSET Int, IsFiniteSet(offsets)
    PROVE  SeenTotal(seen, c, now, offsets) <= SeenTotal(seen, d, now, offsets)
  <1>1. PICK f : f = [i \in offsets |-> IF i \in seen THEN CountAt(c, SeriesBucket(now, i)) ELSE 0]
    OBVIOUS
  <1>2. PICK g : g = [i \in offsets |-> IF i \in seen THEN CountAt(d, SeriesBucket(now, i)) ELSE 0]
    OBVIOUS
  <1>3. ASSUME NEW i \in offsets
        PROVE  /\ CountAt(c, SeriesBucket(now, i)) \in Nat
               /\ CountAt(d, SeriesBucket(now, i)) \in Nat
               /\ CountAt(c, SeriesBucket(now, i)) <= CountAt(d, SeriesBucket(now, i))
    <2>1. SeriesBucket(now, i) \in Int
      BY DEF SeriesBucket
    <2> QED
      BY <2>1, CountAtOrder
  <1>4. /\ f \in [offsets -> Nat] /\ g \in [offsets -> Nat]
        /\ \A i \in offsets : f[i] <= g[i]
    BY <1>1, <1>2, <1>3
  <1> QED
    BY <1>1, <1>2, <1>4, SumMonotone DEF SeenTotal

\* Nothing of the window was seen.
LEMMA SeenNothing ==
    ASSUME NEW seen, NEW c, NEW now, NEW offsets, IsFiniteSet(offsets), seen \cap offsets = {}
    PROVE  SeenTotal(seen, c, now, offsets) = 0
  <1>1. [i \in offsets |-> IF i \in seen THEN CountAt(c, SeriesBucket(now, i)) ELSE 0]
          = [i \in offsets |-> 0]
    OBVIOUS
  <1> QED
    BY <1>1, SumZero DEF SeenTotal

\* All of it was.
LEMMA SeenAll ==
    ASSUME NEW seen, NEW c, NEW now, NEW offsets, offsets \subseteq seen
    PROVE  SeenTotal(seen, c, now, offsets) = WindowTotal(c, now, offsets)
  <1>1. [i \in offsets |-> IF i \in seen THEN CountAt(c, SeriesBucket(now, i)) ELSE 0]
          = [i \in offsets |-> CountAt(c, SeriesBucket(now, i))]
    OBVIOUS
  <1> QED
    BY <1>1 DEF SeenTotal, WindowTotal

\* Some terms of a sum are counted; one more counts in addition to them.
LEMMA SumOneMore ==
    ASSUME NEW D, IsFiniteSet(D), NEW h \in [D -> Nat], NEW seen, NEW d \in D, d \notin seen
    PROVE  SumFunction([i \in D |-> IF i \in seen \cup {d} THEN h[i] ELSE 0])
             = SumFunction([i \in D |-> IF i \in seen THEN h[i] ELSE 0]) + h[d]
  <1>1. PICK f : f = [i \in D |-> IF i \in seen THEN h[i] ELSE 0]
    OBVIOUS
  <1>2. PICK g : g = [i \in D |-> IF i \in seen \cup {d} THEN h[i] ELSE 0]
    OBVIOUS
  <1>3. /\ f \in [D -> Nat] /\ g \in [D -> Nat]
        /\ f[d] = 0 /\ g[d] = h[d] /\ h[d] \in Nat
        /\ \A i \in D : i # d => g[i] = f[i]
    BY <1>1, <1>2
  <1>4. SumFunction(g) - g[d] = SumFunction(f) - f[d]
    BY <1>3, SumUpdate
  <1>5. SumFunction(f) \in Nat /\ SumFunction(g) \in Nat
    BY <1>3, SumNat
  <1>6. SumFunction(g) = SumFunction(f) + h[d]
    BY <1>3, <1>4, <1>5
  <1> QED
    BY <1>1, <1>2, <1>6

\* One more bucket is seen: it counts in the window it belongs to.
LEMMA SeenOneMore ==
    ASSUME NEW seen, NEW c, NEW now, NEW offsets, IsFiniteSet(offsets), NEW j, j \notin seen,
           \A i \in offsets : CountAt(c, SeriesBucket(now, i)) \in Nat
    PROVE  SeenTotal(seen \cup {j}, c, now, offsets)
             = SeenTotal(seen, c, now, offsets)
               + IF j \in offsets THEN CountAt(c, SeriesBucket(now, j)) ELSE 0
  <1>1. PICK h : h = [i \in offsets |-> CountAt(c, SeriesBucket(now, i))]
    OBVIOUS
  <1>2. h \in [offsets -> Nat]
    BY <1>1
  <1>3. ASSUME NEW s
        PROVE  SeenTotal(s, c, now, offsets)
                 = SumFunction([i \in offsets |-> IF i \in s THEN h[i] ELSE 0])
    <2>1. [i \in offsets |-> IF i \in s THEN CountAt(c, SeriesBucket(now, i)) ELSE 0]
            = [i \in offsets |-> IF i \in s THEN h[i] ELSE 0]
      BY <1>1
    <2> QED
      BY <2>1 DEF SeenTotal
  <1>4. CASE j \in offsets
    <2>1. h[j] = CountAt(c, SeriesBucket(now, j))
      BY <1>1, <1>4
    <2>2. SumFunction([i \in offsets |-> IF i \in seen \cup {j} THEN h[i] ELSE 0])
            = SumFunction([i \in offsets |-> IF i \in seen THEN h[i] ELSE 0]) + h[j]
      BY <1>2, <1>4, SumOneMore
    <2> QED
      BY <1>3, <1>4, <2>1, <2>2
  <1>5. CASE j \notin offsets
    <2>1. [i \in offsets |-> IF i \in seen \cup {j} THEN h[i] ELSE 0]
            = [i \in offsets |-> IF i \in seen THEN h[i] ELSE 0]
      BY <1>5
    <2>2. SeenTotal(seen \cup {j}, c, now, offsets) = SeenTotal(seen, c, now, offsets)
      BY <1>3, <2>1
    <2>3. SumFunction([i \in offsets |-> IF i \in seen THEN h[i] ELSE 0]) \in Nat
      <3>1. [i \in offsets |-> IF i \in seen THEN h[i] ELSE 0] \in [offsets -> Nat]
        BY <1>2
      <3> QED
        BY <3>1, SumNat
    <2>4. SeenTotal(seen, c, now, offsets) \in Nat
      BY <1>3, <2>3
    <2> QED
      BY <1>5, <2>2, <2>4
  <1> QED
    BY <1>4, <1>5

-----------------------------------------------------------------------------
(* The inductive invariant.                                                *)

Tables == [Users -> [Buckets -> Nat]]

Waiting == [pc : {"idle", "failed"}, tries : 0..(Attempts - 1)]

Readings ==
    [pc : {"reading"}, now : Nat, before : Tables, tries : 1..Attempts, offset : 0..LastOffset,
     unread : SUBSET Users, current : [Users -> Nat], baseline : [Users -> Nat]]

Decisions ==
    [pc : {"blocking", "publishing", "done"}, now : Nat, before : Tables, tries : 1..Attempts,
     anomalies : SUBSET Users, unblocked : SUBSET Users,
     current : [Users -> Nat], baseline : [Users -> Nat]]

\* No counter of a table exceeds that of another.
Within(low, high) == \A u \in Users, b \in Buckets : low[u][b] <= high[u][b]

\* An invocation is not older than Lambda allows, and what it started from is
\* on every replica.
InTime(r) == r.now <= clock /\ clock <= r.now + InvocationTime /\ Within(r.before, settled)

\* An invocation has what its phase needs.
RunInv ==
    /\ run \in [Events -> Waiting \cup Readings \cup Decisions]
    /\ \A e \in Events : Working(e) => InTime(run[e])

\* Counters are naturals that only grow, replicas do not run ahead of them, and
\* together they stay within their bound.
CountInv ==
    /\ clock \in Buckets
    /\ count \in Tables /\ settled \in Tables
    /\ Within(settled, count)
    /\ Requested <= MaxRequests

\* The offsets at which an invocation has read u's counters.
ReadOffsets(r, u) ==
    IF r.pc = "reading"
    THEN {i \in Offsets : i < r.offset \/ (i = r.offset /\ u \notin r.unread)}
    ELSE Offsets

\* What was summed lies between what there was at the start and what there is.
Between(r, sums, high, offsets) ==
    \A u \in Users :
        /\ SeenTotal(ReadOffsets(r, u), r.before[u], r.now, offsets) <= sums[u]
        /\ sums[u] <= SeenTotal(ReadOffsets(r, u), high[u], r.now, offsets)

Sums(r, high) ==
    /\ Between(r, r.current, high, CurrentOffsets)
    /\ Between(r, r.baseline, high, BaselineOffsets)

SumsInv == \A e \in Events : Working(e) => Sums(run[e], count)

\* The decision is the rule's, and whoever is no longer to be blocked has a block,
\* if one that another invocation may have cut short.
Judged(r, ttls) ==
    /\ r.anomalies = {u \in Users : IsAnomaly(r.current[u], r.baseline[u])}
    /\ AutoBlock =>
         /\ r.pc # "blocking" => r.unblocked = {}
         /\ \A u \in r.anomalies \ r.unblocked :
              ttls[u] >= r.now + BlockTTL - InvocationTime

\* Alerts are not from the future, and what they say of the blocks is so.
BlocksInv ==
    /\ \A e \in Events : Decided(e) => Judged(run[e], blockTtl)
    /\ blockTtl \in [Users -> Nat \cup {NoRecord}]
    /\ \A a \in alerts : a.users \subseteq Users /\ a.at \in Buckets /\ a.at <= clock
    /\ AlertedUsersAreBlocked

-----------------------------------------------------------------------------
(* The phases of an invocation.                                            *)

\* The program counter tells the kind of record.
LEMMA PhaseOf ==
    ASSUME RunInv, NEW e \in Events
    PROVE  /\ run[e].pc \in {"idle", "failed"} => run[e] \in Waiting
           /\ run[e].pc = "reading" => run[e] \in Readings /\ Working(e)
           /\ Decided(e) => run[e] \in Decisions /\ Working(e)
           /\ Working(e) => run[e] \in Readings \cup Decisions
           /\ run[e].tries \in 0..Attempts
           /\ run[e].pc \in {"idle", "failed", "reading", "blocking", "publishing", "done"}
  <1>1. Attempts \in Nat
    BY DetectorAssumption
  <1>2. CASE run[e] \in Waiting
    BY <1>1, <1>2 DEF Waiting, Decided, Working
  <1>3. CASE run[e] \in Readings
    BY <1>1, <1>3 DEF Readings, Decided, Working
  <1>4. CASE run[e] \in Decisions
    BY <1>1, <1>4 DEF Decisions, Decided, Working
  <1> QED
    BY <1>2, <1>3, <1>4 DEF RunInv

\* Before the first invocation every event is idle.
LEMMA RunInvInit == Init => RunInv
  <1> SUFFICES ASSUME Init PROVE RunInv
    OBVIOUS
  <1>1. Idle \in Waiting
    BY DetectorAssumption DEF Idle, Waiting
  <1>2. \A e \in Events : run[e] = Idle
    BY DEF Init
  <1>3. \A e \in Events : ~Working(e)
    BY <1>2 DEF Idle, Working
  <1>4. run \in [Events -> Waiting \cup Readings \cup Decisions]
    BY <1>1 DEF Init
  <1> QED
    BY <1>3, <1>4 DEF RunInv

\* Time moves forward, up to its bound, and leaves no invocation behind.
LEMMA ClockStep ==
    ASSUME CountInv, [Next]_detectorVars
    PROVE  /\ clock' \in Buckets
           /\ clock \in Nat /\ clock' \in Nat /\ clock <= clock'
  <1>1. clock \in Nat /\ clock <= MaxTime /\ MaxTime \in Nat
    BY RulesAssumption DEF CountInv, Buckets
  <1>2. CASE Tick
    BY <1>1, <1>2 DEF Tick, Buckets
  <1>3. CASE clock' = clock
    BY <1>1, <1>3 DEF Buckets
  <1> QED
    BY <1>2, <1>3 DEF Next, HandlerStep, Invoke, ReadPage, NextBucket, Detect, PutBlock, Publish,
        Fail, Return, CountRequest, Replicate, detectorVars, tableVars

\* The records that the handler's steps make.
LEMMA NewRecords ==
    ASSUME CountInv
    PROVE  /\ \A tries \in 0..(Attempts - 1) :
                Reading(clock, settled, tries + 1, 0, NoCounts, NoCounts) \in Readings
           /\ \A r \in Readings : r.offset < LastOffset =>
                Reading(r.now, r.before, r.tries, r.offset + 1, r.current, r.baseline) \in Readings
           /\ \A r \in Readings : Decision(r) \in Decisions
           /\ \A r \in Decisions : [r EXCEPT !.pc = "done"] \in Decisions
  <1>1. /\ clock \in Nat /\ settled \in Tables
        /\ Attempts \in Nat \ {0} /\ LastOffset \in Nat
    BY DetectorAssumption, RulesAssumption, SeriesSplits DEF CountInv, Buckets
  <1>2. NoCounts \in [Users -> Nat]
    BY DEF NoCounts
  <1>3. ASSUME NEW tries \in 0..(Attempts - 1)
        PROVE  Reading(clock, settled, tries + 1, 0, NoCounts, NoCounts) \in Readings
    <2>1. tries + 1 \in 1..Attempts /\ 0 \in 0..LastOffset
      BY <1>1
    <2> QED
      BY <1>1, <1>2, <2>1 DEF Reading, Readings
  <1>4. ASSUME NEW r \in Readings, r.offset < LastOffset
        PROVE  Reading(r.now, r.before, r.tries, r.offset + 1, r.current, r.baseline) \in Readings
    <2>1. r.offset + 1 \in 0..LastOffset
      BY <1>1, <1>4 DEF Readings
    <2> QED
      BY <2>1 DEF Reading, Readings
  <1>5. ASSUME NEW r \in Readings PROVE Decision(r) \in Decisions
    BY DEF Decision, Decisions, Readings
  <1>6. ASSUME NEW r \in Decisions PROVE [r EXCEPT !.pc = "done"] \in Decisions
    BY DEF Decisions
  <1> QED
    BY <1>3, <1>4, <1>5, <1>6

\* A page leaves an invocation reading.
LEMMA PageRecord ==
    ASSUME NEW r \in Readings, NEW users \in SUBSET Users, NEW seen \in [users -> Nat]
    PROVE  /\ WithPage(r, seen) \in Readings
           /\ WithPage(r, seen).now = r.now /\ WithPage(r, seen).before = r.before
           /\ WithPage(r, seen).pc = "reading" /\ WithPage(r, seen).offset = r.offset
           /\ WithPage(r, seen).unread = r.unread \ users
           /\ r.offset \in CurrentOffsets =>
                /\ WithPage(r, seen).current = Added(r.current, seen)
                /\ WithPage(r, seen).baseline = r.baseline
           /\ r.offset \notin CurrentOffsets =>
                /\ WithPage(r, seen).current = r.current
                /\ WithPage(r, seen).baseline = Added(r.baseline, seen)
  <1>1. \A c \in [Users -> Nat] : Added(c, seen) \in [Users -> Nat]
    BY DEF Added
  <1>2. r.unread \ DOMAIN seen \in SUBSET Users /\ DOMAIN seen = users
    BY DEF Readings
  <1>3. Added(r.current, seen) \in [Users -> Nat] /\ Added(r.baseline, seen) \in [Users -> Nat]
    BY <1>1 DEF Readings
  <1>4. PICK p : p = WithPage(r, seen)
    OBVIOUS
  <1>5. p = IF r.offset \in CurrentOffsets
            THEN [r EXCEPT !.unread = r.unread \ DOMAIN seen,
                           !.current = Added(r.current, seen)]
            ELSE [r EXCEPT !.unread = r.unread \ DOMAIN seen,
                           !.baseline = Added(r.baseline, seen)]
    BY <1>4 DEF WithPage
  <1>6. /\ p \in Readings /\ p.now = r.now /\ p.before = r.before
        /\ p.pc = "reading" /\ p.offset = r.offset /\ p.unread = r.unread \ users
    <2>1. PICK x \in [Users -> Nat], y \in [Users -> Nat], left \in SUBSET Users :
            x = Added(r.current, seen) /\ y = Added(r.baseline, seen)
            /\ left = r.unread \ DOMAIN seen
      BY <1>2, <1>3
    <2>2. p = [r EXCEPT !.unread = left, !.current = x]
          \/ p = [r EXCEPT !.unread = left, !.baseline = y]
      BY <1>5, <2>1
    <2>3. p \in Readings /\ p.now = r.now /\ p.before = r.before
          /\ p.pc = "reading" /\ p.offset = r.offset /\ p.unread = left
      <3>1. CASE p = [r EXCEPT !.unread = left, !.current = x]
        BY <2>1, <3>1 DEF Readings
      <3>2. CASE p = [r EXCEPT !.unread = left, !.baseline = y]
        BY <2>1, <3>2 DEF Readings
      <3> QED
        BY <2>2, <3>1, <3>2
    <2> QED
      BY <1>2, <2>1, <2>3
  <1>7. /\ r.offset \in CurrentOffsets =>
             p.current = Added(r.current, seen) /\ p.baseline = r.baseline
        /\ r.offset \notin CurrentOffsets =>
             p.current = r.current /\ p.baseline = Added(r.baseline, seen)
    BY <1>5 DEF Readings
  <1> QED
    BY <1>4, <1>6, <1>7

\* A put leaves the decision as it is.
LEMMA BlockRecord ==
    ASSUME NEW r \in Decisions, NEW u \in Users
    PROVE  /\ WithBlock(r, u) \in Decisions
           /\ WithBlock(r, u).now = r.now /\ WithBlock(r, u).before = r.before
           /\ WithBlock(r, u).current = r.current /\ WithBlock(r, u).baseline = r.baseline
           /\ WithBlock(r, u).anomalies = r.anomalies
           /\ WithBlock(r, u).unblocked = r.unblocked \ {u}
           /\ WithBlock(r, u).pc # "blocking" => r.unblocked = {u}
  <1>1. r.unblocked \ {u} \in SUBSET Users
    BY DEF Decisions
  <1> QED
    BY <1>1 DEF WithBlock, Decisions

\* One invocation goes on, the others stay as they are.
LEMMA RunReplaced ==
    ASSUME RunInv, NEW e \in Events, NEW r \in Waiting \cup Readings \cup Decisions,
           run' = [run EXCEPT ![e] = r], UNCHANGED <<clock, settled>>,
           r \in Waiting \/ InTime(r)
    PROVE  RunInv'
  <1>1. /\ run \in [Events -> Waiting \cup Readings \cup Decisions]
        /\ run'[e] = r /\ \A f \in Events : f # e => run'[f] = run[f]
    BY DEF RunInv
  <1>2. run' \in [Events -> Waiting \cup Readings \cup Decisions]
    BY <1>1
  <1>3. ASSUME NEW f \in Events, Working(f)' PROVE InTime(run[f])'
    <2>1. CASE f = e
      <3>1. r \notin Waiting
        BY <1>1, <1>3, <2>1 DEF Working, Waiting
      <3> QED
        BY <1>1, <2>1, <3>1 DEF InTime, Within
    <2>2. CASE f # e
      <3>1. InTime(run[f])
        BY <1>1, <1>3, <2>2 DEF Working, RunInv
      <3> QED
        BY <1>1, <2>2, <3>1 DEF InTime, Within
    <2> QED
      BY <2>1, <2>2
  <1> QED
    BY <1>2, <1>3 DEF RunInv, Working

\* A step of the handler for e, seen as the record it leaves.
LEMMA HandlerRecord ==
    ASSUME CountInv, RunInv, NEW e \in Events, HandlerStep(e)
    PROVE  /\ UNCHANGED tableVars
           /\ \E r \in Waiting \cup Readings \cup Decisions :
                /\ run' = [run EXCEPT ![e] = r]
                /\ r \in Waiting \/ InTime(r)
  <1>1. UNCHANGED tableVars
    BY DEF HandlerStep, Invoke, ReadPage, NextBucket, Detect, PutBlock, Publish, Fail, Return
  <1>2. Attempts \in Nat \ {0}
    BY DetectorAssumption
  <1>3. /\ run[e].pc \in {"idle", "failed"} => run[e] \in Waiting
        /\ run[e].pc = "reading" => run[e] \in Readings /\ InTime(run[e])
        /\ Decided(e) => run[e] \in Decisions /\ InTime(run[e])
        /\ run[e].tries \in 0..Attempts
    BY PhaseOf DEF RunInv
  <1>4. CASE Invoke(e)
    <2>1. run[e] \in Waiting
      BY <1>3, <1>4 DEF Invoke
    <2>2. PICK tries \in 0..(Attempts - 1) : tries = run[e].tries
      BY <2>1 DEF Waiting
    <2>3. PICK r : r = Reading(clock, settled, tries + 1, 0, NoCounts, NoCounts)
      OBVIOUS
    <2>4. r \in Readings /\ run' = [run EXCEPT ![e] = r]
      BY <1>4, <2>2, <2>3, NewRecords DEF Invoke
    <2>5. r.now = clock /\ r.before = settled
      BY <2>3 DEF Reading
    <2>6. clock \in Nat /\ InvocationTime \in Nat /\ Within(settled, settled)
      BY RulesAssumption DEF CountInv, Buckets, Within, Tables
    <2>7. InTime(r)
      BY <2>5, <2>6 DEF InTime
    <2> QED
      BY <1>1, <2>4, <2>7
  <1>5. ASSUME NEW users \in SUBSET Users, NEW seen \in [users -> 0..MaxRequests],
               ReadPage(e, seen)
        PROVE  \E r \in Readings : run' = [run EXCEPT ![e] = r] /\ InTime(r)
    <2>1. run[e] \in Readings /\ InTime(run[e]) /\ run' = [run EXCEPT ![e] = WithPage(run[e], seen)]
      BY <1>3, <1>5 DEF ReadPage
    <2>2. seen \in [users -> Nat]
      BY DetectorAssumption
    <2>3. PICK r : r = WithPage(run[e], seen)
      OBVIOUS
    <2>4. r \in Readings /\ r.now = run[e].now /\ r.before = run[e].before
      BY <2>1, <2>2, <2>3, PageRecord
    <2> QED
      BY <2>1, <2>3, <2>4 DEF InTime
  <1>6. CASE NextBucket(e)
    <2>1. run[e] \in Readings /\ InTime(run[e]) /\ run[e].offset < LastOffset
      BY <1>3, <1>6 DEF NextBucket
    <2>2. PICK s : s = run[e]
      OBVIOUS
    <2>3. PICK r : r = Reading(s.now, s.before, s.tries, s.offset + 1, s.current, s.baseline)
      OBVIOUS
    <2>4. r \in Readings /\ r.now = s.now /\ r.before = s.before
      BY <2>1, <2>2, <2>3, NewRecords DEF Reading
    <2>5. run' = [run EXCEPT ![e] = r]
      BY <1>6, <2>2, <2>3 DEF NextBucket
    <2> QED
      BY <1>1, <2>1, <2>2, <2>4, <2>5 DEF InTime
  <1>7. CASE Detect(e)
    <2>1. run[e] \in Readings /\ InTime(run[e])
      BY <1>3, <1>7 DEF Detect
    <2>2. PICK r : r = Decision(run[e])
      OBVIOUS
    <2>3. r \in Decisions /\ r.now = run[e].now /\ r.before = run[e].before
      BY <2>1, <2>2, NewRecords DEF Decision
    <2>4. run' = [run EXCEPT ![e] = r]
      BY <1>7, <2>2 DEF Detect
    <2> QED
      BY <1>1, <2>1, <2>3, <2>4 DEF InTime
  <1>8. ASSUME NEW u \in Users, PutBlock(e, u)
        PROVE  \E r \in Decisions : run' = [run EXCEPT ![e] = r] /\ InTime(r)
    <2>1. run[e] \in Decisions /\ InTime(run[e]) /\ run' = [run EXCEPT ![e] = WithBlock(run[e], u)]
      BY <1>3, <1>8 DEF PutBlock, IsNext, Decided
    <2>2. PICK r : r = WithBlock(run[e], u)
      OBVIOUS
    <2>3. r \in Decisions /\ r.now = run[e].now /\ r.before = run[e].before
      BY <2>1, <2>2, BlockRecord
    <2> QED
      BY <2>1, <2>2, <2>3 DEF InTime
  <1>9. ASSUME NEW topic \in BOOLEAN, Publish(e, topic)
        PROVE  \E r \in Decisions : run' = [run EXCEPT ![e] = r] /\ InTime(r)
    <2>1. run[e] \in Decisions /\ InTime(run[e])
          /\ run' = [run EXCEPT ![e] = [run[e] EXCEPT !.pc = "done"]]
      BY <1>3, <1>9 DEF Publish, Decided
    <2>2. PICK r : r = [run[e] EXCEPT !.pc = "done"]
      OBVIOUS
    <2>3. r \in Decisions /\ r.now = run[e].now /\ r.before = run[e].before
      BY <2>1, <2>2, NewRecords DEF Decisions
    <2> QED
      BY <2>1, <2>2, <2>3 DEF InTime
  <1>10. CASE Fail(e) \/ Return(e)
    <2>1. Idle \in Waiting
      BY <1>2 DEF Idle, Waiting
    <2>2. run[e].tries < Attempts => [pc |-> "failed", tries |-> run[e].tries] \in Waiting
      BY <1>2, <1>3 DEF Waiting
    <2>3. run' = [run EXCEPT ![e] = Idle]
          \/ (run[e].tries < Attempts
              /\ run' = [run EXCEPT ![e] = [pc |-> "failed", tries |-> run[e].tries]])
      BY <1>10 DEF Fail, Return
    <2> QED
      BY <1>1, <2>1, <2>2, <2>3
  <1> QED
    BY <1>1, <1>4, <1>5, <1>6, <1>7, <1>8, <1>9, <1>10 DEF HandlerStep

\* Every step keeps what is known of the invocations.
LEMMA RunInvStep ==
    ASSUME CountInv, RunInv, [Next]_detectorVars
    PROVE  RunInv'
  <1>1. ASSUME NEW e \in Events, HandlerStep(e) PROVE RunInv'
    <2>1. PICK r \in Waiting \cup Readings \cup Decisions :
            run' = [run EXCEPT ![e] = r] /\ (r \in Waiting \/ InTime(r))
      BY <1>1, HandlerRecord
    <2>2. UNCHANGED <<clock, settled>>
      BY <1>1, HandlerRecord DEF tableVars
    <2> QED
      BY <2>1, <2>2, RunReplaced
  <1>2. ASSUME NEW u \in Users, NEW b \in Buckets, Replicate(u, b) PROVE RunInv'
    <2>1. PICK n \in (settled[u][b] + 1) .. count[u][b] :
            settled' = [settled EXCEPT ![u][b] = n]
      BY <1>2 DEF Replicate
    <2>2. UNCHANGED <<clock, run>> /\ settled \in Tables /\ count \in Tables
      BY <1>2 DEF Replicate, CountInv
    <2>3. settled[u][b] \in Nat /\ count[u][b] \in Nat
      BY <2>2 DEF Tables
    <2>4. n \in Nat /\ settled[u][b] <= n
      BY <2>1, <2>3
    <2>5. \A v \in Users, c \in Buckets :
            settled'[v][c] = IF v = u /\ c = b THEN n ELSE settled[v][c]
      BY <2>1, <2>2 DEF Tables
    <2>6. ASSUME NEW r \in Readings \cup Decisions, InTime(r) PROVE InTime(r)'
      <3>1. r.before \in Tables
        BY DEF Readings, Decisions
      <3>2. ASSUME NEW v \in Users, NEW c \in Buckets PROVE r.before[v][c] <= settled'[v][c]
        <4>1. PICK x \in Nat : x = r.before[v][c]
          BY <3>1 DEF Tables
        <4>2. PICK y \in Nat : y = settled[v][c]
          BY <2>2 DEF Tables
        <4>3. x <= y
          BY <2>6, <4>1, <4>2 DEF InTime, Within
        <4> QED
          BY <2>4, <2>5, <4>1, <4>2, <4>3
      <3>3. r.now <= clock' /\ clock' <= r.now + InvocationTime
        BY <2>2, <2>6 DEF InTime
      <3> QED
        BY <3>2, <3>3 DEF InTime, Within
    <2>7. \A e \in Events : Working(e) => run[e] \in Readings \cup Decisions /\ InTime(run[e])
      BY PhaseOf DEF RunInv
    <2> QED
      BY <2>2, <2>6, <2>7 DEF RunInv, Working
  <1>3. CASE Tick
    <2>1. /\ UNCHANGED <<settled, run>> /\ clock' = clock + 1 /\ clock \in Nat
          /\ \A e \in Events : Working(e) => clock < run[e].now + InvocationTime
      BY <1>3, ClockStep DEF Tick, CountInv
    <2>2. ASSUME NEW e \in Events, Working(e) PROVE InTime(run[e])'
      <3>1. PICK now \in Nat : now = run[e].now
        BY <2>2, PhaseOf DEF Readings, Decisions
      <3>2. now <= clock /\ clock < now + InvocationTime /\ InvocationTime \in Nat
        BY <2>1, <2>2, <3>1, RulesAssumption DEF RunInv, InTime
      <3>3. now <= clock + 1 /\ clock + 1 <= now + InvocationTime
        BY <2>1, <3>2
      <3>4. Within(run[e].before, settled)
        BY <2>2 DEF RunInv, InTime
      <3> QED
        BY <2>1, <3>1, <3>3, <3>4 DEF InTime, Within
    <2> QED
      BY <2>1, <2>2 DEF RunInv, Working
  <1>4. CASE (\E u \in Users, b \in Buckets : CountRequest(u, b)) \/ UNCHANGED detectorVars
    <2>1. UNCHANGED <<clock, settled, run>>
      BY <1>4 DEF CountRequest, detectorVars
    <2> QED
      BY <2>1 DEF RunInv, Working, InTime, Within
  <1> QED
    BY <1>1, <1>2, <1>3, <1>4 DEF Next

-----------------------------------------------------------------------------
(* The counters.                                                           *)

\* Every user's total is a natural number.
LEMMA UserTotals ==
    ASSUME CountInv
    PROVE  [u \in Users |-> SumFunction(count[u])] \in [Users -> Nat]
  <1>1. ASSUME NEW u \in Users PROVE SumFunction(count[u]) \in Nat
    <2>1. count[u] \in [Buckets -> Nat]
      BY DEF CountInv, Tables
    <2> QED
      BY <2>1, OffsetsFinite, SumNat
  <1> QED
    BY <1>1

\* A counted request is one request more.
LEMMA RequestedOneMore ==
    ASSUME CountInv, NEW u \in Users, NEW b \in Buckets,
           count' = [count EXCEPT ![u][b] = @ + 1]
    PROVE  Requested' = Requested + 1
  <1>1. PICK f : f = [v \in Users |-> SumFunction(count[v])]
    OBVIOUS
  <1>2. PICK g : g = [v \in Users |-> SumFunction(count'[v])]
    OBVIOUS
  <1>3. /\ count'[u] = [count[u] EXCEPT ![b] = @ + 1]
        /\ \A v \in Users : v # u => count'[v] = count[v]
        /\ count[u] \in [Buckets -> Nat]
    BY DEF CountInv, Tables
  <1>4. SumFunction(count'[u]) = SumFunction(count[u]) + 1
    <2>1. PICK c \in [Buckets -> Nat] : c = count[u]
      BY <1>3
    <2>2. SumFunction([c EXCEPT ![b] = @ + 1]) = SumFunction(c) + 1
      BY OffsetsFinite, SumIncrement
    <2> QED
      BY <1>3, <2>1, <2>2
  <1>5. f \in [Users -> Nat] /\ g = [f EXCEPT ![u] = @ + 1]
    <2>1. f \in [Users -> Nat]
      BY <1>1, UserTotals
    <2> QED
      BY <1>1, <1>2, <1>3, <1>4, <2>1
  <1>6. IsFiniteSet(Users)
    BY DetectorAssumption
  <1>7. SumFunction(g) = SumFunction(f) + 1
    BY <1>5, <1>6, SumIncrement
  <1> QED
    BY <1>1, <1>2, <1>7, Zenon DEF Requested

\* At first nothing is counted.
LEMMA CountInvInit == Init => CountInv
  <1> SUFFICES ASSUME Init PROVE CountInv
    OBVIOUS
  <1>1. /\ count = [u \in Users |-> [b \in Buckets |-> 0]]
        /\ settled = count /\ clock = 0
    BY DEF Init
  <1>2. SumFunction([b \in Buckets |-> 0]) = 0
    BY OffsetsFinite, SumZero
  <1>3. [u \in Users |-> SumFunction(count[u])] = [u \in Users |-> 0]
    BY <1>1, <1>2
  <1>4. Requested = 0
    BY <1>3, SumZero, DetectorAssumption DEF Requested
  <1>5. 0 \in Buckets
    BY RulesAssumption DEF Buckets
  <1>6. Requested <= MaxRequests
    BY <1>4, DetectorAssumption
  <1>7. count \in Tables
    BY <1>1 DEF Tables
  <1>8. Within(settled, count)
    BY <1>1 DEF Within
  <1> QED
    BY <1>1, <1>5, <1>6, <1>7, <1>8 DEF CountInv

\* A counted request makes its counter larger.
LEMMA CountGrows ==
    ASSUME CountInv, NEW u \in Users, NEW b \in Buckets, CountRequest(u, b)
    PROVE  count' \in Tables /\ Within(count, count')
  <1>1. count' = [count EXCEPT ![u][b] = @ + 1] /\ count \in Tables
    BY DEF CountRequest, CountInv
  <1>2. count[u][b] + 1 \in Nat
    BY <1>1 DEF Tables
  <1>3. count' \in Tables
    BY <1>1, <1>2 DEF Tables
  <1>4. ASSUME NEW v \in Users, NEW c \in Buckets PROVE count[v][c] <= count'[v][c]
    BY <1>1, <1>2 DEF Tables
  <1> QED
    BY <1>3, <1>4 DEF Within

\* What is within a smaller table is within a larger one.
LEMMA WithinTransitive ==
    ASSUME NEW x \in Tables, NEW y \in Tables, NEW z \in Tables, Within(x, y), Within(y, z)
    PROVE  Within(x, z)
  <1> SUFFICES ASSUME NEW u \in Users, NEW b \in Buckets PROVE x[u][b] <= z[u][b]
    BY DEF Within
  <1>1. x[u][b] \in Nat /\ y[u][b] \in Nat /\ z[u][b] \in Nat
    BY DEF Tables
  <1>2. x[u][b] <= y[u][b] /\ y[u][b] <= z[u][b]
    BY DEF Within
  <1> QED
    BY <1>1, <1>2

\* Every step keeps what is known of the counters.
LEMMA CountInvStep ==
    ASSUME CountInv, RunInv, [Next]_detectorVars
    PROVE  CountInv'
  <1>1. clock' \in Buckets
    BY ClockStep
  <1>2. ASSUME NEW u \in Users, NEW b \in Buckets, CountRequest(u, b) PROVE CountInv'
    <2>1. /\ count' = [count EXCEPT ![u][b] = @ + 1]
          /\ Requested < MaxRequests /\ settled' = settled
      BY <1>2 DEF CountRequest
    <2>2. Requested' = Requested + 1
      BY <2>1, RequestedOneMore
    <2>3. Requested \in Nat
      BY UserTotals, DetectorAssumption, SumNat DEF Requested
    <2>4. Requested' <= MaxRequests
      BY <2>1, <2>2, <2>3, DetectorAssumption
    <2>5. count' \in Tables /\ Within(count, count')
      BY <1>2, CountGrows
    <2>6. Within(settled, count')
      BY <2>5, WithinTransitive DEF CountInv
    <2>7. settled \in Tables
      BY DEF CountInv
    <2>8. Within(settled, count)'
      BY <2>1, <2>6 DEF Within
    <2> QED
      BY <1>1, <2>1, <2>4, <2>5, <2>7, <2>8 DEF CountInv, Tables
  <1>3. ASSUME NEW u \in Users, NEW b \in Buckets, Replicate(u, b) PROVE CountInv'
    <2>1. PICK n \in (settled[u][b] + 1) .. count[u][b] :
            settled' = [settled EXCEPT ![u][b] = n]
      BY <1>3 DEF Replicate
    <2>2. UNCHANGED count /\ settled \in Tables /\ count \in Tables
      BY <1>3 DEF Replicate, CountInv
    <2>3. settled[u][b] \in Nat /\ count[u][b] \in Nat
      BY <2>2 DEF Tables
    <2>4. n \in Nat /\ n <= count[u][b]
      BY <2>1, <2>3
    <2>5. settled' \in Tables
      BY <2>1, <2>2, <2>4 DEF Tables
    <2>6. ASSUME NEW v \in Users, NEW c \in Buckets PROVE settled'[v][c] <= count[v][c]
      <3>1. settled'[v][c] = IF v = u /\ c = b THEN n ELSE settled[v][c]
        BY <2>1, <2>2 DEF Tables
      <3>2. settled[v][c] <= count[v][c]
        BY DEF CountInv, Within
      <3> QED
        BY <2>4, <3>1, <3>2
    <2>7. Within(settled, count)'
      BY <2>2, <2>6 DEF Within
    <2>8. Requested' <= MaxRequests
      BY <2>2 DEF Requested, CountInv
    <2> QED
      BY <1>1, <2>2, <2>5, <2>7, <2>8 DEF CountInv, Tables
  <1>4. CASE UNCHANGED <<count, settled>>
    <2>1. Requested' <= MaxRequests
      BY <1>4 DEF Requested, CountInv
    <2>2. Within(settled, count)'
      BY <1>4 DEF Within, CountInv
    <2> QED
      BY <1>1, <1>4, <2>1, <2>2 DEF CountInv, Tables
  <1>5. ASSUME NEW e \in Events, HandlerStep(e) PROVE UNCHANGED <<count, settled>>
    BY <1>5, HandlerRecord DEF tableVars
  <1> QED
    BY <1>2, <1>3, <1>4, <1>5 DEF Next, Tick, detectorVars

-----------------------------------------------------------------------------
(* What is summed while the counters move.                                 *)

\* Larger counters leave what was summed between the start's and theirs.
LEMMA SumsGrow ==
    ASSUME NEW r \in Readings \cup Decisions, NEW low \in Tables, NEW high \in Tables,
           Within(low, high), Sums(r, low)
    PROVE  Sums(r, high)
  <1>1. /\ r.now \in Int
        /\ r.current \in [Users -> Nat] /\ r.baseline \in [Users -> Nat]
    BY DEF Readings, Decisions
  <1>2. ASSUME NEW sums \in [Users -> Nat], NEW offsets \in {CurrentOffsets, BaselineOffsets},
               Between(r, sums, low, offsets)
        PROVE  Between(r, sums, high, offsets)
    <2> SUFFICES ASSUME NEW u \in Users
                 PROVE  sums[u] <= SeenTotal(ReadOffsets(r, u), high[u], r.now, offsets)
      BY <1>2 DEF Between
    <2>1. PICK c \in [Buckets -> Nat] : c = low[u]
      BY DEF Tables
    <2>2. PICK d \in [Buckets -> Nat] : d = high[u]
      BY DEF Tables
    <2>3. PICK now \in Int : now = r.now
      BY <1>1
    <2>4. PICK o \in SUBSET Int : o = offsets /\ IsFiniteSet(o)
      BY OffsetsFinite
    <2>5. PICK seen : seen = ReadOffsets(r, u)
      OBVIOUS
    <2>6. SeenTotal(seen, c, now, o) <= SeenTotal(seen, d, now, o)
      <3>1. \A b \in Buckets : c[b] <= d[b]
        BY <2>1, <2>2 DEF Within
      <3> QED
        BY <2>4, <3>1, SeenMonotone
    <2>7. SeenTotal(seen, c, now, o) \in Nat /\ SeenTotal(seen, d, now, o) \in Nat
      BY <2>4, SeenNat
    <2>8. sums[u] <= SeenTotal(seen, c, now, o)
      BY <1>2, <2>1, <2>3, <2>4, <2>5 DEF Between
    <2>9. sums[u] \in Nat
      OBVIOUS
    <2>10. sums[u] <= SeenTotal(seen, d, now, o)
      BY <2>6, <2>7, <2>8, <2>9
    <2> QED
      BY <2>2, <2>3, <2>4, <2>5, <2>10
  <1> QED
    BY <1>1, <1>2 DEF Sums

\* An invocation that has read the same sums at the same offsets knows as much.
LEMMA SumsSame ==
    ASSUME NEW r, NEW s, NEW high, Sums(r, high),
           s.now = r.now, s.before = r.before, s.current = r.current, s.baseline = r.baseline,
           \A u \in Users : ReadOffsets(s, u) = ReadOffsets(r, u)
    PROVE  Sums(s, high)
  BY DEF Sums, Between

\* An invocation starts with nothing read.
LEMMA SumsAtStart ==
    ASSUME NEW now, NEW before, NEW tries, NEW high
    PROVE  Sums(Reading(now, before, tries, 0, NoCounts, NoCounts), high)
  <1>1. PICK r : r = Reading(now, before, tries, 0, NoCounts, NoCounts)
    OBVIOUS
  <1>2. /\ r.pc = "reading" /\ r.offset = 0 /\ r.unread = Users
        /\ r.current = [u \in Users |-> 0] /\ r.baseline = [u \in Users |-> 0]
    BY <1>1 DEF Reading, NoCounts
  <1>3. ASSUME NEW u \in Users PROVE ReadOffsets(r, u) = {}
    BY <1>2, <1>3 DEF ReadOffsets, Offsets
  <1>4. ASSUME NEW u \in Users, NEW c
        PROVE  /\ SeenTotal(ReadOffsets(r, u), c, r.now, CurrentOffsets) = 0
               /\ SeenTotal(ReadOffsets(r, u), c, r.now, BaselineOffsets) = 0
    <2>1. PICK seen, t : seen = ReadOffsets(r, u) /\ seen = {} /\ t = r.now
      BY <1>3
    <2>2. /\ SeenTotal(seen, c, t, CurrentOffsets) = 0
          /\ SeenTotal(seen, c, t, BaselineOffsets) = 0
      BY <2>1, SeenNothing, OffsetsFinite
    <2> QED
      BY <2>1, <2>2
  <1>5. Sums(r, high)
    BY <1>2, <1>4 DEF Sums, Between
  <1> QED
    BY <1>1, <1>5

\* A page adds the bucket to what was read of its users.
LEMMA PageReads ==
    ASSUME NEW r \in Readings, NEW users \in SUBSET r.unread, NEW seen \in [users -> Nat],
           NEW u \in Users
    PROVE  /\ u \in users => r.offset \notin ReadOffsets(r, u)
           /\ ReadOffsets(WithPage(r, seen), u)
                = IF u \in users THEN ReadOffsets(r, u) \cup {r.offset} ELSE ReadOffsets(r, u)
  <1>1. users \in SUBSET Users
    BY DEF Readings
  <1>2. PICK p : p = WithPage(r, seen)
    OBVIOUS
  <1>3. p.pc = "reading" /\ p.offset = r.offset /\ p.unread = r.unread \ users
    BY <1>1, <1>2, PageRecord
  <1>4. r.pc = "reading" /\ r.offset \in Offsets
    BY DEF Readings, Offsets
  <1>5. CASE u \in users
    <2>1. ReadOffsets(r, u) = {i \in Offsets : i < r.offset}
      BY <1>4, <1>5 DEF ReadOffsets
    <2>2. ReadOffsets(p, u) = {i \in Offsets : i < r.offset \/ i = r.offset}
      BY <1>3, <1>5 DEF ReadOffsets
    <2>3. r.offset \in Int
      BY <1>4, SeriesSplits DEF Offsets
    <2> QED
      BY <1>2, <1>4, <1>5, <2>1, <2>2, <2>3
  <1>6. CASE u \notin users
    BY <1>2, <1>3, <1>4, <1>6 DEF ReadOffsets
  <1> QED
    BY <1>5, <1>6

\* What a page adds to a window's sums lies between the bucket's counter at the
\* start and its counter now.
LEMMA PageBetween ==
    ASSUME NEW r \in Readings, NEW users \in SUBSET r.unread, NEW seen \in [users -> Nat],
           NEW high \in Tables, Within(r.before, high), NEW u \in Users,
           u \in users =>
             /\ CountAt(r.before[u], SeriesBucket(r.now, r.offset)) <= seen[u]
             /\ seen[u] <= CountAt(high[u], SeriesBucket(r.now, r.offset)),
           NEW sums \in [Users -> Nat], NEW new \in [Users -> Nat],
           NEW offsets \in {CurrentOffsets, BaselineOffsets},
           Between(r, sums, high, offsets),
           new[u] = sums[u] + IF u \in users /\ r.offset \in offsets THEN seen[u] ELSE 0
    PROVE  /\ SeenTotal(ReadOffsets(WithPage(r, seen), u), r.before[u], r.now, offsets) <= new[u]
           /\ new[u] <= SeenTotal(ReadOffsets(WithPage(r, seen), u), high[u], r.now, offsets)
  <1>1. PICK now \in Int : now = r.now
    BY DEF Readings
  <1>2. PICK j \in Int : j = r.offset
    BY SeriesSplits DEF Readings
  <1>3. PICK o \in SUBSET Int : o = offsets /\ IsFiniteSet(o)
    BY OffsetsFinite
  <1>4. PICK read : read = ReadOffsets(r, u)
    OBVIOUS
  <1>5. PICK b \in [Buckets -> Nat] : b = r.before[u]
    BY DEF Readings, Tables
  <1>6. PICK c \in [Buckets -> Nat] : c = high[u]
    BY DEF Tables
  <1>7. \A i \in Int : /\ CountAt(b, SeriesBucket(now, i)) \in Nat
                       /\ CountAt(c, SeriesBucket(now, i)) \in Nat
    <2>1. \A k \in Buckets : b[k] <= c[k]
      BY <1>5, <1>6 DEF Within
    <2>2. \A k \in Int : CountAt(b, k) \in Nat /\ CountAt(c, k) \in Nat
      BY <2>1, CountAtOrder
    <2> QED
      BY <2>2 DEF SeriesBucket
  <1>8. /\ SeenTotal(read, b, now, o) \in Nat /\ SeenTotal(read, c, now, o) \in Nat
        /\ SeenTotal(read, b, now, o) <= sums[u] /\ sums[u] <= SeenTotal(read, c, now, o)
    <2>1. SeenTotal(read, b, now, o) \in Nat /\ SeenTotal(read, c, now, o) \in Nat
      BY <1>3, SeenNat
    <2> QED
      BY <2>1, <1>1, <1>3, <1>4, <1>5, <1>6 DEF Between
  <1>9. PICK x \in Nat : x = sums[u]
    OBVIOUS
  <1>10. CASE u \in users
    <2>1. j \notin read /\ ReadOffsets(WithPage(r, seen), u) = read \cup {j}
      BY <1>2, <1>4, <1>10, PageReads
    <2>2. /\ SeenTotal(read \cup {j}, b, now, o) = SeenTotal(read, b, now, o)
               + IF j \in o THEN CountAt(b, SeriesBucket(now, j)) ELSE 0
          /\ SeenTotal(read \cup {j}, c, now, o) = SeenTotal(read, c, now, o)
               + IF j \in o THEN CountAt(c, SeriesBucket(now, j)) ELSE 0
      <3>1. PICK p, k : p = o /\ k = j
        OBVIOUS
      <3>2. /\ IsFiniteSet(p) /\ k \notin read
            /\ \A i \in p : CountAt(b, SeriesBucket(now, i)) \in Nat
            /\ \A i \in p : CountAt(c, SeriesBucket(now, i)) \in Nat
        BY <1>3, <1>7, <2>1, <3>1
      <3>3. SeenTotal(read \cup {k}, b, now, p) = SeenTotal(read, b, now, p)
               + IF k \in p THEN CountAt(b, SeriesBucket(now, k)) ELSE 0
        BY <3>2, SeenOneMore
      <3>4. SeenTotal(read \cup {k}, c, now, p) = SeenTotal(read, c, now, p)
               + IF k \in p THEN CountAt(c, SeriesBucket(now, k)) ELSE 0
        BY <3>2, SeenOneMore
      <3> QED
        BY <3>1, <3>3, <3>4
    <2>3. PICK n \in Nat : n = seen[u]
      BY <1>10
    <2>4. new[u] = x + IF j \in o THEN n ELSE 0
      BY <1>2, <1>3, <1>9, <1>10, <2>3
    <2>5. PICK y \in Nat : y = CountAt(b, SeriesBucket(now, j))
      BY <1>7
    <2>6. PICK z \in Nat : z = CountAt(c, SeriesBucket(now, j))
      BY <1>7
    <2>7. y <= n /\ n <= z
      BY <1>1, <1>2, <1>5, <1>6, <1>10, <2>3, <2>5, <2>6
    <2>8. /\ SeenTotal(read \cup {j}, b, now, o) <= new[u]
          /\ new[u] <= SeenTotal(read \cup {j}, c, now, o)
      BY <1>8, <1>9, <2>2, <2>4, <2>5, <2>6, <2>7
    <2> QED
      BY <1>1, <1>3, <1>5, <1>6, <2>1, <2>8
  <1>11. CASE u \notin users
    <2>1. ReadOffsets(WithPage(r, seen), u) = read
      BY <1>4, <1>11, PageReads
    <2>2. new[u] = sums[u]
      BY <1>9, <1>11
    <2> QED
      BY <1>1, <1>3, <1>5, <1>6, <1>8, <2>1, <2>2
  <1> QED
    BY <1>10, <1>11

\* A page: the window it belongs to gains, the other one does not.
LEMMA SumsAtPage ==
    ASSUME NEW r \in Readings, NEW users \in SUBSET r.unread, NEW seen \in [users -> Nat],
           NEW high \in Tables, Within(r.before, high), Sums(r, high),
           \A u \in users :
             /\ CountAt(r.before[u], SeriesBucket(r.now, r.offset)) <= seen[u]
             /\ seen[u] <= CountAt(high[u], SeriesBucket(r.now, r.offset))
    PROVE  Sums(WithPage(r, seen), high)
  <1>1. PICK p : p = WithPage(r, seen)
    OBVIOUS
  <1>2. /\ p \in Readings /\ p.now = r.now /\ p.before = r.before
        /\ r.offset \in CurrentOffsets =>
             p.current = Added(r.current, seen) /\ p.baseline = r.baseline
        /\ r.offset \notin CurrentOffsets =>
             p.current = r.current /\ p.baseline = Added(r.baseline, seen)
    <2>1. users \in SUBSET Users
      BY DEF Readings
    <2> QED
      BY <1>1, <2>1, PageRecord
  <1>3. /\ r.current \in [Users -> Nat] /\ p.current \in [Users -> Nat]
        /\ r.baseline \in [Users -> Nat] /\ p.baseline \in [Users -> Nat]
        /\ r.offset \in CurrentOffsets \/ r.offset \in BaselineOffsets
        /\ ~(r.offset \in CurrentOffsets /\ r.offset \in BaselineOffsets)
    BY <1>2, SeriesSplits DEF Readings, Offsets
  <1>4. /\ Between(r, r.current, high, CurrentOffsets)
        /\ Between(r, r.baseline, high, BaselineOffsets)
    BY DEF Sums
  <1>5. ASSUME NEW u \in Users
        PROVE  /\ p.current[u] = r.current[u]
                    + IF u \in users /\ r.offset \in CurrentOffsets THEN seen[u] ELSE 0
               /\ p.baseline[u] = r.baseline[u]
                    + IF u \in users /\ r.offset \in BaselineOffsets THEN seen[u] ELSE 0
    <2>1. r.current[u] + 0 = r.current[u] /\ r.baseline[u] + 0 = r.baseline[u]
      BY <1>3
    <2> QED
      BY <1>2, <1>3, <2>1 DEF Added
  <1>6. PICK x \in [Users -> Nat] : x = p.current
    BY <1>3
  <1>7. PICK y \in [Users -> Nat] : y = p.baseline
    BY <1>3
  <1>8. PICK s \in [Users -> Nat] : s = r.current
    BY <1>3
  <1>9. PICK t \in [Users -> Nat] : t = r.baseline
    BY <1>3
  <1>10. ASSUME NEW u \in Users
        PROVE  /\ SeenTotal(ReadOffsets(p, u), r.before[u], r.now, CurrentOffsets) <= x[u]
               /\ x[u] <= SeenTotal(ReadOffsets(p, u), high[u], r.now, CurrentOffsets)
    <2>1. x[u] = s[u] + IF u \in users /\ r.offset \in CurrentOffsets THEN seen[u] ELSE 0
      BY <1>5, <1>6, <1>8
    <2>2. Between(r, s, high, CurrentOffsets)
      BY <1>4, <1>8
    <2> QED
      BY <1>1, <2>1, <2>2, PageBetween
  <1>11. ASSUME NEW u \in Users
        PROVE  /\ SeenTotal(ReadOffsets(p, u), r.before[u], r.now, BaselineOffsets) <= y[u]
               /\ y[u] <= SeenTotal(ReadOffsets(p, u), high[u], r.now, BaselineOffsets)
    <2>1. y[u] = t[u] + IF u \in users /\ r.offset \in BaselineOffsets THEN seen[u] ELSE 0
      BY <1>5, <1>7, <1>9
    <2>2. Between(r, t, high, BaselineOffsets)
      BY <1>4, <1>9
    <2> QED
      BY <1>1, <2>1, <2>2, PageBetween
  <1>12. Sums(p, high)
    BY <1>2, <1>6, <1>7, <1>10, <1>11 DEF Sums, Between
  <1> QED
    BY <1>1, <1>12

\* What every replica held at the start bounds what a page may answer.
LEMMA PageAnswers ==
    ASSUME CountInv, NEW r \in Readings, InTime(r), NEW u \in Users, NEW n \in Nat,
           MayRead(u, SeriesBucket(r.now, r.offset), n)
    PROVE  /\ CountAt(r.before[u], SeriesBucket(r.now, r.offset)) <= n
           /\ n <= CountAt(count[u], SeriesBucket(r.now, r.offset))
  <1>1. PICK b \in [Buckets -> Nat] : b = r.before[u]
    BY DEF Readings, Tables
  <1>2. PICK c \in [Buckets -> Nat] : c = settled[u]
    BY DEF CountInv, Tables
  <1>3. \A k \in Buckets : b[k] <= c[k]
    BY <1>1, <1>2 DEF InTime, Within
  <1>4. PICK k \in Int : k = SeriesBucket(r.now, r.offset)
    BY SeriesSplits DEF Readings, SeriesBucket
  <1>5. CountAt(b, k) \in Nat /\ CountAt(c, k) \in Nat /\ CountAt(b, k) <= CountAt(c, k)
    BY <1>3, CountAtOrder
  <1>6. CountAt(c, k) <= n /\ n <= CountAt(count[u], k)
    BY <1>2, <1>4 DEF MayRead
  <1>7. CountAt(b, k) <= n
    BY <1>5, <1>6
  <1> QED
    BY <1>1, <1>4, <1>6, <1>7

\* A step of the handler for e, seen as what the record it leaves knows.
LEMMA HandlerSums ==
    ASSUME CountInv, RunInv, SumsInv, NEW e \in Events, HandlerStep(e)
    PROVE  \E r : /\ run' = [run EXCEPT ![e] = r]
                  /\ r.pc \in {"idle", "failed"} \/ Sums(r, count)
  <1>1. /\ run[e].pc = "reading" =>
             run[e] \in Readings /\ InTime(run[e]) /\ Sums(run[e], count)
        /\ Decided(e) => run[e] \in Decisions /\ Sums(run[e], count)
    BY PhaseOf DEF RunInv, SumsInv
  <1>2. LastOffset \in Nat
    BY SeriesSplits
  <1>3. CASE Invoke(e)
    BY <1>3, SumsAtStart DEF Invoke
  <1>4. ASSUME NEW users \in SUBSET Users, NEW seen \in [users -> 0..MaxRequests],
               ReadPage(e, seen)
        PROVE  /\ run' = [run EXCEPT ![e] = WithPage(run[e], seen)]
               /\ Sums(WithPage(run[e], seen), count)
    <2>1. /\ run' = [run EXCEPT ![e] = WithPage(run[e], seen)]
          /\ DOMAIN seen = users /\ users \subseteq run[e].unread
          /\ \A u \in users : MayRead(u, SeriesBucket(run[e].now, run[e].offset), seen[u])
      BY <1>4 DEF ReadPage
    <2>2. seen \in [users -> Nat] /\ run[e] \in Readings /\ InTime(run[e]) /\ Sums(run[e], count)
      BY <1>1, <1>4, DetectorAssumption DEF ReadPage
    <2>3. PICK r \in Readings : r = run[e]
      BY <2>2
    <2>4. ASSUME NEW u \in users
          PROVE  /\ CountAt(r.before[u], SeriesBucket(r.now, r.offset)) <= seen[u]
                 /\ seen[u] <= CountAt(count[u], SeriesBucket(r.now, r.offset))
      <3>1. u \in Users /\ seen[u] \in Nat /\ MayRead(u, SeriesBucket(r.now, r.offset), seen[u])
        BY <2>1, <2>2, <2>3
      <3> QED
        BY <2>2, <2>3, <3>1, PageAnswers
    <2>5. Within(r.before, count)
      <3>1. r.before \in Tables /\ settled \in Tables /\ count \in Tables
            /\ Within(r.before, settled) /\ Within(settled, count)
        BY <2>2, <2>3 DEF Readings, CountInv, InTime
      <3> QED
        BY <3>1, WithinTransitive
    <2>6. count \in Tables
      BY DEF CountInv
    <2>7. users \in SUBSET r.unread /\ Sums(r, count)
      BY <2>1, <2>2, <2>3
    <2>8. Sums(WithPage(r, seen), count)
      BY <2>2, <2>4, <2>5, <2>6, <2>7, SumsAtPage
    <2> QED
      BY <2>1, <2>3, <2>8
  <1>5. CASE NextBucket(e)
    <2>1. PICK s \in Readings : s = run[e] /\ Sums(s, count)
      BY <1>1, <1>5 DEF NextBucket
    <2>2. PICK r : r = Reading(s.now, s.before, s.tries, s.offset + 1, s.current, s.baseline)
      OBVIOUS
    <2>3. /\ r.now = s.now /\ r.before = s.before
          /\ r.current = s.current /\ r.baseline = s.baseline
          /\ r.pc = "reading" /\ r.offset = s.offset + 1 /\ r.unread = Users
          /\ s.pc = "reading" /\ s.unread = {}
      BY <1>5, <2>1, <2>2 DEF Reading, NextBucket
    <2>4. ASSUME NEW u \in Users PROVE ReadOffsets(r, u) = ReadOffsets(s, u)
      <3>1. s.offset \in Nat
        BY <2>1, <1>2 DEF Readings
      <3>2. \A i \in Offsets : i < s.offset + 1 <=> (i < s.offset \/ i = s.offset)
        BY <1>2, <3>1 DEF Offsets
      <3> QED
        BY <2>3, <3>2 DEF ReadOffsets
    <2>5. Sums(r, count)
      BY <2>1, <2>3, <2>4, SumsSame
    <2>6. run' = [run EXCEPT ![e] = r]
      BY <1>5, <2>1, <2>2 DEF NextBucket
    <2> QED
      BY <2>5, <2>6
  <1>6. CASE Detect(e)
    <2>1. PICK s \in Readings : s = run[e] /\ Sums(s, count)
      BY <1>1, <1>6 DEF Detect
    <2>2. PICK r : r = Decision(s)
      OBVIOUS
    <2>3. /\ r.now = s.now /\ r.before = s.before
          /\ r.current = s.current /\ r.baseline = s.baseline /\ r.pc # "reading"
          /\ s.pc = "reading" /\ s.unread = {} /\ s.offset = LastOffset
      BY <1>6, <2>1, <2>2 DEF Decision, Detect
    <2>4. ASSUME NEW u \in Users PROVE ReadOffsets(r, u) = ReadOffsets(s, u)
      <3>1. \A i \in Offsets : i < LastOffset \/ i = LastOffset
        BY <1>2 DEF Offsets
      <3> QED
        BY <2>3, <3>1 DEF ReadOffsets
    <2>5. Sums(r, count)
      BY <2>1, <2>3, <2>4, SumsSame
    <2>6. run' = [run EXCEPT ![e] = r]
      BY <1>6, <2>1, <2>2 DEF Detect
    <2> QED
      BY <2>5, <2>6
  <1>7. ASSUME (\E u \in Users : PutBlock(e, u)) \/ (\E topic \in BOOLEAN : Publish(e, topic))
        PROVE  \E r : run' = [run EXCEPT ![e] = r] /\ Sums(r, count)
    <2>1. Decided(e)
      BY <1>7 DEF PutBlock, IsNext, Publish, Decided
    <2>2. PICK s \in Decisions : s = run[e] /\ Sums(s, count)
      BY <1>1, <2>1
    <2>3. PICK r \in Decisions :
            /\ run' = [run EXCEPT ![e] = r] /\ r.now = s.now /\ r.before = s.before
            /\ r.current = s.current /\ r.baseline = s.baseline
      <3>1. CASE \E u \in Users : PutBlock(e, u)
        <4>1. PICK u \in Users : run' = [run EXCEPT ![e] = WithBlock(s, u)]
          BY <2>2, <3>1 DEF PutBlock
        <4>2. PICK r : r = WithBlock(s, u)
          OBVIOUS
        <4>3. /\ r \in Decisions /\ r.now = s.now /\ r.before = s.before
              /\ r.current = s.current /\ r.baseline = s.baseline
          BY <4>2, BlockRecord
        <4> QED
          BY <4>1, <4>2, <4>3
      <3>2. CASE \E topic \in BOOLEAN : Publish(e, topic)
        <4>1. PICK r : r = [s EXCEPT !.pc = "done"]
          OBVIOUS
        <4>2. /\ r \in Decisions /\ r.now = s.now /\ r.before = s.before
              /\ r.current = s.current /\ r.baseline = s.baseline
          BY <4>1 DEF Decisions
        <4>3. run' = [run EXCEPT ![e] = r]
          BY <2>2, <3>2, <4>1 DEF Publish
        <4> QED
          BY <4>2, <4>3
      <3> QED
        BY <1>7, <3>1, <3>2
    <2>4. ASSUME NEW u \in Users PROVE ReadOffsets(r, u) = ReadOffsets(s, u)
      <3>1. r.pc # "reading" /\ s.pc # "reading"
        BY DEF Decisions
      <3> QED
        BY <3>1 DEF ReadOffsets
    <2>5. Sums(r, count)
      BY <2>2, <2>3, <2>4, SumsSame
    <2> QED
      BY <2>3, <2>5
  <1>8. CASE Fail(e) \/ Return(e)
    <2>1. \/ run' = [run EXCEPT ![e] = [pc |-> "failed", tries |-> run[e].tries]]
          \/ run' = [run EXCEPT ![e] = [pc |-> "idle", tries |-> 0]]
      BY <1>8 DEF Fail, Return, Idle
    <2>2. [pc |-> "failed", tries |-> run[e].tries].pc = "failed"
      OBVIOUS
    <2>3. [pc |-> "idle", tries |-> 0].pc = "idle"
      OBVIOUS
    <2> QED
      BY <2>1, <2>2, <2>3
  <1> QED
    BY <1>3, <1>4, <1>5, <1>6, <1>7, <1>8 DEF HandlerStep

\* Every step keeps the sums of a run between the counters at its start and now.
LEMMA SumsInvStep ==
    ASSUME CountInv, CountInv', RunInv, SumsInv, [Next]_detectorVars
    PROVE  SumsInv'
  <1>1. ASSUME NEW e \in Events, HandlerStep(e) PROVE SumsInv'
    <2>1. PICK r : /\ run' = [run EXCEPT ![e] = r]
                   /\ r.pc \in {"idle", "failed"} \/ Sums(r, count)
      BY <1>1, HandlerSums
    <2>2. count' = count
      BY <1>1, HandlerRecord DEF tableVars
    <2>3. run'[e] = r /\ \A f \in Events : f # e => run'[f] = run[f]
      BY <2>1 DEF RunInv
    <2>4. ASSUME NEW f \in Events, Working(f)' PROVE Sums(run'[f], count)
      <3>1. CASE f = e
        BY <2>1, <2>3, <2>4, <3>1 DEF Working
      <3>2. CASE f # e
        BY <2>3, <2>4, <3>2 DEF Working, SumsInv
      <3> QED
        BY <3>1, <3>2
    <2> QED
      BY <2>2, <2>4 DEF SumsInv
  <1>2. CASE UNCHANGED <<run, count>>
    BY <1>2 DEF SumsInv, Working
  <1>3. ASSUME NEW u \in Users, NEW b \in Buckets, CountRequest(u, b) PROVE SumsInv'
    <2>1. count \in Tables /\ count' \in Tables /\ Within(count, count') /\ run' = run
      BY <1>3, CountGrows DEF CountInv, CountRequest
    <2>2. ASSUME NEW e \in Events, Working(e) PROVE Sums(run[e], count')
      <3>1. run[e] \in Readings \cup Decisions /\ Sums(run[e], count)
        BY <2>2, PhaseOf DEF SumsInv
      <3> QED
        BY <2>1, <3>1, SumsGrow
    <2> QED
      BY <2>1, <2>2 DEF SumsInv, Working
  <1> QED
    BY <1>1, <1>2, <1>3 DEF Next, Replicate, Tick, detectorVars

-----------------------------------------------------------------------------
(* The blocks and the alerts.                                              *)

\* In the beginning nobody is flagged, blocked or alerted.
LEMMA BlocksInvInit == Init => BlocksInv
  BY DEF Init, Idle, BlocksInv, Decided, AlertedUsersAreBlocked, NoRecord

\* Who has decided, decided by now.
LEMMA DecidedTypes ==
    ASSUME CountInv, RunInv, NEW e \in Events, Decided(e)
    PROVE  /\ run[e] \in Decisions
           /\ run[e].now \in Nat /\ run[e].now \in Buckets
           /\ run[e].now <= clock /\ clock <= run[e].now + InvocationTime
  <1>1. run[e] \in Decisions /\ InTime(run[e])
    BY PhaseOf DEF RunInv
  <1>2. clock \in Nat /\ clock <= MaxTime /\ MaxTime \in Nat
    BY RulesAssumption DEF CountInv, Buckets
  <1>3. run[e].now \in Nat /\ run[e].now <= clock /\ clock <= run[e].now + InvocationTime
    BY <1>1 DEF Decisions, InTime
  <1> QED
    BY <1>1, <1>2, <1>3 DEF Buckets

\* A step that writes no record and makes no alert keeps what is known of both,
\* if the invocation that took it has decided as the rule says.
LEMMA BlocksKept ==
    ASSUME CountInv, BlocksInv, [Next]_detectorVars, UNCHANGED <<blockTtl, alerts>>,
           \A e \in Events : Decided(e)' => Judged(run'[e], blockTtl)
    PROVE  BlocksInv'
  <1>1. clock \in Nat /\ clock' \in Nat /\ clock <= clock'
    BY ClockStep
  <1>2. ASSUME NEW a \in alerts
        PROVE  a.users \subseteq Users /\ a.at \in Buckets /\ a.at <= clock'
    <2>1. a.users \subseteq Users /\ a.at \in Buckets /\ a.at <= clock
      BY DEF BlocksInv
    <2>2. a.at \in Nat
      BY <2>1, RulesAssumption DEF Buckets
    <2> QED
      BY <1>1, <2>1, <2>2
  <1>3. AlertedUsersAreBlocked'
    BY DEF BlocksInv, AlertedUsersAreBlocked
  <1> QED
    BY <1>2, <1>3 DEF BlocksInv

\* A put gives its user a block that every invocation under way may rely on.
LEMMA PutBlocks ==
    ASSUME CountInv, RunInv, BlocksInv, NEW e \in Events, NEW u \in Users, PutBlock(e, u)
    PROVE  BlocksInv'
  <1>1. Decided(e) /\ run[e].pc = "blocking"
    BY DEF PutBlock, IsNext, Decided
  <1>2. PICK s \in Decisions : s = run[e]
    BY <1>1, DecidedTypes
  <1>3. PICK r : r = WithBlock(s, u)
    OBVIOUS
  <1>4. PICK now \in Nat : now = s.now
    BY <1>1, <1>2, DecidedTypes
  <1>5. /\ run' = [run EXCEPT ![e] = r]
        /\ blockTtl' = [blockTtl EXCEPT ![u] = now + BlockTTL]
        /\ UNCHANGED <<clock, alerts>>
    BY <1>2, <1>3, <1>4 DEF PutBlock, tableVars
  <1>6. /\ clock \in Nat /\ BlockTTL \in Nat /\ InvocationTime \in Nat
        /\ clock <= now + InvocationTime
    BY <1>1, <1>2, <1>4, DecidedTypes, RulesAssumption DEF CountInv, Buckets
  <1>7. blockTtl \in [Users -> Nat \cup {NoRecord}] /\ now + BlockTTL \in Nat
    BY <1>6 DEF BlocksInv
  <1>8. /\ blockTtl' \in [Users -> Nat \cup {NoRecord}]
        /\ \A v \in Users : blockTtl'[v] = IF v = u THEN now + BlockTTL ELSE blockTtl[v]
    BY <1>5, <1>7
  <1>9. ASSUME NEW at \in Nat, at <= clock, NEW v \in Users,
               blockTtl[v] >= at + BlockTTL - InvocationTime \/ v = u
        PROVE  blockTtl'[v] >= at + BlockTTL - InvocationTime
    <2>1. CASE v = u
      <3>1. blockTtl'[v] = now + BlockTTL
        BY <1>8, <2>1
      <3> QED
        BY <1>6, <1>9, <3>1
    <2>2. CASE v # u
      BY <1>8, <1>9, <2>2
    <2> QED
      BY <2>1, <2>2
  <1>10. ASSUME NEW f \in Events, Decided(f)' PROVE Judged(run'[f], blockTtl')
    <2>1. CASE f = e
      <3>1. /\ r.now = s.now /\ r.current = s.current /\ r.baseline = s.baseline
            /\ r.anomalies = s.anomalies /\ r.unblocked = s.unblocked \ {u}
            /\ r.pc # "blocking" => s.unblocked = {u}
        BY <1>3, BlockRecord
      <3>2. Judged(s, blockTtl)
        BY <1>1, <1>2 DEF BlocksInv
      <3>3. run'[f] = r
        BY <1>5, <2>1 DEF RunInv
      <3>4. ASSUME AutoBlock, NEW v \in r.anomalies \ r.unblocked
            PROVE  blockTtl'[v] >= now + BlockTTL - InvocationTime
        <4>1. v \in Users /\ (v = u \/ v \in s.anomalies \ s.unblocked)
          BY <3>1, <3>4 DEF Decisions
        <4>2. v = u \/ blockTtl[v] >= now + BlockTTL - InvocationTime
          BY <1>4, <3>2, <3>4, <4>1 DEF Judged
        <4>3. now <= clock
          BY <1>1, <1>2, <1>4, DecidedTypes
        <4> QED
          BY <1>9, <4>1, <4>2, <4>3
      <3>5. Judged(r, blockTtl')
        BY <1>4, <3>1, <3>2, <3>4 DEF Judged
      <3> QED
        BY <3>3, <3>5
    <2>2. CASE f # e
      <3>1. run'[f] = run[f] /\ Decided(f)
        BY <1>5, <1>10, <2>2 DEF RunInv, Decided
      <3>2. PICK t \in Decisions : t = run[f] /\ Judged(t, blockTtl)
        BY <3>1, DecidedTypes DEF BlocksInv
      <3>3. PICK at \in Nat : at = t.now /\ at <= clock
        BY <3>1, <3>2, DecidedTypes
      <3>4. ASSUME AutoBlock, NEW v \in t.anomalies \ t.unblocked
            PROVE  blockTtl'[v] >= at + BlockTTL - InvocationTime
        <4>1. v \in Users /\ blockTtl[v] >= at + BlockTTL - InvocationTime
          BY <3>2, <3>3, <3>4 DEF Judged, Decisions
        <4> QED
          BY <1>9, <3>3, <4>1
      <3>5. Judged(t, blockTtl')
        BY <3>2, <3>3, <3>4 DEF Judged
      <3> QED
        BY <3>1, <3>2, <3>5
    <2> QED
      BY <2>1, <2>2
  <1>11. ASSUME NEW a \in alerts
         PROVE  /\ a.users \subseteq Users /\ a.at \in Buckets /\ a.at <= clock
                /\ a.autoBlocked =>
                     \A v \in a.users : blockTtl'[v] >= a.at + BlockTTL - InvocationTime
    <2>1. a.users \subseteq Users /\ a.at \in Buckets /\ a.at <= clock
      BY DEF BlocksInv
    <2>2. PICK at \in Nat : at = a.at
      BY <2>1, RulesAssumption DEF Buckets
    <2>3. ASSUME a.autoBlocked, NEW v \in a.users
          PROVE  blockTtl'[v] >= at + BlockTTL - InvocationTime
      <3>1. blockTtl[v] >= at + BlockTTL - InvocationTime /\ v \in Users
        BY <2>1, <2>2, <2>3 DEF BlocksInv, AlertedUsersAreBlocked
      <3> QED
        BY <1>9, <2>1, <2>2, <3>1
    <2> QED
      BY <2>1, <2>2, <2>3
  <1>12. AlertedUsersAreBlocked'
    BY <1>5, <1>11 DEF AlertedUsersAreBlocked
  <1> QED
    BY <1>5, <1>8, <1>10, <1>11, <1>12 DEF BlocksInv

\* An alert names whom its invocation has blocked.
LEMMA PublishTells ==
    ASSUME CountInv, RunInv, BlocksInv, NEW e \in Events, NEW topic \in BOOLEAN,
           Publish(e, topic)
    PROVE  BlocksInv'
  <1>1. Decided(e) /\ run[e].pc = "publishing"
    BY DEF Publish, Decided
  <1>2. PICK s \in Decisions : s = run[e]
    BY <1>1, DecidedTypes
  <1>3. PICK r : r = [s EXCEPT !.pc = "done"]
    OBVIOUS
  <1>4. /\ run' = [run EXCEPT ![e] = r]
        /\ UNCHANGED <<clock, blockTtl>>
        /\ alerts' = alerts \/ alerts' = alerts \cup {Alert(e)}
    BY <1>2, <1>3 DEF Publish, tableVars
  <1>5. Judged(s, blockTtl)
    BY <1>1, <1>2 DEF BlocksInv
  <1>6. Judged(r, blockTtl)
    <2>1. /\ r.now = s.now /\ r.current = s.current /\ r.baseline = s.baseline
          /\ r.anomalies = s.anomalies /\ r.unblocked = s.unblocked
          /\ s.pc # "blocking"
      BY <1>1, <1>2, <1>3 DEF Decisions
    <2> QED
      BY <1>5, <2>1 DEF Judged
  <1>7. ASSUME NEW f \in Events, Decided(f)' PROVE Judged(run'[f], blockTtl')
    <2>1. CASE f = e
      BY <1>4, <1>6, <2>1 DEF RunInv
    <2>2. CASE f # e
      BY <1>4, <1>7, <2>2 DEF RunInv, Decided, BlocksInv
    <2> QED
      BY <2>1, <2>2
  <1>8. /\ Alert(e).users = s.anomalies /\ Alert(e).at = s.now
        /\ Alert(e).autoBlocked = AutoBlock
    BY <1>2 DEF Alert
  <1>9. s.anomalies \subseteq Users /\ s.now \in Buckets /\ s.now <= clock
    BY <1>1, <1>2, DecidedTypes DEF Decisions
  <1>10. AutoBlock => \A v \in s.anomalies : blockTtl[v] >= s.now + BlockTTL - InvocationTime
    BY <1>1, <1>2, <1>5 DEF Judged
  <1>11. ASSUME NEW a \in alerts'
         PROVE  /\ a.users \subseteq Users /\ a.at \in Buckets /\ a.at <= clock
                /\ a.autoBlocked =>
                     \A v \in a.users : blockTtl[v] >= a.at + BlockTTL - InvocationTime
    <2>1. CASE a \in alerts
      BY <2>1 DEF BlocksInv, AlertedUsersAreBlocked
    <2>2. CASE a = Alert(e)
      BY <1>8, <1>9, <1>10, <2>2
    <2> QED
      BY <1>4, <2>1, <2>2
  <1>12. AlertedUsersAreBlocked'
    BY <1>4, <1>11 DEF AlertedUsersAreBlocked
  <1>13. blockTtl' \in [Users -> Nat \cup {NoRecord}]
    BY <1>4 DEF BlocksInv
  <1> QED
    BY <1>4, <1>7, <1>11, <1>12, <1>13 DEF BlocksInv

\* Every step keeps flags, blocks and alerts in step.
LEMMA BlocksInvStep ==
    ASSUME CountInv, RunInv, BlocksInv, [Next]_detectorVars
    PROVE  BlocksInv'
  <1>1. ASSUME NEW e \in Events, Invoke(e) \/ NextBucket(e) \/ Fail(e) \/ Return(e)
                 \/ \E users \in SUBSET Users : \E seen \in [users -> 0..MaxRequests] :
                      ReadPage(e, seen)
        PROVE  BlocksInv'
    <2>1. UNCHANGED <<blockTtl, alerts>>
      BY <1>1 DEF Invoke, NextBucket, ReadPage, Fail, Return
    <2>2. ~Decided(e)'
      <3>1. CASE Invoke(e) \/ NextBucket(e)
        BY <3>1 DEF Invoke, NextBucket, Reading, Decided, RunInv
      <3>2. CASE Fail(e) \/ Return(e)
        BY <3>2 DEF Fail, Return, Idle, Decided, RunInv
      <3>3. ASSUME NEW users \in SUBSET Users, NEW seen \in [users -> 0..MaxRequests],
                   ReadPage(e, seen)
            PROVE  ~Decided(e)'
        <4>1. seen \in [users -> Nat] /\ run[e] \in Readings
          BY <3>3, PhaseOf, DetectorAssumption DEF ReadPage
        <4>2. WithPage(run[e], seen).pc = "reading"
          BY <4>1, PageRecord
        <4>3. run'[e] = WithPage(run[e], seen)
          BY <3>3 DEF ReadPage, RunInv
        <4> QED
          BY <4>2, <4>3 DEF Decided
      <3> QED
        BY <1>1, <3>1, <3>2, <3>3
    <2>3. \A f \in Events : f # e => run'[f] = run[f]
      BY <1>1 DEF Invoke, NextBucket, ReadPage, Fail, Return, RunInv
    <2>4. \A f \in Events : Decided(f)' => Judged(run'[f], blockTtl)
      BY <2>2, <2>3 DEF Decided, BlocksInv
    <2> QED
      BY <2>1, <2>4, BlocksKept
  <1>2. ASSUME NEW e \in Events, Detect(e) PROVE BlocksInv'
    <2>1. UNCHANGED <<blockTtl, alerts>> /\ run' = [run EXCEPT ![e] = Decision(run[e])]
      BY <1>2 DEF Detect
    <2>2. Judged(Decision(run[e]), blockTtl)
      BY DEF Judged, Decision
    <2>3. \A f \in Events : Decided(f)' => Judged(run'[f], blockTtl)
      BY <2>1, <2>2 DEF Decided, BlocksInv, RunInv
    <2> QED
      BY <2>1, <2>3, BlocksKept
  <1>3. ASSUME NEW e \in Events, NEW u \in Users, PutBlock(e, u) PROVE BlocksInv'
    BY <1>3, PutBlocks
  <1>4. ASSUME NEW e \in Events, NEW topic \in BOOLEAN, Publish(e, topic) PROVE BlocksInv'
    BY <1>4, PublishTells
  <1>5. CASE UNCHANGED <<run, blockTtl, alerts>>
    <2>1. \A f \in Events : Decided(f)' => Judged(run'[f], blockTtl)
      BY <1>5 DEF Decided, BlocksInv
    <2> QED
      BY <1>5, <2>1, BlocksKept
  <1> QED
    BY <1>1, <1>2, <1>3, <1>4, <1>5 DEF Next, HandlerStep, CountRequest, Replicate, Tick,
                                       detectorVars

-----------------------------------------------------------------------------
(* The theorems.                                                           *)

DetectorInv == CountInv /\ RunInv /\ SumsInv /\ BlocksInv

\* The inductive invariant holds in the beginning,
LEMMA DetectorInvInit == Init => DetectorInv
  <1> SUFFICES ASSUME Init PROVE DetectorInv
    OBVIOUS
  <1>1. SumsInv
    BY DEF Init, Idle, SumsInv, Working
  <1> QED
    BY <1>1, CountInvInit, RunInvInit, BlocksInvInit DEF DetectorInv

\* every step keeps it,
LEMMA DetectorInvStep == DetectorInv /\ [Next]_detectorVars => DetectorInv'
  BY CountInvStep, RunInvStep, SumsInvStep, BlocksInvStep DEF DetectorInv

\* and so it always holds.
LEMMA DetectorInvHolds == Spec => []DetectorInv
  BY DetectorInvInit, DetectorInvStep, PTL DEF Spec

\* No counter exceeds the number of requests.
LEMMA CounterBounded ==
    ASSUME CountInv, NEW u \in Users, NEW b \in Buckets
    PROVE  count[u][b] \in 0..MaxRequests /\ settled[u][b] \in 0..MaxRequests
  <1>1. PICK c \in [Buckets -> Nat] : c = count[u]
    BY DEF CountInv, Tables
  <1>2. c[b] <= SumFunction(c)
    BY OffsetsFinite, SumTerm
  <1>3. PICK f \in [Users -> Nat] : f = [v \in Users |-> SumFunction(count[v])]
    BY UserTotals
  <1>4. f[u] <= SumFunction(f)
    BY DetectorAssumption, SumTerm
  <1>5. /\ f[u] = SumFunction(c)
        /\ SumFunction(f) = Requested
    BY <1>1, <1>3, Zenon DEF Requested
  <1>6. /\ f[u] \in Nat /\ SumFunction(f) \in Nat /\ c[b] \in Nat
        /\ settled[u][b] \in Nat /\ settled[u][b] <= c[b]
        /\ Requested <= MaxRequests /\ MaxRequests \in Nat
    BY <1>1, <1>3, DetectorAssumption, SumNat DEF CountInv, Tables, Within
  <1> QED
    BY <1>1, <1>2, <1>4, <1>5, <1>6

\* Whatever the paging, the failures and the traffic, every variable keeps its
\* type, and an event is not invoked more often than Attempts.
THEOREM TypeCorrect == Spec => []TypeOK
  <1>1. DetectorInv => TypeOK
    <2> SUFFICES ASSUME DetectorInv PROVE TypeOK
      OBVIOUS
    <2>1. /\ count \in [Users -> [Buckets -> 0..MaxRequests]]
          /\ settled \in [Users -> [Buckets -> 0..MaxRequests]]
      BY CounterBounded DEF DetectorInv, CountInv, Tables
    <2>2. \A e \in Events :
            /\ run[e].tries \in 0..Attempts
            /\ run[e].pc \in {"idle", "failed", "reading", "blocking", "publishing", "done"}
      BY PhaseOf DEF DetectorInv
    <2> QED
      BY <2>1, <2>2 DEF DetectorInv, CountInv, BlocksInv, TypeOK
  <1> QED
    BY <1>1, DetectorInvHolds, PTL

\* When the handler has decided, its sums lie between the windows' totals when
\* it started, on every replica, and their totals now.
LEMMA DecidedOnSums ==
    ASSUME DetectorInv, NEW e \in Events, Decided(e), NEW u \in Users
    PROVE  /\ LastHour(run[e].before, e, u) \in Nat /\ LastHour(count, e, u) \in Nat
           /\ Baseline(run[e].before, e, u) \in Nat /\ Baseline(count, e, u) \in Nat
           /\ run[e].current[u] \in Nat /\ run[e].baseline[u] \in Nat
           /\ LastHour(run[e].before, e, u) <= run[e].current[u]
           /\ run[e].current[u] <= LastHour(count, e, u)
           /\ Baseline(run[e].before, e, u) <= run[e].baseline[u]
           /\ run[e].baseline[u] <= Baseline(count, e, u)
           /\ u \in run[e].anomalies <=> IsAnomaly(run[e].current[u], run[e].baseline[u])
  <1>1. PICK r \in Decisions : r = run[e] /\ Sums(r, count) /\ Judged(r, blockTtl)
    BY PhaseOf DEF DetectorInv, SumsInv, BlocksInv
  <1>2. /\ CurrentOffsets \subseteq Offsets /\ BaselineOffsets \subseteq Offsets
        /\ ReadOffsets(r, u) = Offsets
    BY SeriesSplits DEF ReadOffsets, Decisions
  <1>3. PICK now \in Int : now = r.now
    BY DEF Decisions
  <1>4. ASSUME NEW c \in [Buckets -> Nat]
        PROVE  /\ SeenTotal(Offsets, c, now, CurrentOffsets) = WindowTotal(c, now, CurrentOffsets)
               /\ SeenTotal(Offsets, c, now, BaselineOffsets) = WindowTotal(c, now, BaselineOffsets)
               /\ WindowTotal(c, now, CurrentOffsets) \in Nat
               /\ WindowTotal(c, now, BaselineOffsets) \in Nat
    <2>1. /\ SeenTotal(Offsets, c, now, CurrentOffsets) = WindowTotal(c, now, CurrentOffsets)
          /\ SeenTotal(Offsets, c, now, BaselineOffsets) = WindowTotal(c, now, BaselineOffsets)
      BY <1>2, SeenAll
    <2>2. /\ SeenTotal(Offsets, c, now, CurrentOffsets) \in Nat
          /\ SeenTotal(Offsets, c, now, BaselineOffsets) \in Nat
      BY OffsetsFinite, SeenNat
    <2> QED
      BY <2>1, <2>2
  <1>5. r.before[u] \in [Buckets -> Nat] /\ count[u] \in [Buckets -> Nat]
    BY DEF DetectorInv, CountInv, Decisions, Tables
  <1>6. r.current[u] \in Nat /\ r.baseline[u] \in Nat
    BY DEF Decisions
  <1>7. \A table : /\ LastHour(table, e, u) = WindowTotal(table[u], now, CurrentOffsets)
                   /\ Baseline(table, e, u) = WindowTotal(table[u], now, BaselineOffsets)
    BY <1>1, <1>3, Zenon DEF LastHour, Baseline, CurrentOffsets, BaselineOffsets, LastOffset
  <1>8. u \in r.anomalies <=> IsAnomaly(r.current[u], r.baseline[u])
    BY <1>1 DEF Judged
  <1>9. /\ WindowTotal(r.before[u], now, CurrentOffsets) <= r.current[u]
        /\ r.current[u] <= WindowTotal(count[u], now, CurrentOffsets)
        /\ WindowTotal(r.before[u], now, BaselineOffsets) <= r.baseline[u]
        /\ r.baseline[u] <= WindowTotal(count[u], now, BaselineOffsets)
    BY <1>1, <1>2, <1>3, <1>4, <1>5 DEF Sums, Between
  <1> QED
    BY <1>1, <1>4, <1>5, <1>6, <1>7, <1>8, <1>9

\* The rule is monotone: more current traffic and a smaller baseline flag more.
LEMMA RuleMonotone ==
    ASSUME NEW c \in Nat, NEW d \in Nat, c <= d, NEW b \in Nat, NEW e \in Nat, e <= b,
           IsAnomaly(c, b)
    PROVE  IsAnomaly(d, e)
  <1>1. /\ BaselineHours \in Nat /\ MinRequests \in Nat /\ Threshold \in Nat
        /\ Normal(b) \in Nat /\ Normal(e) \in Nat /\ Normal(e) <= Normal(b)
    <2>1. BaselineHours \in Nat
      BY RulesAssumption DEF BaselineHours
    <2> QED
      BY <2>1, RulesAssumption DEF Normal
  <1>2. c * BaselineHours <= d * BaselineHours
    <2>1. PICK x \in Nat : d = c + x
      <3>1. d = c + (d - c) /\ d - c \in Nat
        OBVIOUS
      <3> QED
        BY <3>1
    <2>2. BaselineHours * (c + x) = BaselineHours * c + BaselineHours * x
      BY <1>1, Distribute
    <2>3. BaselineHours * x \in Nat /\ BaselineHours * c \in Nat
      BY <1>1, ProductNat
    <2>4. c * BaselineHours = BaselineHours * c /\ d * BaselineHours = BaselineHours * (c + x)
      BY <1>1, <2>1
    <2> QED
      BY <2>2, <2>3, <2>4
  <1>3. Threshold * Normal(e) <= Threshold * Normal(b)
    <2>1. PICK x \in Nat : Normal(b) = Normal(e) + x
      <3>1. Normal(b) = Normal(e) + (Normal(b) - Normal(e)) /\ Normal(b) - Normal(e) \in Nat
        BY <1>1
      <3> QED
        BY <3>1
    <2>2. Threshold * (Normal(e) + x) = Threshold * Normal(e) + Threshold * x
      BY <1>1, Distribute
    <2>3. Threshold * x \in Nat /\ Threshold * Normal(e) \in Nat
      BY <1>1, ProductNat
    <2> QED
      BY <2>1, <2>2, <2>3
  <1>4. /\ c * BaselineHours \in Nat /\ d * BaselineHours \in Nat
        /\ Threshold * Normal(b) \in Nat /\ Threshold * Normal(e) \in Nat
    BY <1>1, ProductNat
  <1>5. c >= MinRequests /\ c * BaselineHours >= Threshold * Normal(b)
    BY DEF IsAnomaly
  <1>6. d * BaselineHours >= Threshold * Normal(e)
    BY <1>2, <1>3, <1>4, <1>5
  <1> QED
    BY <1>1, <1>5, <1>6 DEF IsAnomaly

\* A flagged user sent what he is flagged for: his counters as they are now, and
\* his baseline as every replica had it when the handler started, satisfy the rule,
\* however many invocations run side by side.
THEOREM FlaggedWereBusy == Spec => []FlaggedUsersWereBusy
  <1>1. DetectorInv => FlaggedUsersWereBusy
    <2> SUFFICES ASSUME DetectorInv, NEW e \in Events, Decided(e), NEW u \in run[e].anomalies
                 PROVE  IsAnomaly(LastHour(count, e, u), Baseline(run[e].before, e, u))
      BY DEF FlaggedUsersWereBusy, IsAnomaly
    <2>1. u \in Users
      BY DEF DetectorInv, BlocksInv, Judged
    <2> QED
      BY <2>1, DecidedOnSums, RuleMonotone
  <1> QED
    BY <1>1, DetectorInvHolds, PTL

\* A user who satisfied the rule on every replica when the handler started, even
\* against his baseline as it is now, is not overlooked, whichever replicas answer:
\* the two windows are adjacent and every bucket of both was read for him.
THEOREM BusyAreFlagged == Spec => []BusyUsersAreFlagged
  <1>1. DetectorInv => BusyUsersAreFlagged
    <2> SUFFICES ASSUME DetectorInv, NEW e \in Events, Decided(e), NEW u \in Users,
                        IsAnomaly(LastHour(run[e].before, e, u), Baseline(count, e, u))
                 PROVE  u \in run[e].anomalies
      BY DEF BusyUsersAreFlagged
    <2>1. IsAnomaly(run[e].current[u], run[e].baseline[u])
      BY DecidedOnSums, RuleMonotone
    <2> QED
      BY <2>1, DecidedOnSums
  <1> QED
    BY <1>1, DetectorInvHolds, PTL

\* An alert that says its users are blocked is published when they are, whatever
\* puts failed and invocations were repeated before; and their blocks last as long
\* as the alert's time says, less at most the time of one invocation, whatever other
\* invocations write beside it.
THEOREM AlertedAreBlocked == Spec => []AlertedUsersAreBlocked
  <1>1. DetectorInv => AlertedUsersAreBlocked
    BY DEF DetectorInv, BlocksInv
  <1> QED
    BY <1>1, DetectorInvHolds, PTL

-----------------------------------------------------------------------------
(* The smoke script, against the detector by what is proved of it above.   *)

\* Lambda ends an invocation when its time is up.
InvocationsEnd ==
    \A i \in Invocations :
        detector[i].pc # "idle" => time <= detector[i].now + InvocationTime

InvocationRecords == [pc : {"idle", "reading", "blocking"}, now : Nat, before : [Buckets -> Nat],
            fresh : BOOLEAN]

ScriptSteps == {"new", "burst", "settle", "top up", "invoke", "awaiting",
                "passed", "failed", "aborted"}

SmokeTypes ==
    /\ time \in Nat
    /\ counter \in [Buckets -> Nat]
    /\ ttl \in Int /\ earlier \subseteq Int
    /\ detector \in [Invocations -> InvocationRecords]
    /\ smoke \in [pc : ScriptSteps, window : Nat, current : Nat]
    /\ active \in BOOLEAN /\ flagged \in BOOLEAN /\ spoilt \in BOOLEAN

\* Where a record that is active comes from.
EarnedInv ==
    /\ \A i \in Invocations : detector[i].pc = "blocking" => flagged
    /\ Running => \A t \in earlier \cup {ttl} : IsActive(t) => active \/ flagged
    /\ PassIsEarned

\* The window the script measures.
MeasureInv ==
    /\ Running =>
         WindowTotal(counter, time, BaselineOffsets) = Hourly * BaselineHours
    /\ Running /\ smoke.pc # "burst" => smoke.window = time
    /\ smoke.pc = "invoke" =>
         smoke.current <= WindowTotal(counter, time, CurrentOffsets)

\* The invocation of a script that measured enough.
AwaitInv ==
    LET called == detector["script"]
    IN  /\ called.pc = "reading" =>
             /\ called.now = time
             /\ smoke.current <= WindowTotal(called.before, time, CurrentOffsets)
        /\ called.pc = "idle" /\ AutoBlock => IsActive(ttl)

JudgedInv ==
    /\ detector["script"].pc # "idle" => smoke.pc \in {"awaiting", "aborted"}
    /\ ~spoilt => MeasureInv
    /\ smoke.pc = "awaiting" /\ ~spoilt /\ smoke.current >= Required => AwaitInv
    /\ WorkingDetectorPasses

\* A window's total is a natural number, and grows with the counters.
LEMMA WindowOrder ==
    ASSUME NEW c \in [Buckets -> Nat], NEW d \in [Buckets -> Nat],
           \A b \in Buckets : c[b] <= d[b], NEW now \in Int
    PROVE  /\ WindowTotal(c, now, CurrentOffsets) \in Nat
           /\ WindowTotal(d, now, CurrentOffsets) \in Nat
           /\ WindowTotal(c, now, CurrentOffsets) <= WindowTotal(d, now, CurrentOffsets)
  <1>1. PICK f : f = [i \in CurrentOffsets |-> CountAt(c, SeriesBucket(now, i))]
    OBVIOUS
  <1>2. PICK g : g = [i \in CurrentOffsets |-> CountAt(d, SeriesBucket(now, i))]
    OBVIOUS
  <1>3. ASSUME NEW i \in CurrentOffsets
        PROVE  /\ CountAt(c, SeriesBucket(now, i)) \in Nat
               /\ CountAt(d, SeriesBucket(now, i)) \in Nat
               /\ CountAt(c, SeriesBucket(now, i)) <= CountAt(d, SeriesBucket(now, i))
    <2>1. SeriesBucket(now, i) \in Int
      BY OffsetsFinite DEF SeriesBucket
    <2> QED
      BY <2>1, CountAtOrder
  <1>4. /\ f \in [CurrentOffsets -> Nat] /\ g \in [CurrentOffsets -> Nat]
        /\ \A i \in CurrentOffsets : f[i] <= g[i]
    BY <1>1, <1>2, <1>3
  <1>5. SumFunction(f) \in Nat /\ SumFunction(g) \in Nat /\ SumFunction(f) <= SumFunction(g)
    BY <1>4, OffsetsFinite, SumNat, SumMonotone
  <1> QED
    BY <1>1, <1>2, <1>5 DEF WindowTotal

\* Requests counted in the bucket of now do not count in the baseline.
LEMMA BaselineApart ==
    ASSUME NEW c, NEW d, NEW now \in Int, \A b \in Buckets : b # now => d[b] = c[b]
    PROVE  WindowTotal(d, now, BaselineOffsets) = WindowTotal(c, now, BaselineOffsets)
  <1>1. \A i \in BaselineOffsets : CountAt(d, SeriesBucket(now, i)) = CountAt(c, SeriesBucket(now, i))
    <2> SUFFICES ASSUME NEW i \in BaselineOffsets
                 PROVE  CountAt(d, SeriesBucket(now, i)) = CountAt(c, SeriesBucket(now, i))
      OBVIOUS
    <2>1. i \in Int /\ i # 0
      BY RulesAssumption DEF BaselineOffsets, LastOffset
    <2>2. SeriesBucket(now, i) # now
      BY <2>1 DEF SeriesBucket
    <2> QED
      BY <2>2 DEF CountAt
  <1>2. [i \in BaselineOffsets |-> CountAt(d, SeriesBucket(now, i))]
          = [i \in BaselineOffsets |-> CountAt(c, SeriesBucket(now, i))]
    BY <1>1
  <1> QED
    BY <1>2 DEF WindowTotal

\* What the script requires against the baseline it seeds is an anomaly.
LEMMA RequiredIsAnomaly ==
    ASSUME NEW current \in Nat, current >= Required
    PROVE  IsAnomaly(current, Hourly * BaselineHours)
  <1>1. /\ BaselineHours \in Nat \ {0} /\ Hourly \in Nat \ {0}
        /\ Threshold \in Nat /\ MinRequests \in Nat
    <2>1. BaselineHours \in Nat \ {0}
      BY RulesAssumption DEF BaselineHours
    <2> QED
      BY <2>1, RulesAssumption, SmokeAssumption
  <1>2. /\ Hourly * Threshold \in Nat
        /\ current >= MinRequests
        /\ current >= Hourly * Threshold
    <2>1. Hourly * Threshold \in Nat
      BY <1>1, ProductNat
    <2> QED
      BY <1>1, <2>1 DEF Required
  <1>3. Normal(Hourly * BaselineHours) = Hourly * BaselineHours
    <2>1. PICK x \in Nat : Hourly = 1 + x
      <3>1. Hourly = 1 + (Hourly - 1) /\ Hourly - 1 \in Nat
        BY <1>1
      <3> QED
        BY <3>1
    <2>2. BaselineHours * (1 + x) = BaselineHours * 1 + BaselineHours * x
      BY <1>1, Distribute
    <2>3. BaselineHours * x \in Nat
      BY <1>1, ProductNat
    <2>4. Hourly * BaselineHours = BaselineHours * (1 + x)
      BY <1>1, <2>1
    <2>5. Hourly * BaselineHours >= BaselineHours
      BY <1>1, <2>2, <2>3, <2>4
    <2>6. Hourly * BaselineHours \in Nat
      BY <1>1, ProductNat
    <2> QED
      BY <1>1, <2>5, <2>6 DEF Normal
  <1>4. current * BaselineHours >= Threshold * (Hourly * BaselineHours)
    <2>1. PICK x \in Nat : current = Hourly * Threshold + x
      <3>1. current = Hourly * Threshold + (current - Hourly * Threshold)
        BY <1>2
      <3>2. current - Hourly * Threshold \in Nat
        BY <1>2
      <3> QED
        BY <3>1, <3>2
    <2>2. BaselineHours * (Hourly * Threshold + x)
            = BaselineHours * (Hourly * Threshold) + BaselineHours * x
      BY <1>1, <1>2, Distribute
    <2>3. BaselineHours * x \in Nat /\ BaselineHours * (Hourly * Threshold) \in Nat
      BY <1>1, <1>2, ProductNat
    <2>4. BaselineHours * (Hourly * Threshold) = Threshold * (Hourly * BaselineHours)
      BY <1>1
    <2>5. current * BaselineHours = BaselineHours * (Hourly * Threshold + x)
      BY <1>1, <1>2, <2>1
    <2> QED
      BY <2>2, <2>3, <2>4, <2>5
  <1> QED
    BY <1>2, <1>3, <1>4 DEF IsAnomaly

\* What the script reads is a natural number, and no more than there is.
LEMMA CurrentCountsNat ==
    ASSUME SmokeTypes, NEW n \in CurrentCounts
    PROVE  n \in Nat /\ n <= WindowTotal(counter, smoke.window, CurrentOffsets)
  <1>1. counter \in [Buckets -> Nat] /\ smoke.window \in Int
    BY DEF SmokeTypes
  <1>2. WindowTotal(counter, smoke.window, CurrentOffsets) \in Nat
    <2>1. \A b \in Buckets : counter[b] <= counter[b]
      BY <1>1
    <2> QED
      BY <1>1, <2>1, WindowOrder
  <1> QED
    BY <1>2 DEF CurrentCounts

\* The script's share of a bucket is a natural number.
LEMMA SharesNat ==
    ASSUME NEW i \in 0..(BaselineBuckets - 1)
    PROVE  Share(i) \in Nat
  <1>1. Hourly * BaselineHours \in Nat /\ BaselineBuckets \in Nat \ {0}
    <2>1. BaselineHours \in Nat
      BY RulesAssumption DEF BaselineHours
    <2> QED
      BY <2>1, ProductNat, RulesAssumption, SmokeAssumption
  <1>2. (Hourly * BaselineHours) \div BaselineBuckets \in Nat
    BY <1>1
  <1>3. Share(i) = (Hourly * BaselineHours) \div BaselineBuckets
                     + IF i < (Hourly * BaselineHours) % BaselineBuckets THEN 1 ELSE 0
    BY DEF Share
  <1> QED
    BY <1>2, <1>3

\* The types hold in the beginning,
LEMMA SmokeTypesInit == SmokeInit => SmokeTypes
  <1> SUFFICES ASSUME SmokeInit PROVE SmokeTypes
    OBVIOUS
  <1>1. time \in Nat /\ ttl \in Int /\ earlier \subseteq Int
    BY SeriesSplits, RulesAssumption DEF SmokeInit, NoRecord
  <1>2. counter \in [Buckets -> Nat] /\ smoke \in [pc : ScriptSteps, window : Nat, current : Nat]
    BY DEF SmokeInit, NoCounters, ScriptSteps
  <1>3. NoInvocation \in InvocationRecords
    BY DEF NoInvocation, NoCounters, InvocationRecords
  <1>4. active \in BOOLEAN /\ flagged \in BOOLEAN /\ spoilt \in BOOLEAN
    BY DEF SmokeInit
  <1> QED
    BY <1>1, <1>2, <1>3, <1>4 DEF SmokeInit, SmokeTypes

\* and every step keeps them.
LEMMA SmokeTypesStep == SmokeTypes /\ [SmokeNext]_smokeVars => SmokeTypes'
  <1> SUFFICES ASSUME SmokeTypes, [SmokeNext]_smokeVars PROVE SmokeTypes'
    OBVIOUS
  <1> USE DEF SmokeTypes
  <1>1. CASE Seed
    <2>1. \A b \in Buckets : Seeded(b) \in Nat
      <3> SUFFICES ASSUME NEW b \in Buckets PROVE Seeded(b) \in Nat
        OBVIOUS
      <3>1. CASE time - CurrentBuckets - b \in 0..(BaselineBuckets - 1)
        BY <3>1, SharesNat DEF Seeded
      <3>2. CASE time - CurrentBuckets - b \notin 0..(BaselineBuckets - 1)
        BY <3>2 DEF Seeded
      <3> QED
        BY <3>1, <3>2
    <2>2. counter' \in [Buckets -> Nat]
      BY <1>1, <2>1 DEF Seed
    <2>3. smoke' \in [pc : ScriptSteps, window : Nat, current : Nat]
      BY <1>1 DEF Seed, Goto, ScriptSteps
    <2> QED
      BY <1>1, <2>2, <2>3 DEF Seed
  <1>2. CASE Burst
    BY <1>2 DEF Burst, ScriptSteps
  <1>3. ASSUME NEW n \in CurrentCounts, Settle(n) \/ TopUp(n) PROVE SmokeTypes'
    <2>1. n \in Nat
      BY CurrentCountsNat
    <2> QED
      BY <1>3, <2>1 DEF Settle, TopUp, ScriptSteps
  <1>4. ASSUME NEW i \in Invocations, NEW fresh \in BOOLEAN, Starts(i, fresh)
        PROVE  detector' \in [Invocations -> InvocationRecords]
    <2>1. [pc |-> "reading", now |-> time, fresh |-> fresh,
           before |-> IF fresh THEN counter ELSE NoCounters] \in InvocationRecords
      BY DEF InvocationRecords, NoCounters
    <2> QED
      BY <1>4, <2>1 DEF Starts
  <1>5. ASSUME NEW fresh \in BOOLEAN, InvokeDetector(fresh) PROVE SmokeTypes'
    <2>1. detector' \in [Invocations -> InvocationRecords]
      BY <1>4, <1>5 DEF InvokeDetector, Invocations
    <2>2. smoke' \in [pc : ScriptSteps, window : Nat, current : Nat]
      BY <1>5 DEF InvokeDetector, Goto, ScriptSteps
    <2> QED
      BY <1>5, <2>1, <2>2 DEF InvokeDetector
  <1>6. CASE Abort \/ \E seen \in earlier \cup {ttl} : Verify(seen)
    <2>1. smoke' \in [pc : ScriptSteps, window : Nat, current : Nat]
      BY <1>6 DEF Verify, Abort, Goto, ScriptSteps
    <2> QED
      BY <1>6, <2>1 DEF Verify, Abort
  <1>11. CASE Scheduled
    <2>1. detector' \in [Invocations -> InvocationRecords]
      BY <1>4, <1>11 DEF Scheduled, Invocations
    <2> QED
      BY <1>11, <2>1 DEF Scheduled
  <1>7. ASSUME NEW i \in Invocations, Detector(i) PROVE SmokeTypes'
    <2>1. NoInvocation \in InvocationRecords
      BY DEF NoInvocation, NoCounters, InvocationRecords
    <2>2. CASE Decides(i)
      <3>1. PICK new \in InvocationRecords : detector' = [detector EXCEPT ![i] = new]
        <4>1. [detector[i] EXCEPT !.pc = "blocking"] \in InvocationRecords
          BY DEF InvocationRecords
        <4> QED
          BY <2>1, <2>2, <4>1 DEF Decides
      <3>2. flagged' \in BOOLEAN
        BY <2>2 DEF Decides
      <3> QED
        BY <2>2, <3>1, <3>2 DEF Decides
    <2>3. CASE Blocks(i)
      <3>1. detector[i].now + BlockTTL \in Int
        BY RulesAssumption DEF InvocationRecords
      <3>2. ttl' \in Int /\ earlier' \subseteq Int
        <4>1. \/ UNCHANGED <<ttl, earlier>>
              \/ ttl' = detector[i].now + BlockTTL /\ earlier' = earlier \cup {ttl}
          BY <2>3 DEF Blocks
        <4> QED
          BY <3>1, <4>1
      <3>3. detector' \in [Invocations -> InvocationRecords]
        BY <2>1, <2>3 DEF Blocks
      <3> QED
        BY <2>3, <3>2, <3>3 DEF Blocks
    <2>4. CASE Fails(i)
      BY <2>1, <2>4 DEF Fails
    <2> QED
      BY <1>7, <2>2, <2>3, <2>4 DEF Detector
  <1>8. ASSUME NEW b \in Buckets, CountUserRequest(b) PROVE SmokeTypes'
    BY <1>8 DEF CountUserRequest
  <1>9. CASE TimePasses
    BY <1>9 DEF TimePasses
  <1>10. CASE UNCHANGED smokeVars
    BY <1>10 DEF smokeVars
  <1> QED
    BY <1>1, <1>2, <1>3, <1>5, <1>6, <1>7, <1>8, <1>9, <1>10, <1>11 DEF SmokeNext, Script

\* Nobody is flagged without a reason: in the beginning,
LEMMA EarnedInit == SmokeInit => EarnedInv
  BY DEF SmokeInit, EarnedInv, NoInvocation, Running, PassIsEarned

\* and after every step.
LEMMA EarnedStep == SmokeTypes /\ EarnedInv /\ [SmokeNext]_smokeVars => EarnedInv'
  <1> SUFFICES ASSUME SmokeTypes, EarnedInv, [SmokeNext]_smokeVars PROVE EarnedInv'
    OBVIOUS
  <1> USE DEF SmokeTypes, EarnedInv, PassIsEarned, Running, IsActive
  <1>1. CASE Seed
    <2>1. /\ UNCHANGED <<time, ttl, earlier, detector, flagged>>
          /\ smoke'.pc = "burst"
          /\ active' = (\E t \in earlier \cup {ttl} : IsActive(t))
      BY <1>1 DEF Seed, Goto
    <2>2. \A t \in earlier \cup {ttl} : IsActive(t) => active'
      BY <2>1, Zenon
    <2> QED
      BY <2>1, <2>2
  <1>2. CASE Burst \/ \E n \in CurrentCounts : Settle(n) \/ TopUp(n)
    <2>1. CASE Burst
      BY <2>1 DEF Burst
    <2>2. ASSUME NEW n \in CurrentCounts, Settle(n) \/ TopUp(n)
          PROVE  EarnedInv'
      <3>1. /\ UNCHANGED <<time, ttl, earlier, detector, active, flagged>>
            /\ smoke.pc \in {"settle", "top up"}
            /\ smoke'.pc \in {"top up", "invoke"}
        BY <2>2 DEF Settle, TopUp
      <3> QED
        BY <3>1
    <2> QED
      BY <1>2, <2>1, <2>2
  <1>3. CASE \E fresh \in BOOLEAN : InvokeDetector(fresh)
    BY <1>3 DEF InvokeDetector, Goto, Starts, Invocations
  <1>4. CASE \E seen \in earlier \cup {ttl} : Verify(seen)
    BY <1>4 DEF Verify, Goto
  <1>5. CASE Abort
    BY <1>5 DEF Abort, Goto
  <1>6. CASE Scheduled
    BY <1>6 DEF Scheduled, Starts, Invocations
  <1>7. ASSUME NEW i \in Invocations, Detector(i) PROVE EarnedInv'
    <2>1. CASE Decides(i)
      <3>0. UNCHANGED <<time, ttl, earlier, smoke, active>>
        BY <2>1 DEF Decides
      <3>1. flagged' \/ (UNCHANGED flagged /\ detector'[i].pc = "idle")
        <4>1. CASE flagged' = TRUE
          BY <4>1
        <4>2. CASE detector' = [detector EXCEPT ![i] = NoInvocation] /\ UNCHANGED flagged
          BY <4>2 DEF NoInvocation
        <4> QED
          BY <2>1, <4>1, <4>2, Zenon DEF Decides
      <3>2. \A j \in Invocations : j # i => detector'[j] = detector[j]
        BY <2>1 DEF Decides
      <3> QED
        BY <3>0, <3>1, <3>2
    <2>2. CASE Blocks(i)
      <3>1. flagged /\ UNCHANGED <<time, smoke, active, flagged>>
        BY <2>2 DEF Blocks
      <3> QED
        BY <3>1
    <2>3. CASE Fails(i)
      BY <2>3 DEF Fails, NoInvocation
    <2> QED
      BY <1>7, <2>1, <2>2, <2>3 DEF Detector
  <1>8. ASSUME NEW b \in Buckets, CountUserRequest(b) PROVE EarnedInv'
    BY <1>8 DEF CountUserRequest
  <1>9. CASE TimePasses
    <2>1. /\ UNCHANGED <<ttl, earlier, detector, smoke, active, flagged>>
          /\ time' = time + 1
      BY <1>9 DEF TimePasses
    <2>2. time \in Nat /\ \A t \in earlier \cup {ttl} : t \in Int
      OBVIOUS
    <2>3. \A t \in Int : t > time + 1 => t > time
      <3> HIDE DEF SmokeTypes, EarnedInv
      <3> QED
        BY <2>2
    <2>4. \A t \in earlier \cup {ttl} : t > time' => t > time
      BY <2>1, <2>2, <2>3, Zenon
    <2> QED
      BY <2>1, <2>4
  <1>10. CASE UNCHANGED smokeVars
    BY <1>10 DEF smokeVars
  <1> QED
    BY <1>1, <1>2, <1>3, <1>4, <1>5, <1>6, <1>7, <1>8, <1>9, <1>10 DEF SmokeNext, Script

\* What the script knows holds in the beginning,
LEMMA JudgedInit == SmokeInit => JudgedInv
  BY DEF SmokeInit, JudgedInv, MeasureInv, AwaitInv, WorkingDetectorPasses, NoInvocation,
         Running, Invocations

\* it measures the window of one instant,
LEMMA ScriptStep ==
    ASSUME SmokeTypes, SmokeTypes', JudgedInv, Script \/ Abort
    PROVE  JudgedInv'
  <1> USE DEF SmokeTypes, JudgedInv, WorkingDetectorPasses, Running
  <1>1. CASE Seed
    <2>1. /\ smoke'.pc = "burst" /\ smoke.pc = "new"
          /\ UNCHANGED <<time, detector>>
          /\ ~spoilt' => WindowTotal(counter', time', BaselineOffsets) = Hourly * BaselineHours
      BY <1>1 DEF Seed, Goto
    <2>2. detector'["script"].pc = "idle"
      BY <2>1
    <2>3. ~spoilt' => MeasureInv'
      BY <2>1 DEF MeasureInv
    <2> QED
      BY <2>1, <2>2, <2>3
  <1>2. CASE Burst
    <2>1. /\ smoke'.pc = "settle" /\ smoke.pc = "burst" /\ smoke'.window = time
          /\ UNCHANGED <<time, counter, detector, spoilt>>
      BY <1>2 DEF Burst
    <2>2. ~spoilt' => MeasureInv'
      BY <2>1 DEF MeasureInv
    <2> QED
      BY <2>1, <2>2
  <1>3. ASSUME NEW n \in CurrentCounts, Settle(n) \/ TopUp(n) PROVE JudgedInv'
    <2>1. /\ smoke'.pc \in {"top up", "invoke"} /\ smoke.pc \in {"settle", "top up"}
          /\ smoke'.window = smoke.window /\ smoke'.current = n
          /\ UNCHANGED <<time, counter, detector, spoilt>>
      BY <1>3 DEF Settle, TopUp
    <2>2. ASSUME ~spoilt PROVE MeasureInv'
      <3>1. smoke.window = time /\ MeasureInv
        BY <2>1, <2>2 DEF MeasureInv
      <3>2. n <= WindowTotal(counter, smoke.window, CurrentOffsets)
        BY CurrentCountsNat
      <3>3. smoke'.current <= WindowTotal(counter', time', CurrentOffsets)
        BY <2>1, <3>1, <3>2
      <3> QED
        BY <2>1, <3>1, <3>3 DEF MeasureInv
    <2> QED
      BY <2>1, <2>2
  <1>4. ASSUME NEW fresh \in BOOLEAN, InvokeDetector(fresh) PROVE JudgedInv'
    <2>1. /\ smoke.pc = "invoke" /\ smoke'.pc = "awaiting"
          /\ smoke'.window = smoke.window /\ smoke'.current = smoke.current
          /\ UNCHANGED <<time, counter>>
      BY <1>4 DEF InvokeDetector, Goto
    <2>2. ~spoilt' => ~spoilt /\ fresh
      BY <1>4, Zenon DEF InvokeDetector
    <2>3. /\ detector'["script"].pc = "reading" /\ detector'["script"].now = time
          /\ fresh => detector'["script"].before = counter
      BY <1>4 DEF InvokeDetector, Starts, Invocations
    <2>4. ~spoilt' => MeasureInv'
      BY <2>1, <2>2 DEF MeasureInv
    <2>5. ~spoilt' => AwaitInv'
      BY <2>1, <2>2, <2>3 DEF AwaitInv, MeasureInv
    <2> QED
      BY <2>1, <2>3, <2>4, <2>5
  <1>5. ASSUME NEW seen \in earlier \cup {ttl}, Verify(seen) PROVE JudgedInv'
    <2>1. /\ smoke.pc = "awaiting" /\ detector["script"].pc = "idle"
          /\ smoke'.current = smoke.current
          /\ smoke'.pc = IF IsActive(seen) THEN "passed" ELSE "failed"
          /\ UNCHANGED <<time, counter, ttl, detector>>
      BY <1>5 DEF Verify, Goto
    <2>5. ~spoilt' => ~spoilt /\ seen = ttl
      BY <1>5, Zenon DEF Verify
    <2>2. smoke'.pc = "failed" => spoilt' \/ ~(smoke.current >= Required) \/ ~AutoBlock
      BY <2>1, <2>5 DEF AwaitInv
    <2>3. smoke'.pc = "failed" => spoilt' \/ smoke.current < Required \/ ~AutoBlock
      <3>1. smoke.current \in Nat
        OBVIOUS
      <3>2. Required \in Int
        <4>1. Hourly * Threshold \in Nat
          BY ProductNat, SmokeAssumption, RulesAssumption
        <4> QED
          BY <4>1, RulesAssumption DEF Required
      <3>3. ~(smoke.current >= Required) => smoke.current < Required
        BY <3>1, <3>2
      <3> QED
        BY <2>2, <3>3, Zenon
    <2>4. ~spoilt' => MeasureInv'
      BY <2>1, <2>5 DEF MeasureInv
    <2> QED
      BY <2>1, <2>3, <2>4
  <1>6. CASE Abort
    <2>1. /\ smoke'.pc = "aborted"
          /\ UNCHANGED <<time, counter, ttl, detector, spoilt>>
      BY <1>6 DEF Abort, Goto
    <2>2. ~spoilt' => MeasureInv'
      BY <2>1 DEF MeasureInv
    <2> QED
      BY <2>1, <2>2
  <1> QED
    BY <1>1, <1>2, <1>3, <1>4, <1>5, <1>6 DEF Script

\* the detector that it invoked cannot overlook what it measured,
LEMMA DetectorStep ==
    ASSUME SmokeTypes, SmokeTypes', InvocationsEnd, InvocationTime < BlockTTL, JudgedInv,
           NEW i \in Invocations, Detector(i)
    PROVE  JudgedInv'
  <1>1. /\ UNCHANGED <<time, counter, smoke>> /\ detector[i].pc # "idle"
        /\ ~spoilt' => ~spoilt
    <2>1. CASE Decides(i) \/ Blocks(i)
      BY <2>1 DEF Decides, Blocks
    <2>2. CASE Fails(i)
      <3>1. UNCHANGED <<time, counter, smoke>> /\ detector[i].pc # "idle"
        BY <2>2 DEF Fails
      <3>2. ~spoilt' => ~spoilt
        BY <2>2, Zenon DEF Fails
      <3> QED
        BY <3>1, <3>2
    <2> QED
      BY <2>1, <2>2 DEF Detector
  <1>2. ~spoilt' => MeasureInv'
    BY <1>1 DEF JudgedInv, MeasureInv, Running
  <1>3. /\ \A j \in Invocations : j # i => detector'[j] = detector[j]
        /\ DOMAIN detector' = Invocations
    BY DEF SmokeTypes, Detector, Decides, Blocks, Fails
  <1>4. detector'["script"].pc # "idle" => smoke'.pc \in {"awaiting", "aborted"}
    BY <1>1, <1>3 DEF JudgedInv, Invocations
  <1>5. ASSUME smoke.pc = "awaiting", ~spoilt', smoke.current >= Required
        PROVE  AwaitInv'
    <2>1. AwaitInv /\ MeasureInv
      BY <1>1, <1>5 DEF JudgedInv
    <2>2. CASE Blocks(i)
      <3>1. AutoBlock => ttl' > time'
        <4> SUFFICES ASSUME AutoBlock PROVE ttl' > time'
          OBVIOUS
        <4>1. PICK now \in Nat : now = detector[i].now
          BY DEF SmokeTypes, InvocationRecords
        <4>2. /\ time <= now + InvocationTime /\ time \in Nat /\ InvocationTime \in Nat
              /\ BlockTTL \in Nat /\ ttl' = now + BlockTTL
          BY <1>1, <2>2, <4>1, RulesAssumption DEF Blocks, InvocationsEnd, SmokeTypes
        <4>3. now + BlockTTL > time
          BY <4>2
        <4> QED
          BY <1>1, <4>2, <4>3
      <3>2. detector'[i].pc = "idle"
        BY <2>2 DEF Blocks, NoInvocation, SmokeTypes
      <3> QED
        BY <1>1, <1>3, <2>1, <3>1, <3>2 DEF AwaitInv, IsActive, Invocations
    <2>3. CASE i = "scheduled" /\ (Decides(i) \/ Fails(i))
      <3>1. ttl' = ttl /\ detector'["script"] = detector["script"]
        BY <1>3, <2>3 DEF Decides, Fails, Invocations
      <3> QED
        BY <1>1, <2>1, <3>1 DEF AwaitInv, IsActive
    <2>4. CASE i = "script" /\ Decides(i)
      <3> DEFINE called == detector["script"]
      <3>1. called.pc = "reading" /\ called.now = time
        BY <2>1, <2>4 DEF Decides, AwaitInv
      <3>2. WindowTotal(called.before, time, CurrentOffsets) \in Nat
        <4>1. called.before \in [Buckets -> Nat] /\ time \in Int
          BY DEF SmokeTypes, Invocations, InvocationRecords
        <4>2. \A b \in Buckets : called.before[b] <= called.before[b]
          BY <4>1
        <4> QED
          BY <4>1, <4>2, WindowOrder
      <3>3. WindowTotal(called.before, time, CurrentOffsets) >= Required
        <4>1. smoke.current \in Nat /\ Required \in Int
          <5>1. Hourly * Threshold \in Nat
            BY ProductNat, SmokeAssumption, RulesAssumption
          <5> QED
            BY <5>1, RulesAssumption DEF Required, SmokeTypes
        <4>2. smoke.current <= WindowTotal(called.before, time, CurrentOffsets)
          BY <2>1, <3>1 DEF AwaitInv
        <4> HIDE DEF called
        <4> QED
          BY <1>5, <3>2, <4>1, <4>2
      <3>4. IsAnomaly(WindowTotal(called.before, time, CurrentOffsets), Hourly * BaselineHours)
        BY <3>2, <3>3, RequiredIsAnomaly
      <3>5. WindowTotal(counter, time, BaselineOffsets) = Hourly * BaselineHours
        BY <1>5, <2>1 DEF MeasureInv, Running
      <3>6. MustFlag(i)
        BY <2>4, <3>1, <3>4, <3>5 DEF MustFlag, CurrentOf, BaselineOf
      <3>7. detector' = [detector EXCEPT ![i].pc = "blocking"]
        BY <2>4, <3>6, Zenon DEF Decides
      <3>8. detector'["script"].pc = "blocking"
        BY <2>4, <3>7 DEF SmokeTypes, Invocations, InvocationRecords
      <3> QED
        BY <3>8 DEF AwaitInv
    <2>5. CASE i = "script" /\ Fails(i)
      BY <1>5, <2>5 DEF Fails, SmokeTypes
    <2> QED
      BY <2>2, <2>3, <2>4, <2>5 DEF Detector, Invocations
  <1>6. WorkingDetectorPasses'
    <2>1. smoke.pc = "failed" /\ ~spoilt' => smoke.current < Required \/ ~AutoBlock
      BY <1>1 DEF JudgedInv, WorkingDetectorPasses
    <2> QED
      BY <1>1, <2>1 DEF WorkingDetectorPasses
  <1> QED
    BY <1>1, <1>2, <1>4, <1>5, <1>6 DEF JudgedInv

\* and requests that are counted in time add to the current window only.
LEMMA CountedStep ==
    ASSUME SmokeTypes, SmokeTypes', JudgedInv, SmokeNext, NEW b \in Buckets, CountUserRequest(b)
    PROVE  JudgedInv'
  <1>1. /\ UNCHANGED <<time, ttl, detector, smoke>>
        /\ ~spoilt' => ~spoilt /\ (Running => b = time)
        /\ counter' = [counter EXCEPT ![b] = @ + 1]
    BY DEF CountUserRequest
  <1>2. counter \in [Buckets -> Nat] /\ counter' \in [Buckets -> Nat] /\ time \in Int
    BY DEF SmokeTypes
  <1>3. WindowTotal(counter, time, CurrentOffsets) <= WindowTotal(counter', time, CurrentOffsets)
    <2>1. \A c \in Buckets : counter[c] <= counter'[c]
      BY <1>1, <1>2
    <2> QED
      BY <1>2, <2>1, WindowOrder
  <1>4. ASSUME ~spoilt' PROVE MeasureInv'
    <2>1. MeasureInv
      BY <1>1, <1>4 DEF JudgedInv
    <2>2. ASSUME Running
          PROVE  WindowTotal(counter', time, BaselineOffsets)
                   = WindowTotal(counter, time, BaselineOffsets)
      <3>1. \A c \in Buckets : c # time => counter'[c] = counter[c]
        BY <1>1, <1>2, <1>4, <2>2
      <3> QED
        BY <1>2, <3>1, BaselineApart
    <2>3. smoke.pc = "invoke" =>
            smoke.current <= WindowTotal(counter', time, CurrentOffsets)
      <3>1. /\ WindowTotal(counter, time, CurrentOffsets) \in Nat
            /\ WindowTotal(counter', time, CurrentOffsets) \in Nat
            /\ smoke.current \in Nat
        <4>1. \A c \in Buckets : counter[c] <= counter'[c]
          BY <1>1, <1>2
        <4> QED
          BY <1>2, <4>1, WindowOrder DEF SmokeTypes
      <3>2. smoke.pc = "invoke" =>
              smoke.current <= WindowTotal(counter, time, CurrentOffsets)
        BY <2>1 DEF MeasureInv
      <3> QED
        BY <1>3, <3>1, <3>2
    <2> QED
      BY <1>1, <2>1, <2>2, <2>3 DEF MeasureInv, Running
  <1>5. AwaitInv => AwaitInv'
    BY <1>1 DEF AwaitInv, IsActive
  <1> QED
    BY <1>1, <1>4, <1>5 DEF JudgedInv, WorkingDetectorPasses

\* While the script runs the passing of time spoils its measurement; afterwards
\* nothing happens any more.
LEMMA TimeStep ==
    ASSUME JudgedInv, SmokeNext, TimePasses
    PROVE  JudgedInv'
  <1>1. /\ UNCHANGED <<detector, smoke>>
        /\ ~spoilt' => smoke.pc = "new"
    BY DEF TimePasses, SmokeNext, Running
  <1> QED
    BY <1>1 DEF JudgedInv, MeasureInv, WorkingDetectorPasses, Running

\* Time does not pass an invocation by.
LEMMA InvocationsEndStep ==
    SmokeTypes /\ InvocationsEnd /\ [SmokeNext]_smokeVars => InvocationsEnd'
  <1> SUFFICES ASSUME SmokeTypes, InvocationsEnd, [SmokeNext]_smokeVars PROVE InvocationsEnd'
    OBVIOUS
  <1>1. time \in Nat /\ InvocationTime \in Nat /\ \A i \in Invocations : detector[i].now \in Nat
    BY RulesAssumption DEF SmokeTypes, InvocationRecords
  <1>2. CASE TimePasses
    <2>1. /\ UNCHANGED detector /\ time' = time + 1
          /\ \A i \in Invocations :
               detector[i].pc # "idle" => time < detector[i].now + InvocationTime
      BY <1>2 DEF TimePasses
    <2> QED
      BY <1>1, <2>1 DEF InvocationsEnd
  <1>3. ASSUME UNCHANGED time,
               \A i \in Invocations :
                 \/ detector'[i].pc = "idle"
                 \/ detector'[i].now = detector[i].now /\ detector[i].pc # "idle"
                 \/ detector'[i].now = time
                 \/ detector'[i] = detector[i]
        PROVE  InvocationsEnd'
    BY <1>1, <1>3 DEF InvocationsEnd
  <1>4. ASSUME NEW j \in Invocations, NEW fresh \in BOOLEAN, Starts(j, fresh), UNCHANGED time
        PROVE  InvocationsEnd'
    <2>1. /\ detector'[j].now = time
          /\ \A i \in Invocations : i # j => detector'[i] = detector[i]
      BY <1>4 DEF Starts, SmokeTypes
    <2> QED
      BY <1>3, <1>4, <2>1
  <1>5. CASE Scheduled \/ \E fresh \in BOOLEAN : InvokeDetector(fresh)
    BY <1>4, <1>5 DEF Scheduled, InvokeDetector, Invocations
  <1>6. ASSUME NEW j \in Invocations, Detector(j) PROVE InvocationsEnd'
    <2>1. /\ UNCHANGED time
          /\ \A i \in Invocations : i # j => detector'[i] = detector[i]
          /\ \/ detector'[j].pc = "idle"
             \/ detector'[j].now = detector[j].now /\ detector[j].pc # "idle"
      <3>1. CASE Decides(j)
        BY <3>1 DEF Decides, NoInvocation, SmokeTypes, InvocationRecords
      <3>2. CASE Blocks(j) \/ Fails(j)
        BY <3>2 DEF Blocks, Fails, NoInvocation, SmokeTypes
      <3> QED
        BY <1>6, <3>1, <3>2 DEF Detector
    <2> QED
      BY <1>3, <2>1
  <1>7. ASSUME UNCHANGED <<time, detector>> PROVE InvocationsEnd'
    BY <1>7 DEF InvocationsEnd
  <1> QED
    BY <1>2, <1>5, <1>6, <1>7 DEF SmokeNext, Script, Seed, Burst, Settle, TopUp, Verify, Abort,
                                  CountUserRequest, smokeVars

\* Every step keeps what the script knows.
LEMMA JudgedStep ==
    ASSUME SmokeTypes, SmokeTypes', InvocationsEnd, InvocationTime < BlockTTL, JudgedInv, [SmokeNext]_smokeVars
    PROVE  JudgedInv'
  <1>1. CASE Scheduled
    <2>1. /\ UNCHANGED <<time, counter, ttl, smoke, spoilt>>
          /\ detector'["script"] = detector["script"]
      BY <1>1 DEF Scheduled, Starts, SmokeTypes, Invocations
    <2> QED
      BY <2>1 DEF JudgedInv, MeasureInv, AwaitInv, WorkingDetectorPasses, Running, IsActive
  <1>2. CASE UNCHANGED smokeVars
    BY <1>2 DEF smokeVars, JudgedInv, MeasureInv, AwaitInv, WorkingDetectorPasses, Running,
                IsActive
  <1> QED
    BY <1>1, <1>2, ScriptStep, DetectorStep, CountedStep, TimeStep DEF SmokeNext

\* The smoke test does not pass for nothing: a record that it accepts was active
\* when it started, or some invocation flagged its user, whatever else is counted,
\* scheduled or fails meanwhile, and whichever replicas answer.
THEOREM PassEarned == SmokeSpec => []PassIsEarned
  <1>1. SmokeInit => SmokeTypes /\ EarnedInv
    BY SmokeTypesInit, EarnedInit
  <1>2. (SmokeTypes /\ EarnedInv) /\ [SmokeNext]_smokeVars => (SmokeTypes /\ EarnedInv)'
    BY SmokeTypesStep, EarnedStep
  <1>3. EarnedInv => PassIsEarned
    BY DEF EarnedInv
  <1> QED
    BY <1>1, <1>2, <1>3, PTL DEF SmokeSpec

\* The smoke test does not blame a detector that works, for any baseline, windows,
\* threshold and minimum, unless auto-blocking is off or what it measured was
\* disturbed, a lagging replica included - as long as Lambda ends an invocation
\* before a block put by it expires: an older invocation could overwrite the block
\* with an expired one.
THEOREM WorkingPasses ==
    ASSUME InvocationTime < BlockTTL
    PROVE  SmokeSpec => []WorkingDetectorPasses
  <1> DEFINE SmokeInv == SmokeTypes /\ InvocationsEnd /\ JudgedInv
  <1>1. SmokeInit => SmokeInv
    <2>1. SmokeInit => InvocationsEnd
      BY DEF SmokeInit, NoInvocation, InvocationsEnd
    <2> QED
      BY <2>1, SmokeTypesInit, JudgedInit
  <1>2. SmokeInv /\ [SmokeNext]_smokeVars => SmokeInv'
    BY SmokeTypesStep, InvocationsEndStep, JudgedStep
  <1>3. SmokeInv => WorkingDetectorPasses
    BY DEF JudgedInv
  <1> QED
    BY <1>1, <1>2, <1>3, PTL DEF SmokeSpec

=============================================================================
