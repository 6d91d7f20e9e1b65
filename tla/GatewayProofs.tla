---------------------------- MODULE GatewayProofs ----------------------------
(***************************************************************************)
(* The request logger and the pipeline around it, for any numbers of users *)
(* and requests, any retries and any bucket parameters.                    *)
(***************************************************************************)
EXTENDS Gateway, ArithmeticLemmas

-----------------------------------------------------------------------------
(* The logger: one row per request.                                        *)

\* A request that is not logged has no thread at work.
ThreadsHaveOwners ==
    \A r \in Requests : owner[r] = NoUser => \A k \in Kinds : thread[r][k].pc = "new"

\* Where the row of a request can be: nowhere before its first attempt, and while
\* there is another attempt to come only under the key that attempt has.
RowsInPlace ==
    \A r \in Requests, u \in Users, t \in Times :
        row[u][t] = r =>
            /\ thread[r]["raw"].pc \notin {"new", "queued"}
            /\ thread[r]["raw"].pc = "sending" =>
                 u = owner[r] /\ t = thread[r]["raw"].stamp

\* A request has one row.
RowsAreUnique ==
    \A r \in Requests, u \in Users, v \in Users, t \in Times, s \in Times :
        row[u][t] = r /\ row[v][s] = r => u = v /\ t = s

LoggerInv == TypeOK /\ ThreadsHaveOwners /\ RowsInPlace /\ RowsAreUnique

\* The logger starts with no row and no thread.
LEMMA LoggerInit == Init => LoggerInv
  <1> SUFFICES ASSUME Init PROVE LoggerInv
    OBVIOUS
  <1> USE LoggerAssumption
  <1>1. 0 \in Times
    BY DEF Times
  <1>2. TypeOK
    BY <1>1 DEF Init, TypeOK, NotStarted, At, Ends
  <1>3. ThreadsHaveOwners /\ RowsInPlace /\ RowsAreUnique
    BY DEF Init, ThreadsHaveOwners, RowsInPlace, RowsAreUnique, NotStarted, At
  <1> QED
    BY <1>2, <1>3 DEF LoggerInv

\* What a thread is after an attempt that raised.
LEMMA RetriedType ==
    ASSUME NEW th \in [pc : {"new", "queued", "sending"} \cup Ends, stamp : Times,
                       tries : 0..MaxRetries],
           th.pc = "sending", th.tries < MaxRetries
    PROVE  /\ Retried(th) \in [pc : {"sending", "failed"}, stamp : Times, tries : 0..MaxRetries]
           /\ Retried(th).tries < MaxRetries
           /\ Retried(th).pc = "sending" => Retried(th).stamp = th.stamp
  <1> USE LoggerAssumption
  <1>1. 0 \in Times
    BY DEF Times
  <1>2. CASE th.tries + 1 = MaxRetries
    BY <1>1, <1>2 DEF Retried, At
  <1>3. CASE th.tries + 1 # MaxRetries
    BY <1>3 DEF Retried
  <1> QED
    BY <1>2, <1>3

\* An attempt that is applied keeps the tables' types.
LEMMA ApplyType ==
    ASSUME TypeOK, ThreadsHaveOwners, NEW r \in Requests, NEW k \in Kinds,
           NEW n \in Nat, thread[r][k].pc = "sending", Apply(r, k, n)
    PROVE  /\ owner[r] \in Users
           /\ row' \in [Users -> [Times -> Requests \cup {NoRequest}]]
           /\ count' \in [Users -> [Buckets -> Nat]]
  <1>1. owner[r] \in Users /\ thread[r][k].stamp \in Times
    BY DEF TypeOK, ThreadsHaveOwners
  <1>2. BucketOf(thread[r][k].stamp) \in Buckets
    BY <1>1 DEF Buckets
  <1> DEFINE u == owner[r]
             t == thread[r][k].stamp
  <1>3. CASE k = "raw"
    <2>1. row' = [row EXCEPT ![u] = [row[u] EXCEPT ![t] = r]] /\ count' = count
      BY <1>3 DEF Apply
    <2>2. [row[u] EXCEPT ![t] = r] \in [Times -> Requests \cup {NoRequest}]
      BY <1>1 DEF TypeOK
    <2> QED
      BY <1>1, <2>1, <2>2 DEF TypeOK
  <1>4. CASE k # "raw"
    <2>1. /\ row' = row
          /\ count' = [count EXCEPT ![u] = [count[u] EXCEPT ![BucketOf(t)] = count[u][BucketOf(t)] + n]]
      BY <1>4 DEF Apply
    <2>2. [count[u] EXCEPT ![BucketOf(t)] = count[u][BucketOf(t)] + n] \in [Buckets -> Nat]
      BY <1>1, <1>2 DEF TypeOK
    <2> QED
      BY <1>1, <2>1, <2>2 DEF TypeOK
  <1> QED
    BY <1>1, <1>3, <1>4

\* An attempt is over: applied or not, acknowledged or not.
LEMMA AttemptStep ==
    ASSUME LoggerInv, NEW r \in Requests, NEW k \in Kinds, NEW th, NEW n \in 1..Sends,
           thread[r][k].pc = "sending",
           Apply(r, k, n) \/ UNCHANGED <<row, count>>,
           th \in [pc : {"sending"} \cup Ends, stamp : Times, tries : 0..MaxRetries],
           th.pc = "sending" => th.tries < MaxRetries /\ th.stamp = thread[r][k].stamp,
           thread' = [thread EXCEPT ![r][k] = th],
           UNCHANGED <<clock, owner>>
    PROVE  LoggerInv'
  <1> USE LoggerAssumption
  <1>1. owner[r] \in Users /\ thread[r][k].stamp \in Times
    BY DEF LoggerInv, TypeOK, ThreadsHaveOwners
  <1>2. TypeOK'
    <2>1. /\ row' \in [Users -> [Times -> Requests \cup {NoRequest}]]
          /\ count' \in [Users -> [Buckets -> Nat]]
      BY ApplyType DEF LoggerInv, TypeOK
    <2>2. thread' \in [Requests -> [Kinds ->
            [pc : {"new", "queued", "sending"} \cup Ends, stamp : Times, tries : 0..MaxRetries]]]
      BY DEF LoggerInv, TypeOK
    <2>3. ASSUME NEW q \in Requests, NEW j \in Kinds, thread'[q][j].pc \in {"queued", "sending"}
          PROVE  thread'[q][j].tries < MaxRetries
      BY <2>3 DEF LoggerInv, TypeOK, Ends
    <2> QED
      BY <2>1, <2>2, <2>3 DEF LoggerInv, TypeOK
  <1>3. ThreadsHaveOwners'
    BY <1>1 DEF LoggerInv, TypeOK, ThreadsHaveOwners
  <1>4. ASSUME NEW q \in Requests, NEW u \in Users, NEW t \in Times, row'[u][t] = q
        PROVE  \/ row[u][t] = q
               \/ k = "raw" /\ q = r /\ u = owner[r] /\ t = thread[r]["raw"].stamp
    BY <1>1, <1>4 DEF LoggerInv, TypeOK, Apply
  <1>5. \A q \in Requests : thread'[q]["raw"] = IF q = r /\ k = "raw" THEN th ELSE thread[q]["raw"]
    BY DEF LoggerInv, TypeOK, Kinds
  <1>6. RowsInPlace'
    <2> SUFFICES ASSUME NEW q \in Requests, NEW u \in Users, NEW t \in Times, row'[u][t] = q
                 PROVE  /\ thread'[q]["raw"].pc \notin {"new", "queued"}
                        /\ thread'[q]["raw"].pc = "sending" =>
                             u = owner'[q] /\ t = thread'[q]["raw"].stamp
      BY DEF RowsInPlace
    <2> QED
      BY <1>4, <1>5 DEF LoggerInv, RowsInPlace, Ends
  <1>7. RowsAreUnique'
    <2> SUFFICES ASSUME NEW q \in Requests, NEW u \in Users, NEW v \in Users,
                        NEW t \in Times, NEW s \in Times, row'[u][t] = q, row'[v][s] = q
                 PROVE  u = v /\ t = s
      BY DEF RowsAreUnique
    <2> QED
      BY <1>4 DEF LoggerInv, RowsInPlace, RowsAreUnique
  <1> QED
    BY <1>2, <1>3, <1>6, <1>7 DEF LoggerInv

\* Every step of the logger keeps all of it: an attempt carries the key of the first.
LEMMA LoggerStep == LoggerInv /\ [Next]_loggerVars => LoggerInv'
  <1> SUFFICES ASSUME LoggerInv, [Next]_loggerVars PROVE LoggerInv'
    OBVIOUS
  <1> USE LoggerAssumption
  <1>0. 0 \in Times
    BY DEF Times
  <1>1. ASSUME NEW r \in Requests, NEW u \in Users, LogRequest(r, u) PROVE LoggerInv'
    <2>1. TypeOK'
      BY <1>0, <1>1 DEF LoggerInv, TypeOK, LogRequest, At
    <2>2. ThreadsHaveOwners'
      BY <1>1 DEF LoggerInv, TypeOK, ThreadsHaveOwners, LogRequest
    <2>3. \A v \in Users, t \in Times : row[v][t] # r
      BY <1>1 DEF LoggerInv, ThreadsHaveOwners, RowsInPlace, LogRequest, Kinds
    <2>4. RowsInPlace' /\ RowsAreUnique'
      BY <1>1, <2>3 DEF LoggerInv, TypeOK, RowsInPlace, RowsAreUnique, LogRequest
    <2> QED
      BY <2>1, <2>2, <2>4 DEF LoggerInv
  <1>2. ASSUME NEW r \in Requests, NEW k \in Kinds, StartThread(r, k) PROVE LoggerInv'
    <2>1. TypeOK'
      BY <1>0, <1>2 DEF LoggerInv, TypeOK, StartThread, At
    <2>2. ThreadsHaveOwners'
      BY <1>2 DEF LoggerInv, TypeOK, ThreadsHaveOwners, StartThread, At
    <2>3. k = "raw" => \A v \in Users, t \in Times : row[v][t] # r
      BY <1>2 DEF LoggerInv, RowsInPlace, StartThread
    <2>4. RowsInPlace' /\ RowsAreUnique'
      BY <1>2, <2>3 DEF LoggerInv, TypeOK, RowsInPlace, RowsAreUnique, StartThread, At, Kinds
    <2> QED
      BY <2>1, <2>2, <2>4 DEF LoggerInv
  <1>3. ASSUME NEW r \in Requests, NEW k \in Kinds,
               WriteAcked(r, k) \/ UnexpectedError(r, k)
        PROVE  LoggerInv'
    <2>1. PICK e \in Ends : thread' = [thread EXCEPT ![r][k] = At(e)]
      BY <1>3 DEF WriteAcked, UnexpectedError, Ends
    <2>2. /\ At(e) \in [pc : {"sending"} \cup Ends, stamp : Times, tries : 0..MaxRetries]
          /\ At(e).pc # "sending"
      BY <1>0 DEF At, Ends
    <2>3. PICK n \in 1..Sends :
            /\ thread[r][k].pc = "sending"
            /\ Apply(r, k, n) \/ UNCHANGED <<row, count>>
            /\ UNCHANGED <<clock, owner>>
      <3>1. 1 \in 1..Sends
        OBVIOUS
      <3> QED
        BY <1>3, <3>1 DEF WriteAcked, UnexpectedError
    <2> QED
      BY <2>1, <2>2, <2>3, AttemptStep
  <1>4. ASSUME NEW r \in Requests, NEW k \in Kinds,
               WriteUnanswered(r, k) \/ WriteFailed(r, k)
        PROVE  LoggerInv'
    <2>1. /\ thread[r][k] \in [pc : {"new", "queued", "sending"} \cup Ends, stamp : Times,
                               tries : 0..MaxRetries]
          /\ thread[r][k].pc = "sending"
          /\ thread[r][k].tries < MaxRetries
      BY <1>4 DEF LoggerInv, TypeOK, WriteUnanswered, WriteFailed
    <2>2. /\ Retried(thread[r][k]) \in
               [pc : {"sending"} \cup Ends, stamp : Times, tries : 0..MaxRetries]
          /\ Retried(thread[r][k]).tries < MaxRetries
          /\ Retried(thread[r][k]).pc = "sending" =>
               Retried(thread[r][k]).stamp = thread[r][k].stamp
      BY <2>1, RetriedType DEF Ends
    <2>3. PICK n \in 1..Sends : Apply(r, k, n) \/ UNCHANGED <<row, count>>
      <3>1. 1 \in 1..Sends
        OBVIOUS
      <3> QED
        BY <1>4, <3>1 DEF WriteUnanswered, WriteFailed
    <2>4. /\ thread' = [thread EXCEPT ![r][k] = Retried(thread[r][k])]
          /\ UNCHANGED <<clock, owner>>
      BY <1>4 DEF WriteUnanswered, WriteFailed
    <2> QED
      BY <2>1, <2>2, <2>3, <2>4, AttemptStep
  <1>5. CASE GatewayStops
    <2>1. TypeOK'
      BY <1>0, <1>5 DEF LoggerInv, TypeOK, GatewayStops, At, Ends
    <2>2. ThreadsHaveOwners'
      BY <1>5 DEF LoggerInv, ThreadsHaveOwners, GatewayStops
    <2>3. RowsInPlace' /\ RowsAreUnique'
      BY <1>5 DEF LoggerInv, RowsInPlace, RowsAreUnique, GatewayStops, At, Kinds
    <2> QED
      BY <2>1, <2>2, <2>3 DEF LoggerInv
  <1>6. CASE Tick
    BY <1>6 DEF LoggerInv, TypeOK, ThreadsHaveOwners, RowsInPlace, RowsAreUnique, Tick, Times
  <1>7. CASE UNCHANGED loggerVars
    BY <1>7 DEF LoggerInv, TypeOK, ThreadsHaveOwners, RowsInPlace, RowsAreUnique, loggerVars
  <1> QED
    BY <1>1, <1>2, <1>3, <1>4, <1>5, <1>6, <1>7 DEF Next, ThreadStep

\* Two rows of a request are one.
LEMMA RowsCounted == LoggerInv => OneRowPerRequest
  <1> SUFFICES ASSUME LoggerInv, NEW r \in Requests
               PROVE  Cardinality({ut \in Users \X Times : row[ut[1]][ut[2]] = r}) <= 1
    BY DEF OneRowPerRequest
  <1> DEFINE S == {ut \in Users \X Times : row[ut[1]][ut[2]] = r}
  <1>1. CASE S = {}
    BY <1>1, FS_EmptySet
  <1>2. CASE S # {}
    <2>1. PICK ut \in S : TRUE
      BY <1>2
    <2>2. ASSUME NEW vs \in S PROVE vs = ut
      BY <2>2 DEF LoggerInv, RowsAreUnique
    <2>3. S = {ut}
      BY <2>1, <2>2
    <2> QED
      BY <2>3, FS_Singleton
  <1> QED
    BY <1>1, <1>2

-----------------------------------------------------------------------------
(* The logger: counters and requests.                                       *)

\* How many attempts of a thread may have been applied by now.
Tried(th) ==
    IF th.pc \in {"new", "queued"} THEN 0
    ELSE IF th.pc = "sending" THEN th.tries ELSE MaxRetries

\* The attempts u's requests may have made to write to his counters, and the requests
\* whose write was acknowledged.
WritesOf(logged, threads) ==
    {rn \in logged \X (1..MaxRetries) : rn[2] <= Tried(threads[rn[1]]["aggregate"])}
Writes(u) == WritesOf(LoggedBy(u), thread)
Acknowledged(u) == {r \in LoggedBy(u) : thread[r]["aggregate"].pc = "done"}

UserCounts(u) ==
    /\ IsFiniteSet(LoggedBy(u))
    /\ Cardinality(Acknowledged(u)) <= Total(u)
    /\ Total(u) <= Sends * Cardinality(Writes(u))

CountsInv == \A u \in Users : UserCounts(u)

\* There are finitely many buckets.
LEMMA BucketsFinite == IsFiniteSet(Buckets)
  <1>1. IsFiniteSet(Times)
    BY LoggerAssumption, FS_Interval DEF Times
  <1>2. [t \in Times |-> BucketOf(t)] \in Surjection(Times, Buckets)
    BY DEF Surjection, Buckets
  <1> QED
    BY <1>1, <1>2, FS_Surjection

\* A total is a natural number, and one more write makes it one more.
LEMMA TotalNat == ASSUME TypeOK, NEW u \in Users PROVE Total(u) \in Nat
  <1>1. count[u] \in [Buckets -> Nat]
    BY DEF TypeOK
  <1>2. Total(u) = SumFunction(count[u])
    BY DEF Total
  <1> QED
    BY <1>1, <1>2, BucketsFinite, SumNat

\* The set the counters are compared with is finite.
LEMMA WritesFinite ==
    ASSUME NEW logged, IsFiniteSet(logged), NEW threads
    PROVE  /\ IsFiniteSet(WritesOf(logged, threads))
           /\ Cardinality(WritesOf(logged, threads)) \in Nat
           /\ Cardinality(WritesOf(logged, threads)) <= MaxRetries * Cardinality(logged)
  <1>1. /\ IsFiniteSet(1..MaxRetries)
        /\ Cardinality(1..MaxRetries) = MaxRetries
    BY LoggerAssumption, FS_Interval
  <1>2. /\ IsFiniteSet(logged \X (1..MaxRetries))
        /\ Cardinality(logged \X (1..MaxRetries)) = Cardinality(logged) * MaxRetries
    BY <1>1, FS_Product
  <1>3. WritesOf(logged, threads) \in SUBSET (logged \X (1..MaxRetries))
    BY DEF WritesOf
  <1>4. /\ IsFiniteSet(WritesOf(logged, threads))
        /\ Cardinality(WritesOf(logged, threads)) <= Cardinality(logged) * MaxRetries
    BY <1>2, <1>3, FS_Subset
  <1>5. /\ Cardinality(logged) \in Nat /\ MaxRetries \in Nat
        /\ Cardinality(WritesOf(logged, threads)) \in Nat
    BY <1>4, FS_CardinalityType, LoggerAssumption
  <1> QED
    BY <1>4, <1>5

\* One more attempt is at most Sends more writes.
LEMMA OneMoreAttempt ==
    ASSUME NEW c \in Nat, NEW d \in Nat, c <= d
    PROVE  /\ Sends * c \in Nat /\ Sends * d \in Nat /\ Sends * c <= Sends * d
           /\ c < d => Sends * c + Sends <= Sends * d
  <1>1. Sends \in Nat
    BY LoggerAssumption
  <1>2. PICK e \in Nat : d = c + e
    <2>1. d - c \in Nat /\ d = c + (d - c)
      OBVIOUS
    <2> QED
      BY <2>1
  <1>3. Sends * (c + e) = Sends * c + Sends * e
    BY <1>1, Distribute
  <1>4. Sends * c \in Nat /\ Sends * d \in Nat /\ Sends * e \in Nat
    BY <1>1, ProductNat
  <1>5. CASE e = 0
    BY <1>2, <1>3, <1>4, <1>5
  <1>6. CASE e # 0
    <2>1. PICK f \in Nat : e = f + 1
      <3>1. e - 1 \in Nat /\ e = (e - 1) + 1
        BY <1>6
      <3> QED
        BY <3>1
    <2>2. Sends * (f + 1) = Sends * f + Sends * 1 /\ Sends * f \in Nat /\ Sends * 1 = Sends
      BY <1>1, Distribute, ProductNat
    <2>3. Sends * e >= Sends
      BY <1>1, <2>1, <2>2
    <2> QED
      BY <1>1, <1>2, <1>3, <1>4, <2>3
  <1> QED
    BY <1>5, <1>6

\* A step that counts nothing for u.
LEMMA NothingCounted ==
    ASSUME NEW u \in Users, UserCounts(u), Total(u) \in Nat,
           Total(u)' = Total(u), IsFiniteSet(LoggedBy(u)'),
           Acknowledged(u)' \subseteq Acknowledged(u),
           Writes(u) \subseteq Writes(u)'
    PROVE  UserCounts(u)'
  <1>1. /\ IsFiniteSet(Writes(u)') /\ Cardinality(Writes(u)') \in Nat
        /\ IsFiniteSet(Writes(u)) /\ Cardinality(Writes(u)) \in Nat
    BY WritesFinite DEF Writes, UserCounts
  <1>2. IsFiniteSet(Acknowledged(u)) /\ IsFiniteSet(Acknowledged(u)')
    BY FS_Subset DEF UserCounts, Acknowledged
  <1>3. Cardinality(Acknowledged(u)) \in Nat /\ Cardinality(Acknowledged(u)') \in Nat
    BY <1>2, FS_CardinalityType
  <1>4. /\ Cardinality(Writes(u)) <= Cardinality(Writes(u)')
        /\ Cardinality(Acknowledged(u)') <= Cardinality(Acknowledged(u))
    BY <1>1, <1>2, FS_Subset
  <1>5. PICK c \in Nat, d \in Nat : c = Cardinality(Writes(u)) /\ d = Cardinality(Writes(u)')
    BY <1>1
  <1>6. Sends * c \in Nat /\ Sends * d \in Nat /\ Sends * c <= Sends * d
    BY <1>4, <1>5, OneMoreAttempt
  <1> QED
    BY <1>3, <1>4, <1>5, <1>6 DEF UserCounts

\* A step that counts one attempt of r for u, acknowledged or not.
LEMMA OneCounted ==
    ASSUME NEW u \in Users, UserCounts(u), Total(u) \in Nat, NEW r, NEW rn, NEW n \in 1..Sends,
           Total(u)' = Total(u) + n, LoggedBy(u)' = LoggedBy(u),
           Acknowledged(u)' \subseteq Acknowledged(u) \cup {r},
           rn \notin Writes(u), Writes(u) \cup {rn} \subseteq Writes(u)'
    PROVE  UserCounts(u)'
  <1>1. /\ IsFiniteSet(Writes(u)') /\ Cardinality(Writes(u)') \in Nat
        /\ IsFiniteSet(Writes(u)) /\ Cardinality(Writes(u)) \in Nat
    BY WritesFinite DEF Writes, UserCounts
  <1>2. IsFiniteSet(Acknowledged(u)) /\ IsFiniteSet(Acknowledged(u)')
    BY FS_Subset DEF UserCounts, Acknowledged
  <1>3. Cardinality(Acknowledged(u)) \in Nat /\ Cardinality(Acknowledged(u)') \in Nat
    BY <1>2, FS_CardinalityType
  <1>4. Cardinality(Writes(u)) + 1 <= Cardinality(Writes(u)')
    BY <1>1, FS_AddElement, FS_Subset
  <1>5. Cardinality(Acknowledged(u)') <= Cardinality(Acknowledged(u)) + 1
    <2>1. /\ IsFiniteSet(Acknowledged(u) \cup {r})
          /\ \/ Cardinality(Acknowledged(u) \cup {r}) = Cardinality(Acknowledged(u)) + 1
             \/ Cardinality(Acknowledged(u) \cup {r}) = Cardinality(Acknowledged(u))
      BY <1>2, FS_AddElement, Zenon
    <2>2. Cardinality(Acknowledged(u)') <= Cardinality(Acknowledged(u) \cup {r})
      BY <2>1, FS_Subset
    <2>3. Cardinality(Acknowledged(u) \cup {r}) \in Nat
      BY <2>1, FS_CardinalityType
    <2> QED
      BY <1>3, <2>1, <2>2, <2>3
  <1>6. PICK c \in Nat, d \in Nat : c = Cardinality(Writes(u)) /\ d = Cardinality(Writes(u)')
    BY <1>1
  <1>7. /\ Sends * c \in Nat /\ Sends * d \in Nat
        /\ Sends * c + Sends <= Sends * d
    BY <1>4, <1>6, OneMoreAttempt
  <1>8. Total(u)' <= Sends * Cardinality(Writes(u)')
    BY <1>6, <1>7, LoggerAssumption DEF UserCounts
  <1>9. Cardinality(Acknowledged(u)') <= Total(u)'
    BY <1>3, <1>5 DEF UserCounts
  <1> QED
    BY <1>8, <1>9 DEF UserCounts

\* An attempt that tries the write once more, or gives up, counts at most one.
LEMMA AttemptCounts ==
    ASSUME LoggerInv, CountsInv, NEW r \in Requests, NEW k \in Kinds, NEW th,
           NEW n \in 1..Sends, thread[r][k].pc = "sending",
           \/ Apply(r, k, n) /\ Tried(th) > Tried(thread[r][k])
           \/ UNCHANGED <<row, count>> /\ th.pc # "done",
           Tried(th) \in 0..MaxRetries, Tried(th) >= Tried(thread[r][k]),
           thread' = [thread EXCEPT ![r][k] = th],
           UNCHANGED <<clock, owner>>
    PROVE  CountsInv'
  <1> USE LoggerAssumption
  <1> SUFFICES ASSUME NEW u \in Users PROVE UserCounts(u)'
    BY DEF CountsInv
  <1>0. Total(u) = SumFunction(count[u]) /\ Total(u)' = SumFunction(count'[u])
    BY DEF Total
  <1>1. /\ UserCounts(u) /\ Total(u) \in Nat
        /\ LoggedBy(u)' = LoggedBy(u) /\ IsFiniteSet(LoggedBy(u))
    BY TotalNat DEF LoggerInv, CountsInv, UserCounts, LoggedBy
  <1>2. \A q \in Requests : thread'[q]["aggregate"] =
          IF q = r /\ k = "aggregate" THEN th ELSE thread[q]["aggregate"]
    BY DEF LoggerInv, TypeOK, Kinds
  <1>3. LoggedBy(u) \subseteq Requests
    BY DEF LoggedBy
  <1>4. \A q \in LoggedBy(u) : Tried(thread[q]["aggregate"]) \in Nat
    BY <1>3 DEF LoggerInv, TypeOK, Tried, Kinds
  <1>5. \A q \in LoggedBy(u) :
          /\ Tried(thread'[q]["aggregate"]) \in Nat
          /\ Tried(thread'[q]["aggregate"]) >= Tried(thread[q]["aggregate"])
    BY <1>2, <1>3, <1>4
  <1>6. Writes(u) \subseteq Writes(u)'
    BY <1>1, <1>4, <1>5 DEF Writes, WritesOf
  <1>7. CASE k = "aggregate" /\ owner[r] = u /\ Apply(r, k, n) /\ Tried(th) > Tried(thread[r][k])
    <2>1. Total(u)' = Total(u) + n
      <3>1. /\ thread[r][k].stamp \in Times
            /\ count[u] \in [Buckets -> Nat]
        BY DEF LoggerInv, TypeOK
      <3>2. PICK b \in Buckets : b = BucketOf(thread[r][k].stamp)
        BY <3>1 DEF Buckets
      <3>3. count'[u] = [count[u] EXCEPT ![b] = @ + n]
        BY <1>7, <3>1, <3>2 DEF Apply, LoggerInv, TypeOK
      <3>4. SumFunction([count[u] EXCEPT ![b] = @ + n]) = SumFunction(count[u]) + n
        BY <3>1, BucketsFinite, SumIncrement
      <3> QED
        BY <1>0, <3>3, <3>4
    <2>2. r \in LoggedBy(u)
      BY <1>7 DEF LoggedBy
    <2>3. Acknowledged(u)' \subseteq Acknowledged(u) \cup {r}
      BY <1>1, <1>2, <1>3 DEF Acknowledged
    <2>4. PICK rn : rn = <<r, Tried(th)>>
      OBVIOUS
    <2>5. Tried(th) \in 1..MaxRetries
      BY <1>7, <1>4, <2>2
    <2>6. rn \notin Writes(u)
      BY <1>7, <1>4, <2>2, <2>4, <2>5 DEF Writes, WritesOf
    <2>7. rn \in Writes(u)'
      BY <1>1, <1>2, <1>7, <2>2, <2>4, <2>5 DEF Writes, WritesOf
    <2> QED
      BY <1>1, <1>6, <2>1, <2>3, <2>6, <2>7, OneCounted
  <1>8. CASE ~(k = "aggregate" /\ owner[r] = u /\ Apply(r, k, n) /\ Tried(th) > Tried(thread[r][k]))
    <2>1. count'[u] = count[u]
      <3>1. CASE k = "raw" \/ ~Apply(r, k, n)
        BY <3>1 DEF Apply
      <3>2. CASE Apply(r, k, n) /\ k = "aggregate" /\ owner[r] # u
        BY <3>2 DEF Apply, LoggerInv, TypeOK
      <3>3. CASE UNCHANGED <<row, count>>
        BY <3>3
      <3> QED
        BY <1>8, <3>1, <3>2, <3>3 DEF Kinds
    <2>2. Total(u)' = Total(u)
      BY <1>0, <2>1
    <2>3. Acknowledged(u)' \subseteq Acknowledged(u)
      BY <1>1, <1>2, <1>3, <1>8 DEF Acknowledged, LoggedBy
    <2> QED
      BY <1>1, <1>6, <2>2, <2>3, NothingCounted
  <1> QED
    BY <1>7, <1>8

\* Nothing is counted at first.
LEMMA CountsInit == Init => CountsInv
  <1> SUFFICES ASSUME Init, NEW u \in Users PROVE UserCounts(u)
    BY DEF CountsInv
  <1>1. LoggedBy(u) = {}
    BY LoggerAssumption DEF Init, LoggedBy
  <1>2. Total(u) = 0
    <2>1. count[u] = [b \in Buckets |-> 0]
      BY DEF Init
    <2> QED
      BY <2>1, BucketsFinite, SumZero DEF Total
  <1>3. Writes(u) = {} /\ Acknowledged(u) = {}
    BY <1>1 DEF Writes, WritesOf, Acknowledged
  <1>4. Cardinality(Writes(u)) = 0 /\ Sends * 0 = 0
    BY <1>3, FS_EmptySet, LoggerAssumption
  <1> QED
    BY <1>1, <1>2, <1>3, <1>4, FS_EmptySet DEF UserCounts

\* A step that writes nothing counts nothing, as long as no thread goes back.
LEMMA QuietStep ==
    ASSUME LoggerInv, CountsInv, UNCHANGED count,
           \A u \in Users : LoggedBy(u) \subseteq LoggedBy(u)' /\ IsFiniteSet(LoggedBy(u)'),
           \A r \in Requests :
             /\ Tried(thread[r]["aggregate"]) \in Nat
             /\ Tried(thread'[r]["aggregate"]) \in Nat
             /\ Tried(thread'[r]["aggregate"]) >= Tried(thread[r]["aggregate"])
             /\ thread'[r]["aggregate"].pc = "done" =>
                  thread[r]["aggregate"].pc = "done" /\ owner'[r] = owner[r]
    PROVE  CountsInv'
  <1> SUFFICES ASSUME NEW u \in Users PROVE UserCounts(u)'
    BY DEF CountsInv
  <1>1. /\ UserCounts(u) /\ Total(u) \in Nat
        /\ Total(u)' = Total(u)
    BY TotalNat DEF LoggerInv, CountsInv, Total
  <1>2. Acknowledged(u)' \subseteq Acknowledged(u)
    BY DEF Acknowledged, LoggedBy
  <1>3. Writes(u) \subseteq Writes(u)'
    <2>1. LoggedBy(u) \subseteq Requests
      BY DEF LoggedBy
    <2> QED
      BY <2>1 DEF Writes, WritesOf
  <1> QED
    BY <1>1, <1>2, <1>3, NothingCounted

\* Every step of the logger keeps the counters within their bounds.
LEMMA CountsStep == LoggerInv /\ CountsInv /\ [Next]_loggerVars => CountsInv'
  <1> SUFFICES ASSUME LoggerInv, CountsInv, [Next]_loggerVars PROVE CountsInv'
    OBVIOUS
  <1> USE LoggerAssumption
  <1>0. /\ \A q \in Requests : Tried(thread[q]["aggregate"]) \in 0..MaxRetries
        /\ \A u \in Users : IsFiniteSet(LoggedBy(u))
    BY DEF LoggerInv, TypeOK, Tried, Kinds, CountsInv, UserCounts
  <1>1. ASSUME NEW r \in Requests, NEW u \in Users, LogRequest(r, u) PROVE CountsInv'
    <2>1. \A q \in Requests :
            thread'[q]["aggregate"] = IF q = r THEN At("queued") ELSE thread[q]["aggregate"]
      BY <1>1 DEF LogRequest, LoggerInv, TypeOK, Kinds
    <2>2. thread[r]["aggregate"].pc = "new"
      BY <1>1 DEF LogRequest, LoggerInv, ThreadsHaveOwners, Kinds
    <2>3. \A v \in Users : LoggedBy(v)' = LoggedBy(v) \cup IF v = u THEN {r} ELSE {}
      BY <1>1 DEF LogRequest, LoggerInv, TypeOK, LoggedBy
    <2>4. \A v \in Users : LoggedBy(v) \subseteq LoggedBy(v)' /\ IsFiniteSet(LoggedBy(v)')
      <3> SUFFICES ASSUME NEW v \in Users
                   PROVE  LoggedBy(v) \subseteq LoggedBy(v)' /\ IsFiniteSet(LoggedBy(v)')
        OBVIOUS
      <3>1. LoggedBy(v)' = LoggedBy(v) \/ LoggedBy(v)' = LoggedBy(v) \cup {r}
        BY <2>3
      <3> QED
        BY <1>0, <3>1, FS_AddElement
    <2>5. \A q \in Requests \ {r} : owner'[q] = owner[q]
      BY <1>1 DEF LogRequest
    <2> QED
      BY <1>0, <1>1, <2>1, <2>2, <2>4, <2>5, QuietStep DEF LogRequest, Tried, At
  <1>2. ASSUME NEW r \in Requests, NEW k \in Kinds, StartThread(r, k) PROVE CountsInv'
    <2>1. \A q \in Requests :
            thread'[q]["aggregate"] =
              IF q = r /\ k = "aggregate" THEN [pc |-> "sending", stamp |-> clock, tries |-> 0]
              ELSE thread[q]["aggregate"]
      BY <1>2 DEF StartThread, At, LoggerInv, TypeOK, Kinds
    <2>2. thread[r][k].pc = "queued" /\ UNCHANGED <<owner, count>>
      BY <1>2 DEF StartThread
    <2>3. \A v \in Users : LoggedBy(v)' = LoggedBy(v)
      BY <2>2 DEF LoggedBy
    <2> QED
      BY <1>0, <2>1, <2>2, <2>3, QuietStep DEF Tried
  <1>3. ASSUME NEW r \in Requests, NEW k \in Kinds,
               WriteAcked(r, k) \/ UnexpectedError(r, k)
        PROVE  CountsInv'
    <2>1. /\ thread[r][k].pc = "sending" /\ UNCHANGED <<clock, owner>>
          /\ Tried(thread[r][k]) \in 0 .. (MaxRetries - 1)
      BY <1>3 DEF WriteAcked, UnexpectedError, LoggerInv, TypeOK, Tried
    <2>2. \A e \in Ends : Tried(At(e)) = MaxRetries /\ At(e).pc = e
      BY DEF Tried, At, Ends
    <2>3. CASE WriteAcked(r, k)
      <3>1. PICK th : th = At("done")
        OBVIOUS
      <3>2. /\ \E n \in 1..Sends : Apply(r, k, n)
            /\ thread' = [thread EXCEPT ![r][k] = th]
            /\ Tried(th) \in 0..MaxRetries /\ Tried(th) > Tried(thread[r][k])
        BY <2>1, <2>2, <2>3, <3>1 DEF WriteAcked, Ends
      <3>3. Tried(th) >= Tried(thread[r][k])
        BY <2>1, <2>2, <3>1 DEF Ends
      <3> QED
        BY <2>1, <3>2, <3>3, AttemptCounts
    <2>4. CASE UnexpectedError(r, k)
      <3>1. PICK th : th = At("failed")
        OBVIOUS
      <3>2. /\ UNCHANGED <<row, count>> /\ thread' = [thread EXCEPT ![r][k] = th]
            /\ Tried(th) \in 0..MaxRetries /\ th.pc # "done"
            /\ Tried(th) >= Tried(thread[r][k])
        BY <2>1, <2>2, <2>4, <3>1 DEF UnexpectedError, Ends
      <3>3. 1 \in 1..Sends
        OBVIOUS
      <3> QED
        BY <2>1, <3>2, <3>3, AttemptCounts
    <2> QED
      BY <1>3, <2>3, <2>4
  <1>4. ASSUME NEW r \in Requests, NEW k \in Kinds,
               WriteUnanswered(r, k) \/ WriteFailed(r, k)
        PROVE  CountsInv'
    <2>1. /\ thread[r][k].pc = "sending" /\ UNCHANGED <<clock, owner>>
          /\ thread' = [thread EXCEPT ![r][k] = Retried(thread[r][k])]
          /\ (\E n \in 1..Sends : Apply(r, k, n)) \/ UNCHANGED <<row, count>>
          /\ thread[r][k] \in [pc : {"new", "queued", "sending"} \cup Ends, stamp : Times,
                               tries : 0..MaxRetries]
          /\ thread[r][k].tries < MaxRetries
      BY <1>4 DEF WriteUnanswered, WriteFailed, LoggerInv, TypeOK
    <2>2. PICK th : th = Retried(thread[r][k])
      OBVIOUS
    <2>3. /\ Tried(th) = Tried(thread[r][k]) + 1
          /\ Tried(thread[r][k]) \in 0 .. (MaxRetries - 1)
          /\ th.pc # "done"
      BY <2>1, <2>2 DEF Tried, Retried, At
    <2>4. /\ Tried(th) \in 0..MaxRetries
          /\ Tried(th) > Tried(thread[r][k]) /\ Tried(th) >= Tried(thread[r][k])
          /\ thread' = [thread EXCEPT ![r][k] = th]
      BY <2>1, <2>2, <2>3
    <2>5. PICK n \in 1..Sends : Apply(r, k, n) \/ UNCHANGED <<row, count>>
      <3>1. 1 \in 1..Sends
        OBVIOUS
      <3> QED
        BY <2>1, <3>1
    <2> QED
      BY <2>1, <2>3, <2>4, <2>5, AttemptCounts
  <1>5. CASE GatewayStops
    <2>1. \A q \in Requests :
            thread'[q]["aggregate"] = IF thread[q]["aggregate"].pc \in {"queued", "sending"}
                                      THEN At("failed") ELSE thread[q]["aggregate"]
      BY <1>5 DEF GatewayStops, Kinds
    <2>2. UNCHANGED <<owner, count>>
      BY <1>5 DEF GatewayStops
    <2>3. \A v \in Users : LoggedBy(v)' = LoggedBy(v)
      BY <2>2 DEF LoggedBy
    <2>4. Tried(At("failed")) = MaxRetries /\ At("failed").pc = "failed"
      BY DEF Tried, At
    <2> QED
      BY <1>0, <2>1, <2>2, <2>3, <2>4, QuietStep
  <1>6. CASE Tick \/ UNCHANGED loggerVars
    <2>1. UNCHANGED <<owner, thread, count>>
      BY <1>6 DEF Tick, loggerVars
    <2>2. \A v \in Users : LoggedBy(v)' = LoggedBy(v)
      BY <2>1 DEF LoggedBy
    <2> QED
      BY <1>0, <2>1, <2>2, QuietStep
  <1> QED
    BY <1>1, <1>2, <1>3, <1>4, <1>5, <1>6 DEF Next, ThreadStep

\* A user's counters against the number of his requests.
LEMMA CountsBounded == LoggerInv /\ CountsInv => CountsWithinBounds
  <1> SUFFICES ASSUME LoggerInv, CountsInv, NEW u \in Users
               PROVE  /\ Cardinality(Acknowledged(u)) <= Total(u)
                      /\ Total(u) <= MaxWrites * Cardinality(LoggedBy(u))
    BY DEF CountsWithinBounds, Acknowledged
  <1>1. UserCounts(u)
    BY DEF CountsInv
  <1>2. PICK w \in Nat, l \in Nat :
          w = Cardinality(Writes(u)) /\ l = Cardinality(LoggedBy(u)) /\ w <= MaxRetries * l
    <2>1. /\ Cardinality(Writes(u)) \in Nat
          /\ Cardinality(Writes(u)) <= MaxRetries * Cardinality(LoggedBy(u))
      BY <1>1, WritesFinite DEF UserCounts, Writes
    <2>2. Cardinality(LoggedBy(u)) \in Nat
      BY <1>1, FS_CardinalityType DEF UserCounts
    <2> QED
      BY <2>1, <2>2
  <1>3. PICK m \in Nat : m = MaxRetries * l
    BY LoggerAssumption, ProductNat
  <1>4. Sends * w \in Nat /\ Sends * m \in Nat /\ Sends * w <= Sends * m
    BY <1>2, <1>3, OneMoreAttempt
  <1>5. Sends * (MaxRetries * l) = MaxRetries * Sends * l
    BY LoggerAssumption
  <1>6. Total(u) \in Nat
    BY TotalNat DEF LoggerInv
  <1> QED
    BY <1>1, <1>2, <1>3, <1>4, <1>5, <1>6 DEF UserCounts, MaxWrites

-----------------------------------------------------------------------------
(* The pipeline: types, and what is known of a request where it is.         *)

Handlers ==
    [pc : {"new", "limiting", "stalled", "forwarding", "logging", "answered", "lost"},
     user : Users \cup {NoUser},
     status : LocalAnswers \cup {"none", "500", "upstream"}]

USE DEF WaitsForLimiter

\* The handlers and the upstream.
RequestType ==
    /\ req \in [Requests -> Handlers]
    /\ upstream \in [Requests -> {"unknown", "sent", "executed"}]
    /\ \A r \in Requests : InFlight(r) => req[r].user \in Users

\* The limiter; only a pending call says when it was made.
LimiterType ==
    /\ clock \in Times
    /\ bucket \in [Users -> [tokens : 0..Capacity, lastRefill : Times]]
    /\ blockedUntil \in [Users -> Nat]
    /\ DOMAIN call = Requests
    /\ \A r \in Requests : call[r].pc = "pending" =>
         call[r].user \in Users /\ call[r].since \in Times
    /\ \A r \in Requests : call[r].pc # "idle" <=> WaitsForLimiter(r)

\* What the upstream and the log know of a request that has come this far.
Progress(r) ==
    /\ req[r].pc = "new" \/ WaitsForLimiter(r) => upstream[r] = "unknown"
    /\ req[r].pc = "logging" => upstream[r] = "executed"
    /\ Answered(r, LocalAnswers) => upstream[r] = "unknown"
    /\ Answered(r, {"upstream"}) => upstream[r] = "executed"
    /\ owner[r] # NoUser => upstream[r] = "executed" /\ owner[r] = req[r].user

\* The threads of a logger leave the owners and the clock alone.
LEMMA ThreadFrame ==
    ASSUME NEW r \in Requests, NEW k \in Kinds, ThreadStep(r, k)
    PROVE  UNCHANGED <<clock, owner>>
  BY DEF ThreadStep, StartThread, WriteAcked, WriteUnanswered, WriteFailed, UnexpectedError

PipelineInv == RequestType /\ LimiterType /\ \A r \in Requests : Progress(r)

\* The pipeline starts with nothing sent and nothing logged.
LEMMA PipelineInit == GInit => PipelineInv
  <1> SUFFICES ASSUME GInit PROVE PipelineInv
    OBVIOUS
  <1>1. 0 \in Times
    BY LoggerAssumption DEF Times
  <1>2. RequestType
    BY DEF GInit, RequestType, InFlight, Handlers
  <1>3. LimiterType
    BY <1>1, BucketAssumption, GatewayAssumption
    DEF GInit, Init, LimiterType, Limiter!Full, Limiter!Idle, Limiter!NotBlocked
  <1>4. \A r \in Requests : Progress(r)
    BY DEF GInit, Init, Progress, Answered
  <1> QED
    BY <1>2, <1>3, <1>4 DEF PipelineInv

\* The limiter decides on a bucket of its type.
LEMMA DecidedType ==
    ASSUME LimiterType, NEW r \in Requests, Limiter!Refuse(r) \/ Limiter!Decide(r)
    PROVE  /\ bucket' \in [Users -> [tokens : 0..Capacity, lastRefill : Times]]
           /\ blockedUntil' \in [Users -> Nat]
           /\ DOMAIN call' = Requests
           /\ call[r].pc # "idle" /\ call'[r].pc = "answered"
           /\ \A q \in Requests \ {r} : call'[q] = call[q]
           /\ clock' = clock
  <1> USE DEF LimiterType
  <1>1. CASE Limiter!Refuse(r)
    BY <1>1 DEF Limiter!Refuse, Limiter!Answered
  <1>2. CASE Limiter!Decide(r)
    <2> DEFINE u == call[r].user
    <2>1. u \in Users /\ call[r].since \in Times
      BY <1>2 DEF Limiter!Decide
    <2>2. PICK now \in Limiter!Instants(r) :
            LET level == Limiter!Refilled(bucket[u].tokens, bucket[u].lastRefill, now)
            IN  /\ bucket' = [bucket EXCEPT ![u] =
                                [tokens |-> Limiter!Spend(level), lastRefill |-> now]]
                /\ call' = [call EXCEPT ![r] =
                              Limiter!Answered(u, IF Limiter!HasToken(level) THEN "allowed" ELSE "denied",
                                       Limiter!WholeTokens(Limiter!Spend(level)))]
      BY <1>2 DEF Limiter!Decide
    <2> DEFINE level == Limiter!Refilled(bucket[u].tokens, bucket[u].lastRefill, now)
    <2>3. now \in Times
      BY <2>1, LoggerAssumption DEF Limiter!Instants, Times
    <2>4. level = Refilled(bucket[u].tokens, bucket[u].lastRefill, now)
      BY DEF Limiter!Refilled, Limiter!Elapsed, Refilled, Elapsed
    <2>5. Limiter!Spend(level) \in 0..Capacity
      <3>1. level \in 0..Capacity
        <4>1. bucket[u].tokens \in 0..Capacity /\ bucket[u].lastRefill \in Int /\ now \in Int
          BY <2>1, <2>3 DEF Times
        <4>2. Refilled(bucket[u].tokens, bucket[u].lastRefill, now) \in 0..Capacity
          BY <4>1, RefilledRange
        <4> QED
          BY <4>2, <2>4
      <3>2. Limiter!Spend(level) = Spend(level)
        BY DEF Limiter!Spend, Limiter!HasToken, Spend, HasToken
      <3> QED
        BY <3>1, <3>2, SpendRange
    <2>6. bucket' \in [Users -> [tokens : 0..Capacity, lastRefill : Times]]
      BY <2>1, <2>2, <2>3, <2>5
    <2>7. blockedUntil' \in [Users -> Nat]
      BY <1>2, <2>1 DEF Limiter!Decide, Limiter!NotBlocked
    <2> HIDE DEF level
    <2>8. /\ DOMAIN call' = Requests
          /\ call'[r].pc = "answered"
          /\ \A q \in Requests \ {r} : call'[q] = call[q]
      BY <2>2 DEF Limiter!Answered, level
    <2> QED
      BY <1>2, <2>6, <2>7, <2>8 DEF Limiter!Decide
  <1> QED
    BY <1>1, <1>2

\* What an answer does to a handler.
LEMMA AnswerType ==
    ASSUME RequestType, NEW r \in Requests,
           NEW status \in LocalAnswers \cup {"500", "upstream"}, Answer(r, status)
    PROVE  \E new \in Handlers :
             /\ req' = [req EXCEPT ![r] = new]
             /\ new.pc = "answered" /\ new.user = req[r].user /\ new.status = status
  <1>1. req[r] \in Handlers
    BY DEF RequestType
  <1>2. [req[r] EXCEPT !.pc = "answered", !.status = status] \in Handlers
    BY <1>1 DEF Handlers
  <1>3. req' = [req EXCEPT ![r] = [req[r] EXCEPT !.pc = "answered", !.status = status]]
    BY DEF Answer
  <1> QED
    BY <1>1, <1>2, <1>3 DEF Handlers

\* What moving on does to a handler.
LEMMA GotoType ==
    ASSUME RequestType, NEW r \in Requests, NEW pc \in {"limiting", "stalled", "forwarding", "logging"},
           Goto(r, pc)
    PROVE  \E new \in Handlers :
             /\ req' = [req EXCEPT ![r] = new]
             /\ new.pc = pc /\ new.user = req[r].user
  <1>1. req[r] \in Handlers
    BY DEF RequestType
  <1>2. [req[r] EXCEPT !.pc = pc] \in Handlers
    BY <1>1 DEF Handlers
  <1>3. req' = [req EXCEPT ![r] = [req[r] EXCEPT !.pc = pc]]
    BY DEF Goto
  <1> QED
    BY <1>1, <1>2, <1>3 DEF Handlers

\* A handler step that leaves the limiter alone.
LEMMA HandlerFrame ==
    ASSUME PipelineInv, NEW r \in Requests, NEW new \in Handlers,
           req' = [req EXCEPT ![r] = new],
           ~WaitsForLimiter(r), new.pc \notin {"new", "limiting", "stalled"},
           new.pc \in {"forwarding", "logging"} => new.user \in Users,
           UNCHANGED <<clock, bucket, blockedUntil, call, upstream>>,
           \A q \in Requests \ {r} : owner'[q] = owner[q],
           new.pc = "logging" => upstream[r] = "executed",
           new.pc = "answered" =>
             /\ new.status \in LocalAnswers => upstream[r] = "unknown"
             /\ new.status = "upstream" => upstream[r] = "executed",
           owner'[r] # NoUser => upstream[r] = "executed" /\ owner'[r] = new.user
    PROVE  PipelineInv'
  <1>1. RequestType'
    BY DEF PipelineInv, RequestType, InFlight
  <1>2. LimiterType'
    BY DEF PipelineInv, RequestType, LimiterType
  <1>3. \A q \in Requests : Progress(q)'
    BY DEF PipelineInv, RequestType, Progress, Answered
  <1> QED
    BY <1>1, <1>2, <1>3 DEF PipelineInv

\* An answer is given at the end of the pipeline or before its beginning.
LEMMA AnswerStep ==
    ASSUME PipelineInv, NEW r \in Requests,
           Unauthorized(r) \/ Verify(r) \/ LoggerRaises(r) \/ ForwardFails(r) \/ Respond(r)
    PROVE  PipelineInv'
  <1>1. PICK status \in LocalAnswers \cup {"500", "upstream"} :
          /\ Answer(r, status)
          /\ status \in LocalAnswers => upstream[r] = "unknown"
          /\ status = "upstream" => upstream[r] = "executed"
    <2>1. CASE Unauthorized(r)
      <3>1. Answer(r, "401") /\ upstream[r] = "unknown"
        BY <2>1 DEF Unauthorized, PipelineInv, Progress
      <3>2. "401" \in LocalAnswers /\ "401" # "upstream"
        BY DEF LocalAnswers
      <3> QED
        BY <3>1, <3>2, Zenon
    <2>2. CASE Verify(r)
      <3>1. Answer(r, "200 verified") /\ upstream[r] = "unknown"
        BY <2>2 DEF Verify, PipelineInv, Progress
      <3>2. "200 verified" \in LocalAnswers /\ "200 verified" # "upstream"
        BY DEF LocalAnswers
      <3> QED
        BY <3>1, <3>2, Zenon
    <2>3. CASE LoggerRaises(r)
      <3>1. Answer(r, "upstream") /\ upstream[r] = "executed"
        BY <2>3 DEF LoggerRaises, PipelineInv, Progress
      <3>2. "upstream" \notin LocalAnswers
        BY DEF LocalAnswers
      <3> QED
        BY <3>1, <3>2, Zenon
    <2>4. CASE ForwardFails(r)
      <3>1. Answer(r, "500")
        BY <2>4 DEF ForwardFails, PipelineInv, Progress
      <3>2. "500" \notin LocalAnswers /\ "500" # "upstream"
        BY DEF LocalAnswers
      <3> QED
        BY <3>1, <3>2, Zenon
    <2>5. CASE Respond(r)
      <3>1. Answer(r, "upstream") /\ upstream[r] = "executed"
        BY <2>5 DEF Respond, PipelineInv, Progress
      <3>2. "upstream" \notin LocalAnswers
        BY DEF LocalAnswers
      <3> QED
        BY <3>1, <3>2, Zenon
    <2> QED
      BY <2>1, <2>2, <2>3, <2>4, <2>5
  <1>2. /\ UNCHANGED <<clock, bucket, blockedUntil, call, upstream, owner>>
        /\ ~WaitsForLimiter(r)
    BY DEF Unauthorized, Verify, LoggerRaises, ForwardFails, Respond, loggerVars, limiterVars
  <1>3. PICK new \in Handlers :
          /\ req' = [req EXCEPT ![r] = new]
          /\ new.pc = "answered" /\ new.user = req[r].user /\ new.status = status
    BY <1>1, AnswerType DEF PipelineInv
  <1>4. owner[r] # NoUser => upstream[r] = "executed" /\ owner[r] = req[r].user
    BY DEF PipelineInv, Progress
  <1> QED
    BY <1>1, <1>2, <1>3, <1>4, HandlerFrame

\* The limiter answers or raises.
LEMMA ReturnStep ==
    ASSUME PipelineInv, NEW r \in Requests, Refuse(r) \/ LimiterRaises(r) \/ Forward(r)
    PROVE  PipelineInv'
  <1>1. req[r].pc = "limiting" /\ req[r].user \in Users /\ upstream[r] = "unknown"
    BY DEF PipelineInv, LimiterType, RequestType, Progress, InFlight, Refuse, LimiterRaises,
           Forward, LimiterSays
  <1>2. /\ call' = [call EXCEPT ![r] = [pc |-> "idle"]]
        /\ UNCHANGED <<clock, bucket, blockedUntil, owner, upstream>>
    BY DEF Refuse, LimiterRaises, Forward, Limiter!Return, Limiter!Idle, tableVars
  <1>3. PICK new \in Handlers :
          /\ req' = [req EXCEPT ![r] = new]
          /\ new.pc \in {"answered", "forwarding"} /\ new.user = req[r].user
          /\ new.pc = "answered" => new.status # "upstream"
    <2>1. CASE Forward(r)
      BY <2>1, GotoType DEF PipelineInv, Forward
    <2>2. CASE Refuse(r)
      <3>1. Answer(r, "429") /\ "429" \in LocalAnswers
        BY <2>2 DEF Refuse, LocalAnswers
      <3> QED
        BY <3>1, AnswerType DEF PipelineInv
    <2>3. CASE LimiterRaises(r)
      <3>1. Answer(r, "500")
        BY <2>3 DEF LimiterRaises
      <3> QED
        BY <3>1, AnswerType DEF PipelineInv
    <2> QED
      BY <2>1, <2>2, <2>3
  <1>4. RequestType'
    BY <1>1, <1>2, <1>3 DEF PipelineInv, RequestType, InFlight
  <1>5. LimiterType'
    BY <1>1, <1>2, <1>3 DEF PipelineInv, RequestType, LimiterType
  <1>6. \A q \in Requests : Progress(q)'
    BY <1>1, <1>2, <1>3 DEF PipelineInv, RequestType, Progress, Answered
  <1> QED
    BY <1>4, <1>5, <1>6 DEF PipelineInv

\* The limiter's connection stalls or comes back.
LEMMA StallStep ==
    ASSUME PipelineInv, NEW r \in Requests, LimiterStalls(r) \/ LimiterResumes(r)
    PROVE  PipelineInv'
  <1>1. /\ WaitsForLimiter(r)
        /\ UNCHANGED <<clock, bucket, blockedUntil, call, owner, upstream>>
    BY DEF LimiterStalls, LimiterResumes, loggerVars, limiterVars
  <1>2. PICK new \in Handlers :
          /\ req' = [req EXCEPT ![r] = new]
          /\ new.pc \in {"limiting", "stalled"} /\ new.user = req[r].user
    BY GotoType DEF PipelineInv, LimiterStalls, LimiterResumes
  <1>3. RequestType'
    BY <1>1, <1>2 DEF PipelineInv, RequestType, InFlight
  <1>4. LimiterType'
    BY <1>1, <1>2 DEF PipelineInv, RequestType, LimiterType
  <1>5. \A q \in Requests : Progress(q)'
    BY <1>1, <1>2 DEF PipelineInv, RequestType, Progress, Answered
  <1> QED
    BY <1>3, <1>4, <1>5 DEF PipelineInv

\* The response is logged under the user of the request.
LEMMA LoggedStep ==
    ASSUME PipelineInv, NEW r \in Requests, UpstreamAnswers(r)
    PROVE  PipelineInv'
  <1>1. /\ Goto(r, "logging") /\ LogRequest(r, req[r].user)
        /\ req[r].pc = "forwarding" /\ upstream[r] = "executed"
        /\ UNCHANGED <<bucket, blockedUntil, call, upstream>>
    BY DEF UpstreamAnswers, limiterVars
  <1>2. PICK new \in Handlers :
          req' = [req EXCEPT ![r] = new] /\ new.pc = "logging" /\ new.user = req[r].user
    BY <1>1, GotoType DEF PipelineInv
  <1>3. req[r].user \in Users
    BY <1>1 DEF PipelineInv, RequestType, InFlight
  <1>4. /\ UNCHANGED clock
        /\ \A q \in Requests \ {r} : owner'[q] = owner[q]
        /\ owner'[r] # NoUser => owner'[r] = req[r].user
    <2>1. owner' = [owner EXCEPT ![r] = req[r].user] /\ UNCHANGED clock
      BY <1>1 DEF LogRequest
    <2>2. owner[r] # NoUser => owner[r] = req[r].user
      BY DEF PipelineInv, Progress
    <2> QED
      BY <2>1, <2>2
  <1> QED
    BY <1>1, <1>2, <1>3, <1>4, HandlerFrame

\* The limiter is asked.
LEMMA ReceiveStep ==
    ASSUME PipelineInv, NEW r \in Requests, NEW u \in Users, Receive(r, u)
    PROVE  PipelineInv'
  <1>1. /\ req[r].pc = "new" /\ call[r].pc = "idle"
        /\ call' = [call EXCEPT ![r] = [pc |-> "pending", user |-> u, since |-> clock]]
        /\ UNCHANGED <<clock, bucket, blockedUntil, owner, upstream>>
    BY DEF Receive, Limiter!Invoke, Limiter!Pending, tableVars
  <1>2. PICK new \in Handlers :
          req' = [req EXCEPT ![r] = new] /\ new.pc = "limiting" /\ new.user = u
    <2>1. req[r] \in Handlers
      BY DEF PipelineInv, RequestType
    <2>2. [req[r] EXCEPT !.pc = "limiting", !.user = u] \in Handlers
      BY <2>1 DEF Handlers
    <2>3. req' = [req EXCEPT ![r] = [req[r] EXCEPT !.pc = "limiting", !.user = u]]
      BY DEF Receive
    <2> QED
      BY <2>1, <2>2, <2>3 DEF Handlers
  <1>3. upstream[r] = "unknown" /\ owner[r] = NoUser
    BY <1>1 DEF PipelineInv, Progress
  <1>4. RequestType'
    BY <1>1, <1>2 DEF PipelineInv, RequestType, InFlight
  <1>5. LimiterType'
    BY <1>1, <1>2 DEF PipelineInv, RequestType, LimiterType
  <1>6. \A q \in Requests : Progress(q)'
    BY <1>1, <1>2, <1>3 DEF PipelineInv, RequestType, Progress, Answered
  <1> QED
    BY <1>4, <1>5, <1>6 DEF PipelineInv

\* The request goes out, and is executed.
LEMMA UpstreamStep ==
    ASSUME PipelineInv, NEW r \in Requests, Send(r) \/ UpstreamExecutes(r)
    PROVE  PipelineInv'
  <1>1. /\ UNCHANGED <<clock, bucket, blockedUntil, call, req, owner>>
        /\ \/ /\ req[r].pc = "forwarding" /\ upstream[r] = "unknown"
              /\ upstream' = [upstream EXCEPT ![r] = "sent"]
           \/ /\ upstream[r] = "sent"
              /\ upstream' = [upstream EXCEPT ![r] = "executed"]
    BY DEF Send, UpstreamExecutes, loggerVars, limiterVars
  <1>2. RequestType'
    BY <1>1 DEF PipelineInv, RequestType, InFlight
  <1>3. LimiterType'
    BY <1>1 DEF PipelineInv, LimiterType
  <1>4. \A q \in Requests : Progress(q)'
    BY <1>1 DEF PipelineInv, RequestType, Progress, Answered, LocalAnswers
  <1> QED
    BY <1>2, <1>3, <1>4 DEF PipelineInv

\* The limiter takes its decision.
LEMMA DecideStep ==
    ASSUME PipelineInv, NEW r \in Requests, LimiterDecides(r)
    PROVE  PipelineInv'
  <1>1. /\ Limiter!Refuse(r) \/ Limiter!Decide(r)
        /\ UNCHANGED <<owner, req, upstream>>
    BY DEF LimiterDecides, tableVars, pipelineVars
  <1>2. /\ bucket' \in [Users -> [tokens : 0..Capacity, lastRefill : Times]]
        /\ blockedUntil' \in [Users -> Nat]
        /\ DOMAIN call' = Requests
        /\ call[r].pc # "idle" /\ call'[r].pc = "answered"
        /\ \A q \in Requests \ {r} : call'[q] = call[q]
        /\ clock' = clock
    BY <1>1, DecidedType DEF PipelineInv
  <1>3. RequestType' /\ \A q \in Requests : Progress(q)'
    BY <1>1 DEF PipelineInv, RequestType, InFlight, Progress, Answered
  <1>4. LimiterType'
    BY <1>1, <1>2 DEF PipelineInv, LimiterType
  <1> QED
    BY <1>3, <1>4 DEF PipelineInv

\* The process or the store restarts, or time passes.
LEMMA WorldStep ==
    ASSUME PipelineInv, ProcessRestarts \/ StoreRestarts \/ GTick
    PROVE  PipelineInv'
  <1>1. CASE ProcessRestarts
    <2>1. /\ call' = [r \in Requests |-> [pc |-> "idle"]]
          /\ req' = [r \in Requests |-> IF InFlight(r) THEN [req[r] EXCEPT !.pc = "lost"] ELSE req[r]]
          /\ UNCHANGED <<clock, bucket, blockedUntil, owner, upstream>>
      BY <1>1 DEF ProcessRestarts, GatewayStops, Limiter!Idle
    <2>2. RequestType'
      BY <2>1 DEF PipelineInv, RequestType, InFlight, Handlers
    <2>3. \A r \in Requests : /\ req'[r].pc = IF InFlight(r) THEN "lost" ELSE req[r].pc
                              /\ req'[r].user = req[r].user /\ req'[r].status = req[r].status
      BY <2>1 DEF PipelineInv, RequestType, Handlers
    <2>4. LimiterType'
      BY <2>1, <2>3 DEF PipelineInv, LimiterType, InFlight
    <2>5. \A r \in Requests : Progress(r)'
      BY <2>1, <2>3 DEF PipelineInv, Progress, Answered, InFlight
    <2> QED
      BY <2>2, <2>4, <2>5 DEF PipelineInv
  <1>2. CASE StoreRestarts
    <2>1. /\ bucket' = [u \in Users |-> [tokens |-> Capacity, lastRefill |-> 0]]
          /\ blockedUntil' = [u \in Users |-> 0]
          /\ UNCHANGED <<clock, call, owner, req, upstream>>
      BY <1>2 DEF StoreRestarts, Limiter!Full, Limiter!NotBlocked, tableVars, pipelineVars
    <2>2. Capacity \in 0..Capacity /\ 0 \in Times
      BY BucketAssumption, LoggerAssumption DEF Times
    <2>3. LimiterType'
      BY <2>1, <2>2 DEF PipelineInv, LimiterType
    <2> QED
      BY <2>1, <2>3 DEF PipelineInv, RequestType, InFlight, Progress, Answered
  <1>3. CASE GTick
    <2>1. /\ clock' \in Times
          /\ UNCHANGED <<blockedUntil, call, owner, req, upstream>>
      BY <1>3, LoggerAssumption DEF PipelineInv, LimiterType, GTick, Tick, Times, pipelineVars
    <2>2. PICK gone \in SUBSET Users :
            bucket' = [u \in Users |-> IF u \in gone THEN [tokens |-> Capacity, lastRefill |-> 0]
                                     ELSE bucket[u]]
      BY <1>3 DEF GTick, Limiter!Tick, Limiter!Full
    <2>3. Capacity \in 0..Capacity /\ 0 \in Times
      BY BucketAssumption, LoggerAssumption DEF Times
    <2>4. LimiterType'
      BY <2>1, <2>2, <2>3 DEF PipelineInv, LimiterType
    <2> QED
      BY <2>1, <2>4 DEF PipelineInv, RequestType, InFlight, Progress, Answered
  <1> QED
    BY <1>1, <1>2, <1>3

\* Every step of the gateway keeps what is known of its requests.
LEMMA PipelineStep == PipelineInv /\ [GNext]_gatewayVars => PipelineInv'
  <1> SUFFICES ASSUME PipelineInv, [GNext]_gatewayVars PROVE PipelineInv'
    OBVIOUS
  <1>1. ASSUME NEW r \in Requests, HandlerStep(r) PROVE PipelineInv'
    BY <1>1, AnswerStep, ReturnStep, LoggedStep, UpstreamStep, DecideStep DEF HandlerStep
  <1>2. ASSUME NEW r \in Requests, LoggerThread(r) PROVE PipelineInv'
    <2>1. UNCHANGED <<clock, bucket, blockedUntil, call, req, upstream, owner>>
      BY <1>2, ThreadFrame DEF LoggerThread, limiterVars, pipelineVars
    <2> QED
      BY <2>1 DEF PipelineInv, RequestType, LimiterType, InFlight, Progress, Answered
  <1>3. CASE UNCHANGED gatewayVars
    <2>1. UNCHANGED <<clock, bucket, blockedUntil, call, req, upstream, owner>>
      BY <1>3 DEF gatewayVars, loggerVars, limiterVars, pipelineVars
    <2> QED
      BY <2>1 DEF PipelineInv, RequestType, LimiterType, InFlight, Progress, Answered
  <1> QED
    BY <1>1, <1>2, <1>3, AnswerStep, ReceiveStep, StallStep, UpstreamStep, WorldStep DEF GNext

-----------------------------------------------------------------------------
(* The limiter's tokens and the requests they were spent on.                *)

\* The requests of u that were admitted and may still be logged, or were.
Admitted(u) ==
    {r \in Requests :
       \/ call[r].pc = "answered" /\ call[r].verdict = "allowed" /\ call[r].user = u
       \/ req[r].pc = "forwarding" /\ req[r].user = u
       \/ owner[r] = u}

\* A limiter call is made for the user of its request.
CallerIsUser ==
    \A r \in Requests : WaitsForLimiter(r) => call[r].user = req[r].user

HistoryType == fresh \in [Users -> Nat] /\ regress \in [Users -> Nat]

\* What a bucket holds and what it gave out come from the full buckets u got and
\* from the refill of the time up to its last one.
UserLedger(u) ==
    /\ IsFiniteSet(Admitted(u))
    /\ bucket[u].lastRefill <= clock
    /\ bucket[u].tokens + Unit * Cardinality(Admitted(u))
         <= Capacity * (1 + fresh[u]) + Rate * (bucket[u].lastRefill + regress[u])

LedgerInv == CallerIsUser /\ HistoryType /\ \A u \in Users : UserLedger(u)

\* What a user can have been given in a state; the products are integers.
LEMMA BudgetType ==
    ASSUME NEW f \in Nat, NEW t \in Nat, NEW n \in Nat
    PROVE  /\ Capacity * (1 + f) \in Nat /\ Rate * t \in Nat /\ Unit * n \in Nat
           /\ Capacity * (1 + (f + 1)) = Capacity * (1 + f) + Capacity
           /\ Unit * (n + 1) = Unit * n + Unit
  <1>1. Capacity \in Nat /\ Rate \in Nat /\ Unit \in Nat
    BY BucketAssumption
  <1>2. Capacity * (1 + f) \in Nat /\ Rate * t \in Nat /\ Unit * n \in Nat
    BY <1>1, ProductNat
  <1>3. /\ Capacity * (1 + (f + 1)) = Capacity * (1 + f) + Capacity
        /\ Unit * (n + 1) = Unit * n + Unit
    BY <1>1
  <1> QED
    BY <1>2, <1>3

\* A decision, on time or with an old clock reading, spends what it refills.
LEMMA DecisionKeepsBudget ==
    ASSUME NEW tokens \in 0..Capacity, NEW last \in Nat, NEW now \in Nat,
           NEW f \in Nat, NEW back \in Nat, NEW n \in Nat, NEW m \in Nat,
           tokens + Unit * n <= Capacity * (1 + f) + Rate * (last + back),
           m <= IF HasToken(Refilled(tokens, last, now)) THEN n + 1 ELSE n
    PROVE  Spend(Refilled(tokens, last, now)) + Unit * m
             <= Capacity * (1 + f) + Rate * (now + (back + Elapsed(now, last)))
  <1> DEFINE level == Refilled(tokens, last, now)
             ahead == Elapsed(last, now)
             late == Elapsed(now, last)
  <1>0. last \in Int /\ now \in Int
    OBVIOUS
  <1>1. /\ level \in 0..Capacity
        /\ level <= tokens + Rate * ahead
    BY <1>0, RefilledRange, RefilledBound
  <1>2. ahead \in Nat /\ late \in Nat /\ now + late = last + ahead
    BY <1>0, ElapsedNat, ElapsedBalance
  <1> HIDE DEF level, ahead, late
  <1>3. /\ Capacity * (1 + f) \in Nat /\ Rate * (last + back) \in Nat
        /\ Rate * ahead \in Nat /\ Unit * n \in Nat /\ Unit * m \in Nat
    BY <1>2, BudgetType
  <1>4. Rate * (now + (back + late)) = Rate * (last + back) + Rate * ahead
    <2>1. now + (back + late) = (last + back) + ahead
      BY <1>2
    <2>2. Rate \in Int
      BY BucketAssumption
    <2> QED
      BY <2>1, <2>2, <1>2, Distribute
  <1>5. Spend(level) + Unit * m <= level + Unit * n
    <2>1. /\ Unit \in Nat /\ level \in Nat
          /\ Unit * (n + 1) = Unit * n + Unit
          /\ Unit * m <= Unit * (IF HasToken(level) THEN n + 1 ELSE n)
      <3>1. Unit \in Nat /\ level \in Nat /\ Unit * (n + 1) = Unit * n + Unit
        BY <1>1, BucketAssumption, BudgetType
      <3>2. PICK k \in Nat : k = IF HasToken(level) THEN n + 1 ELSE n
        OBVIOUS
      <3>3. m <= k
        BY <3>2 DEF level
      <3>4. PICK d \in Nat : k = m + d
        BY <3>3
      <3>5. Unit * k = Unit * m + Unit * d /\ Unit * d \in Nat /\ Unit * m \in Nat
        BY <3>1, <3>4, Distribute, ProductNat
      <3> QED
        BY <3>1, <3>2, <3>5
    <2>2. CASE HasToken(level)
      BY <2>1, <2>2, <1>3 DEF Spend
    <2>3. CASE ~HasToken(level)
      BY <2>1, <2>3, <1>3 DEF Spend
    <2> QED
      BY <2>2, <2>3
  <1>6. Spend(level) \in Nat /\ tokens \in Nat /\ level \in Nat
    BY <1>1, SpendRange, BucketAssumption
  <1> QED
    BY <1>1, <1>3, <1>4, <1>5, <1>6 DEF level, late

\* The ledger starts with full buckets and nothing admitted.
LEMMA LedgerInit == GInit => LedgerInv
  <1> SUFFICES ASSUME GInit PROVE LedgerInv
    OBVIOUS
  <1>1. CallerIsUser /\ HistoryType
    BY DEF GInit, CallerIsUser, HistoryType
  <1>2. ASSUME NEW u \in Users PROVE UserLedger(u)
    <2>1. Admitted(u) = {}
      BY LoggerAssumption DEF GInit, Init, Admitted, Limiter!Idle
    <2>2. /\ bucket[u].tokens = Capacity /\ bucket[u].lastRefill = 0
          /\ clock = 0 /\ fresh[u] = 0 /\ regress[u] = 0
      BY DEF GInit, Init, Limiter!Full
    <2>3. Capacity + Unit * 0 <= Capacity * (1 + 0) + Rate * (0 + 0)
      BY BucketAssumption
    <2> QED
      BY <2>1, <2>2, <2>3, FS_EmptySet DEF UserLedger
  <1> QED
    BY <1>1, <1>2 DEF LedgerInv

\* A step that leaves u's bucket and history alone and admits nobody.
LEMMA NothingSpent ==
    ASSUME LimiterType, LedgerInv, NEW u \in Users, clock' \in Nat, clock' >= clock,
           bucket'[u] = bucket[u], fresh'[u] = fresh[u], regress'[u] = regress[u],
           Admitted(u)' \subseteq Admitted(u)
    PROVE  UserLedger(u)'
  <1>1. /\ UserLedger(u) /\ bucket[u].tokens \in Nat /\ bucket[u].lastRefill \in Nat
        /\ clock \in Nat /\ fresh[u] \in Nat /\ regress[u] \in Nat
    BY BucketAssumption DEF LedgerInv, HistoryType, LimiterType, Times
  <1>2. /\ IsFiniteSet(Admitted(u)') /\ Cardinality(Admitted(u)') <= Cardinality(Admitted(u))
    BY <1>1, FS_Subset DEF UserLedger
  <1>3. PICK n \in Nat, m \in Nat :
          n = Cardinality(Admitted(u)) /\ m = Cardinality(Admitted(u)')
    BY <1>1, <1>2, FS_CardinalityType DEF UserLedger
  <1>4. PICK d \in Nat : n = m + d
    BY <1>2, <1>3
  <1>5. Unit * n = Unit * m + Unit * d /\ Unit * m \in Nat /\ Unit * d \in Nat
    BY <1>3, <1>4, Distribute, ProductNat, BucketAssumption
  <1>6. /\ Capacity * (1 + fresh[u]) \in Nat
        /\ Rate * (bucket[u].lastRefill + regress[u]) \in Nat
    <2>1. bucket[u].lastRefill + regress[u] \in Nat
      BY <1>1
    <2> QED
      BY <1>1, <1>3, <2>1, BudgetType
  <1>7. bucket[u].tokens + Unit * m
          <= Capacity * (1 + fresh[u]) + Rate * (bucket[u].lastRefill + regress[u])
    BY <1>1, <1>3, <1>5, <1>6 DEF UserLedger
  <1> QED
    BY <1>1, <1>2, <1>3, <1>7 DEF UserLedger

\* A bucket that is replaced by a full one has the capacity booked, and the time it
\* had been refilled for.
LEMMA BucketReplaced ==
    ASSUME LimiterType, LedgerInv, NEW u \in Users, clock' \in Nat, clock' >= clock,
           bucket'[u] = Limiter!Full, Recorded,
           Admitted(u)' = Admitted(u)
    PROVE  UserLedger(u)'
  <1>1. /\ UserLedger(u) /\ bucket[u].tokens \in 0..Capacity /\ bucket[u].lastRefill \in Nat
        /\ clock \in Nat /\ fresh[u] \in Nat /\ regress[u] \in Nat
    BY BucketAssumption DEF LedgerInv, HistoryType, LimiterType, Times
  <1>2. /\ regress'[u] = regress[u] + Elapsed(bucket'[u].lastRefill, bucket[u].lastRefill)
        /\ fresh'[u] = fresh[u] + IF bucket'[u] = Limiter!Full /\ bucket[u] # Limiter!Full
                                  THEN 1 ELSE 0
    BY DEF Recorded
  <1>3. bucket'[u].tokens = Capacity /\ bucket'[u].lastRefill = 0
    BY DEF Limiter!Full
  <1>4. regress'[u] = regress[u] + bucket[u].lastRefill
    BY <1>1, <1>2, <1>3 DEF Elapsed
  <1>5. Cardinality(Admitted(u)) \in Nat
    BY <1>1, FS_CardinalityType DEF UserLedger
  <1>6. CASE bucket[u] = Limiter!Full
    <2>1. fresh'[u] = fresh[u] /\ bucket'[u] = bucket[u] /\ regress'[u] = regress[u]
      BY <1>1, <1>2, <1>3, <1>4, <1>6 DEF Limiter!Full
    <2> QED
      BY <1>1, <2>1 DEF UserLedger
  <1>7. CASE bucket[u] # Limiter!Full
    <2>1. fresh'[u] = fresh[u] + 1
      BY <1>1, <1>2, <1>7
    <2>2. PICK n \in Nat, f \in Nat, t \in Nat :
            /\ n = Cardinality(Admitted(u)) /\ f = fresh[u]
            /\ t = bucket[u].lastRefill + regress[u]
      BY <1>1, <1>5
    <2>3. /\ Capacity * (1 + f) \in Nat /\ Rate * t \in Nat /\ Unit * n \in Nat
          /\ Capacity * (1 + (f + 1)) = Capacity * (1 + f) + Capacity
      BY BudgetType
    <2>4. bucket[u].tokens + Unit * n <= Capacity * (1 + f) + Rate * t
      BY <1>1, <2>2 DEF UserLedger
    <2>5. Capacity + Unit * n <= Capacity * (1 + (f + 1)) + Rate * t
      BY <1>1, <2>3, <2>4, BucketAssumption
    <2>6. 0 + regress'[u] = t
      BY <1>1, <1>4, <2>2
    <2> QED
      BY <1>1, <1>3, <2>1, <2>2, <2>5, <2>6 DEF UserLedger
  <1> QED
    BY <1>6, <1>7

\* A limiter that decides spends a token of the one it admits, if it admits one.
LEMMA DecideSpends ==
    ASSUME PipelineInv, LedgerInv, NEW r \in Requests, Limiter!Decide(r), Recorded,
           UNCHANGED <<owner, req>>
    PROVE  \A u \in Users : UserLedger(u)'
  <1> USE DEF PipelineInv
  <1>1. PICK w \in Users :
          w = call[r].user /\ call[r].since \in Times /\ call[r].pc = "pending"
    BY DEF Limiter!Decide, LimiterType
  <1>2. PICK now \in Limiter!Instants(r) :
          LET level == Limiter!Refilled(bucket[w].tokens, bucket[w].lastRefill, now)
          IN  /\ bucket' = [bucket EXCEPT ![w] =
                              [tokens |-> Limiter!Spend(level), lastRefill |-> now]]
              /\ call' = [call EXCEPT ![r] =
                            Limiter!Answered(w, IF Limiter!HasToken(level) THEN "allowed" ELSE "denied",
                                     Limiter!WholeTokens(Limiter!Spend(level)))]
    BY <1>1 DEF Limiter!Decide
  <1>3. now \in Nat /\ now <= clock /\ clock \in Nat /\ clock' = clock
    BY <1>1, LoggerAssumption DEF Limiter!Instants, Times, LimiterType, Limiter!Decide
  <1> DEFINE level == Refilled(bucket[w].tokens, bucket[w].lastRefill, now)
  <1>4. /\ bucket'[w] = [tokens |-> Spend(level), lastRefill |-> now]
        /\ \A u \in Users \ {w} : bucket'[u] = bucket[u]
    BY <1>1, <1>2 DEF LimiterType, Limiter!Refilled, Limiter!Elapsed, Limiter!Spend,
                      Limiter!HasToken, Refilled, Elapsed, Spend, HasToken
  <1>5. /\ call'[r].user = w
        /\ call'[r].verdict = "allowed" => HasToken(level)
        /\ \A q \in Requests \ {r} : call'[q] = call[q]
    BY <1>1, <1>2 DEF LimiterType, Limiter!Answered, Limiter!Refilled, Limiter!Elapsed,
                      Limiter!HasToken, Refilled, Elapsed, HasToken
  <1>6. \A u \in Users :
          /\ fresh'[u] \in Nat /\ fresh'[u] >= fresh[u] /\ fresh[u] \in Nat
          /\ regress[u] \in Nat /\ bucket[u].lastRefill \in Nat
          /\ regress'[u] = regress[u] + Elapsed(bucket'[u].lastRefill, bucket[u].lastRefill)
    BY DEF Recorded, LedgerInv, HistoryType, LimiterType, Times
  <1> HIDE DEF level
  <1>7. ASSUME NEW u \in Users \ {w} PROVE UserLedger(u)'
    <2>1. Admitted(u)' \subseteq Admitted(u)
      BY <1>5 DEF Admitted
    <2>2. fresh'[u] = fresh[u] /\ regress'[u] = regress[u]
      BY <1>4, <1>6, <1>7 DEF Recorded, Elapsed
    <2>3. clock' \in Nat /\ clock' >= clock
      BY <1>3
    <2> QED
      BY <1>4, <2>1, <2>2, <2>3, NothingSpent
  <1>8. UserLedger(w)'
    <2>1. UserLedger(w)
      BY <1>1 DEF LedgerInv
    <2>2. /\ Admitted(w)' \subseteq Admitted(w) \cup {r}
          /\ ~HasToken(level) => Admitted(w)' \subseteq Admitted(w)
      BY <1>5 DEF Admitted
    <2>3. /\ IsFiniteSet(Admitted(w) \cup {r})
          /\ \/ Cardinality(Admitted(w) \cup {r}) = Cardinality(Admitted(w)) + 1
             \/ Cardinality(Admitted(w) \cup {r}) = Cardinality(Admitted(w))
      BY <2>1, FS_AddElement, Zenon DEF UserLedger
    <2>4. /\ IsFiniteSet(Admitted(w)')
          /\ Cardinality(Admitted(w)') <= Cardinality(Admitted(w) \cup {r})
          /\ ~HasToken(level) => Cardinality(Admitted(w)') <= Cardinality(Admitted(w))
      BY <2>1, <2>2, <2>3, FS_Subset DEF UserLedger
    <2>5. PICK n \in Nat, m \in Nat :
            n = Cardinality(Admitted(w)) /\ m = Cardinality(Admitted(w)')
      BY <2>1, <2>4, FS_CardinalityType DEF UserLedger
    <2>6. m <= IF HasToken(level) THEN n + 1 ELSE n
      <3>1. Cardinality(Admitted(w) \cup {r}) <= n + 1
        BY <2>3, <2>5
      <3>2. Cardinality(Admitted(w) \cup {r}) \in Nat
        BY <2>3, FS_CardinalityType
      <3> QED
        BY <2>4, <2>5, <3>1, <3>2
    <2>7. PICK f \in Nat, g \in Nat, back \in Nat, last \in Nat :
            /\ f = fresh[w] /\ g = fresh'[w] /\ g >= f
            /\ back = regress[w] /\ last = bucket[w].lastRefill
      BY <1>1, <1>6
    <2>8. bucket[w].tokens \in 0..Capacity
      BY <1>1 DEF LimiterType
    <2>9. bucket[w].tokens + Unit * n <= Capacity * (1 + f) + Rate * (last + back)
      BY <2>1, <2>5, <2>7 DEF UserLedger
    <2>10. Spend(level) + Unit * m <= Capacity * (1 + f) + Rate * (now + (back + Elapsed(now, last)))
      BY <1>3, <2>5, <2>6, <2>7, <2>8, <2>9, DecisionKeepsBudget DEF level
    <2>11. Capacity * (1 + f) <= Capacity * (1 + g)
      <3>0. g = f + (g - f) /\ g - f \in Nat
        BY <2>7
      <3>1. PICK d \in Nat : g = f + d
        BY <3>0
      <3>2. Capacity * ((1 + f) + d) = Capacity * (1 + f) + Capacity * d /\ 1 + g = (1 + f) + d
        BY <3>1, Distribute, BucketAssumption
      <3>3. Capacity * d \in Nat /\ Capacity * (1 + f) \in Nat
        BY ProductNat, BudgetType, BucketAssumption
      <3> QED
        BY <3>2, <3>3
    <2>12. /\ bucket'[w].tokens = Spend(level) /\ bucket'[w].lastRefill = now
           /\ regress'[w] = back + Elapsed(now, last)
      BY <1>1, <1>4, <1>6, <2>7
    <2>13. /\ Spend(level) + Unit * m \in Int
           /\ Capacity * (1 + f) \in Int /\ Capacity * (1 + g) \in Int
           /\ Rate * (now + (back + Elapsed(now, last))) \in Int
      <3>0. now \in Int /\ last \in Int
        BY <1>3, <2>7
      <3>1. Elapsed(now, last) \in Nat
        BY <3>0, ElapsedNat
      <3>2. now + (back + Elapsed(now, last)) \in Nat
        BY <1>3, <3>1
      <3>3. level \in 0..Capacity
        BY <1>3, <2>7, <2>8, RefilledRange DEF level
      <3>4. Spend(level) \in Nat
        BY <3>3, SpendRange, BucketAssumption
      <3>5. Capacity * (1 + f) \in Nat /\ Capacity * (1 + g) \in Nat /\ Unit * m \in Nat
        BY BudgetType
      <3>6. Rate * (now + (back + Elapsed(now, last))) \in Nat
        BY <3>2, ProductNat, BucketAssumption
      <3> QED
        BY <3>4, <3>5, <3>6
    <2>14. Spend(level) + Unit * m <= Capacity * (1 + g) + Rate * (now + (back + Elapsed(now, last)))
      BY <2>10, <2>11, <2>13
    <2> QED
      BY <1>3, <2>4, <2>5, <2>7, <2>12, <2>14 DEF UserLedger
  <1> QED
    BY <1>7, <1>8

\* A step of a handler that does not take a decision of the limiter.
LEMMA QuietLedger ==
    ASSUME PipelineInv, LedgerInv, CallerIsUser',
           UNCHANGED <<clock, bucket, fresh, regress>>,
           \A u \in Users : Admitted(u)' \subseteq Admitted(u)
    PROVE  LedgerInv'
  <1>1. clock' \in Nat /\ clock' >= clock
    BY LoggerAssumption DEF PipelineInv, LimiterType, Times
  <1>2. \A u \in Users : UserLedger(u)'
    BY <1>1, NothingSpent DEF PipelineInv
  <1> QED
    BY <1>2 DEF LedgerInv, HistoryType

\* What Recorded books is a natural number.
LEMMA RecordedType ==
    ASSUME PipelineInv, PipelineInv', LedgerInv, Recorded
    PROVE  HistoryType'
  <1>1. ASSUME NEW u \in Users
        PROVE  Elapsed(bucket'[u].lastRefill, bucket[u].lastRefill) \in Nat
    <2>1. bucket'[u].lastRefill \in Int /\ bucket[u].lastRefill \in Int
      BY DEF PipelineInv, LimiterType, Times
    <2> QED
      BY <2>1, ElapsedNat
  <1>2. regress' \in [Users -> Nat]
    BY <1>1 DEF LedgerInv, HistoryType, Recorded
  <1>3. fresh' \in [Users -> Nat]
    BY DEF LedgerInv, HistoryType, Recorded
  <1> QED
    BY <1>2, <1>3 DEF HistoryType

\* An answered request is at its end, the others are where they were.
LEMMA AnswerEnds ==
    ASSUME PipelineInv, NEW r \in Requests, NEW status, Answer(r, status)
    PROVE  req'[r].pc = "answered" /\ \A q \in Requests \ {r} : req'[q] = req[q]
  <1>1. req' = [req EXCEPT ![r] = [req[r] EXCEPT !.pc = "answered", !.status = status]]
    BY DEF Answer
  <1> QED
    BY <1>1 DEF PipelineInv, RequestType, Handlers

\* A handler moves one request on, and none into the admitted ones.
LEMMA HandlerLedger ==
    ASSUME PipelineInv, LedgerInv, NEW r \in Requests,
           \/ Unauthorized(r) \/ Verify(r) \/ LoggerRaises(r) \/ ForwardFails(r) \/ Respond(r)
           \/ Send(r) \/ UpstreamExecutes(r) \/ LoggerThread(r)
    PROVE  LedgerInv'
  <1>1. /\ UNCHANGED <<clock, bucket, call, owner, fresh, regress>>
        /\ \A q \in Requests : \/ req'[q] = req[q]
                               \/ req'[q].pc = "answered"
    <2>1. CASE Unauthorized(r) \/ Verify(r) \/ LoggerRaises(r) \/ ForwardFails(r) \/ Respond(r)
      <3>1. \E status : Answer(r, status)
        BY <2>1, Zenon DEF Unauthorized, Verify, LoggerRaises, ForwardFails, Respond
      <3>2. UNCHANGED <<clock, bucket, call, owner, fresh, regress>>
        BY <2>1 DEF Unauthorized, Verify, LoggerRaises, ForwardFails, Respond, loggerVars,
                    limiterVars, historyVars
      <3> QED
        BY <3>1, <3>2, AnswerEnds
    <2>2. CASE Send(r) \/ UpstreamExecutes(r)
      BY <2>2 DEF Send, UpstreamExecutes, loggerVars, limiterVars, historyVars
    <2>3. CASE LoggerThread(r)
      BY <2>3, ThreadFrame DEF LoggerThread, limiterVars, pipelineVars, historyVars
    <2> QED
      BY <2>1, <2>2, <2>3
  <1>2. \A u \in Users : Admitted(u)' \subseteq Admitted(u)
    BY <1>1 DEF Admitted
  <1>3. CallerIsUser'
    BY <1>1 DEF LedgerInv, CallerIsUser
  <1> QED
    BY <1>1, <1>2, <1>3, QuietLedger

\* The limiter is asked or its answer is taken: only a call that was admitted is
\* forwarded, for the user it was made for.
LEMMA CallLedger ==
    ASSUME PipelineInv, LedgerInv, NEW r \in Requests,
           Refuse(r) \/ LimiterRaises(r) \/ Forward(r) \/ \E u \in Users : Receive(r, u)
    PROVE  LedgerInv'
  <1>1. UNCHANGED <<clock, bucket, owner, fresh, regress>>
    BY DEF Refuse, LimiterRaises, Forward, Receive, Limiter!Return, Limiter!Invoke,
           tableVars, historyVars
  <1>2. /\ \A q \in Requests \ {r} : req'[q] = req[q] /\ call'[q] = call[q]
        /\ \/ /\ call'[r].pc = "idle" /\ req'[r].pc = "answered"
           \/ /\ call'[r].pc = "idle" /\ req'[r].pc = "forwarding"
              /\ req'[r].user = req[r].user
              /\ call[r].pc = "answered" /\ call[r].verdict = "allowed"
              /\ call[r].user = req[r].user
           \/ /\ call'[r].pc = "pending" /\ req'[r].pc = "limiting"
              /\ call'[r].user = req'[r].user
    <2>1. CASE Refuse(r)
      <3>1. req'[r].pc = "answered" /\ \A q \in Requests \ {r} : req'[q] = req[q]
        BY <2>1, AnswerEnds DEF Refuse
      <3> QED
        BY <2>1, <3>1 DEF Refuse, Limiter!Return, Limiter!Idle, PipelineInv, LimiterType
    <2>2. CASE LimiterRaises(r)
      <3>1. req'[r].pc = "answered" /\ \A q \in Requests \ {r} : req'[q] = req[q]
        BY <2>2, AnswerEnds DEF LimiterRaises
      <3> QED
        BY <2>2, <3>1 DEF LimiterRaises, Limiter!Return, Limiter!Idle, PipelineInv, LimiterType
    <2>3. CASE Forward(r)
      BY <2>3 DEF Forward, Goto, LimiterSays, Limiter!Return, Limiter!Idle, PipelineInv,
                  RequestType, LimiterType, Handlers, LedgerInv, CallerIsUser
    <2>4. CASE \E u \in Users : Receive(r, u)
      <3>1. PICK u \in Users :
              /\ call' = [call EXCEPT ![r] = [pc |-> "pending", user |-> u, since |-> clock]]
              /\ req' = [req EXCEPT ![r] = [req[r] EXCEPT !.pc = "limiting", !.user = u]]
        BY <2>4 DEF Receive, Limiter!Invoke, Limiter!Pending
      <3>2. /\ req'[r].pc = "limiting" /\ req'[r].user = u
            /\ \A q \in Requests \ {r} : req'[q] = req[q]
        BY <3>1 DEF PipelineInv, RequestType, Handlers
      <3>3. /\ call'[r].pc = "pending" /\ call'[r].user = u
            /\ \A q \in Requests \ {r} : call'[q] = call[q]
        BY <3>1 DEF PipelineInv, LimiterType
      <3> QED
        BY <3>2, <3>3
    <2> QED
      BY <2>1, <2>2, <2>3, <2>4
  <1>3. \A u \in Users : Admitted(u)' \subseteq Admitted(u)
    BY <1>1, <1>2 DEF Admitted
  <1>4. CallerIsUser'
    BY <1>2 DEF LedgerInv, CallerIsUser
  <1> QED
    BY <1>1, <1>3, <1>4, QuietLedger

\* A stall admits nobody.
LEMMA StallLedger ==
    ASSUME PipelineInv, LedgerInv, NEW r \in Requests, LimiterStalls(r) \/ LimiterResumes(r)
    PROVE  LedgerInv'
  <1>1. /\ WaitsForLimiter(r)
        /\ UNCHANGED <<clock, bucket, call, owner, fresh, regress>>
    BY DEF LimiterStalls, LimiterResumes, loggerVars, limiterVars, historyVars
  <1>2. PICK new \in Handlers :
          /\ req' = [req EXCEPT ![r] = new]
          /\ new.pc \in {"limiting", "stalled"} /\ new.user = req[r].user
    BY GotoType DEF PipelineInv, LimiterStalls, LimiterResumes
  <1>3. \A u \in Users : Admitted(u)' \subseteq Admitted(u)
    BY <1>1, <1>2 DEF PipelineInv, RequestType, Admitted
  <1>4. CallerIsUser'
    BY <1>1, <1>2 DEF PipelineInv, RequestType, LedgerInv, CallerIsUser
  <1> QED
    BY <1>1, <1>3, <1>4, QuietLedger

\* A request that is logged had been admitted.
LEMMA LogLedger ==
    ASSUME PipelineInv, LoggerInv, LedgerInv, NEW r \in Requests, UpstreamAnswers(r)
    PROVE  LedgerInv'
  <1>1. /\ UNCHANGED <<clock, bucket, call, fresh, regress>>
        /\ req[r].pc = "forwarding"
        /\ owner' = [owner EXCEPT ![r] = req[r].user]
        /\ req' = [req EXCEPT ![r].pc = "logging"]
    BY DEF UpstreamAnswers, LogRequest, Goto, limiterVars, historyVars
  <1>2. req'[r].pc = "logging" /\ \A q \in Requests \ {r} : req'[q] = req[q]
    BY <1>1 DEF PipelineInv, RequestType, Handlers
  <1>3. \A q \in Requests : owner'[q] = IF q = r THEN req[r].user ELSE owner[q]
    BY <1>1 DEF LoggerInv, TypeOK
  <1>4. \A u \in Users : Admitted(u)' \subseteq Admitted(u)
    BY <1>1, <1>2, <1>3 DEF Admitted
  <1>5. CallerIsUser'
    BY <1>1, <1>2 DEF LedgerInv, CallerIsUser
  <1> QED
    BY <1>1, <1>4, <1>5, QuietLedger

\* Stores and processes may restart and time may pass.
LEMMA WorldLedger ==
    ASSUME PipelineInv, PipelineInv', LedgerInv, ProcessRestarts \/ StoreRestarts \/ GTick
    PROVE  LedgerInv'
  <1> USE DEF PipelineInv
  <1>1. CASE ProcessRestarts
    <2>1. /\ UNCHANGED <<clock, bucket, owner, fresh, regress>>
          /\ \A r \in Requests : call'[r].pc = "idle"
          /\ req' = [r \in Requests |-> IF InFlight(r) THEN [req[r] EXCEPT !.pc = "lost"] ELSE req[r]]
      BY <1>1 DEF ProcessRestarts, GatewayStops, Limiter!Idle, historyVars
    <2>2. \A r \in Requests : req'[r].pc \notin {"limiting", "stalled", "forwarding"}
      BY <2>1 DEF InFlight, RequestType, Handlers
    <2>3. \A u \in Users : Admitted(u)' \subseteq Admitted(u)
      BY <2>1, <2>2 DEF Admitted
    <2>4. CallerIsUser'
      BY <2>2 DEF CallerIsUser
    <2> QED
      BY <2>1, <2>3, <2>4, QuietLedger
  <1>2. CASE StoreRestarts \/ GTick
    <2>1. Recorded /\ UNCHANGED <<call, owner, req>>
      BY <1>2 DEF StoreRestarts, GTick, Tick, tableVars, pipelineVars
    <2>2. clock' \in Nat /\ clock' >= clock
      BY <1>2, LoggerAssumption DEF StoreRestarts, GTick, Tick, LimiterType, Times
    <2>3. \A u \in Users : bucket'[u] = Limiter!Full \/ bucket'[u] = bucket[u]
      BY <1>2 DEF StoreRestarts, GTick, Limiter!Tick
    <2>4. \A u \in Users : Admitted(u)' = Admitted(u)
      BY <2>1 DEF Admitted
    <2>5. ASSUME NEW u \in Users, bucket'[u] = bucket[u] PROVE UserLedger(u)'
      <3>1. bucket[u].lastRefill \in Nat /\ fresh[u] \in Nat /\ regress[u] \in Nat
        BY DEF LimiterType, Times, LedgerInv, HistoryType
      <3>2. fresh'[u] = fresh[u] /\ regress'[u] = regress[u]
        BY <2>1, <2>5, <3>1 DEF Recorded, Elapsed
      <3> QED
        BY <2>2, <2>4, <2>5, <3>2, NothingSpent
    <2>6. ASSUME NEW u \in Users, bucket'[u] = Limiter!Full PROVE UserLedger(u)'
      BY <2>1, <2>2, <2>4, <2>6, BucketReplaced
    <2>7. HistoryType'
      BY <2>1, RecordedType
    <2>8. CallerIsUser'
      BY <2>1 DEF CallerIsUser, LedgerInv
    <2> QED
      BY <2>3, <2>5, <2>6, <2>7, <2>8 DEF LedgerInv
  <1> QED
    BY <1>1, <1>2

\* The limiter answers: a refusal spends nothing, a decision what it gives.
LEMMA DecideLedger ==
    ASSUME PipelineInv, PipelineInv', LedgerInv, NEW r \in Requests, LimiterDecides(r)
    PROVE  LedgerInv'
  <1>1. Recorded /\ UNCHANGED <<owner, req>>
    BY DEF LimiterDecides, tableVars, pipelineVars
  <1>2. HistoryType'
    BY <1>1, RecordedType
  <1>3. CallerIsUser'
    <2>1. /\ call'[r].user = call[r].user
          /\ \A q \in Requests \ {r} : call'[q] = call[q]
      <3>1. \E verdict, left :
              call' = [call EXCEPT ![r] = Limiter!Answered(call[r].user, verdict, left)]
        BY DEF LimiterDecides, Limiter!Refuse, Limiter!Decide
      <3> QED
        BY <3>1 DEF Limiter!Answered, PipelineInv, LimiterType
    <2> QED
      BY <1>1, <2>1 DEF CallerIsUser, LedgerInv
  <1>4. ASSUME Limiter!Refuse(r), NEW u \in Users PROVE UserLedger(u)'
    <2>1. /\ UNCHANGED <<clock, bucket>>
          /\ call'[r].verdict = "blocked"
          /\ \A q \in Requests \ {r} : call'[q] = call[q]
      BY <1>4 DEF Limiter!Refuse, Limiter!Answered, PipelineInv, LimiterType
    <2>2. Admitted(u)' \subseteq Admitted(u)
      BY <1>1, <2>1 DEF Admitted
    <2>3. bucket[u].lastRefill \in Nat /\ fresh[u] \in Nat /\ regress[u] \in Nat
          /\ clock \in Nat
      BY LoggerAssumption DEF PipelineInv, LimiterType, Times, LedgerInv, HistoryType
    <2>4. fresh'[u] = fresh[u] /\ regress'[u] = regress[u]
      BY <1>1, <2>1, <2>3 DEF Recorded, Elapsed
    <2> QED
      BY <2>1, <2>2, <2>3, <2>4, NothingSpent DEF PipelineInv
  <1>5. ASSUME Limiter!Decide(r) PROVE \A u \in Users : UserLedger(u)'
    BY <1>1, <1>5, DecideSpends
  <1>6. Limiter!Refuse(r) \/ Limiter!Decide(r)
    BY DEF LimiterDecides
  <1> QED
    BY <1>2, <1>3, <1>4, <1>5, <1>6 DEF LedgerInv

\* Every step of the gateway keeps the ledger.
LEMMA LedgerStep ==
    PipelineInv /\ PipelineInv' /\ LoggerInv /\ LedgerInv /\ [GNext]_gatewayVars => LedgerInv'
  <1> SUFFICES ASSUME PipelineInv, PipelineInv', LoggerInv, LedgerInv, [GNext]_gatewayVars
               PROVE  LedgerInv'
    OBVIOUS
  <1>1. ASSUME NEW r \in Requests, HandlerStep(r) PROVE LedgerInv'
    BY <1>1, HandlerLedger, CallLedger, LogLedger, DecideLedger DEF HandlerStep
  <1>2. CASE UNCHANGED gatewayVars
    <2>1. UNCHANGED <<clock, bucket, call, req, owner, fresh, regress>>
      BY <1>2 DEF gatewayVars, loggerVars, limiterVars, pipelineVars, historyVars
    <2>2. CallerIsUser' /\ \A u \in Users : Admitted(u)' \subseteq Admitted(u)
      BY <2>1 DEF LedgerInv, CallerIsUser, Admitted
    <2> QED
      BY <2>1, <2>2, QuietLedger
  <1> QED
    BY <1>1, <1>2, HandlerLedger, CallLedger, StallLedger, WorldLedger DEF GNext

\* From the budget over the admitted and the logged requests to the counters.
LEMMA ChainOfBounds ==
    ASSUME NEW total \in Nat, NEW l \in Nat, NEW n \in Nat, NEW budget \in Nat,
           total <= MaxWrites * l, l <= n, Unit * n <= budget
    PROVE  Unit * total <= MaxWrites * budget
  <1>1. Unit \in Nat /\ MaxWrites \in Nat /\ MaxWrites * l \in Nat /\ MaxWrites * n \in Nat
    BY LoggerAssumption, BucketAssumption, ProductNat DEF MaxWrites
  <1>2. total <= MaxWrites * n
    <2>1. n - l \in Nat /\ n = l + (n - l)
      OBVIOUS
    <2>2. MaxWrites * (l + (n - l)) = MaxWrites * l + MaxWrites * (n - l)
          /\ MaxWrites * (n - l) \in Nat
      BY <1>1, <2>1, Distribute, ProductNat
    <2> QED
      BY <1>1, <2>1, <2>2
  <1>3. Unit * total <= Unit * (MaxWrites * n)
    <2>1. PICK p \in Nat : p = MaxWrites * n
      BY <1>1
    <2>2. p - total \in Nat /\ p = total + (p - total)
      BY <1>2, <2>1
    <2>3. Unit * (total + (p - total)) = Unit * total + Unit * (p - total)
          /\ Unit * (p - total) \in Nat /\ Unit * total \in Nat
      BY <1>1, <2>2, Distribute, ProductNat
    <2>4. Unit * total <= Unit * p
      BY <2>2, <2>3
    <2> QED
      BY <2>1, <2>4
  <1>4. MaxWrites * (Unit * n) <= MaxWrites * budget
    <2>1. PICK p \in Nat : p = Unit * n
      BY <1>1, ProductNat
    <2>2. budget - p \in Nat /\ budget = p + (budget - p)
      BY <2>1
    <2>3. MaxWrites * (p + (budget - p)) = MaxWrites * p + MaxWrites * (budget - p)
          /\ MaxWrites * (budget - p) \in Nat /\ MaxWrites * p \in Nat
      BY <1>1, <2>2, Distribute, ProductNat
    <2>4. MaxWrites * p <= MaxWrites * budget
      BY <2>2, <2>3
    <2> QED
      BY <2>1, <2>4
  <1>5. Unit * (MaxWrites * n) = MaxWrites * (Unit * n)
    BY <1>1
  <1>6. /\ Unit * total \in Nat /\ MaxWrites * budget \in Nat
        /\ Unit * (MaxWrites * n) \in Nat
    BY <1>1, ProductNat
  <1> QED
    BY <1>3, <1>4, <1>5, <1>6

-----------------------------------------------------------------------------
(* The gateway implements the logger: whatever the pipeline does, the       *)
(* tables see a step of RequestLogger or nothing.                           *)

\* A step of the pipeline is one of the logger, or leaves it alone.
LEMMA PipelineLogs == PipelineInv /\ [GNext]_gatewayVars => [Next]_loggerVars
  <1> SUFFICES ASSUME PipelineInv, [GNext]_gatewayVars PROVE [Next]_loggerVars
    OBVIOUS
  <1>1. ASSUME NEW r \in Requests, UpstreamAnswers(r) PROVE Next
    <2>1. LogRequest(r, req[r].user) /\ req[r].user \in Users
      BY <1>1 DEF UpstreamAnswers, PipelineInv, RequestType, InFlight
    <2> QED
      BY <2>1 DEF Next
  <1>2. ASSUME NEW r \in Requests, LoggerThread(r) PROVE Next
    BY <1>2 DEF LoggerThread, Next
  <1>3. ASSUME NEW r \in Requests,
               Unauthorized(r) \/ Verify(r) \/ LoggerRaises(r) \/ ForwardFails(r) \/ Respond(r)
                 \/ Send(r) \/ UpstreamExecutes(r) \/ LimiterStalls(r) \/ LimiterResumes(r)
        PROVE  UNCHANGED loggerVars
    BY <1>3 DEF LimiterStalls, LimiterResumes, Unauthorized, Verify, LoggerRaises, ForwardFails, Respond, Send, UpstreamExecutes
  <1>4. ASSUME NEW r \in Requests, Refuse(r) \/ LimiterRaises(r) \/ Forward(r)
                 \/ \E u \in Users : Receive(r, u)
        PROVE  UNCHANGED loggerVars
    BY <1>4 DEF Refuse, LimiterRaises, Forward, Receive, Limiter!Return, Limiter!Invoke,
                tableVars, loggerVars
  <1>5. ASSUME NEW r \in Requests, LimiterDecides(r) PROVE UNCHANGED loggerVars
    BY <1>5 DEF LimiterDecides, Limiter!Refuse, Limiter!Decide, tableVars, loggerVars
  <1>6. CASE ProcessRestarts
    BY <1>6 DEF ProcessRestarts, Next
  <1>7. CASE StoreRestarts
    BY <1>7 DEF StoreRestarts, tableVars, loggerVars
  <1>8. CASE GTick
    BY <1>8 DEF GTick, Next
  <1>9. CASE UNCHANGED gatewayVars
    BY <1>9 DEF gatewayVars
  <1> QED
    BY <1>1, <1>2, <1>3, <1>4, <1>5, <1>6, <1>7, <1>8, <1>9 DEF GNext, HandlerStep

\* What the pipeline knows of its requests holds in every reachable state.
LEMMA PipelineHolds == GSpec => []PipelineInv
  BY PipelineInit, PipelineStep, PTL DEF GSpec

\* The gateway uses the logger as its specification says: each request is logged at
\* most once, under one user, and only a stop of the process ends its threads early.
THEOREM GatewayImplementsLogger == GSpec => Spec
  <1>1. GInit => Init
    BY DEF GInit
  <1> QED
    BY <1>1, PipelineHolds, PipelineLogs, PTL DEF GSpec, Spec

\* One request leaves at most one raw row, whatever is lost and retried, for any
\* number of retries, concurrent requests and users.
THEOREM OneRow == GSpec => []OneRowPerRequest
  <1>1. Spec => []LoggerInv
    BY LoggerInit, LoggerStep, PTL DEF Spec
  <1> QED
    BY <1>1, RowsCounted, GatewayImplementsLogger, PTL

\* A user's counters hold his acknowledged requests, and no more than MaxWrites
\* times his logged ones: whatever writes are lost, repeated or given up, and however
\* the threads of different requests interleave.
THEOREM CountsWithin == GSpec => []CountsWithinBounds
  <1>1. Spec => [](LoggerInv /\ CountsInv)
    BY LoggerInit, LoggerStep, CountsInit, CountsStep, PTL DEF Spec
  <1> QED
    BY <1>1, CountsBounded, GatewayImplementsLogger, PTL

\* The counters of a user are within what the limiter can have admitted: the chain
\* from the token bucket over the pipeline to the retried writes of the log.
THEOREM CountedAdmitted == GSpec => []CountedIsAdmitted
  <1>1. Spec => [](LoggerInv /\ CountsInv)
    BY LoggerInit, LoggerStep, CountsInit, CountsStep, PTL DEF Spec
  <1>2. GSpec => []LedgerInv
    BY <1>1, PipelineHolds, GatewayImplementsLogger, LedgerInit, LedgerStep, PTL DEF GSpec
  <1>3. PipelineInv /\ LoggerInv /\ CountsInv /\ LedgerInv => CountedIsAdmitted
    <2> SUFFICES ASSUME PipelineInv, LoggerInv, CountsInv, LedgerInv, NEW u \in Users
                 PROVE  Unit * Total(u) <=
                          MaxWrites * (Capacity * (1 + fresh[u]) + Rate * (clock + regress[u]))
      BY DEF CountedIsAdmitted
    <2>1. /\ UserLedger(u) /\ UserCounts(u)
          /\ bucket[u].tokens \in Nat /\ bucket[u].lastRefill \in Nat /\ clock \in Nat
          /\ fresh[u] \in Nat /\ regress[u] \in Nat
      BY BucketAssumption, LoggerAssumption
      DEF LedgerInv, CountsInv, PipelineInv, LimiterType, Times, HistoryType
    <2>2. LoggedBy(u) \subseteq Admitted(u)
      BY DEF LoggedBy, Admitted
    <2>3. /\ IsFiniteSet(LoggedBy(u)) /\ IsFiniteSet(Admitted(u))
          /\ Cardinality(LoggedBy(u)) <= Cardinality(Admitted(u))
      BY <2>1, <2>2, FS_Subset DEF UserLedger, UserCounts
    <2>4. PICK l \in Nat, n \in Nat, total \in Nat :
            l = Cardinality(LoggedBy(u)) /\ n = Cardinality(Admitted(u)) /\ total = Total(u)
      BY <2>3, TotalNat, FS_CardinalityType DEF LoggerInv
    <2>5. PICK budget \in Nat :
            budget = Capacity * (1 + fresh[u]) + Rate * (clock + regress[u])
      <3>1. clock + regress[u] \in Nat
        BY <2>1
      <3>2. Capacity * (1 + fresh[u]) \in Nat /\ Rate * (clock + regress[u]) \in Nat
        BY <2>1, <3>1, BudgetType
      <3> QED
        BY <3>2
    <2>6. Unit * n <= budget
      <3>1. PICK d \in Nat : clock = bucket[u].lastRefill + d
        <4>1. clock - bucket[u].lastRefill \in Nat
          BY <2>1 DEF UserLedger
        <4> QED
          BY <2>1, <4>1
      <3>2. PICK t \in Nat : t = bucket[u].lastRefill + regress[u]
        BY <2>1
      <3>3. Rate * (t + d) = Rate * t + Rate * d /\ t + d = clock + regress[u]
        BY <2>1, <3>1, <3>2, Distribute, BucketAssumption
      <3>4. /\ Rate * t \in Nat /\ Rate * d \in Nat /\ Unit * n \in Nat
            /\ Capacity * (1 + fresh[u]) \in Nat
        BY <2>1, BudgetType
      <3>5. bucket[u].tokens + Unit * n <= Capacity * (1 + fresh[u]) + Rate * t
        BY <2>1, <2>4, <3>2 DEF UserLedger
      <3> QED
        BY <2>1, <2>5, <3>3, <3>4, <3>5
    <2>7. total <= MaxWrites * l
      <3>1. Total(u) <= MaxWrites * Cardinality(LoggedBy(u))
        BY CountsBounded DEF CountsWithinBounds
      <3> QED
        BY <2>4, <3>1
    <2>8. Unit * total <= MaxWrites * budget
      BY <2>3, <2>4, <2>6, <2>7, ChainOfBounds
    <2> QED
      BY <2>4, <2>5, <2>8
  <1> QED
    BY <1>1, <1>2, <1>3, PipelineHolds, GatewayImplementsLogger, PTL

\* Every reachable state of the gateway is well typed, and the limiter is waited for
\* exactly while a call to it is under way.
THEOREM GatewayTypeCorrect == GSpec => []GTypeOK
  <1>1. Spec => []LoggerInv
    BY LoggerInit, LoggerStep, PTL DEF Spec
  <1>2. PipelineInv /\ LoggerInv => GTypeOK
    BY DEF PipelineInv, RequestType, LimiterType, Handlers, LoggerInv, GTypeOK
  <1> QED
    BY <1>1, <1>2, PipelineHolds, GatewayImplementsLogger, PTL

\* No refused request reaches the upstream, a response that is passed on was given,
\* and what is logged was executed for its user: in every interleaving, with
\* requests that are executed late, timeouts and restarts.
THEOREM AnswersAreTrue == GSpec => []AnswersMatchUpstream
  <1>1. PipelineInv => AnswersMatchUpstream
    BY DEF PipelineInv, Progress, AnswersMatchUpstream
  <1> QED
    BY <1>1, PipelineHolds, PTL

=============================================================================
