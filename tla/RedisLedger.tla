---------------------------- MODULE RedisLedger ----------------------------
(***************************************************************************)
(* RedisRateLimiter observed by a ledger.  For each user the ledger counts *)
(* the requests admitted in a window of observation and remembers by how   *)
(* much the timestamps Redis saw went back, so that the promise of a token *)
(* bucket - a burst of at most the capacity, then the refill rate, and no  *)
(* less than the rate to a user who waits - can be stated of the script as *)
(* it really runs, with stale stamps, skewed clocks and expiring keys.     *)
(* The ledger only watches: it disables no step but for MaxEvals, which    *)
(* bounds a window.                                                        *)
(***************************************************************************)
EXTENDS RedisRateLimiter

CONSTANT MaxEvals   \* bound on the evaluations counted in one window

ASSUME LedgerAssumption == MaxEvals \in Nat

\* EXPIRE 7200 outlasts the refill of an empty bucket.  Both presets satisfy it
\* (100 tokens at 1.0/s, 300 at 5.0/s); Settings does not enforce it.
ASSUME ExpiryAssumption == Capacity <= Rate * BucketTTL

VARIABLE ledger

ledgerVars == <<limiterVars, ledger>>

\* evals: evaluations in the window; start: the first one's stamp; granted:
\* those admitted; regress: how far stamps went back, in total; lastGrant: the
\* stamp of the user's latest admission.
Closed == [evals |-> 0, start |-> 0, granted |-> 0, regress |-> 0, lastGrant |-> 0]

Open(u) == ledger[u].evals > 0

LInit == Init /\ ledger = [u \in Users |-> Closed]

\* The stamp from which the next one is in order: the bucket's last refill, or,
\* when the key has expired, the first stamp by which its TTL is over.
Mark(u) ==
    IF BucketLive(u) THEN bucket[u].lastRefill
                     ELSE bucket[u].lastRefill + BucketTTL

Entry(u, now) ==
    LET e == ledger[u]
        admitted == HasToken(LevelAt(u, now))
    IN  [evals     |-> e.evals + 1,
         start     |-> IF Open(u) THEN e.start ELSE now,
         granted   |-> IF admitted THEN e.granted + 1 ELSE e.granted,
         regress   |-> IF Open(u) THEN e.regress + Elapsed(now, Mark(u)) ELSE 0,
         lastGrant |-> IF admitted THEN now ELSE e.lastGrant]

LEvaluate(r) ==
    LET u == call[r].user
    IN  /\ Evaluate(r)
        /\ ledger[u].evals < MaxEvals
        /\ ledger' = [ledger EXCEPT ![u] = Entry(u, call[r].stamp)]

\* An observer ends a user's window; the next evaluation starts another.
CloseWindow(u) ==
    /\ Open(u)
    /\ ledger' = [ledger EXCEPT ![u] = [Closed EXCEPT !.lastGrant = ledger[u].lastGrant]]
    /\ UNCHANGED limiterVars

\* Redis lost its buckets: nothing is promised across a restart.
LRedisRestart ==
    /\ RedisRestart
    /\ ledger' = [u \in Users |-> Closed]

LNext ==
    \/ \E r \in Requests : LEvaluate(r)
    \/ \E u \in Users : CloseWindow(u)
    \/ LRedisRestart
    \/ OtherStep /\ UNCHANGED ledger

LSpec == LInit /\ [][LNext]_ledgerVars

-----------------------------------------------------------------------------
(* Properties.                                                              *)

Entries == [evals : Nat, start : Int, granted : Nat,
            regress : Nat, lastGrant : Int]

\* The limiter's types, and the ledger's.
LTypeOK ==
    /\ TypeOK
    /\ ledger \in [Users -> Entries]

\* What was admitted in a window, with what is left in the bucket, never
\* exceeds the capacity plus the refill of the stamps' span, where every step
\* back of the stamps counts as time once more.  So while stamps arrive in
\* order the bucket admits no more than it promises, across any interleaving of
\* gateways, denials, blocks and key expiries.  The expiry is harmless only
\* because EXPIRE 7200 outlasts the refill of an empty bucket: with a shorter
\* TTL the fresh bucket would be a gift.
AdmissionBound ==
    \A u \in Users :
        Open(u) =>
            ledger[u].granted * Unit + bucket[u].tokens
              <= Capacity
                 + Rate * (bucket[u].lastRefill - ledger[u].start + ledger[u].regress)

\* A refusal happens only to a user who has not waited long enough: if the time
\* since the latest admission refills a whole token, the script does not deny,
\* however many denials in between rewrote the bucket (a client that retries in
\* a loop does not postpone its own refill).
DeniedOnlyTooEarly ==
    [][\A r \in Requests :
         /\ call[r].pc = "eval"
         /\ call'[r].pc = "reply"
         /\ call'[r].verdict = "denied"
         => \/ Capacity < Unit
            \/ Rate * (call[r].stamp - ledger[call[r].user].lastGrant) < Unit
      ]_ledgerVars

=============================================================================
