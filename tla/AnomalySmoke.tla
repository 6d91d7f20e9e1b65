---------------------------- MODULE AnomalySmoke ----------------------------
(***************************************************************************)
(* The anomaly smoke test (scripts/anomaly_smoke.py) against the deployed  *)
(* detector: it seeds a baseline for its user, sends a burst, waits until  *)
(* the requests are counted, tops the burst up, invokes the detector and   *)
(* looks for an active block record.  Meanwhile gateways count requests,   *)
(* late or not at all, the scheduled detector runs, and the clock may      *)
(* cross a bucket boundary; and every read, the script's and the           *)
(* detector's, may come from a replica that lags.  Of the detector only    *)
(* what AnomalyDetector shows of it is used: whom it must flag and whom it *)
(* may flag.                                                               *)
(***************************************************************************)
EXTENDS DetectorRules

CONSTANTS
    Hourly,       \* args.baseline_hourly
    MaxCounter    \* bound on a counter

ASSUME SmokeAssumption == Hourly \in Nat \ {0} /\ MaxCounter \in Nat

VARIABLES
    time,
    counter,    \* counter[b]: requestCount of the script's user in bucket b
    ttl,        \* ttl of that user's record in the blocklist table
    earlier,    \* the ttls of the records it replaced, which a read may still return
    detector,   \* detector[i]: invocation i of the detector
    smoke,      \* the script: its step, and what it has read
    active,     \* history: a record was active when the script started
    flagged,    \* history: an invocation flagged the user
    spoilt      \* history: the script's measurement was disturbed

smokeVars == <<time, counter, ttl, earlier, detector, smoke, active, flagged, spoilt>>

-----------------------------------------------------------------------------
Invocations == {"scheduled", "script"}

NoCounters == [b \in Buckets |-> 0]
NoInvocation == [pc |-> "idle", now |-> 0, before |-> NoCounters, fresh |-> FALSE]

SmokeInit ==
    /\ time = LastOffset
    /\ counter = NoCounters
    /\ ttl \in {NoRecord, time, time + BlockTTL}
    /\ earlier \in {{}, {NoRecord}}
    /\ detector = [i \in Invocations |-> NoInvocation]
    /\ smoke = [pc |-> "new", window |-> 0, current |-> 0]
    /\ active = FALSE
    /\ flagged = FALSE
    /\ spoilt = FALSE

\* Mutant: the minimum of the detector is forgotten.
RequiredWithoutMinimum == Hourly * Threshold + 1

\* required_current: what the user needs to be flagged against the seeded baseline.
Required ==
    LET above == Hourly * Threshold + 1 IN IF above > MinRequests THEN above ELSE MinRequests

\* The share of the i-th bucket in the baseline that is seeded.
Share(i) ==
    LET total == Hourly * BaselineHours
    IN  total \div BaselineBuckets + IF i < total % BaselineBuckets THEN 1 ELSE 0

\* The counter of bucket b after _seed_baseline: a put replaces what is there, and
\* no put is made for a share of zero.
Seeded(b) ==
    LET i == time - CurrentBuckets - b
    IN  IF i \in 0..(BaselineBuckets - 1) /\ Share(i) > 0 THEN Share(i) ELSE counter[b]

IsActive(t) == t > time
Running == smoke.pc \in {"burst", "settle", "top up", "invoke", "awaiting"}
Goto(from, to) == smoke.pc = from /\ smoke' = [smoke EXCEPT !.pc = to]

\* A baseline that holds more than what is seeded is not the script's.
Seed ==
    /\ Goto("new", "burst")
    /\ counter' = [b \in Buckets |-> Seeded(b)]
    /\ active' = (\E t \in earlier \cup {ttl} : IsActive(t))
    /\ spoilt' = (WindowTotal(counter', time, BaselineOffsets) # Hourly * BaselineHours)
    /\ UNCHANGED <<time, ttl, earlier, detector, flagged>>

\* _send_burst: its requests are counted, or are not.  The windows that are read
\* from now on are computed after it.
Burst ==
    /\ smoke.pc = "burst"
    /\ smoke' = [smoke EXCEPT !.pc = "settle", !.window = time]
    /\ UNCHANGED <<time, counter, ttl, earlier, detector, active, flagged, spoilt>>

\* What the script may read of the window's counters: all, or what a replica has.
CurrentCounts == 0 .. WindowTotal(counter, smoke.window, CurrentOffsets)

\* The last poll of the settle loop: enough requests are counted, or time is up.
Settle(n) ==
    /\ smoke.pc = "settle"
    /\ n \in CurrentCounts
    /\ smoke' = [smoke EXCEPT !.current = n,
                              !.pc = IF n < Required THEN "top up" ELSE "invoke"]
    /\ UNCHANGED <<time, counter, ttl, earlier, detector, active, flagged, spoilt>>

\* The second burst, three seconds, and a last look at the same window.
TopUp(n) ==
    /\ smoke.pc = "top up"
    /\ n \in CurrentCounts
    /\ smoke' = [smoke EXCEPT !.pc = "invoke", !.current = n]
    /\ UNCHANGED <<time, counter, ttl, earlier, detector, active, flagged, spoilt>>

\* The detector starts with now = the clock; its queries are fresh when every
\* replica holds the counters as they are, and else may find nothing.
Starts(i, fresh) ==
    /\ detector[i].pc = "idle"
    /\ detector' = [detector EXCEPT ![i] = [pc |-> "reading", now |-> time, fresh |-> fresh,
                                            before |-> IF fresh THEN counter ELSE NoCounters]]

\* _invoke_anomaly: the detector is invoked, and its answer awaited ...
InvokeDetector(fresh) ==
    /\ Goto("invoke", "awaiting")
    /\ Starts("script", fresh)
    /\ spoilt' = (spoilt \/ ~fresh)
    /\ UNCHANGED <<time, counter, ttl, earlier, active, flagged>>

\* Mutant: any record will do.
VerifyAnyRecord(seen) ==
    /\ detector["script"].pc = "idle"
    /\ Goto("awaiting", IF seen # NoRecord THEN "passed" ELSE "failed")
    /\ spoilt' = (spoilt \/ seen # ttl)
    /\ UNCHANGED <<time, counter, ttl, earlier, detector, active, flagged>>

\* ... whatever it says; _verify_block wants a record that is active now, and
\* may be shown an earlier one.
Verify(seen) ==
    /\ detector["script"].pc = "idle"
    /\ Goto("awaiting", IF IsActive(seen) THEN "passed" ELSE "failed")
    /\ spoilt' = (spoilt \/ seen # ttl)
    /\ UNCHANGED <<time, counter, ttl, earlier, detector, active, flagged>>

\* A ClientError, or a timeout of the script's HTTP client.
Abort ==
    /\ Running
    /\ Goto(smoke.pc, "aborted")
    /\ UNCHANGED <<time, counter, ttl, earlier, detector, active, flagged, spoilt>>

Script ==
    \/ Seed
    \/ Burst
    \/ \E n \in CurrentCounts : Settle(n) \/ TopUp(n)
    \/ \E fresh \in BOOLEAN : InvokeDetector(fresh)
    \/ \E seen \in earlier \cup {ttl} : Verify(seen)

-----------------------------------------------------------------------------
(* The detector, by what AnomalyDetector shows of it (BusyUsersAreFlagged,  *)
(* FlaggedUsersWereBusy), and the gateways.                                 *)

\* Nothing is known of what another invocation reads: the script replaces counters
\* under it.
Scheduled ==
    /\ Starts("scheduled", FALSE)
    /\ UNCHANGED <<time, counter, ttl, earlier, smoke, active, flagged, spoilt>>

CurrentOf(i, counts) == WindowTotal(counts, detector[i].now, CurrentOffsets)
BaselineOf(i, counts) == WindowTotal(counts, detector[i].now, BaselineOffsets)
MustFlag(i) == IsAnomaly(CurrentOf(i, detector[i].before), BaselineOf(i, counter))
MayFlag(i) == IsAnomaly(CurrentOf(i, counter), BaselineOf(i, detector[i].before))

Decides(i) ==
    /\ detector[i].pc = "reading"
    /\ \/ /\ detector[i].fresh => MayFlag(i)
          /\ detector' = [detector EXCEPT ![i].pc = "blocking"]
          /\ flagged' = TRUE
       \/ /\ ~MustFlag(i)
          /\ detector' = [detector EXCEPT ![i] = NoInvocation]
          /\ UNCHANGED flagged
    /\ UNCHANGED <<time, counter, ttl, earlier, smoke, active, spoilt>>

\* The put replaces the record; with auto-blocking off there is none.
Blocks(i) ==
    /\ detector[i].pc = "blocking"
    /\ IF AutoBlock
       THEN ttl' = detector[i].now + BlockTTL /\ earlier' = earlier \cup {ttl}
       ELSE UNCHANGED <<ttl, earlier>>
    /\ detector' = [detector EXCEPT ![i] = NoInvocation]
    /\ UNCHANGED <<time, counter, smoke, active, flagged, spoilt>>

\* The invocation raises; the script finds the error in the answer and goes on.
Fails(i) ==
    /\ detector[i].pc # "idle"
    /\ detector' = [detector EXCEPT ![i] = NoInvocation]
    /\ spoilt' = (spoilt \/ i = "script")
    /\ UNCHANGED <<time, counter, ttl, earlier, smoke, active, flagged>>

Detector(i) == Decides(i) \/ Blocks(i) \/ Fails(i)

\* A gateway counts a request of the user, in the bucket of its clock or, late, in
\* the one before.
CountUserRequest(b) ==
    /\ b \in {time, time - 1}
    /\ counter[b] < MaxCounter
    /\ counter' = [counter EXCEPT ![b] = @ + 1]
    /\ spoilt' = (spoilt \/ (Running /\ b # time))
    /\ UNCHANGED <<time, ttl, earlier, detector, smoke, active, flagged>>

\* Lambda has ended an invocation when its time is up (Fails).
TimePasses ==
    /\ time < MaxTime
    /\ \A i \in Invocations :
         detector[i].pc # "idle" => time < detector[i].now + InvocationTime
    /\ time' = time + 1
    /\ spoilt' = (spoilt \/ Running)
    /\ UNCHANGED <<counter, ttl, earlier, detector, smoke, active, flagged>>

\* Nothing is of interest once the script has ended.
SmokeNext ==
    /\ smoke.pc = "new" \/ Running
    /\ \/ Script
       \/ Abort
       \/ Scheduled
       \/ \E i \in Invocations : Detector(i)
       \/ \E b \in Buckets : CountUserRequest(b)
       \/ TimePasses

SmokeSpec == SmokeInit /\ [][SmokeNext]_smokeVars

-----------------------------------------------------------------------------
(* Properties.                                                              *)

\* The script does not pass for nothing: unless a record of an earlier run was
\* active when it started, some invocation flagged the user.
PassIsEarned == smoke.pc = "passed" => active \/ flagged

\* The script blames a detector that works in named cases only: auto-blocking is
\* off, or it saw fewer requests than it requires, or its measurement was disturbed
\* - more than the baseline it seeded is there, a bucket boundary came between, the
\* invocation failed, a replica lagged behind when the detector asked for counters
\* or the script for the block.  Otherwise what it requires is enough for the
\* detector, whose windows, hours and ratio it restates.
WorkingDetectorPasses ==
    smoke.pc = "failed" => spoilt \/ smoke.current < Required \/ ~AutoBlock

=============================================================================
