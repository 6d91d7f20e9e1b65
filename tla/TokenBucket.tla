----------------------------- MODULE TokenBucket -----------------------------
(***************************************************************************)
(* The token-bucket arithmetic that the three rate limiters of SentinelAPI *)
(* share: refill by elapsed time up to the capacity, then spend one token  *)
(* when there is one.                                                      *)
(*                                                                         *)
(* The program's levels are floating-point token counts.  Here a level is  *)
(* an integer number of 1/Unit tokens, so that a fractional refill rate    *)
(* leaves fractional levels and the Redis reply can truncate them; the     *)
(* rounding of floating-point sums is left out.                            *)
(***************************************************************************)
EXTENDS Integers

CONSTANTS
    Unit,      \* sub-units in one token
    Capacity,  \* settings.rate_limit_capacity, in sub-units
    Rate       \* settings.rate_limit_refill_rate, sub-units per clock tick

\* Settings declares the capacity and the rate as numbers without a range; a
\* negative one is a misconfiguration the limiters are not specified for.
ASSUME BucketAssumption ==
    /\ Unit \in Nat \ {0}
    /\ Capacity \in Nat
    /\ Rate \in Nat

\* max(0, now - last_refill): a timestamp that precedes the stored one counts
\* as no time at all.
Elapsed(last, now) == IF now > last THEN now - last ELSE 0

\* min(capacity, tokens + elapsed * refill_rate)
Refilled(tokens, last, now) ==
    LET level == tokens + Rate * Elapsed(last, now)
    IN  IF level > Capacity THEN Capacity ELSE level

\* The request is refused when the refilled level is below one token...
HasToken(level) == level >= Unit

\* Mutant: the token is taken before the level is looked at.
SpendUnchecked(level) == level - Unit

\* ...and otherwise takes one.
Spend(level) == IF HasToken(level) THEN level - Unit ELSE level

\* The whole tokens in a level: Redis turns the Lua number of a script's reply
\* into an integer by dropping its fraction.
WholeTokens(level) == level \div Unit

=============================================================================
