------------------------------ MODULE JwksAuth ------------------------------
(***************************************************************************)
(* Key resolution in one gateway process (services/auth.py): tokens name a *)
(* key by its kid, the process caches the identity provider's JWKS for a   *)
(* TTL, refreshes an expired or empty cache, and refreshes once more when  *)
(* a kid is unknown, because keys may rotate.  decode_token is synchronous *)
(* and holds the event loop, so one call runs at a time; the provider      *)
(* rotates its keys and time passes while it waits for the answer.         *)
(***************************************************************************)
EXTENDS Integers

CONSTANTS
    Kids,      \* key identifiers
    NoKid,     \* a header that cannot be parsed or carries no kid
    TTL,       \* settings.jwt_jwks_cache_ttl_seconds, in ticks
    FetchTime, \* longest time between the provider's answer and its arrival
    MaxTime    \* bound on the clock

ASSUME JwksAssumption ==
    /\ NoKid \notin Kids
    /\ TTL \in Nat
    /\ FetchTime \in Nat
    /\ MaxTime \in Nat

VARIABLES
    clock,
    published,      \* kids in the JWKS document the provider serves now
    jwksByKid,      \* _jwks_by_kid
    cacheExpiresAt, \* _jwks_cache_expires_at
    call,           \* the decode_token call under way
    lastPublished,  \* history: when each kid was last in the document
    absent          \* history: kids missing at some instant of the call

jwksVars ==
    <<clock, published, jwksByKid, cacheExpiresAt, call, lastPublished, absent>>

-----------------------------------------------------------------------------
Idle == [pc |-> "idle"]

Never == -1

JwksInit ==
    /\ clock = 0
    /\ published \in SUBSET Kids
    /\ jwksByKid = {}
    /\ cacheExpiresAt = 0
    /\ call = Idle
    /\ lastPublished = [k \in Kids |-> IF k \in published THEN 0 ELSE Never]
    /\ absent = {}

\* The two conditions of _refresh_jwks_cache_if_needed.
CacheFresh == jwksByKid # {} /\ clock < cacheExpiresAt

Fetching(kid, force) == [pc |-> "fetch", kid |-> kid, force |-> force]
Answered(kid, force, keys) ==
    [pc |-> "answered", kid |-> kid, force |-> force, keys |-> keys, at |-> clock]
Ended(kid, result) == [pc |-> "ended", kid |-> kid, result |-> result, at |-> clock]

\* Mutant: a header without kid is looked up like any other.
DecodeAnyKid(kid) ==
    /\ call.pc = "idle"
    /\ call' = IF ~CacheFresh THEN Fetching(kid, FALSE)
               ELSE IF kid \in jwksByKid THEN Ended(kid, "key")
               ELSE Fetching(kid, TRUE)
    /\ absent' = Kids \ published
    /\ UNCHANGED <<clock, published, jwksByKid, cacheExpiresAt, lastPublished>>

\* Mutant: no forced refresh for a kid that a fresh cache does not know.
DecodeCachedOnly(kid) ==
    /\ call.pc = "idle"
    /\ call' = IF kid = NoKid THEN Ended(kid, "malformed")
               ELSE IF ~CacheFresh THEN Fetching(kid, FALSE)
               ELSE IF kid \in jwksByKid THEN Ended(kid, "key")
               ELSE Ended(kid, "unknown kid")
    /\ absent' = Kids \ published
    /\ UNCHANGED <<clock, published, jwksByKid, cacheExpiresAt, lastPublished>>

\* decode_token is called with a token whose header names kid.
Decode(kid) ==
    /\ call.pc = "idle"
    /\ call' = IF kid = NoKid THEN Ended(kid, "malformed")
               ELSE IF ~CacheFresh THEN Fetching(kid, FALSE)
               ELSE IF kid \in jwksByKid THEN Ended(kid, "key")
               ELSE Fetching(kid, TRUE)
    /\ absent' = Kids \ published
    /\ UNCHANGED <<clock, published, jwksByKid, cacheExpiresAt, lastPublished>>

\* The provider answers the request with the document it serves.
ProviderAnswers ==
    /\ call.pc = "fetch"
    /\ call' = Answered(call.kid, call.force, published)
    /\ UNCHANGED <<clock, published, jwksByKid, cacheExpiresAt, lastPublished, absent>>

\* Mutant: a failed fetch keeps the old keys going for another TTL.
FetchFailsProlongs ==
    /\ call.pc \in {"fetch", "answered"}
    /\ call' = Ended(call.kid, "fetch failed")
    /\ cacheExpiresAt' = clock + TTL
    /\ UNCHANGED <<clock, published, jwksByKid, lastPublished, absent>>

\* The fetch times out, is refused or yields a document without a list of keys: an
\* AuthError; or it yields JSON that is no object, and payload.get raises for the
\* server to answer.  Either way the cache stays as it was.
FetchFails ==
    /\ call.pc \in {"fetch", "answered"}
    /\ \E result \in {"fetch failed", "raised"} : call' = Ended(call.kid, result)
    /\ UNCHANGED <<clock, published, jwksByKid, cacheExpiresAt, lastPublished, absent>>

\* Mutant: an unknown kid is looked for until the provider has it.
StoreKeysInsist ==
    /\ call.pc = "answered"
    /\ call.keys # {}
    /\ jwksByKid' = call.keys
    /\ cacheExpiresAt' = clock + TTL
    /\ call' = IF call.kid \in call.keys THEN Ended(call.kid, "key")
               ELSE Fetching(call.kid, TRUE)
    /\ UNCHANGED <<clock, published, lastPublished, absent>>

\* The answer is there: the cache is replaced, its expiry counted from now, and
\* the kid looked up.  After a refresh that was not forced an unknown kid forces
\* one; after a forced one it is an error.
StoreKeys ==
    /\ call.pc = "answered"
    /\ call.keys # {}
    /\ jwksByKid' = call.keys
    /\ cacheExpiresAt' = clock + TTL
    /\ call' = IF call.kid \in call.keys THEN Ended(call.kid, "key")
               ELSE IF call.force THEN Ended(call.kid, "unknown kid")
               ELSE Fetching(call.kid, TRUE)
    /\ UNCHANGED <<clock, published, lastPublished, absent>>

\* "No usable keys found in JWKS": an AuthError before the cache is touched.
NoUsableKeys ==
    /\ call.pc = "answered"
    /\ call.keys = {}
    /\ call' = Ended(call.kid, "fetch failed")
    /\ UNCHANGED <<clock, published, jwksByKid, cacheExpiresAt, lastPublished, absent>>

\* decode_token verifies the claims with the key, or raises; either way the
\* event loop is free again.
Return ==
    /\ call.pc = "ended"
    /\ call' = Idle
    /\ absent' = {}
    /\ UNCHANGED <<clock, published, jwksByKid, cacheExpiresAt, lastPublished>>

-----------------------------------------------------------------------------
(* The provider, the process and time.                                     *)

Publish(k) ==
    /\ k \notin published
    /\ published' = published \cup {k}
    /\ lastPublished' = [lastPublished EXCEPT ![k] = clock]
    /\ UNCHANGED <<clock, jwksByKid, cacheExpiresAt, call, absent>>

Withdraw(k) ==
    /\ k \in published
    /\ published' = published \ {k}
    /\ absent' = absent \cup {k}
    /\ UNCHANGED <<clock, jwksByKid, cacheExpiresAt, call, lastPublished>>

\* A new process starts with an empty cache.
GatewayRestart ==
    /\ jwksByKid' = {}
    /\ cacheExpiresAt' = 0
    /\ call' = Idle
    /\ absent' = {}
    /\ UNCHANGED <<clock, published, lastPublished>>

Tick ==
    /\ clock < MaxTime
    /\ call.pc = "answered" => clock < call.at + FetchTime
    /\ clock' = clock + 1
    /\ lastPublished' = [k \in Kids |-> IF k \in published THEN clock' ELSE lastPublished[k]]
    /\ UNCHANGED <<published, jwksByKid, cacheExpiresAt, call, absent>>

-----------------------------------------------------------------------------
CallStep == ProviderAnswers \/ FetchFails \/ StoreKeys \/ NoUsableKeys \/ Return

JwksNext ==
    \/ \E kid \in Kids \cup {NoKid} : Decode(kid)
    \/ CallStep
    \/ \E k \in Kids : Publish(k) \/ Withdraw(k)
    \/ GatewayRestart
    \/ Tick

JwksSpec == JwksInit /\ [][JwksNext]_jwksVars

\* urlopen has a timeout of 5 s and the rest of a call does not wait.
JwksFairSpec == JwksSpec /\ WF_jwksVars(CallStep)

-----------------------------------------------------------------------------
(* Properties.                                                             *)

Resolutions == {"key", "malformed", "fetch failed", "raised", "unknown kid"}

\* Every variable has its type.
JwksTypeOK ==
    /\ clock \in Nat
    /\ published \subseteq Kids
    /\ jwksByKid \subseteq Kids
    /\ cacheExpiresAt \in Nat
    /\ call \in {Idle}
         \cup [pc : {"fetch"}, kid : Kids, force : BOOLEAN]
         \cup [pc : {"answered"}, kid : Kids, force : BOOLEAN, keys : SUBSET Kids, at : Nat]
         \cup [pc : {"ended"}, kid : Kids \cup {NoKid}, result : Resolutions, at : Nat]
    /\ lastPublished \in [Kids -> Nat \cup {Never}]
    /\ absent \subseteq Kids

\* A key the provider withdrew stops verifying tokens: when a call resolves a
\* key, the provider still published it no longer ago than the cache TTL and the
\* time one answer takes to arrive, however refreshes, failures and rotations
\* interleave (a failed refresh must not prolong the cache it could not replace).
WithdrawnKeysExpire ==
    call.pc = "ended" /\ call.result = "key" =>
        /\ lastPublished[call.kid] # Never
        /\ call.at - lastPublished[call.kid] <= TTL + FetchTime

\* Rotation rejects no valid token: a call says "Unable to find matching JWK"
\* only for a kid that the provider did not publish at some instant of the call.
RotationIsFollowed ==
    call.pc = "ended" /\ call.result = "unknown kid" => call.kid \in absent

\* decode_token always ends: at most one ordinary and one forced refresh per
\* token, so no rotation pattern keeps the event loop in a fetch loop.
DecodeEnds == call.pc # "idle" ~> call.pc = "idle"

=============================================================================
