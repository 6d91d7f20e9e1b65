SPECIFICATION JwksFairSpec
CONSTANTS
    Kids = {k1, k2}
    NoKid = NoKid
    TTL = 2
    FetchTime = 1
    MaxTime = 5
INVARIANT JwksTypeOK
INVARIANT WithdrawnKeysExpire
INVARIANT RotationIsFollowed
PROPERTY DecodeEnds
