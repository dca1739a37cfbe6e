SPECIFICATION FairSpec
CONSTANTS
    Producers = {p1, p2}
    Consumers = {c1, c2}
    MaxPools = 2
    Bufs = {b1}
    MaxAllocs = 3
    MaxDeaths = 1
    Nobody = Nobody
INVARIANTS TypeOK Exclusive ShadowsLive TokensMatch
PROPERTIES PoolsGoAway
CHECK_DEADLOCK FALSE
