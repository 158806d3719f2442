SPECIFICATION FairSpec
CONSTANTS
    Subscribers = {s1, s2}
    MaxEmitters = 4
INVARIANTS TypeOK Settled HeardOnce
PROPERTIES RelayComes
CHECK_DEADLOCK FALSE
