SPECIFICATION Spec
CONSTANTS
    a = a
    b = b
    s1 = s1
    s2 = s2
    Nodes <- MCNodes
    Shards <- MCShards
    Capacity = 1
    LastConfig = 3
INVARIANTS
    BucketsMatchEndpoints
    ExactUntilLag
    CaughtUpIsExact
SYMMETRY NodeAndShardSymmetry
CHECK_DEADLOCK FALSE
