SPECIFICATION FairSpec
CONSTANTS
    s1 = s1
    s2 = s2
    s3 = s3
    Subjects <- MCSubjects
    Unparsable <- MCUnparsable
    Rings = {0}
    FailureThreshold = 2
    BootstrapThreshold = 1
    LastConfig = 2
INVARIANTS
    NoStaleSuspicion
PROPERTY
    FailureIsReported
CHECK_DEADLOCK FALSE
