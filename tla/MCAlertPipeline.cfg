SPECIFICATION PipelineSpec
CONSTANTS
    a = a
    b = b
    j = j
    NoNode = NoNode
    Nodes <- MCNodes
    K = 4
    H = 3
    L = 2
    Views <- MCViews
INVARIANTS
    TypeOK
    FluxAccounting
    StableReturnedOnce
    HeldBackOnlyByFlux
    InvalidationOrderIndependent
    ProposalHoldsCuts
PROPERTY
    CutIsComplete
