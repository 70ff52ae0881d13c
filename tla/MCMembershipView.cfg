SPECIFICATION Spec
CONSTANTS
    a = a
    b = b
    c = c
    d = d
    i1 = i1
    i2 = i2
    i3 = i3
    i4 = i4
    i5 = i5
    Uncached = Uncached
    Nodes <- MCNodes
    Ids <- MCIds
    K = 3
    Pos <- MCPos
INVARIANTS
    TypeOK
    ConfigurationIdFresh
    ObserversMatchSubjects
    StaleOnlyAtWrap
PROPERTY
    ConfigurationsMoveForward
SYMMETRY IdSymmetry
CHECK_DEADLOCK FALSE
