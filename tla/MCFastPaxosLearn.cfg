SPECIFICATION Spec
CONSTANTS
    a1 = a1
    a2 = a2
    a3 = a3
    a4 = a4
    a5 = a5
    v1 = v1
    v2 = v2
    None = None
    Values <- TwoValues
    Acceptors <- Three
    NodeIndex <- ThreeIndex
    Candidates <- ThreeAny
    Coordinators <- OneNode
    Overtaken <- OneNode
    Learners <- OneNode
INVARIANTS
    DecisionIsChosen
PROPERTIES
    ImplementsDecision
CHECK_DEADLOCK FALSE
