SPECIFICATION Spec
CONSTANTS
    a1 = a1
    a2 = a2
    a3 = a3
    a4 = a4
    a5 = a5
    v1 = v1
    v2 = v2
    None = None
    Values <- TwoValues
    Acceptors <- Five
    NodeIndex <- FiveIndex
    Candidates <- FiveAny
    Coordinators <- OneNode
    Overtaken <- NoNodes
    Learners <- NoNodes
INVARIANTS
    FastAgreement
    ClassicKeepsFastChoice
    AgreementWithoutLateVotes
SYMMETRY FiveSymmetry
CHECK_DEADLOCK FALSE
