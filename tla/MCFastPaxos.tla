---------------------------- MODULE MCFastPaxos ----------------------------
(* Small instances of FastPaxos.                                           *)
EXTENDS FastPaxos, TLC

CONSTANTS a1, a2, a3, a4, a5, v1, v2

Two   == {a1, a2}
Three == {a1, a2, a3}
Five  == {a1, a2, a3, a4, a5}
TwoValues == {v1, v2}

\* Distinct indices, one of them negative: the index is a hash taken as i32.
Index == (a1 :> 7) @@ (a2 :> -4) @@ (a3 :> 2) @@ (a4 :> 9) @@ (a5 :> 5)

ThreeIndex == [n \in Three |-> Index[n]]
FiveIndex == [n \in Five |-> Index[n]]

\* Any member may see any cut.
ThreeAny == [n \in Three |-> TwoValues]
FiveAny == [n \in Five |-> TwoValues]

\* The vote is split, and one member sees no cut.
ThreeSplit == (a1 :> {v1}) @@ (a2 :> {v2}) @@ (a3 :> {})

OneNode == {a1}
NoNodes == {}

\* The members that neither coordinate nor learn are interchangeable.
ValueSymmetry == Permutations(TwoValues)
FiveSymmetry == Permutations(Five \ {a1}) \cup Permutations(TwoValues)
=============================================================================
