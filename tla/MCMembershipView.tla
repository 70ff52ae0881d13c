------------------------- MODULE MCMembershipView -------------------------
(* A small instance of MembershipView: four endpoints on three rings.      *)
EXTENDS MembershipView, TLC

CONSTANTS a, b, c, d, i1, i2, i3, i4, i5

MCNodes == {a, b, c, d}
MCIds == {i1, i2, i3, i4, i5}

\* Three rings with unrelated orders, hashes of both signs.
MCPos == (0 :> ((a :> -9) @@ (b :> -2) @@ (c :> 3) @@ (d :> 8)))
         @@ (1 :> ((a :> 1) @@ (b :> 7) @@ (c :> -5) @@ (d :> 4)))
         @@ (2 :> ((a :> 6) @@ (b :> -1) @@ (c :> 2) @@ (d :> -7)))

IdSymmetry == Permutations(MCIds)
=============================================================================
