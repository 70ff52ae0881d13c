------------------------------ MODULE Decision ------------------------------
(***************************************************************************)
(* What consensus on a view change promises the members of a               *)
(* configuration: at most one cut is ever chosen, and a member learns      *)
(* nothing but the chosen one, once.                                       *)
(***************************************************************************)
CONSTANTS Members, Cuts, None

VARIABLES
    chosen,     \* the set of chosen cuts
    learned     \* the cut each member applies; None before

vars == <<chosen, learned>>

Init ==
    /\ chosen = {}
    /\ learned = [n \in Members |-> None]

Choose(v) ==
    /\ chosen = {}
    /\ chosen' = {v}
    /\ UNCHANGED learned

Learn(n, v) ==
    /\ v \in chosen
    /\ learned[n] = None
    /\ learned' = [learned EXCEPT ![n] = v]
    /\ UNCHANGED chosen

Next ==
    \/ \E v \in Cuts : Choose(v)
    \/ \E n \in Members, v \in Cuts : Learn(n, v)

Spec == Init /\ [][Next]_vars
=============================================================================
