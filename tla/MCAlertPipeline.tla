-------------------------- MODULE MCAlertPipeline --------------------------
(* A small instance of AlertPipeline.                                      *)
EXTENDS AlertPipeline, TLC

CONSTANTS a, b, j

MCNodes == {a, b, j}

\* More rings than H, and view changes between a view of one member (no
\* observers), one with j joining and one without joiners.
OneMember ==
    [members |-> {a},
     observers |-> (a :> <<>>) @@ (b :> <<a, a, a, a>>) @@ (j :> <<a, a, a, a>>)]

TwoMembers ==
    [members |-> {a, b},
     observers |-> (a :> <<b, b, b, b>>) @@ (b :> <<a, a, a, a>>)
                   @@ (j :> <<a, b, b, a>>)]

AllMembers ==
    [members |-> {a, b, j},
     observers |-> (a :> <<b, b, j, b>>) @@ (b :> <<j, j, a, j>>)
                   @@ (j :> <<a, a, b, a>>)]

MCViews == {OneMember, TwoMembers, AllMembers}
=============================================================================
