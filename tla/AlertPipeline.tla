--------------------------- MODULE AlertPipeline ---------------------------
(***************************************************************************)
(* How the actor drives its cut detector: handle_batched_alerts of         *)
(* crates/rapid/src/service/alert_handler.rs.                              *)
(*                                                                         *)
(* A batch is a run of `aggregate` calls, one for every alert that passes  *)
(* the filter, and one `invalidate_failing_edges` at its end; what these   *)
(* calls return is joined.  The first batch that returns anything makes    *)
(* the proposal of the configuration, and later batches are ignored until  *)
(* the view changes.  The actor takes no other command during a batch.     *)
(***************************************************************************)
EXTENDS CutDetector

VARIABLES
    stage,          \* of handle_batched_alerts
    joined,         \* its local `proposal`: what the calls of the batch returned
    announced,      \* LifecycleState::AnnouncedProposal
    proposed        \* history: the proposal of this configuration

batch == <<stage, joined>>
pipeline == <<batch, announced, proposed>>

PipelineInit ==
    /\ Init
    /\ stage = "idle"
    /\ joined = {}
    /\ announced = FALSE
    /\ proposed = {}

\* A batch that finds the proposal announced returns at once.
HandleBatchedAlerts ==
    /\ stage = "idle"
    /\ ~announced
    /\ stage' = "alerts"
    /\ UNCHANGED <<vars, joined, announced, proposed>>

NextAlert(d, s, rings) ==
    /\ stage = "alerts"
    /\ Aggregate(d, s, rings)
    /\ UNCHANGED pipeline

DetectorWorks ==
    /\ AggregateStep \/ VisitNode \/ VisitObserver
    /\ UNCHANGED pipeline

\* Mutant: the last call of the batch that returns something decides.
LastEmission(returned) == IF returned = {} THEN joined ELSE returned

Join(returned) == joined \cup returned

AlertDone ==
    /\ stage = "alerts"
    /\ Return
    /\ joined' = Join(out)
    /\ UNCHANGED <<stage, announced, proposed>>

\* The batch is over, and the calls have returned `cut` together.
Announce(cut) ==
    /\ stage' = "idle"
    /\ joined' = {}
    /\ announced' = (cut # {})
    /\ proposed' = cut

Invalidate ==
    /\ stage = "alerts"
    /\ op = "idle"
    /\ \/ /\ InvalidateFailingEdges
          /\ stage' = "invalidate"
          /\ UNCHANGED <<joined, announced, proposed>>
       \/ /\ ~seenLinkDown
          /\ Announce(joined)
          /\ UNCHANGED vars

InvalidationDone ==
    /\ stage = "invalidate"
    /\ Return
    /\ Announce(Join(out))

\* decide_view_change, whoever proposed what was decided.
ViewChange ==
    /\ stage = "idle"
    /\ Clear
    /\ announced' = FALSE
    /\ proposed' = {}
    /\ UNCHANGED batch

PipelineNext ==
    \/ HandleBatchedAlerts
    \/ \E d \in Nodes, s \in {"up", "down"}, rings \in SUBSET Rings :
          NextAlert(d, s, rings)
    \/ DetectorWorks
    \/ AlertDone
    \/ Invalidate
    \/ InvalidationDone
    \/ ViewChange

PipelineSpec == PipelineInit /\ [][PipelineNext]_<<vars, pipeline>>

-----------------------------------------------------------------------------
(* Properties.                                                             *)

\* The detector may return a cut in the middle of a batch and others after it,
\* and is never asked again once something was proposed.  Between two batches the
\* proposal is all that the detector has returned in this configuration, and a
\* stable subject is missing from it only if one is in flux that was not when the
\* detector returned its last cut.
ProposalHoldsCuts ==
    stage = "idle" =>
        /\ announced = (emitted # {})
        /\ proposed = emitted
        /\ \A s \in Nodes : Stable(s) /\ s \notin proposed => \E t \in Nodes : InFlux(t)
=============================================================================
