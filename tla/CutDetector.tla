---------------------------- MODULE CutDetector ----------------------------
(***************************************************************************)
(* The multi-node cut detector of crates/rapid/src/cut_detector.rs.        *)
(*                                                                         *)
(* A detector counts, for every subject, the rings on which an observer    *)
(* reported it.  A subject with at least L and fewer than H reports is in  *)
(* flux; one with H reports is stable.  The stable subjects are returned   *)
(* together when no subject is left in flux.                               *)
(*                                                                         *)
(* The detector is owned by one actor, so its calls never overlap; what    *)
(* the model adds to that is the order inside a call: `aggregate` walks    *)
(* the ring list of an alert, and `invalidate_failing_edges` walks a copy  *)
(* of a HashSet, whose order no one controls.  Each loop iteration is one  *)
(* step here, and no other call starts while `op` is not "idle".           *)
(*                                                                         *)
(* Ring i of the code is ring i + 1 here.  The reporter stored with a ring *)
(* is never read back by the code, so `reports` keeps the rings only.      *)
(***************************************************************************)
EXTENDS Integers, FiniteSets

CONSTANTS
    Nodes,      \* endpoints: members, and processes asking to join
    K, H, L,    \* number of rings, high and low watermark
    NoNode,     \* the subject of no call
    Views       \* the views a detector may be used with, see ViewType

Rings == 1 .. K

KMin == 3

\* What the detector asks of a MembershipView: who is present, and the list of
\* observers of a node (its expected observers when it is not present).  The
\* list is empty in a view too small to have observers.
ViewType == [members : SUBSET Nodes,
             observers : [Nodes -> [Rings -> Nodes] \cup {<<>>}]]

ASSUME NodesFinite == IsFiniteSet(Nodes)
ASSUME NoNodeOutside == NoNode \notin Nodes
ASSUME WatermarksNat == K \in Nat /\ H \in Nat /\ L \in Nat
ASSUME Watermarks == H <= K /\ L <= H /\ K >= KMin /\ L # 0 /\ H # 0
ASSUME ViewsTyped == Views # {} /\ Views \subseteq ViewType

VARIABLES
    reports,            \* reports_per_host: rings reported, per subject
    proposal,           \* stable subjects not returned yet
    preProposal,        \* subjects in flux
    updatesInProgress,
    proposalCount,
    seenLinkDown,       \* seen_link_down_events
    view,               \* the view the owner passes in
    op,                 \* the call being executed
    dst,                \* its subject
    status,             \* its edge status
    ringsLeft,          \* rings its inner loop has still to visit
    fluxLeft,           \* rest of pre_proposal_copy
    out,                \* what the call has collected to return
    emitted,            \* history: all subjects returned since the last clear
    start               \* history: the detector when the invalidation began

detector == <<reports, proposal, preProposal, updatesInProgress, proposalCount,
              seenLinkDown>>
control == <<op, dst, status, ringsLeft, fluxLeft>>
vars == <<detector, control, view, out, emitted, start>>

Tally(s) == Cardinality(reports[s])

NoReports == [n \in Nodes |-> {}]

Snapshot(flux, stable, rep) == [flux |-> flux, stable |-> stable, reports |-> rep]

-----------------------------------------------------------------------------
(* The constructor and `clear` leave the same state.                       *)

Init ==
    /\ reports = NoReports
    /\ proposal = {}
    /\ preProposal = {}
    /\ updatesInProgress = 0
    /\ proposalCount = 0
    /\ seenLinkDown = FALSE
    /\ view \in Views
    /\ op = "idle"
    /\ dst = NoNode
    /\ status = "up"
    /\ ringsLeft = {}
    /\ fluxLeft = {}
    /\ out = {}
    /\ emitted = {}
    /\ start = Snapshot({}, {}, NoReports)

Clear ==
    /\ op = "idle"
    /\ reports' = NoReports
    /\ proposal' = {}
    /\ preProposal' = {}
    /\ updatesInProgress' = 0
    /\ proposalCount' = 0
    /\ seenLinkDown' = FALSE
    /\ view' \in Views
    /\ emitted' = {}
    /\ UNCHANGED <<control, out, start>>

-----------------------------------------------------------------------------
(* aggregate_one: record that the observer on ring r reported d.           *)

\* Mutant: a subject counts as entering flux at every report from L on.
EntersFluxAgain(num) == num >= L

\* Mutant: the low-watermark branch is missing.
NeverEntersFlux(num) == num = 0

EntersFlux(num) == num = L

\* Mutant: a subject becomes stable again at every report from H on.
BecomesStableAgain(num) == num >= H

BecomesStable(num) == num = H

\* updates_in_progress once the low-watermark branch has run.
UpdatesAfterL(num) == updatesInProgress + (IF EntersFlux(num) THEN 1 ELSE 0)

\* Mutant: the counter is tested before the decrement.
LastInFluxEarly(num) == UpdatesAfterL(num) = 0

\* Mutant: the hold-off is missing.
NoHoldOff(num) == TRUE

\* The subject that becomes stable was the only one in flux.
LastInFlux(num) == UpdatesAfterL(num) - 1 = 0

FluxAfterL(d, num) == IF EntersFlux(num) THEN preProposal \cup {d} ELSE preProposal

\* The report is recorded and `num` is the new tally of d.
BelowHigh(d, num) ==
    /\ ~BecomesStable(num)
    /\ preProposal' = FluxAfterL(d, num)
    /\ updatesInProgress' = UpdatesAfterL(num)
    /\ UNCHANGED <<proposal, proposalCount, out, emitted>>

AtHigh(d, num) ==
    /\ BecomesStable(num)
    /\ preProposal' = FluxAfterL(d, num) \ {d}
    /\ updatesInProgress' = UpdatesAfterL(num) - 1

\* d is stable and others are in flux: the proposal is held back.
HoldProposal(d, num) ==
    /\ AtHigh(d, num)
    /\ ~LastInFlux(num)
    /\ proposal' = proposal \cup {d}
    /\ UNCHANGED <<proposalCount, out, emitted>>

\* d was the last in flux: all stable subjects are returned.
ReturnProposal(d, num) ==
    /\ AtHigh(d, num)
    /\ LastInFlux(num)
    /\ proposalCount' = proposalCount + 1
    /\ proposal' = {}
    /\ out' = out \cup proposal \cup {d}
    /\ emitted' = emitted \cup proposal \cup {d}

AggregateOne(d, s, r) ==
    /\ seenLinkDown' = (seenLinkDown \/ s = "down")
    /\ \/ /\ r \in reports[d]
          /\ UNCHANGED <<reports, proposal, preProposal, updatesInProgress,
                         proposalCount, out, emitted>>
       \/ /\ r \notin reports[d]
          /\ reports' = [reports EXCEPT ![d] = @ \cup {r}]
          /\ LET num == Tally(d) + 1
             IN  BelowHigh(d, num) \/ HoldProposal(d, num) \/ ReturnProposal(d, num)

-----------------------------------------------------------------------------
(* aggregate(msg): the loop over msg.ring_number.                          *)

\* The alerts the owner lets through (is_valid_alert): DOWN for a member, UP for
\* a process outside the view.  One about a member that leaves comes from everyone,
\* and names no ring unless its sender is an observer.
ValidAlert(d, s) == s = IF d \in view.members THEN "down" ELSE "up"

Aggregate(d, s, rings) ==
    /\ op = "idle"
    /\ ValidAlert(d, s)
    /\ op' = "aggregate"
    /\ dst' = d
    /\ status' = s
    /\ ringsLeft' = rings
    /\ UNCHANGED <<detector, view, fluxLeft, out, emitted, start>>

AggregateStep ==
    /\ op = "aggregate"
    /\ \E r \in ringsLeft :
          /\ AggregateOne(dst, status, r)
          /\ ringsLeft' = ringsLeft \ {r}
    /\ UNCHANGED <<view, op, dst, status, fluxLeft, start>>

-----------------------------------------------------------------------------
(* invalidate_failing_edges(view): every observer of a subject in flux     *)
(* that is itself in flux or stable counts as a report of the subject.     *)

InvalidateFailingEdges ==
    /\ op = "idle"
    /\ seenLinkDown            \* otherwise the call returns nothing at once
    /\ op' = "invalidate"
    /\ fluxLeft' = preProposal
    /\ start' = Snapshot(preProposal, proposal, reports)
    /\ UNCHANGED <<detector, view, dst, status, ringsLeft, out, emitted>>

\* The outer loop takes the next node of pre_proposal_copy.
VisitNode ==
    /\ op = "invalidate"
    /\ ringsLeft = {}
    /\ \E n \in fluxLeft :
          /\ dst' = n
          /\ status' = IF n \in view.members THEN "down" ELSE "up"
          /\ ringsLeft' = DOMAIN view.observers[n]
          /\ fluxLeft' = fluxLeft \ {n}
    /\ UNCHANGED <<detector, view, op, out, emitted, start>>

\* Mutant: observers that are only in flux do not count.
FailingOnlyIfStable(n) == n \in proposal

Failing(n) == n \in proposal \/ n \in preProposal

\* The inner loop looks at the observer on the next ring.
VisitObserver ==
    /\ op = "invalidate"
    /\ \E r \in ringsLeft :
          /\ \A q \in ringsLeft : r <= q
          /\ ringsLeft' = ringsLeft \ {r}
          /\ \/ /\ Failing(view.observers[dst][r])
                /\ AggregateOne(dst, status, r)
             \/ /\ ~Failing(view.observers[dst][r])
                /\ UNCHANGED <<detector, out, emitted>>
    /\ UNCHANGED <<view, op, dst, status, fluxLeft, start>>

\* Either call hands `out` to the owner, and its local variables are gone.
Return ==
    /\ op \in {"aggregate", "invalidate"}
    /\ ringsLeft = {}
    /\ fluxLeft = {}
    /\ op' = "idle"
    /\ dst' = NoNode
    /\ status' = "up"
    /\ out' = {}
    /\ start' = Snapshot({}, {}, NoReports)
    /\ UNCHANGED <<detector, view, ringsLeft, fluxLeft, emitted>>

Next ==
    \/ Clear
    \/ \E d \in Nodes, s \in {"up", "down"}, rings \in SUBSET Rings :
          Aggregate(d, s, rings)
    \/ AggregateStep
    \/ InvalidateFailingEdges
    \/ VisitNode
    \/ VisitObserver
    \/ Return

Spec == Init /\ [][Next]_vars

-----------------------------------------------------------------------------
(* Properties.                                                             *)

\* Every variable of the detector stays in its type; updates_in_progress never
\* becomes negative although it is a signed counter.
TypeOK ==
    /\ reports \in [Nodes -> SUBSET Rings]
    /\ proposal \subseteq Nodes
    /\ preProposal \subseteq Nodes
    /\ updatesInProgress \in Nat
    /\ proposalCount \in Nat
    /\ seenLinkDown \in BOOLEAN
    /\ view \in Views
    /\ op \in {"idle", "aggregate", "invalidate"}
    /\ dst \in Nodes \cup {NoNode}
    /\ ringsLeft # {} => dst \in Nodes
    /\ status \in {"up", "down"}
    /\ ringsLeft \subseteq Rings
    /\ fluxLeft \subseteq Nodes
    /\ out \subseteq Nodes
    /\ emitted \subseteq Nodes
    /\ start \in [flux : SUBSET Nodes, stable : SUBSET Nodes,
                  reports : [Nodes -> SUBSET Rings]]

InFlux(s) == L <= Tally(s) /\ Tally(s) < H
Stable(s) == Tally(s) >= H

\* pre_proposal and updates_in_progress, which the code maintains incrementally
\* at the two crossings, always agree with the tallies: the counter that gates
\* a proposal counts exactly the subjects between the watermarks.
FluxAccounting ==
    /\ preProposal = {s \in Nodes : InFlux(s)}
    /\ updatesInProgress = Cardinality(preProposal)

\* A subject that reached H is waiting in `proposal` or was returned, never both
\* and never neither: no stable subject is lost when `proposal` is cleared, and
\* none is returned twice, through aggregate or through the invalidation.
StableReturnedOnce ==
    /\ proposal \cup emitted = {s \in Nodes : Stable(s)}
    /\ proposal \cap emitted = {}

\* A stable subject is held back only while some subject is in flux: the detector
\* never sits on a proposal that nothing will release.
HeldBackOnlyByFlux == proposal # {} => updatesInProgress > 0

\* When a call produces a cut, by the tallies themselves no subject is left in
\* flux and every stable subject has been returned (the rule of docs/k-h-l.md).
CutIsComplete ==
    [][proposalCount' = proposalCount + 1 =>
          /\ \A s \in Nodes : ~InFlux(s)'
          /\ emitted' = {s \in Nodes : Stable(s)'}
          /\ emitted' # emitted]_vars

\* What one invalidation computes, as a function of the state it started from:
\* the rings whose observer was suspected at the start count as reports, and the
\* suspects are returned exactly when that makes every subject in flux stable.
Suspects == start.flux \cup start.stable

ImplicitRings(n) ==
    {r \in DOMAIN view.observers[n] : view.observers[n][r] \in Suspects}

ReferenceResult ==
    IF \A n \in start.flux :
          Cardinality(start.reports[n] \cup ImplicitRings(n)) >= H
      THEN Suspects
      ELSE {}

\* invalidate_failing_edges iterates a HashSet copy while it changes the sets its
\* condition reads.  Whatever the iteration order, its result is ReferenceResult:
\* two members with the same reports and view propose the same cut.
InvalidationOrderIndependent ==
    op = "invalidate" /\ ringsLeft = {} /\ fluxLeft = {} => out = ReferenceResult
=============================================================================
