------------------------- MODULE CutDetectorProofs -------------------------
(***************************************************************************)
(* Proofs about CutDetector and the AlertPipeline that drives it, for      *)
(* every set of nodes, every K, H and L the constructor accepts and every  *)
(* set of views.                                                           *)
(*                                                                         *)
(* The accounting is inductive only as a whole: that a subject crossing a  *)
(* watermark was not counted before follows from preProposal being the set *)
(* of subjects in flux, that no subject is returned twice from `proposal`  *)
(* and `emitted` together being the stable subjects, and that the counter  *)
(* reaches zero exactly when no one is in flux from both.  What an         *)
(* invalidation returns needs, besides, where its two loops are.           *)
(***************************************************************************)
EXTENDS AlertPipeline, FiniteSetTheorems, TLAPS

\* The part of TypeOK that a report can disturb.
DetectorTypeOK ==
    /\ reports \in [Nodes -> SUBSET Rings]
    /\ proposal \subseteq Nodes
    /\ preProposal \subseteq Nodes
    /\ updatesInProgress \in Nat
    /\ proposalCount \in Nat
    /\ seenLinkDown \in BOOLEAN
    /\ out \subseteq Nodes
    /\ emitted \subseteq Nodes

Accounting ==
    /\ DetectorTypeOK
    /\ FluxAccounting
    /\ StableReturnedOnce
    /\ HeldBackOnlyByFlux

\* The inductive invariant.
IInv == TypeOK /\ FluxAccounting /\ StableReturnedOnce /\ HeldBackOnlyByFlux

-----------------------------------------------------------------------------
\* A tally is a natural number: the reports of a subject are a set of rings.
LEMMA TallyType ==
    ASSUME DetectorTypeOK, NEW n \in Nodes
    PROVE  Tally(n) \in Nat /\ IsFiniteSet(reports[n])
<1>1. IsFiniteSet(Rings)
  BY WatermarksNat, FS_Interval DEF Rings
<1>2. reports[n] \in SUBSET Rings
  BY DEF DetectorTypeOK
<1>3. IsFiniteSet(reports[n])
  BY <1>1, <1>2, FS_Subset
<1> QED
  BY <1>3, FS_CardinalityType DEF Tally

\* A new report of d raises the tally of d by one and no other.
LEMMA TallyStep ==
    ASSUME DetectorTypeOK, NEW d \in Nodes, NEW r \in Rings, r \notin reports[d],
           reports' = [reports EXCEPT ![d] = @ \cup {r}]
    PROVE  /\ Tally(d)' = Tally(d) + 1
           /\ \A n \in Nodes \ {d} : Tally(n)' = Tally(n)
           /\ reports' \in [Nodes -> SUBSET Rings]
<1>1. reports'[d] = reports[d] \cup {r}
  BY DEF DetectorTypeOK
<1>2. Tally(d)' = Tally(d) + 1
  BY <1>1, TallyType, FS_AddElement DEF Tally
<1>3. \A n \in Nodes \ {d} : Tally(n)' = Tally(n)
  BY DEF DetectorTypeOK, Tally
<1>4. reports' \in [Nodes -> SUBSET Rings]
  BY DEF DetectorTypeOK
<1> QED
  BY <1>2, <1>3, <1>4

\* preProposal is finite, so adding and removing a subject moves its cardinality
\* by one.
LEMMA FluxCardinality ==
    ASSUME DetectorTypeOK, NEW d \in Nodes
    PROVE  /\ Cardinality(preProposal) \in Nat
           /\ Cardinality(preProposal) = 0 <=> preProposal = {}
           /\ d \notin preProposal =>
                 Cardinality(preProposal \cup {d}) = Cardinality(preProposal) + 1
           /\ d \in preProposal =>
                 Cardinality(preProposal \ {d}) = Cardinality(preProposal) - 1
<1>1. IsFiniteSet(preProposal)
  BY NodesFinite, FS_Subset DEF DetectorTypeOK
<1> QED
  BY <1>1, FS_CardinalityType, FS_EmptySet, FS_AddElement, FS_RemoveElement

-----------------------------------------------------------------------------
\* aggregate_one preserves the accounting, whichever of its branches it takes.
LEMMA AggregateOneAccounting ==
    ASSUME Accounting, NEW d \in Nodes, NEW r \in Rings,
           NEW s \in {"up", "down"}, AggregateOne(d, s, r)
    PROVE  Accounting'
<1> DEFINE num == Tally(d) + 1
<1> USE DEF Accounting
<1>0. seenLinkDown' \in BOOLEAN
  BY DEF AggregateOne
<1>1. CASE r \in reports[d]
  <2>1. UNCHANGED <<reports, proposal, preProposal, updatesInProgress,
                    proposalCount, out, emitted>>
    BY <1>1 DEF AggregateOne
  <2>2. \A n : Tally(n)' = Tally(n)
    BY <2>1 DEF Tally
  <2> QED
    BY <1>0, <2>1, <2>2 DEF DetectorTypeOK, FluxAccounting, StableReturnedOnce,
         HeldBackOnlyByFlux, InFlux, Stable
<1>2. CASE r \notin reports[d]
  <2>1. reports' = [reports EXCEPT ![d] = @ \cup {r}]
    BY <1>2 DEF AggregateOne
  <2>2. /\ Tally(d)' = num
        /\ \A n \in Nodes \ {d} : Tally(n)' = Tally(n)
        /\ reports' \in [Nodes -> SUBSET Rings]
    BY <1>2, <2>1, TallyStep
  <2>3. \A n \in Nodes : Tally(n) \in Nat
    BY TallyType
  <2>4. BelowHigh(d, num) \/ HoldProposal(d, num) \/ ReturnProposal(d, num)
    BY <1>2 DEF AggregateOne
  <2>5. d \in preProposal <=> L <= Tally(d) /\ Tally(d) < H
    BY DEF FluxAccounting, InFlux
  <2>6. \A n \in Nodes \ {d} : /\ InFlux(n)' <=> InFlux(n)
                               /\ Stable(n)' <=> Stable(n)
    BY <2>2 DEF InFlux, Stable
  <2>7. /\ InFlux(d)' <=> L <= num /\ num < H
        /\ Stable(d)' <=> num >= H
    BY <2>2 DEF InFlux, Stable
  <2> HIDE DEF num
  <2>8. num \in Nat /\ num = Tally(d) + 1
    BY <2>3 DEF num
  <2>10. CASE BelowHigh(d, num)
    <3>1. num # H
      BY <2>10 DEF BelowHigh, BecomesStable
    <3>2. CASE num = L
      <4>1. preProposal' = preProposal \cup {d} /\ updatesInProgress' = updatesInProgress + 1
        BY <2>10, <3>2 DEF BelowHigh, FluxAfterL, UpdatesAfterL, EntersFlux
      <4>2. d \notin preProposal
        BY <2>5, <2>8, <2>3, <3>2, WatermarksNat
      <4>3. updatesInProgress' = Cardinality(preProposal')
        BY <4>1, <4>2, FluxCardinality DEF FluxAccounting
      <4>4. preProposal' = {n \in Nodes : InFlux(n)'}
        BY <4>1, <2>6, <2>7, <2>8, <3>1, <3>2, WatermarksNat, Watermarks DEF FluxAccounting
      <4>5. ~Stable(d)' /\ ~Stable(d)
        BY <2>7, <2>8, <2>3, <3>1, <3>2, WatermarksNat, Watermarks DEF Stable
      <4>6. UNCHANGED <<proposal, proposalCount, out, emitted>>
        BY <2>10 DEF BelowHigh
      <4>7. StableReturnedOnce'
        BY <4>5, <4>6, <2>6 DEF StableReturnedOnce
      <4>8. HeldBackOnlyByFlux' /\ DetectorTypeOK'
        BY <1>0, <2>2, <4>1, <4>6 DEF HeldBackOnlyByFlux, DetectorTypeOK
      <4> QED
        BY <4>3, <4>4, <4>7, <4>8 DEF FluxAccounting
    <3>3. CASE num # L
      <4>1. preProposal' = preProposal /\ updatesInProgress' = updatesInProgress
        BY <2>10, <3>3, <2>8 DEF BelowHigh, FluxAfterL, UpdatesAfterL, EntersFlux, DetectorTypeOK
      <4>2. InFlux(d)' <=> InFlux(d)
        BY <2>7, <2>8, <2>3, <3>1, <3>3, WatermarksNat DEF InFlux
      <4>3. Stable(d)' <=> Stable(d)
        BY <2>7, <2>8, <2>3, <3>1, WatermarksNat DEF Stable
      <4>4. UNCHANGED <<proposal, proposalCount, out, emitted>>
        BY <2>10 DEF BelowHigh
      <4>5. FluxAccounting' /\ StableReturnedOnce'
        BY <4>1, <4>2, <4>3, <4>4, <2>6 DEF FluxAccounting, StableReturnedOnce
      <4> QED
        BY <1>0, <2>2, <4>1, <4>4, <4>5 DEF HeldBackOnlyByFlux, DetectorTypeOK
    <3> QED
      BY <3>2, <3>3
  <2>11. ASSUME AtHigh(d, num)
         PROVE  /\ preProposal' = {n \in Nodes : InFlux(n)'}
                /\ updatesInProgress' = Cardinality(preProposal')
                /\ updatesInProgress' = UpdatesAfterL(num) - 1
                /\ updatesInProgress' \in Nat
                /\ ~Stable(d)
                /\ Stable(d)'
    <3>1. num = H
      BY <2>11 DEF AtHigh, BecomesStable
    <3>2. preProposal' = preProposal \ {d}
      BY <2>11, <3>1 DEF AtHigh, FluxAfterL
    <3>3. ~InFlux(d)' /\ ~Stable(d) /\ Stable(d)'
      BY <2>7, <2>8, <2>3, <3>1, WatermarksNat DEF Stable
    <3>4. preProposal' = {n \in Nodes : InFlux(n)'}
      BY <3>2, <3>3, <2>6 DEF FluxAccounting
    <3>5. updatesInProgress' = Cardinality(preProposal')
      <4>1. CASE num = L
        <5>1. d \notin preProposal
          BY <2>5, <2>8, <2>3, <4>1, WatermarksNat
        <5>2. preProposal' = preProposal /\ updatesInProgress' = updatesInProgress
          BY <5>1, <3>2, <4>1, <2>11
            DEF AtHigh, UpdatesAfterL, EntersFlux, DetectorTypeOK
        <5> QED
          BY <5>2 DEF FluxAccounting
      <4>2. CASE num # L
        <5>1. d \in preProposal
          BY <2>5, <2>8, <2>3, <4>2, <3>1, WatermarksNat, Watermarks
        <5>2. updatesInProgress' = updatesInProgress - 1
          BY <4>2, <2>11 DEF AtHigh, UpdatesAfterL, EntersFlux, DetectorTypeOK
        <5> QED
          BY <5>1, <5>2, <3>2, FluxCardinality DEF FluxAccounting
      <4> QED
        BY <4>1, <4>2
    <3>6. updatesInProgress' \in Nat
      <4>1. IsFiniteSet(preProposal')
        BY <3>2, NodesFinite, FS_Subset DEF DetectorTypeOK
      <4> QED
        BY <4>1, <3>5, FS_CardinalityType
    <3> QED
      BY <3>3, <3>4, <3>5, <3>6, <2>11 DEF AtHigh
  <2>12. CASE HoldProposal(d, num)
    <3>1. AtHigh(d, num) /\ ~LastInFlux(num)
      BY <2>12 DEF HoldProposal
    <3>2. proposal' = proposal \cup {d} /\ UNCHANGED <<proposalCount, out, emitted>>
      BY <2>12 DEF HoldProposal
    <3>3. FluxAccounting'
      BY <3>1, <2>11 DEF FluxAccounting
    <3>4. StableReturnedOnce'
      BY <3>1, <3>2, <2>11, <2>6 DEF StableReturnedOnce
    <3>5. HeldBackOnlyByFlux'
      <4>1. updatesInProgress' \in Nat /\ updatesInProgress' # 0
        BY <3>1, <2>11 DEF LastInFlux
      <4> QED
        BY <4>1 DEF HeldBackOnlyByFlux
    <3>6. DetectorTypeOK'
      BY <1>0, <2>2, <3>1, <3>2, <2>11 DEF DetectorTypeOK
    <3> QED
      BY <3>3, <3>4, <3>5, <3>6
  <2>13. CASE ReturnProposal(d, num)
    <3>1. AtHigh(d, num)
      BY <2>13 DEF ReturnProposal
    <3>2. /\ proposal' = {}
          /\ proposalCount' = proposalCount + 1
          /\ out' = out \cup proposal \cup {d}
          /\ emitted' = emitted \cup proposal \cup {d}
      BY <2>13 DEF ReturnProposal
    <3>3. FluxAccounting'
      BY <3>1, <2>11 DEF FluxAccounting
    <3>4. StableReturnedOnce'
      BY <3>1, <3>2, <2>11, <2>6 DEF StableReturnedOnce
    <3>5. HeldBackOnlyByFlux'
      BY <3>2 DEF HeldBackOnlyByFlux
    <3>6. DetectorTypeOK'
      BY <1>0, <2>2, <3>1, <3>2, <2>11 DEF DetectorTypeOK
    <3> QED
      BY <3>3, <3>4, <3>5, <3>6
  <2> QED
    BY <2>4, <2>10, <2>12, <2>13
<1> QED
  BY <1>1, <1>2

-----------------------------------------------------------------------------
\* A new detector satisfies the invariant.
LEMMA InitIInv == Init => IInv
<1> SUFFICES ASSUME Init PROVE IInv
  OBVIOUS
<1>1. \A n \in Nodes : Tally(n) = 0
  BY FS_EmptySet DEF Init, NoReports, Tally
<1>2. {n \in Nodes : InFlux(n)} = {} /\ {n \in Nodes : Stable(n)} = {}
  BY <1>1, WatermarksNat, Watermarks DEF InFlux, Stable
<1>3. TypeOK
  BY DEF Init, TypeOK, NoReports, Snapshot
<1> QED
  BY <1>2, <1>3, FS_EmptySet
     DEF Init, IInv, FluxAccounting, StableReturnedOnce, HeldBackOnlyByFlux

\* IInv is Accounting together with the types of the call's local variables.
LEMMA IInvAccounting == IInv => Accounting
BY DEF IInv, Accounting, TypeOK, DetectorTypeOK

\* A step that leaves the detector and the returned subjects alone keeps the
\* three accounting invariants.
LEMMA DetectorUnchanged ==
    ASSUME IInv, UNCHANGED <<detector, emitted>>
    PROVE  FluxAccounting' /\ StableReturnedOnce' /\ HeldBackOnlyByFlux'
<1>1. \A n : Tally(n)' = Tally(n)
  BY DEF Tally, detector
<1> QED
  BY <1>1 DEF IInv, FluxAccounting, StableReturnedOnce, HeldBackOnlyByFlux,
              InFlux, Stable, detector

\* The rings a view lists for a node are rings.
LEMMA ObserverRings ==
    ASSUME TypeOK, NEW n \in Nodes
    PROVE  DOMAIN view.observers[n] \subseteq Rings
<1>1. view \in ViewType
  BY ViewsTyped DEF TypeOK
<1>2. view.observers[n] \in [Rings -> Nodes] \cup {<<>>}
  BY <1>1 DEF ViewType
<1>3. DOMAIN <<>> = {}
  OBVIOUS
<1> QED
  BY <1>2, <1>3

\* Every step of the detector preserves the invariant.
LEMMA NextIInv == IInv /\ [Next]_vars => IInv'
<1> SUFFICES ASSUME IInv, [Next]_vars PROVE IInv'
  OBVIOUS
<1>0. TypeOK /\ Accounting
  BY IInvAccounting DEF IInv
<1>1. CASE Clear
  <2>1. \A n \in Nodes : Tally(n)' = 0
    BY <1>1, FS_EmptySet DEF Clear, NoReports, Tally
  <2>2. {n \in Nodes : InFlux(n)'} = {} /\ {n \in Nodes : Stable(n)'} = {}
    BY <2>1, WatermarksNat, Watermarks DEF InFlux, Stable
  <2>3. TypeOK'
    BY <1>0, <1>1 DEF Clear, TypeOK, NoReports, control
  <2> QED
    BY <1>1, <2>2, <2>3, FS_EmptySet
       DEF Clear, IInv, FluxAccounting, StableReturnedOnce, HeldBackOnlyByFlux
<1>2. ASSUME NEW d \in Nodes, NEW s \in {"up", "down"},
             NEW rings \in SUBSET Rings, Aggregate(d, s, rings)
      PROVE  IInv'
  <2>1. TypeOK'
    BY <1>0, <1>2 DEF Aggregate, TypeOK, detector
  <2> QED
    BY <1>2, <2>1, DetectorUnchanged DEF Aggregate, IInv
<1>3. CASE AggregateStep
  <2>1. PICK r \in ringsLeft : /\ AggregateOne(dst, status, r)
                               /\ ringsLeft' = ringsLeft \ {r}
    BY <1>3 DEF AggregateStep
  <2>2. dst \in Nodes /\ r \in Rings /\ status \in {"up", "down"}
    BY <1>0, <2>1 DEF TypeOK
  <2>3. Accounting'
    BY <1>0, <2>1, <2>2, AggregateOneAccounting
  <2>4. TypeOK'
    BY <1>0, <1>3, <2>1, <2>2, <2>3
       DEF AggregateStep, TypeOK, Accounting, DetectorTypeOK
  <2> QED
    BY <2>3, <2>4 DEF Accounting, IInv
<1>4. CASE InvalidateFailingEdges
  <2>1. TypeOK'
    BY <1>0, <1>4 DEF InvalidateFailingEdges, TypeOK, detector, Snapshot
  <2> QED
    BY <1>4, <2>1, DetectorUnchanged DEF InvalidateFailingEdges, IInv
<1>5. CASE VisitNode
  <2>1. PICK n \in fluxLeft :
          /\ dst' = n
          /\ status' = IF n \in view.members THEN "down" ELSE "up"
          /\ ringsLeft' = DOMAIN view.observers[n]
          /\ fluxLeft' = fluxLeft \ {n}
    BY <1>5 DEF VisitNode
  <2>2. n \in Nodes
    BY <1>0, <2>1 DEF TypeOK
  <2>3. ringsLeft' \subseteq Rings
    BY <1>0, <2>1, <2>2, ObserverRings
  <2>4. TypeOK'
    BY <1>0, <1>5, <2>1, <2>2, <2>3 DEF VisitNode, TypeOK, detector
  <2> QED
    BY <1>5, <2>4, DetectorUnchanged DEF VisitNode, IInv
<1>6. CASE VisitObserver
  <2>1. PICK r \in ringsLeft :
          /\ ringsLeft' = ringsLeft \ {r}
          /\ \/ AggregateOne(dst, status, r)
             \/ UNCHANGED <<detector, out, emitted>>
    BY <1>6 DEF VisitObserver
  <2>2. dst \in Nodes /\ r \in Rings /\ status \in {"up", "down"}
    BY <1>0, <2>1 DEF TypeOK
  <2>3. CASE AggregateOne(dst, status, r)
    <3>1. Accounting'
      BY <1>0, <2>2, <2>3, AggregateOneAccounting
    <3>2. TypeOK'
      BY <1>0, <1>6, <2>1, <2>2, <3>1
         DEF VisitObserver, TypeOK, Accounting, DetectorTypeOK
    <3> QED
      BY <3>1, <3>2 DEF Accounting, IInv
  <2>4. CASE UNCHANGED <<detector, out, emitted>>
    <3>1. TypeOK'
      BY <1>0, <1>6, <2>1, <2>2, <2>4 DEF VisitObserver, TypeOK, detector
    <3> QED
      BY <2>4, <3>1, DetectorUnchanged DEF IInv
  <2> QED
    BY <2>1, <2>3, <2>4
<1>7. CASE Return
  <2>1. TypeOK'
    BY <1>0, <1>7 DEF Return, TypeOK, detector, Snapshot, NoReports
  <2> QED
    BY <1>7, <2>1, DetectorUnchanged DEF Return, IInv
<1>8. CASE UNCHANGED vars
  <2>1. TypeOK'
    BY <1>0, <1>8 DEF vars, TypeOK, detector, control
  <2> QED
    BY <1>8, <2>1, DetectorUnchanged DEF vars, IInv
<1> QED
  BY <1>1, <1>2, <1>3, <1>4, <1>5, <1>6, <1>7, <1>8 DEF Next

\* The detector keeps its types and its accounting in every reachable state.
THEOREM Invariance == Spec => []IInv
<1>1. Init => IInv
  BY InitIInv
<1>2. IInv /\ [Next]_vars => IInv'
  BY NextIInv
<1> QED
  BY <1>1, <1>2, PTL DEF Spec

\* Type correctness; in particular updates_in_progress, a signed counter in the
\* code, never becomes negative.
THEOREM TypeCorrect == Spec => []TypeOK
<1>1. IInv => TypeOK
  BY DEF IInv
<1> QED
  BY <1>1, Invariance, PTL

\* updates_in_progress always counts exactly the subjects between the watermarks.
THEOREM FluxAccounted == Spec => []FluxAccounting
<1>1. IInv => FluxAccounting
  BY DEF IInv
<1> QED
  BY <1>1, Invariance, PTL

\* A stable subject waits in `proposal` or has been returned, exactly once.
THEOREM ReturnedOnce == Spec => []StableReturnedOnce
<1>1. IInv => StableReturnedOnce
  BY DEF IInv
<1> QED
  BY <1>1, Invariance, PTL

\* A proposal is held back only while a subject is in flux.
THEOREM HeldBack == Spec => []HeldBackOnlyByFlux
<1>1. IInv => HeldBackOnlyByFlux
  BY DEF IInv
<1> QED
  BY <1>1, Invariance, PTL

\* Only the branch of aggregate_one that returns the proposal raises the count,
\* and the subject that triggers it was not stable before.
LEMMA CountRaised ==
    ASSUME IInv, Next, proposalCount' = proposalCount + 1
    PROVE  /\ updatesInProgress' = 0
           /\ proposal' = {}
           /\ \E d \in Nodes : d \in emitted' /\ ~Stable(d)
<1>0. TypeOK /\ Accounting /\ proposalCount \in Nat
  BY IInvAccounting DEF IInv, TypeOK
<1>1. proposalCount' # proposalCount /\ proposalCount' # 0
  BY <1>0
<1>2. PICK r \in ringsLeft : AggregateOne(dst, status, r)
  BY <1>1 DEF Next, Clear, Aggregate, AggregateStep, InvalidateFailingEdges,
              VisitNode, VisitObserver, Return, detector
<1>3. dst \in Nodes
  BY <1>0, <1>2 DEF TypeOK
<1> DEFINE num == Tally(dst) + 1
<1>4. ReturnProposal(dst, num)
  BY <1>1, <1>2 DEF AggregateOne, BelowHigh, HoldProposal
<1>5. num = H /\ updatesInProgress' = UpdatesAfterL(num) - 1 /\ LastInFlux(num)
  BY <1>4 DEF ReturnProposal, AtHigh, BecomesStable
<1>6. updatesInProgress' = 0
  BY <1>5 DEF LastInFlux
<1>7. ~Stable(dst)
  BY <1>0, <1>3, <1>5, TallyType, WatermarksNat DEF Stable, Accounting
<1>8. proposal' = {} /\ dst \in emitted'
  BY <1>4 DEF ReturnProposal
<1> QED
  BY <1>3, <1>6, <1>7, <1>8

\* Whenever aggregate or the invalidation returns a cut, no subject is in flux by
\* its tally and every stable subject has been returned: the rule of k-h-l.md.
THEOREM CutComplete == Spec => CutIsComplete
<1> DEFINE A == proposalCount' = proposalCount + 1 =>
                   /\ \A s \in Nodes : ~InFlux(s)'
                   /\ emitted' = {s \in Nodes : Stable(s)'}
                   /\ emitted' # emitted
<1>1. ASSUME IInv, IInv', [Next]_vars PROVE [A]_vars
  <2> SUFFICES ASSUME Next, proposalCount' = proposalCount + 1
               PROVE  /\ \A s \in Nodes : ~InFlux(s)'
                      /\ emitted' = {s \in Nodes : Stable(s)'}
                      /\ emitted' # emitted
    BY <1>1
  <2>1. updatesInProgress' = 0 /\ proposal' = {}
    BY <1>1, CountRaised
  <2>2. PICK d \in Nodes : d \in emitted' /\ ~Stable(d)
    BY <1>1, CountRaised
  <2>3. preProposal' = {}
    <3>1. IsFiniteSet(preProposal')
      BY <1>1, NodesFinite, FS_Subset DEF IInv, TypeOK
    <3> QED
      BY <1>1, <2>1, <3>1, FS_EmptySet DEF IInv, FluxAccounting
  <2>4. \A s \in Nodes : ~InFlux(s)'
    BY <1>1, <2>3 DEF IInv, FluxAccounting
  <2>5. emitted' = {s \in Nodes : Stable(s)'}
    BY <1>1, <2>1 DEF IInv, StableReturnedOnce
  <2>6. d \notin emitted
    BY <1>1, <2>2 DEF IInv, StableReturnedOnce
  <2> QED
    BY <2>2, <2>4, <2>5, <2>6
<1> QED
  BY <1>1, Invariance, PTL DEF Spec, CutIsComplete

-----------------------------------------------------------------------------
(* What an invalidation has done so far, as a function of its start.       *)

\* No local variable of a call survives it.
CallsEnd ==
    /\ op = "idle" => ringsLeft = {} /\ fluxLeft = {} /\ out = {} /\ dst = NoNode
    /\ op = "aggregate" => fluxLeft = {}

\* The loops have still to visit fluxLeft, and ringsLeft of dst, all of them
\* subjects in flux at the start; no other subject was in flux then.
LoopsOverFlux ==
    /\ dst \in start.flux \cup {NoNode}
    /\ fluxLeft \subseteq start.flux /\ dst \notin fluxLeft
    /\ \A n \in Nodes : n \in start.flux <=> /\ L <= Cardinality(start.reports[n])
                                             /\ Cardinality(start.reports[n]) < H
    /\ ringsLeft # {} => ringsLeft \subseteq DOMAIN view.observers[dst]

\* The implicit reports that the loops have already recorded.
Recorded(n) ==
    IF n \notin start.flux \/ n \in fluxLeft THEN {}
    ELSE IF n = dst THEN ImplicitRings(n) \ ringsLeft
    ELSE ImplicitRings(n)

\* Until the invalidation returns a cut, its suspects are those of the start and the
\* reports are those of the start and the recorded ones.
NothingReturned ==
    /\ out = {}
    /\ preProposal \cup proposal = Suspects
    /\ \A n \in Nodes : reports[n] = start.reports[n] \cup Recorded(n)

\* Once it does, all suspects are returned, no one is suspected any more, and
\* the rest of the loops finds nothing.
SuspectsReturned ==
    /\ out = Suspects
    /\ preProposal = {} /\ proposal = {}
    /\ \A n \in start.flux : Cardinality(start.reports[n] \cup ImplicitRings(n)) >= H

InvalidationSoFar ==
    op = "invalidate" => LoopsOverFlux /\ (NothingReturned \/ SuspectsReturned)

\* The batch in progress has joined what the detector returned since the view
\* change, and between batches the proposal is all of it.
BatchSoFar ==
    /\ stage \in {"idle", "alerts", "invalidate"}
    /\ stage = "idle" => /\ op = "idle" /\ joined = {}
                         /\ announced = (emitted # {}) /\ proposed = emitted
    /\ stage = "alerts" => op \in {"idle", "aggregate"}
    /\ stage = "invalidate" => op = "invalidate"
    /\ stage # "idle" => joined \cup out = emitted

\* Sets of rings have cardinalities, and a larger one is at least as numerous.
LEMMA RingsCardinality ==
    ASSUME NEW S, NEW T, S \subseteq T, T \subseteq Rings
    PROVE  /\ Cardinality(S) \in Nat /\ Cardinality(T) \in Nat
           /\ Cardinality(S) <= Cardinality(T)
<1>1. IsFiniteSet(Rings)
  BY WatermarksNat, FS_Interval DEF Rings
<1>2. IsFiniteSet(T)
  BY <1>1, FS_Subset
<1> QED
  BY <1>2, FS_Subset, FS_CardinalityType

\* The first detector is idle, with no local variable set.
LEMMA InitCallsEnd == Init => CallsEnd /\ InvalidationSoFar
BY DEF Init, CallsEnd, InvalidationSoFar

\* No step leaves a local variable of a call set when the call returns.
LEMMA NextCallsEnd == CallsEnd /\ [Next]_vars => CallsEnd'
<1> SUFFICES ASSUME CallsEnd, [Next]_vars PROVE CallsEnd'
  OBVIOUS
<1>1. CASE Clear
  BY <1>1 DEF Clear, CallsEnd, control
<1>2. ASSUME NEW d \in Nodes, NEW s \in {"up", "down"},
             NEW rings \in SUBSET Rings, Aggregate(d, s, rings)
      PROVE  CallsEnd'
  BY <1>2 DEF Aggregate, CallsEnd
<1>3. CASE AggregateStep
  BY <1>3 DEF AggregateStep, CallsEnd
<1>4. CASE InvalidateFailingEdges
  BY <1>4 DEF InvalidateFailingEdges, CallsEnd
<1>5. CASE VisitNode
  BY <1>5 DEF VisitNode, CallsEnd
<1>6. CASE VisitObserver
  BY <1>6 DEF VisitObserver, CallsEnd
<1>7. CASE Return
  BY <1>7 DEF Return, CallsEnd
<1>8. CASE UNCHANGED vars
  BY <1>8 DEF vars, control, CallsEnd
<1> QED
  BY <1>1, <1>2, <1>3, <1>4, <1>5, <1>6, <1>7, <1>8 DEF Next

\* An implicit report of dst keeps the suspects together: dst moves from flux to
\* the proposal, or it was the last in flux and all suspects are returned.
LEMMA ImplicitReport ==
    ASSUME IInv, LoopsOverFlux, NothingReturned,
           NEW r \in ringsLeft, r \in ImplicitRings(dst),
           AggregateOne(dst, status, r), ringsLeft' = ringsLeft \ {r},
           UNCHANGED <<view, dst, fluxLeft, start>>
    PROVE  NothingReturned' \/ SuspectsReturned'
<1> DEFINE num == Tally(dst) + 1
<1>0. TypeOK /\ Accounting /\ DetectorTypeOK
  BY IInvAccounting DEF IInv, Accounting
<1>1. /\ dst \in Nodes /\ dst \in start.flux /\ dst \notin fluxLeft
      /\ r \in Rings /\ status \in {"up", "down"}
      /\ start.flux \subseteq Nodes
      /\ \A n \in Nodes : start.reports[n] \subseteq Rings
  BY <1>0, NoNodeOutside DEF TypeOK, LoopsOverFlux
<1>2. Accounting'
  BY <1>0, <1>1, AggregateOneAccounting
<1>3. Suspects' = Suspects /\ \A n : ImplicitRings(n)' = ImplicitRings(n)
  BY DEF Suspects, ImplicitRings
<1>4. reports'[dst] = reports[dst] \cup {r}
      /\ \A n \in Nodes \ {dst} : reports'[n] = reports[n]
  BY <1>0, <1>1 DEF AggregateOne, DetectorTypeOK
<1>5. \A n \in Nodes : reports'[n] = start.reports[n] \cup Recorded(n)'
  <2>1. Recorded(dst)' = Recorded(dst) \cup {r}
    BY <1>1, <1>3 DEF Recorded
  <2>2. \A n \in Nodes \ {dst} : Recorded(n)' = Recorded(n)
    BY <1>3 DEF Recorded
  <2> QED
    BY <1>1, <1>4, <2>1, <2>2 DEF NothingReturned
<1>6. CASE r \in reports[dst]
  <2>1. UNCHANGED <<proposal, preProposal, out>>
    BY <1>6 DEF AggregateOne
  <2> QED
    BY <1>3, <1>5, <2>1 DEF NothingReturned
<1>7. CASE r \notin reports[dst]
  <2>1. L <= Tally(dst) /\ Tally(dst) \in Nat
    <3>1. start.reports[dst] \subseteq reports[dst] /\ reports[dst] \subseteq Rings
      BY <1>0, <1>1 DEF NothingReturned, DetectorTypeOK
    <3>2. Cardinality(start.reports[dst]) <= Tally(dst)
          /\ Cardinality(start.reports[dst]) \in Nat /\ Tally(dst) \in Nat
      BY <3>1, RingsCardinality DEF Tally
    <3>3. L <= Cardinality(start.reports[dst])
      BY <1>1 DEF LoopsOverFlux
    <3> QED
      BY <3>2, <3>3, WatermarksNat
  <2>2. ~EntersFlux(num) /\ num \in Nat
    BY <2>1, WatermarksNat DEF EntersFlux
  <2>3. FluxAfterL(dst, num) = preProposal /\ UpdatesAfterL(num) = updatesInProgress
    BY <1>0, <2>2 DEF FluxAfterL, UpdatesAfterL, DetectorTypeOK
  <2>4. num = H => dst \in preProposal
    <3>1. num = H => InFlux(dst)
      BY <2>1, WatermarksNat DEF InFlux
    <3> QED
      BY <1>1, <3>1 DEF IInv, FluxAccounting
  <2>5. BelowHigh(dst, num) \/ HoldProposal(dst, num) \/ ReturnProposal(dst, num)
    BY <1>7 DEF AggregateOne
  <2> HIDE DEF num
  <2>6. CASE BelowHigh(dst, num)
    BY <1>3, <1>5, <2>3, <2>6 DEF BelowHigh, NothingReturned
  <2>7. CASE HoldProposal(dst, num)
    <3>1. /\ preProposal' = preProposal \ {dst} /\ proposal' = proposal \cup {dst}
          /\ dst \in preProposal /\ out' = out
      BY <2>3, <2>4, <2>7 DEF HoldProposal, AtHigh, BecomesStable
    <3>2. preProposal' \cup proposal' = preProposal \cup proposal
      BY <3>1
    <3> QED
      BY <1>3, <1>5, <3>1, <3>2 DEF NothingReturned
  <2>8. CASE ReturnProposal(dst, num)
    <3>1. /\ preProposal' = preProposal \ {dst} /\ proposal' = {}
          /\ dst \in preProposal /\ out' = out \cup proposal \cup {dst}
      BY <2>3, <2>4, <2>8 DEF ReturnProposal, AtHigh, BecomesStable
    <3>2. Cardinality(preProposal) = 1
      BY <1>0, <2>3, <2>8
         DEF ReturnProposal, LastInFlux, IInv, FluxAccounting, DetectorTypeOK
    <3>3. preProposal = {dst}
      <4>1. IsFiniteSet(preProposal)
        BY <1>0, NodesFinite, FS_Subset DEF DetectorTypeOK
      <4> QED
        BY <3>1, <3>2, <4>1, FS_Singleton
    <3>4. out' = Suspects' /\ preProposal' = {}
      BY <1>3, <3>1, <3>3 DEF NothingReturned
    <3>5. ASSUME NEW n \in start.flux
          PROVE  Cardinality(start.reports[n] \cup ImplicitRings(n)) >= H
      <4>1. n \in Nodes /\ ~InFlux(n)'
        BY <1>1, <1>2, <3>4 DEF Accounting, FluxAccounting
      <4>2. reports'[n] \subseteq start.reports[n] \cup ImplicitRings(n)
        BY <1>3, <1>5, <4>1 DEF Recorded
      <4>3. start.reports[n] \cup ImplicitRings(n) \subseteq Rings
        BY <1>0, <1>1, <4>1, ObserverRings DEF ImplicitRings
      <4>4. /\ Tally(n)' <= Cardinality(start.reports[n] \cup ImplicitRings(n))
            /\ Tally(n)' \in Nat
            /\ Cardinality(start.reports[n] \cup ImplicitRings(n)) \in Nat
        BY <4>2, <4>3, RingsCardinality DEF Tally
      <4>5. start.reports[n] \subseteq reports'[n] /\ reports'[n] \subseteq Rings
        BY <1>5, <4>1, <4>2, <4>3
      <4>6. Cardinality(start.reports[n]) <= Tally(n)'
            /\ Cardinality(start.reports[n]) \in Nat
        BY <4>5, RingsCardinality DEF Tally
      <4>7. L <= Cardinality(start.reports[n])
        BY <4>1 DEF LoopsOverFlux
      <4>8. Tally(n)' >= H
        BY <4>1, <4>4, <4>6, <4>7, WatermarksNat DEF InFlux
      <4> QED
        BY <4>4, <4>8, WatermarksNat
    <3> QED
      BY <1>3, <3>1, <3>4, <3>5 DEF SuspectsReturned
  <2> QED
    BY <2>5, <2>6, <2>7, <2>8
<1> QED
  BY <1>6, <1>7

\* Each iteration of the two loops keeps the invalidation on its course.
LEMMA NextInvalidation ==
    ASSUME IInv, CallsEnd, InvalidationSoFar, [Next]_vars
    PROVE  InvalidationSoFar'
<1>0. TypeOK /\ Accounting /\ DetectorTypeOK
  BY IInvAccounting DEF IInv, Accounting
<1>1. CASE InvalidateFailingEdges
  <2>1. /\ start' = [flux |-> preProposal, stable |-> proposal, reports |-> reports]
        /\ fluxLeft' = preProposal /\ op = "idle"
        /\ UNCHANGED <<reports, proposal, preProposal, view, dst, ringsLeft, out>>
    BY <1>1 DEF InvalidateFailingEdges, Snapshot, detector
  <2>2. dst = NoNode /\ ringsLeft = {} /\ out = {}
    BY <2>1 DEF CallsEnd
  <2>3. start'.flux = preProposal /\ start'.stable = proposal /\ start'.reports = reports
    BY <2>1
  <2>4. preProposal \subseteq Nodes /\ dst \notin preProposal
    BY <1>0, <2>2, NoNodeOutside DEF TypeOK
  <2>5. \A n \in Nodes : n \in preProposal <=> L <= Tally(n) /\ Tally(n) < H
    BY DEF IInv, FluxAccounting, InFlux
  <2>6. LoopsOverFlux'
    BY <2>1, <2>2, <2>3, <2>4, <2>5 DEF LoopsOverFlux, Tally
  <2>7. \A n : Recorded(n)' = {}
    BY <2>1, <2>3 DEF Recorded
  <2>8. NothingReturned'
    BY <2>1, <2>2, <2>3, <2>7 DEF NothingReturned, Suspects
  <2> QED
    BY <2>6, <2>8 DEF InvalidationSoFar
<1>2. CASE VisitNode
  <2>1. PICK n \in fluxLeft :
          /\ dst' = n
          /\ ringsLeft' = DOMAIN view.observers[n]
          /\ fluxLeft' = fluxLeft \ {n}
    BY <1>2 DEF VisitNode
  <2>2. /\ op = "invalidate" /\ ringsLeft = {}
        /\ UNCHANGED <<reports, proposal, preProposal, view, op, out, start>>
    BY <1>2 DEF VisitNode, detector
  <2>3. LoopsOverFlux
    BY <2>2 DEF InvalidationSoFar
  <2>4. LoopsOverFlux'
    BY <2>1, <2>2, <2>3 DEF LoopsOverFlux
  <2>5. Suspects' = Suspects /\ \A k : ImplicitRings(k)' = ImplicitRings(k)
    BY <2>2 DEF Suspects, ImplicitRings
  <2>6. SuspectsReturned => SuspectsReturned'
    BY <2>2, <2>5 DEF SuspectsReturned
  <2>7. \A k \in Nodes : Recorded(k)' = Recorded(k)
    <3> SUFFICES ASSUME NEW k \in Nodes PROVE Recorded(k)' = Recorded(k)
      OBVIOUS
    <3>1. start' = start /\ n \in start.flux
      BY <2>1, <2>2, <2>3 DEF LoopsOverFlux
    <3>2. CASE k = n
      BY <2>1, <2>5, <3>1, <3>2 DEF Recorded, ImplicitRings
    <3>3. CASE k # n
      BY <2>1, <2>2, <2>5, <3>1, <3>3 DEF Recorded
    <3> QED
      BY <3>2, <3>3
  <2>8. NothingReturned => NothingReturned'
    BY <2>2, <2>5, <2>7 DEF NothingReturned
  <2> QED
    BY <2>2, <2>4, <2>6, <2>8 DEF InvalidationSoFar
<1>3. CASE VisitObserver
  <2>1. PICK r \in ringsLeft :
          /\ ringsLeft' = ringsLeft \ {r}
          /\ \/ /\ Failing(view.observers[dst][r])
                /\ AggregateOne(dst, status, r)
             \/ /\ ~Failing(view.observers[dst][r])
                /\ UNCHANGED <<detector, out, emitted>>
    BY <1>3 DEF VisitObserver
  <2>2. op = "invalidate" /\ UNCHANGED <<view, op, dst, fluxLeft, start>>
    BY <1>3 DEF VisitObserver
  <2>3. LoopsOverFlux /\ (NothingReturned \/ SuspectsReturned)
    BY <2>2 DEF InvalidationSoFar
  <2>4. LoopsOverFlux'
    BY <2>1, <2>2, <2>3 DEF LoopsOverFlux
  <2>5. Suspects' = Suspects /\ \A k : ImplicitRings(k)' = ImplicitRings(k)
    BY <2>2 DEF Suspects, ImplicitRings
  <2>6. r \in DOMAIN view.observers[dst]
    BY <2>1, <2>3 DEF LoopsOverFlux
  <2>7. CASE SuspectsReturned
    <3>1. ~Failing(view.observers[dst][r])
      BY <2>7 DEF SuspectsReturned, Failing
    <3>2. SuspectsReturned'
      BY <2>1, <2>2, <2>5, <2>7, <3>1 DEF SuspectsReturned, detector
    <3> QED
      BY <2>4, <3>2 DEF InvalidationSoFar
  <2>8. CASE NothingReturned
    <3>1. Failing(view.observers[dst][r]) <=> r \in ImplicitRings(dst)
      BY <2>6, <2>8 DEF Failing, NothingReturned, ImplicitRings
    <3>2. CASE r \in ImplicitRings(dst)
      <4>1. AggregateOne(dst, status, r)
        BY <2>1, <3>1, <3>2
      <4>2. NothingReturned' \/ SuspectsReturned'
        BY <2>1, <2>2, <2>3, <2>8, <3>2, <4>1, ImplicitReport
      <4> QED
        BY <2>4, <4>2 DEF InvalidationSoFar
    <3>3. CASE r \notin ImplicitRings(dst)
      <4>1. UNCHANGED <<reports, proposal, preProposal, out>>
        BY <2>1, <3>1, <3>3 DEF detector
      <4>2. \A n : Recorded(n)' = Recorded(n)
        BY <2>1, <2>2, <2>5, <3>3 DEF Recorded
      <4>3. NothingReturned'
        BY <2>2, <2>5, <2>8, <4>1, <4>2 DEF NothingReturned
      <4> QED
        BY <2>4, <4>3 DEF InvalidationSoFar
    <3> QED
      BY <3>2, <3>3
  <2> QED
    BY <2>3, <2>7, <2>8
<1>4. CASE op' # "invalidate"
  BY <1>4 DEF InvalidationSoFar
<1>5. CASE UNCHANGED vars
  BY <1>5 DEF vars, detector, control, InvalidationSoFar, LoopsOverFlux,
              NothingReturned, SuspectsReturned, Suspects, Recorded, ImplicitRings
<1>6. ASSUME NEW d \in Nodes, NEW s \in {"up", "down"},
             NEW rings \in SUBSET Rings, Aggregate(d, s, rings)
      PROVE  op' # "invalidate"
  BY <1>6 DEF Aggregate
<1>7. Clear \/ AggregateStep \/ Return => op' # "invalidate"
  BY DEF Clear, AggregateStep, Return, control
<1> QED
  BY <1>1, <1>2, <1>3, <1>4, <1>5, <1>6, <1>7 DEF Next

\* Calls clean up, and an invalidation has done what the reference says so far.
LEMMA CallsInvariance == Spec => [](CallsEnd /\ InvalidationSoFar)
<1>1. Init => CallsEnd /\ InvalidationSoFar
  BY InitCallsEnd
<1>2. IInv /\ CallsEnd /\ InvalidationSoFar /\ [Next]_vars
        => CallsEnd' /\ InvalidationSoFar'
  BY NextCallsEnd, NextInvalidation
<1> QED
  BY <1>1, <1>2, Invariance, PTL DEF Spec

\* invalidate_failing_edges returns the same subjects whatever the iteration order
\* of its HashSet copy, although it changes the sets its condition reads: members
\* with the same reports and the same view extend their cuts in the same way.
THEOREM InvalidationDeterministic == Spec => []InvalidationOrderIndependent
<1>1. IInv /\ InvalidationSoFar => InvalidationOrderIndependent
  <2> SUFFICES ASSUME IInv, InvalidationSoFar, op = "invalidate",
                      ringsLeft = {}, fluxLeft = {}
               PROVE  out = ReferenceResult
    BY DEF InvalidationOrderIndependent
  <2>0. TypeOK /\ LoopsOverFlux
    BY DEF IInv, InvalidationSoFar
  <2>1. start.flux \subseteq Nodes /\ \A n \in Nodes : start.reports[n] \subseteq Rings
    BY <2>0 DEF TypeOK
  <2>2. CASE SuspectsReturned
    BY <2>2 DEF SuspectsReturned, ReferenceResult
  <2>3. CASE NothingReturned
    <3>1. \A n \in start.flux : reports[n] = start.reports[n] \cup ImplicitRings(n)
      BY <2>1, <2>3 DEF NothingReturned, Recorded
    <3>2. ASSUME \A n \in start.flux :
                    Cardinality(start.reports[n] \cup ImplicitRings(n)) >= H
          PROVE  Suspects = {}
      <4>1. \A n \in start.flux : ~InFlux(n)
        <5> SUFFICES ASSUME NEW n \in start.flux PROVE ~InFlux(n)
          OBVIOUS
        <5>1. Tally(n) >= H /\ n \in Nodes
          BY <2>1, <3>1, <3>2 DEF Tally
        <5>2. Tally(n) \in Nat
          BY <5>1, IInvAccounting, TallyType DEF Accounting
        <5> QED
          BY <5>1, <5>2, WatermarksNat DEF InFlux
      <4>2. \A n \in Nodes \ start.flux : ~InFlux(n)
        <5> SUFFICES ASSUME NEW n \in Nodes \ start.flux PROVE ~InFlux(n)
          OBVIOUS
        <5>1. reports[n] = start.reports[n]
          BY <2>3 DEF NothingReturned, Recorded
        <5> QED
          BY <2>0, <5>1 DEF LoopsOverFlux, InFlux, Tally
      <4>3. preProposal = {}
        BY <4>1, <4>2 DEF IInv, FluxAccounting
      <4>4. updatesInProgress = 0
        BY <4>3, FS_EmptySet DEF IInv, FluxAccounting
      <4>5. proposal = {}
        BY <4>4 DEF IInv, HeldBackOnlyByFlux
      <4> QED
        BY <2>3, <4>3, <4>5 DEF NothingReturned
    <3> QED
      BY <2>3, <3>2 DEF NothingReturned, ReferenceResult
  <2> QED
    BY <2>2, <2>3 DEF InvalidationSoFar
<1> QED
  BY <1>1, Invariance, CallsInvariance, PTL

-----------------------------------------------------------------------------
(* The actor that drives the detector.                                     *)

\* handle_batched_alerts uses the detector only through its calls, so whatever
\* holds of the detector holds inside the pipeline.
LEMMA PipelineDrivesDetector ==
    [PipelineNext]_<<vars, pipeline>> => [Next]_vars
BY DEF PipelineNext, Next, HandleBatchedAlerts, NextAlert, DetectorWorks, AlertDone,
       Invalidate, InvalidationDone, ViewChange

\* A batch of alerts, with the detector under it, keeps every invariant above.
THEOREM PipelineUsesDetector == PipelineSpec => Spec
<1>1. PipelineInit => Init
  BY DEF PipelineInit
<1> QED
  BY <1>1, PipelineDrivesDetector, PTL DEF PipelineSpec, Spec

\* aggregate_one adds the same subjects to what the call returns and to what the
\* detector has returned.
LEMMA ReturnedTogether ==
    ASSUME NEW d, NEW s, NEW r, AggregateOne(d, s, r), NEW S, S \cup out = emitted
    PROVE  S \cup out' = emitted'
BY DEF AggregateOne, BelowHigh, HoldProposal, ReturnProposal

\* No step of the pipeline loses a cut that the batch has collected so far.
LEMMA NextBatchSoFar ==
    ASSUME IInv, CallsEnd, BatchSoFar, [PipelineNext]_<<vars, pipeline>>
    PROVE  BatchSoFar'
<1> USE DEF pipeline, batch
<1>1. CASE HandleBatchedAlerts
  <2>1. out = {}
    BY <1>1 DEF HandleBatchedAlerts, BatchSoFar, CallsEnd
  <2> QED
    BY <1>1, <2>1 DEF HandleBatchedAlerts, BatchSoFar, vars, control
<1>2. ASSUME NEW d \in Nodes, NEW s \in {"up", "down"}, NEW rings \in SUBSET Rings,
             NextAlert(d, s, rings)
      PROVE  BatchSoFar'
  BY <1>2 DEF NextAlert, Aggregate, BatchSoFar
<1>3. CASE DetectorWorks
  <2>1. stage # "idle" /\ UNCHANGED <<stage, joined, announced, proposed, op>>
    BY <1>3 DEF DetectorWorks, AggregateStep, VisitNode, VisitObserver, BatchSoFar
  <2>2. joined \cup out' = emitted'
    <3>1. CASE UNCHANGED <<out, emitted>>
      BY <2>1, <3>1 DEF BatchSoFar
    <3>2. ASSUME NEW r, AggregateOne(dst, status, r)
          PROVE  joined \cup out' = emitted'
      BY <2>1, <3>2, ReturnedTogether DEF BatchSoFar
    <3> QED
      BY <1>3, <3>1, <3>2 DEF DetectorWorks, AggregateStep, VisitNode, VisitObserver
  <2> QED
    BY <2>1, <2>2 DEF BatchSoFar
<1>4. CASE AlertDone
  BY <1>4 DEF AlertDone, Return, Join, BatchSoFar
<1>5. CASE Invalidate
  <2>1. CASE InvalidateFailingEdges /\ stage' = "invalidate" /\ UNCHANGED joined
    BY <1>5, <2>1 DEF Invalidate, InvalidateFailingEdges, BatchSoFar
  <2>2. CASE Announce(joined) /\ UNCHANGED vars
    <3>1. joined = emitted
      BY <1>5 DEF Invalidate, BatchSoFar, CallsEnd
    <3> QED
      BY <1>5, <2>2, <3>1 DEF Invalidate, Announce, BatchSoFar, vars, control
  <2> QED
    BY <1>5, <2>1, <2>2 DEF Invalidate
<1>6. CASE InvalidationDone
  BY <1>6 DEF InvalidationDone, Return, Announce, Join, BatchSoFar
<1>7. CASE ViewChange
  BY <1>7 DEF ViewChange, Clear, BatchSoFar, control
<1>8. CASE UNCHANGED <<vars, pipeline>>
  BY <1>8 DEF BatchSoFar, vars, control
<1> QED
  BY <1>1, <1>2, <1>3, <1>4, <1>5, <1>6, <1>7, <1>8 DEF PipelineNext

\* The proposal of a configuration is everything the detector has returned in it,
\* and a stable subject is missing from it only while another is in flux.
THEOREM ProposalComplete == PipelineSpec => []ProposalHoldsCuts
<1>1. PipelineInit => BatchSoFar
  BY DEF PipelineInit, Init, BatchSoFar
<1>2. IInv /\ CallsEnd /\ BatchSoFar /\ [PipelineNext]_<<vars, pipeline>> => BatchSoFar'
  BY NextBatchSoFar
<1>3. IInv /\ BatchSoFar => ProposalHoldsCuts
  <2> SUFFICES ASSUME IInv, BatchSoFar, stage = "idle",
                      NEW s \in Nodes, Stable(s), s \notin emitted
               PROVE  \E t \in Nodes : InFlux(t)
    BY DEF ProposalHoldsCuts, BatchSoFar
  <2>1. s \in proposal
    BY DEF IInv, StableReturnedOnce
  <2>2. updatesInProgress > 0
    BY <2>1 DEF IInv, HeldBackOnlyByFlux
  <2>3. preProposal # {}
    BY <2>2, FS_EmptySet DEF IInv, FluxAccounting
  <2> QED
    BY <2>3 DEF IInv, FluxAccounting
<1> QED
  BY <1>1, <1>2, <1>3, PipelineUsesDetector, Invariance, CallsInvariance, PTL
     DEF PipelineSpec
=============================================================================
