----------------------- MODULE FailureDetectorProofs -----------------------
(***************************************************************************)
(* Proofs about FailureDetector, for every set of subjects, every set of   *)
(* rings, every pair of thresholds and any number of view changes.         *)
(***************************************************************************)
EXTENDS FailureDetector, TLAPS

\* The counters of a detector are those of the answers its subject gave in this
\* configuration.
CountsMatchAnswers ==
    \A r \in Rings :
        /\ bootstrapCount[r] = answered[r].bootstrapping
        /\ failureCount[r] = answered[r].error + Excess(answered[r].bootstrapping)

Suspicion(r) == [subject |-> subjectOf[r], config |-> config]

\* A detector that gives up was given enough failures in this configuration.
FailedIsSuspected == \A r \in Rings : HasFailed(r) => Suspicion(r) \in suspected

\* The inductive invariant.  What makes an alert current is that the counters start
\* afresh with the configuration, and that the report in the channel still names the
\* configuration whose detector posted it.
IInv ==
    /\ TypeOK
    /\ CountsMatchAnswers
    /\ FailedIsSuspected
    /\ channel \subseteq suspected
    /\ NoStaleSuspicion

-----------------------------------------------------------------------------
\* The service starts with counters at zero, no answer and no report.
LEMMA InitIInv == Init => IInv
  BY ThresholdsNat
  DEF Init, IInv, TypeOK, CountsMatchAnswers, FailedIsSuspected, HasFailed, Excess,
      NoStaleSuspicion, Zero, NoAnswer, RecordLimit, Report

\* A probe moves one detector's counters, neither past its bound, and records the
\* same answer: when the count reaches the threshold, so do the answers.
LEMMA ProbeIInv ==
    ASSUME IInv, NEW r \in Rings, NEW answer \in {"ok", "bootstrapping", "error"},
           Probe(r, answer)
    PROVE  IInv'
<1> USE ThresholdsNat
<1> DEFINE b == answered[r].bootstrapping
           e == answered[r].error
           b1 == IF answer = "bootstrapping" THEN b + 1 ELSE b
           e1 == IF answer = "error" THEN e + 1 ELSE e
           a1 == [error |-> e1, bootstrapping |-> b1]
<1>1. /\ b \in Nat /\ e \in Nat
      /\ answered[r] = [error |-> e, bootstrapping |-> b]
      /\ bootstrapCount[r] = b
      /\ failureCount[r] = e + Excess(b)
      /\ failureCount[r] < FailureThreshold
  BY DEF IInv, TypeOK, CountsMatchAnswers, Probe, HasFailed, RecordLimit
<1>2. /\ e1 \in 0 .. RecordLimit /\ b1 \in 0 .. RecordLimit
      /\ answered' = [answered EXCEPT ![r] = a1]
      /\ suspected' = IF Enough(a1) THEN suspected \cup {Suspicion(r)} ELSE suspected
  <2>1. e < RecordLimit /\ b < RecordLimit
    BY <1>1 DEF Excess, RecordLimit
  <2>2. /\ e1 = IF answer = "error" /\ answered[r]["error"] < RecordLimit
                 THEN answered[r]["error"] + 1 ELSE answered[r]["error"]
        /\ b1 = IF answer = "bootstrapping" /\ answered[r]["bootstrapping"] < RecordLimit
                 THEN answered[r]["bootstrapping"] + 1 ELSE answered[r]["bootstrapping"]
    BY <1>1, <2>1
  <2>3. /\ answered' = [answered EXCEPT ![r] = a1]
        /\ suspected' = IF Enough(a1) THEN suspected \cup {Suspicion(r)} ELSE suspected
    BY <2>2 DEF Probe, Record, Suspicion
  <2>4. e1 \in 0 .. RecordLimit /\ b1 \in 0 .. RecordLimit
    BY <1>1, <2>1 DEF RecordLimit
  <2> QED
    BY <2>3, <2>4
<1>3. /\ b1 \in Nat /\ e1 \in Nat
      /\ bootstrapCount'[r] = b1
      /\ failureCount'[r] = e1 + Excess(b1)
      /\ failureCount'[r] \in 0 .. FailureThreshold
      /\ bootstrapCount'[r] \in 0 .. BootstrapThreshold + FailureThreshold
  <2>1. bootstrapCount'[r] = b1
    BY <1>1 DEF IInv, TypeOK, Probe
  <2>2. CASE CountsAsFailure(r, answer)
    <3>1. failureCount'[r] = failureCount[r] + 1
      BY <2>2 DEF IInv, TypeOK, Probe
    <3> QED
      BY <1>1, <2>1, <2>2, <3>1 DEF CountsAsFailure, Excess
  <2>3. CASE ~CountsAsFailure(r, answer)
    <3>1. failureCount'[r] = failureCount[r]
      BY <2>3 DEF IInv, TypeOK, Probe
    <3> QED
      BY <1>1, <2>1, <2>3, <3>1 DEF CountsAsFailure, Excess
  <2> QED
    BY <2>2, <2>3
<1>4. \A q \in Rings \ {r} : /\ failureCount'[q] = failureCount[q]
                             /\ bootstrapCount'[q] = bootstrapCount[q]
                             /\ answered'[q] = answered[q]
  BY <1>2 DEF IInv, TypeOK, Probe
<1>5. /\ answered'[r] = a1
      /\ answered' \in [Rings -> [error : 0 .. RecordLimit, bootstrapping : 0 .. RecordLimit]]
  BY <1>2 DEF IInv, TypeOK
<1>6. /\ failureCount' \in [Rings -> 0 .. FailureThreshold]
      /\ bootstrapCount' \in [Rings -> 0 .. BootstrapThreshold + FailureThreshold]
  <2>1. /\ DOMAIN failureCount' = Rings /\ DOMAIN bootstrapCount' = Rings
        /\ failureCount' = [q \in Rings |-> failureCount'[q]]
        /\ bootstrapCount' = [q \in Rings |-> bootstrapCount'[q]]
    BY DEF IInv, TypeOK, Probe
  <2> QED
    BY <1>3, <1>4, <2>1 DEF IInv, TypeOK
<1>7. CountsMatchAnswers'
  BY <1>3, <1>4, <1>5 DEF IInv, CountsMatchAnswers
<1>8. Suspicion(r) \in Report /\ suspected \subseteq suspected' /\ suspected' \subseteq Report
  BY <1>2 DEF IInv, TypeOK, Suspicion, Report
<1>9. FailedIsSuspected'
  <2>1. \A q \in Rings : Suspicion(q)' = Suspicion(q)
    BY DEF Probe, Suspicion
  <2>2. HasFailed(r)' => Enough(a1)
    BY <1>3 DEF HasFailed, Enough
  <2>3. \A q \in Rings \ {r} : HasFailed(q)' => HasFailed(q)
    BY <1>4 DEF HasFailed
  <2> QED
    BY <1>2, <1>8, <2>1, <2>2, <2>3 DEF IInv, FailedIsSuspected
<1>10. TypeOK'
  BY <1>5, <1>6, <1>8 DEF IInv, TypeOK, Probe
<1> QED
  BY <1>7, <1>8, <1>9, <1>10 DEF IInv, Probe, NoStaleSuspicion

\* A posted report is a suspicion of the current configuration.
LEMMA NotifyIInv ==
    ASSUME IInv, NEW r \in Rings, Notify(r)
    PROVE  IInv'
<1> USE DEF IInv, historyVars
<1>1. Suspicion(r) \in suspected /\ Suspicion(r) \in Report
  BY DEF Notify, FailedIsSuspected, TypeOK
<1>2. TypeOK' /\ channel' \subseteq suspected'
  BY <1>1 DEF Notify, TypeOK, Suspicion
<1>3. FailedIsSuspected'
  BY DEF Notify, FailedIsSuspected, Suspicion, HasFailed
<1> QED
  BY <1>2, <1>3 DEF Notify, NoStaleSuspicion, CountsMatchAnswers

\* The actor raises an alert only for a report of the current configuration.
LEMMA HandleEdgeFailureIInv ==
    ASSUME IInv, NEW m \in channel, HandleEdgeFailure(m)
    PROVE  IInv'
<1> USE DEF IInv, historyVars, detectorVars
<1>1. m \in suspected /\ m \in Report
  BY DEF TypeOK
<1>2. CountsMatchAnswers' /\ FailedIsSuspected'
  BY DEF HandleEdgeFailure, CountsMatchAnswers, FailedIsSuspected, Suspicion, HasFailed
<1>3. CASE IsCurrent(m)
  <2>1. m = [subject |-> m.subject, config |-> config]
    BY <1>1, <1>3 DEF IsCurrent, Report
  <2>2. m.subject \in Subjects
    BY <1>1 DEF Report
  <2>3. /\ DownAlert(m.subject) \in [subject : Subjects, config : 0 .. LastConfig,
                                     rings : SUBSET Rings]
        /\ DownAlert(m.subject).subject = m.subject
        /\ DownAlert(m.subject).config = config
    BY <2>2 DEF DownAlert, TypeOK
  <2>4. alerts' = alerts \cup {DownAlert(m.subject)}
    BY <1>3 DEF HandleEdgeFailure
  <2>5. NoStaleSuspicion'
    BY <1>1, <2>1, <2>3, <2>4 DEF HandleEdgeFailure, NoStaleSuspicion
  <2>6. TypeOK'
    BY <2>3, <2>4 DEF HandleEdgeFailure, TypeOK
  <2> QED
    BY <1>2, <2>5, <2>6 DEF HandleEdgeFailure
<1>4. CASE ~IsCurrent(m)
  BY <1>2, <1>4 DEF HandleEdgeFailure, NoStaleSuspicion, TypeOK
<1> QED
  BY <1>3, <1>4

\* Every step keeps the invariant.
LEMMA NextIInv == IInv /\ [Next]_vars => IInv'
<1> SUFFICES ASSUME IInv, [Next]_vars PROVE IInv'
  OBVIOUS
<1> USE DEF IInv, historyVars, detectorVars
<1>1. ASSUME NEW s \in Subjects, NEW what \in {"dead", "stuck"}, Fails(s, what)
      PROVE  IInv'
  BY <1>1 DEF TypeOK, Fails, NoStaleSuspicion, CountsMatchAnswers, FailedIsSuspected,
              Suspicion, HasFailed
<1>2. ASSUME NEW subjects \in [Rings -> Subjects], Rebuild(subjects)
      PROVE  IInv'
  <2>1. CountsMatchAnswers' /\ FailedIsSuspected'
    BY <1>2, ThresholdsNat
    DEF Rebuild, FreshCounts, Zero, NoAnswer, Excess, CountsMatchAnswers,
        FailedIsSuspected, HasFailed
  <2>2. TypeOK'
    BY <1>2, ThresholdsNat DEF Rebuild, FreshCounts, Zero, NoAnswer, RecordLimit, TypeOK
  <2> QED
    BY <1>2, <2>1, <2>2 DEF Rebuild, NoStaleSuspicion
<1>3. CASE UNCHANGED vars
  BY <1>3 DEF vars, TypeOK, NoStaleSuspicion, CountsMatchAnswers, FailedIsSuspected,
              Suspicion, HasFailed
<1> QED
  BY <1>1, <1>2, <1>3, ProbeIInv, NotifyIInv, HandleEdgeFailureIInv DEF Next

\* Every reachable state satisfies the invariant: what a detector suspects and what
\* waits in the channel belong to the configuration it was built for.
THEOREM Invariance == Spec => []IInv
<1> QED
  BY InitIInv, NextIInv, PTL DEF Spec

\* Both counters of a detector stay within their thresholds, and what the channel
\* and the actor hold are reports and alerts of configurations that existed.
THEOREM TypeCorrect == Spec => []TypeOK
<1>1. IInv => TypeOK
  BY DEF IInv
<1> QED
  BY <1>1, Invariance, PTL

\* A DOWN alert is raised in a configuration only if the subject failed enough probes
\* of one detector in that same configuration, however the view changes, the reports
\* in flight and the actor's mailbox interleave.
THEOREM SuspicionsCurrent == Spec => []NoStaleSuspicion
<1>1. IInv => NoStaleSuspicion
  BY DEF IInv
<1> QED
  BY <1>1, Invariance, PTL
====
