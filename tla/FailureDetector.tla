--------------------------- MODULE FailureDetector ---------------------------
(***************************************************************************)
(* Edge monitoring at one member: the ping-pong detectors of               *)
(* crates/rapid/src/monitoring/ping_pong.rs, and the part of the service   *)
(* that starts them and takes their reports (fd_scheduler.rs).             *)
(*                                                                         *)
(* The member runs one detector per ring, for its subject on that ring, so *)
(* one subject may be watched by several detectors.  A view change aborts  *)
(* all of them and starts new ones; a report already posted survives in    *)
(* the channel between the detectors and the actor.                        *)
(***************************************************************************)
EXTENDS Integers, FiniteSets

CONSTANTS
    Subjects,
    Unparsable,             \* subjects whose address is not a socket address
    Rings,
    FailureThreshold,       \* FAILURE_THRESHOLD
    BootstrapThreshold,     \* BOOTSTRAP_COUNT_THRESHOLD
    LastConfig              \* bound: number of view changes

ASSUME UnparsableSubjects == Unparsable \subseteq Subjects
ASSUME ThresholdsNat ==
    /\ FailureThreshold \in Nat \ {0}
    /\ BootstrapThreshold \in Nat
    /\ LastConfig \in Nat

VARIABLES
    config,         \* the current configuration
    subjectOf,      \* the subject on each ring in it
    failureCount,   \* of the detector on each ring
    bootstrapCount,
    notified,       \* the detector posted its report, and its task ended
    channel,        \* reports posted and not handled yet
    alerts,         \* DOWN alerts enqueued by the actor
    condition,      \* what a subject really is
    \* history: the failed and the bootstrapping answers on each ring since the
    \* configuration began, and the subjects whose answers crossed the threshold
    answered, suspected

historyVars == <<answered, suspected>>
detectorVars == <<failureCount, bootstrapCount, notified>>
vars == <<config, subjectOf, detectorVars, channel, alerts, condition, historyVars>>

Report == [subject : Subjects, config : 0 .. LastConfig]

Zero == [r \in Rings |-> 0]

NoAnswer == [error |-> 0, bootstrapping |-> 0]

\* Answers that ought to end in a report: errors, and bootstrapping answers beyond
\* the allowance.
Excess(b) == IF b > BootstrapThreshold THEN b - BootstrapThreshold ELSE 0

Enough(a) == a.error + Excess(a.bootstrapping) >= FailureThreshold

Init ==
    /\ config = 0
    /\ subjectOf \in [Rings -> Subjects]
    /\ failureCount = Zero
    /\ bootstrapCount = Zero
    /\ notified = [r \in Rings |-> FALSE]
    /\ channel = {}
    /\ alerts = {}
    /\ condition = [s \in Subjects |-> "healthy"]
    /\ answered = [r \in Rings |-> NoAnswer]
    /\ suspected = {}

-----------------------------------------------------------------------------
(* The subjects.  A dead one answers nothing; one stuck in its bootstrap   *)
(* says so whenever it answers.  The network may lose any answer.          *)

Fails(s, what) ==
    /\ condition[s] = "healthy"
    /\ condition' = [condition EXCEPT ![s] = what]
    /\ UNCHANGED <<config, subjectOf, detectorVars, channel, alerts, historyVars>>

Answers(s) ==
    CASE condition[s] = "healthy" -> {"ok", "bootstrapping", "error"}
      [] condition[s] = "stuck"   -> {"bootstrapping", "error"}
      [] condition[s] = "dead"    -> {"error"}

-----------------------------------------------------------------------------
(* PingPongDetector                                                        *)

HasFailed(r) == failureCount[r] >= FailureThreshold

\* Mutant: a transport error is not counted.
ErrorIsFine(r, answer) ==
    answer = "bootstrapping" /\ bootstrapCount[r] + 1 > BootstrapThreshold

\* Whether an answer counts as a failure (on_response, on_failure).
CountsAsFailure(r, answer) ==
    \/ answer = "error"
    \/ answer = "bootstrapping" /\ bootstrapCount[r] + 1 > BootstrapThreshold

\* Answers are recorded up to a number that is enough by itself.
RecordLimit == FailureThreshold + BootstrapThreshold

\* History only: what the answer adds to the record of this configuration.
Record(r, answer) ==
    LET Add(what) == IF answer = what /\ answered[r][what] < RecordLimit
                       THEN answered[r][what] + 1 ELSE answered[r][what]
        a == [error |-> Add("error"), bootstrapping |-> Add("bootstrapping")]
    IN  /\ answered' = [answered EXCEPT ![r] = a]
        /\ suspected' =
              IF Enough(a)
                THEN suspected \cup {[subject |-> subjectOf[r], config |-> config]}
                ELSE suspected

\* A tick that probes the subject.  For an address that cannot be parsed the factory
\* makes a detector that never ticks.
Probe(r, answer) ==
    /\ subjectOf[r] \notin Unparsable
    /\ ~notified[r]
    /\ ~HasFailed(r)
    /\ answer \in Answers(subjectOf[r])
    /\ bootstrapCount' =
          [bootstrapCount EXCEPT ![r] = IF answer = "bootstrapping" THEN @ + 1 ELSE @]
    /\ \/ /\ CountsAsFailure(r, answer)
          /\ failureCount' = [failureCount EXCEPT ![r] = @ + 1]
       \/ /\ ~CountsAsFailure(r, answer)
          /\ UNCHANGED failureCount
    /\ Record(r, answer)
    /\ UNCHANGED <<config, subjectOf, notified, channel, alerts, condition>>

\* A tick after the threshold was reached: maybe_notify, and `run` returns.
Notify(r) ==
    /\ ~notified[r]
    /\ HasFailed(r)
    /\ notified' = [notified EXCEPT ![r] = TRUE]
    /\ channel' = channel \cup {[subject |-> subjectOf[r], config |-> config]}
    /\ UNCHANGED <<config, subjectOf, failureCount, bootstrapCount, alerts, condition,
                   historyVars>>

-----------------------------------------------------------------------------
(* The actor                                                               *)

IsCurrent(m) == m.config = config

\* The alert carries the current configuration and the rings on which the subject
\* is observed in it.
DownAlert(s) == [subject |-> s, config |-> config,
                 rings |-> {r \in Rings : subjectOf[r] = s}]

HandleEdgeFailure(m) ==
    /\ channel' = channel \ {m}
    /\ \/ /\ IsCurrent(m)
          /\ alerts' = alerts \cup {DownAlert(m.subject)}
       \/ /\ ~IsCurrent(m)
          /\ UNCHANGED alerts
    /\ UNCHANGED <<config, subjectOf, detectorVars, condition, historyVars>>

\* Mutant: the detector of a ring goes on counting where the last one stopped.
CountsKept == failureCount

\* `create` makes a detector with fresh counters, for an old subject too.
FreshCounts == Zero

\* decide_view_change installs a view and `rebuild` replaces the detectors.
Rebuild(subjects) ==
    /\ config < LastConfig
    /\ config' = config + 1
    /\ subjectOf' = subjects
    /\ failureCount' = FreshCounts
    /\ bootstrapCount' = Zero
    /\ notified' = [r \in Rings |-> FALSE]
    /\ answered' = [r \in Rings |-> NoAnswer]
    /\ UNCHANGED <<channel, alerts, condition, suspected>>

Next ==
    \/ \E s \in Subjects, what \in {"dead", "stuck"} : Fails(s, what)
    \/ \E r \in Rings, answer \in {"ok", "bootstrapping", "error"} : Probe(r, answer)
    \/ \E r \in Rings : Notify(r)
    \/ \E m \in channel : HandleEdgeFailure(m)
    \/ \E subjects \in [Rings -> Subjects] : Rebuild(subjects)

Spec == Init /\ [][Next]_vars

\* Detectors tick as long as they run, and the actor drains its mailbox.
Fairness ==
    /\ \A r \in Rings :
          /\ WF_vars(\E answer \in {"ok", "bootstrapping", "error"} : Probe(r, answer))
          /\ WF_vars(Notify(r))
    /\ WF_vars(\E m \in channel : HandleEdgeFailure(m))

FairSpec == Spec /\ Fairness

-----------------------------------------------------------------------------
(* Properties.                                                             *)

\* Types and bounds: a detector stops counting at its thresholds, so neither
\* counter can run away while the report waits for a tick.
TypeOK ==
    /\ config \in 0 .. LastConfig
    /\ subjectOf \in [Rings -> Subjects]
    /\ failureCount \in [Rings -> 0 .. FailureThreshold]
    /\ bootstrapCount \in [Rings -> 0 .. BootstrapThreshold + FailureThreshold]
    /\ notified \in [Rings -> BOOLEAN]
    /\ channel \subseteq Report
    /\ alerts \subseteq [subject : Subjects, config : 0 .. LastConfig,
                         rings : SUBSET Rings]
    /\ condition \in [Subjects -> {"healthy", "dead", "stuck"}]
    /\ answered \in [Rings -> [error : 0 .. RecordLimit, bootstrapping : 0 .. RecordLimit]]
    /\ suspected \subseteq Report

\* A DOWN alert is raised in configuration c only if the subject failed enough probes
\* of one detector within c: neither a count nor a report in flight crosses a view
\* change, also when the same subject is watched on the same ring before and after.
NoStaleSuspicion ==
    \A a \in alerts : [subject |-> a.subject, config |-> a.config] \in suspected

WatchedAndFailed(s, c) ==
    config = c /\ condition[s] # "healthy" /\ \E r \in Rings : subjectOf[r] = s

Alerted(s, c) == \E a \in alerts : a.subject = s /\ a.config = c

\* A subject that died or never finishes its bootstrap is eventually reported in
\* the configuration that watches it, unless the view changes first or its address
\* cannot be parsed.
FailureIsReported ==
    \A s \in Subjects \ Unparsable, c \in 0 .. LastConfig :
        WatchedAndFailed(s, c) ~> (Alerted(s, c) \/ config # c)
=============================================================================
