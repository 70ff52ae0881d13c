---------------------------- MODULE JoinProtocol ----------------------------
(***************************************************************************)
(* One process joining a cluster: run_join_protocol of                     *)
(* crates/rapid/src/cluster_join.rs against the handlers of the members,   *)
(* service/handlers.rs, alert_handler.rs and view_change.rs.               *)
(*                                                                         *)
(* The joiner asks a seed for the configuration and its future observers,  *)
(* then asks each of those to admit it.  They park the reply and broadcast *)
(* an alert with the joiner's identifier; a cut that admits the joiner is  *)
(* decided, and a member that applies it answers what it has parked.       *)
(* Members apply decisions at their own pace, alerts may be late or lost,  *)
(* requests may time out, be sent again by the transport, and arrive after *)
(* the joiner gave up on them.  The joiner may crash and start again.      *)
(*                                                                         *)
(* What is abstracted: consensus is one decision for each configuration,   *)
(* on a cut that some member proposed while a majority was there to vote;  *)
(* every observer covers one ring; other view changes add processes that   *)
(* cause no trouble, and are counted; metadata is left out.                *)
(***************************************************************************)
EXTENDS Integers, FiniteSets

CONSTANTS
    Members,        \* the members that vote and answer
    Observers,      \* get_expected_observers_of(joiner)
    Seed,           \* the member that phase 1 asks
    H,              \* high watermark of the cut detector
    Retries,        \* join_phase1_retries
    NoConfig,       \* the configuration id -1
    LastId,         \* bound: identifiers the joiner may draw
    MaxEvents       \* bound: restarts and other view changes

ASSUME MembersFinite == IsFiniteSet(Members) /\ Observers \subseteq Members /\ Seed \in Members
ASSUME BoundsNat ==
    /\ H \in Nat \ {0} /\ Retries \in Nat \ {0}
    /\ LastId \in Nat \ {0} /\ MaxEvents \in Nat

VARIABLES
    view,           \* MembershipView of each member, as far as the joiner matters
    joinerUuid,     \* joiner_uuid: the identifier parked for the joiner
    parked,         \* joiners_to_respond_to: the calls of the joiner
    reports,        \* the alerts aggregated in this configuration
    announced,      \* LifecycleState::AnnouncedProposal
    joiner,         \* the joining process
    joins,          \* JoinMessages sent
    replies,        \* JoinResponses that a waiting call may still receive
    alerts,         \* UP alerts broadcast
    decided,        \* decisions of consensus
    applied,        \* the decisions each member applied
    restarted,      \* history: the joiner crashed and drew a new identifier
    skipped         \* history: a member had no identifier for the joiner it admitted

memberVars == <<view, joinerUuid, parked, reports, announced, applied>>
networkVars == <<joins, replies, alerts>>
vars == <<memberVars, joiner, networkVars, decided, restarted, skipped>>

Ids == 1 .. LastId
NoId == 0

\* Whether the joiner is in the ring, its identifiers seen so far, and the other
\* view changes.  The configuration id is a hash of all of this.
View == [present : BOOLEAN, ids : SUBSET Ids, others : 0 .. MaxEvents]

\* A hash of -1 (one in 2^64) would be taken for "no configuration".
ASSUME NoConfigOutside == NoConfig \notin View

Call == [id : Ids, attempt : 1 .. Retries]
ThisCall == [id |-> joiner.id, attempt |-> joiner.attempt]

Init ==
    /\ view = [m \in Members |-> [present |-> FALSE, ids |-> {}, others |-> 0]]
    /\ joinerUuid = [m \in Members |-> NoId]
    /\ parked = [m \in Members |-> {}]
    /\ reports = [m \in Members |-> {}]
    /\ announced = [m \in Members |-> FALSE]
    /\ joiner = [pc |-> "phase1", id |-> 1, attempt |-> 1, target |-> NoConfig,
                 uuidTaken |-> FALSE, waiting |-> {},
                 config |-> NoConfig, ids |-> {}]
    /\ joins = {}
    /\ replies = {}
    /\ alerts = {}
    /\ decided = {}
    /\ applied = [m \in Members |-> {}]
    /\ restarted = FALSE
    /\ skipped = FALSE

-----------------------------------------------------------------------------
(* The joiner: run_join_protocol.                                          *)

\* is_safe_to_join
IsSafeToJoin(v, id) ==
    IF v.present THEN "HostnameAlreadyInRing"
    ELSE IF id \in v.ids THEN "UuidAlreadyInRing"
    ELSE "SafeToJoin"

\* handle_pre_join: who is told whom to ask.
HandlePreJoin(m, id) ==
    LET status == IsSafeToJoin(view[m], id)
    IN  [status |-> status, config |-> view[m],
         observers |-> IF status = "UuidAlreadyInRing" THEN {} ELSE Observers]

\* The answer of the seed, and the phase-2 messages it leads to.
Phase1 ==
    LET phase1 == HandlePreJoin(Seed, joiner.id)
        target == IF phase1.status = "HostnameAlreadyInRing" THEN NoConfig ELSE phase1.config
    IN  /\ joiner.pc = "phase1"
        /\ joiner' = [joiner EXCEPT !.pc = "phase2", !.target = target,
                                    !.uuidTaken = (phase1.status = "UuidAlreadyInRing"),
                                    !.waiting = phase1.observers]
        /\ joins' = joins \cup
              {[to |-> o, call |-> ThisCall, config |-> target] : o \in phase1.observers}
        /\ UNCHANGED <<memberVars, replies, alerts, decided, restarted, skipped>>

\* The seed cannot be reached: the whole protocol fails.
Phase1Fails ==
    /\ joiner.pc = "phase1"
    /\ joiner' = [joiner EXCEPT !.pc = "failed"]
    /\ UNCHANGED <<memberVars, networkVars, decided, restarted, skipped>>

\* `join` bootstraps its view from the endpoints and identifiers of the response.
Bootstrapped(r) ==
    [joiner EXCEPT !.pc = "joined", !.waiting = {}, !.config = r.config, !.ids = r.ids]

Wins(r) == r.safe /\ r.config # joiner.target

\* The first SAFE_TO_JOIN with another configuration wins.
ReceiveReply(r) ==
    /\ joiner.pc = "phase2"
    /\ r.from \in joiner.waiting
    /\ \/ /\ Wins(r)
          /\ joiner' = Bootstrapped(r)
          /\ replies' = {}
       \/ /\ ~Wins(r)
          /\ joiner' = [joiner EXCEPT !.waiting = @ \ {r.from}]
          /\ replies' = {q \in replies : q.from # r.from}
    /\ UNCHANGED <<memberVars, joins, alerts, decided, restarted, skipped>>

\* The deadline of a call, or a transport error.
Timeout(o) ==
    /\ joiner.pc = "phase2"
    /\ o \in joiner.waiting
    /\ joiner' = [joiner EXCEPT !.waiting = @ \ {o}]
    /\ replies' = {r \in replies : r.from # o}
    /\ UNCHANGED <<memberVars, joins, alerts, decided, restarted, skipped>>

\* Mutant: every attempt draws a new identifier.
AlwaysNewId == joiner.id + 1

\* A new identifier is drawn only when the seed has seen the old one.
NextId == IF joiner.uuidTaken THEN joiner.id + 1 ELSE joiner.id

\* No call won: the next attempt, or the end.
Retry ==
    /\ joiner.pc = "phase2"
    /\ joiner.waiting = {}
    /\ \/ /\ joiner.attempt < Retries
          /\ NextId \in Ids
          /\ joiner' = [joiner EXCEPT !.pc = "phase1", !.attempt = @ + 1, !.id = NextId,
                                      !.target = NoConfig, !.uuidTaken = FALSE]
       \/ /\ joiner.attempt = Retries
          /\ joiner' = [joiner EXCEPT !.pc = "failed"]
    /\ UNCHANGED <<memberVars, networkVars, decided, restarted, skipped>>

\* The bound on what happens besides the attempts to join.
EventLeft ==
    Cardinality({d \in decided : d.cut = "other"}) + Cardinality({TRUE} \cap {restarted})
        < MaxEvents

\* The process crashes, or its user calls join again.
Restart ==
    /\ EventLeft
    /\ joiner.id + 1 \in Ids
    /\ joiner' = [pc |-> "phase1", id |-> joiner.id + 1, attempt |-> 1,
                  target |-> NoConfig, uuidTaken |-> FALSE, waiting |-> {},
                  config |-> NoConfig, ids |-> {}]
    /\ replies' = {}
    /\ restarted' = TRUE
    /\ UNCHANGED <<memberVars, joins, alerts, decided, skipped>>

-----------------------------------------------------------------------------
(* The members.                                                            *)

\* A reply reaches the joiner if the call it answers is still waiting.
Deliver(m, calls, safe, config, ids) ==
    {[from |-> m, safe |-> safe, config |-> config, ids |-> ids] :
        c \in {c \in calls : c = ThisCall /\ m \in joiner.waiting}}

\* Mutant: the configuration of the request is not looked at.
AnyConfiguration(m, msg) == TRUE

SameConfiguration(m, msg) == view[m] = msg.config

\* handle_join, admission: the reply is parked and an alert is broadcast.
ParkJoin(m, msg) ==
    /\ SameConfiguration(m, msg)
    /\ parked' = [parked EXCEPT ![m] = @ \cup {msg.call}]
    /\ joinerUuid' = [joinerUuid EXCEPT ![m] = msg.call.id]
    /\ alerts' = alerts \cup {[src |-> m, id |-> msg.call.id, config |-> view[m]]}
    /\ UNCHANGED <<view, reports, announced, applied, joiner, joins, replies, decided,
                   restarted, skipped>>

\* Mutant: an endpoint in the ring is taken for the joiner that asks.
HostKnown(m, msg) == view[m].present

AlreadyAdmitted(m, msg) == view[m].present /\ msg.call.id \in view[m].ids

\* build_config_mismatch_response: a joiner that was admitted meanwhile is sent the
\* view, without identifiers; any other one is told that the configuration changed.
RejectJoin(m, msg) ==
    /\ ~SameConfiguration(m, msg)
    /\ replies' = replies \cup
          Deliver(m, {msg.call}, AlreadyAdmitted(m, msg), view[m], {})
    /\ UNCHANGED <<memberVars, joiner, joins, alerts, decided, restarted, skipped>>

Tally(S) == Cardinality({a.src : a \in S})

\* handle_batched_alerts for one UP alert, which is_valid_alert lets through.
HandleAlert(m, a) ==
    LET all == reports[m] \cup {a}
    IN  /\ ~announced[m]
        /\ a.config = view[m] /\ ~view[m].present
        /\ joinerUuid' = [joinerUuid EXCEPT ![m] = a.id]
        /\ reports' = [reports EXCEPT ![m] = all]
        /\ announced' = [announced EXCEPT ![m] = Tally(all) >= H]
        /\ UNCHANGED <<view, parked, applied, joiner, networkVars, decided,
                       restarted, skipped>>

-----------------------------------------------------------------------------
(* Consensus and the view change.                                          *)

Serving == joiner.pc = "joined"

InConfiguration(c) == {m \in Members : view[m] = c}

\* Who proposes a cut in configuration c: for a joiner outside the ring, the
\* members whose detector announced it; for one in the ring, its observers report
\* it as long as it answers no probe; other cuts come from elsewhere.
Proposers(c, cut) ==
    {m \in InConfiguration(c) :
        cut = "joiner" => IF c.present THEN ~Serving ELSE announced[m]}

\* A cut that one member proposed may win a classic round among the others.
Decide(c, cut) ==
    /\ cut = "other" => EventLeft
    /\ \A d \in decided : d.config # c
    /\ Proposers(c, cut) # {}
    /\ 2 * Cardinality(InConfiguration(c)) > Cardinality(Members)
    /\ decided' = decided \cup {[config |-> c, cut |-> cut]}
    /\ UNCHANGED <<memberVars, joiner, networkVars, restarted, skipped>>

HasIdentifier(m) == joinerUuid[m] # NoId

\* ring_add, which refuses an identifier it has seen.  A joiner without an
\* identifier is skipped.
Added(m) ==
    IF HasIdentifier(m) /\ joinerUuid[m] \notin view[m].ids
      THEN [view[m] EXCEPT !.present = TRUE, !.ids = @ \cup {joinerUuid[m]}]
      ELSE view[m]

NewView(m, cut) ==
    IF cut = "other" THEN [view[m] EXCEPT !.others = @ + 1]
    ELSE IF view[m].present THEN [view[m] EXCEPT !.present = FALSE]
    ELSE Added(m)

\* Mutant: the identifier stays parked after the admission.
KeepsIdentifier(m, cut) == joinerUuid[m]

IdentifierAfter(m, cut) ==
    IF cut = "joiner" /\ ~view[m].present THEN NoId ELSE joinerUuid[m]

\* decide_view_change, respond_to_joiners included.
Apply(m, d) ==
    LET new == NewView(m, d.cut)
    IN  /\ d.config = view[m]
        /\ d \notin applied[m]
        /\ applied' = [applied EXCEPT ![m] = @ \cup {d}]
        /\ view' = [view EXCEPT ![m] = new]
        /\ joinerUuid' = [joinerUuid EXCEPT ![m] = IdentifierAfter(m, d.cut)]
        /\ reports' = [reports EXCEPT ![m] = {}]
        /\ announced' = [announced EXCEPT ![m] = FALSE]
        /\ \/ /\ d.cut = "joiner"
              /\ parked' = [parked EXCEPT ![m] = {}]
              /\ replies' = replies \cup Deliver(m, parked[m], TRUE, new, new.ids)
              /\ skipped' = (skipped \/ (~view[m].present /\ ~HasIdentifier(m)))
           \/ /\ d.cut = "other"
              /\ UNCHANGED <<parked, replies, skipped>>
        /\ UNCHANGED <<joiner, joins, alerts, decided, restarted>>

Next ==
    \/ Phase1
    \/ Phase1Fails
    \/ \E r \in replies : ReceiveReply(r)
    \/ \E o \in Observers : Timeout(o)
    \/ Retry
    \/ Restart
    \/ \E msg \in joins : ParkJoin(msg.to, msg)
    \/ \E msg \in joins : RejectJoin(msg.to, msg)
    \/ \E m \in Members, a \in alerts : HandleAlert(m, a)
    \/ \E m \in Members, cut \in {"joiner", "other"} : Decide(view[m], cut)
    \/ \E m \in Members, d \in decided : Apply(m, d)

Spec == Init /\ [][Next]_vars

-----------------------------------------------------------------------------
(* Properties.                                                             *)

\* Types.
TypeOK ==
    /\ view \in [Members -> View]
    /\ joinerUuid \in [Members -> Ids \cup {NoId}]
    /\ parked \in [Members -> SUBSET Call]
    /\ reports \in [Members -> SUBSET alerts]
    /\ announced \in [Members -> BOOLEAN]
    /\ joiner \in [pc : {"phase1", "phase2", "joined", "failed"}, id : Ids,
                   attempt : 1 .. Retries, target : View \cup {NoConfig},
                   uuidTaken : BOOLEAN, waiting : SUBSET Observers,
                   config : View \cup {NoConfig}, ids : SUBSET Ids]
    /\ joins \subseteq [to : Observers, call : Call, config : View \cup {NoConfig}]
    /\ replies \subseteq [from : Observers, safe : BOOLEAN, config : View, ids : SUBSET Ids]
    /\ alerts \subseteq [src : Observers, id : Ids, config : View]
    /\ decided \subseteq [config : View, cut : {"joiner", "other"}]
    /\ applied \in [Members -> SUBSET decided]
    /\ restarted \in BOOLEAN
    /\ skipped \in BOOLEAN

\* Whoever is told SAFE_TO_JOIN is in the view that comes with it: a parked reply
\* is never released by the cut that removes the joiner, nor by one that skips it.
SafeMeansMember == \A r \in replies : r.safe => r.config.present

\* An identifier waiting for its admission has never been in the view, whatever
\* attempts, removals and view changes came before: the ring_add of
\* decide_view_change, whose failure is ignored, does not fail.
AdmissionNotRefused ==
    \A m \in Members : HasIdentifier(m) => joinerUuid[m] \notin view[m].ids

\* Members that applied the same decisions have the same configuration, as long
\* as each had heard of the joiner before it admitted it and the joiner did not
\* restart: the identifier each takes from the alerts it saw last is the same.
ViewsAgree ==
    ~restarted /\ ~skipped =>
        \A m, n \in Members : applied[m] = applied[n] => view[m] = view[n]

\* A joiner that has not restarted joins under the identifier of its current
\* attempt, never in a configuration that knows the endpoint by an older one.
JoinsAsItself ==
    joiner.pc = "joined" /\ ~restarted => joiner.id \in joiner.config.ids

\* A joiner bootstraps its view from the identifiers of the configuration it joins, as
\* the comment of current_identifiers (view.rs) says of the answer in the race case.
\* The configuration id is a hash over them: with fewer, no member shares the id that
\* the joiner computes, and each drops what the other sends.
IdentifiersComplete == joiner.pc = "joined" => joiner.ids = joiner.config.ids
=============================================================================
