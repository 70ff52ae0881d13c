# Verification of rapid-rs

TLA+ models of rapid-rs, a Rust implementation of the Rapid membership service,
with TLC configurations and TLAPS proofs. Paths below are relative to the
repository root; `rapid/` stands for `src/crates/rapid/src/`.

Contents: [the system](#1-the-system), [modules](#2-modules-and-the-code),
[runs](#3-runs), [proofs](#4-proofs), [findings](#5-findings),
[what is not modelled](#6-what-is-not-modelled), [plan](#7-plan).

## 1. The system

A Rapid cluster is a set of members that agree on a sequence of
*configurations* (views). Members watch each other along K rings. Observers
that give up on a subject, or that were asked to admit a joiner, broadcast
alerts; every member counts alerts in its cut detector, and the cut the
detector returns (a set of endpoints to add and remove) is put to a consensus
instance that lives for one configuration. A decided cut is applied, and
everything starts over in the next configuration.

| component | code | state | operations |
|---|---|---|---|
| Cut detector | `rapid/cut_detector.rs` | reports per host, subjects in flux, stable subjects, `updates_in_progress` | `aggregate`, `invalidate_failing_edges`, `clear` |
| Consensus | `rapid/consensus/` | acceptor ranks and value, coordinator rank and promises, votes and accepts received, `decided` | `propose`, `start_classic_round`, five message handlers |
| Membership view | `rapid/view.rs`, `ring.rs`, `view_hash.rs` | K ordered rings, identifiers seen, observer cache, configuration id with a dirty flag | `ring_add`, `ring_delete`, `get_observers_of`, `current_configuration_id` |
| Failure detection | `rapid/monitoring/`, `rapid/service/fd_scheduler.rs` | two counters and a latch per detector, the channel to the actor | `tick`, `handle_edge_failure`, `rebuild` |
| Service actor | `rapid/service/` | everything above, joiners' data, queue of alerts, fallback timer, parked replies | one mailbox of `ServiceCommand`s; `decide_view_change` |
| Alert pipeline | `rapid/service/alert_handler.rs`, `alert_batcher.rs` | the queue and its window, the proposal announced | `handle_batched_alerts`, `enqueue_alert`, `handle_tick` |
| Join protocol | `rapid/cluster_join.rs`, `rapid/service/handlers.rs` | parked replies, joiner ids and metadata | pre-join, join, retries |
| Metadata | `rapid/metadata.rs` | a map by endpoint | `add`, `remove`, `all` |
| Messaging | `rapid/messaging/` | deadlines, cached channels, registered in-process servers and their inboxes, recipient list | `send`, `send_best_effort`, `serve`, `spawn`, `shutdown`, `broadcast` |
| Cluster API | `rapid/cluster/` | handles of the above, callbacks | start, join, leave, shutdown, `subscribe`, `initial_view_event` |
| Shard directory | `src/crates/rapid-shard/src/lib.rs` | buckets by shard, reverse index by endpoint, configuration id | build, `apply_delta`, `full_resync` |

How they interact. One tokio task (the *actor*, `rapid/service/task.rs`) owns
the cut detector, the view, the consensus instance and the metadata, and takes
commands from one mailbox, so calls into these never overlap. Concurrency
enters through what surrounds it: the detector tasks and timers that post to
the mailbox, the network between the actors of different members, and clients
(the shard directory, `Cluster` handles) that ask the actor several questions
in a row.

What is hard, and what would make each component correct:

- *Cut detector.* The counters move at exact crossings of two watermarks, in
  loops that also change the sets they read; one of the loops walks a
  `HashSet`. It is correct when the incremental counters agree with the
  tallies, a cut is complete when it is returned, nothing is lost or returned
  twice, and the iteration order is not visible in the result.
- *Consensus.* Fast votes, fallback timers and classic rounds of several
  coordinators interleave over a network that delays and loses messages. It is
  correct when no two cuts can be decided for a configuration, and when a
  decision is reached if the network behaves.
- *Membership view.* The observer cache and the id are maintained lazily. It is
  correct when no stale value is used, when observers and subjects mirror each
  other, and when a configuration never comes back.
- *Failure detection.* Reports are in flight while the view changes. It is
  correct when no suspicion crosses a view change and a failed subject is
  reported.
- *Join protocol.* A joiner retries under one identifier while members admit an
  earlier attempt, remove it again, or hear of attempts in different orders;
  replies are parked across view changes. It is correct when a joiner is told
  that it is in only with a view that holds it, and when members give it the
  same identifier.
- *Service actor.* Timers, detectors and callers post to one bounded mailbox
  while the view changes under what is queued, and go on when the actor has
  stopped. It is correct when no caller waits for ever, nothing queued is
  forgotten, a vote is followed up, and a shutdown leaves nothing behind.
- *Messaging.* Calls share channels that break, are retried when the first
  attempt may have arrived, and are given up while a handler runs; in-process
  servers are replaced and drained. It is correct when a request is handled no
  more often than it may be attempted, and when every call ends.
- *Shard directory.* A snapshot taken in three requests, a subscription made
  after it, a bounded channel that drops events. It is correct when its
  contents are those of the configuration id it reports.

## 2. Modules and the code

One module per component, one action per operation; `PROJECT.json` maps every
definition to its lines. `MC*` modules give the constants small values, and
`*Proofs` modules hold theorems. Definitions commented as *Mutant* are plausible
errors in the definition below them; each shows that some property notices that
error.

**CutDetector** (`rapid/cut_detector.rs`). State: the fields of
`MultiNodeCutDetector`, the view the owner passes in, and the local variables of
the call being executed. Every iteration of the loops of `aggregate` and
`invalidate_failing_edges` is a step, and the order in which the `HashSet` copy
is walked is free. Calls do not overlap (`op`). `EntersFlux`, `BecomesStable` and
`LastInFlux` are the three tests of `aggregate_one`. The owner's filter
(`is_valid_alert`, `rapid/service/alert_handler.rs`) guards `Aggregate`. `Clear`
is the call `decide_view_change` makes, with any next view. The reporter
recorded with a ring is never read by the code and is left out.

**AlertPipeline** (`rapid/service/alert_handler.rs`; extends CutDetector). A batch
is a run of `Aggregate` calls and one invalidation; what they return is joined,
and the first batch that returns anything announces the proposal. Until the view
changes later batches return at once. An alert may name no ring: a leaving
member tells everyone, not only its observers.

**FastPaxos** (`rapid/consensus/fast_paxos.rs`, `paxos.rs`, and the dispatch in
`rapid/service/consensus_dispatch.rs`). All members of one configuration.
Actions: `Propose`, `HandleFastRoundProposal`, `HandlePhase1a/1b/2a/2b`, and
`StartClassicRound`, which comes from the timer of this configuration
(`FallbackTimer`, after the member's vote) or from a command of the last one that a
view change overtook in the mailbox (`OvertakenCommand`, also before any vote; see
Service). Messages are kept in sets of what was sent: delivery
may be late, out of order or never. `send_best_effort` sends once without
retry; receiving a vote, phase1a, phase2a or phase2b again changes nothing in
the code, and each phase1b, which the code does not deduplicate, is delivered
once. A member that decides replaces its instance, so it handles nothing more
for this configuration (`Active`). A cut is a model value; ranks are
`(round, node index)` pairs. The constants `Candidates`, `Coordinators`, `Overtaken`
and `Learners` bound who sees which cut, whose timer may expire, who entered with an
overtaken command and whom votes may reach; with the largest values they bound
nothing.

**Decision** is the abstract specification of a configuration: at most one cut is
ever chosen, and a member learns the chosen one, once. `FastPaxos!D` is the
refinement mapping: chosen is what the votes and phase2b messages *sent* have
chosen, in either round, and learned is what a member decided.

**MembershipView** (`rapid/view.rs`, `ring.rs`, `view_hash.rs`). Every ring holds
the same members, so one set stands for all; `Pos` is the signed hash that
orders a ring. `Below`, `Above`, `Least`, `Greatest` are the operations of
`ring.rs`. The configuration id is the pair that the code hashes. Two
assumptions are made about hashes and stated: no two endpoints collide on a
ring, and the id function does not collide.

**FailureDetector** (`rapid/monitoring/ping_pong.rs`, `factory.rs`,
`rapid/service/fd_scheduler.rs`). One detector per ring with its two counters,
the channel to the actor, `handle_edge_failure` with its configuration check,
and `rebuild`, which replaces all detectors and leaves the channel alone. What
a subject answers is free within what its condition allows; the network may
lose any answer. A subject in `Unparsable` has an address that is no socket address;
the factory gives it a detector that never ticks. `answered` and `suspected` are
history, kept apart from the counters: what was answered on each ring since the
configuration began, and which subjects that makes suspect.

**JoinProtocol** (`rapid/cluster_join.rs`, `rapid/service/handlers.rs`,
`alert_handler.rs`, `view_change.rs`). One joiner and the members that answer it.
The joiner's loop (`Phase1`, `ReceiveReply`, `Timeout`, `Retry`) runs against
`HandlePreJoin`, `ParkJoin` and `RejectJoin` (the two halves of `handle_join`),
`HandleAlert` and `Apply` (`decide_view_change` with `respond_to_joiners`). Messages
stay in the network: a request may be handled late, again (the transport
retries) or never. A view is reduced to what concerns the joiner: whether it is
in the ring, which of its identifiers were seen, and how many other changes
were made. Consensus appears as one decision per configuration, on a cut that a
member announced while a majority was in that configuration; a member that
decided does not vote again in the same one. `restarted` and `skipped` record
that the joiner drew an identifier anew, and that a member admitted it without
having one.

**ShardDirectory** (`src/crates/rapid-shard/src/lib.rs`, with `decide_view_change`
and `Cluster::initial_view_event`). The actor applies view changes at any time.
The directory asks for id, members and metadata in three steps, folds them in
and subscribes, then receives. The channel holds the last `Capacity` events
(64 in the code; tokio's broadcast channel is modelled from how it is used):
a receiver that fell behind is told so, takes a new snapshot in three steps,
and goes on with the oldest event still held. Buckets are sets.

**Service** (`rapid/service/task.rs`, `handle.rs`, `command.rs`, `alert_batcher.rs`,
`consensus_dispatch.rs`, `view_change.rs`, and `rapid/cluster/bootstrap.rs`,
`handle.rs`). One member from `finish_cluster` to `shutdown`. State: where the
owner is (`pc`), the server that holds a clone of the service, the actor, its
mailbox, the callers that wait or are parked, the fields of `ServiceState` that
timing matters for, the tasks around the actor, and a callback with its receiver.
One action per command (`HandleRead` ... `HandleShutdown`) and one per step of a
task (`BatcherTicks`, `WindowCloses`, `PumpForwards`, `TimerFires`, `ForwardEvent`).
A configuration is a number; whether a batch leads to a proposal and a consensus
message to a decision is free when it bears the current one, because
AlertPipeline and FastPaxos say when. `DecideViewChange` replaces the instance,
aborts the timer, and releases the parked callers of the decided cut; an abort
that comes when the timer has expired loses against it. `shutdown` waits for the
actor only if nobody else holds the service. `overtaken` records that a view
change came between a timer and its command.

**MessagingClient** is the abstract specification of `rapid/messaging/traits.rs`: a
request is handled at most as often as its call may be attempted, an answer comes
from a handler that ran, and an error says nothing; one event may fail several calls.
**Transport** shows that both
transports implement it. It composes **TimedClient** (`timed_client.rs`: a deadline
over the whole call, which ends whatever the call is doing), **GrpcPool**
(`grpc.rs`: channels cached per peer, connected outside the lock, renewed at every
lookup and idle after a while; retries and `invalidate`; attempts on the wire that
outlive their call) and **InProcessNetwork** (`in_process.rs`, with the filter of
`fault_injection.rs` that drops the first requests: servers registered under one
address, bounded inboxes, a loop that spawns a task per request, `drop` that aborts,
and `shutdown` that waits for the loop for a second and then leaves it running; the
loop ends when nobody holds a clone of the inbox, and a call holds one until it
has its reply or its deadline passes). The initial state chooses one of the two, as
`build_client` does. The tonic library is modelled from how `grpc.rs` uses it.

## 3. Runs

| run | instance | what it shows |
|---|---|---|
| `alert_pipeline` | 3 nodes, K=4, H=3, L=2, three views | counters agree with tallies (`FluxAccounting`), stable subjects are returned once (`StableReturnedOnce`), a proposal waits only for flux (`HeldBackOnlyByFlux`), cuts are complete (`CutIsComplete`), the result of an invalidation is the reference result whatever the order (`InvalidationOrderIndependent`), and what is proposed is all that the detector returned in the configuration, over any batches (`ProposalHoldsCuts`) |
| `fast_paxos_classic` | 3 members, of which two see different cuts and one none, 2 coordinators, an overtaken command, a learner | classic rounds of two coordinators choose one cut (`ClassicAgreement`); when nothing is left to handle, the learner has decided, if a coordinator voted and some vote was registered (`DecidedWhenIdle`) |
| `fast_paxos_five` | 5 members, 2 cuts, 1 coordinator | fast quorum 4 of 5: two fast choices are equal, the n/4 rule keeps what the fast round may have decided, and all choices agree unless a member voted late |
| `fast_paxos_learn` | 3 members, a learner, an overtaken command | a learner decides only what the senders chose; three members implement `Decision` (`ImplementsDecision`) |
| `membership_view` | 4 endpoints, 5 identifiers, 3 rings | the id is never stale, configurations never repeat, observers mirror subjects, and a cached observer is stale only at the end of a ring |
| `failure_detector` | 3 subjects, one with an unparsable address, a ring, 2 view changes | an alert rests on enough failed probes of its own configuration, so that neither a count nor a report crosses a view change (`NoStaleSuspicion`); failures are reported (`FailureIsReported`) |
| `join_protocol` | 3 members, one of them the observer, 3 attempts, 3 identifiers, a restart or another view change | SAFE_TO_JOIN comes with a view that holds the joiner (`SafeMeansMember`) under its current identifier (`JoinsAsItself`), `ring_add` does not refuse an admission (`AdmissionNotRefused`), and members that applied the same decisions have the same view (`ViewsAgree`) |
| `shard_directory` | 2 members, 2 shards, channel of 1, 3 view changes | buckets and reverse index agree; a directory whose construction met no view change is exact until it lags, and exact again whenever it has read everything |
| `service` | mailbox of 2, event channel of 1, 3 calls, a view change | a callback sees the initial view first (`InitialViewFirst`); a classic round without a vote comes only from a command that a view change overtook (`RoundWithoutVoteWasOvertaken`); callers are released, alerts leave, a vote falls back to a classic round, a shutdown ends everything (`CallersReleased`, `AlertsLeave`, `VoteFallsBack`, `ShutdownCompletes`) |
| `transport` | 2 calls, 1 retry, inbox of 1, 2 servers, 1 dropped request | both transports keep the promise of MessagingClient (`ImplementsMessagingClient`); a channel that failed is not handed out again (`FailedNotCached`); what a server accepted reaches its handler unless the server is aborted, and the loop of a server that is shut down or replaced ends, whatever handlers are parked and callers wait for (`AcceptedIsHandled`, `DrainEnds`) |
| `fast_paxos_agreement` | as `fast_paxos_five` | **violated**: see findings |
| `join_identifiers` | as `join_protocol` | **violated**: see findings |

*Why the bounds are enough for the cases meant.* Four rings over H = 3 allow
reports beyond the high watermark, and L < H a subject that stays in flux; the
three views are one without observers, one with a joiner and one of members
only; a batch may hold any number of alerts. Three members are the least with a
classic majority that is not everyone, and five the least with a fast quorum
that is not everyone. In the classic run the votes are split and one member votes
for nothing, so that the fast round cannot decide, a majority of promises may hold
no value, and it is up to the two competing rounds; one of the coordinators may be
early, by a command that was overtaken. Other assignments of cuts to members are
covered by the theorem, not by the run. In the five-member run only one member coordinates, no command was overtaken, and
votes are not delivered to learners, because its properties speak about what the
*sent* votes allow (`FastChosen`, `ClassicChosen`); `fast_paxos_learn` and the
theorem `DecisionsChosen` link these to what members decide. The refinement of
Decision is checked with three members, where a fast decision takes
everyone's vote, so that no other cut was voted for; with five it fails for the
reason of the finding.
A channel of one event makes a receiver lag after the second unread event, which
takes 65 in the code. Detectors of different rings share no state, so one ring
suffices for counting; two subjects let the ring change hands, or stay with the
same one, and the third cannot be probed. Three attempts
are the least in which a joiner draws a new identifier (one is admitted and
removed, the next is told that the identifier is taken, the third uses another),
and three identifiers let a restart come on top. One observer with H = 1 is enough
for messages, alerts and decisions of several attempts to meet; `MaxEvents` bounds
restarts and other view changes together. In the service run three calls are a
batch that proposes, a message that decides, and one more (a join that parks, or
a read behind Shutdown); two places in the mailbox make a timer or a tick wait for
room, and one tick at a time leaves a place for others, as 1023 do in the code.
Two calls share or race for a channel, with one retry a call can fail before and
after it was handled, an inbox of one makes a sender wait, and with two servers
one replaces the other.

*Type invariants.* Every module states one, and section 4 proves them all. The runs
check those of CutDetector, FastPaxos and MembershipView; the others hold in the
instances above too.

*Symmetry.* Cuts are interchangeable; members are where they have no node index
that matters (only coordinators use theirs); identifiers, endpoints and shards
in the remaining runs. No run with a liveness property uses it.

*Deadlock* is checked for the alert pipeline. The other systems stop: a
configuration ends with its decisions, the identifiers of a view run out, a
joiner joins or gives up, a member shuts down, calls end, and view changes are
bounded by `LastConfig`.

*Fairness.* FastPaxos states none. `DecidedWhenIdle` is an invariant about the states
in which no handler has anything to do and no timer of a voter is armed (`Handling`
is not enabled); since every step of `Handling` adds a message, an entry of a log or a
decision, such a state is reached whenever no message is lost and timers expire.
`Propose` and `OvertakenCommand` are not part of `Handling`: a member may never see a
cut, and the property does not count on a late command to help. With losses
the code gives no guarantee, since nothing is retried. `FailureDetector!FairSpec` assumes that
detector tasks tick and that the actor drains its mailbox; nothing is assumed
of the answers. `Service!FairSpec` assumes that the runtime polls the actor, the
batcher, the pump, the timer and a `shutdown` under way, and that the batching
window passes; nothing is assumed of callers, of the callback, or of a sender that
finds no room (tokio's channel is first come, first served; the bounded number
of calls and ticks stands for that). `Transport!Spec` assumes that deadlines pass
and that the loop of an in-process server is polled, and nothing of handlers,
which may be parked, of peers, or of the network.

## 4. Proofs

Checked by TLAPS for all values of the constants that satisfy the named
assumptions: any number of members, endpoints, rings, calls, retries, view
changes and so on, where the runs fix a few. Each proof module states its
inductive invariant `IInv` as a conjunction of named parts; TLC checked it on the
instance of the run before it was proved. The proofs go by the steps that can
disturb each part, and facts about data (sequences, quorums, ring orders,
cardinalities) are lemmas of their own. Every safety invariant, action property and
refinement that a passing run checks is a theorem, except `DecidedWhenIdle`, which
speaks of ENABLED.

**CutDetectorProofs** (any finite set of nodes, any K, H, L the constructor
accepts, any views).

- `TypeCorrect`, `FluxAccounted`, `ReturnedOnce`, `HeldBack`, `CutComplete`. None of
  the properties is inductive alone: that a stable subject is returned once needs
  to know that the flux set is what the tallies say, and the accounting needs the
  types of the control variables in the middle of a call. Their conjunction is
  inductive. The core is one lemma about `aggregate_one` (a report on a new ring
  raises one tally by one, so at most one subject crosses a watermark) used by both
  loops.
- `InvalidationDeterministic`. The reference speaks of the end of the call; the
  invariant (`LoopsOverFlux`, `NothingReturned`, `SuspectsReturned`) says what the
  loops have done in the middle as a function of the state at the start: the
  subjects visited have their implicit reports, the others the reports they had,
  and either nothing is returned yet, or all suspects are, no one is suspected any
  more, and the rest of the loops finds nothing to do.
- `PipelineUsesDetector` and `ProposalComplete`. The first is a refinement: with its
  own variables hidden, AlertPipeline is a CutDetector, so that the theorems above
  carry over. The second needs that what the batch has joined, with what the call
  in progress has returned, is all that was returned since the view change.

**FastPaxosProofs** (any finite set of members with distinct node indices, any
set of cuts, any bounds).

- `TypeCorrect`, `DecisionsChosen`, `FastRoundsAgree`. The inductive invariant joins
  the types, that a member sends one vote (`VotedOnce`), that ranks are those of
  coordinators, that a coordinator asks for one value and that what was accepted
  was asked for (`Structure`), and `DecisionIsChosen`. The structure is needed because
  the classic learner takes the value of the message that completes a bucket
  without comparing it with the others: one value per rank makes them equal.
  `FastRoundsAgree` adds that two sets of at least N - floor((N-1)/4) members
  intersect.
- `ClassicInvariance`, `ClassicRoundsAgree`, `FastChoiceKept`. The argument of Paxos:
  when a coordinator asks for a value, at every lower classic rank some majority
  accepted no other one and never will (`SafeAt`), and no other cut can still get a
  fast quorum of registered votes, because too many members promised without one
  (`FastSafe`). No step takes either back. They need that an acceptor's `vrnd` and
  `vval` are its last acceptance (`AcceptorRemembers`), that promises report it
  (`PromiseKept`, `PromisedOnce`), and that a coordinator's log holds each promise once
  (`LogDistinct`). The n/4 rule of `select_proposal_from_messages` is a counting lemma
  (`SelectFast`): a cut is passed over only if more members than a fast quorum can
  spare have promised without a vote for it.
- `AgreementUnlessLate`: the two rounds agree unless some member cast its vote after
  it promised a classic round. The run `fast_paxos_agreement` shows that the proviso
  cannot be dropped from five members on; `SmallConfigurationsAgree` that up to four
  it can, since the fast round then needs every vote.
- `DecisionsProposed`, `ConsensusImplementsDecision` and
  `SmallConfigurationsImplementDecision`: consensus implements **Decision** step by step,
  under the same conditions.

**MembershipViewProofs** (any finite set of endpoints, any number of rings, any
injective order): `TypeCorrect`, `IdNeverStale`, `NoConfigurationTwice`, `RingNumbersMatch`,
`CacheStaleOnlyAtWrap`. The type of a cached list rests on a lemma that a nonempty
finite set has a least and a greatest element in the order of a ring. That
successor and predecessor are inverse (`RingInverse`) makes ring numbers match. For
the cache, an endpoint that comes or goes on a ring changes the successor of one
member only, its predecessor, and `lower` finds it unless it is the last one
(`StillNext`, `KeptEntry`). `TypeOK` and the property are inductive together.

**FailureDetectorProofs** (any thresholds, rings and subjects): `TypeCorrect`,
`SuspicionsCurrent`. The property is about alerts. The invariant adds that the counters of
a detector are what the answers of this configuration make them
(`CountsMatchAnswers`), hence that a detector that has failed watches a suspect
(`FailedIsSuspected`), and that every report in the channel is of a subject that was
suspected in the configuration it names.

**JoinProtocolProofs** (any members, observers, H, number of attempts, identifiers,
restarts and other view changes): `TypeCorrect`, `SafeRepliesAdmit`, `RingAddAccepts`,
`DecisionsDetermineViews`, `JoinsUnderOwnIdentifier`. The
invariant follows the identifier from the joiner through phase-2 messages, alerts
and parked calls to the members. Wherever it is, it is not in the configuration it
was sent for (`IdentifiersFresh`), which gives `AdmissionNotRefused`; and unless the
joiner restarted, all identifiers before it are (`IdentifiersFollow`), since a new one is
drawn only when the seed has the last. The two together determine it from the
configuration, so that a decision leads every member from one view to the same
next one, and a member's applied decisions are a chain from the first view
(`Chains`); two equal sets of decisions are equal chains, because no configuration
comes back (`Before`). `Counted` keeps the bound on other view changes in the
types of the views. One assumption was added to JoinProtocol for it, which the code
relies on too: no configuration hashes to -1, the id that stands for none
(`NoConfigOutside`).

**ShardDirectoryProofs** (any nodes, shards, capacity of the event channel and number
of view changes): `TypeCorrect`, `BucketsConsistent`, `ExactBeforeLag`, `ExactWhenCaughtUp`.
What makes a torn snapshot with older events on top come out right is not in the
index but in what is still to be read: a node that no unread event touches is
right already, in the snapshot (`LaterSnapshot`) and in the index (`IndexSettled`), and
the last event that touches a node says what it advertises now (`LastWord`).

**ServiceProofs** (any capacities, callers, calls, ticks and view changes):
`TypeCorrect`, `CallbackStartsWithInitialView`, `UnvotedRoundsOvertaken`. Every step posts to
the mailbox, takes from it, does both (a timer that wins against its abort) or
clears it, and the parts of the invariant are preserved by each of these.
`BeforeServer` is why no view change can precede the initial view: detectors and
the batcher may post before it, but no request, hence no decision. `TimerOfThisVote`
follows the timer from the vote that armed it to the command in the mailbox.

**TransportProofs** (any calls, retries, servers, capacity of an inbox): `TypeCorrect`,
`FailedChannelsForgotten`, `TransportImplementsMessagingClient`. The
invariant has a part for each transport. Over gRPC it is a count: attempts handled
and attempts on the wire are at most the attempts sent, and those at most the
attempts allowed, also for a call that is over. In process it says where the
envelope of a call can be, and that it is in one place. The proof showed that the
abstract specification was too narrow: aborting a server ends all the calls that
wait in its inbox in one step, so MessagingClient now has `Fail` of a set of calls.
With an inbox of one, as in the run, two calls never waited together.

*Assumptions.* The constants are typed and finite where the code's are; bounds
are naturals; ring positions, node indices and configurations do not collide
(`PosInjective`, `NodeIndexInjective`, `NoConfigOutside`, and the configuration id stands for
its configuration); the watermarks are those `CutDetector::new` accepts. TLC evaluates
each assumption in the run of its module.

*Only model-checked.* `DecidedWhenIdle`, and liveness: `FailureIsReported`,
`CallersReleased`, `AlertsLeave`, `VoteFallsBack`, `ShutdownCompletes`, `AcceptedIsHandled`
and `DrainEnds`. The prover does not
handle fairness and ENABLED. Nor does it do induction over data or work in modules
with RECURSIVE operators, so the modules have none.

## 5. Findings

`fast_paxos_agreement`: with five members, a member that promised a classic
round and then votes (`rapid/consensus/fast_paxos.rs:99`) has its vote broadcast
although `register_fast_round_vote` did not record it. Learners count it,
coordinators do not see it, and the two rounds can choose different cuts.
`AgreementWithoutLateVotes` passes: this is the only way.

`join_identifiers`: a joiner whose phase-2 message arrives after its admission is
answered with the endpoints of the view but no identifiers
(`rapid/service/handlers.rs:102`), and bootstraps a view with another configuration id
than the members', whose messages it then drops. `view.rs:294-296` says that
`current_identifiers` is used in this answer; a comment in the handler defers it to a
later phase.

Other places where code and comments differ, or which passing properties
delimit:

- *Stale commands.* `consensus_dispatch.rs:118` says that a stale
  `StartClassicRound` cannot fire on the fresh state. Aborting the timer does not
  take back a command that is in the mailbox: it starts a classic round on the
  new instance, before any vote, and uses up its `classic_started` latch, so that
  this member's own timer does nothing later. `RoundWithoutVoteWasOvertaken`: there
  is no other way to such a round. Such a round can leave the configuration
  undecided with no message lost, although `fast_paxos.rs:167-168` counts on the
  timer that `propose` armed: it collects promises that hold no value, every vote
  that follows is late and is not registered, and the latch keeps the coordinator
  from a second round. `DecidedWhenIdle`: this does not happen once any vote was
  registered.
- *Torn snapshots.* A view change between the three requests of a snapshot, or
  between snapshot and subscription, leaves a directory with the id of one
  configuration and the buckets of another (`rapid/cluster/handle.rs:96`,
  `rapid-shard/src/lib.rs:149`). `CaughtUpIsExact`: the same tearing after a lag
  heals once the channel is read.
- *Shutdown.* `service/handle.rs:142` says that `shutdown` returns once the actor has
  drained. It returns at once when any clone of the service is held, a request in
  flight included, and what is queued behind Shutdown is dropped, not drained.
- *Bootstrap.* `service/command.rs:83` calls `PublishInitialView` the very first queued
  command, but detectors and the batcher may post before it (`InitialViewFirst`: it
  makes no difference to a callback). `bootstrap.rs:214`: when the server cannot bind,
  the actor, the batcher and the detectors go on running without an owner. The
  comment at `bootstrap.rs:301-304` has the server bind first; the code installs the
  service first, so BOOTSTRAPPING is never answered by a started cluster.
- *Callbacks.* A callback that falls 64 events behind is never called again
  (`bootstrap.rs:202`), and nobody is told. `ViewChangeProposal` and
  `ViewChangeOneStepFailed` are never published.
- *In-process network.* `unregister` removes whatever is registered under the
  address, so closing the handle of an old server takes a newer one off the
  network (`in_process.rs:98`). Dropping a handle
  stops the loop, not the handlers in flight as `in_process.rs:113` says: they are
  tasks of their own. A `shutdown` that overruns its second does not "fall back to
  abort" as `in_process.rs:134-135` says: the code at 137-143 leaves the loop running,
  so what was accepted is still handled (`AcceptedIsHandled`). Nor need the loop
  exit "in microseconds": a call holds its clone of the inbox while it waits for the
  reply (`in_process.rs:176-187`), so a parked handler holds up the drain until
  the caller's deadline (`DrainEnds`).
- *Deadlines.* A deadline covers all the attempts of a call and drops it without
  `invalidate`: a channel that hangs stays cached as long as it is used.
- *Observer cache.* `ring_add` and `ring_delete` drop the cached observers of
  `lower(endpoint)` only, so the member that is last on a ring may keep a wrong list
  (`StaleOnlyAtWrap`: nothing else is stale).
- *Identifiers of joiners.* Members can give a joiner different identifiers, and so
  get different configuration ids, when it restarts within a configuration or when
  one of them never heard of it (the two exceptions of `ViewsAgree`).
- *Probes.* An OK answer does not reset `failure_count`, although the module comment
  of `ping_pong.rs` speaks of consecutive failures.

## 6. What is not modelled

- Of messaging: the recipient list of the broadcaster and its shuffling (the order
  of deliveries is free in every model), the fault-injection filters that only
  tests combine (`DropAtDests`, `Chain`), and transports that the user supplies
  (`TransportChoice::Custom`, `bootstrap.rs:235` and `310`), of which the crate knows only
  the traits; MessagingClient is what it expects of them.
- Of the cluster API: the fan-out of `leave_gracefully`, which is a bounded wait for
  best-effort calls; what a leave message does to its receiver is in Service and
  AlertPipeline.
- Of the service: the commands that only tests send, and the event channels other
  than `ViewChange`, which behave alike.
- Members in different configurations that exchange consensus messages: FastPaxos
  ends with its configuration, JoinProtocol has one decision per configuration.
- The lifetime of the shard forwarder, which holds the senders it waits on.
- Settings, types and generated code; the static failure detector, which is for tests; test
  harnesses, the example and the soak program: no protocol state of their own.

Time is nondeterministic. Hash collisions (ring position, configuration id, node
index) are excluded by assumptions.

## 7. Plan

The components are modelled as far as section 6 says, and what the runs check of
safety is proved. What is left:

1. Safety facts that the liveness properties rest on, as invariants with proofs: a
   parked call is released by some cut or view change, an armed timer or its
   command exists while a vote has no decision, a subject that was notified has a
   report in the channel.
2. Agreement for N >= 5 under a condition on the code instead of on the behaviour:
   with `propose` refusing a vote after a promise, `late` stays empty and
   `AgreementUnlessLate` applies.
