------------------------------- MODULE Service -------------------------------
(***************************************************************************)
(* One member from its bootstrap to its shutdown: the actor of             *)
(* crates/rapid/src/service and its mailbox, the tasks that post to it     *)
(* (alert batcher, pump of the failure detectors, fallback timer), the     *)
(* forwarder of a callback registered before the start, and the handles of *)
(* crates/rapid/src/cluster through which it is built and stopped.         *)
(*                                                                         *)
(* The actor takes one command at a time, in the order of a bounded        *)
(* mailbox; a sender waits for room in it.  Tasks are not stopped with the *)
(* actor: they find the mailbox closed.  Dropping the mailbox or a parked  *)
(* reply is an error for the caller that waits on it.                      *)
(*                                                                         *)
(* What is abstracted: a configuration is a number, a view change the next *)
(* one; what a batch of alerts or a consensus message leads to is free if  *)
(* it bears the current configuration (CutDetector and FastPaxos say what  *)
(* it is); one failure detector stands for all, and its report passes the  *)
(* pump in one step (FailureDetector has the channel); a caller that gives *)
(* up is one that ignores its answer.  Whoever else holds a clone of the   *)
(* service counts as part of the server.  Of the event channels, the one   *)
(* of ViewChange is modelled.  The commands that only tests send           *)
(* (ApplyProposal, RebuildFailureDetectors, AlertQueueLen) are left out.   *)
(***************************************************************************)
EXTENDS Integers, Sequences

CONSTANTS
    MailboxCapacity,    \* 1024 in the code
    EventCapacity,      \* EVENT_CHANNEL_CAPACITY
    MaxInFlight,        \* bound: calls at a time
    MaxCalls,           \* bound: calls to the actor
    MaxTicks,           \* bound: ticks of the batcher in the mailbox
    LastConfig          \* bound: view changes

\* The requests that differ in what they do.  Queries, probes and pre-join messages
\* are reads.
Kinds == {"read", "join", "alerts", "leave", "consensus"}

ASSUME BoundsNat ==
    /\ MailboxCapacity \in Nat \ {0} /\ EventCapacity \in Nat \ {0}
    /\ MaxTicks \in Nat \ {0} /\ MaxCalls \in Nat /\ MaxInFlight \in Nat /\ LastConfig \in Nat

VARIABLES
    pc,             \* of the process that builds, owns and stops the Cluster
    server,         \* the messaging server, which holds a clone of the service
    actor,          \* the task of the actor
    mailbox,
    calls,          \* the call of each caller
    made,           \* number of calls made
    config,         \* current_configuration_id
    announced,      \* AnnouncedProposal: the Fast Paxos instance has voted
    classic,        \* its classic_started
    timer,          \* pending_fallback: the configuration it was armed in
    queued,         \* there are alerts in send_queue
    lastEnqueue,    \* last_enqueue_at, against the batching window
    detector,       \* the failure-detector task of this configuration
    tasks,          \* the batcher and the pump
    events,         \* ViewChange events published
    forwarder,      \* the task of the callback
    seen,           \* the events the callback was called with
    overtaken       \* history: a view change came between a timer and its command

owner == <<pc, server>>
state == <<config, announced, classic, queued, lastEnqueue>>
callback == <<forwarder, seen>>
vars == <<owner, actor, mailbox, calls, made, state, timer, detector, tasks,
          events, callback, overtaken>>

Callers == 1 .. MaxInFlight
NoTimer == -1
Configs == 0 .. LastConfig

Command(c, n) == [cmd |-> c, n |-> n]
NoCall == [kind |-> "none", stamp |-> 0, status |-> "done"]
Event(c, initial) == [config |-> c, initial |-> initial]

Init ==
    /\ pc = "new"
    /\ server = "down"
    /\ actor = "none"
    /\ mailbox = <<>>
    /\ calls = [c \in Callers |-> NoCall]
    /\ made = 0
    /\ config = 0
    /\ announced = FALSE
    /\ classic = FALSE
    /\ timer = NoTimer
    /\ queued = FALSE
    /\ lastEnqueue = "none"
    /\ detector = "none"
    /\ tasks = {}
    /\ events = <<>>
    /\ forwarder = "none"
    /\ seen = <<>>
    /\ overtaken = FALSE

Running == actor = "running"

Room == Len(mailbox) < MailboxCapacity
Post(c) == mailbox' = Append(mailbox, c)

\* A sender waits for room; a closed mailbox is an error, which each one handles.
Send(c) == Running /\ Room /\ Post(c)
Closed == actor = "stopped" /\ UNCHANGED mailbox

-----------------------------------------------------------------------------
(* finish_cluster                                                          *)

SpawnActor ==
    /\ pc = "new"
    /\ pc' = "spawned"
    /\ actor' = "running"
    /\ detector' = "watching"
    /\ tasks' = {"batcher", "pump"}
    /\ UNCHANGED <<server, mailbox, calls, made, state, timer, events,
                   callback, overtaken>>

\* The callback's receiver sees what is published from now on.
WireSubscriptions ==
    /\ pc = "spawned"
    /\ pc' = "wired"
    /\ forwarder' = "running"
    /\ UNCHANGED <<server, actor, mailbox, calls, made, state, timer, detector,
                   tasks, events, seen, overtaken>>

AskInitialView ==
    /\ pc = "wired"
    /\ Send(Command("PublishInitialView", 0))
    /\ pc' = "asked"
    /\ UNCHANGED <<server, actor, calls, made, state, timer, detector,
                   tasks, events, callback, overtaken>>

\* Mutant: the server does not wait for the initial view.
ServesAtOnce == pc = "wired"

\* The initial view was asked for, and the actor has acknowledged it.
InitialViewAcked ==
    /\ pc = "asked"
    /\ \A i \in DOMAIN mailbox : mailbox[i].cmd # "PublishInitialView"

\* The server comes last; when it cannot bind, the handle is lost and the rest runs.
SpawnServer(bound) ==
    /\ InitialViewAcked
    /\ pc' = IF bound THEN "serving" ELSE "unbound"
    /\ server' = IF bound THEN "up" ELSE "down"
    /\ UNCHANGED <<actor, mailbox, calls, made, state, timer, detector,
                   tasks, events, callback, overtaken>>

-----------------------------------------------------------------------------
(* Callers.                                                                *)

InFlight == \E c \in Callers : calls[c] # NoCall

Stamped == {"join", "alerts", "consensus"}

\* dispatch, memberlist, configuration_id and the others: on a closed mailbox the
\* caller has its error at once.  Callers are alike: the first idle one calls next.
MakeCall(c, kind, stamp) ==
    /\ made < MaxCalls
    /\ calls[c] = NoCall /\ \A d \in 1 .. c - 1 : calls[d] # NoCall
    /\ server # "down"
    /\ kind \notin Stamped => stamp = 0
    /\ Send(Command("Request", c))
    /\ calls' = [calls EXCEPT ![c] = [kind |-> kind, stamp |-> stamp, status |-> "waiting"]]
    /\ made' = made + 1
    /\ UNCHANGED <<owner, actor, state, timer, detector, tasks, events,
                   callback, overtaken>>

-----------------------------------------------------------------------------
(* The actor: run, handle_command, handle_request.                         *)

Is(cmd) == Running /\ mailbox # <<>> /\ Head(mailbox).cmd = cmd
IsCall(kind) == Is("Request") /\ calls[Head(mailbox).n].kind = kind
ThisCall == Head(mailbox).n
Current == calls[ThisCall].stamp = config

Take == mailbox' = Tail(mailbox)
Answer(cs) == calls' = [c \in Callers |-> IF c \in cs THEN NoCall ELSE calls[c]]
Park == calls' = [calls EXCEPT ![ThisCall].status = "parked"]

\* enqueue_alert
EnqueueAlert == queued' = TRUE /\ lastEnqueue' = "recent"

HandleRead ==
    /\ IsCall("read")
    /\ Take
    /\ Answer({ThisCall})
    /\ UNCHANGED <<owner, actor, made, state, timer, detector, tasks, events,
                   callback, overtaken>>

\* handle_join: parked with an alert, or answered.
HandleJoin ==
    /\ IsCall("join")
    /\ Take
    /\ \/ Current /\ Park /\ EnqueueAlert
       \/ ~Current /\ Answer({ThisCall}) /\ UNCHANGED <<queued, lastEnqueue>>
    /\ UNCHANGED <<owner, actor, made, config, announced, classic, timer,
                   detector, tasks, events, callback, overtaken>>

HandleLeave ==
    /\ IsCall("leave")
    /\ Take
    /\ Answer({ThisCall})
    /\ EnqueueAlert
    /\ UNCHANGED <<owner, actor, made, config, announced, classic, timer,
                   detector, tasks, events, callback, overtaken>>

\* handle_batched_alerts and propose: a cut is proposed once in a configuration.
HandleAlerts ==
    /\ IsCall("alerts")
    /\ Take
    /\ Answer({ThisCall})
    /\ \/ UNCHANGED <<announced, timer>>
       \/ /\ Current /\ ~announced
          /\ announced' = TRUE
          /\ timer' = config
    /\ UNCHANGED <<owner, actor, made, config, classic, queued, lastEnqueue,
                   detector, tasks, events, callback, overtaken>>

\* Mutant: the timer outlives the instance it was armed for.
KeepTimer == Take /\ UNCHANGED <<timer, overtaken>>

\* reinstate_fast_paxos aborts the timer.  An abort that finds it expired loses
\* against it, and a command that is in the mailbox stays there.
AbortTimer ==
    /\ timer' = NoTimer
    /\ \/ Take
       \/ /\ timer # NoTimer
          /\ mailbox' = Append(Tail(mailbox), Command("StartClassicRound", timer))
    /\ overtaken' = (overtaken \/
          \E i \in DOMAIN mailbox' : mailbox'[i].cmd = "StartClassicRound")

Parked == {c \in Callers : calls[c].status = "parked"}

\* decide_view_change with reinstate_fast_paxos and respond_to_joiners.  Alerts in
\* the queue stay.
DecideViewChange(removed, admitted) ==
    /\ config < LastConfig
    /\ config' = config + 1
    /\ announced' = FALSE
    /\ classic' = FALSE
    /\ AbortTimer
    /\ detector' = IF removed THEN "none" ELSE "watching"
    /\ events' = Append(events, Event(config', FALSE))
    /\ Answer(admitted \cup {ThisCall})
    /\ UNCHANGED <<owner, actor, made, queued, lastEnqueue, tasks, callback>>

\* A consensus message that decides.
HandleDecision(removed, admitted) ==
    /\ IsCall("consensus")
    /\ Current
    /\ DecideViewChange(removed, admitted)

\* A consensus message that does not, or of another configuration.
HandleConsensus ==
    /\ IsCall("consensus")
    /\ Take
    /\ Answer({ThisCall})
    /\ UNCHANGED <<owner, actor, made, state, timer, detector, tasks, events,
                   callback, overtaken>>

\* start_classic_round, which classic_started makes idempotent.
HandleStartClassicRound ==
    /\ Is("StartClassicRound")
    /\ Take
    /\ classic' = TRUE
    /\ UNCHANGED <<owner, actor, calls, made, config, announced, queued,
                   lastEnqueue, timer, detector, tasks, events, callback,
                   overtaken>>

HandleEdgeFailure ==
    /\ Is("EdgeFailure")
    /\ Take
    /\ \/ Head(mailbox).n = config /\ EnqueueAlert
       \/ Head(mailbox).n # config /\ UNCHANGED <<queued, lastEnqueue>>
    /\ UNCHANGED <<owner, actor, calls, made, config, announced, classic,
                   timer, detector, tasks, events, callback, overtaken>>

\* Mutant: the time of the last alert is taken even when the window is still open.
TakeLast == lastEnqueue' = "none"

KeepLast == UNCHANGED lastEnqueue

\* handle_tick: nothing to send, an open window, or the batch goes out.
HandleTick ==
    /\ Is("TickAlertBatcher")
    /\ Take
    /\ \/ ~queued /\ UNCHANGED <<queued, lastEnqueue>>
       \/ queued /\ lastEnqueue # "old" /\ KeepLast /\ UNCHANGED queued
       \/ queued /\ lastEnqueue = "old" /\ queued' = FALSE /\ lastEnqueue' = "none"
    /\ UNCHANGED <<owner, actor, calls, made, config, announced, classic,
                   timer, detector, tasks, events, callback, overtaken>>

HandlePublishInitialView ==
    /\ Is("PublishInitialView")
    /\ Take
    /\ events' = Append(events, Event(config, TRUE))
    /\ UNCHANGED <<owner, actor, calls, made, state, timer, detector, tasks,
                   callback, overtaken>>

\* Mutant: the state goes to ShuttingDown and the loop goes on.
LoopGoesOn ==
    Take /\ UNCHANGED <<actor, calls, announced, classic, queued, lastEnqueue>>

\* The loop ends; the mailbox, the state and with it the parked replies are dropped.
ActorEnds ==
    /\ actor' = "stopped"
    /\ mailbox' = <<>>
    /\ Answer(Callers)
    /\ announced' = FALSE
    /\ classic' = FALSE
    /\ queued' = FALSE
    /\ lastEnqueue' = "none"

\* Detectors are aborted, a fallback timer is not.
HandleShutdown ==
    /\ Is("Shutdown")
    /\ ActorEnds
    /\ detector' = "none"
    /\ UNCHANGED <<owner, made, config, timer, tasks, events, callback,
                   overtaken>>

-----------------------------------------------------------------------------
(* The tasks around the actor.                                             *)

Ticks == SelectSeq(mailbox, LAMBDA c : c.cmd = "TickAlertBatcher")

\* spawn_batcher_loop, which sleeps between two ticks.
BatcherTicks ==
    /\ "batcher" \in tasks
    /\ Len(Ticks) < MaxTicks
    /\ \/ Send(Command("TickAlertBatcher", 0)) /\ UNCHANGED tasks
       \/ Closed /\ tasks' = tasks \ {"batcher"}
    /\ UNCHANGED <<owner, actor, calls, made, state, timer, detector, events,
                   callback, overtaken>>

\* The batching window ends without another alert.
WindowCloses ==
    /\ lastEnqueue = "recent"
    /\ lastEnqueue' = "old"
    /\ UNCHANGED <<owner, actor, mailbox, calls, made, config, announced,
                   classic, queued, timer, detector, tasks, events, callback,
                   overtaken>>

\* A detector reports once, through spawn_fd_notifier_pump; the pump ends when a
\* send fails or all detectors are gone.
PumpForwards ==
    /\ "pump" \in tasks
    /\ \/ /\ detector = "watching"
          /\ Send(Command("EdgeFailure", config))
          /\ detector' = "notified"
          /\ UNCHANGED tasks
       \/ /\ Closed
          /\ tasks' = tasks \ {"pump"}
          /\ UNCHANGED detector
    /\ UNCHANGED <<owner, actor, calls, made, state, timer, events, callback, overtaken>>

\* Mutant: the command is lost when there is no room for it.
TrySendFallback ==
    IF Running /\ Room THEN Post(Command("StartClassicRound", timer)) ELSE UNCHANGED mailbox

SendFallback == Send(Command("StartClassicRound", timer)) \/ Closed

\* spawn_fallback: the delay is over.
TimerFires ==
    /\ timer # NoTimer
    /\ SendFallback
    /\ timer' = NoTimer
    /\ UNCHANGED <<owner, actor, calls, made, state, detector, tasks, events,
                   callback, overtaken>>

\* The channel holds the last EventCapacity events.
Oldest == Len(events) - EventCapacity + 1
NextEvent == Len(seen) + 1

\* The callback is called with the next event.
ForwardEvent ==
    /\ forwarder = "running"
    /\ NextEvent \in Oldest .. Len(events)
    /\ seen' = Append(seen, events[NextEvent])
    /\ UNCHANGED <<owner, actor, mailbox, calls, made, state, timer, detector, tasks,
                   events, forwarder, overtaken>>

\* `while let Ok`: an error of recv ends the loop, Lagged too.
ForwarderLags ==
    /\ forwarder = "running"
    /\ NextEvent < Oldest
    /\ forwarder' = "ended"
    /\ UNCHANGED <<owner, actor, mailbox, calls, made, state, timer, detector, tasks,
                   events, seen, overtaken>>

\* Whoever else holds the service: its clones keep the event channels open.
OthersHold == server # "down" \/ InFlight

ForwarderEnds ==
    /\ forwarder = "running"
    /\ NextEvent > Len(events)
    /\ actor = "stopped" /\ pc = "returned" /\ ~OthersHold
    /\ forwarder' = "ended"
    /\ UNCHANGED <<owner, actor, mailbox, calls, made, state, timer, detector, tasks,
                   events, seen, overtaken>>

-----------------------------------------------------------------------------
(* Cluster::leave_gracefully and Cluster::shutdown.                        *)

\* Both end with this; the fan-out of leave_gracefully concerns other members.
StopServer ==
    /\ pc = "serving"
    /\ pc' = "stopping"
    /\ server' = "closing"
    /\ UNCHANGED <<actor, mailbox, calls, made, state, timer, detector, tasks, events,
                   callback, overtaken>>

\* The server task ends and its handler goes, maybe later than shutdown returned.
ServerGone ==
    /\ server = "closing"
    /\ server' = "down"
    /\ UNCHANGED <<pc, actor, mailbox, calls, made, state, timer, detector,
                   tasks, events, callback, overtaken>>

SendShutdown ==
    /\ pc = "stopping"
    /\ Send(Command("Shutdown", 0)) \/ Closed
    /\ pc' = "sent"
    /\ UNCHANGED <<server, actor, calls, made, state, timer, detector,
                   tasks, events, callback, overtaken>>

\* Mutant: the handle is awaited until it is the last one.
WaitForSole == ~OthersHold /\ pc' = "awaiting"

\* Arc::try_unwrap: only the last holder of the join handle waits for the actor.
TryUnwrap == pc' = IF OthersHold THEN "returned" ELSE "awaiting"

AfterShutdown ==
    /\ pc = "sent"
    /\ TryUnwrap
    /\ UNCHANGED <<server, actor, mailbox, calls, made, state, timer, detector,
                   tasks, events, callback, overtaken>>

AwaitActor ==
    /\ pc = "awaiting"
    /\ actor = "stopped"
    /\ pc' = "returned"
    /\ UNCHANGED <<server, actor, mailbox, calls, made, state, timer, detector,
                   tasks, events, callback, overtaken>>

-----------------------------------------------------------------------------

ActorStep ==
    \/ HandleRead
    \/ HandleJoin
    \/ HandleLeave
    \/ HandleAlerts
    \/ \E removed \in BOOLEAN, admitted \in SUBSET Parked : HandleDecision(removed, admitted)
    \/ HandleConsensus
    \/ HandleStartClassicRound
    \/ HandleEdgeFailure
    \/ HandleTick
    \/ HandlePublishInitialView
    \/ HandleShutdown

Shutdown == SendShutdown \/ AfterShutdown \/ AwaitActor

Next ==
    \/ SpawnActor
    \/ WireSubscriptions
    \/ AskInitialView
    \/ \E bound \in BOOLEAN : SpawnServer(bound)
    \/ \E c \in Callers, kind \in Kinds, stamp \in Configs :
          MakeCall(c, kind, stamp)
    \/ ActorStep
    \/ BatcherTicks
    \/ WindowCloses
    \/ PumpForwards
    \/ TimerFires
    \/ ForwardEvent
    \/ ForwarderLags
    \/ ForwarderEnds
    \/ StopServer
    \/ ServerGone
    \/ Shutdown

Spec == Init /\ [][Next]_vars

\* The runtime polls every task that can go on, and time passes.  Nothing is assumed
\* of a sender that waits for room: with MaxTicks below the capacity only calls,
\* which are bounded, keep the mailbox full.
Fairness ==
    /\ WF_vars(ActorStep)
    /\ WF_vars(WindowCloses)
    /\ WF_vars(BatcherTicks)
    /\ WF_vars(PumpForwards)
    /\ WF_vars(TimerFires)
    /\ WF_vars(Shutdown)

FairSpec == Spec /\ Fairness

-----------------------------------------------------------------------------
(* Properties.                                                             *)

\* Types; there is no reply left to send once the actor has stopped.
TypeOK ==
    /\ pc \in {"new", "spawned", "wired", "asked", "serving", "unbound", "stopping",
               "sent", "awaiting", "returned"}
    /\ server \in {"down", "up", "closing"}
    /\ actor \in {"none", "running", "stopped"}
    /\ mailbox \in Seq([cmd : {"Request", "PublishInitialView", "Shutdown",
                               "StartClassicRound", "EdgeFailure", "TickAlertBatcher"},
                        n : Configs \cup Callers])
    /\ Len(mailbox) <= MailboxCapacity
    /\ calls \in [Callers -> {NoCall} \cup [kind : Kinds,
                              stamp : Configs, status : {"waiting", "parked"}]]
    /\ made \in 0 .. MaxCalls
    /\ config \in Configs
    /\ {announced, classic, queued, overtaken} \subseteq BOOLEAN
    /\ timer \in Configs \cup {NoTimer}
    /\ lastEnqueue \in {"none", "recent", "old"}
    /\ detector \in {"none", "watching", "notified"}
    /\ tasks \subseteq {"batcher", "pump"}
    /\ events \in Seq([config : Configs, initial : BOOLEAN])
    /\ forwarder \in {"none", "running", "ended"}
    /\ seen \in Seq([config : Configs, initial : BOOLEAN])

\* A callback registered before the start is first called with the view that the
\* member starts in, although detectors and the batcher post before that view is
\* published: nothing that could change the view reaches the actor until then.
InitialViewFirst == seen # <<>> => Head(seen) = Event(0, TRUE)

\* A classic round is started in a configuration in which this member has not
\* voted only if a view change overtook the command of a timer: the timer itself
\* never reaches the instance of a later configuration.
RoundWithoutVoteWasOvertaken == classic /\ ~announced => overtaken

\* A caller waits for the actor, or is parked although the actor was told to stop.
Waits(c) ==
    \/ calls[c].status = "waiting"
    \/ calls[c].status = "parked" /\ pc \in {"sent", "awaiting", "returned"}

\* No caller waits for ever: it gets its answer or an error, or is parked, and a
\* shutdown releases those who are parked.
CallersReleased == \A c \in Callers : Waits(c) ~> ~Waits(c)

\* A queued alert is broadcast once alerts pause, through any view change.
AlertsLeave == (queued /\ Running) ~> (~queued \/ ~Running)

\* A vote is followed by a classic round if no view change comes first, however
\* full the mailbox is when the timer expires.
VoteFallsBack == (announced /\ Running) ~> (classic \/ ~announced \/ ~Running)

\* A shutdown returns, whoever else holds the service, and in the end nothing that
\* was started with the actor is left.
ShutdownCompletes ==
    pc = "stopping" ~>
        (pc = "returned" /\ actor = "stopped" /\ tasks = {} /\ timer = NoTimer)
=============================================================================
