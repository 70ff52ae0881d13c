--------------------------- MODULE ShardDirectory ---------------------------
(***************************************************************************)
(* The replica directory of crates/rapid-shard/src/lib.rs, at one member.  *)
(*                                                                         *)
(* A directory is built from a snapshot of the member's view, then folds   *)
(* in the view-change events of a bounded broadcast channel.  The snapshot *)
(* is three requests to the actor (initial_view_event), between which the  *)
(* actor may apply view changes.  A receiver that falls behind is told so  *)
(* by the channel (Lagged): it takes a new snapshot in the same way and    *)
(* goes on with the oldest event the channel still holds.                  *)
(*                                                                         *)
(* The metadata of a member is the set of shards it advertises.  Buckets   *)
(* are sets: the order of replicas is left out.  A bucket that is empty is *)
(* absent from the code's map, and so is an endpoint with no shards here.  *)
(* The actor does not stop, so its requests do not fail.                   *)
(***************************************************************************)
EXTENDS Integers, Sequences

CONSTANTS
    Nodes,
    Shards,
    Capacity,       \* EVENT_CHANNEL_CAPACITY
    LastConfig      \* bound: number of view changes

ASSUME BoundsNat == Capacity \in Nat \ {0} /\ LastConfig \in Nat

VARIABLES
    config,         \* configuration of the actor; each view change has a new one
    members,        \* its members
    metadata,       \* the shards each member advertises
    events,         \* everything sent to the channel
    pc,             \* next step of the directory
    subscribed,     \* it has a receiver
    next,           \* the event the receiver will read
    snap,           \* what the requests of a snapshot have returned
    index,          \* ShardIndex
    past,           \* history: the metadata of every configuration
    raced,          \* history: a view change fell between snapshot and subscription
    lagged          \* history: the receiver fell behind

actor == <<config, members, metadata, events, past>>
vars == <<actor, pc, subscribed, next, snap, index, raced, lagged>>

Adverts == [Nodes -> SUBSET Shards]
NoAdverts == [n \in Nodes |-> {}]

\* The nodes a view change adds, with what they advertise, and those it removes.
Event(c, up, down) == [config |-> c, up |-> up, down |-> down]

EmptyIndex ==
    [configurationId |-> -1, byShard |-> [s \in Shards |-> {}],
     byEndpoint |-> NoAdverts]

Buckets(adverts) == [s \in Shards |-> {n \in Nodes : s \in adverts[n]}]

Init ==
    /\ config = 0
    /\ members \in SUBSET Nodes
    /\ metadata \in Adverts
    /\ \A n \in Nodes \ members : metadata[n] = {}
    /\ events = <<>>
    /\ past = <<metadata>>
    /\ pc = "id"
    /\ subscribed = FALSE
    /\ next = 1
    /\ snap = [config |-> 0, members |-> {}, metadata |-> NoAdverts]
    /\ index = EmptyIndex
    /\ raced = FALSE
    /\ lagged = FALSE

-----------------------------------------------------------------------------
(* The actor: decide_view_change, one command of the mailbox.              *)

\* The metadata of a node that leaves is removed; add does not overwrite.
MetadataAfter(up, down) ==
    [n \in Nodes |->
        IF n \in down THEN {}
        ELSE IF n \in DOMAIN up /\ metadata[n] = {} THEN up[n]
        ELSE metadata[n]]

\* Mutant: the id is taken before the cut is applied.
OldConfiguration == config

\* The id published with a view change is the one of the view that results.
NewConfiguration == config + 1

\* Every node of the cut leaves if it is a member, and joins otherwise.  Joiners
\* that the code skips, for want of an identifier, are not in the cut here.
ViewChange(cut, adverts) ==
    LET down == cut \cap members
        up   == [n \in cut \ members |-> adverts[n]]
    IN  /\ config < LastConfig
        /\ config' = config + 1
        /\ members' = (members \ down) \cup (cut \ members)
        /\ metadata' = MetadataAfter(up, down)
        /\ events' = Append(events, Event(NewConfiguration, up, down))
        /\ past' = Append(past, metadata')
        /\ raced' = (raced \/ (~subscribed /\ pc # "id"))
        /\ UNCHANGED <<pc, subscribed, next, snap, index, lagged>>

-----------------------------------------------------------------------------
(* apply_delta                                                             *)

Touched(ev) == DOMAIN ev.up \cup ev.down

\* Mutant: a node that comes up again keeps its old buckets.
ScrubsLeavers(ix, ev, s) ==
    {n \in ix.byShard[s] : ~(n \in ev.down /\ s \in ix.byEndpoint[n])}

\* drop_endpoint_from_buckets, which finds the buckets through the reverse index.
Scrubbed(ix, ev, s) ==
    {n \in ix.byShard[s] : ~(n \in Touched(ev) /\ s \in ix.byEndpoint[n])}

ApplyDelta(ix, ev) ==
    [configurationId |-> ev.config,
     byShard |-> [s \in Shards |->
        Scrubbed(ix, ev, s) \cup {n \in DOMAIN ev.up : s \in ev.up[n]}],
     byEndpoint |-> [n \in Nodes |->
        IF n \in DOMAIN ev.up THEN ev.up[n]
        ELSE IF n \in ev.down THEN {}
        ELSE ix.byEndpoint[n]]]

-----------------------------------------------------------------------------
(* A snapshot: initial_view_event, and full_resync, which is the same.     *)

ReadConfigurationId ==
    /\ pc = "id"
    /\ snap' = [snap EXCEPT !.config = config]
    /\ pc' = "members"
    /\ UNCHANGED <<actor, subscribed, next, index, raced, lagged>>

ReadMemberlist ==
    /\ pc = "members"
    /\ snap' = [snap EXCEPT !.members = members]
    /\ pc' = "metadata"
    /\ UNCHANGED <<actor, subscribed, next, index, raced, lagged>>

ReadMetadata ==
    /\ pc = "metadata"
    /\ snap' = [snap EXCEPT !.metadata = metadata]
    /\ pc' = "install"
    /\ UNCHANGED <<actor, subscribed, next, index, raced, lagged>>

\* Every member of the snapshot is reported up, with its metadata.
SnapshotEvent == Event(snap.config, [n \in snap.members |-> snap.metadata[n]], {})

\* Mutant: the snapshot is folded into the old index.
KeepIndex == index

\* The index a snapshot is folded into.
ResetIndex == EmptyIndex

\* The local copy of the snapshot is gone once it is folded in.
Install ==
    /\ pc = "install"
    /\ index' = ApplyDelta(ResetIndex, SnapshotEvent)
    /\ snap' = [config |-> 0, members |-> {}, metadata |-> NoAdverts]
    /\ pc' = "receive"

\* build: the directory subscribes after the index is there.
Subscribe ==
    /\ ~subscribed
    /\ Install
    /\ subscribed' = TRUE
    /\ next' = Len(events) + 1
    /\ UNCHANGED <<actor, raced, lagged>>

\* full_resync has returned.
Resync ==
    /\ subscribed
    /\ Install
    /\ UNCHANGED <<actor, subscribed, next, raced, lagged>>

-----------------------------------------------------------------------------
(* The forwarder task, over the channel.                                   *)

\* The channel holds the last Capacity events.
Oldest == Len(events) - Capacity + 1

Receive ==
    /\ pc = "receive"
    /\ next <= Len(events)
    /\ next >= Oldest
    /\ index' = ApplyDelta(index, events[next])
    /\ next' = next + 1
    /\ UNCHANGED <<actor, pc, subscribed, snap, raced, lagged>>

Lagged ==
    /\ pc = "receive"
    /\ next < Oldest
    /\ next' = Oldest
    /\ lagged' = TRUE
    /\ pc' = "id"
    /\ UNCHANGED <<actor, subscribed, snap, index, raced>>

Next ==
    \/ \E cut \in (SUBSET Nodes) \ {{}}, adverts \in Adverts :
          /\ \A n \in Nodes : n \in cut \cap members => adverts[n] = {}
          /\ \A n \in Nodes \ cut : adverts[n] = {}
          /\ ViewChange(cut, adverts)
    \/ ReadConfigurationId
    \/ ReadMemberlist
    \/ ReadMetadata
    \/ Subscribe
    \/ Resync
    \/ Receive
    \/ Lagged

Spec == Init /\ [][Next]_vars

-----------------------------------------------------------------------------
(* Properties.                                                             *)

EventType ==
    {ev \in [config : 0 .. LastConfig,
             up : UNION {[U -> SUBSET Shards] : U \in SUBSET Nodes},
             down : SUBSET Nodes] : DOMAIN ev.up \cap ev.down = {}}

\* Types; non-members advertise nothing.
TypeOK ==
    /\ config \in 0 .. LastConfig
    /\ members \subseteq Nodes
    /\ metadata \in Adverts
    /\ \A n \in Nodes \ members : metadata[n] = {}
    /\ events \in Seq(EventType) /\ Len(events) = config
    /\ past \in Seq(Adverts) /\ Len(past) = config + 1
    /\ pc \in {"id", "members", "metadata", "install", "receive"}
    /\ subscribed \in BOOLEAN
    /\ next \in 1 .. Len(events) + 1
    /\ snap \in [config : 0 .. LastConfig, members : SUBSET Nodes, metadata : Adverts]
    /\ index \in [configurationId : -1 .. LastConfig,
                  byShard : [Shards -> SUBSET Nodes], byEndpoint : Adverts]
    /\ raced \in BOOLEAN
    /\ lagged \in BOOLEAN

\* The reverse index, from which a departing or returning endpoint is scrubbed,
\* and the buckets say the same, whatever was read twice, missed or replayed: no
\* endpoint is left in a bucket that no event will ever scrub it from.
BucketsMatchEndpoints == index.byShard = Buckets(index.byEndpoint)

Serving == pc = "receive"

\* The index is the one of the configuration whose id it carries.
IsExact == index.byShard = Buckets(past[index.configurationId + 1])

\* Up to the first lag, a directory whose construction met no view change shows at
\* every moment exactly the buckets of the configuration id it reports.
ExactUntilLag == Serving /\ ~raced /\ ~lagged => IsExact

CaughtUp == Serving /\ next = Len(events) + 1

\* A directory whose construction met no view change and that has read everything
\* shows the current buckets: after a lag the snapshot may be torn by view changes
\* and events older than it are applied on top, and still nothing is lost.
CaughtUpIsExact ==
    CaughtUp /\ ~raced => index.byShard = Buckets(metadata)
=============================================================================
