------------------------ MODULE ShardDirectoryProofs ------------------------
(***************************************************************************)
(* Proofs about ShardDirectory, for any nodes and shards, any capacity of  *)
(* the event channel and any number of view changes.                       *)
(*                                                                         *)
(* That a torn snapshot and stale events on top of it come out right is    *)
(* not a property of the index but of what is still to be read: a node     *)
(* that no unread event touches is right already, in the snapshot and in   *)
(* the index, and the last event that touches a node says what it          *)
(* advertises now.                                                         *)
(***************************************************************************)
EXTENDS ShardDirectory, TLAPS

\* What an event says of a node it touches, and the adverts after it.
Says(ev, n) == IF n \in DOMAIN ev.up THEN ev.up[n] ELSE {}
After(adverts, ev) ==
    [n \in Nodes |-> IF n \in Touched(ev) THEN Says(ev, n) ELSE adverts[n]]

\* The history: each event leads from the adverts of one configuration to those of
\* the next one.
HistoryFolds ==
    /\ past[Len(past)] = metadata
    /\ \A k \in 1 .. Len(events) : /\ events[k].config = k
                                   /\ past[k + 1] = After(past[k], events[k])

TouchedLast(k, n) == \A j \in k + 1 .. Len(events) : n \notin Touched(events[j])

\* The last event that touches a node says what it advertises now.
LastWord ==
    \A k \in 1 .. Len(events), n \in Nodes :
        n \in Touched(events[k]) /\ TouchedLast(k, n) => metadata[n] = Says(events[k], n)

\* No event that the receiver has yet to read touches n.
Settled(n) == \A k \in next .. Len(events) : n \notin Touched(events[k])

\* A first snapshot that no view change interrupts is the current view.
FirstSnapshot ==
    ~subscribed /\ ~raced =>
        /\ pc # "id" => snap.config = config
        /\ pc \in {"metadata", "install"} => snap.members = members
        /\ pc = "install" => snap.metadata = metadata

\* A later one is right about the nodes that are settled.
LaterSnapshot ==
    subscribed =>
        /\ pc \in {"metadata", "install"} =>
              \A n \in Nodes : Settled(n) => (n \in snap.members <=> n \in members)
        /\ pc = "install" =>
              \A n \in Nodes : Settled(n) => snap.metadata[n] = metadata[n]

\* And so is the index.
IndexSettled ==
    Serving /\ ~raced => \A n \in Nodes : Settled(n) => index.byEndpoint[n] = metadata[n]

\* Without a lag, the index is the one of the last event it has read.
InStep ==
    subscribed /\ ~raced /\ ~lagged =>
        /\ Serving
        /\ index.configurationId = next - 1
        /\ index.byEndpoint = past[next]

\* A directory that serves, or has fallen behind, is one that has subscribed.
Phases ==
    /\ Serving => subscribed
    /\ lagged => subscribed

\* The inductive invariant.
IInv ==
    /\ TypeOK
    /\ BucketsMatchEndpoints
    /\ HistoryFolds
    /\ LastWord
    /\ Phases
    /\ FirstSnapshot
    /\ LaterSnapshot
    /\ IndexSettled
    /\ InStep

IndexType == [configurationId : -1 .. LastConfig,
              byShard : [Shards -> SUBSET Nodes], byEndpoint : Adverts]

-----------------------------------------------------------------------------
\* What there is to know of an event.
LEMMA EventFacts ==
    ASSUME NEW ev \in EventType
    PROVE  /\ ev.config \in 0 .. LastConfig
           /\ DOMAIN ev.up \subseteq Nodes
           /\ ev.down \subseteq Nodes
           /\ \A n \in DOMAIN ev.up : ev.up[n] \subseteq Shards
           /\ DOMAIN ev.up \cap ev.down = {}
<1>1. PICK U \in SUBSET Nodes : ev.up \in [U -> SUBSET Shards]
  BY DEF EventType
<1>2. ev.config \in 0 .. LastConfig /\ ev.down \subseteq Nodes
      /\ DOMAIN ev.up \cap ev.down = {}
  BY DEF EventType
<1> QED
  BY <1>1, <1>2

\* An event has its type and the fields it is made of.
LEMMA IsEvent ==
    ASSUME NEW c \in 0 .. LastConfig, NEW U \in SUBSET Nodes,
           NEW up \in [U -> SUBSET Shards], NEW down \in SUBSET Nodes, U \cap down = {}
    PROVE  /\ Event(c, up, down) \in EventType
           /\ Event(c, up, down).config = c
           /\ Event(c, up, down).up = up
           /\ Event(c, up, down).down = down
<1>1. up \in UNION {[V -> SUBSET Shards] : V \in SUBSET Nodes}
  OBVIOUS
<1>2. /\ Event(c, up, down).config = c
      /\ Event(c, up, down).up = up
      /\ Event(c, up, down).down = down
  BY DEF Event
<1>3. Event(c, up, down) \in [config : 0 .. LastConfig,
             up : UNION {[V -> SUBSET Shards] : V \in SUBSET Nodes},
             down : SUBSET Nodes]
  BY <1>1 DEF Event
<1> QED
  BY <1>2, <1>3 DEF EventType

\* An event is folded into both halves of the index alike.
LEMMA ApplyDeltaFolds ==
    ASSUME NEW ix \in IndexType, ix.byShard = Buckets(ix.byEndpoint),
           NEW ev \in EventType
    PROVE  /\ ApplyDelta(ix, ev) \in IndexType
           /\ ApplyDelta(ix, ev).byShard = Buckets(ApplyDelta(ix, ev).byEndpoint)
           /\ ApplyDelta(ix, ev).byEndpoint = After(ix.byEndpoint, ev)
           /\ ApplyDelta(ix, ev).configurationId = ev.config
<1> DEFINE be == [n \in Nodes |->
                    IF n \in DOMAIN ev.up THEN ev.up[n]
                    ELSE IF n \in ev.down THEN {}
                    ELSE ix.byEndpoint[n]]
           bs == [s \in Shards |->
                    Scrubbed(ix, ev, s) \cup {n \in DOMAIN ev.up : s \in ev.up[n]}]
<1>1. /\ ApplyDelta(ix, ev).byShard = bs
      /\ ApplyDelta(ix, ev).byEndpoint = be
      /\ ApplyDelta(ix, ev).configurationId = ev.config
      /\ ApplyDelta(ix, ev) = [configurationId |-> ev.config, byShard |-> bs,
                               byEndpoint |-> be]
  BY DEF ApplyDelta
<1>2. /\ ev.config \in 0 .. LastConfig
      /\ DOMAIN ev.up \subseteq Nodes
      /\ ev.down \subseteq Nodes
      /\ \A n \in DOMAIN ev.up : ev.up[n] \subseteq Shards
  BY EventFacts
<1>3. /\ ix.byEndpoint \in [Nodes -> SUBSET Shards]
      /\ \A s \in Shards : ix.byShard[s] = {n \in Nodes : s \in ix.byEndpoint[n]}
  BY DEF IndexType, Adverts, Buckets
<1>4. be \in Adverts
  BY <1>2, <1>3 DEF Adverts
<1>5. bs = Buckets(be)
  <2>1. ASSUME NEW s \in Shards
        PROVE  Scrubbed(ix, ev, s) \cup {n \in DOMAIN ev.up : s \in ev.up[n]}
                  = {n \in Nodes : s \in be[n]}
    BY <1>2, <1>3 DEF Scrubbed, Touched
  <2> QED
    BY <2>1 DEF Buckets
<1>6. bs \in [Shards -> SUBSET Nodes]
  BY <1>5 DEF Buckets
<1>7. be = After(ix.byEndpoint, ev)
  BY DEF After, Touched, Says
<1>8. ev.config \in -1 .. LastConfig
  BY <1>2
<1> HIDE DEF be, bs
<1> QED
  BY <1>1, <1>4, <1>5, <1>6, <1>7, <1>8 DEF IndexType

-----------------------------------------------------------------------------
(* TypeOK in three parts, which different steps disturb.                   *)

ActorTypes ==
    /\ config \in 0 .. LastConfig
    /\ members \subseteq Nodes
    /\ metadata \in Adverts
    /\ \A n \in Nodes \ members : metadata[n] = {}
    /\ events \in Seq(EventType) /\ Len(events) = config
    /\ past \in Seq(Adverts) /\ Len(past) = config + 1

DirectoryTypes ==
    /\ pc \in {"id", "members", "metadata", "install", "receive"}
    /\ next \in 1 .. Len(events) + 1
    /\ snap \in [config : 0 .. LastConfig, members : SUBSET Nodes, metadata : Adverts]
    /\ index \in IndexType

Flags == subscribed \in BOOLEAN /\ raced \in BOOLEAN /\ lagged \in BOOLEAN

\* The parts make up TypeOK.
LEMMA TypeParts == TypeOK <=> ActorTypes /\ DirectoryTypes /\ Flags
  BY DEF TypeOK, ActorTypes, DirectoryTypes, Flags, IndexType

\* A view change appends an event that touches the nodes of the cut and leads to
\* the new adverts.
LEMMA ViewChangeEvent ==
    ASSUME ActorTypes, NEW cut \in SUBSET Nodes, NEW adverts \in Adverts,
           ViewChange(cut, adverts)
    PROVE  \E ev \in EventType :
              /\ ev.config = config + 1
              /\ Touched(ev) = cut
              /\ events' = Append(events, ev)
              /\ metadata' = After(metadata, ev)
              /\ past' = Append(past, After(metadata, ev))
<1> DEFINE down == cut \cap members
           up   == [n \in cut \ members |-> adverts[n]]
           ev   == Event(config + 1, up, down)
<1>1. config + 1 \in 0 .. LastConfig
  BY BoundsNat DEF ActorTypes, ViewChange
<1>2. up \in [cut \ members -> SUBSET Shards] /\ DOMAIN up = cut \ members
  BY DEF Adverts
<1>3. /\ ev \in EventType
      /\ ev.config = config + 1 /\ ev.up = up /\ ev.down = down
  BY <1>1, <1>2, IsEvent
<1>4. Touched(ev) = cut
  BY <1>2, <1>3 DEF Touched
<1>5. metadata' = MetadataAfter(up, down)
  BY DEF ViewChange
<1>6. MetadataAfter(up, down) = After(metadata, ev)
  <2>1. ASSUME NEW n \in Nodes
        PROVE  (IF n \in down THEN {}
                ELSE IF n \in DOMAIN up /\ metadata[n] = {} THEN up[n]
                ELSE metadata[n])
               = IF n \in Touched(ev) THEN Says(ev, n) ELSE metadata[n]
    BY <1>2, <1>3, <1>4 DEF Says, ActorTypes
  <2> QED
    BY <2>1 DEF MetadataAfter, After
<1>7. events' = Append(events, ev) /\ past' = Append(past, metadata')
  BY DEF ViewChange, NewConfiguration
<1> HIDE DEF ev
<1> QED
  BY <1>3, <1>4, <1>5, <1>6, <1>7

\* After a list grows by one.
LEMMA Appended ==
    ASSUME NEW S, NEW q \in Seq(S), NEW x \in S
    PROVE  /\ Append(q, x) \in Seq(S)
           /\ Len(Append(q, x)) = Len(q) + 1
           /\ \A k \in 1 .. Len(q) : Append(q, x)[k] = q[k]
           /\ Append(q, x)[Len(q) + 1] = x
  OBVIOUS

\* The state of the actor after a view change.
LEMMA ViewChangeActor ==
    ASSUME ActorTypes, HistoryFolds, LastWord,
           NEW cut \in SUBSET Nodes, NEW adverts \in Adverts, ViewChange(cut, adverts)
    PROVE  /\ ActorTypes' /\ HistoryFolds' /\ LastWord'
           /\ Len(events') = Len(events) + 1
           /\ \A k \in 1 .. Len(events) : events'[k] = events[k]
           /\ Touched(events'[Len(events) + 1]) = cut
           /\ \A k \in 1 .. Len(past) : past'[k] = past[k]
           /\ \A n \in Nodes \ cut : /\ metadata'[n] = metadata[n]
                                     /\ n \in members' <=> n \in members
<1>1. PICK ev \in EventType :
         /\ ev.config = config + 1
         /\ Touched(ev) = cut
         /\ events' = Append(events, ev)
         /\ metadata' = After(metadata, ev)
         /\ past' = Append(past, After(metadata, ev))
  BY ViewChangeEvent
<1>2. /\ config \in Nat /\ Len(events) = config /\ Len(past) = config + 1
      /\ config' = config + 1 /\ config' \in 0 .. LastConfig
      /\ members' = (members \ (cut \cap members)) \cup (cut \ members)
  BY BoundsNat DEF ActorTypes, ViewChange
<1>3. metadata \in [Nodes -> SUBSET Shards] /\ metadata' \in Adverts
  <2>1. metadata \in [Nodes -> SUBSET Shards]
    BY DEF ActorTypes, Adverts
  <2>2. \A n \in Nodes : Says(ev, n) \in SUBSET Shards
    BY EventFacts DEF Says
  <2> QED
    BY <1>1, <2>1, <2>2 DEF After, Adverts
<1>4. /\ events' \in Seq(EventType) /\ Len(events') = config + 1
      /\ \A k \in 1 .. config : events'[k] = events[k]
      /\ events'[config + 1] = ev
  <2>1. events \in Seq(EventType)
    BY DEF ActorTypes
  <2> QED
    BY <1>1, <1>2, <2>1, Appended
<1>5. /\ past' \in Seq(Adverts) /\ Len(past') = config + 2
      /\ \A k \in 1 .. config + 1 : past'[k] = past[k]
      /\ past'[config + 2] = metadata'
  <2>1. past \in Seq(Adverts) /\ After(metadata, ev) \in Adverts
    BY <1>1, <1>3 DEF ActorTypes
  <2>2. past' = Append(past, After(metadata, ev)) /\ metadata' = After(metadata, ev)
    BY <1>1
  <2>3. /\ past' \in Seq(Adverts) /\ Len(past') = Len(past) + 1
        /\ \A k \in 1 .. Len(past) : past'[k] = past[k]
        /\ past'[Len(past) + 1] = metadata'
    BY <2>1, <2>2, Appended
  <2> QED
    BY <1>2, <2>3
<1>6. \A n \in Nodes : metadata'[n] = IF n \in cut THEN Says(ev, n) ELSE metadata[n]
  BY <1>1 DEF After
<1>7. ActorTypes'
  <2>1. DOMAIN ev.up \cup ev.down = cut /\ DOMAIN ev.up \cap ev.down = {}
    BY <1>1, EventFacts DEF Touched
  <2>2. \A n \in Nodes \ members' : metadata'[n] = {}
    <3> SUFFICES ASSUME NEW n \in Nodes, n \notin members' PROVE metadata'[n] = {}
      OBVIOUS
    <3>1. CASE n \in cut
      <4>1. n \in members
        BY <1>2, <3>1
      <4>2. metadata' = MetadataAfter([m \in cut \ members |-> adverts[m]], cut \cap members)
        BY DEF ViewChange
      <4> QED
        BY <3>1, <4>1, <4>2 DEF MetadataAfter
    <3>2. CASE n \notin cut
      BY <1>2, <1>6, <3>2 DEF ActorTypes
    <3> QED
      BY <3>1, <3>2
  <2>3. members' \subseteq Nodes
    BY <1>2 DEF ActorTypes
  <2>4. Len(events') = config' /\ Len(past') = config' + 1
    BY <1>2, <1>4, <1>5
  <2> QED
    BY <1>2, <1>3, <1>4, <1>5, <2>2, <2>3, <2>4 DEF ActorTypes
<1>8. HistoryFolds'
  <2>1. past'[Len(past')] = metadata'
    BY <1>5
  <2>2. ASSUME NEW k \in 1 .. config + 1
        PROVE  events'[k].config = k /\ past'[k + 1] = After(past'[k], events'[k])
    <3>1. CASE k \in 1 .. config
      <4>1. events'[k] = events[k] /\ past'[k] = past[k] /\ past'[k + 1] = past[k + 1]
        BY <1>2, <1>4, <1>5, <3>1
      <4> QED
        BY <1>2, <3>1, <4>1 DEF HistoryFolds
    <3>2. CASE k = config + 1
      <4>1. past'[k] = metadata
        BY <1>2, <1>5, <3>2 DEF HistoryFolds
      <4> QED
        BY <1>1, <1>2, <1>4, <1>5, <3>2, <4>1
    <3> QED
      BY <1>2, <3>1, <3>2
  <2> QED
    BY <1>4, <2>1, <2>2 DEF HistoryFolds
<1>9. LastWord'
  <2> SUFFICES ASSUME NEW k \in 1 .. config + 1, NEW n \in Nodes,
                      n \in Touched(events'[k]), TouchedLast(k, n)'
               PROVE  metadata'[n] = Says(events'[k], n)
    BY <1>4 DEF LastWord
  <2>1. CASE k = config + 1
    BY <1>1, <1>4, <1>6, <2>1
  <2>2. CASE k \in 1 .. config
    <3>1. config + 1 \in k + 1 .. Len(events')
      BY <1>2, <1>4, <2>2
    <3>2. n \notin cut
      BY <1>1, <1>4, <3>1 DEF TouchedLast
    <3>3. TouchedLast(k, n)
      BY <1>2, <1>4, <2>2 DEF TouchedLast
    <3> QED
      BY <1>2, <1>4, <1>6, <2>2, <3>2, <3>3 DEF LastWord
  <2> QED
    BY <1>2, <2>1, <2>2
<1>10. \A n \in Nodes \ cut : metadata'[n] = metadata[n] /\ (n \in members' <=> n \in members)
  BY <1>2, <1>6
<1> QED
  BY <1>1, <1>2, <1>4, <1>5, <1>7, <1>8, <1>9, <1>10

\* A view change unsettles the nodes of its cut, and changes no other.
LEMMA ViewChangeIInv ==
    ASSUME IInv, NEW cut \in SUBSET Nodes, NEW adverts \in Adverts, ViewChange(cut, adverts)
    PROVE  IInv'
<1>1. ActorTypes /\ DirectoryTypes /\ Flags
  BY TypeParts DEF IInv
<1>2. /\ ActorTypes' /\ HistoryFolds' /\ LastWord'
      /\ Len(events') = Len(events) + 1
      /\ \A k \in 1 .. Len(events) : events'[k] = events[k]
      /\ Touched(events'[Len(events) + 1]) = cut
      /\ \A k \in 1 .. Len(past) : past'[k] = past[k]
      /\ \A n \in Nodes \ cut : /\ metadata'[n] = metadata[n]
                                /\ n \in members' <=> n \in members
  BY <1>1, ViewChangeActor DEF IInv
<1>3. UNCHANGED <<pc, subscribed, next, snap, index, lagged>>
  BY DEF ViewChange
<1>4. raced' = (raced \/ (~subscribed /\ pc # "id"))
  BY DEF ViewChange
<1>5. Len(events) \in Nat /\ Len(past) = Len(events) + 1 /\ next \in 1 .. Len(events) + 1
  BY <1>1 DEF ActorTypes, DirectoryTypes
<1>6. TypeOK'
  <2>1. Flags'
    BY <1>1, <1>3, <1>4 DEF Flags
  <2>2. DirectoryTypes'
    BY <1>1, <1>2, <1>3, <1>5 DEF DirectoryTypes
  <2> QED
    BY <1>2, <2>1, <2>2, TypeParts, PTL
<1>7. ASSUME NEW n \in Nodes, Settled(n)'
      PROVE  n \notin cut /\ Settled(n)
  <2>1. Len(events) + 1 \in next' .. Len(events')
    BY <1>2, <1>3, <1>5
  <2>2. n \notin cut
    BY <1>2, <1>7, <2>1 DEF Settled
  <2>3. ASSUME NEW k \in next .. Len(events) PROVE n \notin Touched(events[k])
    <3>1. k \in next' .. Len(events') /\ events'[k] = events[k]
      BY <1>2, <1>3, <1>5
    <3> QED
      BY <1>7, <3>1 DEF Settled
  <2> QED
    BY <2>2, <2>3 DEF Settled
<1>8. BucketsMatchEndpoints' /\ Phases'
  BY <1>3 DEF IInv, BucketsMatchEndpoints, Phases, Serving
<1>9. FirstSnapshot'
  BY <1>3, <1>4 DEF FirstSnapshot
<1>10. LaterSnapshot'
  BY <1>2, <1>3, <1>7 DEF IInv, LaterSnapshot
<1>11. IndexSettled'
  BY <1>2, <1>3, <1>4, <1>7 DEF IInv, IndexSettled, Serving
<1>12. InStep'
  <2>1. past'[next] = past[next]
    BY <1>2, <1>5
  <2> QED
    BY <1>3, <1>4, <2>1 DEF IInv, InStep, Serving
<1> QED
  BY <1>2, <1>6, <1>8, <1>9, <1>10, <1>11, <1>12 DEF IInv

\* What the directory does leaves the history alone.
LEMMA ActorUnchanged ==
    ASSUME ActorTypes, HistoryFolds, LastWord, UNCHANGED actor
    PROVE  ActorTypes' /\ HistoryFolds' /\ LastWord'
  BY DEF ActorTypes, HistoryFolds, LastWord, TouchedLast, actor

\* The three requests of a snapshot.
LEMMA ReadIInv ==
    ASSUME IInv, ReadConfigurationId \/ ReadMemberlist \/ ReadMetadata
    PROVE  IInv'
<1>1. ActorTypes /\ DirectoryTypes /\ Flags
  BY TypeParts DEF IInv
<1>2. UNCHANGED <<actor, subscribed, next, index, raced, lagged>>
  BY DEF ReadConfigurationId, ReadMemberlist, ReadMetadata
<1>3. UNCHANGED <<config, members, metadata, events, past>>
  BY <1>2 DEF actor
<1>4. ActorTypes' /\ HistoryFolds' /\ LastWord'
  BY <1>1, <1>2, ActorUnchanged DEF IInv
<1>5. snap \in [config : 0 .. LastConfig, members : SUBSET Nodes, metadata : Adverts]
  BY <1>1 DEF DirectoryTypes
<1>6. /\ snap' \in [config : 0 .. LastConfig, members : SUBSET Nodes, metadata : Adverts]
      /\ \/ /\ pc = "id" /\ pc' = "members"
            /\ snap'.config = config
         \/ /\ pc = "members" /\ pc' = "metadata"
            /\ snap'.config = snap.config /\ snap'.members = members
         \/ /\ pc = "metadata" /\ pc' = "install"
            /\ snap'.config = snap.config /\ snap'.members = snap.members
            /\ snap'.metadata = metadata
  BY <1>1, <1>5 DEF ReadConfigurationId, ReadMemberlist, ReadMetadata, ActorTypes
<1>7. TypeOK'
  <2>1. Flags'
    BY <1>1, <1>2 DEF Flags
  <2>2. DirectoryTypes'
    BY <1>1, <1>2, <1>3, <1>6 DEF DirectoryTypes
  <2> QED
    BY <1>4, <2>1, <2>2, TypeParts, PTL
<1>8. \A n \in Nodes : Settled(n)' <=> Settled(n)
  BY <1>2, <1>3 DEF Settled
<1>9. BucketsMatchEndpoints' /\ Phases'
  BY <1>2, <1>6 DEF IInv, BucketsMatchEndpoints, Phases, Serving
<1>10. FirstSnapshot'
  BY <1>2, <1>3, <1>6 DEF IInv, FirstSnapshot
<1>11. LaterSnapshot'
  BY <1>2, <1>3, <1>6, <1>8 DEF IInv, LaterSnapshot
<1>12. IndexSettled'
  BY <1>6 DEF IndexSettled, Serving
<1>13. InStep'
  BY <1>2, <1>6 DEF IInv, InStep, Serving
<1> QED
  BY <1>4, <1>7, <1>9, <1>10, <1>11, <1>12, <1>13 DEF IInv

\* The index a snapshot leads to.
LEMMA InstallIndex ==
    ASSUME DirectoryTypes, Install
    PROVE  /\ index' \in IndexType
           /\ index'.byShard = Buckets(index'.byEndpoint)
           /\ index'.configurationId = snap.config
           /\ \A n \in Nodes : index'.byEndpoint[n] =
                 IF n \in snap.members THEN snap.metadata[n] ELSE {}
           /\ snap' \in [config : 0 .. LastConfig, members : SUBSET Nodes,
                         metadata : Adverts]
           /\ pc = "install" /\ pc' = "receive"
<1>1. /\ snap.config \in 0 .. LastConfig /\ snap.members \subseteq Nodes
      /\ snap.metadata \in [Nodes -> SUBSET Shards]
  BY DEF DirectoryTypes, Adverts
<1>2. /\ [n \in snap.members |-> snap.metadata[n]] \in [snap.members -> SUBSET Shards]
      /\ DOMAIN [n \in snap.members |-> snap.metadata[n]] = snap.members
  BY <1>1
<1>3. /\ SnapshotEvent \in EventType
      /\ SnapshotEvent.config = snap.config
      /\ SnapshotEvent.up = [n \in snap.members |-> snap.metadata[n]]
      /\ SnapshotEvent.down = {}
  BY <1>1, <1>2, IsEvent DEF SnapshotEvent
<1>4. /\ EmptyIndex \in IndexType
      /\ EmptyIndex.byShard = Buckets(EmptyIndex.byEndpoint)
      /\ EmptyIndex.byEndpoint = NoAdverts
  <2>1. NoAdverts \in Adverts /\ [s \in Shards |-> {}] \in [Shards -> SUBSET Nodes]
    BY DEF NoAdverts, Adverts
  <2>2. -1 \in -1 .. LastConfig
    BY BoundsNat
  <2>3. Buckets(NoAdverts) = [s \in Shards |-> {}]
    BY DEF Buckets, NoAdverts
  <2> QED
    BY <2>1, <2>2, <2>3 DEF EmptyIndex, IndexType
<1>5. index' = ApplyDelta(EmptyIndex, SnapshotEvent)
  BY DEF Install, ResetIndex
<1>6. /\ index' \in IndexType
      /\ index'.byShard = Buckets(index'.byEndpoint)
      /\ index'.byEndpoint = After(NoAdverts, SnapshotEvent)
      /\ index'.configurationId = snap.config
  BY <1>3, <1>4, <1>5, ApplyDeltaFolds
<1>7. ASSUME NEW n \in Nodes
      PROVE  After(NoAdverts, SnapshotEvent)[n] =
                 IF n \in snap.members THEN snap.metadata[n] ELSE {}
  BY <1>2, <1>3 DEF After, Says, Touched, NoAdverts
<1>8. snap' \in [config : 0 .. LastConfig, members : SUBSET Nodes, metadata : Adverts]
  <2>1. NoAdverts \in Adverts /\ 0 \in 0 .. LastConfig
    BY BoundsNat DEF NoAdverts, Adverts
  <2> QED
    BY <2>1 DEF Install
<1> QED
  BY <1>6, <1>7, <1>8 DEF Install

\* A first snapshot that no view change interrupted is the index of its configuration.
LEMMA SubscribeIInv ==
    ASSUME IInv, Subscribe
    PROVE  IInv'
<1>1. ActorTypes /\ DirectoryTypes /\ Flags
  BY TypeParts DEF IInv
<1>2. /\ UNCHANGED <<actor, raced, lagged>> /\ next' = Len(events) + 1
      /\ ~subscribed /\ subscribed' = TRUE /\ Install
  BY DEF Subscribe
<1>3. UNCHANGED <<config, members, metadata, events, past>>
  BY <1>2 DEF actor
<1>4. ActorTypes' /\ HistoryFolds' /\ LastWord'
  BY <1>1, <1>2, ActorUnchanged DEF IInv
<1>5. /\ index' \in IndexType
      /\ index'.byShard = Buckets(index'.byEndpoint)
      /\ index'.configurationId = snap.config
      /\ \A n \in Nodes : index'.byEndpoint[n] =
            IF n \in snap.members THEN snap.metadata[n] ELSE {}
      /\ snap' \in [config : 0 .. LastConfig, members : SUBSET Nodes, metadata : Adverts]
      /\ pc = "install" /\ pc' = "receive"
  BY <1>1, <1>2, InstallIndex
<1>6. TypeOK'
  <2>1. Flags'
    BY <1>1, <1>2 DEF Flags
  <2>2. next' \in 1 .. Len(events') + 1
    BY <1>1, <1>2, <1>3 DEF ActorTypes
  <2>3. DirectoryTypes'
    BY <1>5, <2>2 DEF DirectoryTypes
  <2> QED
    BY <1>4, <2>1, <2>3, TypeParts, PTL
<1>7. BucketsMatchEndpoints' /\ Phases' /\ FirstSnapshot' /\ LaterSnapshot'
  BY <1>2, <1>5 DEF BucketsMatchEndpoints, Phases, Serving, FirstSnapshot, LaterSnapshot
<1>8. ASSUME ~raced PROVE index'.byEndpoint = metadata /\ index'.configurationId = config
  <2>1. snap.config = config /\ snap.members = members /\ snap.metadata = metadata
    BY <1>2, <1>5, <1>8 DEF IInv, FirstSnapshot
  <2>2. \A n \in Nodes : index'.byEndpoint[n] = metadata[n]
    BY <1>1, <1>5, <2>1 DEF ActorTypes
  <2>3. index'.byEndpoint \in [Nodes -> SUBSET Shards] /\ metadata \in [Nodes -> SUBSET Shards]
    BY <1>1, <1>5 DEF IndexType, Adverts, ActorTypes
  <2> QED
    BY <1>5, <2>1, <2>2, <2>3
<1>9. IndexSettled'
  BY <1>2, <1>3, <1>8 DEF IndexSettled
<1>10. InStep'
  <2> SUFFICES ASSUME ~raced
               PROVE  /\ Serving'
                      /\ index'.configurationId = next' - 1
                      /\ index'.byEndpoint = past'[next']
    BY <1>2 DEF InStep
  <2>1. next' - 1 = config /\ past[next'] = metadata
    BY <1>1, <1>2 DEF IInv, HistoryFolds, ActorTypes
  <2> QED
    BY <1>3, <1>5, <1>8, <2>1 DEF Serving
<1> QED
  BY <1>4, <1>6, <1>7, <1>9, <1>10 DEF IInv

\* A later snapshot is right about the nodes that no unread event touches.
LEMMA ResyncIInv ==
    ASSUME IInv, Resync
    PROVE  IInv'
<1>1. ActorTypes /\ DirectoryTypes /\ Flags
  BY TypeParts DEF IInv
<1>2. UNCHANGED <<actor, subscribed, next, raced, lagged>> /\ subscribed /\ Install
  BY DEF Resync
<1>3. UNCHANGED <<config, members, metadata, events, past>>
  BY <1>2 DEF actor
<1>4. ActorTypes' /\ HistoryFolds' /\ LastWord'
  BY <1>1, <1>2, ActorUnchanged DEF IInv
<1>5. /\ index' \in IndexType
      /\ index'.byShard = Buckets(index'.byEndpoint)
      /\ \A n \in Nodes : index'.byEndpoint[n] =
            IF n \in snap.members THEN snap.metadata[n] ELSE {}
      /\ snap' \in [config : 0 .. LastConfig, members : SUBSET Nodes, metadata : Adverts]
      /\ pc = "install" /\ pc' = "receive"
  BY <1>1, <1>2, InstallIndex
<1>6. TypeOK'
  <2>1. Flags'
    BY <1>1, <1>2 DEF Flags
  <2>2. next' \in 1 .. Len(events') + 1
    BY <1>1, <1>2, <1>3 DEF DirectoryTypes
  <2>3. DirectoryTypes'
    BY <1>5, <2>2 DEF DirectoryTypes
  <2> QED
    BY <1>4, <2>1, <2>3, TypeParts, PTL
<1>7. BucketsMatchEndpoints' /\ Phases' /\ FirstSnapshot' /\ LaterSnapshot'
  BY <1>2, <1>5 DEF BucketsMatchEndpoints, Phases, Serving, FirstSnapshot, LaterSnapshot
<1>8. IndexSettled'
  <2> SUFFICES ASSUME NEW n \in Nodes, Settled(n)'
               PROVE  index'.byEndpoint[n] = metadata'[n]
    BY DEF IndexSettled
  <2>1. Settled(n)
    BY <1>2, <1>3 DEF Settled
  <2>2. snap.metadata[n] = metadata[n] /\ (n \in snap.members <=> n \in members)
    BY <1>2, <1>5, <2>1 DEF IInv, LaterSnapshot
  <2> QED
    BY <1>1, <1>3, <1>5, <2>2 DEF ActorTypes
<1>9. InStep'
  BY <1>2, <1>5 DEF IInv, InStep, Serving
<1> QED
  BY <1>4, <1>6, <1>7, <1>8, <1>9 DEF IInv

\* An event is folded in: the nodes it touches are right if it is the last one to.
LEMMA ReceiveIInv ==
    ASSUME IInv, Receive
    PROVE  IInv'
<1>1. ActorTypes /\ DirectoryTypes /\ Flags
  BY TypeParts DEF IInv
<1>2. /\ UNCHANGED <<actor, pc, subscribed, snap, raced, lagged>>
      /\ pc = "receive" /\ next <= Len(events) /\ next' = next + 1
      /\ index' = ApplyDelta(index, events[next])
  BY DEF Receive
<1>3. UNCHANGED <<config, members, metadata, events, past>>
  BY <1>2 DEF actor
<1>4. ActorTypes' /\ HistoryFolds' /\ LastWord'
  BY <1>1, <1>2, ActorUnchanged DEF IInv
<1>5. /\ next \in 1 .. Len(events) /\ Len(events) \in Nat
      /\ events[next] \in EventType
  BY <1>1, <1>2 DEF ActorTypes, DirectoryTypes
<1>6. index \in IndexType /\ index.byShard = Buckets(index.byEndpoint)
  BY <1>1 DEF DirectoryTypes, IInv, BucketsMatchEndpoints
<1>7. /\ index' \in IndexType
      /\ index'.byShard = Buckets(index'.byEndpoint)
      /\ index'.byEndpoint = After(index.byEndpoint, events[next])
      /\ index'.configurationId = events[next].config
  BY <1>2, <1>5, <1>6, ApplyDeltaFolds
<1>8. TypeOK'
  <2>1. Flags'
    BY <1>1, <1>2 DEF Flags
  <2>2. next' \in 1 .. Len(events') + 1
    BY <1>2, <1>3, <1>5
  <2>3. DirectoryTypes'
    BY <1>1, <1>2, <1>7, <2>2 DEF DirectoryTypes
  <2> QED
    BY <1>4, <2>1, <2>3, TypeParts, PTL
<1>9. BucketsMatchEndpoints' /\ Phases' /\ FirstSnapshot' /\ LaterSnapshot'
  BY <1>2, <1>3, <1>7
  DEF IInv, BucketsMatchEndpoints, Phases, Serving, FirstSnapshot, LaterSnapshot
<1>10. IndexSettled'
  <2> SUFFICES ASSUME ~raced, NEW n \in Nodes, Settled(n)'
               PROVE  index'.byEndpoint[n] = metadata[n]
    BY <1>2, <1>3 DEF IndexSettled
  <2>1. TouchedLast(next, n)
    BY <1>2, <1>3 DEF Settled, TouchedLast
  <2>2. CASE n \in Touched(events[next])
    BY <1>5, <1>7, <2>1, <2>2 DEF After, IInv, LastWord
  <2>3. CASE n \notin Touched(events[next])
    <3>1. Settled(n)
      BY <1>5, <2>1, <2>3 DEF Settled, TouchedLast
    <3> QED
      BY <1>2, <1>7, <2>3, <3>1 DEF After, IInv, IndexSettled, Serving
  <2> QED
    BY <2>2, <2>3
<1>11. InStep'
  <2> SUFFICES ASSUME subscribed, ~raced, ~lagged
               PROVE  /\ Serving'
                      /\ index'.configurationId = next' - 1
                      /\ index'.byEndpoint = past'[next']
    BY <1>2 DEF InStep
  <2>1. index.byEndpoint = past[next]
    BY DEF IInv, InStep
  <2>2. events[next].config = next /\ past[next + 1] = After(past[next], events[next])
    BY <1>5 DEF IInv, HistoryFolds
  <2> QED
    BY <1>2, <1>3, <1>5, <1>7, <2>1, <2>2 DEF Serving
<1> QED
  BY <1>4, <1>8, <1>9, <1>10, <1>11 DEF IInv

\* After a lag nothing is claimed until the new snapshot is there.
LEMMA LaggedIInv ==
    ASSUME IInv, Lagged
    PROVE  IInv'
<1>1. ActorTypes /\ DirectoryTypes /\ Flags
  BY TypeParts DEF IInv
<1>2. /\ UNCHANGED <<actor, subscribed, snap, index, raced>>
      /\ pc = "receive" /\ pc' = "id" /\ lagged' = TRUE
      /\ next < Oldest /\ next' = Oldest
  BY DEF Lagged
<1>3. UNCHANGED <<config, members, metadata, events, past>>
  BY <1>2 DEF actor
<1>4. ActorTypes' /\ HistoryFolds' /\ LastWord'
  BY <1>1, <1>2, ActorUnchanged DEF IInv
<1>5. subscribed
  BY <1>2 DEF IInv, Phases, Serving
<1>6. TypeOK'
  <2>1. Flags'
    BY <1>1, <1>2 DEF Flags
  <2>2. next' \in 1 .. Len(events') + 1
    BY <1>1, <1>2, <1>3, BoundsNat DEF DirectoryTypes, ActorTypes, Oldest
  <2>3. DirectoryTypes'
    BY <1>1, <1>2, <2>2 DEF DirectoryTypes
  <2> QED
    BY <1>4, <2>1, <2>3, TypeParts, PTL
<1>7. BucketsMatchEndpoints' /\ Phases' /\ FirstSnapshot' /\ LaterSnapshot'
  BY <1>2, <1>5 DEF IInv, BucketsMatchEndpoints, Phases, Serving, FirstSnapshot, LaterSnapshot
<1>8. IndexSettled' /\ InStep'
  BY <1>2 DEF IndexSettled, InStep, Serving
<1> QED
  BY <1>4, <1>6, <1>7, <1>8 DEF IInv

\* The directory starts without an index, in the first configuration.
LEMMA InitIInv == Init => IInv
<1> SUFFICES ASSUME Init PROVE IInv
  OBVIOUS
<1>1. /\ config = 0 /\ members \subseteq Nodes /\ metadata \in Adverts
      /\ \A n \in Nodes \ members : metadata[n] = {}
      /\ events = <<>> /\ past = <<metadata>> /\ pc = "id" /\ subscribed = FALSE
      /\ next = 1 /\ index = EmptyIndex /\ raced = FALSE /\ lagged = FALSE
      /\ snap = [config |-> 0, members |-> {}, metadata |-> NoAdverts]
  BY DEF Init
<1>2. events \in Seq(EventType) /\ Len(events) = 0
  BY <1>1
<1>3. past \in Seq(Adverts) /\ Len(past) = 1 /\ past[1] = metadata
  BY <1>1
<1>4. NoAdverts \in Adverts /\ Buckets(NoAdverts) = [s \in Shards |-> {}]
  BY DEF NoAdverts, Adverts, Buckets
<1>5. index \in IndexType /\ BucketsMatchEndpoints
  <2>1. -1 \in -1 .. LastConfig
    BY BoundsNat
  <2>2. [s \in Shards |-> {}] \in [Shards -> SUBSET Nodes]
    OBVIOUS
  <2> QED
    BY <1>1, <1>4, <2>1, <2>2 DEF IndexType, EmptyIndex, BucketsMatchEndpoints
<1>6. TypeOK
  <2>1. ActorTypes
    BY <1>1, <1>2, <1>3, BoundsNat DEF ActorTypes
  <2>2. DirectoryTypes
    BY <1>1, <1>2, <1>4, <1>5, BoundsNat DEF DirectoryTypes
  <2>3. Flags
    BY <1>1 DEF Flags
  <2> QED
    BY <2>1, <2>2, <2>3, TypeParts
<1>7. HistoryFolds /\ LastWord
  BY <1>2, <1>3 DEF HistoryFolds, LastWord
<1>8. Phases /\ FirstSnapshot /\ LaterSnapshot /\ IndexSettled /\ InStep
  BY <1>1 DEF Phases, FirstSnapshot, LaterSnapshot, IndexSettled, InStep, Serving
<1> QED
  BY <1>5, <1>6, <1>7, <1>8 DEF IInv

\* Every step keeps the invariant.
LEMMA NextIInv == IInv /\ [Next]_vars => IInv'
<1> SUFFICES ASSUME IInv, [Next]_vars PROVE IInv'
  OBVIOUS
<1>1. CASE UNCHANGED vars
  <2>1. UNCHANGED <<actor, pc, subscribed, next, snap, index, raced, lagged>>
    BY <1>1 DEF vars
  <2>2. UNCHANGED <<config, members, metadata, events, past>>
    BY <2>1 DEF actor
  <2>3. TypeOK'
    BY <2>1, <2>2 DEF IInv, TypeOK
  <2>4. \A n \in Nodes : Settled(n)' <=> Settled(n)
    BY <2>1, <2>2 DEF Settled
  <2>5. BucketsMatchEndpoints' /\ HistoryFolds' /\ LastWord' /\ Phases'
    BY <2>1, <2>2
    DEF IInv, BucketsMatchEndpoints, HistoryFolds, LastWord, TouchedLast, Phases, Serving
  <2>6. FirstSnapshot' /\ LaterSnapshot'
    BY <2>1, <2>2, <2>4 DEF IInv, FirstSnapshot, LaterSnapshot
  <2>7. IndexSettled' /\ InStep'
    BY <2>1, <2>2, <2>4 DEF IInv, IndexSettled, InStep, Serving
  <2> QED
    BY <2>3, <2>5, <2>6, <2>7 DEF IInv
<1> QED
  BY <1>1, ViewChangeIInv, ReadIInv, SubscribeIInv, ResyncIInv, ReceiveIInv, LaggedIInv
  DEF Next

\* Every reachable state satisfies the invariant: the index is the snapshot it
\* started from with the events received since, in the order of the channel.
THEOREM Invariance == Spec => []IInv
<1> QED
  BY InitIInv, NextIInv, PTL DEF Spec

\* The reverse index and the buckets of a directory say the same at every moment, so
\* that apply_delta scrubs an endpoint from every bucket it is in.
THEOREM BucketsConsistent == Spec => []BucketsMatchEndpoints
<1>1. IInv => BucketsMatchEndpoints
  BY DEF IInv
<1> QED
  BY <1>1, Invariance, PTL

\* Up to the first lag, a directory whose construction met no view change shows the
\* buckets of exactly the configuration whose id it reports.
THEOREM ExactBeforeLag == Spec => []ExactUntilLag
<1>1. IInv => ExactUntilLag
  <2> SUFFICES ASSUME IInv, Serving, ~raced, ~lagged PROVE IsExact
    BY DEF ExactUntilLag
  <2>1. index.configurationId = next - 1 /\ index.byEndpoint = past[next] /\ next \in Int
    BY DEF IInv, InStep, Phases, TypeOK
  <2>2. index.configurationId + 1 = next
    BY <2>1
  <2> QED
    BY <2>1, <2>2 DEF IsExact, IInv, BucketsMatchEndpoints
<1> QED
  BY <1>1, Invariance, PTL

\* A directory whose construction met no view change and that has read all events
\* shows the current buckets, however torn the snapshots after a lag were and however
\* many events were lost or read twice.
THEOREM ExactWhenCaughtUp == Spec => []CaughtUpIsExact
<1>1. IInv => CaughtUpIsExact
  <2> SUFFICES ASSUME IInv, CaughtUp, ~raced PROVE index.byShard = Buckets(metadata)
    BY DEF CaughtUpIsExact
  <2>1. Len(events) \in Nat /\ next = Len(events) + 1
    BY DEF CaughtUp, IInv, TypeOK
  <2>2. \A n \in Nodes : Settled(n)
    BY <2>1 DEF Settled
  <2>3. \A n \in Nodes : index.byEndpoint[n] = metadata[n]
    BY <2>2 DEF IInv, IndexSettled, CaughtUp
  <2>4. Buckets(index.byEndpoint) = Buckets(metadata)
    BY <2>3 DEF Buckets
  <2> QED
    BY <2>4 DEF IInv, BucketsMatchEndpoints
<1> QED
  BY <1>1, Invariance, PTL

\* Type correctness; the events and the history have as many entries as there were
\* view changes, and the receiver never points outside them.
THEOREM TypeCorrect == Spec => []TypeOK
<1>1. IInv => TypeOK
  BY DEF IInv
<1> QED
  BY <1>1, Invariance, PTL
====
