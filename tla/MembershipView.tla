--------------------------- MODULE MembershipView ---------------------------
(***************************************************************************)
(* The view of one member: crates/rapid/src/view.rs over ring.rs.          *)
(*                                                                         *)
(* A view holds the members in K rings, each ordered by its own hash of    *)
(* the address, every node identifier it has ever seen, a cache of the     *)
(* observers of a member, and a configuration id computed on demand.       *)
(*                                                                         *)
(* Every ring holds the same members, so one set stands for all rings and  *)
(* for `all_nodes`; Pos is the signed hash a ring is ordered by.           *)
(***************************************************************************)
EXTENDS Integers, FiniteSets

CONSTANTS
    Nodes,      \* endpoints
    Ids,        \* node identifiers
    K,          \* number of rings
    Pos,        \* Pos[k][n]: the hash of n on ring k
    Uncached    \* no entry in cached_observers

Rings == 0 .. K - 1

ASSUME NodesFinite == IsFiniteSet(Nodes)
ASSUME RingsExist == K \in Nat \ {0}

\* Endpoints have different hashes on every ring (64-bit xxh64; a collision would
\* make the ring drop the second endpoint).
ASSUME PosInjective ==
    /\ Pos \in [Rings -> [Nodes -> Int]]
    /\ \A k \in Rings : \A m, n \in Nodes : Pos[k][m] = Pos[k][n] => m = n

NoObservers == <<>>

ObserverLists == [Rings -> Nodes] \cup {NoObservers}

ASSUME UncachedOutside == Uncached \notin ObserverLists

VARIABLES
    members,            \* all_nodes, and the contents of every ring
    identifiers,        \* never shrinks
    cachedObservers,
    configurationId,    \* the pair that the code hashes
    dirty               \* configuration_dirty

vars == <<members, identifiers, cachedObservers, configurationId, dirty>>

-----------------------------------------------------------------------------
(* ring.rs: NavigableSet operations on the members in the order of ring k. *)

Below(k, n, S) == {m \in S : Pos[k][m] < Pos[k][n]}
Above(k, n, S) == {m \in S : Pos[k][m] > Pos[k][n]}

Least(k, S) == CHOOSE m \in S : \A q \in S : Pos[k][m] <= Pos[k][q]
Greatest(k, S) == CHOOSE m \in S : \A q \in S : Pos[k][q] <= Pos[k][m]

\* higher(n), or first() when there is none.
Successor(k, n, S) ==
    IF Above(k, n, S) # {} THEN Least(k, Above(k, n, S)) ELSE Least(k, S)

\* Mutant: the wrap-around picks the wrong end.
PredecessorFirst(k, n, S) ==
    IF Below(k, n, S) # {} THEN Greatest(k, Below(k, n, S)) ELSE Least(k, S)

\* lower(n), or last() when there is none.
Predecessor(k, n, S) ==
    IF Below(k, n, S) # {} THEN Greatest(k, Below(k, n, S)) ELSE Greatest(k, S)

-----------------------------------------------------------------------------
ComputeObserversOf(n) ==
    IF Cardinality(members) <= 1
      THEN NoObservers
      ELSE [k \in Rings |-> Successor(k, n, members)]

GetSubjectsOf(n) ==
    IF Cardinality(members) <= 1
      THEN NoObservers
      ELSE [k \in Rings |-> Predecessor(k, n, members)]

\* get_ring_numbers: the rings on which observer o would report subject s.
GetRingNumbers(o, s) == {k \in DOMAIN GetSubjectsOf(o) : GetSubjectsOf(o)[k] = s}

\* The configuration id is a hash of the identifiers and the members; the model
\* keeps what is hashed.
ConfigurationIdFor(ids, S) == <<ids, S>>

Sentinel == <<>>

\* bootstrap: the configuration that was streamed to this member, or the empty view.
\* Nothing compares the two lists: a joiner that is told late that it was admitted is
\* sent the endpoints and no identifier.
Init ==
    /\ members \in SUBSET Nodes
    /\ identifiers \in SUBSET Ids
    /\ cachedObservers = [n \in Nodes |-> Uncached]
    /\ configurationId = Sentinel
    /\ dirty = TRUE

\* Mutant: the subjects on the other side are forgotten.
AffectedAbove(n) ==
    {Least(k, Above(k, n, members)) : k \in {q \in Rings : Above(q, n, members) # {}}}

\* lower(n) on every ring, without wrapping around.
AffectedSubjects(n) ==
    {Greatest(k, Below(k, n, members)) : k \in {q \in Rings : Below(q, n, members) # {}}}

\* Mutant: the list of the removed member stays cached.
AffectedOnly(n) == AffectedSubjects(n)

AffectedByDelete(n) == AffectedSubjects(n) \cup {n}

Forget(S) == [n \in Nodes |-> IF n \in S THEN Uncached ELSE cachedObservers[n]]

\* Mutant: the identifier of an added node is not remembered.
RemembersNothing(id) == identifiers

Remember(id) == identifiers \cup {id}

RingAdd(n, id) ==
    /\ id \notin identifiers
    /\ n \notin members
    /\ members' = members \cup {n}
    /\ cachedObservers' = Forget(AffectedSubjects(n))
    /\ identifiers' = Remember(id)
    /\ dirty' = TRUE
    /\ UNCHANGED configurationId

\* Mutant: a removal leaves the configuration id as it was.
NotDirty == dirty

DirtyAfterDelete == TRUE

RingDelete(n) ==
    /\ n \in members
    /\ members' = members \ {n}
    /\ cachedObservers' = Forget(AffectedByDelete(n))
    /\ dirty' = DirtyAfterDelete
    /\ UNCHANGED <<identifiers, configurationId>>

\* A miss computes the observers and caches them; a hit changes nothing.
GetObserversOf(n) ==
    /\ n \in members
    /\ cachedObservers[n] = Uncached
    /\ cachedObservers' = [cachedObservers EXCEPT ![n] = ComputeObserversOf(n)]
    /\ UNCHANGED <<members, identifiers, configurationId, dirty>>

CurrentConfigurationId ==
    /\ dirty
    /\ configurationId' = ConfigurationIdFor(identifiers, members)
    /\ dirty' = FALSE
    /\ UNCHANGED <<members, identifiers, cachedObservers>>

Next ==
    \/ \E n \in Nodes, id \in Ids : RingAdd(n, id)
    \/ \E n \in Nodes : RingDelete(n)
    \/ \E n \in Nodes : GetObserversOf(n)
    \/ CurrentConfigurationId

Spec == Init /\ [][Next]_vars

-----------------------------------------------------------------------------
(* Properties.                                                             *)

\* Types; only members have cached observers.
TypeOK ==
    /\ members \subseteq Nodes
    /\ identifiers \subseteq Ids
    /\ cachedObservers \in [Nodes -> ObserverLists \cup {Uncached}]
    /\ \A n \in Nodes \ members : cachedObservers[n] = Uncached
    /\ configurationId \in {Sentinel} \cup ((SUBSET Ids) \X (SUBSET Nodes))
    /\ dirty \in BOOLEAN

\* An id that is not marked dirty is the id of the current contents: no change of
\* the view can leave current_configuration_id answering for an older one.
ConfigurationIdFresh ==
    ~dirty => configurationId = ConfigurationIdFor(identifiers, members)

\* The view never returns to an earlier configuration: a change either adds an
\* identifier or, with the same identifiers, removes members.  Messages are
\* filtered by configuration id, so a repeated id would revive old ones.
ConfigurationsMoveForward ==
    [][<<identifiers, members>>' # <<identifiers, members>> =>
          \/ identifiers \subseteq identifiers' /\ identifiers' # identifiers
          \/ /\ identifiers' = identifiers
             /\ members' \subseteq members
             /\ members' # members]_vars

\* The rings on which o reports s (get_ring_numbers, from predecessors) are those
\* on which s is observed by o (compute_observers_of, from successors): a failed
\* member is reported once per ring, K reports in all.
ObserversMatchSubjects ==
    \A s, o \in members :
        LET obs == ComputeObserversOf(s)
        IN  GetRingNumbers(o, s) = {k \in DOMAIN obs : obs[k] = o}

IsLast(k, n) == \A m \in members : Pos[k][m] <= Pos[k][n]

\* On ring k the cached list of n is what it would be if computed now.
CurrentOn(k, n) ==
    LET now == ComputeObserversOf(n)
    IN  /\ (k \in DOMAIN cachedObservers[n]) <=> (k \in DOMAIN now)
        /\ k \in DOMAIN now => cachedObservers[n][k] = now[k]

\* A cached observer is out of date only on a ring where the member is the last:
\* ring_add and ring_delete forget the lists of the predecessors they can find
\* with `lower`, which are all but the one reached by wrapping around.
StaleOnlyAtWrap ==
    \A n \in members : cachedObservers[n] # Uncached =>
        \A k \in Rings : CurrentOn(k, n) \/ IsLast(k, n)
=============================================================================
