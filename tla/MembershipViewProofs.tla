------------------------ MODULE MembershipViewProofs ------------------------
(***************************************************************************)
(* Proofs about MembershipView for every set of endpoints, number of rings *)
(* and order of the hashes: types, that the configuration id is never      *)
(* stale, that the view never returns to an earlier configuration, that    *)
(* observers and subjects agree on every ring, and where the cache of      *)
(* observers can be out of date.                                           *)
(***************************************************************************)
EXTENDS MembershipView, FiniteSetTheorems, WellFoundedInduction, TLAPS

-----------------------------------------------------------------------------
(* Rings.                                                                  *)

\* Among the elements of a nonempty set one has the least measure.
LEMMA LeastMeasure ==
    ASSUME NEW S, S # {}, NEW f \in [S -> Nat]
    PROVE  \E m \in S : \A q \in S : f[m] <= f[q]
<1> DEFINE R == OpToRel(<, Nat)
           T == {f[m] : m \in S}
<1>1. IsWellFoundedOn(R, Nat)
  BY NatLessThanWellFounded
<1>2. T \subseteq Nat /\ T # {}
  OBVIOUS
<1>3. \E x \in T : \A y \in T : <<y, x>> \notin R
  <2> HIDE DEF T, R
  <2> QED
    BY <1>1, <1>2, WFMin
<1>4. \A x, y \in T : <<y, x>> \notin R => x <= y
  BY <1>2 DEF OpToRel
<1>5. PICK x \in T : \A y \in T : x <= y
  BY <1>3, <1>4
<1> QED
  BY <1>5

\* A ring that holds a member has a first and a last one.
LEMMA EndsOfRing ==
    ASSUME NEW k \in Rings, NEW S, S \subseteq Nodes, S # {}
    PROVE  /\ Least(k, S) \in S /\ \A q \in S : Pos[k][Least(k, S)] <= Pos[k][q]
           /\ Greatest(k, S) \in S /\ \A q \in S : Pos[k][q] <= Pos[k][Greatest(k, S)]
<1>1. \A m \in S : Pos[k][m] \in Int
  BY PosInjective
<1>2. IsFiniteSet(S)
  BY NodesFinite, FS_Subset
<1>3. \A m \in S : /\ IsFiniteSet(Below(k, m, S)) /\ Cardinality(Below(k, m, S)) \in Nat
                   /\ IsFiniteSet(Above(k, m, S)) /\ Cardinality(Above(k, m, S)) \in Nat
  BY <1>2, FS_Subset, FS_CardinalityType DEF Below, Above
<1>4. \E m \in S : \A q \in S : Pos[k][m] <= Pos[k][q]
  <2> DEFINE f == [m \in S |-> Cardinality(Below(k, m, S))]
  <2>1. f \in [S -> Nat]
    BY <1>3
  <2>2. PICK m \in S : \A q \in S : f[m] <= f[q]
    <3> HIDE DEF f
    <3> QED
      BY <2>1, LeastMeasure
  <2>3. ASSUME NEW q \in S, ~(Pos[k][m] <= Pos[k][q]) PROVE FALSE
    <3>1. Below(k, q, S) \subseteq Below(k, m, S)
          /\ Below(k, q, S) # Below(k, m, S)
      BY <1>1, <2>3 DEF Below
    <3>2. Cardinality(Below(k, q, S)) < Cardinality(Below(k, m, S))
      BY <1>3, <3>1, FS_Subset
    <3>3. Cardinality(Below(k, m, S)) <= Cardinality(Below(k, q, S))
      BY <2>2
    <3> QED
      BY <1>3, <3>2, <3>3
  <2> QED
    BY <2>3
<1>5. \E m \in S : \A q \in S : Pos[k][q] <= Pos[k][m]
  <2> DEFINE f == [m \in S |-> Cardinality(Above(k, m, S))]
  <2>1. f \in [S -> Nat]
    BY <1>3
  <2>2. PICK m \in S : \A q \in S : f[m] <= f[q]
    <3> HIDE DEF f
    <3> QED
      BY <2>1, LeastMeasure
  <2>3. ASSUME NEW q \in S, ~(Pos[k][q] <= Pos[k][m]) PROVE FALSE
    <3>1. Above(k, q, S) \subseteq Above(k, m, S)
          /\ Above(k, q, S) # Above(k, m, S)
      BY <1>1, <2>3 DEF Above
    <3>2. Cardinality(Above(k, q, S)) < Cardinality(Above(k, m, S))
      BY <1>3, <3>1, FS_Subset
    <3>3. Cardinality(Above(k, m, S)) <= Cardinality(Above(k, q, S))
      BY <2>2
    <3> QED
      BY <1>3, <3>2, <3>3
  <2> QED
    BY <2>3
<1> QED
  BY <1>4, <1>5 DEF Least, Greatest

\* The successor of an endpoint is a member, also after wrapping around.
LEMMA SuccessorIn ==
    ASSUME NEW k \in Rings, NEW n, NEW S, S \subseteq Nodes, S # {}
    PROVE  Successor(k, n, S) \in S
<1>1. Above(k, n, S) \subseteq S
  BY DEF Above
<1>2. Least(k, S) \in S
  BY EndsOfRing
<1>3. Above(k, n, S) # {} => Least(k, Above(k, n, S)) \in Above(k, n, S)
  BY <1>1, EndsOfRing
<1> QED
  BY <1>1, <1>2, <1>3 DEF Successor

\* The next element above n is the one that has nothing between.
LEMMA SuccessorAbove ==
    ASSUME NEW k \in Rings, NEW n \in Nodes, NEW m \in Nodes, NEW S, S \subseteq Nodes,
           m \in S, Pos[k][n] < Pos[k][m],
           \A q \in S : Pos[k][n] < Pos[k][q] => Pos[k][m] <= Pos[k][q]
    PROVE  Successor(k, n, S) = m
<1>1. Above(k, n, S) \subseteq Nodes /\ m \in Above(k, n, S)
  BY DEF Above
<1>2. PICK l : l = Least(k, Above(k, n, S))
  OBVIOUS
<1>3. l \in Above(k, n, S) /\ \A q \in Above(k, n, S) : Pos[k][l] <= Pos[k][q]
  BY <1>1, <1>2, EndsOfRing
<1>4. Pos[k][l] <= Pos[k][m] /\ Pos[k][m] <= Pos[k][l]
  BY <1>1, <1>3 DEF Above
<1>5. l = m
  BY <1>1, <1>3, <1>4, PosInjective
<1> QED
  BY <1>1, <1>2, <1>5 DEF Successor

\* What the successor and the predecessor of n are, in terms of the order alone.
LEMMA SuccessorFacts ==
    ASSUME NEW k \in Rings, NEW n \in Nodes, NEW S, S \subseteq Nodes, S # {},
           NEW l, l = Successor(k, n, S)
    PROVE  /\ l \in S
           /\ \/ /\ Pos[k][n] < Pos[k][l]
                 /\ \A q \in S : Pos[k][n] < Pos[k][q] => Pos[k][l] <= Pos[k][q]
              \/ \A q \in S : Pos[k][q] <= Pos[k][n] /\ Pos[k][l] <= Pos[k][q]
<1>1. \A q \in S : Pos[k][q] \in Int
  BY PosInjective
<1>2. Pos[k][n] \in Int /\ Above(k, n, S) \subseteq Nodes
  BY PosInjective DEF Above
<1>3. CASE Above(k, n, S) # {}
  <2>1. l = Least(k, Above(k, n, S))
    BY <1>3 DEF Successor
  <2>2. l \in Above(k, n, S) /\ \A q \in Above(k, n, S) : Pos[k][l] <= Pos[k][q]
    BY <1>2, <1>3, <2>1, EndsOfRing
  <2> QED
    BY <2>2 DEF Above
<1>4. CASE Above(k, n, S) = {}
  <2>1. l = Least(k, S)
    BY <1>4 DEF Successor
  <2>2. l \in S /\ \A q \in S : Pos[k][l] <= Pos[k][q]
    BY <2>1, EndsOfRing
  <2>3. \A q \in S : Pos[k][q] <= Pos[k][n]
    BY <1>1, <1>2, <1>4 DEF Above
  <2> QED
    BY <2>2, <2>3
<1> QED
  BY <1>3, <1>4

\* The predecessor is the greatest below, or else the greatest of all.
LEMMA PredecessorFacts ==
    ASSUME NEW k \in Rings, NEW n \in Nodes, NEW S, S \subseteq Nodes, S # {},
           NEW l, l = Predecessor(k, n, S)
    PROVE  /\ l \in S
           /\ \/ /\ Pos[k][l] < Pos[k][n]
                 /\ \A q \in S : Pos[k][q] < Pos[k][n] => Pos[k][q] <= Pos[k][l]
              \/ \A q \in S : Pos[k][n] <= Pos[k][q] /\ Pos[k][q] <= Pos[k][l]
<1>1. \A q \in S : Pos[k][q] \in Int
  BY PosInjective
<1>2. Pos[k][n] \in Int /\ Below(k, n, S) \subseteq Nodes
  BY PosInjective DEF Below
<1>3. CASE Below(k, n, S) # {}
  <2>1. l = Greatest(k, Below(k, n, S))
    BY <1>3 DEF Predecessor
  <2>2. l \in Below(k, n, S) /\ \A q \in Below(k, n, S) : Pos[k][q] <= Pos[k][l]
    BY <1>2, <1>3, <2>1, EndsOfRing
  <2> QED
    BY <2>2 DEF Below
<1>4. CASE Below(k, n, S) = {}
  <2>1. l = Greatest(k, S)
    BY <1>4 DEF Predecessor
  <2>2. l \in S /\ \A q \in S : Pos[k][q] <= Pos[k][l]
    BY <2>1, EndsOfRing
  <2>3. \A q \in S : Pos[k][n] <= Pos[k][q]
    BY <1>1, <1>2, <1>4 DEF Below
  <2> QED
    BY <2>2, <2>3
<1> QED
  BY <1>3, <1>4

\* On a ring, wrapped around, o comes after s exactly if s comes before o.
LEMMA RingInverse ==
    ASSUME NEW k \in Rings, NEW S, S \subseteq Nodes,
           NEW s \in S, NEW o \in S
    PROVE  Predecessor(k, o, S) = s <=> Successor(k, s, S) = o
<1>1. PICK p : p = Predecessor(k, o, S)
  OBVIOUS
<1>2. PICK n : n = Successor(k, s, S)
  OBVIOUS
<1>3. /\ p \in S
      /\ \/ /\ Pos[k][p] < Pos[k][o]
            /\ \A q \in S : Pos[k][q] < Pos[k][o] => Pos[k][q] <= Pos[k][p]
         \/ \A q \in S : Pos[k][o] <= Pos[k][q] /\ Pos[k][q] <= Pos[k][p]
  BY <1>1, PredecessorFacts
<1>4. /\ n \in S
      /\ \/ /\ Pos[k][s] < Pos[k][n]
            /\ \A q \in S : Pos[k][s] < Pos[k][q] => Pos[k][n] <= Pos[k][q]
         \/ \A q \in S : Pos[k][q] <= Pos[k][s] /\ Pos[k][n] <= Pos[k][q]
  BY <1>2, SuccessorFacts
<1>5. \A q \in S : Pos[k][q] \in Int
  BY PosInjective
<1>6. \A q, r \in S : Pos[k][q] = Pos[k][r] => q = r
  BY PosInjective
<1>7. p = s => n = o
  <2> SUFFICES ASSUME p = s PROVE Pos[k][n] = Pos[k][o]
    BY <1>4, <1>6
  <2>1. CASE Pos[k][s] < Pos[k][o]
    <3>1. Pos[k][s] < Pos[k][n] /\ Pos[k][n] <= Pos[k][o]
      BY <1>4, <1>5, <2>1
    <3>2. ~(Pos[k][n] < Pos[k][o])
      BY <1>3, <1>4, <1>5, <2>1, <3>1
    <3> QED
      BY <1>4, <1>5, <3>1, <3>2
  <2>2. CASE ~(Pos[k][s] < Pos[k][o])
    <3>1. \A q \in S : Pos[k][o] <= Pos[k][q] /\ Pos[k][q] <= Pos[k][s]
      BY <1>3, <2>2
    <3>2. ~(Pos[k][s] < Pos[k][n])
      BY <1>4, <1>5, <3>1
    <3>3. \A q \in S : Pos[k][n] <= Pos[k][q]
      BY <1>4, <3>2
    <3> QED
      BY <1>4, <1>5, <3>1, <3>3
  <2> QED
    BY <2>1, <2>2
<1>8. n = o => p = s
  <2> SUFFICES ASSUME n = o PROVE Pos[k][p] = Pos[k][s]
    BY <1>3, <1>6
  <2>1. CASE Pos[k][s] < Pos[k][o]
    <3>1. Pos[k][p] < Pos[k][o] /\ Pos[k][s] <= Pos[k][p]
      BY <1>3, <1>5, <2>1
    <3>2. ~(Pos[k][s] < Pos[k][p])
      BY <1>3, <1>4, <1>5, <2>1, <3>1
    <3> QED
      BY <1>3, <1>5, <3>1, <3>2
  <2>2. CASE ~(Pos[k][s] < Pos[k][o])
    <3>1. \A q \in S : Pos[k][q] <= Pos[k][s] /\ Pos[k][o] <= Pos[k][q]
      BY <1>4, <2>2
    <3>2. ~(Pos[k][p] < Pos[k][o])
      BY <1>3, <1>5, <3>1
    <3>3. \A q \in S : Pos[k][q] <= Pos[k][p]
      BY <1>3, <3>2
    <3> QED
      BY <1>3, <1>5, <3>1, <3>3
  <2> QED
    BY <2>1, <2>2
<1> QED
  BY <1>1, <1>2, <1>7, <1>8

\* A ring has more than one member exactly if it has one besides n.
LEMMA NotAlone ==
    ASSUME NEW S, S \subseteq Nodes, NEW n \in S
    PROVE  ~(Cardinality(S) <= 1) <=> \E q \in S : q # n
<1>1. IsFiniteSet(S)
  BY NodesFinite, FS_Subset
<1>2. Cardinality(S) \in Nat /\ Cardinality(S) # 0
  BY <1>1, FS_CardinalityType, FS_EmptySet
<1>3. Cardinality(S) = 1 <=> \E x : S = {x}
  BY <1>1, FS_Singleton
<1>4. (\E x : S = {x}) <=> ~\E q \in S : q # n
  <2>1. ASSUME NEW x, S = {x}, NEW q \in S, q # n PROVE FALSE
    BY <2>1
  <2>2. ASSUME ~\E q \in S : q # n PROVE S = {n}
    BY <2>2
  <2> QED
    BY <2>1, <2>2
<1> QED
  BY <1>2, <1>3, <1>4

-----------------------------------------------------------------------------
(* Steps.                                                                  *)

\* Every operation keeps the types, and only members have cached observers.
LEMMA NextTypeOK == TypeOK /\ [Next]_vars => TypeOK'
<1> SUFFICES ASSUME TypeOK, [Next]_vars PROVE TypeOK'
  OBVIOUS
<1>1. ASSUME NEW n \in Nodes, NEW id \in Ids, RingAdd(n, id) PROVE TypeOK'
  BY <1>1 DEF RingAdd, TypeOK, Forget, Remember
<1>2. ASSUME NEW n \in Nodes, RingDelete(n) PROVE TypeOK'
  BY <1>2 DEF RingDelete, TypeOK, Forget, AffectedByDelete, DirtyAfterDelete
<1>3. ASSUME NEW n \in Nodes, GetObserversOf(n) PROVE TypeOK'
  <2>1. ComputeObserversOf(n) \in ObserverLists
    <3>1. \A k \in Rings : Successor(k, n, members) \in Nodes
      BY <1>3, SuccessorIn DEF GetObserversOf, TypeOK
    <3> QED
      BY <3>1 DEF ComputeObserversOf, ObserverLists
  <2> QED
    BY <1>3, <2>1 DEF GetObserversOf, TypeOK
<1>4. CASE CurrentConfigurationId
  BY <1>4 DEF CurrentConfigurationId, TypeOK, ConfigurationIdFor
<1>5. CASE UNCHANGED vars
  BY <1>5 DEF vars, TypeOK
<1> QED
  BY <1>1, <1>2, <1>3, <1>4, <1>5 DEF Next

-----------------------------------------------------------------------------
(* Theorems.                                                               *)

\* The state of MembershipView (view.rs) keeps its types, and ring_delete leaves
\* no cached observers of an endpoint that is not a member.
THEOREM TypeCorrect == Spec => []TypeOK
<1>1. Init => TypeOK
  BY DEF Init, TypeOK
<1>2. TypeOK /\ [Next]_vars => TypeOK'
  BY NextTypeOK
<1> QED
  BY <1>1, <1>2, PTL DEF Spec

\* refresh is called whenever the contents changed: an id that is not dirty is
\* the id of the current identifiers and members.
THEOREM IdNeverStale == Spec => []ConfigurationIdFresh
<1>1. Init => ConfigurationIdFresh
  BY DEF Init, ConfigurationIdFresh
<1>2. ConfigurationIdFresh /\ [Next]_vars => ConfigurationIdFresh'
  <2> SUFFICES ASSUME ConfigurationIdFresh, [Next]_vars
               PROVE  ConfigurationIdFresh'
    OBVIOUS
  <2>1. ASSUME NEW n \in Nodes, NEW id \in Ids, RingAdd(n, id)
        PROVE  ConfigurationIdFresh'
    BY <2>1 DEF RingAdd, ConfigurationIdFresh
  <2>2. ASSUME NEW n \in Nodes, RingDelete(n) PROVE ConfigurationIdFresh'
    BY <2>2 DEF RingDelete, DirtyAfterDelete, ConfigurationIdFresh
  <2>3. ASSUME NEW n \in Nodes, GetObserversOf(n) PROVE ConfigurationIdFresh'
    BY <2>3 DEF GetObserversOf, ConfigurationIdFresh
  <2>4. CASE CurrentConfigurationId
    BY <2>4 DEF CurrentConfigurationId, ConfigurationIdFresh
  <2>5. CASE UNCHANGED vars
    BY <2>5 DEF vars, ConfigurationIdFresh
  <2> QED
    BY <2>1, <2>2, <2>3, <2>4, <2>5 DEF Next
<1> QED
  BY <1>1, <1>2, PTL DEF Spec

\* ring_add remembers a new identifier and ring_delete forgets none: no sequence
\* of view changes returns to an earlier configuration.
THEOREM NoConfigurationTwice == Spec => ConfigurationsMoveForward
<1> DEFINE Forward ==
      <<identifiers, members>>' # <<identifiers, members>> =>
          \/ identifiers \subseteq identifiers' /\ identifiers' # identifiers
          \/ /\ identifiers' = identifiers
             /\ members' \subseteq members
             /\ members' # members
<1>1. [Next]_vars => [Forward]_vars
  <2> SUFFICES ASSUME Next PROVE Forward
    OBVIOUS
  <2>1. ASSUME NEW n \in Nodes, NEW id \in Ids, RingAdd(n, id) PROVE Forward
    BY <2>1 DEF RingAdd, Remember
  <2>2. ASSUME NEW n \in Nodes, RingDelete(n) PROVE Forward
    BY <2>2 DEF RingDelete
  <2>3. ASSUME NEW n \in Nodes, GetObserversOf(n) PROVE Forward
    BY <2>3 DEF GetObserversOf
  <2>4. CASE CurrentConfigurationId
    BY <2>4 DEF CurrentConfigurationId
  <2> QED
    BY <2>1, <2>2, <2>3, <2>4 DEF Next
<1> QED
  BY <1>1, PTL DEF Spec, ConfigurationsMoveForward

\* get_ring_numbers, which looks at predecessors, and compute_observers_of, which
\* looks at successors, agree in every view: the rings on which o reports s are
\* those on which o is asked to observe s.
THEOREM RingNumbersMatch == Spec => []ObserversMatchSubjects
<1>1. TypeOK => ObserversMatchSubjects
  <2> SUFFICES ASSUME TypeOK, NEW s \in members, NEW o \in members
               PROVE  GetRingNumbers(o, s)
                        = {k \in DOMAIN ComputeObserversOf(s) : ComputeObserversOf(s)[k] = o}
    BY DEF ObserversMatchSubjects
  <2>1. CASE Cardinality(members) <= 1
    <3>1. DOMAIN NoObservers = {}
      BY DEF NoObservers
    <3> QED
      BY <2>1, <3>1 DEF GetRingNumbers, GetSubjectsOf, ComputeObserversOf
  <2>2. CASE ~(Cardinality(members) <= 1)
    <3>1. /\ GetSubjectsOf(o) = [k \in Rings |-> Predecessor(k, o, members)]
          /\ ComputeObserversOf(s) = [k \in Rings |-> Successor(k, s, members)]
      BY <2>2 DEF GetSubjectsOf, ComputeObserversOf
    <3>2. \A k \in Rings : Predecessor(k, o, members) = s <=> Successor(k, s, members) = o
      BY RingInverse DEF TypeOK
    <3> QED
      BY <3>1, <3>2 DEF GetRingNumbers
  <2> QED
    BY <2>1, <2>2
<1> QED
  BY <1>1, TypeCorrect, PTL

-----------------------------------------------------------------------------
(* The cache of observers.                                                 *)

\* Where n is not the last on ring k, to be current is to have the next member above.
NextWhereNotLast ==
    members \subseteq Nodes => \A n \in members, k \in Rings :
        ~IsLast(k, n) =>
            (CurrentOn(k, n) <=> /\ k \in DOMAIN cachedObservers[n]
                                 /\ cachedObservers[n][k] = Successor(k, n, members))

\* A member that is not last on a ring has a current entry when that is the next one.
LEMMA CurrentMeansNext == NextWhereNotLast
<1> SUFFICES ASSUME members \subseteq Nodes, NEW n \in members, NEW k \in Rings,
                    ~IsLast(k, n)
             PROVE  CurrentOn(k, n) <=> /\ k \in DOMAIN cachedObservers[n]
                                        /\ cachedObservers[n][k] = Successor(k, n, members)
  BY DEF NextWhereNotLast
<1>1. \A q \in members : Pos[k][q] \in Int
  BY PosInjective
<1>2. PICK q \in members : ~(Pos[k][q] <= Pos[k][n])
  BY DEF IsLast
<1>3. q # n
  BY <1>1, <1>2
<1>4. ~(Cardinality(members) <= 1)
  BY <1>3, NotAlone
<1>5. ComputeObserversOf(n) = [j \in Rings |-> Successor(j, n, members)]
  BY <1>4 DEF ComputeObserversOf
<1> QED
  BY <1>5 DEF CurrentOn

\* An entry that ring_add or ring_delete leaves in the cache is of a member that has
\* no successor yet, or one below the endpoint that comes or goes.
LEMMA KeptEntry ==
    ASSUME members \subseteq Nodes, NEW n \in members, NEW x \in Nodes, n # x,
           NEW k \in Rings, n \notin AffectedSubjects(x), Pos[k][n] < Pos[k][x]
    PROVE  \E g \in members : Pos[k][n] < Pos[k][g] /\ Pos[k][g] < Pos[k][x]
<1>1. \A q \in members : Pos[k][q] \in Int
  BY PosInjective
<1>2. Below(k, x, members) \subseteq Nodes /\ n \in Below(k, x, members)
  BY DEF Below
<1>3. PICK g : g = Greatest(k, Below(k, x, members))
  OBVIOUS
<1>4. g \in Below(k, x, members) /\ \A q \in Below(k, x, members) : Pos[k][q] <= Pos[k][g]
  BY <1>2, <1>3, EndsOfRing
<1>5. g \in AffectedSubjects(x)
  BY <1>2, <1>3 DEF AffectedSubjects
<1>6. Pos[k][n] # Pos[k][g]
  BY <1>2, <1>4, <1>5, PosInjective DEF Below
<1> QED
  BY <1>1, <1>2, <1>4, <1>6 DEF Below

\* The step of the proof that ring_add and ring_delete share: the members change by x
\* only, and n, which keeps its entry, is not the last afterwards.
LEMMA StillNext ==
    ASSUME members \subseteq Nodes, members' \subseteq Nodes, NEW x \in Nodes,
           \A q \in Nodes : q # x => (q \in members' <=> q \in members),
           NEW n \in members, n \in members', n # x, n \notin AffectedSubjects(x),
           NEW k \in Rings, ~IsLast(k, n)'
    PROVE  ~IsLast(k, n) /\ Successor(k, n, members') = Successor(k, n, members)
<1>1. \A q \in Nodes : Pos[k][q] \in Int
  BY PosInjective
<1>2. \A q, r \in Nodes : Pos[k][q] = Pos[k][r] => q = r
  BY PosInjective
<1>3. PICK q \in members' : ~(Pos[k][q] <= Pos[k][n])
  BY DEF IsLast
<1>4. Pos[k][n] < Pos[k][x] =>
          \E g \in members : Pos[k][n] < Pos[k][g] /\ Pos[k][g] < Pos[k][x]
  BY KeptEntry
<1>5. \E g \in members : Pos[k][n] < Pos[k][g] /\ g # x
  <2>1. CASE q = x
    BY <1>1, <1>3, <1>4, <2>1
  <2>2. CASE q # x
    BY <1>1, <1>3, <2>2
  <2> QED
    BY <2>1, <2>2
<1>6. ~IsLast(k, n)
  BY <1>1, <1>5 DEF IsLast
<1>7. PICK m : m = Successor(k, n, members)
  OBVIOUS
<1>8. /\ m \in members /\ Pos[k][n] < Pos[k][m]
      /\ \A r \in members : Pos[k][n] < Pos[k][r] => Pos[k][m] <= Pos[k][r]
  BY <1>1, <1>5, <1>7, SuccessorFacts
<1>9. m # x
  BY <1>1, <1>4, <1>8
<1>10. m \in members'
  BY <1>8, <1>9
<1>11. ASSUME NEW r \in members', Pos[k][n] < Pos[k][r] PROVE Pos[k][m] <= Pos[k][r]
  <2>1. CASE r # x
    BY <1>8, <1>11, <2>1
  <2>2. CASE r = x
    <3>1. PICK g \in members : Pos[k][n] < Pos[k][g] /\ Pos[k][g] < Pos[k][x]
      BY <1>4, <1>11, <2>2
    <3> QED
      BY <1>1, <1>8, <2>2, <3>1
  <2> QED
    BY <2>1, <2>2
<1>12. Successor(k, n, members') = m
  BY <1>8, <1>10, <1>11, SuccessorAbove
<1> QED
  BY <1>6, <1>7, <1>12

\* An entry that a change of the view keeps stays current, or its member is last.
LEMMA EntryStaysCurrent ==
    ASSUME TypeOK, TypeOK', StaleOnlyAtWrap, NEW x \in Nodes,
           \A q \in Nodes : q # x => (q \in members' <=> q \in members),
           NEW n \in members', n # x, n \notin AffectedSubjects(x),
           cachedObservers[n] # Uncached, cachedObservers'[n] = cachedObservers[n],
           NEW k \in Rings
    PROVE  CurrentOn(k, n)' \/ IsLast(k, n)'
<1> SUFFICES ASSUME ~IsLast(k, n)' PROVE CurrentOn(k, n)'
  OBVIOUS
<1>1. members \subseteq Nodes /\ members' \subseteq Nodes /\ n \in members /\ n \in Nodes
  BY DEF TypeOK
<1>2. ~IsLast(k, n) /\ Successor(k, n, members') = Successor(k, n, members)
  BY <1>1, StillNext
<1>3. CurrentOn(k, n)
  BY <1>1, <1>2 DEF StaleOnlyAtWrap
<1>4. /\ k \in DOMAIN cachedObservers[n]
      /\ cachedObservers[n][k] = Successor(k, n, members)
  BY <1>1, <1>2, <1>3, CurrentMeansNext DEF NextWhereNotLast
<1>5. NextWhereNotLast'
  BY CurrentMeansNext, PTL
<1>6. CurrentOn(k, n)' <=> /\ k \in DOMAIN cachedObservers'[n]
                           /\ cachedObservers'[n][k] = Successor(k, n, members')
  BY <1>1, <1>5 DEF NextWhereNotLast
<1> QED
  BY <1>2, <1>4, <1>6

\* A computed list is the current one.
LEMMA ComputedIsCurrent ==
    ASSUME NEW n \in Nodes, NEW k \in Rings, cachedObservers'[n] = ComputeObserversOf(n),
           UNCHANGED members
    PROVE  CurrentOn(k, n)'
<1>1. ComputeObserversOf(n)' = ComputeObserversOf(n)
  BY DEF ComputeObserversOf
<1> QED
  BY <1>1 DEF CurrentOn

\* So does an entry when the view does not change.
LEMMA UnchangedEntry ==
    ASSUME TypeOK, StaleOnlyAtWrap, UNCHANGED members, NEW n \in members,
           cachedObservers'[n] = cachedObservers[n], cachedObservers[n] # Uncached,
           NEW k \in Rings
    PROVE  CurrentOn(k, n)' \/ IsLast(k, n)'
<1>1. ComputeObserversOf(n)' = ComputeObserversOf(n)
  BY DEF ComputeObserversOf
<1>2. CurrentOn(k, n) \/ IsLast(k, n)
  BY DEF StaleOnlyAtWrap
<1> QED
  BY <1>1, <1>2 DEF CurrentOn, IsLast

\* The cache of observers is out of date at most where it wraps around: ring_add and
\* ring_delete find with `lower` every member whose next one above they change.
THEOREM CacheStaleOnlyAtWrap == Spec => []StaleOnlyAtWrap
<1>1. Init => StaleOnlyAtWrap
  BY DEF Init, StaleOnlyAtWrap
<1>2. TypeOK /\ TypeOK' /\ StaleOnlyAtWrap /\ [Next]_vars => StaleOnlyAtWrap'
  <2> SUFFICES ASSUME TypeOK, TypeOK', StaleOnlyAtWrap, [Next]_vars,
                      NEW n \in members', cachedObservers'[n] # Uncached, NEW k \in Rings
               PROVE  CurrentOn(k, n)' \/ IsLast(k, n)'
    BY DEF StaleOnlyAtWrap
  <2>0. n \in Nodes
    BY DEF TypeOK
  <2>1. ASSUME NEW x \in Nodes, NEW id \in Ids, RingAdd(x, id)
        PROVE  CurrentOn(k, n)' \/ IsLast(k, n)'
    <3>1. /\ members' = members \cup {x} /\ x \notin members
          /\ n \notin AffectedSubjects(x) /\ cachedObservers'[n] = cachedObservers[n]
      BY <2>0, <2>1 DEF RingAdd, Forget
    <3>2. n # x
      BY <2>0, <3>1 DEF TypeOK
    <3> QED
      BY <3>1, <3>2, EntryStaysCurrent
  <2>2. ASSUME NEW x \in Nodes, RingDelete(x)
        PROVE  CurrentOn(k, n)' \/ IsLast(k, n)'
    <3>1. /\ members' = members \ {x}
          /\ n \notin AffectedSubjects(x) /\ cachedObservers'[n] = cachedObservers[n]
      BY <2>0, <2>2 DEF RingDelete, Forget, AffectedByDelete
    <3> QED
      BY <3>1, EntryStaysCurrent
  <2>3. ASSUME NEW x \in Nodes, GetObserversOf(x)
        PROVE  CurrentOn(k, n)' \/ IsLast(k, n)'
    <3>1. CASE n = x
      <4>1. UNCHANGED members /\ cachedObservers'[n] = ComputeObserversOf(n)
        BY <2>0, <2>3, <3>1 DEF GetObserversOf, TypeOK
      <4> QED
        BY <2>0, <4>1, ComputedIsCurrent
    <3>2. CASE n # x
      <4>1. UNCHANGED members /\ cachedObservers'[n] = cachedObservers[n]
        BY <2>0, <2>3, <3>2 DEF GetObserversOf, TypeOK
      <4> QED
        BY <4>1, UnchangedEntry
    <3> QED
      BY <3>1, <3>2
  <2>4. CASE CurrentConfigurationId \/ UNCHANGED vars
    <3>1. UNCHANGED members /\ cachedObservers'[n] = cachedObservers[n]
      BY <2>4 DEF CurrentConfigurationId, vars
    <3> QED
      BY <3>1, UnchangedEntry
  <2> QED
    BY <2>1, <2>2, <2>3, <2>4 DEF Next
<1> QED
  BY <1>1, <1>2, TypeCorrect, PTL DEF Spec
====
