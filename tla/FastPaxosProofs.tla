-------------------------- MODULE FastPaxosProofs --------------------------
(***************************************************************************)
(* Proofs about FastPaxos for every number of members and every set of     *)
(* cuts.  The first part keeps types, one vote per member, one value per   *)
(* classic rank, and decisions backed by what was sent (IInv): two members *)
(* never decide different cuts in the fast round.                          *)
(*                                                                         *)
(* The second part is about ranks and promises (ClassicInv): whatever a    *)
(* coordinator asks for is safe at its rank, and no other cut can get a    *)
(* fast quorum of registered votes.  Classic rounds then agree, they keep  *)
(* the choice of the fast round, and the protocol implements Decision as   *)
(* long as nobody votes after a promise.                                   *)
(***************************************************************************)
EXTENDS FastPaxos, FiniteSetTheorems, SequenceTheorems, WellFoundedInduction, TLAPS

\* A member votes once per configuration.
VotedOnce == \A m, w \in votes : m.sender = w.sender => m = w

\* The rank in a prepare or a promise is that of the coordinator it belongs to.
RanksOfCoordinators ==
    /\ \A m \in phase1a : m.rank = ClassicRank(m.sender)
    /\ \A m \in phase1b : m.rnd = ClassicRank(m.to)

\* A coordinator asks for one value, the one it recorded in cval.
OneValuePerCoordinator ==
    \A m \in phase2a : m.rnd = ClassicRank(m.sender) /\ m.vval = cval[m.sender]

\* What was accepted was asked for.
AcceptedWasAsked ==
    \A m \in phase2b : \E a \in phase2a : a.rnd = m.rnd /\ a.vval = m.vval

Structure == RanksOfCoordinators /\ OneValuePerCoordinator /\ AcceptedWasAsked

\* The inductive invariant of the first part.
IInv == TypeOK /\ VotedOnce /\ Structure /\ DecisionIsChosen

-----------------------------------------------------------------------------
(* Arithmetic and sequences.                                               *)

\* The number of members is a positive natural number, and subsets of the members
\* have cardinalities.
LEMMA NType == N \in Nat /\ N > 0
BY AcceptorsFinite, FS_CardinalityType, FS_EmptySet DEF N

\* Two fast quorums overlap.
LEMMA FastQuorumsOverlap == FastQuorum \in Nat /\ FastQuorum + FastQuorum > N
BY NType DEF FastQuorum

\* A nonempty set of natural numbers has a first element.
LEMMA FirstIn ==
    ASSUME NEW S, S \subseteq Nat, S # {}
    PROVE  First(S) \in S /\ \A k \in S : First(S) <= k
<1> DEFINE R == OpToRel(<, Nat)
<1>1. \E x \in S : \A y \in S : <<y, x>> \notin R
  <2>1. IsWellFoundedOn(R, Nat)
    BY NatLessThanWellFounded
  <2> QED
    BY <2>1, WFMin
<1>2. \A x, y \in S : <<y, x>> \notin R => x <= y
  BY DEF OpToRel
<1>3. \E x \in S : \A y \in S : x <= y
  BY <1>1, <1>2
<1> QED
  BY <1>3 DEF First

\* The coordinator rule returns a value of one of the promises, or none.
LEMMA SelectProposalType ==
    ASSUME NEW S, S \subseteq Phase1bMsg, NEW log \in Seq(S)
    PROVE  SelectProposal(log) \in Values \cup {None}
<1>1. DOMAIN log \subseteq Nat /\ \A i \in DOMAIN log : log[i].vval \in Values \cup {None}
  <2>1. DOMAIN log = 1 .. Len(log) /\ Len(log) \in Nat
    BY LenProperties
  <2>2. \A i \in DOMAIN log : log[i] \in S
    BY <2>1, ElementOfSeq
  <2> QED
    BY <2>1, <2>2 DEF Phase1bMsg
<1>2. Collected(log) \subseteq DOMAIN log /\ Repeated(log) \subseteq DOMAIN log
      /\ NonEmpty(log) \subseteq DOMAIN log
  BY DEF Collected, Repeated, NonEmpty
<1>3. CASE Cardinality({log[i].vval : i \in Collected(log)}) = 1
  <2>1. Collected(log) # {}
    <3> SUFFICES ASSUME Collected(log) = {} PROVE FALSE
      OBVIOUS
    <3>1. {log[i].vval : i \in Collected(log)} = {}
      OBVIOUS
    <3>2. Cardinality({}) = 0
      BY FS_EmptySet
    <3>3. Cardinality({log[i].vval : i \in Collected(log)}) = 0
      BY <3>1, <3>2, Zenon
    <3> QED
      BY <1>3, <3>3
  <2>2. First(Collected(log)) \in DOMAIN log
    BY <1>1, <1>2, <2>1, FirstIn
  <2> QED
    BY <1>1, <1>3, <2>2 DEF SelectProposal
<1>4. CASE Cardinality({log[i].vval : i \in Collected(log)}) # 1
  <2>1. Repeated(log) # {} => First(Repeated(log)) \in DOMAIN log
    BY <1>1, <1>2, FirstIn
  <2>2. NonEmpty(log) # {} => First(NonEmpty(log)) \in DOMAIN log
    BY <1>1, <1>2, FirstIn
  <2> QED
    BY <1>1, <1>4, <2>1, <2>2 DEF SelectProposal
<1> QED
  BY <1>3, <1>4

\* Ranks have the type of ranks.
LEMMA RankTypes ==
    /\ ZeroRank \in Rank
    /\ FastRank \in Rank
    /\ \A n \in Acceptors : ClassicRank(n) \in Rank
BY NodeIndexInjective DEF Rank, MkRank, ZeroRank, FastRank, ClassicRank, ClassicRound

-----------------------------------------------------------------------------
(* Types.                                                                  *)

\* The first state has its types.
LEMMA InitTypeOK == Init => TypeOK
BY RankTypes, EmptySeq DEF Init, NewPaxos, NewFastPaxos, TypeOK

\* Every action preserves the types.
LEMMA NextTypeOK == TypeOK /\ [Next]_vars => TypeOK'
<1> SUFFICES ASSUME TypeOK, [Next]_vars PROVE TypeOK'
  OBVIOUS
<1> USE DEF acceptorVars, coordinatorVars, learnerVars, messageVars
<1>0. Coordinators \subseteq Acceptors /\ Learners \subseteq Acceptors
      /\ \A n \in Acceptors : Candidates[n] \subseteq Values
  BY BoundsTyped
<1>1. ASSUME NEW n \in Acceptors, NEW v \in Candidates[n], Propose(n, v)
      PROVE  TypeOK'
  <2>1. v \in Values
    BY <1>0, <1>1
  <2>2. rnd' \in [Acceptors -> Rank] /\ vrnd' \in [Acceptors -> Rank]
        /\ vval' \in [Acceptors -> Values \cup {None}] /\ late' \subseteq Acceptors
    <3>1. CASE UNCHANGED <<rnd, vrnd, vval>> /\ late' = late \cup {n}
      BY <3>1 DEF TypeOK
    <3>2. CASE /\ rnd' = [rnd EXCEPT ![n] = FastRank]
               /\ vrnd' = [vrnd EXCEPT ![n] = FastRank]
               /\ vval' = [vval EXCEPT ![n] = v]
               /\ UNCHANGED late
      BY <2>1, <3>2, RankTypes DEF TypeOK
    <3> QED
      BY <1>1, <3>1, <3>2 DEF Propose, RegisterFastRoundVote
  <2>3. votes' \subseteq VoteMsg /\ votes \subseteq votes'
    BY <1>1, <2>1 DEF Propose, TypeOK, VoteMsg
  <2>4. votesReceived' \in [Acceptors -> SUBSET votes']
    BY <1>1, <2>3 DEF Propose, RegisterFastRoundVote, TypeOK
  <2> QED
    BY <1>1, <2>2, <2>3, <2>4 DEF Propose, RegisterFastRoundVote, TypeOK
<1>2. ASSUME NEW n \in Learners, NEW m \in votes, HandleFastRoundProposal(n, m)
      PROVE  TypeOK'
  <2>1. m.vval \in Values /\ m.vval # None
    BY NoneOutside DEF TypeOK, VoteMsg
  <2>2. votesReceived' \in [Acceptors -> SUBSET votes]
    BY <1>0, <1>2 DEF HandleFastRoundProposal, TypeOK
  <2>3. \/ Decide(n, m.vval, "fast")
        \/ UNCHANGED <<decision, decidedBy>>
    BY <1>2 DEF HandleFastRoundProposal
  <2>4. /\ decision' \in [Acceptors -> Values \cup {None}]
        /\ decidedBy' \in [Acceptors -> {"none", "fast", "classic"}]
        /\ \A k \in Acceptors : decision'[k] = None <=> decidedBy'[k] = "none"
    BY <1>0, <2>1, <2>3 DEF Decide, TypeOK
  <2> QED
    BY <1>2, <2>2, <2>4 DEF HandleFastRoundProposal, TypeOK
<1>3. ASSUME NEW n \in Acceptors, StartClassicRound(n)
      PROVE  TypeOK'
  <2>1. n \in Acceptors /\ ClassicRank(n) \in Rank
    BY <1>0, RankTypes
  <2>2. phase1a' \subseteq Phase1aMsg
    BY <1>3, <2>1 DEF StartClassicRound, StartPhase1a, TypeOK, Phase1aMsg
  <2>3. crnd' \in [Acceptors -> Rank] /\ classicStarted' \in [Acceptors -> BOOLEAN]
    BY <1>3, <2>1 DEF StartClassicRound, StartPhase1a, TypeOK
  <2> QED
    BY <1>3, <2>2, <2>3 DEF StartClassicRound, StartPhase1a, TypeOK
<1>4. ASSUME NEW n \in Acceptors, NEW m \in phase1a, HandlePhase1a(n, m)
      PROVE  TypeOK'
  <2>1. m.rank \in Rank /\ m.sender \in Acceptors
    BY DEF TypeOK, Phase1aMsg
  <2>2. phase1b' \subseteq Phase1bMsg /\ phase1b \subseteq phase1b'
    BY <1>4, <2>1 DEF HandlePhase1a, TypeOK, Phase1bMsg
  <2>3. phase1bMessages' \in [Acceptors -> Seq(phase1b')]
    <3>1. \A k \in Acceptors : phase1bMessages[k] \in Seq(phase1b')
      BY <2>2, SeqMonotonic DEF TypeOK
    <3> QED
      BY <1>4, <3>1 DEF HandlePhase1a, TypeOK
  <2>4. rnd' \in [Acceptors -> Rank]
    BY <1>4, <2>1 DEF HandlePhase1a, TypeOK
  <2> QED
    BY <1>4, <2>2, <2>3, <2>4 DEF HandlePhase1a, TypeOK
<1>5. ASSUME NEW n \in Acceptors, NEW m \in phase1b, HandlePhase1b(n, m)
      PROVE  TypeOK'
  <2> DEFINE log == Append(phase1bMessages[n], m)
  <2>1. n \in Acceptors /\ phase1bMessages[n] \in Seq(phase1b)
    BY <1>0 DEF TypeOK
  <2>2. log \in Seq(phase1b)
    BY <2>1, AppendProperties
  <2>3. SelectProposal(log) \in Values \cup {None}
    BY <2>2, SelectProposalType DEF TypeOK
  <2> HIDE DEF log
  <2>4. phase1bMessages' = [phase1bMessages EXCEPT ![n] = log]
    BY <1>5 DEF HandlePhase1b, log
  <2>5. phase1bMessages' \in [Acceptors -> Seq(phase1b)]
    BY <2>2, <2>4 DEF TypeOK
  <2>6. \/ /\ StartsPhase2(n, log)
           /\ cval' = [cval EXCEPT ![n] = SelectProposal(log)]
           /\ phase2a' = phase2a \cup {Phase2aFrom(n, SelectProposal(log))}
        \/ UNCHANGED <<cval, phase2a>>
    BY <1>5 DEF HandlePhase1b, log
  <2>7. cval' \in [Acceptors -> Values \cup {None}]
    BY <2>3, <2>6 DEF TypeOK
  <2>8. phase2a' \subseteq Phase2aMsg
    BY <2>1, <2>3, <2>6 DEF TypeOK, StartsPhase2, Phase2aFrom, Phase2aMsg
  <2> QED
    BY <1>5, <2>5, <2>7, <2>8 DEF HandlePhase1b, TypeOK
<1>6. ASSUME NEW n \in Acceptors, NEW m \in phase2a, HandlePhase2a(n, m)
      PROVE  TypeOK'
  <2>1. m.rnd \in Rank /\ m.vval \in Values
    BY DEF TypeOK, Phase2aMsg
  <2>2. phase2b' \subseteq Phase2bMsg /\ phase2b \subseteq phase2b'
    BY <1>6, <2>1 DEF HandlePhase2a, TypeOK, Phase2bMsg
  <2>3. acceptResponses' \in [Acceptors -> SUBSET phase2b']
    BY <1>6, <2>2 DEF HandlePhase2a, TypeOK
  <2>4. rnd' \in [Acceptors -> Rank] /\ vrnd' \in [Acceptors -> Rank]
        /\ vval' \in [Acceptors -> Values \cup {None}]
    BY <1>6, <2>1 DEF HandlePhase2a, TypeOK
  <2> QED
    BY <1>6, <2>2, <2>3, <2>4 DEF HandlePhase2a, TypeOK
<1>7. ASSUME NEW n \in Learners, NEW m \in phase2b, HandlePhase2b(n, m)
      PROVE  TypeOK'
  <2>1. m.vval \in Values /\ m.vval # None
    BY NoneOutside DEF TypeOK, Phase2bMsg
  <2>2. acceptResponses' \in [Acceptors -> SUBSET phase2b]
    BY <1>0, <1>7 DEF HandlePhase2b, TypeOK
  <2>3. \/ Decide(n, m.vval, "classic")
        \/ UNCHANGED <<decision, decidedBy>>
    BY <1>7 DEF HandlePhase2b
  <2>4. /\ decision' \in [Acceptors -> Values \cup {None}]
        /\ decidedBy' \in [Acceptors -> {"none", "fast", "classic"}]
        /\ \A k \in Acceptors : decision'[k] = None <=> decidedBy'[k] = "none"
    BY <1>0, <2>1, <2>3 DEF Decide, TypeOK
  <2> QED
    BY <1>7, <2>2, <2>4 DEF HandlePhase2b, TypeOK
<1>8. CASE UNCHANGED vars
  BY <1>8 DEF vars, TypeOK
<1> QED
  BY <1>0, <1>1, <1>2, <1>3, <1>4, <1>5, <1>6, <1>7, <1>8
     DEF Next, Handling, FallbackTimer, OvertakenCommand

-----------------------------------------------------------------------------
(* One vote per member, one value per rank.                                *)

\* Only `propose` sends a vote, and only from a member that has not voted.
LEMMA NextVotedOnce == VotedOnce /\ [Next]_vars => VotedOnce'
<1> SUFFICES ASSUME VotedOnce, [Next]_vars PROVE VotedOnce'
  OBVIOUS
<1>1. ASSUME NEW n \in Acceptors, NEW v \in Candidates[n], Propose(n, v)
      PROVE  VotedOnce'
  <2>1. votes' = votes \cup {[sender |-> n, vval |-> v]} /\ \A m \in votes : m.sender # n
    BY <1>1 DEF Propose, Voted
  <2> QED
    BY <2>1 DEF VotedOnce
<1>2. CASE votes' = votes
  BY <1>2 DEF VotedOnce
<1> QED
  BY <1>1, <1>2 DEF Next, Handling, FallbackTimer, OvertakenCommand,
     vars, HandleFastRoundProposal, StartClassicRound,
     HandlePhase1a, HandlePhase1b, HandlePhase2a, HandlePhase2b, messageVars

\* Messages of the classic round carry the rank of their coordinator and the one
\* value it selected.
LEMMA NextStructure == TypeOK /\ Structure /\ [Next]_vars => Structure'
<1> SUFFICES ASSUME TypeOK, Structure, [Next]_vars PROVE Structure'
  OBVIOUS
<1> USE DEF Structure
<1>1. ASSUME NEW n \in Acceptors, StartClassicRound(n)
      PROVE  Structure'
  <2>1. phase1a' = phase1a \cup {[sender |-> n, rank |-> ClassicRank(n)]}
        /\ UNCHANGED <<cval, phase1b, phase2a, phase2b>>
    BY <1>1 DEF StartClassicRound, StartPhase1a
  <2> QED
    BY <2>1 DEF RanksOfCoordinators, OneValuePerCoordinator, AcceptedWasAsked
<1>2. ASSUME NEW n \in Acceptors, NEW m \in phase1a, HandlePhase1a(n, m)
      PROVE  Structure'
  <2>1. phase1b' = phase1b \cup {[sender |-> n, to |-> m.sender, rnd |-> m.rank,
                                  vrnd |-> vrnd[n], vval |-> vval[n]]}
        /\ UNCHANGED <<cval, phase1a, phase2a, phase2b>>
    BY <1>2 DEF HandlePhase1a, coordinatorVars
  <2> QED
    BY <2>1 DEF RanksOfCoordinators, OneValuePerCoordinator, AcceptedWasAsked
<1>3. ASSUME NEW n \in Acceptors, NEW m \in phase1b, HandlePhase1b(n, m)
      PROVE  Structure'
  <2>1. UNCHANGED <<phase1a, phase1b, phase2b>>
    BY <1>3 DEF HandlePhase1b
  <2>2. PICK v : \/ /\ cval[n] = None
                    /\ v # None
                    /\ cval' = [cval EXCEPT ![n] = v]
                    /\ phase2a' = phase2a \cup {Phase2aFrom(n, v)}
                 \/ UNCHANGED <<cval, phase2a>>
    BY <1>3 DEF HandlePhase1b, StartsPhase2
  <2>3. crnd[n] = ClassicRank(n) /\ n \in Acceptors
    BY <1>3, BoundsTyped DEF HandlePhase1b, RanksOfCoordinators
  <2>4. CASE UNCHANGED <<cval, phase2a>>
    BY <2>1, <2>4 DEF RanksOfCoordinators, OneValuePerCoordinator, AcceptedWasAsked
  <2>5. CASE /\ cval[n] = None
             /\ cval' = [cval EXCEPT ![n] = v]
             /\ phase2a' = phase2a \cup {Phase2aFrom(n, v)}
    <3>1. \A a \in phase2a : a.vval # None /\ a.sender \in Acceptors
      BY NoneOutside DEF TypeOK, Phase2aMsg
    <3>2. \A a \in phase2a : a.sender # n
      BY <2>5, <3>1 DEF OneValuePerCoordinator
    <3>3. \A a \in phase2a : cval'[a.sender] = cval[a.sender]
      BY <2>5, <3>1, <3>2 DEF TypeOK
    <3>4. cval'[n] = v
      BY <2>3, <2>5 DEF TypeOK
    <3>5. OneValuePerCoordinator'
      BY <2>3, <2>5, <3>3, <3>4 DEF OneValuePerCoordinator, Phase2aFrom
    <3> QED
      BY <2>1, <2>5, <3>5 DEF RanksOfCoordinators, AcceptedWasAsked
  <2> QED
    BY <2>2, <2>4, <2>5
<1>4. ASSUME NEW n \in Acceptors, NEW m \in phase2a, HandlePhase2a(n, m)
      PROVE  Structure'
  <2>1. phase2b' = phase2b \cup {[sender |-> n, rnd |-> m.rnd, vval |-> m.vval]}
        /\ UNCHANGED <<cval, phase1a, phase1b, phase2a>>
    BY <1>4 DEF HandlePhase2a, coordinatorVars
  <2>2. AcceptedWasAsked'
    BY <2>1 DEF AcceptedWasAsked
  <2> QED
    BY <2>1, <2>2 DEF RanksOfCoordinators, OneValuePerCoordinator
<1>5. CASE UNCHANGED <<cval, phase1a, phase1b, phase2a, phase2b>>
  BY <1>5 DEF RanksOfCoordinators, OneValuePerCoordinator, AcceptedWasAsked
<1> QED
  BY BoundsTyped, <1>1, <1>2, <1>3, <1>4, <1>5
     DEF Next, Handling, FallbackTimer, OvertakenCommand, vars, Propose, HandleFastRoundProposal,
     HandlePhase2b, messageVars, coordinatorVars

\* Two acceptances of one rank are of one value: this is where the injectivity of
\* the node index is needed.
LEMMA OneValuePerRank ==
    ASSUME TypeOK, Structure, NEW m \in phase2b, NEW w \in phase2b, m.rnd = w.rnd
    PROVE  m.vval = w.vval
<1>1. PICK a \in phase2a : a.rnd = m.rnd /\ a.vval = m.vval
  BY DEF Structure, AcceptedWasAsked
<1>2. PICK b \in phase2a : b.rnd = w.rnd /\ b.vval = w.vval
  BY DEF Structure, AcceptedWasAsked
<1>3. ClassicRank(a.sender) = ClassicRank(b.sender)
  BY <1>1, <1>2 DEF Structure, OneValuePerCoordinator
<1>4. a.sender \in Acceptors /\ b.sender \in Acceptors
  BY DEF TypeOK, Phase2aMsg
<1>5. a.sender = b.sender
  BY <1>3, <1>4, NodeIndexInjective DEF ClassicRank, MkRank
<1> QED
  BY <1>1, <1>2, <1>5 DEF Structure, OneValuePerCoordinator

-----------------------------------------------------------------------------
(* Decisions.                                                              *)

\* The sets of voters and acceptors are finite, and a larger one is at least as
\* numerous.
LEMMA SubsetsOfAcceptors ==
    ASSUME NEW S, NEW T, S \subseteq T, T \subseteq Acceptors
    PROVE  /\ IsFiniteSet(S)
           /\ Cardinality(S) \in Nat
           /\ Cardinality(T) \in Nat
           /\ Cardinality(S) <= Cardinality(T)
<1>1. IsFiniteSet(T) /\ IsFiniteSet(S)
  BY AcceptorsFinite, FS_Subset
<1> QED
  BY <1>1, FS_Subset, FS_CardinalityType

\* What was chosen stays chosen while messages are only added.
LEMMA ChosenGrows ==
    ASSUME votes \subseteq votes', phase2b \subseteq phase2b'
    PROVE  FastChosen \subseteq FastChosen' /\ ClassicChosen \subseteq ClassicChosen'
<1>1. FastChosen \subseteq FastChosen'
  <2> SUFFICES ASSUME NEW v \in FastChosen PROVE v \in FastChosen'
    OBVIOUS
  <2>1. VotersFor(v) \subseteq VotersFor(v)' /\ VotersFor(v)' \subseteq Acceptors
    BY DEF VotersFor
  <2>2. Cardinality(VotersFor(v)) <= Cardinality(VotersFor(v)')
        /\ Cardinality(VotersFor(v)) \in Nat /\ Cardinality(VotersFor(v)') \in Nat
    BY <2>1, SubsetsOfAcceptors
  <2>3. Cardinality(VotersFor(v)) >= FastQuorum /\ v \in Values
    BY DEF FastChosen
  <2>4. Cardinality(VotersFor(v)') >= FastQuorum
    BY <2>2, <2>3, FastQuorumsOverlap
  <2> QED
    BY <2>3, <2>4 DEF FastChosen
<1>2. ClassicChosen \subseteq ClassicChosen'
  <2> SUFFICES ASSUME NEW v \in ClassicChosen PROVE v \in ClassicChosen'
    OBVIOUS
  <2>1. PICK m \in phase2b : Majority(Cardinality(AcceptorsOf(m.rnd, v)))
    BY DEF ClassicChosen
  <2>2. AcceptorsOf(m.rnd, v) \subseteq AcceptorsOf(m.rnd, v)'
        /\ AcceptorsOf(m.rnd, v)' \subseteq Acceptors
    BY DEF AcceptorsOf
  <2>3. /\ Cardinality(AcceptorsOf(m.rnd, v)) <= Cardinality(AcceptorsOf(m.rnd, v)')
        /\ Cardinality(AcceptorsOf(m.rnd, v)) \in Nat
        /\ Cardinality(AcceptorsOf(m.rnd, v)') \in Nat
    BY <2>2, SubsetsOfAcceptors
  <2>4. Majority(Cardinality(AcceptorsOf(m.rnd, v)'))
    BY <2>1, <2>3, NType DEF Majority
  <2>5. v \in Values /\ m \in phase2b'
    BY <2>1 DEF ClassicChosen
  <2> QED
    BY <2>4, <2>5 DEF ClassicChosen
<1> QED
  BY <1>1, <1>2

\* The votes for v that one member received come from different voters.
LEMMA ReceivedVotes ==
    ASSUME TypeOK, VotedOnce, NEW v, NEW S, S \subseteq votes,
           \A w \in S : w.vval = v
    PROVE  IsFiniteSet(S) /\ Cardinality(S) <= Cardinality(VotersFor(v))
           /\ Cardinality(S) \in Nat /\ Cardinality(VotersFor(v)) \in Nat
<1> DEFINE f == [w \in S |-> w.sender]
<1>1. \A w \in S : w.sender \in VotersFor(v)
  <2> SUFFICES ASSUME NEW w \in S PROVE w.sender \in VotersFor(v)
    OBVIOUS
  <2>1. w \in VoteMsg /\ w.vval = v /\ w \in votes
    BY DEF TypeOK
  <2>2. w = [sender |-> w.sender, vval |-> v] /\ w.sender \in Acceptors
    BY <2>1 DEF VoteMsg
  <2> QED
    BY <2>1, <2>2 DEF VotersFor
<1>2. \A w, x \in S : w.sender = x.sender => w = x
  BY DEF VotedOnce
<1>3. f \in Injection(S, VotersFor(v))
  BY <1>1, <1>2 DEF Injection, IsInjective
<1>4. VotersFor(v) \subseteq Acceptors
  BY DEF VotersFor
<1>5. IsFiniteSet(VotersFor(v)) /\ Cardinality(VotersFor(v)) \in Nat
  BY <1>4, SubsetsOfAcceptors
<1>6. IsFiniteSet(S) /\ Cardinality(S) <= Cardinality(VotersFor(v))
  BY <1>3, <1>5, FS_Injection
<1> QED
  BY <1>5, <1>6, FS_CardinalityType

\* A member decides in the fast round only a cut with a quorum of voters.
LEMMA FastDecisionChosen ==
    ASSUME TypeOK, VotedOnce, NEW n \in Acceptors, NEW m \in votes,
           HandleFastRoundProposal(n, m),
           FastRoundDecided(votesReceived[n] \cup {m}, m.vval)
    PROVE  m.vval \in FastChosen
<1> DEFINE S == {w \in votesReceived[n] \cup {m} : w.vval = m.vval}
<1>1. S \subseteq votes /\ \A w \in S : w.vval = m.vval
  BY DEF TypeOK
<1>2. Cardinality(S) >= FastQuorum
  BY DEF FastRoundDecided
<1>3. Cardinality(S) <= Cardinality(VotersFor(m.vval))
      /\ Cardinality(S) \in Nat /\ Cardinality(VotersFor(m.vval)) \in Nat
  <2> HIDE DEF S
  <2> QED
    BY <1>1, ReceivedVotes
<1>4. m.vval \in Values
  BY DEF TypeOK, VoteMsg
<1> HIDE DEF S
<1>5. Cardinality(VotersFor(m.vval)) >= FastQuorum
  BY <1>2, <1>3, FastQuorumsOverlap
<1> QED
  BY <1>4, <1>5 DEF FastChosen

\* A member decides in a classic round only a cut with a majority of acceptors,
\* although it looks only at the message that completes the bucket.
LEMMA ClassicDecisionChosen ==
    ASSUME TypeOK, Structure, NEW n \in Acceptors, NEW m \in phase2b,
           Majority(Cardinality({w.sender :
              w \in {x \in acceptResponses[n] \cup {m} : x.rnd = m.rnd}}))
    PROVE  m.vval \in ClassicChosen
<1> DEFINE bucket == {w.sender :
              w \in {x \in acceptResponses[n] \cup {m} : x.rnd = m.rnd}}
<1>1. bucket \subseteq AcceptorsOf(m.rnd, m.vval)
  <2> SUFFICES ASSUME NEW w \in phase2b, w.rnd = m.rnd
               PROVE  w.sender \in AcceptorsOf(m.rnd, m.vval)
    BY DEF TypeOK
  <2>1. w.vval = m.vval
    BY OneValuePerRank
  <2>2. w \in Phase2bMsg
    BY DEF TypeOK
  <2>3. w = [sender |-> w.sender, rnd |-> m.rnd, vval |-> m.vval]
        /\ w.sender \in Acceptors
    BY <2>1, <2>2 DEF Phase2bMsg
  <2> QED
    BY <2>3 DEF AcceptorsOf
<1>2. AcceptorsOf(m.rnd, m.vval) \subseteq Acceptors
  BY DEF AcceptorsOf
<1>3. Majority(Cardinality(bucket))
  OBVIOUS
<1> HIDE DEF bucket
<1>4. /\ Cardinality(bucket) <= Cardinality(AcceptorsOf(m.rnd, m.vval))
      /\ Cardinality(bucket) \in Nat
      /\ Cardinality(AcceptorsOf(m.rnd, m.vval)) \in Nat
  BY <1>1, <1>2, SubsetsOfAcceptors
<1>5. Majority(Cardinality(AcceptorsOf(m.rnd, m.vval)))
  BY <1>3, <1>4, NType DEF Majority
<1>6. m.vval \in Values
  BY DEF TypeOK, Phase2bMsg
<1> QED
  BY <1>5, <1>6 DEF ClassicChosen

\* Every step keeps the decisions backed by what was sent.
LEMMA NextDecisionIsChosen ==
    TypeOK /\ VotedOnce /\ Structure /\ DecisionIsChosen /\ [Next]_vars
        => DecisionIsChosen'
<1> SUFFICES ASSUME TypeOK, VotedOnce, Structure, DecisionIsChosen, [Next]_vars
             PROVE  DecisionIsChosen'
  OBVIOUS
<1>1. votes \subseteq votes' /\ phase2b \subseteq phase2b'
  BY DEF Next, Handling, FallbackTimer, OvertakenCommand,
     vars, messageVars, Propose, HandleFastRoundProposal,
         StartClassicRound, HandlePhase1a, HandlePhase1b, HandlePhase2a,
         HandlePhase2b
<1>2. FastChosen \subseteq FastChosen' /\ ClassicChosen \subseteq ClassicChosen'
  BY <1>1, ChosenGrows
<1>3. CASE UNCHANGED <<decision, decidedBy>>
  BY <1>2, <1>3 DEF DecisionIsChosen
<1>4. ASSUME NEW n \in Acceptors, NEW v, NEW how,
             Decide(n, v, how),
             how = "fast" => v \in FastChosen,
             how = "classic" => v \in ClassicChosen
      PROVE  DecisionIsChosen'
  <2>1. /\ \A k \in Acceptors : decision'[k] = IF k = n THEN v ELSE decision[k]
        /\ \A k \in Acceptors : decidedBy'[k] = IF k = n THEN how ELSE decidedBy[k]
    BY <1>4 DEF Decide, TypeOK
  <2> QED
    BY <1>2, <1>4, <2>1 DEF DecisionIsChosen
<1>5. ASSUME NEW n \in Learners, NEW m \in votes, HandleFastRoundProposal(n, m)
      PROVE  DecisionIsChosen'
  <2>0. n \in Acceptors
    BY BoundsTyped
  <2>1. CASE FastRoundDecided(votesReceived[n] \cup {m}, m.vval)
    <3>1. m.vval \in FastChosen
      BY <1>5, <2>0, <2>1, FastDecisionChosen
    <3>2. Decide(n, m.vval, "fast")
      BY <1>5, <2>1 DEF HandleFastRoundProposal
    <3> QED
      BY <1>4, <2>0, <3>1, <3>2
  <2>2. CASE ~FastRoundDecided(votesReceived[n] \cup {m}, m.vval)
    BY <1>3, <1>5, <2>2 DEF HandleFastRoundProposal
  <2> QED
    BY <2>1, <2>2
<1>6. ASSUME NEW n \in Learners, NEW m \in phase2b, HandlePhase2b(n, m)
      PROVE  DecisionIsChosen'
  <2> DEFINE bucket == {w.sender :
                w \in {x \in acceptResponses[n] \cup {m} : x.rnd = m.rnd}}
  <2>0. n \in Acceptors
    BY BoundsTyped
  <2>1. CASE Majority(Cardinality(bucket))
    <3>1. m.vval \in ClassicChosen
      BY <2>0, <2>1, ClassicDecisionChosen
    <3>2. Decide(n, m.vval, "classic")
      BY <1>6, <2>1 DEF HandlePhase2b
    <3> QED
      BY <1>4, <2>0, <3>1, <3>2
  <2>2. CASE ~Majority(Cardinality(bucket))
    BY <1>3, <1>6, <2>2 DEF HandlePhase2b
  <2> QED
    BY <2>1, <2>2
<1>7. \/ UNCHANGED <<decision, decidedBy>>
      \/ \E n \in Learners, m \in votes : HandleFastRoundProposal(n, m)
      \/ \E n \in Learners, m \in phase2b : HandlePhase2b(n, m)
  BY DEF Next, Handling, FallbackTimer, OvertakenCommand,
     vars, learnerVars, Propose, StartClassicRound, HandlePhase1a,
         HandlePhase1b, HandlePhase2a
<1> QED
  BY <1>3, <1>5, <1>6, <1>7

\* The first state satisfies the inductive invariant.
LEMMA InitIInv == Init => IInv
<1> SUFFICES ASSUME Init PROVE IInv
  OBVIOUS
<1>1. VotedOnce
  BY DEF Init, VotedOnce
<1>2. Structure
  BY DEF Init, Structure, RanksOfCoordinators, OneValuePerCoordinator,
         AcceptedWasAsked
<1>3. DecisionIsChosen
  BY DEF Init, NewFastPaxos, DecisionIsChosen
<1> QED
  BY <1>1, <1>2, <1>3, InitTypeOK DEF IInv

-----------------------------------------------------------------------------
(* Theorems.                                                               *)

\* The inductive invariant holds in every reachable state of the consensus.
THEOREM Invariance == Spec => []IInv
<1>1. Init => IInv
  BY InitIInv
<1>2. IInv /\ [Next]_vars => IInv'
  BY NextTypeOK, NextVotedOnce, NextStructure, NextDecisionIsChosen DEF IInv
<1> QED
  BY <1>1, <1>2, PTL DEF Spec

\* The state of acceptors, coordinators and learners (paxos.rs, fast_paxos.rs)
\* keeps its types, and a decision is never the empty cut.
THEOREM TypeCorrect == Spec => []TypeOK
<1>1. IInv => TypeOK
  BY DEF IInv
<1> QED
  BY <1>1, Invariance, PTL

\* handle_fast_round_proposal and handle_phase2b deliver only cuts for which a
\* quorum of members really voted, or a majority really accepted.
THEOREM DecisionsChosen == Spec => []DecisionIsChosen
<1>1. IInv => DecisionIsChosen
  BY DEF IInv
<1> QED
  BY <1>1, Invariance, PTL

\* For every number of members, the quorum N - floor((N - 1)/4) and one vote per
\* member leave room for one fast decision only.
THEOREM FastRoundsAgree == Spec => []FastAgreement
<1>1. VotedOnce => FastAgreement
  <2> SUFFICES ASSUME VotedOnce, NEW v \in FastChosen, NEW w \in FastChosen
               PROVE  v = w
    BY DEF FastAgreement
  <2> DEFINE V == VotersFor(v)
             W == VotersFor(w)
  <2>1. V \subseteq Acceptors /\ W \subseteq Acceptors
    BY DEF VotersFor
  <2>2. Cardinality(V) >= FastQuorum /\ Cardinality(W) >= FastQuorum
    BY DEF FastChosen
  <2>3. Cardinality(V) \in Nat /\ Cardinality(W) \in Nat
    BY <2>1, SubsetsOfAcceptors
  <2>4. Cardinality(V) + Cardinality(W) > Cardinality(Acceptors)
    <3> HIDE DEF V, W
    <3> QED
      BY <2>2, <2>3, FastQuorumsOverlap, NType DEF N
  <2>5. V \cap W # {}
    <3> HIDE DEF V, W
    <3> QED
      BY <2>1, <2>4, AcceptorsFinite, FS_MajoritiesIntersect
  <2>6. PICK n \in Acceptors : [sender |-> n, vval |-> v] \in votes
                               /\ [sender |-> n, vval |-> w] \in votes
    BY <2>5 DEF VotersFor
  <2> DEFINE a == [sender |-> n, vval |-> v]
             b == [sender |-> n, vval |-> w]
  <2>7. a = b
    <3>1. a.sender = b.sender
      OBVIOUS
    <3> QED
      BY <2>6, <3>1 DEF VotedOnce
  <2>8. a.vval = v /\ b.vval = w
    OBVIOUS
  <2> QED
    BY <2>7, <2>8
<1>2. IInv => FastAgreement
  BY <1>1 DEF IInv
<1> QED
  BY <1>2, Invariance, PTL

-----------------------------------------------------------------------------
(* What the classic rounds keep.                                           *)

ClassicRanks == {ClassicRank(k) : k \in Acceptors}
Ranks == {ZeroRank, FastRank} \cup ClassicRanks

\* The last acceptance of an acceptor is in vrnd and vval, below its promise; a
\* vote it registered stays there until it accepts in a classic round.
AcceptorRemembers ==
    \A n \in Acceptors :
        /\ rnd[n] \in Ranks /\ vrnd[n] \in Ranks
        /\ Leq(vrnd[n], rnd[n])
        /\ vval[n] = None <=> vrnd[n] = ZeroRank
        /\ vrnd[n] \in ClassicRanks =>
              [sender |-> n, rnd |-> vrnd[n], vval |-> vval[n]] \in phase2b
        /\ \A w \in phase2b : w.sender = n => Leq(w.rnd, vrnd[n])
        /\ vrnd[n] \notin ClassicRanks =>
              \A v \in Values : n \in RegisteredFor(v) =>
                  vrnd[n] = FastRank /\ vval[n] = v

\* A promise tells what its sender had accepted below the promised rank, and its
\* sender accepts nothing more there.
PromiseKept ==
    \A m \in phase1b :
        /\ Leq(m.rnd, rnd[m.sender])
        /\ m.vrnd \in Ranks /\ Less(m.vrnd, m.rnd)
        /\ m.vval = None <=> m.vrnd = ZeroRank
        /\ m.vrnd \in ClassicRanks =>
              [sender |-> m.sender, rnd |-> m.vrnd, vval |-> m.vval] \in phase2b
        /\ \A w \in phase2b : w.sender = m.sender /\ Less(w.rnd, m.rnd) =>
              Leq(w.rnd, m.vrnd)
        /\ m.vrnd \notin ClassicRanks =>
              \A v \in Values : m.sender \in RegisteredFor(v) =>
                  m.vrnd = FastRank /\ m.vval = v

\* An acceptor answers each prepare once, and the log of a coordinator holds each
\* answer once.
PromisedOnce ==
    \A m, w \in phase1b : m.sender = w.sender /\ m.rnd = w.rnd => m = w

LogDistinct ==
    \A n \in Acceptors :
        /\ \A i \in DOMAIN phase1bMessages[n] : phase1bMessages[n][i].to = n
        /\ \A i, k \in DOMAIN phase1bMessages[n] :
              phase1bMessages[n][i] = phase1bMessages[n][k] => i = k

Accepted(a, r, v) == [sender |-> a, rnd |-> r, vval |-> v] \in phase2b

NeverAccepts(a, r) ==
    /\ \A w \in phase2b : ~(w.sender = a /\ w.rnd = r)
    /\ Less(r, rnd[a])

\* At every classic rank below r some majority has accepted v or nothing, and
\* will accept nothing else.
SafeAt(v, r) ==
    \A q \in ClassicRanks : Less(q, r) =>
        \E Q \in SUBSET Acceptors :
            /\ Majority(Cardinality(Q))
            /\ \A a \in Q : Accepted(a, q, v) \/ NeverAccepts(a, q)

\* The members that promised a classic round without a registered vote for v.
Lost(v) == {a \in Acceptors : rnd[a] \in ClassicRanks /\ a \notin RegisteredFor(v)}

\* No cut but v can still get a quorum of registered votes.
FastSafe(v) ==
    \A u \in Values \ {v} : Cardinality(Lost(u)) > N - FastQuorum

AskedSafe == \A m \in phase2a : SafeAt(m.vval, m.rnd) /\ FastSafe(m.vval)

ClassicInv == AcceptorRemembers /\ PromiseKept /\ PromisedOnce /\ LogDistinct /\ AskedSafe

\* The order of ranks is a strict total order.
LEMMA RankOrder ==
    ASSUME NEW p \in Rank, NEW q \in Rank
    PROVE  /\ ~Less(p, p)
           /\ Less(p, q) => ~Less(q, p)
           /\ Less(p, q) \/ p = q \/ Less(q, p)
           /\ \A r \in Rank : Less(p, q) /\ Less(q, r) => Less(p, r)
<1>1. p = q <=> p.round = q.round /\ p.index = q.index
  BY DEF Rank
<1>2. /\ p.round \in Int /\ p.index \in Int /\ q.round \in Int /\ q.index \in Int
      /\ \A r \in Rank : r.round \in Int /\ r.index \in Int
  BY DEF Rank
<1> QED
  BY <1>1, <1>2 DEF Less

\* The classic ranks lie above the rank of the fast round, and that above the rank
\* of an acceptor that knows of no round.
LEMMA RankLevels ==
    /\ Ranks \subseteq Rank /\ ClassicRanks \subseteq Ranks
    /\ ZeroRank \in Ranks /\ FastRank \in Ranks
    /\ Less(ZeroRank, FastRank)
    /\ \A q \in ClassicRanks : Less(FastRank, q) /\ Less(ZeroRank, q)
    /\ \A q \in Ranks : q \in ClassicRanks <=> ~(q.round <= 1)
    /\ \A q \in Ranks : q \in {ZeroRank, FastRank} \/ q \in ClassicRanks
    /\ \A q \in Ranks : Leq(q, FastRank) <=> q \notin ClassicRanks
    /\ ZeroRank \notin ClassicRanks /\ FastRank \notin ClassicRanks
    /\ ZeroRank # FastRank
<1>1. Ranks \subseteq Rank /\ ClassicRanks \subseteq Ranks
  BY RankTypes DEF Ranks, ClassicRanks
<1>2. \A q \in ClassicRanks : q.round = 2
  BY DEF ClassicRanks, ClassicRank, MkRank, ClassicRound
<1>3. /\ ZeroRank.round = 0 /\ ZeroRank.index = 0
      /\ FastRank.round = 1 /\ FastRank.index = 1
  BY DEF ZeroRank, FastRank, MkRank
<1>4. \A q \in Ranks : q \in {ZeroRank, FastRank} \/ q \in ClassicRanks
  BY DEF Ranks
<1>5. ZeroRank \notin ClassicRanks /\ FastRank \notin ClassicRanks /\ ZeroRank # FastRank
  BY <1>2, <1>3
<1>6. /\ Less(ZeroRank, FastRank)
      /\ \A q \in ClassicRanks : Less(FastRank, q) /\ Less(ZeroRank, q)
  BY <1>2, <1>3 DEF Less
<1>7. \A q \in Ranks : q \in ClassicRanks <=> ~(q.round <= 1)
  BY <1>2, <1>3, <1>4, <1>5
<1>8. \A q \in Ranks : Leq(q, FastRank) <=> q \notin ClassicRanks
  <2>1. \A q \in ClassicRanks : ~Less(q, FastRank)
    BY <1>2, <1>3 DEF Less
  <2> QED
    BY <2>1, <1>4, <1>5, <1>6 DEF Leq
<1> QED
  BY <1>1, <1>4, <1>5, <1>6, <1>7, <1>8 DEF Ranks

-----------------------------------------------------------------------------
(* Promises and registered votes only move one way.                        *)

\* An acceptor never lowers its promise.
LEMMA RndGrows ==
    ASSUME TypeOK, AcceptorRemembers, [Next]_vars, NEW a \in Acceptors
    PROVE  rnd'[a] = rnd[a] \/ Less(rnd[a], rnd'[a])
<1> USE DEF acceptorVars
<1>1. ASSUME NEW n \in Acceptors, NEW v \in Candidates[n], Propose(n, v)
      PROVE  rnd'[a] = rnd[a] \/ Less(rnd[a], rnd'[a])
  <2>1. CASE MayRegister(n) /\ rnd' = [rnd EXCEPT ![n] = FastRank]
    <3>1. rnd[n] \in Ranks /\ rnd[n].round <= 1
      BY <2>1 DEF MayRegister, AcceptorRemembers
    <3>2. rnd[n] \in {ZeroRank, FastRank}
      BY <3>1, RankLevels
    <3> QED
      BY <2>1, <3>2, RankLevels DEF TypeOK
  <2> QED
    BY <1>1, <2>1 DEF Propose, RegisterFastRoundVote
<1>2. ASSUME NEW n \in Acceptors, NEW m \in phase1a, HandlePhase1a(n, m)
      PROVE  rnd'[a] = rnd[a] \/ Less(rnd[a], rnd'[a])
  BY <1>2 DEF HandlePhase1a, TypeOK
<1>3. ASSUME NEW n \in Acceptors, NEW m \in phase2a, HandlePhase2a(n, m)
      PROVE  rnd'[a] = rnd[a] \/ Less(rnd[a], rnd'[a])
  BY <1>3 DEF HandlePhase2a, Accepts, Leq, TypeOK
<1>4. CASE UNCHANGED rnd
  BY <1>4
<1> QED
  BY <1>1, <1>2, <1>3, <1>4 DEF Next, Handling, FallbackTimer, OvertakenCommand,
     vars, HandleFastRoundProposal,
     StartClassicRound, HandlePhase1b, HandlePhase2b

\* A vote cast after the promise of a classic round is not registered.
LEMMA RegisteredFrozen ==
    ASSUME AcceptorRemembers, [Next]_vars, NEW a \in Acceptors,
           rnd[a] \in ClassicRanks, NEW v \in Values, a \in RegisteredFor(v)'
    PROVE  a \in RegisteredFor(v)
<1>1. ASSUME NEW n \in Acceptors, NEW u \in Candidates[n], Propose(n, u)
      PROVE  a \in RegisteredFor(v)
  <2>1. late \subseteq late' /\ (n = a => a \in late')
    <3>1. n = a => ~MayRegister(n)
      BY RankLevels DEF MayRegister, AcceptorRemembers
    <3> QED
      BY <1>1, <3>1 DEF Propose, RegisterFastRoundVote
  <2>2. votes' = votes \cup {[sender |-> n, vval |-> u]}
    BY <1>1 DEF Propose
  <2>3. [sender |-> a, vval |-> v] \in votes' /\ a \notin late' /\ a # n
    BY <2>1 DEF RegisteredFor, VotersFor
  <2>4. [sender |-> a, vval |-> v] # [sender |-> n, vval |-> u]
    <3>1. [sender |-> a, vval |-> v].sender = a /\ [sender |-> n, vval |-> u].sender = n
      OBVIOUS
    <3> QED
      BY <2>3, <3>1
  <2> QED
    BY <2>1, <2>2, <2>3, <2>4 DEF RegisteredFor, VotersFor
<1>2. CASE UNCHANGED <<votes, late>>
  BY <1>2 DEF RegisteredFor, VotersFor
<1> QED
  BY <1>1, <1>2 DEF Next, Handling, FallbackTimer, OvertakenCommand,
     vars, messageVars, HandleFastRoundProposal,
     StartClassicRound, HandlePhase1a, HandlePhase1b, HandlePhase2a, HandlePhase2b

-----------------------------------------------------------------------------
(* Acceptors remember.                                                     *)

\* The classic ranks are the only ones a prepare, an ask or an acceptance carries.
LEMMA MessageRanks ==
    ASSUME TypeOK, Structure
    PROVE  /\ \A m \in phase1a : m.rank \in ClassicRanks
           /\ \A m \in phase1b : m.rnd \in ClassicRanks
           /\ \A m \in phase2a : m.rnd \in ClassicRanks
           /\ \A m \in phase2b : m.rnd \in ClassicRanks
<1>1. \A m \in phase1a : m.rank \in ClassicRanks
  BY DEF TypeOK, Phase1aMsg, Structure, RanksOfCoordinators, ClassicRanks
<1>2. \A m \in phase1b : m.rnd \in ClassicRanks
  BY DEF TypeOK, Phase1bMsg, Structure, RanksOfCoordinators, ClassicRanks
<1>3. \A m \in phase2a : m.rnd \in ClassicRanks
  BY DEF TypeOK, Phase2aMsg, Structure, OneValuePerCoordinator, ClassicRanks
<1> QED
  BY <1>1, <1>2, <1>3 DEF Structure, AcceptedWasAsked

\* vrnd and vval follow what the acceptor accepted and registered.
LEMMA NextAcceptorRemembers ==
    ASSUME TypeOK, VotedOnce, Structure, AcceptorRemembers, [Next]_vars, VotedOnce'
    PROVE  AcceptorRemembers'
<1> USE DEF acceptorVars
<1>1. ASSUME NEW n \in Acceptors, NEW v \in Candidates[n], Propose(n, v)
      PROVE  AcceptorRemembers'
  <2> SUFFICES ASSUME NEW a \in Acceptors PROVE AcceptorRemembers!(a)'
    BY Zenon DEF AcceptorRemembers
  <2>0. phase2b' = phase2b
    BY <1>1 DEF Propose
  <2>1. AcceptorRemembers!(a)
    BY Zenon DEF AcceptorRemembers
  <2>2. CASE a = n /\ MayRegister(n)
    <3>1. rnd'[a] = FastRank /\ vrnd'[a] = FastRank /\ vval'[a] = v
      BY <1>1, <2>2 DEF Propose, RegisterFastRoundVote, TypeOK
    <3>2. v # None
      BY BoundsTyped, NoneOutside
    <3>3. \A w \in phase2b : w.sender # a
      <4> SUFFICES ASSUME NEW w \in phase2b, w.sender = a PROVE FALSE
        OBVIOUS
      <4>1. w.rnd \in ClassicRanks /\ Leq(w.rnd, vrnd[a])
        BY <2>1, MessageRanks
      <4>2. rnd[a] \notin ClassicRanks /\ rnd[a] \in Rank
        BY <2>1, <2>2, RankLevels DEF MayRegister
      <4>3. Leq(rnd[a], FastRank) /\ Leq(vrnd[a], rnd[a]) /\ vrnd[a] \in Rank
        BY <2>1, <4>2, RankLevels
      <4> QED
        BY <4>1, <4>2, <4>3, RankOrder, RankLevels DEF Leq
    <3>4. \A u \in Values : a \in RegisteredFor(u)' => u = v
      <4> SUFFICES ASSUME NEW u \in Values, [sender |-> a, vval |-> u] \in votes'
                   PROVE  u = v
        BY DEF RegisteredFor, VotersFor
      <4>1. [sender |-> a, vval |-> v] \in votes'
        BY <1>1, <2>2 DEF Propose
      <4>2. [sender |-> a, vval |-> v].sender = [sender |-> a, vval |-> u].sender
        OBVIOUS
      <4>3. [sender |-> a, vval |-> v] = [sender |-> a, vval |-> u]
        BY <4>1, <4>2 DEF VotedOnce
      <4> QED
        BY <4>3
    <3> QED
      BY <2>0, <3>1, <3>2, <3>3, <3>4, RankLevels DEF Leq
  <2>3. CASE a # n \/ ~MayRegister(n)
    <3>1. rnd'[a] = rnd[a] /\ vrnd'[a] = vrnd[a] /\ vval'[a] = vval[a]
      BY <1>1, <2>3 DEF Propose, RegisterFastRoundVote, TypeOK
    <3>2. \A u \in Values : a \in RegisteredFor(u)' => a \in RegisteredFor(u)
      <4> SUFFICES ASSUME NEW u \in Values, a \in RegisteredFor(u)'
                   PROVE  a \in RegisteredFor(u)
        OBVIOUS
      <4>1. CASE rnd[a] \in ClassicRanks
        BY <4>1, RegisteredFrozen
      <4>2. CASE a # n
        <5>1. votes' = votes \cup {[sender |-> n, vval |-> v]} /\ late \subseteq late'
          BY <1>1 DEF Propose, RegisterFastRoundVote
        <5>2. [sender |-> a, vval |-> u] # [sender |-> n, vval |-> v]
          <6>1. [sender |-> a, vval |-> u].sender = a
                /\ [sender |-> n, vval |-> v].sender = n
            OBVIOUS
          <6> QED
            BY <4>2, <6>1
        <5> QED
          BY <5>1, <5>2 DEF RegisteredFor, VotersFor
      <4>3. rnd[a] \in ClassicRanks \/ a # n
        BY <2>1, <2>3, RankLevels DEF MayRegister
      <4> QED
        BY <4>1, <4>2, <4>3
    <3> QED
      BY <2>0, <2>1, <3>1, <3>2
  <2> QED
    BY <2>2, <2>3
<1>2. ASSUME NEW n \in Acceptors, NEW m \in phase1a, HandlePhase1a(n, m)
      PROVE  AcceptorRemembers'
  <2> SUFFICES ASSUME NEW a \in Acceptors PROVE AcceptorRemembers!(a)'
    BY Zenon DEF AcceptorRemembers
  <2>1. AcceptorRemembers!(a)
    BY Zenon DEF AcceptorRemembers
  <2>2. UNCHANGED <<vrnd, vval, phase2b, votes, late>>
    BY <1>2 DEF HandlePhase1a
  <2>3. \A u \in Values : RegisteredFor(u)' = RegisteredFor(u)
    BY <2>2 DEF RegisteredFor, VotersFor
  <2>4. rnd'[a] \in Ranks /\ Leq(vrnd[a], rnd'[a])
    <3>1. CASE a = n
      <4>1. rnd'[a] = m.rank /\ m.rank \in ClassicRanks /\ Less(rnd[a], m.rank)
        BY <1>2, <3>1, MessageRanks DEF HandlePhase1a, TypeOK
      <4>2. rnd[a] \in Rank /\ vrnd[a] \in Rank /\ m.rank \in Ranks /\ m.rank \in Rank
        BY <2>1, <4>1, RankLevels
      <4> QED
        BY <2>1, <4>1, <4>2, RankOrder DEF Leq
    <3>2. CASE a # n
      BY <1>2, <2>1, <3>2 DEF HandlePhase1a, TypeOK
    <3> QED
      BY <3>1, <3>2
  <2> QED
    BY <2>1, <2>2, <2>3, <2>4
<1>3. ASSUME NEW n \in Acceptors, NEW m \in phase2a, HandlePhase2a(n, m)
      PROVE  AcceptorRemembers'
  <2> SUFFICES ASSUME NEW a \in Acceptors PROVE AcceptorRemembers!(a)'
    BY Zenon DEF AcceptorRemembers
  <2> DEFINE new == [sender |-> n, rnd |-> m.rnd, vval |-> m.vval]
  <2>1. AcceptorRemembers!(a)
    BY Zenon DEF AcceptorRemembers
  <2>2. UNCHANGED <<votes, late>> /\ phase2b' = phase2b \cup {new}
    BY <1>3 DEF HandlePhase2a
  <2>3. \A u \in Values : RegisteredFor(u)' = RegisteredFor(u)
    BY <2>2 DEF RegisteredFor, VotersFor
  <2>4. CASE a = n
    <3>1. rnd'[a] = m.rnd /\ vrnd'[a] = m.rnd /\ vval'[a] = m.vval
      BY <1>3, <2>4 DEF HandlePhase2a, TypeOK
    <3>2. m.rnd \in ClassicRanks /\ m.rnd \in Ranks /\ m.rnd # ZeroRank
      BY MessageRanks, RankLevels
    <3>3. m.vval # None
      BY NoneOutside DEF TypeOK, Phase2aMsg
    <3>4. \A w \in phase2b' : w.sender = a => Leq(w.rnd, m.rnd)
      <4> SUFFICES ASSUME NEW w \in phase2b, w.sender = a PROVE Leq(w.rnd, m.rnd)
        BY <2>2 DEF Leq
      <4>1. Leq(w.rnd, vrnd[a]) /\ Leq(vrnd[a], rnd[a]) /\ Leq(rnd[a], m.rnd)
        BY <1>3, <2>1, <2>4 DEF HandlePhase2a, Accepts
      <4>2. w.rnd \in Rank /\ vrnd[a] \in Rank /\ rnd[a] \in Rank /\ m.rnd \in Rank
        BY <2>1, <3>2, MessageRanks, RankLevels
      <4> QED
        BY <4>1, <4>2, RankOrder DEF Leq
    <3>5. [sender |-> a, rnd |-> m.rnd, vval |-> m.vval] \in phase2b'
      BY <2>2, <2>4
    <3> QED
      BY <3>1, <3>2, <3>3, <3>4, <3>5 DEF Leq
  <2>5. CASE a # n
    <3>1. rnd'[a] = rnd[a] /\ vrnd'[a] = vrnd[a] /\ vval'[a] = vval[a]
      BY <1>3, <2>5 DEF HandlePhase2a, TypeOK
    <3>2. new.sender # a
      BY <2>5
    <3> HIDE DEF new
    <3> QED
      BY <2>1, <2>2, <2>3, <3>1, <3>2
  <2> QED
    BY <2>4, <2>5
<1>4. CASE UNCHANGED <<rnd, vrnd, vval, phase2b, votes, late>>
  BY <1>4 DEF AcceptorRemembers, RegisteredFor, VotersFor
<1> QED
  BY <1>1, <1>2, <1>3, <1>4 DEF Next, Handling, FallbackTimer, OvertakenCommand,
     vars, messageVars, HandleFastRoundProposal,
     StartClassicRound, HandlePhase1b, HandlePhase2b

-----------------------------------------------------------------------------
(* Promises are kept.                                                      *)

\* The sender of a promise stays at or above the promised rank, which is classic.
LEMMA PromisedClassic ==
    ASSUME TypeOK, Structure, AcceptorRemembers, PromiseKept, NEW m \in phase1b
    PROVE  rnd[m.sender] \in ClassicRanks
<1>1. m.sender \in Acceptors /\ m.rnd \in ClassicRanks
  BY MessageRanks DEF TypeOK, Phase1bMsg
<1>2. rnd[m.sender] \in Ranks /\ Leq(m.rnd, rnd[m.sender])
  BY <1>1 DEF AcceptorRemembers, PromiseKept
<1>3. m.rnd \in Rank /\ rnd[m.sender] \in Rank /\ m.rnd \in Ranks
  BY <1>1, <1>2, RankLevels
<1> QED
  BY <1>1, <1>2, <1>3, RankOrder, RankLevels DEF Leq

\* A promise goes on describing what its sender accepts below the promised rank.
LEMMA NextPromiseKept ==
    ASSUME TypeOK, Structure, AcceptorRemembers, PromiseKept, [Next]_vars
    PROVE  PromiseKept'
<1> USE DEF acceptorVars
<1>1. ASSUME NEW m \in phase1b, m.sender \in Acceptors
      PROVE  PromiseKept!(m)'
  <2>1. PromiseKept!(m)
    BY Zenon DEF PromiseKept
  <2>2. m.rnd \in Rank /\ rnd[m.sender] \in Rank /\ m.rnd \in ClassicRanks
        /\ rnd[m.sender] \in ClassicRanks
    BY <1>1, PromisedClassic, MessageRanks, RankLevels
  <2>3. rnd'[m.sender] = rnd[m.sender] \/ Less(rnd[m.sender], rnd'[m.sender])
    BY <1>1, RndGrows
  <2>4. rnd'[m.sender] \in Rank
    BY <1>1, NextTypeOK DEF TypeOK
  <2>5. Leq(m.rnd, rnd'[m.sender])
    BY <2>1, <2>2, <2>3, <2>4, RankOrder DEF Leq
  <2>6. phase2b \subseteq phase2b'
    BY DEF Next, Handling, FallbackTimer, OvertakenCommand,
       vars, messageVars, Propose, HandleFastRoundProposal,
           StartClassicRound, HandlePhase1a, HandlePhase1b, HandlePhase2a,
           HandlePhase2b
  <2>7. ASSUME NEW w \in phase2b', w.sender = m.sender, Less(w.rnd, m.rnd)
        PROVE  Leq(w.rnd, m.vrnd)
    <3>1. CASE w \in phase2b
      BY <2>1, <2>7, <3>1
    <3>2. ASSUME NEW n \in Acceptors, NEW x \in phase2a, HandlePhase2a(n, x),
                 w \notin phase2b
          PROVE  FALSE
      <4>1. w = [sender |-> n, rnd |-> x.rnd, vval |-> x.vval]
        BY <2>7, <3>2 DEF HandlePhase2a
      <4>2. n = m.sender /\ w.rnd = x.rnd
        BY <2>7, <4>1
      <4>3. Leq(rnd[n], w.rnd) /\ w.rnd \in Rank
        BY <3>2, <4>2, MessageRanks, RankLevels DEF HandlePhase2a, Accepts
      <4> QED
        BY <2>1, <2>2, <2>7, <4>2, <4>3, RankOrder DEF Leq
    <3>3. (\E n \in Acceptors, x \in phase2a : HandlePhase2a(n, x)) \/ phase2b' = phase2b
      BY DEF Next, Handling, FallbackTimer, OvertakenCommand,
         vars, messageVars, Propose, HandleFastRoundProposal,
             StartClassicRound, HandlePhase1a, HandlePhase1b, HandlePhase2b
    <3> QED
      BY <2>7, <3>1, <3>2, <3>3
  <2>8. \A v \in Values : m.sender \in RegisteredFor(v)' => m.sender \in RegisteredFor(v)
    BY <1>1, <2>2, RegisteredFrozen
  <2> QED
    BY <2>1, <2>5, <2>6, <2>7, <2>8
<1>2. ASSUME NEW n \in Acceptors, NEW x \in phase1a, HandlePhase1a(n, x),
             NEW m \in phase1b', m \notin phase1b
      PROVE  PromiseKept!(m)'
  <2>1. m = [sender |-> n, to |-> x.sender, rnd |-> x.rank,
             vrnd |-> vrnd[n], vval |-> vval[n]]
    BY <1>2 DEF HandlePhase1a
  <2>2. m.sender = n /\ m.rnd = x.rank /\ m.vrnd = vrnd[n] /\ m.vval = vval[n]
    BY <2>1
  <2>3. AcceptorRemembers!(n)
    BY <1>2, Zenon DEF AcceptorRemembers
  <2>4. rnd'[n] = x.rank /\ Less(rnd[n], x.rank) /\ UNCHANGED <<phase2b, votes, late>>
    BY <1>2 DEF HandlePhase1a, TypeOK
  <2>5. vrnd[n] \in Rank /\ rnd[n] \in Rank /\ x.rank \in Rank
    BY <2>3, MessageRanks, RankLevels
  <2>6. Less(vrnd[n], x.rank)
    BY <2>3, <2>4, <2>5, RankOrder DEF Leq
  <2>7. \A u \in Values : RegisteredFor(u)' = RegisteredFor(u)
    BY <2>4 DEF RegisteredFor, VotersFor
  <2>8. Leq(x.rank, rnd'[n])
    BY <2>4 DEF Leq
  <2> HIDE DEF PromiseKept
  <2> QED
    BY <2>2, <2>3, <2>4, <2>6, <2>7, <2>8
<1>3. phase1b' = phase1b \/ \E n \in Acceptors, x \in phase1a : HandlePhase1a(n, x)
  BY DEF Next, Handling, FallbackTimer, OvertakenCommand,
     vars, messageVars, Propose, HandleFastRoundProposal,
         StartClassicRound, HandlePhase1b, HandlePhase2a, HandlePhase2b
<1>4. \A m \in phase1b : m.sender \in Acceptors
  BY DEF TypeOK, Phase1bMsg
<1>5. ASSUME NEW m \in phase1b' PROVE PromiseKept!(m)'
  BY <1>1, <1>2, <1>3, <1>4
<1> QED
  BY <1>5, Zenon DEF PromiseKept

\* A second answer to one prepare would need a higher rank.
LEMMA NextPromisedOnce ==
    ASSUME TypeOK, Structure, AcceptorRemembers, PromiseKept, PromisedOnce, [Next]_vars
    PROVE  PromisedOnce'
<1>1. ASSUME NEW n \in Acceptors, NEW x \in phase1a, HandlePhase1a(n, x)
      PROVE  PromisedOnce'
  <2> DEFINE new == [sender |-> n, to |-> x.sender, rnd |-> x.rank,
                     vrnd |-> vrnd[n], vval |-> vval[n]]
  <2>1. phase1b' = phase1b \cup {new} /\ Less(rnd[n], x.rank)
    BY <1>1 DEF HandlePhase1a
  <2>2. new.sender = n /\ new.rnd = x.rank
    OBVIOUS
  <2>3. ASSUME NEW m \in phase1b, m.sender = n, m.rnd = x.rank PROVE FALSE
    <3>1. Leq(x.rank, rnd[n])
      BY <2>3 DEF PromiseKept
    <3>2. x.rank \in Rank /\ rnd[n] \in Rank
      BY MessageRanks, RankLevels DEF TypeOK
    <3> QED
      BY <2>1, <3>1, <3>2, RankOrder DEF Leq
  <2> HIDE DEF new
  <2> QED
    BY <2>1, <2>2, <2>3 DEF PromisedOnce
<1>2. CASE phase1b' = phase1b
  BY <1>2 DEF PromisedOnce
<1> QED
  BY <1>1, <1>2 DEF Next, Handling, FallbackTimer, OvertakenCommand,
     vars, messageVars, Propose, HandleFastRoundProposal,
     StartClassicRound, HandlePhase1b, HandlePhase2a, HandlePhase2b

\* A promise is appended to the log of the coordinator it is addressed to, unless
\* it is already there.
LEMMA AppendDistinct ==
    ASSUME TypeOK, LogDistinct, NEW n \in Acceptors, NEW m \in phase1b, m.to = n,
           \A i \in DOMAIN phase1bMessages[n] : phase1bMessages[n][i] # m,
           NEW log, log = Append(phase1bMessages[n], m)
    PROVE  /\ log \in Seq(phase1b)
           /\ \A i \in DOMAIN log : log[i] \in phase1b /\ log[i].to = n
           /\ \A i, k \in DOMAIN log : log[i] = log[k] => i = k
<1> DEFINE old == phase1bMessages[n]
<1>1. old \in Seq(phase1b)
  BY DEF TypeOK
<1>2. /\ \A i \in DOMAIN old : old[i].to = n
      /\ \A i, k \in DOMAIN old : old[i] = old[k] => i = k
  BY DEF LogDistinct
<1>3. /\ log \in Seq(phase1b)
      /\ Len(log) = Len(old) + 1
      /\ \A i \in 1 .. Len(old) : log[i] = old[i]
      /\ log[Len(old) + 1] = m
  BY <1>1, AppendProperties
<1>4. /\ DOMAIN old = 1 .. Len(old) /\ Len(old) \in Nat
      /\ DOMAIN log = 1 .. (Len(old) + 1)
  BY <1>1, <1>3, LenProperties
<1>5. \A i \in DOMAIN log : i \in DOMAIN old \/ i = Len(old) + 1
  BY <1>4
<1>6. \A i \in DOMAIN old : log[i] = old[i] /\ old[i] # m /\ old[i] \in phase1b
  BY <1>1, <1>3, <1>4, ElementOfSeq
<1> HIDE DEF old
<1> QED
  BY <1>2, <1>3, <1>5, <1>6

\* No step makes a member log one message twice.
LEMMA NextLogDistinct ==
    ASSUME TypeOK, LogDistinct, [Next]_vars
    PROVE  LogDistinct'
<1> USE DEF coordinatorVars
<1>1. ASSUME NEW n \in Acceptors, NEW m \in phase1b, HandlePhase1b(n, m)
      PROVE  LogDistinct'
  <2> DEFINE log == Append(phase1bMessages[n], m)
  <2>1. n \in Acceptors
    BY BoundsTyped
  <2>2. /\ \A i \in DOMAIN log : log[i] \in phase1b /\ log[i].to = n
        /\ \A i, k \in DOMAIN log : log[i] = log[k] => i = k
    BY <1>1, <2>1, AppendDistinct DEF HandlePhase1b
  <2>3. phase1bMessages' = [phase1bMessages EXCEPT ![n] = log]
    BY <1>1 DEF HandlePhase1b
  <2> HIDE DEF log
  <2>4. \A a \in Acceptors :
            phase1bMessages'[a] = IF a = n THEN log ELSE phase1bMessages[a]
    BY <2>3 DEF TypeOK
  <2> QED
    BY <2>2, <2>4 DEF LogDistinct
<1>2. CASE UNCHANGED phase1bMessages
  BY <1>2 DEF LogDistinct
<1> QED
  BY <1>1, <1>2 DEF Next, Handling, FallbackTimer, OvertakenCommand,
     vars, Propose, HandleFastRoundProposal,
     StartClassicRound, HandlePhase1a, HandlePhase2a, HandlePhase2b

-----------------------------------------------------------------------------
(* What a coordinator selects.                                             *)

\* A finite set of ranks has a highest one.
LEMMA HighestRank ==
    ASSUME NEW S, S \subseteq Rank, IsFiniteSet(S), S # {}
    PROVE  \E r \in S : \A q \in S : Leq(q, r)
<1> DEFINE Above(r) == {q \in S : Less(r, q)}
           F == {Cardinality(Above(r)) : r \in S}
<1>1. \A r \in S : IsFiniteSet(Above(r)) /\ Cardinality(Above(r)) \in Nat
  <2> SUFFICES ASSUME NEW r \in S
               PROVE  IsFiniteSet(Above(r)) /\ Cardinality(Above(r)) \in Nat
    OBVIOUS
  <2>1. Above(r) \in SUBSET S
    OBVIOUS
  <2> HIDE DEF Above
  <2>2. IsFiniteSet(Above(r))
    BY <2>1, FS_Subset
  <2> QED
    BY <2>2, FS_CardinalityType
<1>2. F \subseteq Nat /\ F # {}
  BY <1>1
<1>3. PICK r \in S : \A q \in S : Cardinality(Above(r)) <= Cardinality(Above(q))
  <2>1. First(F) \in F /\ \A k \in F : First(F) <= k
    <3> HIDE DEF F
    <3> QED
      BY <1>2, FirstIn
  <2> QED
    BY <2>1
<1>4. ASSUME NEW q \in S, ~Leq(q, r) PROVE FALSE
  <2>1. Less(r, q)
    BY <1>4, RankOrder DEF Leq
  <2>2. Above(q) \subseteq Above(r)
    BY <2>1, RankOrder
  <2>3. q \in Above(r) /\ q \notin Above(q)
    BY <2>1, RankOrder
  <2>4. Cardinality(Above(r)) <= Cardinality(Above(q))
        /\ Cardinality(Above(r)) \in Nat /\ Cardinality(Above(q)) \in Nat
        /\ IsFiniteSet(Above(r))
    BY <1>1, <1>3
  <2> HIDE DEF Above
  <2>5. Cardinality(Above(q)) <= Cardinality(Above(r))
        /\ (Cardinality(Above(r)) = Cardinality(Above(q)) => Above(r) = Above(q))
    BY <2>2, <2>4, FS_Subset
  <2> QED
    BY <2>3, <2>4, <2>5
<1> QED
  BY <1>4

\* A log of promises, as the coordinator n holds it.
LogOf(n, log) ==
    /\ log \in Seq(phase1b)
    /\ \A i \in DOMAIN log : log[i] \in phase1b /\ log[i].to = n
    /\ \A i, k \in DOMAIN log : log[i] = log[k] => i = k

SendersIn(log, S) == {log[i].sender : i \in S}

\* The promises of a log come from different members: this is what allows the
\* coordinator to count messages for a majority.
LEMMA SendersOf ==
    ASSUME TypeOK, Structure, PromisedOnce, NEW n \in Acceptors, NEW log, LogOf(n, log),
           NEW S, S \subseteq DOMAIN log
    PROVE  /\ IsFiniteSet(S)
           /\ SendersIn(log, S) \subseteq Acceptors
           /\ Cardinality(SendersIn(log, S)) = Cardinality(S)
           /\ Cardinality(S) \in Nat
<1> DEFINE T == SendersIn(log, S)
           f == [i \in S |-> log[i].sender]
<1>1. DOMAIN log = 1 .. Len(log) /\ Len(log) \in Nat
  BY LenProperties DEF LogOf
<1>2. IsFiniteSet(DOMAIN log)
  BY <1>1, FS_Interval
<1>3. IsFiniteSet(S)
  BY <1>2, FS_Subset
<1>4. Cardinality(S) \in Nat
  BY <1>3, FS_CardinalityType
<1>5. T \subseteq Acceptors
  BY DEF LogOf, TypeOK, Phase1bMsg, SendersIn
<1>6. \A i, k \in S : log[i].sender = log[k].sender => i = k
  <2>1. \A i \in S : log[i].rnd = ClassicRank(n) /\ log[i] \in phase1b
    BY DEF LogOf, Structure, RanksOfCoordinators
  <2> QED
    BY <2>1 DEF LogOf, PromisedOnce
<1>7. f \in Surjection(S, T) /\ f \in Injection(S, T)
  BY <1>6 DEF Surjection, Injection, IsInjective, SendersIn
<1>8. Cardinality(T) = Cardinality(S)
  <2> HIDE DEF f, T
  <2> QED
    BY <1>3, <1>7, FS_Surjection
<1> QED
  BY <1>3, <1>4, <1>5, <1>8

\* The highest vrnd of a nonempty log is that of one of its promises.
LEMMA MaxVrndIs ==
    ASSUME TypeOK, NEW n, NEW log, LogOf(n, log), DOMAIN log # {}
    PROVE  /\ \E i \in DOMAIN log : log[i].vrnd = MaxVrnd(log)
           /\ \A i \in DOMAIN log : Leq(log[i].vrnd, MaxVrnd(log))
<1> DEFINE S == {log[i].vrnd : i \in DOMAIN log}
           f == [i \in DOMAIN log |-> log[i].vrnd]
<1>1. S \subseteq Rank /\ S # {}
  BY DEF LogOf, TypeOK, Phase1bMsg
<1>2. IsFiniteSet(S)
  <2>1. DOMAIN log = 1 .. Len(log) /\ Len(log) \in Nat
    BY LenProperties DEF LogOf
  <2>2. IsFiniteSet(DOMAIN log)
    BY <2>1, FS_Interval
  <2>3. f \in Surjection(DOMAIN log, S)
    BY DEF Surjection
  <2> HIDE DEF f, S
  <2> QED
    BY <2>2, <2>3, FS_Surjection
<1>3. \E r \in S : \A q \in S : Leq(q, r)
  <2> HIDE DEF S
  <2> QED
    BY <1>1, <1>2, HighestRank
<1>4. MaxVrnd(log) \in S /\ \A q \in S : Leq(q, MaxVrnd(log))
  BY <1>3 DEF MaxVrnd
<1> QED
  BY <1>4

\* When some promise of the log reports a classic rank, the coordinator takes the
\* value accepted at the highest one.
LEMMA SelectClassic ==
    ASSUME TypeOK, Structure, PromiseKept, NEW n, NEW log, LogOf(n, log),
           DOMAIN log # {}, MaxVrnd(log) \in ClassicRanks
    PROVE  \E i \in DOMAIN log : log[i].vrnd = MaxVrnd(log)
                                 /\ SelectProposal(log) = log[i].vval
<1> DEFINE C == Collected(log)
<1>1. \A i \in DOMAIN log : log[i].vrnd = MaxVrnd(log) => log[i].vval # None
  BY RankLevels DEF LogOf, PromiseKept
<1>2. C = {i \in DOMAIN log : log[i].vrnd = MaxVrnd(log)}
  BY <1>1 DEF Collected
<1>3. C # {} /\ C \subseteq Nat
  <2>1. DOMAIN log = 1 .. Len(log) /\ Len(log) \in Nat
    BY LenProperties DEF LogOf
  <2> QED
    BY <1>2, <2>1, MaxVrndIs
<1>4. First(C) \in C
  BY <1>3, FirstIn
<1>5. \A i \in C : log[i].vval = log[First(C)].vval
  <2> SUFFICES ASSUME NEW i \in C PROVE log[i].vval = log[First(C)].vval
    OBVIOUS
  <2> DEFINE a(k) == [sender |-> log[k].sender, rnd |-> MaxVrnd(log),
                      vval |-> log[k].vval]
  <2>1. \A k \in C : a(k) \in phase2b
    BY <1>2 DEF LogOf, PromiseKept
  <2>2. a(i) \in phase2b /\ a(First(C)) \in phase2b
    BY <1>4, <2>1
  <2>3. a(i).rnd = a(First(C)).rnd
    OBVIOUS
  <2>4. a(i).vval = log[i].vval /\ a(First(C)).vval = log[First(C)].vval
    OBVIOUS
  <2> HIDE DEF a
  <2> QED
    BY <2>2, <2>3, <2>4, OneValuePerRank
<1>6. {log[i].vval : i \in C} = {log[First(C)].vval}
  BY <1>4, <1>5
<1>7. Cardinality({log[i].vval : i \in C}) = 1
  BY <1>6, FS_Singleton
<1>8. SelectProposal(log) = log[First(C)].vval
  BY <1>7 DEF SelectProposal
<1> QED
  BY <1>2, <1>4, <1>8

\* The n/4 rule.  When no promise of the log reports a classic rank, the
\* coordinator passes over v only if more members than a fast quorum can spare
\* have promised without a vote for v.
LEMMA SelectFast ==
    ASSUME TypeOK, Structure, PromiseKept, NEW n, NEW log, LogOf(n, log),
           Majority(Len(log)), MaxVrnd(log) \notin ClassicRanks,
           NEW v \in Values, SelectProposal(log) # v
    PROVE  Cardinality({i \in DOMAIN log : log[i].vval # v}) > N - FastQuorum
<1> DEFINE A == {i \in DOMAIN log : log[i].vval = v}
           B == {i \in DOMAIN log : log[i].vval # v}
           C == Collected(log)
<1>1. DOMAIN log = 1 .. Len(log) /\ Len(log) \in Nat
  BY LenProperties DEF LogOf
<1>2. IsFiniteSet(DOMAIN log) /\ Cardinality(DOMAIN log) = Len(log)
  <2>1. 1 \in Int /\ Len(log) \in Int /\ (1 > Len(log) => Len(log) = 0)
    BY <1>1
  <2>2. /\ IsFiniteSet(1 .. Len(log))
        /\ Cardinality(1 .. Len(log)) = IF 1 > Len(log) THEN 0 ELSE Len(log) - 1 + 1
    BY <2>1, FS_Interval
  <2>3. (IF 1 > Len(log) THEN 0 ELSE Len(log) - 1 + 1) = Len(log)
    BY <1>1, <2>1
  <2> QED
    BY <1>1, <2>2, <2>3
<1>3. /\ IsFiniteSet(A) /\ Cardinality(A) \in Nat
      /\ IsFiniteSet(B) /\ Cardinality(B) \in Nat
      /\ Cardinality(A) = Len(log) - Cardinality(B)
  <2>1. A = DOMAIN log \ B /\ B \subseteq DOMAIN log
    OBVIOUS
  <2>2. DOMAIN log \cap B = B
    OBVIOUS
  <2> HIDE DEF A, B
  <2>3. IsFiniteSet(A) /\ Cardinality(A) = Cardinality(DOMAIN log) - Cardinality(B)
    <3>1. IsFiniteSet(DOMAIN log \ B)
          /\ Cardinality(DOMAIN log \ B)
                = Cardinality(DOMAIN log) - Cardinality(DOMAIN log \cap B)
      BY <1>2, FS_Difference
    <3> QED
      BY <2>1, <2>2, <3>1, Zenon
  <2>4. IsFiniteSet(B)
    BY <1>2, <2>1, FS_Subset
  <2> QED
    BY <1>2, <2>3, <2>4, FS_CardinalityType
<1> SUFFICES ASSUME Cardinality(B) <= N - FastQuorum PROVE FALSE
  <2> HIDE DEF B
  <2> QED
    BY <1>3, NType, FastQuorumsOverlap DEF B
<1>4. Cardinality(A) > N \div 4 /\ Cardinality(B) <= N \div 4 /\ N \div 4 \in Nat
  <2> HIDE DEF A, B
  <2> QED
    BY <1>1, <1>3, NType DEF Majority, FastQuorum
<1>5. A # {} /\ DOMAIN log # {}
  <2>1. A # {}
    <3> HIDE DEF A
    <3> QED
      BY <1>3, <1>4, FS_EmptySet
  <2> QED
    BY <2>1
<1>6. A \subseteq C
  <2>1. \A i \in A : log[i] \in phase1b /\ log[i].vval # None
    BY NoneOutside DEF LogOf
  <2>2. \A i \in DOMAIN log : log[i] \in phase1b /\ log[i].vrnd \in Ranks
    BY DEF LogOf, PromiseKept
  <2>3. /\ MaxVrnd(log) \in Ranks
        /\ \A i \in DOMAIN log : Leq(log[i].vrnd, MaxVrnd(log))
    BY <1>5, <2>2, MaxVrndIs
  <2>4. MaxVrnd(log) \in {ZeroRank, FastRank}
    BY <2>3, RankLevels
  <2>5. \A i \in A : /\ log[i].vrnd \in Rank /\ log[i].vrnd \in Ranks
                     /\ log[i].vrnd # ZeroRank
    BY <2>1, <2>2, RankLevels DEF PromiseKept
  <2>6. MaxVrnd(log) \in Rank /\ ZeroRank \in Rank /\ FastRank \in Rank
    BY <2>3, RankLevels
  <2>7. \A i \in A : log[i].vrnd = MaxVrnd(log)
    <3> SUFFICES ASSUME NEW i \in A PROVE log[i].vrnd = MaxVrnd(log)
      OBVIOUS
    <3>1. /\ Leq(log[i].vrnd, MaxVrnd(log))
          /\ log[i].vrnd # ZeroRank /\ log[i].vrnd \in Ranks
      BY <2>3, <2>5
    <3>2. CASE log[i].vrnd = FastRank
      BY <3>1, <3>2, <2>4, <2>6, RankOrder, RankLevels DEF Leq
    <3>3. CASE log[i].vrnd \in ClassicRanks
      BY <3>1, <3>3, <2>4, <2>5, <2>6, RankOrder, RankLevels DEF Leq
    <3> QED
      BY <3>1, <3>2, <3>3, RankLevels
  <2> QED
    BY <2>1, <2>7 DEF Collected
<1>7. C \subseteq DOMAIN log
  BY DEF Collected
<1>8. CASE Cardinality({log[i].vval : i \in C}) = 1
  <2>1. PICK i \in A : TRUE
    BY <1>5
  <2>2. IsFiniteSet({log[k].vval : k \in C})
    <3> DEFINE V == {log[k].vval : k \in C}
               f == [k \in C |-> log[k].vval]
    <3>1. f \in Surjection(C, V)
      BY DEF Surjection
    <3>2. IsFiniteSet(C)
      BY <1>2, <1>7, FS_Subset
    <3> HIDE DEF f, V
    <3>3. IsFiniteSet(V)
      BY <3>1, <3>2, FS_Surjection
    <3> QED
      BY <3>3 DEF V
  <2>3. PICK x : {log[k].vval : k \in C} = {x}
    BY <1>8, <2>2, FS_Singleton
  <2>4. v = x
    BY <1>6, <2>3, <2>1
  <2>5. First(C) \in C
    <3>1. C # {} /\ C \subseteq Nat
      BY <1>1, <1>6, <1>7, <2>1
    <3> HIDE DEF C
    <3> QED
      BY <3>1, FirstIn
  <2>6. log[First(C)].vval = v
    BY <2>3, <2>4, <2>5
  <2> QED
    BY <1>8, <2>6 DEF SelectProposal
<1>9. CASE Cardinality({log[i].vval : i \in C}) # 1
  <2>1. \A i \in Repeated(log) : log[i].vval = v
    <3> SUFFICES ASSUME NEW i \in Repeated(log), log[i].vval # v PROVE FALSE
      OBVIOUS
    <3> DEFINE K == {k \in C : k <= i /\ log[k].vval = log[i].vval}
    <3>1. Cardinality(K) > N \div 4
      BY DEF Repeated
    <3>2. K \subseteq B
      BY <1>7
    <3> HIDE DEF K, B
    <3>3. Cardinality(K) <= Cardinality(B) /\ Cardinality(K) \in Nat
      BY <1>3, <3>2, FS_Subset, FS_CardinalityType
    <3> QED
      BY <1>3, <1>4, <3>1, <3>3
  <2>2. PICK l \in A : \A k \in A : k <= l
    <3> DEFINE Backwards == {Len(log) - k : k \in A}
    <3>1. Backwards \subseteq Nat /\ Backwards # {}
      BY <1>1, <1>5
    <3>2. First(Backwards) \in Backwards /\ \A d \in Backwards : First(Backwards) <= d
      <4> HIDE DEF Backwards
      <4> QED
        BY <3>1, FirstIn
    <3>3. PICK l \in A : First(Backwards) = Len(log) - l
      BY <3>2
    <3>4. \A k \in A : Len(log) - l <= Len(log) - k
      BY <3>2, <3>3
    <3>5. \A k \in A : k \in Nat
      BY <1>1
    <3>6. \A k \in A : k <= l
      BY <1>1, <3>4, <3>5
    <3> QED
      BY <3>6
  <2>3. {k \in C : k <= l /\ log[k].vval = log[l].vval} = A
    BY <1>6, <1>7, <2>2
  <2>4. l \in Repeated(log)
    <3>1. Cardinality({k \in C : k <= l /\ log[k].vval = log[l].vval}) > N \div 4
      BY <1>4, <2>3, Zenon
    <3> QED
      BY <1>6, <3>1 DEF Repeated
  <2>5. First(Repeated(log)) \in Repeated(log)
    <3>1. Repeated(log) \subseteq Nat
      BY <1>1, <1>7 DEF Repeated
    <3> QED
      BY <2>4, <3>1, FirstIn
  <2>6. SelectProposal(log) = log[First(Repeated(log))].vval
    BY <1>9, <2>4 DEF SelectProposal
  <2> QED
    BY <2>1, <2>5, <2>6
<1> QED
  BY <1>8, <1>9

-----------------------------------------------------------------------------
(* What a coordinator asks for is safe, and stays safe.                    *)

\* A member that has not accepted at a rank below its promise never will.
LEMMA NeverAcceptsStable ==
    ASSUME TypeOK, Structure, AcceptorRemembers, [Next]_vars, NEW a \in Acceptors,
           NEW q \in ClassicRanks, NeverAccepts(a, q)
    PROVE  NeverAccepts(a, q)'
<1>1. q \in Rank /\ rnd[a] \in Rank /\ rnd'[a] \in Rank
  BY RankLevels, NextTypeOK DEF TypeOK
<1>2. Less(q, rnd'[a])
  <2>1. rnd'[a] = rnd[a] \/ Less(rnd[a], rnd'[a])
    BY RndGrows
  <2> QED
    BY <1>1, <2>1, RankOrder DEF NeverAccepts
<1>3. ASSUME NEW n \in Acceptors, NEW m \in phase2a, HandlePhase2a(n, m),
             NEW w \in phase2b', w.sender = a, w.rnd = q
      PROVE  FALSE
  <2>1. w \notin phase2b
    BY <1>3 DEF NeverAccepts
  <2>2. w = [sender |-> n, rnd |-> m.rnd, vval |-> m.vval]
    BY <1>3, <2>1 DEF HandlePhase2a
  <2>3. n = a /\ m.rnd = q
    BY <1>3, <2>2
  <2>4. Leq(rnd[a], q)
    BY <1>3, <2>3 DEF HandlePhase2a, Accepts
  <2> QED
    BY <1>1, <2>4, RankOrder DEF NeverAccepts, Leq
<1>4. (\E n \in Acceptors, m \in phase2a : HandlePhase2a(n, m)) \/ phase2b' = phase2b
  BY DEF Next, Handling, FallbackTimer, OvertakenCommand,
     vars, messageVars, Propose, HandleFastRoundProposal,
         StartClassicRound, HandlePhase1a, HandlePhase1b, HandlePhase2b
<1> QED
  BY <1>2, <1>3, <1>4 DEF NeverAccepts

\* A value that is safe at a rank stays safe: promises and votes are not taken back.
LEMMA SafeAtStable ==
    ASSUME TypeOK, Structure, AcceptorRemembers, [Next]_vars, NEW v, NEW r, SafeAt(v, r)
    PROVE  SafeAt(v, r)'
<1> SUFFICES ASSUME NEW q \in ClassicRanks, Less(q, r)
             PROVE  \E Q \in SUBSET Acceptors :
                        /\ Majority(Cardinality(Q))
                        /\ \A a \in Q : Accepted(a, q, v)' \/ NeverAccepts(a, q)'
  BY DEF SafeAt
<1>1. PICK Q \in SUBSET Acceptors :
          /\ Majority(Cardinality(Q))
          /\ \A a \in Q : Accepted(a, q, v) \/ NeverAccepts(a, q)
  BY DEF SafeAt
<1>2. phase2b \subseteq phase2b'
  BY DEF Next, Handling, FallbackTimer, OvertakenCommand,
     vars, messageVars, Propose, HandleFastRoundProposal,
         StartClassicRound, HandlePhase1a, HandlePhase1b, HandlePhase2a,
         HandlePhase2b
<1>3. \A a \in Q : Accepted(a, q, v)' \/ NeverAccepts(a, q)'
  <2> SUFFICES ASSUME NEW a \in Q PROVE Accepted(a, q, v)' \/ NeverAccepts(a, q)'
    OBVIOUS
  <2>1. CASE Accepted(a, q, v)
    BY <1>2, <2>1 DEF Accepted
  <2>2. CASE NeverAccepts(a, q)
    BY <2>2, NeverAcceptsStable
  <2> QED
    BY <1>1, <2>1, <2>2
<1> QED
  BY <1>1, <1>3

\* The members lost for a cut stay lost.
LEMMA FastSafeStable ==
    ASSUME TypeOK, AcceptorRemembers, AcceptorRemembers', [Next]_vars,
           NEW v, FastSafe(v)
    PROVE  FastSafe(v)'
<1> SUFFICES ASSUME NEW u \in Values \ {v}
             PROVE  Cardinality(Lost(u)') > N - FastQuorum
  BY DEF FastSafe
<1>1. Lost(u) \subseteq Lost(u)'
  <2> SUFFICES ASSUME NEW a \in Acceptors, rnd[a] \in ClassicRanks,
                      a \notin RegisteredFor(u)
               PROVE  rnd'[a] \in ClassicRanks /\ a \notin RegisteredFor(u)'
    BY DEF Lost
  <2>1. rnd'[a] \in Ranks /\ (rnd'[a] = rnd[a] \/ Less(rnd[a], rnd'[a]))
    BY RndGrows DEF AcceptorRemembers
  <2>2. rnd'[a] \in ClassicRanks
    BY <2>1, RankLevels, RankOrder
  <2> QED
    BY <2>2, RegisteredFrozen
<1>2. Lost(u)' \subseteq Acceptors
  BY DEF Lost
<1>3. /\ Cardinality(Lost(u)) <= Cardinality(Lost(u)')
      /\ Cardinality(Lost(u)) \in Nat /\ Cardinality(Lost(u)') \in Nat
  BY <1>1, <1>2, SubsetsOfAcceptors
<1>4. Cardinality(Lost(u)) > N - FastQuorum
  BY DEF FastSafe
<1> QED
  BY <1>3, <1>4, NType, FastQuorumsOverlap

\* The value that select_proposal_from_messages returns for a majority of promises
\* is safe at the rank of the coordinator.
LEMMA SelectedSafe ==
    ASSUME TypeOK, Structure, AcceptorRemembers, PromiseKept, PromisedOnce, AskedSafe,
           NEW n \in Acceptors, NEW log, LogOf(n, log), Majority(Len(log))
    PROVE  /\ SafeAt(SelectProposal(log), ClassicRank(n))
           /\ FastSafe(SelectProposal(log))
<1> DEFINE u == SelectProposal(log)
           M == MaxVrnd(log)
           r == ClassicRank(n)
           Q == SendersIn(log, DOMAIN log)
<1>1. DOMAIN log = 1 .. Len(log) /\ Len(log) \in Nat
  BY LenProperties DEF LogOf
<1>2. DOMAIN log # {}
  BY <1>1, NType DEF Majority
<1>3. Q \subseteq Acceptors /\ Majority(Cardinality(Q))
  <2>1. Q \subseteq Acceptors /\ Cardinality(Q) = Cardinality(DOMAIN log)
    BY SendersOf
  <2>2. Cardinality(1 .. Len(log)) = Len(log)
    <3>1. 1 \in Int /\ Len(log) \in Int
      BY <1>1
    <3>2. Cardinality(1 .. Len(log)) = IF 1 > Len(log) THEN 0 ELSE Len(log) - 1 + 1
      BY <3>1, FS_Interval
    <3>3. (IF 1 > Len(log) THEN 0 ELSE Len(log) - 1 + 1) = Len(log)
      BY <1>1
    <3> QED
      BY <3>2, <3>3
  <2>3. Cardinality(Q) = Len(log)
    BY <1>1, <2>1, <2>2, Zenon
  <2> QED
    BY <2>1, <2>3
<1>4. \A i \in DOMAIN log : /\ log[i] \in phase1b
                            /\ log[i].rnd = r
                            /\ log[i].sender \in Acceptors
                            /\ log[i].vrnd \in Ranks
                            /\ log[i].vrnd \in Rank
                            /\ Leq(log[i].vrnd, M)
                            /\ rnd[log[i].sender] \in Rank
                            /\ Leq(r, rnd[log[i].sender])
  <2> SUFFICES ASSUME NEW i \in DOMAIN log
               PROVE  /\ log[i] \in phase1b
                      /\ log[i].rnd = r
                      /\ log[i].sender \in Acceptors
                      /\ log[i].vrnd \in Ranks
                      /\ log[i].vrnd \in Rank
                      /\ Leq(log[i].vrnd, M)
                      /\ rnd[log[i].sender] \in Rank
                      /\ Leq(r, rnd[log[i].sender])
    OBVIOUS
  <2>1. log[i] \in phase1b /\ log[i].to = n
    BY DEF LogOf
  <2>2. log[i].rnd = r
    BY <2>1 DEF Structure, RanksOfCoordinators
  <2>3. log[i].sender \in Acceptors
    BY <2>1 DEF TypeOK, Phase1bMsg
  <2>4. log[i].vrnd \in Ranks /\ Leq(log[i].rnd, rnd[log[i].sender])
    BY <2>1 DEF PromiseKept
  <2>5. Leq(log[i].vrnd, M)
    BY <1>2, MaxVrndIs
  <2> QED
    BY <2>1, <2>2, <2>3, <2>4, <2>5, RankLevels DEF TypeOK
<1>5. r \in Rank /\ M \in Ranks /\ M \in Rank
  <2>1. M \in Ranks
    BY <1>2, <1>4, MaxVrndIs
  <2> QED
    BY <2>1, RankTypes, RankLevels
<1>6. ASSUME NEW q \in ClassicRanks, Less(q, r), ~Leq(q, M), NEW a \in Q
      PROVE  NeverAccepts(a, q)
  <2>1. PICK i \in DOMAIN log : a = log[i].sender
    BY DEF SendersIn
  <2>2. q \in Rank
    BY RankLevels
  <2>3. Less(q, rnd[a])
    BY <1>4, <1>5, <1>6, <2>1, <2>2, RankOrder DEF Leq
  <2>4. ASSUME NEW w \in phase2b, w.sender = a, w.rnd = q PROVE FALSE
    <3>1. Leq(q, log[i].vrnd)
      BY <1>4, <1>6, <2>1, <2>4 DEF PromiseKept
    <3> QED
      BY <1>4, <1>5, <1>6, <2>2, <3>1, RankOrder DEF Leq
  <2> QED
    BY <2>3, <2>4 DEF NeverAccepts
<1>7. CASE M \in ClassicRanks
  <2>1. PICK i \in DOMAIN log : log[i].vrnd = M /\ u = log[i].vval
    BY <1>2, <1>7, SelectClassic
  <2> DEFINE top == [sender |-> log[i].sender, rnd |-> M, vval |-> u]
  <2>2. top \in phase2b
    BY <1>4, <1>7, <2>1 DEF PromiseKept
  <2>3. top.rnd = M /\ top.vval = u
    OBVIOUS
  <2>4. PICK m \in phase2a : m.rnd = M /\ m.vval = u
    BY <2>2, <2>3 DEF Structure, AcceptedWasAsked
  <2>5. SafeAt(u, M) /\ FastSafe(u)
    BY <2>4 DEF AskedSafe
  <2>6. ASSUME NEW q \in ClassicRanks, Less(q, r)
        PROVE  \E R \in SUBSET Acceptors :
                   /\ Majority(Cardinality(R))
                   /\ \A a \in R : Accepted(a, q, u) \/ NeverAccepts(a, q)
    <3>1. CASE Less(q, M)
      BY <2>5, <3>1 DEF SafeAt
    <3>2. CASE ~Leq(q, M)
      BY <1>3, <1>6, <2>6, <3>2
    <3>3. CASE q = M
      <4>1. ASSUME NEW a \in Q, ~NeverAccepts(a, q) PROVE Accepted(a, q, u)
        <5>1. PICK k \in DOMAIN log : a = log[k].sender
          BY DEF SendersIn
        <5>2. q \in Rank
          BY RankLevels
        <5>3. Less(q, rnd[a])
          BY <1>4, <1>5, <2>6, <5>1, <5>2, RankOrder DEF Leq
        <5>4. PICK w \in phase2b : w.sender = a /\ w.rnd = q
          BY <4>1, <5>3 DEF NeverAccepts
        <5>5. w.vval = u
          BY <2>2, <2>3, <3>3, <5>4, OneValuePerRank
        <5>6. w = [sender |-> a, rnd |-> q, vval |-> u]
          BY <5>4, <5>5 DEF TypeOK, Phase2bMsg
        <5> QED
          BY <5>4, <5>6 DEF Accepted
      <4> QED
        BY <1>3, <4>1
    <3> QED
      BY <3>1, <3>2, <3>3 DEF Leq
  <2> QED
    BY <2>5, <2>6 DEF SafeAt
<1>8. CASE M \notin ClassicRanks
  <2>1. \A q \in ClassicRanks : ~Leq(q, M)
    <3>1. Leq(M, FastRank)
      BY <1>5, <1>8, RankLevels
    <3>2. \A q \in ClassicRanks : q \in Rank /\ Less(FastRank, q) /\ FastRank \in Rank
      BY RankLevels
    <3> QED
      BY <1>5, <3>1, <3>2, RankOrder DEF Leq
  <2>2. SafeAt(u, r)
    BY <1>3, <1>6, <2>1 DEF SafeAt
  <2>3. ASSUME NEW v \in Values \ {u} PROVE Cardinality(Lost(v)) > N - FastQuorum
    <3> DEFINE B == {i \in DOMAIN log : log[i].vval # v}
               T == SendersIn(log, B)
    <3>1. Cardinality(B) > N - FastQuorum
      BY <1>8, <2>3, SelectFast
    <3>2. Cardinality(T) = Cardinality(B) /\ Cardinality(B) \in Nat
      BY SendersOf
    <3>3. T \subseteq Lost(v)
      <4> SUFFICES ASSUME NEW i \in DOMAIN log, log[i].vval # v
                   PROVE  log[i].sender \in Lost(v)
        BY DEF SendersIn
      <4>1. rnd[log[i].sender] \in ClassicRanks
        BY <1>4, PromisedClassic
      <4>2. log[i].vrnd \notin ClassicRanks
        BY <1>4, <2>1
      <4>3. log[i].sender \notin RegisteredFor(v)
        BY <1>4, <2>3, <4>2 DEF PromiseKept
      <4> QED
        BY <1>4, <4>1, <4>3 DEF Lost
    <3>4. Lost(v) \subseteq Acceptors
      BY DEF Lost
    <3> HIDE DEF B, T
    <3>5. Cardinality(T) <= Cardinality(Lost(v)) /\ Cardinality(Lost(v)) \in Nat
      BY <3>3, <3>4, SubsetsOfAcceptors
    <3> QED
      BY <3>1, <3>2, <3>5, NType, FastQuorumsOverlap
  <2> QED
    BY <2>2, <2>3 DEF FastSafe
<1> QED
  BY <1>7, <1>8

\* Every ask in flight stays safe, and a new one is safe.
LEMMA NextAskedSafe ==
    ASSUME TypeOK, Structure, ClassicInv, AcceptorRemembers', [Next]_vars
    PROVE  AskedSafe'
<1> USE DEF ClassicInv
<1>1. ASSUME NEW m \in phase2a PROVE SafeAt(m.vval, m.rnd)' /\ FastSafe(m.vval)'
  BY SafeAtStable, FastSafeStable DEF AskedSafe
<1>2. ASSUME NEW n \in Acceptors, NEW x \in phase1b, HandlePhase1b(n, x),
             NEW m \in phase2a', m \notin phase2a
      PROVE  SafeAt(m.vval, m.rnd)' /\ FastSafe(m.vval)'
  <2> DEFINE log == Append(phase1bMessages[n], x)
  <2>1. n \in Acceptors
    BY BoundsTyped
  <2>2. LogOf(n, log)
    BY <1>2, <2>1, AppendDistinct DEF HandlePhase1b, LogOf
  <2>3. Majority(Len(log)) /\ m = Phase2aFrom(n, SelectProposal(log))
    BY <1>2 DEF HandlePhase1b, StartsPhase2
  <2>4. crnd[n] = ClassicRank(n)
    BY <1>2 DEF HandlePhase1b, Structure, RanksOfCoordinators
  <2> HIDE DEF log
  <2>5. m.vval = SelectProposal(log) /\ m.rnd = ClassicRank(n)
    BY <2>3, <2>4 DEF Phase2aFrom
  <2>6. SafeAt(m.vval, m.rnd) /\ FastSafe(m.vval)
    BY <2>1, <2>2, <2>3, <2>5, SelectedSafe
  <2> QED
    BY <2>6, SafeAtStable, FastSafeStable
<1>3. phase2a' = phase2a \/ \E n \in Acceptors, x \in phase1b : HandlePhase1b(n, x)
  BY DEF Next, Handling, FallbackTimer, OvertakenCommand,
     vars, messageVars, Propose, HandleFastRoundProposal,
         StartClassicRound, HandlePhase1a, HandlePhase2a, HandlePhase2b
<1>4. ASSUME NEW m \in phase2a' PROVE SafeAt(m.vval, m.rnd)' /\ FastSafe(m.vval)'
  BY <1>1, <1>2, <1>3
<1> QED
  BY <1>4 DEF AskedSafe

\* The first state satisfies the invariant of the classic rounds.
LEMMA InitClassicInv == Init => ClassicInv
<1> SUFFICES ASSUME Init PROVE ClassicInv
  OBVIOUS
<1> USE DEF Init, NewPaxos
<1>1. AcceptorRemembers
  BY RankLevels DEF AcceptorRemembers, RegisteredFor, VotersFor, Leq
<1>2. PromiseKept /\ PromisedOnce /\ AskedSafe
  BY DEF PromiseKept, PromisedOnce, AskedSafe
<1>3. LogDistinct
  BY DEF LogDistinct
<1> QED
  BY <1>1, <1>2, <1>3 DEF ClassicInv

\* The ranks and promises of the classic rounds (handle_phase1a, handle_phase1b and
\* handle_phase2a of paxos.rs) keep every value asked for safe: no other value was
\* or will be chosen at a lower rank, nor by votes registered in the fast round.
THEOREM ClassicInvariance == Spec => []ClassicInv
<1>1. Init => ClassicInv
  BY InitClassicInv
<1>2. IInv /\ IInv' /\ ClassicInv /\ [Next]_vars => ClassicInv'
  <2> SUFFICES ASSUME IInv, IInv', ClassicInv, [Next]_vars PROVE ClassicInv'
    OBVIOUS
  <2>1. TypeOK /\ VotedOnce /\ Structure /\ VotedOnce'
    BY DEF IInv
  <2>2. AcceptorRemembers'
    BY <2>1, NextAcceptorRemembers DEF ClassicInv
  <2>3. PromiseKept' /\ PromisedOnce' /\ LogDistinct'
    BY <2>1, NextPromiseKept, NextPromisedOnce, NextLogDistinct DEF ClassicInv
  <2>4. AskedSafe'
    BY <2>1, <2>2, NextAskedSafe
  <2> QED
    BY <2>2, <2>3, <2>4 DEF ClassicInv
<1> QED
  BY <1>1, <1>2, Invariance, PTL DEF Spec

\* Two majorities of acceptors, at whichever ranks, have accepted the same cut.
LEMMA ChosenAgree ==
    ASSUME TypeOK, Structure, ClassicInv,
           NEW v \in Values, NEW w \in Values, NEW q, NEW r,
           NEW m \in phase2b, m.rnd = q, NEW x \in phase2b, x.rnd = r,
           Majority(Cardinality(AcceptorsOf(q, v))),
           Majority(Cardinality(AcceptorsOf(r, w))),
           Less(q, r)
    PROVE  v = w
<1>1. q \in ClassicRanks
  BY MessageRanks
<1>2. AcceptorsOf(q, v) \subseteq Acceptors /\ AcceptorsOf(r, w) \subseteq Acceptors
  BY DEF AcceptorsOf
<1>3. PICK b \in AcceptorsOf(r, w) : TRUE
  <2>1. AcceptorsOf(r, w) # {}
    <3> SUFFICES ASSUME AcceptorsOf(r, w) = {} PROVE FALSE
      OBVIOUS
    <3>1. Cardinality(AcceptorsOf(r, w)) = 0
      BY FS_EmptySet
    <3> QED
      BY <3>1, NType DEF Majority
  <2> QED
    BY <2>1
<1> DEFINE y == [sender |-> b, rnd |-> r, vval |-> w]
<1>4. y \in phase2b /\ y.rnd = r /\ y.vval = w
  BY <1>3 DEF AcceptorsOf
<1>5. PICK a \in phase2a : a.rnd = r /\ a.vval = w
  BY <1>4 DEF Structure, AcceptedWasAsked
<1>6. SafeAt(w, r)
  BY <1>5 DEF ClassicInv, AskedSafe
<1>7. PICK Q \in SUBSET Acceptors :
          /\ Majority(Cardinality(Q))
          /\ \A c \in Q : Accepted(c, q, w) \/ NeverAccepts(c, q)
  BY <1>1, <1>6 DEF SafeAt
<1>8. PICK c \in Q : c \in AcceptorsOf(q, v)
  <2>1. /\ Cardinality(Q) \in Nat /\ Cardinality(AcceptorsOf(q, v)) \in Nat
    BY <1>2, SubsetsOfAcceptors
  <2>2. Cardinality(Q) + Cardinality(AcceptorsOf(q, v)) > Cardinality(Acceptors)
    BY <1>7, <2>1, NType DEF Majority, N
  <2>3. Q \cap AcceptorsOf(q, v) # {}
    BY <1>2, <2>2, AcceptorsFinite, FS_MajoritiesIntersect
  <2> QED
    BY <2>3
<1> DEFINE p == [sender |-> c, rnd |-> q, vval |-> v]
           s == [sender |-> c, rnd |-> q, vval |-> w]
<1>9. p \in phase2b /\ p.sender = c /\ p.rnd = q /\ p.vval = v
  BY <1>8 DEF AcceptorsOf
<1>10. s \in phase2b
  BY <1>7, <1>8, <1>9 DEF Accepted, NeverAccepts
<1>11. s.rnd = q /\ s.vval = w
  OBVIOUS
<1> QED
  BY <1>9, <1>10, <1>11, OneValuePerRank

\* Whatever the coordinators, and however their classic rounds interleave, two
\* members never decide different cuts in classic rounds (handle_phase2b).
THEOREM ClassicRoundsAgree == Spec => []ClassicAgreement
<1>1. IInv /\ ClassicInv => ClassicAgreement
  <2> SUFFICES ASSUME IInv, ClassicInv, NEW v \in ClassicChosen, NEW w \in ClassicChosen
               PROVE  v = w
    BY DEF ClassicAgreement
  <2>1. TypeOK /\ Structure /\ v \in Values /\ w \in Values
    BY DEF IInv, ClassicChosen
  <2>2. PICK m \in phase2b : Majority(Cardinality(AcceptorsOf(m.rnd, v)))
    BY DEF ClassicChosen
  <2>3. PICK x \in phase2b : Majority(Cardinality(AcceptorsOf(x.rnd, w)))
    BY DEF ClassicChosen
  <2>4. m.rnd \in Rank /\ x.rnd \in Rank
    BY <2>1, MessageRanks, RankLevels
  <2>5. CASE Less(m.rnd, x.rnd)
    BY <2>1, <2>2, <2>3, <2>5, ChosenAgree
  <2>6. CASE Less(x.rnd, m.rnd)
    BY <2>1, <2>2, <2>3, <2>6, ChosenAgree
  <2>7. CASE m.rnd = x.rnd
    <3>1. /\ AcceptorsOf(m.rnd, v) \subseteq Acceptors
          /\ AcceptorsOf(m.rnd, w) \subseteq Acceptors
      BY DEF AcceptorsOf
    <3>2. /\ Cardinality(AcceptorsOf(m.rnd, v)) \in Nat
          /\ Cardinality(AcceptorsOf(m.rnd, w)) \in Nat
      BY <3>1, SubsetsOfAcceptors
    <3>3. Cardinality(AcceptorsOf(m.rnd, v)) + Cardinality(AcceptorsOf(m.rnd, w))
            > Cardinality(Acceptors)
      BY <2>2, <2>3, <2>7, <3>2, NType DEF Majority, N
    <3>4. AcceptorsOf(m.rnd, v) \cap AcceptorsOf(m.rnd, w) # {}
      BY <3>1, <3>3, AcceptorsFinite, FS_MajoritiesIntersect
    <3>5. PICK c \in Acceptors : /\ c \in AcceptorsOf(m.rnd, v)
                                /\ c \in AcceptorsOf(m.rnd, w)
      BY <3>1, <3>4
    <3> DEFINE p == [sender |-> c, rnd |-> m.rnd, vval |-> v]
               s == [sender |-> c, rnd |-> m.rnd, vval |-> w]
    <3>6. p \in phase2b /\ s \in phase2b
      BY <3>5 DEF AcceptorsOf
    <3>7. p.rnd = s.rnd /\ p.vval = v /\ s.vval = w
      OBVIOUS
    <3> QED
      BY <2>1, <3>6, <3>7, OneValuePerRank
  <2> QED
    BY <2>4, <2>5, <2>6, <2>7, RankOrder
<1> QED
  BY <1>1, Invariance, ClassicInvariance, PTL

\* For every number of members the n/4 rule of select_proposal_from_messages does
\* its work: a cut with a fast quorum of registered votes is the only one that any
\* coordinator has asked for, or will.
THEOREM FastChoiceKept == Spec => []ClassicKeepsFastChoice
<1>1. ClassicInv => ClassicKeepsFastChoice
  <2> SUFFICES ASSUME ClassicInv, NEW v \in Values,
                      Cardinality(RegisteredFor(v)) >= FastQuorum,
                      NEW m \in phase2a, m.vval # v
               PROVE  FALSE
    BY DEF ClassicKeepsFastChoice
  <2>1. Cardinality(Lost(v)) > N - FastQuorum
    BY DEF ClassicInv, AskedSafe, FastSafe
  <2>2. Lost(v) \subseteq Acceptors /\ RegisteredFor(v) \subseteq Acceptors
    BY DEF Lost, RegisteredFor, VotersFor
  <2>3. Cardinality(Lost(v)) \in Nat /\ Cardinality(RegisteredFor(v)) \in Nat
    BY <2>2, SubsetsOfAcceptors
  <2>4. Cardinality(Lost(v)) + Cardinality(RegisteredFor(v)) > Cardinality(Acceptors)
    BY <2>1, <2>3, NType, FastQuorumsOverlap DEF N
  <2>5. Lost(v) \cap RegisteredFor(v) # {}
    BY <2>2, <2>4, AcceptorsFinite, FS_MajoritiesIntersect
  <2> QED
    BY <2>5 DEF Lost
<1> QED
  BY <1>1, ClassicInvariance, PTL

\* A majority has members, and they accepted what was asked for.
LEMMA ClassicChosenAsked ==
    ASSUME Structure, NEW v \in ClassicChosen
    PROVE  \E m \in phase2a : m.vval = v
<1>1. PICK m \in phase2b : Majority(Cardinality(AcceptorsOf(m.rnd, v)))
  BY DEF ClassicChosen
<1>2. AcceptorsOf(m.rnd, v) # {}
  <2> SUFFICES ASSUME AcceptorsOf(m.rnd, v) = {} PROVE FALSE
    OBVIOUS
  <2>1. Cardinality(AcceptorsOf(m.rnd, v)) = 0
    BY FS_EmptySet
  <2> QED
    BY <1>1, <2>1, NType DEF Majority
<1>3. PICK b : [sender |-> b, rnd |-> m.rnd, vval |-> v] \in phase2b
  BY <1>2 DEF AcceptorsOf
<1> DEFINE z == [sender |-> b, rnd |-> m.rnd, vval |-> v]
<1>4. z \in phase2b /\ z.vval = v
  BY <1>3
<1> QED
  BY <1>4 DEF Structure, AcceptedWasAsked

\* Without votes cast after a promise, all decisions of the configuration agree,
\* whether fast or classic.  Such votes are the one gap in agreement: with five
\* members they can make a second cut decidable (the run fast_paxos_agreement).
THEOREM AgreementUnlessLate == Spec => []AgreementWithoutLateVotes
<1>1. IInv /\ FastAgreement /\ ClassicAgreement /\ ClassicKeepsFastChoice
        => AgreementWithoutLateVotes
  <2> SUFFICES ASSUME IInv, FastAgreement, ClassicAgreement, ClassicKeepsFastChoice,
                      late = {},
                      NEW v \in FastChosen \cup ClassicChosen,
                      NEW w \in FastChosen \cup ClassicChosen
               PROVE  v = w
    BY DEF AgreementWithoutLateVotes
  <2>1. ASSUME NEW x \in FastChosen, NEW y \in ClassicChosen PROVE x = y
    <3>1. RegisteredFor(x) = VotersFor(x)
      BY DEF RegisteredFor
    <3>2. Cardinality(RegisteredFor(x)) >= FastQuorum /\ x \in Values
      BY <3>1 DEF FastChosen
    <3>3. \A m \in phase2a : m.vval = x
      BY <3>2 DEF ClassicKeepsFastChoice
    <3> QED
      BY <3>3, ClassicChosenAsked DEF IInv
  <2> QED
    BY <2>1 DEF FastAgreement, ClassicAgreement
<1> QED
  BY <1>1, Invariance, FastRoundsAgree, ClassicRoundsAgree, FastChoiceKept, PTL

-----------------------------------------------------------------------------
(* Only what was proposed is decided, and consensus implements Decision.   *)

VotedFor(v) == \E m \in votes : m.vval = v

\* Every value an acceptor holds, a promise reports or a coordinator asks for was
\* proposed by a member.
ValuesVoted ==
    /\ \A n \in Acceptors : vval[n] # None => VotedFor(vval[n])
    /\ \A m \in phase1b : m.vval # None => VotedFor(m.vval)
    /\ \A m \in phase2a : VotedFor(m.vval)

\* The coordinator rule returns the value of one of the promises, or none.
LEMMA SelectedFromLog ==
    ASSUME NEW n, NEW log, LogOf(n, log), SelectProposal(log) # None
    PROVE  \E i \in DOMAIN log : SelectProposal(log) = log[i].vval
<1>1. DOMAIN log \subseteq Nat
  <2>1. DOMAIN log = 1 .. Len(log) /\ Len(log) \in Nat
    BY LenProperties DEF LogOf
  <2> QED
    BY <2>1
<1>2. Collected(log) \subseteq DOMAIN log /\ Repeated(log) \subseteq DOMAIN log
      /\ NonEmpty(log) \subseteq DOMAIN log
  BY DEF Collected, Repeated, NonEmpty
<1>3. CASE Cardinality({log[i].vval : i \in Collected(log)}) = 1
  <2>1. Collected(log) # {}
    <3> SUFFICES ASSUME Collected(log) = {} PROVE FALSE
      OBVIOUS
    <3>1. {log[i].vval : i \in Collected(log)} = {}
      OBVIOUS
    <3>2. Cardinality({log[i].vval : i \in Collected(log)}) = 0
      BY <3>1, FS_EmptySet, Zenon
    <3> QED
      BY <1>3, <3>2
  <2>2. First(Collected(log)) \in DOMAIN log
    BY <1>1, <1>2, <2>1, FirstIn
  <2> QED
    BY <1>3, <2>2 DEF SelectProposal
<1>4. CASE Cardinality({log[i].vval : i \in Collected(log)}) # 1
  <2>1. Repeated(log) # {} => First(Repeated(log)) \in DOMAIN log
    BY <1>1, <1>2, FirstIn
  <2>2. NonEmpty(log) # {} => First(NonEmpty(log)) \in DOMAIN log
    BY <1>1, <1>2, FirstIn
  <2> QED
    BY <1>4, <2>1, <2>2 DEF SelectProposal
<1> QED
  BY <1>3, <1>4

\* Values travel from votes to acceptors, promises and asks.
LEMMA NextValuesVoted ==
    ASSUME TypeOK, LogDistinct, ValuesVoted, [Next]_vars
    PROVE  ValuesVoted'
<1> USE DEF acceptorVars
<1>0. votes \subseteq votes'
  BY DEF Next, Handling, FallbackTimer, OvertakenCommand,
     vars, messageVars, Propose, HandleFastRoundProposal,
         StartClassicRound, HandlePhase1a, HandlePhase1b, HandlePhase2a,
         HandlePhase2b
<1>1. \A v : VotedFor(v) => VotedFor(v)'
  BY <1>0 DEF VotedFor
<1>2. ASSUME NEW n \in Acceptors, NEW v \in Candidates[n], Propose(n, v)
      PROVE  ValuesVoted'
  <2>1. [sender |-> n, vval |-> v] \in votes' /\ UNCHANGED <<phase1b, phase2a>>
    BY <1>2 DEF Propose
  <2>2. VotedFor(v)'
    <3>1. [sender |-> n, vval |-> v].vval = v
      OBVIOUS
    <3> QED
      BY <2>1, <3>1 DEF VotedFor
  <2>3. \A a \in Acceptors : vval'[a] = vval[a] \/ vval'[a] = v
    BY <1>2 DEF Propose, RegisterFastRoundVote, TypeOK
  <2> QED
    BY <1>1, <2>1, <2>2, <2>3 DEF ValuesVoted
<1>3. ASSUME NEW n \in Acceptors, NEW m \in phase1a, HandlePhase1a(n, m)
      PROVE  ValuesVoted'
  <2> DEFINE new == [sender |-> n, to |-> m.sender, rnd |-> m.rank,
                     vrnd |-> vrnd[n], vval |-> vval[n]]
  <2>1. phase1b' = phase1b \cup {new} /\ UNCHANGED <<vval, phase2a>>
    BY <1>3 DEF HandlePhase1a
  <2>2. new.vval = vval[n]
    OBVIOUS
  <2> HIDE DEF new
  <2> QED
    BY <1>1, <2>1, <2>2 DEF ValuesVoted
<1>4. ASSUME NEW n \in Acceptors, NEW m \in phase1b, HandlePhase1b(n, m)
      PROVE  ValuesVoted'
  <2> DEFINE log == Append(phase1bMessages[n], m)
  <2>1. LogOf(n, log)
    BY <1>4, BoundsTyped, AppendDistinct DEF HandlePhase1b, LogOf
  <2>2. \/ /\ SelectProposal(log) # None
           /\ phase2a' = phase2a \cup {Phase2aFrom(n, SelectProposal(log))}
        \/ UNCHANGED phase2a
    BY <1>4 DEF HandlePhase1b, StartsPhase2
  <2>3. UNCHANGED <<vval, phase1b>>
    BY <1>4 DEF HandlePhase1b
  <2> HIDE DEF log
  <2>4. SelectProposal(log) # None => VotedFor(SelectProposal(log))
    BY <2>1, SelectedFromLog DEF LogOf, ValuesVoted
  <2>5. Phase2aFrom(n, SelectProposal(log)).vval = SelectProposal(log)
    BY DEF Phase2aFrom
  <2> QED
    BY <1>1, <2>2, <2>3, <2>4, <2>5 DEF ValuesVoted
<1>5. ASSUME NEW n \in Acceptors, NEW m \in phase2a, HandlePhase2a(n, m)
      PROVE  ValuesVoted'
  <2>1. UNCHANGED <<phase1b, phase2a>>
        /\ \A a \in Acceptors : vval'[a] = vval[a] \/ vval'[a] = m.vval
    BY <1>5 DEF HandlePhase2a, TypeOK
  <2> QED
    BY <1>1, <2>1 DEF ValuesVoted
<1>6. CASE UNCHANGED <<vval, phase1b, phase2a>>
  BY <1>1, <1>6 DEF ValuesVoted
<1> QED
  BY <1>2, <1>3, <1>4, <1>5, <1>6 DEF Next, Handling, FallbackTimer, OvertakenCommand,
     vars, messageVars,
     HandleFastRoundProposal, StartClassicRound, HandlePhase2b

\* Whatever is accepted, promised or asked for was proposed by some member.
LEMMA ValuesVotedInvariant == Spec => []ValuesVoted
<1>1. Init => ValuesVoted
  BY DEF Init, NewPaxos, ValuesVoted
<1>2. IInv /\ ClassicInv /\ ValuesVoted /\ [Next]_vars => ValuesVoted'
  BY NextValuesVoted DEF IInv, ClassicInv
<1> QED
  BY <1>1, <1>2, Invariance, ClassicInvariance, PTL DEF Spec

\* A cut with a fast quorum has a voter.
LEMMA FastChosenVoted == ASSUME NEW v \in FastChosen PROVE VotedFor(v)
<1>1. VotersFor(v) # {}
  <2> SUFFICES ASSUME VotersFor(v) = {} PROVE FALSE
    OBVIOUS
  <2>1. Cardinality(VotersFor(v)) = 0
    BY FS_EmptySet
  <2> QED
    BY <2>1, NType, FastQuorumsOverlap DEF FastChosen
<1>2. PICK b : [sender |-> b, vval |-> v] \in votes
  BY <1>1 DEF VotersFor
<1>3. [sender |-> b, vval |-> v].vval = v
  OBVIOUS
<1> QED
  BY <1>2, <1>3 DEF VotedFor

\* Nontriviality: a decided cut was proposed by some member.
DecisionProposed == \A n \in Acceptors : decision[n] # None => VotedFor(decision[n])

\* The view change delivered by dispatch was proposed (`propose`) by a member: the
\* coordinators make nothing up, whatever promises they select from.
THEOREM DecisionsProposed == Spec => []DecisionProposed
<1>1. IInv /\ ValuesVoted => DecisionProposed
  <2> SUFFICES ASSUME IInv, ValuesVoted, NEW n \in Acceptors, decision[n] # None
               PROVE  VotedFor(decision[n])
    BY DEF DecisionProposed
  <2>1. decidedBy[n] \in {"fast", "classic"}
    BY DEF IInv, TypeOK
  <2>2. CASE decidedBy[n] = "fast"
    BY <2>2, FastChosenVoted DEF IInv, DecisionIsChosen
  <2>3. CASE decidedBy[n] = "classic"
    BY <2>3, ClassicChosenAsked DEF IInv, DecisionIsChosen, ValuesVoted
  <2> QED
    BY <2>1, <2>2, <2>3
<1> QED
  BY <1>1, Invariance, ValuesVotedInvariant, PTL

\* Up to four members the fast round needs every vote, so that a late vote cannot
\* contradict a classic round: consensus agrees without a proviso.
THEOREM SmallConfigurationsAgree == N <= 4 => (Spec => []Agreement)
<1> SUFFICES ASSUME N <= 4 PROVE Spec => []Agreement
  OBVIOUS
<1>1. IInv /\ FastAgreement /\ ClassicAgreement /\ ValuesVoted => Agreement
  <2> SUFFICES ASSUME IInv, FastAgreement, ClassicAgreement, ValuesVoted
               PROVE  Agreement
    OBVIOUS
  <2>1. ASSUME NEW x \in FastChosen, NEW y \in ClassicChosen PROVE x = y
    <3>1. VotersFor(x) \subseteq Acceptors /\ Cardinality(VotersFor(x)) >= FastQuorum
      BY DEF VotersFor, FastChosen
    <3>2. FastQuorum = N
      BY NType DEF FastQuorum
    <3>3. VotersFor(x) = Acceptors
      <4>1. Cardinality(VotersFor(x)) \in Nat /\ Cardinality(VotersFor(x)) <= N
        BY <3>1, SubsetsOfAcceptors DEF N
      <4>2. Cardinality(Acceptors) = Cardinality(VotersFor(x))
        BY <3>1, <3>2, <4>1, NType DEF N
      <4> QED
        BY <3>1, <4>2, AcceptorsFinite, FS_Subset
    <3>4. PICK m \in phase2a : m.vval = y
      BY ClassicChosenAsked DEF IInv
    <3>5. PICK w \in votes : w.vval = y
      BY <3>4 DEF ValuesVoted, VotedFor
    <3>6. w.sender \in Acceptors
      BY DEF IInv, TypeOK, VoteMsg
    <3> DEFINE z == [sender |-> w.sender, vval |-> x]
    <3>7. z \in votes /\ z.sender = w.sender /\ z.vval = x
      BY <3>3, <3>6 DEF VotersFor
    <3> QED
      BY <3>5, <3>7 DEF IInv, VotedOnce
  <2> QED
    BY <2>1 DEF Agreement, FastAgreement, ClassicAgreement
<1> QED
  BY <1>1, Invariance, FastRoundsAgree, ClassicRoundsAgree, ValuesVotedInvariant, PTL

\* Where all decisions agree, a step of the protocol chooses the one cut, lets one
\* member learn it, or changes nothing that Decision sees.
LEMMA StepsImplementDecision ==
    ASSUME IInv, IInv', Agreement', [Next]_vars
    PROVE  [D!Next]_(D!vars)
<1> DEFINE chosen == FastChosen \cup ClassicChosen
<1>1. votes \subseteq votes' /\ phase2b \subseteq phase2b'
  BY DEF Next, Handling, FallbackTimer, OvertakenCommand,
     vars, messageVars, Propose, HandleFastRoundProposal,
         StartClassicRound, HandlePhase1a, HandlePhase1b, HandlePhase2a,
         HandlePhase2b
<1>2. chosen \subseteq chosen'
  BY <1>1, ChosenGrows
<1>3. \A v, w \in chosen' : v = w
  BY DEF Agreement
<1>4. chosen' \subseteq Values
  BY DEF FastChosen, ClassicChosen
<1>5. CASE UNCHANGED decision
  <2>1. CASE chosen' = chosen
    BY <1>5, <2>1 DEF D!vars
  <2>2. CASE chosen' # chosen
    <3>1. PICK v \in chosen' : v \notin chosen
      BY <1>2, <2>2
    <3>2. chosen' = {v} /\ chosen = {} /\ v \in Values
      BY <1>2, <1>3, <1>4, <3>1
    <3>3. D!Choose(v)
      BY <1>5, <3>2 DEF D!Choose
    <3> QED
      BY <3>2, <3>3 DEF D!Next
  <2> QED
    BY <2>1, <2>2
<1>6. ASSUME NEW n \in Acceptors, NEW v \in chosen, NEW how, Active(n),
             Decide(n, v, how), UNCHANGED messageVars
      PROVE  D!Next
  <2>1. UNCHANGED chosen
    BY <1>6 DEF messageVars, FastChosen, ClassicChosen, VotersFor, AcceptorsOf
  <2>2. v \in Values
    BY <1>2, <1>4
  <2>3. D!Learn(n, v)
    BY <1>6, <2>1 DEF D!Learn, Active, Decide
  <2> QED
    BY <2>2, <2>3 DEF D!Next
<1>7. ASSUME NEW n \in Learners, NEW m \in votes, HandleFastRoundProposal(n, m)
      PROVE  [D!Next]_(D!vars)
  <2>0. n \in Acceptors /\ TypeOK /\ VotedOnce
    BY BoundsTyped DEF IInv
  <2>1. CASE FastRoundDecided(votesReceived[n] \cup {m}, m.vval)
    <3>1. m.vval \in chosen
      BY <1>7, <2>0, <2>1, FastDecisionChosen
    <3>2. Decide(n, m.vval, "fast") /\ Active(n) /\ UNCHANGED messageVars
      BY <1>7, <2>1 DEF HandleFastRoundProposal
    <3> QED
      BY <1>6, <2>0, <3>1, <3>2
  <2>2. CASE ~FastRoundDecided(votesReceived[n] \cup {m}, m.vval)
    BY <1>5, <1>7, <2>2 DEF HandleFastRoundProposal
  <2> QED
    BY <2>1, <2>2
<1>8. ASSUME NEW n \in Learners, NEW m \in phase2b, HandlePhase2b(n, m)
      PROVE  [D!Next]_(D!vars)
  <2> DEFINE bucket == {w.sender :
                w \in {x \in acceptResponses[n] \cup {m} : x.rnd = m.rnd}}
  <2>0. n \in Acceptors /\ TypeOK /\ Structure
    BY BoundsTyped DEF IInv
  <2>1. CASE Majority(Cardinality(bucket))
    <3>1. m.vval \in chosen
      BY <2>0, <2>1, ClassicDecisionChosen
    <3>2. Decide(n, m.vval, "classic") /\ Active(n) /\ UNCHANGED messageVars
      BY <1>8, <2>1 DEF HandlePhase2b
    <3> QED
      BY <1>6, <2>0, <3>1, <3>2
  <2>2. CASE ~Majority(Cardinality(bucket))
    BY <1>5, <1>8, <2>2 DEF HandlePhase2b
  <2> QED
    BY <2>1, <2>2
<1>9. \/ UNCHANGED decision
      \/ \E n \in Learners, m \in votes : HandleFastRoundProposal(n, m)
      \/ \E n \in Learners, m \in phase2b : HandlePhase2b(n, m)
  BY DEF Next, Handling, FallbackTimer, OvertakenCommand,
     vars, learnerVars, Propose, StartClassicRound, HandlePhase1a,
         HandlePhase1b, HandlePhase2a
<1> QED
  BY <1>5, <1>7, <1>8, <1>9

\* The first state is one of Decision.
LEMMA InitImplementsDecision == Init => D!Init
<1> SUFFICES ASSUME Init PROVE D!Init
  OBVIOUS
<1>1. \A v : VotersFor(v) = {}
  BY DEF Init, VotersFor
<1>2. Cardinality({}) = 0
  BY FS_EmptySet
<1>3. \A v : Cardinality(VotersFor(v)) = 0
  BY <1>1, <1>2, Zenon
<1>4. FastChosen = {}
  BY <1>3, NType, FastQuorumsOverlap DEF FastChosen
<1>5. ClassicChosen = {}
  BY DEF Init, ClassicChosen
<1> QED
  BY <1>4, <1>5 DEF Init, NewFastPaxos, D!Init

\* For any number of members, in every behaviour in which no member votes after it
\* promised a classic round, FastPaxos and Paxos together implement Decision: one
\* cut at most is chosen, and each member learns it at most once.
THEOREM ConsensusImplementsDecision == Spec /\ [](late = {}) => ImplementsDecision
<1>1. IInv /\ IInv' /\ AgreementWithoutLateVotes' /\ (late = {})' /\ [Next]_vars
        => [D!Next]_(D!vars)
  <2>1. AgreementWithoutLateVotes' /\ (late = {})' => Agreement'
    BY DEF AgreementWithoutLateVotes, Agreement
  <2> QED
    BY <2>1, StepsImplementDecision
<1> QED
  BY <1>1, InitImplementsDecision, Invariance, AgreementUnlessLate, PTL
     DEF Spec, ImplementsDecision, D!Spec

\* Up to four members it does so in every behaviour, late votes or not.
THEOREM SmallConfigurationsImplementDecision == N <= 4 => (Spec => ImplementsDecision)
<1> SUFFICES ASSUME N <= 4 PROVE Spec => ImplementsDecision
  OBVIOUS
<1>1. IInv /\ IInv' /\ Agreement' /\ [Next]_vars => [D!Next]_(D!vars)
  BY StepsImplementDecision
<1>2. Spec => []Agreement
  BY SmallConfigurationsAgree
<1> QED
  BY <1>1, <1>2, InitImplementsDecision, Invariance, PTL
     DEF Spec, ImplementsDecision, D!Spec
=============================================================================
