----------------------------- MODULE FastPaxos -----------------------------
(***************************************************************************)
(* Agreement on one view change: crates/rapid/src/consensus/fast_paxos.rs  *)
(* and paxos.rs, run by the members of one configuration.                  *)
(*                                                                         *)
(* Every member votes for the cut its detector returned; three quarters of *)
(* equal votes decide in the fast round.  A member that voted starts a     *)
(* classic round, number 2, when its fallback timer expires.  The command  *)
(* of a timer that expired just before the view changed is still in the    *)
(* mailbox and starts a round of the new configuration (Overtaken).        *)
(*                                                                         *)
(* Messages.  A broadcast sends one request per member with no retry       *)
(* (send_best_effort), so each is delivered at most once, in any order, or *)
(* not at all.  Sent messages stay in a set; a delivery that is late is    *)
(* delayed and one that never happens is a loss.  Receiving a vote, a      *)
(* phase1a, a phase2a or a phase2b message again changes nothing in the    *)
(* code, and for phase1b, which the code does not deduplicate, the guard   *)
(* of HandlePhase1b delivers each message once.                            *)
(*                                                                         *)
(* A member that decides applies the cut and replaces its instance by one  *)
(* for the next configuration (dispatch); the configuration check at the   *)
(* head of every handler then drops what still arrives for this one.       *)
(***************************************************************************)
EXTENDS Integers, FiniteSets, Sequences

CONSTANTS
    Acceptors,      \* the members of the configuration
    Values,         \* cuts that can be proposed: nonempty lists of endpoints
    None,           \* the empty list
    NodeIndex,      \* stable_node_index of a member
    Candidates,     \* bound: the cuts the detector of a member may return
    Coordinators,   \* bound: the members whose fallback timer may expire
    Overtaken,      \* bound: the members that entered this configuration with a
                    \* StartClassicRound of the last one in their mailbox
    Learners        \* bound: the members that votes may reach

N == Cardinality(Acceptors)

ASSUME AcceptorsFinite == IsFiniteSet(Acceptors) /\ Acceptors # {}
ASSUME NoneOutside == None \notin Values
ASSUME BoundsTyped ==
    /\ Candidates \in [Acceptors -> SUBSET Values]
    /\ Coordinators \subseteq Acceptors
    /\ Overtaken \subseteq Acceptors
    /\ Learners \subseteq Acceptors

\* The index is a 32-bit hash of the address.  That no two members share one is
\* an assumption: the code does not check it.
ASSUME NodeIndexInjective ==
    /\ NodeIndex \in [Acceptors -> Int]
    /\ \A a, b \in Acceptors : NodeIndex[a] = NodeIndex[b] => a = b

VARIABLES
    \* Paxos, as acceptor
    rnd, vrnd, vval,
    \* Paxos, as coordinator; the promises it received, in order of arrival
    crnd, cval, phase1bMessages,
    \* Paxos, as learner: the phase2b messages received
    acceptResponses,
    \* FastPaxos: the votes received, and the latch of start_classic_round
    votesReceived, classicStarted,
    \* the decision a member delivered to its service, and the round it came from
    decision, decidedBy,
    \* messages sent, by type
    votes, phase1a, phase1b, phase2a, phase2b,
    \* history: members that had promised a classic round when they voted
    late

acceptorVars == <<rnd, vrnd, vval>>
coordinatorVars == <<crnd, cval, phase1bMessages, classicStarted>>
learnerVars == <<acceptResponses, votesReceived, decision, decidedBy>>
messageVars == <<votes, phase1a, phase1b, phase2a, phase2b>>
vars == <<acceptorVars, coordinatorVars, learnerVars, messageVars, late>>

-----------------------------------------------------------------------------
(* Ranks, compared as (round, node_index) pairs.                           *)

Rank == [round : Int, index : Int]
MkRank(r, i) == [round |-> r, index |-> i]

Less(p, q) == p.round < q.round \/ (p.round = q.round /\ p.index < q.index)
Leq(p, q) == Less(p, q) \/ p = q

ZeroRank == MkRank(0, 0)
FastRank == MkRank(1, 1)
ClassicRound == 2
ClassicRank(n) == MkRank(ClassicRound, NodeIndex[n])

VoteMsg == [sender : Acceptors, vval : Values]
Phase1aMsg == [sender : Acceptors, rank : Rank]
Phase1bMsg == [sender : Acceptors, to : Acceptors, rnd : Rank, vrnd : Rank,
               vval : Values \cup {None}]
Phase2aMsg == [sender : Acceptors, rnd : Rank, vval : Values]
Phase2bMsg == [sender : Acceptors, rnd : Rank, vval : Values]

\* The constructors of Paxos and FastPaxos.
NewPaxos ==
    /\ rnd = [n \in Acceptors |-> ZeroRank]
    /\ vrnd = [n \in Acceptors |-> ZeroRank]
    /\ vval = [n \in Acceptors |-> None]
    /\ crnd = [n \in Acceptors |-> ZeroRank]
    /\ cval = [n \in Acceptors |-> None]
    /\ phase1bMessages = [n \in Acceptors |-> <<>>]
    /\ acceptResponses = [n \in Acceptors |-> {}]

NewFastPaxos ==
    /\ votesReceived = [n \in Acceptors |-> {}]
    /\ classicStarted = [n \in Acceptors |-> FALSE]
    /\ decision = [n \in Acceptors |-> None]
    /\ decidedBy = [n \in Acceptors |-> "none"]

Init ==
    /\ NewPaxos
    /\ NewFastPaxos
    /\ votes = {}
    /\ phase1a = {}
    /\ phase1b = {}
    /\ phase2a = {}
    /\ phase2b = {}
    /\ late = {}

\* The instance of n for this configuration is still in place.
Active(n) == decision[n] = None

Decide(n, v, how) ==
    /\ decision' = [decision EXCEPT ![n] = v]
    /\ decidedBy' = [decidedBy EXCEPT ![n] = how]

-----------------------------------------------------------------------------
(* The fast round.                                                         *)

Voted(n) == \E m \in votes : m.sender = n

\* register_fast_round_vote keeps the promise made to a classic round.
MayRegister(n) == rnd[n].round <= 1

RegisterFastRoundVote(n, v) ==
    \/ /\ MayRegister(n)
       /\ rnd' = [rnd EXCEPT ![n] = FastRank]
       /\ vrnd' = [vrnd EXCEPT ![n] = FastRank]
       /\ vval' = [vval EXCEPT ![n] = v]
       /\ UNCHANGED late
    \/ /\ ~MayRegister(n)
       /\ late' = late \cup {n}
       /\ UNCHANGED acceptorVars

\* propose(v): the vote is broadcast even when it could not be registered.  The
\* service proposes once per configuration (AnnouncedProposal).
Propose(n, v) ==
    /\ Active(n)
    /\ ~Voted(n)
    /\ RegisterFastRoundVote(n, v)
    /\ votes' = votes \cup {[sender |-> n, vval |-> v]}
    /\ UNCHANGED <<coordinatorVars, learnerVars, phase1a, phase1b, phase2a, phase2b>>

\* Mutant: half of the members decide the fast round.
HalfQuorum == N \div 2

\* Mutant: a simple majority decides the fast round.
MajorityQuorum == N \div 2 + 1

FastQuorum == N - ((N - 1) \div 4)

\* Mutant: the votes are counted without looking at what they are for.
FastRoundFull(received, v) == Cardinality(received) >= FastQuorum

FastRoundDecided(received, v) ==
    /\ Cardinality(received) >= FastQuorum
    /\ Cardinality({w \in received : w.vval = v}) >= FastQuorum

\* handle_fast_round_proposal: one vote per sender, counted per proposal.
HandleFastRoundProposal(n, m) ==
    /\ Active(n)
    /\ \A w \in votesReceived[n] : w.sender # m.sender
    /\ LET received == votesReceived[n] \cup {m}
       IN  /\ votesReceived' = [votesReceived EXCEPT ![n] = received]
           /\ \/ /\ FastRoundDecided(received, m.vval)
                 /\ Decide(n, m.vval, "fast")
              \/ /\ ~FastRoundDecided(received, m.vval)
                 /\ UNCHANGED <<decision, decidedBy>>
    /\ UNCHANGED <<acceptorVars, coordinatorVars, acceptResponses, messageVars, late>>

-----------------------------------------------------------------------------
(* The classic round.                                                      *)

\* crnd is zero or of round 2, so the early return for a later round is not taken.
StartPhase1a(n, round) ==
    /\ crnd[n].round <= round
    /\ crnd' = [crnd EXCEPT ![n] = ClassicRank(n)]
    /\ phase1a' = phase1a \cup {[sender |-> n, rank |-> ClassicRank(n)]}

\* start_classic_round looks at the latch, not at the vote.
StartClassicRound(n) ==
    /\ Active(n)
    /\ ~classicStarted[n]
    /\ classicStarted' = [classicStarted EXCEPT ![n] = TRUE]
    /\ StartPhase1a(n, ClassicRound)
    /\ UNCHANGED <<acceptorVars, cval, phase1bMessages, learnerVars, votes,
                   phase1b, phase2a, phase2b, late>>

\* The timer that `propose` armed expires, after a random delay.
FallbackTimer(n) == Voted(n) /\ StartClassicRound(n)

\* The actor takes the command that reinstate_fast_paxos could not abort.  A vote
\* may come before it or after it.
OvertakenCommand(n) == n \in Overtaken /\ StartClassicRound(n)

HandlePhase1a(n, m) ==
    /\ Active(n)
    /\ Less(rnd[n], m.rank)
    /\ rnd' = [rnd EXCEPT ![n] = m.rank]
    /\ phase1b' = phase1b \cup {[sender |-> n, to |-> m.sender, rnd |-> m.rank,
                                 vrnd |-> vrnd[n], vval |-> vval[n]]}
    /\ UNCHANGED <<vrnd, vval, coordinatorVars, learnerVars, votes, phase1a,
                   phase2a, phase2b, late>>

\* select_proposal_from_messages over the log of promises.
MaxVrnd(log) ==
    LET vrnds == {log[i].vrnd : i \in DOMAIN log}
    IN  CHOOSE r \in vrnds : \A q \in vrnds : Leq(q, r)

Collected(log) ==
    {i \in DOMAIN log : log[i].vrnd = MaxVrnd(log) /\ log[i].vval # None}

First(S) == CHOOSE i \in S : \A k \in S : i <= k

\* Mutant: any value seen at the highest vrnd will do.
RepeatedOnce(log) == Collected(log)

\* Positions at which a value has been seen more than n/4 times.
Repeated(log) ==
    {i \in Collected(log) :
        Cardinality({k \in Collected(log) : k <= i /\ log[k].vval = log[i].vval})
            > N \div 4}

NonEmpty(log) == {i \in DOMAIN log : log[i].vval # None}

SelectProposal(log) ==
    IF Cardinality({log[i].vval : i \in Collected(log)}) = 1
      THEN log[First(Collected(log))].vval
    ELSE IF Repeated(log) # {}
      THEN log[First(Repeated(log))].vval
    ELSE IF NonEmpty(log) # {}
      THEN log[First(NonEmpty(log))].vval
    ELSE None

\* Mutant: the count is tested for equality.
ExactMajority(k) == k = N \div 2 + 1

Majority(k) == k > N \div 2

\* Mutant: the empty list is taken for a choice.
StartsPhase2Empty(n, log) == Majority(Len(log)) /\ cval[n] = None

\* A majority has answered, a value can be selected and none was before.
StartsPhase2(n, log) ==
    /\ Majority(Len(log))
    /\ cval[n] = None
    /\ SelectProposal(log) # None

Phase2aFrom(n, v) == [sender |-> n, rnd |-> crnd[n], vval |-> v]

HandlePhase1b(n, m) ==
    /\ Active(n)
    /\ m.to = n
    /\ crnd[n] = m.rnd
    /\ \A i \in DOMAIN phase1bMessages[n] : phase1bMessages[n][i] # m
    /\ LET log == Append(phase1bMessages[n], m)
       IN  /\ phase1bMessages' = [phase1bMessages EXCEPT ![n] = log]
           /\ \/ /\ StartsPhase2(n, log)
                 /\ cval' = [cval EXCEPT ![n] = SelectProposal(log)]
                 /\ phase2a' = phase2a \cup {Phase2aFrom(n, SelectProposal(log))}
              \/ /\ ~StartsPhase2(n, log)
                 /\ UNCHANGED <<cval, phase2a>>
    /\ UNCHANGED <<acceptorVars, crnd, classicStarted, learnerVars, votes,
                   phase1a, phase1b, phase2b, late>>

\* Mutant: the acceptor forgets what it promised.
AcceptsAny(n, m) == vrnd[n] # m.rnd

Accepts(n, m) == Leq(rnd[n], m.rnd) /\ vrnd[n] # m.rnd

HandlePhase2a(n, m) ==
    /\ Active(n)
    /\ Accepts(n, m)
    /\ rnd' = [rnd EXCEPT ![n] = m.rnd]
    /\ vrnd' = [vrnd EXCEPT ![n] = m.rnd]
    /\ vval' = [vval EXCEPT ![n] = m.vval]
    /\ phase2b' = phase2b \cup {[sender |-> n, rnd |-> m.rnd, vval |-> m.vval]}
    /\ UNCHANGED <<coordinatorVars, learnerVars, votes, phase1a, phase1b, phase2a, late>>

HandlePhase2b(n, m) ==
    /\ Active(n)
    /\ m \notin acceptResponses[n]
    /\ LET received == acceptResponses[n] \cup {m}
           bucket   == {w.sender : w \in {x \in received : x.rnd = m.rnd}}
       IN  /\ acceptResponses' = [acceptResponses EXCEPT ![n] = received]
           /\ \/ /\ Majority(Cardinality(bucket))
                 /\ Decide(n, m.vval, "classic")
              \/ /\ ~Majority(Cardinality(bucket))
                 /\ UNCHANGED <<decision, decidedBy>>
    /\ UNCHANGED <<acceptorVars, coordinatorVars, votesReceived, messageVars, late>>

-----------------------------------------------------------------------------
\* What the members do with messages and timers once nobody votes any more.
Handling ==
    \/ \E n \in Learners, m \in votes : HandleFastRoundProposal(n, m)
    \/ \E n \in Coordinators : FallbackTimer(n)
    \/ \E n \in Acceptors, m \in phase1a : HandlePhase1a(n, m)
    \/ \E n \in Acceptors, m \in phase1b : HandlePhase1b(n, m)
    \/ \E n \in Acceptors, m \in phase2a : HandlePhase2a(n, m)
    \/ \E n \in Learners, m \in phase2b : HandlePhase2b(n, m)

Next ==
    \/ \E n \in Acceptors : \E v \in Candidates[n] : Propose(n, v)
    \/ \E n \in Acceptors : OvertakenCommand(n)
    \/ Handling

Spec == Init /\ [][Next]_vars

-----------------------------------------------------------------------------
(* Properties.                                                             *)

\* Messages, promises and decisions keep their types.  A decision is never the
\* empty cut, and it is present exactly when a round is recorded for it.
TypeOK ==
    /\ rnd \in [Acceptors -> Rank]
    /\ vrnd \in [Acceptors -> Rank]
    /\ vval \in [Acceptors -> Values \cup {None}]
    /\ crnd \in [Acceptors -> Rank]
    /\ cval \in [Acceptors -> Values \cup {None}]
    /\ phase1bMessages \in [Acceptors -> Seq(phase1b)]
    /\ acceptResponses \in [Acceptors -> SUBSET phase2b]
    /\ votesReceived \in [Acceptors -> SUBSET votes]
    /\ classicStarted \in [Acceptors -> BOOLEAN]
    /\ decision \in [Acceptors -> Values \cup {None}]
    /\ decidedBy \in [Acceptors -> {"none", "fast", "classic"}]
    /\ \A n \in Acceptors : decision[n] = None <=> decidedBy[n] = "none"
    /\ votes \subseteq VoteMsg
    /\ phase1a \subseteq Phase1aMsg
    /\ phase1b \subseteq Phase1bMsg
    /\ phase2a \subseteq Phase2aMsg
    /\ phase2b \subseteq Phase2bMsg
    /\ late \subseteq Acceptors

VotersFor(v) == {n \in Acceptors : [sender |-> n, vval |-> v] \in votes}

AcceptorsOf(r, v) ==
    {n \in Acceptors : [sender |-> n, rnd |-> r, vval |-> v] \in phase2b}

\* The cuts that the messages sent so far allow a member to decide.
FastChosen == {v \in Values : Cardinality(VotersFor(v)) >= FastQuorum}

ClassicChosen ==
    {v \in Values :
        \E m \in phase2b : Majority(Cardinality(AcceptorsOf(m.rnd, v)))}

\* A member decides only what the senders really chose.  The fast round counts
\* votes as they arrive, and the classic round takes the value of whichever
\* message completes a bucket without looking at the others in it.
DecisionIsChosen ==
    \A n \in Acceptors :
        /\ decidedBy[n] = "fast" => decision[n] \in FastChosen
        /\ decidedBy[n] = "classic" => decision[n] \in ClassicChosen

\* Two members that decide in the fast round decide the same cut: a vote is sent
\* once per configuration, and two quorums of N - floor((N - 1)/4) overlap.
FastAgreement == \A v, w \in FastChosen : v = w

\* Two members that decide in classic rounds, possibly of different coordinators,
\* decide the same cut.
ClassicAgreement == \A v, w \in ClassicChosen : v = w

\* Votes that the acceptor also remembers, for the coordinators to find.
RegisteredFor(v) == VotersFor(v) \ late

\* What the n/4 rule of select_proposal_from_messages is for: when enough
\* registered votes for v exist to decide the fast round, no coordinator, however
\* its promises were ordered, asks for anything but v.
ClassicKeepsFastChoice ==
    \A v \in Values : Cardinality(RegisteredFor(v)) >= FastQuorum =>
        \A m \in phase2a : m.vval = v

\* All decisions agree, whatever the rounds, as long as no member votes after it
\* promised a classic round.
AgreementWithoutLateVotes ==
    late = {} => \A v, w \in FastChosen \cup ClassicChosen : v = w

\* docs/rapid_summary.md: all processes see the same sequence of membership
\* changes, so no two cuts can both be decided for one configuration.
Agreement == \A v, w \in FastChosen \cup ClassicChosen : v = w

D == INSTANCE Decision WITH
    Members <- Acceptors,
    Cuts <- Values,
    chosen <- FastChosen \cup ClassicChosen,
    learned <- decision

\* Among three members the messages choose one cut at most, in whichever round and
\* whatever the late votes, and a member decides that cut or nothing: dispatch never
\* delivers a second decision of the instance.  Five members do not keep this
\* promise (Agreement).
ImplementsDecision == D!Spec

\* With no message lost, no configuration comes to rest without a decision: when the
\* timer of a voter was armed and some vote was registered before its member
\* promised, then a member that has not decided still has something to handle, also
\* after a split vote and with competing coordinators, each of which starts one round
\* only.  Every step of Handling adds a message, a log entry or a decision, so the
\* members do come to rest, and they have decided then.  Unless a command was
\* overtaken, the first voter has always registered its vote.  When one was, its round
\* can collect promises without a value and make every vote late, and the
\* configuration rests undecided: the latch is used up.
DecidedWhenIdle ==
    /\ \E n \in Coordinators : Voted(n)
    /\ \E n \in Acceptors \ late : Voted(n)
    /\ \E n \in Learners : decision[n] = None
    => ENABLED Handling
=============================================================================
