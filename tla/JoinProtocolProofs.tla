------------------------- MODULE JoinProtocolProofs -------------------------
(***************************************************************************)
(* Proofs about JoinProtocol, for any members, observers, watermark and    *)
(* number of attempts, identifiers, restarts and other view changes.       *)
(***************************************************************************)
EXTENDS JoinProtocol, FiniteSetTheorems, TLAPS

\* An identifier that may be admitted in v, and one that comes after all that the
\* joiner used before it: together they determine it from v.
Fresh(i, v) == ~v.present /\ i \notin v.ids
Follows(i, v) == \A j \in 1 .. i - 1 : j \in v.ids

\* The waiting calls are those of phase 2, and only they can get a reply.
JoinerWaits ==
    /\ joiner.pc # "phase2" => joiner.waiting = {}
    /\ \A r \in replies : r.from \in joiner.waiting

\* Whatever identifier is on its way was drawn for the configuration it is sent in.
IdentifiersFresh ==
    /\ joiner.uuidTaken => joiner.id \in view[Seed].ids
    /\ \A msg \in joins : msg.config # NoConfig => Fresh(msg.call.id, msg.config)
    /\ \A a \in alerts : Fresh(a.id, a.config)
    /\ \A m \in Members : \A c \in parked[m] : Fresh(c.id, view[m]) /\ HasIdentifier(m)
    /\ AdmissionNotRefused

\* As long as the joiner did not restart, it draws a new identifier only when the
\* seed has the last one.
IdentifiersFollow ==
    ~restarted =>
        /\ Follows(joiner.id, view[Seed])
        /\ \A msg \in joins : msg.config # NoConfig => Follows(msg.call.id, msg.config)
        /\ \A a \in alerts : Follows(a.id, a.config)
        /\ \A m \in Members : \A c \in parked[m] : Follows(c.id, view[m])
        /\ \A m \in Members : HasIdentifier(m) => Follows(joinerUuid[m], view[m])

\* What a waiting call may be answered with.
RepliesRight ==
    \A r \in replies :
        /\ r.safe => r.config.present
        /\ r.safe /\ ~restarted => joiner.id \in r.config.ids

\* The view after a decision, when no member is without the identifier.
FirstUnused(v) == CHOOSE i \in Ids : i \notin v.ids /\ Follows(i, v)
After(d) ==
    IF d.cut = "other" THEN [d.config EXCEPT !.others = @ + 1]
    ELSE IF d.config.present THEN [d.config EXCEPT !.present = FALSE]
    ELSE [d.config EXCEPT !.present = TRUE, !.ids = @ \cup {FirstUnused(d.config)}]

\* Configuration c comes before v.
Before(c, v) ==
    /\ c.ids \subseteq v.ids /\ c.others <= v.others
    /\ c.ids # v.ids \/ c.others # v.others \/ (c.present /\ ~v.present)

FirstView == [present |-> FALSE, ids |-> {}, others |-> 0]

\* The decisions that m applied are a chain from the first view to its own.
Chain(m) ==
    /\ \A d \in applied[m] : After(d) = view[m] \/ \E e \in applied[m] : e.config = After(d)
    /\ \A d \in applied[m] : Before(d.config, view[m])
    /\ applied[m] = {} => view[m] = FirstView
    /\ applied[m] # {} => \E d \in applied[m] : After(d) = view[m]

Chains == ~restarted /\ ~skipped => \A m \in Members : Chain(m)

\* The bound on other view changes, which the decisions count.
OtherCuts(D) == {d \in D : d.cut = "other"}
Counted ==
    /\ IsFiniteSet(decided)
    /\ Cardinality(OtherCuts(decided)) <= MaxEvents
    /\ \A m \in Members : view[m].others = Cardinality(OtherCuts(applied[m]))

\* The inductive invariant.
IInv ==
    /\ TypeOK
    /\ Counted
    /\ JoinerWaits
    /\ IdentifiersFresh
    /\ IdentifiersFollow
    /\ RepliesRight
    /\ JoinsAsItself
    /\ Chains

-----------------------------------------------------------------------------
(* Types.                                                                  *)

JoinerType ==
    [pc : {"phase1", "phase2", "joined", "failed"}, id : Ids, attempt : 1 .. Retries,
     target : View \cup {NoConfig}, uuidTaken : BOOLEAN, waiting : SUBSET Observers,
     config : View \cup {NoConfig}, ids : SUBSET Ids]

ReplyType == [from : Observers, safe : BOOLEAN, config : View, ids : SUBSET Ids]

\* TypeOK in parts, which different steps disturb.
MemberTypes ==
    /\ view \in [Members -> View]
    /\ joinerUuid \in [Members -> Ids \cup {NoId}]
    /\ parked \in [Members -> SUBSET Call]
    /\ reports \in [Members -> SUBSET alerts]
    /\ alerts \subseteq [src : Observers, id : Ids, config : View]
    /\ decided \subseteq [config : View, cut : {"joiner", "other"}]
    /\ applied \in [Members -> SUBSET decided]

MessageTypes ==
    /\ joins \subseteq [to : Observers, call : Call, config : View \cup {NoConfig}]
    /\ replies \subseteq ReplyType

Flags ==
    /\ announced \in [Members -> BOOLEAN]
    /\ restarted \in BOOLEAN
    /\ skipped \in BOOLEAN

\* The parts make up TypeOK.
LEMMA TypeParts == TypeOK <=> MemberTypes /\ MessageTypes /\ Flags /\ joiner \in JoinerType
BY DEF TypeOK, MemberTypes, MessageTypes, Flags, JoinerType, ReplyType

\* The steps of the joiner, and those of the members.
Receives == \E r \in replies : ReceiveReply(r)
TimesOut == \E o \in Observers : Timeout(o)
Parks == \E msg \in joins : ParkJoin(msg.to, msg)
Rejects == \E msg \in joins : RejectJoin(msg.to, msg)
Alerted == \E m \in Members, a \in alerts : HandleAlert(m, a)
Decides == \E m \in Members, cut \in {"joiner", "other"} : Decide(view[m], cut)
Applies == \E m \in Members, d \in decided : Apply(m, d)

JoinerSteps == Phase1 \/ Phase1Fails \/ Receives \/ TimesOut \/ Retry \/ Restart

\* Every step is one of six kinds.
LEMMA NextByKind ==
    ASSUME Next
    PROVE  JoinerSteps \/ Parks \/ Rejects \/ Alerted \/ Decides \/ Applies
BY DEF Next, JoinerSteps, Receives, TimesOut, Parks, Rejects, Alerted, Decides, Applies

\* What the joiner does to its own record, field by field.
LEMMA JoinerFields ==
    ASSUME TypeOK, JoinerSteps
    PROVE  /\ joiner' \in JoinerType
           /\ \/ /\ Phase1
                 /\ joiner.pc = "phase1" /\ joiner'.pc = "phase2" /\ joiner'.id = joiner.id
                 /\ joiner'.uuidTaken
                        = (HandlePreJoin(Seed, joiner.id).status = "UuidAlreadyInRing")
              \/ /\ Phase1Fails
                 /\ joiner.pc = "phase1" /\ joiner'.pc = "failed" /\ joiner'.id = joiner.id
                 /\ joiner'.waiting = joiner.waiting /\ joiner'.uuidTaken = joiner.uuidTaken
              \/ /\ Receives
                 /\ joiner.pc = "phase2" /\ joiner'.pc \in {"phase2", "joined"}
                 /\ joiner'.id = joiner.id /\ joiner'.uuidTaken = joiner.uuidTaken
              \/ /\ TimesOut
                 /\ joiner.pc = "phase2" /\ joiner'.pc = "phase2"
                 /\ joiner'.id = joiner.id /\ joiner'.uuidTaken = joiner.uuidTaken
              \/ /\ Retry
                 /\ joiner.waiting = {} /\ joiner'.waiting = {}
                 /\ \/ /\ joiner'.pc = "phase1" /\ joiner'.id = NextId
                       /\ joiner'.uuidTaken = FALSE
                    \/ /\ joiner'.pc = "failed" /\ joiner'.id = joiner.id
                       /\ joiner'.uuidTaken = joiner.uuidTaken
              \/ /\ Restart
                 /\ joiner'.pc = "phase1" /\ joiner'.waiting = {}
                 /\ joiner'.uuidTaken = FALSE /\ replies' = {} /\ restarted' = TRUE
<1>1. joiner \in JoinerType /\ MemberTypes /\ MessageTypes
  BY TypeParts
<1> USE DEF JoinerType
<1>2. CASE Phase1
  <2>1. PICK p : p = HandlePreJoin(Seed, joiner.id)
    OBVIOUS
  <2>2. /\ p.config \in View /\ p.observers \in SUBSET Observers
        /\ (p.status = "UuidAlreadyInRing") \in BOOLEAN
    <3>1. view[Seed] \in View
      BY <1>1, MembersFinite DEF MemberTypes
    <3>2. p.config = view[Seed] /\ p.observers \in {{}, Observers}
      BY <2>1 DEF HandlePreJoin
    <3> QED
      BY <3>1, <3>2
  <2>3. PICK t \in View \cup {NoConfig} :
            t = IF p.status = "HostnameAlreadyInRing" THEN NoConfig ELSE p.config
    BY <2>2
  <2>4. PICK u \in BOOLEAN : u = (p.status = "UuidAlreadyInRing")
    BY <2>2
  <2>5. joiner' = [joiner EXCEPT !.pc = "phase2", !.target = t, !.uuidTaken = u,
                                 !.waiting = p.observers]
    BY <1>2, <2>1, <2>3, <2>4 DEF Phase1
  <2>6. joiner.pc = "phase1"
    BY <1>2 DEF Phase1
  <2> QED
    BY <1>1, <1>2, <2>1, <2>2, <2>4, <2>5, <2>6
<1>3. CASE Phase1Fails
  BY <1>1, <1>3 DEF Phase1Fails
<1>4. CASE Receives
  <2>1. PICK r \in replies : ReceiveReply(r)
    BY <1>4 DEF Receives
  <2>2. r.config \in View /\ r.ids \in SUBSET Ids
    BY <1>1, <2>1 DEF MessageTypes, ReplyType
  <2> QED
    BY <1>1, <1>4, <2>1, <2>2 DEF ReceiveReply, Bootstrapped
<1>5. CASE TimesOut
  BY <1>1, <1>5 DEF TimesOut, Timeout
<1>6. CASE Retry
  <2>1. CASE joiner' = [joiner EXCEPT !.pc = "failed"] /\ joiner.waiting = {}
    BY <1>1, <1>6, <2>1
  <2>2. CASE /\ joiner.attempt < Retries /\ NextId \in Ids /\ joiner.waiting = {}
             /\ joiner' = [joiner EXCEPT !.pc = "phase1", !.attempt = @ + 1, !.id = NextId,
                                         !.target = NoConfig, !.uuidTaken = FALSE]
    <3>1. joiner.attempt + 1 \in 1 .. Retries
      BY <1>1, <2>2, BoundsNat
    <3> QED
      BY <1>1, <1>6, <2>2, <3>1
  <2> QED
    BY <1>6, <2>1, <2>2 DEF Retry
<1>7. CASE Restart
  <2>1. 1 \in 1 .. Retries
    BY BoundsNat
  <2> QED
    BY <1>1, <1>7, <2>1 DEF Restart
<1> QED
  BY <1>2, <1>3, <1>4, <1>5, <1>6, <1>7 DEF JoinerSteps

\* v is the view that a decision on cut leads to, field by field.
LeadsTo(m, cut, v) ==
    /\ v = [present |-> v.present, ids |-> v.ids, others |-> v.others]
    /\ v.present \in BOOLEAN /\ v.ids \in SUBSET Ids
    /\ view[m].ids \subseteq v.ids
    /\ view[m].others \in Nat
    /\ v.others = IF cut = "other" THEN view[m].others + 1 ELSE view[m].others
    /\ cut = "other" => v.present = view[m].present /\ v.ids = view[m].ids
    /\ cut = "joiner" /\ view[m].present => v.present = FALSE /\ v.ids = view[m].ids
    /\ cut = "joiner" /\ ~view[m].present /\ HasIdentifier(m) =>
          v.present = TRUE /\ v.ids = view[m].ids \cup {joinerUuid[m]}
    /\ cut = "joiner" /\ ~view[m].present /\ ~HasIdentifier(m) => v = view[m]

\* What the view after a cut says of the joiner and of others.
LEMMA NewViewFields ==
    ASSUME NEW m \in Members, view[m] \in View, NEW cut \in {"joiner", "other"},
           joinerUuid[m] \in Ids \cup {NoId},
           HasIdentifier(m) => joinerUuid[m] \notin view[m].ids
    PROVE  LeadsTo(m, cut, NewView(m, cut))
<1>0. PICK v : v = NewView(m, cut)
  OBVIOUS
<1> SUFFICES LeadsTo(m, cut, v)
  BY <1>0
<1> USE DEF LeadsTo
<1>1. PICK w \in View : w = view[m]
  OBVIOUS
<1>2. w.present \in BOOLEAN /\ w.ids \in SUBSET Ids /\ w.others \in 0 .. MaxEvents
  BY DEF View
<1>3. w.others \in Nat
  BY <1>2
<1>4. CASE cut = "other"
  <2>1. v = [w EXCEPT !.others = @ + 1]
    BY <1>0, <1>1, <1>4 DEF NewView
  <2> QED
    BY <1>1, <1>2, <1>3, <1>4, <2>1 DEF View
<1>5. CASE cut = "joiner" /\ w.present
  <2>1. v = [w EXCEPT !.present = FALSE]
    BY <1>0, <1>1, <1>5 DEF NewView
  <2> QED
    BY <1>1, <1>2, <1>3, <1>5, <2>1 DEF View
<1>6. CASE cut = "joiner" /\ ~w.present /\ HasIdentifier(m)
  <2>1. v = [w EXCEPT !.present = TRUE, !.ids = @ \cup {joinerUuid[m]}]
    BY <1>0, <1>1, <1>6 DEF NewView, Added
  <2>2. w.ids \cup {joinerUuid[m]} \in SUBSET Ids
    BY <1>2, <1>6 DEF HasIdentifier
  <2> QED
    BY <1>1, <1>2, <1>3, <1>6, <2>1, <2>2 DEF View
<1>7. CASE cut = "joiner" /\ ~w.present /\ ~HasIdentifier(m)
  <2>1. v = w
    BY <1>0, <1>1, <1>7 DEF NewView, Added
  <2> QED
    BY <1>1, <1>2, <1>3, <1>7, <2>1 DEF View
<1> QED
  BY <1>1, <1>4, <1>5, <1>6, <1>7

\* What a member does when it applies a decision.
LEMMA ApplyFields ==
    ASSUME IInv, NEW m \in Members, NEW d \in decided, Apply(m, d)
    PROVE  /\ d.config = view[m] /\ d.cut \in {"joiner", "other"} /\ d \notin applied[m]
           /\ d \in [config : View, cut : {"joiner", "other"}]
           /\ view'[m] = NewView(m, d.cut)
           /\ applied'[m] = applied[m] \cup {d}
           /\ joinerUuid'[m] = IdentifierAfter(m, d.cut)
           /\ parked'[m] = IF d.cut = "joiner" THEN {} ELSE parked[m]
           /\ \A n \in Members : n # m =>
                 /\ view'[n] = view[n] /\ applied'[n] = applied[n]
                 /\ joinerUuid'[n] = joinerUuid[n] /\ parked'[n] = parked[n]
           /\ UNCHANGED <<joiner, joins, alerts, decided, restarted>>
<1>1. MemberTypes
  BY TypeParts DEF IInv
<1>2. d.config \in View /\ d.cut \in {"joiner", "other"}
  BY <1>1 DEF MemberTypes
<1>3. /\ view' = [view EXCEPT ![m] = NewView(m, d.cut)]
      /\ applied' = [applied EXCEPT ![m] = @ \cup {d}]
      /\ joinerUuid' = [joinerUuid EXCEPT ![m] = IdentifierAfter(m, d.cut)]
      /\ d.config = view[m] /\ d \notin applied[m]
      /\ UNCHANGED <<joiner, joins, alerts, decided, restarted>>
  BY DEF Apply
<1>4. \/ d.cut = "joiner" /\ parked' = [parked EXCEPT ![m] = {}]
      \/ d.cut = "other" /\ parked' = parked
  BY DEF Apply
<1> QED
  BY <1>1, <1>2, <1>3, <1>4 DEF MemberTypes

\* The view that a member has then.
LEMMA AppliedView ==
    ASSUME IInv, NEW m \in Members, NEW d \in decided, Apply(m, d)
    PROVE  LeadsTo(m, d.cut, view'[m])
<1>1. view[m] \in View /\ joinerUuid[m] \in Ids \cup {NoId}
  BY TypeParts DEF IInv, MemberTypes
<1>2. HasIdentifier(m) => joinerUuid[m] \notin view[m].ids
  BY DEF IInv, IdentifiersFresh, AdmissionNotRefused
<1>3. view'[m] = NewView(m, d.cut) /\ d.cut \in {"joiner", "other"}
  BY ApplyFields
<1> QED
  BY <1>1, <1>2, <1>3, NewViewFields

\* Only Apply changes a view, and only Decide adds a decision.
LEMMA ViewsStay ==
    ASSUME Next
    PROVE  Applies \/ UNCHANGED <<view, applied>>
<1>1. CASE JoinerSteps
  BY <1>1 DEF JoinerSteps, Receives, TimesOut, memberVars, Phase1, Phase1Fails,
     ReceiveReply, Timeout, Retry, Restart
<1> QED
  BY <1>1, NextByKind DEF Parks, Rejects, Alerted, Decides, memberVars, ParkJoin, RejectJoin,
     HandleAlert, Decide

\* Only a decision changes what is decided.
LEMMA DecisionsStay ==
    ASSUME Next
    PROVE  Decides \/ UNCHANGED decided
<1>1. CASE JoinerSteps
  BY <1>1 DEF JoinerSteps, Receives, TimesOut, memberVars, Phase1, Phase1Fails,
     ReceiveReply, Timeout, Retry, Restart
<1> QED
  BY <1>1, NextByKind DEF Parks, Rejects, Alerted, Applies, memberVars, ParkJoin, RejectJoin,
     HandleAlert, Apply

\* The number of restarts that the bound counts.
LEMMA RestartCount == Cardinality({TRUE} \cap {restarted}) \in Nat
<1>1. IsFiniteSet({TRUE} \cap {restarted})
  <2>1. IsFiniteSet({TRUE})
    BY FS_Singleton
  <2>2. {TRUE} \cap {restarted} \in SUBSET {TRUE}
    OBVIOUS
  <2> QED
    BY <2>1, <2>2, FS_Subset
<1> QED
  BY <1>1, FS_CardinalityType

\* Every step keeps the count of other view changes, and so its bound.
LEMMA CountedKept ==
    ASSUME IInv, Next
    PROVE  /\ Counted'
           /\ \A m \in Members : view'[m].others \in 0 .. MaxEvents
<1>1. Counted /\ MemberTypes /\ decided \in SUBSET decided
  BY TypeParts DEF IInv
<1>2. IsFiniteSet(decided') /\ Cardinality(OtherCuts(decided')) <= MaxEvents
  <2>1. CASE Decides
    <3>1. PICK m \in Members, cut \in {"joiner", "other"} : Decide(view[m], cut)
      BY <2>1 DEF Decides
    <3>2. PICK d : d = [config |-> view[m], cut |-> cut]
      OBVIOUS
    <3>3. decided' = decided \cup {d} /\ (cut = "other" => EventLeft) /\ d.cut = cut
      BY <3>1, <3>2 DEF Decide
    <3>4. IsFiniteSet(OtherCuts(decided)) /\ Cardinality(OtherCuts(decided)) \in Nat
      <4>1. OtherCuts(decided) \in SUBSET decided
        BY DEF OtherCuts
      <4> QED
        BY <1>1, <4>1, FS_Subset, FS_CardinalityType DEF Counted
    <3>5. OtherCuts(decided') = IF cut = "other" THEN OtherCuts(decided) \cup {d}
                                ELSE OtherCuts(decided)
      BY <3>3 DEF OtherCuts
    <3>6. IsFiniteSet(decided')
      BY <1>1, <3>3, FS_AddElement DEF Counted
    <3>7. CASE cut = "other"
      <4>1. Cardinality(OtherCuts(decided)) < MaxEvents
        BY <3>3, <3>4, <3>7, RestartCount, BoundsNat DEF EventLeft, OtherCuts
      <4>2. Cardinality(OtherCuts(decided) \cup {d})
              = IF d \in OtherCuts(decided) THEN Cardinality(OtherCuts(decided))
                ELSE Cardinality(OtherCuts(decided)) + 1
        BY <3>4, FS_AddElement
      <4> QED
        BY <3>4, <3>5, <3>6, <3>7, <4>1, <4>2, BoundsNat
    <3>8. CASE cut # "other"
      BY <1>1, <3>5, <3>6, <3>8 DEF Counted
    <3> QED
      BY <3>7, <3>8
  <2>2. CASE UNCHANGED decided
    BY <1>1, <2>2 DEF Counted
  <2> QED
    BY <2>1, <2>2, DecisionsStay
<1>3. \A n \in Members : applied[n] \in SUBSET decided
  BY <1>1 DEF MemberTypes
<1>4. ASSUME NEW n \in Members
      PROVE  IsFiniteSet(applied[n]) /\ IsFiniteSet(OtherCuts(applied[n]))
  <2>1. IsFiniteSet(applied[n])
    BY <1>1, <1>3, FS_Subset DEF Counted
  <2>2. OtherCuts(applied[n]) \in SUBSET applied[n]
    BY DEF OtherCuts
  <2> QED
    BY <2>1, <2>2, FS_Subset
<1>5. ASSUME NEW n \in Members
      PROVE  view'[n].others = Cardinality(OtherCuts(applied'[n]))
  <2>1. CASE UNCHANGED <<view, applied>>
    BY <1>1, <2>1 DEF Counted
  <2>2. CASE Applies
    <3>1. PICK m \in Members, d \in decided : Apply(m, d)
      BY <2>2 DEF Applies
    <3>2. CASE n # m
      BY <1>1, <3>1, <3>2, ApplyFields DEF Counted
    <3>3. CASE n = m
      <4>1. /\ applied'[n] = applied[n] \cup {d} /\ d \notin applied[n]
            /\ view'[n] = NewView(n, d.cut) /\ d.cut \in {"joiner", "other"}
        BY <3>1, <3>3, ApplyFields
      <4>2. /\ view[n].others \in Nat
            /\ view'[n].others = IF d.cut = "other" THEN view[n].others + 1
                                 ELSE view[n].others
        BY <3>1, <3>3, AppliedView DEF LeadsTo
      <4>3. /\ OtherCuts(applied'[n]) = IF d.cut = "other" THEN OtherCuts(applied[n]) \cup {d}
                                        ELSE OtherCuts(applied[n])
            /\ d \notin OtherCuts(applied[n])
        BY <4>1 DEF OtherCuts
      <4>4. Cardinality(OtherCuts(applied[n]) \cup {d})
              = Cardinality(OtherCuts(applied[n])) + 1
        BY <1>4, <4>3, FS_AddElement
      <4>5. view[n].others = Cardinality(OtherCuts(applied[n]))
        BY <1>1 DEF Counted
      <4> QED
        BY <4>2, <4>3, <4>4, <4>5
    <3> QED
      BY <3>2, <3>3
  <2> QED
    BY <2>1, <2>2, ViewsStay
<1>6. ASSUME NEW n \in Members PROVE applied'[n] \in SUBSET decided'
  <2>1. decided \subseteq decided'
    BY DecisionsStay DEF Decides, Decide
  <2>2. CASE UNCHANGED <<view, applied>>
    BY <1>3, <2>1, <2>2
  <2>3. CASE Applies
    <3>1. PICK m \in Members, d \in decided : Apply(m, d)
      BY <2>3 DEF Applies
    <3> QED
      BY <1>3, <2>1, <3>1, ApplyFields
  <2> QED
    BY <2>2, <2>3, ViewsStay
<1>7. ASSUME NEW n \in Members PROVE view'[n].others \in 0 .. MaxEvents
  <2>1. OtherCuts(applied'[n]) \in SUBSET OtherCuts(decided')
    BY <1>6 DEF OtherCuts
  <2>2. OtherCuts(decided') \in SUBSET decided'
    BY DEF OtherCuts
  <2>3. IsFiniteSet(OtherCuts(decided'))
    BY <1>2, <2>2, FS_Subset
  <2>4. /\ Cardinality(OtherCuts(applied'[n])) \in Nat
        /\ Cardinality(OtherCuts(applied'[n])) <= Cardinality(OtherCuts(decided'))
        /\ Cardinality(OtherCuts(decided')) \in Nat
    BY <2>1, <2>3, FS_Subset, FS_CardinalityType
  <2> QED
    BY <1>2, <1>5, <2>4, BoundsNat
<1> QED
  BY <1>2, <1>5, <1>7 DEF Counted

\* A reply that was not there before answers the waiting call: it comes from a member
\* that rejects the message, or from one that admits the joiner.
Rejected(r, m, msg) ==
    /\ msg.call = ThisCall /\ m \in joiner.waiting
    /\ r = [from |-> m, safe |-> AlreadyAdmitted(m, msg), config |-> view[m], ids |-> {}]

Released(r, m) ==
    /\ ThisCall \in parked[m] /\ m \in joiner.waiting
    /\ r = [from |-> m, safe |-> TRUE, config |-> view'[m], ids |-> view'[m].ids]

\* A new reply comes from a rejected join, or from a view change that releases it.
LEMMA NewReplies ==
    ASSUME IInv, Next, NEW r \in replies', r \notin replies
    PROVE  \/ \E msg \in joins : RejectJoin(msg.to, msg) /\ Rejected(r, msg.to, msg)
           \/ \E m \in Members, d \in decided :
                 Apply(m, d) /\ d.cut = "joiner" /\ Released(r, m)
<1>1. CASE JoinerSteps
  BY <1>1 DEF JoinerSteps, Receives, TimesOut, networkVars, Phase1, Phase1Fails,
     ReceiveReply, Timeout, Retry, Restart
<1>2. CASE Parks \/ Alerted \/ Decides
  BY <1>2 DEF Parks, Alerted, Decides, networkVars, ParkJoin, HandleAlert, Decide
<1>3. CASE Rejects
  <2>1. PICK msg \in joins : RejectJoin(msg.to, msg)
    BY <1>3 DEF Rejects
  <2>2. r \in Deliver(msg.to, {msg.call}, AlreadyAdmitted(msg.to, msg), view[msg.to], {})
    BY <2>1 DEF RejectJoin
  <2>3. Rejected(r, msg.to, msg)
    BY <2>2 DEF Deliver, Rejected
  <2> QED
    BY <2>1, <2>3
<1>4. CASE Applies
  <2>1. PICK m \in Members, d \in decided : Apply(m, d)
    BY <1>4 DEF Applies
  <2>2. /\ d.cut = "joiner"
        /\ r \in Deliver(m, parked[m], TRUE, NewView(m, d.cut), NewView(m, d.cut).ids)
    BY <2>1 DEF Apply
  <2>3. view'[m] = NewView(m, d.cut)
    BY <2>1, ApplyFields
  <2>4. Released(r, m)
    BY <2>2, <2>3 DEF Deliver, Released
  <2> QED
    BY <2>1, <2>2, <2>4
<1> QED
  BY <1>1, <1>2, <1>3, <1>4, NextByKind

\* The requests that phase 1 leads to, and the alert that a parked one leads to.
LEMMA NewRequests ==
    ASSUME Next, NEW msg \in joins', msg \notin joins
    PROVE  /\ Phase1
           /\ msg.to \in HandlePreJoin(Seed, joiner.id).observers
           /\ msg = [to |-> msg.to, call |-> ThisCall, config |-> msg.config]
           /\ msg.config = IF HandlePreJoin(Seed, joiner.id).status = "HostnameAlreadyInRing"
                             THEN NoConfig ELSE HandlePreJoin(Seed, joiner.id).config
<1>1. CASE Phase1
  BY <1>1 DEF Phase1
<1>2. CASE JoinerSteps /\ ~Phase1
  BY <1>2 DEF JoinerSteps, Receives, TimesOut, networkVars, Phase1Fails, ReceiveReply,
     Timeout, Retry, Restart
<1>3. CASE Parks \/ Rejects \/ Alerted \/ Decides \/ Applies
  BY <1>3 DEF Parks, Rejects, Alerted, Decides, Applies, networkVars, ParkJoin, RejectJoin,
     HandleAlert, Decide, Apply
<1> QED
  BY <1>1, <1>2, <1>3, NextByKind

\* A new alert comes from a join that is parked, for the view of its observer.
LEMMA NewAlerts ==
    ASSUME Next
    PROVE  \/ UNCHANGED alerts
           \/ \E msg \in joins :
                 /\ ParkJoin(msg.to, msg)
                 /\ alerts' = alerts \cup
                       {[src |-> msg.to, id |-> msg.call.id, config |-> view[msg.to]]}
<1>1. CASE JoinerSteps
  BY <1>1 DEF JoinerSteps, Receives, TimesOut, networkVars, Phase1, Phase1Fails,
     ReceiveReply, Timeout, Retry, Restart
<1> QED
  BY <1>1, NextByKind DEF Parks, Rejects, Alerted, Decides, Applies, networkVars, ParkJoin,
     RejectJoin, HandleAlert, Decide, Apply

\* A request whose configuration is that of a member was drawn for it.
LEMMA SameConfigurationFacts ==
    ASSUME IInv, NEW msg \in joins
    PROVE  /\ msg.to \in Members /\ msg.to \in Observers /\ msg.call \in Call
           /\ msg.call.id \in Ids /\ view[msg.to] \in View
           /\ SameConfiguration(msg.to, msg) =>
                 Fresh(msg.call.id, view[msg.to]) /\ msg.config # NoConfig
<1>1. /\ msg.to \in Observers /\ msg.call \in Call
  BY TypeParts DEF IInv, MessageTypes
<1>2. msg.to \in Members /\ view[msg.to] \in View /\ msg.call.id \in Ids
  BY <1>1, MembersFinite, TypeParts DEF IInv, MemberTypes, Call
<1>3. SameConfiguration(msg.to, msg) => msg.config # NoConfig
  BY <1>2, NoConfigOutside DEF SameConfiguration
<1> QED
  BY <1>1, <1>2, <1>3 DEF IInv, IdentifiersFresh, SameConfiguration

\* Every step keeps the types of what members hold.
LEMMA MemberTypesKept ==
    ASSUME IInv, Next
    PROVE  MemberTypes'
<1>0. MemberTypes
  BY TypeParts DEF IInv
<1>1. CASE JoinerSteps \/ Rejects
  BY <1>0, <1>1 DEF MemberTypes, Rejects, RejectJoin, JoinerSteps, Receives, TimesOut,
     memberVars, networkVars, Phase1, Phase1Fails, ReceiveReply, Timeout, Retry, Restart
<1>2. CASE Parks
  <2>1. PICK msg \in joins : ParkJoin(msg.to, msg)
    BY <1>2 DEF Parks
  <2>2. /\ msg.to \in Members /\ msg.to \in Observers /\ msg.call \in Call
        /\ msg.call.id \in Ids /\ view[msg.to] \in View
    BY SameConfigurationFacts
  <2> QED
    BY <1>0, <2>1, <2>2 DEF ParkJoin, MemberTypes
<1>3. CASE Alerted
  <2>1. PICK m \in Members, a \in alerts : HandleAlert(m, a)
    BY <1>3 DEF Alerted
  <2>2. a.id \in Ids
    BY <1>0 DEF MemberTypes
  <2> QED
    BY <1>0, <2>1, <2>2 DEF HandleAlert, MemberTypes, networkVars
<1>4. CASE Decides
  <2>1. PICK m \in Members, cut \in {"joiner", "other"} : Decide(view[m], cut)
    BY <1>4 DEF Decides
  <2>2. [config |-> view[m], cut |-> cut] \in [config : View, cut : {"joiner", "other"}]
    BY <1>0 DEF MemberTypes
  <2> QED
    BY <1>0, <2>1, <2>2 DEF Decide, MemberTypes, memberVars, networkVars
<1>5. CASE Applies
  <2>1. PICK m \in Members, d \in decided : Apply(m, d)
    BY <1>5 DEF Applies
  <2>2. view'[m] \in View
    <3>1. LeadsTo(m, d.cut, view'[m]) /\ view'[m].others \in 0 .. MaxEvents
      BY <2>1, AppliedView, CountedKept
    <3> QED
      BY <3>1 DEF LeadsTo, View
  <2>3. view' = [view EXCEPT ![m] = view'[m]]
    BY <1>0, <2>1, ApplyFields DEF Apply
  <2>4. view' \in [Members -> View]
    BY <1>0, <2>2, <2>3 DEF MemberTypes
  <2>5. IdentifierAfter(m, d.cut) \in Ids \cup {NoId}
    BY <1>0 DEF MemberTypes, IdentifierAfter
  <2>6. /\ joinerUuid' = [joinerUuid EXCEPT ![m] = IdentifierAfter(m, d.cut)]
        /\ applied' = [applied EXCEPT ![m] = @ \cup {d}]
        /\ reports' = [reports EXCEPT ![m] = {}]
        /\ parked' = parked \/ parked' = [parked EXCEPT ![m] = {}]
        /\ UNCHANGED <<alerts, decided>>
    BY <2>1 DEF Apply
  <2> QED
    BY <1>0, <2>4, <2>5, <2>6 DEF MemberTypes
<1> QED
  BY <1>1, <1>2, <1>3, <1>4, <1>5, NextByKind

\* Every step keeps the types of the flags.
LEMMA FlagsKept ==
    ASSUME IInv, Next
    PROVE  Flags'
<1>0. Flags
  BY TypeParts DEF IInv
<1>1. CASE JoinerSteps \/ Rejects
  BY <1>0, <1>1 DEF Flags, Rejects, RejectJoin, JoinerSteps, Receives, TimesOut,
     memberVars, Phase1, Phase1Fails, ReceiveReply, Timeout, Retry, Restart
<1>2. CASE Parks \/ Decides
  BY <1>0, <1>2 DEF Flags, Parks, ParkJoin, Decides, Decide, memberVars
<1>3. CASE Alerted
  <2>1. PICK m \in Members, a \in alerts : HandleAlert(m, a)
    BY <1>3 DEF Alerted
  <2>2. PICK b \in BOOLEAN : b = (Tally(reports[m] \cup {a}) >= H)
    <3>1. \A q \in reports[m] \cup {a} : q.src \in Members
      BY MembersFinite, TypeParts DEF IInv, MemberTypes
    <3>2. {q.src : q \in reports[m] \cup {a}} \in SUBSET Members
      BY <3>1
    <3>3. Tally(reports[m] \cup {a}) \in Nat
      BY <3>2, MembersFinite, FS_Subset, FS_CardinalityType DEF Tally
    <3>4. PICK t \in Nat : t = Tally(reports[m] \cup {a})
      BY <3>3
    <3>5. (t >= H) = TRUE \/ (t >= H) = FALSE
      BY BoundsNat
    <3> QED
      BY <3>4, <3>5, Zenon
  <2>3. announced' = [announced EXCEPT ![m] = b] /\ UNCHANGED <<restarted, skipped>>
    BY <2>1, <2>2 DEF HandleAlert
  <2> QED
    BY <1>0, <2>3 DEF Flags
<1>4. CASE Applies
  <2>1. PICK m \in Members, d \in decided : Apply(m, d)
    BY <1>4 DEF Applies
  <2>2. announced' = [announced EXCEPT ![m] = FALSE] /\ UNCHANGED restarted
    BY <2>1 DEF Apply
  <2>3. skipped' \in BOOLEAN
    BY <1>0, <2>1 DEF Apply, Flags
  <2> QED
    BY <1>0, <2>2, <2>3 DEF Flags
<1> QED
  BY <1>1, <1>2, <1>3, <1>4, NextByKind

\* Every step keeps the type of the joiner, and only its own steps change it.
LEMMA JoinerTypeKept ==
    ASSUME IInv, Next
    PROVE  joiner' \in JoinerType /\ (~JoinerSteps => UNCHANGED joiner)
<1>1. joiner \in JoinerType /\ TypeOK
  BY TypeParts DEF IInv
<1>2. ~JoinerSteps => UNCHANGED joiner
  BY NextByKind DEF Parks, Rejects, Alerted, Decides, Applies, ParkJoin,
     RejectJoin, HandleAlert, Decide, Apply
<1> QED
  BY <1>1, <1>2, JoinerFields

\* Every step keeps the types of the messages.
LEMMA MessageTypesKept ==
    ASSUME IInv, Next
    PROVE  MessageTypes'
<1>0. MessageTypes /\ MemberTypes /\ joiner \in JoinerType
  BY TypeParts DEF IInv
<1>1. ASSUME NEW msg \in joins'
      PROVE  msg \in [to : Observers, call : Call, config : View \cup {NoConfig}]
  <2>1. CASE msg \in joins
    BY <1>0, <2>1 DEF MessageTypes
  <2>2. CASE msg \notin joins
    <3>1. /\ HandlePreJoin(Seed, joiner.id).observers \in {{}, Observers}
          /\ HandlePreJoin(Seed, joiner.id).config \in View
      BY <1>0, MembersFinite DEF HandlePreJoin, MemberTypes
    <3>2. ThisCall \in Call
      BY <1>0 DEF JoinerType, ThisCall, Call
    <3> QED
      BY <2>2, <3>1, <3>2, NewRequests
  <2> QED
    BY <2>1, <2>2
<1>2. ASSUME NEW r \in replies' PROVE r \in ReplyType
  <2>1. CASE r \in replies
    BY <1>0, <2>1 DEF MessageTypes
  <2>2. ASSUME NEW msg \in joins, Rejected(r, msg.to, msg) PROVE r \in ReplyType
    <3>1. msg.to \in Observers /\ view[msg.to] \in View
      BY SameConfigurationFacts
    <3>2. PICK b \in BOOLEAN : b = AlreadyAdmitted(msg.to, msg)
      BY DEF AlreadyAdmitted
    <3>3. r = [from |-> msg.to, safe |-> b, config |-> view[msg.to], ids |-> {}]
      BY <2>2, <3>2 DEF Rejected
    <3> QED
      BY <3>1, <3>3 DEF ReplyType
  <2>3. ASSUME NEW m \in Members, Released(r, m) PROVE r \in ReplyType
    <3>1. m \in Observers
      BY <1>0, <2>3 DEF Released, JoinerType
    <3>2. view'[m] \in View /\ view'[m].ids \in SUBSET Ids
      BY MemberTypesKept DEF MemberTypes, View
    <3> QED
      BY <2>3, <3>1, <3>2 DEF ReplyType, Released
  <2> QED
    BY <2>1, <2>2, <2>3, NewReplies
<1> QED
  BY <1>1, <1>2 DEF MessageTypes

\* Every step keeps TypeOK.
LEMMA TypesKept ==
    ASSUME IInv, Next
    PROVE  TypeOK'
<1>1. MemberTypes' /\ MessageTypes' /\ Flags' /\ joiner' \in JoinerType
  BY MemberTypesKept, MessageTypesKept, FlagsKept, JoinerTypeKept
<1>2. TypeOK' <=> (MemberTypes /\ MessageTypes /\ Flags /\ joiner \in JoinerType)'
  BY TypeParts, PTL
<1> QED
  BY <1>1, <1>2 DEF JoinerType

-----------------------------------------------------------------------------
(* The joiner and its calls.                                               *)

\* Every step keeps the waiting calls those of phase 2.
LEMMA JoinerWaitsKept ==
    ASSUME IInv, Next
    PROVE  JoinerWaits'
<1>0. JoinerWaits /\ TypeOK
  BY DEF IInv
<1>1. CASE ~JoinerSteps
  <2>1. UNCHANGED joiner
    BY <1>1, JoinerTypeKept
  <2>2. ASSUME NEW r \in replies' PROVE r.from \in joiner.waiting
    <3>1. CASE r \in replies
      BY <1>0, <3>1 DEF JoinerWaits
    <3>2. CASE r \notin replies
      BY <3>2, NewReplies DEF Rejected, Released
    <3> QED
      BY <3>1, <3>2
  <2> QED
    BY <1>0, <2>1, <2>2 DEF JoinerWaits
<1>2. CASE Phase1
  <2>1. joiner.waiting = {} /\ replies = {} /\ UNCHANGED replies
    BY <1>0, <1>2 DEF JoinerWaits, Phase1
  <2>2. joiner'.pc = "phase2"
    BY <1>0, <1>2, TypeParts DEF Phase1, JoinerType
  <2> QED
    BY <2>1, <2>2 DEF JoinerWaits
<1>3. CASE Phase1Fails
  <2>1. joiner'.waiting = joiner.waiting /\ joiner.waiting = {} /\ UNCHANGED replies
    BY <1>0, <1>3, TypeParts DEF Phase1Fails, JoinerType, networkVars, JoinerWaits
  <2> QED
    BY <1>0, <2>1 DEF JoinerWaits
<1>4. CASE Receives
  <2>1. PICK r \in replies : ReceiveReply(r)
    BY <1>4 DEF Receives
  <2>2. CASE joiner' = Bootstrapped(r) /\ replies' = {}
    <3>1. joiner'.waiting = {}
      BY <1>0, <2>2, TypeParts DEF Bootstrapped, JoinerType
    <3> QED
      BY <2>2, <3>1 DEF JoinerWaits
  <2>3. CASE /\ joiner' = [joiner EXCEPT !.waiting = @ \ {r.from}]
             /\ replies' = {q \in replies : q.from # r.from}
    <3>1. joiner'.waiting = joiner.waiting \ {r.from} /\ joiner'.pc = joiner.pc
      BY <1>0, <2>3, TypeParts DEF JoinerType
    <3> QED
      BY <1>0, <2>3, <3>1 DEF JoinerWaits
  <2> QED
    BY <2>1, <2>2, <2>3 DEF ReceiveReply
<1>5. CASE TimesOut
  <2>1. PICK o \in Observers : Timeout(o)
    BY <1>5 DEF TimesOut
  <2>2. joiner'.waiting = joiner.waiting \ {o} /\ joiner'.pc = joiner.pc
    BY <1>0, <2>1, TypeParts DEF JoinerType, Timeout
  <2> QED
    BY <1>0, <2>1, <2>2 DEF JoinerWaits, Timeout
<1>6. CASE Retry
  <2>1. UNCHANGED replies /\ joiner.waiting = {}
    BY <1>6 DEF Retry, networkVars
  <2>2. joiner'.waiting = {}
    BY <1>0, <1>6, TypeParts DEF Retry, JoinerType
  <2> QED
    BY <1>0, <2>1, <2>2 DEF JoinerWaits
<1>7. CASE Restart
  BY <1>7 DEF Restart, JoinerWaits
<1> QED
  BY <1>1, <1>2, <1>3, <1>4, <1>5, <1>6, <1>7 DEF JoinerSteps

\* The identifiers of a view never shrink.
LEMMA IdentifiersGrow ==
    ASSUME IInv, Next, NEW m \in Members
    PROVE  view[m].ids \subseteq view'[m].ids
<1>1. CASE UNCHANGED <<view, applied>>
  BY <1>1
<1>2. CASE Applies
  <2>1. PICK n \in Members, d \in decided : Apply(n, d)
    BY <1>2 DEF Applies
  <2>2. CASE m = n
    BY <2>1, <2>2, AppliedView DEF LeadsTo
  <2>3. CASE m # n
    BY <2>1, <2>3, ApplyFields
  <2> QED
    BY <2>2, <2>3
<1> QED
  BY <1>1, <1>2, ViewsStay

\* What phase 1 finds out about the identifier.
LEMMA Phase1Facts ==
    ASSUME NEW p, p = HandlePreJoin(Seed, joiner.id)
    PROVE  /\ p.config = view[Seed]
           /\ p.status = "UuidAlreadyInRing" => joiner.id \in view[Seed].ids
           /\ p.observers # {} /\ p.status # "HostnameAlreadyInRing"
                => Fresh(joiner.id, view[Seed])
BY DEF HandlePreJoin, IsSafeToJoin, Fresh

\* The joiner's identifier, and those it used before.
LEMMA JoinerIdentifier ==
    ASSUME IInv, Next
    PROVE  /\ joiner'.uuidTaken => joiner'.id \in view'[Seed].ids
           /\ ~restarted' => Follows(joiner'.id, view'[Seed])
<1>0. TypeOK /\ Seed \in Members /\ joiner \in JoinerType
  BY MembersFinite, TypeParts DEF IInv
<1>1. view[Seed].ids \subseteq view'[Seed].ids
  BY <1>0, IdentifiersGrow
<1>2. /\ joiner.uuidTaken => joiner.id \in view[Seed].ids
      /\ ~restarted => \A j \in 1 .. joiner.id - 1 : j \in view[Seed].ids
  BY DEF IInv, IdentifiersFresh, IdentifiersFollow, Follows
<1>3. joiner.id \in Nat /\ joiner.id >= 1
  BY <1>0 DEF JoinerType, Ids
<1>4. ~restarted' => ~restarted
  <2>1. CASE JoinerSteps
    BY <2>1 DEF JoinerSteps, Receives, TimesOut, Phase1, Phase1Fails, ReceiveReply,
       Timeout, Retry, Restart
  <2> QED
    BY <2>1, NextByKind DEF Parks, Rejects, Alerted, Decides, Applies, ParkJoin,
       RejectJoin, HandleAlert, Decide, Apply
<1>5. CASE joiner'.id = joiner.id
  <2>1. joiner'.uuidTaken => joiner'.id \in view'[Seed].ids
    <3>1. CASE JoinerSteps
      <4>1. CASE Phase1
        <5>1. UNCHANGED view
          BY <4>1 DEF Phase1, memberVars
        <5>2. joiner'.uuidTaken = (HandlePreJoin(Seed, joiner.id).status = "UuidAlreadyInRing")
          BY <1>0, <3>1, <4>1, JoinerFields
             DEF Phase1, Phase1Fails, Receives, ReceiveReply, TimesOut, Timeout, Retry, Restart
        <5> QED
          BY <1>5, <5>1, <5>2, Phase1Facts
      <4>2. CASE ~Phase1
        BY <1>0, <1>1, <1>2, <1>5, <3>1, <4>2, JoinerFields
      <4> QED
        BY <4>1, <4>2
    <3>2. CASE ~JoinerSteps
      BY <1>1, <1>2, <3>2, JoinerTypeKept
    <3> QED
      BY <3>1, <3>2
  <2>2. ~restarted' => \A j \in 1 .. joiner'.id - 1 : j \in view'[Seed].ids
    BY <1>1, <1>2, <1>4, <1>5
  <2> QED
    BY <2>1, <2>2 DEF Follows
<1>6. CASE joiner'.id # joiner.id
  <2>1. JoinerSteps
    BY <1>6, JoinerTypeKept
  <2>2. CASE Retry /\ joiner'.id = NextId /\ joiner'.uuidTaken = FALSE
    <3>1. joiner.uuidTaken /\ joiner'.id = joiner.id + 1
      BY <1>6, <2>2 DEF NextId
    <3>2. joiner.id \in view[Seed].ids
      BY <1>2, <3>1
    <3>3. ASSUME ~restarted', NEW j \in 1 .. joiner'.id - 1 PROVE j \in view'[Seed].ids
      <4>1. j \in 1 .. joiner.id - 1 \/ j = joiner.id
        BY <1>3, <3>1
      <4> QED
        BY <1>1, <1>2, <1>4, <3>2, <3>3, <4>1
    <3> QED
      BY <2>2, <3>3 DEF Follows
  <2>3. CASE Restart /\ joiner'.uuidTaken = FALSE /\ restarted' = TRUE
    BY <2>3
  <2> QED
    BY <1>0, <1>6, <2>1, <2>2, <2>3, JoinerFields
<1> QED
  BY <1>5, <1>6

\* A flag of the past stays set.
LEMMA HistoryStays ==
    ASSUME IInv, Next
    PROVE  (~restarted' => ~restarted) /\ (~skipped' => ~skipped)
<1>0. restarted \in BOOLEAN /\ skipped \in BOOLEAN
  BY TypeParts DEF IInv, Flags
<1>1. CASE JoinerSteps
  BY <1>0, <1>1 DEF JoinerSteps, Receives, TimesOut, Phase1, Phase1Fails, ReceiveReply,
     Timeout, Retry, Restart
<1>2. CASE Applies
  <2>1. PICK m \in Members, d \in decided : Apply(m, d)
    BY <1>2 DEF Applies
  <2>2. /\ UNCHANGED restarted
        /\ \/ skipped' = (skipped \/ (~view[m].present /\ ~HasIdentifier(m)))
           \/ UNCHANGED skipped
    BY <2>1 DEF Apply
  <2> QED
    BY <1>0, <2>2
<1> QED
  BY <1>0, <1>1, <1>2, NextByKind DEF Parks, Rejects, Alerted, Decides, ParkJoin,
     RejectJoin, HandleAlert, Decide

-----------------------------------------------------------------------------
(* Identifiers on their way.                                               *)

\* After a step, a phase-2 message still carries an identifier for its configuration.
LEMMA RequestsSuit ==
    ASSUME IInv, Next, NEW msg \in joins', msg.config # NoConfig
    PROVE  /\ Fresh(msg.call.id, msg.config)
           /\ ~restarted' => Follows(msg.call.id, msg.config)
<1>1. CASE msg \in joins
  BY <1>1, HistoryStays DEF IInv, IdentifiersFresh, IdentifiersFollow
<1>2. CASE msg \notin joins
  <2>1. PICK p : p = HandlePreJoin(Seed, joiner.id)
    OBVIOUS
  <2>2. /\ msg.to \in p.observers /\ msg.call = ThisCall /\ p.config = view[Seed]
        /\ p.status # "HostnameAlreadyInRing" /\ msg.config = p.config
    BY <1>2, <2>1, NewRequests, Phase1Facts
  <2>3. msg.call.id = joiner.id
    BY <2>2 DEF ThisCall
  <2>4. Fresh(joiner.id, view[Seed])
    BY <2>1, <2>2, Phase1Facts
  <2>5. ~restarted' => Follows(joiner.id, view[Seed])
    BY HistoryStays DEF IInv, IdentifiersFollow
  <2> QED
    BY <2>2, <2>3, <2>4, <2>5
<1> QED
  BY <1>1, <1>2

\* After a step, so does an alert.
LEMMA AlertsSuit ==
    ASSUME IInv, Next, NEW a \in alerts'
    PROVE  Fresh(a.id, a.config) /\ (~restarted' => Follows(a.id, a.config))
<1>1. CASE a \in alerts
  BY <1>1, HistoryStays DEF IInv, IdentifiersFresh, IdentifiersFollow
<1>2. CASE a \notin alerts
  <2>1. PICK msg \in joins :
            /\ ParkJoin(msg.to, msg)
            /\ a = [src |-> msg.to, id |-> msg.call.id, config |-> view[msg.to]]
    BY <1>2, NewAlerts
  <2>2. SameConfiguration(msg.to, msg)
    BY <2>1 DEF ParkJoin
  <2>3. Fresh(msg.call.id, view[msg.to]) /\ msg.config # NoConfig /\ view[msg.to] = msg.config
    BY <2>2, SameConfigurationFacts DEF SameConfiguration
  <2>4. ~restarted' => Follows(msg.call.id, view[msg.to])
    BY <2>3, HistoryStays DEF IInv, IdentifiersFollow
  <2> QED
    BY <2>1, <2>3, <2>4
<1> QED
  BY <1>1, <1>2

\* Follows and Fresh only look at these fields.
LEMMA SameFields ==
    ASSUME NEW v, NEW w, w.ids = v.ids, NEW i
    PROVE  /\ Follows(i, v) => Follows(i, w)
           /\ w.present = v.present => (Fresh(i, v) => Fresh(i, w))
BY DEF Follows, Fresh

\* After a step, so does a parked call, and the member has an identifier it may admit.
LEMMA ParkedSuit ==
    ASSUME IInv, Next, NEW m \in Members
    PROVE  /\ \A c \in parked'[m] : /\ Fresh(c.id, view'[m]) /\ joinerUuid'[m] # NoId
                                    /\ ~restarted' => Follows(c.id, view'[m])
           /\ joinerUuid'[m] # NoId =>
                 /\ joinerUuid'[m] \notin view'[m].ids
                 /\ ~restarted' => Follows(joinerUuid'[m], view'[m])
<1>0. /\ \A c \in parked[m] : /\ Fresh(c.id, view[m]) /\ joinerUuid[m] # NoId
                              /\ ~restarted' => Follows(c.id, view[m])
      /\ joinerUuid[m] # NoId =>
            /\ joinerUuid[m] \notin view[m].ids
            /\ ~restarted' => Follows(joinerUuid[m], view[m])
  BY HistoryStays DEF IInv, IdentifiersFresh, IdentifiersFollow, AdmissionNotRefused,
     HasIdentifier
<1>00. MemberTypes /\ NoId \notin Ids
  BY TypeParts DEF IInv, NoId, Ids
<1>1. CASE JoinerSteps \/ Rejects \/ Decides
  <2>1. UNCHANGED <<view, joinerUuid, parked>>
    BY <1>1 DEF Rejects, RejectJoin, JoinerSteps, Receives, TimesOut, Decides, Decide,
       memberVars, Phase1, Phase1Fails, ReceiveReply, Timeout, Retry, Restart
  <2> QED
    BY <1>0, <2>1
<1>2. CASE Parks
  <2>1. PICK msg \in joins : ParkJoin(msg.to, msg)
    BY <1>2 DEF Parks
  <2>2. SameConfiguration(msg.to, msg) /\ UNCHANGED view
    BY <2>1 DEF ParkJoin
  <2>3. /\ Fresh(msg.call.id, view[msg.to]) /\ msg.config # NoConfig
        /\ view[msg.to] = msg.config /\ msg.call.id \in Ids /\ msg.to \in Members
    BY <2>2, SameConfigurationFacts DEF SameConfiguration
  <2>4. ~restarted' => Follows(msg.call.id, view[msg.to])
    BY <2>3, HistoryStays DEF IInv, IdentifiersFollow
  <2>5. CASE m # msg.to
    <3>1. parked'[m] = parked[m] /\ joinerUuid'[m] = joinerUuid[m]
      BY <1>00, <2>1, <2>5 DEF ParkJoin, MemberTypes
    <3> QED
      BY <1>0, <2>2, <3>1
  <2>6. CASE m = msg.to
    <3>1. parked'[m] = parked[m] \cup {msg.call} /\ joinerUuid'[m] = msg.call.id
      BY <1>00, <2>1, <2>6 DEF ParkJoin, MemberTypes
    <3> QED
      BY <1>0, <1>00, <2>2, <2>3, <2>4, <2>6, <3>1 DEF Fresh
  <2> QED
    BY <2>5, <2>6
<1>3. CASE Alerted
  <2>1. PICK n \in Members, a \in alerts : HandleAlert(n, a)
    BY <1>3 DEF Alerted
  <2>2. UNCHANGED <<view, parked>> /\ a.config = view[n]
    BY <2>1 DEF HandleAlert
  <2>3. /\ Fresh(a.id, view[n]) /\ (~restarted' => Follows(a.id, view[n]))
        /\ a.id \in Ids
    BY <1>00, <2>2, HistoryStays
       DEF IInv, IdentifiersFresh, IdentifiersFollow, MemberTypes
  <2>4. CASE m # n
    <3>1. joinerUuid'[m] = joinerUuid[m]
      BY <1>00, <2>1, <2>4 DEF HandleAlert, MemberTypes
    <3> QED
      BY <1>0, <2>2, <3>1
  <2>5. CASE m = n
    <3>1. joinerUuid'[m] = a.id
      BY <1>00, <2>1, <2>5 DEF HandleAlert, MemberTypes
    <3> QED
      BY <1>0, <1>00, <2>2, <2>3, <2>5, <3>1 DEF Fresh
  <2> QED
    BY <2>4, <2>5
<1>4. CASE Applies
  <2>1. PICK n \in Members, d \in decided : Apply(n, d)
    BY <1>4 DEF Applies
  <2>2. CASE m # n
    <3>1. view'[m] = view[m] /\ parked'[m] = parked[m] /\ joinerUuid'[m] = joinerUuid[m]
      BY <2>1, <2>2, ApplyFields
    <3> QED
      BY <1>0, <3>1
  <2>3. CASE m = n
    <3>1. /\ parked'[m] = IF d.cut = "joiner" THEN {} ELSE parked[m]
          /\ joinerUuid'[m] = IdentifierAfter(m, d.cut) /\ d.cut \in {"joiner", "other"}
      BY <2>1, <2>3, ApplyFields
    <3>2. LeadsTo(m, d.cut, view'[m])
      BY <2>1, <2>3, AppliedView
    <3>3. CASE d.cut = "other"
      <4>1. /\ parked'[m] = parked[m] /\ joinerUuid'[m] = joinerUuid[m]
            /\ view'[m].present = view[m].present /\ view'[m].ids = view[m].ids
        BY <3>1, <3>2, <3>3 DEF LeadsTo, IdentifierAfter
      <4> QED
        BY <1>0, <4>1, SameFields
    <3>4. CASE d.cut = "joiner" /\ view[m].present
      <4>1. /\ parked'[m] = {} /\ joinerUuid'[m] = joinerUuid[m] /\ view'[m].ids = view[m].ids
        BY <3>1, <3>2, <3>4 DEF LeadsTo, IdentifierAfter
      <4> QED
        BY <1>0, <4>1, SameFields
    <3>5. CASE d.cut = "joiner" /\ ~view[m].present
      BY <3>1, <3>5 DEF IdentifierAfter
    <3> QED
      BY <3>1, <3>3, <3>4, <3>5
  <2> QED
    BY <2>2, <2>3
<1> QED
  BY <1>1, <1>2, <1>3, <1>4, NextByKind

\* Every step keeps what is known of the identifiers.
LEMMA IdentifiersKept ==
    ASSUME IInv, Next
    PROVE  IdentifiersFresh' /\ IdentifiersFollow'
<1>1. IdentifiersFresh'
  BY JoinerIdentifier, RequestsSuit, AlertsSuit, ParkedSuit
  DEF IdentifiersFresh, AdmissionNotRefused, HasIdentifier
<1>2. IdentifiersFollow'
  BY JoinerIdentifier, RequestsSuit, AlertsSuit, ParkedSuit
  DEF IdentifiersFollow, HasIdentifier
<1> QED
  BY <1>1, <1>2

\* There is one identifier at most that is not in v and comes after all that are.
LEMMA OneFirst ==
    ASSUME NEW v, NEW i \in Ids, NEW j \in Ids, i \notin v.ids, j \notin v.ids,
           Follows(i, v), Follows(j, v)
    PROVE  i = j
<1>1. ASSUME i < j PROVE FALSE
  <2>1. i \in 1 .. j - 1
    BY <1>1 DEF Ids
  <2> QED
    BY <2>1 DEF Follows
<1>2. ASSUME j < i PROVE FALSE
  <2>1. j \in 1 .. i - 1
    BY <1>2 DEF Ids
  <2> QED
    BY <2>1 DEF Follows
<1> QED
  BY <1>1, <1>2 DEF Ids

-----------------------------------------------------------------------------
(* Replies.                                                                *)

\* A reply that is released is of a member that has just admitted the joiner, under
\* the identifier of the call.
LEMMA ReleasedAdmits ==
    ASSUME IInv, NEW m \in Members, NEW d \in decided, Apply(m, d), d.cut = "joiner",
           ThisCall \in parked[m]
    PROVE  /\ view'[m].present
           /\ ~restarted => joiner.id \in view'[m].ids
<1>1. /\ Fresh(joiner.id, view[m]) /\ HasIdentifier(m)
      /\ joinerUuid[m] \notin view[m].ids
  BY DEF IInv, IdentifiersFresh, AdmissionNotRefused, ThisCall
<1>2. view'[m].present = TRUE /\ view'[m].ids = view[m].ids \cup {joinerUuid[m]}
  BY <1>1, AppliedView DEF LeadsTo, Fresh
<1>3. ~restarted => joiner.id = joinerUuid[m]
  <2>1. joinerUuid[m] \in Ids /\ joiner.id \in Ids
    BY <1>1, TypeParts DEF IInv, MemberTypes, JoinerType, HasIdentifier
  <2>2. ~restarted => Follows(joiner.id, view[m]) /\ Follows(joinerUuid[m], view[m])
    BY <1>1 DEF IInv, IdentifiersFollow, ThisCall
  <2> QED
    BY <1>1, <2>1, <2>2, OneFirst DEF Fresh
<1> QED
  BY <1>2, <1>3

\* Every step keeps the replies right.
LEMMA RepliesKept ==
    ASSUME IInv, Next
    PROVE  RepliesRight'
<1> SUFFICES ASSUME NEW r \in replies'
             PROVE  /\ r.safe => r.config.present
                    /\ r.safe /\ ~restarted' => joiner'.id \in r.config.ids
  BY DEF RepliesRight
<1>1. CASE r \in replies
  <2>1. /\ r.safe => r.config.present
        /\ r.safe /\ ~restarted => joiner.id \in r.config.ids
        /\ r.from \in joiner.waiting
    BY <1>1 DEF IInv, RepliesRight, JoinerWaits
  <2>2. ~Restart
    BY DEF Restart
  <2>3. joiner.waiting # {}
    BY <2>1
  <2>4. joiner'.id = joiner.id
    BY <2>2, <2>3, JoinerTypeKept, JoinerFields DEF IInv
  <2> QED
    BY <2>1, <2>4, HistoryStays
<1>2. CASE r \notin replies
  <2>1. ASSUME NEW msg \in joins, RejectJoin(msg.to, msg), Rejected(r, msg.to, msg)
        PROVE  /\ r.safe => r.config.present
               /\ r.safe /\ ~restarted' => joiner'.id \in r.config.ids
    <3>1. UNCHANGED joiner /\ msg.call.id = joiner.id
      BY <2>1 DEF RejectJoin, Rejected, ThisCall
    <3>2. r.safe = AlreadyAdmitted(msg.to, msg) /\ r.config = view[msg.to]
      BY <2>1 DEF Rejected
    <3> QED
      BY <3>1, <3>2 DEF AlreadyAdmitted
  <2>2. ASSUME NEW m \in Members, NEW d \in decided, Apply(m, d), d.cut = "joiner",
               Released(r, m)
        PROVE  /\ r.safe => r.config.present
               /\ r.safe /\ ~restarted' => joiner'.id \in r.config.ids
    <3>1. UNCHANGED joiner /\ ThisCall \in parked[m]
      BY <2>2 DEF Apply, Released
    <3>2. r.config = view'[m]
      BY <2>2 DEF Released
    <3> QED
      BY <2>2, <3>1, <3>2, ReleasedAdmits, HistoryStays
  <2> QED
    BY <1>2, <2>1, <2>2, NewReplies
<1> QED
  BY <1>1, <1>2

\* A joiner that joins does so as itself.
LEMMA JoinedKept ==
    ASSUME IInv, Next
    PROVE  JoinsAsItself'
<1> SUFFICES ASSUME joiner'.pc = "joined"
             PROVE  ~restarted' => joiner'.id \in joiner'.config.ids
  BY DEF JoinsAsItself
<1>1. CASE UNCHANGED joiner
  BY <1>1, HistoryStays DEF IInv, JoinsAsItself
<1>2. CASE Receives
  <2>1. PICK r \in replies : ReceiveReply(r)
    BY <1>2 DEF Receives
  <2>2. joiner \in JoinerType
    BY TypeParts DEF IInv
  <2>3. joiner' = Bootstrapped(r) /\ Wins(r)
    BY <2>1, <2>2 DEF ReceiveReply, JoinerType
  <2>4. joiner'.config = r.config /\ joiner'.id = joiner.id
    BY <2>2, <2>3 DEF Bootstrapped, JoinerType
  <2> QED
    BY <2>3, <2>4, HistoryStays DEF Wins, IInv, RepliesRight
<1> QED
  BY <1>1, <1>2, JoinerTypeKept, JoinerFields DEF IInv

-----------------------------------------------------------------------------
(* The views that the decisions lead to.                                   *)

\* Without a restart or a skipped admission, a decision leads every member to the
\* same view.
LEMMA AppliedIsAfter ==
    ASSUME IInv, NEW m \in Members, NEW d \in decided, Apply(m, d), ~restarted, ~skipped'
    PROVE  view'[m] = After(d) /\ Before(d.config, view'[m])
<1>1. /\ d.config = view[m] /\ d.cut \in {"joiner", "other"} /\ view[m] \in View
      /\ LeadsTo(m, d.cut, view'[m])
  BY ApplyFields, AppliedView, TypeParts DEF IInv, MemberTypes
<1>2. PICK v \in View : v = view[m]
  BY <1>1
<1>3. PICK w : w = view'[m]
  OBVIOUS
<1>4. v.present \in BOOLEAN /\ v.ids \in SUBSET Ids /\ v.others \in Nat
  BY DEF View
<1>5. CASE d.cut = "other"
  <2>1. After(d) = [v EXCEPT !.others = @ + 1]
    BY <1>1, <1>2, <1>5 DEF After
  <2>2. /\ w = [present |-> w.present, ids |-> w.ids, others |-> w.others]
        /\ w.present = v.present /\ w.ids = v.ids /\ w.others = v.others + 1
    BY <1>1, <1>2, <1>3, <1>5 DEF LeadsTo
  <2>3. w = After(d)
    BY <2>1, <2>2 DEF View
  <2>4. Before(v, w)
    BY <1>4, <2>2 DEF Before
  <2> QED
    BY <1>1, <1>2, <1>3, <2>3, <2>4
<1>6. CASE d.cut = "joiner" /\ v.present
  <2>1. After(d) = [v EXCEPT !.present = FALSE]
    BY <1>1, <1>2, <1>6 DEF After
  <2>2. /\ w = [present |-> w.present, ids |-> w.ids, others |-> w.others]
        /\ w.present = FALSE /\ w.ids = v.ids /\ w.others = v.others
    BY <1>1, <1>2, <1>3, <1>6 DEF LeadsTo
  <2>3. w = After(d)
    BY <2>1, <2>2 DEF View
  <2>4. Before(v, w)
    BY <1>4, <1>6, <2>2 DEF Before
  <2> QED
    BY <1>1, <1>2, <1>3, <2>3, <2>4
<1>7. CASE d.cut = "joiner" /\ ~v.present
  <2>1. HasIdentifier(m)
    BY <1>2, <1>7 DEF Apply
  <2>2. /\ joinerUuid[m] \in Ids /\ joinerUuid[m] \notin v.ids /\ Follows(joinerUuid[m], v)
    BY <1>2, <2>1, TypeParts DEF IInv, MemberTypes, IdentifiersFresh, AdmissionNotRefused,
       IdentifiersFollow, HasIdentifier
  <2>3. FirstUnused(v) = joinerUuid[m]
    BY <2>2, OneFirst DEF FirstUnused
  <2>4. After(d) = [v EXCEPT !.present = TRUE, !.ids = @ \cup {joinerUuid[m]}]
    BY <1>1, <1>2, <1>7, <2>3 DEF After
  <2>5. /\ w = [present |-> w.present, ids |-> w.ids, others |-> w.others]
        /\ w.present = TRUE /\ w.ids = v.ids \cup {joinerUuid[m]} /\ w.others = v.others
    BY <1>1, <1>2, <1>3, <1>7, <2>1 DEF LeadsTo
  <2>6. w = After(d)
    BY <2>4, <2>5 DEF View
  <2>7. Before(v, w)
    BY <1>4, <2>2, <2>5 DEF Before
  <2> QED
    BY <1>1, <1>2, <1>3, <2>6, <2>7
<1> QED
  BY <1>1, <1>5, <1>6, <1>7

\* The order of configurations is transitive.
LEMMA BeforeTransitive ==
    ASSUME NEW u \in View, NEW v \in View, NEW w \in View, Before(u, v), Before(v, w)
    PROVE  Before(u, w)
<1>1. /\ u.others \in Nat /\ v.others \in Nat /\ w.others \in Nat
      /\ u.ids \in SUBSET Ids /\ v.ids \in SUBSET Ids /\ w.ids \in SUBSET Ids
  BY DEF View
<1>2. u.ids \subseteq w.ids /\ u.others <= w.others
  BY <1>1 DEF Before
<1>3. CASE u.ids # v.ids \/ v.ids # w.ids
  BY <1>2, <1>3 DEF Before
<1>4. CASE u.others # v.others \/ v.others # w.others
  BY <1>1, <1>2, <1>4 DEF Before
<1>5. CASE u.ids = v.ids /\ v.ids = w.ids /\ u.others = v.others /\ v.others = w.others
  BY <1>5 DEF Before
<1> QED
  BY <1>3, <1>4, <1>5

\* Every step keeps the applied decisions of a member a chain to its view.
LEMMA ChainsKept ==
    ASSUME IInv, Next
    PROVE  Chains'
<1> SUFFICES ASSUME ~restarted', ~skipped', NEW m \in Members PROVE Chain(m)'
  BY DEF Chains
<1>0. ~restarted /\ ~skipped /\ Chain(m)
  BY HistoryStays DEF IInv, Chains
<1>1. CASE UNCHANGED <<view, applied>>
  BY <1>0, <1>1 DEF Chain
<1>2. CASE Applies
  <2>1. PICK n \in Members, d \in decided : Apply(n, d)
    BY <1>2 DEF Applies
  <2>2. CASE n # m
    <3>1. view'[m] = view[m] /\ applied'[m] = applied[m]
      BY <2>1, <2>2, ApplyFields
    <3> QED
      BY <1>0, <3>1 DEF Chain
  <2>3. CASE n = m
    <3>1. /\ applied'[m] = applied[m] \cup {d} /\ d.config = view[m]
          /\ view'[m] = After(d) /\ Before(d.config, view'[m])
      BY <1>0, <2>1, <2>3, ApplyFields, AppliedIsAfter
    <3>2. /\ view[m] \in View /\ view'[m] \in View
          /\ \A e \in applied[m] : e.config \in View
      BY MemberTypesKept, TypeParts DEF IInv, MemberTypes
    <3>3. \A e \in applied'[m] : Before(e.config, view'[m])
      BY <1>0, <3>1, <3>2, BeforeTransitive DEF Chain
    <3>4. \A e \in applied'[m] :
              After(e) = view'[m] \/ \E f \in applied'[m] : f.config = After(e)
      BY <1>0, <3>1 DEF Chain
    <3> QED
      BY <3>1, <3>3, <3>4 DEF Chain
  <2> QED
    BY <2>2, <2>3
<1> QED
  BY <1>1, <1>2, ViewsStay

-----------------------------------------------------------------------------
(* The invariant.                                                          *)

\* The first state satisfies the inductive invariant.
LEMMA InitInvariant ==
    ASSUME Init
    PROVE  IInv
<1> USE DEF Init
<1>1. 1 \in Ids /\ 1 \in 1 .. Retries /\ 0 \in 0 .. MaxEvents /\ Seed \in Members
  BY BoundsNat, MembersFinite DEF Ids
<1>2. FirstView \in View /\ \A m \in Members : view[m] = FirstView /\ applied[m] = {}
  BY <1>1 DEF FirstView, View
<1>3. MemberTypes
  BY <1>2 DEF MemberTypes, FirstView
<1>4. joiner \in JoinerType
  BY <1>1 DEF JoinerType
<1>5. TypeOK
  <2>1. Flags
    BY DEF Flags
  <2>2. MessageTypes
    BY DEF MessageTypes
  <2> QED
    BY <1>3, <1>4, <2>1, <2>2, TypeParts
<1>6. Counted
  <2>1. OtherCuts({}) = {}
    BY DEF OtherCuts
  <2>2. IsFiniteSet({}) /\ Cardinality({}) = 0
    BY FS_EmptySet
  <2>3. decided = {} /\ 0 <= MaxEvents
    BY BoundsNat
  <2>4. \A m \in Members : view[m].others = 0 /\ applied[m] = {}
    BY <1>2 DEF FirstView
  <2> QED
    BY <2>1, <2>2, <2>3, <2>4 DEF Counted
<1>7. JoinerWaits /\ RepliesRight /\ JoinsAsItself
  BY DEF JoinerWaits, RepliesRight, JoinsAsItself
<1>8. IdentifiersFresh /\ IdentifiersFollow
  <2>1. \A m \in Members : parked[m] = {} /\ ~HasIdentifier(m)
    BY DEF HasIdentifier
  <2>2. joiner.id = 1 /\ ~joiner.uuidTaken
    OBVIOUS
  <2>3. Follows(joiner.id, view[Seed])
    BY <2>2 DEF Follows
  <2> QED
    BY <2>1, <2>2, <2>3 DEF IdentifiersFresh, IdentifiersFollow, AdmissionNotRefused
<1>9. Chains
  BY <1>2 DEF Chains, Chain
<1> QED
  BY <1>5, <1>6, <1>7, <1>8, <1>9 DEF IInv

\* A stuttering step keeps it.
LEMMA StutterInvariant ==
    ASSUME IInv, UNCHANGED vars
    PROVE  IInv'
<1>1. UNCHANGED <<view, joinerUuid, parked, reports, announced, applied, joiner, joins,
                  replies, alerts, decided, restarted, skipped>>
  BY DEF vars, memberVars, networkVars
<1>2. TypeOK'
  BY <1>1 DEF IInv, TypeOK
<1>3. Counted' /\ JoinerWaits' /\ RepliesRight'
  BY <1>1 DEF IInv, Counted, JoinerWaits, RepliesRight
<1>4. IdentifiersFresh' /\ IdentifiersFollow'
  BY <1>1 DEF IInv, IdentifiersFresh, IdentifiersFollow, AdmissionNotRefused, HasIdentifier
<1>5. JoinsAsItself' /\ Chains'
  BY <1>1 DEF IInv, JoinsAsItself, Chains, Chain
<1> QED
  BY <1>2, <1>3, <1>4, <1>5 DEF IInv

\* Every reachable state satisfies the invariant: each identifier on its way fits
\* the configuration it was drawn for, and each view is the end of the chain of the
\* decisions that the member applied.
THEOREM Invariance == Spec => []IInv
<1>1. IInv /\ [Next]_vars => IInv'
  <2> SUFFICES ASSUME IInv, [Next]_vars PROVE IInv'
    OBVIOUS
  <2>1. CASE Next
    BY <2>1, TypesKept, CountedKept, JoinerWaitsKept, IdentifiersKept, RepliesKept,
       JoinedKept, ChainsKept DEF IInv
  <2>2. CASE UNCHANGED vars
    BY <2>2, StutterInvariant
  <2> QED
    BY <2>1, <2>2
<1> QED
  BY <1>1, InitInvariant, PTL DEF Spec

-----------------------------------------------------------------------------
(* Theorems.                                                               *)

\* Every variable keeps its type: only observers are asked and report, and the other
\* view changes that a view counts are those that were decided.
THEOREM TypeCorrect == Spec => []TypeOK
<1>1. IInv => TypeOK
  BY DEF IInv
<1> QED
  BY <1>1, Invariance, PTL

\* handle_join parks a reply only in a configuration without the joiner, and
\* respond_to_joiners releases it with the cut that admits the joiner: SAFE_TO_JOIN
\* always comes with a configuration that has the joiner in it.
THEOREM SafeRepliesAdmit == Spec => []SafeMeansMember
<1>1. IInv => SafeMeansMember
  BY DEF IInv, RepliesRight, SafeMeansMember
<1> QED
  BY <1>1, Invariance, PTL

\* The ring_add of decide_view_change, whose error is dropped, never meets an
\* identifier that the view has seen: requests and alerts carry identifiers that are
\* not in the configuration they name, and both are looked at only in that one.
THEOREM RingAddAccepts == Spec => []AdmissionNotRefused
<1>1. IInv => AdmissionNotRefused
  BY DEF IInv, IdentifiersFresh
<1> QED
  BY <1>1, Invariance, PTL

\* Members that applied the same decisions have the same view, unless the joiner was
\* restarted or a member had no identifier for it.
THEOREM DecisionsDetermineViews == Spec => []ViewsAgree
<1>1. IInv => ViewsAgree
  <2> SUFFICES ASSUME IInv, ~restarted, ~skipped, NEW m \in Members, NEW n \in Members,
                      applied[m] = applied[n]
               PROVE  view[m] = view[n]
    BY DEF ViewsAgree
  <2>1. Chain(m) /\ Chain(n)
    BY DEF IInv, Chains
  <2>2. CASE applied[m] = {}
    BY <2>1, <2>2 DEF Chain
  <2>3. CASE applied[m] # {}
    <3>1. PICK d \in applied[m] : After(d) = view[m]
      BY <2>1, <2>3 DEF Chain
    <3>2. ASSUME NEW e \in applied[n], e.config = After(d) PROVE FALSE
      <4>1. Before(view[m], view[m])
        BY <2>1, <3>1, <3>2 DEF Chain
      <4> QED
        BY <4>1 DEF Before
    <3> QED
      BY <2>1, <3>1, <3>2 DEF Chain
  <2> QED
    BY <2>2, <2>3
<1> QED
  BY <1>1, Invariance, PTL

\* A joiner that did not restart is in the configuration it joins under the
\* identifier of its current attempt, although alerts of earlier attempts are still
\* on their way.
THEOREM JoinsUnderOwnIdentifier == Spec => []JoinsAsItself
<1>1. IInv => JoinsAsItself
  BY DEF IInv
<1> QED
  BY <1>1, Invariance, PTL
====
