--------------------------- MODULE ServiceProofs ---------------------------
(***************************************************************************)
(* Proofs about Service, for any capacity of the mailbox and of the event  *)
(* channel, any number of callers, calls, ticks and view changes.          *)
(***************************************************************************)
EXTENDS Service, TLAPS

Commands == {"Request", "PublishInitialView", "Shutdown", "StartClassicRound",
             "EdgeFailure", "TickAlertBatcher"}
CommandType == [cmd : Commands, n : Configs \cup Callers]
EventType == [config : Configs, initial : BOOLEAN]

\* The commands in the mailbox.
Pending == {mailbox[i] : i \in 1 .. Len(mailbox)}
Has(cmd) == \E m \in Pending : m.cmd = cmd

MailboxTypes ==
    /\ mailbox \in Seq(CommandType)
    /\ Len(mailbox) <= MailboxCapacity
    /\ \A m \in Pending : m.cmd = "Request" => m.n \in Callers

\* Before the server is there no request and no Shutdown has been sent, and the view
\* is the first one.
Starting == pc \in {"new", "spawned", "wired"}
BeforeServer ==
    Starting \/ pc = "asked" =>
        /\ ~Has("Request") /\ ~Has("Shutdown")
        /\ config = 0 /\ server = "down"
        /\ actor = IF pc = "new" THEN "none" ELSE "running"

AskedOnce ==
    \A i, j \in 1 .. Len(mailbox) :
        (mailbox[i].cmd = "PublishInitialView" /\ mailbox[j].cmd = "PublishInitialView")
            => i = j

\* The initial view is asked for once, and published before the server starts.
InitialView ==
    /\ Starting => events = <<>>
    /\ Has("PublishInitialView") => pc = "asked" /\ events = <<>>
    /\ AskedOnce
    /\ pc = "asked" => events # <<>> \/ Has("PublishInitialView")
    /\ ~Starting /\ pc # "asked" => events # <<>>
    /\ events # <<>> => events[1] = Event(0, TRUE)

\* The callback has been called with the events up to some point.
SeenSoFar ==
    /\ Len(seen) <= Len(events)
    /\ \A i \in 1 .. Len(seen) : seen[i] = events[i]

\* A timer that runs was armed by a vote of this configuration, and so was one that
\* has expired, unless it was overtaken.
TimerOfThisVote ==
    Running => /\ timer # NoTimer => announced
               /\ Has("StartClassicRound") => announced \/ overtaken
               /\ classic => announced \/ overtaken

\* Nothing is sent to an actor that is not there, and no timer runs before it.
NotRunning ==
    /\ ~Running => mailbox = <<>> /\ ~classic
    /\ actor = "none" => timer = NoTimer

CallType == {NoCall} \cup [kind : Kinds, stamp : Configs, status : {"waiting", "parked"}]

\* TypeOK in parts, which different steps disturb.
TaskTypes ==
    /\ pc \in {"new", "spawned", "wired", "asked", "serving", "unbound", "stopping",
               "sent", "awaiting", "returned"}
    /\ server \in {"down", "up", "closing"}
    /\ actor \in {"none", "running", "stopped"}
    /\ made \in 0 .. MaxCalls
    /\ config \in Configs
    /\ timer \in Configs \cup {NoTimer}
    /\ lastEnqueue \in {"none", "recent", "old"}
    /\ detector \in {"none", "watching", "notified"}
    /\ tasks \subseteq {"batcher", "pump"}
    /\ forwarder \in {"none", "running", "ended"}

Flags ==
    /\ announced \in BOOLEAN
    /\ classic \in BOOLEAN
    /\ queued \in BOOLEAN
    /\ overtaken \in BOOLEAN

EventTypes == events \in Seq(EventType) /\ seen \in Seq(EventType)

Types ==
    /\ TaskTypes
    /\ Flags
    /\ EventTypes
    /\ calls \in [Callers -> CallType]
    /\ MailboxTypes

\* The inductive invariant.
IInv ==
    /\ Types
    /\ BeforeServer
    /\ InitialView
    /\ SeenSoFar
    /\ TimerOfThisVote
    /\ NotRunning

-----------------------------------------------------------------------------
(* The mailbox.                                                            *)

\* A command that is posted comes last.
LEMMA PostFacts ==
    ASSUME mailbox \in Seq(CommandType), NEW c \in CommandType,
           mailbox' = Append(mailbox, c)
    PROVE  /\ mailbox' \in Seq(CommandType)
           /\ Len(mailbox) \in Nat /\ Len(mailbox') = Len(mailbox) + 1
           /\ \A i \in 1 .. Len(mailbox) : mailbox'[i] = mailbox[i]
           /\ mailbox'[Len(mailbox) + 1] = c
           /\ Pending' = Pending \cup {c}
<1>1. /\ mailbox' \in Seq(CommandType)
      /\ Len(mailbox) \in Nat /\ Len(mailbox') = Len(mailbox) + 1
      /\ \A i \in 1 .. Len(mailbox) : mailbox'[i] = mailbox[i]
      /\ mailbox'[Len(mailbox) + 1] = c
  OBVIOUS
<1>2. Pending' = {mailbox'[i] : i \in 1 .. Len(mailbox')}
  BY DEF Pending
<1>3. Pending' \subseteq Pending \cup {c}
  <2> SUFFICES ASSUME NEW i \in 1 .. Len(mailbox) + 1
               PROVE  mailbox'[i] \in Pending \cup {c}
    BY <1>1, <1>2
  <2>1. i \in 1 .. Len(mailbox) \/ i = Len(mailbox) + 1
    BY <1>1
  <2> QED
    BY <1>1, <2>1 DEF Pending
<1>4. Pending \cup {c} \subseteq Pending'
  <2>1. \A i \in 1 .. Len(mailbox) : i \in 1 .. Len(mailbox') /\ mailbox[i] = mailbox'[i]
    BY <1>1
  <2>2. Len(mailbox) + 1 \in 1 .. Len(mailbox')
    BY <1>1
  <2>3. \A m \in Pending : m \in Pending'
    BY <1>2, <2>1 DEF Pending
  <2>4. c \in Pending'
    BY <1>1, <1>2, <2>2
  <2> QED
    BY <2>3, <2>4
<1> QED
  BY <1>1, <1>3, <1>4

\* The first command is taken, and the others move up.
LEMMA TakeFacts ==
    ASSUME mailbox \in Seq(CommandType), mailbox # <<>>
    PROVE  /\ Head(mailbox) \in CommandType /\ Head(mailbox) = mailbox[1]
           /\ Head(mailbox) \in Pending
           /\ Tail(mailbox) \in Seq(CommandType)
           /\ Len(mailbox) \in Nat \ {0} /\ Len(Tail(mailbox)) = Len(mailbox) - 1
           /\ \A i \in 1 .. Len(mailbox) - 1 : Tail(mailbox)[i] = mailbox[i + 1]
           /\ {Tail(mailbox)[i] : i \in 1 .. Len(Tail(mailbox))} \subseteq Pending
           /\ Pending = {Tail(mailbox)[i] : i \in 1 .. Len(Tail(mailbox))} \cup {Head(mailbox)}
<1> DEFINE t == Tail(mailbox)
<1>1. /\ Head(mailbox) \in CommandType /\ Head(mailbox) = mailbox[1]
      /\ t \in Seq(CommandType)
      /\ Len(mailbox) \in Nat \ {0} /\ Len(t) = Len(mailbox) - 1
      /\ \A i \in 1 .. Len(mailbox) - 1 : t[i] = mailbox[i + 1]
  OBVIOUS
<1> HIDE DEF t
<1>2. Head(mailbox) \in Pending
  <2>1. 1 \in 1 .. Len(mailbox)
    BY <1>1
  <2> QED
    BY <1>1, <2>1 DEF Pending
<1>3. ASSUME NEW i \in 1 .. Len(t) PROVE t[i] \in Pending
  <2>1. i + 1 \in 1 .. Len(mailbox) /\ t[i] = mailbox[i + 1]
    BY <1>1
  <2> QED
    BY <2>1 DEF Pending
<1>4. ASSUME NEW i \in 1 .. Len(mailbox)
      PROVE  mailbox[i] \in {t[j] : j \in 1 .. Len(t)} \cup {Head(mailbox)}
  <2>1. CASE i = 1
    BY <1>1, <2>1
  <2>2. CASE i # 1
    <3>1. i - 1 \in 1 .. Len(t) /\ t[i - 1] = mailbox[i]
      BY <1>1, <2>2
    <3> QED
      BY <3>1
  <2> QED
    BY <2>1, <2>2
<1>5. {t[i] : i \in 1 .. Len(t)} \subseteq Pending
  BY <1>3
<1>6. Pending \subseteq {t[i] : i \in 1 .. Len(t)} \cup {Head(mailbox)}
  BY <1>4 DEF Pending
<1> QED
  BY <1>1, <1>2, <1>5, <1>6 DEF t

\* What a step does to the mailbox: nothing, a command is posted to a running actor,
\* the first one is taken, or the actor and its mailbox are gone.
Posts(c) == Running /\ Running' /\ Room /\ Post(c)
Takes == Running /\ Running' /\ mailbox # <<>> /\ Take
Ends == mailbox' = <<>> /\ ~Running'

\* Posting a command adds it to the mailbox and keeps its types.
LEMMA PostTypes ==
    ASSUME MailboxTypes, NEW c \in CommandType, Posts(c),
           c.cmd = "Request" => c.n \in Callers
    PROVE  MailboxTypes' /\ Pending' = Pending \cup {c}
<1>1. /\ mailbox' \in Seq(CommandType)
      /\ Len(mailbox) \in Nat /\ Len(mailbox') = Len(mailbox) + 1
      /\ Pending' = Pending \cup {c}
  BY PostFacts DEF MailboxTypes, Posts, Post
<1>2. Len(mailbox') <= MailboxCapacity
  BY <1>1, BoundsNat DEF Posts, Room
<1> QED
  BY <1>1, <1>2 DEF MailboxTypes

\* Taking a command removes no other and keeps the types.
LEMMA TakeTypes ==
    ASSUME MailboxTypes, Takes
    PROVE  /\ MailboxTypes'
           /\ Pending' \subseteq Pending /\ Pending = Pending' \cup {Head(mailbox)}
           /\ Head(mailbox) \in Pending /\ Head(mailbox) \in CommandType
<1> DEFINE t == Tail(mailbox)
<1>1. /\ Head(mailbox) \in CommandType /\ Head(mailbox) \in Pending
      /\ t \in Seq(CommandType)
      /\ Len(mailbox) \in Nat \ {0} /\ Len(t) = Len(mailbox) - 1
      /\ {t[i] : i \in 1 .. Len(t)} \subseteq Pending
      /\ Pending = {t[i] : i \in 1 .. Len(t)} \cup {Head(mailbox)}
  BY TakeFacts DEF MailboxTypes, Takes
<1>2. mailbox' = t
  BY DEF Takes, Take
<1> HIDE DEF t
<1>3. Pending' = {t[i] : i \in 1 .. Len(t)}
  BY <1>2 DEF Pending
<1>4. Len(mailbox') <= MailboxCapacity
  BY <1>1, <1>2, BoundsNat DEF MailboxTypes
<1> QED
  BY <1>1, <1>2, <1>3, <1>4 DEF MailboxTypes

\* When the actor ends, nothing is left in the mailbox.
LEMMA EndTypes ==
    ASSUME Ends
    PROVE  MailboxTypes' /\ Pending' = {}
<1>1. mailbox' \in Seq(CommandType) /\ Len(mailbox') = 0
  BY DEF Ends
<1>2. Pending' = {}
  BY <1>1 DEF Pending
<1> QED
  BY <1>1, <1>2, BoundsNat DEF MailboxTypes

\* The first command is taken and the command of an expired timer comes last.
Swaps ==
    /\ Running /\ Running' /\ mailbox # <<>> /\ timer # NoTimer
    /\ mailbox' = Append(Tail(mailbox), Command("StartClassicRound", timer))

\* A timer that wins against its abort posts as a command is taken: the types stay.
LEMMA SwapTypes ==
    ASSUME MailboxTypes, timer \in Configs \cup {NoTimer}, Swaps
    PROVE  /\ MailboxTypes'
           /\ Pending' \subseteq Pending \cup {Command("StartClassicRound", timer)}
           /\ Head(mailbox) \in Pending /\ Head(mailbox) \in CommandType
           /\ Len(mailbox) \in Nat \ {0} /\ Len(mailbox') = Len(mailbox)
           /\ \A i \in 1 .. Len(mailbox) - 1 : mailbox'[i] = mailbox[i + 1]
           /\ mailbox'[Len(mailbox)] = Command("StartClassicRound", timer)
<1>1. PICK t : t = Tail(mailbox)
  OBVIOUS
<1>2. PICK c : c = Command("StartClassicRound", timer)
  OBVIOUS
<1>3. /\ Head(mailbox) \in CommandType /\ Head(mailbox) \in Pending
      /\ t \in Seq(CommandType)
      /\ Len(mailbox) \in Nat \ {0} /\ Len(t) = Len(mailbox) - 1
      /\ \A i \in 1 .. Len(mailbox) - 1 : t[i] = mailbox[i + 1]
      /\ {t[i] : i \in 1 .. Len(t)} \subseteq Pending
  BY <1>1, TakeFacts DEF MailboxTypes, Swaps
<1>4. c \in CommandType /\ c.cmd = "StartClassicRound"
  BY <1>2 DEF Swaps, CommandType, Commands, Command
<1>5. mailbox' = Append(t, c)
  BY <1>1, <1>2 DEF Swaps
<1>6. /\ mailbox' \in Seq(CommandType) /\ Len(mailbox') = Len(t) + 1
      /\ \A i \in 1 .. Len(t) : mailbox'[i] = t[i]
      /\ mailbox'[Len(t) + 1] = c
  BY <1>3, <1>4, <1>5
<1>7. /\ Len(mailbox') = Len(mailbox) /\ mailbox'[Len(mailbox)] = c
      /\ \A i \in 1 .. Len(mailbox) - 1 : mailbox'[i] = mailbox[i + 1]
  BY <1>3, <1>6
<1>8. ASSUME NEW i \in 1 .. Len(mailbox') PROVE mailbox'[i] \in Pending \cup {c}
  <2>1. i \in 1 .. Len(t) \/ i = Len(t) + 1
    BY <1>3, <1>6
  <2> QED
    BY <1>3, <1>6, <2>1
<1>9. Pending' \subseteq Pending \cup {c}
  BY <1>8 DEF Pending
<1>10. \A m \in Pending' : m.cmd = "Request" => m.n \in Callers
  BY <1>4, <1>9 DEF MailboxTypes
<1>11. Len(mailbox') <= MailboxCapacity
  BY <1>7 DEF MailboxTypes
<1> QED
  BY <1>2, <1>3, <1>6, <1>7, <1>9, <1>10, <1>11 DEF MailboxTypes

\* The request for the initial view stays a single one.
LEMMA AskedOncePost ==
    ASSUME mailbox \in Seq(CommandType), AskedOnce, NEW c \in CommandType,
           mailbox' = Append(mailbox, c),
           c.cmd = "PublishInitialView" => ~Has("PublishInitialView")
    PROVE  AskedOnce'
<1>1. /\ Len(mailbox) \in Nat /\ Len(mailbox') = Len(mailbox) + 1
      /\ \A i \in 1 .. Len(mailbox) : mailbox'[i] = mailbox[i]
      /\ mailbox'[Len(mailbox) + 1] = c
  BY PostFacts
<1>2. \A i \in 1 .. Len(mailbox) : mailbox[i] \in Pending
  BY DEF Pending
<1> SUFFICES ASSUME NEW i \in 1 .. Len(mailbox'), NEW j \in 1 .. Len(mailbox'),
                    mailbox'[i].cmd = "PublishInitialView",
                    mailbox'[j].cmd = "PublishInitialView"
             PROVE  i = j
  BY DEF AskedOnce
<1>3. /\ i \in 1 .. Len(mailbox) \/ i = Len(mailbox) + 1
      /\ j \in 1 .. Len(mailbox) \/ j = Len(mailbox) + 1
  BY <1>1
<1>4. CASE i \in 1 .. Len(mailbox) /\ j \in 1 .. Len(mailbox)
  BY <1>1, <1>4 DEF AskedOnce
<1>5. CASE i \in 1 .. Len(mailbox) /\ j = Len(mailbox) + 1
  BY <1>1, <1>2, <1>5 DEF Has
<1>6. CASE i = Len(mailbox) + 1 /\ j \in 1 .. Len(mailbox)
  BY <1>1, <1>2, <1>6 DEF Has
<1> QED
  BY <1>3, <1>4, <1>5, <1>6

\* So it does when the first command is taken, and if that was it, it is gone.
LEMMA AskedOnceTake ==
    ASSUME MailboxTypes, AskedOnce, Takes
    PROVE  /\ AskedOnce'
           /\ Head(mailbox).cmd = "PublishInitialView" => ~Has("PublishInitialView")'
<1>1. /\ Head(mailbox) = mailbox[1]
      /\ Len(mailbox) \in Nat \ {0} /\ Len(mailbox') = Len(mailbox) - 1
      /\ \A i \in 1 .. Len(mailbox) - 1 : mailbox'[i] = mailbox[i + 1]
  BY TakeFacts DEF MailboxTypes, Takes, Take
<1>2. AskedOnce'
  <2> SUFFICES ASSUME NEW i \in 1 .. Len(mailbox'), NEW j \in 1 .. Len(mailbox'),
                      mailbox'[i].cmd = "PublishInitialView",
                      mailbox'[j].cmd = "PublishInitialView"
               PROVE  i = j
    BY DEF AskedOnce
  <2>1. i + 1 \in 1 .. Len(mailbox) /\ j + 1 \in 1 .. Len(mailbox)
    BY <1>1
  <2>2. i + 1 = j + 1
    BY <1>1, <2>1 DEF AskedOnce
  <2> QED
    BY <1>1, <2>2
<1>3. ASSUME Head(mailbox).cmd = "PublishInitialView",
             NEW i \in 1 .. Len(mailbox'), mailbox'[i].cmd = "PublishInitialView"
      PROVE  FALSE
  <2>1. i + 1 \in 1 .. Len(mailbox) /\ 1 \in 1 .. Len(mailbox) /\ i + 1 # 1
    BY <1>1
  <2>2. mailbox[i + 1].cmd = "PublishInitialView" /\ mailbox[1].cmd = "PublishInitialView"
    BY <1>1, <1>3
  <2> QED
    BY <2>1, <2>2 DEF AskedOnce
<1> QED
  BY <1>2, <1>3 DEF Has, Pending

\* Such a step posts no second PublishInitialView.
LEMMA AskedOnceSwap ==
    ASSUME MailboxTypes, timer \in Configs \cup {NoTimer}, AskedOnce, Swaps
    PROVE  AskedOnce'
<1>1. /\ Len(mailbox) \in Nat \ {0} /\ Len(mailbox') = Len(mailbox)
      /\ \A i \in 1 .. Len(mailbox) - 1 : mailbox'[i] = mailbox[i + 1]
      /\ mailbox'[Len(mailbox)] = Command("StartClassicRound", timer)
  BY SwapTypes
<1>2. mailbox'[Len(mailbox)].cmd # "PublishInitialView"
  BY <1>1 DEF Command
<1> SUFFICES ASSUME NEW i \in 1 .. Len(mailbox'), NEW j \in 1 .. Len(mailbox'),
                    mailbox'[i].cmd = "PublishInitialView",
                    mailbox'[j].cmd = "PublishInitialView"
             PROVE  i = j
  BY DEF AskedOnce
<1>3. i \in 1 .. Len(mailbox) - 1 /\ j \in 1 .. Len(mailbox) - 1
  BY <1>1, <1>2
<1>4. i + 1 \in 1 .. Len(mailbox) /\ j + 1 \in 1 .. Len(mailbox)
  BY <1>1, <1>3
<1>5. i + 1 = j + 1
  BY <1>1, <1>3, <1>4 DEF AskedOnce
<1> QED
  BY <1>1, <1>3, <1>5

-----------------------------------------------------------------------------
(* What the steps do to the mailbox, and when a command is posted.         *)

\* A step posts c, for one of these reasons.
Sends(c) ==
    /\ Posts(c)
    /\ c \in CommandType
    /\ c.cmd = "Request" => server # "down" /\ c.n \in Callers
    /\ c.cmd = "PublishInitialView" => AskInitialView
    /\ c.cmd = "Shutdown" => pc = "stopping"
    /\ c.cmd = "StartClassicRound" => timer # NoTimer /\ UNCHANGED <<announced, overtaken>>

\* The actor takes a command in every step, and with Shutdown it ends.
Handlers ==
    \/ HandleRead \/ HandleJoin \/ HandleLeave \/ HandleAlerts \/ HandleConsensus
    \/ HandleStartClassicRound \/ HandleEdgeFailure \/ HandleTick
    \/ HandlePublishInitialView

Decides ==
    \E removed \in BOOLEAN, admitted \in SUBSET Parked : HandleDecision(removed, admitted)

MailboxStep ==
    \/ UNCHANGED mailbox
    \/ \E c : Sends(c)
    \/ Takes /\ (Handlers \/ Decides)
    \/ Swaps /\ Decides
    \/ Ends /\ HandleShutdown

\* The steps of the tasks around the actor only post.
LEMMA TaskPosts ==
    ASSUME Types,
           \/ AskInitialView \/ BatcherTicks \/ PumpForwards \/ TimerFires \/ SendShutdown
    PROVE  MailboxStep
<1> USE DEF MailboxStep, Sends, Posts, Send, Closed, Running, CommandType, Commands,
            Command, Post
<1>1. CASE AskInitialView
  <2>1. Command("PublishInitialView", 0) \in CommandType
    BY BoundsNat DEF Configs
  <2>2. Sends(Command("PublishInitialView", 0))
    BY <1>1, <2>1 DEF AskInitialView
  <2> QED
    BY <2>2
<1>2. CASE BatcherTicks
  <2>1. Command("TickAlertBatcher", 0) \in CommandType
    BY BoundsNat DEF Configs
  <2>2. Sends(Command("TickAlertBatcher", 0)) \/ UNCHANGED mailbox
    BY <1>2, <2>1 DEF BatcherTicks
  <2> QED
    BY <2>2
<1>3. CASE PumpForwards
  <2>1. Command("EdgeFailure", config) \in CommandType
    BY DEF Types, TaskTypes
  <2>2. Sends(Command("EdgeFailure", config)) \/ UNCHANGED mailbox
    BY <1>3, <2>1 DEF PumpForwards
  <2> QED
    BY <2>2
<1>4. CASE TimerFires
  <2>1. Command("StartClassicRound", timer) \in CommandType
    BY <1>4 DEF Types, TaskTypes, TimerFires
  <2>2. Sends(Command("StartClassicRound", timer)) \/ UNCHANGED mailbox
    BY <1>4, <2>1 DEF TimerFires, SendFallback, state
  <2> QED
    BY <2>2
<1>5. CASE SendShutdown
  <2>1. Command("Shutdown", 0) \in CommandType
    BY BoundsNat DEF Configs
  <2>2. Sends(Command("Shutdown", 0)) \/ UNCHANGED mailbox
    BY <1>5, <2>1 DEF SendShutdown
  <2> QED
    BY <2>2
<1> QED
  BY <1>1, <1>2, <1>3, <1>4, <1>5

\* So do the steps of callers.
LEMMA CallPosts ==
    ASSUME Types, NEW c \in Callers, NEW kind \in Kinds, NEW stamp \in Configs,
           MakeCall(c, kind, stamp)
    PROVE  MailboxStep
<1> USE DEF MailboxStep, Sends, Posts, Send, Running, CommandType, Commands,
            Command, Post
<1>1. Command("Request", c) \in CommandType
  OBVIOUS
<1>2. Sends(Command("Request", c))
  BY <1>1 DEF MakeCall
<1> QED
  BY <1>2

\* The handlers of the actor only take.
LEMMA HandlersTake ==
    ASSUME Handlers
    PROVE  Takes
BY DEF Handlers, Takes, Running, Is, IsCall, HandleRead, HandleJoin, HandleLeave,
       HandleAlerts, HandleConsensus, HandleStartClassicRound, HandleEdgeFailure,
       HandleTick, HandlePublishInitialView

\* The steps that leave the mailbox and the events alone.
Quiet ==
    \/ SpawnActor \/ WireSubscriptions \/ (\E bound \in BOOLEAN : SpawnServer(bound))
    \/ WindowCloses \/ ForwardEvent \/ ForwarderLags \/ ForwarderEnds
    \/ StopServer \/ ServerGone \/ AfterShutdown \/ AwaitActor

Posters ==
    \/ AskInitialView \/ BatcherTicks \/ PumpForwards \/ TimerFires \/ SendShutdown

Calls == \E c \in Callers, kind \in Kinds, stamp \in Configs : MakeCall(c, kind, stamp)

\* Next by what it does to the mailbox.
LEMMA NextByKind ==
    ASSUME Next
    PROVE  Quiet \/ Posters \/ Calls \/ Handlers \/ Decides \/ HandleShutdown
BY DEF Next, ActorStep, Shutdown, Quiet, Posters, Calls, Handlers, Decides

\* A decided view change takes, and may lose its abort to the timer.
LEMMA DecisionTakes ==
    ASSUME Decides
    PROVE  Takes \/ Swaps
<1>1. PICK removed \in BOOLEAN, admitted \in SUBSET Parked :
          HandleDecision(removed, admitted)
  BY DEF Decides
<1> QED
  BY <1>1 DEF HandleDecision, DecideViewChange, AbortTimer, Takes, Swaps, Running, Is,
              IsCall

\* Every step posts, takes, does both, clears the mailbox or leaves it alone.
LEMMA NextMailbox ==
    ASSUME Types, Next
    PROVE  MailboxStep
<1>1. CASE Quiet
  BY <1>1 DEF Quiet, MailboxStep, SpawnActor, WireSubscriptions, SpawnServer, WindowCloses,
     ForwardEvent, ForwarderLags, ForwarderEnds, StopServer, ServerGone, AfterShutdown,
     AwaitActor
<1>2. CASE Posters
  BY <1>2, TaskPosts DEF Posters
<1>3. CASE Calls
  BY <1>3, CallPosts DEF Calls
<1>4. CASE Handlers
  BY <1>4, HandlersTake DEF MailboxStep
<1>5. CASE Decides
  BY <1>5, DecisionTakes DEF MailboxStep
<1>6. CASE HandleShutdown
  BY <1>6 DEF MailboxStep, Ends, HandleShutdown, ActorEnds, Running
<1> QED
  BY <1>1, <1>2, <1>3, <1>4, <1>5, <1>6, NextByKind

\* The mailbox keeps its type, and whatever is in it that was not there before was
\* posted for its reason.
LEMMA MailboxKept ==
    ASSUME Types, MailboxStep, AskedOnce, Has("PublishInitialView") => pc = "asked"
    PROVE  /\ MailboxTypes'
           /\ AskedOnce'
           /\ Has("Request")' => Has("Request") \/ server # "down"
           /\ Has("Shutdown")' => Has("Shutdown") \/ pc = "stopping"
           /\ Has("PublishInitialView")' => Has("PublishInitialView") \/ AskInitialView
           /\ Has("StartClassicRound")' =>
                 \/ Has("StartClassicRound")
                 \/ timer # NoTimer /\ UNCHANGED <<announced, overtaken>>
                 \/ Decides
<1>1. CASE UNCHANGED mailbox
  BY <1>1 DEF Types, MailboxTypes, Pending, AskedOnce, Has
<1>2. ASSUME NEW c, Sends(c)
      PROVE  /\ MailboxTypes'
             /\ AskedOnce'
             /\ Has("Request")' => Has("Request") \/ server # "down"
             /\ Has("Shutdown")' => Has("Shutdown") \/ pc = "stopping"
             /\ Has("PublishInitialView")' => Has("PublishInitialView") \/ AskInitialView
             /\ Has("StartClassicRound")' =>
                   \/ Has("StartClassicRound")
                   \/ timer # NoTimer /\ UNCHANGED <<announced, overtaken>>
  <2>1. MailboxTypes' /\ Pending' = Pending \cup {c}
    BY <1>2, PostTypes DEF Types, Sends
  <2>2. mailbox \in Seq(CommandType) /\ mailbox' = Append(mailbox, c) /\ c \in CommandType
    BY <1>2 DEF Types, MailboxTypes, Sends, Posts, Post
  <2>3. c.cmd = "PublishInitialView" => ~Has("PublishInitialView")
    BY <1>2 DEF Sends, AskInitialView
  <2>4. AskedOnce'
    BY <2>2, <2>3, AskedOncePost
  <2>5. \A m \in Pending' : m \in Pending \/ m = c
    BY <2>1
  <2> QED
    BY <1>2, <2>1, <2>4, <2>5 DEF Has, Sends
<1>3. CASE Takes
  <2>1. MailboxTypes' /\ Pending' \subseteq Pending
    BY <1>3, TakeTypes DEF Types
  <2>2. AskedOnce'
    BY <1>3, AskedOnceTake DEF Types
  <2> QED
    BY <2>1, <2>2 DEF Has
<1>4. CASE Swaps /\ Decides
  <2>1. /\ MailboxTypes' /\ AskedOnce'
        /\ Pending' \subseteq Pending \cup {Command("StartClassicRound", timer)}
    BY <1>4, SwapTypes, AskedOnceSwap DEF Types, TaskTypes
  <2>2. Command("StartClassicRound", timer).cmd = "StartClassicRound"
    BY DEF Command
  <2> QED
    BY <1>4, <2>1, <2>2 DEF Has
<1>5. CASE Ends
  <2>1. MailboxTypes' /\ Pending' = {}
    BY <1>5, EndTypes
  <2>2. AskedOnce'
    BY <1>5 DEF Ends, AskedOnce
  <2> QED
    BY <2>1, <2>2 DEF Has
<1> QED
  BY <1>1, <1>2, <1>3, <1>4, <1>5 DEF MailboxStep

-----------------------------------------------------------------------------
(* The steps by what they do to the other variables.                       *)

\* A command that the actor takes was in the mailbox, and a request has a caller.
LEMMA TakenCommand ==
    ASSUME MailboxTypes
    PROVE  /\ \A cmd \in Commands : Is(cmd) => Has(cmd)
           /\ \A kind \in Kinds : IsCall(kind) => ThisCall \in Callers
<1>1. mailbox # <<>> => Head(mailbox) \in Pending
  BY TakeFacts DEF MailboxTypes
<1> QED
  BY <1>1 DEF MailboxTypes, Is, IsCall, ThisCall, Has

\* A view change is decided with a request at hand.
LEMMA DecisionHasRequest ==
    ASSUME MailboxTypes, Decides
    PROVE  Has("Request")
BY TakenCommand DEF Decides, HandleDecision, IsCall, Commands

\* The steps that publish an event, and those that call the callback.
LEMMA NextEvents ==
    ASSUME Next
    PROVE  \/ UNCHANGED events
           \/ HandlePublishInitialView /\ events' = Append(events, Event(config, TRUE))
           \/ Decides /\ events' = Append(events, Event(config', FALSE))
<1>1. CASE Quiet
  BY <1>1 DEF Quiet, SpawnActor, WireSubscriptions, SpawnServer, WindowCloses,
     ForwardEvent, ForwarderLags, ForwarderEnds, StopServer, ServerGone, AfterShutdown,
     AwaitActor
<1>2. CASE Posters
  BY <1>2 DEF Posters, AskInitialView, BatcherTicks, PumpForwards, TimerFires, SendShutdown
<1>3. CASE Calls
  BY <1>3 DEF Calls, MakeCall
<1>4. CASE Handlers
  BY <1>4 DEF Handlers, HandleRead, HandleJoin, HandleLeave, HandleAlerts, HandleConsensus,
     HandleStartClassicRound, HandleEdgeFailure, HandleTick, HandlePublishInitialView
<1>5. CASE Decides
  BY <1>5 DEF Decides, HandleDecision, DecideViewChange
<1>6. CASE HandleShutdown
  BY <1>6 DEF HandleShutdown
<1> QED
  BY <1>1, <1>2, <1>3, <1>4, <1>5, <1>6, NextByKind

\* Only the forwarder calls the callback.
LEMMA NextSeen ==
    ASSUME Next
    PROVE  ForwardEvent \/ UNCHANGED seen
<1>1. CASE Quiet
  BY <1>1 DEF Quiet, SpawnActor, WireSubscriptions, SpawnServer, WindowCloses, callback,
     ForwarderLags, ForwarderEnds, StopServer, ServerGone, AfterShutdown, AwaitActor
<1>2. CASE Posters
  BY <1>2 DEF Posters, AskInitialView, BatcherTicks, PumpForwards, TimerFires, SendShutdown,
     callback
<1>3. CASE Calls
  BY <1>3 DEF Calls, MakeCall, callback
<1>4. CASE Handlers
  BY <1>4 DEF Handlers, HandleRead, HandleJoin, HandleLeave, HandleAlerts, HandleConsensus,
     HandleStartClassicRound, HandleEdgeFailure, HandleTick, HandlePublishInitialView,
     callback
<1>5. CASE Decides
  BY <1>5 DEF Decides, HandleDecision, DecideViewChange, callback
<1>6. CASE HandleShutdown
  BY <1>6 DEF HandleShutdown, callback
<1> QED
  BY <1>1, <1>2, <1>3, <1>4, <1>5, <1>6, NextByKind

\* The steps of the process that owns the cluster.
LEMMA NextOwner ==
    ASSUME Next
    PROVE  \/ UNCHANGED pc
           \/ SpawnActor \/ WireSubscriptions \/ AskInitialView
           \/ \E bound \in BOOLEAN : SpawnServer(bound)
           \/ pc \in {"serving", "stopping", "sent", "awaiting"}
                /\ pc' \in {"stopping", "sent", "awaiting", "returned"}
<1>1. CASE Quiet
  BY <1>1 DEF Quiet, owner, WindowCloses,
     ForwardEvent, ForwarderLags, ForwarderEnds, StopServer, ServerGone, AfterShutdown,
     AwaitActor, TryUnwrap
<1>2. CASE Posters
  BY <1>2 DEF Posters, owner, BatcherTicks, PumpForwards, TimerFires, SendShutdown
<1>3. CASE Calls
  BY <1>3 DEF Calls, MakeCall, owner
<1>4. CASE Handlers
  BY <1>4 DEF Handlers, HandleRead, HandleJoin, HandleLeave, HandleAlerts, HandleConsensus,
     HandleStartClassicRound, HandleEdgeFailure, HandleTick, HandlePublishInitialView, owner
<1>5. CASE Decides
  BY <1>5 DEF Decides, HandleDecision, DecideViewChange, owner
<1>6. CASE HandleShutdown
  BY <1>6 DEF HandleShutdown, owner
<1> QED
  BY <1>1, <1>2, <1>3, <1>4, <1>5, <1>6, NextByKind

-----------------------------------------------------------------------------
(* Types.                                                                  *)

\* Every step keeps the types of the tasks.
LEMMA TaskTypesKept ==
    ASSUME Types, Next
    PROVE  TaskTypes'
<1> USE DEF TaskTypes, owner, state, callback
<1>0. TaskTypes
  BY DEF Types
<1>1. CASE Quiet
  <2>1. CASE SpawnActor
    BY <1>0, <2>1 DEF SpawnActor
  <2>2. CASE WireSubscriptions
    BY <1>0, <2>2 DEF WireSubscriptions
  <2>3. CASE \E bound \in BOOLEAN : SpawnServer(bound)
    BY <1>0, <2>3 DEF SpawnServer
  <2>4. CASE WindowCloses
    BY <1>0, <2>4 DEF WindowCloses
  <2>5. CASE ForwardEvent \/ ForwarderLags \/ ForwarderEnds
    BY <1>0, <2>5 DEF ForwardEvent, ForwarderLags, ForwarderEnds
  <2>6. CASE StopServer \/ ServerGone
    BY <1>0, <2>6 DEF StopServer, ServerGone
  <2>7. CASE AfterShutdown \/ AwaitActor
    BY <1>0, <2>7 DEF AfterShutdown, AwaitActor, TryUnwrap
  <2> QED
    BY <1>1, <2>1, <2>2, <2>3, <2>4, <2>5, <2>6, <2>7 DEF Quiet
<1>2. CASE Posters
  <2>1. CASE AskInitialView
    BY <1>0, <2>1 DEF AskInitialView
  <2>2. CASE BatcherTicks
    <3>1. tasks' = tasks \/ tasks' = tasks \ {"batcher"}
      BY <2>2 DEF BatcherTicks
    <3>2. UNCHANGED <<pc, server, actor, made, config, timer, lastEnqueue, detector, forwarder>>
      BY <2>2 DEF BatcherTicks
    <3>3. tasks' \subseteq {"batcher", "pump"}
      BY <1>0, <3>1
    <3> QED
      BY <1>0, <3>2, <3>3
  <2>3. CASE PumpForwards
    BY <1>0, <2>3 DEF PumpForwards
  <2>4. CASE TimerFires
    BY <1>0, <2>4 DEF TimerFires
  <2>5. CASE SendShutdown
    BY <1>0, <2>5 DEF SendShutdown
  <2> QED
    BY <1>2, <2>1, <2>2, <2>3, <2>4, <2>5 DEF Posters
<1>3. CASE Calls
  BY <1>0, <1>3, BoundsNat DEF Calls, MakeCall
<1>4. CASE Handlers
  <2>1. CASE HandleRead \/ HandleConsensus \/ HandleStartClassicRound
    BY <1>0, <2>1 DEF HandleRead, HandleConsensus, HandleStartClassicRound
  <2>2. CASE HandleJoin \/ HandleLeave
    BY <1>0, <2>2 DEF HandleJoin, HandleLeave, EnqueueAlert
  <2>3. CASE HandleAlerts
    BY <1>0, <2>3 DEF HandleAlerts
  <2>4. CASE HandleEdgeFailure
    BY <1>0, <2>4 DEF HandleEdgeFailure, EnqueueAlert
  <2>5. CASE HandleTick
    BY <1>0, <2>5 DEF HandleTick, KeepLast
  <2>6. CASE HandlePublishInitialView
    BY <1>0, <2>6 DEF HandlePublishInitialView
  <2> QED
    BY <1>4, <2>1, <2>2, <2>3, <2>4, <2>5, <2>6 DEF Handlers
<1>5. CASE Decides
  BY <1>0, <1>5, BoundsNat DEF Decides, HandleDecision, DecideViewChange, AbortTimer, Configs
<1>6. CASE HandleShutdown
  BY <1>0, <1>6 DEF HandleShutdown, ActorEnds
<1> QED
  BY <1>1, <1>2, <1>3, <1>4, <1>5, <1>6, NextByKind

\* Every step keeps the types of the flags.
LEMMA FlagsKept ==
    ASSUME Types, Next
    PROVE  Flags'
<1> USE DEF Flags, owner, state, callback
<1>0. Flags
  BY DEF Types
<1>1. CASE Quiet
  BY <1>0, <1>1 DEF Quiet, SpawnActor, WireSubscriptions, SpawnServer, WindowCloses,
     ForwardEvent, ForwarderLags, ForwarderEnds, StopServer, ServerGone, AfterShutdown,
     AwaitActor, TryUnwrap
<1>2. CASE Posters
  BY <1>0, <1>2 DEF Posters, AskInitialView, BatcherTicks, PumpForwards, TimerFires,
     SendShutdown
<1>3. CASE Calls
  BY <1>0, <1>3 DEF Calls, MakeCall
<1>4. CASE Handlers
  BY <1>0, <1>4 DEF Handlers, HandleRead, HandleJoin, HandleLeave, HandleAlerts,
     HandleConsensus, HandleStartClassicRound, HandleEdgeFailure, HandleTick,
     HandlePublishInitialView, EnqueueAlert, KeepLast
<1>5. CASE Decides
  BY <1>0, <1>5 DEF Decides, HandleDecision, DecideViewChange, AbortTimer
<1>6. CASE HandleShutdown
  BY <1>0, <1>6 DEF HandleShutdown, ActorEnds
<1> QED
  BY <1>1, <1>2, <1>3, <1>4, <1>5, <1>6, NextByKind

\* Every step keeps the types of the calls.
LEMMA CallTypesKept ==
    ASSUME Types, Next
    PROVE  calls' \in [Callers -> CallType]
<1>0. calls \in [Callers -> CallType] /\ NoCall \in CallType
  BY DEF Types, CallType
<1>7. \A kind \in Kinds : IsCall(kind) => ThisCall \in Callers
  BY TakenCommand DEF Types
<1>8. ASSUME NEW cs, Answer(cs) PROVE calls' \in [Callers -> CallType]
  BY <1>0, <1>8 DEF Answer
<1>1. CASE Quiet
  BY <1>0, <1>1 DEF Quiet, SpawnActor, WireSubscriptions, SpawnServer, WindowCloses,
     ForwardEvent, ForwarderLags, ForwarderEnds, StopServer, ServerGone, AfterShutdown,
     AwaitActor
<1>2. CASE Posters
  BY <1>0, <1>2 DEF Posters, AskInitialView, BatcherTicks, PumpForwards, TimerFires,
     SendShutdown
<1>3. CASE Calls
  <2>1. PICK c \in Callers, kind \in Kinds, stamp \in Configs : MakeCall(c, kind, stamp)
    BY <1>3 DEF Calls
  <2>2. [kind |-> kind, stamp |-> stamp, status |-> "waiting"] \in CallType
    BY DEF CallType
  <2> QED
    BY <1>0, <2>1, <2>2 DEF MakeCall
<1>4. CASE Handlers
  <2>1. CASE HandleJoin /\ Park
    <3>1. ThisCall \in Callers /\ calls[ThisCall].kind = "join"
      BY <1>7, <2>1 DEF HandleJoin, IsCall, ThisCall, Kinds
    <3>2. calls[ThisCall] \in CallType /\ calls[ThisCall] # NoCall
      BY <1>0, <3>1 DEF NoCall
    <3>3. [calls[ThisCall] EXCEPT !.status = "parked"] \in CallType
      BY <3>2 DEF CallType
    <3> QED
      BY <1>0, <2>1, <3>1, <3>3 DEF Park
  <2>2. CASE ~(HandleJoin /\ Park)
    BY <1>0, <1>4, <1>8, <2>2 DEF Handlers, HandleRead, HandleJoin, HandleLeave,
       HandleAlerts, HandleConsensus, HandleStartClassicRound, HandleEdgeFailure, HandleTick,
       HandlePublishInitialView
  <2> QED
    BY <2>1, <2>2
<1>5. CASE Decides
  BY <1>5, <1>8 DEF Decides, HandleDecision, DecideViewChange
<1>6. CASE HandleShutdown
  BY <1>6, <1>8 DEF HandleShutdown, ActorEnds
<1> QED
  BY <1>1, <1>2, <1>3, <1>4, <1>5, <1>6, NextByKind

\* Events have their type.
LEMMA IsEvent ==
    ASSUME NEW c \in Configs
    PROVE  Event(c, TRUE) \in EventType /\ Event(c, FALSE) \in EventType
BY DEF Event, EventType

\* Every step keeps the types of the events.
LEMMA EventTypesKept ==
    ASSUME Types, Next
    PROVE  EventTypes'
<1>1. events \in Seq(EventType) /\ seen \in Seq(EventType)
  BY DEF Types, EventTypes
<1>2. config \in Configs /\ config' \in Configs
  BY TaskTypesKept DEF Types, TaskTypes
<1>3. Event(config, TRUE) \in EventType /\ Event(config', FALSE) \in EventType
  BY <1>2, IsEvent
<1>4. events' \in Seq(EventType)
  <2>1. CASE UNCHANGED events
    BY <1>1, <2>1
  <2>2. ASSUME NEW e \in EventType, events' = Append(events, e)
        PROVE  events' \in Seq(EventType)
    BY <1>1, <2>2
  <2> QED
    BY <1>3, <2>1, <2>2, NextEvents, Zenon
<1>5. CASE ForwardEvent
  <2>1. seen' = Append(seen, events[NextEvent]) /\ NextEvent \in Oldest .. Len(events)
    BY <1>5 DEF ForwardEvent
  <2>2. Len(events) \in Nat /\ Len(seen) \in Nat
    BY <1>1
  <2>3. NextEvent \in 1 .. Len(events)
    BY <2>1, <2>2, BoundsNat DEF NextEvent, Oldest
  <2>4. events[NextEvent] \in EventType
    BY <1>1, <2>3
  <2> QED
    BY <1>1, <1>4, <2>1, <2>4 DEF EventTypes
<1>6. CASE ~ForwardEvent
  BY <1>1, <1>4, <1>6, NextSeen DEF EventTypes
<1> QED
  BY <1>5, <1>6

\* Every step keeps all types.
LEMMA TypesKept ==
    ASSUME Types, AskedOnce, Has("PublishInitialView") => pc = "asked", Next
    PROVE  Types'
<1>1. MailboxTypes'
  BY NextMailbox, MailboxKept
<1> QED
  BY <1>1, TaskTypesKept, FlagsKept, EventTypesKept, CallTypesKept DEF Types

-----------------------------------------------------------------------------
(* The parts of the invariant.                                             *)

\* Before the server is there, neither of the two commands that change the view or
\* end the actor is in the mailbox.
LEMMA BeforeServerKept ==
    ASSUME IInv, Next
    PROVE  BeforeServer'
<1>1. Types /\ AskedOnce /\ (Has("PublishInitialView") => pc = "asked") /\ BeforeServer
  BY DEF IInv, InitialView
<1>2. /\ Has("Request")' => Has("Request") \/ server # "down"
      /\ Has("Shutdown")' => Has("Shutdown") \/ pc = "stopping"
  BY <1>1, NextMailbox, MailboxKept
<1> SUFFICES ASSUME (Starting \/ pc = "asked")'
             PROVE  /\ ~Has("Request")' /\ ~Has("Shutdown")'
                    /\ config' = 0 /\ server' = "down"
                    /\ actor' = IF pc' = "new" THEN "none" ELSE "running"
  BY DEF BeforeServer
<1>3. Starting \/ pc = "asked"
  BY NextOwner DEF Starting, SpawnActor, WireSubscriptions, AskInitialView, SpawnServer
<1>4. /\ ~Has("Request") /\ ~Has("Shutdown") /\ config = 0 /\ server = "down"
      /\ actor = IF pc = "new" THEN "none" ELSE "running"
  BY <1>1, <1>3 DEF BeforeServer
<1>5. ~Has("Request")' /\ ~Has("Shutdown")'
  BY <1>2, <1>3, <1>4 DEF Starting
<1>6. ~Decides /\ ~HandleShutdown
  BY <1>1, <1>4, DecisionHasRequest, TakenCommand DEF Types, HandleShutdown, Commands
<1>7. config' = 0 /\ server' = "down" /\ actor' = IF pc' = "new" THEN "none" ELSE "running"
  <2> USE DEF owner, state
  <2>1. CASE Quiet
    BY <1>3, <1>4, <2>1 DEF Quiet, Starting, SpawnActor, WireSubscriptions, SpawnServer,
       WindowCloses, ForwardEvent, ForwarderLags, ForwarderEnds, StopServer, ServerGone,
       AfterShutdown, AwaitActor
  <2>2. CASE Posters
    BY <1>3, <1>4, <2>2 DEF Posters, Starting, AskInitialView, BatcherTicks, PumpForwards,
       TimerFires, SendShutdown
  <2>3. CASE Calls
    BY <1>4, <2>3 DEF Calls, MakeCall
  <2>4. CASE Handlers
    BY <1>4, <2>4 DEF Handlers, HandleRead, HandleJoin, HandleLeave, HandleAlerts,
       HandleConsensus, HandleStartClassicRound, HandleEdgeFailure, HandleTick,
       HandlePublishInitialView
  <2> QED
    BY <1>6, <2>1, <2>2, <2>3, <2>4, NextByKind
<1> QED
  BY <1>5, <1>7

\* What an event that is published does to the events.
LEMMA PublishFacts ==
    ASSUME events \in Seq(EventType), NEW e \in EventType, events' = Append(events, e)
    PROVE  /\ events' # <<>>
           /\ events = <<>> => events'[1] = e
           /\ events # <<>> => events'[1] = events[1]
           /\ Len(events) \in Nat /\ Len(events') = Len(events) + 1
           /\ \A i \in 1 .. Len(events) : events'[i] = events[i]
<1>1. /\ Len(events) \in Nat /\ Len(events') = Len(events) + 1
      /\ \A i \in 1 .. Len(events) : events'[i] = events[i]
      /\ events'[Len(events) + 1] = e
  OBVIOUS
<1>2. /\ events = <<>> => Len(events) = 0
      /\ events # <<>> => 1 \in 1 .. Len(events)
  OBVIOUS
<1>3. events' # <<>>
  BY <1>1
<1> QED
  BY <1>1, <1>2, <1>3

\* The request for the initial view is only gone when the view is published.
LEMMA RequestServed ==
    ASSUME IInv, Next, pc = "asked", Has("PublishInitialView")
    PROVE  Has("PublishInitialView")' \/ HandlePublishInitialView
<1>1. Types /\ ~Decides /\ ~HandleShutdown
  BY DecisionHasRequest, TakenCommand DEF IInv, Types, BeforeServer, HandleShutdown, Commands
<1>2. CASE UNCHANGED mailbox
  BY <1>2 DEF Has, Pending
<1>3. CASE \E c : Sends(c)
  <2>1. PICK c : Sends(c)
    BY <1>3
  <2>2. Pending' = Pending \cup {c}
    BY <1>1, <2>1, PostTypes DEF Types, Sends
  <2> QED
    BY <2>2 DEF Has
<1>4. CASE Takes /\ (Handlers \/ Decides)
  <2>1. Pending = Pending' \cup {Head(mailbox)}
    BY <1>1, <1>4, TakeTypes DEF Types
  <2>2. CASE Head(mailbox).cmd # "PublishInitialView"
    BY <2>1, <2>2 DEF Has
  <2>3. CASE Head(mailbox).cmd = "PublishInitialView"
    <3>1. Handlers
      BY <1>1, <1>4
    <3>2. \A cmd : Is(cmd) => cmd = "PublishInitialView"
      BY <2>3 DEF Is
    <3> QED
      BY <3>1, <3>2 DEF Handlers, HandleRead, HandleJoin, HandleLeave, HandleAlerts,
         HandleConsensus, HandleStartClassicRound, HandleEdgeFailure, HandleTick, IsCall
  <2> QED
    BY <2>2, <2>3
<1> QED
  BY <1>1, <1>2, <1>3, <1>4, NextMailbox DEF MailboxStep

\* Every step keeps the initial view asked for once, and the first event.
LEMMA InitialViewKept ==
    ASSUME IInv, Next
    PROVE  InitialView'
<1>1. Types /\ BeforeServer /\ InitialView /\ events \in Seq(EventType)
  BY DEF IInv, Types, EventTypes
<1>2. AskedOnce' /\ (Has("PublishInitialView")' => Has("PublishInitialView") \/ AskInitialView)
  BY <1>1, NextMailbox, MailboxKept DEF InitialView
<1>3. Starting \/ pc = "asked" => ~Decides /\ ~HandleShutdown /\ config = 0
  BY <1>1, DecisionHasRequest, TakenCommand DEF Types, BeforeServer, HandleShutdown, Commands
<1>4. HandlePublishInitialView =>
          Has("PublishInitialView") /\ pc = "asked" /\ events = <<>>
  BY <1>1, TakenCommand DEF Types, InitialView, HandlePublishInitialView, Commands
<1>5. config \in Configs /\ config' \in Configs
  BY <1>1, TaskTypesKept DEF Types, TaskTypes
<1>6. Event(config, TRUE) \in EventType /\ Event(config', FALSE) \in EventType
  BY <1>5, IsEvent
<1>7. \/ UNCHANGED events
      \/ /\ HandlePublishInitialView /\ events' # <<>>
         /\ events'[1] = Event(0, TRUE)
      \/ /\ Decides /\ events' # <<>>
         /\ events # <<>> /\ events'[1] = events[1]
  <2>1. CASE HandlePublishInitialView /\ events' = Append(events, Event(config, TRUE))
    BY <1>1, <1>3, <1>4, <1>6, <2>1, PublishFacts
  <2>2. CASE Decides /\ events' = Append(events, Event(config', FALSE))
    <3>1. events # <<>>
      BY <1>1, <1>3, <2>2 DEF InitialView
    <3> QED
      BY <1>1, <1>6, <2>2, <3>1, PublishFacts
  <2> QED
    BY <2>1, <2>2, NextEvents
<1>8. Starting' => events' = <<>>
  <2>1. Starting' => Starting
    BY NextOwner DEF Starting, SpawnActor, WireSubscriptions, AskInitialView, SpawnServer
  <2> QED
    BY <1>1, <1>3, <1>4, <1>7, <2>1 DEF InitialView, Starting
<1>9. Has("PublishInitialView")' => pc' = "asked" /\ events' = <<>>
  <2>1. CASE AskInitialView
    BY <1>1, <2>1 DEF AskInitialView, InitialView, Starting
  <2>2. CASE Has("PublishInitialView")
    <3>1. pc = "asked" /\ events = <<>>
      BY <1>1, <2>2 DEF InitialView
    <3>2. ~InitialViewAcked
      <4>1. mailbox \in Seq(CommandType)
        BY <1>1 DEF Types, MailboxTypes
      <4>2. DOMAIN mailbox = 1 .. Len(mailbox)
        BY <4>1
      <4> QED
        BY <2>2, <4>2 DEF InitialViewAcked, Has, Pending
    <3>3. pc' = "asked"
      BY <3>1, <3>2, NextOwner DEF SpawnActor, WireSubscriptions, AskInitialView, SpawnServer
    <3>4. CASE HandlePublishInitialView
      <4>1. Takes /\ Head(mailbox).cmd = "PublishInitialView"
        BY <3>4, HandlersTake DEF Handlers, HandlePublishInitialView, Is
      <4>2. ~Has("PublishInitialView")'
        BY <1>1, <4>1, AskedOnceTake DEF Types, InitialView
      <4> QED
        BY <4>2
    <3>5. CASE ~HandlePublishInitialView
      BY <1>3, <1>7, <3>1, <3>3, <3>5
    <3> QED
      BY <3>4, <3>5
  <2> QED
    BY <1>2, <2>1, <2>2
<1>10. pc' = "asked" => events' # <<>> \/ Has("PublishInitialView")'
  <2>1. CASE AskInitialView
    <3>1. PICK c : c = Command("PublishInitialView", 0)
      OBVIOUS
    <3>2. c \in CommandType /\ c.cmd = "PublishInitialView"
      BY <3>1, BoundsNat DEF CommandType, Commands, Command, Configs
    <3>3. mailbox \in Seq(CommandType) /\ mailbox' = Append(mailbox, c)
      BY <1>1, <2>1, <3>1 DEF Types, MailboxTypes, AskInitialView, Send, Post
    <3>4. c \in Pending'
      BY <3>2, <3>3, PostFacts
    <3> QED
      BY <3>2, <3>4 DEF Has
  <2>2. CASE pc = "asked"
    <3>1. CASE events # <<>>
      BY <1>7, <3>1
    <3>2. CASE events = <<>>
      <4>1. HandlePublishInitialView => events' # <<>>
        BY <1>1, <1>6, PublishFacts DEF HandlePublishInitialView
      <4> QED
        BY <1>1, <2>2, <3>2, <4>1, RequestServed DEF InitialView
    <3> QED
      BY <3>1, <3>2
  <2> QED
    BY <2>1, <2>2, NextOwner DEF SpawnActor, WireSubscriptions, SpawnServer
<1>11. ~Starting' /\ pc' # "asked" => events' # <<>>
  <2>1. CASE \E bound \in BOOLEAN : SpawnServer(bound)
    <3>1. pc = "asked" /\ InitialViewAcked /\ UNCHANGED events
      BY <2>1 DEF SpawnServer, InitialViewAcked
    <3>2. ~Has("PublishInitialView")
      <4>1. mailbox \in Seq(CommandType)
        BY <1>1 DEF Types, MailboxTypes
      <4>2. DOMAIN mailbox = 1 .. Len(mailbox)
        BY <4>1
      <4> QED
        BY <3>1, <4>2 DEF InitialViewAcked, Has, Pending
    <3> QED
      BY <1>1, <3>1, <3>2 DEF InitialView
  <2>2. CASE ~Starting /\ pc # "asked"
    BY <1>1, <1>7, <2>2 DEF InitialView
  <2> QED
    BY <2>1, <2>2, NextOwner DEF Starting, SpawnActor, WireSubscriptions, AskInitialView
<1>12. events' # <<>> => events'[1] = Event(0, TRUE)
  BY <1>1, <1>7 DEF InitialView
<1> QED
  BY <1>2, <1>8, <1>9, <1>10, <1>11, <1>12 DEF InitialView

\* Every step keeps what the callback has seen a prefix of the events.
LEMMA SeenSoFarKept ==
    ASSUME IInv, Next
    PROVE  SeenSoFar'
<1>1. /\ SeenSoFar /\ events \in Seq(EventType) /\ seen \in Seq(EventType)
      /\ Len(events) \in Nat /\ Len(seen) \in Nat
  BY DEF IInv, Types, EventTypes
<1>2. config \in Configs /\ config' \in Configs
  BY TaskTypesKept DEF IInv, Types, TaskTypes
<1>3. Event(config, TRUE) \in EventType /\ Event(config', FALSE) \in EventType
  BY <1>2, IsEvent
<1>4. /\ Len(events') \in Nat /\ Len(events') >= Len(events)
      /\ \A i \in 1 .. Len(events) : events'[i] = events[i]
  <2>1. CASE UNCHANGED events
    BY <1>1, <2>1
  <2>2. ASSUME NEW e \in EventType, events' = Append(events, e)
        PROVE  /\ Len(events') \in Nat /\ Len(events') >= Len(events)
               /\ \A i \in 1 .. Len(events) : events'[i] = events[i]
    BY <1>1, <2>2, PublishFacts
  <2> QED
    BY <1>3, <2>1, <2>2, NextEvents, Zenon
<1>5. CASE ForwardEvent
  <2>1. PICK e : e = events[NextEvent]
    OBVIOUS
  <2>2. /\ seen' = Append(seen, e) /\ NextEvent \in Oldest .. Len(events)
        /\ UNCHANGED events
    BY <1>5, <2>1 DEF ForwardEvent
  <2>3. NextEvent = Len(seen) + 1 /\ NextEvent \in 1 .. Len(events)
    BY <1>1, <2>2, BoundsNat DEF NextEvent, Oldest
  <2>4. e \in EventType
    BY <1>1, <2>1, <2>3
  <2>5. /\ Len(seen') = Len(seen) + 1 /\ seen'[Len(seen) + 1] = e
        /\ \A i \in 1 .. Len(seen) : seen'[i] = seen[i]
    BY <1>1, <2>2, <2>4
  <2> QED
    BY <1>1, <2>1, <2>2, <2>3, <2>5 DEF SeenSoFar
<1>6. CASE UNCHANGED seen
  BY <1>1, <1>4, <1>6 DEF SeenSoFar
<1> QED
  BY <1>5, <1>6, NextSeen

\* The steps by what they do to the vote, the timer and the classic round.
LEMMA NextVote ==
    ASSUME Next
    PROVE  \/ UNCHANGED <<announced, classic, overtaken>> /\ timer' \in {timer, NoTimer}
           \/ HandleAlerts /\ announced' = TRUE /\ UNCHANGED <<classic, overtaken>>
           \/ HandleStartClassicRound /\ UNCHANGED <<announced, timer, overtaken>>
           \/ Decides
           \/ HandleShutdown
<1> USE DEF state
<1>1. CASE Quiet
  BY <1>1 DEF Quiet, SpawnActor, WireSubscriptions, SpawnServer, WindowCloses,
     ForwardEvent, ForwarderLags, ForwarderEnds, StopServer, ServerGone, AfterShutdown,
     AwaitActor
<1>2. CASE Posters
  BY <1>2 DEF Posters, AskInitialView, BatcherTicks, PumpForwards, TimerFires, SendShutdown
<1>3. CASE Calls
  BY <1>3 DEF Calls, MakeCall
<1>4. CASE Handlers
  BY <1>4 DEF Handlers, HandleRead, HandleJoin, HandleLeave, HandleAlerts, HandleConsensus,
     HandleStartClassicRound, HandleEdgeFailure, HandleTick, HandlePublishInitialView
<1> QED
  BY <1>1, <1>2, <1>3, <1>4, NextByKind

\* The actor starts before everything else and stops with Shutdown.
LEMMA NextActor ==
    ASSUME Next
    PROVE  SpawnActor \/ UNCHANGED actor \/ HandleShutdown
<1>1. CASE Quiet
  BY <1>1 DEF Quiet, WireSubscriptions, SpawnServer, WindowCloses,
     ForwardEvent, ForwarderLags, ForwarderEnds, StopServer, ServerGone, AfterShutdown,
     AwaitActor
<1>2. CASE Posters
  BY <1>2 DEF Posters, AskInitialView, BatcherTicks, PumpForwards, TimerFires, SendShutdown
<1>3. CASE Calls
  BY <1>3 DEF Calls, MakeCall
<1>4. CASE Handlers
  BY <1>4 DEF Handlers, HandleRead, HandleJoin, HandleLeave, HandleAlerts, HandleConsensus,
     HandleStartClassicRound, HandleEdgeFailure, HandleTick, HandlePublishInitialView
<1>5. CASE Decides
  BY <1>5 DEF Decides, HandleDecision, DecideViewChange
<1> QED
  BY <1>1, <1>2, <1>3, <1>4, <1>5, NextByKind

\* A view change knows of a command that it overtakes.
LEMMA DecisionMarksOvertaken ==
    ASSUME Types, MailboxTypes', Decides
    PROVE  /\ Has("StartClassicRound")' => overtaken'
           /\ timer' = NoTimer /\ ~classic'
<1>1. PICK removed \in BOOLEAN, admitted \in SUBSET Parked :
          HandleDecision(removed, admitted)
  BY DEF Decides
<1>2. /\ timer' = NoTimer /\ ~classic'
      /\ overtaken' = (overtaken \/
            \E i \in DOMAIN mailbox' : mailbox'[i].cmd = "StartClassicRound")
  BY <1>1 DEF HandleDecision, DecideViewChange, AbortTimer
<1>3. DOMAIN mailbox' = 1 .. Len(mailbox')
  BY DEF MailboxTypes
<1> QED
  BY <1>2, <1>3, Zenon DEF Has, Pending

\* Every step keeps timers and classic rounds those of a vote, or overtaken.
LEMMA TimerKept ==
    ASSUME IInv, Next
    PROVE  TimerOfThisVote'
<1>1. /\ Types /\ BeforeServer /\ TimerOfThisVote /\ NotRunning
      /\ AskedOnce /\ (Has("PublishInitialView") => pc = "asked")
  BY DEF IInv, InitialView
<1>2. /\ MailboxTypes'
      /\ Has("StartClassicRound")' =>
            \/ Has("StartClassicRound")
            \/ timer # NoTimer /\ UNCHANGED <<announced, overtaken>>
            \/ Decides
  BY <1>1, NextMailbox, MailboxKept
<1> SUFFICES ASSUME Running'
             PROVE  /\ timer' # NoTimer => announced'
                    /\ Has("StartClassicRound")' => announced' \/ overtaken'
                    /\ classic' => announced' \/ overtaken'
  BY DEF TimerOfThisVote
<1>3. CASE SpawnActor
  <2>1. pc = "new" /\ UNCHANGED <<mailbox, timer, classic>>
    BY <1>3 DEF SpawnActor, state
  <2>2. mailbox = <<>> /\ ~classic /\ timer = NoTimer
    BY <1>1, <2>1 DEF BeforeServer, Starting, NotRunning, Running
  <2>3. ~Has("StartClassicRound")'
    BY <2>1, <2>2 DEF Has, Pending
  <2> QED
    BY <2>1, <2>2, <2>3
<1>4. CASE Decides
  BY <1>1, <1>2, <1>4, DecisionMarksOvertaken
<1>5. CASE Running /\ ~Decides
  <2>1. /\ timer # NoTimer => announced
        /\ Has("StartClassicRound") => announced \/ overtaken
        /\ classic => announced \/ overtaken
    BY <1>1, <1>5 DEF TimerOfThisVote
  <2>2. Has("StartClassicRound")' => Has("StartClassicRound") \/ timer # NoTimer
    BY <1>2, <1>5
  <2>3. CASE UNCHANGED <<announced, classic, overtaken>> /\ timer' \in {timer, NoTimer}
    BY <2>1, <2>2, <2>3
  <2>4. CASE HandleAlerts /\ announced' = TRUE /\ UNCHANGED <<classic, overtaken>>
    BY <2>4
  <2>5. CASE HandleStartClassicRound /\ UNCHANGED <<announced, timer, overtaken>>
    <3>1. Has("StartClassicRound")
      BY <1>1, <2>5, TakenCommand DEF Types, HandleStartClassicRound, Commands
    <3> QED
      BY <2>1, <2>2, <2>5, <3>1
  <2>6. CASE HandleShutdown
    BY <2>6 DEF HandleShutdown, ActorEnds, Running
  <2> QED
    BY <1>5, <2>3, <2>4, <2>5, <2>6, NextVote
<1>6. Running \/ SpawnActor
  BY NextActor DEF Running, HandleShutdown, ActorEnds
<1> QED
  BY <1>3, <1>4, <1>5, <1>6

\* Every step keeps the mailbox empty and the timer off while there is no actor.
LEMMA NotRunningKept ==
    ASSUME IInv, Next
    PROVE  NotRunning'
<1>1. Types /\ NotRunning
  BY DEF IInv
<1>2. CASE SpawnActor
  BY <1>2 DEF SpawnActor, NotRunning, Running
<1>3. CASE HandleShutdown
  BY <1>3 DEF HandleShutdown, ActorEnds, NotRunning, Running
<1>4. CASE UNCHANGED actor /\ Running
  BY <1>4 DEF NotRunning, Running
<1>5. CASE UNCHANGED actor /\ ~Running
  <2>1. UNCHANGED mailbox
    BY <1>1, <1>5, NextMailbox
       DEF MailboxStep, Sends, Posts, Takes, Swaps, HandleShutdown, Is
  <2>2. ~HandleAlerts /\ ~HandleStartClassicRound /\ ~Decides /\ ~HandleShutdown
    BY <1>5 DEF HandleAlerts, HandleStartClassicRound, Decides, HandleDecision,
       HandleShutdown, IsCall, Is
  <2>3. UNCHANGED classic /\ timer' \in {timer, NoTimer}
    BY <2>2, NextVote
  <2> QED
    BY <1>1, <1>5, <2>1, <2>3 DEF NotRunning, Running
<1> QED
  BY <1>2, <1>3, <1>4, <1>5, NextActor

-----------------------------------------------------------------------------
(* The invariant.                                                          *)

\* The first state satisfies the inductive invariant.
LEMMA InitInvariant ==
    ASSUME Init
    PROVE  IInv
<1> USE DEF Init
<1>1. mailbox = <<>> /\ Pending = {} /\ MailboxTypes
  <2>1. mailbox \in Seq(CommandType) /\ Len(mailbox) = 0
    OBVIOUS
  <2>2. Pending = {}
    BY <2>1 DEF Pending
  <2> QED
    BY <2>1, <2>2, BoundsNat DEF MailboxTypes
<1>2. TaskTypes
  BY BoundsNat DEF TaskTypes, Configs
<1>3. Flags
  BY DEF Flags
<1>4. EventTypes /\ calls \in [Callers -> CallType]
  BY DEF EventTypes, CallType
<1>5. BeforeServer /\ InitialView /\ TimerOfThisVote /\ NotRunning
  BY <1>1 DEF BeforeServer, InitialView, AskedOnce, TimerOfThisVote, NotRunning, Has,
     Starting, Running
<1>6. SeenSoFar
  BY DEF SeenSoFar
<1> QED
  BY <1>1, <1>2, <1>3, <1>4, <1>5, <1>6 DEF IInv, Types

\* A stuttering step keeps it.
LEMMA StutterInvariant ==
    ASSUME IInv, UNCHANGED vars
    PROVE  IInv'
<1>1. UNCHANGED <<pc, server, actor, mailbox, calls, made, config, announced, classic, timer,
                  queued, lastEnqueue, detector, tasks, events, forwarder, seen, overtaken>>
  BY DEF vars, owner, state, callback
<1>2. Pending' = Pending
  BY <1>1 DEF Pending
<1>3. Types'
  BY <1>1, <1>2 DEF IInv, Types, TaskTypes, Flags, EventTypes, MailboxTypes
<1>4. BeforeServer' /\ InitialView' /\ AskedOnce'
  BY <1>1, <1>2 DEF IInv, BeforeServer, InitialView, AskedOnce, Has, Starting
<1>5. SeenSoFar' /\ TimerOfThisVote' /\ NotRunning'
  BY <1>1, <1>2 DEF IInv, SeenSoFar, TimerOfThisVote, NotRunning, Has, Running
<1> QED
  BY <1>3, <1>4, <1>5 DEF IInv

\* The invariant holds in every state: what the mailbox holds at each stage of the
\* start, what has been published, and whose vote a timer belongs to.
THEOREM Invariance == Spec => []IInv
<1>1. IInv /\ [Next]_vars => IInv'
  <2> SUFFICES ASSUME IInv, [Next]_vars PROVE IInv'
    OBVIOUS
  <2>1. CASE Next
    BY <2>1, TypesKept, BeforeServerKept, InitialViewKept, SeenSoFarKept, TimerKept,
       NotRunningKept DEF IInv, InitialView
  <2>2. CASE UNCHANGED vars
    BY <2>2, StutterInvariant
  <2> QED
    BY <2>1, <2>2
<1> QED
  BY <1>1, InitInvariant, PTL DEF Spec

\* Every variable of the service keeps its type; in particular the mailbox never
\* holds more than its capacity, whoever posts to it and whatever the actor itself
\* leaves behind in a view change.
THEOREM TypeCorrect == Spec => []TypeOK
<1>1. IInv => TypeOK
  <2> SUFFICES ASSUME IInv PROVE TypeOK
    OBVIOUS
  <2>1. {announced, classic, queued, overtaken} \subseteq BOOLEAN
    BY Zenon DEF IInv, Types, Flags
  <2> QED
    BY <2>1 DEF TypeOK, IInv, Types, TaskTypes, EventTypes, MailboxTypes, CommandType,
       Commands, EventType, CallType
<1> QED
  BY <1>1, Invariance, PTL

\* The callback's first event is the view the member starts in: the server, and with
\* it every request that could change the view, comes after the initial view has
\* been published, although the batcher, the pump and the timer post from the start.
THEOREM CallbackStartsWithInitialView == Spec => []InitialViewFirst
<1>1. IInv => InitialViewFirst
  <2> SUFFICES ASSUME IInv, seen # <<>> PROVE Head(seen) = Event(0, TRUE)
    BY DEF InitialViewFirst
  <2>1. seen \in Seq(EventType) /\ events \in Seq(EventType)
    BY DEF IInv, Types, EventTypes
  <2>2. Head(seen) = seen[1] /\ 1 \in 1 .. Len(seen)
    BY <2>1
  <2>3. Len(seen) <= Len(events) /\ seen[1] = events[1]
    BY <2>2 DEF IInv, SeenSoFar
  <2>4. events # <<>>
    BY <2>1, <2>2, <2>3
  <2> QED
    BY <2>2, <2>3, <2>4 DEF IInv, InitialView
<1> QED
  BY <1>1, Invariance, PTL

\* A classic round without a vote of this configuration is due to a command that a
\* view change overtook in the mailbox, and to nothing else.
THEOREM UnvotedRoundsOvertaken == Spec => []RoundWithoutVoteWasOvertaken
<1>1. IInv => RoundWithoutVoteWasOvertaken
  BY DEF IInv, TimerOfThisVote, NotRunning, RoundWithoutVoteWasOvertaken
<1> QED
  BY <1>1, Invariance, PTL
====
