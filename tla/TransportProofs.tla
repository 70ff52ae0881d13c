-------------------------- MODULE TransportProofs --------------------------
(***************************************************************************)
(* Proofs about Transport, for any set of calls, any number of retries and *)
(* of servers, and any capacity of an inbox: both transports keep the      *)
(* promise of MessagingClient, and each keeps its own.                     *)
(*                                                                         *)
(* A call of one transport takes no step of the other, so the invariant is *)
(* one of each.  Over gRPC it is a count: what was handled and what is on  *)
(* the wire is at most what was sent, and that at most what is allowed.    *)
(* In process it is where the envelope of a call can be.                   *)
(***************************************************************************)
EXTENDS Transport, FiniteSetTheorems, TLAPS

CallType == [op : {"none", "send", "best"},
             pc : {"idle", "start", "connect", "send", "wait"} \cup Ended,
             tries : 0 .. Retries + 1,
             at : Nat]

ClientTypes ==
    /\ call \in [Calls -> CallType]
    /\ handled \in [Calls -> Nat]

StaleType == stale \in BOOLEAN /\ (stale => cached # 0)

GrpcTypes ==
    /\ StaleType
    /\ channels \in Nat
    /\ cached \in 0 .. channels
    /\ failed \subseteq 1 .. channels
    /\ wire \subseteq Calls \X (0 .. Retries)
    /\ running \subseteq Calls \X (0 .. Retries)

NetTypes ==
    /\ servers \in 0 .. MaxServers
    /\ registered \in 0 .. servers
    /\ inbox \in [Servers -> Seq(Calls)]
    /\ \A s \in Servers : Len(inbox[s]) <= InboxCapacity
    /\ loop \in [Servers -> {"none", "running", "ended"}]
    /\ handle \in [Servers -> {"none", "held", "draining", "shut", "aborted", "gone"}]
    /\ handlers \subseteq Calls

\* The attempts of a gRPC call that were put on the wire, at most, and those that
\* are still there.
Sent(c) == call[c].tries + IF call[c].pc \in {"wait", "ok", "late"} THEN 1 ELSE 0
OnWire(c) == {k \in 0 .. Retries : <<c, k>> \in wire}

GrpcCall(c) ==
    /\ call[c].pc \notin {"send", "dropped"}
    /\ call[c].pc = "idle" <=> call[c].op = "none"
    /\ call[c].at \in 0 .. channels
    /\ Pending(c) => call[c].tries < Allowed(c)
    /\ Sent(c) <= Allowed(c)

HandledSent(c) == handled[c] + Cardinality(OnWire(c)) <= Sent(c)

GrpcInv ==
    /\ \A c \in Calls : GrpcCall(c) /\ HandledSent(c)
    /\ \A m \in running : handled[m[1]] > 0
    /\ FailedNotCached

NetCall(c) ==
    /\ call[c].pc # "connect"
    /\ call[c].op # "send"
    /\ call[c].pc = "idle" <=> call[c].op = "none"
    /\ call[c].pc \in {"send", "wait", "dropped"} => call[c].at \in 1 .. servers
    /\ handled[c] <= 1
    /\ c \in handlers => handled[c] = 1
    /\ call[c].pc \in {"idle", "start", "send"} => handled[c] = 0

\* The call whose envelope is somewhere in the inbox of s.
Enqueued(c, s) ==
    /\ handled[c] = 0
    /\ call[c].at = s
    /\ call[c].pc \notin {"idle", "start", "send"}

InboxInv(s) ==
    /\ \A i \in 1 .. Len(inbox[s]) : Enqueued(inbox[s][i], s)
    /\ \A i, j \in 1 .. Len(inbox[s]) : inbox[s][i] = inbox[s][j] => i = j
    /\ s > servers => handle[s] = "none"

NetInv ==
    /\ failed = {} /\ cached = 0
    /\ \A c \in Calls : NetCall(c)
    /\ \A s \in Servers : InboxInv(s)

\* The inductive invariant.
IInv ==
    /\ transport \in {"grpc", "inprocess"}
    /\ ClientTypes /\ GrpcTypes /\ NetTypes
    /\ transport = "grpc" => GrpcInv
    /\ transport = "inprocess" => NetInv

-----------------------------------------------------------------------------
\* The attempts on the wire are finitely many.
LEMMA OnWireFinite ==
    ASSUME NEW c
    PROVE  IsFiniteSet(OnWire(c)) /\ Cardinality(OnWire(c)) \in Nat
<1>1. IsFiniteSet(0 .. Retries)
  <2>1. 0 \in Int /\ Retries \in Int
    BY RetriesNat
  <2> QED
    BY <2>1, FS_Interval
<1>2. OnWire(c) \subseteq 0 .. Retries
  BY DEF OnWire
<1> QED
  BY <1>1, <1>2, FS_Subset, FS_CardinalityType

\* The same, after a step.
LEMMA OnWireFiniteNext ==
    ASSUME NEW c
    PROVE  IsFiniteSet(OnWire(c)') /\ Cardinality(OnWire(c)') \in Nat
<1>1. IsFiniteSet(0 .. Retries)
  <2>1. 0 \in Int /\ Retries \in Int
    BY RetriesNat
  <2> QED
    BY <2>1, FS_Interval
<1>2. OnWire(c)' \subseteq 0 .. Retries
  BY DEF OnWire
<1> QED
  BY <1>1, <1>2, FS_Subset, FS_CardinalityType

\* A request that is put on the wire adds at most one attempt of its call.
LEMMA WireGrows ==
    ASSUME NEW c \in Calls, NEW k, wire' = wire \cup {<<c, k>>}, NEW d \in Calls
    PROVE  /\ Cardinality(OnWire(d)') <= Cardinality(OnWire(d)) + 1
           /\ d # c => OnWire(d)' = OnWire(d)
<1>1. d # c => OnWire(d)' = OnWire(d)
  BY DEF OnWire
<1>2. OnWire(d)' \subseteq OnWire(d) \cup {k}
  BY DEF OnWire
<1>3. /\ IsFiniteSet(OnWire(d) \cup {k})
      /\ Cardinality(OnWire(d) \cup {k}) <= Cardinality(OnWire(d)) + 1
  BY OnWireFinite, FS_AddElement
<1>4. Cardinality(OnWire(d)') <= Cardinality(OnWire(d) \cup {k})
  BY <1>2, <1>3, FS_Subset
<1>5. Cardinality(OnWire(d) \cup {k}) \in Nat
  BY <1>3, FS_CardinalityType
<1> QED
  BY <1>1, <1>3, <1>4, <1>5, OnWireFinite, OnWireFiniteNext

\* A request that is lost takes no attempt of another call with it.
LEMMA WireShrinks ==
    ASSUME wire' \subseteq wire, NEW d \in Calls
    PROVE  Cardinality(OnWire(d)') <= Cardinality(OnWire(d))
<1>1. OnWire(d)' \subseteq OnWire(d)
  BY DEF OnWire
<1> QED
  BY <1>1, OnWireFinite, FS_Subset

\* A request that is handled leaves the wire.
LEMMA WireHandled ==
    ASSUME wire \subseteq Calls \X (0 .. Retries), NEW m \in wire,
           wire' = wire \ {m}, NEW d \in Calls
    PROVE  /\ d # m[1] => OnWire(d)' = OnWire(d)
           /\ d = m[1] => Cardinality(OnWire(d)') + 1 = Cardinality(OnWire(d))
<1>1. m = <<m[1], m[2]>> /\ m[2] \in 0 .. Retries
  OBVIOUS
<1>2. d # m[1] => OnWire(d)' = OnWire(d)
  BY <1>1 DEF OnWire
<1>3. ASSUME d = m[1]
      PROVE  Cardinality(OnWire(d)') + 1 = Cardinality(OnWire(d))
  <2>1. OnWire(d)' = OnWire(d) \ {m[2]}
    BY <1>1, <1>3 DEF OnWire
  <2>2. m[2] \in OnWire(d)
    BY <1>1, <1>3 DEF OnWire
  <2>3. Cardinality(OnWire(d) \ {m[2]}) = Cardinality(OnWire(d)) - 1
    <3>1. IsFiniteSet(OnWire(d))
      BY OnWireFinite
    <3>2. Cardinality(OnWire(d) \ {m[2]}) =
              IF m[2] \in OnWire(d) THEN Cardinality(OnWire(d)) - 1
                                    ELSE Cardinality(OnWire(d))
      BY <3>1, FS_RemoveElement
    <3> QED
      BY <2>2, <3>2
  <2> QED
    BY <2>1, <2>3, OnWireFinite
<1> QED
  BY <1>2, <1>3

-----------------------------------------------------------------------------
(* gRPC                                                                    *)

\* What a step of call c alone needs to keep the invariant.
LEMMA GrpcCallStep ==
    ASSUME ClientTypes, GrpcTypes, GrpcInv, NEW c \in Calls,
           call' \in [Calls -> CallType],
           \A d \in Calls \ {c} : call'[d] = call[d],
           handled' = handled,
           channels' \in Nat, channels <= channels',
           \A d \in Calls \ {c} : Cardinality(OnWire(d)') <= Cardinality(OnWire(d)),
           GrpcCall(c)', HandledSent(c)'
    PROVE  \A d \in Calls : GrpcCall(d)' /\ HandledSent(d)'
<1> SUFFICES ASSUME NEW d \in Calls \ {c}
             PROVE  GrpcCall(d)' /\ HandledSent(d)'
  OBVIOUS
<1>1. call'[d] = call[d] /\ handled'[d] = handled[d]
  OBVIOUS
<1>2. Sent(d)' = Sent(d) /\ Allowed(d)' = Allowed(d) /\ Pending(d)' = Pending(d)
  BY <1>1 DEF Sent, Allowed, Pending
<1>3. GrpcCall(d)'
  BY <1>1, <1>2 DEF GrpcCall, GrpcInv, GrpcTypes
<1>4. /\ Cardinality(OnWire(d)') <= Cardinality(OnWire(d))
      /\ handled[d] + Cardinality(OnWire(d)) <= Sent(d)
      /\ handled[d] \in Nat /\ Sent(d) \in Int
  <2>1. call[d] \in CallType
    BY DEF ClientTypes
  <2> QED
    BY <2>1 DEF GrpcInv, HandledSent, ClientTypes, Sent, CallType
<1>5. HandledSent(d)'
  BY <1>1, <1>2, <1>4, OnWireFinite, OnWireFiniteNext DEF HandledSent
<1> QED
  BY <1>3, <1>5

\* What the facts about one call say of it.
LEMMA GrpcCallFacts ==
    ASSUME ClientTypes, GrpcInv, NEW c \in Calls
    PROVE  /\ call[c] \in CallType
           /\ call[c].pc \in {"idle", "start", "connect", "wait", "ok", "err", "late"}
           /\ call[c].tries \in 0 .. Retries + 1
           /\ call[c].at \in Nat
           /\ handled[c] \in Nat
           /\ GrpcCall(c) /\ HandledSent(c)
<1>1. call[c] \in CallType /\ handled[c] \in Nat
  BY DEF ClientTypes
<1>2. GrpcCall(c) /\ HandledSent(c)
  BY DEF GrpcInv
<1> QED
  BY <1>1, <1>2 DEF CallType, GrpcCall, Ended

\* A retry is left only below the allowed attempts.
LEMMA RetriesLeftAllowed ==
    ASSUME ClientTypes, GrpcInv, NEW c \in Calls, Pending(c)
    PROVE  /\ Allowed(c) \in 1 .. Retries + 1
           /\ RetriesLeft(c) <=> call[c].tries + 1 < Allowed(c)
           /\ call[c].tries \in 0 .. Retries
<1> USE RetriesNat
<1>1. call[c] \in CallType /\ GrpcCall(c)
  BY GrpcCallFacts
<1>2. call[c].op \in {"send", "best"} /\ call[c].tries \in 0 .. Retries + 1
  BY <1>1 DEF GrpcCall, CallType, Pending
<1>3. Allowed(c) = IF call[c].op = "send" THEN Retries + 1 ELSE 1
  BY <1>2 DEF Allowed
<1>4. call[c].tries < Allowed(c)
  BY <1>1 DEF GrpcCall
<1> QED
  BY <1>2, <1>3, <1>4 DEF RetriesLeft

\* A failed attempt: the cache holds nothing any more, and the attempt that may
\* have been handled is counted in the tries of the call.
LEMMA AttemptFailsInv ==
    ASSUME ClientTypes, GrpcTypes, GrpcInv, NEW c \in Calls,
           call[c].pc \in {"connect", "wait"}, AttemptFails(c), wire' \subseteq wire
    PROVE  ClientTypes' /\ GrpcTypes' /\ GrpcInv'
<1> USE RetriesNat
<1>1. Pending(c)
  BY DEF Pending, Ended
<1>2. /\ Allowed(c) \in 1 .. Retries + 1
      /\ RetriesLeft(c) <=> call[c].tries + 1 < Allowed(c)
      /\ call[c].tries \in 0 .. Retries
  BY <1>1, RetriesLeftAllowed
<1>3. /\ call[c] \in CallType
      /\ call[c].at \in Nat
      /\ handled[c] \in Nat
      /\ GrpcCall(c) /\ HandledSent(c)
  BY GrpcCallFacts
<1>4. /\ call' \in [Calls -> CallType]
      /\ call'[c].pc = IF RetriesLeft(c) THEN "start" ELSE "err"
      /\ call'[c].tries = call[c].tries + 1
      /\ call'[c].op = call[c].op
      /\ call'[c].at = 0
      /\ \A d \in Calls \ {c} : call'[d] = call[d]
  BY <1>2, <1>3 DEF ClientTypes, CallType, AttemptFails, Ended
<1>5. ClientTypes'
  BY <1>4 DEF ClientTypes, AttemptFails
<1>6. GrpcTypes'
  <2>1. call[c].at \in 0 .. channels /\ channels \in Nat /\ failed \subseteq 1 .. channels
    BY <1>3 DEF GrpcCall, GrpcTypes
  <2>2. failed' \subseteq 1 .. channels'
    BY <2>1 DEF AttemptFails
  <2>3. stale' = FALSE /\ cached' = 0 /\ channels' = channels
    BY DEF AttemptFails, Invalidate
  <2>4. wire' \subseteq Calls \X (0 .. Retries) /\ running' \subseteq Calls \X (0 .. Retries)
    <3>1. running' \subseteq running
      BY DEF AttemptFails
    <3>2. wire \subseteq Calls \X (0 .. Retries) /\ running \subseteq Calls \X (0 .. Retries)
      BY DEF GrpcTypes
    <3> QED
      BY <3>1, <3>2
  <2>5. StaleType'
    BY <2>3 DEF StaleType
  <2>6. channels' \in Nat /\ cached' \in 0 .. channels'
    BY <2>1, <2>3
  <2> QED
    BY <2>2, <2>4, <2>5, <2>6 DEF GrpcTypes
<1>7. Allowed(c)' = Allowed(c) /\ Sent(c)' = call[c].tries + 1
  <2>1. Allowed(c)' = Allowed(c)
    BY <1>4 DEF Allowed
  <2>2. call'[c].pc \notin {"wait", "ok", "late"}
    BY <1>4
  <2> QED
    BY <1>2, <1>4, <2>1, <2>2 DEF Sent
<1>8. GrpcCall(c)'
  BY <1>2, <1>3, <1>4, <1>6, <1>7 DEF GrpcCall, Pending, Ended, GrpcTypes
<1>9. \A d \in Calls : Cardinality(OnWire(d)') <= Cardinality(OnWire(d))
  BY WireShrinks
<1>10. Sent(c) \in Nat /\ Sent(c) <= call[c].tries + 1
  BY <1>2 DEF Sent
<1>11. HandledSent(c)'
  BY <1>2, <1>3, <1>7, <1>9, <1>10, OnWireFinite, OnWireFiniteNext
  DEF HandledSent, AttemptFails
<1>12. \A d \in Calls : GrpcCall(d)' /\ HandledSent(d)'
  BY <1>4, <1>8, <1>9, <1>11, GrpcCallStep DEF AttemptFails, GrpcTypes
<1>13. (\A m \in running : handled[m[1]] > 0)' /\ FailedNotCached'
  BY DEF GrpcInv, AttemptFails, Invalidate, FailedNotCached, GrpcTypes
<1> QED
  BY <1>5, <1>6, <1>12, <1>13 DEF GrpcInv

\* A lookup that hits sends on the cached channel; one that misses only clears
\* the cache.
LEMMA LookupInv ==
    ASSUME ClientTypes, GrpcTypes, GrpcInv, NEW c \in Calls, Lookup(c)
    PROVE  ClientTypes' /\ GrpcTypes' /\ GrpcInv'
<1> USE RetriesNat
<1>1. Pending(c) /\ call[c].pc = "start"
  BY DEF Pending, Ended, Lookup
<1>2. Allowed(c) \in 1 .. Retries + 1 /\ call[c].tries \in 0 .. Retries
  BY <1>1, RetriesLeftAllowed
<1>3. call[c] \in CallType /\ handled[c] \in Nat /\ GrpcCall(c) /\ HandledSent(c)
  BY GrpcCallFacts
<1>4. Sent(c) = call[c].tries
  BY <1>1, <1>2 DEF Sent
<1>5. /\ handled' = handled /\ channels' = channels /\ failed' = failed
      /\ running' = running /\ ~stale' /\ stale' \in BOOLEAN
      /\ cached' \in {0, cached}
  BY DEF Lookup, SendOn
<1>6. wire' \in {wire, wire \cup {Attempt(c)}}
  BY DEF Lookup, SendOn
<1>7. /\ call' \in [Calls -> CallType]
      /\ call'[c].op = call[c].op
      /\ call'[c].tries = call[c].tries
      /\ \/ /\ call'[c].pc = "wait" /\ call'[c].at = cached
            /\ wire' = wire \cup {Attempt(c)}
         \/ call'[c].pc = "connect" /\ call'[c].at = 0 /\ wire' = wire
      /\ \A d \in Calls \ {c} : call'[d] = call[d]
  <2>1. CASE GotoAt(c, "wait", cached) /\ wire' = wire \cup {Attempt(c)}
    <3>1. cached \in Nat
      BY DEF GrpcTypes
    <3> QED
      BY <1>3, <2>1, <3>1 DEF ClientTypes, CallType, GotoAt, Ended
  <2>2. CASE GotoAt(c, "connect", 0) /\ wire' = wire
    BY <1>3, <2>2 DEF ClientTypes, CallType, GotoAt, Ended
  <2> QED
    BY <2>1, <2>2 DEF Lookup, SendOn
<1>8. ClientTypes'
  BY <1>5, <1>7 DEF ClientTypes
<1>9. GrpcTypes'
  <2>1. StaleType'
    BY <1>5 DEF StaleType
  <2>2. Attempt(c) \in Calls \X (0 .. Retries)
    BY <1>2 DEF Attempt
  <2>3. wire' \subseteq Calls \X (0 .. Retries)
    BY <1>6, <2>2 DEF GrpcTypes
  <2> QED
    BY <1>5, <2>1, <2>3 DEF GrpcTypes
<1>10. Allowed(c)' = Allowed(c)
  BY <1>7 DEF Allowed
<1>11. Sent(c)' = call[c].tries + IF call'[c].pc = "wait" THEN 1 ELSE 0
  BY <1>7 DEF Sent
<1>12. GrpcCall(c)'
  <2>1. call'[c].at \in 0 .. channels'
    BY <1>5, <1>7 DEF GrpcTypes
  <2>2. Sent(c)' <= Allowed(c)' /\ call'[c].tries < Allowed(c)'
    BY <1>1, <1>2, <1>3, <1>7, <1>10, <1>11 DEF GrpcCall
  <2> QED
    BY <1>1, <1>3, <1>7, <2>1, <2>2 DEF GrpcCall, Pending, Ended
<1>13. \A d \in Calls \ {c} : Cardinality(OnWire(d)') <= Cardinality(OnWire(d))
  <2> SUFFICES ASSUME NEW d \in Calls \ {c}
               PROVE  Cardinality(OnWire(d)') <= Cardinality(OnWire(d))
    OBVIOUS
  <2>1. OnWire(d)' = OnWire(d)
    BY <1>6 DEF OnWire, Attempt
  <2> QED
    BY <2>1, OnWireFinite
<1>14. HandledSent(c)'
  <2>1. CASE wire' = wire /\ call'[c].pc = "connect"
    <3>1. OnWire(c)' = OnWire(c)
      BY <2>1 DEF OnWire
    <3> QED
      BY <1>2, <1>3, <1>4, <1>5, <1>11, <2>1, <3>1, OnWireFinite DEF HandledSent
  <2>2. CASE wire' = wire \cup {Attempt(c)} /\ call'[c].pc = "wait"
    <3>1. Cardinality(OnWire(c)') <= Cardinality(OnWire(c)) + 1
      BY <2>2, WireGrows DEF Attempt
    <3> QED
      BY <1>2, <1>3, <1>4, <1>5, <1>11, <2>2, <3>1, OnWireFinite, OnWireFiniteNext
      DEF HandledSent
  <2> QED
    BY <1>7, <2>1, <2>2
<1>15. \A d \in Calls : GrpcCall(d)' /\ HandledSent(d)'
  BY <1>5, <1>7, <1>12, <1>13, <1>14, GrpcCallStep DEF GrpcTypes
<1>16. (\A m \in running : handled[m[1]] > 0)' /\ FailedNotCached'
  BY <1>5 DEF GrpcInv, FailedNotCached, GrpcTypes
<1> QED
  BY <1>8, <1>9, <1>15, <1>16 DEF GrpcInv

\* A new channel goes into an empty cache and carries the request of its own task.
LEMMA ConnectedInv ==
    ASSUME ClientTypes, GrpcTypes, GrpcInv, NEW c \in Calls, Connected(c)
    PROVE  ClientTypes' /\ GrpcTypes' /\ GrpcInv'
<1> USE RetriesNat
<1>1. Pending(c) /\ call[c].pc = "connect"
  BY DEF Pending, Ended, Connected
<1>2. Allowed(c) \in 1 .. Retries + 1 /\ call[c].tries \in 0 .. Retries
  BY <1>1, RetriesLeftAllowed
<1>3. call[c] \in CallType /\ handled[c] \in Nat /\ GrpcCall(c) /\ HandledSent(c)
  BY GrpcCallFacts
<1>4. Sent(c) = call[c].tries
  BY <1>1, <1>2 DEF Sent
<1>5. /\ handled' = handled /\ channels' = channels + 1 /\ failed' = failed
      /\ running' = running /\ wire' = wire \cup {Attempt(c)}
      /\ cached' \in {cached, channels'}
  BY DEF Connected, SendOn, CacheChannel
<1>6. channels \in Nat /\ channels' \in Nat
  BY <1>5 DEF GrpcTypes
<1>7. /\ call' \in [Calls -> CallType]
      /\ call'[c].op = call[c].op
      /\ call'[c].tries = call[c].tries
      /\ call'[c].pc = "wait"
      /\ call'[c].at = channels'
      /\ \A d \in Calls \ {c} : call'[d] = call[d]
  BY <1>3, <1>6 DEF ClientTypes, CallType, Connected, SendOn, GotoAt, Ended
<1>8. ClientTypes'
  BY <1>5, <1>7 DEF ClientTypes
<1>9. GrpcTypes'
  <2>1. StaleType'
    <3>1. stale' = (stale /\ cached # 0) /\ (cached # 0 => cached' = cached)
      BY DEF Connected, CacheChannel
    <3> QED
      BY <3>1 DEF StaleType, GrpcTypes
  <2>2. Attempt(c) \in Calls \X (0 .. Retries)
    BY <1>2 DEF Attempt
  <2>3. wire' \subseteq Calls \X (0 .. Retries) /\ running' \subseteq Calls \X (0 .. Retries)
    BY <1>5, <2>2 DEF GrpcTypes
  <2>4. cached' \in 0 .. channels' /\ failed' \subseteq 1 .. channels'
    BY <1>5, <1>6 DEF GrpcTypes
  <2> QED
    BY <1>6, <2>1, <2>3, <2>4 DEF GrpcTypes
<1>10. Allowed(c)' = Allowed(c) /\ Sent(c)' = call[c].tries + 1
  BY <1>7 DEF Allowed, Sent
<1>12. GrpcCall(c)'
  <2>1. call'[c].at \in 0 .. channels'
    BY <1>6, <1>7
  <2>2. Sent(c)' <= Allowed(c)' /\ call'[c].tries < Allowed(c)'
    BY <1>1, <1>2, <1>3, <1>7, <1>10 DEF GrpcCall
  <2> QED
    BY <1>1, <1>3, <1>7, <2>1, <2>2 DEF GrpcCall, Pending, Ended
<1>13. \A d \in Calls \ {c} : Cardinality(OnWire(d)') <= Cardinality(OnWire(d))
  <2> SUFFICES ASSUME NEW d \in Calls \ {c}
               PROVE  Cardinality(OnWire(d)') <= Cardinality(OnWire(d))
    OBVIOUS
  <2>1. OnWire(d)' = OnWire(d)
    BY <1>5 DEF OnWire, Attempt
  <2> QED
    BY <2>1, OnWireFinite
<1>14. HandledSent(c)'
  <2>1. Cardinality(OnWire(c)') <= Cardinality(OnWire(c)) + 1
    BY <1>5, WireGrows DEF Attempt
  <2> QED
    BY <1>2, <1>3, <1>4, <1>5, <1>10, <2>1, OnWireFinite, OnWireFiniteNext
    DEF HandledSent
<1>15. \A d \in Calls : GrpcCall(d)' /\ HandledSent(d)'
  BY <1>5, <1>6, <1>7, <1>12, <1>13, <1>14, GrpcCallStep
<1>16. (\A m \in running : handled[m[1]] > 0)' /\ FailedNotCached'
  BY <1>5, <1>6 DEF GrpcInv, FailedNotCached, GrpcTypes
<1> QED
  BY <1>8, <1>9, <1>15, <1>16 DEF GrpcInv

\* A request that is handled is counted as handled instead of on the wire.
LEMMA ServerHandlesInv ==
    ASSUME ClientTypes, GrpcTypes, GrpcInv, NEW m \in wire, ServerHandles(m)
    PROVE  /\ ClientTypes' /\ GrpcTypes' /\ GrpcInv'
           /\ m[1] \in Calls /\ handled[m[1]] < Allowed(m[1])
<1> DEFINE c == m[1]
<1>1. m \in Calls \X (0 .. Retries) /\ c \in Calls
  BY DEF GrpcTypes
<1>2. /\ handled' = [handled EXCEPT ![c] = @ + 1]
      /\ wire' = wire \ {m}
      /\ running' \subseteq running \cup {m}
      /\ call' = call /\ cached' = cached /\ stale' = stale
      /\ channels' = channels /\ failed' = failed
  BY DEF ServerHandles, RunHandler, cache
<1> HIDE DEF c
<1>3. ClientTypes'
  BY <1>1, <1>2 DEF ClientTypes
<1>4. GrpcTypes'
  <2>1. wire' \subseteq Calls \X (0 .. Retries) /\ running' \subseteq Calls \X (0 .. Retries)
    BY <1>1, <1>2 DEF GrpcTypes
  <2>2. StaleType'
    BY <1>2 DEF StaleType, GrpcTypes
  <2> QED
    BY <1>2, <2>1, <2>2 DEF GrpcTypes
<1>5. \A d \in Calls : /\ Sent(d)' = Sent(d) /\ Allowed(d)' = Allowed(d)
                       /\ Pending(d)' = Pending(d)
  BY <1>2 DEF Sent, Allowed, Pending
<1>6. \A d \in Calls : GrpcCall(d)'
  BY <1>2, <1>5 DEF GrpcInv, GrpcCall
<1>7. \A d \in Calls : HandledSent(d)'
  <2> SUFFICES ASSUME NEW d \in Calls PROVE HandledSent(d)'
    OBVIOUS
  <2>1. /\ handled[d] \in Nat /\ Sent(d) \in Int
        /\ handled[d] + Cardinality(OnWire(d)) <= Sent(d)
    <3>1. call[d] \in CallType
      BY DEF ClientTypes
    <3> QED
      BY <3>1 DEF ClientTypes, CallType, Sent, GrpcInv, HandledSent
  <2>2. CASE d # c
    <3>1. OnWire(d)' = OnWire(d)
      BY <1>2, <2>2, WireHandled DEF GrpcTypes, c
    <3> QED
      BY <1>1, <1>2, <1>5, <2>1, <2>2, <3>1 DEF HandledSent, ClientTypes
  <2>3. CASE d = c
    <3>1. Cardinality(OnWire(d)') + 1 = Cardinality(OnWire(d))
      BY <1>2, <2>3, WireHandled DEF GrpcTypes, c
    <3>2. handled'[d] = handled[d] + 1
      BY <1>2, <2>3 DEF ClientTypes
    <3> QED
      BY <1>5, <2>1, <3>1, <3>2, OnWireFinite, OnWireFiniteNext DEF HandledSent
  <2> QED
    BY <2>2, <2>3
<1>8. (\A r \in running : handled[r[1]] > 0)'
  <2> SUFFICES ASSUME NEW r \in running' PROVE handled'[r[1]] > 0
    OBVIOUS
  <2>1. r[1] \in Calls
    BY <1>4 DEF GrpcTypes
  <2>2. CASE r[1] = c
    BY <1>2, <2>1, <2>2 DEF ClientTypes
  <2>3. CASE r[1] # c
    <3>1. r \in running
      BY <1>2, <2>3 DEF c
    <3> QED
      BY <1>2, <2>1, <2>3, <3>1 DEF GrpcInv, ClientTypes
  <2> QED
    BY <2>2, <2>3
<1>9. handled[c] < Allowed(c)
  <2>1. c \in Calls /\ GrpcCall(c) /\ HandledSent(c) /\ handled[c] \in Nat
        /\ call[c] \in CallType
    BY <1>1, GrpcCallFacts
  <2>2. Cardinality(OnWire(c)') + 1 = Cardinality(OnWire(c))
    BY <1>1, <1>2, WireHandled DEF GrpcTypes, c
  <2>3. Sent(c) \in Int /\ Allowed(c) \in Int
    BY <2>1, RetriesNat DEF Sent, Allowed, CallType
  <2> QED
    BY <2>1, <2>2, <2>3, OnWireFinite, OnWireFiniteNext DEF GrpcCall, HandledSent
<1>10. FailedNotCached'
  BY <1>2 DEF FailedNotCached, GrpcInv
<1> QED
  BY <1>1, <1>3, <1>4, <1>6, <1>7, <1>8, <1>9, <1>10 DEF GrpcInv, c

\* A call that ends, with an answer or at its deadline, has sent no more than it
\* was allowed to.
LEMMA GrpcCallEnds ==
    ASSUME ClientTypes, GrpcTypes, GrpcInv, NEW c \in Calls, NEW pc \in {"ok", "late"},
           Pending(c), pc = "ok" => call[c].pc = "wait", Goto(c, pc),
           handled' = handled, running' \subseteq running, wire' \subseteq wire,
           UNCHANGED <<cached, stale, channels, failed>>
    PROVE  ClientTypes' /\ GrpcTypes' /\ GrpcInv'
<1> USE RetriesNat
<1>2. Allowed(c) \in 1 .. Retries + 1 /\ call[c].tries \in 0 .. Retries
  BY RetriesLeftAllowed
<1>3. call[c] \in CallType /\ handled[c] \in Nat /\ GrpcCall(c) /\ HandledSent(c)
  BY GrpcCallFacts
<1>4. /\ call' \in [Calls -> CallType]
      /\ call'[c].op = call[c].op
      /\ call'[c].tries = call[c].tries
      /\ call'[c].pc = pc
      /\ call'[c].at = call[c].at
      /\ \A d \in Calls \ {c} : call'[d] = call[d]
  BY <1>3 DEF ClientTypes, CallType, Goto, Ended
<1>5. ClientTypes'
  BY <1>4 DEF ClientTypes
<1>6. GrpcTypes'
  <2>1. wire' \subseteq Calls \X (0 .. Retries) /\ running' \subseteq Calls \X (0 .. Retries)
    BY DEF GrpcTypes
  <2>2. StaleType'
    BY DEF StaleType, GrpcTypes
  <2> QED
    BY <2>1, <2>2 DEF GrpcTypes
<1>7. Allowed(c)' = Allowed(c) /\ Sent(c)' = call[c].tries + 1
  BY <1>4 DEF Allowed, Sent
<1>8. GrpcCall(c)'
  BY <1>2, <1>3, <1>4, <1>7 DEF GrpcCall, Pending, Ended
<1>9. \A d \in Calls : Cardinality(OnWire(d)') <= Cardinality(OnWire(d))
  BY WireShrinks
<1>10. Sent(c) \in Nat /\ Sent(c) <= call[c].tries + 1
  BY <1>2 DEF Sent
<1>11. HandledSent(c)'
  BY <1>2, <1>3, <1>7, <1>9, <1>10, OnWireFinite, OnWireFiniteNext DEF HandledSent
<1>12. \A d \in Calls : GrpcCall(d)' /\ HandledSent(d)'
  BY <1>4, <1>8, <1>9, <1>11, GrpcCallStep DEF GrpcTypes
<1>13. (\A m \in running : handled[m[1]] > 0)' /\ FailedNotCached'
  BY DEF GrpcInv, FailedNotCached
<1> QED
  BY <1>5, <1>6, <1>12, <1>13 DEF GrpcInv

\* A call that starts has sent nothing.
LEMMA GrpcStartInv ==
    ASSUME ClientTypes, GrpcTypes, GrpcInv, NEW c \in Calls, NEW op \in {"send", "best"},
           StartCall(c, op), UNCHANGED grpcVars
    PROVE  ClientTypes' /\ GrpcTypes' /\ GrpcInv'
<1> USE RetriesNat
<1>1. call[c].pc = "idle" /\ call[c] \in CallType /\ GrpcCall(c) /\ HandledSent(c)
  BY GrpcCallFacts DEF StartCall
<1>2. call[c].tries = 0 /\ Sent(c) = 0
  <2>1. call[c].op = "none" /\ call[c].tries \in Nat
    BY <1>1 DEF GrpcCall, CallType
  <2>2. Allowed(c) = 0
    BY <2>1 DEF Allowed
  <2> QED
    BY <1>1, <2>1, <2>2 DEF Sent, GrpcCall
<1>3. /\ call' \in [Calls -> CallType]
      /\ call'[c].op = op
      /\ call'[c].tries = 0
      /\ call'[c].pc = "start"
      /\ call'[c].at = call[c].at
      /\ \A d \in Calls \ {c} : call'[d] = call[d]
  BY <1>1, <1>2 DEF ClientTypes, CallType, StartCall, Ended
<1>4. ClientTypes'
  BY <1>3 DEF ClientTypes, StartCall
<1>5. GrpcTypes'
  BY DEF GrpcTypes, StaleType, grpcVars
<1>6. Allowed(c)' \in Nat /\ Allowed(c)' > 0 /\ Sent(c)' = 0
  BY <1>3 DEF Allowed, Sent
<1>7. GrpcCall(c)'
  BY <1>1, <1>3, <1>6 DEF GrpcCall, grpcVars
<1>8. \A d \in Calls : OnWire(d)' = OnWire(d)
  BY DEF OnWire, grpcVars
<1>9. HandledSent(c)'
  BY <1>1, <1>2, <1>6, <1>8 DEF HandledSent, StartCall
<1>10. \A d \in Calls : Cardinality(OnWire(d)') <= Cardinality(OnWire(d))
  BY <1>8, OnWireFinite
<1>11. \A d \in Calls : GrpcCall(d)' /\ HandledSent(d)'
  BY <1>3, <1>7, <1>9, <1>10, GrpcCallStep DEF GrpcTypes, StartCall, grpcVars
<1>12. (\A m \in running : handled[m[1]] > 0)' /\ FailedNotCached'
  BY DEF GrpcInv, FailedNotCached, StartCall, grpcVars
<1> QED
  BY <1>4, <1>5, <1>11, <1>12 DEF GrpcInv

\* Nothing of the calls, and of the cache only `stale`.
LEMMA GrpcIdleStep ==
    ASSUME ClientTypes, GrpcTypes, GrpcInv, StaleType',
           UNCHANGED <<call, handled, cached, channels, failed, wire, running>>
    PROVE  ClientTypes' /\ GrpcTypes' /\ GrpcInv'
<1>1. \A d \in Calls : /\ Sent(d)' = Sent(d) /\ Allowed(d)' = Allowed(d)
                       /\ Pending(d)' = Pending(d) /\ OnWire(d)' = OnWire(d)
  BY DEF Sent, Allowed, Pending, OnWire
<1>2. \A d \in Calls : GrpcCall(d)' /\ HandledSent(d)'
  BY <1>1 DEF GrpcInv, GrpcCall, HandledSent
<1> QED
  BY <1>2 DEF ClientTypes, GrpcTypes, GrpcInv, FailedNotCached

\* Every step of the gRPC transport keeps its invariant.
LEMMA GrpcNextInv ==
    ASSUME ClientTypes, GrpcTypes, GrpcInv, GrpcNext
    PROVE  ClientTypes' /\ GrpcTypes' /\ GrpcInv'
<1>1. ASSUME NEW c \in Calls, ConnectFails(c)
      PROVE  ClientTypes' /\ GrpcTypes' /\ GrpcInv'
  BY <1>1, AttemptFailsInv DEF ConnectFails
<1>2. ASSUME NEW c \in Calls, ConnectionBreaks(c)
      PROVE  ClientTypes' /\ GrpcTypes' /\ GrpcInv'
  <2>1. wire' \subseteq wire
    BY <1>2 DEF ConnectionBreaks
  <2> QED
    BY <1>2, <2>1, AttemptFailsInv DEF ConnectionBreaks
<1>3. ASSUME NEW c \in Calls, HandlerFails(c)
      PROVE  ClientTypes' /\ GrpcTypes' /\ GrpcInv'
  BY <1>3, AttemptFailsInv DEF HandlerFails
<1>4. ASSUME NEW c \in Calls, Answered(c)
      PROVE  ClientTypes' /\ GrpcTypes' /\ GrpcInv'
  <2>1. Pending(c)
    BY <1>4 DEF Answered, Pending, Ended
  <2> QED
    BY <1>4, <2>1, GrpcCallEnds DEF Answered, cache
<1>5. ASSUME NEW c \in Calls, GrpcDeadline(c)
      PROVE  ClientTypes' /\ GrpcTypes' /\ GrpcInv'
  <2>1. wire' \subseteq wire
    BY <1>5 DEF GrpcDeadline
  <2> QED
    BY <1>5, <2>1, GrpcCallEnds DEF GrpcDeadline, Deadline, cache
<1>6. ASSUME ChannelIdles
      PROVE  ClientTypes' /\ GrpcTypes' /\ GrpcInv'
  <2>1. StaleType'
    BY <1>6 DEF ChannelIdles, StaleType
  <2> QED
    BY <1>6, <2>1, GrpcIdleStep DEF ChannelIdles
<1>7. ASSUME NEW up \in BOOLEAN, ServerListens(up)
      PROVE  ClientTypes' /\ GrpcTypes' /\ GrpcInv'
  <2>1. StaleType'
    BY <1>7 DEF ServerListens, StaleType, GrpcTypes, cache
  <2> QED
    BY <1>7, <2>1, GrpcIdleStep DEF ServerListens, cache
<1> QED
  BY <1>1, <1>2, <1>3, <1>4, <1>5, <1>6, <1>7, LookupInv, ConnectedInv, ServerHandlesInv
  DEF GrpcNext

-----------------------------------------------------------------------------
(* In process                                                              *)

\* What the facts about one call say of it.
LEMMA NetCallFacts ==
    ASSUME ClientTypes, NetInv, NEW c \in Calls
    PROVE  /\ call[c] \in CallType
           /\ call[c].at \in Nat
           /\ handled[c] \in {0, 1}
           /\ NetCall(c)
<1>1. call[c] \in CallType /\ handled[c] \in Nat /\ NetCall(c)
  BY DEF ClientTypes, NetInv
<1> QED
  BY <1>1 DEF CallType, NetCall

\* A step of call c that leaves the inboxes alone: c does not leave a state in
\* which its envelope may be in one.
LEMMA NetCallStep ==
    ASSUME ClientTypes, NetTypes, NetInv, NEW c \in Calls,
           call' \in [Calls -> CallType],
           \A d \in Calls \ {c} : call'[d] = call[d],
           call'[c].op = "best",
           call'[c].pc \notin {"idle", "connect", "dropped"},
           \/ call[c].pc \in {"idle", "start", "send"}
           \/ call'[c].at = call[c].at /\ call'[c].pc \notin {"start", "send"},
           call'[c].pc \in {"start", "send"} => handled[c] = 0,
           call'[c].pc \in {"send", "wait"} => call'[c].at \in 1 .. servers,
           UNCHANGED <<handled, inbox, servers, handle, cached, failed>>,
           handlers' \subseteq handlers
    PROVE  ClientTypes' /\ NetInv'
<1>1. NetCall(c)'
  <2>1. handled[c] \in {0, 1} /\ NetCall(c)
    BY NetCallFacts
  <2> QED
    BY <2>1 DEF NetCall
<1>2. \A d \in Calls \ {c} : NetCall(d)'
  BY DEF NetCall, NetInv
<1>3. \A s \in Servers : InboxInv(s)'
  <2> SUFFICES ASSUME NEW s \in Servers PROVE InboxInv(s)'
    OBVIOUS
  <2>1. ASSUME NEW i \in 1 .. Len(inbox[s])
        PROVE  Enqueued(inbox[s][i], s)'
    <3>1. inbox[s][i] \in Calls /\ Enqueued(inbox[s][i], s)
      BY DEF NetTypes, NetInv, InboxInv
    <3> QED
      BY <3>1 DEF Enqueued
  <2> QED
    BY <2>1 DEF InboxInv, NetInv
<1> QED
  BY <1>1, <1>2, <1>3 DEF ClientTypes, NetInv

\* What Goto and GotoAt do to the calls.
LEMMA GotoCall ==
    ASSUME ClientTypes, NEW c \in Calls,
           NEW pc \in {"start", "connect", "send", "wait"} \cup Ended
    PROVE  /\ Goto(c, pc) => /\ call' \in [Calls -> CallType]
                             /\ call'[c].pc = pc
                             /\ call'[c].op = call[c].op
                             /\ call'[c].at = call[c].at
                             /\ \A d \in Calls \ {c} : call'[d] = call[d]
           /\ \A at \in Nat :
                 GotoAt(c, pc, at) => /\ call' \in [Calls -> CallType]
                                      /\ call'[c].pc = pc
                                      /\ call'[c].op = call[c].op
                                      /\ call'[c].at = at
                                      /\ \A d \in Calls \ {c} : call'[d] = call[d]
<1>1. call[c] \in CallType
  BY DEF ClientTypes
<1> QED
  BY <1>1 DEF ClientTypes, CallType, Goto, GotoAt, Ended

\* A call that is started, dropped by the interceptor or routed is in no inbox.
LEMMA NetRouted ==
    ASSUME ClientTypes, NetTypes, NetInv, NEW c \in Calls,
           \/ StartCall(c, "best") /\ UNCHANGED netVars
           \/ Intercepted(c)
           \/ Route(c),
           UNCHANGED <<cached, failed>>
    PROVE  ClientTypes' /\ NetTypes' /\ NetInv'
<1>1. /\ call[c] \in CallType /\ call[c].at \in Nat /\ NetCall(c)
      /\ handled[c] \in {0, 1}
  BY NetCallFacts
<1>2. CASE StartCall(c, "best") /\ UNCHANGED netVars
  <2>1. /\ call' \in [Calls -> CallType]
        /\ call'[c].pc = "start" /\ call'[c].op = "best"
        /\ \A d \in Calls \ {c} : call'[d] = call[d]
    BY <1>1, <1>2 DEF StartCall, ClientTypes, CallType
  <2>2. call[c].pc = "idle" /\ handled[c] = 0 /\ handled' = handled
    BY <1>1, <1>2 DEF StartCall, NetCall
  <2>3. NetTypes'
    BY <1>2 DEF NetTypes, netVars
  <2>4. UNCHANGED <<handled, inbox, servers, handle, cached, failed, handlers>>
    BY <1>2, <2>2 DEF netVars
  <2>5. ClientTypes' /\ NetInv'
    BY <2>1, <2>2, <2>4, NetCallStep
  <2> QED
    BY <2>3, <2>5
<1>3. CASE Intercepted(c)
  <2>1. /\ call' \in [Calls -> CallType]
        /\ call'[c].pc = "err" /\ call'[c].op = call[c].op
        /\ \A d \in Calls \ {c} : call'[d] = call[d]
    BY <1>3, GotoCall DEF Intercepted, Ended
  <2>2. call[c].pc = "start" /\ call[c].op = "best"
    BY <1>1, <1>3 DEF Intercepted, NetCall, CallType
  <2>3. NetTypes'
    BY <1>3 DEF NetTypes, Intercepted
  <2>4. UNCHANGED <<handled, inbox, servers, handle, cached, failed, handlers>>
    BY <1>3 DEF Intercepted
  <2>5. ClientTypes' /\ NetInv'
    BY <2>1, <2>2, <2>4, NetCallStep
  <2> QED
    BY <2>3, <2>5
<1>4. CASE Route(c)
  <2>1. /\ call' \in [Calls -> CallType]
        /\ \/ call'[c].pc = "err"
           \/ call'[c].pc = "send" /\ call'[c].at = registered /\ registered # 0
        /\ call'[c].op = call[c].op
        /\ \A d \in Calls \ {c} : call'[d] = call[d]
    <3>1. registered \in Nat
      BY DEF NetTypes
    <3> QED
      BY <1>4, <3>1, GotoCall DEF Route, Ended
  <2>2. call[c].pc = "start" /\ call[c].op = "best" /\ handled[c] = 0
    BY <1>1, <1>4 DEF Route, NetCall, CallType
  <2>3. NetTypes'
    BY <1>4 DEF NetTypes, Route, netVars
  <2>4. UNCHANGED <<handled, inbox, servers, handle, cached, failed, handlers>>
    BY <1>4 DEF Route, netVars
  <2>5. call'[c].pc = "send" => call'[c].at \in 1 .. servers
    BY <2>1 DEF NetTypes
  <2>6. ClientTypes' /\ NetInv'
    BY <2>1, <2>2, <2>4, <2>5, NetCallStep
  <2> QED
    BY <2>3, <2>6
<1> QED
  BY <1>2, <1>3, <1>4

\* An answer, or a deadline: the envelope may still be where it was.
LEMMA NetCallEnds ==
    ASSUME ClientTypes, NetTypes, NetInv, NEW c \in Calls,
           \/ \E r \in {"ok", "err"} : HandlerReplies(c, r)
           \/ NetDeadline(c),
           UNCHANGED <<cached, failed>>
    PROVE  ClientTypes' /\ NetTypes' /\ NetInv'
<1>1. call[c] \in CallType /\ NetCall(c)
  BY NetCallFacts
<1>2. handlers' \subseteq handlers
  BY DEF HandlerReplies, NetDeadline, netVars
<1>3. UNCHANGED <<handled, registered, servers, inbox, loop, handle>>
  BY DEF HandlerReplies, NetDeadline, Deadline, netVars
<1>4. NetTypes'
  BY <1>2, <1>3 DEF NetTypes
<1>5. CASE Pending(c) /\ \E r \in {"ok", "err", "late"} : Goto(c, r)
  <2>1. /\ call' \in [Calls -> CallType]
        /\ call'[c].pc \in {"ok", "err", "late"} /\ call'[c].op = call[c].op
        /\ call'[c].at = call[c].at
        /\ \A d \in Calls \ {c} : call'[d] = call[d]
    BY <1>5, GotoCall DEF Ended
  <2>2. call[c].op = "best"
    BY <1>1, <1>5 DEF Pending, NetCall, CallType
  <2>3. ClientTypes' /\ NetInv'
    BY <1>2, <1>3, <2>1, <2>2, NetCallStep
  <2> QED
    BY <1>4, <2>3
<1>6. CASE call' = call
  <2>1. \A d \in Calls : NetCall(d)'
    BY <1>2, <1>3, <1>6 DEF NetCall, NetInv
  <2>2. \A s \in Servers : InboxInv(s)'
    BY <1>3, <1>6 DEF InboxInv, NetInv, Enqueued
  <2> QED
    BY <1>3, <1>4, <1>6, <2>1, <2>2 DEF NetInv, ClientTypes
<1> QED
  BY <1>5, <1>6 DEF HandlerReplies, NetDeadline, Deadline

\* A full inbox makes the call wait, a closed one fails it; otherwise the envelope
\* of c goes to the end of an inbox that does not hold it.
LEMMA EnqueueInv ==
    ASSUME ClientTypes, NetTypes, NetInv, NEW c \in Calls, Enqueue(c),
           UNCHANGED <<cached, failed>>
    PROVE  ClientTypes' /\ NetTypes' /\ NetInv'
<1>1. PICK s \in Servers :
         /\ s = call[c].at /\ s \in 1 .. servers /\ call[c].pc = "send"
         /\ call[c].op = "best" /\ handled[c] = 0 /\ NetCall(c)
  <2>1. call[c] \in CallType /\ NetCall(c) /\ call[c].pc = "send"
    BY NetCallFacts DEF Enqueue
  <2> QED
    BY <2>1, InboxNat DEF CallType, NetCall, NetTypes, Servers
<1>2. UNCHANGED <<handled, registered, servers, loop, handle, handlers>>
  BY DEF Enqueue
<1>3. CASE /\ Len(inbox[s]) < InboxCapacity
           /\ inbox' = [inbox EXCEPT ![s] = Append(@, c)]
           /\ Goto(c, "wait")
  <2>1. /\ call' \in [Calls -> CallType]
        /\ call'[c].pc = "wait" /\ call'[c].op = "best" /\ call'[c].at = s
        /\ \A d \in Calls \ {c} : call'[d] = call[d]
    BY <1>1, <1>3, GotoCall
  <2>2. PICK q \in Seq(Calls) :
           /\ inbox' = [inbox EXCEPT ![s] = q]
           /\ Len(q) = Len(inbox[s]) + 1
           /\ \A i \in 1 .. Len(inbox[s]) : q[i] = inbox[s][i]
           /\ q[Len(inbox[s]) + 1] = c
    <3>1. inbox[s] \in Seq(Calls)
      BY <1>1 DEF NetTypes
    <3>2. /\ Append(inbox[s], c) \in Seq(Calls)
          /\ Len(Append(inbox[s], c)) = Len(inbox[s]) + 1
          /\ \A i \in 1 .. Len(inbox[s]) : Append(inbox[s], c)[i] = inbox[s][i]
          /\ Append(inbox[s], c)[Len(inbox[s]) + 1] = c
      BY <3>1
    <3> QED
      BY <1>3, <3>2
  <2>3. inbox'[s] = q /\ \A t \in Servers \ {s} : inbox'[t] = inbox[t]
    BY <1>1, <2>2 DEF NetTypes
  <2>4. Len(inbox[s]) \in Nat
    BY <1>1 DEF NetTypes
  <2>5. NetTypes'
    <3>1. inbox' \in [Servers -> Seq(Calls)]
      BY <1>1, <2>2 DEF NetTypes
    <3>2. \A t \in Servers : Len(inbox'[t]) <= InboxCapacity
      BY <1>3, <2>2, <2>3, <2>4, InboxNat DEF NetTypes
    <3> QED
      BY <1>2, <3>1, <3>2 DEF NetTypes
  <2>6. \A d \in Calls : NetCall(d)'
    BY <1>1, <1>2, <2>1 DEF NetCall, NetInv
  <2>7. \A t \in Servers : \A i \in 1 .. Len(inbox[t]) :
            inbox[t][i] \in Calls \ {c} /\ Enqueued(inbox[t][i], t)
    <3> SUFFICES ASSUME NEW t \in Servers, NEW i \in 1 .. Len(inbox[t])
                 PROVE  inbox[t][i] \in Calls \ {c} /\ Enqueued(inbox[t][i], t)
      OBVIOUS
    <3>1. inbox[t] \in Seq(Calls) /\ InboxInv(t)
      BY DEF NetTypes, NetInv
    <3>2. inbox[t][i] \in Calls /\ Enqueued(inbox[t][i], t)
      BY <3>1 DEF InboxInv
    <3> QED
      BY <1>1, <3>2 DEF Enqueued
  <2>8. \A t \in Servers : InboxInv(t)'
    <3> SUFFICES ASSUME NEW t \in Servers PROVE InboxInv(t)'
      OBVIOUS
    <3>1. \A i, j \in 1 .. Len(inbox[t]) : inbox[t][i] = inbox[t][j] => i = j
      BY DEF NetInv, InboxInv
    <3>2. t > servers' => handle'[t] = "none"
      BY <1>2 DEF NetInv, InboxInv
    <3>3. CASE t # s
      <4>1. inbox'[t] = inbox[t]
        BY <2>3, <3>3
      <4>2. ASSUME NEW i \in 1 .. Len(inbox[t])
            PROVE  Enqueued(inbox[t][i], t)'
        <5>1. inbox[t][i] \in Calls \ {c} /\ Enqueued(inbox[t][i], t)
          BY <2>7, <4>2
        <5>2. call'[inbox[t][i]] = call[inbox[t][i]]
          BY <2>1, <5>1
        <5> QED
          BY <1>2, <4>1, <5>1, <5>2 DEF Enqueued
      <4> QED
        BY <3>1, <3>2, <4>1, <4>2 DEF InboxInv
    <3>4. CASE t = s
      <4>1. \A i \in 1 .. Len(inbox'[s]) : Enqueued(inbox[s][i], s)'
        <5> SUFFICES ASSUME NEW i \in 1 .. Len(inbox'[s])
                     PROVE  Enqueued(inbox[s][i], s)'
          OBVIOUS
        <5>1. CASE i \in 1 .. Len(inbox[s])
          BY <1>1, <1>2, <2>1, <2>2, <2>3, <2>7, <5>1 DEF Enqueued
        <5>2. CASE i = Len(inbox[s]) + 1
          BY <1>1, <1>2, <2>1, <2>2, <2>3, <5>2 DEF Enqueued
        <5> QED
          BY <2>2, <2>3, <2>4, <5>1, <5>2
      <4>2. \A i, j \in 1 .. Len(inbox'[s]) : inbox'[s][i] = inbox'[s][j] => i = j
        <5> SUFFICES ASSUME NEW i \in 1 .. Len(inbox'[s]), NEW j \in 1 .. Len(inbox'[s]),
                            inbox'[s][i] = inbox'[s][j]
                     PROVE  i = j
          OBVIOUS
        <5>1. \A k \in 1 .. Len(inbox[s]) : q[k] = inbox[s][k] /\ q[k] # c
          BY <2>2, <2>7
        <5>2. i \in 1 .. Len(inbox[s]) + 1 /\ j \in 1 .. Len(inbox[s]) + 1 /\ q[i] = q[j]
          BY <2>2, <2>3
        <5>3. CASE i \in 1 .. Len(inbox[s]) /\ j \in 1 .. Len(inbox[s])
          BY <3>1, <3>4, <5>1, <5>2, <5>3
        <5>4. CASE i = Len(inbox[s]) + 1 \/ j = Len(inbox[s]) + 1
          BY <2>2, <2>4, <5>1, <5>2, <5>4
        <5> QED
          BY <2>4, <5>2, <5>3, <5>4
      <4> QED
        BY <3>2, <3>4, <4>1, <4>2 DEF InboxInv
    <3> QED
      BY <3>3, <3>4
  <2> QED
    BY <1>2, <2>1, <2>5, <2>6, <2>8 DEF ClientTypes, NetInv
<1>4. CASE Goto(c, "err") /\ inbox' = inbox
  <2>1. /\ call' \in [Calls -> CallType]
        /\ call'[c].pc = "err" /\ call'[c].op = call[c].op
        /\ \A d \in Calls \ {c} : call'[d] = call[d]
    BY <1>4, GotoCall DEF Ended
  <2>2. ClientTypes' /\ NetInv'
    BY <1>1, <1>2, <1>4, <2>1, NetCallStep
  <2> QED
    BY <1>2, <1>4, <2>2 DEF NetTypes
<1> QED
  BY <1>1, <1>3, <1>4 DEF Enqueue

\* The head of an inbox is handled for the first time, and is nowhere else in it.
LEMMA TakeInv ==
    ASSUME ClientTypes, NetTypes, NetInv, NEW s \in Servers, Take(s),
           UNCHANGED <<cached, failed>>
    PROVE  /\ ClientTypes' /\ NetTypes' /\ NetInv'
           /\ Head(inbox[s]) \in Calls /\ handled[Head(inbox[s])] = 0
           /\ call[Head(inbox[s])].op = "best"
<1> DEFINE c == Head(inbox[s])
<1>1. inbox[s] \in Seq(Calls) /\ inbox[s] # <<>>
  BY DEF Take, NetTypes
<1>2. /\ Len(inbox[s]) \in Nat \ {0}
      /\ Head(inbox[s]) = inbox[s][1] /\ inbox[s][1] \in Calls
  BY <1>1
<1>3. Enqueued(c, s) /\ c \in Calls
  BY <1>2 DEF NetInv, InboxInv
<1>4. /\ handled' = [handled EXCEPT ![c] = @ + 1]
      /\ handlers' = handlers \cup {c}
      /\ inbox' = [inbox EXCEPT ![s] = Tail(inbox[s])]
      /\ UNCHANGED <<call, registered, servers, loop, handle>>
  BY DEF Take, RunHandler
<1> HIDE DEF c
<1>5. /\ handled' \in [Calls -> Nat] /\ handled'[c] = 1
      /\ \A d \in Calls \ {c} : handled'[d] = handled[d]
  BY <1>3, <1>4 DEF ClientTypes, Enqueued
<1>5a. PICK q \in Seq(Calls) :
         /\ inbox' = [inbox EXCEPT ![s] = q]
         /\ Len(q) = Len(inbox[s]) - 1
         /\ \A i \in 1 .. Len(inbox[s]) - 1 : q[i] = inbox[s][i + 1]
  <2>1. /\ Tail(inbox[s]) \in Seq(Calls)
        /\ Len(Tail(inbox[s])) = Len(inbox[s]) - 1
        /\ \A i \in 1 .. Len(inbox[s]) - 1 : Tail(inbox[s])[i] = inbox[s][i + 1]
    BY <1>1
  <2> QED
    BY <1>4, <2>1
<1>6. inbox'[s] = q /\ \A t \in Servers \ {s} : inbox'[t] = inbox[t]
  BY <1>5a DEF NetTypes
<1>7. NetTypes'
  <2>1. inbox' \in [Servers -> Seq(Calls)]
    BY <1>5a DEF NetTypes
  <2>2. \A t \in Servers : Len(inbox'[t]) <= InboxCapacity
    BY <1>2, <1>5a, <1>6, InboxNat DEF NetTypes
  <2> QED
    BY <1>3, <1>4, <2>1, <2>2 DEF NetTypes
<1>8. call[c].pc # "idle" /\ call[c].op = "best" /\ call[c].pc \notin {"start", "send"}
  <2>1. call[c] \in CallType /\ NetCall(c)
    BY <1>3, NetCallFacts
  <2> QED
    BY <1>3, <2>1 DEF Enqueued, CallType, NetCall
<1>9. \A d \in Calls : NetCall(d)'
  BY <1>3, <1>4, <1>5, <1>8 DEF NetCall, NetInv
<1>10. \A t \in Servers : InboxInv(t)'
  <2> SUFFICES ASSUME NEW t \in Servers PROVE InboxInv(t)'
    OBVIOUS
  <2>1. /\ \A i, j \in 1 .. Len(inbox[t]) : inbox[t][i] = inbox[t][j] => i = j
        /\ \A i \in 1 .. Len(inbox[t]) : inbox[t][i] \in Calls /\ Enqueued(inbox[t][i], t)
    BY DEF NetInv, InboxInv, NetTypes
  <2>2. t > servers' => handle'[t] = "none"
    BY <1>4 DEF NetInv, InboxInv
  <2>3. CASE t # s
    <3>1. \A i \in 1 .. Len(inbox[t]) : inbox[t][i] # c
      BY <1>3, <2>1, <2>3 DEF Enqueued
    <3> QED
      BY <1>4, <1>5, <1>6, <2>1, <2>2, <2>3, <3>1 DEF InboxInv, Enqueued
  <2>4. CASE t = s
    <3>1. \A i \in 1 .. Len(inbox[s]) - 1 : inbox'[s][i] = inbox[s][i + 1]
      BY <1>5a, <1>6
    <3>2. \A i \in 1 .. Len(inbox[s]) - 1 : inbox[s][i + 1] # c
      BY <1>2, <2>1, <2>4 DEF c
    <3>3. \A i \in 1 .. Len(inbox'[s]) : Enqueued(inbox[s][i], s)'
      <4> SUFFICES ASSUME NEW i \in 1 .. Len(inbox[s]) - 1
                   PROVE  Enqueued(inbox[s][i], s)'
        BY <1>2, <1>5a, <1>6
      <4>1. /\ i + 1 \in 1 .. Len(inbox[s]) /\ inbox'[s][i] = inbox[s][i + 1]
            /\ inbox[s][i + 1] # c
        BY <1>2, <3>1, <3>2
      <4>2. inbox[s][i + 1] \in Calls /\ Enqueued(inbox[s][i + 1], s)
        BY <2>1, <2>4, <4>1
      <4> QED
        BY <1>4, <1>5, <4>1, <4>2 DEF Enqueued
    <3>4. \A i, j \in 1 .. Len(inbox'[s]) : inbox'[s][i] = inbox'[s][j] => i = j
      BY <1>2, <1>5a, <1>6, <2>1, <2>4, <3>1
    <3> QED
      BY <2>2, <2>4, <3>3, <3>4 DEF InboxInv
  <2> QED
    BY <2>3, <2>4
<1> QED
  BY <1>3, <1>4, <1>5, <1>7, <1>8, <1>9, <1>10 DEF ClientTypes, NetInv, Enqueued, c

\* A server that is spawned, shut down, or whose loop ends by itself loses nothing.
LEMMA NetServerStep ==
    ASSUME ClientTypes, NetTypes, NetInv,
           \/ Spawn
           \/ \E s \in Servers : LoopEnds(s) \/ ShutdownServer(s) \/ ShutdownReturns(s)
           \/ \E s \in Servers : DropHandle(s) /\ handle[s] \in {"draining", "shut"},
           UNCHANGED <<cached, failed>>
    PROVE  ClientTypes' /\ NetTypes' /\ NetInv' /\ UNCHANGED <<call, handled>>
<1>1. UNCHANGED <<call, handled, inbox, handlers>>
  BY DEF Spawn, LoopEnds, ShutdownServer, ShutdownReturns, DrainLoop, DropHandle
<1>2. /\ servers' \in 0 .. MaxServers /\ registered' \in 0 .. servers'
      /\ servers \in Nat /\ servers <= servers'
  BY InboxNat
  DEF Spawn, LoopEnds, ShutdownServer, ShutdownReturns, DropHandle, Unregister, NetTypes
<1>3. /\ loop' \in [Servers -> {"none", "running", "ended"}]
      /\ handle' \in [Servers -> {"none", "held", "draining", "shut", "aborted", "gone"}]
  BY DEF Spawn, LoopEnds, ShutdownServer, ShutdownReturns, DrainLoop, DropHandle, NetTypes
<1>4. /\ \A s \in Servers : handle[s] = "aborted" => handle'[s] = "aborted"
      /\ \A s \in Servers : s > servers' => handle'[s] = "none"
  <2>1. \A s \in Servers : s > servers => handle[s] = "none"
    BY DEF NetInv, InboxInv
  <2>2. CASE Spawn
    <3>1. servers' \in Servers /\ servers' = servers + 1
          /\ handle' = [handle EXCEPT ![servers'] = "held"]
      BY <1>2, <2>2, InboxNat DEF Spawn, Servers
    <3>2. \A s \in Servers \ {servers'} : handle'[s] = handle[s]
      BY <3>1 DEF NetTypes
    <3>3. handle[servers'] = "none"
      BY <1>2, <2>1, <3>1
    <3> QED
      BY <1>2, <2>1, <3>1, <3>2, <3>3, InboxNat DEF Servers
  <2>3. ASSUME NEW s \in Servers, LoopEnds(s)
        PROVE  handle' = handle /\ servers' = servers
    BY <2>3 DEF LoopEnds
  <2>4. ASSUME NEW s \in Servers,
               \/ ShutdownServer(s) \/ ShutdownReturns(s)
               \/ (DropHandle(s) /\ handle[s] \in {"draining", "shut"})
        PROVE  /\ servers' = servers /\ handle[s] \in {"held", "draining", "shut"}
               /\ \A t \in Servers \ {s} : handle'[t] = handle[t]
    BY <2>4 DEF ShutdownServer, ShutdownReturns, DropHandle, NetTypes
  <2> QED
    BY <2>1, <2>2, <2>3, <2>4
<1>5. NetTypes'
  BY <1>1, <1>2, <1>3 DEF NetTypes
<1>6. \A c \in Calls : NetCall(c)'
  <2> SUFFICES ASSUME NEW c \in Calls PROVE NetCall(c)'
    OBVIOUS
  <2>1. NetCall(c)
    BY DEF NetInv
  <2>2. call[c].at \in 1 .. servers => call[c].at \in Servers /\ call[c].at \in 1 .. servers'
    BY <1>2, InboxNat DEF Servers, NetTypes
  <2> QED
    BY <1>1, <1>4, <2>1, <2>2 DEF NetCall
<1>7. \A s \in Servers : InboxInv(s)'
  BY <1>1, <1>4 DEF InboxInv, NetInv, Enqueued
<1> QED
  BY <1>1, <1>5, <1>6, <1>7 DEF ClientTypes, NetInv

\* An abort drops the calls that wait in the inbox, and they are calls of this server.
LEMMA AbortInv ==
    ASSUME ClientTypes, NetTypes, NetInv, NEW s \in Servers, DropHandle(s),
           handle[s] = "held", UNCHANGED <<cached, failed>>
    PROVE  /\ ClientTypes' /\ NetTypes' /\ NetInv'
           /\ handled' = handled
           /\ \A c \in Calls :
                 \/ call'[c] = call[c]
                 \/ Pending(c) /\ call'[c] = [call[c] EXCEPT !.pc = "dropped"]
<1>1. /\ handle' = [handle EXCEPT ![s] = "aborted"]
      /\ loop' = [loop EXCEPT ![s] = "ended"]
      /\ inbox' = [inbox EXCEPT ![s] = <<>>]
      /\ registered' = 0
      /\ UNCHANGED <<handled, servers, handlers>>
      /\ call' = [c \in Calls |->
                   IF c \in SeqRange(inbox[s]) /\ Pending(c)
                   THEN [call[c] EXCEPT !.pc = "dropped"] ELSE call[c]]
  BY DEF DropHandle, Abort, Unregister
<1>2. \A c \in SeqRange(inbox[s]) : Enqueued(c, s)
  BY DEF SeqRange, NetTypes, NetInv, InboxInv
<1>3. ASSUME NEW c \in Calls
      PROVE  \/ call'[c] = call[c]
             \/ /\ Pending(c) /\ Enqueued(c, s)
                /\ call'[c] = [call[c] EXCEPT !.pc = "dropped"]
  BY <1>1, <1>2
<1>4. ASSUME NEW c \in Calls
      PROVE  /\ call'[c] \in CallType
             /\ call'[c].op = call[c].op /\ call'[c].at = call[c].at
             /\ \/ call'[c].pc = call[c].pc
                \/ Enqueued(c, s) /\ call'[c].pc = "dropped"
  <2>1. call[c] \in CallType
    BY NetCallFacts
  <2> QED
    BY <1>3, <2>1 DEF CallType, Ended
<1>5. ClientTypes'
  BY <1>1, <1>4 DEF ClientTypes
<1>6. NetTypes'
  <2>1. inbox' \in [Servers -> Seq(Calls)] /\ \A t \in Servers : Len(inbox'[t]) <= InboxCapacity
    <3>1. <<>> \in Seq(Calls) /\ Len(<<>>) = 0
      OBVIOUS
    <3> QED
      BY <1>1, <3>1, InboxNat DEF NetTypes
  <2> QED
    BY <1>1, <2>1 DEF NetTypes
<1>7. s \in 1 .. servers
  BY DEF NetInv, InboxInv, NetTypes, Servers
<1>8. /\ handle'[s] = "aborted"
      /\ \A t \in Servers \ {s} : handle'[t] = handle[t]
  BY <1>1 DEF NetTypes
<1>9. \A c \in Calls : NetCall(c)'
  <2> SUFFICES ASSUME NEW c \in Calls PROVE NetCall(c)'
    OBVIOUS
  <2>1. NetCall(c)
    BY DEF NetInv
  <2>2. call[c].at \in 1 .. servers => call[c].at \in Servers
    BY InboxNat DEF Servers, NetTypes
  <2>3. CASE call'[c].pc = call[c].pc
    BY <1>1, <1>4, <1>8, <2>1, <2>2, <2>3 DEF NetCall
  <2>4. CASE Enqueued(c, s) /\ call'[c].pc = "dropped"
    BY <1>1, <1>4, <1>7, <1>8, <2>1, <2>4 DEF NetCall, Enqueued
  <2> QED
    BY <1>4, <2>3, <2>4
<1>10. \A t \in Servers : InboxInv(t)'
  <2> SUFFICES ASSUME NEW t \in Servers PROVE InboxInv(t)'
    OBVIOUS
  <2>1. InboxInv(t)
    BY DEF NetInv
  <2>2. CASE t = s
    <3>1. Len(inbox'[t]) = 0
      BY <1>1, <2>2 DEF NetTypes
    <3> QED
      <4>1. servers' = servers /\ servers \in Nat /\ ~(t > servers')
        BY <1>1, <1>7, <2>2 DEF NetTypes
      <4>2. \A i \in 1 .. Len(inbox'[t]) : FALSE
        BY <3>1
      <4> QED
        BY <4>1, <4>2 DEF InboxInv
  <2>3. CASE t # s
    <3>1. inbox'[t] = inbox[t] /\ handle'[t] = handle[t]
      <4>1. inbox \in [Servers -> Seq(Calls)]
        BY DEF NetTypes
      <4> QED
        BY <1>1, <1>8, <2>3, <4>1
    <3>2. \A i \in 1 .. Len(inbox[t]) : inbox[t][i] \in Calls
      <4>1. inbox[t] \in Seq(Calls)
        BY DEF NetTypes
      <4> QED
        BY <4>1
    <3>3. \A i \in 1 .. Len(inbox[t]) : Enqueued(inbox[t][i], t)'
      <4> SUFFICES ASSUME NEW i \in 1 .. Len(inbox[t]) PROVE Enqueued(inbox[t][i], t)'
        OBVIOUS
      <4>1. PICK c \in Calls : c = inbox[t][i] /\ c = inbox'[t][i] /\ Enqueued(c, t)
        BY <2>1, <3>1, <3>2 DEF InboxInv
      <4>2. call'[c].at = call[c].at /\ call'[c].pc \in {call[c].pc, "dropped"}
        BY <1>4
      <4> QED
        BY <1>1, <4>1, <4>2 DEF Enqueued
    <3> QED
      BY <1>1, <2>1, <3>1, <3>3 DEF InboxInv
  <2> QED
    BY <2>2, <2>3
<1> QED
  BY <1>1, <1>3, <1>5, <1>6, <1>9, <1>10 DEF NetInv

\* Every step in process keeps the invariant.
LEMMA NetNextInv ==
    ASSUME ClientTypes, NetTypes, NetInv, NetNext, UNCHANGED <<cached, failed>>
    PROVE  ClientTypes' /\ NetTypes' /\ NetInv'
<1>1. ASSUME NEW s \in Servers, DropHandle(s)
      PROVE  ClientTypes' /\ NetTypes' /\ NetInv'
  <2>1. handle[s] = "held" \/ handle[s] \in {"draining", "shut"}
    BY <1>1 DEF DropHandle
  <2> QED
    BY <1>1, <2>1, AbortInv, NetServerStep
<1> QED
  BY <1>1, NetRouted, EnqueueInv, NetCallEnds, TakeInv, NetServerStep DEF NetNext

-----------------------------------------------------------------------------
\* A member starts without a call, a channel or a server.
LEMMA InitIInv == Init => IInv
<1> SUFFICES ASSUME Init PROVE IInv
  OBVIOUS
<1> USE RetriesNat, InboxNat DEF Init, TimedInit, GrpcInit, NetInit, NoCall
<1>1. ClientTypes
  BY DEF ClientTypes, CallType
<1>2. GrpcTypes
  <2>1. StaleType
    BY Zenon DEF StaleType
  <2> QED
    BY <2>1 DEF GrpcTypes
<1>3. NetTypes
  <2>1. inbox \in [Servers -> Seq(Calls)] /\ \A s \in Servers : inbox[s] = <<>>
    OBVIOUS
  <2> QED
    BY <2>1 DEF NetTypes
<1>4. GrpcInv
  <2> SUFFICES ASSUME NEW c \in Calls PROVE GrpcCall(c) /\ HandledSent(c)
    BY DEF GrpcInv, FailedNotCached
  <2>1. Sent(c) = 0 /\ Allowed(c) = 0 /\ ~Pending(c)
    BY DEF Sent, Allowed, Pending
  <2>2. OnWire(c) = {}
    BY DEF OnWire
  <2>3. Cardinality(OnWire(c)) = 0
    BY <2>2, FS_EmptySet
  <2> QED
    BY <2>1, <2>3 DEF GrpcCall, HandledSent
<1>5. NetInv
  <2>1. \A s \in Servers : Len(inbox[s]) = 0 /\ handle[s] = "none"
    OBVIOUS
  <2>2. \A s \in Servers : InboxInv(s)
    BY <2>1 DEF InboxInv
  <2>3. ASSUME NEW c \in Calls PROVE NetCall(c)
    <3>1. call[c].op = "none" /\ call[c].pc = "idle" /\ handled[c] = 0 /\ c \notin handlers
      OBVIOUS
    <3> QED
      BY <3>1 DEF NetCall
  <2> QED
    BY <2>2, <2>3 DEF NetInv
<1> QED
  BY <1>1, <1>2, <1>3, <1>4, <1>5 DEF IInv

\* A member uses one transport, and the state of the other stays what it was.
LEMMA NextIInv == IInv /\ [Next]_vars => IInv'
<1> SUFFICES ASSUME IInv, [Next]_vars PROVE IInv'
  OBVIOUS
<1>1. transport' = transport
  BY DEF Next, vars, StartCall, GrpcNext, Lookup, Connected, ConnectFails,
         ConnectionBreaks, AttemptFails, Answered, HandlerFails, GrpcDeadline, Deadline,
         ServerHandles, ChannelIdles, ServerListens, NetNext, Spawn, Intercepted, Route,
         Enqueue, HandlerReplies, NetDeadline, Take, LoopEnds, ShutdownServer,
         ShutdownReturns, DropHandle
<1>2. CASE transport = "grpc" /\ UNCHANGED netVars
  <2>1. NetTypes'
    BY <1>2 DEF IInv, NetTypes, netVars
  <2>2. ClientTypes /\ GrpcTypes /\ GrpcInv
    BY <1>2 DEF IInv
  <2>3. ASSUME NEW c \in Calls, NEW op \in Operations, StartCall(c, op), UNCHANGED grpcVars
        PROVE  ClientTypes' /\ GrpcTypes' /\ GrpcInv'
    BY <1>2, <2>2, <2>3, GrpcStartInv DEF Operations
  <2>4. ASSUME UNCHANGED vars PROVE ClientTypes' /\ GrpcTypes' /\ GrpcInv'
    <3>1. StaleType'
      BY <2>2, <2>4 DEF StaleType, GrpcTypes, vars, grpcVars
    <3> QED
      BY <2>2, <2>4, <3>1, GrpcIdleStep DEF vars, grpcVars, netVars
  <2>5. ClientTypes' /\ GrpcTypes' /\ GrpcInv'
    BY <1>2, <2>2, <2>3, <2>4, GrpcNextInv DEF Next
  <2> QED
    BY <1>1, <1>2, <2>1, <2>5 DEF IInv
<1>3. CASE transport = "inprocess" /\ UNCHANGED grpcVars
  <2>1. GrpcTypes'
    BY <1>3 DEF IInv, GrpcTypes, StaleType, grpcVars
  <2>2. ClientTypes /\ NetTypes /\ NetInv /\ UNCHANGED <<cached, failed>>
    BY <1>3 DEF IInv, grpcVars
  <2>3. ASSUME NEW c \in Calls, NEW op \in Operations, StartCall(c, op), UNCHANGED netVars
        PROVE  ClientTypes' /\ NetTypes' /\ NetInv'
    BY <1>3, <2>2, <2>3, NetRouted DEF Operations
  <2>4. ASSUME UNCHANGED vars PROVE ClientTypes' /\ NetTypes' /\ NetInv'
    <3>1. \A c \in Calls : NetCall(c)'
      BY <2>2, <2>4 DEF NetCall, NetInv, vars, netVars
    <3>2. \A s \in Servers : InboxInv(s)'
      BY <2>2, <2>4 DEF InboxInv, NetInv, Enqueued, vars, netVars
    <3> QED
      BY <2>2, <2>4, <3>1, <3>2 DEF ClientTypes, NetTypes, NetInv, vars, netVars
  <2>5. ClientTypes' /\ NetTypes' /\ NetInv'
    BY <1>3, <2>2, <2>3, <2>4, NetNextInv DEF Next
  <2> QED
    BY <1>1, <1>3, <2>1, <2>5 DEF IInv
<1>4. \/ transport = "grpc" /\ UNCHANGED netVars
      \/ transport = "inprocess" /\ UNCHANGED grpcVars
  BY DEF IInv, Next, vars
<1> QED
  BY <1>2, <1>3, <1>4

\* Every reachable state satisfies the invariant: each request that was sent is
\* accounted for by the place it is in.
THEOREM Invariance == Spec => []IInv
<1> QED
  BY InitIInv, NextIInv, PTL DEF Spec

\* Type correctness of both transports; no call is attempted more often than the
\* retries of `send` allow, and no inbox grows beyond its capacity.
THEOREM TypeCorrect == Spec => []TypeOK
<1>1. IInv => TypeOK
  BY DEF IInv, ClientTypes, GrpcTypes, StaleType, NetTypes, TypeOK, CallType
<1> QED
  BY <1>1, Invariance, PTL

\* A gRPC channel on which an attempt has failed is never in the cache again, however
\* many tasks connect, insert and invalidate without the lock.
THEOREM FailedChannelsForgotten == Spec => []FailedNotCached
<1>1. IInv => FailedNotCached
  <2>1. ASSUME IInv, transport = "inprocess" PROVE FailedNotCached
    BY <2>1 DEF IInv, NetInv, FailedNotCached
  <2> QED
    BY <2>1 DEF IInv, GrpcInv
<1> QED
  BY <1>1, Invariance, PTL

-----------------------------------------------------------------------------
(* Both transports implement MessagingClient.                              *)

\* What a caller sees of a call.
LEMMA ResultOf ==
    ASSUME NEW c \in Calls
    PROVE  /\ Result(c) = "pending" <=> Pending(c)
           /\ call[c].pc = "idle" => Result(c) = "none"
           /\ call[c].pc = "ok" => Result(c) = "ok"
           /\ call[c].pc \in {"err", "dropped", "late"} => Result(c) = "err"
<1>1. CASE call[c].pc = "idle"
  BY <1>1 DEF Result, Pending
<1>2. CASE call[c].pc = "ok"
  BY <1>2 DEF Result, Pending, Ended
<1>3. CASE call[c].pc \in {"err", "dropped", "late"}
  BY <1>3 DEF Result, Pending, Ended
<1>4. CASE Pending(c)
  BY <1>4 DEF Result, Pending, Ended
<1> QED
  BY <1>1, <1>2, <1>3, <1>4 DEF Pending, Ended

\* The same, after a step.
LEMMA ResultOfNext ==
    ASSUME NEW c \in Calls
    PROVE  /\ Result(c)' = "pending" <=> Pending(c)'
           /\ call'[c].pc = "idle" => Result(c)' = "none"
           /\ call'[c].pc = "ok" => Result(c)' = "ok"
           /\ call'[c].pc \in {"err", "dropped", "late"} => Result(c)' = "err"
<1>1. CASE call'[c].pc = "idle"
  BY <1>1 DEF Result, Pending
<1>2. CASE call'[c].pc = "ok"
  BY <1>2 DEF Result, Pending, Ended
<1>3. CASE call'[c].pc \in {"err", "dropped", "late"}
  BY <1>3 DEF Result, Pending, Ended
<1>4. CASE Pending(c)'
  BY <1>4 DEF Result, Pending, Ended
<1> QED
  BY <1>1, <1>2, <1>3, <1>4 DEF Pending, Ended

\* What happens to calls between the start and the answer is hidden, but for those
\* that fail.
Hidden(c) ==
    /\ call'[c].op = call[c].op
    /\ \/ call'[c].pc = call[c].pc
       \/ Pending(c) /\ Pending(c)'
       \/ Pending(c) /\ call'[c].pc \in {"err", "dropped", "late"}

\* A step in which calls go on, or fail, is a stutter or a Fail of the client.
LEMMA HiddenStep ==
    ASSUME handled' = handled, \A c \in Calls : Hidden(c)
    PROVE  Client!Next
<1> DEFINE cs == {c \in Calls : Result(c)' # Result(c)}
<1>1. \A c \in Calls : Allowed(c)' = Allowed(c)
  BY DEF Allowed, Hidden
<1>2. ASSUME NEW c \in Calls, Result(c)' # Result(c)
      PROVE  Result(c) = "pending" /\ Result(c)' = "err"
  <2>1. call'[c].pc # call[c].pc
    BY <1>2 DEF Result, Pending
  <2> QED
    BY <1>2, <2>1, ResultOf, ResultOfNext DEF Hidden
<1>3. [c \in Calls |-> Result(c)]' =
          [c \in Calls |-> IF c \in cs THEN "err" ELSE [d \in Calls |-> Result(d)][c]]
  BY <1>2
<1>4. Client!Fail(cs)
  BY <1>1, <1>2, <1>3 DEF Client!Fail
<1>5. cs \in SUBSET Calls
  OBVIOUS
<1> QED
  BY <1>4, <1>5 DEF Client!Next

\* A handler runs, for a call that may still be handled.
LEMMA HandleStep ==
    ASSUME call' = call, NEW c \in Calls, handled' = [handled EXCEPT ![c] = @ + 1],
           handled[c] < Allowed(c)
    PROVE  Client!Next
<1>1. \A d \in Calls : Allowed(d)' = Allowed(d) /\ Result(d)' = Result(d)
  BY DEF Allowed, Result, Pending
<1>2. Client!Handle(c)
  BY <1>1 DEF Client!Handle
<1> QED
  BY <1>2 DEF Client!Next

\* An answer comes from a handler that has run.
LEMMA AnswerStep ==
    ASSUME handled' = handled, NEW c \in Calls, ClientTypes, Pending(c), handled[c] > 0,
           Goto(c, "ok")
    PROVE  Client!Next
<1>1. /\ call'[c].pc = "ok" /\ call'[c].op = call[c].op
      /\ \A d \in Calls \ {c} : call'[d] = call[d]
  BY GotoCall DEF Ended
<1>2. \A d \in Calls : Allowed(d)' = Allowed(d)
  BY <1>1 DEF Allowed
<1>3. \A d \in Calls \ {c} : Result(d)' = Result(d)
  BY <1>1 DEF Result, Pending
<1>4. Result(c) = "pending" /\ Result(c)' = "ok"
  BY <1>1, ResultOf, ResultOfNext
<1>5. Client!Answer(c)
  BY <1>2, <1>3, <1>4 DEF Client!Answer
<1> QED
  BY <1>5 DEF Client!Next

\* A call is made, to be attempted once or once more than its retries.
LEMMA SendStep ==
    ASSUME ClientTypes, NEW c \in Calls, NEW op \in {"send", "best"}, StartCall(c, op)
    PROVE  Client!Next
<1>1. call[c] \in CallType
  BY DEF ClientTypes
<1>2. /\ call'[c].pc = "start" /\ call'[c].op = op /\ call[c].pc = "idle"
      /\ \A d \in Calls \ {c} : call'[d] = call[d]
      /\ handled' = handled
  BY <1>1 DEF StartCall, ClientTypes, CallType
<1>3. \A d \in Calls \ {c} : Allowed(d)' = Allowed(d) /\ Result(d)' = Result(d)
  BY <1>2 DEF Allowed, Result, Pending
<1>4. Result(c) = "none" /\ Result(c)' = "pending"
  <2>1. Pending(c)'
    BY <1>2 DEF Pending, Ended
  <2> QED
    BY <1>2, <2>1, ResultOf, ResultOfNext
<1>5. PICK n \in {1, Retries + 1} : Allowed(c)' = n
  BY <1>2 DEF Allowed
<1>6. Client!Send(c, n)
  BY <1>2, <1>3, <1>4, <1>5 DEF Client!Send
<1> QED
  BY <1>5, <1>6 DEF Client!Next

\* An attempt that fails is hidden, or it was the last one.
LEMMA AttemptFailsHidden ==
    ASSUME ClientTypes, NEW c \in Calls, call[c].pc \in {"connect", "wait"},
           AttemptFails(c)
    PROVE  Client!Next
<1>1. call[c] \in CallType
  BY DEF ClientTypes
<1>2. /\ call'[c].op = call[c].op
      /\ call'[c].pc \in {"start", "err"}
      /\ \A d \in Calls \ {c} : call'[d] = call[d]
  BY <1>1 DEF ClientTypes, CallType, AttemptFails
<1>3. \A d \in Calls : Hidden(d)
  BY <1>2 DEF Hidden, Pending, Ended
<1> QED
  BY <1>3, HiddenStep DEF AttemptFails

\* Every step of a call whose state alone changes, to one that is still pending or
\* that has failed, is hidden.
LEMMA GotoHidden ==
    ASSUME ClientTypes, NEW c \in Calls, Pending(c), handled' = handled,
           NEW pc \in {"connect", "send", "wait", "err", "late"},
           \/ Goto(c, pc)
           \/ \E at \in Nat : GotoAt(c, pc, at)
    PROVE  Client!Next
<1>1. /\ call'[c].pc = pc /\ call'[c].op = call[c].op
      /\ \A d \in Calls \ {c} : call'[d] = call[d]
  BY GotoCall DEF Ended
<1>2. \A d \in Calls : Hidden(d)
  BY <1>1 DEF Hidden, Pending, Ended
<1> QED
  BY <1>2, HiddenStep

\* Every step of the gRPC transport is one that MessagingClient allows.
LEMMA GrpcStep ==
    ASSUME ClientTypes, GrpcTypes, GrpcInv, GrpcNext
    PROVE  Client!Next
<1>1. ASSUME NEW c \in Calls, Lookup(c)
      PROVE  Client!Next
  <2>1. Pending(c) /\ handled' = handled /\ cached \in Nat
    BY <1>1 DEF Lookup, Pending, Ended, GrpcTypes
  <2>2. \/ GotoAt(c, "wait", cached)
        \/ GotoAt(c, "connect", 0)
    BY <1>1 DEF Lookup, SendOn
  <2> QED
    BY <2>1, <2>2, GotoHidden
<1>2. ASSUME NEW c \in Calls, Connected(c)
      PROVE  Client!Next
  <2>1. Pending(c) /\ handled' = handled /\ channels + 1 \in Nat
    BY <1>2 DEF Connected, Pending, Ended, GrpcTypes
  <2>2. GotoAt(c, "wait", channels + 1)
    BY <1>2 DEF Connected, SendOn
  <2> QED
    BY <2>1, <2>2, GotoHidden
<1>3. ASSUME NEW c \in Calls, ConnectFails(c) \/ ConnectionBreaks(c) \/ HandlerFails(c)
      PROVE  Client!Next
  BY <1>3, AttemptFailsHidden DEF ConnectFails, ConnectionBreaks, HandlerFails
<1>4. ASSUME NEW c \in Calls, Answered(c)
      PROVE  Client!Next
  <2>1. Pending(c) /\ handled' = handled /\ Goto(c, "ok")
    BY <1>4 DEF Answered, Pending, Ended
  <2>2. handled[Attempt(c)[1]] > 0
    BY <1>4 DEF Answered, GrpcInv
  <2>3. handled[c] > 0
    BY <2>2 DEF Attempt
  <2> QED
    BY <2>1, <2>3, AnswerStep
<1>5. ASSUME NEW c \in Calls, GrpcDeadline(c)
      PROVE  Client!Next
  BY <1>5, GotoHidden DEF GrpcDeadline, Deadline
<1>6. ASSUME NEW m \in wire, ServerHandles(m)
      PROVE  Client!Next
  <2>1. m[1] \in Calls /\ handled[m[1]] < Allowed(m[1])
    BY <1>6, ServerHandlesInv
  <2> QED
    BY <1>6, <2>1, HandleStep DEF ServerHandles, RunHandler
<1>7. ASSUME ChannelIdles \/ \E up \in BOOLEAN : ServerListens(up)
      PROVE  Client!Next
  <2>1. call' = call /\ handled' = handled
    BY <1>7 DEF ChannelIdles, ServerListens
  <2> QED
    BY <2>1, HiddenStep DEF Hidden
<1> QED
  BY <1>1, <1>2, <1>3, <1>4, <1>5, <1>6, <1>7 DEF GrpcNext

\* Every step in process is one that MessagingClient allows.
LEMMA NetStep ==
    ASSUME ClientTypes, NetTypes, NetInv, NetNext, UNCHANGED <<cached, failed>>
    PROVE  Client!Next
<1>1. ASSUME NEW c \in Calls, Intercepted(c) \/ Route(c)
      PROVE  Client!Next
  <2>1. Pending(c) /\ handled' = handled /\ registered \in Nat
    BY <1>1 DEF Intercepted, Route, Pending, Ended, NetTypes
  <2>2. Goto(c, "err") \/ GotoAt(c, "send", registered)
    BY <1>1 DEF Intercepted, Route
  <2> QED
    BY <2>1, <2>2, GotoHidden
<1>2. ASSUME NEW c \in Calls, Enqueue(c)
      PROVE  Client!Next
  <2>1. Pending(c) /\ handled' = handled
    BY <1>2 DEF Enqueue, Pending, Ended
  <2>2. Goto(c, "err") \/ Goto(c, "wait")
    BY <1>2 DEF Enqueue
  <2> QED
    BY <2>1, <2>2, GotoHidden
<1>3. ASSUME NEW c \in Calls, NEW r \in {"ok", "err"}, HandlerReplies(c, r)
      PROVE  Client!Next
  <2>1. handled' = handled /\ handled[c] = 1
    BY <1>3 DEF HandlerReplies, NetInv, NetCall
  <2>2. CASE Pending(c) /\ Goto(c, r)
    BY <2>1, <2>2, AnswerStep, GotoHidden
  <2>3. CASE call' = call
    BY <2>1, <2>3, HiddenStep DEF Hidden
  <2> QED
    BY <1>3, <2>2, <2>3 DEF HandlerReplies
<1>4. ASSUME NEW c \in Calls, NetDeadline(c)
      PROVE  Client!Next
  BY <1>4, GotoHidden DEF NetDeadline, Deadline
<1>5. ASSUME NEW s \in Servers, Take(s)
      PROVE  Client!Next
  <2>1. PICK c \in Calls : /\ c = Head(inbox[s]) /\ handled[c] = 0
                           /\ call[c].op = "best"
    BY <1>5, TakeInv
  <2>2. Allowed(c) = 1
    BY <2>1 DEF Allowed
  <2>3. call' = call /\ handled' = [handled EXCEPT ![c] = @ + 1]
    BY <1>5, <2>1 DEF Take, RunHandler
  <2>4. handled[c] < Allowed(c)
    BY <2>1, <2>2
  <2> QED
    BY <2>3, <2>4, HandleStep
<1>6. ASSUME \/ Spawn
             \/ \E s \in Servers : LoopEnds(s) \/ ShutdownServer(s) \/ ShutdownReturns(s)
             \/ \E s \in Servers : DropHandle(s) /\ handle[s] \in {"draining", "shut"}
      PROVE  Client!Next
  <2>1. call' = call /\ handled' = handled
    BY <1>6, NetServerStep
  <2> QED
    BY <2>1, HiddenStep DEF Hidden
<1>7. ASSUME NEW s \in Servers, DropHandle(s), handle[s] = "held"
      PROVE  Client!Next
  <2>1. /\ handled' = handled
        /\ \A c \in Calls :
              \/ call'[c] = call[c]
              \/ Pending(c) /\ call'[c] = [call[c] EXCEPT !.pc = "dropped"]
    BY <1>7, AbortInv
  <2>2. ASSUME NEW c \in Calls PROVE Hidden(c)
    <3>1. call[c] \in CallType
      BY DEF ClientTypes
    <3> QED
      BY <2>1, <3>1 DEF Hidden, CallType
  <2> QED
    BY <2>1, <2>2, HiddenStep
<1>8. ASSUME NEW s \in Servers, DropHandle(s)
      PROVE  handle[s] = "held" \/ handle[s] \in {"draining", "shut"}
  BY <1>8 DEF DropHandle
<1> QED
  BY <1>1, <1>2, <1>3, <1>4, <1>5, <1>6, <1>7, <1>8 DEF NetNext

\* Both transports keep the promise of MessagingClient, for any number of calls,
\* retries and servers and any capacity of an inbox: a request is handled at most as
\* often as its call may be attempted, and an answer comes from a handler that ran.
THEOREM TransportImplementsMessagingClient == Spec => ImplementsMessagingClient
<1>1. Init => Client!Init
  <2> SUFFICES ASSUME Init PROVE Client!Init
    OBVIOUS
  <2>1. \A c \in Calls : call[c].op = "none" /\ call[c].pc = "idle"
    BY DEF Init, TimedInit, NoCall
  <2>2. \A c \in Calls : Allowed(c) = 0 /\ Result(c) = "none"
    BY <2>1, ResultOf DEF Allowed
  <2> QED
    BY <2>2 DEF Init, TimedInit, Client!Init
<1>2. IInv /\ [Next]_vars => [Client!Next]_(Client!vars)
  <2> SUFFICES ASSUME IInv, [Next]_vars PROVE [Client!Next]_(Client!vars)
    OBVIOUS
  <2>1. ASSUME NEW c \in Calls, NEW op \in Operations, StartCall(c, op)
        PROVE  Client!Next
    BY <2>1, SendStep DEF IInv, Operations
  <2>2. ASSUME transport = "grpc", GrpcNext PROVE Client!Next
    BY <2>2, GrpcStep DEF IInv
  <2>3. ASSUME transport = "inprocess", NetNext, UNCHANGED grpcVars PROVE Client!Next
    BY <2>3, NetStep DEF IInv, grpcVars
  <2>4. ASSUME UNCHANGED vars PROVE Client!Next
    BY <2>4, HiddenStep DEF vars, Hidden
  <2> QED
    BY <2>1, <2>2, <2>3, <2>4 DEF Next
<1> QED
  BY <1>1, <1>2, Invariance, PTL DEF Spec, ImplementsMessagingClient, Client!Spec
====
