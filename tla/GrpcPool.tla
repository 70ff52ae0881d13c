------------------------------- MODULE GrpcPool -------------------------------
(***************************************************************************)
(* crates/rapid/src/messaging/grpc.rs: the channel cache that the tasks of *)
(* a member share, its retries, and the server at the other end.           *)
(*                                                                         *)
(* The lock of the cache is not held while a task connects or waits for an *)
(* answer.  Of the network nothing is assumed: a request may be lost, or   *)
(* be handled after its call has failed; its answer may be lost; a         *)
(* connection breaks at any time.  Connections outlive the listener.       *)
(***************************************************************************)
EXTENDS TimedClient

VARIABLES
    listening,  \* the server accepts connections
    cached,     \* channel in the cache; 0 is none
    stale,      \* it was not looked up for expire_after
    channels,   \* number of channels opened
    failed,     \* history: channels on which an attempt has failed
    wire,       \* requests on their way: pairs of call and attempt
    running     \* requests whose answer may still arrive

cache == <<cached, stale>>
grpcVars == <<listening, cached, stale, channels, failed, wire, running>>

GrpcInit ==
    /\ listening = FALSE
    /\ cached = 0
    /\ stale = FALSE
    /\ channels = 0
    /\ failed = {}
    /\ wire = {}
    /\ running = {}

Attempt(c) == <<c, call[c].tries>>

\* c.send(req.clone())
SendOn(c, channel) ==
    /\ GotoAt(c, "wait", channel)
    /\ wire' = wire \cup {Attempt(c)}
    /\ UNCHANGED running

\* client_for, up to the connect: prune, and hit or miss.
Lookup(c) ==
    /\ call[c].pc = "start"
    /\ stale' = FALSE
    /\ \/ /\ cached # 0 /\ ~stale
          /\ SendOn(c, cached)
          /\ UNCHANGED cached
       \/ /\ cached = 0 \/ stale
          /\ cached' = 0
          /\ GotoAt(c, "connect", 0)
          /\ UNCHANGED <<wire, running>>
    /\ UNCHANGED <<transport, handled, listening, channels, failed>>

\* entry().or_insert(): another task may have been first.
CacheChannel(channel) ==
    /\ cached' = IF cached = 0 THEN channel ELSE cached
    /\ stale' = (stale /\ cached # 0)

\* client_for, from the connect on: each task uses its own channel.
Connected(c) ==
    /\ call[c].pc = "connect"
    /\ listening
    /\ channels' = channels + 1
    /\ CacheChannel(channels')
    /\ SendOn(c, channels')
    /\ UNCHANGED <<transport, handled, listening, failed>>

\* Mutant: one attempt more than there should be.
RetriesLeftOrLast(c) == call[c].tries <= IF call[c].op = "send" THEN Retries ELSE 0

\* 0..=retries, with retries 0 for send_best_effort
RetriesLeft(c) == call[c].tries < IF call[c].op = "send" THEN Retries ELSE 0

\* Mutant: the cache is only cleared for another attempt.
InvalidateToRetry(c) ==
    IF RetriesLeft(c) THEN cached' = 0 /\ stale' = FALSE ELSE UNCHANGED cache

\* Whatever is cached goes, be it another channel than the one that failed.
Invalidate(c) == cached' = 0 /\ stale' = FALSE

\* The error arms of send_with_retries.
AttemptFails(c) ==
    /\ Invalidate(c)
    /\ failed' = failed \cup ({call[c].at} \ {0})
    /\ running' = running \ {Attempt(c)}
    /\ call' = [call EXCEPT ![c].pc = IF RetriesLeft(c) THEN "start" ELSE "err",
                            ![c].tries = @ + 1, ![c].at = 0]
    /\ UNCHANGED <<transport, handled, listening, channels>>

ConnectFails(c) ==
    /\ call[c].pc = "connect"
    /\ AttemptFails(c)
    /\ UNCHANGED wire

\* The request is still on its way, or it is lost with the connection.
ConnectionBreaks(c) ==
    /\ call[c].pc = "wait"
    /\ AttemptFails(c)
    /\ wire' \in {wire, wire \ {Attempt(c)}}

\* Adapter::send_request calls the handler.
ServerHandles(m) ==
    /\ m \in wire
    /\ wire' = wire \ {m}
    /\ running' = IF Pending(m[1]) /\ m = Attempt(m[1]) THEN running \cup {m} ELSE running
    /\ RunHandler(m[1])
    /\ UNCHANGED <<transport, call, listening, cache, channels, failed>>

\* Its answer arrives.  An error of the handler is a Status, which is retried.
Answered(c) ==
    /\ Attempt(c) \in running
    /\ call[c].pc = "wait"
    /\ running' = running \ {Attempt(c)}
    /\ Goto(c, "ok")
    /\ UNCHANGED <<transport, handled, listening, cache, channels, failed, wire>>

HandlerFails(c) ==
    /\ Attempt(c) \in running
    /\ call[c].pc = "wait"
    /\ AttemptFails(c)
    /\ UNCHANGED wire

GrpcDeadline(c) ==
    /\ Deadline(c)
    /\ running' = running \ {Attempt(c)}
    /\ wire' \in {wire, wire \ {Attempt(c)}}
    /\ UNCHANGED <<listening, cache, channels, failed>>

ChannelIdles ==
    /\ cached # 0 /\ ~stale
    /\ stale' = TRUE
    /\ UNCHANGED <<transport, call, handled, listening, cached, channels, failed, wire,
                   running>>

\* serve; GrpcServerHandle::shutdown and its Drop.
ServerListens(up) ==
    /\ listening = ~up
    /\ listening' = up
    /\ UNCHANGED <<transport, call, handled, cache, channels, failed, wire, running>>

GrpcNext ==
    \/ \E c \in Calls :
          \/ Lookup(c)
          \/ Connected(c)
          \/ ConnectFails(c)
          \/ ConnectionBreaks(c)
          \/ Answered(c)
          \/ HandlerFails(c)
          \/ GrpcDeadline(c)
    \/ \E m \in wire : ServerHandles(m)
    \/ ChannelIdles
    \/ \E up \in BOOLEAN : ServerListens(up)

-----------------------------------------------------------------------------

\* A channel on which an attempt has failed is never handed out again, although
\* tasks connect, insert and invalidate without holding the lock in between, and a
\* channel of another task may be in the cache by then.  (A deadline is not such a
\* failure: the future is gone before it could invalidate anything.)
FailedNotCached == cached \notin failed
=============================================================================
