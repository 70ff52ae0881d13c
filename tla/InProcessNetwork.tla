--------------------------- MODULE InProcessNetwork ---------------------------
(***************************************************************************)
(* crates/rapid/src/messaging/in_process.rs: servers that are spawned,     *)
(* shut down, dropped and replaced at an address of the network, and the   *)
(* calls that go through their inboxes.                                    *)
(*                                                                         *)
(* A call holds a clone of the inbox from `route` until it returns, also   *)
(* while it waits for its reply.  The loop of a server ends with the last  *)
(* such clone, or with an abort; the task of an envelope is its own and    *)
(* outlives the loop.                                                      *)
(***************************************************************************)
EXTENDS TimedClient, Sequences

CONSTANTS
    InboxCapacity,  \* 64 in the code
    MaxServers,     \* bound: servers spawned at the address
    MaxDrops        \* what FirstN is to drop

ASSUME InboxNat == InboxCapacity \in Nat \ {0} /\ MaxServers \in Nat /\ MaxDrops \in Nat

VARIABLES
    registered,     \* the server in the network's map; 0 is none
    servers,        \* number of servers spawned
    inbox,
    loop,           \* the task of each server
    handle,         \* the InProcessServerHandle of each server
    handlers,       \* calls whose handler runs
    remaining       \* of the interceptor

netVars == <<registered, servers, inbox, loop, handle, handlers, remaining>>

Servers == 1 .. MaxServers
SeqRange(s) == {s[i] : i \in DOMAIN s}

NetInit ==
    /\ registered = 0
    /\ servers = 0
    /\ inbox = [s \in Servers |-> <<>>]
    /\ loop = [s \in Servers |-> "none"]
    /\ handle = [s \in Servers |-> "none"]
    /\ handlers = {}
    /\ remaining = MaxDrops

\* InProcessNetwork::spawn
Spawn ==
    /\ servers < MaxServers
    /\ servers' = servers + 1
    /\ registered' = servers'     \* the inbox at the address is overwritten
    /\ loop' = [loop EXCEPT ![servers'] = "running"]
    /\ handle' = [handle EXCEPT ![servers'] = "held"]
    /\ UNCHANGED <<transport, call, handled, inbox, handlers, remaining>>

\* FirstN: a task that loses the race for a slot lets its envelope pass.
Intercepted(c) ==
    /\ call[c].pc = "start"
    /\ remaining > 0
    /\ remaining' = remaining - 1
    /\ Goto(c, "err")
    /\ UNCHANGED <<transport, handled, registered, servers, inbox, loop, handle, handlers>>

\* InProcessClient::dispatch, up to the send.
Route(c) ==
    /\ call[c].pc = "start"
    /\ IF registered = 0 THEN Goto(c, "err") ELSE GotoAt(c, "send", registered)
    /\ UNCHANGED <<transport, handled, netVars>>

\* The send waits for room; it fails if the loop is gone.
Enqueue(c) ==
    LET s == call[c].at IN
    /\ call[c].pc = "send"
    /\ \/ /\ loop[s] = "running" /\ Len(inbox[s]) < InboxCapacity
          /\ inbox' = [inbox EXCEPT ![s] = Append(@, c)]
          /\ Goto(c, "wait")
       \/ /\ loop[s] # "running"
          /\ Goto(c, "err")
          /\ UNCHANGED inbox
    /\ UNCHANGED <<transport, handled, registered, servers, loop, handle, handlers,
                   remaining>>

\* Each envelope gets a task of its own, so that a parked handler stops nobody.
Take(s) ==
    /\ loop[s] = "running" /\ inbox[s] # <<>>
    /\ inbox' = [inbox EXCEPT ![s] = Tail(@)]
    /\ handlers' = handlers \cup {Head(inbox[s])}
    /\ RunHandler(Head(inbox[s]))
    /\ UNCHANGED <<transport, call, registered, servers, loop, handle, remaining>>

\* Nobody may wait for the answer any more.
HandlerReplies(c, r) ==
    /\ c \in handlers
    /\ handlers' = handlers \ {c}
    /\ IF Pending(c) THEN Goto(c, r) ELSE UNCHANGED call
    /\ UNCHANGED <<transport, handled, registered, servers, inbox, loop, handle,
                   remaining>>

\* rx.recv() returns None: the inbox is empty and the map and every call have dropped
\* their clones of it.  A parked handler keeps its call, and so the loop.
LoopEnds(s) ==
    /\ loop[s] = "running" /\ inbox[s] = <<>>
    /\ registered # s
    /\ \A c \in Calls : call[c].pc \in {"send", "wait"} => call[c].at # s
    /\ loop' = [loop EXCEPT ![s] = "ended"]
    /\ UNCHANGED <<transport, call, handled, registered, servers, inbox, handle, handlers,
                   remaining>>

\* Mutant: a handle that is closed does not touch the map.
LeaveRegistered == UNCHANGED registered

\* The address is removed, whoever is registered there by now.
Unregister == registered' = 0

\* Abort: the loop and its inbox are gone, and the replies in it are dropped.
Abort(s) ==
    /\ loop' = [loop EXCEPT ![s] = "ended"]
    /\ inbox' = [inbox EXCEPT ![s] = <<>>]
    /\ call' = [c \in Calls |->
                   IF c \in SeqRange(inbox[s]) /\ Pending(c)
                   THEN [call[c] EXCEPT !.pc = "dropped"] ELSE call[c]]

\* Mutant: a shutdown aborts the loop, as the one of the gRPC server does.
AbortAtOnce(s) == Abort(s)

\* The loop is to end by itself.
DrainLoop(s) == UNCHANGED <<loop, inbox, call>>

\* InProcessServerHandle::shutdown, up to its wait for the loop.
ShutdownServer(s) ==
    /\ handle[s] = "held"
    /\ handle' = [handle EXCEPT ![s] = "draining"]
    /\ Unregister
    /\ DrainLoop(s)
    /\ UNCHANGED <<transport, handled, servers, handlers, remaining>>

\* The wait is over: the loop has ended, or a second has passed and the loop is left
\* to itself.
ShutdownReturns(s) ==
    /\ handle[s] = "draining"
    /\ handle' = [handle EXCEPT ![s] = "shut"]
    /\ UNCHANGED <<transport, call, handled, registered, servers, inbox, loop, handlers,
                   remaining>>

\* Drop for InProcessServerHandle: a task that shutdown took is left alone, also when
\* the shutdown itself was cancelled.
DropHandle(s) ==
    /\ Unregister
    /\ \/ /\ handle[s] = "held"
          /\ handle' = [handle EXCEPT ![s] = "aborted"]
          /\ Abort(s)
       \/ /\ handle[s] \in {"draining", "shut"}
          /\ handle' = [handle EXCEPT ![s] = "gone"]
          /\ UNCHANGED <<loop, inbox, call>>
    /\ UNCHANGED <<transport, handled, servers, handlers, remaining>>

NetDeadline(c) == Deadline(c) /\ UNCHANGED netVars

NetNext ==
    \/ Spawn
    \/ \E c \in Calls :
          \/ Intercepted(c)
          \/ Route(c)
          \/ Enqueue(c)
          \/ \E r \in {"ok", "err"} : HandlerReplies(c, r)
          \/ NetDeadline(c)
    \/ \E s \in Servers :
          \/ Take(s)
          \/ LoopEnds(s)
          \/ ShutdownServer(s)
          \/ ShutdownReturns(s)
          \/ DropHandle(s)

-----------------------------------------------------------------------------

\* An envelope that a server accepted reaches its handler, although handlers that are
\* parked never return, the caller gives up, the server is replaced at the address, or
\* its shutdown takes longer than a second; only a handle that is dropped without a
\* shutdown loses what is in the inbox.
AcceptedIsHandled ==
    \A c \in Calls :
        transport = "inprocess" /\ call[c].pc = "wait"
            ~> \/ handled[c] > 0
               \/ \E s \in Servers : call[c].at = s /\ handle[s] = "aborted"

Closed(s) == handle[s] \in {"draining", "shut", "gone"}
Replaced(s) == s <= servers /\ registered # s

\* The loop of a server that was shut down, or lost its place in the map to another
\* server or to the handle of another, ends: calls that wait for room or for the reply
\* of a parked handler hold it up no longer than their deadline.
DrainEnds == \A s \in Servers : Closed(s) \/ Replaced(s) ~> loop[s] = "ended"
=============================================================================
