------------------------------ MODULE Transport ------------------------------
(***************************************************************************)
(* The messaging of a member: TimedClient over the transport that          *)
(* build_client and spawn_server of crates/rapid/src/cluster/bootstrap.rs  *)
(* select, and the promise both transports make to the callers.            *)
(***************************************************************************)
EXTENDS GrpcPool, InProcessNetwork

vars == <<transport, call, handled, grpcVars, netVars>>

Init == TimedInit /\ GrpcInit /\ NetInit

\* In process the two are the same: neither retries.
Operations == IF transport = "grpc" THEN {"send", "best"} ELSE {"best"}

Next ==
    \/ \E c \in Calls, op \in Operations : StartCall(c, op) /\ UNCHANGED <<grpcVars, netVars>>
    \/ transport = "grpc" /\ GrpcNext /\ UNCHANGED netVars
    \/ transport = "inprocess" /\ NetNext /\ UNCHANGED grpcVars

\* Time passes for every call, and the loop of a server is polled.  Nothing is
\* assumed of handlers, which may be parked, nor of the network.
Fairness ==
    /\ \A c \in Calls :
          WF_vars(\/ transport = "grpc" /\ GrpcDeadline(c) /\ UNCHANGED netVars
                  \/ transport = "inprocess" /\ NetDeadline(c) /\ UNCHANGED grpcVars)
    /\ \A s \in Servers : WF_vars((Take(s) \/ LoopEnds(s)) /\ UNCHANGED grpcVars)

Spec == Init /\ [][Next]_vars /\ Fairness

-----------------------------------------------------------------------------
(* Properties.                                                             *)

\* Types; an attempt counts up to the retries of `send`.
TypeOK ==
    /\ call \in [Calls -> [op : {"none", "send", "best"},
                           pc : {"idle", "start", "connect", "send", "wait"} \cup Ended,
                           tries : 0 .. Retries + 1,
                           at : Nat]]
    /\ handled \in [Calls -> Nat]
    /\ cached \in 0 .. channels
    /\ stale => cached # 0
    /\ wire \cup running \subseteq Calls \X (0 .. Retries)
    /\ registered \in 0 .. servers
    /\ \A s \in Servers : Len(inbox[s]) <= InboxCapacity
    /\ handlers \subseteq Calls

Allowed(c) ==
    CASE call[c].op = "none" -> 0
      [] call[c].op = "send" -> Retries + 1
      [] OTHER -> 1

Result(c) ==
    CASE call[c].pc = "idle" -> "none"
      [] call[c].pc = "ok" -> "ok"
      [] Pending(c) -> "pending"
      [] OTHER -> "err"

Client == INSTANCE MessagingClient WITH
    MaxAttempts <- Retries + 1,
    allowed <- [c \in Calls |-> Allowed(c)],
    result <- [c \in Calls |-> Result(c)]

\* Both transports keep the promise of MessagingClient.  That a best-effort request is
\* handled at most once is what the coordinator of a classic round counts on: promises
\* are sent best-effort and counted without a look at their sender.
ImplementsMessagingClient == Client!Spec
=============================================================================
