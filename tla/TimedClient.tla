----------------------------- MODULE TimedClient -----------------------------
(***************************************************************************)
(* The client of every component: crates/rapid/src/messaging/timed_client  *)
(* around the GrpcPool or the InProcessClient that build_client chose.     *)
(* Here are the calls and their deadline; GrpcPool and InProcessNetwork    *)
(* have the steps that a call takes in between.                            *)
(*                                                                         *)
(* All calls go to one address: nothing that a transport keeps of one peer *)
(* concerns another.  A deadline is a step that may come at any time.      *)
(***************************************************************************)
EXTENDS Integers

CONSTANTS
    Calls,      \* bound: the calls that are made
    Retries     \* of `send`; 5 in the code

ASSUME RetriesNat == Retries \in Nat

VARIABLES
    transport,  \* TransportChoice
    call,       \* what each call does
    handled     \* history: how often its request reached the handler

\* `at` is the channel of the attempt, or the server whose inbox it goes to.
NoCall == [op |-> "none", pc |-> "idle", tries |-> 0, at |-> 0]

Ended == {"ok", "err", "dropped", "late"}
Pending(c) == call[c].pc \notin Ended \cup {"idle"}

TimedInit ==
    /\ transport \in {"grpc", "inprocess"}
    /\ call = [c \in Calls |-> NoCall]
    /\ handled = [c \in Calls |-> 0]

Goto(c, pc) == call' = [call EXCEPT ![c].pc = pc]
GotoAt(c, pc, at) == call' = [call EXCEPT ![c].pc = pc, ![c].at = at]

\* TimedClient::send and TimedClient::send_best_effort
StartCall(c, op) ==
    /\ call[c].pc = "idle"
    /\ call' = [call EXCEPT ![c].op = op, ![c].pc = "start"]
    /\ UNCHANGED <<transport, handled>>

\* The deadline covers all the attempts of the call.  The future of the call is
\* dropped where it stands; what it has sent is not taken back.
Deadline(c) ==
    /\ Pending(c)
    /\ Goto(c, "late")
    /\ UNCHANGED <<transport, handled>>

\* A handler is called with the request of c.
RunHandler(c) == handled' = [handled EXCEPT ![c] = @ + 1]
=============================================================================
