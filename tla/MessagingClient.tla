--------------------------- MODULE MessagingClient ---------------------------
(***************************************************************************)
(* What a caller of crates/rapid/src/messaging/traits.rs may rely on,      *)
(* whichever transport is behind the trait.  A request is handled at most  *)
(* as often as its call may be attempted, best-effort requests and all     *)
(* requests in process at most once; an answer comes from a handler that   *)
(* has run; and an error says nothing: the request may have been handled   *)
(* before, or be handled later.                                            *)
(***************************************************************************)
EXTENDS Integers

CONSTANTS Calls, MaxAttempts

VARIABLES
    allowed,    \* how often each call may be attempted; 0 before it is made
    handled,    \* how often its handler has run
    result

vars == <<allowed, handled, result>>

Init ==
    /\ allowed = [c \in Calls |-> 0]
    /\ handled = [c \in Calls |-> 0]
    /\ result = [c \in Calls |-> "none"]

Send(c, n) ==
    /\ result[c] = "none"
    /\ allowed' = [allowed EXCEPT ![c] = n]
    /\ result' = [result EXCEPT ![c] = "pending"]
    /\ UNCHANGED handled

Handle(c) ==
    /\ handled[c] < allowed[c]
    /\ handled' = [handled EXCEPT ![c] = @ + 1]
    /\ UNCHANGED <<allowed, result>>

Answer(c) ==
    /\ result[c] = "pending"
    /\ handled[c] > 0
    /\ result' = [result EXCEPT ![c] = "ok"]
    /\ UNCHANGED <<allowed, handled>>

\* What ends one call may end others: the inbox they are waiting in goes away.
Fail(cs) ==
    /\ \A c \in cs : result[c] = "pending"
    /\ result' = [c \in Calls |-> IF c \in cs THEN "err" ELSE result[c]]
    /\ UNCHANGED <<allowed, handled>>

Next ==
    \/ \E c \in Calls :
          \/ \E n \in {1, MaxAttempts} : Send(c, n)
          \/ Handle(c)
          \/ Answer(c)
    \/ \E cs \in SUBSET Calls : Fail(cs)

Spec == Init /\ [][Next]_vars
=============================================================================
