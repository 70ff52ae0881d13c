--------------------------- MODULE MCJoinProtocol ---------------------------
(* A small instance of JoinProtocol: three members, one observer.         *)
EXTENDS JoinProtocol

CONSTANTS a, b, c

MCMembers == {a, b, c}
MCObservers == {b}
=============================================================================
