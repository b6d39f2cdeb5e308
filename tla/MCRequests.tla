----------------------------- MODULE MCRequests -----------------------------
(* PendingRequests for TLC: the handshakes, a maid.api call and two chat   *)
(* frames with the same host message id.                                   *)
EXTENDS PendingRequests

CONSTANTS i1, a1, h1, h2, x1, x2, x3

MCIdOf == [c \in Callers |-> CASE c = i1 -> x1 [] c = a1 -> x2 [] OTHER -> x3]
MCKindOf == [c \in Callers |->
    IF c = i1 THEN "initialize" ELSE IF c = a1 THEN "api" ELSE "chat"]
============================================================================
