------------------------------ MODULE MCTurns ------------------------------
(* MaidTurnService for TLC: two or three request frames.                   *)
EXTENDS MaidTurnService

CONSTANTS f1, f2, f3, t1, t2, t3, s1

\* f3 repeats the turn id of f1: a request, another turn, a retry
RetryTurnOf == [f \in Frames |-> IF f = f2 THEN t2 ELSE t1]

\* three different turns
DistinctTurnOf == [f \in Frames |-> CASE f = f1 -> t1 [] f = f2 -> t2 [] f = f3 -> t3]

\* every frame in one session
OneSession == [f \in Frames |-> s1]
============================================================================
