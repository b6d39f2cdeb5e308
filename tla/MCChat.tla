------------------------------- MODULE MCChat -------------------------------
(* ServerChat for TLC: a message delivered twice, and another one.         *)
EXTENDS ServerChat

CONSTANTS f1, f2, f3, m1, m2, r1, r2

MCMessageOf == [f \in Frames |-> IF f = f2 THEN m2 ELSE m1]
MCRoomOf == [f \in Frames |-> r1]
============================================================================
