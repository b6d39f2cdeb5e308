----------------------------- MODULE MCRegistry -----------------------------
(* Registry for TLC: two names, and four identities that collide in        *)
(* different ways.                                                         *)
EXTENDS Registry

\* the third takes over the endpoint id of the first two, the second leaves out
\* what the first declares
MCSenders == {
    [server |-> 1, endpoint |-> 1, source |-> 1],
    [server |-> 0, endpoint |-> 0, source |-> 1],
    [server |-> 2, endpoint |-> 1, source |-> 2],
    [server |-> 1, endpoint |-> 0, source |-> 2]}

MCFlags == {
    [capability |-> "unsaid", feature |-> "unsaid"],
    [capability |-> "unsaid", feature |-> "yes"],
    [capability |-> "no", feature |-> "yes"]}
============================================================================
