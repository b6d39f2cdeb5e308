----------------------------- MODULE TurnLedger -----------------------------
(***************************************************************************)
(* What the adapter owes the game for a maid turn request, whatever hooks, *)
(* retries, cancellations and lost connections there are in between.  The  *)
(* ledger has a line for each request: what has become of it, and what the *)
(* game was told.  The lines are independent of each other, and a step may *)
(* write in several of them.  MaidTurnService implements this module.      *)
(***************************************************************************)
EXTENDS Sequences

CONSTANT Requests    \* received turn requests, a retry being one of its own

VARIABLES
    state,  \* what has become of each request
    told    \* the terminal frames handed over for it

vars == <<state, told>>

Outcomes == {"reply", "no_reply"}

Init ==
    /\ state = [r \in Requests |-> "new"]
    /\ told = [r \in Requests |-> <<>>]

\* A request is declined, or taken up and then answered or failed, for good.  It
\* counts as answered only when the game has been told.
Settle(r) ==
    \/ state'[r] = state[r]
    \/ state[r] = "new" /\ state'[r] \in {"declined", "open"}
    \/ state[r] = "open" /\ state'[r] = "failed"
    \/ state[r] = "open" /\ state'[r] = "answered" /\ told[r] # <<>>

\* The game is told once: a no_reply on declining, or the outcome of a request that
\* was taken up.  A request that failed with its connection may still be told of,
\* on a later one.
Tell(r) ==
    \/ told'[r] = told[r]
    \/ /\ told[r] = <<>>
       /\ \/ state[r] = "new" /\ state'[r] = "declined" /\ told'[r] = <<"no_reply">>
          \/ state[r] \in {"open", "failed"} /\ \E o \in Outcomes : told'[r] = <<o>>

Next == \A r \in Requests : Settle(r) /\ Tell(r)

Spec == Init /\ [][Next]_vars
=============================================================================
