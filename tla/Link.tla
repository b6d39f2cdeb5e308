-------------------------------- MODULE Link --------------------------------
(***************************************************************************)
(* The connection as everybody but its own loop sees it: what self._trans- *)
(* port is good for, and the connected flag.  PendingRequests is written   *)
(* against these steps, and Connection, which has the loop, the callbacks  *)
(* and the sockets that make them, is shown to make no other.              *)
(***************************************************************************)

VARIABLES
    link,       \* _transport: absent, dialling, open, dead, or taken away
    connected   \* BridgeRuntimeState.connected

vars == <<link, connected>>

Init == link = "none" /\ connected = FALSE

\* a new transport, which ws_connect is still opening
Dial == link = "none" /\ link' = "dialling"

Open == link = "dialling" /\ link' = "open"

\* the reader has ended: sends fail from here on
Drop == link = "open" /\ link' = "dead"

\* a teardown takes the transport away
TakeAway == link \in {"dialling", "open", "dead"} /\ link' = "closing"

\* The handshake was answered.  Its answer may have been the last frame read.
Confirm ==
    /\ link \in {"open", "dead"}
    /\ ~connected /\ connected' = TRUE
    /\ UNCHANGED link

\* mark_disconnected, when the teardown is through or was cut short
Disconnect == link = "closing" /\ link' = "none" /\ connected' = FALSE

Next ==
    \/ (Dial \/ Open \/ Drop \/ TakeAway) /\ UNCHANGED connected
    \/ Confirm
    \/ Disconnect

Spec == Init /\ [][Next]_vars
=============================================================================
