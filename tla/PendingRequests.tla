-------------------------- MODULE PendingRequests --------------------------
(***************************************************************************)
(* Requests that wait for an answer of the Java side: the pending table of *)
(* BridgeRuntimeState (src/src/runtime/state.py), _send_frame_await_reply  *)
(* (src/src/api.py), which every session handshake, maid.api call and      *)
(* server-chat message goes through, and the part of the runtime router    *)
(* that matches an answer to its request (src/src/runtime/                 *)
(* runtime_router.py).  The connection is here only what those three see   *)
(* of it: its steps are those of module Link, which Connection, with the    *)
(* loop that drives it, implements.                                        *)
(***************************************************************************)
EXTENDS Naturals, FiniteSets

CONSTANTS
    Callers,         \* coroutines sending a request frame: the handshake of
                     \* every connection, and others that send one frame each
    Ids,             \* frame ids
    None,            \* dict.get() of an absent key
    IdOf,            \* the id of a caller's frame
    KindOf,          \* what a caller sends
    Cancellable,     \* callers the host cancels when they run late
    BuiltinTimeout   \* asyncio.TimeoutError is TimeoutError: Python >= 3.11

Kinds == {"initialize", "api", "chat"}
\* "refused" is any frame that route_frame() refuses: its type is unknown, or it does
\* not fit it.  One with a request id is matched against the requests all the same;
\* a session.ready or an answer sent in the wrong direction counts under its own type.
Types == {"ready", "api_response", "chat_response", "error", "refused"}

ASSUME RequestsAssumption ==
    /\ None \notin Callers
    /\ IdOf \in [Callers -> Ids]
    /\ KindOf \in [Callers -> Kinds]
    \* uuid4 ids, and server_id@url; only a chat frame may carry an id of the host's
    /\ \A c, d \in Callers : c # d /\ IdOf[c] = IdOf[d] => KindOf[c] = "chat" /\ KindOf[d] = "chat"
    /\ Cancellable \subseteq Callers
    /\ BuiltinTimeout \in BOOLEAN

VARIABLES
    pending,    \* pending_requests: the caller listed under an id
    future,     \* PendingRequest.future
    result,     \* the type of the frame the future holds, or the caller got
    pc,         \* where a caller is
    link,       \* _transport: absent, dialling, started, dead, or taken away
    connected   \* BridgeRuntimeState.connected

vars == <<pending, future, result, pc, link, connected>>

TheLink == INSTANCE Link

TypeOK ==
    /\ pending \in [Ids -> Callers \cup {None}]
    /\ future \in [Callers -> {"none", "open", "done", "cancelled"}]
    /\ result \in [Callers -> Types \cup {None}]
    /\ \A c \in Callers : future[c] = "done" => result[c] \in Types
    /\ pc \in [Callers -> {"new", "sending", "waiting", "expired",
                           "returned", "raised", "cancelled"}]
    /\ link \in {"none", "dialling", "open", "dead", "closing"}
    /\ connected \in BOOLEAN

Init ==
    /\ pending = [i \in Ids |-> None]
    /\ future = [c \in Callers |-> "none"]
    /\ result = [c \in Callers |-> None]
    /\ pc = [c \in Callers |-> "new"]
    /\ link = "none"
    /\ connected = FALSE

----------------------------------------------------------------------------
(* Asking.                                                                 *)

Present   == link \in {"dialling", "open", "dead"}   \* _transport is not None
Suspended == {"sending", "waiting", "expired"}

\* mutant: the entry is dropped only if the future is still open
PopIfOpen(c) == IF future[c] = "open" THEN [pending EXCEPT ![IdOf[c]] = None] ELSE pending

\* pending_requests.pop(frame.id, None): by id, whoever is listed under it
Pop(c) == [pending EXCEPT ![IdOf[c]] = None]

\* the coroutine ends, and its future with it
Forgotten(c) == [future EXCEPT ![c] = "none"]

\* what a failed handshake does before anything else runs: _teardown_runtime
\* takes the transport away
LinkAfter(c, ok) == IF KindOf[c] = "initialize" /\ ~ok THEN "closing" ELSE link

\* No transport, or a maid.api call while not connected: bridge.error at once.
Refuse(c) ==
    /\ pc[c] = "new" /\ KindOf[c] # "initialize"
    /\ ~Present \/ (KindOf[c] = "api" /\ ~connected)
    /\ pc' = [pc EXCEPT ![c] = "returned"]
    /\ result' = [result EXCEPT ![c] = "error"]
    /\ UNCHANGED <<pending, future, link, connected>>

Asks(c) ==
    /\ pc[c] = "new" /\ KindOf[c] # "initialize" /\ Present
    /\ KindOf[c] = "api" => connected

\* add_pending refuses an id that is listed; that is outside the try.
RefuseDuplicate(c) ==
    /\ Asks(c) /\ pending[IdOf[c]] # None
    /\ pc' = [pc EXCEPT ![c] = "raised"]
    /\ UNCHANGED <<pending, future, result, link, connected>>

\* send() raises without suspending, or dumps() finds the frame too large: the
\* entry is added and popped in one step (and Connection!Unhealthy).
FailAtOnce(c) ==
    /\ Asks(c) /\ pending[IdOf[c]] = None
    /\ pc' = [pc EXCEPT ![c] = "raised"]
    /\ UNCHANGED <<pending, future, result, link, connected>>

\* Registered, and suspended in send_str().
Register(c) ==
    /\ pending' = [pending EXCEPT ![IdOf[c]] = c]
    /\ future' = [future EXCEPT ![c] = "open"]
    /\ pc' = [pc EXCEPT ![c] = "sending"]

Issue(c) ==
    /\ Asks(c) /\ pending[IdOf[c]] = None /\ link = "open"
    /\ Register(c)
    /\ UNCHANGED <<result, link, connected>>

SendOk(c) ==
    /\ pc[c] = "sending"
    /\ pc' = [pc EXCEPT ![c] = "waiting"]
    /\ UNCHANGED <<pending, future, result, link, connected>>

\* except Exception: pop, _mark_transport_unhealthy (Connection!Unhealthy: it
\* hits whichever connection is current by now), re-raise.
SendFails(c) ==
    /\ pc[c] = "sending"
    /\ pc' = [pc EXCEPT ![c] = "raised"]
    /\ pending' = Pop(c)
    /\ future' = Forgotten(c)
    /\ result' = [result EXCEPT ![c] = None]
    /\ link' = LinkAfter(c, FALSE)
    /\ UNCHANGED <<connected>>

----------------------------------------------------------------------------
(* Answers.                                                                *)

\* _response_matches_request
Matches(kind, type) ==
    \/ type = "error"
    \/ kind = "initialize" /\ type = "ready"
    \/ kind = "api" /\ type = "api_response"
    \/ kind = "chat"

\* mutant: a future that was cancelled is still taken for an open one
ListeningIfListed(i, type) ==
    LET c == pending[i] IN c # None /\ Matches(KindOf[c], type)

\* _complete_pending_response goes on: listed, not done, and of a fitting type
Listening(i, type) ==
    LET c == pending[i]
    IN  c # None /\ future[c] = "open" /\ Matches(KindOf[c], type)

\* The Java side answers a frame it was sent, as often as it likes.  A socket left
\* over by a teardown that was cut short still reads into the same table, so the
\* current one need not be alive.  An answer nobody listens for changes nothing.
Answer(i, type) ==
    /\ link \in {"open", "dead", "closing"}
    /\ Listening(i, type)
    /\ LET c == pending[i] IN
       /\ pending' = [pending EXCEPT ![i] = None]
       /\ future' = [future EXCEPT ![c] = "done"]
       /\ result' = [result EXCEPT ![c] = type]
    /\ UNCHANGED <<pc, link, connected>>

\* What the caller makes of the answer: a chat frame wants its own kind
Reported(c) ==
    IF KindOf[c] = "chat" /\ result[c] # "chat_response" THEN "error" ELSE result[c]

\* The caller resumes with the result; for the handshake, _connect_once goes on
\* to mark_connected or raises into the teardown in the same step.
Return(c) ==
    /\ pc[c] = "waiting" /\ future[c] = "done"
    /\ pc' = [pc EXCEPT ![c] = "returned"]
    /\ connected' = (connected \/ (KindOf[c] = "initialize" /\ result[c] = "ready"))
    /\ link' = LinkAfter(c, result[c] = "ready")
    /\ future' = Forgotten(c)
    /\ result' = [result EXCEPT ![c] = Reported(c)]
    /\ UNCHANGED pending

\* mutant: the deadline is not applied to the handshake
TimedUnlessHandshake(c) == pc[c] = "waiting" /\ KindOf[c] # "initialize"

\* what wait_for() watches: the future only, not the send before it
Timed(c) == pc[c] = "waiting"

\* The timer cancels the wait.  If the answer came but the caller has not run
\* yet, Python 3.12 drops the answer (3.11 would return it: Return).
Expire(c) ==
    /\ Timed(c)
    /\ pc' = [pc EXCEPT ![c] = "expired"]
    /\ future' = [future EXCEPT ![c] = IF @ = "open" THEN "cancelled" ELSE @]
    /\ UNCHANGED <<pending, result, link, connected>>

\* except TimeoutError; before Python 3.11 the clause does not catch what
\* wait_for raises, and except Exception does.
TimeOut(c) ==
    /\ pc[c] = "expired"
    /\ pending' = Pop(c)
    /\ pc' = [pc EXCEPT ![c] = IF BuiltinTimeout THEN "returned" ELSE "raised"]
    /\ result' = [result EXCEPT ![c] = IF BuiltinTimeout THEN "error" ELSE None]
    /\ link' = LinkAfter(c, FALSE)
    /\ future' = Forgotten(c)
    /\ UNCHANGED <<connected>>

\* CancelledError passes both except clauses: the entry stays.  For the
\* handshake it is _stop_runtime that cancels, and the loop tears down.
Cancel(c) ==
    /\ c \in Cancellable /\ pc[c] \in Suspended
    /\ pc' = [pc EXCEPT ![c] = "cancelled"]
    /\ future' = [future EXCEPT ![c] = IF @ = "open" /\ pc[c] = "waiting" THEN "cancelled" ELSE @]
    /\ link' = LinkAfter(c, FALSE)
    /\ UNCHANGED <<pending, result, connected>>

----------------------------------------------------------------------------
(* The connection, as the requests see it.                                 *)

\* _connect_once up to router.start(): a new transport, not started yet, and a
\* handshake still to come, under the same id as every other (server_id@url)
Dial ==
    /\ TheLink!Dial
    /\ pc' = [c \in Callers |-> IF KindOf[c] = "initialize" THEN "new" ELSE pc[c]]
    /\ UNCHANGED <<pending, future, result, connected>>

\* router.start() returns and bridge.session.initialize is sent with no await
\* in between
Started(c) ==
    /\ TheLink!Open
    /\ pc[c] = "new" /\ KindOf[c] = "initialize" /\ pending[IdOf[c]] = None
    /\ Register(c)
    /\ UNCHANGED <<result, connected>>

\* the reader loop ends: sends fail from here on
Drop ==
    /\ TheLink!Drop
    /\ UNCHANGED <<pending, future, result, pc, connected>>

\* _teardown_runtime begins: start() failed, the loop saw the closed event, or
\* the plugin is stopped.  A handshake under way has to end first.
TakeAway ==
    /\ link = "dialling" \/ connected
    /\ TheLink!TakeAway
    /\ UNCHANGED <<pending, future, result, pc, connected>>

\* mutants: listed callers are forgotten, or given nothing; the flag stays
DisconnectForgets(released) ==
    /\ TheLink!Disconnect
    /\ pending' = [i \in Ids |-> None]
    /\ UNCHANGED <<future, result>>
DisconnectGivesNothing(released) ==
    /\ TheLink!Disconnect
    /\ pending' = [i \in Ids |-> None]
    /\ future' = [c \in Callers |-> IF c \in released THEN "done" ELSE future[c]]
    /\ UNCHANGED result
DisconnectKeepsFlag(released) ==
    /\ link = "closing" /\ link' = "none" /\ UNCHANGED connected
    /\ pending' = [i \in Ids |-> None]
    /\ future' = [c \in Callers |-> IF c \in released THEN "done" ELSE future[c]]
    /\ result' = [c \in Callers |-> IF c \in released THEN "error" ELSE result[c]]

\* mark_disconnected and _complete_pending_requests: every request still listed
\* ends with a bridge.error
Disconnect(released) ==
    /\ TheLink!Disconnect
    /\ pending' = [i \in Ids |-> None]
    /\ future' = [c \in Callers |-> IF c \in released THEN "done" ELSE future[c]]
    /\ result' = [c \in Callers |-> IF c \in released THEN "error" ELSE result[c]]

Disconnected ==
    /\ Disconnect({c \in Callers : pending[IdOf[c]] = c /\ future[c] = "open"})
    /\ UNCHANGED pc

----------------------------------------------------------------------------
AskStep(c) == Refuse(c) \/ RefuseDuplicate(c) \/ FailAtOnce(c) \/ Issue(c)
Resume(c) == SendOk(c) \/ SendFails(c) \/ Return(c) \/ TimeOut(c)
LinkStep == Dial \/ Drop \/ TakeAway \/ Disconnected

Next ==
    \/ \E c \in Callers :
         AskStep(c) \/ Resume(c) \/ Expire(c) \/ Cancel(c) \/ Started(c)
    \/ \E i \in Ids, type \in Types : Answer(i, type)
    \/ LinkStep

Spec == Init /\ [][Next]_vars

\* The event loop runs what is ready, a write ends, a timer fires; nothing is
\* asked of the Java side, of the connection or of the host.
FairSpec == Spec /\ \A c \in Callers : WF_vars(Resume(c)) /\ WF_vars(Expire(c))

----------------------------------------------------------------------------
(* Properties.                                                             *)

Unshared(c) == \A d \in Callers : IdOf[d] = IdOf[c] => d = c

\* pending_requests lists a request only for as long as its caller is inside
\* _send_frame_await_reply, unless that caller was cancelled: every other way out
\* of the coroutine leaves the table without its entry.
EntryHasItsCaller == \A i \in Ids : pending[i] # None =>
    /\ IdOf[pending[i]] = i
    /\ pc[pending[i]] \in Suspended \cup {"cancelled"}
    /\ pc[pending[i]] = "cancelled" => pending[i] \in Cancellable

\* A caller that waits on an open future can still be found by an answer and by
\* a disconnect, provided nobody else uses its id.
WaiterIsListed == \A c \in Callers :
    Unshared(c) /\ pc[c] \in Suspended /\ future[c] = "open" => pending[IdOf[c]] = c

\* Once a disconnect has been processed nobody is left waiting on the connection
\* that is gone: the loop may dial again, and everyone has got an outcome.
DisconnectReleasesAll == link \in {"none", "dialling"} =>
    \A c \in Callers : Unshared(c) /\ pc[c] \in Suspended => future[c] # "open"

\* While a transport is there, connected says that the handshake sent on this very
\* connection got a bridge.session.ready: it is not left over from an earlier one.
ConnectedByHandshake == connected /\ Present =>
    \E c \in Callers : KindOf[c] = "initialize" /\ pc[c] = "returned" /\ result[c] = "ready"

\* A caller of maid.api gets a maid.api.response or an error: a handshake or chat
\* answer that names its id is not given to it.
ApiAnswerFits == \A c \in Callers :
    KindOf[c] = "api" /\ result[c] # None => result[c] \in {"api_response", "error"}

\* An outcome is never overwritten: no late or repeated answer, disconnect or
\* timer touches a future that has one (asyncio would raise InvalidStateError in
\* the middle of _complete_pending_requests, leaving the rest unanswered).  Only
\* the caller's own next step makes the future go away.
OutcomesStand == [][\A c \in Callers :
    future[c] \in {"done", "cancelled"} /\ pc'[c] = pc[c] => future'[c] = future[c]]_vars

\* Whatever the Java side and the connection do, a request comes back.
EveryCallerReturns == \A c \in Callers : []<>(pc[c] \notin Suspended)
============================================================================
