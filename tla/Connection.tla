----------------------------- MODULE Connection -----------------------------
(***************************************************************************)
(* The life of the connection to MaidBridge: the runtime loop and its      *)
(* teardown (src/src/connection.py), the WebSocket transport it dials      *)
(* (src/src/transport/websocket.py), the router it stops (src/src/runtime/ *)
(* runtime_router.py), and the plugin callbacks that start and stop it     *)
(* (src/plugin.py).  The host calls those one after another; a start       *)
(* always stops what ran before.  The stop cancels the loop's task, and a  *)
(* cancellation lands on whatever the loop awaits, its own teardown        *)
(* included.                                                               *)
(* A transport object is a slot, used again once nothing refers to it, so  *)
(* that the loop may dial for ever.  A generation is compared only for     *)
(* equality with the latest one: latest is the transport that carries it.  *)
(***************************************************************************)
EXTENDS Naturals, FiniteSets

CONSTANTS
    Slots,          \* transport objects
    None,           \* no transport
    InFlight,       \* may the router have tasks to cancel when it is stopped?
    BuiltinTimeout, \* asyncio.TimeoutError is TimeoutError: Python >= 3.11
    InitialDelay,   \* reconnect_initial_delay_ms
    MaxDelay,       \* reconnect_max_delay_ms, 0 for none
    MaxIndex        \* bound: failures counted, enough for the delay to reach MaxDelay

ASSUME ConnectionAssumption ==
    /\ None \notin Slots
    /\ IsFiniteSet(Slots)
    /\ InitialDelay \in Nat /\ MaxDelay \in Nat /\ MaxIndex \in Nat \ {0}
    /\ InFlight \in BOOLEAN /\ BuiltinTimeout \in BOOLEAN

VARIABLES
    ctl,          \* the plugin callback: idle, in _stop_runtime, publishing
    next,         \* settings.enabled once that callback is done ...
    wanted,       \* ... and before: the settings in force
    loop,         \* what _runtime_loop awaits
    mode,         \* why it tears down: transport closed, an error, or finally
    cancelled,    \* its task is cancelled and has not been told yet
    stopEvent,    \* _runtime_stop_event is set
    closedEvent,  \* _runtime_closed_event is set
    transport,    \* _transport
    closer,       \* the transport a teardown has taken away and has to stop
    tr,           \* each transport: free, dialling, open, or shut with on_close due
    latest,       \* the transport whose generation is _runtime_generation
    connected,    \* BridgeRuntimeState.connected
    ready,        \* gateways last published as ready
    index,        \* reconnect_index of the loop
    paused,       \* history: its last reconnect wait since a connection was ready
    leaked,       \* history: open transports whose teardown was cut short
    uncaught      \* history: an update_state raised where nothing catches it

vars == <<ctl, next, wanted, loop, mode, cancelled, stopEvent, closedEvent,
          transport, closer, tr, latest, connected, ready, index, paused, leaked, uncaught>>
pacing == <<index, paused>>
tasks == <<ctl, next, wanted, loop, mode, cancelled, stopEvent, index, paused>>

Gateways == {"maid", "chat"}
Dialling == {"begin", "sleep", "resolve", "dial", "handshake"}
Up       == {"ready_maid", "ready_chat", "watch", "unwatch"}
Down     == {"gather", "closing", "unready_maid", "unready_chat"}

\* InitialDelay * 2 ^ k
Doubled[k \in 0..MaxIndex] == IF k = 0 THEN InitialDelay ELSE 2 * Doubled[k - 1]

\* _reconnect_delay_ms: exponential, capped unless the cap is 0
Delay(k) ==
    LET uncapped == Doubled[IF k > 1 THEN k - 1 ELSE 0]
    IN  IF MaxDelay > 0 /\ MaxDelay < uncapped THEN MaxDelay ELSE uncapped

Pauses == {0} \cup {Delay(k) : k \in 0..MaxIndex}

TypeOK ==
    /\ ctl \in {"idle", "stopping", "publishing"}
    /\ next \in BOOLEAN /\ wanted \in BOOLEAN
    /\ loop \in Dialling \cup Up \cup Down \cup {"off"}
    /\ mode \in {"closed", "failed", "final"}
    /\ cancelled \in BOOLEAN /\ (cancelled => ctl = "stopping" /\ loop # "off")
    /\ stopEvent \in BOOLEAN
    /\ closedEvent \in BOOLEAN
    /\ transport \in Slots \cup {None}
    /\ closer \in Slots \cup {None}
    /\ closer # None <=> loop \in {"gather", "closing"}
    /\ transport # None <=> loop \in {"dial", "handshake"} \cup Up
    /\ tr \in [Slots -> {"free", "dialling", "open", "shut"}]
    /\ latest \in Slots \cup {None}
    /\ connected \in BOOLEAN
    /\ ready \subseteq Gateways
    /\ index \in 0..MaxIndex
    /\ paused \in Pauses
    /\ leaked \subseteq Slots
    /\ uncaught \in BOOLEAN

Init ==
    /\ ctl = "idle" /\ next = FALSE /\ wanted = FALSE
    /\ loop = "off" /\ mode = "final" /\ cancelled = FALSE
    /\ stopEvent = FALSE /\ closedEvent = FALSE
    /\ transport = None /\ closer = None
    /\ tr = [n \in Slots |-> "free"]
    /\ latest = None
    /\ connected = FALSE
    /\ ready = {}
    /\ index = 0 /\ paused = 0
    /\ leaked = {}
    /\ uncaught = FALSE

----------------------------------------------------------------------------
(* Pieces of the loop.                                                     *)

\* mutant: the stop event is not looked at
ShouldRunAlways == TRUE

\* _runtime_should_run: a loop runs on settings that enable it
ShouldRun == ~stopEvent

\* mutants: the generation is not compared; it never matches
CloseHitsAny(n) == TRUE
CloseHitsNone(n) == FALSE

\* _mark_transport_closed(generation) acts for transport n
CloseHits(n) == latest = n

\* mutant: a transport is only closed if the handshake had succeeded
ShutDownConnected(n) == IF connected THEN [tr EXCEPT ![n] = "free"] ELSE tr

\* AioHttpWebSocketBridgeTransport.stop has come to its end
ShutDown(n) == [tr EXCEPT ![n] = "free"]

\* mutant: a lost connection leaves the flag
ConnectedUnlessLost(m) == connected /\ m = "closed"

\* mark_disconnected, at the end of every teardown
ConnectedAfter(m) == FALSE

Spare == {n \in Slots : tr[n] = "free" /\ n \notin {transport, closer}}

\* _teardown_runtime up to its first await: the references are dropped, then the
\* router's tasks are awaited (if it was started and has any), then the transport.
BeginTeardown(m) ==
    /\ mode' = m
    /\ transport' = None
    /\ closer' = transport
    /\ \E waits \in IF InFlight /\ loop # "dial" THEN BOOLEAN ELSE {FALSE} :
         loop' = IF waits THEN "gather" ELSE "closing"

\* the loop's coroutine ends through finally, with nothing to take away
LoopEnds ==
    /\ loop' = "off"
    /\ connected' = ConnectedAfter("final")
    /\ index' = 0 /\ paused' = 0

\* mutant: the lost connection counts, the failed attempt does not
IndexCountsCloses == IF mode = "closed" /\ index < MaxIndex THEN index + 1 ELSE index

\* reconnect_index once the teardown after an attempt is through
IndexAfter == IF mode = "failed" /\ index < MaxIndex THEN index + 1 ELSE index

----------------------------------------------------------------------------
(* The plugin callbacks.                                                   *)

\* on_load, on_config_update, on_unload: all begin with _stop_runtime.  Bound: a
\* stop comes into a teardown that waits for tasks only while a slot is spare.
Stop(enable) ==
    /\ ctl = "idle"
    /\ loop = "gather" => Spare # {}
    /\ ctl' = "stopping"
    /\ next' = enable
    /\ stopEvent' = TRUE
    /\ closedEvent' = TRUE
    /\ latest' = None
    /\ cancelled' = (loop # "off")
    /\ UNCHANGED <<wanted, loop, mode, transport, closer, tr, connected, ready, leaked, uncaught>>
    /\ UNCHANGED pacing

\* mutant: the event of the loop that was stopped serves the next one too
StopEventReused == stopEvent

\* _start_runtime: asyncio.Event()
NewStopEvent == FALSE

\* mutant: the cancelled task is not awaited
AwaitedNever == TRUE

\* the cancelled task has come to its end
Awaited == loop = "off"

\* The loop's task is done and _stop_runtime has nothing left to tear down; the
\* new settings are taken over, and _start_runtime creates the next loop.
Stopped ==
    /\ ctl = "stopping" /\ Awaited
    /\ wanted' = next
    /\ connected' = ConnectedAfter("final")
    /\ IF next
       THEN ctl' = "idle" /\ loop' = "begin" /\ stopEvent' = NewStopEvent
       ELSE ctl' = "publishing" /\ UNCHANGED <<loop, stopEvent>>
    /\ UNCHANGED <<next, mode, cancelled, closedEvent, transport, closer, tr, latest, ready, leaked, uncaught>>
    /\ UNCHANGED pacing

\* mutant: only the maid gateway is withdrawn
WithdrawnMaid == ready \ {"maid"}

\* _publish_adapter_state(runtime_connected=False) for both gateways, one after the
\* other; an update_state that raises ends the callback
Withdrawn == {}

Publish ==
    /\ ctl = "publishing"
    /\ ctl' = "idle"
    /\ \/ ready' = Withdrawn /\ UNCHANGED uncaught
       \/ \E told \in {{}, {"maid"}} : ready' = ready \ told /\ uncaught' = TRUE
    /\ UNCHANGED <<next, wanted, loop, mode, cancelled, stopEvent, closedEvent,
                   transport, closer, tr, latest, connected, leaked>>
    /\ UNCHANGED pacing

----------------------------------------------------------------------------
(* The loop, while it is not cancelled.                                    *)

At(p) == loop = p /\ ~cancelled

\* The wait of _wait_for_stop runs out.  Before Python 3.11 its except clause
\* does not catch what wait_for raises, and the loop ends.
Attempt ==
    /\ At("begin") \/ At("sleep")
    /\ IF ShouldRun /\ (loop = "sleep" /\ Delay(index) > 0 => BuiltinTimeout)
       THEN /\ loop' = "resolve"
            /\ closedEvent' = FALSE
            /\ latest' = None
            /\ paused' = IF loop = "sleep" THEN Delay(index) ELSE 0
            /\ UNCHANGED <<connected, index>>
       ELSE LoopEnds /\ UNCHANGED <<closedEvent, latest>>
    /\ UNCHANGED <<ctl, next, wanted, mode, cancelled, stopEvent, transport, closer, tr, ready, leaked, uncaught>>

\* _connect_once up to router.start()
Dial(n) ==
    /\ At("resolve") /\ n \in Spare
    /\ loop' = "dial"
    /\ transport' = n
    /\ latest' = n
    /\ tr' = [tr EXCEPT ![n] = "dialling"]
    /\ UNCHANGED <<ctl, next, wanted, mode, cancelled, stopEvent, closedEvent, closer, connected, ready, leaked, uncaught>>
    /\ UNCHANGED pacing

\* ws_connect returns; the reader starts and the handshake is sent
Dialled ==
    /\ At("dial")
    /\ loop' = "handshake"
    /\ tr' = [tr EXCEPT ![transport] = "open"]
    /\ UNCHANGED <<ctl, next, wanted, mode, cancelled, stopEvent, closedEvent,
                   transport, closer, latest, connected, ready, leaked, uncaught>>
    /\ UNCHANGED pacing

DialFails ==
    /\ At("dial")
    /\ BeginTeardown("failed")
    /\ tr' = [tr EXCEPT ![transport] = "shut"]
    /\ UNCHANGED <<ctl, next, wanted, cancelled, stopEvent, closedEvent, latest, connected, ready, leaked, uncaught>>
    /\ UNCHANGED pacing

\* _send_session_initialize has its bridge.session.ready: mark_connected
Handshaken ==
    /\ At("handshake")
    /\ loop' = "ready_maid"
    /\ connected' = TRUE
    /\ UNCHANGED <<ctl, next, wanted, mode, cancelled, stopEvent, closedEvent,
                   transport, closer, tr, latest, ready, leaked, uncaught>>
    /\ UNCHANGED pacing

\* it has an error, a timeout or an exception instead
HandshakeFails ==
    /\ At("handshake")
    /\ BeginTeardown("failed")
    /\ UNCHANGED <<ctl, next, wanted, cancelled, stopEvent, closedEvent, tr, latest, connected, ready, leaked, uncaught>>
    /\ UNCHANGED pacing

\* _publish_adapter_state(runtime_connected=True): one gateway, then the other
PublishReady(p, gateway, q) ==
    /\ At(p)
    /\ \E ok \in BOOLEAN :
         IF ok
         THEN /\ ready' = ready \cup {gateway}
              /\ loop' = q
              /\ IF q = "watch" THEN index' = 1 /\ paused' = 0 ELSE UNCHANGED pacing
              /\ UNCHANGED <<mode, transport, closer>>
         ELSE BeginTeardown("failed") /\ UNCHANGED ready /\ UNCHANGED pacing
    /\ UNCHANGED <<ctl, next, wanted, cancelled, stopEvent, closedEvent, tr, latest, connected, leaked, uncaught>>

\* _wait_until_current_transport_closes: asyncio.wait returns, then the two
\* helper tasks are cancelled and awaited
Notice ==
    /\ At("watch") /\ closedEvent
    /\ loop' = "unwatch"
    /\ UNCHANGED <<ctl, next, wanted, mode, cancelled, stopEvent, closedEvent,
                   transport, closer, tr, latest, connected, ready, leaked, uncaught>>
    /\ UNCHANGED pacing

Unwatch ==
    /\ At("unwatch")
    /\ BeginTeardown(IF ShouldRun THEN "closed" ELSE "final")
    /\ UNCHANGED <<ctl, next, wanted, cancelled, stopEvent, closedEvent, tr, latest, connected, ready, leaked, uncaught>>
    /\ UNCHANGED pacing

\* the router's tasks are done: on to transport.stop()
Gathered ==
    /\ At("gather")
    /\ loop' = "closing"
    /\ UNCHANGED <<ctl, next, wanted, mode, cancelled, stopEvent, closedEvent,
                   transport, closer, tr, latest, connected, ready, leaked, uncaught>>
    /\ UNCHANGED pacing

\* transport.stop() is through, on_close emitted if it was still due; the rest of
\* _teardown_runtime follows
Closed ==
    /\ At("closing")
    /\ tr' = ShutDown(closer)
    /\ closedEvent' = (closedEvent \/ (tr[closer] # "free" /\ CloseHits(closer)))
    /\ closer' = None
    /\ IF mode = "final"
       THEN LoopEnds
       ELSE loop' = "unready_maid" /\ connected' = ConnectedAfter(mode) /\ UNCHANGED pacing
    /\ UNCHANGED <<ctl, next, wanted, mode, cancelled, stopEvent, transport, latest, ready, leaked, uncaught>>

\* The publication that ends a teardown.  If it raises, the except clause tears
\* down, which has nothing to do, and publishes once more; if that raises, the
\* loop ends with the exception, and so does a callback that awaits it.
PublishUnready(p, gateway, q) ==
    /\ At(p)
    /\ \E ok \in BOOLEAN :
         \/ /\ ok
            /\ ready' = ready \ {gateway}
            /\ IF q = "sleep" /\ ~ShouldRun
               THEN LoopEnds
               ELSE /\ loop' = q
                    /\ index' = IF q = "sleep" THEN IndexAfter ELSE index
                    /\ UNCHANGED <<connected, paused>>
            /\ UNCHANGED <<ctl, mode, uncaught>>
         \/ /\ ~ok /\ mode = "closed"
            /\ mode' = "failed"
            /\ loop' = "unready_maid"
            /\ UNCHANGED <<ctl, connected, ready, uncaught>> /\ UNCHANGED pacing
         \/ /\ ~ok /\ mode = "failed"
            /\ LoopEnds
            /\ ctl' = "idle"
            /\ uncaught' = TRUE
            /\ UNCHANGED <<mode, ready>>
    /\ UNCHANGED <<next, wanted, cancelled, stopEvent, closedEvent, transport,
                   closer, tr, latest, leaked>>

----------------------------------------------------------------------------
(* CancelledError arrives in the loop.                                     *)

Told == cancelled /\ cancelled' = FALSE

\* with nothing to take away: the finally clause has nothing to do
CancelIdle ==
    /\ loop \in {"begin", "sleep", "resolve", "unready_maid", "unready_chat"} /\ Told
    /\ LoopEnds
    /\ UNCHANGED <<ctl, next, wanted, mode, stopEvent, closedEvent, transport,
                   closer, tr, latest, ready, leaked, uncaught>>

\* with a connection: the finally clause tears it down
CancelActive ==
    /\ loop \in {"dial", "handshake", "ready_maid", "ready_chat", "watch"} /\ Told
    /\ BeginTeardown("final")
    /\ tr' = [tr EXCEPT ![transport] = IF @ = "dialling" THEN "shut" ELSE @]
    /\ UNCHANGED <<ctl, next, wanted, stopEvent, closedEvent, latest, connected, ready, leaked, uncaught>>
    /\ UNCHANGED pacing

\* in the clean-up of _wait_until_current_transport_closes, or while
\* transport.stop() awaits its reader: contextlib.suppress swallows it
CancelSwallowed ==
    /\ loop \in {"unwatch", "closing"} /\ Told
    /\ UNCHANGED <<ctl, next, wanted, loop, mode, stopEvent, closedEvent,
                   transport, closer, tr, latest, connected, ready, leaked, uncaught>>
    /\ UNCHANGED pacing

\* while transport.stop() closes the socket: the socket is shut, the rest skipped
CancelClosing ==
    /\ loop = "closing" /\ Told
    /\ tr' = [tr EXCEPT ![closer] = IF @ = "open" THEN "shut" ELSE @]
    /\ closer' = None
    /\ LoopEnds
    /\ UNCHANGED <<ctl, next, wanted, mode, stopEvent, closedEvent, transport, latest, ready, leaked, uncaught>>

\* while router.stop() awaits its tasks: suppress(Exception) lets it through,
\* transport.stop() is never called, and finally no longer knows the transport
CancelGathering ==
    /\ loop = "gather" /\ Told
    /\ leaked' = IF tr[closer] = "open" THEN leaked \cup {closer} ELSE leaked
    /\ closer' = None
    /\ LoopEnds
    /\ UNCHANGED <<ctl, next, wanted, mode, stopEvent, closedEvent, transport, tr, latest, ready, uncaught>>

----------------------------------------------------------------------------
(* The socket, and everyone else who sends on it.                          *)

\* the reader loop ends
PeerCloses(n) ==
    /\ tr[n] = "open"
    /\ tr' = [tr EXCEPT ![n] = "shut"]
    /\ leaked' = leaked \ {n}
    /\ UNCHANGED <<tasks, closedEvent, transport, closer, latest, connected, ready, uncaught>>

\* its finally clause emits on_close
ReaderEnds(n) ==
    /\ tr[n] = "shut"
    /\ tr' = [tr EXCEPT ![n] = "free"]
    /\ closedEvent' = (closedEvent \/ CloseHits(n))
    /\ UNCHANGED <<tasks, transport, closer, latest, connected, ready, leaked, uncaught>>

\* _mark_transport_unhealthy: a send failed, on this transport or an earlier one
Unhealthy ==
    /\ loop # "off" /\ ~closedEvent
    /\ closedEvent' = TRUE
    /\ UNCHANGED <<tasks, transport, closer, tr, latest, connected, ready, leaked, uncaught>>

----------------------------------------------------------------------------
Connecting ==
    \/ Attempt \/ (\E n \in Slots : Dial(n)) \/ Dialled \/ DialFails
    \/ Handshaken \/ HandshakeFails
    \/ PublishReady("ready_maid", "maid", "ready_chat")
    \/ PublishReady("ready_chat", "chat", "watch")
TearingDown ==
    \/ Notice \/ Unwatch \/ Gathered \/ Closed
    \/ PublishUnready("unready_maid", "maid", "unready_chat")
    \/ PublishUnready("unready_chat", "chat", "sleep")
Cancelling == CancelIdle \/ CancelActive \/ CancelSwallowed \/ CancelClosing \/ CancelGathering
CallbackStep == Stopped \/ Publish

Next ==
    \/ Connecting \/ TearingDown \/ Cancelling \/ CallbackStep
    \/ \E enable \in BOOLEAN : Stop(enable)
    \/ \E n \in Slots : PeerCloses(n) \/ ReaderEnds(n)
    \/ Unhealthy

Spec == Init /\ [][Next]_vars

\* Awaits end: a dial and a handshake have their timeouts, a wait its timer, and
\* the host answers update_state.  Nothing is asked of the Java side or of the
\* host's callbacks.
FairSpec ==
    /\ Spec
    /\ WF_vars(Connecting \/ TearingDown \/ Cancelling)
    /\ WF_vars(CallbackStep)
    /\ \A n \in Slots : WF_vars(ReaderEnds(n))

----------------------------------------------------------------------------
(* Properties.                                                             *)

\* A socket is open only if somebody will close it: the plugin holds it, or a
\* teardown is at it.  The one exception is a teardown that a stop cut short
\* while it waited for the router's tasks.
OnlyCutShortTeardownsLeak == \A n \in Slots :
    tr[n] \in {"dialling", "open"} => n \in {transport, closer} \cup leaked

\* connected is never left over from an earlier connection: it is false while the
\* loop waits, dials or shakes hands, so that maid.api calls are refused.
ConnectedIsCurrent == loop \in Dialling \cup {"off"} => ~connected

\* Once a callback that disables the plugin is through, nothing of the runtime is
\* left: no loop, no transport, and, unless the host failed to be told, no gateway
\* published as ready.
StopQuiesces == ctl = "idle" /\ ~wanted =>
    loop = "off" /\ transport = None /\ closer = None /\ (uncaught \/ ready = {})

\* While the plugin is enabled the loop is alive: nothing that happens to a
\* connection ends it, nor does a host that fails to take its state, as long as
\* the publication that follows a failure succeeds.
RunsWhileEnabled == ctl = "idle" /\ wanted /\ ~uncaught => loop # "off"

\* The close of a transport that is no longer in use does not close its successor:
\* on_close of an old generation leaves the closed event of the new one alone.
OldCloseIgnored == [][\A n \in Slots :
    tr[n] = "shut" /\ tr'[n] = "free" /\ n \notin {transport, closer} /\ ~closedEvent
        => ~closedEvent']_vars

\* An enabled runtime goes on dialling until it is connected, for ever.
KeepsTrying == []<>(loop \in {"dial", "watch"} \/ ~wanted \/ ctl # "idle" \/ uncaught)

\* Every stop comes to its end: the loop never survives its cancellation, even
\* where a suppress() in its own clean-up swallows it.
StopsComplete == []<>(ctl = "idle")

\* The reconnect waits double: each is longer than the one before, up to the cap,
\* for as long as no connection has been ready, whichever step of connecting fails.
PausesGrow == [][
    loop = "sleep" /\ loop' = "resolve" =>
        \/ InitialDelay = 0
        \/ Delay(index) > paused
        \/ Delay(index) = MaxDelay]_vars

\* A connection whose socket is gone is not held for connected for ever.
DeadIsReplaced == []<>~(connected /\ transport # None /\ tr[transport] = "free")

\* config.py:35: a disabled plugin does not connect to Minecraft.
QuietWhenDisabled == ctl = "idle" /\ ~wanted =>
    \A n \in Slots : tr[n] \notin {"dialling", "open"}

----------------------------------------------------------------------------
(* The abstract specification.                                             *)

\* what the holder of _transport can do with it
View ==
    CASE closer # None -> "closing"
      [] closer = None /\ transport = None -> "none"
      [] closer = None /\ transport # None ->
            IF loop = "dial" THEN "dialling" ELSE IF tr[transport] = "open" THEN "open" ELSE "dead"

TheLink == INSTANCE Link WITH link <- View

\* Loop, callbacks, cancellations and sockets together make only the steps that the
\* requests are written against: one transport at a time, confirmed at most once by
\* its own handshake, and taken away before the next one is dialled.
KeepsLink == TheLink!Spec
=============================================================================
