# Verification of maibot-maid-adapter

A TLA+ development kept beside the adapter that lets MaiBot speak for a Touhou
Little Maid in Minecraft.  The plugin holds one WebSocket to the Java mod
MaidBridge; over it come maid turn requests and server chat messages, and over
it go terminal frames, chat lines and `maid.api.*` requests.  Everything runs on
one asyncio event loop, so the unit of interleaving is the stretch of code
between two `await`s, and every model here is built on that: **an action is what
one coroutine does from one await to the next.**

## 1. Inventory

| component | source | state | operations | talks to |
|---|---|---|---|---|
| Maid turn service | `src/src/maid_turn/turn_service.py` | turns by id and by session, leases, each turn's future, lock, `terminal_started`, staged actions, dispatch tasks | `handle`, `begin_request_session`, `handle_reply_session`, `handle_no_reply_session`, `add_outbound_action`, `cancel_pending` | router (frames), MaiBot (`route_message`), `_send_frame` |
| Planner hooks | `src/src/maid_turn/hooks.py` | none of its own, only what is live across its awaits | before_request, after_response, emoji after_select | turn service, LLM, emoji service |
| Maid gateway | `src/src/maid_turn/outbound_gateway.py` | none | outbound message to a terminal frame | turn service |
| Runtime state | `src/src/runtime/state.py` | `connected`, pending requests by id, endpoints | mark, add, register | API, router, connection |
| Requests and answers | `src/src/api.py`, `src/src/runtime/runtime_router.py` | the pending requests' futures, the router's task set | `_send_frame_await_reply`, `_complete_pending_response`, `stop` | state, transport |
| Connection loop | `src/src/connection.py` | loop task, generation, stop and closed events, references to transport, router, services | start, stop, connect, tear down, publish | everything |
| WebSocket transport | `src/src/transport/websocket.py` | socket, reader task, closed and emitted flags | `start`, `send`, `stop`, reader loop | router (`on_raw`), connection (`on_close`) |
| Plugin lifecycle | `src/plugin.py` | settings | `on_load`, `on_config_update`, `on_unload` | connection |
| Server chat | `src/src/server_chat/` | contexts by session | `handle`, `complete_session`, after_response hook, gateway | router, MaiBot, requests |
| Registry | `src/src/protocol/query_api.py`, `router.py`, `src/src/api.py`, `src/src/runtime/state.py` | catalogs by kind and scope, endpoints by id | session.ready, registry frames, `registry_*` calls, the emoji flag | router, hooks |
| Turn payload | `protocol/frame.py`, `protocol/router.py`, `maid_turn/turn_context.py`, `maid_turn/action_planner.py` | none | decode and route a turn request, parse its context, validate planned actions, build the terminal frame | router, turn service, hooks |
| Reply generator, emoji images, prompts, configuration | `maid_turn/reply_generator.py`, `maid_turn/external_emoji.py`, `src/config.py` and others | none | prompts, image conversion, declarations | - |

What is hard here:

* **many closers of one turn.**  The planner hook, the dispatch task whose
  `route_message` failed, the emoji hook and the outbound gateway may all close a
  turn, each with an await in the middle; `terminal_lock` and `terminal_started`
  have to make one of them the closer.
* **indexes by id, objects by identity.**  A retry reuses a turn id (or a chat
  message id) while the first object of that id is still being wound up, and
  clean-up code pops by id.
* **a round lasts minutes.**  A planner round is bound to the turns of its start
  by a lease; turns are closed, retried and added while the reply is composed.
* **cancellation.**  The host cancels a hook that is late, the connection cancels
  handlers, `wait_for` cancels futures, and a task that awaits a future takes the
  future with it.
* **two readers of one frame.**  The router, the turn context, the registry and the
  planner each look for ids, text and actions in a frame in their own way, with their
  own aliases and limits; where they disagree a request is lost or a catalog invisible.
* **the connection changes under everybody.**  Teardown drops references first and
  awaits afterwards; late callbacks of an old transport meet the new one; a stop
  can come into the teardown itself.

What makes it correct: one terminal frame per request; no turn, caller or socket
left behind by a failure, a teardown or a timeout; answers attributed to the
request they answer; flags (`connected`, ready, leases) that are true of the
present and not of the past.  The full list, line by line, is in `PROJECT.json`
under `hazards`, with the property that covers each.

## 2. Modules

| module | models | checked by |
|---|---|---|
| `TurnLedger` | what the adapter owes the game for each turn request | as a property of `turns_cancel` |
| `MaidTurnService` | the turn service and every coroutine that calls it, on one connection | `MCTurns` with the `turns_*.cfg` |
| `MaidTurnServiceProofs`, `TurnIndexProofs` | theorems of the above | tlapm |
| `Link` | the connection as everybody but its own loop sees it | as a property of `connection` |
| `Connection` | the runtime loop, its pauses and transports, and the lifecycle callbacks | `MCConnection` with `connection*.cfg` |
| `ConnectionProofs` | theorems of the above | tlapm |
| `PendingRequests` | requests that await an answer, over successive connections | `MCRequests` with `requests.cfg` |
| `PendingRequestsProofs` | theorems of the above | tlapm |
| `ServerChat` | chat contexts and the chat reply hook, on one connection | `MCChat` with `chat.cfg` |
| `ServerChatProofs` | theorems of the above | tlapm |
| `Registry` | endpoints, catalogs and what a registry call reads, over all connections | `MCFrames` (with `MCRegistry`) and `registry.cfg` |
| `RegistryProofs` | theorems of the above | tlapm |
| `ActionPlan` | operators: the offered actions as shown, and the validation of proposed ones | through `TurnPayload` |
| `TurnPayload` | one turn request from its decoding to its terminal frame | `MCFrames` with `registry.cfg` |
| `TurnPayloadProofs` | theorems of the above | tlapm |
| `Induction` | lemmas about numbers, used by four of the proof modules | tlapm |

How they fit together:

* `PendingRequests` does not have a connection of its own invention: its steps on `link`
  and `connected` are those of `Link`, and `Connection` is shown to make no others.  The
  two theorems `LoopKeepsLink` and `RequestsKeepLink` are the two halves of that
  composition: what the requests assume of the loop is what the loop, its callbacks, its
  cancellations and its sockets do.
* `MaidTurnService` implements `TurnLedger`, which knows nothing of hooks, locks, indexes
  or connections.
* The models of the handlers meet at the teardown; `Registry` is what outlives it.
  `_teardown_runtime` is `Teardown` in
  `MaidTurnService` and `ServerChat` (as a service sees it: its handlers are cancelled, and
  frames may still come until `TransportStops`), `TakeAway` and `Disconnected` in
  `PendingRequests` (as a caller sees it), and `BeginTeardown` to `Closed` in `Connection`
  (as the loop sees it).  A failed send is `SendFails` for the turn or the caller and
  `Unhealthy` for the connection.  After `TransportStops`, `Redial` in `MaidTurnService`
  is the next connection, on which completions of the old turns may still send.
* `TurnPayload` is `MaidTurnService` turned inside out: one turn with all its content
  instead of many without any.  Its `Receive`, `TurnAway`, `Await`, `Reply` and `NoReply`
  are `Arrives`, `Refuse`, `Register` and the two outcomes there.

### TurnLedger

A line for each request: `new`, then `declined` or `open`, then `answered` or `failed`,
for good; and the terminal frames the game was told of it, at most one, and never an
`answered` without one.  `RequestState` maps the states of `handle()` and of the future to
it, `wire` is `told`.  A request that failed with its connection may still be told of: a
completion that was under way sends on whatever connection there is by then.

### MaidTurnService

A received request frame stands for the `_PendingTurn` made for it: `future`,
`started` and `staged` are its fields, `byTurn` is `_pending_by_turn_id`, `listed`
with `order` is `_pending_by_session_id`, `lease` is `_lease_by_session_id`.
Tasks are named after what they work for: a frame's dispatch task, a session's
planner round, and `Calls` for the emoji hook and the gateway.  `pc` is the await a
task is suspended at and `batch` what it still has to close.

* `RefuseForeign`, `IgnoreDuplicate`, `RefuseFull`, `Register`, `HandleReturns`:
  `handle()`.  `RouteEnds`, `RouteFails`: `_dispatch_to_maibot`.
* `BeforeRequest` takes the lease; `TimingGateReleases` to `ComposeDone` are the
  branches of the after_response hook; `RoundFails` is its deadline or an exception;
  `CancelCall` is the host's own time-out.
* `Enter`, `Locked`, `Acquire`, `SendOk`, `SendFails`, `Join`: the batch loop and the
  section under `terminal_lock`.
* `Unregister` pops by turn id and `IsLive` compares identity, as the code does: that
  difference is what the retry runs are about.

### PendingRequests

`pending` is `pending_requests`, `future`/`result` the future of each caller, `pc` the
await of its coroutine, `link` and `connected` the connection as requests see it.  A
caller of kind `initialize` is the handshake: one identity serves all connections,
one at a time, because its frame id, `server_id@url`, is the same every time; an answer
to an earlier handshake that comes late is taken for the current one's.  `Expire` and `TimeOut` are two steps because `wait_for` is: between them an
answer may come.

A frame that `route_frame` refuses is matched against the requests all the same
(`_complete_pending_response` is called with the refusal), which is the type `refused`.

### Link

What `self._transport` is good for (`none`, `dialling`, `open`, `dead`, `closing`) and the
connected flag.  `Confirm` is possible on a dead link as well: the answer to the handshake
may have been the last frame that was read.

### Connection

`loop` is the await at which `_runtime_loop` is suspended, `cancelled` a `task.cancel()`
that has not been delivered.  The five `Cancel*` actions are the places where
`CancelledError` can arrive, and they differ: some awaits swallow it (`suppress`), some
skip the rest of a clean-up.  `transport` is `self._transport`, `closer` the transport a
teardown holds in a local variable.  A transport is a slot that is used again once
nothing refers to it, so the loop dials for ever in a finite model.  `index` is
`reconnect_index` and `Delay` the wait it leads to; it is counted up to `MaxIndex`, where
the delay has reached its cap.  `View` is the refinement mapping to `Link`.

### Registry

`endpoints` and `catalogs` are the two dicts, as sequences in insertion order, since the
emoji flag and the ties of `max` depend on that order.  `SessionReady` and
`RegistryCatalog` are the two frames that write them; a session.ready also completes the
handshake (`Answer` in `PendingRequests`), before it registers the endpoint and with no
await in between.  Reading has no state: `Resolve` is `_resolve_registry_scope` and
`Read` the record that every `registry_*` call looks into.

### ServerChat

`contexts` is `_contexts_by_session_id`; its lists only ever grow at the end, so that
they are sets here, with the `order` in which the frames came.  `hook` is the await of the reply hook of a session.
`context` is the context the hook picked when it began: what it completes at the end is
whatever is first *then*.

### ActionPlan and TurnPayload

A field holds a word, and `Folded`, `Upper` and `Numbers` say what becomes of a word in
lower case, in upper case or read as an integer: enough to tell the planner's aliases and
kinds of parameter apart.  An offered item has an id, a name, the enum of the parameter
its type reads, and choices; `Shown`, `EnumShown` and `ChoiceIds` are what
`_capability_summary` leaves of them, with its three limits.  A schema that is too long to be
shown whole (`large`) has its enums put into words by `str()` (`AsText`): there a `Null`
becomes the word "None", which the planner then takes for a value, while in a short schema
it drops out.  A proposal has what it says of its type and its parameters, nested or
beside.  `Plan` is `_validated_actions`.

So a work task "None" that nobody declared can be planned (turn_context.py:250).  No document
speaks of nulls in an enum, so this is no finding; `PlanIsOffered` names it as its one
exception.  A schedule has no such case, as it is put into upper case first.
`ShownIsPlannable` is the other direction: the value shown for the item, in its enum or,
for a work task, among its choices, comes through, a task id in whatever case; a
schedule comes through if it is shown in upper case.

`TurnPayload` receives one frame of any shape (`Requests`): `Decodes`, `Routes` and
`Parses` are the three readers it has to get past, and `Decoded` and `Encoded` the
defaults that `from_dict` fills in and `to_dict` leaves out.  Whatever it ends in is a
state of its own: dropped, refused, lost, answered, or `stuck`, which is a terminal frame
that fails its own validation after `terminal_started` was set.

## 3. Runs

Sizes are distinct states; each takes between five seconds and two minutes.

| run | states | question |
|---|---|---|
| `turns_cancel` | 276 k | a request, its retry, a frame for another maid, an outside call; any call may be cancelled at any await, any send may fail, the connection may go and come back; the refinement of `TurnLedger` |
| `turns_queue` | 585 k | three distinct turns and a queue of two, nobody cancels |
| `turns_live` | 68 k | two turns, a round and an outside call, under fairness |
| `requests` | 528 k | a handshake over any number of connections, an API request, two chat requests under one id; answers that are late, repeated, of the wrong kind or refused |
| `connection` | 88 k | start, stop, reconnect with growing pauses, for ever; safety, liveness and the refinement of `Link` |
| `chat` | 392 k | three chat messages, one redelivered, rounds that fail or are cancelled |
| `registry` | 859 k | sessions and catalogs of peers whose ids collide, within two milliseconds; or one turn request, with what the model proposes for it |
| `turns_lease`, `turns_reindex`, `turns_orphan`, `connection_quiet`, `connection_py310` | - | one statement of a comment or document each, which the code does not keep |

Why the bounds suffice for the questions: the turn and chat protocols are about pairs
(a closer and another closer, a request and its retry, an older and a newer turn) with
a third party to disturb them, and each run has the pair and a disturber.
`MaxPending` is 1 where a full queue must meet a retry and 2 where a batch must form;
`MaxEmoji = 1` bounds staged actions (one is enough to be lost).  A frame arrives once;
a retry is another frame with the same id.  `Slots` has three transports: one in use,
one whose late `on_close` is still due, one left behind by a teardown that was cut
short; a stop that would cut a second one short waits until a slot is spare (the guard
of `Stop`).  In `ServerChat` the host cancels at most one hook per message (the guard of
`HookCancelled`).  `turns_queue`'s properties speak of distinct turn ids, as
`IndexesAgree` is false with retries: that is the finding of `turns_reindex`.  `registry`
has four identities, of which two share a server, two an endpoint id and one leaves out
what another declares, and four frames: two sessions and two catalogs are what it takes
to be overruled by another endpoint.  Its two milliseconds put frames into the same one
and into different ones.

`registry` is a run of two modules that share no variable: `Registry` moves while
`TurnPayload` is as it began and the other way round, so that its states are those of the
one and those of the other, and not their product.  The limits on what is shown of the
offered actions are 2 instead of 8, 80 and 80: with lists of up to three items, values and
choices something falls outside each of them.  The envelopes are all combinations of
absent, odd and given ids, endpoints and directions with all places a text can be in; the
proposals name every type of action, by its name and by its aliases, with parameters that
fit and that do not.  Some work tasks have a null in their enum, in a long schema and in a
short one, and a proposal asks for the task "None"; task ids are words in lower case, which
`Upper` maps elsewhere, and some are among the choices alone.

The pauses of `connection` are 1, 2, 4 and 5 units: twice a doubling, then the cap, and
`MaxIndex = 4` is where it is met.  In `requests` the handshake and one of the two chat
requests may be cancelled; the other chat request is what shares an id with a cancelled
one.

Deadlock is not checked: every model may come to rest (all frames handled, the
connection down), and `Connection` is at rest while disabled.

### Findings

1. `turns_lease`: the comment on leases (turn_service.py:64) promises that a round is
   bound to a snapshot of turns.  In the trace a round begins with one turn and a second one
   arrives; the emoji hook closes the first while the reply is composed, so that
   `_request_batch_for_session` falls back to all live turns, and the second, of which the
   planner was never told, gets the reply made for the first.  The connection stands all
   the time; `RoundRepliesToItsSnapshot` says nothing of another, where no frame is sent.
2. `turns_reindex`: `_unregister_pending` pops a turn id without looking at whose it
   is.  A completer settles a request, its retry registers before the event loop resumes
   the `handle()` of the first, and that one drops the retry from the index; no hook can
   find it (turn_service.py:388 says hooks must).  Here too the connection stands:
   `HookReachesRoutedTurn` leaves out a service the plugin has dropped.
3. `turns_orphan`: `except Exception` around the send of a terminal frame does not see
   `CancelledError`.  The turn stays begun and unsettled, invisible to the release in
   the hook's own except clause.
4. `connection_quiet`: a stop that lands while a teardown awaits `router.stop()` skips
   `transport.stop()`, and the reference is gone: the socket of a disabled plugin stays
   open until the peer closes it.
5. `connection_py310`: `except TimeoutError` misses `asyncio.TimeoutError` on the Python
   3.10 the project allows, and the first reconnect wait ends the loop.

### Fairness

* The event loop resumes a coroutine whose await is over: weak fairness of each resuming
  action.  A send returns or raises, `route_message` returns, emoji and composition end or
  reach the hook's deadline, and timers fire.
* `MaidTurnService` also assumes of MaiBot that a session with open turns is put to the
  planner again and that the planner's answers come back (`MaiBotFairness`, strong fairness
  since a round may be pre-empted by the next one).  Nothing in the adapter ensures this:
  `handle()` has no time-out of its own, so `EveryTurnSettles` says precisely that the
  adapter leaves no turn unsettled *if MaiBot keeps asking*.
* `Connection` assumes that a dial, a handshake and `update_state` end, in whichever way;
  nothing of the Java side.  `PendingRequests` assumes nothing of the peer at all: the
  deadline does the work.

### Assumptions about the host

Lifecycle callbacks are called one after another.  A session has one planner round under
way at a time.  The wall clock does not go back (`Tick` in `Registry`).  Python is 3.11 or
later unless a run says otherwise (`BuiltinTimeout`).

## 4. Proofs

TLC answers for the instances above; the theorems hold for every number of frames, turn
ids, sessions, callers, transports and every limit, under the `ASSUME` of each module
(disjoint sets of names, functions of the right type, `MaxPending > 0`), which TLC
evaluates in each run.  Every invariant that a passing run checks is stated by a theorem,
and so are its action properties and both refinements; what remains is liveness.

`Induction`: the library's induction theorems take an operator as a parameter, which no
backend instantiates.  Here the numbers a statement holds for are put into a set, and
`SetInduction` says that a set with 0 and with every successor has all numbers.  From it
come the greatest of finitely many numbers (`GreatestExists`) and the existence of a
function given by recursion up to a bound (`BoundedRecursion`).  That is why the model
filters a list (`Filtered`) and doubles a pause (`Doubled`) by recursive functions, and why
`Registry` picks the newest catalogs as a set of places: tlapm has no facts about
`SelectSeq`, `SortSeq` or `^`.

`MaidTurnServiceProofs`:

* `TypeCorrect`.  The actions share helpers (`Locked`, `Enter`, `Finish`, `Proceed`,
  `Interrupt`, `Unregister`), so there is a lemma per helper, and `StepKinds` groups the
  actions by which of them they use.
* `TerminalInvariant`: `TerminalInv` is inductive.  `AtMostOneTerminal` is not so by
  itself: `StartTerminal` sends a frame for a turn that has not begun, so one must know
  that a turn with a frame has begun or was refused (`WireInv`), and that a refused turn
  is never completed; that needs every batch to hold registered turns only (`TaskInv`),
  and these to have been in the index (`IndexInv`).  `OneCompleter` says what
  `terminal_lock` and `started` give together: whoever is between the lock and the end
  of its send is alone there.  `OneTerminalPerRequest` and `TerminalSectionsExclude` are
  read off.
* `LeasesAreLive`: every step that takes a frame out of `listed` goes through
  `Unregister`, which drops the leases left without one.
* `TeardownReleases`: a frame that came before the teardown has its future settled by
  it, a settled future stays settled, and `handle()` does not begin again.
* `ServiceKeepsLedger`, the refinement.  A step of a handler changes the line of one
  request (`HandleMoves`); a step of a completer hands over the frame of one turn and
  settles another (`Enter`, `Proceed`, `Join`), so there is a lemma for what each helper
  does to all lines at once, and `LedgerInv` adds to `TerminalInv` that an answered future
  has its frame on the wire and that a new frame has neither future nor frame.
* `FilteredKeeps`: the comprehension that makes a batch keeps what is asked for, in order.
  It is proved by induction over the places of the list, and most of what is said of a
  batch goes through it (`BatchesAreLive`).

`TurnIndexProofs`:

* `NoEmojiIsLost` is inductive by itself: whoever begins a completion takes what was staged.
* `LostTurnsStayClosed`: a batch is taken from live turns, and after a teardown the only
  live ones are the late frames.
* `QueueInvariant`, under distinct turn ids (without which it is false, by the finding of
  `turns_reindex`): what waits with an open future is in the index, the index and the
  session lists name the same frames, and a dispatch task that is at its own turn closes
  no other.  `IndexesNameTheSame` and `QueueIsBounded` follow, the latter by counting: the
  waiting frames are among the indexed ones, and those are as many as `handle()` let in.
* `ReplyIsTheLast`, for distinct turn ids: whoever sends a reply has, among the turns before
  it in its batch, every older live turn of the session.  The batch of a round comes from a
  lease that may be minutes old, so the invariant is about leases as well (`LeaseInv`): with
  a leased turn every older live turn of the session is leased.  That survives since
  a turn that is not live does not become so (`NobodyRevives`), and a new one is the newest.
  `BatchInv` says the same of what a completer still has to close, `OrderInv` that only
  registered turns have a place in the order.
* three comments of the source that the code does not keep in general, each under the
  condition that makes it true.  `RoutedIsReachable`: for distinct turn ids, a turn whose
  message is routed is found by its id until somebody closes it, even after a teardown
  (`RoutedIsLive`); a retry under the same id is all it takes to break that (`turns_reindex`).
  `OnlyTimeoutsOrphan`: if the host
  cancels no call, whatever else fails or goes away, a turn that is begun and unsettled has
  a completer at its send; so the host's own time-out is the only cause of `turns_orphan`.
  `SnapshotIsKept`: for distinct turn ids, if nothing but the rounds closes turns (no emoji
  hook, no gateway call, no dispatch that fails), a round replies only to turns it was told
  of while the connection stands, even where the host cancels rounds at any await.  Its
  invariant `OwnSnapshot` says that a session leases and closes turns of its own only
  and that the turns a round was told of stay live, leased and the only ones leased
  until the round closes them; a step of one session leaves those of the others alone
  (`Acts`, `OthersLive`).  So the other completers are what empties the lease in `turns_lease`.

`PendingRequestsProofs`:

* `RequestsInvariant`: `TableInv` relates the table to the callers (an entry has a caller
  that holds a future; a future that has its result is unlisted; without a link nothing
  is listed; a waiter whose id nobody shares is listed), `HandshakeInv` says that at most
  one handshake is under way, on a connection not yet confirmed.  The second is what
  makes `ConnectedByHandshake` inductive: the answer that raises `connected` belongs to
  the only handshake there is.
* `RequestsKeepLink`: its steps on the connection are steps of `Link`.
* `EntriesHaveCallers`, `WaitersAreListed`, `DisconnectReleases` and
  `ConnectedMeansShaken` follow; `ApiAnswersFit` has an induction of its own over the type
  of the frame a future holds, and `OutcomesAreFinal` is an action property: what is in
  the table has no outcome yet, and only what is in the table is given one.

`ConnectionProofs`:

* `LoopInvariant`: `OnlyCutShortTeardownsLeak`, `ConnectedIsCurrent` and `StopQuiesces`
  with what they need of each other: a transport is dialled only at the loop's own await
  (`DialInv`); a teardown lowers `connected` before it publishes (`UnreadyInv`); a stop
  whose cancellation has been delivered finds the loop on its way out, though two awaits
  swallow it (`StoppingInv`); the latest generation is that of the transport in use or of
  one that is closed (`LatestInv`).
* `NoOtherLeak`, `ConnectedIsFresh` and `StopsQuiesce` follow.  `OldClosesAreIgnored` is the
  action property that follows from `LatestInv`.
* `EnabledRuns` assumes `BuiltinTimeout`; without it the statement is false, which is the
  finding of `connection_py310`.  Its invariant adds that an enabled runtime has its stop
  event clear and is in no final teardown (`EnabledInv`).
* `WaitsGrow`, the action property of the pauses.  The step goes from one pause to the next
  through a dial that may fail at any of its awaits, so the invariant keeps the pause last
  waited with the failures counted (`PauseInv`), and `Delay` grows strictly up to the cap
  (`DelaysGrow`, by induction over the failures).  It assumes `BoundMeetsCap`: the model
  counts failures far enough to reach the cap, as the code counts them without bound.
* `QuietWithoutTasks`: if the router has no task to wait for when it is stopped, a disabled
  plugin has no socket open.  The await of `router.stop()` is the only cause of what
  `connection_quiet` finds.
* `LoopKeepsLink`, the refinement of `Link`: no step of the loop, a callback, a cancellation
  or a socket changes `View` in any other way.  It needs `LoopInvariant` for the steps that
  must not be seen, such as a teardown that finds no transport, or a late `on_close`.

`ServerChatProofs`: `ChatInvariant` is an induction over four facts that need each other:
frames are numbered as they arrive; nothing a room lists is older than what its hooks
have taken up; what a hook is at stays listed unless it is refused; and an answered
message is not listed any more unless its hook was cut short.  From them a hook that ends
drops its own message, although `complete_session` drops whatever is first.
`AnswersKeepOrder`, `OneAnswerEach` and `NoneIsDropped` are read off.

`RegistryProofs`: `TypeCorrect` says that no frame makes a second entry for an endpoint id
or for a scope; `LastWordStands` that with one endpoint the flags in force are the last it
sent.  The three on reading go through `Resolve` case by case, with ties:

* `ReadsOnlyRegistered` needs only the types: the scope is that of a registered endpoint
  whether or not one of them has a catalog.
* `ReadsNewest`: the catalog read is greatest by time, revision and registry, while
  the property is about arrival.  `TimeInv` is what joins them: catalogs are stamped with a
  clock that does not go back, so that one which arrived earlier is not later.
* `GreeterRead` relates two frames that may be far apart.  `PeersInv` keeps that the last
  greeter is among the endpoints, and that whoever has sent a catalog has one under the
  scope its session would register: the two computations of a scope agree.

`TurnPayloadProofs`: `PayloadInvariant` relates the stage of a request to its envelope, plan
and answer.  `AnswersFit` follows for every envelope, since decoding fills in what encoding
leaves out (it speaks of endpoints, request id and turn id: scope, trace and session are
not modelled); `OnlyChatTextIsLost` from the places the two readers look in; `PlansAreOffered`
from lemmas on each operator of `ActionPlan`, of which `ReadOrNull` says that what the planner
reads of an enum was declared, or is the "None" a null became.  `ShownCanBePlanned` is the other direction,
from what the prompt shows to what `Plan` accepts: the first word that names the type is
taken (`NamedIsType`, by `FirstWordIs` on what `first_non_blank` returns), a value that is
shown survives its normalisation (`GivenIsTaken`), and the one item shown of a type is the
one the proposal is checked against (`OneIsOffered`).  That needs no bound on the lists, as the
planner checks against what it has shown.

Some theorems state invariants that no run lists any more, because another property of
the run contains them: `OneCompleter`, `WaiterIsListed`, `ApiAnswerFits` and
`ConnectedIsCurrent`.

What stays with TLC:

* liveness (`EveryTurnSettles`, `CompletersReturn`, `EveryCallerReturns`, `KeepsTrying`,
  `StopsComplete`, `DeadIsReplaced`), since the proof system has no rule for `ENABLED`;
* what the code does not keep: the five runs that expect a violation.  Each of these
  statements is proved under the condition that is missing: no other completer and a
  standing connection, distinct turn ids, no time-outs by the host, a router with nothing
  in flight, Python 3.11.

## 5. Not modelled

* Prompts, wording and logging; which tool call leads to which branch of a hook is a
  choice, as is what the model answers.
* The reply generator and the emoji images: no state, and nothing else depends on what
  they make.  That they may fail is in the hooks.
* `known_session_ids`: it decides only what a hook returns to MaiBot.
* Of the frames, the builders of events, requests and chat lines and the validation of
  server chat payloads; of the registry, the items of a catalog (removal of sensitive
  keys, text search), which only copy and filter.
* What a send that fails late on an earlier transport should do to the current one
  (connection.py:267), and what should happen when the host fails twice to take a state
  (connection.py:114): the model has both steps, no document says what is right.
* Whether an answer that is left over from an earlier handshake may confirm the next:
  the frames do not tell them apart, and the model lets it.

An observation that is no finding: rule 1 of `prompts/zh-CN/action_planner.prompt` tells
the model to name an action by its id or name, while the code keys the offered ones by the
first of the two that is there (action_planner.py:93).  An item with both that is proposed
by its name is rejected, which is on the safe side.

## 6. Plan

*Done:* the models, their runs, both refinements, the composition of requests and
connection, and the theorems of section 4.  What would come next:

1. The turn service over several connections with turns of its own on each (now `Redial`
   lets completions of the old turns go on, and no new turn come).
2. The builders of the remaining frames, with a parser for each, as `TurnPayload` has for
   the terminal frame.
3. Progress without fairness: ranking arguments for the batch loops and for a disconnect,
   of which the steps are action properties and within reach of the proofs.
