-------------------------- MODULE MaidTurnService --------------------------
(***************************************************************************)
(* The book-keeping of maid turns on ONE connection: MaidTurnService       *)
(* (src/src/maid_turn/turn_service.py) together with every coroutine that  *)
(* calls into it:                                                          *)
(*   - one handle() per maid.agent.turn.request frame, awaiting its future;*)
(*   - one dispatch task per registered turn, awaiting route_message;      *)
(*   - the planner hooks of MaiBot's round for a session (hooks.py);       *)
(*   - the emoji hook and the outbound gateway, which complete turns from  *)
(*     outside that round (hooks.py, outbound_gateway.py).                 *)
(* They run on one event loop, so a step is what happens between two       *)
(* awaits, and every await is a place where any other step may come in.    *)
(* A received frame f stands for the _PendingTurn object made for it; two  *)
(* frames with the same TurnOf are a request and its retry.                *)
(***************************************************************************)
EXTENDS Naturals, Sequences, FiniteSets

CONSTANTS
    Frames,       \* received maid.agent.turn.request frames
    Turns,        \* turn ids
    Sessions,     \* Maisaka session ids
    Calls,        \* concurrent emoji-hook and outbound-gateway invocations
    None,         \* dict.get() of an absent key
    TurnOf,       \* the turn id a frame carries
    SessionOf,    \* the session a frame belongs to
    Foreign,      \* frames whose maid.uuid is not the configured one
    Unroutable,   \* frames that route_message may refuse, or raise on
    MaxPending,   \* _max_pending_turns(): max(1, max_pending_maid_agent_turns)
    MaxEmoji,     \* bound: emoji actions staged on one turn
    HookTimeouts  \* does the host cancel hook and gateway calls that run late?

Tasks == Frames \cup Sessions \cup Calls

ASSUME ConstantsAssumption ==
    /\ Frames \cap Sessions = {} /\ Frames \cap Calls = {} /\ Sessions \cap Calls = {}
    /\ None \notin Frames
    /\ IsFiniteSet(Turns)
    /\ TurnOf \in [Frames -> Turns]
    /\ SessionOf \in [Frames -> Sessions]
    /\ Foreign \subseteq Frames /\ Unroutable \subseteq Frames
    /\ MaxPending \in Nat \ {0}
    /\ MaxEmoji \in Nat
    /\ HookTimeouts \in BOOLEAN

VARIABLES
    byTurn,     \* _pending_by_turn_id
    listed,     \* the pendings in the lists of _pending_by_session_id ...
    order,      \* ... and the order in which they were appended to them
    lease,      \* _lease_by_session_id
    handle,     \* where the handle() of a frame is
    future,     \* _PendingTurn.future
    started,    \* _PendingTurn.terminal_started
    staged,     \* number of _PendingTurn.outbound_actions
    pc,         \* the await each task is suspended at
    batch,      \* the turns a completion still has to close, current one first
    answer,     \* outcome a completion has for the last turn of its batch
    releasing,  \* sessions whose after_response hook is in _release_after_hook_error
    link,       \* what _send_frame finds: the transport this service was made for,
                \* none, or the transport of a later connection
    wire,       \* history: terminal frames of a turn handed to the transport
    asked,      \* history: the turns MaiBot's current round was told of
    late        \* history: frames registered while the connection was torn down

vars == <<byTurn, listed, order, lease, handle, future, started, staged, pc,
          batch, answer, releasing, link, wire, asked, late>>

Outcomes == {"reply", "no_reply"}
Phases   == {"none", "timing_gate", "planner"}
Leases   == [phase : Phases, turns : Seq(Turns)]
NoLease  == [phase |-> "none", turns |-> <<>>]

TypeOK ==
    /\ byTurn \in [Turns -> Frames \cup {None}]
    /\ listed \subseteq Frames
    /\ order \in Seq(Frames)
    /\ lease \in [Sessions -> Leases]
    /\ handle \in [Frames -> {"new", "ignored", "refusing", "refused", "waiting", "returned"}]
    /\ future \in [Frames -> {"open", "answered", "failed", "cancelled"}]
    /\ started \in [Frames -> BOOLEAN]
    /\ staged \in [Frames -> Nat]
    /\ pc \in [Tasks -> {"idle", "route", "asked", "emoji", "compose", "lock", "send", "join"}]
    /\ batch \in [Tasks -> Seq(Frames)]
    /\ \A c \in Tasks : pc[c] \in {"lock", "send", "join"} => batch[c] # <<>>
    /\ answer \in [Tasks -> Outcomes]
    /\ releasing \subseteq Sessions
    /\ link \in {"up", "draining", "down", "next"}
    /\ wire \in [Frames -> Seq(Outcomes)]
    /\ asked \in [Sessions -> SUBSET Frames]
    /\ late \subseteq Frames

Init ==
    /\ byTurn = [t \in Turns |-> None]
    /\ listed = {}
    /\ order = <<>>
    /\ lease = [s \in Sessions |-> NoLease]
    /\ handle = [f \in Frames |-> "new"]
    /\ future = [f \in Frames |-> "open"]
    /\ started = [f \in Frames |-> FALSE]
    /\ staged = [f \in Frames |-> 0]
    /\ pc = [c \in Tasks |-> "idle"]
    /\ batch = [c \in Tasks |-> <<>>]
    /\ answer = [c \in Tasks |-> "no_reply"]
    /\ releasing = {}
    /\ link = "up"
    /\ wire = [f \in Frames |-> <<>>]
    /\ asked = [s \in Sessions |-> {}]
    /\ late = {}

----------------------------------------------------------------------------
(* Looking turns up.                                                       *)

\* mutant: a turn whose terminal frame is on its way still counts as live
IsLiveWhileSending(f) == future[f] = "open" /\ byTurn[TurnOf[f]] = f

\* mutant: a turn counts as live until somebody begins to close it
IsLiveUntilBegun(f) == ~started[f]

\* _is_live_pending
IsLive(f) ==
    /\ ~started[f]
    /\ future[f] = "open"
    /\ byTurn[TurnOf[f]] = f

\* [x for x in q if x in S]
Filtered(q, S) ==
    LET kept[i \in 0 .. Len(q)] ==
            IF i = 0 THEN <<>>
            ELSE IF q[i] \in S THEN Append(kept[i - 1], q[i]) ELSE kept[i - 1]
    IN  kept[Len(q)]

\* the live turns of a session
LivePendings(s) == {f \in listed : SessionOf[f] = s /\ IsLive(f)}

\* _pending_batch_for_key, keyed by a session: in the order of its list
PendingBatch(s) == Filtered(order, LivePendings(s))

\* _request_batch_for_session: the leased turns that are still live, looked up
\* again by turn id; with no lease, or none of them live, all live turns.
RequestBatch(s) ==
    LET turns  == lease[s].turns
        found  == [i \in DOMAIN turns |-> byTurn[turns[i]]]
        leased == Filtered(found, {f \in Frames : IsLive(f)})
    IN  IF leased # <<>> THEN leased ELSE PendingBatch(s)

\* has_pending_session
HasPending(s) == PendingBatch(s) # <<>>

\* mutants: the snapshot keeps the pendings, or only the turn to reply to
SnapshotOfPendings(b) == b
SnapshotOfTarget(b) == <<TurnOf[b[Len(b)]]>>

\* begin_request_session's snapshot of a batch
TurnIds(b) == [i \in DOMAIN b |-> TurnOf[b[i]]]

\* _drop_stale_leases, after byTurn has become index
WithoutStale(index) ==
    [s \in Sessions |->
        IF \A i \in DOMAIN lease[s].turns : index[lease[s].turns[i]] = None
        THEN NoLease ELSE lease[s]]

\* mutants: _unregister_pending without one of its steps
UnregisterKeepsListed(f) ==
    /\ byTurn' = [byTurn EXCEPT ![TurnOf[f]] = None]
    /\ listed' = listed
    /\ lease' = WithoutStale(byTurn')
UnregisterKeepsLease(f) ==
    /\ byTurn' = [byTurn EXCEPT ![TurnOf[f]] = None]
    /\ listed' = listed \ {f}
    /\ lease' = lease

\* _unregister_pending: the turn id is popped whichever pending it names.
Unregister(f) ==
    /\ byTurn' = [byTurn EXCEPT ![TurnOf[f]] = None]
    /\ listed' = listed \ {f}
    /\ lease' = WithoutStale(byTurn')

\* mutant: "if not future.done()" is missing
SettleAgain(f, result) == future' = [future EXCEPT ![f] = result]

\* mutant: a failed completion returns without settling the future
SettleOnlySuccess(f, result) ==
    future' = [future EXCEPT ![f] = IF @ = "open" /\ result = "answered" THEN result ELSE @]

\* "if not future.done(): future.set_result(...)"
Settle(f, result) ==
    future' = [future EXCEPT ![f] = IF @ = "open" THEN result ELSE @]

----------------------------------------------------------------------------
(* Completing a batch.  A task c with batch b is inside _complete_reply or *)
(* _complete_no_reply for Head(b): at "lock" it waits for terminal_lock,   *)
(* at "send" it holds the lock and awaits _send_frame, at "join" it holds  *)
(* the lock and awaits the future of a turn somebody else has started.     *)

Holding == {"send", "join"}

\* terminal_lock of f is held, or others queue for it already
Contended(c, f) ==
    \E d \in Tasks \ {c} : /\ pc[d] \in Holding \cup {"lock"}
                           /\ batch[d] # <<>> /\ Head(batch[d]) = f

\* _complete_*_batch: every turn but the last is merged away with a no_reply.
OutcomeFor(b, a) == IF Len(b) = 1 THEN a ELSE "no_reply"

\* _send_frame: it raises at once while the plugin has no transport, and takes the
\* one the plugin has, which need not be the one this service was made for.
HandOver(f, outcome) ==
    wire' = [wire EXCEPT ![f] = IF link \in {"up", "next"} THEN Append(@, outcome) ELSE @]

\* Inside terminal_lock: mark the turn, consume its staged actions, send.
StartTerminal(c, f, outcome) ==
    /\ started' = [started EXCEPT ![f] = TRUE]
    /\ staged' = [staged EXCEPT ![f] = 0]
    /\ HandOver(f, outcome)
    /\ pc' = [pc EXCEPT ![c] = "send"]

\* mutant: "if pending.terminal_started" is missing
LockedUnchecked(c, f, outcome) == StartTerminal(c, f, outcome)

\* The body of "async with pending.terminal_lock" up to its first await.
Locked(c, f, outcome) ==
    \/ /\ ~started[f]
       /\ StartTerminal(c, f, outcome)
    \/ /\ started[f]
       /\ pc' = [pc EXCEPT ![c] = "join"]
       /\ UNCHANGED <<started, staged, wire>>

\* Task c turns to the first turn of batch b, up to its first await.
Enter(c, b, a) ==
    /\ batch' = [batch EXCEPT ![c] = b]
    /\ answer' = [answer EXCEPT ![c] = a]
    /\ \/ /\ Contended(c, Head(b))
          /\ pc' = [pc EXCEPT ![c] = "lock"]
          /\ UNCHANGED <<started, staged, wire>>
       \/ /\ ~Contended(c, Head(b))
          /\ Locked(c, Head(b), OutcomeFor(b, a))

\* Task c is over.
Finish(c) ==
    /\ pc' = [pc EXCEPT ![c] = "idle"]
    /\ batch' = [batch EXCEPT ![c] = <<>>]
    /\ answer' = [answer EXCEPT ![c] = "no_reply"]
    /\ releasing' = releasing \ {c}
    /\ UNCHANGED <<started, staged, wire>>

\* Task c goes on to the rest of its batch.
Proceed(c) ==
    \/ /\ Tail(batch[c]) = <<>>
       /\ Finish(c)
    \/ /\ Tail(batch[c]) # <<>>
       /\ Enter(c, Tail(batch[c]), answer[c])
       /\ UNCHANGED releasing

\* CancelledError in task c.  The after_response hook catches it once and
\* releases the round's turns with a no_reply; nobody else catches it.
Interrupt(c) ==
    \/ /\ c \in Sessions \ releasing
       /\ RequestBatch(c) # <<>>
       /\ Enter(c, RequestBatch(c), "no_reply")
       /\ releasing' = releasing \cup {c}
    \/ /\ c \in Sessions \ releasing => RequestBatch(c) = <<>>
       /\ Finish(c)

turnVars  == <<started, staged, wire>>
indexVars == <<byTurn, listed, lease>>
taskVars  == <<pc, batch, answer, releasing>>
roundVars == <<order, handle, link, asked, late>>

----------------------------------------------------------------------------
(* handle() of a frame, and the dispatch task it starts.                   *)

Arrives(f) ==
    /\ handle[f] = "new"
    /\ link \in {"up", "draining"}

\* mutant: turns being closed do not count against the limit
InUseLive == {t \in Turns : byTurn[t] # None /\ IsLive(byTurn[t])}

InUse == {t \in Turns : byTurn[t] # None}

Refuse(f) ==
    /\ handle' = [handle EXCEPT ![f] = "refusing"]
    /\ HandOver(f, "no_reply")
    /\ UNCHANGED <<order, future, started, staged, link, asked, late>>
    /\ UNCHANGED indexVars /\ UNCHANGED taskVars

\* maid.uuid is not the configured one
RefuseForeign(f) ==
    /\ Arrives(f)
    /\ f \in Foreign
    /\ Refuse(f)

\* the turn id is waiting already: the frame is dropped without an answer
IgnoreDuplicate(f) ==
    /\ Arrives(f)
    /\ f \notin Foreign
    /\ byTurn[TurnOf[f]] # None
    /\ handle' = [handle EXCEPT ![f] = "ignored"]
    /\ UNCHANGED <<order, future, link, asked, late>>
    /\ UNCHANGED indexVars /\ UNCHANGED turnVars /\ UNCHANGED taskVars

RefuseFull(f) ==
    /\ Arrives(f)
    /\ f \notin Foreign
    /\ byTurn[TurnOf[f]] = None
    /\ Cardinality(InUse) >= MaxPending
    /\ Refuse(f)

\* _register_pending and _start_dispatch
Register(f) ==
    /\ Arrives(f)
    /\ f \notin Foreign
    /\ byTurn[TurnOf[f]] = None
    /\ Cardinality(InUse) < MaxPending
    /\ byTurn' = [byTurn EXCEPT ![TurnOf[f]] = f]
    /\ listed' = listed \cup {f}
    /\ order' = Append(order, f)
    /\ handle' = [handle EXCEPT ![f] = "waiting"]
    /\ pc' = [pc EXCEPT ![f] = "route"]
    /\ late' = IF link = "draining" THEN late \cup {f} ELSE late
    /\ UNCHANGED <<lease, future, batch, answer, releasing, link, asked>>
    /\ UNCHANGED turnVars

\* _send_context_no_reply is over, sent or not
RefusalEnds(f) ==
    /\ handle[f] = "refusing"
    /\ handle' = [handle EXCEPT ![f] = "refused"]
    /\ UNCHANGED <<order, future, link, asked, late>>
    /\ UNCHANGED indexVars /\ UNCHANGED turnVars /\ UNCHANGED taskVars

\* "return await pending.future", and the finally clause
HandleReturns(f) ==
    /\ handle[f] = "waiting"
    /\ future[f] # "open"
    /\ handle' = [handle EXCEPT ![f] = "returned"]
    /\ Unregister(f)
    /\ UNCHANGED <<order, future, link, asked, late>>
    /\ UNCHANGED turnVars /\ UNCHANGED taskVars

\* route_message accepted the turn, or the turn was settled meanwhile
RouteEnds(f) ==
    /\ pc[f] = "route"
    /\ Finish(f)
    /\ UNCHANGED future /\ UNCHANGED indexVars /\ UNCHANGED roundVars

\* route_message refused the turn or raised
RouteFails(f) ==
    /\ f \in Unroutable
    /\ pc[f] = "route"
    /\ future[f] = "open"
    /\ Enter(f, <<f>>, "no_reply")
    /\ UNCHANGED <<future, releasing>> /\ UNCHANGED indexVars /\ UNCHANGED roundVars

----------------------------------------------------------------------------
(* MaiBot's planner round of a session.                                    *)

\* prepare_maid_planner_request: take the lease the round is bound to.
\* An earlier request may have gone without its after_response.
BeforeRequest(s, phase) ==
    /\ link = "up"
    /\ pc[s] \in {"idle", "asked"}
    /\ pc' = [pc EXCEPT ![s] = "asked"]
    /\ asked' = [asked EXCEPT ![s] = LivePendings(s)]
    /\ lease' = IF HasPending(s)
                THEN [lease EXCEPT ![s] = [phase |-> phase, turns |-> TurnIds(PendingBatch(s))]]
                ELSE lease
    /\ UNCHANGED <<byTurn, listed, order, handle, future, batch, answer, releasing, link, late>>
    /\ UNCHANGED turnVars

RoundEnds(s) ==
    /\ Finish(s)
    /\ UNCHANGED future /\ UNCHANGED indexVars /\ UNCHANGED roundVars

RoundWaits(s, await) ==
    /\ pc' = [pc EXCEPT ![s] = await]
    /\ UNCHANGED <<future, batch, answer, releasing>>
    /\ UNCHANGED turnVars /\ UNCHANGED indexVars /\ UNCHANGED roundVars

\* handle_reply_session and handle_no_reply_session, called by task c
Complete(c, s, a) ==
    /\ RequestBatch(s) # <<>>
    /\ Enter(c, RequestBatch(s), a)
    /\ UNCHANGED <<future, releasing>> /\ UNCHANGED indexVars /\ UNCHANGED roundVars

CompleteOrEnd(s, a) ==
    \/ Complete(s, s, a)
    \/ RequestBatch(s) = <<>> /\ RoundEnds(s)

Answered(s) == pc[s] = "asked" /\ link = "up"

\* complete_maid_turn_after_response finds no service or no pending turn, or
\* the timing gate wants to go on
RoundWithoutCompletion(s) ==
    /\ pc[s] = "asked"
    /\ link = "up" /\ HasPending(s) => lease[s].phase = "timing_gate"
    /\ RoundEnds(s)

TimingGateReleases(s) ==
    /\ Answered(s)
    /\ HasPending(s)
    /\ lease[s].phase = "timing_gate"
    /\ CompleteOrEnd(s, "no_reply")

PlannerAnswered(s) ==
    /\ Answered(s)
    /\ HasPending(s)
    /\ lease[s].phase # "timing_gate"

PlannerSendsEmoji(s) == PlannerAnswered(s) /\ RoundWaits(s, "emoji")

PlannerReplies(s) == PlannerAnswered(s) /\ RoundWaits(s, "compose")

\* no_reply, finish or an empty plan
PlannerReleases(s) == PlannerAnswered(s) /\ CompleteOrEnd(s, "no_reply")

\* _bridge_send_emoji_tool got a payload: add_outbound_action on the target
StageEmoji(s) ==
    /\ pc[s] = "emoji"
    /\ RequestBatch(s) # <<>>
    /\ LET target == RequestBatch(s)[Len(RequestBatch(s))]
       IN  /\ staged[target] < MaxEmoji
           /\ staged' = [staged EXCEPT ![target] = @ + 1]
    /\ UNCHANGED <<future, started, wire>>
    /\ UNCHANGED indexVars /\ UNCHANGED taskVars /\ UNCHANGED roundVars

\* The emoji calls are through.
EmojiDone(s) ==
    /\ pc[s] = "emoji"
    /\ RoundWaits(s, "compose") \/ CompleteOrEnd(s, "no_reply")

\* Planning of actions and generation of the reply ended; a failure is a no_reply.
ComposeDone(s) ==
    /\ pc[s] = "compose"
    /\ CompleteOrEnd(s, "reply") \/ CompleteOrEnd(s, "no_reply")

\* _await_with_deadline ran out, or something raised: the except clause of
\* complete_maid_turn_after_response.
RoundFails(s) ==
    /\ pc[s] \in {"emoji", "compose"}
    /\ Interrupt(s)
    /\ UNCHANGED future /\ UNCHANGED indexVars /\ UNCHANGED roundVars

----------------------------------------------------------------------------
(* Completions from outside the round.                                     *)

\* bridge_maid_emoji_after_select
EmojiSelected(c, s) ==
    /\ link = "up"
    /\ pc[c] = "idle"
    /\ HasPending(s)
    /\ Complete(c, s, "no_reply")

\* handle_maidbridge_gateway: the message names a turn that is registered, or
\* a session with a live one; either way the whole session is completed.
Outbound(c, s, a) ==
    /\ link = "up"
    /\ pc[c] = "idle"
    /\ \/ HasPending(s)
       \/ \E t \in InUse : SessionOf[byTurn[t]] = s
    /\ Complete(c, s, a)

----------------------------------------------------------------------------
(* The awaits of a completion.                                             *)

Acquire(c) ==
    /\ pc[c] = "lock"
    /\ \A d \in Tasks : pc[d] \in Holding => Head(batch[d]) # Head(batch[c])
    /\ Locked(c, Head(batch[c]), OutcomeFor(batch[c], answer[c]))
    /\ UNCHANGED <<future, batch, answer, releasing>>
    /\ UNCHANGED indexVars /\ UNCHANGED roundVars

SendOk(c) ==
    /\ pc[c] = "send"
    /\ wire[Head(batch[c])] # <<>>
    /\ Settle(Head(batch[c]), "answered")
    /\ Unregister(Head(batch[c]))
    /\ Proceed(c)
    /\ UNCHANGED roundVars

\* _fail_pending_completion
SendFails(c) ==
    /\ pc[c] = "send"
    /\ Settle(Head(batch[c]), "failed")
    /\ Unregister(Head(batch[c]))
    /\ Proceed(c)
    /\ UNCHANGED roundVars

\* _completed_turn_result: a cancelled future raises CancelledError here.
Join(c) ==
    /\ pc[c] = "join"
    /\ \/ future[Head(batch[c])] \in {"answered", "failed"} /\ Proceed(c)
       \/ future[Head(batch[c])] = "cancelled" /\ Interrupt(c)
    /\ UNCHANGED future /\ UNCHANGED indexVars /\ UNCHANGED roundVars

\* The host gives up on a hook or gateway call and cancels it.  Cancelling a
\* task that awaits a turn's future cancels that future.
CancelCall(c) ==
    /\ HookTimeouts
    /\ pc[c] \in {"emoji", "compose", "lock", "send", "join"}
    /\ future' = IF pc[c] = "join"
                 THEN [future EXCEPT ![Head(batch[c])] = IF @ = "open" THEN "cancelled" ELSE @]
                 ELSE future
    /\ Interrupt(c)
    /\ UNCHANGED indexVars /\ UNCHANGED roundVars

----------------------------------------------------------------------------
(* The connection goes away.                                               *)

\* mutant: the tasks of the router are not cancelled
ClosedByIndex(f) ==
    IF byTurn[TurnOf[f]] = f /\ future[f] = "open" THEN "failed" ELSE future[f]

\* Indexed turns get an error result.  Cancelling a task cancels the future it
\* awaits: a dispatch task in "join", and the handle() of a turn not indexed.
Closed(f) ==
    IF handle[f] # "waiting" \/ future[f] # "open" THEN future[f]
    ELSE IF byTurn[TurnOf[f]] = f /\ pc[f] # "join" THEN "failed"
    ELSE "cancelled"

\* _teardown_runtime up to its first await: the plugin drops its references,
\* cancel_pending, then RuntimeRouter.stop cancels the tasks of its snapshot.
Teardown ==
    /\ link = "up"
    /\ link' = "draining"
    /\ future' = [f \in Frames |-> Closed(f)]
    /\ byTurn' = [t \in Turns |-> None]
    /\ listed' = {f \in listed : byTurn[TurnOf[f]] # f}
    /\ lease' = [s \in Sessions |-> NoLease]
    /\ handle' = [f \in Frames |-> IF handle[f] = "refusing" THEN "refused" ELSE handle[f]]
    /\ pc' = [c \in Tasks |-> IF c \in Frames THEN "idle" ELSE pc[c]]
    /\ batch' = [c \in Tasks |-> IF c \in Frames THEN <<>> ELSE batch[c]]
    /\ answer' = [c \in Tasks |-> IF c \in Frames THEN "no_reply" ELSE answer[c]]
    /\ UNCHANGED <<order, releasing, asked, late>> /\ UNCHANGED turnVars

\* RuntimeRouter.stop has gathered its snapshot and transport.stop has ended
\* the reader: no more frames come in.
TransportStops ==
    /\ link = "draining"
    /\ \A f \in Frames \ late : handle[f] # "waiting"
    /\ link' = "down"
    /\ UNCHANGED <<order, handle, future, asked, late>>
    /\ UNCHANGED turnVars /\ UNCHANGED indexVars /\ UNCHANGED taskVars

\* _connect_once: the plugin has a transport and a service again; what is still
\* under way in this service goes on.  The new connection may be lost in turn.
Redial ==
    /\ link \in {"down", "next"}
    /\ link' = IF link = "down" THEN "next" ELSE "down"
    /\ UNCHANGED <<order, handle, future, asked, late>>
    /\ UNCHANGED turnVars /\ UNCHANGED indexVars /\ UNCHANGED taskVars

----------------------------------------------------------------------------
FrameStep(f) ==
    \/ RefuseForeign(f) \/ IgnoreDuplicate(f) \/ RefuseFull(f) \/ Register(f)
    \/ RefusalEnds(f) \/ HandleReturns(f) \/ RouteEnds(f) \/ RouteFails(f)

RoundStep(s) ==
    \/ \E phase \in {"timing_gate", "planner"} : BeforeRequest(s, phase)
    \/ RoundWithoutCompletion(s) \/ TimingGateReleases(s)
    \/ PlannerSendsEmoji(s) \/ PlannerReplies(s) \/ PlannerReleases(s)
    \/ StageEmoji(s) \/ EmojiDone(s) \/ ComposeDone(s) \/ RoundFails(s)

CallStep(c) ==
    \E s \in Sessions : EmojiSelected(c, s) \/ \E a \in Outcomes : Outbound(c, s, a)

TaskStep(c) == Acquire(c) \/ SendOk(c) \/ SendFails(c) \/ Join(c)

Next ==
    \/ \E f \in Frames : FrameStep(f)
    \/ \E s \in Sessions : RoundStep(s)
    \/ \E c \in Calls : CallStep(c)
    \/ \E c \in Tasks : TaskStep(c)
    \/ \E c \in Sessions \cup Calls : CancelCall(c)
    \/ Teardown
    \/ TransportStops
    \/ Redial

Spec == Init /\ [][Next]_vars

(* Fairness.  The event loop resumes whoever can go on; the reader of the  *)
(* socket and the gateway answer; wait_for bounds the emoji and compose    *)
(* awaits.  MaiBot itself is trusted with one thing: it keeps asking its   *)
(* planner about a session and the planner's answers come back.            *)
LoopFairness ==
    /\ \A f \in Frames :
          /\ WF_vars(RefusalEnds(f)) /\ WF_vars(HandleReturns(f))
          /\ WF_vars(RouteEnds(f) \/ RouteFails(f))
    /\ \A c \in Tasks :
          /\ WF_vars(Acquire(c)) /\ WF_vars(Join(c))
          /\ WF_vars(SendOk(c) \/ SendFails(c))
    /\ \A s \in Sessions :
          /\ WF_vars(EmojiDone(s) \/ RoundFails(s))
          /\ WF_vars(ComposeDone(s) \/ RoundFails(s))

MaiBotFairness ==
    \A s \in Sessions :
        /\ SF_vars(BeforeRequest(s, "planner"))
        /\ SF_vars(PlannerSendsEmoji(s) \/ PlannerReplies(s) \/ PlannerReleases(s))

FairSpec == Spec /\ LoopFairness /\ MaiBotFairness

----------------------------------------------------------------------------
(* Safety.                                                                 *)

InBatch(c) == {batch[c][i] : i \in DOMAIN batch[c]}

\* The game gets at most one terminal frame for a turn request, however many
\* of the hook, the dispatch task, the emoji hook and the gateway try to close
\* it, in whatever order (terminal_started under terminal_lock).
AtMostOneTerminal == \A f \in Frames : Len(wire[f]) <= 1

\* A lease never outlives its turns, so a later round cannot be bound to turn
\* ids that are gone (_drop_stale_leases after every unregistration).
LeaseNeverStale ==
    \A s \in Sessions : lease[s] # NoLease =>
        \E i \in DOMAIN lease[s].turns : byTurn[lease[s].turns[i]] # None

\* No emoji action is staged on a turn whose terminal frame was already built:
\* it would never be delivered (add_outbound_action against _consume_actions).
NothingStagedAfterTerminal == \A f \in Frames : started[f] => staged[f] = 0

\* terminal_lock: never two coroutines inside the terminal section of a turn.
OneCompleter ==
    \A c, d \in Tasks :
        /\ c # d /\ pc[c] \in Holding /\ pc[d] \in Holding
        => Head(batch[c]) # Head(batch[d])

\* When the connection is gone, no handle() of a frame that came before the
\* teardown is left waiting, not even one that dropped out of the index.
TeardownReleasesAll ==
    link # "up" => \A f \in Frames \ late : handle[f] = "waiting" => future[f] # "open"

\* Once the connection is gone, nothing of this service takes up a turn it was not
\* at already, so that no turn of a lost connection is begun on the next one; only
\* frames read while the transport was being stopped are registered, and closed.
TeardownStopsCompletions == [][link # "up" =>
    \A c \in Tasks : InBatch(c)' \ InBatch(c) \subseteq late]_vars

\* With distinct turn ids: the two indexes name the same turns.
IndexesAgree == \A f \in Frames : f \in listed <=> byTurn[TurnOf[f]] = f

\* With distinct turn ids: the queue limit bounds the requests that wait.
OpenTurnsBounded ==
    Cardinality({f \in Frames : handle[f] = "waiting" /\ future[f] = "open"}) <= MaxPending

Before(f, g) == \E i, j \in DOMAIN order : i < j /\ order[i] = f /\ order[j] = g

\* With distinct turn ids: when a reply goes out, no older turn of the session
\* is still to be closed ("reply_latest_turn_and_no_reply_earlier_turns").
ReplyLeavesNoOlderTurn ==
    \A f, g \in Frames :
        /\ Before(f, g) /\ SessionOf[f] = SessionOf[g] /\ wire[g] = <<"reply">>
        => ~IsLive(f)

\* Without cancelled hooks and with distinct turn ids: every turn that waits is
\* settled, as long as it was not registered on a connection already gone.
EveryTurnSettles ==
    \A f \in Frames :
        handle[f] = "waiting" /\ f \notin late ~> future[f] # "open"

\* The hook and the gateway calls never wait on each other for good: whoever
\* holds a terminal_lock waits for a send or for a turn another one has begun,
\* and that one waits for no lock.
CompletersReturn ==
    \A c \in Sessions \cup Calls : pc[c] \in {"lock", "send", "join"} ~> pc[c] = "idle"

----------------------------------------------------------------------------
(* The abstract specification.                                             *)

\* what the ledger says of a frame
RequestState(f) ==
    CASE handle[f] = "new" -> "new"
      [] handle[f] \in {"ignored", "refusing", "refused"} -> "declined"
      [] handle[f] \in {"waiting", "returned"} ->
            IF future[f] \in {"open", "answered"} THEN future[f] ELSE "failed"

Ledger == INSTANCE TurnLedger WITH
    Requests <- Frames, state <- [f \in Frames |-> RequestState(f)], told <- wire

\* The service keeps the ledger: a request is settled once and for good, counts as
\* answered only if its terminal frame was handed over, and is told of once, over
\* all the hooks, dispatch tasks, gateways and connections that try to close it.
KeepsLedger == Ledger!Spec

----------------------------------------------------------------------------
(* The inductive invariant behind AtMostOneTerminal and OneCompleter.      *)

Registered(f) == handle[f] \in {"waiting", "returned"}

\* what the index names is a pending of that turn id whose handle() still waits
IndexInv == \A t \in Turns : byTurn[t] # None =>
                TurnOf[byTurn[t]] = t /\ handle[byTurn[t]] = "waiting"

\* only registered turns are routed or completed
TaskInv ==
    /\ \A f \in Frames : pc[f] = "route" => Registered(f)
    /\ \A c \in Tasks : \A i \in DOMAIN batch[c] : Registered(batch[c][i])

\* a terminal frame is the mark of a begun completion or of a refusal, never both
WireInv == \A f \in Frames :
    /\ started[f] => Registered(f)
    /\ wire[f] # <<>> => started[f] \/ handle[f] \in {"refusing", "refused"}

TerminalInv == IndexInv /\ TaskInv /\ WireInv /\ AtMostOneTerminal /\ OneCompleter

----------------------------------------------------------------------------
(* What comments of the code say.  The runs turns_lease, turns_reindex and *)
(* turns_orphan show where the code does not keep it.                      *)

\* "the lease binds a round of Maisaka to the snapshot of maid turns of that
\* moment": on a standing connection, a round that was told of turns never replies to
\* another one.
RoundRepliesToItsSnapshot ==
    link = "up" => \A s \in Sessions :
        /\ asked[s] # {}
        /\ pc[s] = "send" /\ OutcomeFor(batch[s], answer[s]) = "reply"
        => Head(batch[s]) \in asked[s]

\* a turn being routed and closed by nobody is in the index
RoutedIsLive == \A f \in Frames :
    pc[f] = "route" /\ future[f] = "open" /\ ~started[f] => IsLive(f)

\* "the hook must be able to get the pending before [route_message returns]": as long
\* as hooks find this service, they find every turn that is being routed.
HookReachesRoutedTurn == link = "up" => RoutedIsLive

\* "keep time for releasing the pending turns": a cancelled hook leaves no
\* turn begun and unsettled that nobody works on.
NoOrphanedTurn ==
    \A f \in Frames : started[f] /\ future[f] = "open" =>
        \E c \in Tasks : pc[c] = "send" /\ Head(batch[c]) = f
============================================================================
