----------------------------- MODULE ServerChat -----------------------------
(***************************************************************************)
(* The server-chat contexts of one connection: ServerChatService           *)
(* (src/src/server_chat/service.py), whose handle() lists a context for    *)
(* every chat message it injects into MaiBot, and the after_response hook  *)
(* (src/src/server_chat/hooks.py), which answers the first context of a    *)
(* session and then drops the first context of that session.  Between the  *)
(* two the hook awaits the reply model and the Java side, and the list may *)
(* change.  The request that carries a text is in module PendingRequests.  *)
(* A frame stands for the ServerChatContext made from it.                  *)
(***************************************************************************)
EXTENDS Naturals, Sequences

CONSTANTS
    Frames,     \* received chat messages that parse
    MessageIds, \* ServerChatContext.message_id
    Sessions,   \* ServerChatContext.session_id, one per room
    MessageOf,  \* the message id of a frame; a redelivery repeats it
    RoomOf      \* the session of a frame

ASSUME ChatAssumption ==
    /\ MessageOf \in [Frames -> MessageIds]
    /\ RoomOf \in [Frames -> Sessions]

VARIABLES
    contexts,  \* _contexts_by_session_id, whose lists are in the order of arrival
    arrived,   \* how many frames have been listed
    order,     \* the place of a frame in that order, once it has arrived
    handle,    \* where handle() is for a frame
    service,   \* the plugin still has this service, is taking it down, or not
    hook,      \* what the hook of a session awaits
    context,   \* the frame it is working for
    answered,  \* history: the frames a text was sent for, in that order
    taken,     \* history: frames a hook was started for
    cut        \* history: frames whose hook the host cancelled

vars == <<contexts, arrived, order, handle, service, hook, context, answered, taken, cut>>

TypeOK ==
    /\ contexts \in [Sessions -> SUBSET Frames]
    /\ \A s \in Sessions : \A f \in contexts[s] : RoomOf[f] = s
    /\ arrived \in Nat /\ order \in [Frames -> Nat]
    /\ handle \in [Frames -> {"new", "routing", "accepted", "refused", "raised"}]
    /\ service \in {"up", "draining", "gone"}
    /\ hook \in [Sessions -> {"idle", "generating", "sending"}]
    /\ context \in [Sessions -> SUBSET Frames]
    /\ \A s \in Sessions : IF hook[s] = "idle" THEN context[s] = {}
                           ELSE \E f \in Frames : context[s] = {f}
    /\ answered \in [Sessions -> Seq(Frames)]
    /\ taken \subseteq Frames /\ cut \subseteq Frames

Init ==
    /\ contexts = [s \in Sessions |-> {}]
    /\ arrived = 0 /\ order = [f \in Frames |-> 0]
    /\ handle = [f \in Frames |-> "new"]
    /\ service = "up"
    /\ hook = [s \in Sessions |-> "idle"]
    /\ context = [s \in Sessions |-> {}]
    /\ answered = [s \in Sessions |-> <<>>]
    /\ taken = {} /\ cut = {}

----------------------------------------------------------------------------
(* ServerChatService.                                                      *)

\* mutant: the session id leaves the room out
RegisteredByAccount(f) == [s \in Sessions |-> contexts[s] \cup {f}]

\* _register_context, under the session of the room
Registered(f) == [contexts EXCEPT ![RoomOf[f]] = @ \cup {f}]

\* mutant: the whole list of the session is popped
UnregisterSession(f) == [contexts EXCEPT ![RoomOf[f]] = {}]

\* _unregister_context: every context of the session with that message id
Unregister(f) ==
    [contexts EXCEPT ![RoomOf[f]] = {g \in @ : MessageOf[g] # MessageOf[f]}]

\* mutant: the newest message is the one to answer
NewestContext(s) == CHOOSE f \in contexts[s] : \A g \in contexts[s] : order[g] <= order[f]

\* context_for_session of a session that has one
FirstContext(s) == CHOOSE f \in contexts[s] : \A g \in contexts[s] : order[f] <= order[g]

\* mutant: a message that route_message has not accepted yet is kept
CompletedOnceAccepted(s) ==
    IF contexts[s] # {} /\ handle[FirstContext(s)] = "accepted"
    THEN Unregister(FirstContext(s)) ELSE contexts

\* complete_session: whatever is the first context by now
Completed(s) == IF contexts[s] = {} THEN contexts ELSE Unregister(FirstContext(s))

\* handle() up to route_message.  Until the transport is stopped the router may
\* still hand a frame to a service the plugin has dropped.
Handle(f) ==
    /\ handle[f] = "new" /\ service # "gone"
    /\ handle' = [handle EXCEPT ![f] = "routing"]
    /\ contexts' = Registered(f)
    /\ order' = [order EXCEPT ![f] = arrived + 1]
    /\ arrived' = arrived + 1
    /\ UNCHANGED <<service, hook, context, answered, taken, cut>>

\* route_message accepts or refuses; an exception leaves the context listed
Routed(f, outcome) ==
    /\ handle[f] = "routing"
    /\ handle' = [handle EXCEPT ![f] = outcome]
    /\ contexts' = IF outcome = "refused" THEN Unregister(f) ELSE contexts
    /\ UNCHANGED <<arrived, order, service, hook, context, answered, taken, cut>>

\* _teardown_runtime: the plugin forgets the service, router.stop() cancels the
\* handle() tasks it knows of, then the transport is stopped
Teardown ==
    /\ service = "up"
    /\ service' = "draining"
    /\ handle' = [f \in Frames |-> IF handle[f] = "routing" THEN "raised" ELSE handle[f]]
    /\ UNCHANGED <<contexts, arrived, order, hook, context, answered, taken, cut>>

TransportStops ==
    /\ service = "draining"
    /\ service' = "gone"
    /\ UNCHANGED <<contexts, arrived, order, handle, hook, context, answered, taken, cut>>

----------------------------------------------------------------------------
(* complete_server_chat_after_response.                                    *)

\* The hook takes a session over if it has a context; the tool calls decide what
\* it does before its first await.  Tools it does not know leave all as it is.
HookTakesOver(s) ==
    /\ service = "up" /\ hook[s] = "idle" /\ contexts[s] # {}
    /\ taken' = taken \cup {FirstContext(s)}

\* _send_server_chat_text up to its await
Send(s, f) ==
    /\ hook' = [hook EXCEPT ![s] = "sending"]
    /\ answered' = [answered EXCEPT ![s] = Append(@, f)]

\* a reply tool call: the reply model is asked
HookGenerates(s) ==
    /\ HookTakesOver(s)
    /\ hook' = [hook EXCEPT ![s] = "generating"]
    /\ context' = [context EXCEPT ![s] = {FirstContext(s)}]
    /\ UNCHANGED <<contexts, arrived, order, handle, service, answered, cut>>

\* no tool call, but text
HookSends(s) ==
    /\ HookTakesOver(s)
    /\ Send(s, FirstContext(s))
    /\ context' = [context EXCEPT ![s] = {FirstContext(s)}]
    /\ UNCHANGED <<contexts, arrived, order, handle, service, cut>>

\* media tools only, a tool that ends the round, or nothing to say
HookCompletes(s) ==
    /\ HookTakesOver(s)
    /\ contexts' = Completed(s)
    /\ UNCHANGED <<arrived, order, handle, service, hook, context, answered, cut>>

Generated(s) ==
    /\ hook[s] = "generating"
    /\ \E f \in context[s] : Send(s, f)
    /\ UNCHANGED <<contexts, arrived, order, handle, service, context, taken, cut>>

\* the generation failed, or the send has come back, with whatever answer, timeout
\* or exception: the finally clause
HookEnds(s) ==
    /\ hook[s] # "idle"
    /\ hook' = [hook EXCEPT ![s] = "idle"]
    /\ context' = [context EXCEPT ![s] = {}]
    /\ contexts' = Completed(s)
    /\ UNCHANGED <<arrived, order, handle, service, answered, taken, cut>>

\* The host cancels a hook that runs late: should_complete_session is False still.
\* Bound: it does so once for a message.
HookCancelled(s) ==
    /\ hook[s] # "idle" /\ context[s] \cap cut = {}
    /\ hook' = [hook EXCEPT ![s] = "idle"]
    /\ cut' = cut \cup context[s]
    /\ context' = [context EXCEPT ![s] = {}]
    /\ UNCHANGED <<contexts, arrived, order, handle, service, answered, taken>>

----------------------------------------------------------------------------
HandleStep(f) ==
    Handle(f) \/ \E outcome \in {"accepted", "refused", "raised"} : Routed(f, outcome)
HookStep(s) ==
    HookGenerates(s) \/ HookSends(s) \/ HookCompletes(s) \/ Generated(s)
        \/ HookEnds(s) \/ HookCancelled(s)

Next ==
    \/ \E f \in Frames : HandleStep(f)
    \/ \E s \in Sessions : HookStep(s)
    \/ Teardown \/ TransportStops

Spec == Init /\ [][Next]_vars

----------------------------------------------------------------------------
(* Properties.                                                             *)

\* The messages of a room are answered in the order they came: the hook never goes
\* back to an earlier message after it has answered a later one.
AnswersInOrder == \A s \in Sessions : \A i, j \in DOMAIN answered[s] :
    i < j => order[answered[s][i]] <= order[answered[s][j]]

\* A message is answered once, whether the text got through or not, unless the host
\* cut its hook short: that leaves the context for the next round to answer again.
AnsweredOnce == \A s \in Sessions : \A i, j \in DOMAIN answered[s] :
    i # j /\ answered[s][i] = answered[s][j] => answered[s][i] \in cut

Same(f, g) == RoomOf[f] = RoomOf[g] /\ MessageOf[f] = MessageOf[g]
Refused(f) == \E g \in Frames : Same(f, g) /\ handle[g] = "refused"

\* A message leaves the list only if a hook took it up or it was refused.  One way
\* round that exists in the code, and only one: MaiBot refuses a message while a
\* hook is at it, and the hook then drops the next one of the room in its place.
DroppedForAReason == \A f \in Frames :
    LET s == RoomOf[f]
    IN  handle[f] # "new" /\ f \notin contexts[s] =>
          \/ \E g \in taken : Same(f, g)
          \/ Refused(f)
          \/ \E g \in taken : RoomOf[g] = s /\ Refused(g)
============================================================================
