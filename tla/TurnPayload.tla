---------------------------- MODULE TurnPayload ----------------------------
(***************************************************************************)
(* What a turn request says and what its answer says back: decoding and    *)
(* validation (src/src/protocol/frame.py), routing (router.py), the turn   *)
(* context (src/src/maid_turn/turn_context.py), the planned actions and    *)
(* the terminal frame (turn_service.py).  The turns of MaidTurnService are *)
(* here one turn: what several do to each other is shown there, and what   *)
(* it keeps abstract, the content of frames, is shown here.                *)
(***************************************************************************)
EXTENDS ActionPlan

CONSTANTS
    Odd,         \* a value that is no string
    JavaDefault, \* DEFAULT_JAVA_ENDPOINT_ID
    ClientDefault, \* DEFAULT_CLIENT_ENDPOINT_ID
    Maid,        \* maid_uuid of the settings, without which no turns are served
    Requests,    \* the turn requests that may be received
    ProposalLists \* what the model may propose

Directions == {"client_to_java", "java_to_client"}
Envelopes == [id : Words \cup {Blank, Odd}, request : Words \cup {Blank, Odd},
              source : Words \cup {Blank, Odd}, target : Words \cup {Blank, Odd},
              direction : Directions \cup {"none"}]

ASSUME PayloadAssumption ==
    /\ Odd \notin Words \cup {Blank} /\ JavaDefault \in Words /\ ClientDefault \in Words
    /\ Maid \in Words
    /\ \A r \in Requests :
         /\ r.envelope \in Envelopes
         \* protocol, deadline_ms, size, and a payload that is an object
         /\ r.sound \in BOOLEAN
         /\ r.turn \in Words \cup {Blank} /\ r.uuid \in Words \cup {Blank}
         \* where there is text: "self" if the message is itself a string
         /\ r.message \subseteq {"self", "text", "chat_text", "plain_text", "content"}
         /\ r.entities \subseteq Words
         \* what is offered is a list, of items with an enum each
         /\ Len(r.items) \in Nat /\ DOMAIN r.items = 1 .. Len(r.items)
         /\ \A k \in DOMAIN r.items : \A i \in DOMAIN r.items[k].enum :
                r.items[k].enum[i] \in Words \cup {Blank, Null}
    \* first_non_blank makes words of whatever the model gives
    /\ \A list \in ProposalLists : \A i \in DOMAIN list :
         \A fields \in {list[i].inner, list[i].outer} : \A key \in DOMAIN fields :
            fields[key] \in Words \cup {Blank}

VARIABLES
    stage,     \* how far the request got
    request,   \* the request received; a sequence of one, or empty
    envelope,  \* its envelope, as BridgeFrame.from_dict() leaves it
    proposals, \* history: what the model proposed
    plan,      \* the planned actions
    answer     \* the maid.agent.turn.complete frame sent; a sequence of one, or empty

payloadVars == <<stage, request, envelope, proposals, plan, answer>>

PayloadInit ==
    /\ stage = "idle"
    /\ request = <<>> /\ envelope = <<>>
    /\ proposals = <<>> /\ plan = <<>>
    /\ answer = <<>>

TheRequest == request[1]

----------------------------------------------------------------------------
(* Frames.                                                                 *)

\* _require_string(id), _require_direction, _optional_string
Decodes(e) ==
    /\ e.id \notin {Blank, Odd}
    /\ e.direction \in Directions
    /\ Odd \notin {e.request, e.source, e.target}

OrElse(word, other) == IF word = Blank THEN other ELSE word

\* from_dict
Decoded(e) == [id |-> e.id,
               request |-> OrElse(e.request, e.id),
               source |-> OrElse(e.source, JavaDefault),
               target |-> OrElse(e.target, ClientDefault),
               direction |-> e.direction]

\* to_dict leaves out a request id that says the same as the id
Encoded(e) == [e EXCEPT !.request = IF @ = e.id THEN Blank ELSE @]

\* what _validate_turn_complete_payload wants of a terminal frame
Completes(content) ==
    /\ content.turn # Blank /\ content.uuid # Blank
    /\ content.outcome \in {"reply", "no_reply"}

\* _route_maid_turn, _java_to_client_error: the text is looked for as _message_text
\* of router.py does; the request id has a value by now, and so has the turn id
Routes(r, e) ==
    /\ e.direction = "java_to_client"
    /\ r.message \cap {"self", "text", "chat_text", "content"} # {}
    /\ r.uuid # Blank

\* mutant: the third place is forgotten
ParsesTwo(r) == r.message \cap {"self", "text", "plain_text"} # {}

\* parse_turn_context: _message_text of turn_context.py looks elsewhere
Parses(r) == r.message \cap {"self", "text", "plain_text", "content"} # {}

\* parse_turn_context
TurnId(r, e) == OrElse(r.turn, e.request)

----------------------------------------------------------------------------
(* Steps.                                                                  *)

\* _handle_raw: decoded, routed and, if it is a turn, made a task, with no await
Receive(r) ==
    /\ request' = <<r>>
    /\ UNCHANGED <<proposals, plan, answer>>

Undecodable(r) ==
    /\ Receive(r)
    /\ ~(r.sound /\ Decodes(r.envelope))
    /\ stage' = "dropped"
    /\ UNCHANGED envelope

Refused(r) ==
    /\ Receive(r)
    /\ r.sound /\ Decodes(r.envelope)
    /\ envelope' = <<Decoded(r.envelope)>>
    /\ ~Routes(r, Decoded(r.envelope))
    /\ stage' = "refused"

Dispatched(r) ==
    /\ Receive(r)
    /\ r.sound /\ Decodes(r.envelope)
    /\ envelope' = <<Decoded(r.envelope)>>
    /\ Routes(r, Decoded(r.envelope))
    /\ stage' = "dispatched"

\* handle() raises, and _dispatch_maid_turn logs it: nobody answers
Lost ==
    /\ stage = "dispatched" /\ ~Parses(TheRequest)
    /\ stage' = "lost"
    /\ UNCHANGED <<request, envelope, proposals, plan, answer>>

\* mutant: the answer goes where the request went
AddressedBackward(e) == [source |-> e.source, target |-> e.target]

\* source_endpoint and target_endpoint of an answer
Addressed(e) == [source |-> e.target, target |-> e.source]

\* build_maid_agent_turn_complete_frame, for a turn in this context
Terminal(outcome, actions) ==
    LET e == envelope[1]
        r == TheRequest
    IN  [envelope |-> Encoded([id |-> TurnId(r, e), request |-> TurnId(r, e),
                               source |-> Addressed(e).source, target |-> Addressed(e).target,
                               direction |-> "client_to_java"]),
         content |-> [turn |-> TurnId(r, e), uuid |-> r.uuid, outcome |-> outcome,
                      actions |-> actions],
         reply_to |-> e.request]

\* The frame is built after terminal_started was set and outside the try: if it
\* did not validate, the turn would be begun and never settled.
Send(outcome, actions) ==
    LET frame == Terminal(outcome, actions)
        valid == Decodes(frame.envelope) /\ Completes(frame.content)
    IN  /\ stage' = IF valid THEN "answered" ELSE "stuck"
        /\ answer' = IF valid THEN <<frame>> ELSE <<>>
        /\ UNCHANGED <<request, envelope, proposals, plan>>

\* _same_uuid
OfAnotherMaid == Folded[Maid] # Folded[TheRequest.uuid]

\* handle() of a frame for another maid
TurnAway ==
    /\ stage = "dispatched" /\ Parses(TheRequest) /\ OfAnotherMaid
    /\ Send("no_reply", <<>>)

\* handle() registers the turn and waits (MaidTurnService!Register)
Await ==
    /\ stage = "dispatched" /\ Parses(TheRequest) /\ ~OfAnotherMaid
    /\ stage' = "waiting"
    /\ UNCHANGED <<request, envelope, proposals, plan, answer>>

\* plan_external_actions: a model that fails or is not asked has proposed nothing
PlanActions(list) ==
    /\ proposals' = list
    /\ plan' = Plan(list, TheRequest.items, Nearby(TheRequest.entities))
    /\ stage' = "planned"
    /\ UNCHANGED <<request, envelope, answer>>

Reply == stage = "planned" /\ Send("reply", plan)

\* no reply could be made, or the planner wanted none, or the queue was full: the
\* planned actions are given up
NoReply == stage \in {"waiting", "planned"} /\ Send("no_reply", <<>>)

PayloadNext ==
    \/ stage = "idle" /\ \E r \in Requests : Undecodable(r) \/ Refused(r) \/ Dispatched(r)
    \/ Lost \/ TurnAway \/ Await
    \/ stage = "waiting" /\ \E list \in ProposalLists : PlanActions(list)
    \/ Reply \/ NoReply

PayloadSpec == PayloadInit /\ [][PayloadNext]_payloadVars

----------------------------------------------------------------------------
(* Properties.                                                             *)

\* A terminal frame as the peer reads it back
Fits(frame) ==
    LET sent == Decoded(frame.envelope)
        asked == Decoded(TheRequest.envelope)
    IN  /\ sent.target = asked.source /\ sent.source = asked.target
        /\ frame.reply_to = asked.request
        /\ sent.request = frame.content.turn
        /\ TheRequest.turn # Blank => frame.content.turn = TheRequest.turn

\* A turn that was routed is always answerable: its terminal frame passes the
\* validation it is built with, so that no turn is begun and left there, and read
\* back by the peer it goes to the endpoint the request came from, names the
\* request it answers, and carries the turn's own id.
AnswerFits == stage # "stuck" /\ (answer # <<>> => Fits(answer[1]))

\* The router and the turn context look for the text of a message in different
\* places.  A turn may be routed and then lost for that, but only if all its text
\* is under chat_text; whatever else was routed gets as far as a turn.
LostOnlyForChatText == stage = "lost" => TheRequest.message = {"chat_text"}

Declared(item) == ({item.enum[i] : i \in DOMAIN item.enum} \ {Blank, Null})
                    \cup ({item.choices[i].id : i \in DOMAIN item.choices} \ {Blank})

\* what a null of an enum becomes if the schema is long: the word "None"
NullRead(item) == {"None" : i \in {j \in DOMAIN item.enum : item.large /\ item.enum[j] = Null}}

\* one action of a plan, and an item of the request it may come from
Covers(item, action) ==
    /\ TypeOf(item) = action.type
    /\ action.type = "switch_schedule" => action.value \in Declared(item)
    /\ action.type = "switch_work_task" => action.value \in Declared(item) \cup NullRead(item)
    /\ action.type \in {"switch_sit", "switch_follow_state"} => action.value \in {"true", "false"}
    /\ action.type = "show_emoji_bubble" =>
         action.value \in Declared(item) \/ EnumValues(item) = {}

\* Whatever the model proposes, an action is planned only if the request offered it,
\* with a value the request declares for it, and with an entity only if that is one
\* of those nearby and the action a work task (rules 1, 5, 6 and 8 of
\* prompts/zh-CN/action_planner.prompt).  The one value that is not declared is the
\* work task "None", where the request has a null among the tasks of a long schema.
PlanIsOffered == \A i \in DOMAIN plan :
    /\ \E k \in DOMAIN TheRequest.items : Covers(TheRequest.items[k], plan[i])
    /\ \A n \in plan[i].entity :
         plan[i].type = "switch_work_task" /\ \E w \in TheRequest.entities \cap DOMAIN Numbers :
                                                Numbers[w] = n

\* the parameter that is an action's own, and the values the prompt shows for it: those
\* of a work task in its enum or its choices; a schedule is put into upper case
OwnKey == [switch_schedule |-> "schedule", switch_work_task |-> "task_id"]
Plannable(item) ==
    LET named == EnumShown(item) \ {Blank, Null}
    IN  [switch_schedule  |-> {v \in named : UpperWord(v) = v},
         switch_work_task |-> named \cup ChoiceIds(item)]

\* What the context shows can be planned: a proposal that names the one shown item of
\* its type, in the shell of the protocol, and gives it a value that is shown keeps
\* that value, a task id in whatever case, unless it is a schedule not in upper case.
ShownIsPlannable == \A i \in DOMAIN proposals :
    LET p == proposals[i]
        items == TheRequest.items
    IN  \A k \in Shown(items) :
          /\ p.named = [id |-> ItemWord(items[k])] /\ p.nested
          /\ \A j \in Shown(items) : TypeOf(items[j]) = TypeOf(items[k]) => j = k
          /\ TypeOf(items[k]) \in DOMAIN OwnKey
          => LET given == Get(p.inner, OwnKey[TypeOf(items[k])])
             IN  given \in Plannable(items[k])[TypeOf(items[k])]
                   => i \in DOMAIN plan /\ plan[i].type = TypeOf(items[k]) /\ plan[i].value = given
============================================================================
