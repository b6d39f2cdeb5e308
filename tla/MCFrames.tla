------------------------------ MODULE MCFrames ------------------------------
(* What single frames lead to, for TLC: Registry for the frames that are   *)
(* remembered, TurnPayload for the one that is answered.  The two share no *)
(* variable: one of them runs while the other is as it began.              *)
EXTENDS MCRegistry, TurnPayload

MCWords == {
    "q1", "q2", "t1", "java", "j2", "client", "m1", "M1", "m2",
    "schedule", "set-schedule", "switch_schedule", "DAY", "NIGHT", "night", "day",
    "work", "switch_work_task", "attack", "feed", "farm", "7", "8", "soon",
    "None", "sit", "follow", "True", "yes", "0", "maybe",
    "emoji", "kaomoji", "image", "text", "dance", "Dance"}

MCFolded == [w \in MCWords |->
    CASE w = "M1" -> "m1" [] w = "None" -> "none"
      [] w = "set-schedule" -> "set_schedule" [] w = "True" -> "true"
      [] w = "Dance" -> "dance" [] w = "DAY" -> "day" [] w = "NIGHT" -> "night" [] OTHER -> w]

\* only the words of a schedule are asked for
MCUpper == [w \in MCWords |->
    CASE w \in {"day", "DAY"} -> "DAY" [] w \in {"night", "NIGHT"} -> "NIGHT"
      [] w \in {"7", "8", "0"} -> w [] OTHER -> "IN CAPITALS"]

MCNumbers == [w \in {"7", "8", "0"} |-> CASE w = "7" -> 7 [] w = "8" -> 8 [] OTHER -> 0]

Item(id, name, enum, large, choices) ==
    [id |-> id, name |-> name, enum |-> enum, large |-> large, choices |-> choices]
Choice(id, named) == [id |-> id, named |-> named]

\* two names of the schedule, a lower-case value, long enums, nulls, choices without
\* an id, an item with only a name, an action the planner does not know
MCItems == {
    Item("switch_schedule", "", <<"DAY", "NIGHT">>, FALSE, <<>>),
    Item("set-schedule", "schedule", <<"night">>, FALSE, <<>>),
    Item("switch_schedule", "", <<"DAY", "", "NIGHT">>, TRUE, <<>>),
    Item("work", "", <<"attack">>, FALSE,
         <<Choice("", TRUE), Choice("", FALSE), Choice("feed", TRUE), Choice("farm", FALSE)>>),
    Item("work", "", <<Null, "attack", "feed">>, TRUE, <<>>),
    Item("work", "", <<Null, "attack">>, FALSE, <<Choice("feed", TRUE)>>),
    Item("", "sit", <<>>, FALSE, <<>>),
    Item("emoji", "", <<"image">>, FALSE, <<>>),
    Item("emoji", "", <<>>, FALSE, <<>>),
    Item("Dance", "follow", <<>>, FALSE, <<>>)}

MCItemLists ==
    {<<>>} \cup {<<x>> : x \in MCItems} \cup {<<x, y>> : x, y \in MCItems}
    \cup {<<x, Item("", "", <<>>, FALSE, <<>>), y>> : x, y \in MCItems}

Envelope(id, req, source, target, direction) ==
    [id |-> id, request |-> req, source |-> source, target |-> target, direction |-> direction]
Request(e, sound, turn, uuid, message, items) ==
    [envelope |-> e, sound |-> sound, turn |-> turn, uuid |-> uuid, message |-> message,
     items |-> items, entities |-> {"7", "soon"}]

MCEnvelopes == {Envelope(id, req, source, target, direction) :
    id \in {"q1", "", "<odd>"}, req \in {"", "q2", "<odd>"}, source \in {"", "j2"},
    target \in {"", "<odd>", "client"}, direction \in Directions \cup {"none"}}

MCRequests ==
    {Request(e, sound, turn, uuid, message, <<>>) :
        e \in MCEnvelopes, sound \in BOOLEAN, turn \in {"", "t1"}, uuid \in {"", "M1", "m2"},
        message \in {{}, {"self"}, {"text"}, {"chat_text"}, {"plain_text"}, {"content"},
                     {"chat_text", "content"}, {"chat_text", "plain_text"}}}
    \cup {Request(Envelope("q1", "", "", "", "java_to_client"), TRUE, "t1", "m1", {"text"}, items) :
        items \in MCItemLists}

Proposal(named, nested, inner, outer) ==
    [named |-> named, nested |-> nested, inner |-> inner, outer |-> outer]

MCNamed ==
    {[id |-> w] : w \in {"switch_schedule", "set-schedule", "work", "sit", "follow", "emoji", "Dance"}}
    \cup {[type |-> "", name |-> "switch_work_task", id |-> "sit"], <<>>}

MCParameters == {
    <<>>, [schedule |-> "DAY"], [schedule |-> "NIGHT"], [schedule |-> "", value |-> "night"],
    [task_id |-> "None"], [task_id |-> "attack", entity_id |-> "7"], [task_id |-> "attack", entity_id |-> "8"],
    [task_id |-> "feed", entity_id |-> "True", target_entity_id |-> "7"],
    [value |-> "farm", entity_id |-> "soon", target_entity_id |-> "7"],
    [sit |-> "maybe", value |-> "True"], [enabled |-> "0"],
    [kind |-> "text"], [kind |-> "", mode |-> "image"]}

MCProposals ==
    {Proposal(named, TRUE, params, <<>>) : named \in MCNamed, params \in MCParameters}
    \cup {Proposal(named, FALSE, <<>>, params) : named \in MCNamed, params \in MCParameters}
    \cup {Proposal([id |-> "switch_schedule"], TRUE, [schedule |-> v], [schedule |-> "DAY"]) :
             v \in {"", "NIGHT"}}

MCProposalLists ==
    {<<p>> : p \in MCProposals}
    \cup {<<Proposal([id |-> "Dance"], TRUE, <<>>, <<>>), p,
            Proposal([id |-> "work"], TRUE, [task_id |-> "attack"], <<>>)>> :
          p \in {q \in MCProposals : q.nested}}

MCInit == Init /\ PayloadInit
MCNext ==
    \/ stage = "idle" /\ Next /\ UNCHANGED payloadVars
    \/ arrived = 0 /\ now = 1 /\ PayloadNext /\ UNCHANGED vars
MCSpec == MCInit /\ [][MCNext]_<<vars, payloadVars>>
=============================================================================
