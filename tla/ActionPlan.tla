----------------------------- MODULE ActionPlan -----------------------------
(***************************************************************************)
(* Which Java actions a reply takes along: the actions a turn request      *)
(* offers, as the prompt shows them (src/src/maid_turn/turn_context.py),   *)
(* and what is left of the model's proposals once they are checked against *)
(* them (src/src/maid_turn/action_planner.py).  Nothing here has state.    *)
(* An offered item is a record of its id, its name, the enum of the        *)
(* parameter its type reads, whether the schema around it is too long to   *)
(* be shown whole, and its choices.  A proposal has the words it gives for *)
(* its type and its parameters, beside them (outer) or nested (inner).     *)
(* Items, choices and proposals that are not JSON objects are skipped, and *)
(* left out here.                                                          *)
(***************************************************************************)
EXTENDS Naturals, Sequences, FiniteSets, SequencesExt

CONSTANTS
    Words,         \* what may stand in a field: strings, numbers and booleans
    Blank,         \* a blank string; outside an enum also null
    Null,          \* null in an enum
    Folded,        \* a word in lower case, with "-" and "." as "_"
    Upper,         \* a word in upper case
    Booleans,      \* the words that are JSON booleans
    Numbers,       \* the integer a word stands for, where it stands for one
    SummaryLimit,  \* items the summary shows: 8
    EnumLimit,     \* values of an enum it shows if the schema is long: 80
    ChoiceLimit    \* choices it shows: 80

ASSUME PlanAssumption ==
    /\ Blank \notin Words /\ Null \notin Words \cup {Blank}
    /\ "None" \in Words /\ \A w \in Words : Upper[w] # "None"
    /\ Folded \in [Words -> STRING] /\ Upper \in [Words -> STRING]
    /\ Booleans \subseteq Words
    /\ DOMAIN Numbers \subseteq Words \ Booleans
    /\ \A w \in DOMAIN Numbers : Numbers[w] \in Nat
    /\ SummaryLimit \in Nat /\ EnumLimit \in Nat /\ ChoiceLimit \in Nat

Get(fields, key) == IF key \in DOMAIN fields THEN fields[key] ELSE Blank

\* first_non_blank
FirstWord(fields, keys) ==
    LET i == SelectInSeq(keys, LAMBDA key : Get(fields, key) # Blank)
    IN  IF i = 0 THEN Blank ELSE Get(fields, keys[i])

Alias == [
    sit |-> "switch_sit", set_sit |-> "switch_sit", sitting |-> "switch_sit",
    follow |-> "switch_follow_state", set_follow |-> "switch_follow_state",
    following |-> "switch_follow_state",
    schedule |-> "switch_schedule", set_schedule |-> "switch_schedule",
    task |-> "switch_work_task", work |-> "switch_work_task",
    work_task |-> "switch_work_task", set_task |-> "switch_work_task",
    emoji |-> "show_emoji_bubble", emoji_bubble |-> "show_emoji_bubble",
    show_emoji |-> "show_emoji_bubble", show_maid_emoji |-> "show_emoji_bubble"]

\* _canonical_action_type
Canonical(w) ==
    IF w = Blank THEN Blank
    ELSE IF Folded[w] \in DOMAIN Alias THEN Alias[Folded[w]] ELSE Folded[w]

----------------------------------------------------------------------------
(* What Java offers.                                                       *)

ItemWord(item) == FirstWord(item, <<"id", "name">>)
TypeOf(item) == Canonical(ItemWord(item))

\* _capability_summary, and the items of it that _available_actions keeps
Shown(items) == {i \in DOMAIN items : i <= SummaryLimit /\ TypeOf(items[i]) # Blank}

\* _available_actions: of two items of one type, the later
Offers(items, type) ==
    {i \in Shown(items) :
        /\ TypeOf(items[i]) = type
        /\ \A j \in Shown(items) : TypeOf(items[j]) = type => j <= i}

\* str(), which makes a word of null
AsText(value) == IF value = Null THEN "None" ELSE value

\* _compact_schema: a schema that is too long has its enums cut and put into words;
\* the property is one of the first twenty
EnumShown(item) ==
    IF item.large THEN {AsText(item.enum[i]) : i \in {j \in DOMAIN item.enum : j <= EnumLimit}}
    ELSE {item.enum[i] : i \in DOMAIN item.enum}

\* _enum_values
EnumValues(item) == EnumShown(item) \ {Blank, Null}

\* _compact_choices, and of what it shows the ids; one without an id takes a place too
Described(choice) == choice.id # Blank \/ choice.named
ChoiceIds(item) ==
    LET choices == item.choices
        place(i) == Cardinality({j \in DOMAIN choices : j <= i /\ Described(choices[j])})
    IN  {choices[i].id : i \in {j \in DOMAIN choices : place(j) <= ChoiceLimit}} \ {Blank}

\* _task_ids
TaskIds(item) == EnumValues(item) \cup ChoiceIds(item)

\* _nearby_entity_ids
Nearby(entities) == {Numbers[w] : w \in entities \cap DOMAIN Numbers}

----------------------------------------------------------------------------
(* What the model proposes.                                                *)

ProposedType(proposal) ==
    Canonical(FirstWord(proposal.named, <<"type", "action", "tool_id", "name", "id">>))

\* mutant: what is nested is taken for one more parameter
ParametersBeside(proposal) == proposal.outer

\* _action_parameters: a key that is nested counts even if its value is blank
Parameters(proposal) ==
    IF ~proposal.nested THEN proposal.outer
    ELSE [key \in DOMAIN proposal.inner \cup DOMAIN proposal.outer |->
            IF key \in DOMAIN proposal.inner THEN proposal.inner[key] ELSE proposal.outer[key]]

Truthy == {"true", "yes", "1", "on"}
Falsy  == {"false", "no", "0", "off"}
FoldedAt(fields, key) == IF Get(fields, key) = Blank THEN "" ELSE Folded[Get(fields, key)]

\* _bool_value: the values it may return; what is neither is passed over
BoolAt(fields, keys) == SelectInSeq(keys, LAMBDA key : FoldedAt(fields, key) \in Truthy \cup Falsy)
BoolValue(fields, keys) ==
    LET i == BoolAt(fields, keys)
    IN  IF i = 0 THEN {} ELSE {IF FoldedAt(fields, keys[i]) \in Truthy THEN "true" ELSE "false"}

\* _int_value: booleans are passed over, another word that is no number ends it
IntValue(fields, keys) ==
    LET i == SelectInSeq(keys, LAMBDA key : Get(fields, key) \notin Booleans \cup {Blank})
    IN  IF i = 0 \/ Get(fields, keys[i]) \notin DOMAIN Numbers THEN {}
        ELSE {Numbers[Get(fields, keys[i])]}

\* _emoji_kind
EmojiKind(fields) ==
    LET word == FirstWord(fields, <<"kind", "emoji_kind", "mode", "value">>)
    IN  IF word # Blank /\ Folded[word] \in {"kaomoji", "text", "routine_kaomoji"}
        THEN "kaomoji" ELSE "image"

UpperWord(word) == IF word = Blank THEN Blank ELSE Upper[word]

\* mutant: any entity the model names is taken
AnyEntity(fields, near) == IntValue(fields, <<"entity_id", "target_entity_id">>)

\* the entity of a work task is dropped, and the task kept, unless it is nearby
Entity(fields, near) == IntValue(fields, <<"entity_id", "target_entity_id">>) \cap near

\* _normalize_action: the value each type takes from the parameters, or none
Values(fields, item) == [
    switch_sit          |-> BoolValue(fields, <<"sit", "value", "enabled">>),
    switch_follow_state |-> BoolValue(fields, <<"follow", "value", "enabled">>),
    switch_schedule     |-> {UpperWord(FirstWord(fields, <<"schedule", "value">>))}
                              \cap EnumValues(item),
    switch_work_task    |-> {FirstWord(fields, <<"task_id", "value">>)} \cap TaskIds(item),
    show_emoji_bubble   |-> {k \in {EmojiKind(fields)} :
                               EnumValues(item) = {} \/ k \in EnumValues(item)}]

\* _normalize_action: the one action, or none; any other type is rejected
Normalized(type, fields, item, near) ==
    {[type   |-> type, value |-> v,
      entity |-> IF type = "switch_work_task" THEN Entity(fields, near) ELSE {}] :
        v \in IF type \in DOMAIN Values(fields, item) THEN Values(fields, item)[type] ELSE {}}

\* one turn of the loop of _validated_actions: nothing, unless the type is offered
Accepted(proposal, items, near) ==
    LET type == ProposedType(proposal)
    IN  UNION {Normalized(type, Parameters(proposal), items[i], near) : i \in Offers(items, type)}

\* _validated_actions: what is kept, under the place it was proposed in
Plan(proposals, items, near) ==
    [i \in {j \in DOMAIN proposals : Accepted(proposals[j], items, near) # {}} |->
        CHOOSE action \in Accepted(proposals[i], items, near) : TRUE]
=============================================================================
