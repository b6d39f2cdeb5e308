------------------------- MODULE TurnPayloadProofs -------------------------
(***************************************************************************)
(* For any requests, offers and proposals: a plan holds nothing the        *)
(* request did not offer and can hold all it was shown, a routed turn is   *)
(* lost only for text under chat_text, and every terminal frame passes its *)
(* own validation and fits its request.                                    *)
(***************************************************************************)
EXTENDS TurnPayload, TLAPS

----------------------------------------------------------------------------
(* The plan.                                                               *)

\* words and blanks, as first_non_blank sees them
Worded(fields) == \A key \in DOMAIN fields : fields[key] \in Words \cup {Blank}

\* No word in upper case is "None".
LEMMA UpperIsNotNone ==
    ASSUME NEW fields, Worded(fields), NEW keys
    PROVE  UpperWord(FirstWord(fields, keys)) # "None"
<1>1. FirstWord(fields, keys) \in Words \cup {Blank}
  <2>1. \A key : Get(fields, key) \in Words \cup {Blank}
    BY DEF Get, Worded
  <2> QED
    BY <2>1 DEF FirstWord
<1>2. Blank # "None"
  BY PlanAssumption
<1> QED
  BY <1>1, <1>2, PlanAssumption DEF UpperWord

\* What may be read in an enum is what stands there, or the word a null becomes.
LEMMA ReadOrNull ==
    ASSUME NEW item, NEW v \in EnumValues(item)
    PROVE  v \in Declared(item) \/ (v = "None" /\ v \in NullRead(item))
<1>1. v # Blank /\ v # Null /\ v \in EnumShown(item)
  BY DEF EnumValues
<1>2. CASE item.large
  <2>1. PICK i \in DOMAIN item.enum : v = AsText(item.enum[i])
    BY <1>1, <1>2 DEF EnumShown
  <2>2. CASE item.enum[i] = Null
    <3>1. v = "None"
      BY <2>1, <2>2 DEF AsText
    <3>2. i \in {j \in DOMAIN item.enum : item.large /\ item.enum[j] = Null}
      BY <1>2, <2>2
    <3> QED
      BY <3>1, <3>2 DEF NullRead
  <2>3. CASE item.enum[i] # Null
    BY <1>1, <2>1, <2>3 DEF AsText, Declared
  <2> QED
    BY <2>2, <2>3
<1>3. CASE ~item.large
  BY <1>1, <1>3 DEF EnumShown, Declared
<1> QED
  BY <1>2, <1>3

\* What _normalize_action returns is covered by the item it was checked against.
LEMMA NormalizedIsCovered ==
    ASSUME NEW type, NEW fields, NEW item, NEW near, Worded(fields), TypeOf(item) = type,
           NEW action \in Normalized(type, fields, item, near)
    PROVE  /\ Covers(item, action)
           /\ action.entity \subseteq near
           /\ action.entity # {} => action.type = "switch_work_task"
<1> DEFINE values == Values(fields, item)
<1>1. /\ type \in DOMAIN values /\ action.value \in values[type]
      /\ action.type = type
      /\ action.entity = IF type = "switch_work_task" THEN Entity(fields, near) ELSE {}
  BY DEF Normalized
<1>2. Entity(fields, near) \subseteq near
  BY DEF Entity
<1>3. CASE type = "switch_sit"
  <2>1. action.value \in {"true", "false"}
    BY <1>1, <1>3 DEF Values, BoolValue
  <2> QED
    BY <1>1, <1>3, <2>1 DEF Covers
<1>4. CASE type = "switch_follow_state"
  <2>1. action.value \in {"true", "false"}
    BY <1>1, <1>4 DEF Values, BoolValue
  <2> QED
    BY <1>1, <1>4, <2>1 DEF Covers
<1>5. CASE type = "switch_schedule"
  <2>1. /\ action.value \in EnumValues(item)
        /\ action.value = UpperWord(FirstWord(fields, <<"schedule", "value">>))
    BY <1>1, <1>5 DEF Values
  <2>2. action.value \in Declared(item)
    BY <2>1, ReadOrNull, UpperIsNotNone
  <2> QED
    BY <1>1, <1>5, <2>2 DEF Covers
<1>6. CASE type = "switch_work_task"
  <2>1. action.value \in TaskIds(item)
    BY <1>1, <1>6 DEF Values
  <2>2. ChoiceIds(item) \subseteq Declared(item)
    BY DEF ChoiceIds, Declared
  <2>3. action.value \in Declared(item) \cup NullRead(item)
    BY <2>1, <2>2, ReadOrNull DEF TaskIds
  <2> QED
    BY <1>1, <1>2, <1>6, <2>3 DEF Covers
<1>7. CASE type = "show_emoji_bubble"
  <2>1. /\ EnumValues(item) = {} \/ action.value \in EnumValues(item)
        /\ action.value \in {"kaomoji", "image"}
    BY <1>1, <1>7 DEF Values, EmojiKind
  <2>2. EnumValues(item) = {} \/ action.value \in Declared(item)
    BY <2>1, ReadOrNull
  <2> QED
    BY <1>1, <1>7, <2>2 DEF Covers
<1>8. type \in {"switch_sit", "switch_follow_state", "switch_schedule", "switch_work_task",
                "show_emoji_bubble"}
  BY <1>1 DEF Values
<1> QED
  BY <1>3, <1>4, <1>5, <1>6, <1>7, <1>8

\* Every planned action comes from an item of the request.
LEMMA PlanComesFromItems ==
    ASSUME NEW list, NEW items, NEW near, NEW i \in DOMAIN Plan(list, items, near),
           Worded(list[i].inner), Worded(list[i].outer)
    PROVE  LET action == Plan(list, items, near)[i]
           IN  /\ \E k \in DOMAIN items : Covers(items[k], action)
               /\ action.entity \subseteq near
               /\ action.entity # {} => action.type = "switch_work_task"
<1> DEFINE action == Plan(list, items, near)[i]
           type == ProposedType(list[i])
<1>1. action \in Accepted(list[i], items, near)
  BY DEF Plan
<1>2. PICK k \in Offers(items, type) :
        action \in Normalized(type, Parameters(list[i]), items[k], near)
  BY <1>1 DEF Accepted
<1>3. k \in DOMAIN items /\ TypeOf(items[k]) = type
  BY DEF Offers, Shown
<1>4. Worded(Parameters(list[i]))
  BY DEF Worded, Parameters
<1> QED
  BY <1>2, <1>3, <1>4, NormalizedIsCovered

\* first_non_blank gives what stands under the first key with something under it.
LEMMA FirstWordIs ==
    ASSUME NEW fields, NEW keys, Len(keys) \in Nat, NEW n \in 1 .. Len(keys),
           Get(fields, keys[n]) # Blank, \A m \in 1 .. (n - 1) : Get(fields, keys[m]) = Blank
    PROVE  FirstWord(fields, keys) = Get(fields, keys[n])
<1> DEFINE I == {i \in 1 .. Len(keys) : Get(fields, keys[i]) # Blank}
           least == CHOOSE x \in I : \A y \in I : x =< y
           first == IF I # {} THEN least ELSE 0
<1>1. FirstWord(fields, keys) = IF first = 0 THEN Blank ELSE Get(fields, keys[first])
  BY DEF FirstWord, SelectInSeq, Min
<1>2. n \in I /\ \A y \in I : n =< y
  OBVIOUS
<1>3. \A x \in I : (\A y \in I : x =< y) => x = n
  BY <1>2
<1> HIDE DEF I
<1>4. least = n
  BY <1>2, <1>3
<1> HIDE DEF least
<1>5. first = n /\ n # 0
  BY <1>2, <1>4
<1> QED
  BY <1>1, <1>5

\* A value that is shown, nested under the own key of a type, is the value of that type.
LEMMA GivenIsTaken ==
    ASSUME NEW p, p.nested, NEW item, NEW type \in DOMAIN OwnKey,
           NEW given, given = Get(p.inner, OwnKey[type]),
           given \in Plannable(item)[type]
    PROVE  type \in DOMAIN Values(Parameters(p), item) /\ Values(Parameters(p), item)[type] = {given}
<1> DEFINE fields == Parameters(p)
<1>1. given # Blank
  BY DEF Plannable, OwnKey, ChoiceIds
<1>2. Get(fields, OwnKey[type]) = given
  BY <1>1 DEF Get, Parameters
<1> HIDE DEF fields
<1>3. ASSUME NEW own, Get(fields, own) = given
      PROVE  FirstWord(fields, <<own, "value">>) = given
  <2> DEFINE keys == <<own, "value">>
  <2>1. Len(keys) = 2 /\ keys[1] = own
    OBVIOUS
  <2> HIDE DEF keys
  <2>2. 1 \in 1 .. Len(keys) /\ \A m \in 1 .. (1 - 1) : Get(fields, keys[m]) = Blank
    BY <2>1
  <2>3. FirstWord(fields, keys) = Get(fields, keys[1])
    BY <1>1, <1>3, <2>1, <2>2, FirstWordIs
  <2> QED
    BY <1>3, <2>1, <2>3 DEF keys
<1>4. CASE type = "switch_schedule"
  <2>1. OwnKey[type] = "schedule"
    BY <1>4 DEF OwnKey
  <2>2. FirstWord(fields, <<"schedule", "value">>) = given
    BY <1>2, <1>3, <2>1
  <2> QED
    BY <1>4, <2>2 DEF Values, Plannable, EnumValues, fields
<1>5. CASE type = "switch_work_task"
  <2>1. OwnKey[type] = "task_id"
    BY <1>5 DEF OwnKey
  <2>2. FirstWord(fields, <<"task_id", "value">>) = given
    BY <1>2, <1>3, <2>1
  <2> QED
    BY <1>5, <2>2 DEF Values, Plannable, EnumValues, TaskIds, fields
<1> QED
  BY <1>4, <1>5 DEF OwnKey

\* A proposal that names an item by its own word is of the type of the item.
LEMMA NamedIsType ==
    ASSUME NEW p, NEW item, p.named = [id |-> ItemWord(item)], TypeOf(item) # Blank
    PROVE  ProposedType(p) = TypeOf(item)
<1> DEFINE w == ItemWord(item)
           named == [id |-> w]
           keys == <<"type", "action", "tool_id", "name", "id">>
<1>1. w # Blank
  BY DEF TypeOf, Canonical
<1>2. Get(named, "id") = w
  BY DEF Get
<1>3. \A key \in {"type", "action", "tool_id", "name"} : Get(named, key) = Blank
  BY DEF Get
<1>4. /\ Len(keys) = 5 /\ keys[5] = "id"
      /\ keys[1] = "type" /\ keys[2] = "action" /\ keys[3] = "tool_id" /\ keys[4] = "name"
  OBVIOUS
<1> HIDE DEF w, keys, named
<1>5. Get(named, keys[5]) = w /\ \A m \in 1 .. (5 - 1) : Get(named, keys[m]) = Blank
  <2>1. \A m \in 1 .. (5 - 1) : m = 1 \/ m = 2 \/ m = 3 \/ m = 4
    OBVIOUS
  <2> QED
    BY <1>2, <1>3, <1>4, <2>1
<1>6. FirstWord(named, keys) = w
  <2>1. 5 \in 1 .. Len(keys) /\ Len(keys) \in Nat
    BY <1>4
  <2> QED
    BY <1>1, <1>5, <2>1, FirstWordIs
<1> QED
  BY <1>6 DEF ProposedType, TypeOf, w, keys, named

\* Of the items shown, the only one of its type is the one offered for it.
LEMMA OneIsOffered ==
    ASSUME NEW items, Len(items) \in Nat, DOMAIN items = 1 .. Len(items), NEW k \in Shown(items),
           \A j \in Shown(items) : TypeOf(items[j]) = TypeOf(items[k]) => j = k
    PROVE  Offers(items, TypeOf(items[k])) = {k}
<1>1. k <= k
  BY DEF Shown
<1>2. \A i \in Offers(items, TypeOf(items[k])) : i = k
  BY DEF Offers
<1>3. k \in Offers(items, TypeOf(items[k]))
  BY <1>1 DEF Offers
<1> QED
  BY <1>2, <1>3

\* What the context shows can be planned, whoever else is near.
PlansShown(list, items, actions) == \A i \in DOMAIN list :
    \A k \in Shown(items) :
       LET own == Get(list[i].inner, OwnKey[TypeOf(items[k])])
       IN  /\ list[i].named = [id |-> ItemWord(items[k])] /\ list[i].nested
           /\ \A j \in Shown(items) : TypeOf(items[j]) = TypeOf(items[k]) => j = k
           /\ TypeOf(items[k]) \in DOMAIN OwnKey
           /\ own \in Plannable(items[k])[TypeOf(items[k])]
           => i \in DOMAIN actions /\ actions[i].type = TypeOf(items[k]) /\ actions[i].value = own

LEMMA ShownIsAccepted ==
    ASSUME NEW items, Len(items) \in Nat, DOMAIN items = 1 .. Len(items), NEW list, NEW near
    PROVE  PlansShown(list, items, Plan(list, items, near))
<1> SUFFICES ASSUME NEW i \in DOMAIN list, list[i].nested,
                    NEW k \in Shown(items), list[i].named = [id |-> ItemWord(items[k])],
                    \A j \in Shown(items) : TypeOf(items[j]) = TypeOf(items[k]) => j = k,
                    TypeOf(items[k]) \in DOMAIN OwnKey,
                    Get(list[i].inner, OwnKey[TypeOf(items[k])])
                      \in Plannable(items[k])[TypeOf(items[k])]
             PROVE  /\ i \in DOMAIN Plan(list, items, near)
                    /\ Plan(list, items, near)[i].type = TypeOf(items[k])
                    /\ Plan(list, items, near)[i].value
                         = Get(list[i].inner, OwnKey[TypeOf(items[k])])
  BY DEF PlansShown
<1> DEFINE p == list[i]
           type == TypeOf(items[k])
           given == Get(p.inner, OwnKey[type])
           kept == Accepted(p, items, near)
<1>1. ProposedType(p) = type
  BY NamedIsType DEF Shown
<1>2. Offers(items, type) = {k}
  BY OneIsOffered
<1>3. kept = Normalized(type, Parameters(p), items[k], near)
  BY <1>1, <1>2 DEF Accepted
<1>4. /\ type \in DOMAIN Values(Parameters(p), items[k])
      /\ Values(Parameters(p), items[k])[type] = {given}
  BY GivenIsTaken
<1>5. kept # {} /\ \A a \in kept : a.type = type /\ a.value = given
  <2> DEFINE action(v) == [type |-> type, value |-> v,
                           entity |-> IF type = "switch_work_task"
                                      THEN Entity(Parameters(p), near) ELSE {}]
  <2>1. kept = {action(given)}
    <3> HIDE DEF kept, p, type, given
    <3> QED
      BY <1>3, <1>4 DEF Normalized
  <2> HIDE DEF kept, p, type, given
  <2> QED
    BY <2>1
<1> DEFINE chosen == CHOOSE a \in kept : TRUE
<1>6. chosen \in kept
  BY <1>5
<1>7. i \in DOMAIN Plan(list, items, near) /\ Plan(list, items, near)[i] = chosen
  BY <1>5 DEF Plan
<1> QED
  BY <1>5, <1>6, <1>7

----------------------------------------------------------------------------
(* The invariant.                                                          *)

\* what decoding and routing have established of a request that got further
Known ==
    /\ TheRequest \in Requests
    /\ Decodes(TheRequest.envelope)
    /\ envelope = <<Decoded(TheRequest.envelope)>>
    /\ Routes(TheRequest, envelope[1])

PayloadInv ==
    /\ stage \in {"idle", "dropped", "refused", "dispatched", "lost", "waiting", "planned",
                  "answered"}
    /\ stage \in {"idle", "dispatched", "waiting"} => plan = <<>> /\ proposals = <<>>
    /\ proposals # <<>> => TheRequest \in Requests /\ proposals \in ProposalLists
    /\ stage \in {"dispatched", "waiting", "planned"} => Known /\ answer = <<>>
    /\ stage = "idle" => answer = <<>>
    /\ \/ plan = <<>> /\ proposals = <<>>
       \/ plan = Plan(proposals, TheRequest.items, Nearby(TheRequest.entities))
    /\ LostOnlyForChatText
    /\ answer # <<>> => Fits(answer[1])

\* A known request makes a terminal frame that validates, and fits.
LEMMA TerminalIsSound ==
    ASSUME Known, NEW actions, NEW outcome \in {"reply", "no_reply"}
    PROVE  LET frame == Terminal(outcome, actions)
           IN  Decodes(frame.envelope) /\ Completes(frame.content) /\ Fits(frame)
<1> DEFINE r == TheRequest
           e == Decoded(r.envelope)
           frame == Terminal(outcome, actions)
<1>1. /\ r.envelope \in Envelopes /\ r.turn \in Words \cup {Blank} /\ r.uuid \in Words
      /\ Blank \notin Words /\ Odd \notin Words \cup {Blank}
      /\ JavaDefault \in Words /\ ClientDefault \in Words
  BY PlanAssumption, PayloadAssumption DEF Known, Routes
<1>2. e.id \in Words /\ e.request \in Words /\ e.source \in Words /\ e.target \in Words
  BY <1>1 DEF Known, Decodes, Decoded, OrElse, Envelopes
<1>3. envelope[1] = e
  BY DEF Known
<1>4. TurnId(r, e) \in Words /\ (r.turn # Blank => TurnId(r, e) = r.turn)
  BY <1>1, <1>2 DEF TurnId, OrElse
<1>5. /\ frame.envelope = [id |-> TurnId(r, e), request |-> Blank, source |-> e.target,
                           target |-> e.source, direction |-> "client_to_java"]
      /\ frame.content = [turn |-> TurnId(r, e), uuid |-> r.uuid, outcome |-> outcome,
                          actions |-> actions]
      /\ frame.reply_to = e.request
  BY <1>3 DEF Terminal, Encoded, Addressed
<1>6. Decodes(frame.envelope)
  BY <1>1, <1>2, <1>4, <1>5 DEF Decodes, Directions
<1>7. Completes(frame.content)
  BY <1>1, <1>4, <1>5 DEF Completes
<1>8. Fits(frame)
  BY <1>1, <1>2, <1>4, <1>5 DEF Fits, Decoded, OrElse
<1> QED
  BY <1>6, <1>7, <1>8

\* Sending keeps the invariant.
LEMMA SendKeeps ==
    ASSUME PayloadInv, Known, NEW actions, NEW outcome \in {"reply", "no_reply"},
           Send(outcome, actions)
    PROVE  PayloadInv'
<1>1. /\ stage' = "answered" /\ answer' = <<Terminal(outcome, actions)>>
      /\ UNCHANGED <<request, envelope, proposals, plan>>
  BY TerminalIsSound DEF Send
<1>2. Fits(answer'[1])
  BY <1>1, TerminalIsSound
<1>3. TheRequest' = TheRequest
  BY <1>1 DEF TheRequest
<1>4. (answer # <<>> => Fits(answer[1]))'
  BY <1>1, <1>2, <1>3 DEF Fits
<1> QED
  BY <1>1, <1>3, <1>4 DEF PayloadInv, LostOnlyForChatText

LEMMA PayloadInitially == PayloadInit => PayloadInv
BY DEF PayloadInit, PayloadInv, LostOnlyForChatText

LEMMA PayloadStep == PayloadInv /\ [PayloadNext]_payloadVars => PayloadInv'
<1> SUFFICES ASSUME PayloadInv, [PayloadNext]_payloadVars PROVE PayloadInv'
  OBVIOUS
<1>1. ASSUME NEW r \in Requests, stage = "idle", Undecodable(r) PROVE PayloadInv'
  BY <1>1 DEF PayloadInv, Undecodable, Receive, LostOnlyForChatText
<1>2. ASSUME NEW r \in Requests, stage = "idle", Refused(r) PROVE PayloadInv'
  BY <1>2 DEF PayloadInv, Refused, Receive, LostOnlyForChatText
<1>3. ASSUME NEW r \in Requests, stage = "idle", Dispatched(r) PROVE PayloadInv'
  <2>1. TheRequest' = r /\ envelope' = <<Decoded(r.envelope)>>
    BY <1>3 DEF Dispatched, Receive, TheRequest
  <2>2. Known'
    BY <1>3, <2>1 DEF Dispatched, Known
  <2> QED
    BY <1>3, <2>2 DEF PayloadInv, Dispatched, Receive, LostOnlyForChatText
<1>4. ASSUME Lost PROVE PayloadInv'
  <2>1. Known /\ TheRequest' = TheRequest /\ stage' = "lost"
    BY <1>4 DEF PayloadInv, Lost, TheRequest
  <2>2. TheRequest.message \subseteq {"self", "text", "chat_text", "plain_text", "content"}
    BY <2>1, PayloadAssumption DEF Known
  <2>3. TheRequest.message = {"chat_text"}
    BY <1>4, <2>1, <2>2 DEF Lost, Known, Routes, Parses
  <2>4. (answer # <<>> => Fits(answer[1]))'
    BY <1>4 DEF PayloadInv, Lost
  <2> QED
    BY <1>4, <2>1, <2>3, <2>4 DEF PayloadInv, Lost, LostOnlyForChatText
<1>5. ASSUME TurnAway PROVE PayloadInv'
  BY <1>5, SendKeeps DEF PayloadInv, TurnAway
<1>6. ASSUME Await PROVE PayloadInv'
  BY <1>6 DEF PayloadInv, Await, LostOnlyForChatText, Known, TheRequest
<1>7. ASSUME NEW list \in ProposalLists, stage = "waiting", PlanActions(list)
      PROVE  PayloadInv'
  BY <1>7 DEF PayloadInv, PlanActions, LostOnlyForChatText, Known, TheRequest
<1>8. ASSUME Reply PROVE PayloadInv'
  BY <1>8, SendKeeps DEF PayloadInv, Reply
<1>9. ASSUME NoReply PROVE PayloadInv'
  BY <1>9, SendKeeps DEF PayloadInv, NoReply
<1>10. ASSUME UNCHANGED payloadVars PROVE PayloadInv'
  BY <1>10 DEF PayloadInv, payloadVars, LostOnlyForChatText, Known, Fits, TheRequest
<1> QED
  BY <1>1, <1>2, <1>3, <1>4, <1>5, <1>6, <1>7, <1>8, <1>9, <1>10 DEF PayloadNext

\* The inductive invariant: what decoding and routing established still holds when
\* the answer is built, and the plan is the one made for this request.
THEOREM PayloadInvariant == PayloadSpec => []PayloadInv
BY PayloadInitially, PayloadStep, PTL DEF PayloadSpec

----------------------------------------------------------------------------
(* What follows.                                                           *)

\* No terminal frame fails its own validation, which would leave its turn begun and
\* unsettled, and each goes back to the asking endpoint with the turn it is for.
THEOREM AnswersFit == PayloadSpec => []AnswerFits
<1>1. PayloadInv => AnswerFits
  BY DEF PayloadInv, AnswerFits, Fits
<1> QED
  BY <1>1, PayloadInvariant, PTL

\* A routed turn is lost in the turn context only if its text is under chat_text alone.
THEOREM OnlyChatTextIsLost == PayloadSpec => []LostOnlyForChatText
<1>1. PayloadInv => LostOnlyForChatText
  BY DEF PayloadInv
<1> QED
  BY <1>1, PayloadInvariant, PTL

\* Whatever the model proposes, the plan holds only what the request offered, and the
\* work task "None" only where a null of a long schema was shown as one.
THEOREM PlansAreOffered == PayloadSpec => []PlanIsOffered
<1>1. ASSUME PayloadInv PROVE PlanIsOffered
  <2> DEFINE items == TheRequest.items
             near == Nearby(TheRequest.entities)
  <2> SUFFICES ASSUME NEW i \in DOMAIN plan
               PROVE  /\ \E k \in DOMAIN items : Covers(items[k], plan[i])
                      /\ \A n \in plan[i].entity :
                           /\ plan[i].type = "switch_work_task"
                           /\ \E w \in TheRequest.entities \cap DOMAIN Numbers : Numbers[w] = n
    BY DEF PlanIsOffered
  <2>1. plan = Plan(proposals, items, near)
    BY <1>1 DEF PayloadInv
  <2>2. i \in DOMAIN proposals /\ proposals \in ProposalLists
    <3> HIDE DEF items, near
    <3>1. i \in DOMAIN proposals
      BY <2>1 DEF Plan
    <3>2. proposals # <<>>
      BY <3>1
    <3> QED
      BY <1>1, <3>1, <3>2 DEF PayloadInv
  <2>3. Worded(proposals[i].inner) /\ Worded(proposals[i].outer)
    BY <2>2, PayloadAssumption DEF Worded
  <2>4. /\ \E k \in DOMAIN items : Covers(items[k], plan[i])
        /\ plan[i].entity \subseteq near
        /\ plan[i].entity # {} => plan[i].type = "switch_work_task"
    <3> HIDE DEF items, near
    <3> QED
      BY <2>1, <2>3, PlanComesFromItems
  <2> QED
    BY <2>4 DEF Nearby
<1> QED
  BY <1>1, PayloadInvariant, PTL

\* What the context shows of an action, the model can have: a proposal that names the
\* one shown item of its type and gives it a value that is shown, in its enum or, for a
\* work task, among its choices, is planned with that value, whatever else is proposed
\* beside it; only a schedule has to be in upper case.
THEOREM ShownCanBePlanned == PayloadSpec => []ShownIsPlannable
<1>1. ASSUME PayloadInv PROVE ShownIsPlannable
  <2> DEFINE items == TheRequest.items
             near == Nearby(TheRequest.entities)
  <2> SUFFICES ASSUME proposals # <<>> PROVE ShownIsPlannable
    BY DEF ShownIsPlannable
  <2>1. plan = Plan(proposals, items, near) /\ TheRequest \in Requests
    BY <1>1 DEF PayloadInv
  <2>2. Len(items) \in Nat /\ DOMAIN items = 1 .. Len(items)
    BY <2>1, PayloadAssumption
  <2>3. PlansShown(proposals, items, plan)
    <3> HIDE DEF items, near
    <3> QED
      BY <2>1, <2>2, ShownIsAccepted
  <2> QED
    BY <2>3 DEF PlansShown, ShownIsPlannable
<1> QED
  BY <1>1, PayloadInvariant, PTL
============================================================================
