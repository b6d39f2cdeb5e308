-------------------------- MODULE ServerChatProofs --------------------------
(***************************************************************************)
(* Theorems about ServerChat, for any messages, rooms and redeliveries.    *)
(***************************************************************************)
EXTENDS ServerChat, Induction

----------------------------------------------------------------------------
(* The first context.                                                      *)

\* A room with contexts has one that came before all others of it.
LEMMA FirstIsLeast ==
    ASSUME TypeOK, NEW s \in Sessions, contexts[s] # {}
    PROVE  /\ FirstContext(s) \in contexts[s]
           /\ FirstContext(s) \in Frames
           /\ RoomOf[FirstContext(s)] = s
           /\ \A g \in contexts[s] : order[FirstContext(s)] <= order[g]
  <1>1. {order[f] : f \in contexts[s]} \in SUBSET Nat
    BY DEF TypeOK
  <1>2. {order[f] : f \in contexts[s]} # {}
    OBVIOUS
  <1>3. PICK n \in {order[f] : f \in contexts[s]} :
          \A m \in {order[f] : f \in contexts[s]} : n <= m
    BY <1>1, <1>2, LeastNat, Zenon
  <1>4. PICK f \in contexts[s] : \A g \in contexts[s] : order[f] <= order[g]
    BY <1>3
  <1>5. /\ FirstContext(s) \in contexts[s]
        /\ \A g \in contexts[s] : order[FirstContext(s)] <= order[g]
    BY <1>4 DEF FirstContext
  <1> QED
    BY <1>5 DEF TypeOK

\* Completing a session takes out its first context and its redeliveries only.
LEMMA CompletedDrops ==
    ASSUME TypeOK, NEW s \in Sessions
    PROVE  /\ Completed(s) \in [Sessions -> SUBSET Frames]
           /\ \A t \in Sessions : Completed(s)[t] \subseteq contexts[t]
           /\ \A t \in Sessions : \A f \in contexts[t] \ Completed(s)[t] :
                contexts[s] # {} /\ Same(f, FirstContext(s))
           /\ contexts[s] # {} => FirstContext(s) \notin Completed(s)[s]
  <1>1. CASE contexts[s] = {}
    BY <1>1 DEF Completed, TypeOK
  <1>2. CASE contexts[s] # {}
    <2>1. FirstContext(s) \in contexts[s] /\ RoomOf[FirstContext(s)] = s
      BY <1>2, FirstIsLeast
    <2>2. Completed(s) = [contexts EXCEPT ![s] =
                            {g \in @ : MessageOf[g] # MessageOf[FirstContext(s)]}]
      BY <1>2, <2>1 DEF Completed, Unregister
    <2> QED
      BY <1>2, <2>1, <2>2 DEF TypeOK, Same
  <1> QED
    BY <1>1, <1>2

\* A refused message takes itself and its redeliveries out of its room.
LEMMA UnregisterDrops ==
    ASSUME TypeOK, NEW f \in Frames
    PROVE  /\ Unregister(f) \in [Sessions -> SUBSET Frames]
           /\ \A t \in Sessions : Unregister(f)[t] \subseteq contexts[t]
           /\ \A t \in Sessions : \A g \in contexts[t] \ Unregister(f)[t] : Same(g, f)
  BY ChatAssumption DEF Unregister, TypeOK, Same

----------------------------------------------------------------------------
(* Types.                                                                  *)

LEMMA SendType ==
    ASSUME TypeOK, NEW s \in Sessions, NEW f \in Frames, Send(s, f)
    PROVE  answered' \in [Sessions -> Seq(Frames)]
  <1>1. answered[s] \in Seq(Frames)
    BY DEF TypeOK
  <1>2. Append(answered[s], f) \in Seq(Frames)
    BY <1>1
  <1> QED
    BY <1>2 DEF Send, TypeOK

LEMMA TypeStep == TypeOK /\ [Next]_vars => TypeOK'
  <1> SUFFICES ASSUME TypeOK, [Next]_vars PROVE TypeOK'
    OBVIOUS
  <1> USE ChatAssumption
  <1>1. ASSUME NEW f \in Frames, Handle(f) PROVE TypeOK'
    <2>1. contexts' \in [Sessions -> SUBSET Frames]
          /\ \A s \in Sessions : \A g \in contexts'[s] : RoomOf[g] = s
      BY <1>1 DEF Handle, Registered, TypeOK
    <2> QED
      BY <1>1, <2>1 DEF Handle, TypeOK
  <1>2. ASSUME NEW f \in Frames, NEW o \in {"accepted", "refused", "raised"}, Routed(f, o)
        PROVE  TypeOK'
    <2>1. contexts' \in [Sessions -> SUBSET Frames]
          /\ \A s \in Sessions : contexts'[s] \subseteq contexts[s]
      BY <1>2, UnregisterDrops DEF Routed, TypeOK
    <2>2. \A s \in Sessions : \A g \in contexts'[s] : RoomOf[g] = s
      BY <2>1 DEF TypeOK
    <2> QED
      BY <1>2, <2>1, <2>2 DEF Routed, TypeOK
  <1>3. CASE Teardown \/ TransportStops
    BY <1>3 DEF Teardown, TransportStops, TypeOK
  <1>4. ASSUME NEW s \in Sessions, HookGenerates(s) \/ HookSends(s) PROVE TypeOK'
    <2>1. FirstContext(s) \in Frames
      BY <1>4, FirstIsLeast DEF HookGenerates, HookSends, HookTakesOver
    <2>2. /\ UNCHANGED <<contexts, arrived, order, handle, service, cut>>
          /\ taken' = taken \cup {FirstContext(s)}
          /\ context' = [context EXCEPT ![s] = {FirstContext(s)}]
          /\ \E h \in {"generating", "sending"} : hook' = [hook EXCEPT ![s] = h]
      BY <1>4 DEF HookGenerates, HookSends, HookTakesOver, Send
    <2>3. answered' \in [Sessions -> Seq(Frames)]
      BY <1>4, <2>1, SendType DEF HookGenerates, HookSends, TypeOK
    <2>4. /\ hook' \in [Sessions -> {"idle", "generating", "sending"}]
          /\ context' \in [Sessions -> SUBSET Frames]
          /\ \A t \in Sessions : IF hook'[t] = "idle" THEN context'[t] = {}
                                 ELSE \E f \in Frames : context'[t] = {f}
      BY <2>1, <2>2 DEF TypeOK
    <2> QED
      BY <2>1, <2>2, <2>3, <2>4 DEF TypeOK
  <1>5. ASSUME NEW s \in Sessions, HookCompletes(s) PROVE TypeOK'
    <2>1. FirstContext(s) \in Frames
      BY <1>5, FirstIsLeast DEF HookCompletes, HookTakesOver
    <2>2. contexts' \in [Sessions -> SUBSET Frames]
          /\ \A t \in Sessions : contexts'[t] \subseteq contexts[t]
      BY <1>5, CompletedDrops DEF HookCompletes
    <2>3. \A t \in Sessions : \A g \in contexts'[t] : RoomOf[g] = t
      BY <2>2 DEF TypeOK
    <2> QED
      BY <1>5, <2>1, <2>2, <2>3 DEF HookCompletes, HookTakesOver, TypeOK
  <1>6. ASSUME NEW s \in Sessions, Generated(s) PROVE TypeOK'
    <2>1. PICK f \in context[s] : Send(s, f)
      BY <1>6 DEF Generated
    <2>2. f \in Frames
      BY DEF TypeOK
    <2>3. answered' \in [Sessions -> Seq(Frames)]
      BY <2>1, <2>2, SendType
    <2>4. /\ hook' \in [Sessions -> {"idle", "generating", "sending"}]
          /\ \A t \in Sessions : IF hook'[t] = "idle" THEN context[t] = {}
                                 ELSE \E g \in Frames : context[t] = {g}
      BY <1>6, <2>1 DEF Generated, Send, TypeOK
    <2> QED
      BY <1>6, <2>3, <2>4 DEF Generated, TypeOK
  <1>7. ASSUME NEW s \in Sessions, HookEnds(s) PROVE TypeOK'
    <2>1. contexts' \in [Sessions -> SUBSET Frames]
          /\ \A t \in Sessions : contexts'[t] \subseteq contexts[t]
      BY <1>7, CompletedDrops DEF HookEnds
    <2>2. \A t \in Sessions : \A g \in contexts'[t] : RoomOf[g] = t
      BY <2>1 DEF TypeOK
    <2>3. /\ hook' \in [Sessions -> {"idle", "generating", "sending"}]
          /\ context' \in [Sessions -> SUBSET Frames]
          /\ \A t \in Sessions : IF hook'[t] = "idle" THEN context'[t] = {}
                                 ELSE \E f \in Frames : context'[t] = {f}
      BY <1>7 DEF HookEnds, TypeOK
    <2> QED
      BY <1>7, <2>1, <2>2, <2>3 DEF HookEnds, TypeOK
  <1>8. ASSUME NEW s \in Sessions, HookCancelled(s) PROVE TypeOK'
    BY <1>8 DEF HookCancelled, TypeOK
  <1>9. CASE UNCHANGED vars
    BY <1>9 DEF vars, TypeOK
  <1> QED
    BY <1>1, <1>2, <1>3, <1>4, <1>5, <1>6, <1>7, <1>8, <1>9 DEF Next, HandleStep, HookStep

\* Every reachable state of the chat contexts has its type: a hook at work has
\* the one context it took up, and a context is listed under its own room only.
THEOREM TypeCorrect == Spec => []TypeOK
  <1>1. Init => TypeOK
    BY ChatAssumption DEF Init, TypeOK
  <1> QED
    BY <1>1, TypeStep, PTL DEF Spec

----------------------------------------------------------------------------
(* The order of the messages and the contexts the hooks took up.           *)

\* Frames are numbered as they arrive, no two alike; what a room lists, or a hook
\* has taken up, has arrived.
ArrivalInv ==
    /\ \A f \in Frames : order[f] <= arrived /\ (handle[f] = "new" <=> order[f] = 0)
    /\ \A f, g \in Frames : order[f] = order[g] /\ order[f] # 0 => f = g
    /\ \A s \in Sessions : \A f \in contexts[s] : order[f] # 0
    /\ \A f \in taken : order[f] # 0

\* Nothing a room lists is older than what its hooks took up, and what the hook is
\* at is the latest of that.
TakenInv ==
    /\ \A g \in taken : \A f \in contexts[RoomOf[g]] : order[g] <= order[f]
    /\ \A s \in Sessions : \A f \in context[s] :
         /\ f \in taken /\ RoomOf[f] = s
         /\ \A g \in taken : RoomOf[g] = s => order[g] <= order[f]
    /\ \A s \in Sessions : \A i \in DOMAIN answered[s] :
         answered[s][i] \in taken /\ RoomOf[answered[s][i]] = s

\* What a hook is at stays listed unless it is refused.
WorkInv == \A s \in Sessions : \A f \in context[s] : f \in contexts[s] \/ Refused(f)

\* A message that was answered, and whose hook was not cut short, is neither listed
\* nor worked for any more, but for the one a hook has just sent the answer of.
SentInv == \A s \in Sessions : \A i \in DOMAIN answered[s] :
    LET f == answered[s][i]
    IN  f \in cut \/ /\ f \in contexts[s] => f \in context[s]
                     /\ f \in context[s] => hook[s] = "sending"

ChatInv == ArrivalInv /\ TakenInv /\ WorkInv /\ SentInv
              /\ AnswersInOrder /\ AnsweredOnce /\ DroppedForAReason

LEMMA ArrivalStep ==
    ASSUME TypeOK, ArrivalInv, [Next]_vars
    PROVE  ArrivalInv'
  <1> USE ChatAssumption
  <1>1. ASSUME NEW f \in Frames, Handle(f) PROVE ArrivalInv'
    <2>1. /\ order' = [order EXCEPT ![f] = arrived + 1] /\ arrived' = arrived + 1
          /\ handle' = [handle EXCEPT ![f] = "routing"] /\ handle[f] = "new"
          /\ UNCHANGED taken
      BY <1>1 DEF Handle
    <2>2. /\ \A g \in Frames : order'[g] <= arrived' /\ (handle'[g] = "new" <=> order'[g] = 0)
          /\ \A g, h \in Frames : order'[g] = order'[h] /\ order'[g] # 0 => g = h
      BY <2>1 DEF ArrivalInv, TypeOK
    <2>3. \A s \in Sessions : contexts'[s] \subseteq contexts[s] \cup {f}
      BY <1>1 DEF Handle, Registered, TypeOK
    <2>4. \A g \in Frames : order[g] # 0 => order'[g] # 0
      BY <2>1 DEF TypeOK
    <2>5. order'[f] # 0
      BY <2>1 DEF TypeOK
    <2> QED
      BY <2>1, <2>2, <2>3, <2>4, <2>5 DEF ArrivalInv, TypeOK
  <1>2. ASSUME NEW f \in Frames, NEW o \in {"accepted", "refused", "raised"}, Routed(f, o)
        PROVE  ArrivalInv'
    <2>1. \A s \in Sessions : contexts'[s] \subseteq contexts[s]
      BY <1>2, UnregisterDrops DEF Routed
    <2>2. handle' = [handle EXCEPT ![f] = o] /\ handle[f] = "routing"
          /\ UNCHANGED <<order, arrived, taken>>
      BY <1>2 DEF Routed
    <2>3. \A g \in Frames : handle'[g] = "new" <=> handle[g] = "new"
      BY <2>2 DEF TypeOK
    <2> QED
      BY <2>1, <2>2, <2>3 DEF ArrivalInv
  <1>3. CASE Teardown \/ TransportStops
    <2>1. \A g \in Frames : handle'[g] = "new" <=> handle[g] = "new"
      BY <1>3 DEF Teardown, TransportStops, TypeOK
    <2> QED
      BY <1>3, <2>1 DEF ArrivalInv, Teardown, TransportStops
  <1>4. ASSUME NEW s \in Sessions, HookStep(s) PROVE ArrivalInv'
    <2>1. UNCHANGED <<arrived, order, handle>>
      BY <1>4 DEF HookStep, HookGenerates, HookSends, HookCompletes, Generated, HookEnds,
                  HookCancelled
    <2>2. \A t \in Sessions : contexts'[t] \subseteq contexts[t]
      BY <1>4, CompletedDrops DEF HookStep, HookGenerates, HookSends, HookCompletes,
                                  Generated, HookEnds, HookCancelled
    <2>3. \A f \in taken' : f \in taken \/ \E t \in Sessions : f \in contexts[t]
      BY <1>4, FirstIsLeast DEF HookStep, HookGenerates, HookSends, HookCompletes, Generated,
                                HookEnds, HookCancelled, HookTakesOver
    <2> QED
      BY <2>1, <2>2, <2>3 DEF ArrivalInv
  <1>5. CASE UNCHANGED vars
    BY <1>5 DEF vars, ArrivalInv
  <1> QED
    BY <1>1, <1>2, <1>3, <1>4, <1>5 DEF Next, HandleStep

\* How a hook takes a session over: it takes up the first context.
LEMMA TakesFirst ==
    ASSUME TypeOK, ArrivalInv, TakenInv, NEW s \in Sessions, HookTakesOver(s)
    PROVE  \E f \in contexts[s] :
             /\ f = FirstContext(s) /\ f \in Frames /\ RoomOf[f] = s
             /\ taken' = taken \cup {f}
             /\ \A g \in contexts[s] : order[f] <= order[g]
             /\ \A g \in taken : RoomOf[g] = s => order[g] <= order[f]
             /\ context[s] = {}
  <1>1. /\ FirstContext(s) \in contexts[s] /\ FirstContext(s) \in Frames
        /\ RoomOf[FirstContext(s)] = s
        /\ \A g \in contexts[s] : order[FirstContext(s)] <= order[g]
    BY FirstIsLeast DEF HookTakesOver
  <1>2. \A g \in taken : RoomOf[g] = s => order[g] <= order[FirstContext(s)]
    BY <1>1 DEF TakenInv
  <1>3. context[s] = {}
    BY DEF HookTakesOver, TypeOK
  <1> QED
    BY <1>1, <1>2, <1>3 DEF HookTakesOver

\* What Send adds to the history of a room.
LEMMA SendAppends ==
    ASSUME TypeOK, NEW s \in Sessions, NEW f \in Frames, Send(s, f)
    PROVE  /\ \A t \in Sessions : t # s => answered'[t] = answered[t]
           /\ DOMAIN answered'[s] = DOMAIN answered[s] \cup {Len(answered[s]) + 1}
           /\ \A i \in DOMAIN answered[s] : answered'[s][i] = answered[s][i]
                                          /\ i <= Len(answered[s])
           /\ answered'[s][Len(answered[s]) + 1] = f
           /\ Len(answered[s]) \in Nat /\ DOMAIN answered[s] = 1..Len(answered[s])
  <1>1. answered[s] \in Seq(Frames)
    BY DEF TypeOK
  <1>2. answered' = [answered EXCEPT ![s] = Append(answered[s], f)]
    BY DEF Send
  <1>3. answered'[s] = Append(answered[s], f) /\ \A t \in Sessions : t # s => answered'[t] = answered[t]
    BY <1>2 DEF TypeOK
  <1> QED
    BY <1>1, <1>3

LEMMA TakenStep ==
    ASSUME TypeOK, ArrivalInv, TakenInv, AnswersInOrder, [Next]_vars
    PROVE  TakenInv' /\ AnswersInOrder'
  <1> USE ChatAssumption
  <1>1. ASSUME NEW f \in Frames, Handle(f) PROVE TakenInv' /\ AnswersInOrder'
    <2>1. /\ order' = [order EXCEPT ![f] = arrived + 1] /\ handle[f] = "new"
          /\ UNCHANGED <<taken, context, answered>>
      BY <1>1 DEF Handle
    <2>2. \A s \in Sessions : contexts'[s] \subseteq contexts[s] \cup {f}
      BY <1>1 DEF Handle, Registered, TypeOK
    <2>3. f \notin taken
      BY <2>1 DEF ArrivalInv
    <2>4. \A g \in Frames : g # f => order'[g] = order[g]
      BY <2>1 DEF TypeOK
    <2>5. \A g \in Frames : order[g] <= order'[f] /\ order[g] \in Nat
      BY <2>1 DEF ArrivalInv, TypeOK
    <2>6. \A s \in Sessions : \A i \in DOMAIN answered[s] :
            answered[s][i] \in taken
      BY DEF TakenInv
    <2>7. taken \subseteq Frames /\ \A s \in Sessions : contexts[s] \subseteq Frames
      BY DEF TypeOK
    <2>8. \A g \in taken : \A h \in contexts'[RoomOf[g]] : order'[g] <= order'[h]
      BY <2>2, <2>3, <2>4, <2>5, <2>7 DEF TakenInv
    <2>9. \A s \in Sessions : \A h \in context[s] :
            \A g \in taken : RoomOf[g] = s => order'[g] <= order'[h]
      BY <2>3, <2>4, <2>7 DEF TakenInv
    <2>10. AnswersInOrder'
      BY <2>1, <2>3, <2>4, <2>6, <2>7 DEF AnswersInOrder
    <2> QED
      BY <2>1, <2>8, <2>9, <2>10 DEF TakenInv
  <1>2. ASSUME NEW f \in Frames, NEW o \in {"accepted", "refused", "raised"}, Routed(f, o)
        PROVE  TakenInv' /\ AnswersInOrder'
    <2>1. \A s \in Sessions : contexts'[s] \subseteq contexts[s]
      BY <1>2, UnregisterDrops DEF Routed
    <2>2. UNCHANGED <<order, taken, context, answered>>
      BY <1>2 DEF Routed
    <2>3. \A g \in taken : RoomOf[g] \in Sessions
      BY DEF TypeOK
    <2> QED
      BY <2>1, <2>2, <2>3 DEF TakenInv, AnswersInOrder
  <1>3. CASE Teardown \/ TransportStops \/ UNCHANGED vars
    BY <1>3 DEF Teardown, TransportStops, vars, TakenInv, AnswersInOrder
  <1>4. ASSUME NEW s \in Sessions, HookGenerates(s) \/ HookSends(s)
        PROVE  TakenInv' /\ AnswersInOrder'
    <2>1. PICK f \in contexts[s] :
            /\ f = FirstContext(s) /\ f \in Frames /\ RoomOf[f] = s
            /\ taken' = taken \cup {f}
            /\ \A g \in contexts[s] : order[f] <= order[g]
            /\ \A g \in taken : RoomOf[g] = s => order[g] <= order[f]
            /\ context[s] = {}
      BY <1>4, TakesFirst DEF HookGenerates, HookSends
    <2>2. /\ context' = [context EXCEPT ![s] = {f}]
          /\ UNCHANGED <<contexts, order>>
          /\ UNCHANGED answered \/ Send(s, f)
      BY <1>4, <2>1 DEF HookGenerates, HookSends
    <2>3. order[f] \in Nat
      BY <2>1 DEF TypeOK
    <2>4. \A t \in Sessions : context'[t] = IF t = s THEN {f} ELSE context[t]
      BY <2>2 DEF TypeOK
    <2>5. \A g \in taken' : \A h \in contexts'[RoomOf[g]] : order'[g] <= order'[h]
      BY <2>1, <2>2 DEF TakenInv
    <2>6. \A t \in Sessions : \A h \in context'[t] :
            /\ h \in taken' /\ RoomOf[h] = t
            /\ \A g \in taken' : RoomOf[g] = t => order'[g] <= order'[h]
      BY <2>1, <2>2, <2>3, <2>4 DEF TakenInv
    <2>7. CASE UNCHANGED answered
      BY <2>1, <2>2, <2>5, <2>6, <2>7 DEF TakenInv, AnswersInOrder
    <2>8. CASE Send(s, f)
      <3>1. \A t \in Sessions : \A i \in DOMAIN answered'[t] :
              answered'[t][i] \in taken' /\ RoomOf[answered'[t][i]] = t
        BY <2>1, <2>8, SendAppends DEF TakenInv
      <3>2. AnswersInOrder'
        BY <2>1, <2>2, <2>3, <2>8, SendAppends DEF TakenInv, AnswersInOrder
      <3> QED
        BY <2>5, <2>6, <3>1, <3>2 DEF TakenInv
    <2> QED
      BY <2>2, <2>7, <2>8
  <1>5. ASSUME NEW s \in Sessions, HookCompletes(s) PROVE TakenInv' /\ AnswersInOrder'
    <2>1. PICK f \in contexts[s] :
            /\ f = FirstContext(s) /\ f \in Frames /\ RoomOf[f] = s
            /\ taken' = taken \cup {f}
            /\ \A g \in contexts[s] : order[f] <= order[g]
            /\ context[s] = {}
      BY <1>5, TakesFirst DEF HookCompletes
    <2>2. UNCHANGED <<order, context, answered>>
          /\ \A t \in Sessions : contexts'[t] \subseteq contexts[t]
      BY <1>5, CompletedDrops DEF HookCompletes
    <2>3. \A g \in taken' : RoomOf[g] \in Sessions
      BY <2>1 DEF TypeOK
    <2>4. \A g \in taken' : \A h \in contexts'[RoomOf[g]] : order'[g] <= order'[h]
      BY <2>1, <2>2, <2>3 DEF TakenInv
    <2>5. \A t \in Sessions : context[t] # {} => t # s
      BY <2>1
    <2> QED
      BY <2>1, <2>2, <2>4, <2>5 DEF TakenInv, AnswersInOrder
  <1>6. ASSUME NEW s \in Sessions, Generated(s) PROVE TakenInv' /\ AnswersInOrder'
    <2>1. PICK f \in context[s] : Send(s, f)
      BY <1>6 DEF Generated
    <2>2. UNCHANGED <<contexts, order, context, taken>>
      BY <1>6 DEF Generated
    <2>3. f \in Frames /\ f \in taken /\ RoomOf[f] = s
          /\ \A g \in taken : RoomOf[g] = s => order[g] <= order[f]
      BY <2>1 DEF TakenInv, TypeOK
    <2>4. order[f] \in Nat
      BY <2>3 DEF TypeOK
    <2>5. \A t \in Sessions : \A i \in DOMAIN answered'[t] :
            answered'[t][i] \in taken' /\ RoomOf[answered'[t][i]] = t
      BY <2>1, <2>2, <2>3, SendAppends DEF TakenInv
    <2>6. AnswersInOrder'
      BY <2>1, <2>2, <2>3, <2>4, SendAppends DEF TakenInv, AnswersInOrder
    <2> QED
      BY <2>2, <2>5, <2>6 DEF TakenInv
  <1>7. ASSUME NEW s \in Sessions, HookEnds(s) \/ HookCancelled(s)
        PROVE  TakenInv' /\ AnswersInOrder'
    <2>1. UNCHANGED <<order, taken, answered>>
          /\ context' = [context EXCEPT ![s] = {}]
      BY <1>7 DEF HookEnds, HookCancelled
    <2>2. \A t \in Sessions : contexts'[t] \subseteq contexts[t]
      BY <1>7, CompletedDrops DEF HookEnds, HookCancelled
    <2>3. \A t \in Sessions : context'[t] \subseteq context[t]
      BY <2>1 DEF TypeOK
    <2>4. \A g \in taken : RoomOf[g] \in Sessions
      BY DEF TypeOK
    <2> QED
      BY <2>1, <2>2, <2>3, <2>4 DEF TakenInv, AnswersInOrder
  <1> QED
    BY <1>1, <1>2, <1>3, <1>4, <1>5, <1>6, <1>7 DEF Next, HandleStep, HookStep

\* A refusal stays.
LEMMA RefusalStays ==
    ASSUME TypeOK, [Next]_vars
    PROVE  \A f \in Frames : Refused(f) => Refused(f)'
  <1> SUFFICES \A g \in Frames : handle[g] = "refused" => handle'[g] = "refused"
    BY DEF Refused
  <1>1. ASSUME NEW f \in Frames, HandleStep(f)
        PROVE  \E h : handle[f] \in {"new", "routing"} /\ handle' = [handle EXCEPT ![f] = h]
    BY <1>1 DEF HandleStep, Handle, Routed
  <1>2. CASE Teardown \/ TransportStops
    BY <1>2 DEF Teardown, TransportStops, TypeOK
  <1>3. ASSUME NEW s \in Sessions, HookStep(s) PROVE UNCHANGED handle
    BY <1>3 DEF HookStep, HookGenerates, HookSends, HookCompletes, Generated, HookEnds,
                HookCancelled
  <1>4. CASE UNCHANGED vars
    BY <1>4 DEF vars
  <1> QED
    BY <1>1, <1>2, <1>3, <1>4 DEF Next, TypeOK

\* How a hook ends: if its context is still listed, it is the first and goes; if it
\* is not, it was refused.
LEMMA EndsFirst ==
    ASSUME TypeOK, ArrivalInv, TakenInv, WorkInv, NEW s \in Sessions, NEW f \in context[s]
    PROVE  \/ f = FirstContext(s) /\ contexts[s] # {}
           \/ f \notin contexts[s] /\ Refused(f)
  <1>1. CASE f \in contexts[s]
    <2>1. /\ FirstContext(s) \in contexts[s] /\ FirstContext(s) \in Frames
          /\ order[FirstContext(s)] <= order[f]
      BY <1>1, FirstIsLeast
    <2>2. f \in Frames /\ f \in taken /\ RoomOf[f] = s
      BY DEF TypeOK, TakenInv
    <2>3. order[f] <= order[FirstContext(s)]
      BY <2>1, <2>2 DEF TakenInv
    <2>4. order[f] = order[FirstContext(s)] /\ order[f] # 0
      BY <1>1, <2>1, <2>2, <2>3 DEF ArrivalInv, TypeOK
    <2> QED
      BY <1>1, <2>1, <2>2, <2>4 DEF ArrivalInv
  <1>2. CASE f \notin contexts[s]
    BY <1>2 DEF WorkInv
  <1> QED
    BY <1>1, <1>2

LEMMA DroppedStep ==
    ASSUME TypeOK, ArrivalInv, TakenInv, WorkInv, DroppedForAReason, [Next]_vars
    PROVE  WorkInv' /\ DroppedForAReason'
  <1> USE ChatAssumption, RefusalStays
  <1>t. taken \subseteq Frames /\ (\A s \in Sessions : contexts[s] \subseteq Frames)
        /\ \A s \in Sessions : context[s] \subseteq Frames
    BY DEF TypeOK
  <1>1. ASSUME NEW f \in Frames, Handle(f) PROVE WorkInv' /\ DroppedForAReason'
    <2>1. UNCHANGED <<context, taken>> /\ handle' = [handle EXCEPT ![f] = "routing"]
      BY <1>1 DEF Handle
    <2>2. /\ \A s \in Sessions : contexts[s] \subseteq contexts'[s]
          /\ f \in contexts'[RoomOf[f]]
      BY <1>1 DEF Handle, Registered, TypeOK
    <2>3. WorkInv'
      BY <1>t, <2>1, <2>2 DEF WorkInv
    <2>4. \A g \in Frames : g # f => handle'[g] = handle[g]
      BY <2>1 DEF TypeOK
    <2>5. DroppedForAReason'
      BY <1>t, <2>1, <2>2, <2>4 DEF DroppedForAReason
    <2> QED
      BY <2>3, <2>5
  <1>2. ASSUME NEW f \in Frames, NEW o \in {"accepted", "refused", "raised"}, Routed(f, o)
        PROVE  WorkInv' /\ DroppedForAReason'
    <2>1. UNCHANGED <<context, taken>> /\ handle' = [handle EXCEPT ![f] = o]
          /\ handle[f] = "routing"
      BY <1>2 DEF Routed
    <2>2. \A s \in Sessions : \A g \in contexts[s] : g \in contexts'[s] \/ Refused(g)'
      <3>1. CASE o = "refused"
        <4>1. handle'[f] = "refused"
          BY <2>1, <3>1 DEF TypeOK
        <4>2. \A s \in Sessions : \A g \in contexts[s] : g \in contexts'[s] \/ Same(g, f)
          BY <1>2, <3>1, UnregisterDrops DEF Routed
        <4> QED
          BY <4>1, <4>2 DEF Refused
      <3>2. CASE o # "refused"
        BY <1>2, <3>2 DEF Routed
      <3> QED
        BY <3>1, <3>2
    <2>3. WorkInv'
      BY <1>t, <2>1, <2>2 DEF WorkInv
    <2>4. \A g \in Frames : handle[g] = "new" <=> handle'[g] = "new"
      BY <2>1 DEF TypeOK
    <2>5. DroppedForAReason'
      BY <1>t, <2>1, <2>2, <2>4 DEF DroppedForAReason
    <2> QED
      BY <2>3, <2>5
  <1>3. CASE Teardown \/ TransportStops \/ UNCHANGED vars
    <2>1. UNCHANGED <<contexts, context, taken>>
          /\ \A g \in Frames : handle[g] = "new" <=> handle'[g] = "new"
      BY <1>3 DEF Teardown, TransportStops, vars, TypeOK
    <2> QED
      BY <1>t, <2>1 DEF WorkInv, DroppedForAReason
  <1>4. ASSUME NEW s \in Sessions, HookGenerates(s) \/ HookSends(s)
        PROVE  WorkInv' /\ DroppedForAReason'
    <2>1. /\ context' = [context EXCEPT ![s] = {FirstContext(s)}]
          /\ taken' = taken \cup {FirstContext(s)}
          /\ UNCHANGED <<contexts, handle>>
          /\ FirstContext(s) \in contexts[s]
      BY <1>4, FirstIsLeast DEF HookGenerates, HookSends, HookTakesOver
    <2>2. WorkInv'
      BY <1>t, <2>1 DEF WorkInv, TypeOK
    <2>3. DroppedForAReason'
      BY <1>t, <2>1 DEF DroppedForAReason
    <2> QED
      BY <2>2, <2>3
  <1>5. ASSUME NEW s \in Sessions, HookCompletes(s) PROVE WorkInv' /\ DroppedForAReason'
    <2>1. /\ UNCHANGED <<context, handle>> /\ context[s] = {}
          /\ taken' = taken \cup {FirstContext(s)}
          /\ FirstContext(s) \in Frames /\ RoomOf[FirstContext(s)] = s
      BY <1>5, FirstIsLeast DEF HookCompletes, HookTakesOver, TypeOK
    <2>2. \A t \in Sessions : \A g \in contexts[t] : g \in contexts'[t]
                                                      \/ Same(g, FirstContext(s))
      BY <1>5, CompletedDrops DEF HookCompletes
    <2>3. \A t \in Sessions : \A g \in context[t] : RoomOf[g] = t /\ t # s
      BY <2>1 DEF TakenInv
    <2>4. WorkInv'
      BY <1>t, <2>1, <2>2, <2>3 DEF WorkInv, Same
    <2>5. DroppedForAReason'
      BY <1>t, <2>1, <2>2 DEF DroppedForAReason
    <2> QED
      BY <2>4, <2>5
  <1>6. ASSUME NEW s \in Sessions, Generated(s) PROVE WorkInv' /\ DroppedForAReason'
    BY <1>t, <1>6 DEF Generated, WorkInv, DroppedForAReason
  <1>7. ASSUME NEW s \in Sessions, HookCancelled(s) PROVE WorkInv' /\ DroppedForAReason'
    <2>1. UNCHANGED <<contexts, handle, taken>>
          /\ \A t \in Sessions : context'[t] \subseteq context[t]
      BY <1>7 DEF HookCancelled, TypeOK
    <2> QED
      BY <1>t, <2>1 DEF WorkInv, DroppedForAReason
  <1>8. ASSUME NEW s \in Sessions, HookEnds(s) PROVE WorkInv' /\ DroppedForAReason'
    <2>1. /\ UNCHANGED <<handle, taken>>
          /\ \A t \in Sessions : context'[t] = IF t = s THEN {} ELSE context[t]
      BY <1>8 DEF HookEnds, TypeOK
    <2>2. \A t \in Sessions : \A g \in contexts[t] \ contexts'[t] :
            contexts[s] # {} /\ Same(g, FirstContext(s))
      BY <1>8, CompletedDrops DEF HookEnds
    <2>3. PICK f \in Frames : f \in context[s]
      BY <1>8 DEF HookEnds, TypeOK
    <2>4. f \in taken /\ RoomOf[f] = s
      BY <2>3 DEF TakenInv
    <2>5. contexts[s] # {} => RoomOf[FirstContext(s)] = s
      BY FirstIsLeast
    <2>6. \A t \in Sessions : \A g \in context[t] : RoomOf[g] = t
      BY DEF TakenInv
    <2>7. WorkInv'
      BY <1>t, <2>1, <2>2, <2>5, <2>6 DEF WorkInv, Same
    <2>8. \A g \in Frames : handle[g] # "new" /\ g \notin contexts'[RoomOf[g]] =>
            \/ g \notin contexts[RoomOf[g]]
            \/ Same(g, f)
            \/ RoomOf[g] = s /\ Refused(f)
      BY <2>2, <2>3, <2>5, EndsFirst DEF Same
    <2>9. DroppedForAReason'
      BY <1>t, <2>1, <2>3, <2>4, <2>8 DEF DroppedForAReason
    <2> QED
      BY <2>7, <2>9
  <1> QED
    BY <1>1, <1>2, <1>3, <1>4, <1>5, <1>6, <1>7, <1>8 DEF Next, HandleStep, HookStep

\* Sending for a message that has not been answered before, or was cut short.
LEMMA FreshSend ==
    ASSUME TypeOK, AnsweredOnce, NEW s \in Sessions, NEW f \in Frames, Send(s, f),
           cut' = cut, \A i \in DOMAIN answered[s] : answered[s][i] = f => f \in cut
    PROVE  AnsweredOnce'
  <1>1. ASSUME NEW t \in Sessions, NEW i \in DOMAIN answered'[t], NEW j \in DOMAIN answered'[t],
               i # j, answered'[t][i] = answered'[t][j]
        PROVE  answered'[t][i] \in cut
    <2>1. CASE t # s
      BY <1>1, <2>1, SendAppends DEF AnsweredOnce
    <2>2. CASE t = s
      <3>1. CASE i \in DOMAIN answered[s] /\ j \in DOMAIN answered[s]
        BY <1>1, <2>2, <3>1, SendAppends DEF AnsweredOnce
      <3>2. CASE i \in DOMAIN answered[s] /\ j = Len(answered[s]) + 1
        BY <1>1, <2>2, <3>2, SendAppends
      <3>3. CASE j \in DOMAIN answered[s] /\ i = Len(answered[s]) + 1
        BY <1>1, <2>2, <3>3, SendAppends
      <3> QED
        BY <1>1, <2>2, <3>1, <3>2, <3>3, SendAppends
    <2> QED
      BY <2>1, <2>2
  <1> QED
    BY <1>1 DEF AnsweredOnce

LEMMA SentStep ==
    ASSUME TypeOK, ArrivalInv, TakenInv, WorkInv, SentInv, AnsweredOnce, [Next]_vars
    PROVE  SentInv' /\ AnsweredOnce'
  <1> USE ChatAssumption
  <1>1. ASSUME NEW f \in Frames, Handle(f) PROVE SentInv' /\ AnsweredOnce'
    <2>1. UNCHANGED <<hook, context, answered, cut>> /\ handle[f] = "new"
      BY <1>1 DEF Handle
    <2>2. \A s \in Sessions : contexts'[s] \subseteq contexts[s] \cup {f}
      BY <1>1 DEF Handle, Registered, TypeOK
    <2>3. \A s \in Sessions : \A i \in DOMAIN answered[s] : answered[s][i] # f
      BY <2>1 DEF TakenInv, ArrivalInv
    <2> QED
      BY <2>1, <2>2, <2>3 DEF SentInv, AnsweredOnce
  <1>2. ASSUME NEW f \in Frames, NEW o \in {"accepted", "refused", "raised"}, Routed(f, o)
        PROVE  SentInv' /\ AnsweredOnce'
    <2>1. UNCHANGED <<hook, context, answered, cut>>
      BY <1>2 DEF Routed
    <2>2. \A s \in Sessions : contexts'[s] \subseteq contexts[s]
      BY <1>2, UnregisterDrops DEF Routed
    <2> QED
      BY <2>1, <2>2 DEF SentInv, AnsweredOnce
  <1>3. CASE Teardown \/ TransportStops \/ UNCHANGED vars
    BY <1>3 DEF Teardown, TransportStops, vars, SentInv, AnsweredOnce
  <1>4. ASSUME NEW s \in Sessions, HookGenerates(s) \/ HookSends(s)
        PROVE  SentInv' /\ AnsweredOnce'
    <2>1. PICK f \in contexts[s] : f = FirstContext(s) /\ f \in Frames /\ context[s] = {}
      BY <1>4, TakesFirst DEF HookGenerates, HookSends
    <2>2. UNCHANGED <<contexts, cut>>
          /\ \A t \in Sessions : context'[t] = IF t = s THEN {f} ELSE context[t]
      BY <1>4, <2>1 DEF HookGenerates, HookSends, TypeOK
    <2>3. \A i \in DOMAIN answered[s] :
            answered[s][i] \in cut \/ answered[s][i] \notin contexts[s]
      BY <2>1 DEF SentInv
    <2>4. \A t \in Sessions : t # s => hook'[t] = hook[t]
      BY <1>4 DEF HookGenerates, HookSends, Send, TypeOK
    <2>5. CASE HookGenerates(s)
      <3>1. UNCHANGED answered
        BY <2>5 DEF HookGenerates
      <3> QED
        BY <2>1, <2>2, <2>3, <2>4, <3>1 DEF SentInv, AnsweredOnce
    <2>6. CASE HookSends(s)
      <3>1. Send(s, f) /\ hook'[s] = "sending"
        BY <2>1, <2>6 DEF HookSends, Send, TypeOK
      <3>2. AnsweredOnce'
        BY <2>1, <2>2, <2>3, <3>1, FreshSend
      <3>3. SentInv'
        BY <2>1, <2>2, <2>3, <2>4, <3>1, SendAppends DEF SentInv
      <3> QED
        BY <3>2, <3>3
    <2> QED
      BY <1>4, <2>5, <2>6
  <1>5. ASSUME NEW s \in Sessions, HookCompletes(s) PROVE SentInv' /\ AnsweredOnce'
    <2>1. UNCHANGED <<hook, context, answered, cut>>
          /\ \A t \in Sessions : contexts'[t] \subseteq contexts[t]
      BY <1>5, CompletedDrops DEF HookCompletes
    <2> QED
      BY <2>1 DEF SentInv, AnsweredOnce
  <1>6. ASSUME NEW s \in Sessions, Generated(s) PROVE SentInv' /\ AnsweredOnce'
    <2>1. PICK f \in context[s] : Send(s, f)
      BY <1>6 DEF Generated
    <2>2. UNCHANGED <<contexts, context, cut>> /\ hook[s] = "generating"
      BY <1>6 DEF Generated
    <2>3. f \in Frames /\ context[s] = {f}
      <3>1. \E g \in Frames : context[s] = {g}
        BY <2>2 DEF TypeOK
      <3> QED
        BY <2>1, <3>1
    <2>4. \A i \in DOMAIN answered[s] : answered[s][i] \in cut \/ answered[s][i] # f
      BY <2>2, <2>3 DEF SentInv
    <2>5. AnsweredOnce'
      BY <2>1, <2>2, <2>3, <2>4, FreshSend
    <2>6. hook'[s] = "sending" /\ \A t \in Sessions : t # s => hook'[t] = hook[t]
      BY <2>1 DEF Send, TypeOK
    <2>7. SentInv'
      BY <2>1, <2>2, <2>3, <2>6, SendAppends DEF SentInv
    <2> QED
      BY <2>5, <2>7
  <1>7. ASSUME NEW s \in Sessions, HookEnds(s) PROVE SentInv' /\ AnsweredOnce'
    <2>1. /\ UNCHANGED <<answered, cut>>
          /\ \A t \in Sessions : context'[t] = IF t = s THEN {} ELSE context[t]
          /\ \A t \in Sessions : t # s => hook'[t] = hook[t]
      BY <1>7 DEF HookEnds, TypeOK
    <2>2. /\ \A t \in Sessions : contexts'[t] \subseteq contexts[t]
          /\ contexts[s] # {} => FirstContext(s) \notin contexts'[s]
      BY <1>7, CompletedDrops DEF HookEnds
    <2>3. \A f \in context[s] : f \notin contexts'[s]
      BY <2>2, EndsFirst
    <2> QED
      BY <2>1, <2>2, <2>3 DEF SentInv, AnsweredOnce
  <1>8. ASSUME NEW s \in Sessions, HookCancelled(s) PROVE SentInv' /\ AnsweredOnce'
    <2>1. /\ UNCHANGED <<answered, contexts>> /\ cut' = cut \cup context[s]
          /\ \A t \in Sessions : context'[t] = IF t = s THEN {} ELSE context[t]
          /\ \A t \in Sessions : t # s => hook'[t] = hook[t]
      BY <1>8 DEF HookCancelled, TypeOK
    <2> QED
      BY <2>1 DEF SentInv, AnsweredOnce
  <1> QED
    BY <1>1, <1>2, <1>3, <1>4, <1>5, <1>6, <1>7, <1>8 DEF Next, HandleStep, HookStep

----------------------------------------------------------------------------
(* The theorems.                                                           *)

\* The invariant of the chat contexts: how the order of arrival, the list of a room,
\* the hook that works for its first context and the history of answers hang together.
THEOREM ChatInvariant == Spec => [](TypeOK /\ ChatInv)
  <1>1. Init => ChatInv
    BY ChatAssumption DEF Init, ChatInv, ArrivalInv, TakenInv, WorkInv, SentInv,
                          AnswersInOrder, AnsweredOnce, DroppedForAReason
  <1>2. TypeOK /\ ChatInv /\ [Next]_vars => ChatInv'
    BY ArrivalStep, TakenStep, DroppedStep, SentStep DEF ChatInv
  <1> QED
    BY <1>1, <1>2, TypeCorrect, PTL DEF Spec

\* The messages of a room are answered in the order they came, whatever is refused,
\* cancelled or redelivered meanwhile (server_chat/service.py:55, hooks.py:150).
THEOREM AnswersKeepOrder == Spec => []AnswersInOrder
  <1>1. ChatInv => AnswersInOrder
    BY DEF ChatInv
  <1> QED
    BY <1>1, ChatInvariant, PTL

\* A message is answered twice only if the host cut its hook short
\* (complete_session in the finally clause of hooks.py).
THEOREM OneAnswerEach == Spec => []AnsweredOnce
  <1>1. ChatInv => AnsweredOnce
    BY DEF ChatInv
  <1> QED
    BY <1>1, ChatInvariant, PTL

\* A message leaves its room only if a hook took it up, it was refused, or the hook's
\* own message was refused under its hands (_unregister_context by message id).
THEOREM NoneIsDropped == Spec => []DroppedForAReason
  <1>1. ChatInv => DroppedForAReason
    BY DEF ChatInv
  <1> QED
    BY <1>1, ChatInvariant, PTL
============================================================================
