-------------------------- MODULE TurnIndexProofs --------------------------
(***************************************************************************)
(* What is lost and what is bounded: staged emoji, the turns of a          *)
(* connection that is gone, and, with distinct turn ids, the two indexes,  *)
(* the queue, and whom a reply is for.  Three comments of the source that  *)
(* the code does not keep, with the condition under which they are true.   *)
(***************************************************************************)
EXTENDS MaidTurnServiceProofs, FiniteSetTheorems

----------------------------------------------------------------------------
(* Staged emoji.                                                           *)

\* Entering a terminal section consumes what was staged on the turn.
LEMMA LockedConsumes ==
    ASSUME TypeOK, NothingStagedAfterTerminal, NEW c \in Tasks, NEW f \in Frames,
           NEW o \in Outcomes, Locked(c, f, o)
    PROVE  NothingStagedAfterTerminal'
  <1>1. CASE UNCHANGED <<started, staged>>
    BY <1>1 DEF NothingStagedAfterTerminal
  <1>2. CASE StartTerminal(c, f, o)
    <2>1. started' = [started EXCEPT ![f] = TRUE] /\ staged' = [staged EXCEPT ![f] = 0]
      BY <1>2 DEF StartTerminal
    <2> QED
      BY <2>1 DEF NothingStagedAfterTerminal, TypeOK
  <1> QED
    BY <1>1, <1>2 DEF Locked

LEMMA EnterConsumes ==
    ASSUME TypeOK, NothingStagedAfterTerminal, NEW c \in Tasks, NEW b \in Seq(Frames),
           b # <<>>, NEW a \in Outcomes, Enter(c, b, a)
    PROVE  NothingStagedAfterTerminal'
  <1>1. Head(b) \in Frames /\ OutcomeFor(b, a) \in Outcomes
    BY TailOfBatch DEF OutcomeFor, Outcomes
  <1> QED
    BY <1>1, LockedConsumes DEF Enter, NothingStagedAfterTerminal

LEMMA ProceedConsumes ==
    ASSUME TypeOK, NothingStagedAfterTerminal, NEW c \in Tasks, batch[c] # <<>>, Proceed(c)
    PROVE  NothingStagedAfterTerminal'
  <1>1. Tail(batch[c]) \in Seq(Frames) /\ answer[c] \in Outcomes
    BY TailOfBatch DEF TypeOK
  <1> QED
    BY <1>1, EnterConsumes DEF Proceed, Finish, NothingStagedAfterTerminal

LEMMA StagedStep ==
    ASSUME TypeOK, NothingStagedAfterTerminal, [Next]_vars
    PROVE  NothingStagedAfterTerminal'
  <1> USE TasksType
  <1>1. CASE UNCHANGED <<started, staged>>
    BY <1>1 DEF NothingStagedAfterTerminal
  <1>2. ASSUME NEW f \in Frames, \/ HandleMoves(f) \/ Register(f) \/ HandleReturns(f)
                                 \/ RouteEnds(f)
        PROVE  NothingStagedAfterTerminal'
    BY <1>1, <1>2 DEF HandleMoves, Refuse, IgnoreDuplicate, RefusalEnds, Register,
                      HandleReturns, RouteEnds, Finish, turnVars
  <1>3. ASSUME NEW f \in Frames, RouteFails(f)
        PROVE  NothingStagedAfterTerminal'
    <2>1. <<f>> \in Seq(Frames) /\ <<f>> # <<>> /\ "no_reply" \in Outcomes
      BY DEF Outcomes
    <2> QED
      BY <1>3, <2>1, EnterConsumes DEF RouteFails
  <1>4. ASSUME NEW s \in Sessions, StageEmoji(s)
        PROVE  NothingStagedAfterTerminal'
    <2> DEFINE target == RequestBatch(s)[Len(RequestBatch(s))]
    <2>1. /\ RequestBatch(s) \in Seq(Frames) /\ RequestBatch(s) # <<>>
          /\ \A i \in DOMAIN RequestBatch(s) : IsLive(RequestBatch(s)[i])
      BY <1>4, BatchesAreLive, LiveBatchesType DEF StageEmoji
    <2>2. Len(RequestBatch(s)) \in DOMAIN RequestBatch(s)
      BY <2>1
    <2>3. ~started[target]
      BY <2>1, <2>2 DEF IsLive
    <2>4. staged' = [staged EXCEPT ![target] = @ + 1] /\ UNCHANGED started
      BY <1>4 DEF StageEmoji
    <2> HIDE DEF target
    <2> QED
      BY <2>3, <2>4 DEF NothingStagedAfterTerminal, TypeOK
  <1>5. ASSUME NEW s \in Sessions,
               \/ RoundEnds(s) \/ \E await \in {"emoji", "compose"} : RoundWaits(s, await)
               \/ \E phase \in {"timing_gate", "planner"} : BeforeRequest(s, phase)
        PROVE  NothingStagedAfterTerminal'
    BY <1>1, <1>5 DEF RoundEnds, Finish, RoundWaits, BeforeRequest, turnVars
  <1>6. ASSUME NEW c \in Tasks, TaskMoves(c)
        PROVE  NothingStagedAfterTerminal'
    <2>1. CASE Acquire(c)
      <3>1. /\ Head(batch[c]) \in Frames
            /\ OutcomeFor(batch[c], answer[c]) \in Outcomes
        BY <2>1, TailOfBatch DEF TypeOK, Acquire, OutcomeFor, Outcomes
      <3> QED
        BY <2>1, <3>1, LockedConsumes DEF Acquire
    <2>2. CASE JoinEnds(c) \/ \E result \in {"answered", "failed"} : SendEnds(c, result)
      BY <2>2, ProceedConsumes DEF JoinEnds, SendEnds, TypeOK
    <2>3. CASE Interruption(c)
      <3>1. \/ Finish(c)
            \/ /\ RequestBatch(c) \in LiveBatches
               /\ Enter(c, RequestBatch(c), "no_reply")
        BY <2>3, BatchesAreLive DEF Interruption, Interrupt
      <3> QED
        BY <1>1, <3>1, LiveBatchesType, EnterConsumes DEF Finish, Outcomes
    <2>4. ASSUME NEW s \in Sessions, NEW a \in Outcomes, Complete(c, s, a)
          PROVE  NothingStagedAfterTerminal'
      BY <2>4, BatchesAreLive, LiveBatchesType, EnterConsumes DEF Complete
    <2> QED
      BY <1>6, <2>1, <2>2, <2>3, <2>4 DEF TaskMoves
  <1>7. CASE Teardown \/ LinkMoves \/ UNCHANGED vars
    BY <1>1, <1>7 DEF Teardown, LinkMoves, TransportStops, Redial, turnVars, vars
  <1> QED
    BY <1>2, <1>3, <1>4, <1>5, <1>6, <1>7, StepKinds DEF RoundMoves

\* No emoji is staged on a turn whose terminal frame was built already.
THEOREM NoEmojiIsLost == Spec => []NothingStagedAfterTerminal
  <1>1. Init => NothingStagedAfterTerminal
    BY DEF Init, NothingStagedAfterTerminal
  <1> QED
    BY <1>1, StagedStep, TypeCorrect, PTL DEF Spec

----------------------------------------------------------------------------
(* The turns of a lost connection.  Once the connection is gone, the index *)
(* and the dispatch tasks know no turn but the late ones.                  *)

DrainedInv == link # "up" =>
    /\ \A t \in Turns : byTurn[t] # None => byTurn[t] \in late
    /\ \A f \in Frames : pc[f] = "route" => f \in late

\* A turn that is live after the connection has gone is a late one.
LEMMA LiveIsLate ==
    ASSUME TypeOK, DrainedInv, link # "up", NEW f \in Frames, IsLive(f)
    PROVE  f \in late
  BY ConstantsAssumption DEF DrainedInv, IsLive

\* A completion moves its task to one of the awaits of a completion, or ends it.
LEMMA CompletersAwait ==
    ASSUME NEW c
    PROVE  /\ \A f, o : Locked(c, f, o) =>
                 \E await \in {"send", "join"} : pc' = [pc EXCEPT ![c] = await]
           /\ \A b, a : Enter(c, b, a) =>
                 \E await \in {"lock", "send", "join"} : pc' = [pc EXCEPT ![c] = await]
           /\ Finish(c) => pc' = [pc EXCEPT ![c] = "idle"]
           /\ Proceed(c) =>
                 \E await \in {"idle", "lock", "send", "join"} : pc' = [pc EXCEPT ![c] = await]
  <1>1. \A f, o : Locked(c, f, o) =>
            \E await \in {"send", "join"} : pc' = [pc EXCEPT ![c] = await]
    BY DEF Locked, StartTerminal
  <1>2. \A b, a : Enter(c, b, a) =>
            \E await \in {"lock", "send", "join"} : pc' = [pc EXCEPT ![c] = await]
    BY <1>1 DEF Enter
  <1>3. Finish(c) => pc' = [pc EXCEPT ![c] = "idle"]
    BY DEF Finish
  <1> QED
    BY <1>1, <1>2, <1>3 DEF Proceed

LEMMA DrainedStep ==
    ASSUME TypeOK, DrainedInv, [Next]_vars
    PROVE  DrainedInv'
  <1> USE TasksType
  <1>1. ASSUME UNCHANGED <<link, late>>,
               \A t \in Turns : byTurn'[t] \in {byTurn[t], None},
               \A f \in Frames : pc'[f] = "route" => pc[f] = "route"
        PROVE  DrainedInv'
    BY <1>1 DEF DrainedInv
  <1>2. ASSUME NEW f \in Frames, Register(f)
        PROVE  DrainedInv'
    <2>1. /\ link \in {"up", "draining"} /\ link' = link
          /\ late' = IF link = "draining" THEN late \cup {f} ELSE late
          /\ byTurn' = [byTurn EXCEPT ![TurnOf[f]] = f]
          /\ pc' = [pc EXCEPT ![f] = "route"]
      BY <1>2 DEF Register, Arrives
    <2> QED
      BY <2>1 DEF DrainedInv, TypeOK
  <1>3. ASSUME NEW f \in Frames, \/ HandleMoves(f) \/ HandleReturns(f)
                                 \/ RouteEnds(f) \/ RouteFails(f)
        PROVE  DrainedInv'
    <2>1. CASE HandleMoves(f)
      BY <1>1, <2>1 DEF HandleMoves, Refuse, IgnoreDuplicate, RefusalEnds, indexVars, taskVars
    <2>2. CASE HandleReturns(f)
      BY <1>1, <2>2 DEF HandleReturns, Unregister, taskVars, TypeOK
    <2>3. CASE RouteEnds(f)
      BY <1>1, <2>3 DEF RouteEnds, indexVars, roundVars, Finish, TypeOK
    <2>4. CASE RouteFails(f)
      <3>1. <<f>> \in Seq(Frames) \ {<<>>} /\ "no_reply" \in Outcomes
        BY DEF Outcomes
      <3>2. \A d \in Tasks : pc'[d] = "route" => pc[d] = "route"
        BY <2>4, <3>1 DEF RouteFails, Enter, Locked, StartTerminal, TypeOK
      <3> QED
        BY <1>1, <2>4, <3>2 DEF RouteFails, indexVars, roundVars
    <2> QED
      BY <1>3, <2>1, <2>2, <2>3, <2>4
  <1>4. ASSUME NEW s \in Sessions, RoundMoves(s)
        PROVE  DrainedInv'
    <2>1. UNCHANGED <<link, late, byTurn>>
      BY <1>4 DEF RoundMoves, RoundEnds, StageEmoji, RoundWaits, BeforeRequest, indexVars, roundVars
    <2>2. \A f \in Frames : pc'[f] = "route" => pc[f] = "route"
      BY <1>4 DEF RoundMoves, RoundEnds, Finish, StageEmoji, RoundWaits, BeforeRequest,
                  taskVars, TypeOK
    <2> QED
      BY <1>1, <2>1, <2>2
  <1>5. ASSUME NEW c \in Tasks, TaskMoves(c)
        PROVE  DrainedInv'
    <2>1. UNCHANGED <<link, late>>
      BY <1>5 DEF TaskMoves, Acquire, JoinEnds, Interruption, SendEnds, Complete, roundVars
    <2>2. \A t \in Turns : byTurn'[t] \in {byTurn[t], None}
      BY <1>5 DEF TaskMoves, Acquire, JoinEnds, Interruption, SendEnds, Complete, indexVars,
                  Unregister, TypeOK
    <2>3. \E await \in {"idle", "lock", "send", "join"} : pc' = [pc EXCEPT ![c] = await]
      BY <1>5, CompletersAwait DEF TaskMoves, Acquire, JoinEnds, Interruption, Interrupt,
                                   SendEnds, Complete
    <2>4. \A d \in Tasks : pc'[d] = "route" => pc[d] = "route"
      BY <2>3 DEF TypeOK
    <2> QED
      BY <1>1, <2>1, <2>2, <2>4
  <1>6. CASE Teardown
    BY <1>6 DEF Teardown, DrainedInv
  <1>7. CASE LinkMoves
    BY <1>7 DEF LinkMoves, TransportStops, Redial, indexVars, taskVars, DrainedInv
  <1>8. CASE UNCHANGED vars
    BY <1>8 DEF vars, DrainedInv
  <1> QED
    BY <1>2, <1>3, <1>4, <1>5, <1>6, <1>7, <1>8, StepKinds

\* What a step adds to a batch was live before, or is a turn being routed.
LEMMA BatchesGrowLive ==
    ASSUME TypeOK, [Next]_vars, NEW c \in Tasks
    PROVE  \A f \in InBatch(c)' \ InBatch(c) : f \in Frames /\ (IsLive(f) \/ pc[f] = "route")
  <1> USE TasksType
  <1>1. ASSUME batch'[c] \in {batch[c], <<>>}
        PROVE  InBatch(c)' \subseteq InBatch(c)
    BY <1>1 DEF InBatch
  <1>2. ASSUME NEW b \in LiveBatches, batch'[c] = b
        PROVE  \A f \in InBatch(c)' : f \in Frames /\ IsLive(f)
    BY <1>2, LiveBatchesType DEF InBatch
  <1>3. ASSUME NEW d \in Tasks \ {c}, TaskMoves(d)
        PROVE  batch'[c] = batch[c]
    BY <1>3 DEF TaskMoves, Acquire, JoinEnds, Interruption, Interrupt, SendEnds, Complete,
                Proceed, Enter, Finish, TypeOK
  <1>4. ASSUME TaskMoves(c)
        PROVE  \A f \in InBatch(c)' \ InBatch(c) : f \in Frames /\ IsLive(f)
    <2>1. CASE Acquire(c)
      BY <1>1, <2>1 DEF Acquire
    <2>2. CASE Finish(c)
      BY <1>1, <2>2 DEF Finish, TypeOK
    <2>3. CASE batch[c] # <<>> /\ batch'[c] = Tail(batch[c])
      BY <2>3, TailOfBatch DEF InBatch, TypeOK
    <2>4. CASE batch[c] # <<>> /\ Proceed(c)
      BY <2>2, <2>3, <2>4 DEF Proceed, Enter, TypeOK
    <2>5. CASE Interruption(c)
      BY <1>2, <2>2, <2>5, BatchesAreLive DEF Interruption, Interrupt, Enter, TypeOK
    <2>6. ASSUME NEW s \in Sessions, NEW a \in Outcomes, Complete(c, s, a)
          PROVE  \A f \in InBatch(c)' \ InBatch(c) : f \in Frames /\ IsLive(f)
      BY <1>2, <2>6, BatchesAreLive DEF Complete, Enter, TypeOK
    <2> QED
      BY <1>4, <2>1, <2>4, <2>5, <2>6 DEF TaskMoves, JoinEnds, SendEnds, TypeOK
  <1>5. ASSUME NEW f \in Frames, RouteFails(f)
        PROVE  \A g \in InBatch(c)' \ InBatch(c) : g = f /\ pc[f] = "route"
    <2>1. batch' = [batch EXCEPT ![f] = <<f>>] /\ pc[f] = "route"
      BY <1>5 DEF RouteFails, Enter
    <2> QED
      BY <2>1 DEF InBatch, TypeOK
  <1>6. ASSUME NEW f \in Frames, HandleMoves(f) \/ Register(f) \/ HandleReturns(f) \/ RouteEnds(f)
        PROVE  batch'[c] \in {batch[c], <<>>}
    BY <1>6 DEF HandleMoves, Refuse, IgnoreDuplicate, RefusalEnds, Register, HandleReturns,
                RouteEnds, Finish, taskVars, TypeOK
  <1>7. ASSUME NEW s \in Sessions, RoundMoves(s)
        PROVE  batch'[c] \in {batch[c], <<>>}
    BY <1>7 DEF RoundMoves, RoundEnds, Finish, StageEmoji, RoundWaits, BeforeRequest,
                taskVars, TypeOK
  <1>8. CASE Teardown \/ LinkMoves \/ UNCHANGED vars
    BY <1>1, <1>8 DEF Teardown, LinkMoves, TransportStops, Redial, taskVars, vars, TypeOK
  <1> QED
    BY <1>1, <1>3, <1>4, <1>5, <1>6, <1>7, <1>8, StepKinds

\* After the connection has gone, a step begins on no turn but a late one.
LEMMA StopsCompletionsStep ==
    ASSUME TypeOK, DrainedInv, [Next]_vars, link # "up"
    PROVE  \A c \in Tasks : InBatch(c)' \ InBatch(c) \subseteq late
  <1> SUFFICES ASSUME NEW c \in Tasks, NEW f \in InBatch(c)' \ InBatch(c)
               PROVE  f \in late
    OBVIOUS
  <1>1. f \in Frames /\ (IsLive(f) \/ pc[f] = "route")
    BY BatchesGrowLive
  <1> QED
    BY <1>1, LiveIsLate DEF DrainedInv

\* No turn of a connection that is gone is taken up afterwards, on whichever
\* connection its hooks and dispatch tasks may still be running.
THEOREM LostTurnsStayClosed == Spec => TeardownStopsCompletions
  <1>1. Init => DrainedInv
    BY DEF Init, DrainedInv
  <1>2. TypeOK /\ DrainedInv /\ [Next]_vars => DrainedInv'
    BY DrainedStep
  <1>3. TypeOK /\ DrainedInv /\ [Next]_vars =>
            [link # "up" => \A c \in Tasks : InBatch(c)' \ InBatch(c) \subseteq late]_vars
    BY StopsCompletionsStep
  <1> QED
    BY <1>1, <1>2, <1>3, TypeCorrect, PTL DEF Spec, TeardownStopsCompletions

----------------------------------------------------------------------------
(* With distinct turn ids: the indexes and the queue.                      *)

DistinctTurns == \A f, g \in Frames : TurnOf[f] = TurnOf[g] => f = g

Waits(f) == handle[f] = "waiting" /\ future[f] = "open"

QueueInv ==
    /\ IndexesAgree
    /\ \A f \in Frames : Waits(f) => byTurn[TurnOf[f]] = f
    /\ Cardinality(InUse) <= MaxPending

LEMMA InUseFinite == IsFiniteSet(InUse) /\ Cardinality(InUse) \in Nat
  <1>1. InUse \subseteq Turns
    BY DEF InUse
  <1> QED
    BY <1>1, ConstantsAssumption, FS_Subset, FS_CardinalityType

\* A step that frees places of the index, and makes nobody wait, keeps the queue.
LEMMA FreeingKeepsBound ==
    ASSUME Cardinality(InUse) <= MaxPending, InUse' \subseteq InUse
    PROVE  Cardinality(InUse') <= MaxPending
  <1>1. Cardinality(InUse') <= Cardinality(InUse) /\ Cardinality(InUse') \in Nat
    BY InUseFinite, FS_Subset, FS_CardinalityType
  <1> QED
    BY <1>1, InUseFinite, ConstantsAssumption

LEMMA QueueStep ==
    ASSUME DistinctTurns, TypeOK, QueueInv, [Next]_vars
    PROVE  QueueInv'
  <1> USE TasksType
  <1>1. ASSUME UNCHANGED <<byTurn, listed>>, \A f \in Frames : Waits(f)' => Waits(f)
        PROVE  QueueInv'
    BY <1>1 DEF QueueInv, IndexesAgree, InUse
  <1>2. ASSUME NEW f \in Frames, Unregister(f), ~Waits(f)',
               \A g \in Frames : Waits(g)' => Waits(g)
        PROVE  QueueInv'
    <2>1. \A g \in Frames \ {f} : byTurn'[TurnOf[g]] = byTurn[TurnOf[g]]
      BY <1>2, ConstantsAssumption DEF DistinctTurns, Unregister, TypeOK
    <2>2. byTurn'[TurnOf[f]] = None /\ listed' = listed \ {f} /\ None \notin Frames
      BY <1>2, ConstantsAssumption DEF Unregister, TypeOK
    <2>3. IndexesAgree'
      BY <2>1, <2>2 DEF QueueInv, IndexesAgree
    <2>4. InUse' \subseteq InUse
      BY <1>2 DEF InUse, Unregister, TypeOK
    <2> QED
      BY <1>2, <2>1, <2>3, <2>4, FreeingKeepsBound DEF QueueInv
  <1>3. ASSUME NEW f \in Frames, Register(f)
        PROVE  QueueInv'
    <2>1. /\ handle' = [handle EXCEPT ![f] = "waiting"] /\ UNCHANGED future
          /\ byTurn[TurnOf[f]] = None /\ byTurn' = [byTurn EXCEPT ![TurnOf[f]] = f]
          /\ listed' = listed \cup {f}
          /\ Cardinality(InUse) < MaxPending
      BY <1>3 DEF Register
    <2>2. \A g \in Frames \ {f} : byTurn'[TurnOf[g]] = byTurn[TurnOf[g]]
      BY <2>1, ConstantsAssumption DEF DistinctTurns, TypeOK
    <2>3. byTurn'[TurnOf[f]] = f
      BY <2>1, ConstantsAssumption DEF TypeOK
    <2>4. IndexesAgree'
      BY <2>1, <2>2, <2>3 DEF QueueInv, IndexesAgree
    <2>5. \A g \in Frames : Waits(g)' => byTurn'[TurnOf[g]] = g
      BY <2>1, <2>2, <2>3 DEF QueueInv, Waits, TypeOK
    <2>6. InUse' = InUse \cup {TurnOf[f]} /\ TurnOf[f] \notin InUse
      <3>1. TurnOf[f] \in Turns /\ f # None
        BY ConstantsAssumption
      <3>2. \A t \in Turns : byTurn'[t] = IF t = TurnOf[f] THEN f ELSE byTurn[t]
        BY <2>1 DEF TypeOK
      <3>3. \A t \in Turns : t \in InUse' <=> t \in InUse \/ t = TurnOf[f]
        BY <3>1, <3>2 DEF InUse
      <3>4. TurnOf[f] \notin InUse
        BY <2>1 DEF InUse
      <3> QED
        BY <3>1, <3>3, <3>4 DEF InUse
    <2>7. Cardinality(InUse') = Cardinality(InUse) + 1
      BY <2>6, InUseFinite, FS_AddElement
    <2>8. Cardinality(InUse') <= MaxPending
      BY <2>1, <2>7, InUseFinite, ConstantsAssumption
    <2> QED
      BY <2>4, <2>5, <2>8 DEF QueueInv
  <1>4. ASSUME NEW f \in Frames, HandleMoves(f) \/ RouteEnds(f) \/ RouteFails(f)
        PROVE  QueueInv'
    <2>1. UNCHANGED <<byTurn, listed, future>>
      BY <1>4 DEF HandleMoves, Refuse, IgnoreDuplicate, RefusalEnds, RouteEnds, RouteFails, indexVars
    <2>2. \A g \in Frames : handle'[g] = "waiting" => handle[g] = "waiting"
      BY <1>4 DEF HandleMoves, Refuse, IgnoreDuplicate, RefusalEnds, RouteEnds, RouteFails,
                  roundVars, TypeOK
    <2> QED
      BY <1>1, <2>1, <2>2 DEF Waits
  <1>5. ASSUME NEW f \in Frames, HandleReturns(f)
        PROVE  QueueInv'
    <2>1. handle' = [handle EXCEPT ![f] = "returned"] /\ UNCHANGED future /\ Unregister(f)
      BY <1>5 DEF HandleReturns
    <2> QED
      BY <1>2, <2>1 DEF Waits, TypeOK
  <1>6. ASSUME NEW s \in Sessions, RoundMoves(s)
        PROVE  QueueInv'
    <2>1. UNCHANGED <<byTurn, listed, future, handle>>
      BY <1>6 DEF RoundMoves, RoundEnds, StageEmoji, RoundWaits, BeforeRequest, indexVars, roundVars
    <2> QED
      BY <1>1, <2>1 DEF Waits
  <1>7. ASSUME NEW c \in Tasks, \/ Acquire(c) \/ JoinEnds(c) \/ Interruption(c)
                                \/ \E s \in Sessions, a \in Outcomes : Complete(c, s, a)
        PROVE  QueueInv'
    <2>1. UNCHANGED <<byTurn, listed, handle>>
      BY <1>7 DEF Acquire, JoinEnds, Interruption, Complete, indexVars, roundVars
    <2>2. \A f \in Frames : future'[f] = "open" => future[f] = "open"
      BY <1>7 DEF Acquire, JoinEnds, Interruption, Complete, TypeOK
    <2> QED
      BY <1>1, <2>1, <2>2 DEF Waits
  <1>8. ASSUME NEW c \in Tasks, NEW result \in {"answered", "failed"}, SendEnds(c, result)
        PROVE  QueueInv'
    <2>1. Head(batch[c]) \in Frames
      BY <1>8, TailOfBatch DEF TypeOK, SendEnds
    <2>2. /\ Unregister(Head(batch[c])) /\ UNCHANGED handle
          /\ Settle(Head(batch[c]), result)
      BY <1>8 DEF SendEnds, roundVars
    <2>3. /\ future'[Head(batch[c])] # "open"
          /\ \A f \in Frames : future'[f] = "open" => future[f] = "open"
      BY <2>1, <2>2 DEF Settle, TypeOK
    <2> QED
      BY <1>2, <2>1, <2>2, <2>3 DEF Waits
  <1>9. CASE Teardown
    <2>1. \A f \in Frames : TurnOf[f] \in Turns /\ f # None
      BY ConstantsAssumption
    <2>2. /\ byTurn' = [t \in Turns |-> None]
          /\ listed' = {f \in listed : byTurn[TurnOf[f]] # f}
      BY <1>9 DEF Teardown
    <2>3. IndexesAgree'
      BY <2>1, <2>2 DEF QueueInv, IndexesAgree
    <2>4. InUse' \subseteq InUse
      BY <2>2 DEF InUse
    <2>5. \A f \in Frames : ~Waits(f)'
      BY <1>9 DEF Teardown, Closed, Waits
    <2> QED
      BY <2>3, <2>4, <2>5, FreeingKeepsBound DEF QueueInv
  <1>10. CASE LinkMoves \/ UNCHANGED vars
    BY <1>1, <1>10 DEF LinkMoves, TransportStops, Redial, indexVars, vars, Waits
  <1> QED
    BY <1>3, <1>4, <1>5, <1>6, <1>7, <1>8, <1>9, <1>10, StepKinds DEF TaskMoves

LEMMA QueueInit == Init => QueueInv
  <1> SUFFICES ASSUME Init PROVE QueueInv
    OBVIOUS
  <1>1. \A f \in Frames : TurnOf[f] \in Turns /\ f # None
    BY ConstantsAssumption
  <1>2. IndexesAgree /\ \A f \in Frames : ~Waits(f)
    BY <1>1 DEF Init, IndexesAgree, Waits
  <1>3. InUse = {}
    BY DEF Init, InUse
  <1> QED
    BY <1>2, <1>3, FS_EmptySet, ConstantsAssumption DEF QueueInv

THEOREM QueueInvariant ==
    ASSUME DistinctTurns
    PROVE  Spec => []QueueInv
  <1>1. TypeOK /\ QueueInv /\ [Next]_vars => QueueInv'
    BY QueueStep
  <1> QED
    BY <1>1, QueueInit, TypeCorrect, PTL DEF Spec

\* With distinct turn ids, the two indexes always name the same turns.
THEOREM IndexesNameTheSame ==
    ASSUME DistinctTurns
    PROVE  Spec => []IndexesAgree
  <1>1. QueueInv => IndexesAgree
    BY DEF QueueInv
  <1> QED
    BY <1>1, QueueInvariant, PTL

\* With distinct turn ids, no more requests wait than the queue has places.
THEOREM QueueIsBounded ==
    ASSUME DistinctTurns
    PROVE  Spec => []OpenTurnsBounded
  <1>1. ASSUME TypeOK, QueueInv
        PROVE  OpenTurnsBounded
    <2> DEFINE W == {f \in Frames : Waits(f)}
               turnOf == [f \in W |-> TurnOf[f]]
    <2>1. turnOf \in Injection(W, InUse)
      <3>1. \A f \in W : TurnOf[f] \in InUse
        BY <1>1, ConstantsAssumption DEF QueueInv, InUse
      <3>2. \A f, g \in W : TurnOf[f] = TurnOf[g] => f = g
        BY DEF DistinctTurns
      <3> QED
        BY <3>1, <3>2 DEF Injection, IsInjective
    <2>2. IsFiniteSet(W) /\ Cardinality(W) <= Cardinality(InUse)
      BY <2>1, InUseFinite, FS_Injection DEF ExistsInjection
    <2>3. Cardinality(W) \in Nat
      BY <2>2, FS_CardinalityType
    <2>4. W = {f \in Frames : handle[f] = "waiting" /\ future[f] = "open"}
      BY DEF Waits
    <2> HIDE DEF W
    <2> QED
      BY <1>1, <2>2, <2>3, <2>4, InUseFinite, ConstantsAssumption DEF QueueInv, OpenTurnsBounded
  <1> QED
    BY <1>1, QueueInvariant, TypeCorrect, PTL

----------------------------------------------------------------------------
(* With distinct turn ids: replies.  A reply goes to the last turn of a    *)
(* batch, so what has to be shown is that nothing older is missing from    *)
(* the batch: neither from the list of the session nor from a lease, which *)
(* may be older than turns that have come since.  That a turn once closed  *)
(* is never live again keeps it so while the batch is worked through.      *)

Leased(s, t) == \E i \in DOMAIN lease[s].turns : lease[s].turns[i] = t

\* f came before g and is still to be closed
OlderLive(f, g) == Before(f, g) /\ SessionOf[f] = SessionOf[g] /\ IsLive(f)

Covers(B) == \A g \in B, f \in Frames : OlderLive(f, g) => f \in B

OrderInv == \A i \in DOMAIN order : Registered(order[i])

LeaseInv == \A s \in Sessions :
    /\ \A t \in Turns : Leased(s, t) => \E i \in DOMAIN order : TurnOf[order[i]] = t
    /\ \A f, g \in Frames : Leased(s, TurnOf[g]) /\ OlderLive(f, g) => Leased(s, TurnOf[f])

BatchInv == \A c \in Tasks : answer[c] = "reply" => Covers(InBatch(c))

ReplyInv == OrderInv /\ LeaseInv /\ BatchInv /\ ReplyLeavesNoOlderTurn

\* no step but Register does otherwise
NobodyRevives ==
    /\ UNCHANGED order
    /\ \A f \in Frames : Registered(f) => Registered(f)'
    /\ \A f \in Frames : IsLive(f)' => IsLive(f)

LEMMA OnlyRegisterRevives ==
    ASSUME TypeOK, [Next]_vars, \A f \in Frames : ~Register(f)
    PROVE  NobodyRevives
  <1> USE TasksType
  <1>1. ASSUME UNCHANGED order, \A f \in Frames : Registered(f) => Registered(f)',
               \A f \in Frames : started[f] => started'[f],
               \A f \in Frames : future'[f] = "open" => future[f] = "open",
               \A t \in Turns : byTurn'[t] \in {byTurn[t], None}
        PROVE  NobodyRevives
    BY <1>1, ConstantsAssumption DEF NobodyRevives, IsLive
  <1>2. \A c : /\ \A f \in Frames : \A o : Locked(c, f, o) => \A g \in Frames : started[g] => started'[g]
               /\ \A b \in Seq(Frames) \ {<<>>} : \A a : Enter(c, b, a) =>
                    \A g \in Frames : started[g] => started'[g]
               /\ Finish(c) => UNCHANGED started
    <2>1. ASSUME NEW c, NEW f \in Frames, NEW o, Locked(c, f, o)
          PROVE  \A g \in Frames : started[g] => started'[g]
      BY <2>1 DEF Locked, StartTerminal, TypeOK
    <2>2. \A b \in Seq(Frames) \ {<<>>} : Head(b) \in Frames
      BY TailOfBatch
    <2> QED
      BY <2>1, <2>2 DEF Enter, Finish
  <1>3. ASSUME NEW f \in Frames, HandleMoves(f) \/ HandleReturns(f)
        PROVE  NobodyRevives
    <2>1. /\ UNCHANGED <<order, started, future>>
          /\ \A g \in Frames : Registered(g) => Registered(g)'
      BY <1>3 DEF HandleMoves, Refuse, IgnoreDuplicate, RefusalEnds, HandleReturns, turnVars,
                  Arrives, Registered, TypeOK
    <2>2. \A t \in Turns : byTurn'[t] \in {byTurn[t], None}
      BY <1>3 DEF HandleMoves, Refuse, IgnoreDuplicate, RefusalEnds, HandleReturns, Unregister,
                  indexVars, TypeOK
    <2> QED
      BY <1>1, <2>1, <2>2
  <1>4. ASSUME NEW f \in Frames, RouteEnds(f) \/ RouteFails(f)
        PROVE  NobodyRevives
    <2>1. UNCHANGED <<order, handle, future, byTurn>>
      BY <1>4 DEF RouteEnds, RouteFails, roundVars, indexVars
    <2>2. \A g \in Frames : started[g] => started'[g]
      <3>1. <<f>> \in Seq(Frames) \ {<<>>}
        OBVIOUS
      <3> QED
        BY <1>2, <1>4, <3>1 DEF RouteEnds, RouteFails
    <2> QED
      BY <1>1, <2>1, <2>2 DEF Registered
  <1>5. ASSUME NEW s \in Sessions, RoundMoves(s)
        PROVE  NobodyRevives
    BY <1>1, <1>5 DEF RoundMoves, RoundEnds, Finish, StageEmoji, RoundWaits, BeforeRequest,
                      indexVars, roundVars, turnVars, Registered
  <1>6. ASSUME NEW c \in Tasks, TaskMoves(c)
        PROVE  NobodyRevives
    <2>1. UNCHANGED <<order, handle>>
      BY <1>6 DEF TaskMoves, Acquire, JoinEnds, Interruption, SendEnds, Complete, roundVars
    <2>2. \A t \in Turns : byTurn'[t] \in {byTurn[t], None}
      BY <1>6 DEF TaskMoves, Acquire, JoinEnds, Interruption, SendEnds, Complete, indexVars,
                  Unregister, TypeOK
    <2>3. \A g \in Frames : future'[g] = "open" => future[g] = "open"
      BY <1>6 DEF TaskMoves, Acquire, JoinEnds, Interruption, SendEnds, Complete, Settle, TypeOK
    <2>4. \A g \in Frames : started[g] => started'[g]
      <3>1. CASE Acquire(c)
        <4>1. Head(batch[c]) \in Frames
          BY <3>1, TailOfBatch DEF Acquire, TypeOK
        <4> QED
          BY <1>2, <3>1, <4>1 DEF Acquire
      <3>2. ASSUME batch[c] # <<>>, Proceed(c)
            PROVE  \A g \in Frames : started[g] => started'[g]
        <4>1. Tail(batch[c]) \in Seq(Frames)
          BY <3>2, TailOfBatch DEF TypeOK
        <4> QED
          BY <1>2, <3>2, <4>1 DEF Proceed
      <3>3. CASE JoinEnds(c) \/ \E result \in {"answered", "failed"} : SendEnds(c, result)
        BY <3>2, <3>3 DEF JoinEnds, SendEnds, TypeOK
      <3>4. ASSUME NEW s \in Sessions, NEW a, RequestBatch(s) # <<>>, Enter(c, RequestBatch(s), a)
            PROVE  \A g \in Frames : started[g] => started'[g]
        BY <1>2, <3>4, BatchesAreLive, LiveBatchesType
      <3>5. CASE Interruption(c)
        BY <1>2, <3>4, <3>5 DEF Interruption, Interrupt
      <3>6. ASSUME NEW s \in Sessions, NEW a \in Outcomes, Complete(c, s, a)
            PROVE  \A g \in Frames : started[g] => started'[g]
        BY <3>4, <3>6 DEF Complete
      <3> QED
        BY <1>6, <3>1, <3>3, <3>5, <3>6 DEF TaskMoves
    <2> QED
      BY <1>1, <2>1, <2>2, <2>3, <2>4 DEF Registered
  <1>7. CASE Teardown
    <2>1. UNCHANGED <<order, started>> /\ \A t \in Turns : byTurn'[t] = None
      BY <1>7 DEF Teardown, turnVars
    <2>2. \A f \in Frames : Registered(f) => Registered(f)'
      BY <1>7 DEF Teardown, Registered
    <2>3. \A f \in Frames : future'[f] = "open" => future[f] = "open"
      BY <1>7 DEF Teardown, Closed
    <2> QED
      BY <1>1, <2>1, <2>2, <2>3
  <1>8. CASE LinkMoves \/ UNCHANGED vars
    BY <1>1, <1>8 DEF LinkMoves, TransportStops, Redial, indexVars, turnVars, vars, Registered
  <1> QED
    BY <1>3, <1>4, <1>5, <1>6, <1>7, <1>8, StepKinds

LEMMA OlderKept ==
    ASSUME NobodyRevives
    PROVE  \A f, g \in Frames : OlderLive(f, g)' => OlderLive(f, g)
  BY DEF NobodyRevives, OlderLive, Before

LEMMA FilteredElements ==
    ASSUME NEW q, NEW V, q \in Seq(V), NEW S
    PROVE  Elements(Filtered(q, S)) = {x \in S : \E i \in DOMAIN q : q[i] = x}
  <1> DEFINE R == {x \in S : \E i \in DOMAIN q : q[i] = x}
             p == Filtered(q, S)
  <1>1. p \in Seq(R) /\ R \subseteq Elements(p)
    BY FilteredKeeps
  <1> HIDE DEF R, p
  <1>2. \A j \in DOMAIN p : p[j] \in R
    BY <1>1
  <1>3. Elements(p) = R
    BY <1>1, <1>2 DEF Elements
  <1> QED
    BY <1>3 DEF R, p

\* the part of _request_batch_for_session that follows the lease
LeasedBatch(s) ==
    Filtered([i \in DOMAIN lease[s].turns |-> byTurn[lease[s].turns[i]]],
             {f \in Frames : IsLive(f)})

\* Which turns a batch is made of.
LEMMA BatchElements ==
    ASSUME TypeOK, NEW s \in Sessions
    PROVE  /\ RequestBatch(s) = IF LeasedBatch(s) # <<>> THEN LeasedBatch(s) ELSE PendingBatch(s)
           /\ lease[s].turns \in Seq(Turns)
           /\ Elements(LeasedBatch(s)) =
                {f \in Frames : IsLive(f) /\ \E i \in DOMAIN lease[s].turns : byTurn[lease[s].turns[i]] = f}
           /\ Elements(PendingBatch(s)) =
                {f \in LivePendings(s) : \E i \in DOMAIN order : order[i] = f}
  <1> DEFINE live == {f \in Frames : IsLive(f)}
             turns == lease[s].turns
             found == [i \in DOMAIN turns |-> byTurn[turns[i]]]
  <1>1. turns \in Seq(Turns) /\ byTurn \in [Turns -> Frames \cup {None}] /\ order \in Seq(Frames)
    BY DEF TypeOK, Leases
  <1>2. found \in Seq(Frames \cup {None})
    BY <1>1
  <1>3. Elements(Filtered(found, live)) = {f \in live : \E i \in DOMAIN found : found[i] = f}
    <2> HIDE DEF found, live
    <2> QED
      BY <1>2, FilteredElements
  <1>4. Elements(LeasedBatch(s)) = {f \in live : \E i \in DOMAIN turns : byTurn[turns[i]] = f}
    BY <1>3 DEF LeasedBatch
  <1>5. Elements(PendingBatch(s)) = {f \in LivePendings(s) : \E i \in DOMAIN order : order[i] = f}
    BY <1>1, FilteredElements DEF PendingBatch
  <1>6. RequestBatch(s) = IF LeasedBatch(s) # <<>> THEN LeasedBatch(s) ELSE PendingBatch(s)
    BY DEF RequestBatch, LeasedBatch
  <1> QED
    BY <1>1, <1>4, <1>5, <1>6

\* The turns that handle_reply_session and handle_no_reply_session take, leased or
\* not, are all the live ones up to the last of them.
LEMMA BatchesCover ==
    ASSUME DistinctTurns, TypeOK, IndexInv, IndexesAgree, LeaseInv, NEW s \in Sessions
    PROVE  /\ Elements(PendingBatch(s)) =
                {f \in LivePendings(s) : \E i \in DOMAIN order : order[i] = f}
           /\ Covers(Elements(PendingBatch(s)))
           /\ Covers(Elements(RequestBatch(s)))
  <1>1. Covers(Elements(PendingBatch(s)))
    <2> SUFFICES ASSUME NEW g \in Elements(PendingBatch(s)), NEW f \in Frames, OlderLive(f, g)
                 PROVE  f \in Elements(PendingBatch(s))
      BY DEF Covers
    <2>1. SessionOf[g] = s
      BY BatchElements DEF LivePendings
    <2>2. SessionOf[f] = s /\ IsLive(f) /\ \E i \in DOMAIN order : order[i] = f
      BY <2>1 DEF OlderLive, Before
    <2>3. f \in listed
      BY <2>2 DEF IndexesAgree, IsLive
    <2> QED
      BY <2>2, <2>3, BatchElements DEF LivePendings
  <1>2. Covers(Elements(LeasedBatch(s)))
    <2> SUFFICES ASSUME NEW g \in Elements(LeasedBatch(s)), NEW f \in Frames, OlderLive(f, g)
                 PROVE  f \in Elements(LeasedBatch(s))
      BY DEF Covers
    <2> DEFINE turns == lease[s].turns
    <2>1. g \in Frames /\ \E i \in DOMAIN turns : turns[i] \in Turns /\ byTurn[turns[i]] = g
      BY BatchElements
    <2>2. Leased(s, TurnOf[g])
      BY <2>1, ConstantsAssumption DEF IndexInv, Leased
    <2>3. Leased(s, TurnOf[f]) /\ IsLive(f)
      BY <2>1, <2>2 DEF LeaseInv, OlderLive
    <2> QED
      BY <2>3, BatchElements DEF Leased, IsLive
  <1> QED
    BY <1>1, <1>2, BatchElements

\* What a step puts on the wire for a turn that was taken up is what it was begun with.
LEMMA RepliesAreBegun ==
    ASSUME TypeOK, WireInv, NEW c \in Tasks, NEW h \in Frames, NEW o \in Outcomes,
           Registered(h), Locked(c, h, o), NEW g \in Frames,
           wire'[g] = <<"reply">>, wire[g] # <<"reply">>
    PROVE  g = h /\ o = "reply" /\ started'[h]
  <1>1. ~started[h] /\ StartTerminal(c, h, o)
    BY DEF Locked
  <1>2. wire[h] = <<>>
    BY <1>1 DEF WireInv, Registered
  <1>3. wire' = [wire EXCEPT ![h] = IF link \in {"up", "next"} THEN Append(wire[h], o) ELSE wire[h]]
    BY <1>1 DEF StartTerminal, HandOver
  <1>4. g = h
    BY <1>3 DEF TypeOK
  <1>5. wire'[h] = <<o>>
    BY <1>2, <1>3, <1>4 DEF TypeOK
  <1>6. started'[h]
    BY <1>1 DEF StartTerminal, TypeOK
  <1> QED
    BY <1>4, <1>5, <1>6

\* A task that turns to a batch which lacks no older turn leaves none behind.
LEMMA TurningKeeps ==
    ASSUME TypeOK, WireInv, BatchInv, ReplyLeavesNoOlderTurn, NobodyRevives,
           NEW c \in Tasks, NEW b \in Seq(Frames), b # <<>>, NEW a \in Outcomes,
           \A i \in DOMAIN b : Registered(b[i]),
           batch' = [batch EXCEPT ![c] = b], answer' = [answer EXCEPT ![c] = a],
           UNCHANGED wire \/ Locked(c, Head(b), OutcomeFor(b, a)),
           a = "reply" => \A g \in Elements(b), f \in Frames : OlderLive(f, g)' => f \in Elements(b)
    PROVE  BatchInv' /\ ReplyLeavesNoOlderTurn'
  <1>1. BatchInv'
    <2> SUFFICES ASSUME NEW d \in Tasks, answer'[d] = "reply",
                        NEW g \in InBatch(d)', NEW f \in Frames, OlderLive(f, g)'
                 PROVE  f \in InBatch(d)'
      BY DEF BatchInv, Covers
    <2>1. CASE d = c
      <3>1. InBatch(d)' = Elements(b) /\ a = "reply"
        BY <2>1 DEF InBatch, Elements, TypeOK
      <3> QED
        BY <3>1
    <2>2. CASE d # c
      <3>1. InBatch(d)' = InBatch(d) /\ answer[d] = "reply"
        BY <2>2 DEF InBatch, TypeOK
      <3>2. g \in Frames
        BY <3>1 DEF InBatch, TypeOK
      <3> QED
        BY <3>1, <3>2, OlderKept DEF BatchInv, Covers
    <2> QED
      BY <2>1, <2>2
  <1>2. ReplyLeavesNoOlderTurn'
    <2> SUFFICES ASSUME NEW f \in Frames, NEW g \in Frames, Before(f, g)',
                        SessionOf[f] = SessionOf[g], wire'[g] = <<"reply">>, IsLive(f)'
                 PROVE  FALSE
      BY DEF ReplyLeavesNoOlderTurn
    <2>1. OlderLive(f, g)' /\ OlderLive(f, g)
      BY OlderKept DEF OlderLive
    <2>2. wire[g] # <<"reply">>
      BY <2>1 DEF ReplyLeavesNoOlderTurn, OlderLive
    <2>3. Head(b) \in Frames /\ Registered(Head(b)) /\ OutcomeFor(b, a) \in Outcomes
      BY TailOfBatch DEF OutcomeFor, Outcomes
    <2>4. g = Head(b) /\ OutcomeFor(b, a) = "reply" /\ started'[g]
      BY <2>2, <2>3, RepliesAreBegun
    <2>5. Len(b) = 1 /\ a = "reply"
      BY <2>4 DEF OutcomeFor
    <2>6. Elements(b) = {Head(b)}
      BY <2>5 DEF Elements
    <2>7. f = g
      BY <2>1, <2>4, <2>5, <2>6
    <2> QED
      BY <2>4, <2>7 DEF IsLive
  <1> QED
    BY <1>1, <1>2

LEMMA FinishingKeeps ==
    ASSUME TypeOK, BatchInv, ReplyLeavesNoOlderTurn, NobodyRevives, NEW c \in Tasks, Finish(c)
    PROVE  BatchInv' /\ ReplyLeavesNoOlderTurn'
  <1>1. BatchInv'
    <2> SUFFICES ASSUME NEW d \in Tasks, answer'[d] = "reply",
                        NEW g \in InBatch(d)', NEW f \in Frames, OlderLive(f, g)'
                 PROVE  f \in InBatch(d)'
      BY DEF BatchInv, Covers
    <2>1. d # c /\ InBatch(d)' = InBatch(d) /\ answer[d] = "reply"
      BY DEF Finish, InBatch, TypeOK
    <2>2. g \in InBatch(d) /\ batch[d] \in Seq(Frames)
      BY <2>1 DEF TypeOK
    <2>3. g \in Frames
      BY <2>2 DEF InBatch
    <2> QED
      BY <2>1, <2>3, OlderKept DEF BatchInv, Covers
  <1>2. ReplyLeavesNoOlderTurn'
    BY DEF Finish, NobodyRevives, ReplyLeavesNoOlderTurn, Before
  <1> QED
    BY <1>1, <1>2

\* Nothing that concerns replies happens.
LEMMA IdlingKeeps ==
    ASSUME TypeOK, BatchInv, ReplyLeavesNoOlderTurn, NobodyRevives, UNCHANGED <<batch, answer>>,
           \A f \in Frames : wire'[f] = <<"reply">> => wire[f] = <<"reply">>
    PROVE  BatchInv' /\ ReplyLeavesNoOlderTurn'
  <1>1. BatchInv'
    <2> SUFFICES ASSUME NEW d \in Tasks, answer'[d] = "reply",
                        NEW g \in InBatch(d)', NEW f \in Frames, OlderLive(f, g)'
                 PROVE  f \in InBatch(d)'
      BY DEF BatchInv, Covers
    <2>1. InBatch(d)' = InBatch(d) /\ answer[d] = "reply" /\ g \in Frames
      BY DEF InBatch, TypeOK
    <2> QED
      BY <2>1, OlderKept DEF BatchInv, Covers
  <1>2. ReplyLeavesNoOlderTurn'
    BY DEF NobodyRevives, ReplyLeavesNoOlderTurn, Before
  <1> QED
    BY <1>1, <1>2

\* A lease that is kept or dropped lacks no older turn.
LEMMA LeaseKept ==
    ASSUME TypeOK, LeaseInv, NobodyRevives, \A s \in Sessions : lease'[s] \in {lease[s], NoLease}
    PROVE  LeaseInv'
  <1> SUFFICES ASSUME NEW s \in Sessions
               PROVE  /\ \A t \in Turns : Leased(s, t)' =>
                            \E i \in DOMAIN order' : TurnOf[order'[i]] = t
                      /\ \A f, g \in Frames : Leased(s, TurnOf[g])' /\ OlderLive(f, g)'
                            => Leased(s, TurnOf[f])'
    BY DEF LeaseInv
  <1>1. CASE lease'[s] = NoLease
    BY <1>1 DEF Leased, NoLease
  <1>2. CASE lease'[s] = lease[s]
    <2>1. \A t : Leased(s, t)' <=> Leased(s, t)
      BY <1>2 DEF Leased
    <2> QED
      BY <2>1, OlderKept DEF LeaseInv, NobodyRevives
  <1> QED
    BY <1>1, <1>2

LEMMA UnregisterKeepsLeases ==
    ASSUME TypeOK, NEW f \in Frames, Unregister(f)
    PROVE  \A s \in Sessions : lease'[s] \in {lease[s], NoLease}
  BY DEF Unregister, WithoutStale

LEMMA ReplyFrameStep ==
    ASSUME TypeOK, TerminalInv, ReplyInv, NobodyRevives, NEW f \in Frames,
           HandleMoves(f) \/ HandleReturns(f) \/ RouteEnds(f) \/ RouteFails(f)
    PROVE  LeaseInv' /\ BatchInv' /\ ReplyLeavesNoOlderTurn'
  <1> USE TasksType DEF ReplyInv, TerminalInv
  <1>1. LeaseInv'
    <2>1. \A s \in Sessions : lease'[s] \in {lease[s], NoLease}
      BY UnregisterKeepsLeases DEF HandleMoves, Refuse, IgnoreDuplicate, RefusalEnds,
         HandleReturns, RouteEnds, RouteFails, indexVars
    <2> QED
      BY <2>1, LeaseKept
  <1>2. CASE HandleMoves(f) \/ HandleReturns(f)
    <2>1. UNCHANGED <<batch, answer>>
      BY <1>2 DEF HandleMoves, Refuse, IgnoreDuplicate, RefusalEnds, HandleReturns, taskVars
    <2>2. \A g \in Frames : wire'[g] = <<"reply">> => wire[g] = <<"reply">>
      <3>1. CASE handle[f] = "new" /\ Refuse(f)
        <4>1. wire[f] = <<>>
          BY <3>1 DEF WireInv, Registered
        <4>2. wire' = [wire EXCEPT ![f] = IF link \in {"up", "next"} THEN Append(wire[f], "no_reply")
                                          ELSE wire[f]]
          BY <3>1 DEF Refuse, HandOver
        <4>3. Append(wire[f], "no_reply") = <<"no_reply">>
          BY <4>1
        <4>4. <<"no_reply">> # <<"reply">>
          OBVIOUS
        <4> QED
          BY <4>2, <4>3, <4>4 DEF TypeOK
      <3>2. CASE UNCHANGED wire
        BY <3>2
      <3> QED
        BY <1>2, <3>1, <3>2 DEF HandleMoves, IgnoreDuplicate, RefusalEnds, HandleReturns, turnVars
    <2> QED
      BY <1>1, <2>1, <2>2, IdlingKeeps
  <1>3. CASE RouteEnds(f)
    BY <1>1, <1>3, FinishingKeeps DEF RouteEnds
  <1>4. CASE RouteFails(f)
    <2>1. <<f>> \in Seq(Frames) /\ <<f>> # <<>> /\ Head(<<f>>) = f /\ "no_reply" \in Outcomes
      BY DEF Outcomes
    <2>2. \A i \in DOMAIN <<f>> : Registered(<<f>>[i])
      BY <1>4 DEF RouteFails, TaskInv
    <2>3. /\ batch' = [batch EXCEPT ![f] = <<f>>] /\ answer' = [answer EXCEPT ![f] = "no_reply"]
          /\ UNCHANGED wire \/ Locked(f, Head(<<f>>), OutcomeFor(<<f>>, "no_reply"))
      BY <1>4 DEF RouteFails, Enter
    <2>4. "no_reply" # "reply"
      OBVIOUS
    <2> QED
      BY <1>1, <2>1, <2>2, <2>3, <2>4, TurningKeeps
  <1> QED
    BY <1>1, <1>2, <1>3, <1>4

LEMMA ReplyRoundStep ==
    ASSUME DistinctTurns, TypeOK, TerminalInv, QueueInv, ReplyInv, NobodyRevives,
           NEW s \in Sessions, RoundMoves(s)
    PROVE  LeaseInv' /\ BatchInv' /\ ReplyLeavesNoOlderTurn'
  <1> USE TasksType DEF ReplyInv, TerminalInv
  <1>1. CASE RoundEnds(s)
    BY <1>1, FinishingKeeps, LeaseKept DEF RoundEnds, indexVars
  <1>2. CASE StageEmoji(s) \/ \E await \in {"emoji", "compose"} : RoundWaits(s, await)
    BY <1>2, IdlingKeeps, LeaseKept DEF StageEmoji, RoundWaits, indexVars, taskVars, turnVars
  <1>3. ASSUME NEW phase \in {"timing_gate", "planner"}, BeforeRequest(s, phase)
        PROVE  LeaseInv' /\ BatchInv' /\ ReplyLeavesNoOlderTurn'
    <2>1. BatchInv' /\ ReplyLeavesNoOlderTurn'
      BY <1>3, IdlingKeeps DEF BeforeRequest, turnVars
    <2>2. CASE ~HasPending(s)
      BY <1>3, <2>1, <2>2, LeaseKept DEF BeforeRequest
    <2>3. CASE HasPending(s)
      <3> DEFINE b == PendingBatch(s)
                 new == [phase |-> phase, turns |-> TurnIds(b)]
      <3>1. lease' = [lease EXCEPT ![s] = new]
        BY <1>3, <2>3 DEF BeforeRequest
      <3>2. /\ Elements(b) = {f \in LivePendings(s) : \E i \in DOMAIN order : order[i] = f}
            /\ Covers(Elements(b))
        BY BatchesCover DEF QueueInv
      <3>3. Elements(b) \subseteq Frames
        BY <3>2 DEF LivePendings, TypeOK
      <3>4. \A t : Leased(s, t)' <=> \E f \in Elements(b) : TurnOf[f] = t
        <4>1. lease'[s].turns = TurnIds(b)
          BY <3>1 DEF TypeOK
        <4>2. /\ DOMAIN TurnIds(b) = DOMAIN b
              /\ \A i \in DOMAIN b : TurnIds(b)[i] = TurnOf[b[i]]
          BY DEF TurnIds
        <4> HIDE DEF b, new
        <4> QED
          BY <4>1, <4>2 DEF Leased, Elements
      <3>5. \A r \in Sessions \ {s} : \A t : Leased(r, t)' <=> Leased(r, t)
        BY <3>1 DEF Leased, TypeOK
      <3> HIDE DEF b, new
      <3>6. ASSUME NEW t \in Turns, Leased(s, t)'
            PROVE  \E i \in DOMAIN order' : TurnOf[order'[i]] = t
        BY <3>2, <3>4, <3>6 DEF NobodyRevives
      <3>7. ASSUME NEW f \in Frames, NEW g \in Frames, Leased(s, TurnOf[g])', OlderLive(f, g)'
            PROVE  Leased(s, TurnOf[f])'
        <4>1. g \in Elements(b)
          BY <3>3, <3>4, <3>7 DEF DistinctTurns
        <4>2. f \in Elements(b)
          BY <3>2, <3>7, <4>1, OlderKept DEF Covers
        <4> QED
          BY <3>4, <4>2
      <3>8. ASSUME NEW r \in Sessions \ {s}
            PROVE  /\ \A t \in Turns : Leased(r, t)' => \E i \in DOMAIN order' : TurnOf[order'[i]] = t
                   /\ \A f, g \in Frames : Leased(r, TurnOf[g])' /\ OlderLive(f, g)'
                         => Leased(r, TurnOf[f])'
        BY <3>5, OlderKept DEF LeaseInv, NobodyRevives
      <3>9. LeaseInv'
        BY <3>6, <3>7, <3>8 DEF LeaseInv
      <3> QED
        BY <2>1, <3>9
    <2> QED
      BY <2>2, <2>3
  <1> QED
    BY <1>1, <1>2, <1>3 DEF RoundMoves

LEMMA ReplyTaskStep ==
    ASSUME DistinctTurns, TypeOK, TerminalInv, QueueInv, ReplyInv, NobodyRevives,
           NEW c \in Tasks, TaskMoves(c)
    PROVE  LeaseInv' /\ BatchInv' /\ ReplyLeavesNoOlderTurn'
  <1> USE TasksType DEF ReplyInv, TerminalInv
  <1>1. LeaseInv'
    <2>1. \A s \in Sessions : lease'[s] \in {lease[s], NoLease}
      <3>1. CASE UNCHANGED lease
        BY <3>1
      <3>2. ASSUME NEW result \in {"answered", "failed"}, SendEnds(c, result)
            PROVE  \A s \in Sessions : lease'[s] \in {lease[s], NoLease}
        <4>1. Head(batch[c]) \in Frames
          BY <3>2, TailOfBatch DEF SendEnds, TypeOK
        <4> QED
          BY <3>2, <4>1, UnregisterKeepsLeases DEF SendEnds
      <3> QED
        BY <3>1, <3>2 DEF TaskMoves, Acquire, JoinEnds, Interruption, Complete, indexVars
    <2> QED
      BY <2>1, LeaseKept
  <1>2. CASE Acquire(c)
    <2>1. /\ batch[c] \in Seq(Frames) /\ batch[c] # <<>> /\ answer[c] \in Outcomes
          /\ \A i \in DOMAIN batch[c] : Registered(batch[c][i])
      BY <1>2 DEF Acquire, TypeOK, TaskInv
    <2>2. /\ batch' = [batch EXCEPT ![c] = batch[c]] /\ answer' = [answer EXCEPT ![c] = answer[c]]
          /\ Locked(c, Head(batch[c]), OutcomeFor(batch[c], answer[c]))
      BY <1>2 DEF Acquire, TypeOK
    <2>3. answer[c] = "reply" => \A g \in Elements(batch[c]), f \in Frames :
            OlderLive(f, g)' => f \in Elements(batch[c])
      BY <2>1, OlderKept DEF BatchInv, Covers, InBatch, Elements
    <2> QED
      BY <1>1, <2>1, <2>2, <2>3, TurningKeeps
  <1>3. ASSUME pc[c] \in {"send", "join"}, Proceed(c),
               NEW h \in Frames, h = Head(batch[c]), ~IsLive(h)'
        PROVE  BatchInv' /\ ReplyLeavesNoOlderTurn'
    <2>1. CASE Finish(c)
      BY <2>1, FinishingKeeps
    <2>2. CASE Tail(batch[c]) # <<>> /\ Enter(c, Tail(batch[c]), answer[c])
      <3> DEFINE b == Tail(batch[c])
      <3>1. batch[c] \in Seq(Frames) /\ batch[c] # <<>> /\ answer[c] \in Outcomes
        BY <1>3 DEF TypeOK
      <3>2. /\ b \in Seq(Frames) /\ b # <<>>
            /\ \A i \in DOMAIN b : i + 1 \in DOMAIN batch[c] /\ b[i] = batch[c][i + 1]
        BY <2>2, <3>1, TailOfBatch
      <3>3. \A i \in DOMAIN b : Registered(b[i])
        BY <3>2 DEF TaskInv
      <3>4. Elements(b) \subseteq InBatch(c) /\ InBatch(c) \subseteq Elements(b) \cup {Head(batch[c])}
        <4>1. Elements(b) \subseteq InBatch(c)
          BY <3>2 DEF Elements, InBatch
        <4>2. ASSUME NEW i \in DOMAIN batch[c], i # 1
              PROVE  i - 1 \in DOMAIN b /\ b[i - 1] = batch[c][i]
          BY <3>1, <3>2, <4>2
        <4>3. batch[c][1] = Head(batch[c])
          BY <3>1
        <4> HIDE DEF b
        <4> QED
          BY <4>1, <4>2, <4>3 DEF Elements, InBatch
      <3>5. ASSUME answer[c] = "reply", NEW g \in Elements(b), NEW f \in Frames, OlderLive(f, g)'
            PROVE  f \in Elements(b)
        <4>1. g \in Frames
          BY <3>2 DEF Elements
        <4>2. f \in InBatch(c)
          BY <3>4, <3>5, <4>1, OlderKept DEF BatchInv, Covers
        <4>3. f # Head(batch[c])
          BY <1>3, <3>5 DEF OlderLive
        <4> QED
          BY <3>4, <4>2, <4>3
      <3>6. /\ batch' = [batch EXCEPT ![c] = b] /\ answer' = [answer EXCEPT ![c] = answer[c]]
            /\ UNCHANGED wire \/ Locked(c, Head(b), OutcomeFor(b, answer[c]))
        BY <2>2 DEF Enter
      <3> HIDE DEF b
      <3> QED
        BY <3>1, <3>2, <3>3, <3>5, <3>6, TurningKeeps
    <2> QED
      BY <1>3, <2>1, <2>2 DEF Proceed
  <1>4. CASE JoinEnds(c)
    <2>1. PICK h \in Frames : h = Head(batch[c])
      BY <1>4, TailOfBatch DEF JoinEnds, TypeOK
    <2>2. future'[h] # "open"
      BY <1>4, <2>1 DEF JoinEnds
    <2>3. ~IsLive(h)'
      BY <2>2 DEF IsLive
    <2> QED
      BY <1>1, <1>3, <1>4, <2>1, <2>3 DEF JoinEnds
  <1>5. ASSUME NEW result \in {"answered", "failed"}, SendEnds(c, result)
        PROVE  BatchInv' /\ ReplyLeavesNoOlderTurn'
    <2>1. PICK h \in Frames : h = Head(batch[c])
      BY <1>5, TailOfBatch DEF SendEnds, TypeOK
    <2>2. future'[h] # "open"
      BY <1>5, <2>1 DEF SendEnds, Settle, TypeOK
    <2>3. ~IsLive(h)'
      BY <2>2 DEF IsLive
    <2> QED
      BY <1>3, <1>5, <2>1, <2>3 DEF SendEnds
  <1>6. ASSUME NEW s \in Sessions, NEW a \in Outcomes, RequestBatch(s) # <<>>,
               Enter(c, RequestBatch(s), a)
        PROVE  BatchInv' /\ ReplyLeavesNoOlderTurn'
    <2> DEFINE b == RequestBatch(s)
    <2>1. b \in LiveBatches
      BY <1>6, BatchesAreLive
    <2>2. b \in Seq(Frames) /\ b # <<>> /\ \A i \in DOMAIN b : Registered(b[i])
      BY <2>1, LiveBatchRegistered
    <2>3. Covers(Elements(b))
      BY BatchesCover DEF QueueInv
    <2>4. \A g \in Elements(b), f \in Frames : OlderLive(f, g)' => f \in Elements(b)
      BY <2>2, <2>3, OlderKept DEF Covers, Elements
    <2>5. /\ batch' = [batch EXCEPT ![c] = b] /\ answer' = [answer EXCEPT ![c] = a]
          /\ UNCHANGED wire \/ Locked(c, Head(b), OutcomeFor(b, a))
      BY <1>6 DEF Enter
    <2> HIDE DEF b
    <2> QED
      BY <2>2, <2>4, <2>5, TurningKeeps
  <1>7. CASE Interruption(c)
    BY <1>1, <1>6, <1>7, FinishingKeeps DEF Interruption, Interrupt, Outcomes
  <1>8. ASSUME NEW s \in Sessions, NEW a \in Outcomes, Complete(c, s, a)
        PROVE  BatchInv' /\ ReplyLeavesNoOlderTurn'
    BY <1>6, <1>8 DEF Complete
  <1> QED
    BY <1>1, <1>2, <1>4, <1>5, <1>7, <1>8 DEF TaskMoves

\* A turn that is registered is the newest of its session: nothing is older than another
\* turn that was not so before, and nobody has leased it or is at it yet.
LEMMA ReplyRegisterStep ==
    ASSUME DistinctTurns, TypeOK, TerminalInv, ReplyInv, NEW n \in Frames, Register(n)
    PROVE  ReplyInv'
  <1> USE TasksType DEF ReplyInv, TerminalInv
  <1>1. /\ handle[n] = "new" /\ handle' = [handle EXCEPT ![n] = "waiting"]
        /\ order' = Append(order, n)
        /\ byTurn' = [byTurn EXCEPT ![TurnOf[n]] = n]
        /\ UNCHANGED <<lease, future, started, wire, batch, answer>>
    BY DEF Register, Arrives, turnVars
  <1>2. /\ order \in Seq(Frames) /\ Len(order) \in Nat /\ DOMAIN order = 1..Len(order)
        /\ DOMAIN order' = 1..(Len(order) + 1) /\ order'[Len(order) + 1] = n
        /\ \A i \in DOMAIN order : order'[i] = order[i]
    BY <1>1 DEF TypeOK
  <1>3. \A i \in DOMAIN order : order[i] # n
    BY <1>1 DEF OrderInv, Registered
  <1>4. ASSUME NEW f \in Frames, NEW g \in Frames, g # n, Before(f, g)'
        PROVE  f # n /\ Before(f, g)
    <2>1. PICK i \in DOMAIN order', j \in DOMAIN order' : i < j /\ order'[i] = f /\ order'[j] = g
      BY <1>4 DEF Before
    <2>2. j \in DOMAIN order
      BY <1>2, <1>4, <2>1
    <2>3. i \in DOMAIN order
      BY <1>2, <2>1, <2>2
    <2> QED
      BY <1>2, <1>3, <2>1, <2>2, <2>3 DEF Before
  <1>5. \A f \in Frames \ {n} : IsLive(f)' => IsLive(f)
    BY <1>1, ConstantsAssumption DEF DistinctTurns, IsLive, TypeOK
  <1>6. \A f, g \in Frames : g # n /\ OlderLive(f, g)' => OlderLive(f, g)
    BY <1>4, <1>5 DEF OlderLive
  <1>7. OrderInv'
    <2> SUFFICES ASSUME NEW i \in DOMAIN order' PROVE handle'[order'[i]] \in {"waiting", "returned"}
      BY DEF OrderInv, Registered
    <2>1. CASE i \in DOMAIN order
      BY <1>1, <1>2, <2>1 DEF OrderInv, Registered, TypeOK
    <2>2. CASE i = Len(order) + 1
      BY <1>1, <1>2, <2>2 DEF Registered, TypeOK
    <2> QED
      BY <1>2, <2>1, <2>2
  <1>8. \A s \in Sessions : ~Leased(s, TurnOf[n])
    <2> SUFFICES ASSUME NEW s \in Sessions, Leased(s, TurnOf[n]) PROVE FALSE
      OBVIOUS
    <2>1. PICK i \in DOMAIN order : TurnOf[order[i]] = TurnOf[n]
      BY ConstantsAssumption DEF LeaseInv
    <2> QED
      BY <1>2, <1>3, <2>1 DEF DistinctTurns
  <1>9. LeaseInv'
    <2> SUFFICES ASSUME NEW s \in Sessions
                 PROVE  /\ \A t \in Turns : Leased(s, t)' =>
                              \E i \in DOMAIN order' : TurnOf[order'[i]] = t
                        /\ \A f, g \in Frames : Leased(s, TurnOf[g])' /\ OlderLive(f, g)'
                              => Leased(s, TurnOf[f])'
      BY DEF LeaseInv
    <2>1. \A t : Leased(s, t)' <=> Leased(s, t)
      BY <1>1 DEF Leased
    <2>2. \A t \in Turns : Leased(s, t) => \E i \in DOMAIN order' : TurnOf[order'[i]] = t
      BY <1>2 DEF LeaseInv
    <2> QED
      BY <1>6, <1>8, <2>1, <2>2 DEF LeaseInv
  <1>10. BatchInv'
    <2> SUFFICES ASSUME NEW c \in Tasks, answer'[c] = "reply",
                        NEW g \in InBatch(c)', NEW f \in Frames, OlderLive(f, g)'
                 PROVE  f \in InBatch(c)'
      BY DEF BatchInv, Covers
    <2>1. InBatch(c)' = InBatch(c) /\ answer[c] = "reply"
      BY <1>1 DEF InBatch
    <2>2. g \in InBatch(c) /\ batch[c] \in Seq(Frames)
      BY <2>1 DEF TypeOK
    <2>3. g \in Frames /\ g # n
      BY <1>1, <2>2 DEF InBatch, TaskInv, Registered
    <2> QED
      BY <1>6, <2>1, <2>2, <2>3 DEF BatchInv, Covers
  <1>11. ReplyLeavesNoOlderTurn'
    <2> SUFFICES ASSUME NEW f \in Frames, NEW g \in Frames, Before(f, g)',
                        SessionOf[f] = SessionOf[g], wire'[g] = <<"reply">>, IsLive(f)'
                 PROVE  FALSE
      BY DEF ReplyLeavesNoOlderTurn
    <2>1. wire[g] = <<"reply">> /\ <<"reply">> # <<>>
      BY <1>1
    <2>2. g # n
      BY <1>1, <2>1 DEF WireInv, Registered
    <2> QED
      BY <1>4, <1>5, <2>1, <2>2 DEF ReplyLeavesNoOlderTurn
  <1> QED
    BY <1>7, <1>9, <1>10, <1>11

LEMMA ReplyStep ==
    ASSUME DistinctTurns, TypeOK, TerminalInv, QueueInv, ReplyInv, [Next]_vars
    PROVE  ReplyInv'
  <1> USE TasksType
  <1>1. ASSUME NEW n \in Frames, Register(n) PROVE ReplyInv'
    BY <1>1, ReplyRegisterStep
  <1>2. ASSUME \A n \in Frames : ~Register(n) PROVE ReplyInv'
    <2>1. NobodyRevives
      BY <1>2, OnlyRegisterRevives
    <2>2. OrderInv'
      BY <2>1 DEF ReplyInv, OrderInv, NobodyRevives, TypeOK
    <2>3. CASE Teardown
      <3>1. \A f \in Frames : ~IsLive(f)'
        BY <2>3, ConstantsAssumption DEF Teardown, IsLive
      <3>2. \A s \in Sessions : lease'[s] = NoLease
        BY <2>3 DEF Teardown
      <3>3. LeaseInv'
        BY <2>1, <3>2, LeaseKept DEF ReplyInv
      <3>4. BatchInv' /\ ReplyLeavesNoOlderTurn'
        BY <3>1 DEF BatchInv, Covers, OlderLive, ReplyLeavesNoOlderTurn
      <3> QED
        BY <2>2, <3>3, <3>4 DEF ReplyInv
    <2>4. CASE LinkMoves \/ UNCHANGED vars
      <3>1. UNCHANGED <<batch, answer, wire, lease>>
        BY <2>4 DEF LinkMoves, TransportStops, Redial, taskVars, turnVars, indexVars, vars
      <3> QED
        BY <2>1, <2>2, <3>1, IdlingKeeps, LeaseKept DEF ReplyInv
    <2> QED
      BY <1>2, <2>1, <2>2, <2>3, <2>4, StepKinds, ReplyFrameStep, ReplyRoundStep, ReplyTaskStep
         DEF ReplyInv
  <1> QED
    BY <1>1, <1>2

\* With distinct turn ids, a reply leaves no older turn of its session to be closed,
\* whoever replies, however many turns have come since the lease was taken, and
\* whatever else is closing turns of the same batch meanwhile (handle_reply_session,
\* _request_batch_for_session, _complete_reply_batch).
THEOREM ReplyIsTheLast ==
    ASSUME DistinctTurns
    PROVE  Spec => []ReplyLeavesNoOlderTurn
  <1>1. Init => ReplyInv
    <2> SUFFICES ASSUME Init PROVE ReplyInv
      OBVIOUS
    <2>1. OrderInv /\ LeaseInv
      BY DEF Init, OrderInv, LeaseInv, Leased, NoLease
    <2>2. BatchInv /\ ReplyLeavesNoOlderTurn
      BY DEF Init, BatchInv, ReplyLeavesNoOlderTurn
    <2> QED
      BY <2>1, <2>2 DEF ReplyInv
  <1>2. TypeOK /\ TerminalInv /\ QueueInv /\ ReplyInv /\ [Next]_vars => ReplyInv'
    BY ReplyStep
  <1>3. ReplyInv => ReplyLeavesNoOlderTurn
    BY DEF ReplyInv
  <1> QED
    BY <1>1, <1>2, <1>3, TypeCorrect, TerminalInvariant, QueueInvariant, PTL DEF Spec

----------------------------------------------------------------------------
(* What the comments say, and when it is so.                               *)

\* a settled future stays so, and handle() only returns from one
ReturnedInv == \A f \in Frames : handle[f] = "returned" => future[f] # "open"

LEMMA ReturnedStep ==
    ASSUME TypeOK, ReturnedInv, [Next]_vars
    PROVE  /\ \A f \in Frames : future'[f] = "open" => future[f] = "open"
           /\ ReturnedInv'
  <1> USE TasksType
  <1>1. ASSUME NEW f \in Frames, HandleMoves(f) \/ Register(f) \/ HandleReturns(f)
        PROVE  UNCHANGED future /\ ReturnedInv'
    BY <1>1 DEF HandleMoves, Refuse, IgnoreDuplicate, RefusalEnds, Register, HandleReturns,
                ReturnedInv, TypeOK
  <1>2. ASSUME NEW f \in Frames, RouteEnds(f) \/ RouteFails(f)
        PROVE  UNCHANGED <<handle, future>>
    BY <1>2 DEF RouteEnds, RouteFails, roundVars
  <1>3. ASSUME NEW s \in Sessions, RoundMoves(s)
        PROVE  UNCHANGED <<handle, future>>
    BY <1>3 DEF RoundMoves, RoundEnds, StageEmoji, RoundWaits, BeforeRequest, roundVars
  <1>4. ASSUME NEW c \in Tasks, TaskMoves(c)
        PROVE  /\ UNCHANGED handle
               /\ \A f \in Frames : future'[f] = "open" => future[f] = "open"
    BY <1>4 DEF TaskMoves, Acquire, JoinEnds, Interruption, SendEnds, Complete, Settle,
                roundVars, TypeOK
  <1>5. CASE Teardown
    BY <1>5 DEF Teardown, Closed, ReturnedInv
  <1>6. CASE LinkMoves \/ UNCHANGED vars
    BY <1>6 DEF LinkMoves, TransportStops, Redial, vars, ReturnedInv
  <1>7. ASSUME UNCHANGED handle, \A f \in Frames : future'[f] = "open" => future[f] = "open"
        PROVE  ReturnedInv'
    BY <1>7 DEF ReturnedInv
  <1> QED
    BY <1>1, <1>2, <1>3, <1>4, <1>5, <1>6, <1>7, StepKinds

LEMMA ReturnedInvariant == Spec => []ReturnedInv
  <1>1. Init => ReturnedInv
    BY DEF Init, ReturnedInv
  <1> QED
    BY <1>1, ReturnedStep, TypeCorrect, PTL DEF Spec

\* With distinct turn ids, the hook can reach every turn that is being routed: it is
\* in the index before route_message is called, and stays there until somebody
\* closes it (_register_pending before _start_dispatch).
THEOREM RoutedIsReachable ==
    ASSUME DistinctTurns
    PROVE  Spec => [](RoutedIsLive /\ HookReachesRoutedTurn)
  <1>1. TypeOK /\ TerminalInv /\ QueueInv /\ ReturnedInv => RoutedIsLive
    <2> SUFFICES ASSUME TypeOK, TerminalInv, QueueInv, ReturnedInv,
                        NEW f \in Frames, pc[f] = "route", future[f] = "open", ~started[f]
                 PROVE  IsLive(f)
      BY DEF RoutedIsLive
    <2>1. handle[f] \in {"waiting", "returned"}
      BY DEF TerminalInv, TaskInv, Registered
    <2>2. Waits(f)
      BY <2>1 DEF ReturnedInv, Waits
    <2> QED
      BY <2>2 DEF QueueInv, IsLive
  <1>2. RoutedIsLive => HookReachesRoutedTurn
    BY DEF HookReachesRoutedTurn
  <1> QED
    BY <1>1, <1>2, TypeCorrect, TerminalInvariant, QueueInvariant, ReturnedInvariant, PTL

\* One task moves on: what it sent for is settled, and what it begins it sends for.
LEMMA NoneIsOrphaned ==
    ASSUME TypeOK, NoOrphanedTurn, NEW c \in Tasks,
           \A d \in Tasks \ {c} : pc'[d] = pc[d] /\ batch'[d] = batch[d],
           \A f \in Frames : future'[f] = "open" => future[f] = "open",
           \A f \in Frames : started'[f] =>
               started[f] \/ (pc'[c] = "send" /\ Head(batch'[c]) = f),
           pc[c] = "send" => \A f \in Frames : f = Head(batch[c]) => future'[f] # "open"
    PROVE  NoOrphanedTurn'
  <1> SUFFICES ASSUME NEW f \in Frames, started'[f], future'[f] = "open"
               PROVE  \E d \in Tasks : pc'[d] = "send" /\ Head(batch'[d]) = f
    BY DEF NoOrphanedTurn
  <1>1. CASE pc'[c] = "send" /\ Head(batch'[c]) = f
    BY <1>1
  <1>2. CASE started[f]
    <2>1. PICK d \in Tasks : pc[d] = "send" /\ Head(batch[d]) = f
      BY <1>2 DEF NoOrphanedTurn
    <2>2. d # c
      BY <2>1
    <2> QED
      BY <2>1, <2>2
  <1> QED
    BY <1>1, <1>2

\* A task begins what it turns to, and sends for it.
LEMMA EntersToSend ==
    ASSUME TypeOK, NEW c \in Tasks, NEW b \in Seq(Frames), b # <<>>, NEW a,
           batch' = [batch EXCEPT ![c] = b],
           \/ Enter(c, b, a)
           \/ \E o : Locked(c, Head(b), o)
    PROVE  /\ \A d \in Tasks \ {c} : pc'[d] = pc[d] /\ batch'[d] = batch[d]
           /\ \A f \in Frames : started'[f] =>
                  started[f] \/ (pc'[c] = "send" /\ Head(batch'[c]) = f)
  <1>1. batch'[c] = b /\ Head(b) \in Frames
    BY TailOfBatch DEF TypeOK
  <1>2. ASSUME NEW o, Locked(c, Head(b), o)
        PROVE  /\ \A d \in Tasks \ {c} : pc'[d] = pc[d]
               /\ \A f \in Frames : started'[f] => started[f] \/ (pc'[c] = "send" /\ Head(b) = f)
    BY <1>1, <1>2 DEF Locked, StartTerminal, TypeOK
  <1>3. CASE UNCHANGED started /\ pc' = [pc EXCEPT ![c] = "lock"]
    BY <1>1, <1>3 DEF TypeOK
  <1> QED
    BY <1>1, <1>2, <1>3 DEF Enter, TypeOK

\* task c ends, or turns to a batch
TurnsOn(c) ==
    \/ Finish(c)
    \/ \E b \in Seq(Frames) \ {<<>>}, a \in Outcomes : Enter(c, b, a)

LEMMA TurningOrphansNone ==
    ASSUME TypeOK, NoOrphanedTurn, NEW c \in Tasks, TurnsOn(c),
           \A f \in Frames : future'[f] = "open" => future[f] = "open",
           pc[c] = "send" => \A f \in Frames : f = Head(batch[c]) => future'[f] # "open"
    PROVE  NoOrphanedTurn'
  <1>1. CASE Finish(c)
    BY <1>1, NoneIsOrphaned DEF Finish, TypeOK
  <1>2. ASSUME NEW b \in Seq(Frames) \ {<<>>}, NEW a \in Outcomes, Enter(c, b, a)
        PROVE  NoOrphanedTurn'
    <2>1. batch' = [batch EXCEPT ![c] = b]
      BY <1>2 DEF Enter
    <2>2. /\ \A d \in Tasks \ {c} : pc'[d] = pc[d] /\ batch'[d] = batch[d]
          /\ \A f \in Frames : started'[f] =>
                 started[f] \/ (pc'[c] = "send" /\ Head(batch'[c]) = f)
      BY <1>2, <2>1, EntersToSend
    <2> QED
      BY <2>2, NoneIsOrphaned
  <1> QED
    BY <1>1, <1>2 DEF TurnsOn

LEMMA TurningOn ==
    ASSUME TypeOK, NEW c
    PROVE  /\ c \in Sessions /\ Interrupt(c) => TurnsOn(c)
           /\ c \in Tasks /\ ~(c \in Sessions) /\ Interrupt(c) => TurnsOn(c)
           /\ c \in Tasks /\ batch[c] # <<>> /\ Proceed(c) => TurnsOn(c)
           /\ \A s \in Sessions, a \in Outcomes : Complete(c, s, a) => TurnsOn(c)
           /\ \A a \in Outcomes : c \in Sessions /\ CompleteOrEnd(c, a) => TurnsOn(c)
  <1>1. ASSUME NEW s \in Sessions, RequestBatch(s) # <<>>
        PROVE  RequestBatch(s) \in Seq(Frames) \ {<<>>}
    BY <1>1, BatchesAreLive, LiveBatchesType
  <1>2. ASSUME c \in Tasks, batch[c] # <<>>, Proceed(c) PROVE TurnsOn(c)
    <2>1. Tail(batch[c]) \in Seq(Frames) /\ answer[c] \in Outcomes
      BY <1>2, TailOfBatch DEF TypeOK
    <2> QED
      BY <1>2, <2>1 DEF Proceed, TurnsOn
  <1>3. "no_reply" \in Outcomes
    BY DEF Outcomes
  <1>4. Interrupt(c) => TurnsOn(c)
    BY <1>1, <1>3 DEF Interrupt, TurnsOn
  <1>5. \A s \in Sessions, a \in Outcomes : Complete(c, s, a) => TurnsOn(c)
    BY <1>1 DEF Complete, TurnsOn
  <1> QED
    BY <1>2, <1>4, <1>5 DEF CompleteOrEnd, RoundEnds, TurnsOn

\* Without the host's timeouts nobody leaves a turn begun; a dispatch task is not at
\* work before its frame is registered, nor when a teardown has settled it.
NewIsIdle == \A f \in Frames : handle[f] = "new" => pc[f] = "idle"

OrphanInv == ReturnedInv /\ NewIsIdle /\ NoOrphanedTurn

LEMMA NewIsIdleStep ==
    ASSUME TypeOK, NewIsIdle, [Next]_vars
    PROVE  NewIsIdle'
  <1> USE TasksType
  <1>1. ASSUME \A f \in Frames : handle'[f] = "new" => handle[f] = "new",
               \A f \in Frames : pc[f] = "idle" /\ handle'[f] = "new" => pc'[f] = "idle"
        PROVE  NewIsIdle'
    BY <1>1 DEF NewIsIdle
  <1>2. ASSUME NEW f \in Frames, HandleMoves(f) \/ Register(f) \/ HandleReturns(f)
        PROVE  NewIsIdle'
    BY <1>1, <1>2 DEF HandleMoves, Refuse, IgnoreDuplicate, RefusalEnds, Register, HandleReturns,
                      taskVars, TypeOK
  <1>3. ASSUME NEW c \in Tasks, UNCHANGED handle, \A d \in Tasks \ {c} : pc'[d] = pc[d],
               c \in Frames => pc[c] # "idle"
        PROVE  NewIsIdle'
    BY <1>1, <1>3
  <1>4. \A c \in Tasks : TurnsOn(c) => \A d \in Tasks \ {c} : pc'[d] = pc[d]
    <2>1. ASSUME NEW c \in Tasks, NEW f, NEW o, Locked(c, f, o)
          PROVE  \A d \in Tasks \ {c} : pc'[d] = pc[d]
      BY <2>1 DEF Locked, StartTerminal, TypeOK
    <2> QED
      BY <2>1 DEF TurnsOn, Enter, Finish, TypeOK
  <1>5. ASSUME NEW f \in Frames, RouteEnds(f) \/ RouteFails(f)
        PROVE  NewIsIdle'
    <2>1. UNCHANGED handle /\ pc[f] = "route"
      BY <1>5 DEF RouteEnds, RouteFails, roundVars
    <2>2. TurnsOn(f)
      <3>1. <<f>> \in Seq(Frames) \ {<<>>} /\ "no_reply" \in Outcomes
        BY DEF Outcomes
      <3> QED
        BY <1>5, <3>1 DEF RouteEnds, RouteFails, TurnsOn
    <2> QED
      BY <1>3, <1>4, <2>1, <2>2
  <1>6. ASSUME NEW s \in Sessions, RoundMoves(s)
        PROVE  NewIsIdle'
    <2>1. UNCHANGED handle /\ s \notin Frames
      BY <1>6, ConstantsAssumption DEF RoundMoves, RoundEnds, StageEmoji, RoundWaits, BeforeRequest,
                                       roundVars
    <2>2. \A d \in Tasks \ {s} : pc'[d] = pc[d]
      BY <1>6 DEF RoundMoves, RoundEnds, Finish, StageEmoji, RoundWaits, BeforeRequest, taskVars, TypeOK
    <2> QED
      BY <1>3, <2>1, <2>2
  <1>7. ASSUME NEW c \in Tasks, UNCHANGED handle, TurnsOn(c), c \in Frames => pc[c] # "idle"
        PROVE  NewIsIdle'
    BY <1>3, <1>4, <1>7
  <1>8. ASSUME NEW c \in Calls, CallStep(c) PROVE NewIsIdle'
    <2>1. PICK s \in Sessions, a \in Outcomes : Complete(c, s, a)
      BY <1>8 DEF CallStep, EmojiSelected, Outbound, Outcomes
    <2>2. TurnsOn(c) /\ UNCHANGED handle /\ c \notin Frames
      BY <2>1, TurningOn, ConstantsAssumption DEF Complete, roundVars
    <2> QED
      BY <1>7, <2>2
  <1>9. ASSUME NEW c \in Tasks, TaskStep(c) PROVE NewIsIdle'
    <2>1. UNCHANGED handle /\ pc[c] # "idle" /\ batch[c] # <<>>
      BY <1>9 DEF TaskStep, Acquire, SendOk, SendFails, Join, roundVars, TypeOK
    <2>2. CASE Acquire(c)
      BY <1>3, <2>1, <2>2 DEF Acquire, Locked, StartTerminal, TypeOK
    <2>3. CASE SendOk(c) \/ SendFails(c) \/ Join(c)
      BY <1>7, <2>1, <2>3, TurningOn DEF SendOk, SendFails, Join
    <2> QED
      BY <1>9, <2>2, <2>3 DEF TaskStep
  <1>10. ASSUME NEW c \in Sessions \cup Calls, CancelCall(c) PROVE NewIsIdle'
    <2>1. UNCHANGED handle /\ TurnsOn(c) /\ c \notin Frames
      BY <1>10, TurningOn, ConstantsAssumption DEF CancelCall, roundVars
    <2> QED
      BY <1>7, <2>1
  <1>11. CASE Teardown
    BY <1>1, <1>11 DEF Teardown
  <1>12. CASE TransportStops \/ Redial \/ UNCHANGED vars
    BY <1>1, <1>12 DEF TransportStops, Redial, taskVars, vars
  <1>13. \/ \E f \in Frames : \/ HandleMoves(f) \/ Register(f) \/ HandleReturns(f)
                              \/ RouteEnds(f) \/ RouteFails(f)
         \/ \E s \in Sessions : RoundStep(s)
         \/ \E c \in Calls : CallStep(c)
         \/ \E c \in Tasks : TaskStep(c)
         \/ \E c \in Sessions \cup Calls : CancelCall(c)
         \/ Teardown \/ TransportStops \/ Redial \/ UNCHANGED vars
    BY DEF Next, FrameStep, HandleMoves, RefuseForeign, RefuseFull, Arrives
  <1>14. ASSUME NEW s \in Sessions, RoundStep(s) PROVE NewIsIdle'
    <2>1. RoundMoves(s) \/ (TurnsOn(s) /\ UNCHANGED handle)
      <3>1. "reply" \in Outcomes /\ "no_reply" \in Outcomes
        BY DEF Outcomes
      <3>2. \A a \in Outcomes : CompleteOrEnd(s, a) => TurnsOn(s) /\ UNCHANGED handle
        BY TurningOn DEF CompleteOrEnd, Complete, RoundEnds, roundVars
      <3>3. RoundFails(s) => TurnsOn(s) /\ UNCHANGED handle
        BY TurningOn DEF RoundFails, roundVars
      <3> QED
        BY <1>14, <3>1, <3>2, <3>3
           DEF RoundStep, RoundMoves, RoundWithoutCompletion, TimingGateReleases, PlannerSendsEmoji,
               PlannerReplies, PlannerReleases, EmojiDone, ComposeDone
    <2>2. s \notin Frames
      BY ConstantsAssumption
    <2> QED
      BY <1>6, <1>7, <2>1, <2>2
  <1> QED
    BY <1>2, <1>5, <1>6, <1>8, <1>9, <1>10, <1>11, <1>12, <1>13, <1>14

LEMMA OrphanStep ==
    ASSUME HookTimeouts = FALSE, TypeOK, WireInv, OrphanInv, [Next]_vars
    PROVE  NoOrphanedTurn'
  <1> USE TasksType
  <1>1. ReturnedInv /\ NoOrphanedTurn /\ \A f \in Frames : future'[f] = "open" => future[f] = "open"
    BY ReturnedStep DEF OrphanInv
  <1>2. ASSUME UNCHANGED <<started, pc, batch>> PROVE NoOrphanedTurn'
    BY <1>1, <1>2 DEF NoOrphanedTurn
  <1>3. ASSUME NEW c \in Tasks, TurnsOn(c), pc[c] # "send" PROVE NoOrphanedTurn'
    BY <1>1, <1>3, TurningOrphansNone
  <1>4. ASSUME NEW c \in Tasks, pc[c] # "send", UNCHANGED <<started, batch>>,
               NEW await, pc' = [pc EXCEPT ![c] = await]
        PROVE  NoOrphanedTurn'
    BY <1>1, <1>4, NoneIsOrphaned DEF TypeOK
  <1>5. ASSUME NEW f \in Frames, FrameStep(f) PROVE NoOrphanedTurn'
    <2>1. CASE RefuseForeign(f) \/ IgnoreDuplicate(f) \/ RefuseFull(f) \/ RefusalEnds(f) \/ HandleReturns(f)
      BY <1>2, <2>1 DEF RefuseForeign, RefuseFull, Refuse, IgnoreDuplicate, RefusalEnds, HandleReturns,
                        turnVars, taskVars
    <2>2. CASE Register(f)
      BY <1>4, <2>2 DEF Register, Arrives, turnVars, OrphanInv, NewIsIdle
    <2>3. CASE RouteEnds(f)
      BY <1>3, <2>3 DEF RouteEnds, TurnsOn
    <2>4. CASE RouteFails(f)
      <3>1. <<f>> \in Seq(Frames) \ {<<>>} /\ "no_reply" \in Outcomes
        BY DEF Outcomes
      <3> QED
        BY <1>3, <2>4, <3>1 DEF RouteFails, TurnsOn
    <2> QED
      BY <1>5, <2>1, <2>2, <2>3, <2>4 DEF FrameStep
  <1>6. ASSUME NEW s \in Sessions, RoundStep(s) PROVE NoOrphanedTurn'
    <2>1. "reply" \in Outcomes /\ "no_reply" \in Outcomes
      BY DEF Outcomes
    <2>2. CASE \E phase \in {"timing_gate", "planner"} : BeforeRequest(s, phase)
      BY <1>4, <2>2 DEF BeforeRequest, turnVars
    <2>3. CASE RoundWithoutCompletion(s)
      BY <1>3, <2>3 DEF RoundWithoutCompletion, RoundEnds, TurnsOn
    <2>4. CASE TimingGateReleases(s) \/ PlannerReleases(s)
      BY <1>3, <2>1, <2>4, TurningOn DEF TimingGateReleases, PlannerReleases, PlannerAnswered, Answered
    <2>5. CASE PlannerSendsEmoji(s) \/ PlannerReplies(s)
      BY <1>4, <2>5 DEF PlannerSendsEmoji, PlannerReplies, PlannerAnswered, Answered, RoundWaits, turnVars
    <2>6. CASE StageEmoji(s)
      BY <1>2, <2>6 DEF StageEmoji, taskVars
    <2>7. CASE EmojiDone(s)
      <3>1. pc[s] # "send"
        BY <2>7 DEF EmojiDone
      <3>2. CASE RoundWaits(s, "compose")
        BY <1>4, <3>1, <3>2 DEF RoundWaits, turnVars
      <3>3. CASE CompleteOrEnd(s, "no_reply")
        BY <1>3, <2>1, <3>1, <3>3, TurningOn
      <3> QED
        BY <2>7, <3>2, <3>3 DEF EmojiDone
    <2>8. CASE ComposeDone(s)
      BY <1>3, <2>1, <2>8, TurningOn DEF ComposeDone
    <2>9. CASE RoundFails(s)
      BY <1>3, <2>9, TurningOn DEF RoundFails
    <2> QED
      BY <1>6, <2>2, <2>3, <2>4, <2>5, <2>6, <2>7, <2>8, <2>9 DEF RoundStep
  <1>7. ASSUME NEW c \in Calls, CallStep(c) PROVE NoOrphanedTurn'
    <2>1. pc[c] = "idle" /\ \E s \in Sessions, a \in Outcomes : Complete(c, s, a)
      BY <1>7 DEF CallStep, EmojiSelected, Outbound, Outcomes
    <2> QED
      BY <1>3, <2>1, TurningOn
  <1>8. ASSUME NEW c \in Tasks, TaskStep(c) PROVE NoOrphanedTurn'
    <2>1. CASE Acquire(c)
      <3>1. batch[c] \in Seq(Frames) /\ batch[c] # <<>> /\ batch' = [batch EXCEPT ![c] = batch[c]]
        BY <2>1 DEF Acquire, TypeOK
      <3>2. /\ \A d \in Tasks \ {c} : pc'[d] = pc[d] /\ batch'[d] = batch[d]
            /\ \A f \in Frames : started'[f] =>
                   started[f] \/ (pc'[c] = "send" /\ Head(batch'[c]) = f)
        BY <2>1, <3>1, EntersToSend DEF Acquire
      <3> QED
        BY <1>1, <2>1, <3>2, NoneIsOrphaned DEF Acquire
    <2>2. CASE SendOk(c) \/ SendFails(c)
      <3>1. batch[c] # <<>> /\ TurnsOn(c)
        BY <2>2, TurningOn DEF SendOk, SendFails, TypeOK
      <3>2. \A f \in Frames : f = Head(batch[c]) => future'[f] # "open"
        BY <2>2 DEF SendOk, SendFails, Settle, TypeOK
      <3> QED
        BY <1>1, <3>1, <3>2, TurningOrphansNone
    <2>3. CASE Join(c)
      <3>1. pc[c] # "send" /\ batch[c] # <<>>
        BY <2>3 DEF Join, TypeOK
      <3>2. TurnsOn(c)
        BY <2>3, <3>1, TurningOn DEF Join
      <3> QED
        BY <1>3, <3>1, <3>2
    <2> QED
      BY <1>8, <2>1, <2>2, <2>3 DEF TaskStep
  <1>9. CASE Teardown
    <2>1. ASSUME NEW f \in Frames, started'[f] PROVE future'[f] # "open"
      <3>1. handle[f] \in {"waiting", "returned"}
        BY <1>9, <2>1 DEF Teardown, turnVars, WireInv, Registered
      <3> QED
        BY <1>1, <1>9, <3>1 DEF Teardown, Closed, ReturnedInv
    <2> QED
      BY <2>1 DEF NoOrphanedTurn
  <1>10. CASE TransportStops \/ Redial \/ UNCHANGED vars
    BY <1>2, <1>10 DEF TransportStops, Redial, turnVars, taskVars, vars
  <1>11. \A c : ~CancelCall(c)
    BY DEF CancelCall
  <1> QED
    BY <1>5, <1>6, <1>7, <1>8, <1>9, <1>10, <1>11 DEF Next

\* As long as the host cancels no hook and no call, every turn that was begun and is
\* not settled is being sent for: only a cancelled send leaves one to nobody, neither a
\* failed await of the round, nor a cancelled future, nor a teardown does
\* (_release_after_hook_error, _complete_reply).
THEOREM OnlyTimeoutsOrphan ==
    ASSUME HookTimeouts = FALSE
    PROVE  Spec => []NoOrphanedTurn
  <1>1. Init => OrphanInv
    BY TasksType DEF Init, OrphanInv, ReturnedInv, NewIsIdle, NoOrphanedTurn
  <1>2. TypeOK /\ TerminalInv /\ OrphanInv /\ [Next]_vars => OrphanInv'
    BY ReturnedStep, NewIsIdleStep, OrphanStep DEF OrphanInv, TerminalInv
  <1>3. OrphanInv => NoOrphanedTurn
    BY DEF OrphanInv
  <1> QED
    BY <1>1, <1>2, <1>3, TypeCorrect, TerminalInvariant, PTL DEF Spec

----------------------------------------------------------------------------
(* The snapshot of a round.                                                *)

Under == {"asked", "emoji", "compose"}
Closing == {"lock", "send", "join"}

\* the turns the round was told of are live, and the lease names them and no others
SnapshotHeld(s) ==
    /\ \A f \in asked[s] : IsLive(f) /\ SessionOf[f] = s
    /\ \A t \in Turns : Leased(s, t) <=> \E f \in asked[s] : TurnOf[f] = t

\* a session leases and closes turns of its own, and a round holds its snapshot until
\* it closes it
OwnSnapshot(s) ==
    /\ \A f \in InBatch(s) : SessionOf[f] = s
    /\ \A f \in Frames : Leased(s, TurnOf[f]) => SessionOf[f] = s
    /\ pc[s] \in Under /\ asked[s] # {} => SnapshotHeld(s)
    /\ pc[s] \in Closing /\ asked[s] # {} /\ answer[s] = "reply" => InBatch(s) \subseteq asked[s]

ListedInOrder == \A f \in listed : \E i \in DOMAIN order : order[i] = f

\* nothing but the rounds closes turns
OnlyRounds == Calls = {} /\ Unroutable = {}

SnapshotInv == link = "up" =>
    /\ \A f \in Frames : pc[f] \in {"idle", "route"}
    /\ \A s \in Sessions : OwnSnapshot(s)

LEMMA ListedStep ==
    ASSUME TypeOK, ListedInOrder, [Next]_vars
    PROVE  ListedInOrder'
  <1> USE TasksType
  <1>1. ASSUME UNCHANGED order, listed' \subseteq listed PROVE ListedInOrder'
    BY <1>1 DEF ListedInOrder
  <1>2. ASSUME NEW f \in Frames, Register(f) PROVE ListedInOrder'
    <2>1. order' = Append(order, f) /\ listed' = listed \cup {f}
      BY <1>2 DEF Register
    <2>2. order \in Seq(Frames)
      BY DEF TypeOK
    <2> QED
      BY <2>1, <2>2, AppendGrows DEF ListedInOrder
  <1>3. ASSUME NEW f \in Frames, HandleMoves(f) \/ HandleReturns(f) \/ RouteEnds(f) \/ RouteFails(f)
        PROVE  UNCHANGED order /\ listed' \subseteq listed
    BY <1>3 DEF HandleMoves, Refuse, IgnoreDuplicate, RefusalEnds, HandleReturns, RouteEnds,
                RouteFails, Unregister, indexVars, roundVars
  <1>4. ASSUME NEW s \in Sessions, RoundMoves(s)
        PROVE  UNCHANGED order /\ listed' \subseteq listed
    BY <1>4 DEF RoundMoves, RoundEnds, StageEmoji, RoundWaits, BeforeRequest, indexVars, roundVars
  <1>5. ASSUME NEW c \in Tasks, TaskMoves(c)
        PROVE  UNCHANGED order /\ listed' \subseteq listed
    BY <1>5 DEF TaskMoves, Acquire, JoinEnds, Interruption, SendEnds, Complete, Unregister,
                indexVars, roundVars
  <1>6. CASE Teardown \/ LinkMoves \/ UNCHANGED vars
    BY <1>1, <1>6 DEF Teardown, LinkMoves, TransportStops, Redial, indexVars, vars
  <1> QED
    BY <1>1, <1>2, <1>3, <1>4, <1>5, <1>6, StepKinds

\* What a session closes is its own, and is its round's snapshot while that is held.
LEMMA BatchOfSnapshot ==
    ASSUME DistinctTurns, TypeOK, IndexInv, NEW s \in Sessions, OwnSnapshot(s)
    PROVE  /\ \A f \in Elements(RequestBatch(s)) : f \in Frames /\ SessionOf[f] = s
           /\ asked[s] # {} /\ SnapshotHeld(s) => Elements(RequestBatch(s)) = asked[s]
  <1> DEFINE turns == lease[s].turns
  <1>1. ASSUME NEW i \in DOMAIN turns, NEW f \in Frames, byTurn[turns[i]] = f
        PROVE  turns[i] = TurnOf[f] /\ Leased(s, TurnOf[f])
    <2>1. turns[i] \in Turns /\ f # None
      BY BatchElements, ConstantsAssumption
    <2>2. TurnOf[f] = turns[i]
      BY <1>1, <2>1 DEF IndexInv
    <2> QED
      BY <2>2 DEF Leased
  <1>2. \A f \in Elements(LeasedBatch(s)) : f \in Frames /\ Leased(s, TurnOf[f])
    BY <1>1, BatchElements
  <1>3. \A f \in Elements(PendingBatch(s)) : f \in Frames /\ SessionOf[f] = s
    BY BatchElements DEF LivePendings, TypeOK
  <1>4. \A f \in Elements(RequestBatch(s)) : f \in Frames /\ SessionOf[f] = s
    BY <1>2, <1>3, BatchElements DEF OwnSnapshot
  <1>5. ASSUME asked[s] # {}, SnapshotHeld(s)
        PROVE  Elements(RequestBatch(s)) = asked[s]
    <2>1. asked[s] \subseteq Frames
      BY DEF TypeOK
    <2>2. \A f \in asked[s] : f \in Elements(LeasedBatch(s))
      BY <1>5, <2>1, BatchElements, ConstantsAssumption DEF SnapshotHeld, Leased, IsLive
    <2>3. \A f \in Elements(LeasedBatch(s)) : f \in asked[s]
      <3> SUFFICES ASSUME NEW f \in Elements(LeasedBatch(s)) PROVE f \in asked[s]
        OBVIOUS
      <3>1. f \in Frames /\ Leased(s, TurnOf[f]) /\ TurnOf[f] \in Turns
        BY <1>2, ConstantsAssumption
      <3>2. PICK g \in asked[s] : TurnOf[g] = TurnOf[f]
        BY <1>5, <3>1 DEF SnapshotHeld
      <3> QED
        BY <2>1, <3>1, <3>2 DEF DistinctTurns
    <2>4. LeasedBatch(s) # <<>>
      BY <1>5, <2>2 DEF Elements
    <2> QED
      BY <2>2, <2>3, <2>4, BatchElements
  <1> QED
    BY <1>4, <1>5

\* A session at which nothing happens keeps its snapshot while its turns are live.
LEMMA BystanderKeeps ==
    ASSUME TypeOK, NEW s \in Sessions, OwnSnapshot(s),
           pc'[s] = pc[s], batch'[s] = batch[s], answer'[s] = answer[s], asked'[s] = asked[s],
           \A f \in Frames : SessionOf[f] = s /\ pc[s] \in Under /\ IsLive(f) => IsLive(f)',
           \/ lease'[s] = lease[s]
           \/ lease'[s] = NoLease /\ \A i \in DOMAIN lease[s].turns : byTurn'[lease[s].turns[i]] = None
    PROVE  OwnSnapshot(s)'
  <1>1. asked[s] \subseteq Frames
    BY DEF TypeOK
  <1>2. CASE lease'[s] = lease[s]
    <2>1. \A t : Leased(s, t)' <=> Leased(s, t)
      BY <1>2 DEF Leased
    <2>2. InBatch(s)' = InBatch(s)
      BY DEF InBatch
    <2>3. pc'[s] \in Under /\ asked'[s] # {} => SnapshotHeld(s)'
      BY <1>1, <2>1 DEF OwnSnapshot, SnapshotHeld
    <2> QED
      BY <2>1, <2>2, <2>3 DEF OwnSnapshot
  <1>3. CASE /\ lease'[s] = NoLease
             /\ \A i \in DOMAIN lease[s].turns : byTurn'[lease[s].turns[i]] = None
    <2>1. \A t : ~Leased(s, t)'
      BY <1>3 DEF Leased, NoLease
    <2>2. InBatch(s)' = InBatch(s)
      BY DEF InBatch
    <2>3. ~(pc[s] \in Under /\ asked[s] # {})
      <3> SUFFICES ASSUME pc[s] \in Under, asked[s] # {} PROVE FALSE
        OBVIOUS
      <3>1. PICK f \in asked[s] : f \in Frames
        BY <1>1
      <3>2. IsLive(f)' /\ Leased(s, TurnOf[f])
        BY <3>1, ConstantsAssumption DEF OwnSnapshot, SnapshotHeld
      <3> QED
        BY <1>3, <3>1, <3>2, ConstantsAssumption DEF Leased, IsLive
    <2> QED
      BY <2>1, <2>2, <2>3 DEF OwnSnapshot
  <1> QED
    BY <1>2, <1>3

LEMMA UnregisterDrops ==
    ASSUME TypeOK, DistinctTurns, NEW h \in Frames, Unregister(h)
    PROVE  /\ \A s \in Sessions :
                \/ lease'[s] = lease[s]
                \/ lease'[s] = NoLease /\ \A i \in DOMAIN lease[s].turns : byTurn'[lease[s].turns[i]] = None
           /\ \A f \in Frames \ {h} : byTurn'[TurnOf[f]] = byTurn[TurnOf[f]]
  BY ConstantsAssumption DEF Unregister, WithoutStale, DistinctTurns, TypeOK

\* task c acts on turns of its own only
Acts(c) ==
    /\ OwnSnapshot(c)'
    /\ \A d \in Tasks \ {c} : pc'[d] = pc[d] /\ batch'[d] = batch[d] /\ answer'[d] = answer[d]
    /\ \A f \in Frames : started'[f] => started[f] \/ SessionOf[f] = c

LEMMA EntersOwn ==
    ASSUME TypeOK, NEW c \in Sessions, OwnSnapshot(c), NEW b \in Seq(Frames), b # <<>>,
           NEW a \in Outcomes,
           \/ Enter(c, b, a)
           \/ /\ batch' = [batch EXCEPT ![c] = b] /\ answer' = [answer EXCEPT ![c] = a]
              /\ \E o : Locked(c, Head(b), o),
           \A f \in Elements(b) : SessionOf[f] = c,
           asked'[c] = asked[c], lease'[c] \in {lease[c], NoLease},
           asked[c] # {} /\ a = "reply" => Elements(b) \subseteq asked[c]
    PROVE  Acts(c)
  <1> USE TasksType
  <1>1. /\ batch' = [batch EXCEPT ![c] = b] /\ answer' = [answer EXCEPT ![c] = a]
        /\ Enter(c, b, a) \/ \E o : Locked(c, Head(b), o)
    BY DEF Enter
  <1>2. /\ \A d \in Tasks \ {c} : pc'[d] = pc[d] /\ batch'[d] = batch[d] /\ answer'[d] = answer[d]
        /\ batch'[c] = b /\ answer'[c] = a
    BY <1>1, EntersToSend DEF TypeOK
  <1>3. Head(b) \in Frames /\ Head(b) \in Elements(b)
    BY TailOfBatch DEF Elements
  <1>4. \A f \in Frames : started'[f] => started[f] \/ SessionOf[f] = c
    <2>1. \A f \in Frames : started'[f] => started[f] \/ Head(batch'[c]) = f
      BY <1>1, EntersToSend
    <2>2. Head(batch'[c]) = Head(b) /\ SessionOf[Head(b)] = c
      BY <1>2, <1>3
    <2> QED
      BY <2>1, <2>2
  <1>5. pc'[c] \in Closing
    BY <1>1 DEF Enter, Locked, StartTerminal, Closing, TypeOK
  <1>6. InBatch(c)' = Elements(b)
    BY <1>2 DEF InBatch, Elements
  <1>7. \A t : Leased(c, t)' => Leased(c, t)
    BY DEF Leased, NoLease
  <1>8. pc'[c] \notin Under
    BY <1>5 DEF Under, Closing
  <1>9. OwnSnapshot(c)'
    BY <1>2, <1>6, <1>7, <1>8 DEF OwnSnapshot
  <1> QED
    BY <1>2, <1>4, <1>9 DEF Acts

LEMMA FinishesOwn ==
    ASSUME TypeOK, NEW c \in Sessions, OwnSnapshot(c), Finish(c),
           asked'[c] = asked[c], lease'[c] \in {lease[c], NoLease}
    PROVE  Acts(c)
  <1> USE TasksType
  <1>1. /\ \A d \in Tasks \ {c} : pc'[d] = pc[d] /\ batch'[d] = batch[d] /\ answer'[d] = answer[d]
        /\ pc'[c] = "idle" /\ batch'[c] = <<>> /\ UNCHANGED started
    BY DEF Finish, TypeOK
  <1>2. \A t : Leased(c, t)' => Leased(c, t)
    BY DEF Leased, NoLease
  <1>3. InBatch(c)' = {} /\ pc'[c] \notin Under /\ pc'[c] \notin Closing
    BY <1>1 DEF InBatch, Under, Closing
  <1>4. OwnSnapshot(c)'
    BY <1>2, <1>3 DEF OwnSnapshot
  <1> QED
    BY <1>1, <1>4 DEF Acts

LEMMA ProceedsOwn ==
    ASSUME TypeOK, NEW c \in Sessions, OwnSnapshot(c), pc[c] \in {"send", "join"}, Proceed(c),
           asked'[c] = asked[c], lease'[c] \in {lease[c], NoLease}
    PROVE  Acts(c)
  <1>1. CASE Finish(c)
    BY <1>1, FinishesOwn
  <1>2. CASE Tail(batch[c]) # <<>> /\ Enter(c, Tail(batch[c]), answer[c])
    <2> DEFINE b == Tail(batch[c])
    <2>1. batch[c] \in Seq(Frames) /\ batch[c] # <<>> /\ answer[c] \in Outcomes
      BY TasksType DEF TypeOK
    <2>2. b \in Seq(Frames) /\ \A i \in DOMAIN b : i + 1 \in DOMAIN batch[c] /\ b[i] = batch[c][i + 1]
      BY <2>1, TailOfBatch
    <2>3. Elements(b) \subseteq InBatch(c)
      BY <2>2 DEF Elements, InBatch
    <2>4. \A f \in Elements(b) : SessionOf[f] = c
      BY <2>3 DEF OwnSnapshot
    <2>5. asked[c] # {} /\ answer[c] = "reply" => Elements(b) \subseteq asked[c]
      BY <2>3 DEF OwnSnapshot, Closing
    <2> HIDE DEF b
    <2> QED
      BY <1>2, <2>1, <2>2, <2>4, <2>5, EntersOwn DEF b
  <1> QED
    BY <1>1, <1>2 DEF Proceed

\* the steps of a session and of its round, each with the await it starts from
SessionStep(c) ==
    \/ RoundEnds(c) \/ StageEmoji(c) \/ Interruption(c)
    \/ \E phase \in {"timing_gate", "planner"} : BeforeRequest(c, phase)
    \/ /\ pc[c] \in Under
       /\ \/ \E await \in {"emoji", "compose"} : RoundWaits(c, await)
          \/ \E a \in Outcomes : Complete(c, c, a)
    \/ Acquire(c) \/ JoinEnds(c)
    \/ \E result \in {"answered", "failed"} : SendEnds(c, result)

LEMMA SessionSteps ==
    ASSUME NEW c \in Sessions, RoundStep(c) \/ TaskStep(c) \/ CancelCall(c)
    PROVE  SessionStep(c)
  <1>1. "no_reply" \in Outcomes /\ "reply" \in Outcomes
    BY DEF Outcomes
  <1>2. CASE RoundStep(c)
    BY <1>1, <1>2 DEF RoundStep, SessionStep, RoundWithoutCompletion, TimingGateReleases,
       PlannerSendsEmoji, PlannerReplies, PlannerReleases, PlannerAnswered, Answered, EmojiDone,
       ComposeDone, RoundFails, CompleteOrEnd, Interruption, Under
  <1>3. CASE TaskStep(c)
    BY <1>3 DEF TaskStep, SessionStep, SendOk, SendFails, SendEnds, Join, JoinEnds, Interruption
  <1>4. CASE CancelCall(c)
    BY <1>4 DEF CancelCall, SessionStep, Interruption
  <1> QED
    BY <1>2, <1>3, <1>4

\* A session only settles, closes and drops turns of its own.
LEMMA OthersLive ==
    ASSUME DistinctTurns, TypeOK, NEW c \in Sessions, OwnSnapshot(c), SessionStep(c)
    PROVE  /\ \A f \in Frames : SessionOf[f] # c =>
                 future'[f] = future[f] /\ byTurn'[TurnOf[f]] = byTurn[TurnOf[f]]
           /\ \A s \in Sessions \ {c} :
                 /\ asked'[s] = asked[s]
                 /\ \/ lease'[s] = lease[s]
                    \/ /\ lease'[s] = NoLease
                       /\ \A i \in DOMAIN lease[s].turns : byTurn'[lease[s].turns[i]] = None
  <1> USE TasksType
  <1>1. ASSUME pc[c] \in Closing
        PROVE  Head(batch[c]) \in Frames /\ SessionOf[Head(batch[c])] = c
    <2>1. batch[c] \in Seq(Frames) /\ batch[c] # <<>>
      BY <1>1 DEF TypeOK, Closing
    <2>2. Head(batch[c]) \in Frames /\ Head(batch[c]) \in InBatch(c)
      BY <2>1, TailOfBatch DEF InBatch
    <2> QED
      BY <2>2 DEF OwnSnapshot
  <1>2. CASE \/ RoundEnds(c) \/ StageEmoji(c) \/ Acquire(c) \/ JoinEnds(c)
             \/ \E await \in {"emoji", "compose"} : RoundWaits(c, await)
             \/ \E a \in Outcomes : Complete(c, c, a)
    BY <1>2 DEF RoundEnds, StageEmoji, Acquire, JoinEnds, RoundWaits, Complete, indexVars, roundVars
  <1>3. CASE \E phase \in {"timing_gate", "planner"} : BeforeRequest(c, phase)
    BY <1>3 DEF BeforeRequest, TypeOK
  <1>4. CASE Interruption(c)
    <2>1. UNCHANGED <<byTurn, lease, asked>>
      BY <1>4 DEF Interruption, indexVars, roundVars
    <2>2. ASSUME NEW f \in Frames, SessionOf[f] # c PROVE future'[f] = future[f]
      BY <1>1, <1>4, <2>2 DEF Interruption, Closing, TypeOK
    <2> QED
      BY <2>1, <2>2
  <1>5. ASSUME NEW result \in {"answered", "failed"}, SendEnds(c, result)
        PROVE  /\ \A f \in Frames : SessionOf[f] # c =>
                     future'[f] = future[f] /\ byTurn'[TurnOf[f]] = byTurn[TurnOf[f]]
               /\ \A s \in Sessions \ {c} :
                     /\ asked'[s] = asked[s]
                     /\ \/ lease'[s] = lease[s]
                        \/ /\ lease'[s] = NoLease
                           /\ \A i \in DOMAIN lease[s].turns : byTurn'[lease[s].turns[i]] = None
    <2>1. PICK h \in Frames : h = Head(batch[c]) /\ SessionOf[h] = c
      BY <1>1, <1>5 DEF SendEnds, Closing
    <2>2. Unregister(h) /\ Settle(h, result) /\ UNCHANGED asked
      BY <1>5, <2>1 DEF SendEnds, roundVars
    <2>3. \A f \in Frames \ {h} : future'[f] = future[f]
      BY <2>2 DEF Settle, TypeOK
    <2> QED
      BY <2>1, <2>2, <2>3, UnregisterDrops
  <1> QED
    BY <1>2, <1>3, <1>4, <1>5 DEF SessionStep

\* before_request: the lease names what the round is told of.
LEMMA AsksOwn ==
    ASSUME DistinctTurns, TypeOK, ListedInOrder, NEW c \in Sessions, OwnSnapshot(c),
           NEW phase \in {"timing_gate", "planner"}, BeforeRequest(c, phase)
    PROVE  OwnSnapshot(c)'
  <1> USE TasksType
  <1>1. /\ pc'[c] = "asked" /\ asked'[c] = LivePendings(c)
        /\ UNCHANGED <<batch, started, future, byTurn>>
    BY DEF BeforeRequest, turnVars, TypeOK
  <1>2. Elements(PendingBatch(c)) = LivePendings(c)
    BY BatchElements DEF ListedInOrder, LivePendings
  <1>3. \A f : IsLive(f)' <=> IsLive(f)
    BY <1>1 DEF IsLive
  <1>4. InBatch(c)' = InBatch(c)
    BY <1>1 DEF InBatch
  <1>5. pc'[c] \notin Closing
    BY <1>1 DEF Closing
  <1>6. \A f \in LivePendings(c) : f \in Frames /\ IsLive(f) /\ SessionOf[f] = c
    BY DEF LivePendings, TypeOK
  <1>7. CASE HasPending(c)
    <2> DEFINE b == PendingBatch(c)
    <2>1. lease'[c].turns = TurnIds(b)
      BY <1>7 DEF BeforeRequest, TypeOK
    <2>2. /\ DOMAIN TurnIds(b) = DOMAIN b
          /\ \A i \in DOMAIN b : TurnIds(b)[i] = TurnOf[b[i]]
      BY DEF TurnIds
    <2> HIDE DEF b
    <2>3. \A t : Leased(c, t)' <=> \E f \in Elements(b) : TurnOf[f] = t
      BY <2>1, <2>2 DEF Leased, Elements
    <2>4. \A f \in Frames : Leased(c, TurnOf[f])' => SessionOf[f] = c
      BY <1>2, <1>6, <2>3 DEF b, DistinctTurns
    <2>5. SnapshotHeld(c)'
      BY <1>1, <1>2, <1>3, <1>6, <2>3 DEF SnapshotHeld, b
    <2> QED
      BY <1>4, <1>5, <2>4, <2>5 DEF OwnSnapshot
  <1>8. CASE ~HasPending(c)
    <2>1. lease'[c] = lease[c]
      BY <1>8 DEF BeforeRequest
    <2>2. \A t : Leased(c, t)' <=> Leased(c, t)
      BY <2>1 DEF Leased
    <2>3. asked'[c] = {}
      BY <1>1, <1>2, <1>8 DEF HasPending, Elements
    <2> QED
      BY <1>4, <1>5, <2>2, <2>3 DEF OwnSnapshot
  <1> QED
    BY <1>7, <1>8

LEMMA SessionActs ==
    ASSUME DistinctTurns, TypeOK, TerminalInv, ListedInOrder, NEW c \in Sessions, OwnSnapshot(c),
           SessionStep(c)
    PROVE  Acts(c)
  <1> USE TasksType
  <1>1. CASE RoundEnds(c)
    BY <1>1, FinishesOwn DEF RoundEnds, indexVars, roundVars
  <1> DEFINE Still ==
        /\ UNCHANGED <<batch, answer, started, future, byTurn, lease, asked>>
        /\ \A d \in Tasks \ {c} : pc'[d] = pc[d]
        /\ pc'[c] = pc[c] \/ (pc[c] \in Under /\ pc'[c] \in Under)
  <1>2. ASSUME Still PROVE Acts(c)
    <2>1. /\ \A f : IsLive(f)' <=> IsLive(f)
          /\ \A t : Leased(c, t)' <=> Leased(c, t)
          /\ InBatch(c)' = InBatch(c)
      BY <1>2 DEF IsLive, Leased, InBatch
    <2>2. SnapshotHeld(c)' <=> SnapshotHeld(c)
      BY <1>2, <2>1 DEF SnapshotHeld
    <2>3. pc'[c] \in Under => pc[c] \in Under
      BY <1>2
    <2>4. pc'[c] \in Closing => pc[c] \in Closing
      BY <1>2 DEF Under, Closing
    <2>5. OwnSnapshot(c)'
      BY <1>2, <2>1, <2>2, <2>3, <2>4 DEF OwnSnapshot
    <2> QED
      BY <1>2, <2>5 DEF Acts
  <1>3. CASE StageEmoji(c)
    <2>1. UNCHANGED <<batch, answer, started, future, byTurn, lease, asked>> /\ pc' = pc
      BY <1>3 DEF StageEmoji, indexVars, taskVars, roundVars
    <2>2. Still
      BY <2>1
    <2> QED
      BY <1>2, <2>2
  <1>4. ASSUME pc[c] \in Under, NEW await \in {"emoji", "compose"}, RoundWaits(c, await)
        PROVE  Acts(c)
    <2>1. pc'[c] \in Under /\ \A d \in Tasks \ {c} : pc'[d] = pc[d]
      BY <1>4 DEF RoundWaits, Under, TypeOK
    <2>2. UNCHANGED <<batch, answer, started, future, byTurn, lease, asked>>
      BY <1>4 DEF RoundWaits, turnVars, indexVars, roundVars
    <2>3. Still
      BY <1>4, <2>1, <2>2
    <2> QED
      BY <1>2, <2>3
  <1>5. ASSUME NEW phase \in {"timing_gate", "planner"}, BeforeRequest(c, phase)
        PROVE  Acts(c)
    <2>1. /\ \A d \in Tasks \ {c} : pc'[d] = pc[d]
          /\ UNCHANGED <<batch, answer, started>>
      BY <1>5 DEF BeforeRequest, turnVars, TypeOK
    <2> QED
      BY <1>5, <2>1, AsksOwn DEF Acts
  <1>6. ASSUME NEW a \in Outcomes, RequestBatch(c) # <<>>, Enter(c, RequestBatch(c), a),
               UNCHANGED <<asked, lease>>, a = "reply" => pc[c] \in Under
        PROVE  Acts(c)
    <2>1. PICK b \in Seq(Frames) : b = RequestBatch(c) /\ b # <<>>
      BY <1>6, BatchesAreLive, LiveBatchesType
    <2>2. /\ \A f \in Elements(b) : SessionOf[f] = c
          /\ asked[c] # {} /\ a = "reply" => Elements(b) \subseteq asked[c]
      BY <1>6, <2>1, BatchOfSnapshot DEF TerminalInv, OwnSnapshot
    <2>3. Enter(c, b, a)
      BY <1>6, <2>1
    <2>4. asked'[c] = asked[c] /\ lease'[c] \in {lease[c], NoLease}
      BY <1>6
    <2> QED
      BY <2>1, <2>2, <2>3, <2>4, EntersOwn
  <1>7. ASSUME NEW a \in Outcomes, pc[c] \in Under, Complete(c, c, a)
        PROVE  Acts(c)
    BY <1>6, <1>7 DEF Complete, indexVars, roundVars
  <1>8. CASE Interruption(c)
    <2>1. UNCHANGED <<asked, lease>> /\ "no_reply" \in Outcomes /\ "no_reply" # "reply"
      BY <1>8 DEF Interruption, indexVars, roundVars, Outcomes
    <2> QED
      BY <1>6, <1>8, <2>1, FinishesOwn DEF Interruption, Interrupt
  <1>9. CASE Acquire(c)
    <2>1. /\ batch[c] \in Seq(Frames) /\ batch[c] # <<>> /\ answer[c] \in Outcomes
          /\ pc[c] \in Closing
      BY <1>9 DEF Acquire, TypeOK, Closing
    <2>2. /\ batch' = [batch EXCEPT ![c] = batch[c]] /\ answer' = [answer EXCEPT ![c] = answer[c]]
          /\ \E o : Locked(c, Head(batch[c]), o)
          /\ UNCHANGED <<asked, lease>>
      BY <1>9 DEF Acquire, TypeOK, indexVars, roundVars
    <2>3. Elements(batch[c]) = InBatch(c)
      BY DEF Elements, InBatch
    <2> QED
      BY <2>1, <2>2, <2>3, EntersOwn DEF OwnSnapshot
  <1>10. CASE JoinEnds(c)
    BY <1>10, ProceedsOwn DEF JoinEnds, indexVars, roundVars
  <1>11. ASSUME NEW result \in {"answered", "failed"}, SendEnds(c, result)
         PROVE  Acts(c)
    <2>1. Head(batch[c]) \in Frames
      BY <1>11, TailOfBatch DEF SendEnds, TypeOK
    <2>2. lease'[c] \in {lease[c], NoLease}
      BY <1>11, <2>1, UnregisterKeepsLeases DEF SendEnds
    <2> QED
      BY <1>11, <2>2, ProceedsOwn DEF SendEnds, roundVars
  <1> QED
    BY <1>1, <1>3, <1>4, <1>5, <1>7, <1>8, <1>9, <1>10, <1>11 DEF SessionStep

LEMMA SessionSnapshotStep ==
    ASSUME DistinctTurns, TypeOK, TerminalInv, ListedInOrder, SnapshotInv, link = "up",
           NEW c \in Sessions, SessionStep(c)
    PROVE  SnapshotInv'
  <1> USE TasksType
  <1>1. Acts(c)
    BY SessionActs DEF SnapshotInv
  <1>2. \A f \in Frames : f \in Tasks /\ f # c
    BY ConstantsAssumption
  <1>3. \A f \in Frames : pc'[f] \in {"idle", "route"}
    BY <1>1, <1>2 DEF Acts, SnapshotInv
  <1>4. ASSUME NEW s \in Sessions \ {c}
        PROVE  OwnSnapshot(s)'
    <2>1. OwnSnapshot(s) /\ OwnSnapshot(c)
      BY DEF SnapshotInv
    <2>2. /\ \A f \in Frames : SessionOf[f] = s =>
                future'[f] = future[f] /\ byTurn'[TurnOf[f]] = byTurn[TurnOf[f]]
          /\ asked'[s] = asked[s]
          /\ \/ lease'[s] = lease[s]
             \/ /\ lease'[s] = NoLease
                /\ \A i \in DOMAIN lease[s].turns : byTurn'[lease[s].turns[i]] = None
      BY <2>1, OthersLive
    <2>3. /\ pc'[s] = pc[s] /\ batch'[s] = batch[s] /\ answer'[s] = answer[s]
          /\ \A f \in Frames : SessionOf[f] = s => (started'[f] => started[f])
      BY <1>1 DEF Acts
    <2>4. \A f \in Frames : SessionOf[f] = s /\ pc[s] \in Under /\ IsLive(f) => IsLive(f)'
      BY <2>2, <2>3 DEF IsLive
    <2> QED
      BY <2>1, <2>2, <2>3, <2>4, BystanderKeeps
  <1> QED
    BY <1>1, <1>3, <1>4 DEF Acts, SnapshotInv

LEMMA FrameSnapshotStep ==
    ASSUME DistinctTurns, OnlyRounds, TypeOK, SnapshotInv, link = "up",
           NEW f \in Frames, FrameStep(f)
    PROVE  SnapshotInv'
  <1> USE TasksType
  <1>1. ASSUME \A g \in Frames : pc'[g] = pc[g] \/ pc'[g] \in {"idle", "route"},
               \A s \in Sessions : /\ pc'[s] = pc[s] /\ batch'[s] = batch[s]
                                   /\ answer'[s] = answer[s] /\ asked'[s] = asked[s]
                                   /\ \/ lease'[s] = lease[s]
                                      \/ /\ lease'[s] = NoLease
                                         /\ \A i \in DOMAIN lease[s].turns :
                                                byTurn'[lease[s].turns[i]] = None,
               \A g \in Frames : IsLive(g) => IsLive(g)'
        PROVE  SnapshotInv'
    <2>1. \A g \in Frames : pc'[g] \in {"idle", "route"}
      BY <1>1 DEF SnapshotInv
    <2>2. ASSUME NEW s \in Sessions PROVE OwnSnapshot(s)'
      BY <1>1, BystanderKeeps DEF SnapshotInv
    <2> QED
      BY <2>1, <2>2 DEF SnapshotInv
  <1>2. ASSUME UNCHANGED <<byTurn, lease, future, started, batch, answer, asked, pc>>
        PROVE  SnapshotInv'
    BY <1>1, <1>2 DEF IsLive
  <1>3. CASE RefuseForeign(f) \/ IgnoreDuplicate(f) \/ RefuseFull(f) \/ RefusalEnds(f)
    BY <1>2, <1>3 DEF RefuseForeign, IgnoreDuplicate, RefuseFull, RefusalEnds, Refuse,
                      indexVars, turnVars, taskVars
  <1>4. CASE Register(f)
    <2>1. /\ UNCHANGED <<lease, future, started, batch, answer, asked>>
          /\ pc' = [pc EXCEPT ![f] = "route"] /\ byTurn' = [byTurn EXCEPT ![TurnOf[f]] = f]
          /\ byTurn[TurnOf[f]] = None
      BY <1>4 DEF Register, turnVars
    <2>2. f \notin Sessions /\ f # None /\ TurnOf \in [Frames -> Turns]
      BY ConstantsAssumption
    <2>3. \A g \in Frames : pc'[g] = pc[g] \/ pc'[g] \in {"idle", "route"}
      BY <2>1 DEF TypeOK
    <2>4. \A s \in Sessions : pc'[s] = pc[s]
      BY <2>1, <2>2 DEF TypeOK
    <2>5. \A g \in Frames : IsLive(g) => IsLive(g)'
      BY <2>1, <2>2 DEF IsLive, DistinctTurns, TypeOK
    <2> QED
      BY <1>1, <2>1, <2>3, <2>4, <2>5
  <1>5. CASE HandleReturns(f)
    <2>1. /\ Unregister(f) /\ future[f] # "open"
          /\ UNCHANGED <<future, started, batch, answer, asked, pc>>
      BY <1>5 DEF HandleReturns, turnVars, taskVars
    <2>2. \A g \in Frames : IsLive(g) => IsLive(g)'
      BY <2>1, UnregisterDrops DEF IsLive
    <2> QED
      BY <1>1, <2>1, <2>2, UnregisterDrops
  <1>6. CASE RouteEnds(f)
    <2>1. /\ UNCHANGED <<byTurn, lease, future, started, asked>> /\ Finish(f)
          /\ f \notin Sessions
      BY <1>6, ConstantsAssumption DEF RouteEnds, indexVars, roundVars, Finish
    <2>2. \A g \in Frames : IsLive(g) => IsLive(g)'
      BY <2>1 DEF IsLive
    <2>3. \A s \in Sessions : pc'[s] = pc[s] /\ batch'[s] = batch[s] /\ answer'[s] = answer[s]
      BY <2>1 DEF Finish, TypeOK
    <2>4. \A g \in Frames : pc'[g] = pc[g] \/ pc'[g] \in {"idle", "route"}
      BY <2>1 DEF Finish, TypeOK
    <2> QED
      BY <1>1, <2>1, <2>2, <2>3, <2>4
  <1>7. ~RouteFails(f)
    BY DEF RouteFails, OnlyRounds
  <1> QED
    BY <1>3, <1>4, <1>5, <1>6, <1>7 DEF FrameStep

LEMMA SnapshotStep ==
    ASSUME DistinctTurns, OnlyRounds, TypeOK, TerminalInv, ListedInOrder, SnapshotInv, [Next]_vars
    PROVE  SnapshotInv'
  <1> USE TasksType
  <1>1. CASE UNCHANGED vars
    BY <1>1 DEF vars, SnapshotInv, OwnSnapshot, SnapshotHeld, IsLive, Leased, InBatch
  <1>2. CASE link' # "up"
    BY <1>2 DEF SnapshotInv
  <1>3. CASE link # "up" /\ Next
    <2>1. link' # "up"
      BY <1>3, StepKinds DEF HandleMoves, Refuse, IgnoreDuplicate, RefusalEnds, Register, HandleReturns,
         RouteEnds, RouteFails, RoundMoves, RoundEnds, StageEmoji, RoundWaits, BeforeRequest, TaskMoves,
         Acquire, JoinEnds, Interruption, SendEnds, Complete, LinkMoves, TransportStops, Redial, Teardown,
         roundVars, vars
    <2> QED
      BY <2>1 DEF SnapshotInv
  <1>4. CASE link = "up" /\ link' = "up" /\ Next
    <2>1. ASSUME NEW f \in Frames, FrameStep(f) PROVE SnapshotInv'
      BY <1>4, <2>1, FrameSnapshotStep
    <2>2. ASSUME NEW c \in Sessions, RoundStep(c) \/ TaskStep(c) \/ CancelCall(c)
          PROVE  SnapshotInv'
      BY <1>4, <2>2, SessionSteps, SessionSnapshotStep
    <2>3. ASSUME NEW f \in Frames PROVE ~TaskStep(f)
      BY <1>4 DEF SnapshotInv, TaskStep, Acquire, SendOk, SendFails, Join
    <2>4. ~Teardown /\ ~TransportStops /\ ~Redial
      BY <1>4 DEF Teardown, TransportStops, Redial
    <2> QED
      BY <1>4, <2>1, <2>2, <2>3, <2>4 DEF Next, Tasks, OnlyRounds
  <1> QED
    BY <1>1, <1>2, <1>3, <1>4

\* While the rounds are all that closes turns and the connection stands, a round that
\* was told of turns never replies to another one, however long it composes, whatever
\* arrives meanwhile and whatever the host cancels.
THEOREM SnapshotIsKept ==
    ASSUME DistinctTurns, OnlyRounds
    PROVE  Spec => []RoundRepliesToItsSnapshot
  <1>1. Init => TypeOK /\ TerminalInv
    BY TypeInit, TerminalInit
  <1>2. Init => ListedInOrder /\ SnapshotInv
    BY ConstantsAssumption DEF Init, ListedInOrder, SnapshotInv, OwnSnapshot, Under, Closing, InBatch,
       Leased, NoLease, Tasks
  <1>3. /\ TypeOK /\ TerminalInv /\ ListedInOrder /\ SnapshotInv /\ [Next]_vars
        => (TypeOK /\ TerminalInv /\ ListedInOrder /\ SnapshotInv)'
    BY TypeStep, TerminalStep, ListedStep, SnapshotStep
  <1>4. TypeOK /\ SnapshotInv => RoundRepliesToItsSnapshot
    <2> SUFFICES ASSUME TypeOK, SnapshotInv, link = "up", NEW s \in Sessions, asked[s] # {},
                        pc[s] = "send", OutcomeFor(batch[s], answer[s]) = "reply"
                 PROVE  Head(batch[s]) \in asked[s]
      BY DEF RoundRepliesToItsSnapshot
    <2>1. batch[s] \in Seq(Frames) /\ batch[s] # <<>>
      BY TasksType DEF TypeOK
    <2>2. answer[s] = "reply"
      BY DEF OutcomeFor
    <2>3. Head(batch[s]) \in InBatch(s)
      BY <2>1, TailOfBatch DEF InBatch
    <2> QED
      BY <2>2, <2>3 DEF SnapshotInv, OwnSnapshot, Closing
  <1> QED
    BY <1>1, <1>2, <1>3, <1>4, PTL DEF Spec
=============================================================================
