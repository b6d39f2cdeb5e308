----------------------- MODULE MaidTurnServiceProofs -----------------------
(***************************************************************************)
(* Theorems of MaidTurnService, for every number of frames, turns,         *)
(* sessions and calls.                                                     *)
(***************************************************************************)
EXTENDS MaidTurnService, Induction

----------------------------------------------------------------------------
(* Types of the helpers the actions share.                                 *)

\* the variables a completion writes
CompletionTypeOK ==
    /\ started \in [Frames -> BOOLEAN]
    /\ staged \in [Frames -> Nat]
    /\ wire \in [Frames -> Seq(Outcomes)]
    /\ pc \in [Tasks -> {"idle", "route", "asked", "emoji", "compose", "lock", "send", "join"}]
    /\ batch \in [Tasks -> Seq(Frames)]
    /\ \A c \in Tasks : pc[c] \in {"lock", "send", "join"} => batch[c] # <<>>
    /\ answer \in [Tasks -> Outcomes]

\* the variables _unregister_pending writes
IndexTypeOK ==
    /\ byTurn \in [Turns -> Frames \cup {None}]
    /\ listed \subseteq Frames
    /\ lease \in [Sessions -> Leases]

\* The tail of a batch is a batch.
LEMMA TailOfBatch ==
    ASSUME NEW S, NEW b \in Seq(S), b # <<>>
    PROVE  /\ Head(b) \in S /\ Tail(b) \in Seq(S) /\ Len(b) > 0
           /\ \A i \in DOMAIN Tail(b) : i + 1 \in DOMAIN b /\ Tail(b)[i] = b[i + 1]
  OBVIOUS

Elements(b) == {b[i] : i \in DOMAIN b}

\* A condition keeps the elements it holds for, and no others.
LEMMA FilteredKeeps ==
    ASSUME NEW q, NEW V, q \in Seq(V), NEW S,
           NEW R, R = {x \in S : \E i \in DOMAIN q : q[i] = x}
    PROVE  /\ Filtered(q, S) \in Seq(R)
           /\ R \subseteq Elements(Filtered(q, S))
  <1> DEFINE k == Len(q)
             step == [x \in (1..k) \X Seq(R) |->
                        IF q[x[1]] \in S THEN Append(x[2], q[x[1]]) ELSE x[2]]
             Keeps(g) == g = [i \in 0..k |->
                IF i = 0 THEN <<>> ELSE IF q[i] \in S THEN Append(g[i - 1], q[i]) ELSE g[i - 1]]
             has(p, x) == \E j \in DOMAIN p : p[j] = x
  <1>1. k \in Nat /\ DOMAIN q = 1..k
    OBVIOUS
  <1>2. \A i \in 1..k : q[i] \in S => q[i] \in R
    BY <1>1
  <1>3. step \in Steps(k, Seq(R))
    <2>1. ASSUME NEW x \in (1..k) \X Seq(R)
          PROVE  (IF q[x[1]] \in S THEN Append(x[2], q[x[1]]) ELSE x[2]) \in Seq(R)
      <3>1. x[1] \in 1..k /\ x[2] \in Seq(R)
        OBVIOUS
      <3> HIDE DEF k
      <3> QED
        BY <1>2, <3>1
    <2> QED
      BY <2>1 DEF Steps
  <1>4. PICK g : IsRecursive(g, Seq(R), <<>>, k, step)
    <2>1. <<>> \in Seq(R)
      OBVIOUS
    <2> HIDE DEF step, k
    <2> QED
      BY <1>1, <1>3, <2>1, BoundedRecursion
  <1>5. Keeps(g)
    <2>1. /\ g \in [0..k -> Seq(R)] /\ g[0] = <<>>
          /\ \A i \in 1..k : g[i] = step[<<i, g[i - 1]>>]
      <3> HIDE DEF step, k
      <3> QED
        BY <1>4 DEF IsRecursive
    <2>2. ASSUME NEW i \in 1..k
          PROVE  step[<<i, g[i - 1]>>] = IF q[i] \in S THEN Append(g[i - 1], q[i]) ELSE g[i - 1]
      <3>1. <<i, g[i - 1]>> \in (1..k) \X Seq(R)
        <4>1. i - 1 \in 0..k
          BY <1>1
        <4>2. g[i - 1] \in Seq(R)
          BY <2>1, <4>1
        <4> HIDE DEF k
        <4> QED
          BY <4>2
      <3> HIDE DEF k
      <3> QED
        BY <3>1
    <2> HIDE DEF step, k
    <2>3. ASSUME NEW i \in 0..k
          PROVE  g[i] = IF i = 0 THEN <<>>
                        ELSE IF q[i] \in S THEN Append(g[i - 1], q[i]) ELSE g[i - 1]
      <3>1. i = 0 \/ i \in 1..k
        BY <1>1
      <3> QED
        BY <2>1, <2>2, <3>1
    <2> QED
      BY <2>1, <2>3, Zenon DEF Keeps
  <1>6. Filtered(q, S) = (CHOOSE h : Keeps(h))[k]
    BY DEF Filtered
  <1>7. PICK kept : Keeps(kept) /\ Filtered(q, S) = kept[k]
    <2> HIDE DEF Keeps, k
    <2> QED
      BY <1>5, <1>6
  <1>8. /\ kept[0] = <<>>
        /\ \A n \in 1..k : kept[n] = IF q[n] \in S THEN Append(kept[n - 1], q[n]) ELSE kept[n - 1]
    <2>1. kept = [i \in 0..k |-> IF i = 0 THEN <<>>
                    ELSE IF q[i] \in S THEN Append(kept[i - 1], q[i]) ELSE kept[i - 1]]
      BY <1>7
    <2> HIDE DEF Keeps, k
    <2>2. \A i \in 0..k : kept[i] = IF i = 0 THEN <<>>
                    ELSE IF q[i] \in S THEN Append(kept[i - 1], q[i]) ELSE kept[i - 1]
      BY <2>1, Zenon
    <2> QED
      BY <1>1, <2>2
  <1> DEFINE T == {n \in Nat : n <= k =>
                     /\ kept[n] \in Seq(R)
                     /\ \A i \in 1..n : q[i] \in S => has(kept[n], q[i])}
  <1> HIDE DEF Keeps, step, k
  <1>9. 0 \in T
    <2>1. <<>> \in Seq(R) /\ 1..0 = {}
      OBVIOUS
    <2> QED
      BY <1>8, <2>1
  <1>10. ASSUME NEW n \in Nat, n \in T PROVE n + 1 \in T
    <2> SUFFICES ASSUME n + 1 <= k
                 PROVE  /\ kept[n + 1] \in Seq(R)
                        /\ \A i \in 1..(n + 1) : q[i] \in S => has(kept[n + 1], q[i])
      OBVIOUS
    <2>1. n + 1 \in 1..k /\ (n + 1) - 1 = n /\ n <= k
      BY <1>1
    <2>2. /\ kept[n] \in Seq(R)
          /\ \A i \in 1..n : q[i] \in S => has(kept[n], q[i])
      BY <1>10, <2>1
    <2>3. kept[n + 1] = IF q[n + 1] \in S THEN Append(kept[n], q[n + 1]) ELSE kept[n]
      BY <1>8, <2>1
    <2>4. CASE q[n + 1] \notin S
      BY <2>2, <2>3, <2>4
    <2>5. CASE q[n + 1] \in S
      <3>1. q[n + 1] \in R
        BY <1>2, <2>1, <2>5
      <3>2. kept[n + 1] = Append(kept[n], q[n + 1])
        BY <2>3, <2>5
      <3>3. /\ kept[n + 1] \in Seq(R)
            /\ has(kept[n + 1], q[n + 1])
            /\ \A x : has(kept[n], x) => has(kept[n + 1], x)
        <4>1. /\ Append(kept[n], q[n + 1]) \in Seq(R)
              /\ \A i \in DOMAIN kept[n] : /\ i \in DOMAIN Append(kept[n], q[n + 1])
                                          /\ Append(kept[n], q[n + 1])[i] = kept[n][i]
              /\ Len(kept[n]) + 1 \in DOMAIN Append(kept[n], q[n + 1])
              /\ Append(kept[n], q[n + 1])[Len(kept[n]) + 1] = q[n + 1]
          BY <2>2, <3>1, AppendGrows
        <4> QED
          BY <3>2, <4>1, Zenon
      <3> HIDE DEF has
      <3> QED
        BY <2>2, <3>3
    <2> QED
      BY <2>4, <2>5
  <1>11. k \in T
    <2> HIDE DEF T
    <2> QED
      BY <1>1, <1>9, <1>10, SetInduction
  <1>12. kept[k] \in Seq(R) /\ \A i \in 1..k : q[i] \in S => q[i] \in Elements(kept[k])
    BY <1>1, <1>11 DEF Elements
  <1> QED
    BY <1>1, <1>7, <1>12

\* What a completion closes: turns that are live, at least one.
LiveBatches == Seq({f \in Frames : IsLive(f)}) \ {<<>>}

\* A condition on all elements keeps a sequence of those it holds for.
LEMMA FilteredType ==
    ASSUME NEW q, NEW V, q \in Seq(V), NEW S
    PROVE  Filtered(q, S) \in Seq(S)
  <1> DEFINE R == {x \in S : \E i \in DOMAIN q : q[i] = x}
  <1>1. Filtered(q, S) \in Seq(R)
    BY FilteredKeeps
  <1>2. R \subseteq S
    OBVIOUS
  <1> HIDE DEF R
  <1> QED
    BY <1>1, <1>2

\* _pending_batch_for_key and _request_batch_for_session return live turns.
LEMMA BatchesAreLive ==
    ASSUME TypeOK, NEW s \in Sessions
    PROVE  /\ PendingBatch(s) # <<>> => PendingBatch(s) \in LiveBatches
           /\ RequestBatch(s) # <<>> => RequestBatch(s) \in LiveBatches
  <1> DEFINE live == {f \in Frames : IsLive(f)}
             turns == lease[s].turns
             found == [i \in DOMAIN turns |-> byTurn[turns[i]]]
  <1>1. PendingBatch(s) \in Seq(live)
    <2>1. order \in Seq(Frames)
      BY DEF TypeOK
    <2>2. PendingBatch(s) \in Seq(LivePendings(s))
      BY <2>1, FilteredType DEF PendingBatch
    <2>3. LivePendings(s) \subseteq live
      BY DEF LivePendings, TypeOK
    <2> HIDE DEF live
    <2> QED
      BY <2>2, <2>3
  <1>2. Filtered(found, live) \in Seq(live)
    <2>1. turns \in Seq(Turns) /\ byTurn \in [Turns -> Frames \cup {None}]
      BY DEF TypeOK, Leases
    <2>2. found \in Seq(Frames \cup {None})
      BY <2>1
    <2> HIDE DEF found, live
    <2> QED
      BY <2>2, FilteredType
  <1>3. RequestBatch(s) \in Seq(live)
    <2>1. RequestBatch(s) = IF Filtered(found, live) # <<>> THEN Filtered(found, live)
                            ELSE PendingBatch(s)
      BY DEF RequestBatch
    <2> HIDE DEF found, live
    <2> QED
      BY <1>1, <1>2, <2>1
  <1> QED
    BY <1>1, <1>3 DEF LiveBatches

\* The turns a task may complete are frames.
LEMMA LiveBatchesType ==
    ASSUME NEW b \in LiveBatches
    PROVE  b \in Seq(Frames) /\ b # <<>>
           /\ \A i \in DOMAIN b : b[i] \in Frames /\ IsLive(b[i])
  <1>1. b \in Seq({f \in Frames : IsLive(f)}) /\ b # <<>>
    BY DEF LiveBatches
  <1>2. \A i \in DOMAIN b : b[i] \in {f \in Frames : IsLive(f)}
    BY <1>1
  <1> QED
    BY <1>1, <1>2

LEMMA TasksType ==
    Frames \subseteq Tasks /\ Sessions \subseteq Tasks /\ Calls \subseteq Tasks
  BY DEF Tasks

LEMMA UnregisterType ==
    ASSUME TypeOK, NEW f \in Frames, Unregister(f)
    PROVE  IndexTypeOK'
  <1>1. TurnOf[f] \in Turns
    BY ConstantsAssumption
  <1>2. NoLease \in Leases
    BY DEF NoLease, Leases, Phases
  <1> QED
    BY <1>1, <1>2 DEF TypeOK, Unregister, WithoutStale, IndexTypeOK

LEMMA LockedType ==
    ASSUME TypeOK, NEW c \in Tasks, NEW f \in Frames, NEW o \in Outcomes, Locked(c, f, o)
    PROVE  /\ started' \in [Frames -> BOOLEAN]
           /\ staged' \in [Frames -> Nat]
           /\ wire' \in [Frames -> Seq(Outcomes)]
           /\ pc' \in [Tasks -> {"idle", "route", "asked", "emoji", "compose", "lock", "send", "join"}]
           /\ \A d \in Tasks \ {c} : pc'[d] = pc[d]
  <1>1. CASE UNCHANGED <<started, staged, wire>> /\ pc' = [pc EXCEPT ![c] = "join"]
    BY <1>1 DEF TypeOK
  <1>2. CASE StartTerminal(c, f, o)
    <2>1. wire[f] \in Seq(Outcomes) /\ Append(wire[f], o) \in Seq(Outcomes)
      BY DEF TypeOK
    <2> QED
      BY <1>2, <2>1 DEF TypeOK, StartTerminal, HandOver
  <1> QED
    BY <1>1, <1>2 DEF Locked

LEMMA EnterType ==
    ASSUME TypeOK, NEW c \in Tasks, NEW b \in Seq(Frames), b # <<>>,
           NEW a \in Outcomes, Enter(c, b, a)
    PROVE  CompletionTypeOK'
  <1>1. Head(b) \in Frames /\ OutcomeFor(b, a) \in Outcomes
    BY TailOfBatch DEF OutcomeFor, Outcomes
  <1>2. batch' \in [Tasks -> Seq(Frames)] /\ answer' \in [Tasks -> Outcomes]
    BY DEF TypeOK, Enter
  <1>3. /\ batch'[c] # <<>>
        /\ \A d \in Tasks \ {c} : batch'[d] = batch[d]
    BY DEF TypeOK, Enter
  <1>4. CASE Contended(c, Head(b))
    BY <1>2, <1>3, <1>4 DEF TypeOK, Enter, CompletionTypeOK
  <1>5. CASE ~Contended(c, Head(b))
    <2>1. Locked(c, Head(b), OutcomeFor(b, a))
      BY <1>5 DEF Enter
    <2>2. \A d \in Tasks : pc'[d] \in {"lock", "send", "join"} => batch'[d] # <<>>
      BY <1>1, <1>3, <2>1, LockedType DEF TypeOK
    <2> QED
      BY <1>1, <1>2, <2>1, <2>2, LockedType DEF CompletionTypeOK
  <1> QED
    BY <1>4, <1>5

LEMMA FinishType ==
    ASSUME TypeOK, NEW c \in Tasks, Finish(c)
    PROVE  CompletionTypeOK' /\ releasing' \subseteq Sessions
  BY DEF TypeOK, Finish, CompletionTypeOK, Outcomes

LEMMA ProceedType ==
    ASSUME TypeOK, NEW c \in Tasks, batch[c] # <<>>, Proceed(c)
    PROVE  CompletionTypeOK' /\ releasing' \subseteq Sessions
  <1>1. Tail(batch[c]) \in Seq(Frames) /\ answer[c] \in Outcomes
    BY TailOfBatch DEF TypeOK
  <1>2. CASE Finish(c)
    BY <1>2, FinishType
  <1>3. CASE Tail(batch[c]) # <<>> /\ Enter(c, Tail(batch[c]), answer[c]) /\ UNCHANGED releasing
    BY <1>1, <1>3, EnterType DEF TypeOK
  <1> QED
    BY <1>2, <1>3 DEF Proceed

LEMMA InterruptType ==
    ASSUME TypeOK, NEW c \in Tasks, Interrupt(c)
    PROVE  CompletionTypeOK' /\ releasing' \subseteq Sessions
  <1>1. CASE Finish(c)
    BY <1>1, FinishType
  <1>2. CASE /\ c \in Sessions \ releasing
             /\ RequestBatch(c) # <<>>
             /\ Enter(c, RequestBatch(c), "no_reply")
             /\ releasing' = releasing \cup {c}
    <2>1. CompletionTypeOK'
      BY <1>2, BatchesAreLive, LiveBatchesType, EnterType DEF Outcomes
    <2> QED
      BY <1>2, <2>1 DEF TypeOK
  <1> QED
    BY <1>1, <1>2 DEF Interrupt

----------------------------------------------------------------------------
(* The kinds of steps: many actions of a round share one effect.           *)

\* CancelledError or an exception in task c, which may cancel one future
Interruption(c) ==
    /\ Interrupt(c)
    /\ \/ UNCHANGED future
       \/ /\ pc[c] = "join"
          /\ future' = [future EXCEPT ![Head(batch[c])] = IF @ = "open" THEN "cancelled" ELSE @]
    /\ UNCHANGED indexVars /\ UNCHANGED roundVars

SendEnds(c, result) ==
    /\ pc[c] = "send"
    /\ result = "answered" => wire[Head(batch[c])] # <<>>
    /\ Settle(Head(batch[c]), result)
    /\ Unregister(Head(batch[c]))
    /\ Proceed(c)
    /\ UNCHANGED roundVars

JoinEnds(c) ==
    /\ pc[c] = "join"
    /\ future[Head(batch[c])] # "open"
    /\ Proceed(c)
    /\ UNCHANGED future /\ UNCHANGED indexVars /\ UNCHANGED roundVars

HandleMoves(f) ==
    \/ handle[f] = "new" /\ Refuse(f)
    \/ IgnoreDuplicate(f)
    \/ RefusalEnds(f)

RoundMoves(s) ==
    \/ RoundEnds(s) \/ StageEmoji(s)
    \/ \E await \in {"emoji", "compose"} : RoundWaits(s, await)
    \/ \E phase \in {"timing_gate", "planner"} : BeforeRequest(s, phase)

TaskMoves(c) ==
    \/ Acquire(c) \/ JoinEnds(c) \/ Interruption(c)
    \/ \E result \in {"answered", "failed"} : SendEnds(c, result)
    \/ \E s \in Sessions, a \in Outcomes : Complete(c, s, a)

LinkMoves == TransportStops \/ Redial

LEMMA StepKinds ==
    ASSUME [Next]_vars
    PROVE  \/ \E f \in Frames : \/ HandleMoves(f) \/ Register(f) \/ HandleReturns(f)
                               \/ RouteEnds(f) \/ RouteFails(f)
           \/ \E s \in Sessions : RoundMoves(s)
           \/ \E c \in Tasks : TaskMoves(c)
           \/ Teardown
           \/ LinkMoves
           \/ UNCHANGED vars
  <1> USE TasksType DEF Outcomes
  <1>1. ASSUME NEW f \in Frames, FrameStep(f)
        PROVE  \/ HandleMoves(f) \/ Register(f) \/ HandleReturns(f)
               \/ RouteEnds(f) \/ RouteFails(f)
    BY <1>1 DEF FrameStep, HandleMoves, RefuseForeign, RefuseFull, Arrives
  <1>2. ASSUME NEW s \in Sessions, RoundStep(s)
        PROVE  RoundMoves(s) \/ TaskMoves(s)
    <2>1. ASSUME NEW a \in Outcomes, CompleteOrEnd(s, a)
          PROVE  RoundMoves(s) \/ TaskMoves(s)
      BY <2>1 DEF CompleteOrEnd, RoundMoves, TaskMoves
    <2>2. CASE RoundFails(s)
      BY <2>2 DEF RoundFails, TaskMoves, Interruption
    <2>3. CASE RoundWithoutCompletion(s)
      BY <2>3 DEF RoundWithoutCompletion, RoundMoves
    <2>4. CASE TimingGateReleases(s) \/ PlannerReleases(s)
      BY <2>1, <2>4 DEF TimingGateReleases, PlannerReleases
    <2>5. CASE PlannerSendsEmoji(s) \/ PlannerReplies(s)
      BY <2>5 DEF PlannerSendsEmoji, PlannerReplies, RoundMoves
    <2>6. CASE EmojiDone(s)
      BY <2>1, <2>6 DEF EmojiDone, RoundMoves
    <2>7. CASE ComposeDone(s)
      BY <2>1, <2>7 DEF ComposeDone
    <2>8. CASE StageEmoji(s) \/ \E phase \in {"timing_gate", "planner"} : BeforeRequest(s, phase)
      BY <2>8 DEF RoundMoves
    <2> QED
      BY <1>2, <2>2, <2>3, <2>4, <2>5, <2>6, <2>7, <2>8 DEF RoundStep
  <1>3. ASSUME NEW c \in Calls, CallStep(c)
        PROVE  TaskMoves(c)
    BY <1>3 DEF CallStep, EmojiSelected, Outbound, TaskMoves
  <1>4. ASSUME NEW c \in Tasks, TaskStep(c)
        PROVE  TaskMoves(c)
    <2>1. CASE SendOk(c) \/ SendFails(c)
      BY <2>1 DEF SendOk, SendFails, SendEnds, TaskMoves
    <2>2. CASE Join(c)
      BY <2>2 DEF Join, JoinEnds, Interruption, TaskMoves
    <2> QED
      BY <1>4, <2>1, <2>2 DEF TaskStep, TaskMoves
  <1>5. ASSUME NEW c \in Sessions \cup Calls, CancelCall(c)
        PROVE  TaskMoves(c)
    BY <1>5 DEF CancelCall, Interruption, TaskMoves
  <1> QED
    BY <1>1, <1>2, <1>3, <1>4, <1>5 DEF Next, LinkMoves

----------------------------------------------------------------------------
(* Type correctness.                                                       *)

LEMMA TypeInit == Init => TypeOK
  <1> SUFFICES ASSUME Init PROVE TypeOK
    OBVIOUS
  <1>1. NoLease \in Leases /\ <<>> \in Seq(Frames) /\ <<>> \in Seq(Outcomes)
    BY DEF NoLease, Leases, Phases
  <1> QED
    BY <1>1 DEF Init, TypeOK, Outcomes

LEMMA FrameTypeStep ==
    ASSUME TypeOK, NEW f \in Frames,
           \/ HandleMoves(f) \/ Register(f) \/ HandleReturns(f)
           \/ RouteEnds(f) \/ RouteFails(f)
    PROVE  TypeOK'
  <1> USE TasksType
  <1>1. CASE Refuse(f)
    <2>1. Append(wire[f], "no_reply") \in Seq(Outcomes) /\ wire[f] \in Seq(Outcomes)
      BY DEF TypeOK, Outcomes
    <2> QED
      BY <1>1, <2>1 DEF TypeOK, Refuse, HandOver, indexVars, taskVars
  <1>2. CASE IgnoreDuplicate(f)
    BY <1>2 DEF TypeOK, IgnoreDuplicate, indexVars, turnVars, taskVars
  <1>3. CASE RefusalEnds(f)
    BY <1>3 DEF TypeOK, RefusalEnds, indexVars, turnVars, taskVars
  <1>4. CASE Register(f)
    <2>1. Append(order, f) \in Seq(Frames) /\ TurnOf[f] \in Turns
      BY ConstantsAssumption DEF TypeOK
    <2> QED
      BY <1>4, <2>1 DEF TypeOK, Register, turnVars
  <1>5. CASE HandleReturns(f)
    BY <1>5, UnregisterType DEF TypeOK, IndexTypeOK, HandleReturns, turnVars, taskVars
  <1>6. CASE RouteEnds(f)
    BY <1>6, FinishType DEF TypeOK, CompletionTypeOK, RouteEnds, indexVars, roundVars
  <1>7. CASE RouteFails(f)
    <2>1. <<f>> \in Seq(Frames) /\ <<f>> # <<>> /\ "no_reply" \in Outcomes
      BY DEF Outcomes
    <2>2. CompletionTypeOK'
      BY <1>7, <2>1, EnterType DEF RouteFails
    <2> QED
      BY <1>7, <2>2 DEF TypeOK, CompletionTypeOK, RouteFails, indexVars, roundVars
  <1> QED
    BY <1>1, <1>2, <1>3, <1>4, <1>5, <1>6, <1>7 DEF HandleMoves

LEMMA RoundTypeStep ==
    ASSUME TypeOK, NEW s \in Sessions, RoundMoves(s)
    PROVE  TypeOK'
  <1> USE TasksType
  <1>1. CASE RoundEnds(s)
    BY <1>1, FinishType DEF TypeOK, CompletionTypeOK, RoundEnds, indexVars, roundVars
  <1>2. CASE StageEmoji(s)
    <2> DEFINE target == RequestBatch(s)[Len(RequestBatch(s))]
    <2>1. target \in Frames
      <3>1. RequestBatch(s) \in LiveBatches
        BY <1>2, BatchesAreLive DEF StageEmoji
      <3>2. RequestBatch(s) \in Seq(Frames) /\ RequestBatch(s) # <<>>
        BY <3>1, LiveBatchesType
      <3> QED
        BY <3>2
    <2>2. staged' = [staged EXCEPT ![target] = @ + 1]
      BY <1>2 DEF StageEmoji
    <2>3. staged' \in [Frames -> Nat]
      <3> HIDE DEF target
      <3> QED
        BY <2>1, <2>2 DEF TypeOK
    <2> QED
      BY <1>2, <2>3 DEF TypeOK, StageEmoji, indexVars, taskVars, roundVars
  <1>3. ASSUME NEW await \in {"emoji", "compose"}, RoundWaits(s, await)
        PROVE  TypeOK'
    BY <1>3 DEF TypeOK, RoundWaits, turnVars, indexVars, roundVars
  <1>4. ASSUME NEW phase \in {"timing_gate", "planner"}, BeforeRequest(s, phase)
        PROVE  TypeOK'
    <2>1. ASSUME HasPending(s)
          PROVE  [phase |-> phase, turns |-> TurnIds(PendingBatch(s))] \in Leases
      <3>1. PendingBatch(s) \in Seq(Frames)
        BY <2>1, BatchesAreLive, LiveBatchesType DEF HasPending
      <3>2. TurnIds(PendingBatch(s)) \in Seq(Turns)
        BY <3>1, ConstantsAssumption DEF TurnIds
      <3> QED
        BY <3>2 DEF Leases, Phases
    <2>2. lease' \in [Sessions -> Leases]
      BY <1>4, <2>1 DEF TypeOK, BeforeRequest
    <2>3. asked' \in [Sessions -> SUBSET Frames]
      BY <1>4 DEF TypeOK, BeforeRequest, LivePendings
    <2>4. /\ pc' = [pc EXCEPT ![s] = "asked"]
          /\ UNCHANGED <<byTurn, listed, order, handle, future, batch, answer, releasing, link, late>>
          /\ UNCHANGED turnVars
      BY <1>4 DEF BeforeRequest
    <2> QED
      BY <2>2, <2>3, <2>4 DEF TypeOK, turnVars
  <1> QED
    BY <1>1, <1>2, <1>3, <1>4 DEF RoundMoves

LEMMA TaskTypeStep ==
    ASSUME TypeOK, NEW c \in Tasks, TaskMoves(c)
    PROVE  TypeOK'
  <1> USE TasksType
  <1>1. CASE Acquire(c)
    <2>1. /\ batch[c] \in Seq(Frames) /\ batch[c] # <<>>
          /\ Head(batch[c]) \in Frames
          /\ OutcomeFor(batch[c], answer[c]) \in Outcomes
      BY <1>1, TailOfBatch DEF TypeOK, Acquire, OutcomeFor, Outcomes
    <2>2. /\ started' \in [Frames -> BOOLEAN]
          /\ staged' \in [Frames -> Nat]
          /\ wire' \in [Frames -> Seq(Outcomes)]
          /\ pc' \in [Tasks -> {"idle", "route", "asked", "emoji", "compose", "lock", "send", "join"}]
          /\ \A d \in Tasks \ {c} : pc'[d] = pc[d]
      BY <1>1, <2>1, LockedType DEF Acquire
    <2>3. \A d \in Tasks : pc'[d] \in {"lock", "send", "join"} => batch'[d] # <<>>
      BY <1>1, <2>1, <2>2 DEF TypeOK, Acquire
    <2> QED
      BY <1>1, <2>2, <2>3 DEF TypeOK, Acquire, indexVars, roundVars
  <1>2. CASE JoinEnds(c)
    <2>1. CompletionTypeOK' /\ releasing' \subseteq Sessions
      BY <1>2, ProceedType DEF TypeOK, JoinEnds
    <2> QED
      BY <1>2, <2>1 DEF TypeOK, CompletionTypeOK, JoinEnds, indexVars, roundVars
  <1>3. CASE Interruption(c)
    <2>1. CompletionTypeOK' /\ releasing' \subseteq Sessions
      BY <1>3, InterruptType DEF Interruption
    <2>2. future' \in [Frames -> {"open", "answered", "failed", "cancelled"}]
      BY <1>3 DEF TypeOK, Interruption
    <2> QED
      BY <1>3, <2>1, <2>2 DEF TypeOK, CompletionTypeOK, Interruption, indexVars, roundVars
  <1>4. ASSUME NEW result \in {"answered", "failed"}, SendEnds(c, result)
        PROVE  TypeOK'
    <2>1. batch[c] # <<>> /\ Head(batch[c]) \in Frames
      BY <1>4, TailOfBatch DEF TypeOK, SendEnds
    <2>2. CompletionTypeOK' /\ releasing' \subseteq Sessions
      BY <1>4, <2>1, ProceedType DEF SendEnds
    <2>3. IndexTypeOK'
      BY <1>4, <2>1, UnregisterType DEF SendEnds
    <2>4. future' \in [Frames -> {"open", "answered", "failed", "cancelled"}]
      BY <1>4, <2>1 DEF TypeOK, SendEnds, Settle
    <2> QED
      BY <1>4, <2>2, <2>3, <2>4 DEF TypeOK, CompletionTypeOK, IndexTypeOK, SendEnds, roundVars
  <1>5. ASSUME NEW s \in Sessions, NEW a \in Outcomes, Complete(c, s, a)
        PROVE  TypeOK'
    <2>1. CompletionTypeOK'
      BY <1>5, BatchesAreLive, LiveBatchesType, EnterType DEF Complete
    <2> QED
      BY <1>5, <2>1 DEF TypeOK, CompletionTypeOK, Complete, indexVars, roundVars
  <1> QED
    BY <1>1, <1>2, <1>3, <1>4, <1>5 DEF TaskMoves

LEMMA TypeStep ==
    ASSUME TypeOK, [Next]_vars
    PROVE  TypeOK'
  <1>1. CASE Teardown
    <2>1. NoLease \in Leases /\ <<>> \in Seq(Frames)
      BY DEF NoLease, Leases, Phases
    <2> QED
      BY <1>1, <2>1 DEF TypeOK, Teardown, Closed, turnVars, Outcomes
  <1>2. CASE LinkMoves
    BY <1>2 DEF TypeOK, LinkMoves, TransportStops, Redial, turnVars, indexVars, taskVars
  <1>3. CASE UNCHANGED vars
    BY <1>3 DEF TypeOK, vars
  <1> QED
    BY <1>1, <1>2, <1>3, StepKinds, FrameTypeStep, RoundTypeStep, TaskTypeStep

\* Every variable keeps its type, and a task inside a completion always has a
\* turn to complete, whatever the interleaving of hooks, calls and teardown.
THEOREM TypeCorrect == Spec => []TypeOK
  BY TypeInit, TypeStep, PTL DEF Spec

----------------------------------------------------------------------------
(* At most one terminal frame per request.  The argument: a completer only *)
(* sends for a turn that was registered and not begun, so its terminal     *)
(* frame can only have been a refusal, and refused frames are never        *)
(* registered; terminal_lock keeps two completers from deciding at once.   *)

\* what a completion relies on and restores
CompletionInv == TaskInv /\ WireInv /\ AtMostOneTerminal /\ OneCompleter

\* The turns of a batch were registered: the index only names such turns.
LEMMA LiveIsRegistered ==
    ASSUME TypeOK, IndexInv, NEW f \in Frames, IsLive(f)
    PROVE  handle[f] = "waiting"
  <1>1. TurnOf[f] \in Turns /\ None \notin Frames
    BY ConstantsAssumption
  <1> QED
    BY <1>1 DEF IndexInv, IsLive

LEMMA LockedInv ==
    ASSUME TypeOK, CompletionInv, NEW c \in Tasks, NEW f \in Frames, NEW o \in Outcomes,
           Registered(f), Locked(c, f, o), UNCHANGED handle
    PROVE  /\ WireInv' /\ AtMostOneTerminal'
           /\ pc'[c] \in Holding
           /\ \A d \in Tasks \ {c} : pc'[d] = pc[d]
  <1>1. CASE UNCHANGED <<started, staged, wire>> /\ pc' = [pc EXCEPT ![c] = "join"]
    BY <1>1 DEF TypeOK, CompletionInv, WireInv, AtMostOneTerminal, Registered, Holding
  <1>2. CASE ~started[f] /\ StartTerminal(c, f, o)
    <2>1. started' = [started EXCEPT ![f] = TRUE] /\ pc' = [pc EXCEPT ![c] = "send"]
      BY <1>2 DEF StartTerminal
    <2>2. wire[f] = <<>>
      BY <1>2 DEF CompletionInv, WireInv, Registered, TypeOK
    <2>3. Len(wire'[f]) <= 1
      BY <1>2, <2>2 DEF StartTerminal, HandOver, TypeOK
    <2>4. \A g \in Frames \ {f} : wire'[g] = wire[g]
      BY <1>2 DEF StartTerminal, HandOver, TypeOK
    <2>5. WireInv'
      BY <2>1, <2>4 DEF CompletionInv, WireInv, Registered, TypeOK
    <2>6. AtMostOneTerminal'
      BY <2>3, <2>4 DEF CompletionInv, AtMostOneTerminal
    <2> QED
      BY <2>1, <2>5, <2>6 DEF TypeOK, Holding
  <1> QED
    BY <1>1, <1>2 DEF Locked

LEMMA EnterInv ==
    ASSUME TypeOK, CompletionInv, NEW c \in Tasks, NEW b \in Seq(Frames), b # <<>>,
           NEW a \in Outcomes, \A i \in DOMAIN b : Registered(b[i]),
           Enter(c, b, a), UNCHANGED handle
    PROVE  CompletionInv'
  <1>1. /\ Head(b) \in Frames /\ Registered(Head(b))
        /\ OutcomeFor(b, a) \in Outcomes
    BY TailOfBatch DEF OutcomeFor, Outcomes
  <1>2. batch' = [batch EXCEPT ![c] = b]
    BY DEF Enter
  <1>3. \A d \in Tasks : \A i \in DOMAIN batch'[d] : Registered(batch'[d][i])
    <2>1. batch'[c] = b /\ \A d \in Tasks \ {c} : batch'[d] = batch[d]
      BY <1>2 DEF TypeOK
    <2> QED
      BY <2>1 DEF CompletionInv, TaskInv
  <1>4. CASE Contended(c, Head(b))
    <2>1. pc' = [pc EXCEPT ![c] = "lock"] /\ UNCHANGED <<started, staged, wire>>
      BY <1>4 DEF Enter
    <2>2. WireInv' /\ AtMostOneTerminal'
      BY <2>1 DEF CompletionInv, WireInv, AtMostOneTerminal, Registered
    <2>3. TaskInv'
      BY <1>3, <2>1 DEF TypeOK, CompletionInv, TaskInv, Registered
    <2>4. OneCompleter'
      BY <1>2, <2>1 DEF TypeOK, CompletionInv, OneCompleter, Holding
    <2> QED
      BY <2>2, <2>3, <2>4 DEF CompletionInv
  <1>5. CASE ~Contended(c, Head(b))
    <2>1. Locked(c, Head(b), OutcomeFor(b, a))
      BY <1>5 DEF Enter
    <2>2. /\ WireInv' /\ AtMostOneTerminal'
          /\ pc'[c] \in Holding
          /\ \A d \in Tasks \ {c} : pc'[d] = pc[d]
      BY <1>1, <2>1, LockedInv
    <2>3. TaskInv'
      BY <1>3, <2>2, TasksType DEF CompletionInv, TaskInv, Registered, Holding
    <2>4. \A d \in Tasks \ {c} : pc[d] \in Holding => Head(batch[d]) # Head(b)
      BY <1>5 DEF Contended, Holding, TypeOK
    <2>5. OneCompleter'
      BY <1>2, <2>2, <2>4 DEF TypeOK, CompletionInv, OneCompleter
    <2> QED
      BY <2>2, <2>3, <2>5 DEF CompletionInv
  <1> QED
    BY <1>4, <1>5

LEMMA FinishInv ==
    ASSUME TypeOK, CompletionInv, NEW c \in Tasks, Finish(c), UNCHANGED handle
    PROVE  CompletionInv'
  <1>1. /\ pc' = [pc EXCEPT ![c] = "idle"] /\ batch' = [batch EXCEPT ![c] = <<>>]
        /\ UNCHANGED <<started, wire>>
    BY DEF Finish
  <1>2. TaskInv'
    BY <1>1 DEF TypeOK, CompletionInv, TaskInv, Registered
  <1>3. WireInv' /\ AtMostOneTerminal'
    BY <1>1 DEF CompletionInv, WireInv, AtMostOneTerminal, Registered
  <1>4. OneCompleter'
    BY <1>1 DEF TypeOK, CompletionInv, OneCompleter, Holding
  <1> QED
    BY <1>2, <1>3, <1>4 DEF CompletionInv

LEMMA ProceedInv ==
    ASSUME TypeOK, CompletionInv, NEW c \in Tasks, batch[c] # <<>>, Proceed(c), UNCHANGED handle
    PROVE  CompletionInv'
  <1>1. Tail(batch[c]) \in Seq(Frames) /\ answer[c] \in Outcomes
    BY TailOfBatch DEF TypeOK
  <1>2. \A i \in DOMAIN Tail(batch[c]) : Registered(Tail(batch[c])[i])
    BY TailOfBatch DEF TypeOK, CompletionInv, TaskInv
  <1>3. CASE Finish(c)
    BY <1>3, FinishInv
  <1>4. CASE Tail(batch[c]) # <<>> /\ Enter(c, Tail(batch[c]), answer[c])
    BY <1>1, <1>2, <1>4, EnterInv
  <1> QED
    BY <1>3, <1>4 DEF Proceed

\* The batch a completion starts with consists of registered turns.
LEMMA LiveBatchRegistered ==
    ASSUME TypeOK, IndexInv, NEW b \in LiveBatches
    PROVE  /\ b \in Seq(Frames) /\ b # <<>>
           /\ \A i \in DOMAIN b : Registered(b[i])
  BY LiveBatchesType, LiveIsRegistered DEF Registered

LEMMA InterruptInv ==
    ASSUME TypeOK, IndexInv, CompletionInv, NEW c \in Tasks, Interrupt(c), UNCHANGED handle
    PROVE  CompletionInv'
  <1>1. CASE Finish(c)
    BY <1>1, FinishInv
  <1>2. CASE /\ c \in Sessions /\ RequestBatch(c) # <<>>
             /\ Enter(c, RequestBatch(c), "no_reply")
    BY <1>2, BatchesAreLive, LiveBatchRegistered, EnterInv DEF Outcomes
  <1> QED
    BY <1>1, <1>2 DEF Interrupt

LEMMA UnregisterInv ==
    ASSUME TypeOK, IndexInv, NEW f \in Frames, Unregister(f), UNCHANGED handle
    PROVE  IndexInv'
  BY ConstantsAssumption DEF TypeOK, IndexInv, Unregister

LEMMA FrameTerminalStep ==
    ASSUME TypeOK, IndexInv, CompletionInv, NEW f \in Frames,
           \/ HandleMoves(f) \/ Register(f) \/ HandleReturns(f)
           \/ RouteEnds(f) \/ RouteFails(f)
    PROVE  IndexInv' /\ CompletionInv'
  <1> USE TasksType
  <1>1. CASE handle[f] = "new" /\ Refuse(f)
    <2>1. /\ handle' = [handle EXCEPT ![f] = "refusing"]
          /\ UNCHANGED <<byTurn, started, pc, batch>>
      BY <1>1 DEF Refuse, indexVars, taskVars
    <2>2. wire[f] = <<>>
      BY <1>1 DEF CompletionInv, WireInv, Registered, TypeOK
    <2>3. Len(wire'[f]) <= 1 /\ \A g \in Frames \ {f} : wire'[g] = wire[g]
      BY <1>1, <2>2 DEF Refuse, HandOver, TypeOK
    <2>4. IndexInv'
      BY <1>1, <2>1 DEF IndexInv, TypeOK
    <2>5. TaskInv' /\ OneCompleter'
      BY <1>1, <2>1 DEF CompletionInv, TaskInv, OneCompleter, Registered, TypeOK
    <2>6. WireInv'
      BY <1>1, <2>1, <2>3 DEF CompletionInv, WireInv, Registered, TypeOK
    <2>7. AtMostOneTerminal'
      BY <2>3 DEF CompletionInv, AtMostOneTerminal
    <2> QED
      BY <2>4, <2>5, <2>6, <2>7 DEF CompletionInv
  <1>2. CASE \/ handle[f] = "new" /\ handle' = [handle EXCEPT ![f] = "ignored"]
             \/ handle[f] = "refusing" /\ handle' = [handle EXCEPT ![f] = "refused"]
    <2>1. UNCHANGED <<byTurn, started, wire, pc, batch>>
      BY <1>2 DEF HandleMoves, Refuse, IgnoreDuplicate, RefusalEnds, Register, HandleReturns,
                  RouteEnds, RouteFails, roundVars, indexVars, turnVars, taskVars, TypeOK
    <2>2. IndexInv'
      BY <1>2, <2>1 DEF IndexInv, TypeOK
    <2>3. TaskInv'
      <3>1. \A g \in Frames : Registered(g) => Registered(g)'
        BY <1>2 DEF Registered, TypeOK
      <3> QED
        BY <2>1, <3>1 DEF CompletionInv, TaskInv, TypeOK
    <2>4. OneCompleter'
      BY <2>1 DEF CompletionInv, OneCompleter
    <2>5. WireInv' /\ AtMostOneTerminal'
      BY <1>2, <2>1 DEF CompletionInv, WireInv, AtMostOneTerminal, Registered, TypeOK
    <2> QED
      BY <2>2, <2>3, <2>4, <2>5 DEF CompletionInv
  <1>3. CASE Register(f)
    <2>1. /\ handle[f] = "new" /\ handle' = [handle EXCEPT ![f] = "waiting"]
          /\ pc' = [pc EXCEPT ![f] = "route"]
          /\ byTurn' = [byTurn EXCEPT ![TurnOf[f]] = f]
          /\ UNCHANGED <<started, wire, batch>>
      BY <1>3 DEF Register, Arrives, turnVars
    <2>2. IndexInv'
      BY <2>1, ConstantsAssumption DEF IndexInv, TypeOK
    <2>3. TaskInv'
      BY <2>1 DEF CompletionInv, TaskInv, Registered, TypeOK
    <2>4. WireInv' /\ AtMostOneTerminal'
      BY <2>1 DEF CompletionInv, WireInv, AtMostOneTerminal, Registered, TypeOK
    <2>5. OneCompleter'
      BY <2>1 DEF CompletionInv, OneCompleter, TypeOK, Holding
    <2> QED
      BY <2>2, <2>3, <2>4, <2>5 DEF CompletionInv
  <1>4. CASE HandleReturns(f)
    <2>1. /\ handle[f] = "waiting" /\ handle' = [handle EXCEPT ![f] = "returned"]
          /\ byTurn' = [byTurn EXCEPT ![TurnOf[f]] = None]
          /\ UNCHANGED <<started, wire, pc, batch>>
      BY <1>4 DEF HandleReturns, Unregister, turnVars, taskVars
    <2>2. IndexInv'
      BY <2>1, ConstantsAssumption DEF IndexInv, TypeOK
    <2>3. TaskInv' /\ OneCompleter'
      BY <2>1, SMTT(30) DEF CompletionInv, TaskInv, OneCompleter, Registered, TypeOK
    <2>4. WireInv' /\ AtMostOneTerminal'
      BY <2>1 DEF CompletionInv, WireInv, AtMostOneTerminal, Registered, TypeOK
    <2> QED
      BY <2>2, <2>3, <2>4 DEF CompletionInv
  <1>5. CASE RouteEnds(f)
    <2>1. Finish(f) /\ UNCHANGED handle /\ UNCHANGED byTurn
      BY <1>5 DEF RouteEnds, indexVars, roundVars
    <2> QED
      BY <2>1, FinishInv DEF IndexInv
  <1>6. CASE RouteFails(f)
    <2>1. Enter(f, <<f>>, "no_reply") /\ UNCHANGED handle /\ UNCHANGED byTurn
      BY <1>6 DEF RouteFails, indexVars, roundVars
    <2>2. <<f>> \in Seq(Frames) /\ <<f>> # <<>> /\ "no_reply" \in Outcomes
      BY DEF Outcomes
    <2>3. \A i \in DOMAIN <<f>> : Registered(<<f>>[i])
      BY <1>6 DEF RouteFails, CompletionInv, TaskInv
    <2> QED
      BY <2>1, <2>2, <2>3, EnterInv DEF IndexInv
  <1> QED
    BY <1>1, <1>2, <1>3, <1>4, <1>5, <1>6 DEF HandleMoves, IgnoreDuplicate, RefusalEnds, Arrives

LEMMA RoundTerminalStep ==
    ASSUME TypeOK, IndexInv, CompletionInv, NEW s \in Sessions, RoundMoves(s)
    PROVE  IndexInv' /\ CompletionInv'
  <1> USE TasksType
  <1>1. CASE RoundEnds(s)
    <2>1. Finish(s) /\ UNCHANGED handle /\ UNCHANGED byTurn
      BY <1>1 DEF RoundEnds, indexVars, roundVars
    <2> QED
      BY <2>1, FinishInv DEF IndexInv
  <1>2. CASE StageEmoji(s)
    BY <1>2 DEF StageEmoji, indexVars, taskVars, roundVars, IndexInv, CompletionInv,
                TaskInv, WireInv, AtMostOneTerminal, OneCompleter, Registered
  <1>3. ASSUME NEW await \in {"emoji", "compose", "asked"}, pc' = [pc EXCEPT ![s] = await],
               UNCHANGED <<byTurn, handle, batch, started, wire>>
        PROVE  IndexInv' /\ CompletionInv'
    <2>1. TaskInv' /\ OneCompleter'
      BY <1>3 DEF CompletionInv, TaskInv, OneCompleter, Registered, TypeOK, Holding
    <2>2. IndexInv' /\ WireInv' /\ AtMostOneTerminal'
      BY <1>3 DEF IndexInv, CompletionInv, WireInv, AtMostOneTerminal, Registered
    <2> QED
      BY <2>1, <2>2 DEF CompletionInv
  <1>4. ASSUME NEW await \in {"emoji", "compose"}, RoundWaits(s, await)
        PROVE  IndexInv' /\ CompletionInv'
    BY <1>3, <1>4 DEF RoundWaits, turnVars, indexVars, roundVars
  <1>5. ASSUME NEW phase \in {"timing_gate", "planner"}, BeforeRequest(s, phase)
        PROVE  IndexInv' /\ CompletionInv'
    BY <1>3, <1>5 DEF BeforeRequest, turnVars
  <1> QED
    BY <1>1, <1>2, <1>4, <1>5 DEF RoundMoves

LEMMA TaskTerminalStep ==
    ASSUME TypeOK, IndexInv, CompletionInv, NEW c \in Tasks, TaskMoves(c)
    PROVE  IndexInv' /\ CompletionInv'
  <1> USE TasksType
  <1>1. CASE Acquire(c)
    <2>1. /\ batch[c] # <<>> /\ Head(batch[c]) \in Frames /\ Registered(Head(batch[c]))
          /\ OutcomeFor(batch[c], answer[c]) \in Outcomes
      BY <1>1, TailOfBatch DEF TypeOK, Acquire, CompletionInv, TaskInv, OutcomeFor, Outcomes
    <2>2. /\ Locked(c, Head(batch[c]), OutcomeFor(batch[c], answer[c]))
          /\ UNCHANGED <<byTurn, handle, batch>>
      BY <1>1 DEF Acquire, indexVars, roundVars
    <2>3. /\ WireInv' /\ AtMostOneTerminal'
          /\ pc'[c] \in Holding
          /\ \A d \in Tasks \ {c} : pc'[d] = pc[d]
      BY <2>1, <2>2, LockedInv
    <2>4. \A d \in Tasks : pc[d] \in Holding => Head(batch[d]) # Head(batch[c])
      BY <1>1 DEF Acquire
    <2>5. OneCompleter'
      BY <2>2, <2>3, <2>4 DEF CompletionInv, OneCompleter
    <2>6. TaskInv'
      BY <2>2, <2>3 DEF CompletionInv, TaskInv, Registered, Holding
    <2> QED
      BY <2>2, <2>3, <2>5, <2>6 DEF CompletionInv, IndexInv
  <1>2. CASE JoinEnds(c)
    <2>1. Proceed(c) /\ batch[c] # <<>> /\ UNCHANGED handle /\ UNCHANGED byTurn
      BY <1>2 DEF JoinEnds, indexVars, roundVars, TypeOK
    <2> QED
      BY <2>1, ProceedInv DEF IndexInv
  <1>3. CASE Interruption(c)
    <2>1. Interrupt(c) /\ UNCHANGED handle /\ UNCHANGED byTurn
      BY <1>3 DEF Interruption, indexVars, roundVars
    <2> QED
      BY <2>1, InterruptInv DEF IndexInv
  <1>4. ASSUME NEW result \in {"answered", "failed"}, SendEnds(c, result)
        PROVE  IndexInv' /\ CompletionInv'
    <2>1. /\ Proceed(c) /\ batch[c] # <<>> /\ UNCHANGED handle
          /\ Unregister(Head(batch[c])) /\ Head(batch[c]) \in Frames
      BY <1>4, TailOfBatch DEF SendEnds, roundVars, TypeOK
    <2> QED
      BY <2>1, ProceedInv, UnregisterInv
  <1>5. ASSUME NEW s \in Sessions, NEW a \in Outcomes, Complete(c, s, a)
        PROVE  IndexInv' /\ CompletionInv'
    <2>1. /\ RequestBatch(s) \in LiveBatches /\ Enter(c, RequestBatch(s), a)
          /\ UNCHANGED handle /\ UNCHANGED byTurn
      BY <1>5, BatchesAreLive DEF Complete, indexVars, roundVars
    <2> QED
      BY <2>1, LiveBatchRegistered, EnterInv DEF IndexInv
  <1> QED
    BY <1>1, <1>2, <1>3, <1>4, <1>5 DEF TaskMoves

LEMMA TerminalStep ==
    ASSUME TypeOK, TerminalInv, [Next]_vars
    PROVE  TerminalInv'
  <1>1. IndexInv /\ CompletionInv
    BY DEF TerminalInv, CompletionInv
  <1>2. SUFFICES IndexInv' /\ CompletionInv'
    BY DEF TerminalInv, CompletionInv
  <1>3. CASE Teardown
    <2>1. /\ byTurn' = [t \in Turns |-> None]
          /\ handle' = [f \in Frames |-> IF handle[f] = "refusing" THEN "refused" ELSE handle[f]]
          /\ pc' = [c \in Tasks |-> IF c \in Frames THEN "idle" ELSE pc[c]]
          /\ batch' = [c \in Tasks |-> IF c \in Frames THEN <<>> ELSE batch[c]]
          /\ UNCHANGED <<started, wire>>
      BY <1>3 DEF Teardown, turnVars
    <2>2. TaskInv'
      BY <1>1, <2>1, TasksType DEF CompletionInv, TaskInv, Registered, TypeOK
    <2>3. WireInv' /\ AtMostOneTerminal'
      BY <1>1, <2>1 DEF CompletionInv, WireInv, AtMostOneTerminal, Registered, TypeOK
    <2>4. OneCompleter'
      BY <1>1, <2>1 DEF CompletionInv, OneCompleter, Holding
    <2>5. IndexInv'
      BY <2>1 DEF IndexInv
    <2> QED
      BY <2>2, <2>3, <2>4, <2>5 DEF CompletionInv
  <1>4. CASE UNCHANGED <<byTurn, handle, pc, batch, started, wire>>
    BY <1>1, <1>4 DEF IndexInv, CompletionInv, TaskInv, WireInv, AtMostOneTerminal,
                      OneCompleter, Registered
  <1>5. CASE LinkMoves \/ UNCHANGED vars
    BY <1>4, <1>5 DEF LinkMoves, TransportStops, Redial, turnVars, indexVars, taskVars, vars
  <1> QED
    BY <1>1, <1>3, <1>5, StepKinds, FrameTerminalStep, RoundTerminalStep, TaskTerminalStep

LEMMA TerminalInit == Init => TerminalInv
  <1> SUFFICES ASSUME Init PROVE TerminalInv
    OBVIOUS
  <1>1. IndexInv
    BY DEF Init, IndexInv
  <1>2. TaskInv
    BY TasksType DEF Init, TaskInv
  <1>3. WireInv /\ AtMostOneTerminal
    BY DEF Init, WireInv, AtMostOneTerminal
  <1>4. OneCompleter
    BY DEF Init, OneCompleter, Holding
  <1> QED
    BY <1>1, <1>2, <1>3, <1>4 DEF TerminalInv

\* The invariant the next two theorems are read off from.
THEOREM TerminalInvariant == Spec => []TerminalInv
  <1>1. Init => TypeOK /\ TerminalInv
    BY TypeInit, TerminalInit
  <1>2. TypeOK /\ TerminalInv /\ [Next]_vars => (TypeOK /\ TerminalInv)'
    BY TypeStep, TerminalStep
  <1> QED
    BY <1>1, <1>2, PTL DEF Spec

\* The game never gets a second terminal frame for a turn request.
THEOREM OneTerminalPerRequest == Spec => []AtMostOneTerminal
  <1>1. TerminalInv => AtMostOneTerminal
    BY DEF TerminalInv
  <1> QED
    BY <1>1, TerminalInvariant, PTL

\* No two coroutines are ever inside the terminal section of one turn.
THEOREM TerminalSectionsExclude == Spec => []OneCompleter
  <1>1. TerminalInv => OneCompleter
    BY DEF TerminalInv
  <1> QED
    BY <1>1, TerminalInvariant, PTL

----------------------------------------------------------------------------
(* Leases.                                                                 *)

\* _unregister_pending leaves no stale lease behind, whatever it popped.
LEMMA UnregisterDropsStale ==
    ASSUME TypeOK, NEW f \in Frames, Unregister(f)
    PROVE  LeaseNeverStale'
  <1>1. lease' = WithoutStale(byTurn')
    BY DEF Unregister
  <1>2. ASSUME NEW s \in Sessions, lease'[s] # NoLease
        PROVE  \E i \in DOMAIN lease'[s].turns : byTurn'[lease'[s].turns[i]] # None
    BY <1>1, <1>2 DEF WithoutStale
  <1> QED
    BY <1>2 DEF LeaseNeverStale

LEMMA LeaseStep ==
    ASSUME TypeOK, LeaseNeverStale, [Next]_vars
    PROVE  LeaseNeverStale'
  <1> USE TasksType
  <1>1. CASE UNCHANGED <<byTurn, lease>>
    BY <1>1 DEF LeaseNeverStale
  <1>2. ASSUME NEW f \in Frames, HandleMoves(f) \/ RouteEnds(f) \/ RouteFails(f)
        PROVE  LeaseNeverStale'
    BY <1>1, <1>2 DEF HandleMoves, Refuse, IgnoreDuplicate, RefusalEnds, RouteEnds,
                      RouteFails, indexVars
  <1>3. ASSUME NEW f \in Frames, HandleReturns(f)
        PROVE  LeaseNeverStale'
    BY <1>3, UnregisterDropsStale DEF HandleReturns
  <1>4. ASSUME NEW f \in Frames, Register(f)
        PROVE  LeaseNeverStale'
    <2>1. \A t \in Turns : byTurn[t] # None => byTurn'[t] = byTurn[t]
      BY <1>4 DEF Register, TypeOK
    <2>2. \A s \in Sessions : \A i \in DOMAIN lease[s].turns : lease[s].turns[i] \in Turns
      BY DEF TypeOK, Leases
    <2>3. UNCHANGED lease
      BY <1>4 DEF Register
    <2> QED
      BY <2>1, <2>2, <2>3 DEF LeaseNeverStale
  <1>5. ASSUME NEW s \in Sessions, NEW phase \in {"timing_gate", "planner"}, BeforeRequest(s, phase)
        PROVE  LeaseNeverStale'
    <2>1. CASE ~HasPending(s)
      BY <1>1, <1>5, <2>1 DEF BeforeRequest
    <2>2. CASE HasPending(s)
      <3> DEFINE new == [phase |-> phase, turns |-> TurnIds(PendingBatch(s))]
      <3>1. /\ PendingBatch(s) \in Seq(Frames) /\ PendingBatch(s) # <<>>
            /\ \A i \in DOMAIN PendingBatch(s) : PendingBatch(s)[i] \in Frames /\ IsLive(PendingBatch(s)[i])
        BY <2>2, BatchesAreLive, LiveBatchesType DEF HasPending
      <3>2. 1 \in DOMAIN PendingBatch(s)
        BY <3>1
      <3>3. IsLive(PendingBatch(s)[1]) /\ PendingBatch(s)[1] # None
        BY <3>1, <3>2, ConstantsAssumption
      <3>4. 1 \in DOMAIN new.turns /\ new.turns[1] = TurnOf[PendingBatch(s)[1]]
        BY <3>2 DEF TurnIds
      <3>5. byTurn[new.turns[1]] # None
        BY <3>3, <3>4 DEF IsLive
      <3>6. lease' = [lease EXCEPT ![s] = new] /\ UNCHANGED byTurn
        BY <1>5, <2>2 DEF BeforeRequest
      <3> HIDE DEF new
      <3>7. lease'[s] = new /\ \A r \in Sessions \ {s} : lease'[r] = lease[r]
        BY <3>6 DEF TypeOK
      <3> QED
        BY <3>4, <3>5, <3>6, <3>7 DEF LeaseNeverStale
    <2> QED
      BY <2>1, <2>2
  <1>6. ASSUME NEW s \in Sessions,
               RoundEnds(s) \/ StageEmoji(s) \/ \E await \in {"emoji", "compose"} : RoundWaits(s, await)
        PROVE  LeaseNeverStale'
    BY <1>1, <1>6 DEF RoundEnds, StageEmoji, RoundWaits, indexVars
  <1>7. ASSUME NEW c \in Tasks, NEW result \in {"answered", "failed"}, SendEnds(c, result)
        PROVE  LeaseNeverStale'
    <2>1. Head(batch[c]) \in Frames
      BY <1>7, TailOfBatch DEF TypeOK, SendEnds
    <2> QED
      BY <1>7, <2>1, UnregisterDropsStale DEF SendEnds
  <1>8. ASSUME NEW c \in Tasks,
               \/ Acquire(c) \/ JoinEnds(c) \/ Interruption(c)
               \/ \E s \in Sessions, a \in Outcomes : Complete(c, s, a)
        PROVE  LeaseNeverStale'
    BY <1>1, <1>8 DEF Acquire, JoinEnds, Interruption, Complete, indexVars
  <1>9. CASE Teardown
    BY <1>9 DEF Teardown, LeaseNeverStale
  <1>10. CASE LinkMoves \/ UNCHANGED vars
    BY <1>1, <1>10 DEF LinkMoves, TransportStops, Redial, indexVars, vars
  <1> QED
    BY <1>2, <1>3, <1>4, <1>5, <1>6, <1>7, <1>8, <1>9, <1>10, StepKinds
       DEF RoundMoves, TaskMoves

\* A lease always has a turn that is still registered.
THEOREM LeasesAreLive == Spec => []LeaseNeverStale
  <1>1. Init => LeaseNeverStale
    BY DEF Init, LeaseNeverStale
  <1>2. TypeOK /\ LeaseNeverStale /\ [Next]_vars => LeaseNeverStale'
    BY LeaseStep
  <1> QED
    BY <1>1, <1>2, TypeCorrect, PTL DEF Spec

----------------------------------------------------------------------------
(* Teardown.                                                               *)

\* Settling, cancelling and unregistering never reopen a future.
LEMMA TeardownStep ==
    ASSUME TypeOK, TeardownReleasesAll, [Next]_vars
    PROVE  TeardownReleasesAll'
  <1> USE TasksType
  <1>1. ASSUME UNCHANGED <<link, late>>,
               \A f \in Frames : handle'[f] = "waiting" => handle[f] = "waiting",
               \A f \in Frames : future'[f] = "open" => future[f] = "open"
        PROVE  TeardownReleasesAll'
    BY <1>1 DEF TeardownReleasesAll
  <1>2. ASSUME NEW f \in Frames, Register(f)
        PROVE  TeardownReleasesAll'
    <2>1. /\ link \in {"up", "draining"} /\ UNCHANGED <<link, future>>
          /\ late' = IF link = "draining" THEN late \cup {f} ELSE late
          /\ \A g \in Frames \ {f} : handle'[g] = handle[g]
      BY <1>2 DEF Register, Arrives, TypeOK
    <2> QED
      BY <2>1 DEF TeardownReleasesAll
  <1>3. ASSUME NEW f \in Frames,
               HandleMoves(f) \/ HandleReturns(f) \/ RouteEnds(f) \/ RouteFails(f)
        PROVE  TeardownReleasesAll'
    <2>1. UNCHANGED <<link, late, future>>
      BY <1>3 DEF HandleMoves, Refuse, IgnoreDuplicate, RefusalEnds, HandleReturns,
                  RouteEnds, RouteFails, roundVars
    <2>2. \A g \in Frames : handle'[g] = "waiting" => handle[g] = "waiting"
      BY <1>3 DEF HandleMoves, Refuse, IgnoreDuplicate, RefusalEnds, HandleReturns,
                  RouteEnds, RouteFails, roundVars, TypeOK
    <2> QED
      BY <1>1, <2>1, <2>2
  <1>4. ASSUME NEW s \in Sessions, RoundMoves(s)
        PROVE  TeardownReleasesAll'
    <2>1. UNCHANGED <<link, late, future, handle>>
      BY <1>4 DEF RoundMoves, RoundEnds, StageEmoji, RoundWaits, BeforeRequest, roundVars
    <2> QED
      BY <1>1, <2>1
  <1>5. ASSUME NEW c \in Tasks, TaskMoves(c)
        PROVE  TeardownReleasesAll'
    <2>1. UNCHANGED <<link, late, handle>>
      BY <1>5 DEF TaskMoves, Acquire, JoinEnds, Interruption, SendEnds, Complete, roundVars
    <2>2. ASSUME NEW f \in Frames, future'[f] = "open"
          PROVE  future[f] = "open"
      <3>1. \A g, r : future' = [future EXCEPT ![g] = IF @ = "open" THEN r ELSE @] /\ r # "open"
                      => future[f] = "open"
        BY <2>2 DEF TypeOK
      <3>2. CASE Interruption(c)
        BY <2>2, <3>1, <3>2 DEF Interruption
      <3>3. ASSUME NEW result \in {"answered", "failed"}, SendEnds(c, result)
            PROVE  future[f] = "open"
        BY <3>1, <3>3 DEF SendEnds, Settle
      <3>4. CASE Acquire(c) \/ JoinEnds(c) \/ \E s \in Sessions, a \in Outcomes : Complete(c, s, a)
        BY <2>2, <3>4 DEF Acquire, JoinEnds, Complete
      <3> QED
        BY <1>5, <3>2, <3>3, <3>4 DEF TaskMoves
    <2> QED
      BY <1>1, <2>1, <2>2
  <1>6. CASE Teardown
    BY <1>6 DEF Teardown, Closed, TeardownReleasesAll, TypeOK
  <1>7. CASE LinkMoves
    BY <1>7 DEF LinkMoves, TransportStops, Redial, TeardownReleasesAll
  <1>8. CASE UNCHANGED vars
    BY <1>8 DEF vars, TeardownReleasesAll
  <1> QED
    BY <1>2, <1>3, <1>4, <1>5, <1>6, <1>7, <1>8, StepKinds

\* Once the connection is gone, no request that came before the teardown is
\* left waiting, whatever the hooks that were under way do afterwards.
THEOREM TeardownReleases == Spec => []TeardownReleasesAll
  <1>1. Init => TeardownReleasesAll
    BY DEF Init, TeardownReleasesAll
  <1>2. TypeOK /\ TeardownReleasesAll /\ [Next]_vars => TeardownReleasesAll'
    BY TeardownStep
  <1> QED
    BY <1>1, <1>2, TypeCorrect, PTL DEF Spec

----------------------------------------------------------------------------
(* What the ledger needs to know of a state: the future of a frame nobody  *)
(* has taken up is open, and an answer was handed over before the future   *)
(* said so.                                                                *)

LedgerInv == \A f \in Frames :
    /\ handle[f] = "new" => future[f] = "open"
    /\ future[f] = "answered" => wire[f] # <<>>

\* How a step may settle a turn that was taken up.
Settled(f) ==
    \/ future'[f] = future[f]
    \/ /\ Registered(f) /\ future[f] = "open"
       /\ \/ future'[f] \in {"failed", "cancelled"}
          \/ future'[f] = "answered" /\ wire[f] # <<>>

\* How a step may tell the game of a turn that was taken up.
Told(f) ==
    \/ wire'[f] = wire[f]
    \/ Registered(f) /\ wire[f] = <<>> /\ \E o \in Outcomes : wire'[f] = <<o>>

LineInv == TypeOK /\ TerminalInv /\ LedgerInv

\* A completion that enters the terminal section of a turn tells of it once.
LEMMA LockedTells ==
    ASSUME TypeOK, WireInv, NEW c \in Tasks, NEW f \in Frames, NEW o \in Outcomes,
           Registered(f), Locked(c, f, o)
    PROVE  \A g \in Frames : Told(g)
  <1>1. CASE UNCHANGED wire
    BY <1>1 DEF Told
  <1>2. CASE ~started[f] /\ StartTerminal(c, f, o)
    <2>1. wire[f] = <<>>
      BY <1>2 DEF WireInv, Registered, TypeOK
    <2>2. wire'[f] \in {wire[f], <<o>>}
      BY <1>2, <2>1 DEF StartTerminal, HandOver, TypeOK
    <2>3. \A g \in Frames \ {f} : wire'[g] = wire[g]
      BY <1>2 DEF StartTerminal, HandOver, TypeOK
    <2> QED
      BY <2>1, <2>2, <2>3 DEF Told
  <1> QED
    BY <1>1, <1>2 DEF Locked

LEMMA EnterTells ==
    ASSUME TypeOK, WireInv, NEW c \in Tasks, NEW b \in Seq(Frames), b # <<>>,
           NEW a \in Outcomes, \A i \in DOMAIN b : Registered(b[i]), Enter(c, b, a)
    PROVE  \A g \in Frames : Told(g)
  <1>1. /\ Head(b) \in Frames /\ Registered(Head(b))
        /\ OutcomeFor(b, a) \in Outcomes
    BY TailOfBatch DEF OutcomeFor, Outcomes
  <1> QED
    BY <1>1, LockedTells DEF Enter, Told

LEMMA ProceedTells ==
    ASSUME TypeOK, TaskInv, WireInv, NEW c \in Tasks, batch[c] # <<>>, Proceed(c)
    PROVE  \A g \in Frames : Told(g)
  <1>1. Tail(batch[c]) \in Seq(Frames) /\ answer[c] \in Outcomes
    BY TailOfBatch DEF TypeOK
  <1>2. \A i \in DOMAIN Tail(batch[c]) : Registered(Tail(batch[c])[i])
    BY TailOfBatch DEF TypeOK, TaskInv
  <1>3. CASE Finish(c)
    BY <1>3 DEF Finish, Told
  <1>4. CASE Tail(batch[c]) # <<>> /\ Enter(c, Tail(batch[c]), answer[c])
    BY <1>1, <1>2, <1>4, EnterTells
  <1> QED
    BY <1>3, <1>4 DEF Proceed

LEMMA InterruptTells ==
    ASSUME TypeOK, TaskInv, WireInv, IndexInv, NEW c \in Tasks, Interrupt(c)
    PROVE  \A g \in Frames : Told(g)
  <1>1. CASE Finish(c)
    BY <1>1 DEF Finish, Told
  <1>2. CASE /\ c \in Sessions /\ RequestBatch(c) # <<>>
             /\ Enter(c, RequestBatch(c), "no_reply")
    BY <1>2, BatchesAreLive, LiveBatchRegistered, EnterTells DEF Outcomes
  <1> QED
    BY <1>1, <1>2 DEF Interrupt

\* Every completion settles and tells, and never takes up or declines a request.
LEMMA TaskSettlesAndTells ==
    ASSUME LineInv, NEW c \in Tasks, TaskMoves(c)
    PROVE  UNCHANGED handle /\ \A f \in Frames : Settled(f) /\ Told(f)
  <1> USE TasksType DEF LineInv
  <1>1. TypeOK /\ IndexInv /\ TaskInv /\ WireInv
    BY DEF TerminalInv
  <1>2. UNCHANGED handle
    BY DEF TaskMoves, Acquire, JoinEnds, Interruption, SendEnds, Complete, roundVars
  <1>3. CASE Acquire(c)
    <2>1. /\ batch[c] # <<>> /\ Head(batch[c]) \in Frames /\ Registered(Head(batch[c]))
          /\ OutcomeFor(batch[c], answer[c]) \in Outcomes
      BY <1>1, <1>3, TailOfBatch DEF TypeOK, Acquire, TaskInv, OutcomeFor, Outcomes
    <2> QED
      BY <1>1, <1>2, <1>3, <2>1, LockedTells DEF Acquire, Settled
  <1>4. CASE JoinEnds(c)
    <2>1. batch[c] # <<>>
      BY <1>1, <1>4 DEF TypeOK, JoinEnds
    <2> QED
      BY <1>1, <1>2, <1>4, <2>1, ProceedTells DEF JoinEnds, Settled
  <1>5. CASE Interruption(c)
    <2>1. \A f \in Frames : Told(f)
      BY <1>1, <1>5, InterruptTells DEF Interruption
    <2>2. ASSUME NEW f \in Frames PROVE Settled(f)
      <3>1. CASE UNCHANGED future
        BY <3>1 DEF Settled
      <3>2. CASE /\ pc[c] = "join"
                 /\ future' = [future EXCEPT ![Head(batch[c])] = IF @ = "open" THEN "cancelled" ELSE @]
        <4>1. Head(batch[c]) \in Frames /\ Registered(Head(batch[c]))
          BY <1>1, <3>2, TailOfBatch DEF TypeOK, TaskInv
        <4> QED
          BY <1>1, <3>2, <4>1 DEF TypeOK, Settled
      <3> QED
        BY <1>5, <3>1, <3>2 DEF Interruption
    <2> QED
      BY <1>2, <2>1, <2>2
  <1>6. ASSUME NEW result \in {"answered", "failed"}, SendEnds(c, result)
        PROVE  \A f \in Frames : Settled(f) /\ Told(f)
    <2>1. batch[c] # <<>> /\ Head(batch[c]) \in Frames /\ Registered(Head(batch[c]))
      BY <1>1, <1>6, TailOfBatch DEF TypeOK, SendEnds, TaskInv
    <2>2. \A f \in Frames : Told(f)
      BY <1>1, <1>6, <2>1, ProceedTells DEF SendEnds
    <2>3. \A f \in Frames : Settled(f)
      BY <1>1, <1>6, <2>1 DEF SendEnds, Settle, Settled, TypeOK
    <2> QED
      BY <2>2, <2>3
  <1>7. ASSUME NEW s \in Sessions, NEW a \in Outcomes, Complete(c, s, a)
        PROVE  \A f \in Frames : Settled(f) /\ Told(f)
    BY <1>1, <1>7, BatchesAreLive, LiveBatchRegistered, EnterTells DEF Complete, Settled
  <1> QED
    BY <1>2, <1>3, <1>4, <1>5, <1>6, <1>7 DEF TaskMoves

\* A step that only settles and tells writes lines the ledger allows.
LEMMA LinesKept ==
    ASSUME LineInv, LineInv', UNCHANGED handle, \A f \in Frames : Settled(f) /\ Told(f)
    PROVE  Ledger!Next
  <1> SUFFICES ASSUME NEW f \in Frames PROVE Ledger!Settle(f) /\ Ledger!Tell(f)
    BY DEF Ledger!Next
  <1> USE DEF LineInv, Ledger!Settle, Ledger!Tell, Ledger!Outcomes, Outcomes
  <1>1. handle'[f] = handle[f] /\ (Registered(f) => handle[f] \in {"waiting", "returned"})
    BY DEF Registered
  <1>2. /\ future[f] \in {"open", "answered", "failed", "cancelled"}
        /\ handle[f] \in {"new", "ignored", "refusing", "refused", "waiting", "returned"}
    BY DEF TypeOK
  <1>3. Ledger!Settle(f)
    BY <1>1, <1>2 DEF Settled, RequestState
  <1>4. Ledger!Tell(f)
    <2>1. CASE wire'[f] = wire[f]
      BY <2>1
    <2>2. CASE Registered(f) /\ wire[f] = <<>> /\ \E o \in Outcomes : wire'[f] = <<o>>
      <3>1. future[f] # "answered"
        BY <2>2 DEF LedgerInv
      <3>2. RequestState(f) \in {"open", "failed"}
        BY <1>1, <1>2, <2>2, <3>1 DEF RequestState
      <3> QED
        BY <2>2, <3>2
    <2> QED
      BY <2>1, <2>2 DEF Told
  <1> QED
    BY <1>3, <1>4

\* The steps of a handle() and of its dispatch task.
LEMMA FrameKeepsLines ==
    ASSUME LineInv, LineInv', NEW f \in Frames,
           \/ HandleMoves(f) \/ Register(f) \/ HandleReturns(f)
           \/ RouteEnds(f) \/ RouteFails(f)
    PROVE  Ledger!Next
  <1> USE TasksType
  <1>1. TypeOK /\ IndexInv /\ TaskInv /\ WireInv /\ LedgerInv
    BY DEF LineInv, TerminalInv
  <1>2. CASE RouteEnds(f) \/ RouteFails(f)
    <2>1. UNCHANGED handle /\ UNCHANGED future
      BY <1>2 DEF RouteEnds, RouteFails, roundVars
    <2>2. CASE RouteEnds(f)
      BY <2>1, <2>2, LinesKept DEF RouteEnds, Finish, Settled, Told
    <2>3. CASE RouteFails(f)
      <3>1. /\ <<f>> \in Seq(Frames) /\ <<f>> # <<>> /\ "no_reply" \in Outcomes
            /\ \A i \in DOMAIN <<f>> : Registered(<<f>>[i])
        BY <1>1, <2>3 DEF Outcomes, RouteFails, TaskInv
      <3>2. \A g \in Frames : Told(g)
        BY <1>1, <2>3, <3>1, EnterTells DEF RouteFails
      <3> QED
        BY <2>1, <3>2, LinesKept DEF Settled
    <2> QED
      BY <1>2, <2>2, <2>3
  <1>3. ASSUME UNCHANGED future,
               \A g \in Frames \ {f} : handle'[g] = handle[g] /\ wire'[g] = wire[g],
               \/ /\ handle[f] = "new" /\ handle'[f] = "refusing"
                  /\ wire'[f] \in {wire[f], Append(wire[f], "no_reply")}
               \/ /\ wire'[f] = wire[f]
                  /\ <<handle[f], handle'[f]>> \in
                         {<<"new", "ignored">>, <<"refusing", "refused">>,
                          <<"new", "waiting">>, <<"waiting", "returned">>}
        PROVE  Ledger!Next
    <2> SUFFICES ASSUME NEW g \in Frames PROVE Ledger!Settle(g) /\ Ledger!Tell(g)
      BY DEF Ledger!Next
    <2>1. CASE g # f
      <3>1. RequestState(g)' = RequestState(g) /\ wire'[g] = wire[g]
        BY <1>3, <2>1 DEF RequestState
      <3> QED
        BY <3>1 DEF Ledger!Settle, Ledger!Tell
    <2>2. CASE g = f
      <3>1. handle[f] = "new" => future[f] = "open" /\ wire[f] = <<>>
        BY <1>1 DEF LedgerInv, WireInv, Registered, TypeOK
      <3>2. \/ RequestState(f)' = RequestState(f) /\ wire'[f] = wire[f]
            \/ /\ RequestState(f) = "new" /\ RequestState(f)' = "open"
               /\ wire'[f] = wire[f]
            \/ /\ RequestState(f) = "new" /\ RequestState(f)' = "declined"
               /\ wire[f] = <<>> /\ wire'[f] \in {<<>>, <<"no_reply">>}
        <4>1. Append(<<>>, "no_reply") = <<"no_reply">>
          OBVIOUS
        <4> QED
          BY <1>3, <3>1, <4>1 DEF RequestState
      <3> QED
        BY <2>2, <3>2 DEF Ledger!Settle, Ledger!Tell
    <2> QED
      BY <2>1, <2>2
  <1>4. CASE handle[f] = "new" /\ Refuse(f)
    <2>1. handle' = [handle EXCEPT ![f] = "refusing"] /\ UNCHANGED future
      BY <1>4 DEF Refuse
    <2>2. /\ wire'[f] \in {wire[f], Append(wire[f], "no_reply")}
          /\ \A g \in Frames \ {f} : wire'[g] = wire[g]
      BY <1>1, <1>4 DEF Refuse, HandOver, TypeOK
    <2> QED
      BY <1>1, <1>3, <1>4, <2>1, <2>2 DEF TypeOK
  <1>5. CASE IgnoreDuplicate(f) \/ RefusalEnds(f)
    <2>1. UNCHANGED future /\ UNCHANGED wire
      BY <1>5 DEF IgnoreDuplicate, RefusalEnds, turnVars
    <2> QED
      BY <1>1, <1>3, <1>5, <2>1 DEF IgnoreDuplicate, RefusalEnds, Arrives, TypeOK
  <1>6. CASE Register(f) \/ HandleReturns(f)
    <2>1. UNCHANGED future /\ UNCHANGED wire
      BY <1>6 DEF Register, HandleReturns, turnVars
    <2> QED
      BY <1>1, <1>3, <1>6, <2>1 DEF Register, HandleReturns, Arrives, TypeOK
  <1> QED
    BY <1>2, <1>4, <1>5, <1>6 DEF HandleMoves

LEMMA TeardownKeepsLines ==
    ASSUME LineInv, LineInv', Teardown
    PROVE  Ledger!Next
  <1> SUFFICES ASSUME NEW f \in Frames PROVE Ledger!Settle(f) /\ Ledger!Tell(f)
    BY DEF Ledger!Next
  <1>1. TypeOK
    BY DEF LineInv
  <1>2. /\ handle'[f] = IF handle[f] = "refusing" THEN "refused" ELSE handle[f]
        /\ wire'[f] = wire[f]
        /\ future'[f] = Closed(f)
    BY DEF Teardown, turnVars
  <1>3. \/ Closed(f) = future[f]
        \/ handle[f] = "waiting" /\ future[f] = "open" /\ Closed(f) \in {"failed", "cancelled"}
    BY DEF Closed
  <1>4. /\ future[f] \in {"open", "answered", "failed", "cancelled"}
        /\ handle[f] \in {"new", "ignored", "refusing", "refused", "waiting", "returned"}
    BY <1>1 DEF TypeOK
  <1> QED
    BY <1>2, <1>3, <1>4 DEF Ledger!Settle, Ledger!Tell, RequestState

\* What the ledger needs to know of a state is kept by every step.
LEMMA LedgerInvStep ==
    ASSUME LineInv, [Next]_vars
    PROVE  LedgerInv'
  <1>1. TypeOK /\ IndexInv /\ TaskInv /\ WireInv /\ LedgerInv
    BY DEF LineInv, TerminalInv
  <1>2. ASSUME \A f \in Frames : handle'[f] = "new" => handle[f] = "new",
               \A f \in Frames : Settled(f) /\ (wire[f] # <<>> => wire'[f] # <<>>)
        PROVE  LedgerInv'
    BY <1>1, <1>2 DEF LedgerInv, Settled, Registered
  <1>3. ASSUME NEW f \in Frames, \/ HandleMoves(f) \/ Register(f) \/ HandleReturns(f)
                                 \/ RouteEnds(f) \/ RouteFails(f)
        PROVE  LedgerInv'
    <2>1. UNCHANGED future
      BY <1>3 DEF HandleMoves, Refuse, IgnoreDuplicate, RefusalEnds, Register, HandleReturns,
                  RouteEnds, RouteFails
    <2>2. \A g \in Frames : handle'[g] = "new" => handle[g] = "new"
      BY <1>1, <1>3 DEF HandleMoves, Refuse, IgnoreDuplicate, RefusalEnds, Register,
                        HandleReturns, RouteEnds, RouteFails, roundVars, TypeOK
    <2>3. ASSUME NEW g \in Frames PROVE wire[g] # <<>> => wire'[g] # <<>>
      <3>1. CASE Refuse(f)
        <4>1. wire[f] \in Seq(Outcomes) /\ "no_reply" \in Outcomes
          BY <1>1 DEF TypeOK, Outcomes
        <4>2. Append(wire[f], "no_reply") # <<>>
          BY <4>1
        <4> QED
          BY <1>1, <3>1, <4>2 DEF Refuse, HandOver, TypeOK
      <3>2. CASE RouteFails(f)
        <4>1. /\ <<f>> \in Seq(Frames) /\ <<f>> # <<>> /\ "no_reply" \in Outcomes
              /\ \A i \in DOMAIN <<f>> : Registered(<<f>>[i])
          BY <1>1, <3>2, TasksType DEF Outcomes, RouteFails, TaskInv
        <4> QED
          BY <1>1, <3>2, <4>1, EnterTells, TasksType DEF RouteFails, Told
      <3>3. CASE UNCHANGED wire
        BY <3>3
      <3> QED
        BY <1>3, <3>1, <3>2, <3>3 DEF HandleMoves, IgnoreDuplicate, RefusalEnds, Register,
                                      HandleReturns, RouteEnds, Finish, turnVars
    <2> QED
      BY <1>2, <2>1, <2>2, <2>3 DEF Settled
  <1>4. ASSUME NEW s \in Sessions, RoundMoves(s)
        PROVE  LedgerInv'
    <2>1. UNCHANGED <<future, handle, wire>>
      BY <1>4 DEF RoundMoves, RoundEnds, Finish, StageEmoji, RoundWaits, BeforeRequest,
                  roundVars, turnVars
    <2> QED
      BY <1>2, <2>1 DEF Settled
  <1>5. ASSUME NEW c \in Tasks, TaskMoves(c)
        PROVE  LedgerInv'
    BY <1>2, <1>5, TaskSettlesAndTells DEF Told
  <1>6. CASE Teardown
    <2>1. \A f \in Frames : handle'[f] = "new" => handle[f] = "new"
      BY <1>6 DEF Teardown
    <2>2. \A f \in Frames : wire'[f] = wire[f] /\ Settled(f)
      BY <1>6 DEF Teardown, turnVars, Closed, Settled, Registered
    <2> QED
      BY <1>2, <2>1, <2>2
  <1>7. CASE LinkMoves \/ UNCHANGED vars
    BY <1>2, <1>7 DEF LinkMoves, TransportStops, Redial, turnVars, vars, Settled
  <1> QED
    BY <1>3, <1>4, <1>5, <1>6, <1>7, StepKinds

LEMMA LineStep ==
    ASSUME LineInv, [Next]_vars
    PROVE  LineInv'
  BY TypeStep, TerminalStep, LedgerInvStep DEF LineInv

LEMMA LedgerStep ==
    ASSUME LineInv, [Next]_vars
    PROVE  [Ledger!Next]_Ledger!vars
  <1>1. LineInv'
    BY LineStep
  <1>2. ASSUME NEW f \in Frames, \/ HandleMoves(f) \/ Register(f) \/ HandleReturns(f)
                                 \/ RouteEnds(f) \/ RouteFails(f)
        PROVE  Ledger!Next
    BY <1>1, <1>2, FrameKeepsLines
  <1>3. ASSUME NEW c \in Tasks, TaskMoves(c)
        PROVE  Ledger!Next
    BY <1>1, <1>3, TaskSettlesAndTells, LinesKept
  <1>4. CASE Teardown
    BY <1>1, <1>4, TeardownKeepsLines
  <1>5. ASSUME UNCHANGED <<future, handle, wire>>
        PROVE  Ledger!Next
    BY <1>1, <1>5, LinesKept DEF Settled, Told
  <1>6. ASSUME NEW s \in Sessions, RoundMoves(s)
        PROVE  Ledger!Next
    BY <1>5, <1>6 DEF RoundMoves, RoundEnds, Finish, StageEmoji, RoundWaits, BeforeRequest,
                      roundVars, turnVars
  <1>7. CASE LinkMoves \/ UNCHANGED vars
    BY <1>5, <1>7 DEF LinkMoves, TransportStops, Redial, turnVars, vars
  <1> QED
    BY <1>2, <1>3, <1>4, <1>6, <1>7, StepKinds

\* The service implements the ledger: whatever hooks, dispatch tasks, gateways,
\* cancellations and lost connections do, a request is settled once and for good,
\* counts as answered only when its frame was handed over, and is told of once.
THEOREM ServiceKeepsLedger == Spec => KeepsLedger
  <1>1. Init => LineInv
    <2>1. Init => LedgerInv
      BY DEF Init, LedgerInv
    <2> QED
      BY <2>1, TypeInit, TerminalInit DEF LineInv
  <1>2. Init => Ledger!Init
    BY DEF Init, Ledger!Init, RequestState
  <1>3. LineInv /\ [Next]_vars => LineInv'
    BY LineStep
  <1>4. LineInv /\ [Next]_vars => [Ledger!Next]_Ledger!vars
    BY LedgerStep
  <1> QED
    BY <1>1, <1>2, <1>3, <1>4, PTL DEF Spec, KeepsLedger, Ledger!Spec
============================================================================
