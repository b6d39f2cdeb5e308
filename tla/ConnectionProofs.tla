-------------------------- MODULE ConnectionProofs --------------------------
(***************************************************************************)
(* Theorems about Connection, for any number of transports, with and       *)
(* without tasks in the router, and on any Python unless one says more.    *)
(***************************************************************************)
EXTENDS Connection, Induction

USE ConnectionAssumption

\* a transport is being dialled only by the loop, at that await
DialInv == \A n \in Slots : tr[n] = "dialling" => loop = "dial" /\ transport = n

\* a teardown lowers connected before it publishes
UnreadyInv == loop \in {"unready_maid", "unready_chat"} => ~connected

\* a callback under way has set the stop event and closed the generation; once the
\* cancellation is delivered the loop is on its way out
StoppingInv ==
    /\ ctl = "stopping" =>
         /\ stopEvent /\ latest = None
         /\ ~cancelled => loop \in Down \cup {"unwatch", "off"}
    /\ ctl = "publishing" => loop = "off" /\ ~wanted

\* a loop that nobody stops has its own stop event, and never tears down for good
EnabledInv == ctl = "idle" /\ wanted /\ ~uncaught =>
    /\ ~stopEvent
    /\ loop \in {"gather", "closing"} => mode # "final"

\* the latest generation belongs to the transport in use, or to one that is closed
LatestInv == latest # None => latest \in {transport, closer} \/ tr[latest] = "free"

LoopInv ==
    /\ OnlyCutShortTeardownsLeak /\ DialInv
    /\ ConnectedIsCurrent /\ UnreadyInv
    /\ StoppingInv /\ StopQuiesces
    /\ LatestInv

----------------------------------------------------------------------------
(* Types.                                                                  *)

LEMMA PausesAreDelays ==
    /\ 0 \in Pauses /\ 0 \in 0..MaxIndex /\ 1 \in 0..MaxIndex
    /\ \A k \in 0..MaxIndex : Delay(k) \in Pauses
  BY DEF Pauses

LEMMA TypeInit == Init => TypeOK
  BY PausesAreDelays DEF Init, TypeOK, Dialling, Up, Down

LEMMA ConnectingType == ASSUME TypeOK, Connecting PROVE TypeOK'
  <1> USE DEF TypeOK, Dialling, Up, Down, Gateways, At, pacing
  <1>1. CASE Attempt
    <2>1. index' \in 0..MaxIndex /\ paused' \in Pauses
      BY <1>1, PausesAreDelays DEF Attempt, LoopEnds
    <2> QED
      BY <1>1, <2>1, ZenonT(60) DEF Attempt, LoopEnds, ConnectedAfter
  <1>2. ASSUME NEW n \in Slots, Dial(n) PROVE TypeOK'
    BY <1>2 DEF Dial, Spare
  <1>3. CASE Dialled
    BY <1>3 DEF Dialled
  <1>4. CASE DialFails
    BY <1>4 DEF DialFails, BeginTeardown
  <1>5. CASE Handshaken
    BY <1>5 DEF Handshaken
  <1>6. CASE HandshakeFails
    BY <1>6 DEF HandshakeFails, BeginTeardown
  <1>7. CASE PublishReady("ready_maid", "maid", "ready_chat")
    <2>1. index' \in 0..MaxIndex /\ paused' \in Pauses
      BY <1>7, PausesAreDelays DEF PublishReady, BeginTeardown
    <2>2. CASE BeginTeardown("failed") /\ UNCHANGED ready
      BY <1>7, <2>1, <2>2 DEF PublishReady, BeginTeardown
    <2>3. CASE loop' = "ready_chat" /\ ready' = ready \cup {"maid"} /\ UNCHANGED <<mode, transport, closer>>
      BY <1>7, <2>1, <2>3 DEF PublishReady
    <2> QED
      BY <1>7, <2>2, <2>3 DEF PublishReady
  <1>8. CASE PublishReady("ready_chat", "chat", "watch")
    <2>1. index' \in 0..MaxIndex /\ paused' \in Pauses
      BY <1>8, PausesAreDelays DEF PublishReady, BeginTeardown
    <2>2. CASE BeginTeardown("failed") /\ UNCHANGED ready
      BY <1>8, <2>1, <2>2 DEF PublishReady, BeginTeardown
    <2>3. CASE loop' = "watch" /\ ready' = ready \cup {"chat"} /\ UNCHANGED <<mode, transport, closer>>
      BY <1>8, <2>1, <2>3 DEF PublishReady
    <2> QED
      BY <1>8, <2>2, <2>3 DEF PublishReady
  <1> QED
    BY <1>1, <1>2, <1>3, <1>4, <1>5, <1>6, <1>7, <1>8 DEF Connecting

LEMMA TearingDownType == ASSUME TypeOK, TearingDown PROVE TypeOK'
  <1> USE DEF TypeOK, Dialling, Up, Down, Gateways, At, pacing
  <1>1. CASE Notice
    BY <1>1 DEF Notice
  <1>2. CASE Unwatch
    BY <1>2 DEF Unwatch, BeginTeardown
  <1>3. CASE Gathered
    BY <1>3 DEF Gathered
  <1>4. CASE Closed
    BY <1>4, PausesAreDelays DEF Closed, ShutDown, LoopEnds, ConnectedAfter, CloseHits
  <1>5. CASE PublishUnready("unready_maid", "maid", "unready_chat")
    <2>1. index' \in 0..MaxIndex /\ paused' \in Pauses
      BY <1>5, PausesAreDelays DEF PublishUnready, LoopEnds, IndexAfter
    <2> QED
      BY <1>5, <2>1, ZenonT(60) DEF PublishUnready, LoopEnds, ConnectedAfter
  <1>6. CASE PublishUnready("unready_chat", "chat", "sleep")
    <2>1. index' \in 0..MaxIndex /\ paused' \in Pauses
      BY <1>6, PausesAreDelays DEF PublishUnready, LoopEnds, IndexAfter
    <2> QED
      BY <1>6, <2>1, ZenonT(60) DEF PublishUnready, LoopEnds, ConnectedAfter
  <1> QED
    BY <1>1, <1>2, <1>3, <1>4, <1>5, <1>6 DEF TearingDown

LEMMA CancellingType == ASSUME TypeOK, Cancelling PROVE TypeOK'
  <1> USE DEF TypeOK, Dialling, Up, Down, Gateways, Told, pacing
  <1>1. CASE CancelIdle
    BY <1>1, PausesAreDelays DEF CancelIdle, LoopEnds, ConnectedAfter
  <1>2. CASE CancelActive
    BY <1>2 DEF CancelActive, BeginTeardown
  <1>3. CASE CancelSwallowed
    BY <1>3, ZenonT(60) DEF CancelSwallowed
  <1>4. CASE CancelClosing
    BY <1>4, PausesAreDelays DEF CancelClosing, LoopEnds, ConnectedAfter
  <1>5. CASE CancelGathering
    BY <1>5, PausesAreDelays DEF CancelGathering, LoopEnds, ConnectedAfter
  <1> QED
    BY <1>1, <1>2, <1>3, <1>4, <1>5 DEF Cancelling

LEMMA OutsideType ==
    ASSUME TypeOK,
           \/ CallbackStep \/ Unhealthy
           \/ \E enable \in BOOLEAN : Stop(enable)
           \/ \E n \in Slots : PeerCloses(n) \/ ReaderEnds(n)
    PROVE  TypeOK'
  <1> USE DEF TypeOK, Dialling, Up, Down, Gateways, pacing
  <1>1. CASE Stopped
    BY <1>1 DEF Stopped, Awaited, ConnectedAfter, NewStopEvent
  <1>2. CASE Publish
    <2>1. ready' \subseteq Gateways /\ uncaught' \in BOOLEAN
      BY <1>2 DEF Publish, Withdrawn
    <2> QED
      BY <1>2, <2>1 DEF Publish
  <1>3. CASE Unhealthy
    BY <1>3 DEF Unhealthy, tasks
  <1>4. ASSUME NEW enable \in BOOLEAN, Stop(enable) PROVE TypeOK'
    BY <1>4 DEF Stop
  <1>5. ASSUME NEW n \in Slots, PeerCloses(n) PROVE TypeOK'
    BY <1>5 DEF PeerCloses, tasks
  <1>6. ASSUME NEW n \in Slots, ReaderEnds(n) PROVE TypeOK'
    BY <1>6 DEF ReaderEnds, CloseHits, tasks
  <1> QED
    BY <1>1, <1>2, <1>3, <1>4, <1>5, <1>6 DEF CallbackStep

LEMMA TypeStep == TypeOK /\ [Next]_vars => TypeOK'
  <1> SUFFICES ASSUME TypeOK, [Next]_vars PROVE TypeOK'
    OBVIOUS
  <1>1. CASE UNCHANGED vars
    BY <1>1 DEF vars, TypeOK
  <1> QED
    BY <1>1, ConnectingType, TearingDownType, CancellingType, OutsideType DEF Next

\* Every reachable state has its type: the loop has a transport exactly at the
\* awaits where it needs one, and a cancellation is outstanding only in a stop.
THEOREM TypeCorrect == Spec => []TypeOK
  BY TypeInit, TypeStep, PTL DEF Spec

----------------------------------------------------------------------------
(* The invariant of the loop.                                              *)

LEMMA LoopInit == Init => LoopInv
  BY DEF Init, LoopInv, OnlyCutShortTeardownsLeak, DialInv, ConnectedIsCurrent, UnreadyInv,
         StoppingInv, StopQuiesces, LatestInv

LEMMA ConnectingStep == ASSUME TypeOK, LoopInv, Connecting PROVE LoopInv'
  <1> USE DEF TypeOK, Dialling, Up, Down, At, LoopInv, OnlyCutShortTeardownsLeak, DialInv,
              ConnectedIsCurrent, UnreadyInv, StoppingInv, StopQuiesces, LatestInv
  <1>1. CASE Attempt
    BY <1>1 DEF Attempt, LoopEnds, ConnectedAfter, ShouldRun
  <1>2. ASSUME NEW n \in Slots, Dial(n) PROVE LoopInv'
    BY <1>2 DEF Dial, Spare
  <1>3. CASE Dialled
    BY <1>3 DEF Dialled
  <1>4. CASE DialFails
    BY <1>4 DEF DialFails, BeginTeardown
  <1>5. CASE Handshaken
    BY <1>5 DEF Handshaken
  <1>6. CASE HandshakeFails
    BY <1>6 DEF HandshakeFails, BeginTeardown
  <1>7. CASE PublishReady("ready_maid", "maid", "ready_chat")
    BY <1>7 DEF PublishReady, BeginTeardown
  <1>8. CASE PublishReady("ready_chat", "chat", "watch")
    BY <1>8 DEF PublishReady, BeginTeardown
  <1> QED
    BY <1>1, <1>2, <1>3, <1>4, <1>5, <1>6, <1>7, <1>8 DEF Connecting

LEMMA TearingDownStep == ASSUME TypeOK, LoopInv, TearingDown PROVE LoopInv'
  <1> USE DEF TypeOK, Dialling, Up, Down, At, LoopInv, OnlyCutShortTeardownsLeak, DialInv,
              ConnectedIsCurrent, UnreadyInv, StoppingInv, StopQuiesces, LatestInv
  <1>1. CASE Notice
    BY <1>1 DEF Notice
  <1>2. CASE Unwatch
    BY <1>2 DEF Unwatch, BeginTeardown
  <1>3. CASE Gathered
    BY <1>3 DEF Gathered
  <1>4. CASE Closed
    BY <1>4 DEF Closed, ShutDown, LoopEnds, ConnectedAfter
  <1>5. CASE PublishUnready("unready_maid", "maid", "unready_chat")
    BY <1>5 DEF PublishUnready, LoopEnds, ConnectedAfter
  <1>6. CASE PublishUnready("unready_chat", "chat", "sleep")
    BY <1>6 DEF PublishUnready, LoopEnds, ConnectedAfter, ShouldRun
  <1> QED
    BY <1>1, <1>2, <1>3, <1>4, <1>5, <1>6 DEF TearingDown

LEMMA CancellingStep == ASSUME TypeOK, LoopInv, Cancelling PROVE LoopInv'
  <1> USE DEF TypeOK, Dialling, Up, Down, Told, LoopInv, OnlyCutShortTeardownsLeak, DialInv,
              ConnectedIsCurrent, UnreadyInv, StoppingInv, StopQuiesces, LatestInv
  <1>1. CASE CancelIdle
    BY <1>1 DEF CancelIdle, LoopEnds, ConnectedAfter
  <1>2. CASE CancelActive
    BY <1>2 DEF CancelActive, BeginTeardown
  <1>3. CASE CancelSwallowed
    BY <1>3, ZenonT(60) DEF CancelSwallowed
  <1>4. CASE CancelClosing
    BY <1>4 DEF CancelClosing, LoopEnds, ConnectedAfter
  <1>5. CASE CancelGathering
    BY <1>5 DEF CancelGathering, LoopEnds, ConnectedAfter
  <1> QED
    BY <1>1, <1>2, <1>3, <1>4, <1>5 DEF Cancelling

LEMMA OutsideStep ==
    ASSUME TypeOK, LoopInv,
           \/ CallbackStep \/ Unhealthy
           \/ \E enable \in BOOLEAN : Stop(enable)
           \/ \E n \in Slots : PeerCloses(n) \/ ReaderEnds(n)
    PROVE  LoopInv'
  <1> USE DEF TypeOK, Dialling, Up, Down, LoopInv, OnlyCutShortTeardownsLeak, DialInv,
              ConnectedIsCurrent, UnreadyInv, StoppingInv, StopQuiesces, LatestInv
  <1>1. CASE Stopped
    BY <1>1 DEF Stopped, Awaited, ConnectedAfter, NewStopEvent
  <1>2. CASE Publish
    BY <1>2 DEF Publish, Withdrawn
  <1>3. CASE Unhealthy
    BY <1>3 DEF Unhealthy, tasks
  <1>4. ASSUME NEW enable \in BOOLEAN, Stop(enable) PROVE LoopInv'
    BY <1>4 DEF Stop
  <1>5. ASSUME NEW n \in Slots, PeerCloses(n) PROVE LoopInv'
    BY <1>5 DEF PeerCloses, tasks
  <1>6. ASSUME NEW n \in Slots, ReaderEnds(n) PROVE LoopInv'
    BY <1>6 DEF ReaderEnds, tasks
  <1> QED
    BY <1>1, <1>2, <1>3, <1>4, <1>5, <1>6 DEF CallbackStep

LEMMA LoopStep == TypeOK /\ LoopInv /\ [Next]_vars => LoopInv'
  <1> SUFFICES ASSUME TypeOK, LoopInv, [Next]_vars PROVE LoopInv'
    OBVIOUS
  <1>1. CASE UNCHANGED vars
    BY <1>1 DEF vars, LoopInv, OnlyCutShortTeardownsLeak, DialInv, ConnectedIsCurrent,
                UnreadyInv, StoppingInv, StopQuiesces, LatestInv
  <1> QED
    BY <1>1, ConnectingStep, TearingDownStep, CancellingStep, OutsideStep DEF Next

\* The inductive invariant of the loop, its transports and its callbacks.
THEOREM LoopInvariant == Spec => [](TypeOK /\ LoopInv)
  <1>1. Init => TypeOK /\ LoopInv
    BY TypeInit, LoopInit
  <1>2. TypeOK /\ LoopInv /\ [Next]_vars => (TypeOK /\ LoopInv)'
    BY TypeStep, LoopStep
  <1> QED
    BY <1>1, <1>2, PTL DEF Spec

\* No socket is left open that nobody will close, except by a stop that cuts a
\* teardown short while it waits for the router.
THEOREM NoOtherLeak == Spec => []OnlyCutShortTeardownsLeak
  <1>1. LoopInv => OnlyCutShortTeardownsLeak
    BY DEF LoopInv
  <1> QED
    BY <1>1, LoopInvariant, PTL

\* connected is never left over from an earlier connection.
THEOREM ConnectedIsFresh == Spec => []ConnectedIsCurrent
  <1>1. LoopInv => ConnectedIsCurrent
    BY DEF LoopInv
  <1> QED
    BY <1>1, LoopInvariant, PTL

\* A disabled plugin has no loop and no transport.
THEOREM StopsQuiesce == Spec => []StopQuiesces
  <1>1. LoopInv => StopQuiesces
    BY DEF LoopInv
  <1> QED
    BY <1>1, LoopInvariant, PTL

----------------------------------------------------------------------------
(* An enabled runtime runs.                                                *)

LEMMA EnabledStep ==
    ASSUME BuiltinTimeout, TypeOK, LoopInv, EnabledInv, RunsWhileEnabled, [Next]_vars
    PROVE  EnabledInv' /\ RunsWhileEnabled'
  <1> USE DEF EnabledInv, RunsWhileEnabled
  <1>1. ctl = "publishing" => ~wanted
    BY DEF LoopInv, StoppingInv
  <1>2. cancelled => ctl = "stopping"
    BY DEF TypeOK
  <1>3. CASE Connecting
    <2>1. CASE Attempt
      BY <2>1 DEF Attempt, ShouldRun
    <2>2. CASE (\E n \in Slots : Dial(n)) \/ Dialled \/ Handshaken
      BY <2>2 DEF Dial, Dialled, Handshaken
    <2>3. CASE DialFails
      BY <2>3 DEF DialFails, BeginTeardown, TypeOK
    <2>4. CASE HandshakeFails
      BY <2>4 DEF HandshakeFails, BeginTeardown, TypeOK
    <2>5. CASE PublishReady("ready_maid", "maid", "ready_chat")
      BY <2>5 DEF PublishReady, BeginTeardown, TypeOK
    <2>6. CASE PublishReady("ready_chat", "chat", "watch")
      BY <2>6 DEF PublishReady, BeginTeardown, TypeOK
    <2> QED
      BY <1>3, <2>1, <2>2, <2>3, <2>4, <2>5, <2>6 DEF Connecting
  <1>4. CASE TearingDown
    <2>1. CASE Notice \/ Gathered \/ Closed
      BY <2>1 DEF Notice, Gathered, Closed, At
    <2>2. CASE Unwatch
      BY <2>2 DEF Unwatch, ShouldRun, BeginTeardown, TypeOK
    <2>3. CASE PublishUnready("unready_maid", "maid", "unready_chat")
      BY <2>3 DEF PublishUnready, At
    <2>4. CASE PublishUnready("unready_chat", "chat", "sleep")
      BY <2>4 DEF PublishUnready, At, ShouldRun
    <2> QED
      BY <1>4, <2>1, <2>2, <2>3, <2>4 DEF TearingDown
  <1>5. CASE Cancelling
    BY <1>2, <1>5 DEF Cancelling, Told, CancelIdle, CancelActive, CancelSwallowed,
                      CancelClosing, CancelGathering
  <1>6. CASE CallbackStep
    BY <1>1, <1>6 DEF CallbackStep, Stopped, NewStopEvent, Publish
  <1>7. CASE Unhealthy \/ UNCHANGED vars
    BY <1>7 DEF Unhealthy, tasks, vars
  <1>8. ASSUME NEW enable \in BOOLEAN, Stop(enable)
        PROVE  EnabledInv' /\ RunsWhileEnabled'
    BY <1>8 DEF Stop
  <1>9. ASSUME NEW n \in Slots, PeerCloses(n) \/ ReaderEnds(n)
        PROVE  EnabledInv' /\ RunsWhileEnabled'
    BY <1>9 DEF PeerCloses, ReaderEnds, tasks
  <1> QED
    BY <1>3, <1>4, <1>5, <1>6, <1>7, <1>8, <1>9 DEF Next

\* On Python 3.11 or later nothing but a publication that fails twice ends the
\* loop of an enabled runtime.
THEOREM EnabledRuns == ASSUME BuiltinTimeout PROVE Spec => []RunsWhileEnabled
  <1>1. Init => EnabledInv /\ RunsWhileEnabled
    BY DEF Init, EnabledInv, RunsWhileEnabled
  <1>2. TypeOK /\ LoopInv /\ (EnabledInv /\ RunsWhileEnabled) /\ [Next]_vars
            => (EnabledInv /\ RunsWhileEnabled)'
    BY EnabledStep
  <1> QED
    BY <1>1, <1>2, LoopInvariant, PTL DEF Spec

----------------------------------------------------------------------------
(* Late closes.                                                            *)

\* on_close of an old transport never closes its successor.
THEOREM OldClosesAreIgnored == Spec => OldCloseIgnored
  <1>1. ASSUME TypeOK, LoopInv, [Next]_vars, NEW n \in Slots,
               tr[n] = "shut", tr'[n] = "free", n \notin {transport, closer}, ~closedEvent
        PROVE  ~closedEvent'
    <2> USE <1>1 DEF TypeOK
    <2>1. latest # n
      BY DEF LoopInv, LatestInv
    <2>2. ASSUME NEW m \in Slots, ReaderEnds(m)
          PROVE  ~closedEvent'
      BY <2>1, <2>2 DEF ReaderEnds, CloseHits
    <2>3. CASE Connecting
      BY <2>3 DEF Connecting, Attempt, Dial, Dialled, DialFails, Handshaken, HandshakeFails,
                  PublishReady
    <2>4. CASE TearingDown
      BY <2>4 DEF TearingDown, Notice, Unwatch, Gathered, Closed, ShutDown, PublishUnready
    <2>5. CASE Cancelling
      BY <2>5 DEF Cancelling, CancelIdle, CancelActive, CancelSwallowed, CancelClosing,
                  CancelGathering
    <2>6. CASE CallbackStep \/ Unhealthy \/ (\E enable \in BOOLEAN : Stop(enable)) \/ UNCHANGED vars
      BY <2>6 DEF CallbackStep, Stopped, Publish, Unhealthy, Stop, vars
    <2>7. ASSUME NEW m \in Slots, PeerCloses(m)
          PROVE  ~closedEvent'
      BY <2>7 DEF PeerCloses
    <2> QED
      BY <2>2, <2>3, <2>4, <2>5, <2>6, <2>7 DEF Next
  <1>2. TypeOK /\ LoopInv /\ [Next]_vars =>
            [\A n \in Slots :
                tr[n] = "shut" /\ tr'[n] = "free" /\ n \notin {transport, closer} /\ ~closedEvent
                    => ~closedEvent']_vars
    BY <1>1
  <1> QED
    BY <1>2, LoopInvariant, PTL DEF Spec, OldCloseIgnored

----------------------------------------------------------------------------
(* The reconnect waits.                                                    *)

\* the bound on the failures counted is where the delay has reached its cap
BoundMeetsCap == InitialDelay # 0 => Delay(MaxIndex) = MaxDelay

\* The waits before doubling are what the recursion says.
LEMMA DoubledDef ==
    /\ Doubled \in [0..MaxIndex -> Nat]
    /\ Doubled[0] = InitialDelay
    /\ \A k \in 1..MaxIndex : Doubled[k] = 2 * Doubled[k - 1]
  <1> DEFINE step == [x \in (1..MaxIndex) \X Nat |-> 2 * x[2]]
             Doubles(g) == g = [k \in 0..MaxIndex |-> IF k = 0 THEN InitialDelay ELSE 2 * g[k - 1]]
  <1>1. step \in Steps(MaxIndex, Nat)
    BY DEF Steps
  <1>2. PICK g : IsRecursive(g, Nat, InitialDelay, MaxIndex, step)
    <2> HIDE DEF step
    <2> QED
      BY <1>1, BoundedRecursion
  <1>3. /\ g \in [0..MaxIndex -> Nat] /\ g[0] = InitialDelay
        /\ \A i \in 1..MaxIndex : g[i] = 2 * g[i - 1]
    <2>1. /\ g \in [0..MaxIndex -> Nat] /\ g[0] = InitialDelay
          /\ \A i \in 1..MaxIndex : g[i] = step[<<i, g[i - 1]>>]
      <3> HIDE DEF step
      <3> QED
        BY <1>2 DEF IsRecursive
    <2>2. ASSUME NEW i \in 1..MaxIndex PROVE step[<<i, g[i - 1]>>] = 2 * g[i - 1]
      BY <2>1
    <2> HIDE DEF step
    <2> QED
      BY <2>1, <2>2
  <1>4. Doubles(g)
    BY <1>3
  <1>5. Doubled = CHOOSE h : Doubles(h)
    BY DEF Doubled
  <1>6. Doubles(Doubled)
    <2> HIDE DEF Doubles
    <2> QED
      BY <1>4, <1>5
  <1>7. /\ Doubled[0] = InitialDelay
        /\ \A k \in 1..MaxIndex : Doubled[k] = 2 * Doubled[k - 1]
        /\ DOMAIN Doubled = 0..MaxIndex
    <2>1. \A k \in 0..MaxIndex : Doubled[k] = IF k = 0 THEN InitialDelay ELSE 2 * Doubled[k - 1]
      BY <1>6
    <2> QED
      BY <1>6, <2>1
  <1> HIDE DEF Doubles
  <1>8. \A k \in Nat : k <= MaxIndex => Doubled[k] \in Nat
    <2> DEFINE T == {k \in Nat : k <= MaxIndex => Doubled[k] \in Nat}
    <2>1. 0 \in T
      BY <1>7
    <2>2. ASSUME NEW k \in Nat, k \in T PROVE k + 1 \in T
      <3> SUFFICES ASSUME k + 1 <= MaxIndex PROVE Doubled[k + 1] \in Nat
        OBVIOUS
      <3>1. k + 1 \in 1..MaxIndex /\ (k + 1) - 1 = k
        OBVIOUS
      <3>2. Doubled[k + 1] = 2 * Doubled[k]
        BY <1>7, <3>1
      <3> QED
        BY <2>2, <3>2
    <2> HIDE DEF T
    <2>3. \A k \in Nat : k \in T
      BY <2>1, <2>2, SetInduction
    <2> QED
      BY <2>3 DEF T
  <1>9. Doubled = [k \in 0..MaxIndex |-> IF k = 0 THEN InitialDelay ELSE 2 * Doubled[k - 1]]
    BY <1>6 DEF Doubles
  <1>10. \A k \in 0..MaxIndex : Doubled[k] \in Nat
    BY <1>8
  <1> QED
    BY <1>7, <1>9, <1>10

\* A wait that is not at its cap is shorter than the next one.
LEMMA DelaysGrow ==
    ASSUME InitialDelay # 0
    PROVE  /\ \A k \in 0..MaxIndex : Delay(k) \in Nat /\ Delay(k) > 0
           /\ \A k \in 1..MaxIndex : k + 1 <= MaxIndex =>
                Delay(k) < Delay(k + 1) \/ Delay(k + 1) = MaxDelay
  <1>1. \A k \in Nat : k <= MaxIndex => Doubled[k] > 0
    <2> DEFINE T == {k \in Nat : k <= MaxIndex => Doubled[k] > 0}
    <2>1. 0 \in T
      BY DoubledDef
    <2>2. ASSUME NEW k \in Nat, k \in T PROVE k + 1 \in T
      <3> SUFFICES ASSUME k + 1 <= MaxIndex PROVE Doubled[k + 1] > 0
        OBVIOUS
      <3>1. k + 1 \in 1..MaxIndex /\ (k + 1) - 1 = k /\ k \in 0..MaxIndex
        OBVIOUS
      <3>2. Doubled[k + 1] = 2 * Doubled[k] /\ Doubled[k] \in Nat
        BY <3>1, DoubledDef
      <3> QED
        BY <2>2, <3>2
    <2> HIDE DEF T
    <2>3. \A k \in Nat : k \in T
      BY <2>1, <2>2, SetInduction
    <2> QED
      BY <2>3 DEF T
  <1>2. ASSUME NEW k \in 0..MaxIndex PROVE Delay(k) \in Nat /\ Delay(k) > 0
    <2> DEFINE j == IF k > 1 THEN k - 1 ELSE 0
    <2>1. j \in Nat /\ j <= MaxIndex /\ j \in 0..MaxIndex
      OBVIOUS
    <2>2. Doubled[j] \in Nat /\ Doubled[j] > 0
      BY <1>1, <2>1, DoubledDef
    <2> QED
      BY <2>2 DEF Delay
  <1>3. ASSUME NEW k \in 1..MaxIndex, k + 1 <= MaxIndex
        PROVE  Delay(k) < Delay(k + 1) \/ Delay(k + 1) = MaxDelay
    <2>1. k \in 1..MaxIndex /\ k - 1 \in 0..MaxIndex
      OBVIOUS
    <2>2. Doubled[k] = 2 * Doubled[k - 1] /\ Doubled[k - 1] \in Nat /\ Doubled[k - 1] > 0
      BY <1>1, <2>1, DoubledDef
    <2>3. /\ (IF k > 1 THEN k - 1 ELSE 0) = k - 1
          /\ (IF k + 1 > 1 THEN (k + 1) - 1 ELSE 0) = k
      OBVIOUS
    <2>4. /\ Delay(k) = IF MaxDelay > 0 /\ MaxDelay < Doubled[k - 1] THEN MaxDelay ELSE Doubled[k - 1]
          /\ Delay(k + 1) = IF MaxDelay > 0 /\ MaxDelay < Doubled[k] THEN MaxDelay ELSE Doubled[k]
      BY <2>3 DEF Delay
    <2> QED
      BY <2>2, <2>4
  <1> QED
    BY <1>2, <1>3

\* What the loop remembers of its last wait: nothing before the first failure and
\* after a connection was ready, and otherwise the wait that its index stands for,
\* until the failure is counted.
PauseInv ==
    /\ loop \in {"off", "begin"} => index = 0
    /\ loop \in {"unready_maid", "unready_chat"} => mode # "final"
    /\ loop \in {"watch", "unwatch"} \/ (loop \in Down /\ mode = "closed") =>
         index = 1 /\ paused = 0
    /\ loop # "sleep" => paused = 0 \/ (index # 0 /\ paused = Delay(index))
    /\ loop = "sleep" => index # 0 /\ (paused < Delay(index) \/ Delay(index) = MaxDelay)

LEMMA PauseStep ==
    ASSUME BoundMeetsCap, InitialDelay # 0, TypeOK, PauseInv, [Next]_vars
    PROVE  PauseInv'
  <1> USE DEF PauseInv, Dialling, Up, Down
  <1>1. CASE UNCHANGED <<loop, mode, index, paused>>
    BY <1>1
  <1>2. CASE Attempt
    BY <1>2 DEF Attempt, At, LoopEnds
  <1>3. CASE DialFails \/ HandshakeFails \/ CancelActive
    BY <1>3 DEF DialFails, HandshakeFails, CancelActive, BeginTeardown, At, pacing
  <1>4. CASE Dialled \/ Handshaken \/ \E n \in Slots : Dial(n)
    BY <1>4 DEF Dialled, Handshaken, Dial, At, pacing
  <1>5. CASE PublishReady("ready_maid", "maid", "ready_chat")
    BY <1>5 DEF PublishReady, BeginTeardown, At, pacing
  <1>6. CASE PublishReady("ready_chat", "chat", "watch")
    BY <1>6 DEF PublishReady, BeginTeardown, At, pacing
  <1>7. CASE Notice
    BY <1>7 DEF Notice, At, pacing
  <1>8. CASE Unwatch
    BY <1>8 DEF Unwatch, BeginTeardown, At, pacing
  <1>9. CASE Gathered
    BY <1>9 DEF Gathered, At, pacing
  <1>10. CASE Closed
    BY <1>10 DEF Closed, LoopEnds, At, pacing
  <1>11. CASE PublishUnready("unready_maid", "maid", "unready_chat")
    BY <1>11 DEF PublishUnready, LoopEnds, At, pacing
  <1>12. CASE PublishUnready("unready_chat", "chat", "sleep")
    <2>1. CASE LoopEnds
      BY <2>1 DEF LoopEnds
    <2>2. CASE loop' = "unready_maid" /\ mode' = "failed" /\ UNCHANGED pacing
      BY <1>12, <2>2 DEF PublishUnready, At, pacing
    <2>3. CASE loop' = "sleep" /\ index' = IndexAfter /\ UNCHANGED paused
      <3>1. mode \in {"closed", "failed"} /\ index \in 0..MaxIndex /\ loop = "unready_chat"
        BY <1>12 DEF PublishUnready, At, TypeOK
      <3>2. /\ \A k \in 0..MaxIndex : Delay(k) \in Nat /\ Delay(k) > 0
            /\ \A k \in 1..MaxIndex : k + 1 <= MaxIndex =>
                 Delay(k) < Delay(k + 1) \/ Delay(k + 1) = MaxDelay
            /\ Delay(MaxIndex) = MaxDelay
        BY DelaysGrow DEF BoundMeetsCap
      <3> HIDE DEF PauseInv
      <3>3. index' # 0 /\ (paused < Delay(index') \/ Delay(index') = MaxDelay)
        <4>1. CASE mode = "closed"
          <5>1. index' = 1 /\ paused = 0 /\ 1 \in 0..MaxIndex
            BY <2>3, <3>1, <4>1 DEF IndexAfter, PauseInv
          <5> QED
            BY <3>2, <5>1
        <4>2. CASE mode = "failed" /\ index = MaxIndex
          BY <2>3, <3>2, <4>2 DEF IndexAfter
        <4>3. CASE mode = "failed" /\ index < MaxIndex
          <5>1. index' = index + 1 /\ index' \in 0..MaxIndex
            BY <2>3, <3>1, <4>3 DEF IndexAfter
          <5>2. paused = 0 \/ (index \in 1..MaxIndex /\ paused = Delay(index))
            BY <3>1 DEF PauseInv
          <5> QED
            BY <3>1, <3>2, <5>1, <5>2
        <4> QED
          BY <3>1, <4>1, <4>2, <4>3
      <3> QED
        BY <2>3, <3>3 DEF PauseInv
    <2> QED
      BY <1>12, <2>1, <2>2, <2>3 DEF PublishUnready, pacing
  <1>13. CASE CancelIdle \/ CancelSwallowed \/ CancelClosing \/ CancelGathering
    BY <1>13 DEF CancelIdle, CancelSwallowed, CancelClosing, CancelGathering, LoopEnds, pacing
  <1>14. CASE Stopped
    BY <1>14 DEF Stopped, Awaited, pacing
  <1>15. CASE Publish \/ Unhealthy \/ (\E enable \in BOOLEAN : Stop(enable)) \/ UNCHANGED vars
    BY <1>1, <1>15 DEF Publish, Unhealthy, Stop, tasks, vars, pacing
  <1>16. ASSUME NEW n \in Slots, PeerCloses(n) \/ ReaderEnds(n) PROVE PauseInv'
    BY <1>1, <1>16 DEF PeerCloses, ReaderEnds, tasks
  <1> QED
    BY <1>2, <1>3, <1>4, <1>5, <1>6, <1>7, <1>8, <1>9, <1>10, <1>11, <1>12, <1>13, <1>14,
       <1>15, <1>16 DEF Next, Connecting, TearingDown, Cancelling, CallbackStep

\* Each reconnect wait is longer than the one before or at the cap, whichever step
\* of connecting fails, until a connection is ready (_reconnect_delay_ms, and where
\* _runtime_loop counts its failures).
THEOREM WaitsGrow == ASSUME BoundMeetsCap PROVE Spec => PausesGrow
  <1>1. CASE InitialDelay = 0
    <2>1. [Next]_vars => [loop = "sleep" /\ loop' = "resolve" =>
             \/ InitialDelay = 0 \/ Delay(index) > paused \/ Delay(index) = MaxDelay]_vars
      BY <1>1
    <2> QED
      BY <2>1, PTL DEF Spec, PausesGrow
  <1>2. CASE InitialDelay # 0
    <2>1. Init => PauseInv
      BY DEF Init, PauseInv, Down
    <2>2. TypeOK /\ PauseInv /\ [Next]_vars => PauseInv'
      BY <1>2, PauseStep
    <2>3. TypeOK /\ PauseInv => (loop = "sleep" =>
             \/ InitialDelay = 0 \/ Delay(index) > paused \/ Delay(index) = MaxDelay)
      <3> SUFFICES ASSUME TypeOK, PauseInv, loop = "sleep", paused < Delay(index)
                   PROVE  Delay(index) > paused
        BY DEF PauseInv
      <3> QED
        OBVIOUS
    <2>4. TypeOK /\ PauseInv /\ [Next]_vars => [loop = "sleep" /\ loop' = "resolve" =>
             \/ InitialDelay = 0 \/ Delay(index) > paused \/ Delay(index) = MaxDelay]_vars
      BY <2>3
    <2> QED
      BY <2>1, <2>2, <2>4, TypeCorrect, PTL DEF Spec, PausesGrow
  <1> QED
    BY <1>1, <1>2

----------------------------------------------------------------------------
(* A disabled plugin.                                                      *)

\* Without tasks in the router no teardown waits for it.
LEMMA NothingToGatherStep ==
    ASSUME ~InFlight, TypeOK, loop # "gather" /\ leaked = {}, [Next]_vars
    PROVE  (loop # "gather" /\ leaked = {})'
  <1> USE DEF TypeOK, At, Told
  <1>1. CASE Connecting
    BY <1>1 DEF Connecting, Attempt, LoopEnds, Dial, Dialled, DialFails, BeginTeardown,
                Handshaken, HandshakeFails, PublishReady
  <1>2. CASE TearingDown
    BY <1>2 DEF TearingDown, Notice, Unwatch, BeginTeardown, Gathered, Closed, LoopEnds,
                PublishUnready
  <1>3. CASE Cancelling
    BY <1>3 DEF Cancelling, CancelIdle, CancelActive, CancelSwallowed, CancelClosing,
                CancelGathering, BeginTeardown, LoopEnds
  <1>4. CASE CallbackStep \/ Unhealthy \/ (\E enable \in BOOLEAN : Stop(enable)) \/ UNCHANGED vars
    BY <1>4 DEF CallbackStep, Stopped, Publish, Unhealthy, Stop, tasks, vars
  <1>5. ASSUME NEW n \in Slots, PeerCloses(n) \/ ReaderEnds(n)
        PROVE  (loop # "gather" /\ leaked = {})'
    BY <1>5 DEF PeerCloses, ReaderEnds, tasks
  <1> QED
    BY <1>1, <1>2, <1>3, <1>4, <1>5 DEF Next

\* If the router never has a task to wait for, a disabled plugin has no socket open:
\* the await of router.stop() is the only way to leave one.
THEOREM QuietWithoutTasks == ASSUME ~InFlight PROVE Spec => []QuietWhenDisabled
  <1>1. Init => loop # "gather" /\ leaked = {}
    BY DEF Init
  <1>2. TypeOK /\ (loop # "gather" /\ leaked = {}) /\ [Next]_vars
            => (loop # "gather" /\ leaked = {})'
    BY NothingToGatherStep
  <1>3. TypeOK /\ LoopInv /\ (loop # "gather" /\ leaked = {}) => QuietWhenDisabled
    BY DEF TypeOK, LoopInv, OnlyCutShortTeardownsLeak, StopQuiesces, QuietWhenDisabled
  <1> QED
    BY <1>1, <1>2, <1>3, LoopInvariant, PTL DEF Spec

----------------------------------------------------------------------------
(* The abstract link.                                                      *)

LinkStep == [TheLink!Next]_(TheLink!vars)

LEMMA LinkInit == Init => TheLink!Init
  BY DEF Init, TheLink!Init, View

\* while no teardown is under way, before a step and after it
LEMMA ViewOpen ==
    ASSUME TypeOK, closer = None
    PROVE  View = IF transport = None THEN "none"
                  ELSE IF loop = "dial" THEN "dialling"
                  ELSE IF tr[transport] = "open" THEN "open" ELSE "dead"
  BY DEF View, TypeOK

LEMMA ViewClosing == ASSUME TypeOK, closer # None PROVE View = "closing"
  BY DEF View, TypeOK

\* a step that leaves loop, sockets and references alone is none of the link's
LEMMA LinkStutters ==
    ASSUME UNCHANGED <<loop, transport, closer, tr, connected>> PROVE LinkStep
  BY DEF LinkStep, TheLink!vars, View

\* a teardown that takes something away
LEMMA LinkTaken ==
    ASSUME TypeOK, TypeOK', NEW m, BeginTeardown(m), transport # None, closer = None,
           UNCHANGED connected
    PROVE  LinkStep
  <1>1. View \in {"dialling", "open", "dead"}
    BY ViewOpen
  <1>2. closer' # None
    BY DEF BeginTeardown
  <1>3. View' = "closing"
    BY <1>2 DEF View, TypeOK
  <1> QED
    BY <1>1, <1>3 DEF LinkStep, TheLink!Next, TheLink!TakeAway

\* a step before the next dial, or after the last teardown
LEMMA LinkAbsent ==
    ASSUME TypeOK, transport = None, closer = None, UNCHANGED <<transport, closer, connected>>
    PROVE  LinkStep
  <1>1. View = "none" /\ View' = "none"
    BY DEF View
  <1> QED
    BY <1>1 DEF LinkStep, TheLink!vars

\* a teardown that comes to its end
LEMMA LinkGone ==
    ASSUME closer # None, transport = None, closer' = None, UNCHANGED transport, connected' = FALSE
    PROVE  LinkStep
  <1>1. View = "closing" /\ View' = "none"
    BY DEF View
  <1> QED
    BY <1>1 DEF LinkStep, TheLink!Next, TheLink!Disconnect

LEMMA ConnectingLink == ASSUME TypeOK, TypeOK', LoopInv, Connecting PROVE LinkStep
  <1> USE DEF TypeOK, Up, At
  <1>1. CASE Attempt
    <2>1. ~connected
      BY <1>1 DEF Attempt, LoopInv, ConnectedIsCurrent, Dialling
    <2>2. transport = None /\ closer = None /\ UNCHANGED <<transport, closer, connected>>
      BY <1>1, <2>1, ZenonT(60) DEF Attempt, LoopEnds, ConnectedAfter
    <2> QED
      BY <2>2, LinkAbsent
  <1>2. ASSUME NEW n \in Slots, Dial(n) PROVE LinkStep
    <2>1. View = "none"
      BY <1>2 DEF Dial, View
    <2>2. View' = "dialling"
      BY <1>2 DEF Dial, View
    <2> QED
      BY <1>2, <2>1, <2>2 DEF Dial, LinkStep, TheLink!Next, TheLink!Dial
  <1>3. CASE Dialled
    <2>1. View = "dialling" /\ View' = "open"
      BY <1>3 DEF Dialled, View
    <2> QED
      BY <1>3, <2>1 DEF Dialled, LinkStep, TheLink!Next, TheLink!Open
  <1>4. CASE DialFails
    BY <1>4, LinkTaken DEF DialFails
  <1>5. CASE Handshaken
    <2>1. View \in {"open", "dead"} /\ View' = View
      BY <1>5 DEF Handshaken, View
    <2>2. ~connected /\ connected' = TRUE
      BY <1>5 DEF Handshaken, LoopInv, ConnectedIsCurrent, Dialling
    <2> QED
      BY <2>1, <2>2 DEF LinkStep, TheLink!Next, TheLink!Confirm
  <1>6. CASE HandshakeFails
    BY <1>6, LinkTaken DEF HandshakeFails
  <1>7. ASSUME NEW p, NEW g, NEW q, p \in Up, q \in Up, PublishReady(p, g, q) PROVE LinkStep
    <2>1. transport # None /\ closer = None /\ loop # "dial" /\ UNCHANGED <<tr, connected>>
      BY <1>7 DEF PublishReady
    <2>2. CASE BeginTeardown("failed")
      BY <2>1, <2>2, LinkTaken
    <2>3. CASE loop' = q /\ UNCHANGED <<transport, closer>>
      <3>1. loop' # "dial"
        BY <1>7, <2>3
      <3>2. View' = View
        BY <2>1, <2>3, <3>1 DEF View
      <3> QED
        BY <2>1, <3>2 DEF LinkStep, TheLink!vars
    <2> QED
      BY <1>7, <2>2, <2>3 DEF PublishReady
  <1> QED
    BY <1>1, <1>2, <1>3, <1>4, <1>5, <1>6, <1>7 DEF Connecting

LEMMA TearingDownLink == ASSUME TypeOK, TypeOK', LoopInv, TearingDown PROVE LinkStep
  <1> USE DEF TypeOK, Up, At
  <1>1. CASE Notice
    <2>1. View' = View
      BY <1>1 DEF Notice, View
    <2> QED
      BY <1>1, <2>1 DEF Notice, LinkStep, TheLink!vars
  <1>2. CASE Unwatch
    BY <1>2, LinkTaken DEF Unwatch
  <1>3. CASE Gathered
    <2>1. View' = View
      BY <1>3 DEF Gathered, View
    <2> QED
      BY <1>3, <2>1 DEF Gathered, LinkStep, TheLink!vars
  <1>4. CASE Closed
    BY <1>4, LinkGone DEF Closed, LoopEnds, ConnectedAfter
  <1>5. ASSUME NEW p, NEW g, NEW q, p \in {"unready_maid", "unready_chat"}, PublishUnready(p, g, q)
        PROVE  LinkStep
    <2>1. ~connected /\ transport = None /\ closer = None /\ UNCHANGED <<transport, closer>>
      BY <1>5 DEF PublishUnready, LoopInv, UnreadyInv
    <2>2. connected' = connected
      BY <1>5, <2>1, ZenonT(60) DEF PublishUnready, LoopEnds, ConnectedAfter
    <2> QED
      BY <2>1, <2>2, LinkAbsent
  <1> QED
    BY <1>1, <1>2, <1>3, <1>4, <1>5 DEF TearingDown

LEMMA CancellingLink == ASSUME TypeOK, TypeOK', LoopInv, Cancelling PROVE LinkStep
  <1> USE DEF TypeOK, Up
  <1>1. CASE CancelIdle
    <2>1. ~connected /\ transport = None /\ closer = None /\ UNCHANGED <<transport, closer>>
      BY <1>1 DEF CancelIdle, LoopInv, UnreadyInv, ConnectedIsCurrent, Dialling
    <2>2. connected' = connected
      BY <1>1, <2>1 DEF CancelIdle, LoopEnds, ConnectedAfter
    <2> QED
      BY <2>1, <2>2, LinkAbsent
  <1>2. CASE CancelActive
    BY <1>2, LinkTaken DEF CancelActive
  <1>3. CASE CancelSwallowed
    BY <1>3, LinkStutters DEF CancelSwallowed
  <1>4. CASE CancelClosing
    BY <1>4, LinkGone DEF CancelClosing, LoopEnds, ConnectedAfter
  <1>5. CASE CancelGathering
    BY <1>5, LinkGone DEF CancelGathering, LoopEnds, ConnectedAfter
  <1> QED
    BY <1>1, <1>2, <1>3, <1>4, <1>5 DEF Cancelling

LEMMA OutsideLink ==
    ASSUME TypeOK, LoopInv,
           \/ CallbackStep \/ Unhealthy
           \/ \E enable \in BOOLEAN : Stop(enable)
           \/ \E n \in Slots : PeerCloses(n) \/ ReaderEnds(n)
    PROVE  LinkStep
  <1> USE DEF TypeOK, Up
  <1>1. CASE Stopped
    <2>1. ~connected
      BY <1>1 DEF Stopped, Awaited, LoopInv, ConnectedIsCurrent
    <2>2. transport = None /\ closer = None /\ UNCHANGED <<transport, closer, connected>>
      BY <1>1, <2>1 DEF Stopped, Awaited, ConnectedAfter
    <2> QED
      BY <2>2, LinkAbsent
  <1>2. CASE Publish
    BY <1>2, LinkStutters DEF Publish
  <1>3. CASE Unhealthy
    BY <1>3, LinkStutters DEF Unhealthy, tasks
  <1>4. ASSUME NEW enable \in BOOLEAN, Stop(enable) PROVE LinkStep
    BY <1>4, LinkStutters DEF Stop
  <1>5. ASSUME NEW n \in Slots, PeerCloses(n) PROVE LinkStep
    <2>1. CASE closer = None /\ transport = n /\ loop # "dial"
      <3>1. View = "open" /\ View' = "dead"
        BY <1>5, <2>1 DEF PeerCloses, View, tasks
      <3> QED
        BY <1>5, <3>1 DEF PeerCloses, LinkStep, TheLink!Next, TheLink!Drop
    <2>2. CASE ~(closer = None /\ transport = n /\ loop # "dial")
      <3>1. View' = View
        BY <1>5, <2>2 DEF PeerCloses, View, tasks
      <3> QED
        BY <1>5, <3>1 DEF PeerCloses, LinkStep, TheLink!vars
    <2> QED
      BY <2>1, <2>2
  <1>6. ASSUME NEW n \in Slots, ReaderEnds(n) PROVE LinkStep
    <2>1. View' = View
      BY <1>6 DEF ReaderEnds, View, tasks
    <2> QED
      BY <1>6, <2>1 DEF ReaderEnds, LinkStep, TheLink!vars
  <1> QED
    BY <1>1, <1>2, <1>3, <1>4, <1>5, <1>6 DEF CallbackStep

\* Loop, callbacks, cancellations and sockets together implement the abstract link
\* that the requests are written against.
THEOREM LoopKeepsLink == Spec => KeepsLink
  <1>1. TypeOK /\ LoopInv /\ TypeOK' /\ [Next]_vars => LinkStep
    <2> SUFFICES ASSUME TypeOK, LoopInv, TypeOK', [Next]_vars PROVE LinkStep
      OBVIOUS
    <2>1. CASE UNCHANGED vars
      BY <2>1, LinkStutters DEF vars
    <2> QED
      BY <2>1, ConnectingLink, TearingDownLink, CancellingLink, OutsideLink DEF Next
  <1>2. TypeOK /\ LoopInv /\ TypeOK' /\ [Next]_vars => [TheLink!Next]_(TheLink!vars)
    BY <1>1 DEF LinkStep
  <1> QED
    BY <1>2, LinkInit, LoopInvariant, PTL DEF Spec, KeepsLink, TheLink!Spec
=============================================================================
