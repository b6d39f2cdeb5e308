----------------------- MODULE PendingRequestsProofs -----------------------
(***************************************************************************)
(* Theorems about PendingRequests, for any callers and any sharing of ids  *)
(* that RequestsAssumption allows.                                         *)
(***************************************************************************)
EXTENDS PendingRequests, TLAPS

USE RequestsAssumption

\* a caller whose future has a result is no longer listed
AnsweredIsUnlisted == \A c \in Callers : future[c] = "done" => pending[IdOf[c]] # c

\* while there is no started transport, the table is empty and the flag is down
QuietWithoutLink == link \in {"none", "dialling"} =>
    ~connected /\ \A i \in Ids : pending[i] = None

\* a caller that has its outcome holds no future
ReturnedHasNoFuture == \A c \in Callers : pc[c] = "returned" => future[c] = "none"

\* a handshake under way is the only one, on a connection not confirmed yet
OneHandshake == \A c \in Callers : KindOf[c] = "initialize" /\ pc[c] \in Suspended =>
    /\ ~connected
    /\ link \in {"open", "dead"}
    /\ \A d \in Callers : KindOf[d] = "initialize" /\ pc[d] \in Suspended => d = c

\* a frame not sent yet has no future, except that of an earlier handshake
NewHasNoFuture == \A c \in Callers :
    pc[c] = "new" /\ KindOf[c] # "initialize" => future[c] = "none"

TableInv == EntryHasItsCaller /\ AnsweredIsUnlisted /\ QuietWithoutLink /\ WaiterIsListed
HandshakeInv == NewHasNoFuture /\ ReturnedHasNoFuture /\ OneHandshake /\ ConnectedByHandshake

----------------------------------------------------------------------------
(* Types.                                                                  *)

LEMMA TypeInit == Init => TypeOK
  <1> SUFFICES ASSUME Init PROVE TypeOK
    OBVIOUS
  <1>1. \A c \in Callers : future[c] = "none"
    BY DEF Init
  <1> QED
    BY <1>1 DEF Init, TypeOK

LEMMA AskTypeStep ==
    ASSUME TypeOK, NEW c \in Callers, AskStep(c) \/ Cancel(c) \/ Expire(c) \/ Started(c)
    PROVE  TypeOK'
  <1>1. CASE Refuse(c)
    BY <1>1 DEF Refuse, TypeOK, Types
  <1>2. CASE RefuseDuplicate(c)
    BY <1>2 DEF RefuseDuplicate, TypeOK
  <1>3. CASE FailAtOnce(c)
    BY <1>3 DEF FailAtOnce, TypeOK
  <1>4. CASE Issue(c)
    BY <1>4 DEF Issue, Register, TypeOK
  <1>5. CASE Cancel(c)
    BY <1>5 DEF Cancel, LinkAfter, TypeOK
  <1>6. CASE Expire(c)
    BY <1>6 DEF Expire, TypeOK
  <1>7. CASE Started(c)
    BY <1>7 DEF Started, TheLink!Open, Register, TypeOK
  <1> QED
    BY <1>1, <1>2, <1>3, <1>4, <1>5, <1>6, <1>7 DEF AskStep

LEMMA ResumeTypeStep ==
    ASSUME TypeOK, NEW c \in Callers, Resume(c)
    PROVE  TypeOK'
  <1>1. CASE SendOk(c)
    BY <1>1 DEF SendOk, TypeOK
  <1>2. CASE SendFails(c)
    BY <1>2 DEF SendFails, Pop, Forgotten, LinkAfter, TypeOK
  <1>3. CASE Return(c)
    BY <1>3 DEF Return, Reported, Forgotten, LinkAfter, TypeOK, Types
  <1>4. CASE TimeOut(c)
    BY <1>4 DEF TimeOut, Pop, Forgotten, LinkAfter, TypeOK, Types
  <1> QED
    BY <1>1, <1>2, <1>3, <1>4 DEF Resume

LEMMA LinkTypeStep ==
    ASSUME TypeOK, LinkStep
    PROVE  TypeOK'
  <1>1. CASE Dial
    BY <1>1 DEF Dial, TheLink!Dial, TypeOK
  <1>2. CASE Drop
    BY <1>2 DEF Drop, TheLink!Drop, TypeOK
  <1>3. CASE TakeAway
    BY <1>3 DEF TakeAway, TheLink!TakeAway, TypeOK
  <1>4. CASE Disconnected
    BY <1>4 DEF Disconnected, Disconnect, TheLink!Disconnect, TypeOK, Types
  <1> QED
    BY <1>1, <1>2, <1>3, <1>4 DEF LinkStep

LEMMA TypeStep == TypeOK /\ [Next]_vars => TypeOK'
  <1> SUFFICES ASSUME TypeOK, [Next]_vars PROVE TypeOK'
    OBVIOUS
  <1>1. ASSUME NEW i \in Ids, NEW type \in Types, Answer(i, type)
        PROVE  TypeOK'
    BY <1>1 DEF Answer, Listening, TypeOK
  <1>2. CASE UNCHANGED vars
    BY <1>2 DEF vars, TypeOK
  <1> QED
    BY <1>1, <1>2, AskTypeStep, ResumeTypeStep, LinkTypeStep DEF Next

\* Every reachable state has its type: in particular, no future is marked done
\* without the type of the frame it holds.
THEOREM TypeCorrect == Spec => []TypeOK
  BY TypeInit, TypeStep, PTL DEF Spec

----------------------------------------------------------------------------
(* The table.                                                              *)

LEMMA TableInit == Init => TableInv
  BY DEF Init, TableInv, EntryHasItsCaller, AnsweredIsUnlisted, QuietWithoutLink,
         WaiterIsListed, Suspended

LEMMA AskTableStep ==
    ASSUME TypeOK, TableInv, NEW c \in Callers,
           AskStep(c) \/ Cancel(c) \/ Expire(c) \/ Started(c)
    PROVE  TableInv'
  <1> USE DEF TypeOK, TableInv, EntryHasItsCaller, AnsweredIsUnlisted, QuietWithoutLink,
              WaiterIsListed, Unshared, Suspended
  <1>1. CASE Refuse(c)
    BY <1>1 DEF Refuse
  <1>2. CASE RefuseDuplicate(c)
    BY <1>2 DEF RefuseDuplicate, Asks
  <1>3. CASE FailAtOnce(c)
    BY <1>3 DEF FailAtOnce, Asks
  <1>4. CASE Issue(c)
    BY <1>4 DEF Issue, Register, Asks
  <1>5. CASE Cancel(c)
    BY <1>5 DEF Cancel, LinkAfter
  <1>6. CASE Expire(c)
    BY <1>6 DEF Expire, Timed
  <1>7. CASE Started(c)
    BY <1>7 DEF Started, TheLink!Open, Register
  <1> QED
    BY <1>1, <1>2, <1>3, <1>4, <1>5, <1>6, <1>7 DEF AskStep

LEMMA ResumeTableStep ==
    ASSUME TypeOK, TableInv, HandshakeInv, NEW c \in Callers, Resume(c)
    PROVE  TableInv'
  <1> USE DEF TypeOK, TableInv, EntryHasItsCaller, AnsweredIsUnlisted, QuietWithoutLink,
              WaiterIsListed, Unshared, Suspended
  <1>1. CASE SendOk(c)
    BY <1>1 DEF SendOk
  <1>2. CASE SendFails(c)
    BY <1>2 DEF SendFails, Pop, Forgotten, LinkAfter
  <1>3. CASE Return(c)
    BY <1>3 DEF Return, Forgotten, LinkAfter, HandshakeInv, OneHandshake
  <1>4. CASE TimeOut(c)
    BY <1>4 DEF TimeOut, Pop, Forgotten, LinkAfter
  <1> QED
    BY <1>1, <1>2, <1>3, <1>4 DEF Resume

LEMMA LinkTableStep ==
    ASSUME TypeOK, TableInv,
           LinkStep \/ \E i \in Ids, type \in Types : Answer(i, type)
    PROVE  TableInv'
  <1> USE DEF TypeOK, TableInv, EntryHasItsCaller, AnsweredIsUnlisted, QuietWithoutLink,
              WaiterIsListed, Unshared, Suspended
  <1>1. CASE Dial
    BY <1>1 DEF Dial, TheLink!Dial
  <1>2. CASE Drop
    BY <1>2 DEF Drop, TheLink!Drop
  <1>3. CASE TakeAway
    BY <1>3 DEF TakeAway, TheLink!TakeAway
  <1>4. CASE Disconnected
    BY <1>4 DEF Disconnected, Disconnect, TheLink!Disconnect
  <1>5. ASSUME NEW i \in Ids, NEW type \in Types, Answer(i, type)
        PROVE  TableInv'
    BY <1>5 DEF Answer, Listening
  <1> QED
    BY <1>1, <1>2, <1>3, <1>4, <1>5 DEF LinkStep

LEMMA TableStep == TypeOK /\ TableInv /\ HandshakeInv /\ [Next]_vars => TableInv'
  <1> SUFFICES ASSUME TypeOK, TableInv, HandshakeInv, [Next]_vars PROVE TableInv'
    OBVIOUS
  <1>1. CASE UNCHANGED vars
    BY <1>1 DEF vars, TableInv, EntryHasItsCaller, AnsweredIsUnlisted, QuietWithoutLink,
                WaiterIsListed
  <1> QED
    BY <1>1, AskTableStep, ResumeTableStep, LinkTableStep DEF Next

----------------------------------------------------------------------------
(* The handshake.                                                          *)

LEMMA HandshakeInit == Init => HandshakeInv
  BY DEF Init, HandshakeInv, NewHasNoFuture, ReturnedHasNoFuture, OneHandshake,
         ConnectedByHandshake, Suspended

LEMMA AskHandshakeStep ==
    ASSUME TypeOK, TableInv, HandshakeInv, NEW c \in Callers,
           AskStep(c) \/ Cancel(c) \/ Expire(c) \/ Started(c)
    PROVE  HandshakeInv'
  <1> USE DEF TypeOK, HandshakeInv, NewHasNoFuture, ReturnedHasNoFuture, OneHandshake,
              ConnectedByHandshake, Suspended, Present
  <1>1. CASE Refuse(c)
    BY <1>1 DEF Refuse
  <1>2. CASE RefuseDuplicate(c)
    BY <1>2 DEF RefuseDuplicate, Asks
  <1>3. CASE FailAtOnce(c)
    BY <1>3 DEF FailAtOnce, Asks
  <1>4. CASE Issue(c)
    BY <1>4 DEF Issue, Register, Asks
  <1>5. CASE Cancel(c)
    BY <1>5 DEF Cancel, LinkAfter
  <1>6. CASE Expire(c)
    BY <1>6 DEF Expire, Timed
  <1>7. CASE Started(c)
    BY <1>7 DEF Started, TheLink!Open, Register, TableInv, QuietWithoutLink
  <1> QED
    BY <1>1, <1>2, <1>3, <1>4, <1>5, <1>6, <1>7 DEF AskStep

LEMMA ResumeHandshakeStep ==
    ASSUME TypeOK, HandshakeInv, NEW c \in Callers, Resume(c)
    PROVE  HandshakeInv'
  <1> USE DEF TypeOK, HandshakeInv, NewHasNoFuture, ReturnedHasNoFuture, OneHandshake,
              ConnectedByHandshake, Suspended, Present
  <1>1. CASE SendOk(c)
    BY <1>1 DEF SendOk
  <1>2. CASE SendFails(c)
    BY <1>2 DEF SendFails, Forgotten, LinkAfter
  <1>3. CASE Return(c)
    BY <1>3 DEF Return, Forgotten, LinkAfter, Reported
  <1>4. CASE TimeOut(c)
    BY <1>4 DEF TimeOut, Forgotten, LinkAfter
  <1> QED
    BY <1>1, <1>2, <1>3, <1>4 DEF Resume

LEMMA LinkHandshakeStep ==
    ASSUME TypeOK, TableInv, HandshakeInv,
           LinkStep \/ \E i \in Ids, type \in Types : Answer(i, type)
    PROVE  HandshakeInv'
  <1> USE DEF TypeOK, TableInv, HandshakeInv, NewHasNoFuture, ReturnedHasNoFuture,
              OneHandshake, ConnectedByHandshake, Suspended, Present, QuietWithoutLink
  <1>1. CASE Dial
    BY <1>1 DEF Dial, TheLink!Dial
  <1>2. CASE Drop
    BY <1>2 DEF Drop, TheLink!Drop
  <1>3. CASE TakeAway
    BY <1>3 DEF TakeAway, TheLink!TakeAway
  <1>4. CASE Disconnected
    BY <1>4 DEF Disconnected, Disconnect, TheLink!Disconnect
  <1>5. ASSUME NEW i \in Ids, NEW type \in Types, Answer(i, type)
        PROVE  HandshakeInv'
    BY <1>5 DEF Answer, Listening
  <1> QED
    BY <1>1, <1>2, <1>3, <1>4, <1>5 DEF LinkStep

LEMMA HandshakeStep == TypeOK /\ TableInv /\ HandshakeInv /\ [Next]_vars => HandshakeInv'
  <1> SUFFICES ASSUME TypeOK, TableInv, HandshakeInv, [Next]_vars PROVE HandshakeInv'
    OBVIOUS
  <1>1. CASE UNCHANGED vars
    BY <1>1 DEF vars, HandshakeInv, NewHasNoFuture, ReturnedHasNoFuture, OneHandshake,
                ConnectedByHandshake, Present
  <1> QED
    BY <1>1, AskHandshakeStep, ResumeHandshakeStep, LinkHandshakeStep DEF Next

\* The inductive invariant: the table, the futures and the handshake agree.
THEOREM RequestsInvariant == Spec => [](TypeOK /\ TableInv /\ HandshakeInv)
  <1>1. Init => TypeOK /\ TableInv /\ HandshakeInv
    BY TypeInit, TableInit, HandshakeInit
  <1>2. TypeOK /\ TableInv /\ HandshakeInv /\ [Next]_vars
            => (TypeOK /\ TableInv /\ HandshakeInv)'
    BY TypeStep, TableStep, HandshakeStep
  <1> QED
    BY <1>1, <1>2, PTL DEF Spec

\* The table never lists a request whose caller has returned or raised.
THEOREM EntriesHaveCallers == Spec => []EntryHasItsCaller
  <1>1. TableInv => EntryHasItsCaller
    BY DEF TableInv
  <1> QED
    BY <1>1, RequestsInvariant, PTL

\* A caller with an id of its own that waits can be found by its answer.
THEOREM WaitersAreListed == Spec => []WaiterIsListed
  <1>1. TableInv => WaiterIsListed
    BY DEF TableInv
  <1> QED
    BY <1>1, RequestsInvariant, PTL

\* No caller waits on a connection whose disconnect has been processed.
THEOREM DisconnectReleases == Spec => []DisconnectReleasesAll
  <1>1. TypeOK /\ TableInv => DisconnectReleasesAll
    BY DEF TypeOK, TableInv, QuietWithoutLink, WaiterIsListed, DisconnectReleasesAll, Unshared
  <1> QED
    BY <1>1, RequestsInvariant, PTL

\* connected is true of a present transport only after its own handshake.
THEOREM ConnectedMeansShaken == Spec => []ConnectedByHandshake
  <1>1. HandshakeInv => ConnectedByHandshake
    BY DEF HandshakeInv
  <1> QED
    BY <1>1, RequestsInvariant, PTL

----------------------------------------------------------------------------
(* Answers.                                                                *)

LEMMA AnswerStep == TypeOK /\ ApiAnswerFits /\ [Next]_vars => ApiAnswerFits'
  <1> SUFFICES ASSUME TypeOK, ApiAnswerFits, [Next]_vars PROVE ApiAnswerFits'
    OBVIOUS
  <1> USE DEF TypeOK, ApiAnswerFits
  <1>1. ASSUME NEW c \in Callers,
               \/ AskStep(c) \/ Resume(c) \/ Expire(c) \/ Cancel(c) \/ Started(c)
        PROVE  ApiAnswerFits'
    <2>1. CASE UNCHANGED result
      BY <2>1
    <2>2. CASE Refuse(c)
      BY <2>2 DEF Refuse
    <2>3. CASE SendFails(c)
      BY <2>3 DEF SendFails
    <2>4. CASE Return(c)
      BY <2>4 DEF Return, Reported
    <2>5. CASE TimeOut(c)
      BY <2>5 DEF TimeOut
    <2> QED
      BY <1>1, <2>1, <2>2, <2>3, <2>4, <2>5
         DEF AskStep, Resume, RefuseDuplicate, FailAtOnce, Issue, SendOk, Expire, Cancel,
             Started, TheLink!Open
  <1>2. ASSUME NEW i \in Ids, NEW type \in Types, Answer(i, type)
        PROVE  ApiAnswerFits'
    BY <1>2 DEF Answer, Listening, Matches, Types
  <1>3. CASE LinkStep
    BY <1>3 DEF LinkStep, Dial, TheLink!Dial, Drop, TheLink!Drop, TakeAway, TheLink!TakeAway,
                Disconnected, Disconnect, TheLink!Disconnect
  <1>4. CASE UNCHANGED vars
    BY <1>4 DEF vars
  <1> QED
    BY <1>1, <1>2, <1>3, <1>4 DEF Next

\* A caller of maid.api never gets the answer to a frame of another kind.
THEOREM ApiAnswersFit == Spec => []ApiAnswerFits
  <1>1. Init => ApiAnswerFits
    BY DEF Init, ApiAnswerFits
  <1> QED
    BY <1>1, AnswerStep, TypeCorrect, PTL DEF Spec

LEMMA LinkUseStep ==
    ASSUME TypeOK, TableInv, HandshakeInv, [Next]_vars
    PROVE  [TheLink!Next]_(TheLink!vars)
  <1> USE DEF TheLink!vars, TheLink!Next
  <1>1. ASSUME NEW c \in Callers, AskStep(c)
        PROVE  UNCHANGED <<link, connected>>
    BY <1>1 DEF AskStep, Refuse, RefuseDuplicate, FailAtOnce, Issue
  <1>2. ASSUME NEW c \in Callers, pc[c] \in Suspended, link' = LinkAfter(c, FALSE),
               UNCHANGED connected
        PROVE  [TheLink!Next]_(TheLink!vars)
    BY <1>2 DEF HandshakeInv, OneHandshake, LinkAfter, TheLink!TakeAway
  <1>3. ASSUME NEW c \in Callers, Return(c)
        PROVE  [TheLink!Next]_(TheLink!vars)
    <2>1. CASE KindOf[c] # "initialize"
      BY <1>3, <2>1 DEF Return, LinkAfter, TypeOK
    <2>2. CASE KindOf[c] = "initialize"
      <3>1. ~connected /\ link \in {"open", "dead"}
        BY <1>3, <2>2 DEF Return, Suspended, HandshakeInv, OneHandshake
      <3> QED
        BY <1>3, <2>2, <3>1 DEF Return, LinkAfter, TypeOK, TheLink!Confirm, TheLink!TakeAway
    <2> QED
      BY <2>1, <2>2
  <1>4. ASSUME NEW c \in Callers, Resume(c)
        PROVE  [TheLink!Next]_(TheLink!vars)
    BY <1>2, <1>3, <1>4 DEF Resume, SendOk, SendFails, TimeOut, Suspended
  <1>5. ASSUME NEW c \in Callers, Expire(c) \/ Cancel(c)
        PROVE  [TheLink!Next]_(TheLink!vars)
    BY <1>2, <1>5 DEF Expire, Cancel
  <1>6. ASSUME NEW c \in Callers, Started(c)
        PROVE  TheLink!Open /\ UNCHANGED connected
    BY <1>6 DEF Started
  <1>7. ASSUME NEW i \in Ids, NEW type \in Types, Answer(i, type)
        PROVE  UNCHANGED <<link, connected>>
    BY <1>7 DEF Answer
  <1>8. CASE LinkStep
    BY <1>8 DEF LinkStep, Dial, Drop, TakeAway, Disconnected, Disconnect
  <1>9. CASE UNCHANGED vars
    BY <1>9 DEF vars
  <1> QED
    BY <1>1, <1>4, <1>5, <1>6, <1>7, <1>8, <1>9 DEF Next

\* The connection that the requests are checked against makes only the steps of
\* Link; LoopKeepsLink of ConnectionProofs says that of the loop and its sockets.
THEOREM RequestsKeepLink == Spec => TheLink!Spec
  <1>1. Init => TheLink!Init
    BY DEF Init, TheLink!Init
  <1> QED
    BY <1>1, LinkUseStep, RequestsInvariant, PTL DEF Spec, TheLink!Spec

LEMMA OutcomeStep ==
    ASSUME TypeOK, [Next]_vars, NEW c \in Callers,
           future[c] \in {"done", "cancelled"}, pc'[c] = pc[c]
    PROVE  future'[c] = future[c]
  <1> USE DEF TypeOK
  <1>1. ASSUME NEW d \in Callers,
               \/ AskStep(d) \/ Resume(d) \/ Expire(d) \/ Cancel(d) \/ Started(d)
        PROVE  future'[c] = future[c]
    <2>1. CASE UNCHANGED future
      BY <2>1
    <2>2. CASE Issue(d) \/ Started(d)
      BY <2>2 DEF Issue, Started, TheLink!Open, Asks, Register
    <2>3. CASE SendFails(d) \/ Return(d) \/ TimeOut(d)
      <3>1. pc[d] \in Suspended /\ pc'[d] \notin Suspended
        BY <2>3 DEF SendFails, Return, TimeOut, Suspended
      <3>2. future' = Forgotten(d)
        BY <2>3 DEF SendFails, Return, TimeOut
      <3> QED
        BY <3>1, <3>2 DEF Forgotten
    <2>4. CASE Expire(d) \/ Cancel(d)
      BY <2>4 DEF Expire, Cancel, Timed
    <2> QED
      BY <1>1, <2>1, <2>2, <2>3, <2>4
         DEF AskStep, Resume, Refuse, RefuseDuplicate, FailAtOnce, SendOk
  <1>2. ASSUME NEW i \in Ids, NEW type \in Types, Answer(i, type)
        PROVE  future'[c] = future[c]
    BY <1>2 DEF Answer, Listening
  <1>3. CASE LinkStep
    BY <1>3 DEF LinkStep, Dial, TheLink!Dial, Drop, TheLink!Drop, TakeAway, TheLink!TakeAway,
                Disconnected, Disconnect, TheLink!Disconnect
  <1>4. CASE UNCHANGED vars
    BY <1>4 DEF vars
  <1> QED
    BY <1>1, <1>2, <1>3, <1>4 DEF Next

\* No answer, disconnect or timer touches a future that has an outcome.
THEOREM OutcomesAreFinal == Spec => OutcomesStand
  <1>1. TypeOK /\ [Next]_vars =>
            [\A c \in Callers :
                future[c] \in {"done", "cancelled"} /\ pc'[c] = pc[c] => future'[c] = future[c]]_vars
    BY OutcomeStep
  <1> QED
    BY <1>1, TypeCorrect, PTL DEF Spec, OutcomesStand
============================================================================
