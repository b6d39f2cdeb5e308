\* Three frames in one room, the third a redelivery of the first; the other room is silent.
CONSTANTS
    f1 = f1 f2 = f2 f3 = f3
    m1 = m1 m2 = m2
    r1 = r1 r2 = r2
    Frames = {f1, f2, f3}
    MessageIds = {m1, m2}
    Sessions = {r1, r2}
    MessageOf <- MCMessageOf
    RoomOf <- MCRoomOf
SPECIFICATION Spec
INVARIANTS TypeOK AnswersInOrder AnsweredOnce DroppedForAReason
CHECK_DEADLOCK FALSE
