\* Violated: another call closes the leased turn, and the round replies to a newer one.
CONSTANTS
    f1 = f1 f2 = f2 f3 = f3
    t1 = t1 t2 = t2 t3 = t3
    s1 = s1
    None = None
    Frames = {f1, f2}
    Turns = {t1, t2}
    Sessions = {s1}
    Calls = {c1}
    TurnOf <- DistinctTurnOf
    SessionOf <- OneSession
    Foreign = {}
    Unroutable = {}
    MaxPending = 2
    MaxEmoji = 0
    HookTimeouts = FALSE
SPECIFICATION Spec
INVARIANTS RoundRepliesToItsSnapshot
CHECK_DEADLOCK FALSE
