\* Three different turns for two places; nobody cancels.
CONSTANTS
    f1 = f1 f2 = f2 f3 = f3
    t1 = t1 t2 = t2 t3 = t3
    s1 = s1
    None = None
    Frames = {f1, f2, f3}
    Turns = {t1, t2, t3}
    Sessions = {s1}
    Calls = {}
    TurnOf <- DistinctTurnOf
    SessionOf <- OneSession
    Foreign = {}
    Unroutable = {f1}
    MaxPending = 2
    MaxEmoji = 0
    HookTimeouts = FALSE
SPECIFICATION Spec
INVARIANTS IndexesAgree OpenTurnsBounded ReplyLeavesNoOlderTurn
CHECK_DEADLOCK FALSE
