\* Violated: a cancelled hook leaves a begun turn to nobody.
CONSTANTS
    f1 = f1 f2 = f2 f3 = f3
    t1 = t1 t2 = t2 t3 = t3
    s1 = s1
    None = None
    Frames = {f1}
    Turns = {t1}
    Sessions = {s1}
    Calls = {}
    TurnOf <- RetryTurnOf
    SessionOf <- OneSession
    Foreign = {}
    Unroutable = {}
    MaxPending = 2
    MaxEmoji = 0
    HookTimeouts = TRUE
SPECIFICATION Spec
INVARIANTS NoOrphanedTurn
CHECK_DEADLOCK FALSE
