\* Violated: the retry of a closed turn drops out of the index.
CONSTANTS
    f1 = f1 f2 = f2 f3 = f3
    t1 = t1 t2 = t2 t3 = t3
    s1 = s1
    None = None
    Frames = {f1, f3}
    Turns = {t1}
    Sessions = {s1}
    Calls = {}
    TurnOf <- RetryTurnOf
    SessionOf <- OneSession
    Foreign = {}
    Unroutable = {}
    MaxPending = 2
    MaxEmoji = 0
    HookTimeouts = FALSE
SPECIFICATION Spec
INVARIANTS HookReachesRoutedTurn
CHECK_DEADLOCK FALSE
