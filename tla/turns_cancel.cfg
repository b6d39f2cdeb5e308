\* A request, its retry and a frame for another maid; the host cancels late calls.
CONSTANTS
    f1 = f1 f2 = f2 f3 = f3
    t1 = t1 t2 = t2 t3 = t3
    s1 = s1
    None = None
    Frames = {f1, f2, f3}
    Turns = {t1, t2}
    Sessions = {s1}
    Calls = {c1}
    TurnOf <- RetryTurnOf
    SessionOf <- OneSession
    Foreign = {f2}
    Unroutable = {f1, f3}
    MaxPending = 1
    MaxEmoji = 1
    HookTimeouts = TRUE
SPECIFICATION Spec
INVARIANTS TypeOK AtMostOneTerminal LeaseNeverStale TeardownReleasesAll NothingStagedAfterTerminal
PROPERTIES KeepsLedger TeardownStopsCompletions
CHECK_DEADLOCK FALSE
