\* Python 3.11 or later; the router has tasks to wait for.
CONSTANTS
    Slots = {n1, n2, n3}
    None = None
    InFlight = TRUE
    BuiltinTimeout = TRUE
    InitialDelay = 1
    MaxDelay = 5
    MaxIndex = 4
SPECIFICATION FairSpec
INVARIANTS TypeOK OnlyCutShortTeardownsLeak StopQuiesces
PROPERTIES KeepsLink OldCloseIgnored PausesGrow KeepsTrying StopsComplete DeadIsReplaced
CHECK_DEADLOCK FALSE
