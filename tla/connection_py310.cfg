\* Python 3.10, which pyproject.toml allows: the first reconnect ends the loop.
CONSTANTS
    Slots = {n1, n2, n3}
    None = None
    InFlight = FALSE
    BuiltinTimeout = FALSE
    InitialDelay = 1
    MaxDelay = 5
    MaxIndex = 4
SPECIFICATION Spec
INVARIANT RunsWhileEnabled
CHECK_DEADLOCK FALSE
