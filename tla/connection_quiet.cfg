\* As connection.cfg: a disabled plugin with a socket still open.
CONSTANTS
    Slots = {n1, n2, n3}
    None = None
    InFlight = TRUE
    BuiltinTimeout = TRUE
    InitialDelay = 1
    MaxDelay = 3
    MaxIndex = 1
SPECIFICATION Spec
INVARIANT QuietWhenDisabled
CHECK_DEADLOCK FALSE
