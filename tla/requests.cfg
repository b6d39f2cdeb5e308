\* Connections come and go; a maid.api call; a chat frame and its retry under one id.
CONSTANTS
    i1 = i1 a1 = a1 h1 = h1 h2 = h2
    x1 = x1 x2 = x2 x3 = x3
    None = None
    Callers = {i1, a1, h1, h2}
    Ids = {x1, x2, x3}
    IdOf <- MCIdOf
    KindOf <- MCKindOf
    Cancellable = {i1, h1}
    BuiltinTimeout = TRUE
SPECIFICATION FairSpec
INVARIANTS TypeOK EntryHasItsCaller DisconnectReleasesAll ConnectedByHandshake
PROPERTIES OutcomesStand EveryCallerReturns
CHECK_DEADLOCK FALSE
