\* Four frames within two milliseconds, of identities that share ids; or one turn
\* request, with what the model proposes for it.
CONSTANTS
    Names = {1, 2}
    Absent = 0
    DefaultId = 9
    Senders <- MCSenders
    Flags <- MCFlags
    Revisions = {1, 2}
    Registries = {1, 2}
    MaxFrames = 4
    MaxTime = 2
    Words <- MCWords
    Blank = ""
    Null = "<null>"
    Odd = "<odd>"
    Folded <- MCFolded
    Upper <- MCUpper
    Booleans = {"True"}
    Numbers <- MCNumbers
    SummaryLimit = 2
    EnumLimit = 2
    ChoiceLimit = 2
    JavaDefault = "java"
    ClientDefault = "client"
    Maid = "m1"
    Requests <- MCRequests
    ProposalLists <- MCProposalLists
SPECIFICATION MCSpec
INVARIANTS TypeOK DefaultReadIsNewest DefaultReadIsRegistered GreeterIsReadable LastWordDecides AnswerFits LostOnlyForChatText PlanIsOffered ShownIsPlannable
CHECK_DEADLOCK FALSE
