CONSTANTS
    Conversations = {c1}
    DispatchRequests = {d1, d2}
    StreamRequests = {s1}
    CancelRequests = {x1}
    StopRequests = {x2}
    DeleteRequests = {}
    Workers = {w1}
    DispatchModes = {"celery", "inline"}
    PublishFaults = {"lost"}
    MaxRuns = 2
    MaxProgress = 1
    MaxCrashes = 0
    ClientsLeave = FALSE
    NoConversation = NoConversation
SPECIFICATION PairSpec
INVARIANTS ReplayGivesStatus OneReplyPerRun
PROPERTIES EveryRunSettles EveryConversationIsReleased
CHECK_DEADLOCK FALSE
