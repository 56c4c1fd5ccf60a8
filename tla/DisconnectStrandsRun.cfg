CONSTANTS
    Conversations = {c1}
    DispatchRequests = {}
    StreamRequests = {s1}
    CancelRequests = {}
    StopRequests = {}
    DeleteRequests = {}
    Workers = {w1}
    DispatchModes = {"celery"}
    PublishFaults = {}
    MaxRuns = 1
    MaxProgress = 0
    MaxCrashes = 0
    ClientsLeave = TRUE
    NoConversation = NoConversation
SPECIFICATION FairSpec
PROPERTIES EveryRunSettles
CHECK_DEADLOCK FALSE
