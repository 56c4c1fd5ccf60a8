CONSTANTS
    Conversations = {c1}
    DispatchRequests = {d1, d2}
    StreamRequests = {s1}
    CancelRequests = {}
    StopRequests = {}
    DeleteRequests = {e1}
    Workers = {w1}
    DispatchModes = {"celery", "inline"}
    PublishFaults = {"lost"}
    MaxRuns = 3
    MaxProgress = 1
    MaxCrashes = 1
    ClientsLeave = FALSE
    NoConversation = NoConversation
SPECIFICATION SerialSpec
INVARIANTS OneActiveRun
PROPERTIES PromiseKept
CHECK_DEADLOCK FALSE
