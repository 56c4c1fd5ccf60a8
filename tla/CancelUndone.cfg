CONSTANTS
    Conversations = {c1}
    DispatchRequests = {d1}
    StreamRequests = {}
    CancelRequests = {x1}
    StopRequests = {}
    DeleteRequests = {}
    Workers = {w1}
    DispatchModes = {"celery"}
    PublishFaults = {}
    MaxRuns = 1
    MaxProgress = 0
    MaxCrashes = 0
    ClientsLeave = FALSE
    NoConversation = NoConversation
SPECIFICATION Spec
PROPERTIES CancelledIsFinal
CHECK_DEADLOCK FALSE
