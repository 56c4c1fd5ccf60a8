CONSTANTS
    Conversations = {c1}
    DispatchRequests = {d1}
    StreamRequests = {s1}
    CancelRequests = {x1}
    StopRequests = {}
    DeleteRequests = {e1}
    Workers = {w1}
    DispatchModes = {"celery"}
    PublishFaults = {"lost", "delivered"}
    MaxRuns = 1
    MaxProgress = 1
    MaxCrashes = 1
    ClientsLeave = TRUE
    NoConversation = NoConversation
SPECIFICATION OnceSpec
INVARIANTS TypeOK IInv StatusIsLogged ReplyInTranscript StartedAtMostOnce
PROPERTIES NeverRequeued
CHECK_DEADLOCK FALSE
