CONSTANTS
    Administrators = {p1}
    Users = {u1}
    Agents = {a1, a2}
    DefaultAgent = a1
    Models = {m1, m2}
    Servers = {s1}
    Conversations = {c1}
    BootModels = {m1}
    MaxRestarts = 1
    NoModel = NoModel
    NoAgent = NoAgent
    NoConversation = NoConversation
SPECIFICATION SubjectSpec
INVARIANTS IInv ReadyUntilRestart ReferencedModelsExist RunningHasRun
CHECK_DEADLOCK FALSE
