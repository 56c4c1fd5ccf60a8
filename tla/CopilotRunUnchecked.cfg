CONSTANTS
    Administrators = {p1}
    Users = {u1}
    Agents = {a1}
    DefaultAgent = a1
    Models = {m1, m2}
    Servers = {}
    Conversations = {c1}
    BootModels = {}
    MaxRestarts = 0
    NoModel = NoModel
    NoAgent = NoAgent
    NoConversation = NoConversation
SPECIFICATION Spec
PROPERTIES RunsUseAllowedModels
CHECK_DEADLOCK FALSE
