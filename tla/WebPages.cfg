CONSTANTS
    a1 = a1
    b1 = b1
    A = A
    B = B
    Users = {A, B}
    NoToken = NoToken
    NoUser = NoUser
    NoFetch = NoFetch
    MaxInFlight = 1
    MaxConversations = 3
    ListLimit = 2
    Drafts = {d1, d2}
    Conversations = {c1, c2}
    NoConversation = NoConversation
    MaxRuns = 3
    RunLimit = 2
    Texts = {x, y}
    MaxSends = 2
    Numbers = {n0, n7}
    Words = {w}
    Medium = Medium
    Docker = Docker
    Local = Local
    Bad = Bad
    Blank = Blank
    Default = Default
    Absent = Absent
    MaxAgents = 2
    Slots = {r1, r2}
    MaxConfigurations = 2
    Contents = {x, y}
    MaxRequests = 2
    MaxServers = 2
    Names = {t1}
    MaxAccounts = 2
    Calls = {r1}
    Configurations = {x, y, z}
    Unreadable = Bad
    NoProvider = NoProvider
    Unused = Unused
SPECIFICATION Spec
INVARIANTS
    TypeOK AccountsAgreeUnlessStrayed SelectionListed SettledRunShown StoppedRunShown
    TranscriptExact
    ReopenedSaveKeepsSettings EditsStayWithTheirAgent ReadinessOfAgentShown
    ListIsTheServers UnclickedBoxesAreGranted ToolsOfServerShown AuditTrailCurrent
    UntouchedFormIsServers DetailsOfSelected
PROPERTIES
    LatestStayListed
CHECK_DEADLOCK FALSE
