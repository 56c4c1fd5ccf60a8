----------------------------- MODULE MCWebPages -----------------------------
(***************************************************************************)
(* One run for the pages and workbench parts of the web application. Each  *)
(* keeps its state to itself and is unmounted before another is shown, so  *)
(* a behaviour is that of one page: page says which, x1..x13 hold its      *)
(* variables, and those it does not need are Unused.                       *)
(***************************************************************************)
EXTENDS Naturals, TLC

CONSTANTS
    a1, b1, Users, A, B, NoToken, NoUser, NoFetch, MaxInFlight,          \* WebSession
    MaxConversations, ListLimit, Drafts,                                 \* WorkspaceClient
    Conversations, NoConversation, MaxRuns, RunLimit, Texts, MaxSends,   \* runs, transcript
    Numbers, Words, Medium, Docker, Local, Bad, Blank, Default, Absent,  \* SettingsForm
    MaxAgents, Slots, MaxConfigurations, Contents, MaxRequests,          \* agents, models
    MaxServers, Names, MaxAccounts, Calls,                               \* MCP, accounts
    Configurations, Unreadable, NoProvider,                              \* ProviderSettings
    Unused

VARIABLES page, x1, x2, x3, x4, x5, x6, x7, x8, x9, x10, x11, x12, x13

tab == <<page, x1, x2, x3, x4, x5, x6, x7, x8, x9, x10, x11, x12, x13>>
after6 == <<x7, x8, x9, x10, x11, x12, x13>>
after7 == <<x8, x9, x10, x11, x12, x13>>
after8 == <<x9, x10, x11, x12, x13>>
after9 == <<x10, x11, x12, x13>>
after10 == <<x11, x12, x13>>

Session == INSTANCE WebSession WITH
    Tokens <- {a1, b1}, Owner <- (a1 :> A @@ b1 :> B), OtherTokens <- {NoToken},
    MaxRequests <- MaxInFlight,
    stored <- x1, token <- x2, me <- x3, list <- x4, timedOut <- x5, route <- x6,
    requests <- x7, issued <- x8, valid <- x9, strayed <- x10
Workspace == INSTANCE WorkspaceClient WITH
    made <- x1, listed <- x2, fetch <- x3, answer <- x4, selected <- x5, preferred <- x6,
    draft <- x7, latest <- x8, stream <- x9, stop <- x10
Runs == INSTANCE WorkspaceRuns WITH
    run <- x1, seen <- x2, fetch <- x3, answer <- x4, stream <- x5, stop <- x6,
    made <- x7, settled <- x8, stopped <- x9, missed <- x10
Surface == INSTANCE Transcript WITH
    stored <- x1, cached <- x2, job <- x3, shown <- x4, live <- x5, optimistic <- x6,
    stream <- x7, sends <- x8, owed <- x9, disturbed <- x10
Form == INSTANCE SettingsForm WITH
    card <- x1, settings <- x2, form <- x3, written <- x4
Agents == INSTANCE AgentPanel WITH
    server <- x1, loading <- x2, loaded <- x3, agents <- x4, selected <- x5, editor <- x6,
    readiness <- x7, dialog <- x8, request <- x9
Models == INSTANCE ModelPanel WITH
    server <- x1, made <- x2, loading <- x3, loaded <- x4, configurations <- x5,
    selected <- x6, dialog <- x7, request <- x8, overlapped <- x9, missed <- x10
Mcp == INSTANCE McpAuthorization WITH
    granted <- x1, servers <- x2, srv <- x3, agt <- x4, tools <- x5, auth <- x6,
    box <- x7, toolsFetch <- x8, authFetch <- x9, call <- x10, save <- x11, sound <- x12,
    strayed <- x13
Accounts == INSTANCE AccountApproval WITH
    status <- x1, accounts <- x2, statusFilter <- x3, selected <- x4, reason <- x5,
    call <- x6, audit <- x7, events <- x8
Provider == INSTANCE ProviderSettings WITH
    server <- x1, cached <- x2, fetch <- x3, form <- x4, typed <- x5, save <- x6,
    missed <- x7
Audit == INSTANCE RunAudit WITH
    status <- x1, runs <- x2, listed <- x3, statusFilter <- x4, found <- x5,
    selected <- x6, detail <- x7

ASSUME PagesAssumption ==
    /\ Session!SessionAssumption /\ Workspace!WorkspaceAssumption
    /\ Runs!RunsAssumption /\ Surface!TranscriptAssumption
    /\ Form!FormAssumption
    /\ Agents!AgentPanelAssumption /\ Models!ModelPanelAssumption
    /\ Mcp!McpAssumption /\ Accounts!ApprovalAssumption
    /\ Provider!ProviderAssumption /\ Audit!AuditAssumption

Free12 == x12 = Unused /\ x13 = Unused
Free11 == x11 = Unused /\ Free12
Free10 == x10 = Unused /\ Free11
Free9  == x9 = Unused /\ Free10
Free8  == x8 = Unused /\ Free9
Free7  == x7 = Unused /\ Free8
Free5  == x5 = Unused /\ x6 = Unused /\ Free7

Init ==
    \/ page = "session"   /\ Session!Init   /\ Free11
    \/ page = "workspace" /\ Workspace!Init /\ Free11
    \/ page = "runs"      /\ Runs!Init      /\ Free11
    \/ page = "surface"   /\ Surface!Init   /\ Free11
    \/ page = "form"      /\ Form!Init      /\ Free5
    \/ page = "agents"    /\ Agents!Init    /\ Free10
    \/ page = "models"    /\ Models!Init    /\ Free11
    \/ page = "mcp"       /\ Mcp!Init
    \/ page = "accounts"  /\ Accounts!Init  /\ Free9
    \/ page = "provider"  /\ Provider!Init  /\ Free8
    \/ page = "audit"     /\ Audit!Init     /\ Free8

Next ==
    /\ UNCHANGED page
    /\ \/ page = "session"   /\ Session!Next   /\ UNCHANGED after10
       \/ page = "workspace" /\ Workspace!Next /\ UNCHANGED after10
       \/ page = "runs"      /\ Runs!Next      /\ UNCHANGED after10
       \/ page = "surface"   /\ Surface!Next   /\ UNCHANGED after10
       \/ page = "form"      /\ Form!Next      /\ UNCHANGED <<x5, x6, after6>>
       \/ page = "agents"    /\ Agents!Next    /\ UNCHANGED after9
       \/ page = "models"    /\ Models!Next    /\ UNCHANGED after10
       \/ page = "mcp"       /\ Mcp!Next
       \/ page = "accounts"  /\ Accounts!Next  /\ UNCHANGED after8
       \/ page = "provider"  /\ Provider!Next  /\ UNCHANGED after7
       \/ page = "audit"     /\ Audit!Next     /\ UNCHANGED after7

Spec == Init /\ [][Next]_tab

-----------------------------------------------------------------------------
\* The types of every part: each variable of the code holds what the code puts there.
TypeOK ==
    /\ page = "session"   => Session!TypeOK
    /\ page = "workspace" => Workspace!TypeOK
    /\ page = "runs"      => Runs!TypeOK
    /\ page = "surface"   => Surface!TypeOK
    /\ page = "form"      => Form!TypeOK
    /\ page = "agents"    => Agents!TypeOK
    /\ page = "models"    => Models!TypeOK
    /\ page = "mcp"       => Mcp!TypeOK
    /\ page = "accounts"  => Accounts!TypeOK
    /\ page = "provider"  => Provider!TypeOK
    /\ page = "audit"     => Audit!TypeOK

\* The account shown, and a profile sent, are those of the token in use, unless the
\* session strayed (WebSession).
AccountsAgreeUnlessStrayed == page = "session" => Session!AccountsAgreeUnlessStrayed

\* A conversation of the list is selected, unless there is none or one is being created
\* (WorkspaceClient).
SelectionListed == page = "workspace" => Workspace!SelectionListed

\* No late answer takes a conversation out of the sidebar: only those older than the
\* latest ListLimit leave it (WorkspaceClient).
LatestStayListed == [][page = "workspace" => Workspace!ListKeepsLatest]_tab

\* A run that ended with its stream is shown ended once no fetch is out (WorkspaceRuns).
SettledRunShown == page = "runs" => Runs!SettledRunShown

\* A run that the user stopped is shown ended once no fetch is out (WorkspaceRuns).
StoppedRunShown == page = "runs" => Runs!StoppedRunShown

\* The transcript shows what was said in its conversation, once, and what the user just
\* sent (Transcript).
TranscriptExact == page = "surface" => Surface!TranscriptExact

\* Opening and saving settings that the form wrote changes nothing (SettingsForm).
ReopenedSaveKeepsSettings == page = "form" => Form!ReopenedSaveKeepsSettings

\* No agent is given what was typed for another (AgentPanel).
EditsStayWithTheirAgent == page = "agents" => Agents!EditsStayWithTheirAgent

\* The readiness result shown is of the agent shown, unless the selection moved while the
\* check was out (AgentPanel).
ReadinessOfAgentShown == page = "agents" => Agents!ReadinessOfAgentShown

\* Once all answers have come the list is the server's, unless requests crossed in the
\* ways named (ModelPanel).
ListIsTheServers == page = "models" => Models!ListIsTheServers

\* Boxes nobody clicked are what the server grants, where they mounted after their
\* authorizations arrived (McpAuthorization).
UnclickedBoxesAreGranted == page = "mcp" => Mcp!UnclickedBoxesAreGranted

\* The tools listed are those of the server shown (McpAuthorization).
ToolsOfServerShown == page = "mcp" => Mcp!ToolsOfServerShown

\* The audit trail shown holds every action answered (AccountApproval).
AuditTrailCurrent == page = "accounts" => Accounts!AuditTrailCurrent

\* A form nobody edited holds the server's configuration (ProviderSettings).
UntouchedFormIsServers == page = "provider" => Provider!UntouchedFormIsServers

\* Details are shown beside their own run (RunAudit).
DetailsOfSelected == page = "audit" => Audit!DetailsOfSelected
=============================================================================
