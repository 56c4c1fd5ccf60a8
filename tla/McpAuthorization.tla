-------------------------- MODULE McpAuthorization --------------------------
(***************************************************************************)
(* The MCP page of one administrator: the list of MCP servers, the tools   *)
(* of the one shown, the authorizations of the agent shown, the boxes      *)
(* between them, and the calls that read, change, discover and save.  A    *)
(* box is an uncontrolled input keyed by its tool: it takes its tick from  *)
(* the authorizations that are there when it mounts, and keeps it.  Every  *)
(* MCP server has the same names of tools; a discovery finds them all.     *)
(***************************************************************************)
EXTENDS Integers, FiniteSetsExt

CONSTANTS
    MaxServers, MaxAgents,  \* both listed by number; the page begins with the first
    Names                   \* names of tools

McpAssumption == MaxServers \in Nat \ {0} /\ MaxAgents \in Nat \ {0}

VARIABLES
    granted,    \* the server's: <<agent, MCP server, name>>, the authorizations enabled
    servers,    \* the servers listed, and how many were ever made
    srv, agt,   \* selectedServer, selectedAuthorizationAgent
    tools,      \* the tools listed, and the MCP server they came from
    auth,       \* authorizations: the names enabled; history: read for the pair shown
                \* since, and while nothing was being saved
    box,        \* per tool listed: ticked, clicked
    toolsFetch, authFetch,  \* the effects' calls: idle, asked, the second also answered
    call,       \* a call on an MCP server: idle, creating, saving, deleting,
                \* discovering or then reading the tools; its server
    save,       \* a save: the pair, the posts left, the names ticked
    sound,      \* history: boxes mounted from the authorizations of the pair shown
    strayed     \* history: the tools listed are of a discovery on a server left since, or
                \* were emptied by the deletion of one left since

vars == <<granted, servers, srv, agt, tools, auth, box, toolsFetch, authFetch,
          call, save, sound, strayed>>
fetches == <<toolsFetch, authFetch>>
history == <<sound, strayed>>

Servers == 1..MaxServers
Agents  == 1..MaxAgents
None    == 0
NoTools == [of |-> None, names |-> {}]
NoAuth  == [names |-> {}, sure |-> FALSE]
Idle    == [pc |-> "idle", names |-> {}, sure |-> FALSE]
Asked   == [pc |-> "asked", names |-> {}, sure |-> FALSE]
NoCall  == [pc |-> "idle", of |-> None]
NoSave  == [pair |-> <<None, None>>, left |-> {}, ticked |-> {}, failed |-> FALSE]
Fresh(tick) == [tick |-> tick, clicked |-> FALSE]

TypeOK ==
    /\ granted \subseteq Agents \X Servers \X Names
    /\ servers \in [ids : SUBSET Servers, made : Servers]
    /\ srv \in servers.ids /\ agt \in Agents
    /\ tools.of \in Servers \cup {None} /\ tools.names \subseteq Names
    /\ auth.names \subseteq Names
    /\ box \in [tools.names -> [tick : BOOLEAN, clicked : BOOLEAN]]
    /\ toolsFetch \in {"idle", "asked"}
    /\ authFetch.pc \in {"idle", "asked", "answered"}
    /\ call.pc \in {"idle", "creating", "saving", "deleting", "discovering", "reading"}
    /\ save.left \cup save.ticked \subseteq Names
    /\ sound \subseteq tools.names /\ strayed \in BOOLEAN

\* The servers and the agents have arrived, and the first of each is selected.
Init ==
    /\ \E n \in Servers : /\ servers = [ids |-> 1..n, made |-> n]
                          /\ granted \in SUBSET (Agents \X (1..n) \X Names)
    /\ srv = 1 /\ agt = 1
    /\ tools = NoTools /\ auth = NoAuth /\ box = [n \in {} |-> Fresh(FALSE)]
    /\ toolsFetch = "asked" /\ authFetch = Asked
    /\ call = NoCall /\ save = NoSave
    /\ sound = {} /\ strayed = FALSE

Saving == save # NoSave
\* A bound of the model: one call on a server or one save at a time.
Quiet == ~Saving /\ call = NoCall
Pair == <<agt, srv>>

\* Faulty: the box of a tool that is gone stays.
MountKeepsBoxes(of, names) ==
    /\ tools' = [of |-> of, names |-> names]
    /\ box' = [n \in names \cup tools.names |->
                 IF of = tools.of /\ n \in tools.names THEN box[n]
                 ELSE Fresh(n \in auth.names)]

\* Faulty: boxes are keyed by the name of the tool.
MountByName(of, names) ==
    /\ tools' = [of |-> of, names |-> names]
    /\ box' = [n \in names |-> IF n \in tools.names THEN box[n]
                               ELSE Fresh(n \in auth.names)]

\* setTools: the box of a tool that stays keeps what it has, another mounts with a tick
\* where its name is authorized.
Mount(of, names) ==
    /\ tools' = [of |-> of, names |-> names]
    /\ box' = [n \in names |-> IF of = tools.of /\ n \in tools.names THEN box[n]
                               ELSE Fresh(n \in auth.names)]

\* The boxes of a tools answer that can be relied on.
Sound(of, names) ==
    LET stay == IF of = tools.of THEN tools.names ELSE {}
    IN (sound \cap stay \cap names)
       \cup (IF of = srv /\ auth.sure THEN names \ stay ELSE {})

\* Faulty: the tools effect runs on mount only.
ShowStaleTools(s, a, known) ==
    LET same == s = srv /\ a = agt IN
    /\ srv' = s /\ agt' = a
    /\ UNCHANGED toolsFetch
    /\ authFetch' = IF same THEN authFetch ELSE Asked
    /\ auth' = [known EXCEPT !.sure = @ /\ same]
    /\ sound' = IF same THEN sound \cap tools'.names ELSE {}

\* The effects run where the server or the agent shown has changed, and drop the calls
\* under way.
Show(s, a, known) ==
    LET same == s = srv /\ a = agt IN
    /\ srv' = s /\ agt' = a
    /\ toolsFetch' = IF s = srv THEN toolsFetch ELSE "asked"
    /\ authFetch' = IF same THEN authFetch ELSE Asked
    /\ auth' = [known EXCEPT !.sure = @ /\ same]
    /\ sound' = IF same THEN sound \cap tools'.names ELSE {}

-----------------------------------------------------------------------------
\* A row of the list is clicked, or focused by the assistant's focusMcpServer.  Its
\* openMcpServerCreationDialog without a name selects none, so that the first is shown.
SelectServer(s) ==
    /\ s \in servers.ids \ {srv}
    /\ UNCHANGED <<granted, servers, tools, box, call, save, strayed>>
    /\ Show(s, agt, auth)

SelectAgent(a) ==
    /\ a # agt
    /\ UNCHANGED <<granted, servers, tools, box, call, save, strayed>>
    /\ Show(srv, a, auth)

\* setMcpAuthorizationAgent: the tool registered with the first render knows no agents,
\* so that the page falls back to the first, whichever was named.
AssistantSelectsAgent ==
    /\ agt # 1
    /\ UNCHANGED <<granted, servers, tools, box, call, save, strayed>>
    /\ Show(srv, 1, auth)

Click(n) ==
    /\ n \in tools.names
    /\ box' = [box EXCEPT ![n] = [tick |-> ~@.tick, clicked |-> TRUE]]
    /\ UNCHANGED <<granted, servers, srv, agt, tools, auth, fetches, call, save, history>>

-----------------------------------------------------------------------------
\* The tools of the server shown; after an error, none.
ToolsArrive ==
    /\ toolsFetch = "asked"
    /\ toolsFetch' = "idle"
    /\ \E names \in {Names, {}} : Mount(srv, names) /\ sound' = Sound(srv, names)
    /\ strayed' = FALSE
    /\ UNCHANGED <<granted, servers, srv, agt, auth, authFetch, call, save>>

AuthorizationsAnswered ==
    /\ authFetch.pc = "asked"
    /\ authFetch' = [pc |-> "answered", names |-> {n \in Names : <<agt, srv, n>> \in granted},
                      sure |-> ~Saving]
    /\ UNCHANGED <<granted, servers, srv, agt, tools, auth, box, toolsFetch, call, save,
                   history>>

\* The authorizations of the pair shown; after an error, none.  No box follows them.
AuthorizationsArrive ==
    /\ authFetch.pc = "answered"
    /\ authFetch' = Idle
    /\ \/ auth' = [names |-> authFetch.names, sure |-> authFetch.sure]
       \/ auth' = NoAuth
    /\ UNCHANGED <<granted, servers, srv, agt, tools, box, toolsFetch, call, save, history>>

-----------------------------------------------------------------------------
Call(pc, of) ==
    /\ Quiet
    /\ call' = [pc |-> pc, of |-> of]
    /\ UNCHANGED <<granted, servers, srv, agt, tools, auth, box, fetches, save, history>>

\* createMcpServer, from its dialog.
CreateMcpServer == servers.made < MaxServers /\ Call("creating", None)
\* updateSelectedMcpServer; what the registry says of a server is left out.
UpdateSelectedMcpServer == Call("saving", srv)
\* deleteSelectedMcpServer, confirmed.  A bound of the model: one server stays.
DeleteSelectedMcpServer == Cardinality(servers.ids) > 1 /\ Call("deleting", srv)
\* discoverSelectedServerTools.
Discover == Call("discovering", srv)

\* upsertServer: the server answered is the one shown, whichever was by then.
UpsertServer(s) ==
    /\ servers' = [ids |-> servers.ids \cup {s}, made |-> Max({s, servers.made})]
    /\ UNCHANGED <<granted, tools, box, save, strayed>>
    /\ Show(s, agt, auth)

Created ==
    /\ call.pc = "creating"
    /\ call' = NoCall
    /\ UpsertServer(servers.made + 1)

\* The answer to a save, or to a discovery, which reads the tools next.
Updated ==
    /\ call.pc \in {"saving", "discovering"}
    /\ call' = IF call.pc = "saving" THEN NoCall ELSE [call EXCEPT !.pc = "reading"]
    /\ UpsertServer(call.of)

\* The tools read are listed, whichever server is shown by then.
DiscoveryArrives ==
    /\ call.pc = "reading"
    /\ Mount(call.of, Names)
    /\ sound' = Sound(call.of, Names)
    /\ strayed' = (call.of # srv)
    /\ call' = NoCall
    /\ UNCHANGED <<granted, servers, srv, agt, auth, fetches, save>>

\* The server and its authorizations are deleted, and the answer comes: the first that is
\* left is shown, without tools and authorizations until its effects read them, which
\* they do not where it was selected meanwhile.
Deleted ==
    /\ call.pc = "deleting"
    /\ tools' = NoTools /\ box' = [n \in {} |-> Fresh(FALSE)]
    /\ granted' = {g \in granted : g[2] # call.of}
    /\ servers' = [servers EXCEPT !.ids = @ \ {call.of}]
    /\ Show(Min(servers'.ids), agt, NoAuth)
    /\ strayed' = (toolsFetch' = "idle")
    /\ call' = NoCall
    /\ UNCHANGED save

CallFails ==
    /\ call # NoCall
    /\ call' = NoCall
    /\ UNCHANGED <<granted, servers, srv, agt, tools, auth, box, fetches, save, history>>

-----------------------------------------------------------------------------
\* saveToolAuthorization: one POST for each tool listed, for the pair shown.
SaveToolAuthorization ==
    /\ Quiet /\ tools.names # {}
    /\ save' = [pair |-> Pair, left |-> tools.names, failed |-> FALSE,
                ticked |-> {n \in tools.names : box[n].tick}]
    /\ auth' = [auth EXCEPT !.sure = FALSE] /\ authFetch' = [authFetch EXCEPT !.sure = FALSE]
    /\ UNCHANGED <<granted, servers, srv, agt, tools, box, toolsFetch, call, history>>

\* A POST is handled, in any order; one of them may fail.
Post(n) ==
    /\ n \in save.left
    /\ LET a == save.pair[1]  s == save.pair[2]  grant == <<a, s, n>> IN
       \/ /\ granted' = IF n \in save.ticked THEN granted \cup {grant} ELSE granted \ {grant}
          /\ save' = [save EXCEPT !.left = @ \ {n}]
       \/ /\ UNCHANGED granted
          /\ save' = [save EXCEPT !.left = @ \ {n}, !.failed = TRUE]
    /\ UNCHANGED <<servers, srv, agt, tools, auth, box, fetches, call, history>>

\* All are answered: the page takes what was saved for the authorizations it shows.
\* After a failure the page keeps what it had, and what was saved stays saved.
SaveArrives ==
    /\ Saving /\ save.left = {}
    /\ auth' = IF save.failed THEN auth
               ELSE [names |-> save.ticked, sure |-> FALSE]
    /\ save' = NoSave
    /\ UNCHANGED <<granted, servers, srv, agt, tools, box, fetches, call, history>>

Next ==
    \/ \E s \in Servers : SelectServer(s)
    \/ \E a \in Agents : SelectAgent(a)
    \/ \E n \in Names : Click(n) \/ Post(n)
    \/ AssistantSelectsAgent
    \/ ToolsArrive \/ AuthorizationsAnswered \/ AuthorizationsArrive
    \/ CreateMcpServer \/ UpdateSelectedMcpServer \/ DeleteSelectedMcpServer \/ Discover
    \/ Created \/ Updated \/ DiscoveryArrives \/ Deleted \/ CallFails
    \/ SaveToolAuthorization \/ SaveArrives

Spec == Init /\ [][Next]_vars

-----------------------------------------------------------------------------
\* Saving boxes nobody clicked changes nothing, as long as each box mounted after the
\* authorizations of the pair shown had arrived, and the pair was not changed since.
\* Otherwise it may: boxes keep the ticks of the agent shown before, or of none.
UnclickedBoxesAreGranted ==
    \A n \in sound : ~box[n].clicked => box[n].tick = (<<agt, srv, n>> \in granted)

\* Once the effects are answered the tools listed are those of the server shown, however
\* the selection moved meanwhile; only the second read of a discovery and the answer to a
\* deletion may undo that.
ToolsOfServerShown ==
    toolsFetch = "idle" /\ ~strayed => tools.of = srv

\* Calls and saves are about agents and MCP servers of the lists.
CallsTyped ==
    /\ call \in [pc : {"idle", "creating", "saving", "deleting", "discovering", "reading"},
                 of : Servers \cup {None}]
    /\ call.pc \notin {"idle", "creating"} => call.of \in Servers
    /\ call.pc = "creating" => servers.made < MaxServers
    /\ call.pc = "deleting" => servers.ids \ {call.of} # {}
    /\ auth \in [names : SUBSET Names, sure : BOOLEAN]
    /\ authFetch \in [pc : {"idle", "asked", "answered"}, names : SUBSET Names,
                      sure : BOOLEAN]
    /\ tools \in [of : Servers \cup {None}, names : SUBSET Names]
    /\ save \in [pair : (Agents \cup {None}) \X (Servers \cup {None}),
                 left : SUBSET Names, ticked : SUBSET Names, failed : BOOLEAN]
    /\ Saving => save.pair \in Agents \X Servers /\ call = NoCall

\* Authorizations that can be relied on are the server's, and nothing is being saved.
SureIsGranted ==
    LET names == {n \in Names : <<agt, srv, n>> \in granted} IN
    /\ auth.sure => ~Saving /\ auth.names = names
    /\ authFetch.sure => ~Saving /\ authFetch.pc = "answered" /\ authFetch.names = names

\* A save under way posts what the boxes show that can be relied on and were not clicked.
PostsAreSound ==
    \A n \in sound : ~box[n].clicked /\ Saving =>
        save.pair = Pair /\ (n \in save.left => (n \in save.ticked <=> box[n].tick))

\* Both properties and the types, made inductive.
IInv ==
    /\ TypeOK /\ CallsTyped
    /\ ToolsOfServerShown
    /\ SureIsGranted /\ UnclickedBoxesAreGranted /\ PostsAreSound
=============================================================================
