----------------------------- MODULE AgentPanel -----------------------------
(***************************************************************************)
(* The agents page of one administrator: the list loaded when it mounts,   *)
(* the selected agent, its editor, the readiness result, and the requests  *)
(* in flight.  Answers come in any order, move the selection to the agent  *)
(* they are about, and nothing is disabled while a request is out.  A      *)
(* configuration is named by the agent that it was entered for.  What the  *)
(* server accepts is module AgentGovernance's matter.                      *)
(***************************************************************************)
EXTENDS Integers, Sequences, SequencesExt

CONSTANTS
    MaxAgents,   \* bound on the agents
    Slots        \* requests that may be in flight together

AgentPanelAssumption == MaxAgents \in Nat \ {0}

VARIABLES
    server,     \* the agents, by id
    loading,    \* the page's first request: asked, answered or done
    loaded,     \* what an answered load will deliver
    agents,     \* the list
    selected,   \* selectedAgentId
    editor,     \* the edit form: agent of its key, configuration in its fields
    readiness,  \* agentReadiness: agent it is about, moved
    dialog,     \* isCreateDraftOpen
    request     \* per slot: kind, agent, configuration sent, pc, answer, moved

vars == <<server, loading, loaded, agents, selected, editor, readiness, dialog, request>>

Ids      == 1..MaxAgents
None     == 0
Record   == [id : Ids, retired : BOOLEAN, config : Ids]
NoRecord == [id |-> None, retired |-> TRUE, config |-> None]
NoEditor == [key |-> None, config |-> None]
NoResult == [agent |-> None, moved |-> FALSE]
NoRequest == [kind |-> "none", agent |-> None, config |-> None, retire |-> FALSE,
              pc |-> "idle", answer |-> NoRecord, moved |-> FALSE]

TypeOK ==
    /\ server \in Seq(Record) /\ agents \in Seq(Record) /\ loaded \in Seq(Record)
    /\ Len(server) \in 1..MaxAgents
    /\ loading \in {"asked", "answered", "done"}
    /\ selected \in {None} \cup Ids
    /\ editor \in [key : {None} \cup Ids, config : {None} \cup Ids]
    /\ readiness \in [agent : {None} \cup Ids, moved : BOOLEAN]
    /\ dialog \in BOOLEAN
    /\ \A r \in Slots :
          /\ request[r].kind \in {"none", "save", "status", "check", "create"}
          /\ request[r].pc \in {"idle", "sent", "answered"}

\* selectedAgent: the one selected, or the first of the list.
ShownIn(list, sel) ==
    LET k == SelectInSeq(list, LAMBDA a : a.id = sel)
    IN IF k # 0 THEN list[k] ELSE IF list # <<>> THEN list[1] ELSE NoRecord
Shown == ShownIn(agents, selected)

\* The agents page mounts.
Init ==
    /\ server = <<[id |-> 1, retired |-> FALSE, config |-> 1]>>
    /\ loading = "asked" /\ loaded = <<>> /\ agents = <<>> /\ selected = None
    /\ editor = NoEditor /\ readiness = NoResult /\ dialog = FALSE
    /\ request = [r \in Slots |-> NoRequest]

\* Faulty: the edit form has no key.
RenderUnkeyed(requests) ==
    LET now == ShownIn(agents', selected') IN
    IF now.id = Shown.id
    THEN /\ request' = requests
         /\ UNCHANGED editor
    ELSE /\ request' = [r \in Slots |-> [requests[r] EXCEPT !.moved = TRUE]]
         /\ editor' = IF editor = NoEditor THEN [key |-> now.id, config |-> now.config]
                      ELSE [editor EXCEPT !.key = now.id]

\* A render after a step: another agent shown has another editor, filled from its record,
\* and no readiness result; the checks that are out are about an agent left.
Render(requests) ==
    LET now == ShownIn(agents', selected') IN
    IF now.id = Shown.id
    THEN /\ request' = requests
         /\ UNCHANGED editor
    ELSE /\ request' = [r \in Slots |-> [requests[r] EXCEPT !.moved = TRUE]]
         /\ editor' = [key |-> now.id, config |-> now.config]

\* Faulty: there is no such effect.
KeepReadinessAlways(result) == readiness' = result

\* The effect on selectedAgent?.id: the result is kept only while the agent is.
KeepReadiness(result) ==
    readiness' = IF ShownIn(agents', selected').id = Shown.id THEN result ELSE NoResult

-----------------------------------------------------------------------------
LoadAnswered ==
    /\ loading = "asked"
    /\ loading' = "answered" /\ loaded' = server
    /\ UNCHANGED <<server, agents, selected, editor, readiness, dialog, request>>

\* The four lists arrive together and replace what the page has; the first agent is
\* selected.  Where one of them is refused, nothing is shown.
LoadArrives ==
    /\ loading = "answered"
    /\ loading' = "done" /\ loaded' = <<>>
    /\ \/ agents' = loaded /\ selected' = loaded[1].id
       \/ agents' = <<>> /\ selected' = None
    /\ Render(request) /\ KeepReadiness(readiness)
    /\ UNCHANGED <<server, dialog>>

\* The agents of the list, each a row that selects it.
Listed == {agents[k].id : k \in 1..Len(agents)}

\* A row is clicked, or focused by the assistant's focusLifecycleAgent.
Select(i) ==
    /\ i \in Listed
    /\ selected' = i
    /\ UNCHANGED <<server, loading, loaded, agents, dialog>>
    /\ Render(request) /\ KeepReadiness(readiness)

\* The button above the list and the assistant open the dialog, Cancel closes it.
SetIsCreateDraftOpen(open) ==
    /\ dialog' = open /\ open # dialog
    /\ UNCHANGED <<server, loading, loaded, agents, selected, editor, readiness, request>>

Type ==
    /\ Shown # NoRecord
    /\ editor' = [editor EXCEPT !.config = Shown.id]
    /\ UNCHANGED <<server, loading, loaded, agents, selected, readiness, dialog, request>>

Send(r, sent) ==
    /\ request[r] = NoRequest
    /\ request' = [request EXCEPT ![r] = sent]
    /\ UNCHANGED <<server, loading, loaded, agents, selected, editor, readiness, dialog>>

\* updateAgentConfiguration: every field of the form, to the agent shown.  The status is
\* not sent.
UpdateAgentConfiguration(r) ==
    /\ Shown # NoRecord
    /\ Send(r, [NoRequest EXCEPT !.kind = "save", !.agent = Shown.id, !.pc = "sent",
                                 !.config = editor.config])

\* setAgentStatus.  Of a retired agent no button is enabled; of any other, one of enable
\* and disable is, and retire.
SetAgentStatus(r, retire) ==
    /\ ~Shown.retired
    /\ Send(r, [NoRequest EXCEPT !.kind = "status", !.agent = Shown.id, !.pc = "sent",
                                 !.retire = retire])

\* An earlier result stays until this one comes.
CheckAgentReadiness(r) ==
    /\ Shown # NoRecord
    /\ Send(r, [NoRequest EXCEPT !.kind = "check", !.agent = Shown.id, !.pc = "sent"])

\* createAgent; the dialog can be submitted again before the answer.
CreateAgent(r) ==
    /\ dialog
    /\ Send(r, [NoRequest EXCEPT !.kind = "create", !.pc = "sent"])

-----------------------------------------------------------------------------
\* The server handles the request; its answer is the record as it then is.
Serve(r) ==
    /\ request[r].pc = "sent"
    /\ LET q == request[r] IN
       /\ server' = CASE q.kind = "save"   -> [server EXCEPT ![q.agent].config = q.config]
                      [] q.kind = "status" -> [server EXCEPT ![q.agent].retired = q.retire]
                      [] q.kind = "check"  -> server
                      [] q.kind = "create" ->
                            Append(server, [id |-> Len(server) + 1, retired |-> FALSE,
                                            config |-> Len(server) + 1])
       /\ Len(server') <= MaxAgents
       /\ request' = [request EXCEPT ![r].pc = "answered",
                        ![r].answer = CASE q.kind = "create" -> Last(server')
                                        [] q.kind = "check"  -> NoRecord
                                        [] OTHER             -> server'[q.agent]]
    /\ UNCHANGED <<loading, loaded, agents, selected, editor, readiness, dialog>>

\* upsertAgent: in place or at the end; the agent answered is the one selected.
UpsertAgent(a) ==
    /\ agents' = IF \E k \in 1..Len(agents) : agents[k].id = a.id
                 THEN [k \in 1..Len(agents) |-> IF agents[k].id = a.id THEN a ELSE agents[k]]
                 ELSE Append(agents, a)
    /\ selected' = a.id

\* The answer to a save, a status change or a creation, which closes the dialog.
AgentArrives(r) ==
    /\ request[r].pc = "answered" /\ request[r].kind # "check"
    /\ UpsertAgent(request[r].answer)
    /\ dialog' = (dialog /\ request[r].kind # "create")
    /\ Render([request EXCEPT ![r] = NoRequest]) /\ KeepReadiness(readiness)
    /\ UNCHANGED <<server, loading, loaded>>

\* The answer to a check is shown whichever agent is selected by then.
ReadinessArrives(r) ==
    /\ request[r].pc = "answered" /\ request[r].kind = "check"
    /\ readiness' = [agent |-> request[r].agent, moved |-> request[r].moved]
    /\ request' = [request EXCEPT ![r] = NoRequest]
    /\ UNCHANGED <<server, loading, loaded, agents, selected, editor, dialog>>

\* Refused, or the answer is lost: a message, and the list as it was.
RequestFails(r) ==
    /\ request[r].pc # "idle"
    /\ request' = [request EXCEPT ![r] = NoRequest]
    /\ UNCHANGED <<server, loading, loaded, agents, selected, editor, readiness, dialog>>

Next ==
    \/ LoadAnswered \/ LoadArrives \/ Type
    \/ \E i \in Ids : Select(i)
    \/ \E open \in BOOLEAN : SetIsCreateDraftOpen(open)
    \/ \E r \in Slots :
          \/ UpdateAgentConfiguration(r) \/ CheckAgentReadiness(r) \/ CreateAgent(r)
          \/ \E retire \in BOOLEAN : SetAgentStatus(r, retire)
          \/ Serve(r) \/ AgentArrives(r) \/ ReadinessArrives(r) \/ RequestFails(r)

Spec == Init /\ [][Next]_vars

-----------------------------------------------------------------------------
\* What was entered for one agent is never saved as another's configuration, though late
\* answers move the selection while the administrator types.
EditsStayWithTheirAgent ==
    \A k \in 1..Len(server) : server[k].config = server[k].id

\* The readiness result is the shown agent's, unless the selection moved while the check
\* was out: the page does not compare the answer with the agent it then shows.
ReadinessOfAgentShown ==
    readiness # NoResult /\ ~readiness.moved => readiness.agent = Shown.id

\* Each record of a list is an agent the server has, configured as was entered for it.
RecordsOwn(list) ==
    \A k \in 1..Len(list) : list[k].id <= Len(server) /\ list[k].config = list[k].id

\* A request is about an agent the server has, its answer too; a save sends what was
\* entered for its agent.
RequestsOwn(requests) ==
    /\ requests \in [Slots -> [kind : {"none", "save", "status", "check", "create"},
                            agent : 0..Len(server), config : {None} \cup Ids,
                            retire : BOOLEAN, pc : {"idle", "sent", "answered"},
                            answer : Record \cup {NoRecord}, moved : BOOLEAN]]
    /\ \A r \in Slots :
          LET q == requests[r] IN
          /\ q.kind \in {"save", "status", "check"} => q.agent # None
          /\ q.kind = "none" <=> q.pc = "idle"
          /\ q.kind = "save" => q.config = q.agent
          /\ q.kind # "check" /\ q.pc = "answered" =>
                q.answer \in Record /\ RecordsOwn(<<q.answer>>)
          /\ q.kind = "check" /\ ~q.moved => q.agent = Shown.id

\* Both properties and the types, made inductive: the editor holds the configuration of
\* the agent shown.
IInv ==
    /\ TypeOK
    /\ \A k \in 1..Len(server) : server[k].id = k
    /\ RecordsOwn(server) /\ RecordsOwn(loaded) /\ RecordsOwn(agents)
    /\ loading = "answered" => loaded # <<>>
    /\ editor.config = Shown.id
    /\ RequestsOwn(request)
    /\ EditsStayWithTheirAgent /\ ReadinessOfAgentShown
=============================================================================
