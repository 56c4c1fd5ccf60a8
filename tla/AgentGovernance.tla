-------------------------- MODULE AgentGovernance --------------------------
(***************************************************************************)
(* What administrators govern (agents, model configurations, MCP servers)  *)
(* and what users do under it: choose an agent and a model, start runs.    *)
(* No foreign key protects a reference; the routes check and then act, each*)
(* check and each write a transaction of its own.  A step is a transaction.*)
(***************************************************************************)
EXTENDS Integers, FiniteSets

CONSTANTS
    Administrators,  \* requests under /admin, one at a time per administrator
    Users,           \* requests of users, one at a time per user
    Agents, DefaultAgent,
    Models,          \* ids of model configurations
    Servers,         \* ids of MCP servers
    Conversations,
    BootModels,      \* model configurations with the contents the environment names
    MaxRestarts,     \* bound on restarts of the API
    NoModel, NoAgent, NoConversation

ASSUME GovernanceAssumption ==
    /\ DefaultAgent \in Agents
    /\ NoModel \notin Models /\ NoAgent \notin Agents /\ NoConversation \notin Conversations
    /\ Administrators \cap Users = {}
    /\ Models \cap Servers = {}
    /\ BootModels \subseteq Models
    /\ MaxRestarts \in Nat

Procs  == Administrators \cup Users
Fields == {"default", "allowed", "servers"}

\* The model and tool references of an agent.
Policy == [default : Models \cup {NoModel}, allowed : SUBSET Models,
           servers : SUBSET Servers]
NoPolicy == [default |-> NoModel, allowed |-> {}, servers |-> {}]

\* A row of a table of resources: not yet created, or deleted for ever.
RowStatuses   == {"absent", "enabled", "disabled", "deleted"}
AgentStatuses == {"absent", "enabled", "disabled", "retired"}

VARIABLES
    model, server,  \* status of each row
    agent,          \* the agents table: status and policy
    conversation,   \* the conversations: status, agent, selected model
    run,            \* whether a conversation has an active run, and its model
    pc, loc,        \* per process: control and local variables
    restarts        \* restarts of the API so far

vars  == <<model, server, agent, conversation, run, pc, loc, restarts>>
admin == <<model, server, agent>>
user  == <<conversation, run, restarts>>

Local == [op : {"none", "create", "update", "enable", "disable_model", "delete_model",
                "draft", "draft_run", "start"},
          agent : Agents \cup {NoAgent}, model : Models \cup {NoModel},
          conversation : Conversations \cup {NoConversation},
          policy : Policy, fields : SUBSET Fields, todo : SUBSET (Models \cup Servers)]
NoLocal == [op |-> "none", agent |-> NoAgent, model |-> NoModel,
            conversation |-> NoConversation, policy |-> NoPolicy, fields |-> {}, todo |-> {}]

\* bootstrap: the default agent exists; it has no model until one is configured.
Init ==
    /\ model  = [m \in Models |-> "absent"]
    /\ server = [s \in Servers |-> "absent"]
    /\ agent  = [a \in Agents |-> [status |-> IF a = DefaultAgent THEN "enabled" ELSE "absent",
                                   policy |-> NoPolicy]]
    /\ conversation = [c \in Conversations |->
                         [status |-> "absent", agent |-> NoAgent, model |-> NoModel]]
    /\ run = [c \in Conversations |-> NoModel]
    /\ pc  = [p \in Procs |-> "ready"]
    /\ loc = [p \in Procs |-> NoLocal]
    /\ restarts = 0

Exists(a) == agent[a].status # "absent"
InTable(row) == row \in {"enabled", "disabled"}

\* agent.default_model_configuration_id and allowed_model_configuration_ids.
References(a, m) == m = agent[a].policy.default \/ m \in agent[a].policy.allowed

\* effective_allowed_model_ids.
EffectiveAllowed(pol) == (pol.allowed \cup {pol.default}) \ {NoModel}

Return(p) == /\ pc'  = [pc EXCEPT ![p] = "ready"]
             /\ loc' = [loc EXCEPT ![p] = NoLocal]
Enter(p, l, rec) == /\ pc'  = [pc EXCEPT ![p] = l]
                    /\ loc' = [loc EXCEPT ![p] = rec]
Goto(p, l) == pc' = [pc EXCEPT ![p] = l] /\ UNCHANGED loc

-----------------------------------------------------------------------------
(* Agents: readiness is checked, reference by reference, before the write. *)

\* validate_agent_configuration on the shape of a policy.
WellFormed(pol) == pol.default \in pol.allowed

Check(p, op, a, pol, fields) ==
    Enter(p, "check",
          [NoLocal EXCEPT !.op = op, !.agent = a, !.policy = pol, !.fields = fields,
                          !.todo = pol.allowed \cup pol.servers])

CreateAgent(p, pol) ==
    /\ pc[p] = "ready"
    /\ WellFormed(pol)
    /\ Check(p, "create", NoAgent, pol, Fields)
    /\ UNCHANGED <<admin, user>>

\* The fields of a request over a policy.
Overlay(old, fields, new) ==
    [default |-> IF "default" \in fields THEN new.default ELSE old.default,
     allowed |-> IF "allowed" \in fields THEN new.allowed ELSE old.allowed,
     servers |-> IF "servers" \in fields THEN new.servers ELSE old.servers]

\* candidate_agent_for_update: over the agent as the request read it.
Candidate(a, fields, pol) == Overlay(agent[a].policy, fields, pol)

UpdateAgent(p, a, fields, pol) ==
    /\ pc[p] = "ready"
    /\ Exists(a)
    /\ WellFormed(Candidate(a, fields, pol))
    /\ Check(p, "update", a, Candidate(a, fields, pol), fields)
    /\ UNCHANGED <<admin, user>>

EnableAgent(p, a) ==
    /\ pc[p] = "ready"
    /\ Exists(a)
    /\ WellFormed(agent[a].policy)
    /\ Check(p, "enable", a, agent[a].policy, {})
    /\ UNCHANGED <<admin, user>>

Enabled(x) == IF x \in Models THEN model[x] = "enabled" ELSE server[x] = "enabled"

\* Faulty: it is enough that the referenced row exists.
CheckReferenceExists(p, x) ==
    /\ pc[p] = "check"
    /\ x \in loc[p].todo
    /\ IF InTable(IF x \in Models THEN model[x] ELSE server[x])
         THEN /\ loc' = [loc EXCEPT ![p].todo = @ \ {x}]
              /\ UNCHANGED pc
         ELSE Return(p)
    /\ UNCHANGED <<admin, user>>

\* One get of a referenced model or server; 409 unless it is enabled.
CheckReference(p, x) ==
    /\ pc[p] = "check"
    /\ x \in loc[p].todo
    /\ IF Enabled(x)
         THEN /\ loc' = [loc EXCEPT ![p].todo = @ \ {x}]
              /\ UNCHANGED pc
         ELSE Return(p)
    /\ UNCHANGED <<admin, user>>

Checked(p, op) == pc[p] = "check" /\ loc[p].todo = {} /\ loc[p].op = op

InsertAgent(p, a) ==
    /\ Checked(p, "create")
    /\ ~Exists(a)
    /\ agent' = [agent EXCEPT ![a] = [status |-> "enabled", policy |-> loc[p].policy]]
    /\ Return(p)
    /\ UNCHANGED <<model, server, user>>

\* agent_store.update writes the fields of the request only.
WriteAgent(p) ==
    /\ Checked(p, "update")
    /\ agent' = [agent EXCEPT ![loc[p].agent].policy =
                   Overlay(@, loc[p].fields, loc[p].policy)]
    /\ Return(p)
    /\ UNCHANGED <<model, server, user>>

WriteEnabled(p) ==
    /\ Checked(p, "enable")
    /\ agent' = [agent EXCEPT ![loc[p].agent].status = "enabled"]
    /\ Return(p)
    /\ UNCHANGED <<model, server, user>>

\* disable and retire: no condition, one write.
StopAgent(p, a, s) ==
    /\ pc[p] = "ready"
    /\ Exists(a)
    /\ agent' = [agent EXCEPT ![a].status = s]
    /\ UNCHANGED <<model, server, user, pc, loc>>

-----------------------------------------------------------------------------
(* Model configurations: disabling and deleting are guarded by the agents. *)

CreateModel(p, m, s) ==
    /\ pc[p] = "ready"
    /\ model[m] = "absent"
    /\ model' = [model EXCEPT ![m] = s]
    /\ UNCHANGED <<server, agent, user, pc, loc>>

EnableModel(p, m) ==
    /\ pc[p] = "ready"
    /\ InTable(model[m])
    /\ model' = [model EXCEPT ![m] = "enabled"]
    /\ UNCHANGED <<server, agent, user, pc, loc>>

\* Faulty: only default models are protected.
DisableModelOfPolicy(p, m) ==
    /\ pc[p] = "ready"
    /\ ~ \E a \in Agents : agent[a].status = "enabled" /\ m = agent[a].policy.default
    /\ Enter(p, "write", [NoLocal EXCEPT !.op = "disable_model", !.model = m])
    /\ UNCHANGED <<admin, user>>

\* 409 while an enabled agent references the model.
DisableModel(p, m) ==
    /\ pc[p] = "ready"
    /\ ~ \E a \in Agents : agent[a].status = "enabled" /\ References(a, m)
    /\ Enter(p, "write", [NoLocal EXCEPT !.op = "disable_model", !.model = m])
    /\ UNCHANGED <<admin, user>>

\* Faulty: agents that are not enabled do not protect their models.
DeleteModelOfDisabled(p, m) ==
    /\ pc[p] = "ready"
    /\ ~ \E a \in Agents : agent[a].status = "enabled" /\ References(a, m)
    /\ Enter(p, "write", [NoLocal EXCEPT !.op = "delete_model", !.model = m])
    /\ UNCHANGED <<admin, user>>

\* 409 while any agent references the model.
DeleteModel(p, m) ==
    /\ pc[p] = "ready"
    /\ ~ \E a \in Agents : Exists(a) /\ References(a, m)
    /\ Enter(p, "write", [NoLocal EXCEPT !.op = "delete_model", !.model = m])
    /\ UNCHANGED <<admin, user>>

\* The write after the guard; 404 if the row is gone.
WriteModel(p) ==
    /\ pc[p] = "write"
    /\ LET s == IF loc[p].op = "disable_model" THEN "disabled" ELSE "deleted" IN
         model' = [model EXCEPT ![loc[p].model] = IF InTable(@) THEN s ELSE @]
    /\ Return(p)
    /\ UNCHANGED <<server, agent, user>>

\* MCP servers are created, switched and deleted without looking at agents.
SetServer(p, x, s) ==
    /\ pc[p] = "ready"
    /\ InTable(server[x]) \/ (server[x] = "absent" /\ s # "deleted")
    /\ server' = [server EXCEPT ![x] = s]
    /\ UNCHANGED <<model, agent, user, pc, loc>>

-----------------------------------------------------------------------------
(* Users.                                                                  *)

\* A draft names an agent and perhaps a model.  The CopilotKit route asks for an
\* enabled agent and goes on to run the conversation; the workspace route does not.
Draft(p, a, choice, op) ==
    /\ pc[p] = "ready"
    /\ IF op = "draft_run" THEN agent[a].status = "enabled" ELSE Exists(a)
    /\ LET m == IF choice = NoModel THEN agent[a].policy.default ELSE choice IN
         /\ m \in EffectiveAllowed(agent[a].policy)
         /\ Enter(p, "resolve", [NoLocal EXCEPT !.op = op, !.agent = a, !.model = m])
    /\ UNCHANGED <<admin, user>>

\* The model must exist and be enabled.
ResolveModel(p) ==
    /\ pc[p] = "resolve"
    /\ IF model[loc[p].model] = "enabled"
         THEN Goto(p, IF loc[p].op = "start" THEN "start" ELSE "insert")
         ELSE Return(p)
    /\ UNCHANGED <<admin, user>>

InsertConversation(p, c) ==
    /\ pc[p] = "insert"
    /\ conversation[c].status = "absent"
    /\ conversation' = [conversation EXCEPT ![c] =
                          [status |-> "idle", agent |-> loc[p].agent, model |-> loc[p].model]]
    /\ IF loc[p].op = "draft_run"
         THEN Enter(p, "start", [loc[p] EXCEPT !.conversation = c])
         ELSE Return(p)
    /\ UNCHANGED <<admin, run, restarts>>

\* The workspace route validates the conversation's model again, the CopilotKit
\* route only asks for the agent to be enabled.
StartRun(p, c, via) ==
    /\ pc[p] = "ready"
    /\ conversation[c].status # "absent"
    /\ LET a == conversation[c].agent
           rec == [NoLocal EXCEPT !.op = "start", !.conversation = c,
                                  !.agent = a, !.model = conversation[c].model] IN
         \/ /\ via = "copilotkit"
            /\ agent[a].status = "enabled"
            /\ Enter(p, "start", rec)
         \/ /\ via = "workspace"
            /\ conversation[c].model \in EffectiveAllowed(agent[a].policy)
              /\ Enter(p, "resolve", rec)
    /\ UNCHANGED <<admin, user>>

\* queue_for_conversation up to the snapshot: its own steps are RunLifecycle's.
MarkRunning(p) ==
    /\ pc[p] = "start"
    /\ LET c == loc[p].conversation IN
         IF run[c] # NoModel
         THEN Return(p) /\ UNCHANGED conversation
         ELSE /\ conversation' = [conversation EXCEPT ![c].status = "running"]
              /\ Goto(p, "snapshot")
    /\ UNCHANGED <<admin, run, restarts>>

\* capability_snapshot_for_agent reads the model, 404 if it has been deleted.
Snapshot(p) ==
    /\ pc[p] = "snapshot"
    /\ run' = IF InTable(model[loc[p].model])
              THEN [run EXCEPT ![loc[p].conversation] = loc[p].model] ELSE run
    /\ Return(p)
    /\ UNCHANGED <<admin, conversation, restarts>>

\* Faulty: a run that ends leaves its conversation running.
RunEndsUnreleased(c) ==
    /\ run[c] # NoModel
    /\ run' = [run EXCEPT ![c] = NoModel]
    /\ UNCHANGED <<admin, conversation, restarts, pc, loc>>

\* The run completes or fails, and releases its conversation (RunLifecycle).
RunEnds(c) ==
    /\ run[c] # NoModel
    /\ run' = [run EXCEPT ![c] = NoModel]
    /\ conversation' = [conversation EXCEPT ![c].status = "idle"]
    /\ UNCHANGED <<admin, restarts, pc, loc>>

-----------------------------------------------------------------------------
(* The API restarts: the requests in progress die, and the environment's   *)
(* model is bound to the default agent before any new request is served.   *)

\* The allowed models that are no longer usable are dropped.
BootPolicy(m) ==
    [agent[DefaultAgent].policy EXCEPT !.default = m,
                                       !.allowed = {m} \cup {n \in @ : model[n] = "enabled"}]

\* bootstrap_default_model_configuration: m is the row the environment describes,
\* enabled or not, or, when there is none, a new one.
Restart(m) ==
    /\ restarts < MaxRestarts
    /\ \/ InTable(model[m]) /\ UNCHANGED model
       \/ /\ model[m] = "absent"
          /\ ~ \E n \in BootModels : InTable(model[n])
          /\ model' = [model EXCEPT ![m] = "enabled"]
    /\ agent' = [agent EXCEPT ![DefaultAgent].policy = BootPolicy(m)]
    /\ pc'  = [p \in Procs |-> "ready"]
    /\ loc' = [p \in Procs |-> NoLocal]
    /\ restarts' = restarts + 1
    /\ UNCHANGED <<server, conversation, run>>

-----------------------------------------------------------------------------
AgentStep(p) ==
    \/ \E pol \in Policy : CreateAgent(p, pol)
    \/ \E a \in Agents, fields \in SUBSET Fields, pol \in Policy : UpdateAgent(p, a, fields, pol)
    \/ \E a \in Agents : EnableAgent(p, a) \/ InsertAgent(p, a)
    \/ \E x \in Models \cup Servers : CheckReference(p, x)
    \/ WriteAgent(p) \/ WriteEnabled(p)
    \/ \E a \in Agents, s \in {"disabled", "retired"} : StopAgent(p, a, s)

ResourceStep(p) ==
    \/ \E m \in Models : \/ \E s \in {"enabled", "disabled"} : CreateModel(p, m, s)
                         \/ EnableModel(p, m) \/ DisableModel(p, m) \/ DeleteModel(p, m)
    \/ WriteModel(p)
    \/ \E x \in Servers, s \in {"enabled", "disabled", "deleted"} : SetServer(p, x, s)

UserStep(p) ==
    \/ \E a \in Agents, m \in Models \cup {NoModel}, op \in {"draft", "draft_run"} :
         Draft(p, a, m, op)
    \/ ResolveModel(p)
    \/ \E c \in Conversations :
         \/ InsertConversation(p, c)
         \/ \E via \in {"workspace", "copilotkit"} : StartRun(p, c, via)
    \/ MarkRunning(p) \/ Snapshot(p)

Next ==
    \/ \E p \in Administrators : AgentStep(p) \/ ResourceStep(p)
    \/ \E p \in Users : UserStep(p)
    \/ \E c \in Conversations : RunEnds(c)
    \/ \E m \in BootModels : Restart(m)

Spec == Init /\ [][Next]_vars

-----------------------------------------------------------------------------
(* Properties.                                                             *)

\* Types of all variables.
TypeOK ==
    /\ model \in [Models -> RowStatuses]
    /\ server \in [Servers -> RowStatuses]
    /\ agent \in [Agents -> [status : AgentStatuses, policy : Policy]]
    /\ conversation \in [Conversations -> [status : {"absent", "idle", "running"},
                                           agent : Agents \cup {NoAgent},
                                           model : Models \cup {NoModel}]]
    /\ run \in [Conversations -> Models \cup {NoModel}]
    /\ pc \in [Procs -> {"ready", "check", "write", "resolve", "insert", "start", "snapshot"}]
    /\ loc \in [Procs -> Local]
    /\ restarts \in 0 .. MaxRestarts

\* An enabled agent can run: its default is among its models and all of them are
\* enabled ("to keep live agents from losing a model by mistake").  The default
\* agent of a fresh platform has no model yet.
EnabledAgentsAreReady ==
    \A a \in Agents :
        agent[a].status = "enabled" /\ agent[a].policy.default # NoModel =>
            /\ WellFormed(agent[a].policy)
            /\ \A m \in agent[a].policy.allowed : model[m] = "enabled"

\* Until a restart, which binds the default agent without looking.
ReadyUntilRestart == restarts = 0 => EnabledAgentsAreReady

\* No agent, whatever its status, refers to a model configuration that is gone,
\* so that enabling it again is a matter of configuration only.
ReferencedModelsExist ==
    \A a \in Agents : \A m \in EffectiveAllowed(agent[a].policy) : InTable(model[m])

\* What an administrator's request has established when it is the only one: every
\* reference looked up so far is good, and the agent it read has not changed.
SoundRequest(p) ==
    LET l == loc[p] IN
    /\ pc[p] \in {"ready", "check", "write"}
    /\ pc[p] = "check" =>
         /\ l.op \in {"create", "update", "enable"}
         /\ WellFormed(l.policy)
         /\ \A m \in l.policy.allowed \ l.todo : model[m] = "enabled"
         /\ l.op # "create" =>
              /\ l.agent \in Agents /\ Exists(l.agent)
              /\ Overlay(agent[l.agent].policy, l.fields, l.policy) = l.policy
    /\ pc[p] = "check" /\ l.op = "enable" => agent[l.agent].policy = l.policy
    /\ pc[p] = "write" =>
         /\ l.model \in Models
         /\ l.op \in {"disable_model", "delete_model"}
         /\ \A a \in Agents : References(a, l.model) =>
              /\ agent[a].status # "enabled"
              /\ l.op = "disable_model"

PendingIsSound == \A p \in Administrators : SoundRequest(p)

\* The inductive invariant of a platform with one administrator.
IInv ==
    /\ TypeOK
    /\ ReferencedModelsExist
    /\ ReadyUntilRestart
    /\ \A a \in Agents : ~Exists(a) => a # DefaultAgent /\ agent[a].policy = NoPolicy
    /\ PendingIsSound

\* A conversation shown as running has a run, or a request about to create it, or
\* its model was deleted between the start and the snapshot (or a restart ended
\* the request): nothing else leaves it running for ever.
RunningHasRun ==
    restarts = 0 =>
        \A c \in Conversations : conversation[c].status = "running" =>
            \/ run[c] # NoModel
            \/ \E p \in Users : pc[p] = "snapshot" /\ loc[p].conversation = c
            \/ ~InTable(model[conversation[c].model])

\* What RunningHasRun rests on: the model of a conversation, or of one about to be made,
\* was created; a run is of a conversation that exists; and the request that starts one
\* has the conversation's model.
MakesRun(p) == pc[p] \in {"start", "snapshot"} \/ (pc[p] = "resolve" /\ loc[p].op = "start")
RunsInv ==
    /\ \A c \in Conversations :
         /\ conversation[c].status # "absent" =>
              conversation[c].model \in Models /\ model[conversation[c].model] # "absent"
         /\ run[c] # NoModel => conversation[c].status # "absent"
    /\ \A p \in Users :
         /\ pc[p] \in {"resolve", "insert"} => loc[p].model \in Models
         /\ pc[p] = "insert" => model[loc[p].model] # "absent"
         /\ MakesRun(p) =>
              /\ loc[p].conversation \in Conversations
              /\ conversation[loc[p].conversation].status # "absent"
              /\ conversation[loc[p].conversation].model = loc[p].model

\* A request to run a conversation is accepted only if its agent allows the
\* conversation's model at that moment.
RunsUseAllowedModels ==
    [][\A p \in Users : loc[p].op # "start" /\ loc'[p].op = "start" =>
         loc'[p].model \in EffectiveAllowed(agent[loc'[p].agent].policy)]_vars

=============================================================================
