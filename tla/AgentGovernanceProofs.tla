----------------------- MODULE AgentGovernanceProofs -----------------------
(***************************************************************************)
(* A platform with one administrator and any number of users, agents,      *)
(* models, servers and conversations: enabled agents stay ready until the  *)
(* API restarts, and references never dangle.                              *)
(***************************************************************************)
EXTENDS AgentGovernance, TLAPS

\* There is at most one administrator.
SoleAdministrator == \A p, q \in Administrators : p = q

-----------------------------------------------------------------------------
(* Types.                                                                  *)

\* The control points of a process.
Labels == {"ready", "check", "write", "resolve", "insert", "start", "snapshot"}

LEMMA NoLocalType == NoLocal \in Local
  BY DEF NoLocal, Local, NoPolicy, Policy

\* The types of a process's own state.
LEMMA EnterType ==
    ASSUME TypeOK, NEW p \in Procs, NEW l \in Labels, NEW rec \in Local, Enter(p, l, rec)
    PROVE  pc' \in [Procs -> Labels] /\ loc' \in [Procs -> Local]
  BY DEF TypeOK, Enter, Labels

LEMMA ReturnType ==
    ASSUME TypeOK, NEW p \in Procs, Return(p)
    PROVE  pc' \in [Procs -> Labels] /\ loc' \in [Procs -> Local]
  BY NoLocalType DEF TypeOK, Return, Labels

\* A request stays typed as its references are checked and its conversation is made.
LEMMA LocalExceptType ==
    ASSUME NEW l \in Local
    PROVE  /\ \A todo \in SUBSET (Models \cup Servers) : [l EXCEPT !.todo = todo] \in Local
           /\ \A c \in Conversations : [l EXCEPT !.conversation = c] \in Local
  BY DEF Local

\* The agents table stays typed as one status changes.
LEMMA StatusType ==
    ASSUME TypeOK, NEW a, NEW s \in AgentStatuses
    PROVE  [agent EXCEPT ![a].status = s] \in [Agents -> [status : AgentStatuses, policy : Policy]]
  <1> DEFINE Row == [status : AgentStatuses, policy : Policy]
  <1>1. agent \in [Agents -> Row]
    BY DEF TypeOK
  <1>2. ASSUME a \in Agents PROVE [agent[a] EXCEPT !.status = s] \in Row
    <2>1. agent[a] \in Row
      BY <1>1, <1>2
    <2> QED BY <2>1
  <1> HIDE DEF Row
  <1>3. [agent EXCEPT ![a] = [agent[a] EXCEPT !.status = s]] \in [Agents -> Row]
    BY <1>1, <1>2
  <1> QED BY <1>3 DEF Row

\* The conversations stay typed as one status changes.
LEMMA ConversationType ==
    ASSUME TypeOK, NEW c, NEW s \in {"idle", "running"}
    PROVE  [conversation EXCEPT ![c].status = s]
             \in [Conversations -> [status : {"absent", "idle", "running"},
                                   agent : Agents \cup {NoAgent}, model : Models \cup {NoModel}]]
  <1> DEFINE Row == [status : {"absent", "idle", "running"}, agent : Agents \cup {NoAgent},
                     model : Models \cup {NoModel}]
  <1>1. conversation \in [Conversations -> Row]
    BY DEF TypeOK
  <1>2. \A row \in Row : [row EXCEPT !.status = s] \in Row
    OBVIOUS
  <1> HIDE DEF Row
  <1>3. [conversation EXCEPT ![c] = [conversation[c] EXCEPT !.status = s]] \in [Conversations -> Row]
    BY <1>1, <1>2
  <1> QED BY <1>3 DEF Row

LEMMA OverlayType ==
    ASSUME NEW old \in Policy, NEW new \in Policy, NEW fields
    PROVE  Overlay(old, fields, new) \in Policy
  BY DEF Overlay, Policy

LEMMA CheckType ==
    ASSUME TypeOK, NEW p \in Procs, NEW op \in {"create", "update", "enable"},
           NEW a \in Agents \cup {NoAgent}, NEW pol \in Policy, NEW fields \in SUBSET Fields,
           Check(p, op, a, pol, fields)
    PROVE  pc' \in [Procs -> Labels] /\ loc' \in [Procs -> Local]
  <1>1. [NoLocal EXCEPT !.op = op, !.agent = a, !.policy = pol, !.fields = fields,
                        !.todo = pol.allowed \cup pol.servers] \in Local
    BY NoLocalType DEF NoLocal, Local, Policy
  <1> QED BY <1>1, EnterType DEF Check, Labels

\* What TypeOK says of the shared state, and of the processes.
LEMMA TypeParts ==
    ASSUME TypeOK, UNCHANGED <<model, server, agent, conversation, run, restarts>>,
           pc' \in [Procs -> Labels], loc' \in [Procs -> Local]
    PROVE  TypeOK'
  BY DEF TypeOK, Labels

LEMMA AgentStepType ==
    ASSUME TypeOK, NEW p \in Administrators, AgentStep(p)
    PROVE  TypeOK'
  <1>0. p \in Procs
    BY DEF Procs
  <1>1. ASSUME NEW pol \in Policy, CreateAgent(p, pol) PROVE TypeOK'
    BY <1>0, <1>1, CheckType, TypeParts DEF CreateAgent, admin, user
  <1>2. ASSUME NEW a \in Agents, NEW fields \in SUBSET Fields, NEW pol \in Policy,
               UpdateAgent(p, a, fields, pol)
        PROVE  TypeOK'
    <2>1. Candidate(a, fields, pol) \in Policy
      BY OverlayType DEF TypeOK, Candidate
    <2> QED BY <1>0, <1>2, <2>1, CheckType, TypeParts DEF UpdateAgent, admin, user
  <1>3. ASSUME NEW a \in Agents, EnableAgent(p, a) PROVE TypeOK'
    <2>1. agent[a].policy \in Policy
      BY DEF TypeOK
    <2> QED BY <1>0, <1>3, <2>1, CheckType, TypeParts DEF EnableAgent, admin, user
  <1>4. ASSUME NEW a \in Agents, InsertAgent(p, a) PROVE TypeOK'
    <2>1. loc[p].policy \in Policy
      BY <1>0 DEF TypeOK, Local
    <2>2. agent' \in [Agents -> [status : AgentStatuses, policy : Policy]]
      BY <1>4, <2>1 DEF TypeOK, InsertAgent, AgentStatuses
    <2> QED BY <1>0, <1>4, <2>2, ReturnType DEF InsertAgent, TypeOK, user, Labels
  <1>5. ASSUME NEW x \in Models \cup Servers, CheckReference(p, x) PROVE TypeOK'
    <2>1. CASE Enabled(x)
      <3>1. [loc[p] EXCEPT !.todo = @ \ {x}] \in Local
        <4>1. loc[p] \in Local
          BY <1>0 DEF TypeOK
        <4>2. loc[p].todo \ {x} \in SUBSET (Models \cup Servers)
          BY <4>1 DEF Local
        <4> QED BY <4>1, <4>2, LocalExceptType
      <3>2. loc' \in [Procs -> Local] /\ pc' \in [Procs -> Labels]
        BY <1>0, <1>5, <2>1, <3>1 DEF TypeOK, CheckReference, Labels
      <3> QED BY <1>5, <3>2, TypeParts DEF CheckReference, admin, user
    <2>2. CASE ~Enabled(x)
      BY <1>0, <1>5, <2>2, ReturnType, TypeParts DEF CheckReference, admin, user
    <2> QED BY <2>1, <2>2
  <1>6. ASSUME WriteAgent(p) PROVE TypeOK'
    <2>1. loc[p].policy \in Policy
      BY <1>0 DEF TypeOK, Local
    <2>2. ASSUME NEW a \in Agents PROVE Overlay(agent[a].policy, loc[p].fields, loc[p].policy) \in Policy
      BY <2>1, OverlayType DEF TypeOK
    <2>3. agent' \in [Agents -> [status : AgentStatuses, policy : Policy]]
      <3> DEFINE a   == loc[p].agent
                 Row == [status : AgentStatuses, policy : Policy]
                 pol == Overlay(agent[a].policy, loc[p].fields, loc[p].policy)
      <3>1. agent \in [Agents -> Row]
        BY DEF TypeOK
      <3>2. ASSUME a \in Agents PROVE [agent[a] EXCEPT !.policy = pol] \in Row
        <4>1. agent[a] \in Row /\ pol \in Policy
          BY <2>2, <3>1, <3>2
        <4> HIDE DEF a, pol
        <4> QED BY <4>1
      <3>3. agent' = [agent EXCEPT ![a] = [agent[a] EXCEPT !.policy = pol]]
        BY <1>6 DEF WriteAgent
      <3> HIDE DEF a, pol, Row
      <3>4. agent' \in [Agents -> Row]
        BY <3>1, <3>2, <3>3
      <3> QED BY <3>4 DEF Row
    <2> QED BY <1>0, <1>6, <2>3, ReturnType DEF WriteAgent, TypeOK, user, Labels
  <1>7. ASSUME WriteEnabled(p) PROVE TypeOK'
    <2>1. agent' \in [Agents -> [status : AgentStatuses, policy : Policy]]
      BY <1>7, StatusType DEF WriteEnabled, AgentStatuses
    <2> QED BY <1>0, <1>7, <2>1, ReturnType DEF WriteEnabled, TypeOK, user, Labels
  <1>8. ASSUME NEW a \in Agents, NEW s \in {"disabled", "retired"}, StopAgent(p, a, s) PROVE TypeOK'
    <2>1. agent' \in [Agents -> [status : AgentStatuses, policy : Policy]]
      BY <1>8, StatusType DEF StopAgent, AgentStatuses
    <2> QED BY <1>8, <2>1 DEF TypeOK, StopAgent, user
  <1> QED BY <1>1, <1>2, <1>3, <1>4, <1>5, <1>6, <1>7, <1>8 DEF AgentStep

LEMMA ResourceStepType ==
    ASSUME TypeOK, NEW p \in Administrators, ResourceStep(p)
    PROVE  TypeOK'
  <1>0. p \in Procs
    BY DEF Procs
  <1>1. ASSUME NEW m \in Models, NEW s \in {"enabled", "disabled"}, CreateModel(p, m, s) PROVE TypeOK'
    BY <1>1 DEF TypeOK, CreateModel, RowStatuses, user
  <1>2. ASSUME NEW m \in Models, EnableModel(p, m) PROVE TypeOK'
    BY <1>2 DEF TypeOK, EnableModel, RowStatuses, user
  <1>3. ASSUME NEW m \in Models, DisableModel(p, m) \/ DeleteModel(p, m) PROVE TypeOK'
    <2>1. ASSUME NEW op \in {"disable_model", "delete_model"}
          PROVE  [NoLocal EXCEPT !.op = op, !.model = m] \in Local
      BY NoLocalType DEF NoLocal, Local
    <2>2. pc' \in [Procs -> Labels] /\ loc' \in [Procs -> Local]
      BY <1>0, <1>3, <2>1, EnterType DEF DisableModel, DeleteModel, Labels
    <2> QED BY <1>3, <2>2, TypeParts DEF DisableModel, DeleteModel, admin, user
  <1>4. ASSUME WriteModel(p) PROVE TypeOK'
    <2>1. model' \in [Models -> RowStatuses]
      BY <1>4 DEF TypeOK, WriteModel, RowStatuses
    <2> QED BY <1>0, <1>4, <2>1, ReturnType DEF WriteModel, TypeOK, user, Labels
  <1>5. ASSUME NEW x \in Servers, NEW s \in {"enabled", "disabled", "deleted"}, SetServer(p, x, s)
        PROVE  TypeOK'
    BY <1>5 DEF TypeOK, SetServer, RowStatuses, user
  <1> QED BY <1>1, <1>2, <1>3, <1>4, <1>5 DEF ResourceStep

LEMMA UserStepType ==
    ASSUME TypeOK, NEW p \in Users, UserStep(p)
    PROVE  TypeOK'
  <1>0. p \in Procs
    BY DEF Procs
  <1>1. ASSUME NEW a \in Agents, NEW m \in Models \cup {NoModel}, NEW op \in {"draft", "draft_run"},
               Draft(p, a, m, op)
        PROVE  TypeOK'
    <2>1. ASSUME NEW n \in Models \cup {NoModel}
          PROVE  [NoLocal EXCEPT !.op = op, !.agent = a, !.model = n] \in Local
      BY NoLocalType DEF NoLocal, Local
    <2>2. agent[a].policy.default \in Models \cup {NoModel}
      BY DEF TypeOK, Policy
    <2>3. pc' \in [Procs -> Labels] /\ loc' \in [Procs -> Local]
      BY <1>0, <1>1, <2>1, <2>2, EnterType DEF Draft, Labels
    <2> QED BY <1>1, <2>3, TypeParts DEF Draft, admin, user
  <1>2. ASSUME ResolveModel(p) PROVE TypeOK'
    <2>1. pc' \in [Procs -> Labels] /\ loc' \in [Procs -> Local]
      BY <1>0, <1>2, ReturnType DEF ResolveModel, Goto, TypeOK, Labels
    <2> QED BY <1>2, <2>1, TypeParts DEF ResolveModel, admin, user
  <1>3. ASSUME NEW c \in Conversations, InsertConversation(p, c) PROVE TypeOK'
    <2>0. loc[p] \in Local
      BY <1>0 DEF TypeOK
    <2>1. /\ loc[p].agent \in Agents \cup {NoAgent}
          /\ loc[p].model \in Models \cup {NoModel}
          /\ [loc[p] EXCEPT !.conversation = c] \in Local
      BY <2>0, LocalExceptType DEF Local
    <2>2. pc' \in [Procs -> Labels] /\ loc' \in [Procs -> Local]
      BY <1>0, <1>3, <2>1, EnterType, ReturnType DEF InsertConversation, Labels
    <2> QED BY <1>3, <2>1, <2>2 DEF InsertConversation, TypeOK, admin, Labels
  <1>4. ASSUME NEW c \in Conversations, NEW via \in {"workspace", "copilotkit"}, StartRun(p, c, via)
        PROVE  TypeOK'
    <2>1. [NoLocal EXCEPT !.op = "start", !.conversation = c, !.agent = conversation[c].agent,
                          !.model = conversation[c].model] \in Local
      BY NoLocalType DEF NoLocal, Local, TypeOK
    <2>2. pc' \in [Procs -> Labels] /\ loc' \in [Procs -> Local]
      BY <1>0, <1>4, <2>1, EnterType DEF StartRun, Labels
    <2> QED BY <1>4, <2>2, TypeParts DEF StartRun, admin, user
  <1>5. ASSUME MarkRunning(p) PROVE TypeOK'
    <2>1. pc' \in [Procs -> Labels] /\ loc' \in [Procs -> Local]
      BY <1>0, <1>5, ReturnType DEF MarkRunning, Goto, TypeOK, Labels
    <2>2. conversation' \in [Conversations -> [status : {"absent", "idle", "running"},
                                               agent : Agents \cup {NoAgent},
                                               model : Models \cup {NoModel}]]
      <3>1. conversation \in [Conversations -> [status : {"absent", "idle", "running"},
                                                agent : Agents \cup {NoAgent},
                                                model : Models \cup {NoModel}]]
        BY DEF TypeOK
      <3>2. \/ conversation' = conversation
            \/ conversation' = [conversation EXCEPT ![loc[p].conversation].status = "running"]
        <4>1. CASE run[loc[p].conversation] # NoModel
          BY <1>5, <4>1, Zenon DEF MarkRunning
        <4>2. CASE run[loc[p].conversation] = NoModel
          BY <1>5, <4>2, Zenon DEF MarkRunning
        <4> QED BY <4>1, <4>2
      <3> DEFINE running == [conversation EXCEPT ![loc[p].conversation].status = "running"]
      <3>3. running \in [Conversations -> [status : {"absent", "idle", "running"},
                                           agent : Agents \cup {NoAgent},
                                           model : Models \cup {NoModel}]]
        BY ConversationType
      <3> HIDE DEF running
      <3>4. conversation' = conversation \/ conversation' = running
        BY <3>2 DEF running
      <3> QED BY <3>1, <3>3, <3>4
    <2>3. UNCHANGED <<model, server, agent, run, restarts>>
      BY <1>5 DEF MarkRunning, admin
    <2> QED BY <2>1, <2>2, <2>3 DEF TypeOK, Labels
  <1>6. ASSUME Snapshot(p) PROVE TypeOK'
    <2>1. loc[p].model \in Models \cup {NoModel}
      BY <1>0 DEF TypeOK, Local
    <2>2. pc' \in [Procs -> Labels] /\ loc' \in [Procs -> Local]
      BY <1>0, <1>6, ReturnType DEF Snapshot
    <2> QED BY <1>6, <2>1, <2>2 DEF Snapshot, TypeOK, admin, Labels
  <1> QED BY <1>1, <1>2, <1>3, <1>4, <1>5, <1>6 DEF UserStep

\* A restart begins from the rows and leaves every request.
LEMMA RestartType ==
    ASSUME TypeOK, NEW m \in BootModels, Restart(m)
    PROVE  TypeOK'
  <1>1. m \in Models
    BY GovernanceAssumption
  <1>2. BootPolicy(m) \in Policy
    <2>1. agent[DefaultAgent].policy \in Policy
      BY GovernanceAssumption DEF TypeOK
    <2>2. {m} \cup {n \in agent[DefaultAgent].policy.allowed : model[n] = "enabled"} \in SUBSET Models
      BY <1>1, <2>1 DEF Policy
    <2> QED BY <1>1, <2>1, <2>2 DEF BootPolicy, Policy
  <1>3. agent' \in [Agents -> [status : AgentStatuses, policy : Policy]]
    <2>1. agent[DefaultAgent] \in [status : AgentStatuses, policy : Policy]
      BY GovernanceAssumption DEF TypeOK
    <2>2. [agent[DefaultAgent] EXCEPT !.policy = BootPolicy(m)] \in [status : AgentStatuses, policy : Policy]
      BY <1>2, <2>1
    <2>3. agent' = [agent EXCEPT ![DefaultAgent] = [agent[DefaultAgent] EXCEPT !.policy = BootPolicy(m)]]
      BY DEF Restart
    <2> QED BY <2>2, <2>3 DEF TypeOK
  <1>4. model' \in [Models -> RowStatuses]
    BY DEF TypeOK, Restart, RowStatuses
  <1>5. pc' \in [Procs -> Labels] /\ loc' \in [Procs -> Local]
    BY NoLocalType DEF Restart, Labels
  <1>6. restarts' \in 0 .. MaxRestarts
    BY GovernanceAssumption DEF TypeOK, Restart
  <1> QED BY <1>3, <1>4, <1>5, <1>6 DEF Restart, TypeOK, Labels

LEMMA TypeStep == TypeOK /\ [Next]_vars => TypeOK'
  <1> SUFFICES ASSUME TypeOK, [Next]_vars PROVE TypeOK'
    OBVIOUS
  <1>1. ASSUME NEW p \in Administrators, AgentStep(p) PROVE TypeOK'
    BY <1>1, AgentStepType
  <1>2. ASSUME NEW p \in Administrators, ResourceStep(p) PROVE TypeOK'
    BY <1>2, ResourceStepType
  <1>3. ASSUME NEW p \in Users, UserStep(p) PROVE TypeOK'
    BY <1>3, UserStepType
  <1>4. ASSUME NEW c \in Conversations, RunEnds(c) PROVE TypeOK'
    <2>1. conversation' \in [Conversations -> [status : {"absent", "idle", "running"},
                                               agent : Agents \cup {NoAgent},
                                               model : Models \cup {NoModel}]]
      BY <1>4, ConversationType DEF RunEnds
    <2>2. run' \in [Conversations -> Models \cup {NoModel}]
      BY <1>4 DEF RunEnds, TypeOK
    <2>3. UNCHANGED <<model, server, agent, restarts, pc, loc>>
      BY <1>4 DEF RunEnds, admin
    <2> QED BY <2>1, <2>2, <2>3 DEF TypeOK
  <1>5. ASSUME NEW m \in BootModels, Restart(m) PROVE TypeOK'
    BY <1>5, RestartType
  <1>6. CASE UNCHANGED vars
    BY <1>6 DEF vars, TypeOK
  <1> QED BY <1>1, <1>2, <1>3, <1>4, <1>5, <1>6 DEF Next

-----------------------------------------------------------------------------
(* The invariant.                                                          *)

LEMMA InitInv == Init => IInv
  <1> SUFFICES ASSUME Init PROVE IInv
    OBVIOUS
  <1>1. NoPolicy \in Policy
    BY DEF NoPolicy, Policy
  <1>2. agent \in [Agents -> [status : AgentStatuses, policy : Policy]]
    BY <1>1 DEF Init, AgentStatuses
  <1>3. loc \in [Procs -> Local]
    BY NoLocalType DEF Init
  <1>4. TypeOK
    BY <1>2, <1>3, GovernanceAssumption DEF Init, TypeOK, RowStatuses
  <1>5. \A a \in Agents : agent[a].policy = NoPolicy
    BY DEF Init
  <1>6. ReferencedModelsExist /\ ReadyUntilRestart
    BY <1>5 DEF ReferencedModelsExist, ReadyUntilRestart, EnabledAgentsAreReady, EffectiveAllowed, NoPolicy
  <1>7. PendingIsSound
    BY DEF Init, PendingIsSound, SoundRequest, Procs
  <1>8. Exists(DefaultAgent)
    BY GovernanceAssumption DEF Init, Exists
  <1> QED BY <1>4, <1>5, <1>6, <1>7, <1>8 DEF IInv

\* Steps that touch no table of the administrators and none of their requests.
LEMMA ElsewhereInv ==
    ASSUME IInv, TypeOK', UNCHANGED <<admin, restarts>>,
           \A p \in Administrators : pc'[p] = pc[p] /\ loc'[p] = loc[p]
    PROVE  IInv'
  <1>1. ReferencedModelsExist' /\ ReadyUntilRestart'
    BY DEF IInv, ReferencedModelsExist, ReadyUntilRestart, EnabledAgentsAreReady, EffectiveAllowed, WellFormed,
           InTable, admin
  <1>2. (\A a \in Agents : ~Exists(a) => a # DefaultAgent /\ agent[a].policy = NoPolicy)'
    BY DEF IInv, Exists, admin
  <1>3. PendingIsSound'
    <2>1. UNCHANGED <<model, server, agent>>
      BY DEF admin
    <2>2. ASSUME NEW p \in Administrators PROVE SoundRequest(p)'
      <3>1. SoundRequest(p) /\ pc'[p] = pc[p] /\ loc'[p] = loc[p]
        BY DEF IInv, PendingIsSound
      <3> QED BY <2>1, <3>1 DEF SoundRequest, WellFormed, References, Exists, Overlay
    <2> QED BY <2>2 DEF PendingIsSound
  <1> QED BY <1>1, <1>2, <1>3 DEF IInv

\* With one administrator, only its own request is in progress.
LEMMA PendingOfOne ==
    ASSUME SoleAdministrator, NEW p \in Administrators, pc'[p] = "ready"
    PROVE  PendingIsSound'
  BY DEF SoleAdministrator, PendingIsSound, SoundRequest

LEMMA ReturnReady ==
    ASSUME TypeOK, NEW p \in Administrators, Return(p)
    PROVE  pc'[p] = "ready"
  BY DEF TypeOK, Return, Procs

\* A change of what is not an agent's policy: what is said of the agents.
LEMMA TablesUnchanged ==
    ASSUME IInv, UNCHANGED <<admin, restarts>>
    PROVE  /\ ReferencedModelsExist'
           /\ ReadyUntilRestart'
           /\ (\A a \in Agents : ~Exists(a) => a # DefaultAgent /\ agent[a].policy = NoPolicy)'
  BY DEF IInv, ReferencedModelsExist, ReadyUntilRestart, EnabledAgentsAreReady, EffectiveAllowed, WellFormed,
         InTable, Exists, admin

\* A request that begins to check references has looked up none.
LEMMA CheckInv ==
    ASSUME SoleAdministrator, IInv, TypeOK', UNCHANGED <<admin, restarts>>,
           NEW p \in Administrators, NEW op \in {"create", "update", "enable"},
           NEW a, NEW pol \in Policy, NEW fields,
           Check(p, op, a, pol, fields), WellFormed(pol),
           op # "create" => /\ a \in Agents /\ Exists(a)
                            /\ Overlay(agent[a].policy, fields, pol) = pol,
           op = "enable" => agent[a].policy = pol
    PROVE  IInv'
  <1>1. /\ pc'[p] = "check"
        /\ loc'[p].op = op /\ loc'[p].agent = a /\ loc'[p].policy = pol
        /\ loc'[p].fields = fields /\ loc'[p].todo = pol.allowed \cup pol.servers
    BY DEF IInv, TypeOK, Check, Enter, Procs, NoLocal
  <1>2. PendingIsSound'
    BY <1>1 DEF SoleAdministrator, PendingIsSound, SoundRequest, WellFormed, Exists, Overlay, admin
  <1> QED BY <1>2, TablesUnchanged DEF IInv

\* An agent is given a policy all of whose models are enabled.
LEMMA NewPolicyInv ==
    ASSUME SoleAdministrator, IInv, TypeOK', UNCHANGED <<model, restarts>>,
           NEW p \in Administrators, pc'[p] = "ready",
           NEW a \in Agents, NEW pol, WellFormed(pol), NoModel \notin pol.allowed,
           \A m \in pol.allowed : model[m] = "enabled",
           agent'[a].policy = pol, agent'[a].status # "absent",
           \A b \in Agents \ {a} : agent'[b] = agent[b]
    PROVE  IInv'
  <1>1. ReferencedModelsExist'
    BY DEF IInv, ReferencedModelsExist, EffectiveAllowed, InTable, WellFormed
  <1>2. ReadyUntilRestart'
    BY DEF IInv, ReadyUntilRestart, EnabledAgentsAreReady, WellFormed
  <1>3. (\A b \in Agents : ~Exists(b) => b # DefaultAgent /\ agent[b].policy = NoPolicy)'
    BY DEF IInv, Exists
  <1> QED BY <1>1, <1>2, <1>3, PendingOfOne DEF IInv

LEMMA AgentStepInv ==
    ASSUME SoleAdministrator, IInv, NEW p \in Administrators, AgentStep(p)
    PROVE  IInv'
  <1>t. TypeOK /\ TypeOK'
    BY AgentStepType DEF IInv
  <1>0. p \in Procs
    BY DEF Procs
  <1>1. ASSUME NEW pol \in Policy, CreateAgent(p, pol) PROVE IInv'
    BY <1>t, <1>1, CheckInv DEF CreateAgent, admin, user
  <1>2. ASSUME NEW a \in Agents, NEW fields \in SUBSET Fields, NEW pol \in Policy,
               UpdateAgent(p, a, fields, pol)
        PROVE  IInv'
    <2>1. Candidate(a, fields, pol) \in Policy
      BY <1>t, OverlayType DEF TypeOK, Candidate
    <2>2. Overlay(agent[a].policy, fields, Candidate(a, fields, pol)) = Candidate(a, fields, pol)
      BY DEF Candidate, Overlay
    <2> QED BY <1>t, <1>2, <2>1, <2>2, CheckInv DEF UpdateAgent, admin, user
  <1>3. ASSUME NEW a \in Agents, EnableAgent(p, a) PROVE IInv'
    <2>1. agent[a].policy \in Policy
      BY <1>t DEF TypeOK
    <2>2. Overlay(agent[a].policy, {}, agent[a].policy) = agent[a].policy
      BY <2>1 DEF Overlay, Policy
    <2> QED BY <1>t, <1>3, <2>1, <2>2, CheckInv DEF EnableAgent, admin, user
  <1>4. ASSUME NEW a \in Agents, InsertAgent(p, a) PROVE IInv'
    <2>1. /\ loc[p].policy \in Policy /\ WellFormed(loc[p].policy)
          /\ \A m \in loc[p].policy.allowed : model[m] = "enabled"
      BY <1>t, <1>0, <1>4 DEF InsertAgent, Checked, IInv, PendingIsSound, SoundRequest, TypeOK, Local
    <2>2. /\ agent'[a] = [status |-> "enabled", policy |-> loc[p].policy]
          /\ \A b \in Agents \ {a} : agent'[b] = agent[b]
      BY <1>t, <1>4 DEF InsertAgent, TypeOK
    <2>3. NoModel \notin loc[p].policy.allowed
      BY <2>1, GovernanceAssumption DEF Policy
    <2>4. agent'[a].policy = loc[p].policy /\ agent'[a].status # "absent"
      BY <2>2
    <2>5. pc'[p] = "ready" /\ UNCHANGED <<model, restarts>>
      BY <1>t, <1>4, ReturnReady DEF InsertAgent, user
    <2> QED BY <1>t, <2>1, <2>2, <2>3, <2>4, <2>5, NewPolicyInv
  <1>5. ASSUME NEW x \in Models \cup Servers, CheckReference(p, x) PROVE IInv'
    <2>1. CASE Enabled(x)
      <3>1. /\ pc' = pc /\ loc[p] \in Local
            /\ loc'[p] = [loc[p] EXCEPT !.todo = @ \ {x}]
        BY <1>t, <1>0, <1>5, <2>1 DEF CheckReference, TypeOK
      <3>2. /\ loc'[p].op = loc[p].op /\ loc'[p].agent = loc[p].agent
            /\ loc'[p].policy = loc[p].policy /\ loc'[p].fields = loc[p].fields
            /\ loc'[p].todo = loc[p].todo \ {x}
        BY <3>1 DEF Local
      <3>3. pc[p] = "check" /\ agent' = agent /\ model' = model
        BY <1>5 DEF CheckReference, admin
      <3>4. ASSUME NEW m \in loc[p].policy.allowed \ (loc[p].todo \ {x}) PROVE model[m] = "enabled"
        <4>1. m \in Models
          BY <3>1 DEF Local, Policy
        <4>2. CASE m = x
          BY <4>1, <4>2, <2>1 DEF Enabled
        <4>3. CASE m # x
          BY <3>3, <3>4, <4>3 DEF IInv, PendingIsSound, SoundRequest
        <4> QED BY <4>2, <4>3
      <3>5. PendingIsSound'
        <4>1. /\ loc[p].op \in {"create", "update", "enable"}
              /\ WellFormed(loc[p].policy)
              /\ loc[p].op # "create" =>
                   /\ loc[p].agent \in Agents /\ Exists(loc[p].agent)
                   /\ Overlay(agent[loc[p].agent].policy, loc[p].fields, loc[p].policy)
                        = loc[p].policy
              /\ loc[p].op = "enable" => agent[loc[p].agent].policy = loc[p].policy
          BY <3>3 DEF IInv, PendingIsSound, SoundRequest
        <4>2. \A a : Exists(a)' <=> Exists(a)
          BY <3>3 DEF Exists
        <4>3. SoundRequest(p)'
          BY <3>1, <3>2, <3>3, <3>4, <4>1, <4>2 DEF SoundRequest, WellFormed, Overlay
        <4> QED BY <4>3 DEF SoleAdministrator, PendingIsSound
      <3>6. UNCHANGED <<admin, restarts>>
        BY <1>5 DEF CheckReference, admin, user
      <3> QED BY <1>t, <3>5, <3>6, TablesUnchanged DEF IInv
    <2>2. CASE ~Enabled(x)
      <3>1. pc'[p] = "ready" /\ UNCHANGED <<admin, restarts>>
        BY <1>t, <1>5, <2>2, ReturnReady DEF CheckReference, admin, user
      <3> QED BY <1>t, <3>1, TablesUnchanged, PendingOfOne DEF IInv
    <2> QED BY <2>1, <2>2
  <1>6. ASSUME WriteAgent(p) PROVE IInv'
    <2> DEFINE l == loc[p]
    <2>1. /\ l.policy \in Policy /\ WellFormed(l.policy)
          /\ \A m \in l.policy.allowed : model[m] = "enabled"
          /\ l.agent \in Agents /\ Exists(l.agent)
          /\ Overlay(agent[l.agent].policy, l.fields, l.policy) = l.policy
      BY <1>t, <1>0, <1>6 DEF WriteAgent, Checked, IInv, PendingIsSound, SoundRequest, TypeOK, Local
    <2>2. /\ agent'[l.agent] = [agent[l.agent] EXCEPT !.policy = l.policy]
          /\ \A b \in Agents \ {l.agent} : agent'[b] = agent[b]
      BY <1>t, <1>6, <2>1 DEF WriteAgent, TypeOK
    <2>3. NoModel \notin l.policy.allowed
      BY <2>1, GovernanceAssumption DEF Policy
    <2>4. agent'[l.agent].policy = l.policy /\ agent'[l.agent].status # "absent"
      BY <1>t, <2>1, <2>2 DEF TypeOK, Exists
    <2>5. pc'[p] = "ready" /\ UNCHANGED <<model, restarts>>
      BY <1>t, <1>6, ReturnReady DEF WriteAgent, user
    <2> QED BY <1>t, <2>1, <2>2, <2>3, <2>4, <2>5, NewPolicyInv
  <1>7. ASSUME WriteEnabled(p) PROVE IInv'
    <2> DEFINE l == loc[p]
    <2>1. /\ l.policy \in Policy /\ WellFormed(l.policy)
          /\ \A m \in l.policy.allowed : model[m] = "enabled"
          /\ l.agent \in Agents /\ agent[l.agent].policy = l.policy
      BY <1>t, <1>0, <1>7 DEF WriteEnabled, Checked, IInv, PendingIsSound, SoundRequest, TypeOK, Local
    <2>2. /\ agent'[l.agent] = [agent[l.agent] EXCEPT !.status = "enabled"]
          /\ \A b \in Agents \ {l.agent} : agent'[b] = agent[b]
      BY <1>t, <1>7, <2>1 DEF WriteEnabled, TypeOK
    <2>3. NoModel \notin l.policy.allowed
      BY <2>1, GovernanceAssumption DEF Policy
    <2>4. agent'[l.agent].policy = l.policy /\ agent'[l.agent].status # "absent"
      BY <1>t, <2>1, <2>2 DEF TypeOK
    <2>5. pc'[p] = "ready" /\ UNCHANGED <<model, restarts>>
      BY <1>t, <1>7, ReturnReady DEF WriteEnabled, user
    <2> QED BY <1>t, <2>1, <2>2, <2>3, <2>4, <2>5, NewPolicyInv
  <1>8. ASSUME NEW a \in Agents, NEW s \in {"disabled", "retired"}, StopAgent(p, a, s) PROVE IInv'
    <2>1. \A b \in Agents : /\ agent'[b].policy = agent[b].policy
                            /\ agent'[b].status = "enabled" => agent[b].status = "enabled"
                            /\ agent'[b].status = "absent" => agent[b].status = "absent"
      BY <1>t, <1>8 DEF StopAgent, TypeOK
    <2>2. ReferencedModelsExist' /\ ReadyUntilRestart'
      BY <1>8, <2>1 DEF IInv, StopAgent, ReferencedModelsExist, ReadyUntilRestart, EnabledAgentsAreReady,
                        EffectiveAllowed, WellFormed, InTable, user
    <2>3. (\A b \in Agents : ~Exists(b) => b # DefaultAgent /\ agent[b].policy = NoPolicy)'
      BY <2>1 DEF IInv, Exists
    <2>4. PendingIsSound'
      BY <1>8, PendingOfOne DEF StopAgent
    <2> QED BY <1>t, <2>2, <2>3, <2>4 DEF IInv
  <1> QED BY <1>1, <1>2, <1>3, <1>4, <1>5, <1>6, <1>7, <1>8 DEF AgentStep

LEMMA ResourceStepInv ==
    ASSUME SoleAdministrator, IInv, NEW p \in Administrators, ResourceStep(p)
    PROVE  IInv'
  <1>t. TypeOK /\ TypeOK'
    BY ResourceStepType DEF IInv
  <1>0. p \in Procs
    BY DEF Procs
  <1>1. ASSUME NEW m \in Models,
               (\E s \in {"enabled", "disabled"} : CreateModel(p, m, s)) \/ EnableModel(p, m)
        PROVE  IInv'
    <2>1. /\ \A n \in Models : /\ model[n] = "enabled" => model'[n] = "enabled"
                               /\ InTable(model[n]) => InTable(model'[n])
          /\ agent' = agent /\ restarts' = restarts /\ pc'[p] = "ready"
      BY <1>t, <1>1 DEF CreateModel, EnableModel, TypeOK, InTable, user
    <2>2. \A a \in Agents : agent[a].policy \in Policy
      BY <1>t DEF TypeOK
    <2>3. ReferencedModelsExist'
      BY <2>1, <2>2 DEF IInv, ReferencedModelsExist, EffectiveAllowed, Policy
    <2>4. ReadyUntilRestart'
      BY <2>1, <2>2 DEF IInv, ReadyUntilRestart, EnabledAgentsAreReady, WellFormed, Policy
    <2>5. (\A a \in Agents : ~Exists(a) => a # DefaultAgent /\ agent[a].policy = NoPolicy)'
      BY <2>1 DEF IInv, Exists
    <2> QED BY <1>t, <2>1, <2>3, <2>4, <2>5, PendingOfOne DEF IInv
  <1>2. ASSUME NEW m \in Models, DisableModel(p, m) \/ DeleteModel(p, m) PROVE IInv'
    <2>1. /\ pc'[p] = "write" /\ loc'[p].model = m
          /\ \/ loc'[p].op = "disable_model" /\ DisableModel(p, m)
             \/ loc'[p].op = "delete_model" /\ DeleteModel(p, m)
      <3>1. CASE DisableModel(p, m)
        BY <1>t, <1>0, <3>1 DEF DisableModel, Enter, TypeOK, NoLocal
      <3>2. CASE DeleteModel(p, m)
        BY <1>t, <1>0, <3>2 DEF DeleteModel, Enter, TypeOK, NoLocal
      <3> QED BY <1>2, <3>1, <3>2
    <2>2. UNCHANGED <<admin, restarts>>
      BY <1>2 DEF DisableModel, DeleteModel, user
    <2>3. agent' = agent /\ \A a \in Agents : agent[a].status = "enabled" => Exists(a)
      BY <2>2 DEF admin, Exists
    <2>4. ASSUME NEW a \in Agents, References(a, m)
          PROVE  agent[a].status # "enabled" /\ loc'[p].op = "disable_model"
      <3>1. CASE loc'[p].op = "disable_model" /\ DisableModel(p, m)
        BY <2>4, <3>1 DEF DisableModel
      <3>2. CASE loc'[p].op = "delete_model" /\ DeleteModel(p, m)
        <4>1. ~Exists(a)
          BY <2>4, <3>2 DEF DeleteModel
        <4>2. agent[a].policy = NoPolicy
          BY <4>1 DEF IInv
        <4> QED BY <2>4, <4>2, GovernanceAssumption DEF References, NoPolicy
      <3> QED BY <2>1, <3>1, <3>2
    <2>5. PendingIsSound'
      BY <2>1, <2>3, <2>4 DEF SoleAdministrator, PendingIsSound, SoundRequest, References
    <2> QED BY <1>t, <2>2, <2>5, TablesUnchanged DEF IInv
  <1>3. ASSUME WriteModel(p) PROVE IInv'
    <2> DEFINE m == loc[p].model
    <2>1. /\ m \in Models /\ loc[p].op \in {"disable_model", "delete_model"}
          /\ \A a \in Agents : References(a, m) =>
               agent[a].status # "enabled" /\ loc[p].op = "disable_model"
      BY <1>3 DEF WriteModel, IInv, PendingIsSound, SoundRequest
    <2>2. /\ \A n \in Models \ {m} : model'[n] = model[n]
          /\ loc[p].op = "disable_model" /\ InTable(model[m]) => InTable(model'[m])
          /\ agent' = agent /\ restarts' = restarts
      BY <1>t, <1>3, <2>1 DEF WriteModel, TypeOK, InTable, user
    <2>3. \A a \in Agents : agent[a].policy \in Policy
      BY <1>t DEF TypeOK
    <2>4. ReferencedModelsExist'
      BY <2>1, <2>2, <2>3 DEF IInv, ReferencedModelsExist, EffectiveAllowed, Policy, References
    <2>5. ReadyUntilRestart'
      BY <2>1, <2>2, <2>3 DEF IInv, ReadyUntilRestart, EnabledAgentsAreReady, WellFormed, Policy, References
    <2>6. (\A a \in Agents : ~Exists(a) => a # DefaultAgent /\ agent[a].policy = NoPolicy)'
      BY <2>2 DEF IInv, Exists
    <2>7. pc'[p] = "ready"
      BY <1>t, <1>3, ReturnReady DEF WriteModel
    <2> QED BY <1>t, <2>4, <2>5, <2>6, <2>7, PendingOfOne DEF IInv
  <1>4. ASSUME NEW x \in Servers, NEW s \in {"enabled", "disabled", "deleted"}, SetServer(p, x, s)
        PROVE  IInv'
    <2>1. UNCHANGED <<model, agent, restarts>> /\ pc'[p] = "ready"
      BY <1>4 DEF SetServer, user
    <2>2. ReferencedModelsExist' /\ ReadyUntilRestart'
      BY <2>1 DEF IInv, ReferencedModelsExist, ReadyUntilRestart, EnabledAgentsAreReady, EffectiveAllowed,
                  WellFormed, InTable
    <2>3. (\A a \in Agents : ~Exists(a) => a # DefaultAgent /\ agent[a].policy = NoPolicy)'
      BY <2>1 DEF IInv, Exists
    <2> QED BY <1>t, <2>1, <2>2, <2>3, PendingOfOne DEF IInv
  <1> QED BY <1>1, <1>2, <1>3, <1>4 DEF ResourceStep

\* A user's step changes its own request only.
LEMMA UserStepElsewhere ==
    ASSUME TypeOK, NEW p \in Users, UserStep(p)
    PROVE  /\ UNCHANGED <<admin, restarts>>
           /\ \A q \in Administrators : pc'[q] = pc[q] /\ loc'[q] = loc[q]
  <1>1. UNCHANGED <<admin, restarts>>
    BY DEF UserStep, Draft, ResolveModel, InsertConversation, StartRun, MarkRunning, Snapshot, user
  <1>2. \/ \E l, rec : Enter(p, l, rec)
        \/ Return(p)
        \/ \E l : Goto(p, l)
    BY DEF UserStep, Draft, ResolveModel, InsertConversation, StartRun, MarkRunning, Snapshot
  <1>3. \A q \in Administrators : q \in Procs /\ q # p
    BY GovernanceAssumption DEF Procs
  <1> QED BY <1>1, <1>2, <1>3 DEF Enter, Return, Goto, TypeOK

LEMMA RestartInv ==
    ASSUME IInv, NEW m \in BootModels, Restart(m)
    PROVE  IInv'
  <1>t. TypeOK /\ TypeOK'
    BY RestartType DEF IInv
  <1>1. m \in Models /\ NoModel \notin Models /\ DefaultAgent \in Agents
    BY GovernanceAssumption
  <1>2. /\ InTable(model'[m])
        /\ \A n \in Models : InTable(model[n]) => InTable(model'[n])
    BY <1>t, <1>1 DEF Restart, TypeOK, InTable
  <1>3. /\ agent'[DefaultAgent] = [agent[DefaultAgent] EXCEPT !.policy = BootPolicy(m)]
        /\ \A a \in Agents \ {DefaultAgent} : agent'[a] = agent[a]
    BY <1>t, <1>1 DEF Restart, TypeOK
  <1>a. \A a \in Agents : agent[a] \in [status : AgentStatuses, policy : Policy]
    BY <1>t DEF TypeOK
  <1>b. \A a \in Agents : agent[a].policy \in Policy
    BY <1>a
  <1>c. agent'[DefaultAgent].status = agent[DefaultAgent].status
    <2>1. agent[DefaultAgent] \in [status : AgentStatuses, policy : Policy]
      BY <1>1, <1>a
    <2> QED BY <2>1, <1>3
  <1>d. \A a \in Agents : agent'[a].status = agent[a].status
    BY <1>3, <1>c
  <1>4. \A a \in Agents : agent[a].policy \in Policy /\ agent'[a].status = agent[a].status
    BY <1>b, <1>d
  <1>5. /\ agent'[DefaultAgent].policy = BootPolicy(m)
        /\ BootPolicy(m).default = m
        /\ BootPolicy(m).allowed =
             {m} \cup {n \in agent[DefaultAgent].policy.allowed : model[n] = "enabled"}
    BY <1>t, <1>1, <1>3, <1>4 DEF BootPolicy, Policy, TypeOK
  <1>6. ReferencedModelsExist'
    <2> SUFFICES ASSUME NEW a \in Agents, NEW n \in EffectiveAllowed(agent[a].policy)'
                 PROVE  InTable(model'[n])
      BY DEF ReferencedModelsExist, InTable
    <2>1. CASE a # DefaultAgent
      BY <1>2, <1>3, <1>4, <2>1 DEF IInv, ReferencedModelsExist, EffectiveAllowed, Policy
    <2>2. CASE a = DefaultAgent
      <3>1. n = m \/ (n \in Models /\ model[n] = "enabled")
        BY <1>4, <1>5, <2>2 DEF EffectiveAllowed, Policy
      <3> QED BY <1>2, <3>1 DEF InTable
    <2> QED BY <2>1, <2>2
  <1>7. restarts' # 0
    BY <1>t DEF Restart, TypeOK
  <1>8. (\A a \in Agents : ~Exists(a) => a # DefaultAgent /\ agent[a].policy = NoPolicy)'
    BY <1>1, <1>3, <1>4 DEF IInv, Exists
  <1>9. PendingIsSound'
    BY DEF Restart, PendingIsSound, SoundRequest, Procs
  <1> QED BY <1>t, <1>6, <1>7, <1>8, <1>9 DEF IInv, ReadyUntilRestart

LEMMA NextInv == SoleAdministrator /\ IInv /\ [Next]_vars => IInv'
  <1> SUFFICES ASSUME SoleAdministrator, IInv, [Next]_vars PROVE IInv'
    OBVIOUS
  <1>t. TypeOK /\ TypeOK'
    BY TypeStep DEF IInv
  <1>1. ASSUME NEW p \in Administrators, AgentStep(p) PROVE IInv'
    BY <1>1, AgentStepInv
  <1>2. ASSUME NEW p \in Administrators, ResourceStep(p) PROVE IInv'
    BY <1>2, ResourceStepInv
  <1>3. ASSUME NEW p \in Users, UserStep(p) PROVE IInv'
    BY <1>t, <1>3, UserStepElsewhere, ElsewhereInv
  <1>4. ASSUME NEW c \in Conversations, RunEnds(c) PROVE IInv'
    BY <1>t, <1>4, ElsewhereInv DEF RunEnds
  <1>5. ASSUME NEW m \in BootModels, Restart(m) PROVE IInv'
    BY <1>5, RestartInv
  <1>6. CASE UNCHANGED vars
    BY <1>t, <1>6, ElsewhereInv DEF vars, admin
  <1> QED BY <1>1, <1>2, <1>3, <1>4, <1>5, <1>6 DEF Next

-----------------------------------------------------------------------------
(* Theorems.                                                               *)

\* With one administrator, IInv is an invariant: what a request has checked is
\* still so when it writes.
THEOREM Governed ==
    ASSUME SoleAdministrator
    PROVE  Spec => []IInv
  <1>1. IInv /\ [Next]_vars => IInv'
    BY NextInv
  <1> QED BY <1>1, InitInv, PTL DEF Spec

\* With one administrator no agent ever refers to a model configuration that is
\* gone, across restarts and whatever the users do.
THEOREM NoDanglingModel ==
    ASSUME SoleAdministrator
    PROVE  Spec => []ReferencedModelsExist
  <1>1. IInv => ReferencedModelsExist
    BY DEF IInv
  <1> QED BY <1>1, Governed, PTL

\* With one administrator enabled agents stay ready as long as the API is not
\* restarted.
THEOREM EnabledStayReady ==
    ASSUME SoleAdministrator
    PROVE  Spec => []ReadyUntilRestart
  <1>1. IInv => ReadyUntilRestart
    BY DEF IInv
  <1> QED BY <1>1, Governed, PTL

-----------------------------------------------------------------------------
(* Runs, with any number of administrators and users.                      *)

ConversationOK(c) ==
    /\ conversation[c].status # "absent" =>
         conversation[c].model \in Models /\ model[conversation[c].model] # "absent"
    /\ run[c] # NoModel => conversation[c].status # "absent"

UserOK(p) ==
    /\ pc[p] \in {"resolve", "insert"} => loc[p].model \in Models
    /\ pc[p] = "insert" => model[loc[p].model] # "absent"
    /\ MakesRun(p) =>
         /\ loc[p].conversation \in Conversations
         /\ conversation[loc[p].conversation].status # "absent"
         /\ conversation[loc[p].conversation].model = loc[p].model

RunningOK(c) ==
    conversation[c].status = "running" =>
        \/ run[c] # NoModel
        \/ \E p \in Users : pc[p] = "snapshot" /\ loc[p].conversation = c
        \/ ~InTable(model[conversation[c].model])

LEMMA RunsParts ==
    /\ RunsInv <=> (\A c \in Conversations : ConversationOK(c)) /\ \A p \in Users : UserOK(p)
    /\ RunningHasRun <=> (restarts = 0 => \A c \in Conversations : RunningOK(c))
  BY DEF RunsInv, ConversationOK, UserOK, RunningHasRun, RunningOK

\* A model once created is never absent again, and one deleted is never back.
ModelsMove ==
    \A m \in Models : model[m] # "absent" =>
        model'[m] # "absent" /\ (~InTable(model[m]) => ~InTable(model'[m]))

LEMMA ModelsOnlyMove ==
    ASSUME TypeOK, Next
    PROVE  ModelsMove
  <1>1. ASSUME UNCHANGED model PROVE ModelsMove
    BY <1>1 DEF ModelsMove
  <1>2. ASSUME NEW p \in Administrators, AgentStep(p) PROVE UNCHANGED model
    BY <1>2 DEF AgentStep, CreateAgent, UpdateAgent, EnableAgent, InsertAgent, CheckReference,
                WriteAgent, WriteEnabled, StopAgent, admin
  <1>3. ASSUME NEW p \in Administrators, ResourceStep(p) PROVE ModelsMove
    <2>1. ASSUME NEW m \in Models, NEW s \in {"enabled", "disabled"}, CreateModel(p, m, s)
          PROVE  ModelsMove
      BY <2>1 DEF CreateModel, ModelsMove, TypeOK
    <2>2. ASSUME NEW m \in Models, EnableModel(p, m) PROVE ModelsMove
      BY <2>2 DEF EnableModel, ModelsMove, InTable, TypeOK
    <2>3. CASE WriteModel(p)
      <3>1. \A m \in Models : model'[m] # model[m] =>
              model'[m] \in {"disabled", "deleted"} /\ InTable(model[m])
        <4>1. \E s \in {"disabled", "deleted"} :
                model' = [model EXCEPT ![loc[p].model] = IF InTable(@) THEN s ELSE @]
          BY <2>3 DEF WriteModel
        <4> QED BY <4>1 DEF TypeOK
      <3> QED BY <3>1 DEF ModelsMove, InTable
    <2>4. ASSUME NEW m \in Models, DisableModel(p, m) \/ DeleteModel(p, m) PROVE ModelsMove
      BY <1>1, <2>4 DEF DisableModel, DeleteModel, admin
    <2>5. ASSUME NEW x \in Servers, NEW s \in {"enabled", "disabled", "deleted"}, SetServer(p, x, s)
          PROVE  ModelsMove
      BY <1>1, <2>5 DEF SetServer
    <2> QED BY <1>3, <2>1, <2>2, <2>3, <2>4, <2>5 DEF ResourceStep
  <1>4. ASSUME NEW p \in Users, UserStep(p) PROVE UNCHANGED model
    BY <1>4, UserStepElsewhere DEF admin
  <1>5. ASSUME NEW c \in Conversations, RunEnds(c) PROVE UNCHANGED model
    BY <1>5 DEF RunEnds, admin
  <1>6. ASSUME NEW m \in BootModels, Restart(m) PROVE ModelsMove
    BY <1>6 DEF Restart, ModelsMove, InTable, TypeOK
  <1> QED BY <1>1, <1>2, <1>3, <1>4, <1>5, <1>6 DEF Next

\* A step of an administrator, or none.
LEMMA RunsFrame ==
    ASSUME TypeOK, RunsInv, RunningHasRun, ModelsMove, UNCHANGED <<conversation, run, restarts>>,
           \A p \in Users : pc'[p] = pc[p] /\ loc'[p] = loc[p]
    PROVE  RunsInv' /\ RunningHasRun'
  <1>1. ASSUME NEW c \in Conversations PROVE ConversationOK(c)'
    BY RunsParts DEF ConversationOK, ModelsMove
  <1>2. ASSUME NEW p \in Users PROVE UserOK(p)'
    BY RunsParts DEF UserOK, MakesRun, ModelsMove
  <1>3. ASSUME NEW c \in Conversations, restarts = 0 PROVE RunningOK(c)'
    <2>1. RunningOK(c) /\ ConversationOK(c)
      BY <1>3, RunsParts
    <2> QED BY <2>1 DEF RunningOK, ConversationOK, ModelsMove
  <1> QED BY <1>1, <1>2, <1>3 DEF RunsInv, RunningHasRun, ConversationOK, UserOK, RunningOK

OthersStay(p) == \A q \in Users : q # p => pc'[q] = pc[q] /\ loc'[q] = loc[q]

\* A step of a user that writes no table.
LEMMA UserFrame ==
    ASSUME RunsInv, RunningHasRun, UNCHANGED <<model, conversation, run, restarts>>,
           NEW p \in Users, pc[p] # "snapshot", OthersStay(p), UserOK(p)'
    PROVE  RunsInv' /\ RunningHasRun'
  <1>1. ASSUME NEW c \in Conversations PROVE ConversationOK(c)'
    BY RunsParts DEF ConversationOK
  <1>2. ASSUME NEW q \in Users PROVE UserOK(q)'
    <2>1. CASE q # p
      BY <2>1, RunsParts DEF UserOK, MakesRun, OthersStay
    <2> QED BY <2>1
  <1>3. ASSUME NEW c \in Conversations, restarts = 0 PROVE RunningOK(c)'
    BY <1>3, RunsParts DEF RunningOK, OthersStay
  <1> QED BY <1>1, <1>2, <1>3 DEF RunsInv, RunningHasRun, ConversationOK, UserOK, RunningOK

\* Where a step of a user leaves it.
LEMMA UserAt ==
    ASSUME TypeOK, NEW p \in Users
    PROVE  /\ \A l, rec : Enter(p, l, rec) => pc'[p] = l /\ loc'[p] = rec /\ OthersStay(p)
           /\ \A l : Goto(p, l) => pc'[p] = l /\ loc'[p] = loc[p] /\ OthersStay(p)
           /\ Return(p) => pc'[p] = "ready" /\ OthersStay(p)
  <1>1. p \in Procs /\ \A q \in Users : q \in Procs
    BY DEF Procs
  <1> QED BY <1>1 DEF Enter, Goto, Return, OthersStay, TypeOK

\* A request that is over asks for nothing.
LEMMA DoneOK ==
    ASSUME NEW p \in Users, pc'[p] = "ready"
    PROVE  UserOK(p)'
  BY DEF UserOK, MakesRun

\* A draft names a model its agent allows, hence one that is a model.
LEMMA DraftRuns ==
    ASSUME TypeOK, RunsInv, RunningHasRun, NEW p \in Users, NEW a \in Agents,
           NEW choice \in Models \cup {NoModel}, NEW op \in {"draft", "draft_run"},
           Draft(p, a, choice, op)
    PROVE  RunsInv' /\ RunningHasRun'
  <1>1. PICK m \in EffectiveAllowed(agent[a].policy) :
          Enter(p, "resolve", [NoLocal EXCEPT !.op = op, !.agent = a, !.model = m])
    BY DEF Draft
  <1>2. m \in Models
    BY DEF EffectiveAllowed, TypeOK, Policy
  <1>3. pc'[p] = "resolve" /\ loc'[p].op = op /\ loc'[p].model = m /\ OthersStay(p)
    <2>1. loc'[p] = [NoLocal EXCEPT !.op = op, !.agent = a, !.model = m]
      BY <1>1, UserAt
    <2> QED BY <1>1, <2>1, UserAt DEF NoLocal
  <1>4. UserOK(p)'
    BY <1>2, <1>3 DEF UserOK, MakesRun
  <1> QED BY <1>3, <1>4, UserFrame DEF Draft, admin, user

\* The model is there when it is found enabled.
LEMMA ResolveRuns ==
    ASSUME TypeOK, RunsInv, RunningHasRun, NEW p \in Users, ResolveModel(p)
    PROVE  RunsInv' /\ RunningHasRun'
  <1>1. CASE model[loc[p].model] = "enabled"
    <2>1. loc'[p] = loc[p] /\ OthersStay(p)
          /\ pc'[p] = IF loc[p].op = "start" THEN "start" ELSE "insert"
      BY <1>1, UserAt DEF ResolveModel
    <2>2. UserOK(p) /\ pc[p] = "resolve" /\ UNCHANGED <<model, conversation>>
      BY RunsParts DEF ResolveModel, admin, user
    <2>3. UserOK(p)'
      BY <1>1, <2>1, <2>2 DEF UserOK, MakesRun
    <2> QED BY <2>1, <2>3, UserFrame DEF ResolveModel, admin, user
  <1>2. CASE model[loc[p].model] # "enabled"
    <2>1. pc'[p] = "ready" /\ OthersStay(p)
      BY <1>2, UserAt DEF ResolveModel
    <2> QED BY <2>1, DoneOK, UserFrame DEF ResolveModel, admin, user
  <1> QED BY <1>1, <1>2

\* A run is started of a conversation that exists, with its model.
LEMMA StartRuns ==
    ASSUME TypeOK, RunsInv, RunningHasRun, NEW p \in Users, NEW c \in Conversations,
           NEW via \in {"workspace", "copilotkit"}, StartRun(p, c, via)
    PROVE  RunsInv' /\ RunningHasRun'
  <1> DEFINE rec == [NoLocal EXCEPT !.op = "start", !.conversation = c,
                                    !.agent = conversation[c].agent,
                                    !.model = conversation[c].model]
  <1>1. Enter(p, "start", rec) \/ Enter(p, "resolve", rec)
    BY DEF StartRun
  <1>2. rec.op = "start" /\ rec.conversation = c /\ rec.model = conversation[c].model
    BY DEF NoLocal
  <1> HIDE DEF rec
  <1>3. /\ pc'[p] \in {"start", "resolve"} /\ OthersStay(p)
        /\ loc'[p].conversation = c /\ loc'[p].model = conversation[c].model
    BY <1>1, <1>2, UserAt
  <1>4. ConversationOK(c) /\ conversation[c].status # "absent" /\ UNCHANGED conversation
    BY RunsParts DEF StartRun, user
  <1>5. UserOK(p)'
    BY <1>3, <1>4 DEF UserOK, MakesRun, ConversationOK
  <1> QED BY <1>3, <1>5, UserFrame DEF StartRun, admin, user

\* A new conversation has the model its request resolved.
LEMMA InsertRuns ==
    ASSUME TypeOK, RunsInv, RunningHasRun, NEW p \in Users, NEW c \in Conversations,
           InsertConversation(p, c)
    PROVE  RunsInv' /\ RunningHasRun'
  <1>1. /\ conversation'[c] = [status |-> "idle", agent |-> loc[p].agent, model |-> loc[p].model]
        /\ \A d \in Conversations : d # c => conversation'[d] = conversation[d]
        /\ UNCHANGED <<model, run, restarts>> /\ pc[p] = "insert"
        /\ conversation[c].status = "absent"
    BY DEF InsertConversation, TypeOK, admin
  <1>2. conversation'[c].status = "idle" /\ conversation'[c].model = loc[p].model
    BY <1>1
  <1>3. OthersStay(p) /\ \/ pc'[p] = "ready"
                         \/ pc'[p] = "start" /\ loc'[p] = [loc[p] EXCEPT !.conversation = c]
    BY UserAt DEF InsertConversation
  <1>4. loc[p].model \in Models /\ model[loc[p].model] # "absent"
    BY <1>1, RunsParts DEF UserOK
  <1>5. UserOK(p)'
    <2>1. CASE pc'[p] = "ready"
      BY <2>1, DoneOK
    <2>2. CASE pc'[p] = "start" /\ loc'[p] = [loc[p] EXCEPT !.conversation = c]
      <3>1. loc[p] \in Local
        BY DEF TypeOK, Procs
      <3>2. loc'[p].conversation = c /\ loc'[p].model = loc[p].model
        BY <2>2, <3>1 DEF Local
      <3> QED BY <1>2, <2>2, <3>2 DEF UserOK, MakesRun
    <2> QED BY <1>3, <2>1, <2>2
  <1>6. ASSUME NEW q \in Users PROVE UserOK(q)'
    <2>1. CASE q # p
      <3>1. UserOK(q) /\ pc'[q] = pc[q] /\ loc'[q] = loc[q]
        BY <1>3, <2>1, RunsParts DEF OthersStay
      <3>2. MakesRun(q) => loc[q].conversation # c
        BY <1>1, <3>1 DEF UserOK
      <3> QED BY <1>1, <3>1, <3>2 DEF UserOK, MakesRun
    <2> QED BY <1>5, <2>1
  <1>7. ASSUME NEW d \in Conversations PROVE ConversationOK(d)'
    BY <1>1, <1>2, <1>4, RunsParts DEF ConversationOK
  <1>8. ASSUME NEW d \in Conversations, restarts = 0 PROVE RunningOK(d)'
    BY <1>1, <1>2, <1>3, <1>8, RunsParts DEF RunningOK, OthersStay
  <1> QED BY <1>1, <1>6, <1>7, <1>8 DEF RunsInv, RunningHasRun, ConversationOK, UserOK, RunningOK

\* A conversation is marked by the request that goes on to snapshot its run.
LEMMA MarkRuns ==
    ASSUME TypeOK, RunsInv, RunningHasRun, NEW p \in Users, MarkRunning(p)
    PROVE  RunsInv' /\ RunningHasRun'
  <1> DEFINE c == loc[p].conversation
  <1>0. UserOK(p) /\ pc[p] = "start" /\ MakesRun(p) /\ UNCHANGED <<model, run, restarts>>
    BY RunsParts DEF MarkRunning, MakesRun, admin
  <1>1. CASE run[c] # NoModel
    <2>1. Return(p) /\ UNCHANGED conversation
      BY <1>1 DEF MarkRunning
    <2> QED BY <1>0, <2>1, UserAt, DoneOK, UserFrame
  <1>2. CASE run[c] = NoModel
    <2>1. c \in Conversations
      BY <1>0 DEF UserOK
    <2>2. conversation' = [conversation EXCEPT ![c].status = "running"] /\ Goto(p, "snapshot")
      BY <1>2 DEF MarkRunning
    <2>3. /\ \A d \in Conversations : conversation'[d].model = conversation[d].model
          /\ \A d \in Conversations : d # c => conversation'[d] = conversation[d]
          /\ conversation'[c].status = "running"
      <3>1. conversation \in [Conversations -> [status : {"absent", "idle", "running"},
                                                agent : Agents \cup {NoAgent},
                                                model : Models \cup {NoModel}]]
        BY DEF TypeOK
      <3> HIDE DEF c
      <3> QED BY <2>1, <2>2, <3>1
    <2>4. pc'[p] = "snapshot" /\ loc'[p] = loc[p] /\ OthersStay(p)
      BY <2>2, UserAt
    <2>5. \A d \in Conversations : conversation[d].status # "absent"
                                     <=> conversation'[d].status # "absent"
      BY <1>0, <2>1, <2>3 DEF UserOK
    <2>6. ASSUME NEW q \in Users PROVE UserOK(q)'
      <3>1. UserOK(q) /\ loc'[q] = loc[q]
        BY <2>4, RunsParts DEF OthersStay
      <3>2. pc'[q] = pc[q] \/ (q = p /\ pc'[q] = "snapshot")
        BY <2>4 DEF OthersStay
      <3> QED BY <1>0, <2>3, <2>5, <3>1, <3>2 DEF UserOK, MakesRun
    <2>7. ASSUME NEW d \in Conversations PROVE ConversationOK(d)'
      BY <1>0, <2>3, <2>5, RunsParts DEF ConversationOK
    <2>8. ASSUME NEW d \in Conversations, restarts = 0 PROVE RunningOK(d)'
      <3>1. CASE d = c
        BY <2>4, <3>1 DEF RunningOK
      <3>2. CASE d # c
        BY <1>0, <2>3, <2>4, <2>8, <3>2, RunsParts DEF RunningOK, OthersStay
      <3> QED BY <3>1, <3>2
    <2> QED BY <1>0, <2>6, <2>7, <2>8
            DEF RunsInv, RunningHasRun, ConversationOK, UserOK, RunningOK
  <1> QED BY <1>1, <1>2

\* The snapshot makes the run, or finds the model deleted for ever.
LEMMA SnapshotRuns ==
    ASSUME TypeOK, RunsInv, RunningHasRun, NEW p \in Users, Snapshot(p)
    PROVE  RunsInv' /\ RunningHasRun'
  <1> DEFINE c == loc[p].conversation
  <1>1. /\ c \in Conversations /\ conversation[c].status # "absent"
        /\ conversation[c].model = loc[p].model /\ loc[p].model \in Models
        /\ UNCHANGED <<model, conversation, restarts>>
    BY RunsParts DEF Snapshot, admin, UserOK, ConversationOK, MakesRun
  <1>2. /\ \A d \in Conversations : d # c => run'[d] = run[d]
        /\ InTable(model[loc[p].model]) => run'[c] = loc[p].model
        /\ ~InTable(model[loc[p].model]) => run'[c] = run[c]
    BY <1>1 DEF Snapshot, TypeOK
  <1>3. pc'[p] = "ready" /\ OthersStay(p)
    BY UserAt DEF Snapshot
  <1>4. ASSUME NEW q \in Users PROVE UserOK(q)'
    <2>1. CASE q # p
      BY <1>1, <1>3, <2>1, RunsParts DEF UserOK, MakesRun, OthersStay
    <2> QED BY <1>3, <2>1, DoneOK
  <1>5. ASSUME NEW d \in Conversations PROVE ConversationOK(d)'
    BY <1>1, <1>2, RunsParts DEF ConversationOK
  <1>6. ASSUME NEW d \in Conversations, restarts = 0 PROVE RunningOK(d)'
    <2>1. CASE d = c
      <3>1. loc[p].model # NoModel
        BY <1>1, GovernanceAssumption
      <3> QED BY <1>1, <1>2, <2>1, <3>1 DEF RunningOK
    <2>2. CASE d # c
      BY <1>1, <1>2, <1>3, <1>6, <2>2, RunsParts DEF RunningOK, OthersStay
    <2> QED BY <2>1, <2>2
  <1> QED BY <1>1, <1>4, <1>5, <1>6
          DEF RunsInv, RunningHasRun, ConversationOK, UserOK, RunningOK

\* A run that ends leaves its conversation idle.
LEMMA EndRuns ==
    ASSUME TypeOK, RunsInv, RunningHasRun, NEW c \in Conversations, RunEnds(c)
    PROVE  RunsInv' /\ RunningHasRun'
  <1>1. /\ conversation[c].status # "absent" /\ UNCHANGED <<model, restarts, pc, loc>>
        /\ \A d \in Conversations : d # c => run'[d] = run[d]
        /\ run'[c] = NoModel
    BY RunsParts DEF RunEnds, admin, ConversationOK, TypeOK
  <1>2. /\ \A d \in Conversations : conversation'[d].model = conversation[d].model
        /\ \A d \in Conversations : d # c => conversation'[d] = conversation[d]
        /\ conversation'[c].status = "idle"
    BY DEF RunEnds, TypeOK
  <1>3. ASSUME NEW q \in Users PROVE UserOK(q)'
    BY <1>1, <1>2, RunsParts DEF UserOK, MakesRun
  <1>4. ASSUME NEW d \in Conversations PROVE ConversationOK(d)'
    BY <1>1, <1>2, RunsParts DEF ConversationOK
  <1>5. ASSUME NEW d \in Conversations, restarts = 0 PROVE RunningOK(d)'
    BY <1>1, <1>2, <1>5, RunsParts DEF RunningOK
  <1> QED BY <1>1, <1>3, <1>4, <1>5
          DEF RunsInv, RunningHasRun, ConversationOK, UserOK, RunningOK

\* A restart ends every request, and RunningHasRun says nothing after one.
LEMMA RestartRuns ==
    ASSUME TypeOK, RunsInv, NEW m \in BootModels, Restart(m), ModelsMove
    PROVE  RunsInv' /\ RunningHasRun'
  <1>1. restarts' # 0 /\ UNCHANGED <<conversation, run>> /\ \A p \in Users : pc'[p] = "ready"
    BY DEF Restart, TypeOK, Procs
  <1>2. \A p \in Users : UserOK(p)'
    BY <1>1, DoneOK
  <1>3. ASSUME NEW c \in Conversations PROVE ConversationOK(c)'
    BY <1>1, RunsParts DEF ConversationOK, ModelsMove
  <1> QED BY <1>1, <1>2, <1>3 DEF RunsInv, RunningHasRun, ConversationOK, UserOK

LEMMA RunsStep == TypeOK /\ RunsInv /\ RunningHasRun /\ [Next]_vars => (RunsInv /\ RunningHasRun)'
  <1> SUFFICES ASSUME TypeOK, RunsInv, RunningHasRun, [Next]_vars PROVE RunsInv' /\ RunningHasRun'
    OBVIOUS
  <1>1. ASSUME NEW p \in Administrators, AgentStep(p) \/ ResourceStep(p)
        PROVE  UNCHANGED <<conversation, run, restarts>>
               /\ \A q \in Users : pc'[q] = pc[q] /\ loc'[q] = loc[q]
    <2>1. UNCHANGED <<conversation, run, restarts>>
      BY <1>1 DEF AgentStep, CreateAgent, UpdateAgent, EnableAgent, InsertAgent, CheckReference,
         WriteAgent, WriteEnabled, StopAgent, ResourceStep, CreateModel, EnableModel, DisableModel,
         DeleteModel, WriteModel, SetServer, user
    <2>2. \A q \in Users : q # p /\ q \in Procs /\ p \in Procs
      BY GovernanceAssumption DEF Procs
    <2>3. \A q \in Procs : q # p => pc'[q] = pc[q] /\ loc'[q] = loc[q]
      <3>1. CASE AgentStep(p)
        BY <3>1 DEF AgentStep, CreateAgent, UpdateAgent, EnableAgent, InsertAgent, CheckReference,
           WriteAgent, WriteEnabled, StopAgent, Check, Enter, Return, TypeOK
      <3>2. CASE ResourceStep(p)
        BY <3>2 DEF ResourceStep, CreateModel, EnableModel, DisableModel, DeleteModel,
           WriteModel, SetServer, Enter, Return, TypeOK
      <3> QED BY <1>1, <3>1, <3>2
    <2> QED BY <2>1, <2>2, <2>3
  <1>2. ASSUME NEW p \in Users, UserStep(p) PROVE RunsInv' /\ RunningHasRun'
    BY <1>2, DraftRuns, ResolveRuns, InsertRuns, StartRuns, MarkRuns, SnapshotRuns DEF UserStep
  <1>3. CASE UNCHANGED vars
    <2>1. ModelsMove
      BY <1>3 DEF vars, ModelsMove
    <2> QED BY <1>3, <2>1, RunsFrame DEF vars
  <1>4. CASE Next
    <2>1. ModelsMove
      BY <1>4, ModelsOnlyMove
    <2> QED BY <1>1, <1>2, <1>4, <2>1, RunsFrame, EndRuns, RestartRuns DEF Next
  <1> QED BY <1>3, <1>4

\* Until the API restarts, a conversation shown as running has a run or a request about to
\* create it, or its model was deleted meanwhile: with any number of administrators and
\* users, who start runs, delete models and change agents at the same time.
THEOREM ShownRunningHasRun == Spec => []RunningHasRun
  <1>1. Init => TypeOK /\ RunsInv /\ RunningHasRun
    <2>1. ASSUME Init PROVE RunsInv /\ RunningHasRun
      BY <2>1 DEF Init, RunsInv, RunningHasRun, MakesRun, Procs
    <2> QED BY <2>1, InitInv DEF IInv
  <1> QED BY <1>1, TypeStep, RunsStep, PTL DEF Spec
=============================================================================
