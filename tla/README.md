# Minimalist Agent: formal models

TLA+ models of Minimalist Agent, a workspace in which users talk to agents: a
FastAPI application (`src/apps/api`), a Celery worker (`src/apps/worker`) that
executes Agent Runs with the OpenAI Agents SDK, PostgreSQL and Redis, and a React
application (`src/apps/web`). Each module is translated from the source;
`PROJECT.json` maps every definition to its lines. TLC checks small instances,
TLAPS proves the main safety properties for every instance.

    tlc -workers 2 -config RunFaults.cfg MCRunLifecycle.tla
    tlapm RunLifecycleProofs.tla

## 1. The system

Every operation of a store in the API opens a session, runs one READ COMMITTED
transaction and commits it (`database.py`). A handler that calls several stores is
therefore a *sequence of transactions*, and other handlers, other API threads and
workers commit in between. The endpoints are synchronous functions in a thread
pool (only CopilotKit's `run` is `async`). This is the source of nearly everything
below: **a step of each module is one transaction**, and what a handler remembers
from one to the next is state of its process.

| Component | State | Operations | Interacts with |
|---|---|---|---|
| Run lifecycle (`agent_run_lifecycle`, `agent_runs`) | the `agent_runs` rows | queue, mark enqueued, begin, succeed, fail, cancel | conversations, event log; called by dispatcher, runtime, workspace flow, CopilotKit |
| Dispatcher and worker (`agent_run_dispatcher`, `celery_app`) | tasks in the broker | publish, execute inline, take a task | Redis; run lifecycle; runtime |
| Runtime executor (`runtime`) | the SDK runner of a run | set up, stream deltas and tool calls, end | run lifecycle, provider, tools |
| Run event log (`run_event_log`) | `agent_run_events`, numbered per run | append, list after | written by every handler; read over SSE |
| Browser stream (`ag-ui-stream.ts`) | events shown, last-seen position in local storage | mount, receive, reconnect | SSE endpoint |
| Conversations | status, deleted flag, messages | create, append, set status, rename, pin, archive, delete | runs, agents |
| CopilotKit endpoint | one generator per response, thread map in memory | connect, run, stop | run lifecycle, runtime |
| Agents, models, MCP servers, readiness | rows without foreign keys between them | create, update, enable, disable, retire, delete, check | administrators' routes; snapshots of runs |
| Bootstrap | none | first administrator, default model, at every start | accounts, agents, models |
| Local accounts | accounts, sessions, audit events | register, approve, reject, disable, enable, promote, demote, login | every route's authorisation |
| Artifacts and attachments | rows and objects | upload, list, preview | object store, conversations |
| Runtime tools | none (providers in memory) | authorise and call tools | MCP servers, providers |
| Web session (`app.tsx`, `auth-api.ts`) | token in local storage and in the tab, cached account, route | sign in, register, sign out, 401, profile | every page; other tabs through the storage |
| Workspace (`conversation-shell.tsx`, `workspace-queries.ts`) | query cache of conversations and runs, selection, creations, a stop | select, create, send, stop, refetch | API, CopilotKit client, page assistant |
| Conversation surface | live and optimistic messages beside the stored ones | send, stream, sync | workspace cache, CopilotKit client |
| Administrator pages (`planned-pages.tsx`) | one list, selection, forms and effects per page | load, select, edit, save, delete, check | administrators' routes |
| Assistant bridges (`copilotkit-adapter.tsx`) | none (closures of a render) | select, filter and open things on the page shown | the page's setters |

What is hard in it, and what each part must keep (the lines are under `hazards` in
`PROJECT.json`):

- *Runs.* Two starts of one conversation; a cancellation against the handler that
  is still dispatching and the worker that executes; whole-row saves of stale
  copies; a publish that raises though the task was delivered; crashes of the API
  and of workers; deletion of the conversation under a run; a client that leaves.
  Correct means: the record never says more than log and transcript, one start, one
  reply, a settled run stays settled, every run settles and frees its conversation.
- *Event log.* Racing appends without a unique key; lost connections, reloads, tabs
  that share a position. Correct means: no gap, no repetition, no event missed.
- *Governance.* Readiness checks and guards apart from the writes they protect;
  restarts that rebind the default agent. Correct means: an enabled agent has
  enabled models, no agent refers to a deleted model, users run only what is allowed.
- *Accounts.* Logins and decisions that race; guards that count. Correct means:
  nobody enters who was not let in, an administrator remains, the audit trail is true.
- *Browser.* State in a query cache, in React and in uncontrolled fields; answers,
  refetches and effects in any order; closures that hold the list of an earlier
  render; a cache that outlives the session. Nothing polls. Correct means: what a page
  shows belongs to what it has selected and to the account signed in, and a save sends
  what its form showed.

## 2. The modules

    RunLifecycle  <-- MCRunLifecycle --> RunPromise     (refinement)
         ^                  ^
         +-- RunLifecycleProofs <-- RunPromiseProofs    (and MCRunLifecycle)
    RunEventLog     <-- RunEventLogProofs
    AgentGovernance <-- MCAgentGovernance, AgentGovernanceProofs
    LocalAccounts   <-- MCLocalAccounts <-- LocalAccountsProofs
    WebSession      <-- MCWebSession
    WebSession, WorkspaceClient, WorkspaceRuns, Transcript, SettingsForm, AgentPanel,
    ModelPanel, McpAuthorization, AccountApproval, ProviderSettings, RunAudit
                    <-- MCWebPages                      (one page open at a time)
    MCWebPages      <-- WorkspaceProofs, AdminPagesProofs <-- PanelProofs

Definitions whose comment starts with "Faulty" are deliberate errors (a dropped
guard, a save in the wrong place). No specification uses them: the mutants put
each in place of the correct definition and expect the property to fail.

### RunLifecycle (the core)

State: the conversation rows (`status`, `deleted`, `transcript`), the run rows
(`runs`), the event log (`log`), the broker (`tasks`), and per process its control
point `pc`, its run and the **copy** of the run it has read. Processes are requests
(POST run, CopilotKit run, cancel, stop, delete) and Celery workers.

| Actions | Code |
|---|---|
| `StartCheck` .. `StartLog` | `queue_for_conversation`: check, user message, status, create, first event |
| `StartRaises` | its capability snapshot finds the conversation's model deleted, after the status was set and before the run exists: the request ends in a 404 and the conversation stays running |
| `MarkGet`, `MarkLog`, `MarkSave` | `mark_worker_enqueued` |
| `Publish`, `PublishFails` | `AgentRunDispatcher.dispatch` |
| `TakeTask`, `ExecGet`, `ExecSetup` | `process_agent_run` and the setup of `execute` / `stream` |
| `BeginGet`, `BeginLog`, `BeginSave` | `begin_runtime_execution` |
| `RecordProgress`, `RunnerReturns`, `Disconnect` | the runner's event loop, its end or error, a closed generator |
| `SuccGet` .. `SuccSave` | the process summary, `apply_runtime_success` |
| `FailGet` .. `FailSave` | `apply_runtime_failure` |
| `CancelStart`, `StopStart`, `CancelGet` .. `CancelSave` | `cancel_for_user`, CopilotKit's stop |
| `Release` | `_release_conversation` |
| `Delete`, `ApiCrash`, `WorkerCrash` | soft deletion, the death of a process |

Abstracted: a message is its kind and its run; deltas and tool calls are the event
"progress"; an answer is a non-empty one. Appending a message or an event is one
atomic step here (RunEventLog takes the append of events apart). The check for an
active run merges the two reads it does, which write nothing. One user owns all.

`RunPromise` is the abstract specification: runs are queued one at a time per
conversation, begin, reply at most once while active, and complete, or fail having
replied. `MCRunLifecycle` maps the tables to it.

### RunEventLog

The rows of one run's log; per writer the sequence it has computed and not yet
inserted (`NextSequence`, `Insert`: the read and the commit of `append`); per tab
the state of its EventSource, the position in its URL, EventSource's own last id,
the response in flight and the events shown; the position in local storage that
tabs share. The endpoint answers with what is committed and ends (`Respond`), and
EventSource reconnects (`Reconnect`). `useAgentRunStream` is the model's client; in
this version of the repository only its test mounts it.

### AgentGovernance

The rows of models, servers and agents, what a conversation is bound to, and the
requests of administrators and users. An administrator's request checks the
references of an agent **one transaction at a time** (`CheckReference`) and then
writes (`WriteAgent`, `InsertAgent`, `WriteEnabled`); disabling or deleting a model
looks at the agents and writes later (`DisableModel`, `DeleteModel`, `WriteModel`).
A user drafts or creates a conversation (`Draft`, `ResolveModel`,
`InsertConversation`) and starts a run up to its capability snapshot (`StartRun`,
`MarkRunning`, `Snapshot`; its further life is RunLifecycle). `Restart` is
`bootstrap_default_model_configuration` before the API serves: it ends the requests
in progress. Abstracted: a model is absent, enabled, disabled or deleted and its
contents are fixed, `BootModels` being the rows that match the environment, whose
credential is configured; the administrative audit record, a transaction after the
change, is left out; the 404 of a vanished row is part of the write; servers are
switched and deleted without any look at the agents, as in the code.

### LocalAccounts

Accounts, sessions (token to account) and, per account, what the audit trail says:
its last event and whether access was ever granted. A request authorises
(`Authorize`), reads account and guard (`Read`) and commits (`CommitStatus`,
`CommitRole`), writing only the columns that differ from what it read, as the ORM
does; a login reads (`LoginRead`) and inserts its session later (`LoginInsert`).
The read of the account and the count of administrators are one step; a commit is
atomic with its audit event and the deletion of sessions. Tokens are never reused.
The password comparison is part of the choice to log in. `Root` is
`bootstrap_administrator`'s account.

### The web application

A step of these modules is one turn of the browser's event loop with the renders and
effects that follow it, or one step of the API. A fetch is *asked*, *answered* (the API
has read) and then *arrives*, so that it can be late; a refetch that is asked anew drops
the answer under way, as TanStack Query's `cancelQueries` and `invalidateQueries` do, or
joins it, where the code does not cancel. The libraries (TanStack Query, CopilotKit,
the browser's fields and storage) are modelled by how the code uses them, and marked
external where an action is theirs. Variables and constants whose comment says *history*
belong to the model, and are in the guards of no action of the code.

| Module | State | Actions and code |
|---|---|---|
| WebSession | stored token, the tab's copy, `currentUserQuery` with its fetch, whose conversation list is cached, route, requests with the token they carry | `Navigate` (route effects), `SubmitLogin` .. `RegisterAnswers`, `SaveProfile`, `ProfileSaved`, `SignOut`, `Logout`, `Unauthorized` (any 401, whichever token it was sent with), `Me*`, `List*`, `VerificationTimesOut`, `OtherTab`, `Expire` |
| WorkspaceClient | the cached list (which conversations, and the first), selection, preferred conversation, creations, a stream, a stop | `SelectionEffect` is the shell's effect and closes every action that may move the selection; `Latest` (the list request with its limit), `StartNewConversation`, `DraftMade` (the server), `DraftCreated` (`onSuccess`), `DraftSelected`, `SubmitMessage`, `StreamEnds`, `StopActiveRun`, `Refresh` |
| WorkspaceRuns | the latest run of each conversation on the server and in the cache, a stream, a stop | `SubmitMessage`, `StreamSettles` (`onRunSettled`), `StopActiveRun`, `RunCancelled`, `Latest` (the runs request with its limit), runs that start, end and are taken back elsewhere (`RunRevives`) |
| Transcript | stored, cached, live and optimistic messages | `Merge` and `SameSignature` (merge by role and content), `SubmitMessage`, `StreamReply`, `ListArrives` (both sync effects), `Select` (the surface is keyed by the conversation) |
| SettingsForm | the settings of a model configuration, the fields | `ModelField`, `NativeField` (stored to fields), `ReadField`, `Build*` (fields to stored), `Open`, `Type`, `Save` |
| AgentPanel | the server's agents, the list, selection, keyed editor, readiness, requests | `LoadArrives`, `Select`, `Type`, `UpdateAgentConfiguration`, `SetAgentStatus`, `CheckAgentReadiness`, `CreateAgent`, `UpsertAgent` |
| ModelPanel | configurations, list, selection, requests each with the list it saw | `UpsertModelConfiguration`, `DeletionArrives` (puts back the list of the click), and the requests |
| McpAuthorization | servers, tools listed, authorizations, boxes, the effects' calls, a call, a save | `Mount` (uncontrolled boxes), `Show` (both effects), `ToolsArrive`, `AuthorizationsArrive`, `Created`, `Updated`, `Deleted`, `DiscoveryArrives`, `SaveToolAuthorization`, `Post` |
| AccountApproval | the server's and the page's status per account, tab, selection, reason, actions, audit trail | `AuditEffect`, `SwitchStatus`, `FocusLocalAccount`, `ChangeStatus`, `UpdateAccountNote`, `UpdateMappedAccount` |
| ProviderSettings | configuration on the server, in the cache, in the form; a save | `Provide` (the form's effect), `SaveProviderSettings`, `Patch`, `Saved`, `SavedElsewhere` |
| RunAudit | the runs listed, filter, search, selection, the detail being read | `DetailEffect`, `DetailArrives` (`mergeRunDetail`), `SwitchStatusFilter`, `Search`, `Focus` |

`MCWebPages` is one run of all of them: `page` says which part a behaviour is about and
`x1` to `x13` are its variables. The administrator pages replace each other, so this loses
nothing; the parts of the workbench are taken apart for size, each with the others' moves
free (any conversation may be shown in WorkspaceRuns, the selection may change at any step
of Transcript). The workbench is mounted once: its store and the query cache are kept
when it is left.

The tools of the page assistant (`copilotkit-adapter.tsx`) are disjuncts of the action
whose setters they call. `setMcpAuthorizationAgent` is an action of its own
(`AssistantSelectsAgent`): it is registered with the closure of the first render, which
knows no agents, so whatever agent is named the first is shown.

## 3. What the runs check

Expected to pass:

| Run | Instance | Shows |
|---|---|---|
| RunFaults | 1 conversation, 1 worker, one start (Celery or stream), a cancel, a delete; publish lost or delivered, a client that leaves, 1 crash (`OnceSpec`) | `StatusIsLogged`, `ReplyInTranscript`, `StartedAtMostOnce`, `NeverRequeued`, and that `IInv` is invariant |
| RunRaces | any two of: 2 dispatched starts (Celery or inline), a stream, a cancel, a stop; a lost publish, a start that raises (`PairSpec`) | `ReplayGivesStatus`, `OneReplyPerRun`; under fairness `EveryRunSettles`, `EveryConversationIsReleased` |
| RunSerial | 3 starts one at a time, failing publishes, a crash, a delete (`SerialSpec`) | `OneActiveRun`; `PromiseKept`: RunLifecycle implements RunPromise |
| EventLog | 2 writers, 2 tabs, 3 events, 1 loss, 2 reloads | `NoHole`, `ShownIsContiguous`, `IInv`; under fairness `EveryEventArrives` |
| Governed | 1 administrator, 2 models, a restart, and beside the default agent a second agent, a server, or a user with a conversation (`SubjectSpec`) | `ReadyUntilRestart`, `ReferencedModelsExist`, `RunningHasRun`, `IInv` |
| Accounts | 2 racing requests over 2 accounts, or one at a time over 3 (`InstanceSpec`, the frozen variable `serial`) | `NobodyEntersUnapproved`, `IInv`; one at a time `SerialAudit`, `SerialGuards` |
| WebPages | one page: 2 accounts and another tab; 3 conversations, a list of the latest 2, 2 overlapping creations; 3 runs of 2 conversations, a list of the latest 2; 2 sends; 2 agents and 2 requests; 2 model configurations; 2 agents, 2 MCP servers, 1 tool name; 2 accounts to decide on; 3 provider configurations; 2 runs to audit | the sixteen properties described below |

Expected to be violated, each a disagreement of the code with what the repository
says of it (quoted under `findings`):

| Run | What the code does |
|---|---|
| CancelUndone | the save of a copy read before the cancellation takes it back (ADR 0034) |
| DisconnectStrandsRun | a run executed by the stream ends with its client's connection (ADR 0035) |
| EventSwallowed | two racing appends share a sequence; the client drops one event (ADR 0036) |
| ListOutlivesSession | the conversation list cached for one account is shown to the next that signs in (ADR 0001) |
| CopilotRunUnchecked | CopilotKit runs a conversation whose model its agent no longer allows |

The passing properties therefore carry their conditions: `OneActiveRun` and
`PromiseKept` suppose a client that starts one run at a time, and no cancellation for
the latter (two concurrent starts both pass the check); `ReplayGivesStatus` exempts
cancelled runs; `EveryRunSettles` supposes that nothing crashes, no conversation is
deleted and no client leaves (the failure handler of a run whose conversation is deleted
itself fails with 404 before it saves an end); `EveryConversationIsReleased` supposes the
same and excepts a conversation that a raised start has left running (`Stranded`): no run
exists whose end would release it, and only a later run of the conversation does;
`OneReplyPerRun` supposes that a publish that raises has delivered nothing; `ReadyUntilRestart` and
`ReferencedModelsExist` suppose one administrator (with two, a model can be disabled
between the check of an agent and its enabling), and the first holds up to a restart,
which binds the environment's model to the default agent even if it has been disabled;
`RunningHasRun` exempts a model deleted between the start and the snapshot (the same
raised start), a request that is about to snapshot, and everything after a restart; `SerialGuards` and `SerialAudit`
suppose one request at a time (two administrators can disable each other, and an approval
that read "enabled" writes no status while a disable commits). Rejection has no guard, so
it can cost the last administrator, as `SerialGuards` says.

**What WebPages shows**, and what its properties except. Each exception is something the
code does, found by leaving it out and reading the counterexample; a *history* variable
names it.

- `AccountsAgreeUnlessStrayed`: the account shown is that of the stored token, and a
  profile is sent with a token of the account that filled it. Excepted: a sign-in over a
  session, another tab's sign-in (no `storage` listener), a sign-out while a profile is
  being saved (`strayed`).
- `SelectionListed`, `LatestStayListed`: a conversation of the cached list is selected unless
  there is none or one is being created, and no late list takes one away that is among the
  latest the server lists (`ListLimit`, 50 in the code). Older ones do leave the list with the
  next fetch, and with them the selection. These need the cancellation in
  `invalidateWorkspace` and the guards of the selection effect. How much of the list the
  sidebar unfolds is layout.
- `SettledRunShown`, `StoppedRunShown`: a run that was over when its stream settled, and a run
  that a stop was answered for, are shown over once no fetch is out, although answers from
  before may still arrive and other refetches drop the one that was asked for. Excepted: a
  failed refetch (`missed`; queries are not retried and nothing polls), and a run that an
  executor's late save made active again (`RunRevives`, seen in CancelUndone). A run that is
  too old for the list (`RunLimit`, 100 in the code) may show as none.
- `TranscriptExact`: the transcript is the shown conversation's, shows nothing more often
  than it was said, and always shows what was just sent. Excepted: the selection moves or
  a list arrives during a stream (`disturbed`): all conversations of an agent share one
  client. Attachments are left out: a message with one is a list of parts, never equals the
  stored text, and its optimistic copy stays until the surface mounts anew. A fetch holds the
  last 80 messages of each conversation (`MessageLimit`); the model's conversations are
  within it, an assumption (`2 * MaxSends <= MessageLimit`) and not a result. Beyond it
  earlier messages leave the transcript.
- `ReopenedSaveKeepsSettings`: opening and saving what the form wrote changes nothing.
  Settings written by another client lose the keys the form has no field for, and flags
  stored as false.
- `EditsStayWithTheirAgent`, `ReadinessOfAgentShown`: no agent is saved with what was typed
  for another, as the editor is keyed; every answer moves the selection to its agent and
  so drops what was being typed. A readiness result is shown beside the agent selected
  when it arrives; excepted is one whose agent was left meanwhile (`moved`).
- `ListIsTheServers`: the list of model configurations, fetched once, is the server's when
  all answers have come. Excepted (`overlapped`, `missed`): a lost answer, a request that
  crosses the load or a deletion, two about one configuration; a deletion puts back the
  list of its click, without what was created meanwhile.
- `UnclickedBoxesAreGranted`, `ToolsOfServerShown`: a box nobody clicked shows what is
  granted, *if it mounted after the authorizations of the pair had arrived*; a box that is
  kept while the agent changes, or mounts first, shows another agent's grants or none, and
  a save writes them. The tools listed are the shown server's, except those of a
  discovery, or none after a deletion, on a server left meanwhile (`strayed`).
- `AuditTrailCurrent`: the trail beside an account is its own and holds every action
  answered. Not so for the fields next to it: a reason typed for one account is sent with
  the next, and the note's field, which is neither controlled nor keyed, keeps the first
  account's note and saves it for the second.
- `UntouchedFormIsServers`: a provider form nobody edited holds the server's configuration
  after the last fetch. Edits made while a fetch or a save is out are overwritten.
- `DetailsOfSelected`: details are merged into the run they are of, and the selected run
  has its own. Where the search, or a merged status, hides the selected run, the page shows
  the first of the others without details.

**Bounds.** `MaxRuns`, `MaxProgress` (deltas and tool calls recorded per run),
`MaxCrashes`, `MaxEvents`, `MaxLosses`, `MaxUnmounts`, `MaxRestarts`; everything
else is a finite set of processes or ids. Runs interact only inside a conversation, and
the races take two requests and an executor, so one conversation and any pair of requests
(RunRaces), and one run with every fault (RunFaults, where the cancellation is a cancel: a
stop is one after its lookup, and is in RunRaces), contain each pair of handlers; the
proofs remove the bounds for the safety properties. The specifications of the MC modules
(`OnceSpec`, `PairSpec`, `SerialSpec`, `SubjectSpec`, `InstanceSpec`) only restrict which
requests begin, never what a request in progress may do. EventLog has two writers and two
tabs, enough for duplicate sequences and a shared position. Accounts needs the
administrator who decides, the account decided on and two requests; its symmetry is sound,
since no property tells the ids apart and none is a liveness property.
WebPages has two of everything that can be confused and one request more than can
race: `MaxInFlight` requests of a session, `MaxConversations` and `MaxRuns` (one more than
`ListLimit` and `RunLimit`, so that the oldest falls out of the list), `MaxSends`,
`MaxAgents`, `MaxConfigurations`, `MaxRequests` (of the models page), `Slots` (of the
agents page), `MaxServers`, `MaxAccounts`. Four guards are bounds of the model too:
McpAuthorization has one call or save out at a time and keeps one server,
AccountApproval has one action out (`Calls`), and ModelPanel is not followed past a
crossing its property excepts.

**Deadlock** is not checked: every instance has finitely many requests and stops
when they are answered. That handlers do not hang is what the liveness properties say.

**Fairness.** `RunLifecycle!Fairness` is weak fairness of a process's own next step
once it has begun, and of an idle worker with a waiting task: threads, generators
and Celery consumers run on. Requests, faults, crashes and disconnections have none.
The runner is assumed to return (the SDK's `max_turns` and the provider's timeouts).
`RunEventLog!FairSpec` makes the browser deliver, the endpoint answer and EventSource
reconnect; nobody need write or open a page. The modules of the web application state
no fairness: no page polls or retries, so nothing in them must happen.

## 4. What is proved

All by TLAPS, for every value of the constants that satisfies the `ASSUME` of the
module (also evaluated by TLC on each run) and the hypotheses named below. Each
inductive invariant was first checked by TLC as an invariant of a run.

| Module | Theorems |
|---|---|
| RunLifecycleProofs | `Invariant`, `TypeCorrect`, `RecordFollowsLog`, `RecordFollowsTranscript`, `OneStart` |
| RunPromiseProofs | `NoneRequeued`, `OneReply`, `LogReplays`, `OneActive`, `PromiseImplemented` (the refinement) |
| RunEventLogProofs | `LogInvariant`, `SequencesHaveNoHole`, `TabsShowAStretch` |
| AgentGovernanceProofs | `Governed`, `NoDanglingModel`, `EnabledStayReady`, `ShownRunningHasRun` |
| LocalAccountsProofs | `TypeCorrect`, `OnlyTheApprovedEnter`, `SerialGuardsHold`; for both instances of MCLocalAccounts `AccountsInvariant`, `TrailExplains`, `GuardsSuffice` |
| WorkspaceProofs | `AccountsNeverMix`, `SelectionIsListed`, `ListNeverLoses`, `SettledIsShown`, `StoppedIsShown` |
| AdminPagesProofs | `ReopenedSaveIsIdle`, `BoxesShowGrants`, `ToolsOfServer`, `TrailIsCurrent`, `UntouchedIsServer`, `DetailsAreOfRun` |
| PanelProofs | `EditsStay`, `ReadinessIsOfAgent`, `ListStaysTheServers`, `TranscriptIsExact`, `PagesKeepTypes` |

*Runs.* None of the three invariants is inductive, because a handler saves a whole
copy it read earlier. `IInv` adds that a copy's status is logged and its reply in the
transcript unless the very next step of its holder does so (`CopyStatusInv`,
`CopyReplyInv`), that a copy belongs to the conversation of its run (`LocalInv`), and
that the right to start a run is one token, held by one process or one queued task
and gone once the run has begun (`StartTokenInv`). Log and transcript only grow, so
what a copy says stays true under everybody else's steps: this monotonicity is the
core of `TruthStep`. The proof has four parts, typing, locals, truth of copies and
token, one step per action in each, over lemmas about the four step shapes (append,
save, message, return).

*What holds of some instances* (RunPromiseProofs). `NoneRequeued` needs no hypothesis: a
copy that says "queued" belongs to a process that may still start its run
(`QueuedCopyInv`), and a run that has begun is logged running. The others have hypotheses,
and the code breaks each property without them:

| Theorem | Hypotheses | Without them |
|---|---|---|
| `OneReply` | no publish that raises *after* it delivered | the handler records a failure while the worker answers: two replies |
| `LogReplays` | the same, and no crash | a crash between the log and the save leaves the record behind the log for good |
| `OneActive`, `PromiseImplemented` | the same; a client that starts one run at a time (`SerialSpec`); no cancel or stop | two starts both pass the check; a stale save takes a cancellation back (run CancelUndone) |

Crashes, disconnections, deletion and lost publishes are in all but `LogReplays`. The key is
`OneHolder`: a run to be started, executed or failed is in one hand, that of one process or
of the one task in the broker, and only that hand may reply (`ReplyInv`); its copy has the
status of the row, or of the event it has just logged (`HolderInv`). `StepKinds` says once that every step is a
move of one process that logs, saves, replies, publishes, takes, or does nothing that the
tables show; each invariant then has one case per kind rather than one per action.
`PromiseImplemented` maps each kind to a step of RunPromise or to a stutter: the save of a
copy is a step when it changes the status, the message of an executor is the reply.

*Event log.* A pending sequence closes up to those taken (`PendingInv`), so a
duplicate number is possible and a gap is not. A response holds every sequence its tab
still lacks (`ResponseInv`), which makes the earliest one to arrive the next or a
repetition.

*Governance.* `PendingIsSound` says what a request has established
so far: every reference checked is still good and the agent is the one it read. This
assumes one administrator (`SoleAdministrator`), without which it is not so. Users
do not write what it depends on; a restart ends requests and keeps references alive.
`EnabledStayReady` is about the platform up to its first restart. So is `ShownRunningHasRun`,
which excepts, as the property does, conversations whose model was deleted; it
(`RunsInv`: a request that starts a run still has its conversation's model) holds for any
number of administrators.

*Accounts.* `OnlyTheApprovedEnter` needs no assumption: being granted is recorded in
the transaction that enables an account and never withdrawn, so a login that read an
enabled account may insert its session however late. `SerialGuardsHold` assumes one
request at a time: the guard read before the commit then still holds at the commit
(`GuardStillHolds`). `TrailExplains` needs more, that the status read is still the
account's (`ReadIsCurrent`), because a commit writes the columns that differ from the copy.

*Web application.* The theorems are about `MCWebPages!Spec`, for any numbers of
conversations, runs, agents, servers, accounts, configurations and requests; the session is
that of two tokens, with other tabs signing out, as MCWebPages instantiates it. `page` never
changes, so an invariant of the application is proved part by part, each part's `IInv` where
its page is shown, and the composition is one case per page. Why each `IInv` is needed:

- WebSession: unless the session strayed there is only one token about (`OneSession`): every
  request and the query's fetch carry it, and the cached account is its owner.
- WorkspaceClient: an answer on its way holds all that is listed and among the latest
  (`AnswerHoldsListed`), as every step that adds to the list drops the answer.
- WorkspaceRuns: the run that settled, or was stopped, is over on the server, hence over or
  too old in every answer read since; what is cached is never ahead of the server (`Known`).
- AccountApproval, RunAudit, ProviderSettings: what is on its way is about what is selected,
  or will be asked again; for the last, cached, on its way or posted is the server's.
- McpAuthorization: which boxes mounted from what was read of their pair (`SureIsGranted`),
  and that a save under way posts just those (`PostsAreSound`).
- SettingsForm: the lemma that `Build` is the inverse of `Fields` on what the form wrote, card
  by card and key by key, with no bound on the values of a field.
- AgentPanel: every record keeps the configuration of its own agent on the server, in the
  list, in requests and answers (`RecordsOwn`, `RequestsOwn`), and the editor is that of the
  agent shown.
- ModelPanel: `ListFollows`, of behaviours without an excepted crossing (`overlapped`,
  `missed`): the page is not followed past one. The list and the answers still out *make up* the server's list
  (`AnswersMakeUp`): a configuration differs only if an answer about it is out, one that is
  on the server alone will be added, one that is in the list alone is being deleted. Requests
  about one configuration never cross (`RequestsApart`), or the exception applies.
  `RemoveFirstMatch` and `SelectInSeq` are reasoned about through lemmas: the first match
  exists by the least-element lemma `LeastExists`, from `WellFoundedInduction`.
- Transcript: every stored message is of one send and is the only one of its role there
  (`StoredSound`); live messages are stored, sent, or the streamed reply to a send that no
  held message answers (`LiveSound`); what was sent last is held or still optimistic
  (`OptimisticSound`). Then each message shown has its own witness: distinct user messages
  that show a text map one-to-one into the sends of that text, because `Merge` adds nothing
  that has the id, or the role and content, of what is there.

`Merge` and `Unstored` are recursive functions over the indexes of a list. No induction rule
with an operator parameter can be used, so both that such a function exists (`StepsExist`)
and what it returns are shown by induction over a *set* of indexes (`UpTo`, by least element).

**Only model-checked:** the liveness properties `EveryRunSettles`,
`EveryConversationIsReleased` and `EveryEventArrives` (out of the prover's reach); the
violations. Every invariant and every action property that a passing run checks has a
theorem, under the hypotheses named above where there are any.

**Seen, and not a property.** A login that passed its check before a disable leaves a
session that works again after a later enable. An administrator's authorised request
commits although the administrator has been disabled meanwhile. After a crash between
creation and publication a run stays queued until the user cancels it. The workspace
routes make conversations with disabled and retired agents.

## 5. What is not modelled

Not yet (planned below): uniqueness of logins and the user's own profile on the server, the
AG-UI event stream of CopilotKit, its thread map, which tools a run is given, the merge of
tool events into the stored messages, artifacts and attachments.

Not at all: encryption of keys, card schemas, audit views (read-only), network providers,
migrations and scripts. Of the web application: layout and rendering of messages and cards,
`test-setup.ts` (a double of the API for the tests), the libraries, the administrator's
overview, the sandbox status and the full trace (pages that load once and show; the
full trace always opens the first run that has one), the artifact preview, the choice of
agent and model for a draft, and renaming, which no control opens (`setIsRenaming(true)`
is called nowhere). The components list of `PROJECT.json` gives the reason for each.

## 6. Plan

Done, in this order: RunLifecycle with RunPromise (the heart of the product),
RunEventLog, AgentGovernance, LocalAccounts, the web application; then proofs of the
safety properties of all of them, and of the refinement.

Next, modelling:
1. `CopilotStream`: the AG-UI events of a run (text, tool calls, snapshots, end) as
   emitted live and as replayed for a completed run; every start has its end, heartbeats
   never cut an event, a replay shows what the live stream showed.
2. `MessageLog`: messages numbered by max+1, `_merge_run_event_messages`, the fold of tool
   events into tool calls; every visible tool call once, under its question.
3. `AccountLogins`: registration, profile update and the bootstrapped login; lookups
   without regard to case against exact unique columns, user names against addresses.
4. `RuntimeTools`: the tools a snapshot lists and the check when one is called, against
   discovery, authorization and removal of servers; providers kept in memory per process.
5. `ObjectBackedFiles`: object, row and message, with a failure between any two.
6. `ThreadMapping`: threads, conversations and restarts.
