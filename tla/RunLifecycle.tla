---------------------------- MODULE RunLifecycle ----------------------------
(***************************************************************************)
(* The life of Agent Runs: the API's request handlers that queue, dispatch,*)
(* stream, cancel and delete; the Celery queue; the executors (a Celery    *)
(* worker, the CopilotKit stream, or the handler itself in inline mode).   *)
(*                                                                         *)
(* Every store call of the code opens a session of its own and commits it  *)
(* (READ COMMITTED), so a handler is a sequence of transactions and a step *)
(* of this module is one transaction.  A handler that reads a run keeps a  *)
(* local copy and later saves the WHOLE record: copy[p] is that copy.      *)
(* Ownership checks are left out: one user owns every conversation here.   *)
(***************************************************************************)
EXTENDS Integers, Sequences, FiniteSets

CONSTANTS
    Conversations,      \* agent conversations, all idle and empty at first
    DispatchRequests,   \* POST /conversations/{id}/runs
    StreamRequests,     \* POST /copilotkit/agent/{id}/run
    CancelRequests,     \* POST /runs/{id}/cancel
    StopRequests,       \* POST /copilotkit/agent/{id}/stop/{thread}
    DeleteRequests,     \* DELETE /conversations/{id}
    Workers,            \* Celery worker processes
    DispatchModes,      \* AGENT_RUN_DISPATCH_MODE of the API's processes
    PublishFaults,      \* what a raising publish may have done to the broker
    MaxRuns,            \* bound: runs that can be created
    MaxProgress,        \* bound: deltas and tool calls recorded per run
    MaxCrashes,         \* bound: process crashes
    ClientsLeave,       \* may the client of a stream disconnect?
    NoConversation

StartRequests == DispatchRequests \cup StreamRequests
Requests == StartRequests \cup CancelRequests \cup StopRequests \cup DeleteRequests
Procs    == Requests \cup Workers
Runs     == 1 .. MaxRuns

ASSUME ConstantsAssumption ==
    /\ NoConversation \notin Conversations
    /\ Workers \cap Requests = {}
    /\ DispatchRequests \cap StreamRequests = {}
    /\ StartRequests \cap (CancelRequests \cup StopRequests \cup DeleteRequests) = {}
    /\ CancelRequests \cap (StopRequests \cup DeleteRequests) = {}
    /\ StopRequests \cap DeleteRequests = {}
    /\ DispatchModes \subseteq {"celery", "inline"}
    /\ PublishFaults \subseteq {"lost", "delivered"}
    /\ MaxRuns \in Nat /\ MaxProgress \in Nat /\ MaxCrashes \in Nat
    /\ ClientsLeave \in BOOLEAN

ActiveStatuses   == {"queued", "running"}
TerminalStatuses == {"completed", "failed", "cancelled"}
RunStatuses      == ActiveStatuses \cup TerminalStatuses
EventTypes == {"queued", "enqueued", "running", "progress", "summary",
               "message", "completed", "error", "cancelled"}

\* The row of agent_runs.  status "absent" stands for "no such row".
RunRecord == [conversation : Conversations \cup {NoConversation},
              status       : RunStatuses \cup {"absent"},
              reply        : {"none", "answer", "failure"},
              summaries    : Nat]
NoRun == [conversation |-> NoConversation, status |-> "absent", reply |-> "none",
          summaries |-> 0]

\* A row of conversation_messages: the user's question (its run does not exist
\* yet, hence 0), or the answer or failure notice of a run.
Message == [kind : {"question", "answer", "failure"}, run : Runs \cup {0}]

PcValues ==
    {"ready", "idle", "done", "start_message", "start_status", "start_create",
     "raised", "start_log", "mark_get", "mark_log", "mark_save", "publish",
     "exec_get", "exec_setup", "begin_get", "begin_log", "begin_save", "runner",
     "succ_get", "summary_log", "summary_save", "succ_message", "succ_message_log",
     "succ_log", "succ_save", "fail_get", "fail_message", "fail_log", "fail_save",
     "cancel_get", "cancel_log", "cancel_save", "release"}

VARIABLES
    status,      \* conversations.status
    deleted,     \* the conversations whose deleted flag is set
    transcript,  \* the messages of a conversation, in order
    runs,        \* the agent_runs table
    log,         \* the agent_run_events of a run, in order of append
    created,     \* number of runs created (autoincrement primary key)
    tasks,       \* process_agent_run messages waiting in the broker, per run
    crashes,     \* crashes so far
    pc, run, target, copy   \* per process: control, run id, conversation, run copy

table == <<status, deleted, transcript>>
vars  == <<status, deleted, transcript, runs, log, created, tasks, crashes,
           pc, run, target, copy>>

Init ==
    /\ status     = [c \in Conversations |-> "idle"]
    /\ deleted    = {}
    /\ transcript = [c \in Conversations |-> <<>>]
    /\ runs       = [r \in Runs |-> NoRun]
    /\ log        = [r \in Runs |-> <<>>]
    /\ created    = 0
    /\ tasks      = [r \in Runs |-> 0]
    /\ crashes    = 0
    /\ pc         = [p \in Procs |-> IF p \in Workers THEN "idle" ELSE "ready"]
    /\ run        = [p \in Procs |-> 0]
    /\ target     = [p \in Procs |-> NoConversation]
    /\ copy       = [p \in Procs |-> NoRun]

-----------------------------------------------------------------------------
(* Control and store helpers.                                              *)

Goto(p, l) == pc' = [pc EXCEPT ![p] = l]

\* The handler returns or raises: a worker waits for its next task, a request
\* is over.  Its local variables die with it.
Return(p) ==
    /\ Goto(p, IF p \in Workers THEN "idle" ELSE "done")
    /\ run'    = [run EXCEPT ![p] = 0]
    /\ target' = [target EXCEPT ![p] = NoConversation]
    /\ copy'   = [copy EXCEPT ![p] = NoRun]

Keep(p, rec)  == copy' = [copy EXCEPT ![p] = rec]
AppendEvent(r, e) == log' = [log EXCEPT ![r] = Append(@, e)]
Save(p)       == runs' = [runs EXCEPT ![run[p]] = copy[p]]
IsActive(r)   == runs[r].status \in ActiveStatuses
HasActiveRun(c) == \E r \in Runs : runs[r].conversation = c /\ IsActive(r)

\* The step reads or writes nothing but the named variables.
LocalOnly   == UNCHANGED <<table, runs, log, created, tasks, crashes>>
LocalsKept  == UNCHANGED <<run, target, copy>>

\* One append to the event log of p's run, then on to l.
LogStep(p, at, e, l) ==
    /\ pc[p] = at
    /\ AppendEvent(run[p], e)
    /\ Goto(p, l)
    /\ LocalsKept
    /\ UNCHANGED <<table, runs, created, tasks, crashes>>

\* One save of p's copy over the row of its run, then on to l.
SaveStep(p, at, l) ==
    /\ pc[p] = at
    /\ Save(p)
    /\ Goto(p, l)
    /\ LocalsKept
    /\ UNCHANGED <<table, log, created, tasks, crashes>>

\* One append_message to conversation c, or the 404 of a deleted one.
MessageStep(p, at, c, m, l) ==
    /\ pc[p] = at
    /\ IF c \in deleted
         THEN Return(p) /\ UNCHANGED transcript
         ELSE /\ transcript' = [transcript EXCEPT ![c] = Append(@, m)]
              /\ Goto(p, l)
              /\ LocalsKept
    /\ UNCHANGED <<status, deleted, runs, log, created, tasks, crashes>>

-----------------------------------------------------------------------------
(* queue_for_conversation and mark_worker_enqueued, shared by both ways to *)
(* start a run.                                                            *)

\* Faulty: the conversation is not searched for an active run.
StartCheckBlind(p, c) ==
    /\ pc[p] = "ready"
    /\ IF c \in deleted
         THEN Return(p)
         ELSE /\ Goto(p, "start_message")
              /\ target' = [target EXCEPT ![p] = c]
              /\ UNCHANGED <<run, copy>>
    /\ LocalOnly

\* The conversation must exist and have no active run (404, 409 otherwise): two
\* reads, which nothing ties to the writes that follow.
StartCheck(p, c) ==
    /\ pc[p] = "ready"
    /\ IF c \in deleted \/ HasActiveRun(c)
         THEN Return(p)
         ELSE /\ Goto(p, "start_message")
              /\ target' = [target EXCEPT ![p] = c]
              /\ UNCHANGED <<run, copy>>
    /\ LocalOnly

StartMessage(p) ==
    MessageStep(p, "start_message", target[p], [kind |-> "question", run |-> 0],
                "start_status")

StartStatus(p) ==
    /\ pc[p] = "start_status"
    /\ IF target[p] \in deleted
         THEN Return(p) /\ UNCHANGED status
         ELSE /\ status' = [status EXCEPT ![target[p]] = "running"]
              /\ Goto(p, "start_create")
              /\ LocalsKept
    /\ UNCHANGED <<deleted, transcript, runs, log, created, tasks, crashes>>

StartCreate(p) ==
    /\ pc[p] = "start_create"
    /\ created < MaxRuns
    /\ created' = created + 1
    /\ runs' = [runs EXCEPT ![created + 1] =
                  [NoRun EXCEPT !.conversation = target[p], !.status = "queued"]]
    /\ run' = [run EXCEPT ![p] = created + 1]
    /\ Goto(p, "start_log")
    /\ UNCHANGED <<table, log, tasks, crashes, target, copy>>

\* capability_snapshot_for_agent reads the conversation's model before the run is created:
\* where an administrator deleted it the request ends here, with a 404.  The target is kept
\* to tell whose conversation it left running.
StartRaises(p) ==
    /\ pc[p] = "start_create"
    /\ Goto(p, "raised")
    /\ LocalsKept
    /\ LocalOnly

StartLog(p) == LogStep(p, "start_log", "queued", "mark_get")

\* Faulty: the task is already published before the run is marked.
MarkGetLate(p) ==
    /\ pc[p] = "mark_get"
    /\ tasks' = [tasks EXCEPT ![run[p]] = @ + 1]
    /\ Keep(p, runs[run[p]])
    /\ Goto(p, "mark_log")
    /\ UNCHANGED <<table, runs, log, created, crashes, run, target>>

MarkGet(p) ==
    /\ pc[p] = "mark_get"
    /\ Keep(p, runs[run[p]])
    /\ Goto(p, "mark_log")
    /\ LocalOnly /\ UNCHANGED <<run, target>>

MarkLog(p) == LogStep(p, "mark_log", "enqueued", "mark_save")

\* The stream and the inline handler execute the run themselves.
MarkSave(p) ==
    \/ /\ p \in StreamRequests \/ "inline" \in DispatchModes
       /\ SaveStep(p, "mark_save", "exec_get")
    \/ /\ p \notin StreamRequests /\ "celery" \in DispatchModes
       /\ SaveStep(p, "mark_save", "publish")

-----------------------------------------------------------------------------
(* AgentRunDispatcher.dispatch and the broker.                             *)

Publish(p) ==
    /\ pc[p] = "publish"
    /\ tasks' = [tasks EXCEPT ![run[p]] = @ + 1]
    /\ Return(p)
    /\ UNCHANGED <<table, runs, log, created, crashes>>

\* Faulty: the error of the publish is swallowed.
PublishErrorSwallowed(p) ==
    /\ pc[p] = "publish"
    /\ PublishFaults # {}
    /\ Return(p)
    /\ UNCHANGED <<table, runs, log, created, tasks, crashes>>

\* Faulty: a publish that raises has always published.
PublishFailsDelivered(p) ==
    /\ pc[p] = "publish"
    /\ PublishFaults # {}
    /\ tasks' = [tasks EXCEPT ![run[p]] = @ + 1]
    /\ Goto(p, "fail_get")
    /\ LocalsKept
    /\ UNCHANGED <<table, runs, log, created, crashes>>

\* delay() raises: the message may have been lost, or be in the broker anyway.
PublishFails(p) ==
    /\ pc[p] = "publish"
    /\ \E fault \in PublishFaults :
         tasks' = [tasks EXCEPT ![run[p]] = IF fault = "lost" THEN @ ELSE @ + 1]
    /\ Goto(p, "fail_get")
    /\ LocalsKept
    /\ UNCHANGED <<table, runs, log, created, crashes>>

\* Faulty: the task is not acknowledged and will be delivered again.
TakeTaskUnacknowledged(w, r) ==
    /\ pc[w] = "idle"
    /\ tasks[r] > 0
    /\ run' = [run EXCEPT ![w] = r]
    /\ Goto(w, "exec_get")
    /\ UNCHANGED <<table, runs, log, created, tasks, crashes, target, copy>>

\* Faulty: a worker runs a task that is not in the broker.
TakeTaskUnchecked(w, r) ==
    /\ pc[w] = "idle"
    /\ tasks' = [tasks EXCEPT ![r] = @ - 1]
    /\ run' = [run EXCEPT ![w] = r]
    /\ Goto(w, "exec_get")
    /\ UNCHANGED <<table, runs, log, created, crashes, target, copy>>

\* The task is acknowledged when it is taken, before it runs (Celery default).
TakeTask(w, r) ==
    /\ pc[w] = "idle"
    /\ tasks[r] > 0
    /\ tasks' = [tasks EXCEPT ![r] = @ - 1]
    /\ run' = [run EXCEPT ![w] = r]
    /\ Goto(w, "exec_get")
    /\ UNCHANGED <<table, runs, log, created, crashes, target, copy>>

-----------------------------------------------------------------------------
(* runtime_store.execute / stream_execute.                                 *)

\* A settled run is not executed.
ExecGet(p) ==
    /\ pc[p] = "exec_get"
    /\ IF IsActive(run[p])
         THEN Goto(p, "exec_setup") /\ LocalsKept
         ELSE Return(p)
    /\ LocalOnly

\* Resolving the model configuration, building the tools and reading the
\* transcript: any of them may fail, and reading a deleted conversation does.
ExecSetup(p) ==
    /\ pc[p] = "exec_setup"
    /\ \/ runs[run[p]].conversation \notin deleted /\ Goto(p, "begin_get")
       \/ Goto(p, "fail_get")
    /\ LocalsKept
    /\ LocalOnly

\* Faulty: the event is forgotten.
BeginGetUnlogged(p) ==
    /\ pc[p] = "begin_get"
    /\ Keep(p, [runs[run[p]] EXCEPT !.status = "running"])
    /\ Goto(p, "begin_save")
    /\ LocalOnly /\ UNCHANGED <<run, target>>

\* begin_runtime_execution sets the status whatever it was.
BeginGet(p) ==
    /\ pc[p] = "begin_get"
    /\ Keep(p, [runs[run[p]] EXCEPT !.status = "running"])
    /\ Goto(p, "begin_log")
    /\ LocalOnly /\ UNCHANGED <<run, target>>

BeginLog(p)  == LogStep(p, "begin_log", "running", "begin_save")
BeginSave(p) == SaveStep(p, "begin_save", "runner")

\* The stream persists each text delta and tool result before forwarding it.
RecordProgress(p) ==
    /\ p \in StreamRequests
    /\ pc[p] = "runner"
    /\ Cardinality({i \in DOMAIN log[run[p]] : log[run[p]][i] = "progress"}) < MaxProgress
    /\ LogStep(p, "runner", "progress", "runner")

\* The agent runner returns a result or raises (model error, max_turns, ...).
RunnerReturns(p) ==
    /\ pc[p] = "runner"
    /\ \E outcome \in {"succ_get", "fail_get"} : Goto(p, outcome)
    /\ LocalsKept
    /\ LocalOnly

\* The client of the stream goes away: the generator is closed at the await or
\* yield it stands at, and nothing in it handles the cancellation.
Disconnect(p) ==
    /\ ClientsLeave
    /\ p \in StreamRequests
    /\ pc[p] \in {"exec_get", "runner"}
    /\ Return(p)
    /\ LocalOnly

-----------------------------------------------------------------------------
(* apply_runtime_success: two process summaries, each logged and saved with *)
(* the copy read at the start, then the answer, then the final status.      *)

SuccGet(p) ==
    /\ pc[p] = "succ_get"
    /\ Keep(p, runs[run[p]])
    /\ Goto(p, "summary_log")
    /\ LocalOnly /\ UNCHANGED <<run, target>>

SummaryLog(p) ==
    /\ pc[p] = "summary_log"
    /\ Keep(p, [copy[p] EXCEPT !.summaries = @ + 1])
    /\ AppendEvent(run[p], "summary")
    /\ Goto(p, "summary_save")
    /\ UNCHANGED <<table, runs, created, tasks, crashes, run, target>>

\* Faulty: the answer is recorded but not appended to the transcript.
SummarySaveUnsaid(p) ==
    /\ pc[p] = "summary_save"
    /\ Save(p)
    /\ \/ copy[p].summaries < 2 /\ Goto(p, "summary_log") /\ UNCHANGED copy
       \/ /\ copy[p].summaries >= 2
          /\ Keep(p, [copy[p] EXCEPT !.reply = "answer"])
          /\ Goto(p, "succ_log")
    /\ UNCHANGED <<table, log, created, tasks, crashes, run, target>>

\* After the second summary the final output decides whether there is an answer.
SummarySave(p) ==
    /\ pc[p] = "summary_save"
    /\ Save(p)
    /\ \/ copy[p].summaries < 2 /\ Goto(p, "summary_log") /\ UNCHANGED copy
       \/ /\ copy[p].summaries >= 2
          /\ Keep(p, [copy[p] EXCEPT !.reply = "answer"])
          /\ Goto(p, "succ_message")
       \/ /\ copy[p].summaries >= 2
          /\ Keep(p, [copy[p] EXCEPT !.reply = "none"])
          /\ Goto(p, "succ_log")
    /\ UNCHANGED <<table, log, created, tasks, crashes, run, target>>

SuccMessage(p) ==
    MessageStep(p, "succ_message", copy[p].conversation,
                [kind |-> "answer", run |-> run[p]], "succ_message_log")

SuccMessageLog(p) == LogStep(p, "succ_message_log", "message", "succ_log")

SuccLog(p) ==
    /\ pc[p] = "succ_log"
    /\ Keep(p, [copy[p] EXCEPT !.status = "completed"])
    /\ AppendEvent(run[p], "completed")
    /\ Goto(p, "succ_save")
    /\ UNCHANGED <<table, runs, created, tasks, crashes, run, target>>

SuccSave(p) == SaveStep(p, "succ_save", "release")

-----------------------------------------------------------------------------
(* apply_runtime_failure, called by the executor or by a failing dispatch. *)

\* Faulty: the failure notice is recorded but not appended to the transcript.
FailGetUnsaid(p) ==
    /\ pc[p] = "fail_get"
    /\ Keep(p, [runs[run[p]] EXCEPT !.status = "failed", !.reply = "failure"])
    /\ Goto(p, "fail_log")
    /\ LocalOnly /\ UNCHANGED <<run, target>>

\* A run without a reply gets the failure notice as its reply.
FailGet(p) ==
    /\ pc[p] = "fail_get"
    /\ \/ /\ runs[run[p]].reply = "none"
          /\ Keep(p, [runs[run[p]] EXCEPT !.status = "failed", !.reply = "failure"])
          /\ Goto(p, "fail_message")
       \/ /\ runs[run[p]].reply # "none"
          /\ Keep(p, [runs[run[p]] EXCEPT !.status = "failed"])
          /\ Goto(p, "fail_log")
    /\ LocalOnly /\ UNCHANGED <<run, target>>

FailMessage(p) ==
    MessageStep(p, "fail_message", copy[p].conversation,
                [kind |-> "failure", run |-> run[p]], "fail_log")

FailLog(p)  == LogStep(p, "fail_log", "error", "fail_save")

\* Faulty: a failed run does not release its conversation.
FailSaveOnly(p) ==
    /\ pc[p] = "fail_save"
    /\ Save(p)
    /\ Return(p)
    /\ UNCHANGED <<table, log, created, tasks, crashes>>

FailSave(p) == SaveStep(p, "fail_save", "release")

\* _release_conversation, the last call of success, failure and cancellation.
Release(p) ==
    /\ pc[p] = "release"
    /\ LET c == copy[p].conversation IN
         status' = IF c \in deleted THEN status ELSE [status EXCEPT ![c] = "idle"]
    /\ Return(p)
    /\ UNCHANGED <<deleted, transcript, runs, log, created, tasks, crashes>>

-----------------------------------------------------------------------------
(* cancel_for_user, the CopilotKit stop route, and the deletion.           *)

\* A user cancels a run they can see.
CancelStart(p, r) ==
    /\ pc[p] = "ready"
    /\ r <= created
    /\ run' = [run EXCEPT ![p] = r]
    /\ Goto(p, "cancel_get")
    /\ LocalOnly /\ UNCHANGED <<target, copy>>

\* stop cancels the latest active run of the conversation, if there is one.
StopStart(p, c) ==
    /\ pc[p] = "ready"
    /\ IF c \in deleted \/ ~HasActiveRun(c)
         THEN Return(p)
         ELSE \E r \in Runs :
                /\ runs[r].conversation = c /\ IsActive(r)
                /\ \A q \in Runs : runs[q].conversation = c /\ IsActive(q) => q <= r
                /\ run' = [run EXCEPT ![p] = r]
                /\ Goto(p, "cancel_get")
                /\ UNCHANGED <<target, copy>>
    /\ LocalOnly

\* A settled run is returned as it is.
CancelGet(p) ==
    /\ pc[p] = "cancel_get"
    /\ IF IsActive(run[p])
         THEN /\ Keep(p, [runs[run[p]] EXCEPT !.status = "cancelled"])
              /\ Goto(p, "cancel_log")
              /\ UNCHANGED <<run, target>>
         ELSE Return(p)
    /\ LocalOnly

CancelLog(p)  == LogStep(p, "cancel_log", "cancelled", "cancel_save")
CancelSave(p) == SaveStep(p, "cancel_save", "release")

\* soft_delete_for_user does not look at the conversation's runs.
Delete(p, c) ==
    /\ pc[p] = "ready"
    /\ deleted' = deleted \cup {c}
    /\ Return(p)
    /\ UNCHANGED <<status, transcript, runs, log, created, tasks, crashes>>

-----------------------------------------------------------------------------
(* Crashes.  The API process takes all of its handlers with it; a worker    *)
(* loses the task it had acknowledged and is replaced by an idle one.       *)

ApiCrash ==
    /\ crashes < MaxCrashes
    /\ crashes' = crashes + 1
    /\ pc'     = [p \in Procs |-> IF p \in Requests /\ pc[p] # "ready" THEN "done" ELSE pc[p]]
    /\ run'    = [p \in Procs |-> IF p \in Requests THEN 0 ELSE run[p]]
    /\ target' = [p \in Procs |-> IF p \in Requests THEN NoConversation ELSE target[p]]
    /\ copy'   = [p \in Procs |-> IF p \in Requests THEN NoRun ELSE copy[p]]
    /\ UNCHANGED <<table, runs, log, created, tasks>>

WorkerCrash(w) ==
    /\ crashes < MaxCrashes
    /\ pc[w] # "idle"
    /\ crashes' = crashes + 1
    /\ Return(w)
    /\ UNCHANGED <<table, runs, log, created, tasks>>

-----------------------------------------------------------------------------
Arrive ==
    \/ \E p \in StartRequests, c \in Conversations : StartCheck(p, c)
    \/ \E p \in CancelRequests, r \in Runs : CancelStart(p, r)
    \/ \E p \in StopRequests, c \in Conversations : StopStart(p, c)
    \/ \E p \in DeleteRequests, c \in Conversations : Delete(p, c)

Executing(p) ==
    \/ ExecGet(p) \/ ExecSetup(p)
    \/ BeginGet(p) \/ BeginLog(p) \/ BeginSave(p)
    \/ RecordProgress(p) \/ RunnerReturns(p)
    \/ SuccGet(p) \/ SummaryLog(p) \/ SummarySave(p)
    \/ SuccMessage(p) \/ SuccMessageLog(p) \/ SuccLog(p) \/ SuccSave(p)
    \/ FailGet(p) \/ FailMessage(p) \/ FailLog(p) \/ FailSave(p)
    \/ Release(p)

Starting(p) ==
    \/ StartMessage(p) \/ StartStatus(p) \/ StartCreate(p) \/ StartRaises(p) \/ StartLog(p)
    \/ MarkGet(p) \/ MarkLog(p) \/ MarkSave(p)
    \/ Publish(p) \/ PublishFails(p)

Cancelling(p) == CancelGet(p) \/ CancelLog(p) \/ CancelSave(p)

\* What a handler or worker does next by itself once it has begun.
Proceed(p) == Starting(p) \/ Executing(p) \/ Cancelling(p)

Take(w) == \E r \in Runs : TakeTask(w, r)

Fault ==
    \/ \E p \in StreamRequests : Disconnect(p)
    \/ ApiCrash
    \/ \E w \in Workers : WorkerCrash(w)

Next ==
    \/ Arrive
    \/ \E p \in Procs : Proceed(p)
    \/ \E w \in Workers : Take(w)
    \/ Fault

Spec == Init /\ [][Next]_vars

\* A thread that has begun runs on, and an idle worker takes a waiting task.
\* Users, clients and crashes owe nothing.
Fairness ==
    /\ \A p \in Procs : WF_vars(Proceed(p))
    /\ \A w \in Workers : WF_vars(Take(w))

FairSpec == Spec /\ Fairness

-----------------------------------------------------------------------------
(* Properties.                                                             *)

\* Types of all variables.
TypeOK ==
    /\ status \in [Conversations -> {"idle", "running"}]
    /\ deleted \subseteq Conversations
    /\ transcript \in [Conversations -> Seq(Message)]
    /\ runs \in [Runs -> RunRecord]
    /\ log \in [Runs -> Seq(EventTypes)]
    /\ created \in 0 .. MaxRuns
    /\ tasks \in [Runs -> Nat]
    /\ crashes \in 0 .. MaxCrashes
    /\ pc \in [Procs -> PcValues]
    /\ run \in [Procs -> Runs \cup {0}]
    /\ target \in [Procs -> Conversations \cup {NoConversation}]
    /\ copy \in [Procs -> RunRecord]

Logged(r, e) == \E i \in DOMAIN log[r] : log[r][i] = e

\* The event a reader of the log takes for a status.
StatusEvent(s) == CASE s = "failed" -> "error" [] OTHER -> s

\* The record never runs ahead of the event log: whatever interleaving, crash
\* or stale save, a status past queued is explained by an event already in the
\* log, so that a client that resumes from the log can learn of it.  (Every
\* handler appends before it saves.)
StatusIsLogged ==
    \A r \in Runs : runs[r].status \notin {"absent", "queued"}
                      => Logged(r, StatusEvent(runs[r].status))

Said(c, kind, r) == \E i \in DOMAIN transcript[c] :
                      transcript[c][i] = [kind |-> kind, run |-> r]

\* A reply a run record shows is a message of the run's conversation: no crash,
\* deletion or race makes a record claim an answer the transcript lacks.
ReplyInTranscript ==
    \A r \in Runs : runs[r].reply # "none"
                      => /\ runs[r].conversation \in Conversations
                         /\ Said(runs[r].conversation, runs[r].reply, r)

\* The agent runner is started at most once per run, whatever crashes and
\* whatever the broker did with a publish that raised.
StartedAtMostOnce ==
    \A r \in Runs : \A i, j \in DOMAIN log[r] :
        log[r][i] = "running" /\ log[r][j] = "running" => i = j

\* A run's task reaches the broker only after the record says that it was
\* enqueued, and a run that has begun never looks queued again: the stale save
\* of mark_worker_enqueued comes before the publish, hence before execution.
NeverRequeued ==
    [][\A r \in Runs : Logged(r, "running") /\ runs[r].status # "queued"
                         => runs'[r].status # "queued"]_vars

-----------------------------------------------------------------------------
(* The inductive strengthening of the three invariants above.              *)

\* The control points at which a process works on a run it has, those at which
\* its copy of the run is loaded, and those from which it may still start it.
RunPcs  == PcValues \ {"ready", "idle", "done", "start_message", "start_status",
                       "start_create", "raised"}
CopyPcs == {"mark_log", "mark_save", "begin_log", "begin_save", "summary_log",
            "summary_save", "succ_message", "succ_message_log", "succ_log", "succ_save",
            "fail_message", "fail_log", "fail_save", "cancel_log", "cancel_save", "release"}
MayStart == {"start_log", "mark_get", "mark_log", "mark_save", "publish",
             "exec_get", "exec_setup", "begin_get", "begin_log"}

\* Rows beyond the last key are blank, the others belong to a conversation.
TableInv ==
    \A r \in Runs :
        /\ r > created => runs[r] = NoRun /\ log[r] = <<>> /\ tasks[r] = 0
        /\ r <= created => runs[r].status # "absent" /\ runs[r].conversation \in Conversations

\* A process has a run, a conversation and a copy where its code uses them, and
\* a copy belongs to the conversation of its run.
LocalOK(p) ==
    /\ run[p] <= created
    /\ pc[p] \in RunPcs <=> run[p] # 0
    /\ pc[p] \in {"start_message", "start_status", "start_create"}
         => target[p] \in Conversations
    /\ pc[p] \in CopyPcs => copy[p].status # "absent"
    /\ copy[p].status = "absent" => copy[p].reply = "none"
    /\ copy[p].status # "absent" =>
         run[p] # 0 /\ copy[p].conversation = runs[run[p]].conversation
LocalInv == \A p \in Procs : LocalOK(p)

\* A copy's status is already logged, unless its event is the next to be.
CopyStatusOK(p) ==
    /\ pc[p] = "begin_log" => copy[p].status = "running"
    /\ pc[p] \in {"fail_message", "fail_log"} => copy[p].status = "failed"
    /\ pc[p] = "cancel_log" => copy[p].status = "cancelled"
    /\ copy[p].status \in {"absent", "queued"}
       \/ Logged(run[p], StatusEvent(copy[p].status))
       \/ pc[p] \in {"begin_log", "fail_message", "fail_log", "cancel_log"}
CopyStatusInv == \A p \in Procs : CopyStatusOK(p)

\* A copy's reply is already in the transcript, unless it is the next message.
CopyReplyOK(p) ==
    /\ pc[p] = "succ_message" => copy[p].reply = "answer"
    /\ pc[p] = "fail_message" => copy[p].reply = "failure"
    /\ copy[p].reply = "none"
       \/ Said(copy[p].conversation, copy[p].reply, run[p])
       \/ pc[p] \in {"succ_message", "fail_message"}
CopyReplyInv == \A p \in Procs : CopyReplyOK(p)

\* The right to start a run is held by one process or one task, and is gone
\* once the run has begun.
StartTokenInv ==
    /\ \A p, q \in Procs : run[p] = run[q] /\ pc[p] \in MayStart /\ pc[q] \in MayStart => p = q
    /\ \A r \in Runs : tasks[r] <= 1
    /\ \A p \in Procs : pc[p] \in MayStart => tasks[run[p]] = 0 /\ ~Logged(run[p], "running")
    /\ \A r \in Runs : tasks[r] = 1 => ~Logged(r, "running")

IInv ==
    /\ TypeOK /\ TableInv /\ LocalInv
    /\ CopyStatusInv /\ StatusIsLogged
    /\ CopyReplyInv /\ ReplyInTranscript
    /\ StartTokenInv /\ StartedAtMostOnce

-----------------------------------------------------------------------------
(* Properties of restricted instances: see the runs.                       *)

\* A conversation has at most one queued or running run: the 409 of
\* queue_for_conversation.  It needs a client that starts runs one at a time:
\* the check and the creation are separate transactions.
OneActiveRun ==
    \A q, r \in Runs : IsActive(q) /\ IsActive(r)
                         /\ runs[q].conversation = runs[r].conversation => q = r

\* A cancelled run stays cancelled, whatever its executor and the handler that
\* started it go on to save.
CancelledIsFinal ==
    [][\A r \in Runs : runs[r].status = "cancelled" => runs'[r].status = "cancelled"]_vars

\* A client that replays the log of a run no handler is saving ends with the
\* status of its record: the last status event is the record's.  (A cancellation
\* may be saved over, see CancelledIsFinal.)
StatusEvents == {"queued", "enqueued", "running", "completed", "error", "cancelled"}
Saving == {"start_log", "begin_save", "succ_save", "fail_save"}
EventsOf(s) == IF s = "queued" THEN {"queued", "enqueued"} ELSE {StatusEvent(s)}

ReplayGivesStatus ==
    \A r \in Runs :
        \/ runs[r].status = "absent" \/ Logged(r, "cancelled")
        \/ \E p \in Procs : run[p] = r /\ pc[p] \in Saving
        \/ \E i \in DOMAIN log[r] :
             /\ log[r][i] \in EventsOf(runs[r].status)
             /\ \A j \in DOMAIN log[r] : j > i => log[r][j] \notin StatusEvents

\* A run puts at most one reply, answer or failure notice, in the transcript.
OneReplyPerRun ==
    \A c \in Conversations : \A i, j \in DOMAIN transcript[c] :
        transcript[c][i].run = transcript[c][j].run /\ transcript[c][i].run # 0 => i = j

\* Every run that exists settles: it is completed, failed or cancelled in the
\* end, whether its task was published, its setup failed or its runner raised.
EveryRunSettles == \A r \in Runs : IsActive(r) ~> runs[r].status \in TerminalStatuses

\* A start that raised before it made a run has left the conversation running.
Stranded(c) == \E p \in StartRequests : pc[p] = "raised" /\ target[p] = c

\* A conversation does not stay running: the last run to settle releases it, unless a start
\* raised between set_status and the creation of its run, which no handler makes good.
EveryConversationIsReleased ==
    \A c \in Conversations : []<>(status[c] = "idle" \/ Stranded(c))

-----------------------------------------------------------------------------
(* The inductive strengthenings, each on top of IInv and of those before it. *)

\* Only mark_worker_enqueued saves a queued copy, and from begin_save to the runner's
\* return the run is logged as begun and, once saved, does not look queued.
QueuedInv ==
    \A p \in Procs :
        /\ pc[p] \in CopyPcs \ {"mark_log", "mark_save"} => copy[p].status # "queued"
        /\ pc[p] \in {"begin_save", "runner", "succ_get"} => Logged(run[p], "running")
        /\ pc[p] \in {"runner", "succ_get"} => runs[run[p]].status # "queued"

\* The control points of whoever has a run to start, execute or fail, and those from
\* which a reply may still be said.
Holding  == RunPcs \ {"cancel_get", "cancel_log", "cancel_save", "release"}
MayReply == Holding \ {"succ_message_log", "succ_log", "succ_save", "fail_log", "fail_save"}

\* Where a raising publish has published nothing, a run is in one hand: that of one
\* process or one task.
OneHolder ==
    /\ \A p, q \in Procs : run[p] = run[q] /\ pc[p] \in Holding /\ pc[q] \in Holding => p = q
    /\ \A p \in Procs : pc[p] \in Holding => tasks[run[p]] = 0

\* The run has an answer or a failure notice in some transcript.
Replied(r) == \E c \in Conversations : \E i \in DOMAIN transcript[c] : transcript[c][i].run = r

\* What may still reply to a run has not, and a run has replied in one place.
ReplyInv ==
    /\ \A p \in Procs : pc[p] \in MayReply => ~Replied(run[p])
    /\ \A r \in Runs : r > created \/ tasks[r] > 0 => ~Replied(r)
    /\ \A c, d \in Conversations : \A i \in DOMAIN transcript[c], j \in DOMAIN transcript[d] :
         transcript[c][i].run = transcript[d][j].run /\ transcript[c][i].run # 0
           => c = d /\ i = j

\* The last status event of a run's log is one of these.
LastIn(r, events) ==
    \E i \in DOMAIN log[r] :
      /\ log[r][i] \in events
      /\ \A j \in DOMAIN log[r] : j > i => log[r][j] \notin StatusEvents

\* While no cancellation of the run is logged, the copy of its holder has the status of
\* the row, or that of the last status event where the holder is about to save it.
HolderInv(p) ==
    /\ pc[p] \in {"start_log", "mark_get", "mark_log", "mark_save"}
         => runs[run[p]].status = "queued"
    /\ pc[p] \in {"mark_log", "mark_save", "summary_log", "summary_save", "succ_message",
                   "succ_message_log", "succ_log"} => copy[p].status = runs[run[p]].status
    /\ pc[p] = "begin_save" => copy[p].status = "running" /\ LastIn(run[p], {"running"})
    /\ pc[p] = "succ_save" => copy[p].status = "completed" /\ LastIn(run[p], {"completed"})
    /\ pc[p] = "fail_save" => copy[p].status = "failed" /\ LastIn(run[p], {"error"})
ReplayInv ==
    /\ \A p \in Procs : pc[p] = "cancel_save" => Logged(run[p], "cancelled")
    /\ \A p \in Procs : pc[p] \in Holding /\ ~Logged(run[p], "cancelled") => HolderInv(p)

\* Where nobody cancels, the row of a run tells how far its holder, or its task, is.
Before == MayStart \cup {"begin_save"}
After  == {"runner", "succ_get", "summary_log", "summary_save", "succ_message",
           "succ_message_log", "succ_log", "succ_save"}
RowInv ==
    /\ \A p \in Procs :
         /\ pc[p] \in Before => runs[run[p]].status = "queued"
         /\ pc[p] \in After => runs[run[p]].status = "running"
         /\ pc[p] \in Holding => IsActive(run[p])
         /\ pc[p] \notin {"cancel_get", "cancel_log", "cancel_save"}
    /\ \A r \in Runs : tasks[r] > 0 => runs[r].status = "queued"

\* The status that the holder's copy has, and the reply it has said.
CopyInv ==
    \A p \in Procs :
        /\ pc[p] \in {"mark_log", "mark_save"} => copy[p].status = "queued"
        /\ pc[p] \in {"begin_log", "begin_save", "summary_log", "summary_save", "succ_message",
                       "succ_message_log", "succ_log"} => copy[p].status = "running"
        /\ pc[p] = "succ_save" => copy[p].status = "completed"
        /\ pc[p] \in {"fail_message", "fail_log", "fail_save"} => copy[p].status = "failed"
        /\ pc[p] \in {"fail_log", "fail_save"} => Replied(run[p])

\* Nobody creates a run in a conversation that has an active one.
StartInv ==
    \A p \in Procs : pc[p] \in {"start_message", "start_status", "start_create"}
                        => p \in StartRequests /\ ~HasActiveRun(target[p])

=============================================================================
