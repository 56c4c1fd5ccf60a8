-------------------------- MODULE RunPromiseProofs --------------------------
(***************************************************************************)
(* Proofs about the instances of RunLifecycle that a promise holds of: no  *)
(* run looks queued again (always); a run has one holder and one reply     *)
(* (where a publish that raises has published nothing); the log replays to *)
(* the record's status (without crashes as well); and a serial client that *)
(* never cancels gets what RunPromise says (with crashes).                 *)
(*                                                                         *)
(* Each rests on IInv, proved in RunLifecycleProofs.  StepKinds says of    *)
(* what kinds a step can be; every invariant then has one case per kind.   *)
(***************************************************************************)
EXTENDS MCRunLifecycle, RunLifecycleProofs, FiniteSetTheorems

(***************************************************************************)
(* The kinds of step.                                                      *)
(***************************************************************************)
Quiet == UNCHANGED <<runs, log, transcript, created, tasks>>

\* A process goes on with its run.
Moves(p, from, to) ==
    pc[p] = from /\ pc'[p] = to /\ run'[p] = run[p] /\ target'[p] = target[p]
Hop(p, from, to) == Moves(p, from, to) /\ copy'[p] = copy[p]

Enters(p) ==
    /\ Quiet
    /\ pc[p] = "ready" /\ copy'[p] = copy[p]
    /\ \/ /\ p \in StartRequests /\ pc'[p] = "start_message" /\ run'[p] = run[p]
          /\ target'[p] \in Conversations /\ ~HasActiveRun(target'[p])
       \/ /\ p \in CancelRequests \cup StopRequests /\ pc'[p] = "cancel_get"

Leaves(p) ==
    /\ Quiet /\ Gone(p)
    /\ pc[p] \in {"ready", "start_message", "start_status", "exec_get", "runner",
                  "succ_message", "fail_message", "cancel_get", "release"}

Hops(p) ==
    /\ Quiet
    /\ \/ Hop(p, "start_status", "start_create")
       \/ Hop(p, "start_create", "raised")
       \/ Hop(p, "publish", "fail_get")
       \/ Hop(p, "exec_get", "exec_setup")
       \/ Hop(p, "exec_setup", "begin_get")
       \/ Hop(p, "exec_setup", "fail_get")
       \/ Hop(p, "runner", "succ_get")
       \/ Hop(p, "runner", "fail_get")

\* A copy is made of the row, with the status to be saved.
Load(p, from, to, s) == Moves(p, from, to) /\ copy'[p].status = s
Loads(p) ==
    /\ Quiet
    /\ \/ Load(p, "mark_get", "mark_log", runs[run[p]].status)
       \/ Load(p, "begin_get", "begin_log", "running")
       \/ Load(p, "succ_get", "summary_log", runs[run[p]].status)
       \/ Load(p, "fail_get", "fail_message", "failed")
       \/ Load(p, "fail_get", "fail_log", "failed") /\ runs[run[p]].reply # "none"
       \/ Load(p, "cancel_get", "cancel_log", "cancelled")

\* An event is appended, and the copy given the status that goes with it.
Logs(p, e) ==
    /\ UNCHANGED <<runs, transcript, created, tasks>>
    /\ AppendEvent(run[p], e)
    /\ \/ e = "queued"    /\ Hop(p, "start_log", "mark_get")
       \/ e = "enqueued"  /\ Hop(p, "mark_log", "mark_save")
       \/ e = "running"   /\ Hop(p, "begin_log", "begin_save")
       \/ e = "progress"  /\ Hop(p, "runner", "runner")
       \/ e = "summary"   /\ Load(p, "summary_log", "summary_save", copy[p].status)
       \/ e = "message"   /\ Hop(p, "succ_message_log", "succ_log")
       \/ e = "completed" /\ Load(p, "succ_log", "succ_save", "completed")
       \/ e = "error"     /\ Hop(p, "fail_log", "fail_save")
       \/ e = "cancelled" /\ Hop(p, "cancel_log", "cancel_save")

Saves(p) ==
    /\ UNCHANGED <<log, transcript, created, tasks>>
    /\ Save(p) /\ copy'[p].status = copy[p].status
    /\ \/ Moves(p, "mark_save", "exec_get") \/ Moves(p, "mark_save", "publish")
       \/ Moves(p, "begin_save", "runner")
       \/ Moves(p, "summary_save", "summary_log")
       \/ Moves(p, "summary_save", "succ_message")
       \/ Moves(p, "summary_save", "succ_log")
       \/ Moves(p, "succ_save", "release") \/ Moves(p, "fail_save", "release")
       \/ Moves(p, "cancel_save", "release")

\* A message is appended to a conversation.
Says(p, c, m) ==
    /\ UNCHANGED <<runs, log, created, tasks>>
    /\ transcript' = [transcript EXCEPT ![c] = Append(@, m)]
    /\ \/ m.run = 0      /\ Hop(p, "start_message", "start_status")
       \/ m.run = run[p] /\ Hop(p, "succ_message", "succ_message_log")
       \/ m.run = run[p] /\ Hop(p, "fail_message", "fail_log")

Creates(p) ==
    /\ UNCHANGED <<log, transcript, tasks>>
    /\ created' = created + 1 /\ created + 1 \in Runs
    /\ pc[p] = "start_create" /\ pc'[p] = "start_log" /\ run'[p] = created + 1
    /\ target[p] \in Conversations
    /\ runs[created + 1] = NoRun
    /\ runs'[created + 1].status = "queued"
    /\ runs'[created + 1].conversation = target[p]
    /\ \A r \in Runs : r # created + 1 => runs'[r] = runs[r]

Publishes(p) ==
    /\ UNCHANGED <<runs, log, transcript, created>>
    /\ pc[p] = "publish"
    /\ tasks' = [tasks EXCEPT ![run[p]] = @ + 1]
    /\ \/ Gone(p)
       \/ "delivered" \in PublishFaults /\ Hop(p, "publish", "fail_get")

Takes(p, r) ==
    /\ UNCHANGED <<runs, log, transcript, created>>
    /\ p \in Workers /\ pc[p] = "idle" /\ pc'[p] = "exec_get"
    /\ tasks[r] > 0 /\ tasks' = [tasks EXCEPT ![r] = @ - 1]
    /\ run'[p] = r /\ copy'[p] = copy[p]

\* What a crash ends is forgotten.
Dead(q) == pc'[q] \in {"ready", "idle", "done"} /\ run'[q] = 0 /\ copy'[q] = NoRun
Crash   == Quiet /\ crashes < MaxCrashes /\ \A q \in Procs : Same(q) \/ Dead(q)

StepOf(p) ==
    /\ OthersSame(p)
    /\ \/ Enters(p) \/ Leaves(p) \/ Hops(p) \/ Loads(p) \/ Saves(p)
       \/ Creates(p) \/ Publishes(p)
       \/ \E e \in EventTypes : Logs(p, e)
       \/ \E c \in Conversations, m \in Message : Says(p, c, m)
       \/ \E r \in Runs : Takes(p, r)

(* One lemma per shape of action, as in RunLifecycleProofs. *)

\* A process that ends without writing.
LEMMA LeaveKind ==
    ASSUME Whole, NEW p \in Procs, Return(p), Quiet,
           pc[p] \in {"ready", "start_message", "start_status", "exec_get", "runner",
                     "succ_message", "fail_message", "cancel_get", "release"}
    PROVE  StepOf(p)
  BY ReturnLocals DEF Whole, StepOf, Leaves

\* A process that moves on without writing.
LEMMA HopKind ==
    ASSUME Whole, NEW p \in Procs, NEW l, Goto(p, l), LocalsKept, Quiet,
           \/ pc[p] = "start_status" /\ l = "start_create"
           \/ pc[p] = "start_create" /\ l = "raised"
           \/ pc[p] = "publish" /\ l = "fail_get"
           \/ pc[p] = "exec_get" /\ l = "exec_setup"
           \/ pc[p] = "exec_setup" /\ l \in {"begin_get", "fail_get"}
           \/ pc[p] = "runner" /\ l \in {"succ_get", "fail_get"}
    PROVE  StepOf(p)
<1>1. OthersSame(p) /\ pc'[p] = l /\ run'[p] = run[p] /\ target'[p] = target[p]
      /\ copy'[p] = copy[p]
  BY GotoLocals DEF Whole
<1>2. Hops(p)
  BY <1>1 DEF Hops, Hop, Moves
<1> QED
  BY <1>1, <1>2 DEF StepOf

\* A process that loads a copy of its run.
LEMMA LoadKind ==
    ASSUME Whole, NEW p \in Procs, NEW l, NEW rec, Goto(p, l), Keep(p, rec), Quiet,
           UNCHANGED <<run, target>>,
           \/ pc[p] = "mark_get" /\ l = "mark_log" /\ rec = runs[run[p]]
           \/ pc[p] = "begin_get" /\ l = "begin_log" /\ rec.status = "running"
           \/ pc[p] = "succ_get" /\ l = "summary_log" /\ rec = runs[run[p]]
           \/ pc[p] = "fail_get" /\ l = "fail_message" /\ rec.status = "failed"
           \/ pc[p] = "fail_get" /\ l = "fail_log" /\ rec.status = "failed"
              /\ runs[run[p]].reply # "none"
           \/ pc[p] = "cancel_get" /\ l = "cancel_log" /\ rec.status = "cancelled"
    PROVE  StepOf(p)
<1>1. OthersSame(p) /\ pc'[p] = l /\ run'[p] = run[p] /\ target'[p] = target[p]
      /\ copy'[p] = rec
  BY KeepLocals DEF Whole
<1>2. Loads(p)
  BY <1>1 DEF Loads, Load, Moves
<1> QED
  BY <1>1, <1>2 DEF StepOf

\* A process that appends an event.
LEMMA LogKind ==
    ASSUME Whole, NEW p \in Procs, NEW at, NEW e, NEW l, LogStep(p, at, e, l),
           \/ at = "start_log" /\ e = "queued" /\ l = "mark_get"
           \/ at = "mark_log" /\ e = "enqueued" /\ l = "mark_save"
           \/ at = "begin_log" /\ e = "running" /\ l = "begin_save"
           \/ at = "runner" /\ e = "progress" /\ l = "runner"
           \/ at = "succ_message_log" /\ e = "message" /\ l = "succ_log"
           \/ at = "fail_log" /\ e = "error" /\ l = "fail_save"
           \/ at = "cancel_log" /\ e = "cancelled" /\ l = "cancel_save"
    PROVE  StepOf(p)
<1>1. OthersSame(p) /\ pc'[p] = l /\ run'[p] = run[p] /\ target'[p] = target[p]
      /\ copy'[p] = copy[p]
  BY GotoLocals DEF Whole, LogStep
<1>2. Logs(p, e) /\ e \in EventTypes
  BY <1>1, EventMembers DEF LogStep, Logs, Hop, Moves, table
<1> QED
  BY <1>1, <1>2 DEF StepOf

\* A process that saves its copy and keeps it.
LEMMA SaveKind ==
    ASSUME Whole, NEW p \in Procs, NEW at, NEW l, SaveStep(p, at, l),
           \/ at = "mark_save" /\ l \in {"exec_get", "publish"}
           \/ at = "begin_save" /\ l = "runner"
           \/ at \in {"succ_save", "fail_save", "cancel_save"} /\ l = "release"
    PROVE  StepOf(p)
<1>1. OthersSame(p) /\ pc'[p] = l /\ run'[p] = run[p] /\ target'[p] = target[p]
      /\ copy'[p] = copy[p]
  BY GotoLocals DEF Whole, SaveStep
<1>2. Saves(p)
  BY <1>1 DEF SaveStep, Saves, Moves, table
<1> QED
  BY <1>1, <1>2 DEF StepOf

\* A process that appends a message, or finds the conversation deleted.
LEMMA SayKind ==
    ASSUME Whole, NEW p \in Procs, NEW at, NEW c \in Conversations, NEW m \in Message, NEW l,
           MessageStep(p, at, c, m, l),
           \/ at = "start_message" /\ l = "start_status" /\ m.run = 0
           \/ at = "succ_message" /\ l = "succ_message_log" /\ m.run = run[p]
           \/ at = "fail_message" /\ l = "fail_log" /\ m.run = run[p]
    PROVE  StepOf(p)
<1>1. CASE c \in deleted
  BY <1>1, LeaveKind DEF MessageStep, Quiet
<1>2. CASE c \notin deleted
  <2>1. OthersSame(p) /\ pc'[p] = l /\ run'[p] = run[p] /\ target'[p] = target[p]
        /\ copy'[p] = copy[p]
    BY <1>2, GotoLocals DEF Whole, MessageStep
  <2>2. Says(p, c, m)
    BY <1>2, <2>1 DEF MessageStep, Says, Hop, Moves
  <2> QED
    BY <2>1, <2>2 DEF StepOf
<1> QED
  BY <1>1, <1>2

\* The statuses that copies are given.
LEMMA GivenStatus ==
    ASSUME Whole, NEW p \in Procs, pc[p] \in RunPcs
    PROVE  /\ \A s \in RunStatuses : [runs[run[p]] EXCEPT !.status = s].status = s
           /\ \A s \in RunStatuses, x \in {"none", "answer", "failure"} :
                [runs[run[p]] EXCEPT !.status = s, !.reply = x].status = s
           /\ {"running", "completed", "failed", "cancelled"} \subseteq RunStatuses
<1>1. runs[run[p]] \in RunRecord
  BY ReadRow, StatusMembers DEF Whole
<1> QED
  BY <1>1, StatusMembers DEF RunRecord

\* Every step is a crash or of one of the kinds, by one process.
LEMMA StepKinds ==
    ASSUME Whole, Next
    PROVE  Crash \/ \E p \in Procs : StepOf(p)
<1> USE Constants DEF Requests, StartRequests
<1>1. ASSUME NEW p \in StartRequests, NEW c \in Conversations, StartCheck(p, c)
      PROVE  StepOf(p)
  <2>1. CASE c \in deleted \/ HasActiveRun(c)
    BY <1>1, <2>1, LeaveKind DEF StartCheck, LocalOnly, Quiet, table
  <2>2. CASE ~(c \in deleted \/ HasActiveRun(c))
    <3>1. OthersSame(p) /\ pc'[p] = "start_message" /\ run'[p] = run[p] /\ copy'[p] = copy[p]
          /\ target'[p] = c
      BY <1>1, <2>2 DEF StartCheck, Goto, OthersSame, Same, Whole, TypeOK
    <3>2. Enters(p)
      BY <1>1, <2>2, <3>1 DEF StartCheck, LocalOnly, Enters, Quiet, table
    <3> QED
      BY <3>1, <3>2 DEF StepOf
  <2> QED
    BY <2>1, <2>2
<1>2. ASSUME NEW p \in CancelRequests, NEW r \in Runs, CancelStart(p, r)
      PROVE  StepOf(p)
  <2>1. OthersSame(p) /\ pc'[p] = "cancel_get" /\ copy'[p] = copy[p]
    BY <1>2 DEF CancelStart, Goto, OthersSame, Same, Whole, TypeOK
  <2> QED
    BY <1>2, <2>1 DEF CancelStart, LocalOnly, Enters, Quiet, table, StepOf
<1>3. ASSUME NEW p \in StopRequests, NEW c \in Conversations, StopStart(p, c)
      PROVE  StepOf(p)
  <2>1. CASE c \in deleted \/ ~HasActiveRun(c)
    BY <1>3, <2>1, LeaveKind DEF StopStart, LocalOnly, Quiet, table
  <2>2. CASE ~(c \in deleted \/ ~HasActiveRun(c))
    <3>1. PICK r \in Runs : run' = [run EXCEPT ![p] = r]
                            /\ Goto(p, "cancel_get") /\ UNCHANGED <<target, copy>>
      BY <1>3, <2>2 DEF StopStart
    <3>2. OthersSame(p) /\ pc'[p] = "cancel_get" /\ copy'[p] = copy[p]
      BY <3>1 DEF Goto, OthersSame, Same, Whole, TypeOK
    <3> QED
      BY <1>3, <3>2 DEF StopStart, LocalOnly, Enters, Quiet, table, StepOf
  <2> QED
    BY <2>1, <2>2
<1>4. ASSUME NEW p \in DeleteRequests, NEW c \in Conversations, Delete(p, c)
      PROVE  StepOf(p)
  BY <1>4, LeaveKind DEF Delete, Quiet
<1>5. ASSUME NEW p \in Procs, Starting(p)
      PROVE  StepOf(p)
  <2>1. CASE StartMessage(p)
    <3>1. target[p] \in Conversations
      BY <2>1, AtHand DEF Whole, StartMessage, MessageStep
    <3>2. [kind |-> "question", run |-> 0] \in Message
      BY DEF Message
    <3> QED
      BY <2>1, <3>1, <3>2, SayKind DEF StartMessage
  <2>2. CASE StartStatus(p)
    BY <2>2, LeaveKind, HopKind DEF StartStatus, Quiet
  <2>3. CASE StartCreate(p)
    <3>1. target[p] \in Conversations
      BY <2>3, AtHand DEF Whole, StartCreate
    <3>2. /\ created \in Nat /\ created + 1 \in Runs
          /\ runs'[created + 1].status = "queued"
          /\ runs'[created + 1].conversation = target[p]
          /\ \A r \in Runs : r # created + 1 => runs'[r] = runs[r]
      BY <2>3, <3>1, TableCreate DEF Whole, TypeOK
    <3>3. runs[created + 1] = NoRun
      BY <3>2 DEF Whole, TableInv
    <3>4. OthersSame(p) /\ pc'[p] = "start_log" /\ run'[p] = created + 1
      BY <2>3, <3>2 DEF StartCreate, Goto, OthersSame, Same, Whole, TypeOK
    <3>5. Creates(p)
      BY <2>3, <3>1, <3>2, <3>3, <3>4 DEF StartCreate, Creates, table
    <3> QED
      BY <3>4, <3>5 DEF StepOf
  <2>4. CASE StartLog(p)
    BY <2>4, LogKind DEF StartLog
  <2>5. CASE MarkGet(p)
    BY <2>5, LoadKind DEF MarkGet, LocalOnly, Quiet, table
  <2>6. CASE MarkLog(p)
    BY <2>6, LogKind DEF MarkLog
  <2>7. CASE MarkSave(p)
    BY <2>7, SaveKind DEF MarkSave
  <2>8. CASE Publish(p)
    <3>1. OthersSame(p) /\ Gone(p)
      BY <2>8, ReturnLocals DEF Whole, Publish
    <3> QED
      BY <2>8, <3>1 DEF Publish, Publishes, StepOf, table
  <2>9. CASE PublishFails(p)
    <3>1. /\ OthersSame(p) /\ pc'[p] = "fail_get" /\ run'[p] = run[p]
          /\ target'[p] = target[p] /\ copy'[p] = copy[p] /\ pc[p] = "publish"
      BY <2>9, GotoLocals DEF Whole, PublishFails
    <3>2. PICK fault \in PublishFaults :
            tasks' = [tasks EXCEPT ![run[p]] = IF fault = "lost" THEN @ ELSE @ + 1]
      BY <2>9 DEF PublishFails
    <3>3. CASE fault = "lost"
      <4>1. UNCHANGED tasks
        BY <3>2, <3>3 DEF Whole, TypeOK
      <4>2. Hops(p)
        BY <2>9, <3>1, <4>1 DEF PublishFails, Hops, Hop, Moves, Quiet, table
      <4> QED
        BY <3>1, <4>2 DEF StepOf
    <3>4. CASE fault # "lost"
      <4>1. "delivered" \in PublishFaults
        BY <3>4, ConstantsAssumption
      <4>2. Publishes(p)
        BY <2>9, <3>1, <3>2, <3>4, <4>1 DEF PublishFails, Publishes, Hop, Moves, table
      <4> QED
        BY <3>1, <4>2 DEF StepOf
    <3> QED
      BY <3>3, <3>4
  <2>10. CASE StartRaises(p)
    BY <2>10, HopKind DEF StartRaises, LocalOnly, Quiet, table
  <2> QED
    BY <1>5, <2>1, <2>2, <2>3, <2>4, <2>5, <2>6, <2>7, <2>8, <2>9, <2>10 DEF Starting
<1>6. ASSUME NEW p \in Procs, Executing(p)
      PROVE  StepOf(p)
  <2>1. CASE ExecGet(p)
    BY <2>1, HopKind, LeaveKind DEF ExecGet, LocalOnly, Quiet, table
  <2>2. CASE ExecSetup(p)
    BY <2>2, HopKind DEF ExecSetup, LocalOnly, Quiet, table
  <2>3. CASE BeginGet(p)
    <3> DEFINE rec == [runs[run[p]] EXCEPT !.status = "running"]
    <3>1. pc[p] \in RunPcs /\ pc[p] = "begin_get"
      BY <2>3, RunPcMembers DEF BeginGet
    <3>2. rec.status = "running"
      BY <3>1, GivenStatus
    <3>3. Goto(p, "begin_log") /\ Keep(p, rec) /\ Quiet /\ UNCHANGED <<run, target>>
      BY <2>3 DEF BeginGet, LocalOnly, Quiet, table
    <3> HIDE DEF rec
    <3> QED
      BY <3>1, <3>2, <3>3, LoadKind
  <2>4. CASE BeginLog(p)
    BY <2>4, LogKind DEF BeginLog
  <2>5. CASE BeginSave(p)
    BY <2>5, SaveKind DEF BeginSave
  <2>6. CASE RecordProgress(p)
    BY <2>6, LogKind DEF RecordProgress
  <2>7. CASE RunnerReturns(p)
    BY <2>7, HopKind DEF RunnerReturns, LocalOnly, Quiet, table
  <2>8. CASE SuccGet(p)
    BY <2>8, LoadKind DEF SuccGet, LocalOnly, Quiet, table
  <2>9. CASE SummaryLog(p)
    <3>1. copy[p] \in RunRecord
      BY AtHand DEF Whole
    <3>2. OthersSame(p) /\ Load(p, "summary_log", "summary_save", copy[p].status)
      BY <2>9, <3>1, WithSummary, KeepLocals DEF SummaryLog, Goto, Keep, OthersSame, Same, Whole, TypeOK, Load, Moves
    <3>3. Logs(p, "summary") /\ "summary" \in EventTypes
      BY <2>9, <3>2, EventMembers DEF SummaryLog, Logs, table
    <3> QED
      BY <3>2, <3>3 DEF StepOf
  <2>10. CASE SuccLog(p)
    <3>1. copy[p] \in RunRecord
      BY AtHand DEF Whole
    <3>2. OthersSame(p) /\ Load(p, "succ_log", "succ_save", "completed")
      BY <2>10, <3>1, StatusMembers, WithStatus DEF SuccLog, Goto, Keep, OthersSame, Same, Whole, TypeOK, Load, Moves
    <3>3. Logs(p, "completed") /\ "completed" \in EventTypes
      BY <2>10, <3>2, EventMembers DEF SuccLog, Logs, table
    <3> QED
      BY <3>2, <3>3 DEF StepOf
  <2>11. CASE SummarySave(p)
    <3>1. copy[p] \in RunRecord
      BY AtHand DEF Whole
    <3>2. PICK l \in {"summary_log", "succ_message", "succ_log"} : Goto(p, l)
      BY <2>11 DEF SummarySave
    <3>3. /\ \A q \in Procs : q # p => copy'[q] = copy[q]
          /\ copy'[p].status = copy[p].status
      BY <2>11, <3>1, WithReply DEF SummarySave, Keep, Whole, TypeOK
    <3>4. OthersSame(p) /\ Moves(p, "summary_save", l)
      BY <2>11, <3>2, <3>3 DEF SummarySave, Goto, OthersSame, Same, Whole, TypeOK, Moves
    <3>5. Saves(p)
      BY <2>11, <3>2, <3>3, <3>4 DEF SummarySave, Saves, table
    <3> QED
      BY <3>4, <3>5 DEF StepOf
  <2>12. CASE SuccMessage(p) \/ FailMessage(p)
    <3>1. pc[p] \in {"succ_message", "fail_message"}
      BY <2>12 DEF SuccMessage, FailMessage, MessageStep
    <3>2. copy[p].conversation \in Conversations /\ run[p] \in Runs
      BY <3>1, AtHand, CopyPcMembers, RunPcMembers DEF Whole
    <3>3. \A k \in {"answer", "failure"} : [kind |-> k, run |-> run[p]] \in Message
      BY <3>2 DEF Message
    <3> QED
      BY <2>12, <3>2, <3>3, SayKind DEF SuccMessage, FailMessage
  <2>13. CASE SuccMessageLog(p)
    BY <2>13, LogKind DEF SuccMessageLog
  <2>14. CASE SuccSave(p)
    BY <2>14, SaveKind DEF SuccSave
  <2>15. CASE FailGet(p)
    <3> DEFINE said   == [runs[run[p]] EXCEPT !.status = "failed"]
               unsaid == [runs[run[p]] EXCEPT !.status = "failed", !.reply = "failure"]
    <3>1. pc[p] \in RunPcs /\ pc[p] = "fail_get"
      BY <2>15, RunPcMembers DEF FailGet
    <3>2. said.status = "failed" /\ unsaid.status = "failed"
      BY <3>1, GivenStatus
    <3>3. Quiet /\ UNCHANGED <<run, target>>
      BY <2>15 DEF FailGet, LocalOnly, Quiet, table
    <3>4. \/ Goto(p, "fail_message") /\ Keep(p, unsaid)
          \/ Goto(p, "fail_log") /\ Keep(p, said) /\ runs[run[p]].reply # "none"
      BY <2>15 DEF FailGet
    <3> HIDE DEF said, unsaid
    <3> QED
      BY <3>1, <3>2, <3>3, <3>4, LoadKind
  <2>16. CASE FailLog(p)
    BY <2>16, LogKind DEF FailLog
  <2>17. CASE FailSave(p)
    BY <2>17, SaveKind DEF FailSave
  <2>18. CASE Release(p)
    BY <2>18, LeaveKind DEF Release, Quiet
  <2> QED
    BY <1>6, <2>1, <2>2, <2>3, <2>4, <2>5, <2>6, <2>7, <2>8, <2>9, <2>10, <2>11, <2>12,
       <2>13, <2>14, <2>15, <2>16, <2>17, <2>18 DEF Executing
<1>7. ASSUME NEW p \in Procs, Cancelling(p)
      PROVE  StepOf(p)
  <2>1. CASE CancelGet(p)
    <3> DEFINE rec == [runs[run[p]] EXCEPT !.status = "cancelled"]
    <3>1. pc[p] \in RunPcs /\ pc[p] = "cancel_get" /\ Quiet
      BY <2>1, RunPcMembers DEF CancelGet, LocalOnly, Quiet, table
    <3>2. rec.status = "cancelled"
      BY <3>1, GivenStatus
    <3>3. CASE IsActive(run[p])
      <4>1. Goto(p, "cancel_log") /\ Keep(p, rec) /\ UNCHANGED <<run, target>>
        BY <2>1, <3>3 DEF CancelGet
      <4> HIDE DEF rec
      <4> QED
        BY <3>1, <3>2, <4>1, LoadKind
    <3>4. CASE ~IsActive(run[p])
      BY <2>1, <3>1, <3>4, LeaveKind DEF CancelGet
    <3> QED
      BY <3>3, <3>4
  <2>2. CASE CancelLog(p)
    BY <2>2, LogKind DEF CancelLog
  <2>3. CASE CancelSave(p)
    BY <2>3, SaveKind DEF CancelSave
  <2> QED
    BY <1>7, <2>1, <2>2, <2>3 DEF Cancelling
<1>8. ASSUME NEW w \in Workers, NEW r \in Runs, TakeTask(w, r)
      PROVE  StepOf(w)
  <2>1. OthersSame(w) /\ run'[w] = r /\ pc'[w] = "exec_get" /\ copy'[w] = copy[w]
    BY <1>8 DEF TakeTask, Goto, OthersSame, Same, Whole, TypeOK
  <2>2. Takes(w, r)
    BY <1>8, <2>1 DEF TakeTask, Takes, table
  <2> QED
    BY <2>1, <2>2 DEF StepOf
<1>9. ASSUME NEW p \in StreamRequests, Disconnect(p)
      PROVE  StepOf(p)
  BY <1>9, LeaveKind DEF Disconnect, LocalOnly, Quiet, table
<1>10. CASE ApiCrash
  BY <1>10 DEF ApiCrash, Crash, Quiet, Same, Dead, table, Whole, TypeOK
<1>11. ASSUME NEW w \in Workers, WorkerCrash(w)
       PROVE  Crash
  BY <1>11, ReturnLocals DEF WorkerCrash, Crash, Quiet, Dead, Gone, OthersSame, Whole, table
<1> QED
  BY <1>1, <1>2, <1>3, <1>4, <1>5, <1>6, <1>7, <1>8, <1>9, <1>10, <1>11
  DEF Next, Arrive, Proceed, Take, Fault

(***************************************************************************)
(* What every kind of step does to the log and to the records.             *)
(***************************************************************************)

\* The process of a step has a run where its kind says so.
LEMMA ActorRun ==
    ASSUME Whole, NEW p \in Procs, pc[p] \in RunPcs
    PROVE  /\ run[p] \in Runs /\ run[p] # 0 /\ run[p] <= created
           /\ runs[run[p]] \in RunRecord /\ copy[p] \in RunRecord
  BY AtHand DEF Whole

\* A step of kind Logs or Saves is of a process with a run.
LEMMA WriterRun ==
    ASSUME Whole, NEW p \in Procs, Saves(p) \/ \E e \in EventTypes : Logs(p, e)
    PROVE  pc[p] \in RunPcs /\ run[p] \in Runs /\ run[p] # 0 /\ run[p] <= created
           /\ run'[p] = run[p]
<1>1. pc[p] \in RunPcs /\ run'[p] = run[p]
  BY RunPcMembers DEF Saves, Logs, Hop, Load, Moves
<1> QED
  BY <1>1, ActorRun

\* No step takes an event out of a log.
LEMMA LogOnlyGrows ==
    ASSUME Whole, Crash \/ \E p \in Procs : StepOf(p)
    PROVE  LogKept
<1>1. CASE UNCHANGED log
  BY <1>1, LogStays
<1>2. ASSUME NEW p \in Procs, NEW e \in EventTypes, Logs(p, e)
      PROVE  LogKept
  <2>1. run[p] \in Runs /\ AppendEvent(run[p], e)
    BY <1>2, WriterRun DEF Logs
  <2> QED
    BY <2>1, LogGrows DEF Whole
<1> QED
  BY <1>1, <1>2 DEF StepOf, Crash, Quiet, Enters, Leaves, Hops, Loads, Saves, Creates,
     Publishes, Says, Takes

\* A save changes the row of its run only.
LEMMA SavedRows ==
    ASSUME Whole, NEW p \in Procs, Saves(p)
    PROVE  \A r \in Runs : runs'[r] = IF r = run[p] THEN copy[p] ELSE runs[r]
  BY WriterRun DEF Saves, Save, Whole, TypeOK

\* A step that neither saves nor creates leaves all rows alone.
LEMMA RowsKept ==
    ASSUME Crash \/ \E p \in Procs : StepOf(p),
           \A p \in Procs : ~Saves(p) /\ ~Creates(p)
    PROVE  UNCHANGED runs
  BY DEF StepOf, Crash, Quiet, Enters, Leaves, Hops, Loads, Logs, Publishes, Says, Takes

(***************************************************************************)
(* No run looks queued again.                                              *)
(***************************************************************************)
RequeuesNone ==
    \A r \in Runs : Logged(r, "running") /\ runs[r].status # "queued"
                      => runs'[r].status # "queued"

\* The only save of a queued copy comes before the run begins.
LEMMA RequeueStep ==
    ASSUME IInv, QueuedInv, Crash \/ \E p \in Procs : StepOf(p)
    PROVE  RequeuesNone
<1> USE Split
<1>1. ASSUME NEW p \in Procs, Saves(p) PROVE RequeuesNone
  <2>1. run[p] \in Runs /\ \A r \in Runs : r # run[p] => runs'[r] = runs[r]
    BY <1>1, WriterRun, SavedRows
  <2>2. runs'[run[p]] = copy[p]
    BY <1>1, <2>1, SavedRows
  <2>3. CASE pc[p] = "mark_save"
    <3>1. ~Logged(run[p], "running")
      BY <2>3, MayStartMembers DEF Token, StartTokenInv
    <3> QED
      BY <2>1, <3>1 DEF RequeuesNone
  <2>4. CASE pc[p] # "mark_save"
    <3>1. copy[p].status # "queued"
      BY <1>1, <2>4 DEF Saves, Moves, QueuedInv, CopyPcs
    <3> QED
      BY <2>1, <2>2, <3>1 DEF RequeuesNone
  <2> QED
    BY <2>3, <2>4
<1>2. ASSUME NEW p \in Procs, Creates(p) PROVE RequeuesNone
  <2>1. created + 1 \in Runs /\ created + 1 > created
    BY <1>2 DEF Creates, Whole, TypeOK
  <2>2. ~Logged(created + 1, "running")
    BY <2>1 DEF Whole, TableInv, Logged
  <2> QED
    BY <1>2, <2>2 DEF Creates, RequeuesNone
<1>3. CASE \A p \in Procs : ~Saves(p) /\ ~Creates(p)
  BY <1>3, RowsKept DEF RequeuesNone
<1> QED
  BY <1>1, <1>2, <1>3

QueuedOK(p) ==
    /\ pc[p] \in CopyPcs \ {"mark_log", "mark_save"} => copy[p].status # "queued"
    /\ pc[p] \in {"begin_save", "runner", "succ_get"} => Logged(run[p], "running")
    /\ pc[p] \in {"runner", "succ_get"} => runs[run[p]].status # "queued"

\* A process that the step does not touch.
LEMMA QueuedFrame ==
    ASSUME Whole, NEW q \in Procs, QueuedOK(q), Same(q), LogKept, RequeuesNone
    PROVE  QueuedOK(q)'
<1>1. pc[q] \in {"begin_save", "runner", "succ_get"} => run[q] \in Runs
  BY ActorRun, RunPcMembers
<1>2. pc[q] \in {"begin_save", "runner", "succ_get"} => Logged(run[q], "running")'
  BY <1>1, EventMembers DEF QueuedOK, LogKept, Same
<1>3. pc[q] \in {"runner", "succ_get"} => runs'[run[q]].status # "queued"
  BY <1>1 DEF QueuedOK, RequeuesNone
<1>4. pc'[q] = pc[q] /\ run'[q] = run[q] /\ copy'[q] = copy[q]
  BY DEF Same
<1> QED
  BY <1>2, <1>3, <1>4 DEF QueuedOK, Logged

\* The process of the step.
LEMMA QueuedActor ==
    ASSUME Whole, NEW p \in Procs, QueuedOK(p), StepOf(p), LogKept, RequeuesNone
    PROVE  QueuedOK(p)'
<1>1. CASE Enters(p) \/ Leaves(p) \/ Creates(p) \/ Publishes(p) \/ \E r \in Runs : Takes(p, r)
  <2>1. pc'[p] \notin CopyPcs \cup {"begin_save", "runner", "succ_get"}
    BY <1>1 DEF Enters, Leaves, Gone, Creates, Publishes, Hop, Moves, Takes, CopyPcs
  <2> QED
    BY <2>1 DEF QueuedOK
<1>2. CASE Hops(p)
  <2>1. CASE pc'[p] = "succ_get"
    <3>1. pc[p] = "runner" /\ run'[p] = run[p] /\ UNCHANGED <<log, runs>>
      BY <1>2, <2>1 DEF Hops, Hop, Moves, Quiet
    <3> QED
      BY <2>1, <3>1 DEF QueuedOK, CopyPcs, Logged
  <2>2. CASE pc'[p] # "succ_get"
    <3>1. pc'[p] \notin CopyPcs \cup {"begin_save", "runner", "succ_get"}
      BY <1>2, <2>2 DEF Hops, Hop, Moves, CopyPcs
    <3> QED
      BY <3>1 DEF QueuedOK
  <2> QED
    BY <2>1, <2>2
<1>3. CASE Loads(p)
  <2>1. pc'[p] \notin {"begin_save", "runner", "succ_get"}
    BY <1>3 DEF Loads, Load, Moves
  <2>2. pc'[p] # "mark_log" => copy'[p].status # "queued"
    BY <1>3 DEF Loads, Load, Moves, QueuedOK
  <2> QED
    BY <2>1, <2>2 DEF QueuedOK
<1>4. ASSUME NEW e \in EventTypes, Logs(p, e) PROVE QueuedOK(p)'
  <2>1. run[p] \in Runs /\ run'[p] = run[p] /\ UNCHANGED runs
    BY <1>4, WriterRun DEF Logs
  <2>2. pc'[p] \in CopyPcs \ {"mark_log", "mark_save"} => copy'[p].status # "queued"
    BY <1>4 DEF Logs, Hop, Load, Moves, QueuedOK, CopyPcs
  <2>3. CASE pc'[p] \in {"begin_save", "runner"}
    <3>1. e = "running" \/ Logged(run[p], "running")
      BY <1>4, <2>3 DEF Logs, Hop, Load, Moves, QueuedOK
    <3>2. Logged(run[p], "running")'
      BY <1>4, <2>1, <3>1, AppendLogged, EventMembers DEF Logs, Whole
    <3>3. pc'[p] = "runner" => runs'[run[p]].status # "queued"
      BY <1>4, <2>1 DEF Logs, Hop, Load, Moves, QueuedOK
    <3> QED
      BY <2>1, <2>2, <2>3, <3>2, <3>3 DEF QueuedOK, Logged
  <2>4. CASE pc'[p] \notin {"begin_save", "runner"}
    <3>1. pc'[p] \notin {"begin_save", "runner", "succ_get"}
      BY <1>4, <2>4 DEF Logs, Hop, Load, Moves
    <3> QED
      BY <2>2, <3>1 DEF QueuedOK
  <2> QED
    BY <2>3, <2>4
<1>5. CASE Saves(p)
  <2>1. /\ run[p] \in Runs /\ run'[p] = run[p] /\ runs'[run[p]] = copy[p]
        /\ UNCHANGED log /\ copy'[p].status = copy[p].status
    BY <1>5, WriterRun, SavedRows DEF Saves
  <2>2. CASE pc'[p] = "runner"
    <3>1. pc[p] = "begin_save"
      BY <1>5, <2>2 DEF Saves, Moves
    <3> QED
      BY <2>1, <2>2, <3>1 DEF QueuedOK, CopyPcs, Logged
  <2>3. CASE pc'[p] # "runner"
    BY <1>5, <2>1, <2>3 DEF Saves, Moves, QueuedOK, CopyPcs
  <2> QED
    BY <2>2, <2>3
<1>6. ASSUME NEW c \in Conversations, NEW m \in Message, Says(p, c, m) PROVE QueuedOK(p)'
  BY <1>6 DEF Says, Hop, Moves, QueuedOK, CopyPcs
<1> QED
  BY <1>1, <1>2, <1>3, <1>4, <1>5, <1>6 DEF StepOf

\* Every step keeps QueuedInv.
LEMMA QueuedStep ==
    ASSUME IInv, QueuedInv, Next
    PROVE  QueuedInv' /\ RequeuesNone
<1>1. Whole
  BY Split
<1>2. Crash \/ \E p \in Procs : StepOf(p)
  BY <1>1, StepKinds
<1>3. LogKept /\ RequeuesNone
  BY <1>1, <1>2, LogOnlyGrows, RequeueStep
<1>4. \A p \in Procs : QueuedOK(p)
  BY DEF QueuedInv, QueuedOK
<1>5. ASSUME NEW q \in Procs, Dead(q) PROVE QueuedOK(q)'
  BY <1>5 DEF Dead, QueuedOK, CopyPcs
<1>6. CASE Crash
  BY <1>1, <1>3, <1>4, <1>5, <1>6, QueuedFrame DEF Crash, QueuedInv, QueuedOK
<1>7. ASSUME NEW p \in Procs, StepOf(p), NEW q \in Procs PROVE QueuedOK(q)'
  <2>1. CASE q = p
    BY <1>1, <1>3, <1>4, <1>7, <2>1, QueuedActor
  <2>2. CASE q # p
    BY <1>1, <1>3, <1>4, <1>7, <2>2, QueuedFrame DEF StepOf, OthersSame
  <2> QED
    BY <2>1, <2>2
<1>8. (\E p \in Procs : StepOf(p)) => \A q \in Procs : QueuedOK(q)'
  BY <1>7
<1> QED
  BY <1>2, <1>3, <1>6, <1>8 DEF QueuedInv, QueuedOK

\* No run that has begun looks queued again, whatever its cancellation, its failures and
\* the stale copies of its handlers: the save of mark_worker_enqueued comes before the
\* publish, and so before the run begins.
THEOREM NoneRequeued == Spec => NeverRequeued
<1>1. Init => IInv /\ QueuedInv
  <2>1. ASSUME Init PROVE IInv /\ \A p \in Procs : pc[p] \in {"idle", "ready"}
    BY <2>1, Initially DEF Init
  <2> QED
    BY <2>1 DEF QueuedInv, CopyPcs
<1>2. IInv /\ QueuedInv /\ [Next]_vars => (IInv /\ QueuedInv)'
  <2>1. ASSUME IInv, QueuedInv, UNCHANGED vars PROVE IInv' /\ QueuedInv'
    BY <2>1, Stutter DEF vars, QueuedInv, Logged
  <2> QED
    BY <2>1, Inductive, QueuedStep
<1>3. IInv /\ QueuedInv /\ [Next]_vars => [RequeuesNone]_vars
  BY QueuedStep
<1>4. Spec => [](IInv /\ QueuedInv)
  BY <1>1, <1>2, PTL DEF Spec
<1>5. [RequeuesNone]_vars
        <=> [\A r \in Runs : Logged(r, "running") /\ runs[r].status # "queued"
                               => runs'[r].status # "queued"]_vars
  BY DEF RequeuesNone
<1> QED
  BY <1>3, <1>4, <1>5, PTL DEF Spec, NeverRequeued

(***************************************************************************)
(* A run is in one hand.                                                   *)
(***************************************************************************)

\* Who holds a run, one control point after the other.
LEMMA HoldingMembers ==
    /\ Holding = {"start_log", "mark_get", "mark_log", "mark_save", "publish",
                  "exec_get", "exec_setup", "begin_get", "begin_log", "begin_save", "runner",
                  "succ_get", "summary_log", "summary_save", "succ_message",
                  "succ_message_log", "succ_log", "succ_save", "fail_get",
                  "fail_message", "fail_log", "fail_save"}
    /\ MayReply = {"start_log", "mark_get", "mark_log", "mark_save", "publish",
                   "exec_get", "exec_setup", "begin_get", "begin_log", "begin_save",
                   "runner", "succ_get", "summary_log", "summary_save", "succ_message",
                   "fail_get", "fail_message"}
    /\ Holding \subseteq RunPcs
  BY DEF Holding, MayReply, RunPcs, PcValues

\* A process that holds its run after the step held it before.
KeepsHold(q) == pc'[q] \in Holding => pc[q] \in Holding /\ run'[q] = run[q]

\* A step after which nobody holds a run that did not before.
LEMMA HolderFrame ==
    ASSUME OneHolder, UNCHANGED tasks, \A q \in Procs : KeepsHold(q)
    PROVE  OneHolder'
  BY DEF OneHolder, KeepsHold

\* Most kinds of step are of that sort.
LEMMA HolderKinds ==
    ASSUME NEW p \in Procs, StepOf(p), ~Creates(p), ~Publishes(p),
           \A r \in Runs : ~Takes(p, r)
    PROVE  UNCHANGED tasks /\ \A q \in Procs : KeepsHold(q)
<1>1. \A q \in Procs : q # p => KeepsHold(q)
  BY DEF StepOf, OthersSame, Same, KeepsHold
<1>2. CASE Enters(p) \/ Leaves(p) \/ Hops(p) \/ Loads(p)
  <2>1. KeepsHold(p) /\ UNCHANGED tasks
    BY <1>2, HoldingMembers
    DEF Enters, Leaves, Gone, Hops, Hop, Loads, Load, Moves, Quiet, KeepsHold
  <2> QED
    BY <1>1, <2>1
<1>3. CASE Saves(p) \/ \E e \in EventTypes : Logs(p, e)
  <2>1. KeepsHold(p) /\ UNCHANGED tasks
    BY <1>3, HoldingMembers DEF Saves, Logs, Hop, Load, Moves, KeepsHold
  <2> QED
    BY <1>1, <2>1
<1>4. ASSUME NEW c \in Conversations, NEW m \in Message, Says(p, c, m)
      PROVE  UNCHANGED tasks /\ \A q \in Procs : KeepsHold(q)
  BY <1>1, <1>4, HoldingMembers DEF Says, Hop, Moves, KeepsHold
<1> QED
  BY <1>2, <1>3, <1>4 DEF StepOf

\* A run passes from its holder to its task and from the task to a worker, and no
\* failing publish duplicates it.
LEMMA HolderStep ==
    ASSUME IInv, OneHolder, Next, "delivered" \notin PublishFaults
    PROVE  OneHolder'
<1>1. Whole /\ \A r \in Runs : tasks[r] \in Nat /\ tasks[r] <= 1
  BY Split DEF Token, StartTokenInv, Whole, TypeOK
<1>2. \A q \in Procs : pc[q] \in Holding => run[q] \in Runs /\ run[q] <= created
  BY <1>1, ActorRun, HoldingMembers
<1>3. ASSUME NEW p \in Procs, StepOf(p), Creates(p) PROVE OneHolder'
  <2>1. tasks[created + 1] = 0 /\ UNCHANGED tasks /\ run'[p] = created + 1 /\ created \in Nat
    BY <1>1, <1>3 DEF Creates, Whole, TableInv, TypeOK
  <2>2. \A q \in Procs : q # p => pc'[q] = pc[q] /\ run'[q] = run[q]
    BY <1>3 DEF StepOf, OthersSame, Same
  <2>3. \A q \in Procs : pc[q] \in Holding => run[q] # created + 1
    BY <1>2, <2>1
  <2> QED
    BY <2>1, <2>2, <2>3 DEF OneHolder
<1>4. ASSUME NEW p \in Procs, StepOf(p), Publishes(p) PROVE OneHolder'
  <2>1. Gone(p) /\ pc[p] = "publish" /\ tasks' = [tasks EXCEPT ![run[p]] = @ + 1]
    BY <1>4 DEF Publishes
  <2>2. pc[p] \in Holding /\ pc'[p] \notin Holding
    BY <2>1, HoldingMembers DEF Gone
  <2>3. \A q \in Procs : q # p => pc'[q] = pc[q] /\ run'[q] = run[q]
    BY <1>4 DEF StepOf, OthersSame, Same
  <2>4. \A r \in Runs : r # run[p] => tasks'[r] = tasks[r]
    BY <1>1, <2>1 DEF Whole, TypeOK
  <2>5. \A q \in Procs : pc'[q] \in Holding =>
           q # p /\ pc[q] \in Holding /\ run'[q] = run[q] /\ run[q] # run[p]
           /\ run[q] \in Runs
    BY <1>2, <2>2, <2>3 DEF OneHolder
  <2> QED
    BY <2>4, <2>5 DEF OneHolder
<1>5. ASSUME NEW p \in Procs, StepOf(p), NEW r \in Runs, Takes(p, r) PROVE OneHolder'
  <2>1. tasks[r] = 1 /\ tasks' = [tasks EXCEPT ![r] = @ - 1] /\ run'[p] = r
    BY <1>1, <1>5 DEF Takes
  <2>2. tasks'[r] = 0 /\ \A x \in Runs : x # r => tasks'[x] = tasks[x]
    BY <1>1, <2>1 DEF Whole, TypeOK
  <2>3. \A q \in Procs : q # p => pc'[q] = pc[q] /\ run'[q] = run[q]
    BY <1>5 DEF StepOf, OthersSame, Same
  <2>4. \A q \in Procs : pc[q] \in Holding => run[q] # r
    BY <2>1 DEF OneHolder
  <2> QED
    BY <1>2, <2>1, <2>2, <2>3, <2>4 DEF OneHolder
<1>6. CASE Crash
  <2>1. UNCHANGED tasks /\ \A q \in Procs : KeepsHold(q)
    BY <1>6, HoldingMembers DEF Crash, Quiet, Same, Dead, KeepsHold
  <2> QED
    BY <2>1, HolderFrame
<1>7. ASSUME NEW p \in Procs, StepOf(p), ~Creates(p), ~Publishes(p),
             \A r \in Runs : ~Takes(p, r)
      PROVE  OneHolder'
  BY <1>7, HolderKinds, HolderFrame
<1> QED
  BY <1>1, <1>3, <1>4, <1>5, <1>6, <1>7, StepKinds

(***************************************************************************)
(* A run replies once.                                                     *)
(***************************************************************************)

\* An append to a transcript adds the reply that it is.
LEMMA AppendReply ==
    ASSUME TypeOK, NEW c \in Conversations, NEW m \in Message,
           transcript' = [transcript EXCEPT ![c] = Append(@, m)]
    PROVE  /\ \A r \in Runs : Replied(r)' => Replied(r) \/ m.run = r
           /\ \A r \in Runs : Replied(r) \/ m.run = r => Replied(r)'
           /\ \A d \in Conversations : \A i \in DOMAIN transcript'[d] :
                \/ i \in DOMAIN transcript[d] /\ transcript'[d][i] = transcript[d][i]
                \/ d = c /\ i = Len(transcript[c]) + 1 /\ transcript'[d][i] = m
<1>1. \A d \in Conversations : transcript[d] \in Seq(Message)
        /\ transcript'[d] = IF d = c THEN Append(transcript[c], m) ELSE transcript[d]
  BY DEF TypeOK
<1>2. /\ DOMAIN transcript[c] = 1 .. Len(transcript[c]) /\ Len(transcript[c]) \in Nat
      /\ DOMAIN transcript'[c] = 1 .. Len(transcript[c]) + 1
      /\ transcript'[c][Len(transcript[c]) + 1] = m
      /\ \A i \in 1 .. Len(transcript[c]) : transcript'[c][i] = transcript[c][i]
  <2>1. transcript'[c] = Append(transcript[c], m) /\ transcript[c] \in Seq(Message)
    BY <1>1
  <2>2. /\ Len(transcript'[c]) = Len(transcript[c]) + 1
        /\ transcript'[c][Len(transcript[c]) + 1] = m
        /\ \A i \in 1 .. Len(transcript[c]) : transcript'[c][i] = transcript[c][i]
    BY <2>1
  <2>3. /\ DOMAIN transcript[c] = 1 .. Len(transcript[c]) /\ Len(transcript[c]) \in Nat
        /\ DOMAIN transcript'[c] = 1 .. Len(transcript'[c])
    BY <2>1
  <2> QED
    BY <2>2, <2>3
<1>3. \A d \in Conversations : \A i \in DOMAIN transcript'[d] :
        \/ i \in DOMAIN transcript[d] /\ transcript'[d][i] = transcript[d][i]
        \/ d = c /\ i = Len(transcript[c]) + 1 /\ transcript'[d][i] = m
  BY <1>1, <1>2
<1>4. \A d \in Conversations : \A i \in DOMAIN transcript[d] :
        i \in DOMAIN transcript'[d] /\ transcript'[d][i] = transcript[d][i]
  BY <1>1, <1>2
<1>5. Len(transcript[c]) + 1 \in DOMAIN transcript'[c]
  BY <1>2
<1>6. \A r \in Runs : Replied(r)' => Replied(r) \/ m.run = r
  BY <1>3 DEF Replied
<1>7. \A r \in Runs : Replied(r) \/ m.run = r => Replied(r)'
  BY <1>2, <1>4, <1>5 DEF Replied
<1> QED
  BY <1>3, <1>6, <1>7

\* A step that says nothing, after which who may reply has not: the holder that might
\* before, the task of such a holder, or the creator of the run.
LEMMA ReplyFrame ==
    ASSUME Whole, ReplyInv, UNCHANGED transcript, created <= created', created' \in Nat,
           \A q \in Procs : pc'[q] \in MayReply => run'[q] \in Runs /\ ~Replied(run'[q]),
           \A r \in Runs : tasks'[r] > 0 => tasks[r] > 0 \/ ~Replied(r)
    PROVE  ReplyInv'
<1>1. \A r \in Runs : r > created' => r > created
  BY DEF Whole, TypeOK, Runs
<1> QED
  BY <1>1 DEF ReplyInv, Replied

\* Whoever may reply after a step that says nothing had not replied.
LEMMA ReplyKinds ==
    ASSUME IInv, ReplyInv, NEW p \in Procs, StepOf(p),
           \A c \in Conversations, m \in Message : ~Says(p, c, m)
    PROVE  ReplyInv'
<1>1. Whole /\ created \in Nat
  BY Split DEF Whole, TypeOK
<1>2. UNCHANGED transcript
  BY DEF StepOf, Quiet, Enters, Leaves, Hops, Loads, Logs, Saves, Creates, Publishes, Takes
<1>3. created <= created' /\ created' \in Nat
  BY <1>1 DEF StepOf, Quiet, Enters, Leaves, Hops, Loads, Logs, Saves, Creates, Publishes, Takes
<1>4. ASSUME NEW q \in Procs, pc'[q] \in MayReply
      PROVE  run'[q] \in Runs /\ ~Replied(run'[q])
  <2>1. CASE pc[q] \in MayReply /\ run'[q] = run[q]
    BY <1>1, <2>1, ActorRun, HoldingMembers DEF ReplyInv, MayReply
  <2>2. CASE ~(pc[q] \in MayReply /\ run'[q] = run[q])
    <3>1. q = p
      BY <1>4, <2>2 DEF StepOf, OthersSame, Same
    <3>2. Creates(p) \/ \E r \in Runs : Takes(p, r)
      BY <1>4, <2>2, <3>1, HoldingMembers
      DEF StepOf, Enters, Leaves, Gone, Hops, Loads, Logs, Saves, Publishes, Hop, Load, Moves
    <3>3. CASE Creates(p)
      BY <1>1, <3>1, <3>3 DEF Creates, ReplyInv
    <3>4. CASE \E r \in Runs : Takes(p, r)
      BY <3>1, <3>4 DEF Takes, ReplyInv
    <3> QED
      BY <3>2, <3>3, <3>4
  <2> QED
    BY <2>1, <2>2
<1>5. ASSUME NEW r \in Runs, tasks'[r] > 0
      PROVE  tasks[r] > 0 \/ ~Replied(r)
  <2>1. CASE tasks'[r] = tasks[r]
    BY <1>5, <2>1
  <2>2. CASE tasks'[r] # tasks[r]
    <3>1. Publishes(p) \/ \E x \in Runs : Takes(p, x)
      BY <2>2 DEF StepOf, Quiet, Enters, Leaves, Hops, Loads, Logs, Saves, Creates
    <3>2. CASE Publishes(p)
      <4>1. r = run[p]
        BY <1>1, <2>2, <3>2 DEF Publishes, Whole, TypeOK
      <4> QED
        BY <3>2, <4>1, HoldingMembers DEF Publishes, ReplyInv
    <3>3. ASSUME NEW x \in Runs, Takes(p, x) PROVE tasks[r] > 0
      BY <1>1, <1>5, <2>2, <3>3 DEF Takes, Whole, TypeOK
    <3> QED
      BY <3>1, <3>2, <3>3
  <2> QED
    BY <2>1, <2>2
<1> QED
  BY <1>1, <1>2, <1>3, <1>4, <1>5, ReplyFrame

\* The holder of a run says its one reply.
LEMMA ReplyStep ==
    ASSUME IInv, OneHolder, ReplyInv, Next
    PROVE  ReplyInv'
<1>1. Whole /\ TypeOK /\ created \in Nat
  BY Split DEF Whole, TypeOK
<1>2. ASSUME NEW p \in Procs, StepOf(p), NEW c \in Conversations, NEW m \in Message,
             Says(p, c, m)
      PROVE  ReplyInv'
  <2>1. /\ \A r \in Runs : Replied(r)' => Replied(r) \/ m.run = r
        /\ \A d \in Conversations : \A i \in DOMAIN transcript'[d] :
                \/ i \in DOMAIN transcript[d] /\ transcript'[d][i] = transcript[d][i]
                \/ d = c /\ i = Len(transcript[c]) + 1 /\ transcript'[d][i] = m
    BY <1>1, <1>2, AppendReply DEF Says
  <2>2. \/ m.run = 0
        \/ /\ m.run = run[p] /\ run[p] \in Runs /\ run[p] <= created
           /\ pc[p] \in MayReply /\ pc'[p] \notin MayReply
    BY <1>1, <1>2, ActorRun, HoldingMembers DEF Says, Hop, Moves
  <2>3. pc'[p] \notin MayReply
    BY <1>2, HoldingMembers DEF Says, Hop, Moves
  <2>4. m.run # 0 => ~Replied(m.run) /\ tasks[m.run] = 0 /\ m.run <= created /\ m.run \in Runs
    BY <2>2, HoldingMembers DEF ReplyInv, OneHolder
  <2>5. ASSUME NEW q \in Procs, pc'[q] \in MayReply PROVE ~Replied(run[q])'
    <3>1. q # p /\ pc[q] \in MayReply /\ run'[q] = run[q]
      BY <1>2, <2>3, <2>5 DEF StepOf, OthersSame, Same
    <3>2. run[q] \in Runs /\ run[q] # 0
      BY <1>1, <3>1, ActorRun, HoldingMembers
    <3>3. run[q] # m.run
      BY <2>2, <3>1, <3>2, HoldingMembers DEF OneHolder
    <3>4. \A d \in Conversations : \A i \in DOMAIN transcript[d] : transcript[d][i].run # run[q]
      BY <3>1 DEF ReplyInv, Replied
    <3>5. \A d \in Conversations : \A i \in DOMAIN transcript'[d] : transcript'[d][i].run # run'[q]
      BY <2>1, <3>1, <3>3, <3>4
    <3> QED
      BY <3>5 DEF Replied
  <2>6. ASSUME NEW r \in Runs, r > created' \/ tasks'[r] > 0 PROVE ~Replied(r)'
    <3>1. ~Replied(r)
      BY <1>2, <2>6 DEF Says, ReplyInv
    <3>2. m.run # r
      BY <1>1, <1>2, <2>4, <2>6 DEF Says, Runs
    <3> QED
      BY <2>1, <3>1, <3>2
  <2>7. ASSUME NEW d \in Conversations, NEW e \in Conversations, NEW i \in DOMAIN transcript'[d],
               NEW j \in DOMAIN transcript'[e], transcript'[d][i].run = transcript'[e][j].run,
               transcript'[d][i].run # 0
        PROVE  d = e /\ i = j
    <3>1. CASE m.run = 0
      BY <2>1, <2>7, <3>1 DEF ReplyInv
    <3>2. CASE m.run # 0
      <4>1. \A x \in Conversations : \A k \in DOMAIN transcript[x] : transcript[x][k].run # m.run
        BY <2>4, <3>2 DEF Replied
      <4> QED
        BY <2>1, <2>7, <4>1 DEF ReplyInv
    <3> QED
      BY <3>1, <3>2
  <2> QED
    BY <2>5, <2>6, <2>7 DEF ReplyInv
<1>3. CASE Crash
  <2>1. \A q \in Procs : pc'[q] \in MayReply => pc[q] \in MayReply /\ run'[q] = run[q]
    BY <1>3, HoldingMembers DEF Crash, Same, Dead
  <2>2. \A q \in Procs : pc'[q] \in MayReply => run'[q] \in Runs /\ ~Replied(run'[q])
    BY <1>1, <2>1, ActorRun, HoldingMembers DEF ReplyInv
  <2> QED
    BY <1>1, <1>3, <2>2, ReplyFrame DEF Crash, Quiet
<1>4. ASSUME NEW p \in Procs, StepOf(p),
             \A c \in Conversations, m \in Message : ~Says(p, c, m)
      PROVE  ReplyInv'
  BY <1>4, ReplyKinds
<1> QED
  BY <1>1, <1>2, <1>3, <1>4, StepKinds

\* Nobody holds a run at first, and no transcript has a reply.
LEMMA HolderInitially ==
    ASSUME Init
    PROVE  OneHolder /\ ReplyInv
<1>1. \A p \in Procs : pc[p] \in {"idle", "ready"}
  BY DEF Init
<1>2. \A c \in Conversations : DOMAIN transcript[c] = {}
  BY DEF Init
<1>3. \A r \in Runs : ~Replied(r)
  BY <1>2 DEF Replied
<1> QED
  BY <1>1, <1>2, <1>3, HoldingMembers DEF OneHolder, ReplyInv

\* Neither is undone by stuttering.
LEMMA HolderStutter ==
    ASSUME OneHolder, ReplyInv, UNCHANGED vars
    PROVE  OneHolder' /\ ReplyInv'
  BY DEF vars, table, OneHolder, ReplyInv, Replied

Held == IInv /\ OneHolder /\ ReplyInv

\* A run is held by one process or task, and has replied in at most one place, in every
\* reachable state of an instance in which a publish that raises has published nothing.
LEMMA HeldInvariant ==
    ASSUME "delivered" \notin PublishFaults
    PROVE  (Init => Held) /\ (Held /\ [Next]_vars => Held')
<1>1. Init => Held
  BY Initially, HolderInitially DEF Held
<1>2. ASSUME Held, Next PROVE Held'
  BY <1>2, Inductive, HolderStep, ReplyStep DEF Held
<1>3. ASSUME Held, UNCHANGED vars PROVE Held'
  BY <1>3, Stutter, HolderStutter DEF Held
<1> QED
  BY <1>1, <1>2, <1>3

\* A run puts at most one reply in the transcripts, whatever the crashes, cancellations
\* and disconnections, where a publish that raises has published nothing: then nobody
\* but the one holder of a run answers it or says that it failed.
THEOREM OneReply ==
    ASSUME "delivered" \notin PublishFaults
    PROVE  Spec => []OneReplyPerRun
<1>1. Held => OneReplyPerRun
  BY DEF Held, ReplyInv, OneReplyPerRun
<1> QED
  BY <1>1, HeldInvariant, PTL DEF Spec

(***************************************************************************)
(* The log replays to the status of the record.                            *)
(***************************************************************************)

\* What an append does to the last status event.
LEMMA AppendLast ==
    ASSUME TypeOK, NEW r \in Runs, NEW e \in EventTypes, AppendEvent(r, e)
    PROVE  /\ e \in StatusEvents => LastIn(r, {e})'
           /\ \A S : e \notin StatusEvents /\ LastIn(r, S) => LastIn(r, S)'
           /\ \A q \in Runs : q # r => log'[q] = log[q]
<1>1. log'[r] = Append(log[r], e) /\ log[r] \in Seq(EventTypes)
      /\ \A q \in Runs : q # r => log'[q] = log[q]
  BY DEF TypeOK, AppendEvent
<1>2. Len(log'[r]) = Len(log[r]) + 1 /\ log'[r][Len(log[r]) + 1] = e
      /\ \A i \in 1 .. Len(log[r]) : log'[r][i] = log[r][i]
  BY <1>1
<1>3. DOMAIN log[r] = 1 .. Len(log[r]) /\ DOMAIN log'[r] = 1 .. Len(log'[r])
      /\ Len(log[r]) \in Nat
  BY <1>1
<1>4. /\ Len(log[r]) + 1 \in DOMAIN log'[r]
      /\ \A j \in DOMAIN log'[r] : ~(j > Len(log[r]) + 1)
      /\ \A i \in DOMAIN log[r] : i \in DOMAIN log'[r] /\ log'[r][i] = log[r][i]
      /\ \A i \in DOMAIN log'[r] : i \in DOMAIN log[r] \/ i = Len(log[r]) + 1
  BY <1>2, <1>3
<1>5. e \in StatusEvents => LastIn(r, {e})'
  BY <1>2, <1>4 DEF LastIn
<1>6. ASSUME NEW S, e \notin StatusEvents, LastIn(r, S) PROVE LastIn(r, S)'
  <2>1. PICK i \in DOMAIN log[r] :
          log[r][i] \in S /\ \A j \in DOMAIN log[r] : j > i => log[r][j] \notin StatusEvents
    BY <1>6 DEF LastIn
  <2>2. \A j \in DOMAIN log'[r] : j > i => log'[r][j] \notin StatusEvents
    BY <1>2, <1>4, <1>6, <2>1
  <2> QED
    BY <1>4, <2>1, <2>2 DEF LastIn
<1> QED
  BY <1>1, <1>5, <1>6

RunOK(r) ==
    \/ runs[r].status = "absent" \/ Logged(r, "cancelled")
    \/ \E p \in Procs : run[p] = r /\ pc[p] \in Saving
    \/ LastIn(r, EventsOf(runs[r].status))

\* ReplayGivesStatus, run by run.
LEMMA ReplayByRun == ReplayGivesStatus <=> \A r \in Runs : RunOK(r)
  BY DEF ReplayGivesStatus, RunOK, LastIn

\* The events of each status.
LEMMA EventsOfValues ==
    /\ EventsOf("queued") = {"queued", "enqueued"}
    /\ EventsOf("running") = {"running"} /\ EventsOf("completed") = {"completed"}
    /\ EventsOf("failed") = {"error"}
    /\ {"queued", "enqueued", "running", "completed", "error", "cancelled"} = StatusEvents
  BY StatusEventValues DEF EventsOf, StatusEvents

\* Who saves a status it has just logged holds its run.
LEMMA SavingHolds == Saving \subseteq Holding
  BY HoldingMembers DEF Saving

CancelOK(p) == pc[p] = "cancel_save" => Logged(run[p], "cancelled")
HoldOK(p)   == pc[p] \in Holding /\ ~Logged(run[p], "cancelled") => HolderInv(p)

\* A process the step does not touch, and neither its run's row nor its log.
LEMMA HoldFrame ==
    ASSUME NEW q \in Procs, Same(q), HoldOK(q), CancelOK(q),
           runs'[run[q]] = runs[run[q]], log'[run[q]] = log[run[q]]
    PROVE  HoldOK(q)' /\ CancelOK(q)'
  BY DEF Same, HoldOK, CancelOK, HolderInv, LastIn, Logged

\* The same where the run's cancellation is logged.
LEMMA HoldExcused ==
    ASSUME NEW q \in Procs, Logged(run[q], "cancelled")'
    PROVE  HoldOK(q)' /\ CancelOK(q)'
  BY DEF HoldOK, CancelOK

\* A run whose row and log the step leaves alone, and nobody who was to save it moved.
LEMMA RunFrame ==
    ASSUME NEW r \in Runs, RunOK(r), runs'[r] = runs[r], log'[r] = log[r],
           \A q \in Procs : run[q] = r /\ pc[q] \in Saving
                              => pc'[q] = pc[q] /\ run'[q] = run[q]
    PROVE  RunOK(r)'
<1>1. LastIn(r, EventsOf(runs[r].status)) => LastIn(r, EventsOf(runs[r].status))'
  BY DEF LastIn
<1>2. Logged(r, "cancelled") => Logged(r, "cancelled")'
  BY DEF Logged
<1> QED
  BY <1>1, <1>2 DEF RunOK

\* A step that leaves rows and logs alone.
LEMMA ReplaySilent ==
    ASSUME Whole, ReplayInv, ReplayGivesStatus, NEW p \in Procs, StepOf(p),
           \/ Enters(p) \/ Leaves(p) \/ Hops(p) \/ Loads(p) \/ Publishes(p)
           \/ \E c \in Conversations, m \in Message : Says(p, c, m)
           \/ \E r \in Runs : Takes(p, r)
    PROVE  ReplayInv' /\ ReplayGivesStatus'
<1>1. UNCHANGED <<runs, log>>
  BY DEF Quiet, Enters, Leaves, Hops, Loads, Publishes, Says, Takes
<1>2. pc[p] \notin Saving /\ pc'[p] \notin Saving \cup {"cancel_save"}
  BY DEF Saving, Enters, Leaves, Gone, Hops, Loads, Publishes, Says, Takes, Hop, Load, Moves
<1>3. \A q \in Procs : q # p => Same(q)
  BY DEF StepOf, OthersSame
<1>4. \A q \in Procs : HoldOK(q) /\ CancelOK(q)
  BY DEF ReplayInv, HoldOK, CancelOK
<1>5. \A r \in Runs : RunOK(r)'
  <2>1. ASSUME NEW r \in Runs PROVE RunOK(r)'
    BY <1>1, <1>2, <1>3, ReplayByRun, RunFrame DEF Same
  <2> QED
    BY <2>1
<1>6. HoldOK(p)'
  <2>1. CASE Enters(p) \/ Leaves(p) \/ Hops(p) \/ Publishes(p) \/ \E r \in Runs : Takes(p, r)
    BY <2>1, HoldingMembers
    DEF HoldOK, HolderInv, Enters, Leaves, Gone, Hops, Publishes, Takes, Hop, Moves
  <2>2. CASE Loads(p)
    <3>1. CASE pc[p] \in {"mark_get", "succ_get"}
      <4>1. /\ run'[p] = run[p] /\ copy'[p].status = runs[run[p]].status
            /\ pc[p] = "mark_get" => pc'[p] = "mark_log"
            /\ pc[p] = "succ_get" => pc'[p] = "summary_log"
        BY <2>2, <3>1 DEF Loads, Load, Moves
      <4>2. pc[p] \in Holding
        BY <3>1, HoldingMembers
      <4>3. ~Logged(run[p], "cancelled") /\ pc[p] = "mark_get" => runs[run[p]].status = "queued"
        BY <1>4, <4>2 DEF HoldOK, HolderInv
      <4> QED
        BY <1>1, <3>1, <4>1, <4>3 DEF HoldOK, HolderInv, Logged
    <3>2. CASE pc[p] \notin {"mark_get", "succ_get"}
      BY <2>2, <3>2, HoldingMembers DEF Loads, Load, Moves, HoldOK, HolderInv
    <3> QED
      BY <3>1, <3>2
  <2>3. ASSUME NEW c \in Conversations, NEW m \in Message, Says(p, c, m) PROVE HoldOK(p)'
    <3>1. CASE pc[p] = "succ_message"
      <4>1. run'[p] = run[p] /\ copy'[p] = copy[p] /\ pc'[p] = "succ_message_log"
        BY <2>3, <3>1 DEF Says, Hop, Moves
      <4>2. ~Logged(run[p], "cancelled") => copy[p].status = runs[run[p]].status
        BY <1>4, <3>1, HoldingMembers DEF HoldOK, HolderInv
      <4> QED
        BY <1>1, <4>1, <4>2 DEF HoldOK, HolderInv, Logged
    <3>2. CASE pc[p] # "succ_message"
      BY <2>3, <3>2, HoldingMembers DEF Says, Hop, Moves, HoldOK, HolderInv
    <3> QED
      BY <3>1, <3>2
  <2> QED
    BY <2>1, <2>2, <2>3
<1>7. \A q \in Procs : HoldOK(q)' /\ CancelOK(q)'
  <2>1. ASSUME NEW q \in Procs PROVE HoldOK(q)' /\ CancelOK(q)'
    <3>1. CASE q = p
      BY <1>2, <1>6, <3>1 DEF CancelOK
    <3>2. CASE q # p
      BY <1>1, <1>3, <1>4, <3>2, HoldFrame
    <3> QED
      BY <3>1, <3>2
  <2> QED
    BY <2>1
<1> QED
  BY <1>5, <1>7, ReplayByRun DEF ReplayInv, HoldOK, CancelOK, RunOK, ReplayGivesStatus, LastIn

\* The holder of a run appends an event, or a cancellation is logged.
LEMMA ReplayLogs ==
    ASSUME Held, ReplayInv, ReplayGivesStatus, NEW p \in Procs, StepOf(p),
           NEW e \in EventTypes, Logs(p, e), NEW R \in Runs, R = run[p]
    PROVE  ReplayInv' /\ ReplayGivesStatus'
<1>1. Whole /\ R \in Runs /\ run'[p] = R /\ AppendEvent(R, e) /\ UNCHANGED runs
  BY Split, WriterRun DEF Held, Logs
<1>2. /\ e \in StatusEvents => LastIn(R, {e})'
      /\ \A S : e \notin StatusEvents /\ LastIn(R, S) => LastIn(R, S)'
      /\ \A q \in Runs : q # R => log'[q] = log[q]
  <2> QED
    BY <1>1, AppendLast DEF Whole
<1>3. \A q \in Runs, x \in EventTypes : Logged(q, x)' <=> Logged(q, x) \/ (q = R /\ x = e)
  <2> QED
    BY <1>1, AppendLogged DEF Whole
<1>4. \A q \in Procs : HoldOK(q) /\ CancelOK(q)
  BY DEF ReplayInv, HoldOK, CancelOK
<1>5. \A q \in Procs : q # p => Same(q)
  BY DEF StepOf, OthersSame
<1>6. \A q \in Procs : pc[q] \in Holding \cup {"cancel_save"} => run[q] \in Runs
  BY <1>1, ActorRun, HoldingMembers, RunPcMembers
<1>7. CASE e = "cancelled" \/ Logged(R, "cancelled")
  <2>1. Logged(R, "cancelled")'
    BY <1>1, <1>3, <1>7, EventMembers
  <2>2. ASSUME NEW q \in Procs PROVE HoldOK(q)' /\ CancelOK(q)'
    <3>1. CASE run'[q] = R
      BY <2>1, <3>1 DEF HoldOK, CancelOK, Logged
    <3>2. CASE run'[q] # R
      <4>1. Same(q) /\ run[q] # R
        BY <1>1, <1>5, <3>2 DEF Same
      <4>2. CASE run[q] \in Runs
        BY <1>1, <1>2, <1>4, <4>1, <4>2, HoldFrame
      <4>3. CASE run[q] \notin Runs
        BY <1>6, <4>1, <4>3 DEF Same, HoldOK, CancelOK
      <4> QED
        BY <4>2, <4>3
    <3> QED
      BY <3>1, <3>2
  <2>3. ASSUME NEW r \in Runs PROVE RunOK(r)'
    <3>1. CASE r = R
      BY <2>1, <3>1 DEF RunOK, Logged
    <3>2. CASE r # R
      <4>1. \A q \in Procs : run[q] = r => q # p /\ pc'[q] = pc[q] /\ run'[q] = run[q]
        BY <1>5, <3>2 DEF Same
      <4> QED
        BY <1>1, <1>2, <3>2, <4>1, ReplayByRun, RunFrame
    <3> QED
      BY <3>1, <3>2
  <2> QED
    BY <2>2, <2>3 DEF ReplayInv, HoldOK, CancelOK, RunOK, ReplayGivesStatus, LastIn
<1>8. CASE e # "cancelled" /\ ~Logged(R, "cancelled")
  <2>1. pc[p] \in Holding /\ pc'[p] \in Holding /\ HolderInv(p) /\ Kept(p)
    BY <1>4, <1>8, HoldingMembers, Split DEF Logs, Hop, Load, Moves, HoldOK, Held, Copies
  <2>2. \A q \in Procs : q # p /\ pc[q] \in Holding => run[q] # R
    BY <2>1 DEF Held, OneHolder
  <2>3. HolderInv(p)'
    <3>1. CASE e \in {"queued", "enqueued", "progress", "summary", "message"}
      <4>1. /\ e = "queued" => pc'[p] = "mark_get" /\ pc[p] = "start_log"
            /\ e = "enqueued" => pc'[p] = "mark_save" /\ pc[p] = "mark_log"
            /\ e = "progress" => pc'[p] = "runner"
            /\ e = "summary" => pc'[p] = "summary_save" /\ pc[p] = "summary_log"
            /\ e = "message" => pc'[p] = "succ_log" /\ pc[p] = "succ_message_log"
            /\ copy'[p].status = copy[p].status
        BY <1>8, <3>1 DEF Logs, Hop, Load, Moves
      <4> QED
        BY <1>1, <2>1, <3>1, <4>1 DEF HolderInv
    <3>2. CASE e \in {"running", "completed", "error"}
      <4>1. /\ e = "running" => /\ pc'[p] = "begin_save" /\ pc[p] = "begin_log"
                                /\ copy'[p] = copy[p]
            /\ e = "completed" => pc'[p] = "succ_save" /\ copy'[p].status = "completed"
            /\ e = "error" => /\ pc'[p] = "fail_save" /\ pc[p] = "fail_log"
                              /\ copy'[p] = copy[p]
        BY <1>8, <3>2 DEF Logs, Hop, Load, Moves
      <4>2. /\ e = "running" => copy'[p].status = "running"
            /\ e = "error" => copy'[p].status = "failed"
        BY <2>1, <4>1 DEF Kept, CopyStatusOK
      <4>3. LastIn(run[p], {e})'
        BY <1>1, <1>2, <3>2, EventsOfValues DEF LastIn
      <4> QED
        BY <1>1, <3>2, <4>1, <4>2, <4>3 DEF HolderInv, LastIn
    <3> QED
      BY <1>8, <3>1, <3>2 DEF Logs
  <2>4. RunOK(R)'
    <3>1. CASE e \in {"queued", "enqueued"}
      <4>1. runs'[R].status = "queued"
        BY <1>1, <2>1, <3>1 DEF Logs, Hop, Moves, HolderInv
      <4>2. LastIn(R, {e})'
        BY <1>2, <3>1, EventsOfValues
      <4> QED
        BY <3>1, <4>1, <4>2, EventsOfValues DEF RunOK, LastIn
    <3>2. CASE e \in {"running", "completed", "error"}
      <4>1. pc'[p] \in Saving
        BY <3>2 DEF Logs, Hop, Load, Moves, Saving
      <4> QED
        BY <1>1, <4>1 DEF RunOK
    <3>3. CASE e \in {"progress", "summary", "message"}
      <4>1. pc[p] \notin Saving
        BY <3>3 DEF Logs, Hop, Load, Moves, Saving
      <4>2. \A q \in Procs : ~(run[q] = R /\ pc[q] \in Saving)
        BY <2>2, <4>1, SavingHolds
      <4>3. runs[R].status = "absent" \/ LastIn(R, EventsOf(runs[R].status))
        BY <1>1, <1>8, <4>2, ReplayByRun DEF RunOK
      <4>4. e \notin StatusEvents
        BY <3>3 DEF StatusEvents
      <4>5. runs[R].status = "absent" \/ LastIn(R, EventsOf(runs[R].status))'
        BY <1>1, <1>2, <4>3, <4>4 DEF LastIn
      <4> QED
        BY <1>1, <4>5 DEF RunOK
    <3> QED
      BY <1>8, <3>1, <3>2, <3>3 DEF Logs
  <2>5. ASSUME NEW q \in Procs PROVE HoldOK(q)' /\ CancelOK(q)'
    <3>1. CASE q = p
      BY <2>1, <2>3, <3>1, HoldingMembers DEF HoldOK, CancelOK
    <3>2. CASE q # p /\ run[q] # R /\ run[q] \in Runs
      BY <1>1, <1>2, <1>4, <1>5, <3>2, HoldFrame
    <3>3. CASE q # p /\ run[q] \notin Runs
      BY <1>5, <1>6, <3>3 DEF Same, HoldOK, CancelOK
    <3>4. CASE q # p /\ run[q] = R
      <4>1. pc[q] \notin Holding /\ Same(q)
        BY <1>5, <2>2, <3>4
      <4>2. pc[q] # "cancel_save"
        BY <1>4, <1>8, <3>4 DEF CancelOK
      <4> QED
        BY <4>1, <4>2 DEF Same, HoldOK, CancelOK
    <3> QED
      BY <3>1, <3>2, <3>3, <3>4
  <2>6. ASSUME NEW r \in Runs PROVE RunOK(r)'
    <3>1. CASE r = R
      BY <2>4, <3>1 DEF RunOK, Logged, LastIn
    <3>2. CASE r # R
      <4>1. \A q \in Procs : run[q] = r => q # p /\ pc'[q] = pc[q] /\ run'[q] = run[q]
        BY <1>5, <3>2 DEF Same
      <4> QED
        BY <1>1, <1>2, <3>2, <4>1, ReplayByRun, RunFrame
    <3> QED
      BY <3>1, <3>2
  <2> QED
    BY <2>5, <2>6 DEF ReplayInv, HoldOK, CancelOK, RunOK, ReplayGivesStatus, LastIn
<1> QED
  BY <1>7, <1>8

\* A copy is saved by the holder of its run, with the status last logged, or by a
\* cancellation.
LEMMA ReplaySaves ==
    ASSUME Held, ReplayInv, ReplayGivesStatus, NEW p \in Procs, StepOf(p), Saves(p),
           NEW R \in Runs, R = run[p]
    PROVE  ReplayInv' /\ ReplayGivesStatus'
<1>1. Whole /\ R \in Runs /\ run'[p] = R /\ UNCHANGED log /\ copy'[p].status = copy[p].status
  BY Split, WriterRun DEF Held, Saves
<1>2. runs'[R] = copy[p] /\ \A r \in Runs : r # R => runs'[r] = runs[r]
  BY <1>1, SavedRows
<1>3. \A q \in Procs : HoldOK(q) /\ CancelOK(q)
  BY DEF ReplayInv, HoldOK, CancelOK
<1>4. \A q \in Procs : q # p => Same(q)
  BY DEF StepOf, OthersSame
<1>5. \A q \in Procs : pc[q] \in Holding \cup {"cancel_save"} => run[q] \in Runs
  BY <1>1, ActorRun, HoldingMembers, RunPcMembers
<1>6. pc'[p] \notin Saving \cup {"cancel_save"}
  BY DEF Saves, Moves, Saving
<1>7. ASSUME NEW r \in Runs, r # R PROVE RunOK(r)'
  <2>1. \A q \in Procs : run[q] = r => q # p /\ pc'[q] = pc[q] /\ run'[q] = run[q]
    BY <1>4, <1>7 DEF Same
  <2> QED
    BY <1>1, <1>2, <1>7, <2>1, ReplayByRun, RunFrame
<1>8. ASSUME NEW q \in Procs, q # p, run[q] # R PROVE HoldOK(q)' /\ CancelOK(q)'
  <2>1. CASE run[q] \in Runs
    BY <1>1, <1>2, <1>3, <1>4, <1>8, <2>1, HoldFrame
  <2>2. CASE run[q] \notin Runs
    BY <1>4, <1>5, <1>8, <2>2 DEF Same, HoldOK, CancelOK
  <2> QED
    BY <2>1, <2>2
<1>9. CASE Logged(R, "cancelled")
  <2>1. Logged(R, "cancelled")' /\ \A q \in Procs : run'[q] = R => HoldOK(q)' /\ CancelOK(q)'
    BY <1>1, <1>9 DEF Logged, HoldOK, CancelOK
  <2>2. RunOK(R)'
    BY <2>1 DEF RunOK
  <2>3. \A q \in Procs : HoldOK(q)' /\ CancelOK(q)'
    BY <1>1, <1>4, <1>8, <2>1 DEF Same
  <2>4. \A r \in Runs : RunOK(r)'
    BY <1>7, <2>2 DEF RunOK, Logged, LastIn
  <2> QED
    BY <2>3, <2>4 DEF ReplayInv, HoldOK, CancelOK, RunOK, ReplayGivesStatus, LastIn
<1>10. CASE ~Logged(R, "cancelled")
  <2>1. pc[p] \in Holding /\ HolderInv(p)
    BY <1>3, <1>10, HoldingMembers DEF Saves, Moves, HoldOK, CancelOK
  <2>2. \A q \in Procs : q # p /\ pc[q] \in Holding => run[q] # R
    BY <2>1 DEF Held, OneHolder
  <2>3. HoldOK(p)'
    BY <1>1, <1>2, HoldingMembers DEF Saves, Moves, HoldOK, HolderInv
  <2>4. RunOK(R)'
    <3>1. CASE pc[p] \in {"mark_save", "summary_save"}
      <4>1. copy[p].status = runs[R].status
        BY <2>1, <3>1 DEF HolderInv
      <4>2. \A q \in Procs : ~(run[q] = R /\ pc[q] \in Saving)
        BY <2>2, <3>1, SavingHolds DEF Saving
      <4>3. runs[R].status = "absent" \/ LastIn(R, EventsOf(runs[R].status))
        BY <1>1, <1>10, <4>2, ReplayByRun DEF RunOK
      <4>4. runs'[R].status = runs[R].status
        BY <1>2, <4>1
      <4>5. runs'[R].status = "absent" \/ LastIn(R, EventsOf(runs[R].status))'
        BY <1>1, <4>3, <4>4 DEF LastIn
      <4> QED
        BY <4>4, <4>5 DEF RunOK
    <3>2. CASE pc[p] \in {"begin_save", "succ_save", "fail_save"}
      <4>1. LastIn(R, EventsOf(copy[p].status))
        BY <2>1, <3>2, EventsOfValues DEF HolderInv
      <4> QED
        BY <1>1, <1>2, <4>1 DEF RunOK, LastIn
    <3> QED
      BY <2>1, <3>1, <3>2, HoldingMembers DEF Saves, Moves
  <2>5. ASSUME NEW q \in Procs, q # p, run[q] = R PROVE HoldOK(q)' /\ CancelOK(q)'
    BY <1>3, <1>4, <1>10, <2>2, <2>5 DEF Same, HoldOK, CancelOK
  <2>6. \A q \in Procs : HoldOK(q)' /\ CancelOK(q)'
    BY <1>6, <1>8, <2>3, <2>5 DEF CancelOK
  <2>7. \A r \in Runs : RunOK(r)'
    BY <1>7, <2>4 DEF RunOK, Logged, LastIn
  <2> QED
    BY <2>6, <2>7 DEF ReplayInv, HoldOK, CancelOK, RunOK, ReplayGivesStatus, LastIn
<1> QED
  BY <1>9, <1>10

\* A created run is queued, and about to be logged so.
LEMMA ReplayCreates ==
    ASSUME Whole, ReplayInv, ReplayGivesStatus, NEW p \in Procs, StepOf(p), Creates(p)
    PROVE  ReplayInv' /\ ReplayGivesStatus'
<1> DEFINE R == created + 1
<1>1. R \in Runs /\ run'[p] = R /\ pc'[p] = "start_log" /\ UNCHANGED log
      /\ runs'[R].status = "queued" /\ \A r \in Runs : r # R => runs'[r] = runs[r]
  BY DEF Creates
<1>2. \A q \in Procs : q # p => Same(q)
  BY DEF StepOf, OthersSame
<1>3. \A q \in Procs : HoldOK(q) /\ CancelOK(q)
  BY DEF ReplayInv, HoldOK, CancelOK
<1>4. \A q \in Procs : run[q] # R /\ (pc[q] \in Holding \cup {"cancel_save"} => run[q] \in Runs)
  BY ActorRun, HoldingMembers, RunPcMembers DEF Whole, LocalInv, LocalOK, TypeOK
<1>5. HoldOK(p)' /\ CancelOK(p)'
  BY <1>1 DEF HoldOK, CancelOK, HolderInv
<1>6. ASSUME NEW q \in Procs, q # p PROVE HoldOK(q)' /\ CancelOK(q)'
  <2>1. CASE run[q] \in Runs
    BY <1>1, <1>2, <1>3, <1>4, <1>6, <2>1, HoldFrame
  <2>2. CASE run[q] \notin Runs
    BY <1>2, <1>4, <1>6, <2>2 DEF Same, HoldOK, CancelOK
  <2> QED
    BY <2>1, <2>2
<1>7. ASSUME NEW r \in Runs PROVE RunOK(r)'
  <2>1. CASE r = R
    <3>1. "start_log" \in Saving
      BY DEF Saving
    <3> QED
      BY <1>1, <2>1, <3>1 DEF RunOK
  <2>2. CASE r # R
    <3>1. \A q \in Procs : run[q] = r /\ pc[q] \in Saving => pc'[q] = pc[q] /\ run'[q] = run[q]
      BY <1>2 DEF Same, Creates, Saving
    <3> HIDE DEF R
    <3> QED
      BY <1>1, <2>2, <3>1, ReplayByRun, RunFrame
  <2> QED
    BY <2>1, <2>2
<1> QED
  BY <1>5, <1>6, <1>7 DEF ReplayInv, HoldOK, CancelOK, RunOK, ReplayGivesStatus, LastIn

\* Every step of an instance without crashes keeps the log replayable.
LEMMA ReplayStep ==
    ASSUME Held, ReplayInv, ReplayGivesStatus, Next, MaxCrashes = 0
    PROVE  ReplayInv' /\ ReplayGivesStatus'
<1>1. Whole /\ ~Crash
  BY Split DEF Held, Crash, Whole, TypeOK
<1>2. PICK p \in Procs : StepOf(p)
  BY <1>1, StepKinds
<1>3. CASE (\E e \in EventTypes : Logs(p, e)) \/ Saves(p)
  <2>1. run[p] \in Runs
    BY <1>1, <1>3, WriterRun
  <2> QED
    BY <1>2, <1>3, <2>1, ReplayLogs, ReplaySaves
<1>4. CASE ~((\E e \in EventTypes : Logs(p, e)) \/ Saves(p))
  BY <1>1, <1>2, <1>4, ReplaySilent, ReplayCreates DEF StepOf
<1> QED
  BY <1>3, <1>4

\* A client that replays the log of a run ends with the status of its record, unless a
\* handler is just saving it or a cancellation was logged: in every instance in which no
\* process crashes and a publish that raises has published nothing.
THEOREM LogReplays ==
    ASSUME MaxCrashes = 0, "delivered" \notin PublishFaults
    PROVE  Spec => []ReplayGivesStatus
<1>1. Init => ReplayInv /\ ReplayGivesStatus
  <2>1. ASSUME Init
        PROVE  /\ \A p \in Procs : pc[p] \in {"idle", "ready"}
               /\ \A r \in Runs : runs[r].status = "absent"
    BY <2>1, NoRunType DEF Init
  <2> QED
    BY <2>1, HoldingMembers DEF ReplayInv, ReplayGivesStatus
<1>2. ASSUME ReplayInv, ReplayGivesStatus, UNCHANGED vars
      PROVE  ReplayInv' /\ ReplayGivesStatus'
  BY <1>2 DEF vars, ReplayInv, HolderInv, LastIn, Logged, ReplayGivesStatus
<1>3. Held /\ ReplayInv /\ ReplayGivesStatus /\ [Next]_vars => (ReplayInv /\ ReplayGivesStatus)'
  BY <1>2, ReplayStep
<1> QED
  BY <1>1, <1>3, HeldInvariant, PTL DEF Spec

(***************************************************************************)
(* A serial client that never cancels.                                     *)
(***************************************************************************)
RowOK(p) ==
    /\ pc[p] \in Before => runs[run[p]].status = "queued"
    /\ pc[p] \in After => runs[run[p]].status = "running"
    /\ pc[p] \in Holding => IsActive(run[p])
    /\ pc[p] \notin {"cancel_get", "cancel_log", "cancel_save"}

CopyOK(p) ==
    /\ pc[p] \in {"mark_log", "mark_save"} => copy[p].status = "queued"
    /\ pc[p] \in {"begin_log", "begin_save", "summary_log", "summary_save", "succ_message",
                   "succ_message_log", "succ_log"} => copy[p].status = "running"
    /\ pc[p] = "succ_save" => copy[p].status = "completed"
    /\ pc[p] \in {"fail_message", "fail_log", "fail_save"} => copy[p].status = "failed"
    /\ pc[p] \in {"fail_log", "fail_save"} => Replied(run[p])

TasksOK == \A r \in Runs : tasks[r] > 0 => runs[r].status = "queued"

\* The two invariants, process by process.
LEMMA RowByProcess ==
    RowInv /\ CopyInv <=> TasksOK /\ \A p \in Procs : RowOK(p) /\ CopyOK(p)
  BY DEF RowInv, CopyInv, RowOK, CopyOK, TasksOK

\* The control points before and after a run begins.
LEMMA BeforeAfterMembers ==
    /\ Before = {"start_log", "mark_get", "mark_log", "mark_save", "publish",
                 "exec_get", "exec_setup", "begin_get", "begin_log", "begin_save"}
    /\ Before \subseteq Holding /\ After \subseteq Holding
  BY HoldingMembers DEF Before, After, MayStart

\* No step takes a reply out of the transcripts.
LEMMA RepliesStay ==
    ASSUME TypeOK, Crash \/ \E p \in Procs : StepOf(p)
    PROVE  \A r \in Runs : Replied(r) => Replied(r)'
<1>1. CASE UNCHANGED transcript
  BY <1>1 DEF Replied
<1>2. ASSUME NEW p \in Procs, NEW c \in Conversations, NEW m \in Message, Says(p, c, m)
      PROVE  \A r \in Runs : Replied(r) => Replied(r)'
  BY <1>2, AppendReply DEF Says
<1> QED
  BY <1>1, <1>2 DEF StepOf, Crash, Quiet, Enters, Leaves, Hops, Loads, Logs, Saves, Creates,
     Publishes, Takes

\* A process the step does not touch, nor the row of its run.
LEMMA RowFrame ==
    ASSUME NEW q \in Procs, Same(q), RowOK(q), CopyOK(q),
           pc[q] \in Holding => run[q] \in Runs /\ runs'[run[q]] = runs[run[q]],
           \A r \in Runs : Replied(r) => Replied(r)'
    PROVE  RowOK(q)' /\ CopyOK(q)'
<1>1. pc'[q] = pc[q] /\ run'[q] = run[q] /\ copy'[q] = copy[q]
  BY DEF Same
<1>2. pc[q] \in {"fail_log", "fail_save"} => Replied(run[q])'
  <2>1. ASSUME NEW r \in Runs, r = run[q], Replied(r)' PROVE Replied(run[q])'
    BY <1>1, <2>1 DEF Replied
  <2>2. pc[q] \in {"fail_log", "fail_save"} => run[q] \in Runs /\ Replied(run[q])
    BY HoldingMembers DEF CopyOK
  <2> QED
    BY <2>1, <2>2
<1>3. RowOK(q)'
  BY <1>1, BeforeAfterMembers DEF RowOK, IsActive
<1>4. CopyOK(q)'
  BY <1>1, <1>2 DEF CopyOK, Replied
<1> QED
  BY <1>3, <1>4

\* The process of the step, which moves without a write to the table.
LEMMA RowMoves ==
    ASSUME Held, CancelRequests = {}, StopRequests = {}, NEW p \in Procs, RowOK(p), CopyOK(p),
           TasksOK,
           \/ Enters(p) \/ Leaves(p) \/ Hops(p) \/ Loads(p) \/ Publishes(p)
           \/ \E r \in Runs : Takes(p, r)
    PROVE  RowOK(p)' /\ CopyOK(p)'
<1>1. UNCHANGED <<runs, transcript>>
  BY DEF Quiet, Enters, Leaves, Hops, Loads, Publishes, Takes
<1>3. CASE Enters(p) \/ Leaves(p)
  BY <1>3, BeforeAfterMembers, HoldingMembers
  DEF Enters, Leaves, Gone, RowOK, CopyOK, After
<1>4. CASE Hops(p) \/ Publishes(p)
  BY <1>1, <1>4, BeforeAfterMembers, HoldingMembers
  DEF Hops, Publishes, Gone, Hop, Moves, RowOK, CopyOK, After, IsActive, ActiveStatuses
<1>5. CASE \E r \in Runs : Takes(p, r)
  BY <1>1, <1>5, BeforeAfterMembers, HoldingMembers
  DEF Takes, TasksOK, RowOK, CopyOK, After, IsActive, ActiveStatuses
<1>6. CASE Loads(p)
  <2>1. RowOK(p)'
    BY <1>1, <1>6, BeforeAfterMembers, HoldingMembers
    DEF Loads, Load, Moves, RowOK, After, IsActive
  <2>2. pc'[p] = "fail_log" => Replied(run[p])' /\ run'[p] = run[p]
    <3>1. pc'[p] = "fail_log" => runs[run[p]].reply # "none" /\ run[p] \in Runs
      BY <1>6, Split, ActorRun, HoldingMembers DEF Held, Loads, Load, Moves
    <3>2. ASSUME NEW r \in Runs, runs[r].reply # "none" PROVE Replied(r)
      <4>1. Said(runs[r].conversation, runs[r].reply, r) /\ runs[r].conversation \in Conversations
        BY <3>2, Split DEF Held, Truth, ReplyInTranscript
      <4> QED
        BY <4>1 DEF Said, Replied
    <3> QED
      BY <1>1, <1>6, <3>1, <3>2 DEF Replied, Loads, Load, Moves
  <2>3. CopyOK(p)'
    BY <1>1, <1>6, <2>2, BeforeAfterMembers
    DEF Loads, Load, Moves, RowOK, CopyOK, After, Replied
  <2> QED
    BY <2>1, <2>3
<1> QED
  BY <1>3, <1>4, <1>5, <1>6

\* The process of the step, which appends an event or a message, saves or creates.
LEMMA RowWrites ==
    ASSUME Held, NEW p \in Procs, RowOK(p), CopyOK(p),
           \A r \in Runs : Replied(r) => Replied(r)',
           \/ \E e \in EventTypes : Logs(p, e)
           \/ \E c \in Conversations, m \in Message : Says(p, c, m)
           \/ Saves(p) \/ Creates(p)
    PROVE  RowOK(p)' /\ CopyOK(p)'
<1>1. Whole /\ TypeOK
  BY Split DEF Held, Whole
<1>2. ASSUME NEW e \in EventTypes, Logs(p, e) PROVE RowOK(p)' /\ CopyOK(p)'
  <2>1. UNCHANGED <<runs, transcript>> /\ run'[p] = run[p]
    BY <1>2 DEF Logs, Hop, Load, Moves
  <2>2. RowOK(p)'
    BY <1>2, <2>1, BeforeAfterMembers, HoldingMembers
    DEF Logs, Hop, Load, Moves, RowOK, After, IsActive
  <2>3. CopyOK(p)'
    BY <1>2, <2>1 DEF Logs, Hop, Load, Moves, RowOK, CopyOK, Replied
  <2> QED
    BY <2>2, <2>3
<1>3. ASSUME NEW c \in Conversations, NEW m \in Message, Says(p, c, m)
      PROVE  RowOK(p)' /\ CopyOK(p)'
  <2>1. UNCHANGED runs /\ run'[p] = run[p] /\ copy'[p] = copy[p]
    BY <1>3 DEF Says, Hop, Moves
  <2>2. RowOK(p)'
    BY <1>3, <2>1, BeforeAfterMembers, HoldingMembers
    DEF Says, Hop, Moves, RowOK, After, IsActive
  <2>3. pc'[p] = "fail_log" => Replied(run[p])'
    <3>1. pc'[p] = "fail_log" => m.run = run[p] /\ run[p] \in Runs
      BY <1>1, <1>3, ActorRun, HoldingMembers DEF Says, Hop, Moves
    <3>2. ASSUME NEW r \in Runs, r = run[p], m.run = r PROVE Replied(run[p])'
      <4>1. Replied(r)'
        BY <1>1, <1>3, <3>2, AppendReply DEF Says
      <4> QED
        BY <2>1, <3>2, <4>1 DEF Replied
    <3> QED
      BY <3>1, <3>2
  <2>4. CopyOK(p)'
    BY <1>3, <2>1, <2>3 DEF Says, Hop, Moves, CopyOK, Replied
  <2> QED
    BY <2>2, <2>4
<1>4. CASE Saves(p)
  <2>1. run[p] \in Runs /\ run'[p] = run[p] /\ runs'[run[p]] = copy[p] /\ UNCHANGED transcript
        /\ copy'[p].status = copy[p].status
    BY <1>1, <1>4, WriterRun, SavedRows DEF Saves
  <2>2. RowOK(p)'
    BY <1>4, <2>1, BeforeAfterMembers, HoldingMembers
    DEF Saves, Moves, RowOK, CopyOK, After, IsActive, ActiveStatuses
  <2>3. CopyOK(p)'
    BY <1>4, <2>1 DEF Saves, Moves, CopyOK
  <2> QED
    BY <2>2, <2>3
<1>5. CASE Creates(p)
  <2>1. run'[p] = created + 1 /\ runs'[created + 1].status = "queued" /\ pc'[p] = "start_log"
    BY <1>5 DEF Creates
  <2> QED
    BY <2>1, BeforeAfterMembers, HoldingMembers
    DEF RowOK, CopyOK, After, IsActive, ActiveStatuses
<1> QED
  BY <1>2, <1>3, <1>4, <1>5

\* Every step of an instance without cancellations keeps both.
LEMMA RowStep ==
    ASSUME Held, RowInv, CopyInv, Next, CancelRequests = {}, StopRequests = {}
    PROVE  RowInv' /\ CopyInv'
<1>1. Whole /\ TypeOK /\ TasksOK /\ \A q \in Procs : RowOK(q) /\ CopyOK(q)
  BY Split, RowByProcess DEF Held, Whole
<1>2. Crash \/ \E p \in Procs : StepOf(p)
  BY <1>1, StepKinds
<1>3. \A r \in Runs : Replied(r) => Replied(r)'
  BY <1>1, <1>2, RepliesStay
<1>4. \A q \in Procs : pc[q] \in Holding => run[q] \in Runs /\ run[q] <= created
  BY <1>1, ActorRun, HoldingMembers
<1>5. CASE Crash
  <2>1. UNCHANGED <<runs, tasks>>
    BY <1>5 DEF Crash, Quiet
  <2>2. ASSUME NEW q \in Procs PROVE RowOK(q)' /\ CopyOK(q)'
    <3>1. CASE Same(q)
      BY <1>1, <1>3, <1>4, <2>1, <3>1, RowFrame
    <3>2. CASE Dead(q)
      BY <3>2, BeforeAfterMembers, HoldingMembers DEF Dead, RowOK, CopyOK, After
    <3> QED
      BY <1>5, <3>1, <3>2 DEF Crash
  <2>3. TasksOK'
    BY <1>1, <2>1 DEF TasksOK
  <2> QED
    BY <2>2, <2>3, RowByProcess DEF RowInv, CopyInv, RowOK, CopyOK, TasksOK
<1>6. ASSUME NEW p \in Procs, StepOf(p) PROVE RowInv' /\ CopyInv'
  <2>1. RowOK(p)' /\ CopyOK(p)'
    BY <1>1, <1>3, <1>6, RowMoves, RowWrites DEF StepOf
  <2>2. \A r \in Runs : runs'[r] # runs[r] =>
          \/ Saves(p) /\ r = run[p] /\ pc[p] \in Holding
          \/ Creates(p) /\ r = created + 1
    <3>1. CASE Saves(p)
      BY <1>1, <3>1, SavedRows, HoldingMembers DEF Saves, Moves, RowOK
    <3>2. CASE Creates(p)
      BY <3>2 DEF Creates
    <3>3. CASE ~Saves(p) /\ ~Creates(p)
      BY <1>6, <3>3
      DEF StepOf, Quiet, Enters, Leaves, Hops, Loads, Logs, Publishes, Says, Takes
    <3> QED
      BY <3>1, <3>2, <3>3
  <2>3. ASSUME NEW q \in Procs, q # p PROVE RowOK(q)' /\ CopyOK(q)'
    <3>1. pc[q] \in Holding => runs'[run[q]] = runs[run[q]]
      <4>1. pc[q] \in Holding => run[q] # created + 1
        BY <1>1, <1>4 DEF TypeOK
      <4>2. pc[q] \in Holding /\ pc[p] \in Holding => run[q] # run[p]
        BY <2>3 DEF Held, OneHolder
      <4> QED
        BY <1>4, <2>2, <4>1, <4>2
    <3> QED
      BY <1>1, <1>3, <1>4, <1>6, <2>3, <3>1, RowFrame DEF StepOf, OthersSame
  <2>4. TasksOK'
    <3>1. CASE Publishes(p)
      <4>1. /\ UNCHANGED runs /\ pc[p] \in Before
            /\ \A r \in Runs : tasks'[r] > 0 => tasks[r] > 0 \/ r = run[p]
        BY <1>1, <3>1, BeforeAfterMembers DEF Publishes, TypeOK
      <4> QED
        BY <1>1, <4>1 DEF TasksOK, RowOK
    <3>2. ASSUME NEW r \in Runs, Takes(p, r) PROVE TasksOK'
      <4>1. UNCHANGED runs /\ \A x \in Runs : tasks'[x] > 0 => tasks[x] > 0
        BY <1>1, <3>2 DEF Takes, TypeOK
      <4> QED
        BY <1>1, <4>1 DEF TasksOK
    <3>3. CASE ~Publishes(p) /\ \A r \in Runs : ~Takes(p, r)
      <4>1. UNCHANGED tasks
        BY <1>6, <3>3
        DEF StepOf, Quiet, Enters, Leaves, Hops, Loads, Logs, Saves, Creates, Says
      <4>2. \A r \in Runs : tasks[r] > 0 => runs'[r] = runs[r]
        <5>1. pc[p] \in Holding => tasks[run[p]] = 0
          BY DEF Held, OneHolder
        <5>2. created + 1 \in Runs => tasks[created + 1] = 0
          BY <1>1 DEF Whole, TableInv, TypeOK
        <5> QED
          BY <2>2, <5>1, <5>2
      <4> QED
        BY <1>1, <4>1, <4>2 DEF TasksOK
    <3> QED
      BY <3>1, <3>2, <3>3
  <2>5. \A q \in Procs : RowOK(q)' /\ CopyOK(q)'
    BY <2>1, <2>3
  <2> QED
    BY <2>4, <2>5 DEF RowInv, CopyInv, RowOK, CopyOK, TasksOK
<1> QED
  BY <1>2, <1>5, <1>6

\* Without a creation no run becomes active, and none changes its conversation.
LEMMA ActiveStay ==
    ASSUME Held, RowInv, NEW p \in Procs, StepOf(p), ~Creates(p)
    PROVE  \A r \in Runs : IsActive(r)' => IsActive(r)
                              /\ runs'[r].conversation = runs[r].conversation
<1>1. CASE Saves(p)
  <2>1. /\ run[p] \in Runs /\ run[p] # 0 /\ pc[p] \in RunPcs
        /\ \A r \in Runs : runs'[r] = IF r = run[p] THEN copy[p] ELSE runs[r]
    BY <1>1, Split, WriterRun, SavedRows DEF Held
  <2>2. IsActive(run[p])
    BY <1>1, HoldingMembers DEF Saves, Moves, RowInv
  <2>3. copy[p].conversation = runs[run[p]].conversation
    <3>1. pc[p] \in CopyPcs
      BY <1>1, CopyPcMembers DEF Saves, Moves, CopyPcs
    <3>2. LocalOK(p)
      BY Split DEF Held, Whole, LocalInv
    <3> QED
      BY <3>1, <3>2 DEF LocalOK
  <2> QED
    BY <2>1, <2>2, <2>3 DEF IsActive
<1>2. CASE ~Saves(p)
  <2>1. UNCHANGED runs
    BY <1>2 DEF StepOf, Quiet, Enters, Leaves, Hops, Loads, Logs, Publishes, Says, Takes
  <2> QED
    BY <2>1 DEF IsActive
<1> QED
  BY <1>1, <1>2

StartOK(p) ==
    pc[p] \in {"start_message", "start_status", "start_create"}
      => p \in StartRequests /\ ~HasActiveRun(target[p])

\* A process about to create a run, after a step that makes none active.
LEMMA StartFrame ==
    ASSUME NEW q \in Procs, StartOK(q), pc'[q] = pc[q], target'[q] = target[q],
           \A r \in Runs : IsActive(r)' => IsActive(r)
                              /\ runs'[r].conversation = runs[r].conversation
    PROVE  StartOK(q)'
  BY DEF StartOK, HasActiveRun, IsActive

\* Nobody else starts a run while one client request does, so the search for an active
\* run still holds when the run is created.
LEMMA StartStep ==
    ASSUME Held, RowInv, StartInv, OneActiveRun, Next, SerialClient'
    PROVE  StartInv' /\ OneActiveRun'
<1>1. Whole /\ \A q \in Procs : StartOK(q)
  BY Split DEF Held, StartInv, StartOK
<1>2. CASE Crash
  <2>1. UNCHANGED runs
    BY <1>2 DEF Crash, Quiet
  <2>2. \A r \in Runs : IsActive(r)' => IsActive(r) /\ runs'[r].conversation = runs[r].conversation
    BY <2>1 DEF IsActive
  <2>3. ASSUME NEW q \in Procs PROVE StartOK(q)'
    <3>1. CASE Same(q)
      BY <1>1, <2>2, <3>1, StartFrame DEF Same
    <3>2. CASE Dead(q)
      BY <3>2 DEF Dead, StartOK
    <3> QED
      BY <1>2, <3>1, <3>2 DEF Crash
  <2>4. OneActiveRun'
    BY <2>1 DEF OneActiveRun, IsActive
  <2> QED
    BY <2>3, <2>4 DEF StartInv, StartOK
<1>3. ASSUME NEW p \in Procs, StepOf(p), ~Creates(p) PROVE StartInv' /\ OneActiveRun'
  <2>1. \A r \in Runs : IsActive(r)' => IsActive(r) /\ runs'[r].conversation = runs[r].conversation
    BY <1>3, ActiveStay
  <2>2. OneActiveRun'
    BY <2>1 DEF OneActiveRun
  <2>3. ASSUME NEW q \in Procs PROVE StartOK(q)'
    <3>1. CASE pc'[q] = pc[q] /\ target'[q] = target[q]
      BY <1>1, <2>1, <3>1, StartFrame
    <3>2. CASE ~(pc'[q] = pc[q] /\ target'[q] = target[q])
      <4>1. q = p
        BY <1>3, <3>2 DEF StepOf, OthersSame, Same
      <4>2. CASE Enters(p) /\ p \in StartRequests
        BY <4>1, <4>2 DEF Enters, Quiet, StartOK, HasActiveRun, IsActive
      <4>3. CASE (Hops(p) \/ \E c \in Conversations, m \in Message : Says(p, c, m))
                 /\ pc'[p] \in {"start_message", "start_status", "start_create"}
        <5>1. /\ pc[p] \in {"start_message", "start_status", "start_create"}
              /\ target'[p] = target[p]
          BY <4>3 DEF Hops, Says, Hop, Moves
        <5>2. p \in StartRequests /\ ~HasActiveRun(target[p])
          BY <1>1, <5>1 DEF StartOK
        <5> QED
          BY <2>1, <4>1, <5>1, <5>2 DEF StartOK, HasActiveRun, IsActive
      <4>4. CASE pc'[p] \notin {"start_message", "start_status", "start_create"}
        BY <4>1, <4>4 DEF StartOK
      <4> QED
        BY <1>3, <4>2, <4>3, <4>4
        DEF StepOf, Enters, Leaves, Gone, Loads, Logs, Saves, Publishes, Takes, Hop, Load, Moves
    <3> QED
      BY <3>1, <3>2
  <2> QED
    BY <2>2, <2>3 DEF StartInv, StartOK
<1>4. ASSUME NEW p \in Procs, StepOf(p), Creates(p) PROVE StartInv' /\ OneActiveRun'
  <2>1. /\ p \in StartRequests /\ ~HasActiveRun(target[p])
        /\ pc'[p] = "start_log" /\ InProgress(p)'
    BY <1>1, <1>4 DEF Creates, StartOK, InProgress
  <2>2. /\ created + 1 \in Runs /\ runs'[created + 1].conversation = target[p]
        /\ \A r \in Runs : r # created + 1 => runs'[r] = runs[r]
    BY <1>4 DEF Creates
  <2>3. OneActiveRun'
    BY <2>1, <2>2 DEF OneActiveRun, HasActiveRun, IsActive
  <2>4. ASSUME NEW q \in Procs PROVE StartOK(q)'
    <3>1. CASE q = p
      BY <2>1, <3>1 DEF StartOK
    <3>2. CASE q # p
      <4>1. pc'[q] = pc[q]
        BY <1>4, <3>2 DEF StepOf, OthersSame, Same
      <4>2. pc[q] \in {"start_message", "start_status", "start_create"}
              => q \in StartRequests /\ InProgress(q)'
        BY <1>1, <4>1 DEF StartOK, InProgress
      <4>3. pc[q] \notin {"start_message", "start_status", "start_create"}
        BY <2>1, <3>2, <4>2 DEF SerialClient
      <4> QED
        BY <4>1, <4>3 DEF StartOK
    <3> QED
      BY <3>1, <3>2
  <2> QED
    BY <2>3, <2>4 DEF StartInv, StartOK
<1> QED
  BY <1>1, <1>2, <1>3, <1>4, StepKinds

Serial == Held /\ RowInv /\ CopyInv /\ StartInv /\ OneActiveRun

\* The invariant of a serial client that never cancels, where a publish that raises has
\* published nothing; processes may crash.
LEMMA SerialInvariant ==
    ASSUME CancelRequests = {}, StopRequests = {}, "delivered" \notin PublishFaults
    PROVE  (Init => Serial) /\ (Serial /\ [Next /\ SerialClient']_vars => Serial')
<1>1. ASSUME Init PROVE Serial
  <2>1. /\ \A p \in Procs : pc[p] \in {"idle", "ready"}
        /\ \A r \in Runs : tasks[r] = 0 /\ runs[r].status = "absent"
    BY <1>1, NoRunType DEF Init
  <2>2. RowInv /\ CopyInv /\ StartInv /\ OneActiveRun
    BY <2>1, BeforeAfterMembers, HoldingMembers
    DEF RowInv, After, CopyInv, StartInv, OneActiveRun, IsActive, ActiveStatuses
  <2> QED
    BY <1>1, <2>2, HeldInvariant DEF Serial
<1>2. ASSUME Serial, Next, SerialClient' PROVE Serial'
  BY <1>2, HeldInvariant, RowStep, StartStep DEF Serial
<1>3. ASSUME Serial, UNCHANGED vars PROVE Serial'
  <2>1. Held'
    BY <1>3, HeldInvariant DEF Serial
  <2>2. (RowInv /\ CopyInv /\ StartInv /\ OneActiveRun)'
    BY <1>3 DEF Serial, vars, table, RowInv, CopyInv, Replied, StartInv, HasActiveRun,
       OneActiveRun, IsActive
  <2> QED
    BY <2>1, <2>2 DEF Serial
<1> QED
  BY <1>1, <1>2, <1>3

\* A conversation has at most one queued or running run for a client that starts runs one
\* at a time and does not cancel, though the search for an active run and the creation
\* of the run are separate transactions, and whatever crashes in between.
THEOREM OneActive ==
    ASSUME CancelRequests = {}, StopRequests = {}, "delivered" \notin PublishFaults
    PROVE  SerialSpec => []OneActiveRun
<1>1. Serial => OneActiveRun
  BY DEF Serial
<1> QED
  BY <1>1, SerialInvariant, PTL DEF SerialSpec

(***************************************************************************)
(* What RunPromise says, kept.                                             *)
(***************************************************************************)

\* The transcripts have one reply of a run that has replied.
LEMMA CountReplies ==
    ReplyInv => \A r \in Runs : Cardinality(RepliesOf(r)) = IF Replied(r) THEN 1 ELSE 0
<1>1. ASSUME ReplyInv, NEW r \in Runs
      PROVE  Cardinality(RepliesOf(r)) = IF Replied(r) THEN 1 ELSE 0
  <2>1. \A x : x \in RepliesOf(r) <=>
                 \E c \in Conversations : \E i \in DOMAIN transcript[c] :
                   transcript[c][i].run = r /\ x = <<c, i>>
    BY DEF RepliesOf
  <2>2. CASE ~Replied(r)
    <3>1. RepliesOf(r) = {}
      BY <2>1, <2>2 DEF Replied
    <3> QED
      BY <2>2, <3>1, FS_EmptySet
  <2>3. CASE Replied(r)
    <3>0. PICK c \in Conversations : \E i \in DOMAIN transcript[c] : transcript[c][i].run = r
      BY <2>3 DEF Replied
    <3>1. PICK i \in DOMAIN transcript[c] : transcript[c][i].run = r
      BY <3>0
    <3>2. r # 0
      BY DEF Runs
    <3>3. \A d \in Conversations : \A j \in DOMAIN transcript[d] :
            transcript[d][j].run = r => d = c /\ j = i
      BY <1>1, <3>1, <3>2 DEF ReplyInv
    <3>4. RepliesOf(r) = {<<c, i>>}
      BY <2>1, <3>1, <3>3
    <3> QED
      BY <2>3, <3>4, FS_Singleton
  <2> QED
    BY <2>2, <2>3
<1> QED
  BY <1>1

\* The same after a step.
LEMMA CountRepliesNext ==
    ReplyInv' => \A r \in Runs : Cardinality(RepliesOf(r))' = IF Replied(r)' THEN 1 ELSE 0
<1>1. (ReplyInv => \A r \in Runs : Cardinality(RepliesOf(r)) = IF Replied(r) THEN 1 ELSE 0)'
  BY CountReplies, PTL
<1> QED
  BY <1>1

\* The reply counts of the promise, in this state and in the next.
Count(r) == IF Replied(r) THEN 1 ELSE 0

\* A step that shows nothing to the clients.
LEMMA ShowsNothing ==
    ASSUME ReplyInv, ReplyInv',
           \A r \in Runs : /\ runs'[r].status = runs[r].status
                           /\ runs'[r].conversation = runs[r].conversation
                           /\ Replied(r)' <=> Replied(r)
    PROVE  UNCHANGED Promise!promise
<1>1. \A r \in Runs : Cardinality(RepliesOf(r))' = Cardinality(RepliesOf(r))
  BY CountReplies, CountRepliesNext
<1> QED
  BY <1>1 DEF Promise!promise

\* A step that changes the status of one run.
LEMMA ShowsStatus ==
    ASSUME ReplyInv, ReplyInv', NEW r \in Runs, NEW s, runs'[r].status = s,
           \A q \in Runs : /\ q # r => runs'[q].status = runs[q].status
                           /\ runs'[q].conversation = runs[q].conversation
                           /\ Replied(q)' <=> Replied(q)
    PROVE  /\ [q \in Runs |-> runs'[q].status]
                = [[q \in Runs |-> runs[q].status] EXCEPT ![r] = s]
           /\ [q \in Runs |-> runs'[q].conversation] = [q \in Runs |-> runs[q].conversation]
           /\ [q \in Runs |-> Cardinality(RepliesOf(q))]'
                = [q \in Runs |-> Cardinality(RepliesOf(q))]
<1>1. \A q \in Runs : Cardinality(RepliesOf(q))' = Cardinality(RepliesOf(q))
  BY CountReplies, CountRepliesNext
<1> QED
  BY <1>1

\* Every step is one of the promise, or shows nothing.
LEMMA PromiseStep ==
    ASSUME Serial, Serial', Next
    PROVE  Promise!Next \/ UNCHANGED Promise!promise
<1>1. Whole /\ TypeOK /\ ReplyInv /\ ReplyInv' /\ OneHolder
  BY Split DEF Serial, Held, Whole
<1>2. ASSUME UNCHANGED <<runs, transcript>> PROVE UNCHANGED Promise!promise
  BY <1>1, <1>2, ShowsNothing DEF Replied
<1>3. ASSUME NEW p \in Procs, Creates(p) PROVE Promise!Next
  <2>1. PICK r \in Runs, c \in Conversations :
          /\ r = created + 1 /\ c = target[p] /\ runs[r] = NoRun
          /\ runs'[r].status = "queued" /\ runs'[r].conversation = c
          /\ \A q \in Runs : q # r => runs'[q] = runs[q]
          /\ UNCHANGED transcript
    BY <1>3 DEF Creates
  <2>2. \A q \in Runs : Cardinality(RepliesOf(q))' = Cardinality(RepliesOf(q))
    BY <2>1 DEF RepliesOf
  <2>3. \A q \in Runs : runs[q].status \in ActiveStatuses => runs[q].conversation # c
    BY <1>3, <2>1 DEF Serial, StartInv, Creates, HasActiveRun, IsActive
  <2>4. Promise!Queue(r, c)
    <3>1. runs[r].status = "absent"
      BY <2>1 DEF NoRun
    <3>2. [q \in Runs |-> runs'[q].status]
            = [[q \in Runs |-> runs[q].status] EXCEPT ![r] = "queued"]
      BY <2>1
    <3>3. [q \in Runs |-> runs'[q].conversation]
            = [[q \in Runs |-> runs[q].conversation] EXCEPT ![r] = c]
      BY <2>1
    <3> QED
      BY <2>2, <2>3, <3>1, <3>2, <3>3 DEF Promise!Queue, Promise!Active, ActiveStatuses
  <2> QED
    BY <2>4 DEF Promise!Next
<1>4. ASSUME NEW p \in Procs, NEW c \in Conversations, NEW m \in Message, Says(p, c, m)
      PROVE  Promise!Next \/ UNCHANGED Promise!promise
  <2>1. UNCHANGED runs /\ \A r \in Runs : Replied(r)' <=> Replied(r) \/ m.run = r
    BY <1>1, <1>4, AppendReply DEF Says
  <2>2. CASE m.run = 0
    <3>1. \A r \in Runs : m.run # r
      BY <2>2 DEF Runs
    <3> QED
      BY <1>1, <2>1, <3>1, ShowsNothing
  <2>3. CASE m.run # 0
    <3>1. m.run = run[p] /\ pc[p] \in {"succ_message", "fail_message"}
      BY <1>4, <2>3 DEF Says, Hop, Moves
    <3>2. PICK r \in Runs : r = m.run
      BY <1>1, <3>1, ActorRun, HoldingMembers
    <3>3. IsActive(r) /\ ~Replied(r)
      BY <3>1, <3>2, HoldingMembers DEF Serial, RowInv, Held, ReplyInv
    <3>4. /\ Cardinality(RepliesOf(r)) = 0
          /\ \A q \in Runs : Cardinality(RepliesOf(q))'
                              = IF q = r THEN 1 ELSE Cardinality(RepliesOf(q))
      BY <1>1, <2>1, <3>2, <3>3, CountReplies, CountRepliesNext
    <3>5. [q \in Runs |-> Cardinality(RepliesOf(q))]'
            = [[q \in Runs |-> Cardinality(RepliesOf(q))] EXCEPT ![r] = 1]
      BY <3>4
    <3>6. Promise!Reply(r)
      BY <2>1, <3>3, <3>4, <3>5 DEF Promise!Reply, Promise!Active, IsActive, ActiveStatuses
    <3> QED
      BY <3>6 DEF Promise!Next
  <2> QED
    BY <2>2, <2>3
<1>5. ASSUME NEW p \in Procs, Saves(p) PROVE Promise!Next \/ UNCHANGED Promise!promise
  <2>1. PICK r \in Runs : /\ r = run[p] /\ r # 0 /\ runs'[r] = copy[p] /\ UNCHANGED transcript
                          /\ \A q \in Runs : q # r => runs'[q] = runs[q]
    BY <1>1, <1>5, WriterRun, SavedRows DEF Saves
  <2>2. \A q \in Runs : Replied(q)' <=> Replied(q)
    BY <2>1 DEF Replied
  <2>3. runs'[r].conversation = runs[r].conversation
    <3>1. pc[p] \in CopyPcs
      BY <1>5, CopyPcMembers DEF Saves, Moves, CopyPcs
    <3>2. LocalOK(p)
      BY <1>1 DEF Whole, LocalInv
    <3> QED
      BY <2>1, <3>1, <3>2 DEF LocalOK
  <2>4. \A q \in Runs : /\ q # r => runs'[q].status = runs[q].status
                        /\ runs'[q].conversation = runs[q].conversation
    BY <2>1, <2>3
  <2>5. RowOK(p) /\ CopyOK(p)
    BY RowByProcess DEF Serial
  <2>6. CASE pc[p] \in {"mark_save", "summary_save"}
    <3>1. runs'[r].status = runs[r].status
      BY <2>1, <2>5, <2>6, BeforeAfterMembers DEF RowOK, CopyOK, After
    <3> QED
      BY <1>1, <2>2, <2>4, <3>1, ShowsNothing
  <2>7. CASE pc[p] = "begin_save"
    <3>1. runs[r].status = "queued" /\ runs'[r].status = "running"
      BY <2>1, <2>5, <2>7, BeforeAfterMembers DEF RowOK, CopyOK
    <3>2. Promise!Begin(r)
      BY <1>1, <2>2, <2>4, <3>1, ShowsStatus DEF Promise!Begin
    <3> QED
      BY <3>2 DEF Promise!Next
  <2>8. CASE pc[p] = "succ_save"
    <3>1. runs[r].status = "running" /\ runs'[r].status = "completed"
      BY <2>1, <2>5, <2>8 DEF RowOK, CopyOK, After
    <3>2. Promise!Complete(r)
      BY <1>1, <2>2, <2>4, <3>1, ShowsStatus DEF Promise!Complete
    <3> QED
      BY <3>2 DEF Promise!Next
  <2>9. CASE pc[p] = "fail_save"
    <3>1. IsActive(r) /\ runs'[r].status = "failed" /\ Replied(r)
      BY <2>1, <2>5, <2>9, HoldingMembers DEF RowOK, CopyOK
    <3>2. Cardinality(RepliesOf(r)) = 1
      BY <1>1, <3>1, CountReplies
    <3>3. Promise!Fail(r)
      BY <1>1, <2>2, <2>4, <3>1, <3>2, ShowsStatus
      DEF Promise!Fail, Promise!Active, IsActive, ActiveStatuses
    <3> QED
      BY <3>3 DEF Promise!Next
  <2> QED
    BY <1>5, <2>5, <2>6, <2>7, <2>8, <2>9 DEF Saves, Moves, RowOK
<1>6. CASE Crash
  BY <1>2, <1>6 DEF Crash, Quiet
<1>7. ASSUME NEW p \in Procs, StepOf(p) PROVE Promise!Next \/ UNCHANGED Promise!promise
  BY <1>2, <1>3, <1>4, <1>5, <1>7
  DEF StepOf, Quiet, Enters, Leaves, Hops, Loads, Logs, Publishes, Takes
<1> QED
  BY <1>1, <1>6, <1>7, StepKinds

\* The handlers, the queue and the executors implement RunPromise for a client that
\* starts runs one at a time and does not cancel, through crashes, disconnections, the
\* deletion of the conversation and publishes that raise: one active run per conversation,
\* at most one reply, before the run settles, a failure never without one, and no status
\* taken back.
THEOREM PromiseImplemented ==
    ASSUME CancelRequests = {}, StopRequests = {}, "delivered" \notin PublishFaults
    PROVE  SerialSpec => PromiseKept
<1>1. ASSUME Init PROVE Promise!Init
  <2>1. \A r \in Runs : runs[r].status = "absent" /\ runs[r].conversation = NoConversation
    BY <1>1 DEF Init, NoRun
  <2>2. ReplyInv /\ \A r \in Runs : ~Replied(r)
    BY <1>1, HolderInitially DEF Init, Replied
  <2>3. \A r \in Runs : Cardinality(RepliesOf(r)) = 0
    BY <2>2, CountReplies
  <2> QED
    BY <2>1, <2>3 DEF Promise!Init
<1>2. ASSUME UNCHANGED vars PROVE UNCHANGED Promise!promise
  BY <1>2 DEF vars, table, Promise!promise, RepliesOf
<1>3. Serial /\ Serial' /\ [Next /\ SerialClient']_vars
        => Promise!Next \/ UNCHANGED Promise!promise
  BY <1>2, PromiseStep
<1> QED
  BY <1>1, <1>3, SerialInvariant, PTL DEF SerialSpec, PromiseKept, Promise!Spec
=============================================================================
