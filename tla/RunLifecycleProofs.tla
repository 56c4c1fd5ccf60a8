------------------------- MODULE RunLifecycleProofs -------------------------
(***************************************************************************)
(* Proofs about RunLifecycle, for every value of its constants: IInv is an *)
(* inductive invariant, and with it TypeOK, StatusIsLogged,                *)
(* ReplyInTranscript and StartedAtMostOnce hold in every reachable state.  *)
(*                                                                         *)
(* The proof has three parts, each one lemma per shape of step (log, save, *)
(* message, hop, leave, load a copy) and one case per action: types and    *)
(* locals (TypeStep, LocalStep); records and copies explained by log and   *)
(* transcripts (TruthStep); the right to start a run (TokenStep).          *)
(***************************************************************************)
EXTENDS RunLifecycle, TLAPS

(***************************************************************************)
(* Types.                                                                  *)
(***************************************************************************)

\* Every control point is a value of pc.
LEMMA PcMembers ==
    {"ready", "idle", "done", "start_message", "start_status", "start_create",
     "raised", "start_log", "mark_get", "mark_log", "mark_save", "publish",
     "exec_get", "exec_setup", "begin_get", "begin_log", "begin_save", "runner",
     "succ_get", "summary_log", "summary_save", "succ_message", "succ_message_log",
     "succ_log", "succ_save", "fail_get", "fail_message", "fail_log", "fail_save",
     "cancel_get", "cancel_log", "cancel_save", "release"} \subseteq PcValues
  BY DEF PcValues

\* Every event the handlers append is an event type.
LEMMA EventMembers ==
    {"queued", "enqueued", "running", "progress", "summary", "message",
     "completed", "error", "cancelled"} \subseteq EventTypes
  BY DEF EventTypes

\* Replacing a field of a run record gives a run record with that field.
LEMMA NoRunType ==
    /\ NoRun \in RunRecord
    /\ NoRun.status = "absent" /\ NoRun.reply = "none" /\ NoRun.summaries = 0
    /\ NoRun.conversation = NoConversation
  BY DEF NoRun, RunRecord

\* Replacing the status of a run record.
LEMMA WithStatus ==
    ASSUME NEW rec \in RunRecord, NEW s \in RunStatuses
    PROVE  LET new == [rec EXCEPT !.status = s]
           IN  /\ new \in RunRecord
               /\ new.status = s /\ new.reply = rec.reply
               /\ new.conversation = rec.conversation
  BY DEF RunRecord

\* Replacing the reply of a run record.
LEMMA WithReply ==
    ASSUME NEW rec \in RunRecord, NEW x \in {"none", "answer", "failure"}
    PROVE  LET new == [rec EXCEPT !.reply = x]
           IN  /\ new \in RunRecord
               /\ new.status = rec.status /\ new.reply = x
               /\ new.conversation = rec.conversation
  BY DEF RunRecord

\* Counting one more summary in a run record.
LEMMA WithSummary ==
    ASSUME NEW rec \in RunRecord
    PROVE  LET new == [rec EXCEPT !.summaries = @ + 1]
           IN  /\ new \in RunRecord
               /\ new.status = rec.status /\ new.reply = rec.reply
               /\ new.conversation = rec.conversation
  BY DEF RunRecord

\* The types of a run record's fields.
LEMMA RecordTypes ==
    ASSUME NEW rec \in RunRecord
    PROVE  /\ rec.status \in RunStatuses \cup {"absent"}
           /\ rec.reply \in {"none", "answer", "failure"}
           /\ rec.conversation \in Conversations \cup {NoConversation}
           /\ rec.summaries \in Nat
  BY DEF RunRecord

\* The processes and the runs of an instance.
LEMMA Constants == Procs = Requests \cup Workers /\ Runs = 1 .. MaxRuns /\ MaxRuns \in Nat
  BY ConstantsAssumption DEF Procs, Runs

\* A process at a control point past the creation has a run that exists.
LEMMA HasRun ==
    ASSUME TypeOK, LocalInv, NEW p \in Procs, run[p] # 0
    PROVE  run[p] \in Runs /\ run[p] <= created
  BY DEF TypeOK, LocalInv, LocalOK

\* The control points that have a run, one by one.
LEMMA RunPcMembers ==
    /\ {"start_log", "mark_get", "mark_log", "mark_save", "publish",
        "exec_get", "exec_setup", "begin_get", "begin_log", "begin_save", "runner",
        "succ_get", "summary_log", "summary_save", "succ_message", "succ_message_log",
        "succ_log", "succ_save", "fail_get", "fail_message", "fail_log", "fail_save",
        "cancel_get", "cancel_log", "cancel_save", "release"} \subseteq RunPcs
    /\ {"ready", "idle", "done", "start_message", "start_status", "start_create", "raised"}
         \cap RunPcs = {}
  BY DEF RunPcs, PcValues

\* A process that ends keeps the types of the locals.
LEMMA ReturnType ==
    ASSUME TypeOK, NEW p \in Procs, Return(p)
    PROVE  /\ pc' \in [Procs -> PcValues]
           /\ run' \in [Procs -> Runs \cup {0}]
           /\ target' \in [Procs -> Conversations \cup {NoConversation}]
           /\ copy' \in [Procs -> RunRecord]
  BY PcMembers, NoRunType DEF TypeOK, Return, Goto

\* A jump to a control point keeps the type of pc.
LEMMA GotoType ==
    ASSUME TypeOK, NEW p \in Procs, NEW l \in PcValues, Goto(p, l)
    PROVE  pc' \in [Procs -> PcValues]
  BY DEF TypeOK, Goto

\* A new copy that is a run record keeps the type of copy.
LEMMA KeepType ==
    ASSUME TypeOK, NEW p \in Procs, NEW rec \in RunRecord, Keep(p, rec)
    PROVE  copy' \in [Procs -> RunRecord]
  BY DEF TypeOK, Keep

\* An append of an event type keeps the type of the log.
LEMMA AppendType ==
    ASSUME TypeOK, NEW r \in Runs, NEW e \in EventTypes, AppendEvent(r, e)
    PROVE  log' \in [Runs -> Seq(EventTypes)]
  BY DEF TypeOK, AppendEvent

\* A save of a copy keeps the type of the table of runs.
LEMMA SaveType ==
    ASSUME TypeOK, NEW p \in Procs, run[p] \in Runs, Save(p)
    PROVE  runs' \in [Runs -> RunRecord]
  BY DEF TypeOK, Save

\* Appending an event and moving on keeps all types.
LEMMA LogStepType ==
    ASSUME TypeOK, NEW p \in Procs, run[p] \in Runs, NEW at, NEW e \in EventTypes,
           NEW l \in PcValues, LogStep(p, at, e, l)
    PROVE  TypeOK'
  BY GotoType, AppendType DEF LogStep, TypeOK, LocalsKept, table

\* Saving the copy and moving on keeps all types.
LEMMA SaveStepType ==
    ASSUME TypeOK, NEW p \in Procs, run[p] \in Runs, NEW at, NEW l \in PcValues,
           SaveStep(p, at, l)
    PROVE  TypeOK'
  BY GotoType, SaveType DEF SaveStep, TypeOK, LocalsKept, table

\* Appending a message, or ending with 404, keeps all types.
LEMMA MessageStepType ==
    ASSUME TypeOK, NEW p \in Procs, NEW at, NEW c \in Conversations, NEW m \in Message,
           NEW l \in PcValues, MessageStep(p, at, c, m, l)
    PROVE  TypeOK'
<1>1. transcript' \in [Conversations -> Seq(Message)]
  <2>1. CASE c \in deleted
    BY <2>1 DEF MessageStep, TypeOK
  <2>2. CASE c \notin deleted
    <3>1. transcript' = [transcript EXCEPT ![c] = Append(@, m)]
      BY <2>2 DEF MessageStep
    <3>2. Append(transcript[c], m) \in Seq(Message)
      BY DEF TypeOK
    <3> QED
      BY <3>1, <3>2 DEF TypeOK
  <2> QED
    BY <2>1, <2>2
<1>2. /\ pc' \in [Procs -> PcValues]
      /\ run' \in [Procs -> Runs \cup {0}]
      /\ target' \in [Procs -> Conversations \cup {NoConversation}]
      /\ copy' \in [Procs -> RunRecord]
  BY GotoType, ReturnType DEF MessageStep, LocalsKept, TypeOK
<1> QED
  BY <1>1, <1>2 DEF MessageStep, TypeOK

\* What a process has at hand at its control point.
LEMMA AtHand ==
    ASSUME TypeOK, LocalInv, TableInv, NEW p \in Procs
    PROVE  /\ copy[p] \in RunRecord
           /\ run[p] # 0 => /\ run[p] \in Runs /\ run[p] <= created
                            /\ runs[run[p]] \in RunRecord
                            /\ runs[run[p]].status # "absent"
                            /\ runs[run[p]].conversation \in Conversations
           /\ pc[p] \in RunPcs => run[p] # 0
           /\ copy[p].status # "absent" => copy[p].conversation \in Conversations
           /\ pc[p] \in CopyPcs => copy[p].status # "absent"
           /\ pc[p] \in {"start_message", "start_status", "start_create"}
                => target[p] \in Conversations
<1>1. LocalOK(p) /\ copy[p] \in RunRecord /\ run[p] \in Runs \cup {0}
  BY DEF TypeOK, LocalInv
<1>2. run[p] # 0 => /\ run[p] \in Runs /\ run[p] <= created
                    /\ runs[run[p]] \in RunRecord
                    /\ runs[run[p]].status # "absent"
                    /\ runs[run[p]].conversation \in Conversations
  BY <1>1 DEF TypeOK, TableInv, LocalOK
<1> QED
  BY <1>1, <1>2 DEF LocalOK

\* The control points that have a copy, one by one.
LEMMA CopyPcMembers ==
    {"mark_log", "mark_save", "begin_log", "begin_save", "summary_log",
     "summary_save", "succ_message", "succ_message_log", "succ_log", "succ_save",
     "fail_message", "fail_log", "fail_save", "cancel_log", "cancel_save", "release"}
      \subseteq CopyPcs
  BY DEF CopyPcs

\* Three kinds of step that leave the database alone: load a copy, go on, leave.
LEMMA GetStepType ==
    ASSUME TypeOK, NEW p \in Procs, NEW rec \in RunRecord, NEW l \in PcValues,
           Keep(p, rec), Goto(p, l), LocalOnly, UNCHANGED <<run, target>>
    PROVE  TypeOK'
  BY GotoType, KeepType DEF LocalOnly, table, TypeOK

\* A step that only moves its process on keeps all types.
LEMMA HopType ==
    ASSUME TypeOK, NEW p \in Procs, NEW l \in PcValues, Goto(p, l), LocalsKept, LocalOnly
    PROVE  TypeOK'
  BY GotoType DEF LocalsKept, LocalOnly, table, TypeOK

\* A step that only ends its process keeps all types.
LEMMA LeaveType ==
    ASSUME TypeOK, NEW p \in Procs, Return(p), LocalOnly
    PROVE  TypeOK'
  BY ReturnType DEF LocalOnly, table, TypeOK

\* The five statuses of a run that exists.
LEMMA StatusMembers ==
    /\ {"queued", "running", "completed", "failed", "cancelled"} = RunStatuses
    /\ "absent" \notin RunStatuses
  BY DEF RunStatuses, ActiveStatuses, TerminalStatuses

\* Every step keeps the types of the variables.
LEMMA TypeStep ==
    ASSUME TypeOK, LocalInv, TableInv, Next
    PROVE  TypeOK'
<1> USE Constants DEF Requests, StartRequests
<1>1. ASSUME NEW p \in StartRequests, NEW c \in Conversations, StartCheck(p, c)
      PROVE  TypeOK'
  <2>1. CASE c \in deleted \/ HasActiveRun(c)
    BY <1>1, <2>1, LeaveType DEF StartCheck
  <2>2. CASE ~(c \in deleted \/ HasActiveRun(c))
    <3>1. pc' \in [Procs -> PcValues]
      BY <1>1, <2>2, PcMembers DEF StartCheck, Goto, TypeOK
    <3>2. target' \in [Procs -> Conversations \cup {NoConversation}]
      BY <1>1, <2>2 DEF StartCheck, TypeOK
    <3> QED
      BY <1>1, <2>2, <3>1, <3>2 DEF StartCheck, LocalOnly, table, TypeOK
  <2> QED
    BY <2>1, <2>2
<1>2. ASSUME NEW p \in CancelRequests, NEW r \in Runs, CancelStart(p, r)
      PROVE  TypeOK'
  <2>1. pc' \in [Procs -> PcValues] /\ run' \in [Procs -> Runs \cup {0}]
    BY <1>2, PcMembers DEF CancelStart, Goto, TypeOK
  <2> QED
    BY <1>2, <2>1 DEF CancelStart, LocalOnly, table, TypeOK
<1>3. ASSUME NEW p \in StopRequests, NEW c \in Conversations, StopStart(p, c)
      PROVE  TypeOK'
  <2>1. CASE c \in deleted \/ ~HasActiveRun(c)
    BY <1>3, <2>1, LeaveType DEF StopStart
  <2>2. CASE ~(c \in deleted \/ ~HasActiveRun(c))
    <3>1. PICK r \in Runs : run' = [run EXCEPT ![p] = r] /\ Goto(p, "cancel_get")
                            /\ UNCHANGED <<target, copy>>
      BY <1>3, <2>2 DEF StopStart
    <3>2. pc' \in [Procs -> PcValues] /\ run' \in [Procs -> Runs \cup {0}]
      BY <3>1, PcMembers DEF Goto, TypeOK
    <3> QED
      BY <1>3, <3>1, <3>2 DEF StopStart, LocalOnly, table, TypeOK
  <2> QED
    BY <2>1, <2>2
<1>4. ASSUME NEW p \in DeleteRequests, NEW c \in Conversations, Delete(p, c)
      PROVE  TypeOK'
  BY <1>4, ReturnType DEF Delete, TypeOK
<1>5. ASSUME NEW p \in Procs, Starting(p)
      PROVE  TypeOK'
  <2>1. CASE StartMessage(p)
    <3>1. target[p] \in Conversations /\ [kind |-> "question", run |-> 0] \in Message
      BY <2>1, AtHand DEF StartMessage, MessageStep, Message
    <3> QED
      BY <2>1, <3>1, PcMembers, MessageStepType DEF StartMessage
  <2>2. CASE StartStatus(p)
    <3>1. CASE target[p] \in deleted
      BY <2>2, <3>1, ReturnType DEF StartStatus, TypeOK
    <3>2. CASE target[p] \notin deleted
      <4>1. pc' \in [Procs -> PcValues]
        BY <2>2, <3>2, PcMembers DEF StartStatus, Goto, TypeOK
      <4>2. status' \in [Conversations -> {"idle", "running"}]
        BY <2>2, <3>2 DEF StartStatus, TypeOK
      <4> QED
        BY <2>2, <3>2, <4>1, <4>2 DEF StartStatus, LocalsKept, TypeOK
    <3> QED
      BY <3>1, <3>2
  <2>3. CASE StartCreate(p)
    <3>1. created + 1 \in Runs /\ created' \in 0 .. MaxRuns
      BY <2>3 DEF StartCreate, TypeOK
    <3> DEFINE row == [NoRun EXCEPT !.conversation = target[p], !.status = "queued"]
    <3>2. row \in RunRecord
      <4>1. target[p] \in Conversations
        BY <2>3, AtHand DEF StartCreate
      <4> QED
        BY <4>1, StatusMembers DEF NoRun, RunRecord
    <3>3. runs' \in [Runs -> RunRecord]
      BY <2>3, <3>1, <3>2 DEF StartCreate, TypeOK
    <3>4. pc' \in [Procs -> PcValues] /\ run' \in [Procs -> Runs \cup {0}]
      BY <2>3, <3>1, PcMembers DEF StartCreate, Goto, TypeOK
    <3> QED
      BY <2>3, <3>1, <3>3, <3>4 DEF StartCreate, table, TypeOK
  <2>4. CASE StartLog(p)
    BY <2>4, AtHand, RunPcMembers, PcMembers, EventMembers, LogStepType DEF StartLog, LogStep
  <2>5. CASE MarkGet(p)
    BY <2>5, AtHand, RunPcMembers, PcMembers, GetStepType DEF MarkGet
  <2>6. CASE MarkLog(p)
    BY <2>6, AtHand, RunPcMembers, PcMembers, EventMembers, LogStepType DEF MarkLog, LogStep
  <2>7. CASE MarkSave(p)
    BY <2>7, AtHand, RunPcMembers, PcMembers, SaveStepType DEF MarkSave, SaveStep
  <2>8. CASE Publish(p)
    <3>1. tasks' \in [Runs -> Nat]
      <4>1. run[p] \in Runs
        BY <2>8, AtHand, RunPcMembers DEF Publish
      <4> QED
        BY <2>8, <4>1 DEF Publish, TypeOK
    <3> QED
      BY <2>8, <3>1, ReturnType DEF Publish, table, TypeOK
  <2>9. CASE PublishFails(p)
    <3>1. tasks' \in [Runs -> Nat]
      BY <2>9, AtHand, RunPcMembers DEF PublishFails, TypeOK
    <3>2. pc' \in [Procs -> PcValues]
      BY <2>9, PcMembers DEF PublishFails, Goto, TypeOK
    <3> QED
      BY <2>9, <3>1, <3>2 DEF PublishFails, LocalsKept, table, TypeOK
  <2>10. CASE StartRaises(p)
    BY <2>10, PcMembers, HopType DEF StartRaises
  <2> QED
    BY <1>5, <2>1, <2>2, <2>3, <2>4, <2>5, <2>6, <2>7, <2>8, <2>9, <2>10 DEF Starting
<1>6. ASSUME NEW p \in Procs, Executing(p)
      PROVE  TypeOK'
  <2>1. CASE ExecGet(p)
    BY <2>1, PcMembers, HopType, LeaveType DEF ExecGet
  <2>2. CASE ExecSetup(p)
    BY <2>2, PcMembers, HopType DEF ExecSetup
  <2>3. CASE BeginGet(p)
    BY <2>3, AtHand, RunPcMembers, PcMembers, StatusMembers, WithStatus, GetStepType
    DEF BeginGet
  <2>4. CASE BeginLog(p)
    BY <2>4, AtHand, RunPcMembers, PcMembers, EventMembers, LogStepType DEF BeginLog, LogStep
  <2>5. CASE BeginSave(p)
    BY <2>5, AtHand, RunPcMembers, PcMembers, SaveStepType DEF BeginSave, SaveStep
  <2>6. CASE RecordProgress(p)
    BY <2>6, AtHand, RunPcMembers, PcMembers, EventMembers, LogStepType
    DEF RecordProgress, LogStep
  <2>7. CASE RunnerReturns(p)
    BY <2>7, PcMembers, HopType DEF RunnerReturns
  <2>8. CASE SuccGet(p)
    BY <2>8, AtHand, RunPcMembers, PcMembers, GetStepType DEF SuccGet
  <2>9. CASE SummaryLog(p)
    <3>1. copy' \in [Procs -> RunRecord]
      <4>1. [copy[p] EXCEPT !.summaries = @ + 1] \in RunRecord
        BY WithSummary DEF TypeOK
      <4> QED
        BY <2>9, <4>1, KeepType DEF SummaryLog
    <3>2. pc' \in [Procs -> PcValues] /\ log' \in [Runs -> Seq(EventTypes)]
      BY <2>9, AtHand, RunPcMembers, PcMembers, EventMembers, GotoType, AppendType
      DEF SummaryLog
    <3> QED
      BY <2>9, <3>1, <3>2 DEF SummaryLog, table, TypeOK
  <2>10. CASE SummarySave(p)
    <3>1. runs' \in [Runs -> RunRecord]
      BY <2>10, AtHand, RunPcMembers, SaveType DEF SummarySave
    <3>2. pc' \in [Procs -> PcValues]
      BY <2>10, PcMembers, GotoType DEF SummarySave
    <3>3. copy' \in [Procs -> RunRecord]
      BY <2>10, AtHand, WithReply, KeepType DEF SummarySave, TypeOK
    <3> QED
      BY <2>10, <3>1, <3>2, <3>3 DEF SummarySave, table, TypeOK
  <2>11. CASE SuccMessage(p)
    <3>1. /\ copy[p].conversation \in Conversations
          /\ [kind |-> "answer", run |-> run[p]] \in Message
      BY <2>11, AtHand, RunPcMembers, CopyPcMembers DEF SuccMessage, MessageStep, Message
    <3> QED
      BY <2>11, <3>1, PcMembers, MessageStepType DEF SuccMessage
  <2>12. CASE SuccMessageLog(p)
    BY <2>12, AtHand, RunPcMembers, PcMembers, EventMembers, LogStepType
    DEF SuccMessageLog, LogStep
  <2>13. CASE SuccLog(p)
    <3>1. copy' \in [Procs -> RunRecord]
      BY <2>13, AtHand, StatusMembers, WithStatus, KeepType DEF SuccLog
    <3>2. pc' \in [Procs -> PcValues] /\ log' \in [Runs -> Seq(EventTypes)]
      BY <2>13, AtHand, RunPcMembers, PcMembers, EventMembers, GotoType, AppendType
      DEF SuccLog
    <3> QED
      BY <2>13, <3>1, <3>2 DEF SuccLog, table, TypeOK
  <2>14. CASE SuccSave(p)
    BY <2>14, AtHand, RunPcMembers, PcMembers, SaveStepType DEF SuccSave, SaveStep
  <2>15. CASE FailGet(p)
    <3> DEFINE rec == [runs[run[p]] EXCEPT !.status = "failed"]
    <3>1. rec \in RunRecord /\ [rec EXCEPT !.reply = "failure"] \in RunRecord
      <4>1. runs[run[p]] \in RunRecord
        BY <2>15, AtHand, RunPcMembers DEF FailGet
      <4>2. rec \in RunRecord
        BY <4>1, WithStatus, StatusMembers
      <4> QED
        BY <4>2, WithReply
    <3>2. [runs[run[p]] EXCEPT !.status = "failed", !.reply = "failure"]
            = [rec EXCEPT !.reply = "failure"]
      BY <2>15, AtHand, RunPcMembers DEF FailGet, RunRecord
    <3> QED
      BY <2>15, <3>1, <3>2, PcMembers, GetStepType DEF FailGet
  <2>16. CASE FailMessage(p)
    <3>1. /\ copy[p].conversation \in Conversations
          /\ [kind |-> "failure", run |-> run[p]] \in Message
      BY <2>16, AtHand, RunPcMembers, CopyPcMembers DEF FailMessage, MessageStep, Message
    <3> QED
      BY <2>16, <3>1, PcMembers, MessageStepType DEF FailMessage
  <2>17. CASE FailLog(p)
    BY <2>17, AtHand, RunPcMembers, PcMembers, EventMembers, LogStepType DEF FailLog, LogStep
  <2>18. CASE FailSave(p)
    BY <2>18, AtHand, RunPcMembers, PcMembers, SaveStepType DEF FailSave, SaveStep
  <2>19. CASE Release(p)
    <3>1. status' \in [Conversations -> {"idle", "running"}]
      BY <2>19 DEF Release, TypeOK
    <3> QED
      BY <2>19, <3>1, ReturnType DEF Release, TypeOK
  <2> QED
    BY <1>6, <2>1, <2>2, <2>3, <2>4, <2>5, <2>6, <2>7, <2>8, <2>9, <2>10, <2>11, <2>12,
       <2>13, <2>14, <2>15, <2>16, <2>17, <2>18, <2>19 DEF Executing
<1>7. ASSUME NEW p \in Procs, Cancelling(p)
      PROVE  TypeOK'
  <2>1. CASE CancelGet(p)
    BY <2>1, AtHand, RunPcMembers, PcMembers, StatusMembers, WithStatus, GetStepType,
       LeaveType DEF CancelGet
  <2>2. CASE CancelLog(p)
    BY <2>2, AtHand, RunPcMembers, PcMembers, EventMembers, LogStepType DEF CancelLog, LogStep
  <2>3. CASE CancelSave(p)
    BY <2>3, AtHand, RunPcMembers, PcMembers, SaveStepType DEF CancelSave, SaveStep
  <2> QED
    BY <1>7, <2>1, <2>2, <2>3 DEF Cancelling
<1>8. ASSUME NEW w \in Workers, NEW r \in Runs, TakeTask(w, r)
      PROVE  TypeOK'
  <2>1. tasks' \in [Runs -> Nat]
    BY <1>8 DEF TakeTask, TypeOK
  <2>2. pc' \in [Procs -> PcValues] /\ run' \in [Procs -> Runs \cup {0}]
    BY <1>8, PcMembers DEF TakeTask, Goto, TypeOK
  <2> QED
    BY <1>8, <2>1, <2>2 DEF TakeTask, table, TypeOK
<1>9. ASSUME NEW p \in StreamRequests, Disconnect(p)
      PROVE  TypeOK'
  BY <1>9, LeaveType DEF Disconnect
<1>10. CASE ApiCrash
  <2>1. /\ pc' \in [Procs -> PcValues] /\ run' \in [Procs -> Runs \cup {0}]
        /\ target' \in [Procs -> Conversations \cup {NoConversation}]
        /\ copy' \in [Procs -> RunRecord]
    BY <1>10, PcMembers, NoRunType DEF ApiCrash, TypeOK
  <2> QED
    BY <1>10, <2>1, ConstantsAssumption DEF ApiCrash, table, TypeOK
<1>11. ASSUME NEW w \in Workers, WorkerCrash(w)
       PROVE  TypeOK'
  <2>1. crashes' \in 0 .. MaxCrashes
    BY <1>11, ConstantsAssumption DEF WorkerCrash, TypeOK
  <2>2. /\ pc' \in [Procs -> PcValues] /\ run' \in [Procs -> Runs \cup {0}]
        /\ target' \in [Procs -> Conversations \cup {NoConversation}]
        /\ copy' \in [Procs -> RunRecord]
    BY <1>11, ReturnType DEF WorkerCrash
  <2> QED
    BY <1>11, <2>1, <2>2 DEF WorkerCrash, table, TypeOK
<1> QED
  BY <1>1, <1>2, <1>3, <1>4, <1>5, <1>6, <1>7, <1>8, <1>9, <1>10, <1>11
  DEF Next, Arrive, Proceed, Take, Fault

(***************************************************************************)
(* What a step leaves alone.  A step of p touches the locals of p only, and *)
(* no step takes a run, an event or a message away.                         *)
(***************************************************************************)
Same(q) == pc'[q] = pc[q] /\ run'[q] = run[q] /\ target'[q] = target[q] /\ copy'[q] = copy[q]
OthersSame(p) == \A q \in Procs : q # p => Same(q)
Gone(p) == pc'[p] \in {"idle", "done"} /\ run'[p] = 0 /\ target'[p] = NoConversation
             /\ copy'[p] = NoRun

RunsKept == created <= created' /\ created' \in Nat
            /\ \A r \in Runs : r <= created => runs'[r].conversation = runs[r].conversation

\* A process that ends touches its own locals only, and clears them.
LEMMA ReturnLocals ==
    ASSUME TypeOK, NEW p \in Procs, Return(p)
    PROVE  OthersSame(p) /\ Gone(p)
  BY DEF TypeOK, Return, Goto, OthersSame, Same, Gone

\* A jump touches the control point of its own process only.
LEMMA GotoLocals ==
    ASSUME TypeOK, NEW p \in Procs, NEW l, Goto(p, l), LocalsKept
    PROVE  /\ OthersSame(p)
           /\ pc'[p] = l /\ run'[p] = run[p] /\ target'[p] = target[p] /\ copy'[p] = copy[p]
  BY DEF TypeOK, Goto, LocalsKept, OthersSame, Same

\* Loading a copy touches the locals of its own process only.
LEMMA KeepLocals ==
    ASSUME TypeOK, NEW p \in Procs, NEW l, NEW rec, Goto(p, l), Keep(p, rec),
           UNCHANGED <<run, target>>
    PROVE  /\ OthersSame(p)
           /\ pc'[p] = l /\ run'[p] = run[p] /\ target'[p] = target[p] /\ copy'[p] = rec
  BY DEF TypeOK, Goto, Keep, OthersSame, Same

\* Locals that do not change stay right as the table grows.
LEMMA LocalFrame ==
    ASSUME TypeOK, NEW q \in Procs, LocalOK(q), Same(q), RunsKept
    PROVE  LocalOK(q)'
<1>1. created \in Nat /\ run[q] \in Runs \cup {0}
  BY Constants DEF TypeOK
<1>2. run[q] # 0 => runs'[run[q]].conversation = runs[run[q]].conversation
  BY <1>1 DEF RunsKept, LocalOK
<1>3. run[q] <= created'
  BY <1>1, Constants DEF RunsKept, LocalOK
<1> QED
  BY <1>2, <1>3 DEF LocalOK, Same

\* A process that ended has nothing that could be wrong.
LEMMA LocalGone ==
    ASSUME NEW p \in Procs, Gone(p), RunsKept
    PROVE  LocalOK(p)'
<1>1. p \in Procs /\ pc'[p] \notin RunPcs /\ pc'[p] \notin CopyPcs
      /\ pc'[p] \notin {"start_message", "start_status", "start_create"}
  BY DEF Gone, RunPcs, CopyPcs
<1>2. 0 <= created'
  BY DEF RunsKept
<1> QED
  BY <1>1, <1>2, NoRunType DEF Gone, LocalOK

\* A process that goes on with its run and its copy.
LEMMA LocalHop ==
    ASSUME TypeOK, NEW p \in Procs, LocalOK(p), RunsKept, NEW l \in RunPcs,
           pc[p] \in RunPcs, l \in CopyPcs => pc[p] \in CopyPcs,
           pc'[p] = l, run'[p] = run[p], copy'[p] = copy[p]
    PROVE  LocalOK(p)'
<1>1. created \in Nat /\ run[p] \in Runs /\ run[p] <= created /\ run[p] # 0
  BY Constants DEF TypeOK, LocalOK
<1>2. runs'[run[p]].conversation = runs[run[p]].conversation /\ run[p] <= created'
  BY <1>1, Constants DEF RunsKept
<1>3. pc'[p] \notin {"start_message", "start_status", "start_create"}
  BY DEF RunPcs
<1> QED
  BY <1>1, <1>2, <1>3 DEF LocalOK

\* A process that goes on with its run and a new copy of it.
LEMMA LocalKeep ==
    ASSUME TypeOK, NEW p \in Procs, LocalOK(p), RunsKept, NEW l \in RunPcs, NEW rec,
           pc[p] \in RunPcs, pc'[p] = l, run'[p] = run[p], copy'[p] = rec,
           rec.status # "absent", rec.conversation = runs[run[p]].conversation
    PROVE  LocalOK(p)'
<1>1. created \in Nat /\ run[p] \in Runs /\ run[p] <= created /\ run[p] # 0
  BY Constants DEF TypeOK, LocalOK
<1>2. runs'[run[p]].conversation = runs[run[p]].conversation /\ run[p] <= created'
  BY <1>1, Constants DEF RunsKept
<1>3. pc'[p] \notin {"start_message", "start_status", "start_create"}
  BY DEF RunPcs
<1> QED
  BY <1>1, <1>2, <1>3 DEF LocalOK

(* The four things a step does to the table of runs. *)

\* A step that creates and saves no run.
LEMMA TableKept ==
    ASSUME TypeOK, TableInv, UNCHANGED <<runs, created>>,
           UNCHANGED log \/ \E r \in Runs, e \in EventTypes : AppendEvent(r, e) /\ r <= created,
           \A r \in Runs : r > created => tasks'[r] = tasks[r]
    PROVE  TableInv' /\ RunsKept
<1>1. \A r \in Runs : r > created => log'[r] = log[r]
  BY Constants DEF TypeOK, AppendEvent
<1>2. TableInv'
  BY <1>1 DEF TableInv
<1> QED
  BY <1>2, Constants DEF RunsKept, TypeOK

\* A save of a copy over the row of its run.
LEMMA TableSave ==
    ASSUME TypeOK, TableInv, NEW p \in Procs, LocalOK(p), pc[p] \in CopyPcs, Save(p),
           UNCHANGED <<log, created, tasks>>
    PROVE  TableInv' /\ RunsKept
<1>1. /\ run[p] \in Runs /\ run[p] <= created /\ created \in Nat
      /\ copy[p].status # "absent" /\ copy[p].conversation = runs[run[p]].conversation
  BY Constants DEF TypeOK, LocalOK
<1>2. \A r \in Runs : runs'[r] = IF r = run[p] THEN copy[p] ELSE runs[r]
  BY <1>1 DEF Save, TypeOK
<1>3. TableInv'
  BY <1>1, <1>2, Constants DEF TableInv
<1> QED
  BY <1>1, <1>2, <1>3, Constants DEF RunsKept

\* The creation of a run.
LEMMA TableCreate ==
    ASSUME TypeOK, TableInv, NEW p \in Procs, StartCreate(p), target[p] \in Conversations
    PROVE  TableInv' /\ RunsKept /\ created + 1 \in Runs
           /\ runs'[created + 1].conversation = target[p]
           /\ runs'[created + 1].status = "queued" /\ runs'[created + 1].reply = "none"
           /\ \A r \in Runs : r # created + 1 => runs'[r] = runs[r]
<1> DEFINE row == [NoRun EXCEPT !.conversation = target[p], !.status = "queued"]
<1>1. created \in Nat /\ created + 1 \in Runs
  BY Constants DEF TypeOK, StartCreate
<1>2. \A r \in Runs : runs'[r] = IF r = created + 1 THEN row ELSE runs[r]
  BY <1>1 DEF StartCreate, TypeOK
<1>3. row.status = "queued" /\ row.conversation = target[p] /\ row.reply = "none"
  BY DEF NoRun
<1>4. UNCHANGED <<log, tasks>> /\ created' = created + 1
  BY DEF StartCreate
<1> HIDE DEF row
<1>5. TableInv'
  BY <1>1, <1>2, <1>3, <1>4, Constants DEF TableInv
<1> QED
  BY <1>1, <1>2, <1>3, <1>4, <1>5, Constants DEF RunsKept

\* If a step of p leaves p's locals right, it leaves all locals right.
LEMMA Combine ==
    ASSUME TypeOK, LocalInv, RunsKept, NEW p \in Procs, OthersSame(p), LocalOK(p)'
    PROVE  LocalInv'
<1>1. ASSUME NEW q \in Procs, q # p PROVE LocalOK(q)'
  BY <1>1, LocalFrame DEF OthersSame, LocalInv
<1> QED
  BY <1>1 DEF LocalInv

Whole == TypeOK /\ TableInv /\ LocalInv

\* An append of an event.
LEMMA LogStepLocal ==
    ASSUME Whole, NEW p \in Procs, NEW at \in RunPcs, NEW l \in RunPcs,
           l \in CopyPcs => at \in CopyPcs, NEW e \in EventTypes, LogStep(p, at, e, l)
    PROVE  TableInv' /\ LocalInv' /\ RunsKept
<1>1. LocalOK(p) /\ pc[p] \in RunPcs /\ (l \in CopyPcs => pc[p] \in CopyPcs)
  BY DEF Whole, LocalInv, LogStep
<1>2. run[p] \in Runs /\ run[p] <= created
  BY AtHand, <1>1 DEF Whole
<1>3. TableInv' /\ RunsKept
  BY <1>2, TableKept DEF Whole, LogStep
<1>4. /\ OthersSame(p)
      /\ pc'[p] = l /\ run'[p] = run[p] /\ copy'[p] = copy[p]
  BY GotoLocals DEF Whole, LogStep
<1>5. LocalOK(p)'
  BY <1>1, <1>3, <1>4, LocalHop DEF Whole
<1> QED
  BY <1>3, <1>4, <1>5, Combine DEF Whole

\* A save of the copy.
LEMMA SaveStepLocal ==
    ASSUME Whole, NEW p \in Procs, NEW at \in CopyPcs \cap RunPcs, NEW l \in RunPcs,
           SaveStep(p, at, l)
    PROVE  TableInv' /\ LocalInv' /\ RunsKept
<1>1. LocalOK(p) /\ pc[p] \in RunPcs /\ pc[p] \in CopyPcs
  BY DEF Whole, LocalInv, SaveStep
<1>2. TableInv' /\ RunsKept
  BY <1>1, TableSave DEF Whole, SaveStep
<1>3. /\ OthersSame(p)
      /\ pc'[p] = l /\ run'[p] = run[p] /\ copy'[p] = copy[p]
  BY GotoLocals DEF Whole, SaveStep
<1>4. LocalOK(p)'
  BY <1>1, <1>2, <1>3, LocalHop DEF Whole
<1> QED
  BY <1>2, <1>3, <1>4, Combine DEF Whole

\* A step that leaves the runs alone and ends its process.
LEMMA LeaveLocal ==
    ASSUME Whole, NEW p \in Procs, Return(p), UNCHANGED <<runs, log, created>>,
           \A r \in Runs : r > created => tasks'[r] = tasks[r]
    PROVE  TableInv' /\ LocalInv' /\ RunsKept
<1>1. TableInv' /\ RunsKept
  BY TableKept DEF Whole
<1>2. OthersSame(p) /\ Gone(p)
  BY ReturnLocals DEF Whole
<1> QED
  BY <1>1, <1>2, LocalGone, Combine DEF Whole

\* A step that leaves the runs alone and moves its process on.
LEMMA HopLocal ==
    ASSUME Whole, NEW p \in Procs, pc[p] \in RunPcs, NEW l \in RunPcs,
           l \in CopyPcs => pc[p] \in CopyPcs,
           Goto(p, l), LocalsKept, UNCHANGED <<runs, log, created>>,
           \A r \in Runs : r > created => tasks'[r] = tasks[r]
    PROVE  TableInv' /\ LocalInv' /\ RunsKept
<1>1. TableInv' /\ RunsKept
  BY TableKept DEF Whole
<1>2. /\ OthersSame(p)
      /\ pc'[p] = l /\ run'[p] = run[p] /\ copy'[p] = copy[p]
  BY GotoLocals DEF Whole
<1>3. LocalOK(p)'
  BY <1>1, <1>2, LocalHop DEF Whole, LocalInv
<1> QED
  BY <1>1, <1>2, <1>3, Combine DEF Whole

\* A step that reads the run, or logs an event, and moves on with a new copy.
LEMMA KeepLocal ==
    ASSUME Whole, NEW p \in Procs, pc[p] \in RunPcs, NEW l \in RunPcs, NEW rec,
           rec.status # "absent", rec.conversation = runs[run[p]].conversation,
           Goto(p, l), Keep(p, rec), UNCHANGED <<runs, created, tasks, run, target>>,
           UNCHANGED log \/ \E e \in EventTypes : AppendEvent(run[p], e)
    PROVE  TableInv' /\ LocalInv' /\ RunsKept
<1>1. LocalOK(p) /\ run[p] \in Runs /\ run[p] <= created
  BY AtHand DEF Whole, LocalInv
<1>2. TableInv' /\ RunsKept
  BY <1>1, TableKept DEF Whole
<1>3. /\ OthersSame(p)
      /\ pc'[p] = l /\ run'[p] = run[p] /\ copy'[p] = rec
  BY KeepLocals DEF Whole
<1>4. LocalOK(p)'
  BY <1>1, <1>2, <1>3, LocalKeep DEF Whole
<1> QED
  BY <1>2, <1>3, <1>4, Combine DEF Whole

\* An append of a message, or the 404 of a deleted conversation.
LEMMA MessageStepLocal ==
    ASSUME Whole, NEW p \in Procs, NEW at \in RunPcs, NEW l \in RunPcs,
           l \in CopyPcs => at \in CopyPcs, NEW c, NEW m, MessageStep(p, at, c, m, l)
    PROVE  TableInv' /\ LocalInv' /\ RunsKept
<1>1. CASE c \in deleted
  BY <1>1, LeaveLocal DEF MessageStep
<1>2. CASE c \notin deleted
  BY <1>2, HopLocal DEF MessageStep
<1> QED
  BY <1>1, <1>2

\* A start request that has no run yet moves on to another such point.
LEMMA EarlyLocal ==
    ASSUME Whole, NEW p \in Procs, run[p] = 0, copy[p].status = "absent",
           pc'[p] \in {"start_message", "start_status", "start_create"},
           target'[p] \in Conversations, run'[p] = run[p], copy'[p] = copy[p],
           OthersSame(p), UNCHANGED <<runs, log, created, tasks>>
    PROVE  TableInv' /\ LocalInv' /\ RunsKept
<1>1. TableInv' /\ RunsKept
  BY TableKept DEF Whole
<1>2. pc'[p] \notin RunPcs /\ pc'[p] \notin CopyPcs
  BY DEF RunPcs, CopyPcs
<1>3. LocalOK(p) /\ 0 <= created'
  BY <1>1 DEF Whole, LocalInv, RunsKept
<1>4. LocalOK(p)'
  BY <1>2, <1>3 DEF LocalOK
<1> QED
  BY <1>1, <1>4, Combine DEF Whole

\* A process without a run moves on to a control point that needs none.
LEMMA IdleLocal ==
    ASSUME Whole, NEW p \in Procs, run[p] = 0, copy[p].status = "absent",
           copy[p].reply = "none", pc'[p] = "raised", run'[p] = run[p], copy'[p] = copy[p],
           OthersSame(p), UNCHANGED <<runs, log, created, tasks>>
    PROVE  TableInv' /\ LocalInv' /\ RunsKept
<1>1. TableInv' /\ RunsKept
  BY TableKept DEF Whole
<1>2. pc'[p] \notin RunPcs /\ pc'[p] \notin CopyPcs
  BY DEF RunPcs, CopyPcs
<1>3. LocalOK(p) /\ 0 <= created'
  BY <1>1 DEF Whole, LocalInv, RunsKept
<1>4. LocalOK(p)'
  BY <1>2, <1>3 DEF LocalOK
<1> QED
  BY <1>1, <1>4, Combine DEF Whole

\* A process with no run, or with one that has no copy, takes a run.
LEMMA TakeLocal ==
    ASSUME Whole, NEW p \in Procs, NEW r \in Runs, TableInv', RunsKept, r <= created',
           pc'[p] \in RunPcs \ CopyPcs, run'[p] = r, copy'[p].status = "absent",
           copy'[p].reply = "none", OthersSame(p)
    PROVE  LocalInv'
<1>1. r # 0 /\ pc'[p] \notin {"start_message", "start_status", "start_create"}
  BY Constants DEF RunPcs
<1>2. LocalOK(p)'
  BY <1>1 DEF LocalOK
<1> QED
  BY <1>2, Combine DEF Whole

\* A process that has no run has no copy either.
LEMMA Idle ==
    ASSUME Whole, NEW p \in Procs, pc[p] \notin RunPcs
    PROVE  run[p] = 0 /\ copy[p].status = "absent" /\ copy[p].reply = "none"
  BY DEF Whole, LocalInv, LocalOK

\* Control points without a run, and those with a run but no copy.
LEMMA PcAt ==
    ASSUME NEW p \in Procs
    PROVE  /\ pc[p] \in {"ready", "idle", "done", "start_message", "start_status",
                         "start_create", "raised"} => pc[p] \notin RunPcs
           /\ {"start_log", "mark_get", "publish", "exec_get", "exec_setup", "begin_get",
               "runner", "succ_get", "fail_get", "cancel_get"} \subseteq RunPcs \ CopyPcs
  BY RunPcMembers DEF CopyPcs

\* A row of the table that its reader turns into a copy.
LEMMA ReadRow ==
    ASSUME Whole, NEW p \in Procs, pc[p] \in RunPcs, NEW s \in RunStatuses
    PROVE  LET row == runs[run[p]] IN
             /\ row \in RunRecord /\ row.status # "absent"
             /\ [row EXCEPT !.status = s].status # "absent"
             /\ [row EXCEPT !.status = s].conversation = row.conversation
<1>1. runs[run[p]] \in RunRecord /\ runs[run[p]].status # "absent"
  BY AtHand DEF Whole
<1> QED
  BY <1>1, WithStatus, StatusMembers

\* Every step keeps the table of runs and the locals right.
LEMMA LocalStep ==
    ASSUME Whole, Next
    PROVE  TableInv' /\ LocalInv' /\ RunsKept
<1> USE Constants DEF Requests, StartRequests
<1>1. ASSUME NEW p \in StartRequests, NEW c \in Conversations, StartCheck(p, c)
      PROVE  TableInv' /\ LocalInv' /\ RunsKept
  <2>1. CASE c \in deleted \/ HasActiveRun(c)
    BY <1>1, <2>1, LeaveLocal DEF StartCheck, LocalOnly
  <2>2. CASE ~(c \in deleted \/ HasActiveRun(c))
    <3>1. run[p] = 0 /\ copy[p].status = "absent"
      BY <1>1, Idle, PcAt DEF StartCheck
    <3>2. /\ OthersSame(p) /\ run'[p] = run[p] /\ copy'[p] = copy[p]
          /\ target'[p] = c /\ pc'[p] = "start_message"
      BY <1>1, <2>2 DEF StartCheck, Goto, OthersSame, Same, Whole, TypeOK
    <3> QED
      BY <1>1, <3>1, <3>2, EarlyLocal DEF StartCheck, LocalOnly
  <2> QED
    BY <2>1, <2>2
<1>2. ASSUME NEW p \in CancelRequests, NEW r \in Runs, CancelStart(p, r)
      PROVE  TableInv' /\ LocalInv' /\ RunsKept
  <2>1. copy[p].status = "absent" /\ copy[p].reply = "none"
    BY <1>2, Idle, PcAt DEF CancelStart
  <2>2. OthersSame(p) /\ run'[p] = r /\ copy'[p] = copy[p] /\ pc'[p] = "cancel_get"
    BY <1>2 DEF CancelStart, Goto, OthersSame, Same, Whole, TypeOK
  <2>3. TableInv' /\ RunsKept /\ r <= created'
    BY <1>2, TableKept DEF CancelStart, LocalOnly, Whole
  <2> QED
    BY <2>1, <2>2, <2>3, PcAt, TakeLocal
<1>3. ASSUME NEW p \in StopRequests, NEW c \in Conversations, StopStart(p, c)
      PROVE  TableInv' /\ LocalInv' /\ RunsKept
  <2>1. CASE c \in deleted \/ ~HasActiveRun(c)
    BY <1>3, <2>1, LeaveLocal DEF StopStart, LocalOnly
  <2>2. CASE ~(c \in deleted \/ ~HasActiveRun(c))
    <3>1. PICK r \in Runs : IsActive(r) /\ run' = [run EXCEPT ![p] = r]
                            /\ Goto(p, "cancel_get") /\ UNCHANGED <<target, copy>>
      BY <1>3, <2>2 DEF StopStart
    <3>2. copy[p].status = "absent" /\ copy[p].reply = "none"
      BY <1>3, Idle, PcAt DEF StopStart
    <3>3. OthersSame(p) /\ run'[p] = r /\ copy'[p] = copy[p] /\ pc'[p] = "cancel_get"
      BY <3>1 DEF Goto, OthersSame, Same, Whole, TypeOK
    <3>4. r <= created
      <4>1. runs[r].status # "absent"
        BY <3>1 DEF IsActive, ActiveStatuses
      <4>2. r > created => runs[r] = NoRun
        BY DEF Whole, TableInv
      <4> QED
        BY <4>1, <4>2, NoRunType DEF Whole, TypeOK
    <3>5. TableInv' /\ RunsKept /\ r <= created'
      BY <1>3, <3>4, TableKept DEF StopStart, LocalOnly, Whole
    <3> QED
      BY <3>2, <3>3, <3>5, PcAt, TakeLocal
  <2> QED
    BY <2>1, <2>2
<1>4. ASSUME NEW p \in DeleteRequests, NEW c \in Conversations, Delete(p, c)
      PROVE  TableInv' /\ LocalInv' /\ RunsKept
  BY <1>4, LeaveLocal DEF Delete
<1>5. ASSUME NEW p \in Procs, Starting(p)
      PROVE  TableInv' /\ LocalInv' /\ RunsKept
  <2>1. CASE StartMessage(p) \/ StartStatus(p)
    <3>1. run[p] = 0 /\ copy[p].status = "absent" /\ target[p] \in Conversations
      BY <2>1, Idle, PcAt, AtHand DEF StartMessage, StartStatus, MessageStep, Whole
    <3>2. CASE target[p] \in deleted
      BY <2>1, <3>2, LeaveLocal DEF StartMessage, StartStatus, MessageStep
    <3>3. CASE target[p] \notin deleted
      <4>1. PICK l \in {"start_status", "start_create"} : Goto(p, l) /\ LocalsKept
        BY <2>1, <3>3 DEF StartMessage, StartStatus, MessageStep
      <4>2. /\ OthersSame(p) /\ pc'[p] = l /\ run'[p] = run[p] /\ copy'[p] = copy[p]
            /\ target'[p] = target[p]
        BY <4>1, GotoLocals DEF Whole
      <4>3. UNCHANGED <<runs, log, created, tasks>>
        BY <2>1 DEF StartMessage, StartStatus, MessageStep
      <4> QED
        BY <3>1, <4>2, <4>3, EarlyLocal
    <3> QED
      BY <3>2, <3>3
  <2>2. CASE StartCreate(p)
    <3>1. /\ target[p] \in Conversations
          /\ copy[p].status = "absent" /\ copy[p].reply = "none"
      BY <2>2, Idle, PcAt, AtHand DEF StartCreate, Whole
    <3>2. TableInv' /\ RunsKept /\ created + 1 \in Runs
      BY <2>2, <3>1, TableCreate DEF Whole
    <3>3. OthersSame(p) /\ pc'[p] = "start_log" /\ run'[p] = created + 1 /\ copy'[p] = copy[p]
      BY <2>2, <3>2 DEF StartCreate, Goto, OthersSame, Same, Whole, TypeOK
    <3>4. created + 1 <= created'
      BY <2>2 DEF StartCreate, Whole, TypeOK
    <3> QED
      BY <3>1, <3>2, <3>3, <3>4, PcAt, TakeLocal
  <2>3. CASE StartLog(p)
    BY <2>3, PcAt, EventMembers, LogStepLocal DEF StartLog
  <2>4. CASE MarkGet(p)
    <3>1. pc[p] \in RunPcs
      BY <2>4, RunPcMembers DEF MarkGet
    <3>2. runs[run[p]].status # "absent"
      BY <3>1, ReadRow, StatusMembers
    <3> QED
      BY <2>4, <3>1, <3>2, RunPcMembers, KeepLocal DEF MarkGet, LocalOnly
  <2>5. CASE MarkLog(p)
    BY <2>5, RunPcMembers, CopyPcMembers, EventMembers, LogStepLocal DEF MarkLog
  <2>6. CASE MarkSave(p)
    BY <2>6, RunPcMembers, CopyPcMembers, SaveStepLocal DEF MarkSave
  <2>7. CASE Publish(p)
    <3>1. run[p] <= created /\ run[p] \in Runs
      BY <2>7, AtHand, RunPcMembers DEF Publish, Whole
    <3>2. \A r \in Runs : r > created => tasks'[r] = tasks[r]
      BY <2>7, <3>1 DEF Publish, Whole, TypeOK
    <3> QED
      BY <2>7, <3>2, LeaveLocal DEF Publish
  <2>8. CASE PublishFails(p)
    <3>1. run[p] <= created /\ run[p] \in Runs /\ pc[p] \in RunPcs
      BY <2>8, AtHand, RunPcMembers DEF PublishFails, Whole
    <3>2. \A r \in Runs : r > created => tasks'[r] = tasks[r]
      BY <2>8, <3>1 DEF PublishFails, Whole, TypeOK
    <3> QED
      BY <2>8, <3>1, <3>2, PcAt, HopLocal DEF PublishFails
  <2>9. CASE StartRaises(p)
    <3>1. run[p] = 0 /\ copy[p].status = "absent" /\ copy[p].reply = "none"
      BY <2>9, Idle, PcAt DEF StartRaises
    <3>2. /\ OthersSame(p) /\ pc'[p] = "raised" /\ run'[p] = run[p] /\ copy'[p] = copy[p]
          /\ UNCHANGED <<runs, log, created, tasks>>
      BY <2>9, GotoLocals DEF StartRaises, LocalOnly, table, Whole
    <3> QED
      BY <3>1, <3>2, IdleLocal
  <2> QED
    BY <1>5, <2>1, <2>2, <2>3, <2>4, <2>5, <2>6, <2>7, <2>8, <2>9 DEF Starting
<1>6. ASSUME NEW p \in Procs, Executing(p)
      PROVE  TableInv' /\ LocalInv' /\ RunsKept
  <2>1. CASE ExecGet(p)
    BY <2>1, PcAt, HopLocal, LeaveLocal DEF ExecGet, LocalOnly
  <2>2. CASE ExecSetup(p) \/ RunnerReturns(p)
    <3>1. PICK l \in {"begin_get", "succ_get", "fail_get"} : Goto(p, l) /\ LocalsKept
      BY <2>2 DEF ExecSetup, RunnerReturns
    <3>2. pc[p] \in RunPcs
      BY <2>2, PcAt DEF ExecSetup, RunnerReturns
    <3> QED
      BY <2>2, <3>1, <3>2, PcAt, HopLocal DEF ExecSetup, RunnerReturns, LocalOnly
  <2>3. CASE BeginGet(p)
    <3>1. pc[p] \in RunPcs
      BY <2>3, RunPcMembers DEF BeginGet
    <3> DEFINE rec == [runs[run[p]] EXCEPT !.status = "running"]
    <3>2. rec.status # "absent" /\ rec.conversation = runs[run[p]].conversation
      BY <3>1, ReadRow, StatusMembers
    <3> QED
      BY <2>3, <3>1, <3>2, RunPcMembers, KeepLocal DEF BeginGet, LocalOnly
  <2>4. CASE BeginLog(p)
    BY <2>4, RunPcMembers, CopyPcMembers, EventMembers, LogStepLocal DEF BeginLog
  <2>5. CASE BeginSave(p)
    BY <2>5, RunPcMembers, CopyPcMembers, SaveStepLocal DEF BeginSave
  <2>6. CASE RecordProgress(p)
    BY <2>6, RunPcMembers, EventMembers, LogStepLocal DEF RecordProgress
  <2>7. CASE SuccGet(p)
    <3>1. pc[p] \in RunPcs
      BY <2>7, RunPcMembers DEF SuccGet
    <3>2. runs[run[p]].status # "absent"
      BY <3>1, ReadRow, StatusMembers
    <3> QED
      BY <2>7, <3>1, <3>2, RunPcMembers, KeepLocal DEF SuccGet, LocalOnly
  <2>8. CASE SummaryLog(p)
    <3> DEFINE rec == [copy[p] EXCEPT !.summaries = @ + 1]
    <3>1. pc[p] \in RunPcs /\ copy[p].status # "absent" /\ copy[p] \in RunRecord
      BY <2>8, AtHand, RunPcMembers, CopyPcMembers DEF SummaryLog, Whole
    <3>2. copy[p].conversation = runs[run[p]].conversation
      BY <3>1 DEF Whole, LocalInv, LocalOK
    <3>3. rec.status # "absent" /\ rec.conversation = runs[run[p]].conversation
      BY <3>1, <3>2, WithSummary
    <3> QED
      BY <2>8, <3>1, <3>3, RunPcMembers, KeepLocal, EventMembers DEF SummaryLog
  <2>9. CASE SummarySave(p)
    <3>1. pc[p] \in RunPcs /\ pc[p] \in CopyPcs /\ LocalOK(p)
      BY <2>9, RunPcMembers, CopyPcMembers DEF SummarySave, Whole, LocalInv
    <3>2. TableInv' /\ RunsKept
      BY <2>9, <3>1, TableSave DEF SummarySave, Whole
    <3>3. /\ copy[p].status # "absent" /\ copy[p] \in RunRecord
          /\ copy[p].conversation = runs[run[p]].conversation
      BY <3>1, AtHand DEF LocalOK, Whole
    <3>4. ASSUME NEW rec, NEW l \in {"summary_log", "succ_message", "succ_log"},
                 Goto(p, l), Keep(p, rec), rec.status # "absent",
                 rec.conversation = copy[p].conversation
          PROVE  LocalInv'
      <4>1. OthersSame(p) /\ pc'[p] = l /\ run'[p] = run[p] /\ copy'[p] = rec
        BY <2>9, <3>4, KeepLocals DEF SummarySave, Whole
      <4>2. LocalOK(p)'
        BY <3>1, <3>2, <3>3, <3>4, <4>1, LocalKeep, RunPcMembers DEF Whole
      <4> QED
        BY <3>2, <4>1, <4>2, Combine DEF Whole
    <3>5. CASE Goto(p, "summary_log") /\ UNCHANGED copy
      <4>1. Keep(p, copy[p])
        BY <3>5 DEF Keep, Whole, TypeOK
      <4> QED
        BY <3>2, <3>3, <3>4, <3>5, <4>1
    <3>6. CASE \E x \in {"answer", "none"}, l \in {"succ_message", "succ_log"} :
                 Goto(p, l) /\ Keep(p, [copy[p] EXCEPT !.reply = x])
      <4>1. PICK x \in {"answer", "none"}, l \in {"succ_message", "succ_log"} :
              Goto(p, l) /\ Keep(p, [copy[p] EXCEPT !.reply = x])
        BY <3>6
      <4> DEFINE rec == [copy[p] EXCEPT !.reply = x]
      <4>2. rec.status = copy[p].status /\ rec.conversation = copy[p].conversation
        BY <3>3, <4>1, WithReply
      <4>3. Goto(p, l) /\ Keep(p, rec)
        BY <4>1
      <4> HIDE DEF rec
      <4>4. LocalInv'
        BY <3>3, <3>4, <4>1, <4>2, <4>3
      <4> QED
        BY <3>2, <4>4
    <3> QED
      BY <2>9, <3>5, <3>6 DEF SummarySave
  <2>10. CASE SuccMessage(p)
    BY <2>10, RunPcMembers, CopyPcMembers, MessageStepLocal DEF SuccMessage
  <2>11. CASE SuccMessageLog(p)
    BY <2>11, RunPcMembers, CopyPcMembers, EventMembers, LogStepLocal DEF SuccMessageLog
  <2>12. CASE SuccLog(p)
    <3> DEFINE rec == [copy[p] EXCEPT !.status = "completed"]
    <3>1. pc[p] \in RunPcs /\ copy[p].status # "absent" /\ copy[p] \in RunRecord
      BY <2>12, AtHand, RunPcMembers, CopyPcMembers DEF SuccLog, Whole
    <3>2. copy[p].conversation = runs[run[p]].conversation
      BY <3>1 DEF Whole, LocalInv, LocalOK
    <3>3. rec.status # "absent" /\ rec.conversation = runs[run[p]].conversation
      BY <3>1, <3>2, WithStatus, StatusMembers
    <3> QED
      BY <2>12, <3>1, <3>3, RunPcMembers, KeepLocal, EventMembers DEF SuccLog
  <2>13. CASE SuccSave(p)
    BY <2>13, RunPcMembers, CopyPcMembers, SaveStepLocal DEF SuccSave
  <2>14. CASE FailGet(p)
    <3>1. pc[p] \in RunPcs /\ runs[run[p]] \in RunRecord
      BY <2>14, AtHand, RunPcMembers DEF FailGet, Whole
    <3> DEFINE rec  == [runs[run[p]] EXCEPT !.status = "failed"]
               rec2 == [runs[run[p]] EXCEPT !.status = "failed", !.reply = "failure"]
    <3>2. /\ rec.status # "absent" /\ rec.conversation = runs[run[p]].conversation
          /\ rec2.status # "absent" /\ rec2.conversation = runs[run[p]].conversation
      BY <3>1 DEF RunRecord
    <3> QED
      BY <2>14, <3>1, <3>2, RunPcMembers, KeepLocal DEF FailGet, LocalOnly
  <2>15. CASE FailMessage(p)
    BY <2>15, RunPcMembers, CopyPcMembers, MessageStepLocal DEF FailMessage
  <2>16. CASE FailLog(p)
    BY <2>16, RunPcMembers, CopyPcMembers, EventMembers, LogStepLocal DEF FailLog
  <2>17. CASE FailSave(p)
    BY <2>17, RunPcMembers, CopyPcMembers, SaveStepLocal DEF FailSave
  <2>18. CASE Release(p)
    BY <2>18, LeaveLocal DEF Release
  <2> QED
    BY <1>6, <2>1, <2>2, <2>3, <2>4, <2>5, <2>6, <2>7, <2>8, <2>9, <2>10, <2>11, <2>12,
       <2>13, <2>14, <2>15, <2>16, <2>17, <2>18 DEF Executing
<1>7. ASSUME NEW p \in Procs, Cancelling(p)
      PROVE  TableInv' /\ LocalInv' /\ RunsKept
  <2>1. CASE CancelGet(p)
    <3>1. pc[p] \in RunPcs
      BY <2>1, RunPcMembers DEF CancelGet
    <3> DEFINE rec == [runs[run[p]] EXCEPT !.status = "cancelled"]
    <3>2. rec.status # "absent" /\ rec.conversation = runs[run[p]].conversation
      BY <3>1, ReadRow, StatusMembers
    <3> QED
      BY <2>1, <3>1, <3>2, RunPcMembers, KeepLocal, LeaveLocal DEF CancelGet, LocalOnly
  <2>2. CASE CancelLog(p)
    BY <2>2, RunPcMembers, CopyPcMembers, EventMembers, LogStepLocal DEF CancelLog
  <2>3. CASE CancelSave(p)
    BY <2>3, RunPcMembers, CopyPcMembers, SaveStepLocal DEF CancelSave
  <2> QED
    BY <1>7, <2>1, <2>2, <2>3 DEF Cancelling
<1>8. ASSUME NEW w \in Workers, NEW r \in Runs, TakeTask(w, r)
      PROVE  TableInv' /\ LocalInv' /\ RunsKept
  <2>1. copy[w].status = "absent" /\ copy[w].reply = "none"
    BY <1>8, Idle, PcAt DEF TakeTask
  <2>2. OthersSame(w) /\ run'[w] = r /\ copy'[w] = copy[w] /\ pc'[w] = "exec_get"
    BY <1>8 DEF TakeTask, Goto, OthersSame, Same, Whole, TypeOK
  <2>3. r <= created
    BY <1>8 DEF TakeTask, Whole, TypeOK, TableInv
  <2>4. \A q \in Runs : q > created => tasks'[q] = tasks[q]
    BY <1>8, <2>3 DEF TakeTask, Whole, TypeOK
  <2>5. TableInv' /\ RunsKept /\ r <= created'
    BY <1>8, <2>3, <2>4, TableKept DEF TakeTask, Whole
  <2> QED
    BY <2>1, <2>2, <2>5, PcAt, TakeLocal
<1>9. ASSUME NEW p \in StreamRequests, Disconnect(p)
      PROVE  TableInv' /\ LocalInv' /\ RunsKept
  BY <1>9, LeaveLocal DEF Disconnect, LocalOnly
<1>10. CASE ApiCrash
  <2>1. TableInv' /\ RunsKept
    BY <1>10, TableKept DEF ApiCrash, Whole
  <2>2. ASSUME NEW q \in Procs PROVE LocalOK(q)'
    <3>1. CASE q \in Requests
      <4>1. /\ run'[q] = 0 /\ copy'[q] = NoRun /\ pc'[q] \in {"ready", "done"}
        BY <1>10, <3>1 DEF ApiCrash
      <4>2. pc'[q] \notin RunPcs \cup CopyPcs \cup {"start_message", "start_status", "start_create"}
        BY <4>1 DEF RunPcs, CopyPcs
      <4> QED
        BY <2>1, <4>1, <4>2, NoRunType DEF LocalOK, RunsKept
    <3>2. CASE q \notin Requests
      BY <1>10, <2>1, <3>2, LocalFrame DEF ApiCrash, Same, Whole, LocalInv
    <3> QED
      BY <3>1, <3>2
  <2> QED
    BY <2>1, <2>2 DEF LocalInv
<1>11. ASSUME NEW w \in Workers, WorkerCrash(w)
       PROVE  TableInv' /\ LocalInv' /\ RunsKept
  BY <1>11, LeaveLocal DEF WorkerCrash
<1> QED
  BY <1>1, <1>2, <1>3, <1>4, <1>5, <1>6, <1>7, <1>8, <1>9, <1>10, <1>11
  DEF Next, Arrive, Proceed, Take, Fault

(***************************************************************************)
(* Events and messages are only added.                                     *)
(***************************************************************************)
LogKept  == \A r \in Runs, e \in EventTypes : Logged(r, e) => Logged(r, e)'
SaidKept == \A c \in Conversations, k \in {"answer", "failure"}, r \in Runs :
              Said(c, k, r) => Said(c, k, r)'

\* After an append a run has logged what it had, and the new event.
LEMMA AppendLogged ==
    ASSUME TypeOK, NEW r \in Runs, NEW e \in EventTypes, AppendEvent(r, e)
    PROVE  \A q \in Runs, x \in EventTypes :
             Logged(q, x)' <=> Logged(q, x) \/ (q = r /\ x = e)
<1>1. \A q \in Runs : log[q] \in Seq(EventTypes)
                      /\ log'[q] = IF q = r THEN Append(log[r], e) ELSE log[q]
  BY DEF TypeOK, AppendEvent
<1>2. ASSUME NEW q \in Runs, NEW x \in EventTypes
      PROVE  Logged(q, x)' <=> Logged(q, x) \/ (q = r /\ x = e)
  <2>1. CASE q # r
    BY <1>1, <2>1 DEF Logged
  <2>2. CASE q = r
    <3>1. log'[q] = Append(log[q], e) /\ log[q] \in Seq(EventTypes)
      BY <1>1, <2>2
    <3>2. Len(log'[q]) = Len(log[q]) + 1 /\ log'[q][Len(log[q]) + 1] = e
          /\ \A i \in 1 .. Len(log[q]) : log'[q][i] = log[q][i]
      BY <3>1
    <3>3. DOMAIN log[q] = 1 .. Len(log[q]) /\ DOMAIN log'[q] = 1 .. Len(log'[q])
          /\ Len(log[q]) \in Nat
      BY <3>1
    <3>4. /\ \A i \in DOMAIN log[q] : i \in DOMAIN log'[q] /\ log'[q][i] = log[q][i]
          /\ Len(log[q]) + 1 \in DOMAIN log'[q]
          /\ log'[q][Len(log[q]) + 1] = e
          /\ \A i \in DOMAIN log'[q] : i \in DOMAIN log[q] \/ i = Len(log[q]) + 1
      BY <3>2, <3>3
    <3> QED
      BY <2>2, <3>4 DEF Logged
  <2> QED
    BY <2>1, <2>2
<1> QED
  BY <1>2

\* After an append a conversation says what it said, and the new message.
LEMMA AppendSaid ==
    ASSUME TypeOK, NEW c \in Conversations, NEW m \in Message,
           transcript' = [transcript EXCEPT ![c] = Append(@, m)]
    PROVE  \A d \in Conversations, k \in {"answer", "failure"}, r \in Runs :
             Said(d, k, r)' <=> Said(d, k, r) \/ (d = c /\ m = [kind |-> k, run |-> r])
<1>1. \A d \in Conversations : transcript[d] \in Seq(Message)
        /\ transcript'[d] = IF d = c THEN Append(transcript[c], m) ELSE transcript[d]
  BY DEF TypeOK
<1>2. ASSUME NEW d \in Conversations, NEW k \in {"answer", "failure"}, NEW r \in Runs
      PROVE  Said(d, k, r)' <=> Said(d, k, r) \/ (d = c /\ m = [kind |-> k, run |-> r])
  <2>1. CASE d # c
    BY <1>1, <2>1 DEF Said
  <2>2. CASE d = c
    <3>1. transcript'[d] = Append(transcript[d], m) /\ transcript[d] \in Seq(Message)
      BY <1>1, <2>2
    <3>2. Len(transcript'[d]) = Len(transcript[d]) + 1
          /\ transcript'[d][Len(transcript[d]) + 1] = m
          /\ \A i \in 1 .. Len(transcript[d]) : transcript'[d][i] = transcript[d][i]
      BY <3>1
    <3>3. DOMAIN transcript[d] = 1 .. Len(transcript[d])
          /\ DOMAIN transcript'[d] = 1 .. Len(transcript'[d])
          /\ Len(transcript[d]) \in Nat
      BY <3>1
    <3>4. /\ \A i \in DOMAIN transcript[d] : i \in DOMAIN transcript'[d] /\ transcript'[d][i] = transcript[d][i]
          /\ Len(transcript[d]) + 1 \in DOMAIN transcript'[d]
          /\ transcript'[d][Len(transcript[d]) + 1] = m
          /\ \A i \in DOMAIN transcript'[d] : i \in DOMAIN transcript[d] \/ i = Len(transcript[d]) + 1
      BY <3>2, <3>3
    <3> QED
      BY <2>2, <3>4 DEF Said
  <2> QED
    BY <2>1, <2>2
<1> QED
  BY <1>2

\* An unchanged log loses no event.
LEMMA LogStays == ASSUME UNCHANGED log PROVE LogKept
  BY DEF LogKept, Logged

\* An unchanged transcript loses no message.
LEMMA SaidStays == ASSUME UNCHANGED transcript PROVE SaidKept
  BY DEF SaidKept, Said

\* An append to the log loses no event.
LEMMA LogGrows ==
    ASSUME TypeOK, NEW r \in Runs, NEW e \in EventTypes, AppendEvent(r, e)
    PROVE  LogKept
  BY AppendLogged DEF LogKept

\* An append to a transcript loses no message.
LEMMA SaidGrows ==
    ASSUME TypeOK, NEW c \in Conversations, NEW m \in Message,
           transcript' = [transcript EXCEPT ![c] = Append(@, m)]
    PROVE  SaidKept
<1>1. \A d \in Conversations, k \in {"answer", "failure"}, r \in Runs :
        Said(d, k, r)' <=> Said(d, k, r) \/ (d = c /\ m = [kind |-> k, run |-> r])
  BY AppendSaid
<1> QED
  BY <1>1, Zenon DEF SaidKept

(***************************************************************************)
(* The record never runs ahead of the log and of the transcript.           *)
(***************************************************************************)
Kept(p) == CopyStatusOK(p) /\ CopyReplyOK(p)
Truth   == StatusIsLogged /\ ReplyInTranscript
Copies  == \A p \in Procs : Kept(p)

\* The control points whose process has an event or a message to add first.
Pending == {"begin_log", "fail_message", "fail_log", "cancel_log", "succ_message"}

\* The event of each status.
LEMMA StatusEventValues ==
    /\ \A s \in RunStatuses : StatusEvent(s) \in EventTypes
    /\ StatusEvent("running") = "running" /\ StatusEvent("completed") = "completed"
    /\ StatusEvent("failed") = "error" /\ StatusEvent("cancelled") = "cancelled"
  BY DEF StatusEvent, EventTypes, RunStatuses, ActiveStatuses, TerminalStatuses

\* Unchanged records stay explained as log and transcripts grow.
LEMMA TruthFrame ==
    ASSUME TypeOK, Truth, LogKept, SaidKept, UNCHANGED runs
    PROVE  Truth'
<1>1. \A r \in Runs : /\ runs[r].status \in RunStatuses \cup {"absent"}
                      /\ runs[r].reply \in {"none", "answer", "failure"}
  BY RecordTypes DEF TypeOK
<1>2. StatusIsLogged'
  BY <1>1, StatusEventValues DEF Truth, StatusIsLogged, LogKept
<1>3. ReplyInTranscript'
  BY <1>1 DEF Truth, ReplyInTranscript, SaidKept
<1> QED
  BY <1>2, <1>3 DEF Truth

\* An unchanged copy stays explained as log and transcripts grow.
LEMMA KeptFrame ==
    ASSUME Whole, NEW q \in Procs, Kept(q), Same(q), LogKept, SaidKept
    PROVE  Kept(q)'
<1>1. /\ copy[q].status \in RunStatuses \cup {"absent"}
      /\ copy[q].reply \in {"none", "answer", "failure"}
      /\ copy[q].status # "absent" =>
           run[q] \in Runs /\ copy[q].conversation \in Conversations
      /\ copy[q].reply # "none" => copy[q].status # "absent"
  BY RecordTypes, AtHand DEF Whole, TypeOK, LocalInv, LocalOK
<1>2. CopyStatusOK(q)'
  BY <1>1, StatusEventValues DEF Kept, CopyStatusOK, Same, LogKept
<1>3. CopyReplyOK(q)'
  BY <1>1 DEF Kept, CopyReplyOK, Same, SaidKept
<1> QED
  BY <1>2, <1>3 DEF Kept

\* A process without a copy has nothing to explain.
LEMMA KeptBlank ==
    ASSUME NEW q \in Procs, copy'[q].status = "absent", copy'[q].reply = "none",
           pc'[q] \notin Pending
    PROVE  Kept(q)'
  BY DEF Kept, CopyStatusOK, CopyReplyOK, Pending

\* A process that goes on, its copy being already logged and said.
LEMMA KeptOn ==
    ASSUME Whole, NEW p \in Procs, Kept(p), pc[p] \notin Pending, pc'[p] \notin Pending,
           run'[p] = run[p], copy'[p] = copy[p], LogKept, SaidKept
    PROVE  Kept(p)'
<1>1. /\ copy[p].status \in RunStatuses \cup {"absent"}
      /\ copy[p].reply \in {"none", "answer", "failure"}
      /\ copy[p].status # "absent" =>
           run[p] \in Runs /\ copy[p].conversation \in Conversations
      /\ copy[p].reply # "none" => copy[p].status # "absent"
  BY RecordTypes, AtHand DEF Whole, TypeOK, LocalInv, LocalOK
<1>2. CopyStatusOK(p)'
  BY <1>1, StatusEventValues DEF Kept, CopyStatusOK, LogKept, Pending
<1>3. CopyReplyOK(p)'
  BY <1>1 DEF Kept, CopyReplyOK, SaidKept, Pending
<1> QED
  BY <1>2, <1>3 DEF Kept

\* If a step of p leaves p's copy explained, it leaves all copies explained.
LEMMA CopiesCombine ==
    ASSUME Whole, Copies, NEW p \in Procs, OthersSame(p), Kept(p)', LogKept, SaidKept
    PROVE  Copies'
<1>1. ASSUME NEW q \in Procs, q # p PROVE Kept(q)'
  BY <1>1, KeptFrame DEF OthersSame, Copies
<1> QED
  BY <1>1 DEF Copies

\* A save writes a copy that is already logged and said.
LEMMA TruthSave ==
    ASSUME Whole, Truth, NEW p \in Procs, Kept(p), pc[p] \in CopyPcs \ Pending, Save(p),
           UNCHANGED <<log, transcript>>
    PROVE  Truth'
<1>1. run[p] \in Runs /\ copy[p].conversation \in Conversations
  BY AtHand DEF Whole, LocalInv, LocalOK
<1>2. \A r \in Runs : runs'[r] = IF r = run[p] THEN copy[p] ELSE runs[r]
  BY <1>1 DEF Save, Whole, TypeOK
<1>3. /\ copy[p].status \in {"absent", "queued"} \/ Logged(run[p], StatusEvent(copy[p].status))
      /\ copy[p].reply = "none" \/ Said(copy[p].conversation, copy[p].reply, run[p])
  BY DEF Kept, CopyStatusOK, CopyReplyOK, Pending
<1>4. StatusIsLogged'
  BY <1>2, <1>3 DEF Truth, StatusIsLogged, Logged
<1>5. ReplyInTranscript'
  BY <1>1, <1>2, <1>3 DEF Truth, ReplyInTranscript, Said
<1> QED
  BY <1>4, <1>5 DEF Truth

(* The same shapes of step as above. *)

Explained == Truth' /\ Copies'

\* An append of an event that no copy waits for.
LEMMA LogStepKept ==
    ASSUME Whole, Truth, Copies, NEW p \in Procs, NEW at \in RunPcs, NEW l,
           at \notin Pending, l \notin Pending,
           NEW e \in EventTypes, LogStep(p, at, e, l)
    PROVE  Explained
<1>1. run[p] \in Runs /\ pc[p] = at
  BY AtHand DEF Whole, LogStep
<1>2. LogKept /\ SaidKept /\ UNCHANGED runs
  BY <1>1, LogGrows, SaidStays DEF Whole, LogStep, table
<1>3. OthersSame(p) /\ pc'[p] = l /\ run'[p] = run[p] /\ copy'[p] = copy[p]
  BY GotoLocals DEF Whole, LogStep
<1>4. Kept(p)'
  BY <1>1, <1>2, <1>3, KeptOn DEF Copies
<1> QED
  BY <1>2, <1>3, <1>4, TruthFrame, CopiesCombine DEF Whole, Explained

\* The append of the event that the copy's status waits for.
LEMMA LogStatusKept ==
    ASSUME Whole, Truth, Copies, NEW p \in Procs,
           NEW at \in {"begin_log", "fail_log", "cancel_log"},
           NEW e \in {"running", "error", "cancelled"},
           pc[p] = at => copy[p].status # "absent" /\ StatusEvent(copy[p].status) = e,
           NEW l, l \notin Pending, LogStep(p, at, e, l)
    PROVE  Explained
<1>1. run[p] \in Runs /\ pc[p] = at /\ e \in EventTypes
  BY AtHand, RunPcMembers, EventMembers DEF Whole, LogStep
<1>2. LogKept /\ SaidKept /\ UNCHANGED runs
  BY <1>1, LogGrows, SaidStays DEF Whole, LogStep, table
<1>3. OthersSame(p) /\ pc'[p] = l /\ run'[p] = run[p] /\ copy'[p] = copy[p]
  BY GotoLocals DEF Whole, LogStep
<1>4. Logged(run[p], StatusEvent(copy[p].status))'
  <2>1. Logged(run[p], e)'
    <3>1. \A q \in Runs, x \in EventTypes :
            Logged(q, x)' <=> Logged(q, x) \/ (q = run[p] /\ x = e)
      BY <1>1, AppendLogged DEF Whole, LogStep
    <3> QED
      BY <1>1, <1>3, <3>1
  <2> QED
    BY <1>1, <1>3, <2>1 DEF Logged
<1>5. CopyStatusOK(p)'
  BY <1>3, <1>4 DEF CopyStatusOK, Logged, Pending
<1>6. CopyReplyOK(p)'
  BY <1>1, <1>2, <1>3 DEF Copies, Kept, CopyReplyOK, LogStep, table, Pending, Said
<1> QED
  BY <1>2, <1>3, <1>5, <1>6, TruthFrame, CopiesCombine DEF Whole, Explained, Kept

\* A save of the copy.
LEMMA SaveStepKept ==
    ASSUME Whole, Truth, Copies, NEW p \in Procs, NEW at \in CopyPcs \ Pending,
           NEW l, l \notin Pending, SaveStep(p, at, l)
    PROVE  Explained
<1>1. Kept(p) /\ pc[p] = at /\ UNCHANGED <<log, transcript>>
  BY DEF Copies, SaveStep, table
<1>2. LogKept /\ SaidKept
  BY <1>1, LogStays, SaidStays
<1>3. OthersSame(p) /\ pc'[p] = l /\ run'[p] = run[p] /\ copy'[p] = copy[p]
  BY GotoLocals DEF Whole, SaveStep
<1>4. Kept(p)'
  BY <1>1, <1>2, <1>3, KeptOn
<1>5. Truth'
  BY <1>1, TruthSave DEF SaveStep
<1> QED
  BY <1>2, <1>3, <1>4, <1>5, CopiesCombine DEF Explained

\* A step that leaves runs, log and transcript alone and its process without
\* a copy, or with the one it had.
LEMMA LeaveKept ==
    ASSUME Whole, Truth, Copies, NEW p \in Procs, Return(p), UNCHANGED <<runs, log, transcript>>
    PROVE  Explained
<1>1. LogKept /\ SaidKept
  BY LogStays, SaidStays
<1>2. OthersSame(p) /\ Gone(p)
  BY ReturnLocals DEF Whole
<1>3. Kept(p)'
  BY <1>2, KeptBlank, NoRunType DEF Gone, Pending
<1> QED
  BY <1>1, <1>2, <1>3, TruthFrame, CopiesCombine DEF Whole, Explained

\* A step that only moves its process on.
LEMMA HopKept ==
    ASSUME Whole, Truth, Copies, NEW p \in Procs, NEW l, pc[p] \notin Pending,
           l \notin Pending, Goto(p, l), LocalsKept, UNCHANGED <<runs, log, transcript>>
    PROVE  Explained
<1>1. LogKept /\ SaidKept
  BY LogStays, SaidStays
<1>2. OthersSame(p) /\ pc'[p] = l /\ run'[p] = run[p] /\ copy'[p] = copy[p]
  BY GotoLocals DEF Whole
<1>3. Kept(p)'
  BY <1>1, <1>2, KeptOn DEF Copies
<1> QED
  BY <1>1, <1>2, <1>3, TruthFrame, CopiesCombine DEF Whole, Explained

\* A step of a process that has no copy and gets none.
LEMMA NoCopyKept ==
    ASSUME Whole, Copies, Truth', NEW p \in Procs, pc[p] \notin RunPcs,
           OthersSame(p), pc'[p] \notin Pending, copy'[p] = copy[p], LogKept, SaidKept
    PROVE  Explained
<1>1. Kept(p)'
  BY Idle, KeptBlank
<1> QED
  BY <1>1, CopiesCombine DEF Explained

\* A step that only loads a new copy, one that is right at its control point.
LEMMA KeepKept ==
    ASSUME Whole, Truth, Copies, NEW p \in Procs, NEW l, NEW rec, Goto(p, l), Keep(p, rec),
           UNCHANGED <<run, target, runs, log, transcript>>,
           \/ l \notin Pending /\ (rec.status = "queued" \/ Logged(run[p], StatusEvent(rec.status)))
           \/ l = "begin_log" /\ rec.status = "running"
           \/ l \in {"fail_message", "fail_log"} /\ rec.status = "failed"
           \/ l = "cancel_log" /\ rec.status = "cancelled",
           \/ l # "fail_message" /\ (rec.reply = "none" \/ Said(rec.conversation, rec.reply, run[p]))
           \/ l = "fail_message" /\ rec.reply = "failure"
    PROVE  Explained
<1>1. LogKept /\ SaidKept
  BY LogStays, SaidStays
<1>2. OthersSame(p) /\ pc'[p] = l /\ run'[p] = run[p] /\ copy'[p] = rec
  BY KeepLocals DEF Whole
<1>3. l # "succ_message"
  BY DEF Pending
<1>4. CopyStatusOK(p)'
  BY <1>2, <1>3 DEF CopyStatusOK, Logged, Pending
<1>5. CopyReplyOK(p)'
  BY <1>2, <1>3 DEF CopyReplyOK, Said, Pending
<1> QED
  BY <1>1, <1>2, <1>4, <1>5, TruthFrame, CopiesCombine DEF Whole, Explained, Kept

\* The message that the copy's reply waits for.
LEMMA ReplyKept ==
    ASSUME Whole, Truth, Copies, NEW p \in Procs,
           NEW at \in {"succ_message", "fail_message"},
           NEW l \in {"succ_message_log", "fail_log"},
           at = "fail_message" <=> l = "fail_log",
           NEW k \in {"answer", "failure"}, k = "answer" <=> at = "succ_message",
           MessageStep(p, at, copy[p].conversation, [kind |-> k, run |-> run[p]], l)
    PROVE  Explained
<1> DEFINE c == copy[p].conversation
           m == [kind |-> k, run |-> run[p]]
<1>1. /\ run[p] \in Runs /\ pc[p] = at /\ c \in Conversations /\ Kept(p)
      /\ m \in Message
  BY AtHand, RunPcMembers, CopyPcMembers DEF Whole, MessageStep, Copies, Message
<1>2. CASE c \in deleted
  BY <1>2, LeaveKept DEF MessageStep
<1>3. CASE c \notin deleted
  <2>1. transcript' = [transcript EXCEPT ![c] = Append(@, m)] /\ UNCHANGED <<runs, log>>
        /\ Goto(p, l) /\ LocalsKept
    BY <1>3 DEF MessageStep
  <2>2. LogKept /\ SaidKept
    BY <1>1, <2>1, LogStays, SaidGrows DEF Whole
  <2>3. OthersSame(p) /\ pc'[p] = l /\ run'[p] = run[p] /\ copy'[p] = copy[p]
    BY <2>1, GotoLocals DEF Whole
  <2>4. copy[p].reply = k
    BY <1>1 DEF Kept, CopyReplyOK
  <2>5. Said(c, k, run[p])'
    <3>1. \A d \in Conversations, x \in {"answer", "failure"}, r \in Runs :
            Said(d, x, r)' <=> Said(d, x, r) \/ (d = c /\ m = [kind |-> x, run |-> r])
      BY <1>1, <2>1, AppendSaid DEF Whole
    <3> QED
      BY <1>1, <2>3, <3>1
  <2>6. CopyReplyOK(p)'
    BY <2>3, <2>4, <2>5 DEF CopyReplyOK, Said
  <2>7. CopyStatusOK(p)'
    BY <1>1, <2>1, <2>3 DEF Kept, CopyStatusOK, Logged
  <2> QED
    BY <2>1, <2>2, <2>3, <2>6, <2>7, TruthFrame, CopiesCombine DEF Whole, Explained, Kept
<1> QED
  BY <1>2, <1>3

\* A step that logs an event and changes the copy, to what is logged by then.
LEMMA KeepLogKept ==
    ASSUME Whole, Truth, Copies, NEW p \in Procs, pc[p] \in RunPcs \ Pending,
           NEW l, l \notin Pending, NEW e \in EventTypes, NEW rec,
           Goto(p, l), Keep(p, rec), AppendEvent(run[p], e),
           UNCHANGED <<run, target, runs, transcript>>,
           copy[p].status # "absent",
           rec.status = copy[p].status \/ StatusEvent(rec.status) = e,
           rec.reply = copy[p].reply, rec.conversation = copy[p].conversation
    PROVE  Explained
<1>1. run[p] \in Runs /\ Kept(p)
  BY AtHand DEF Whole, Copies
<1>2. LogKept /\ SaidKept
  BY <1>1, LogGrows, SaidStays DEF Whole
<1>3. OthersSame(p) /\ pc'[p] = l /\ run'[p] = run[p] /\ copy'[p] = rec
  BY KeepLocals DEF Whole
<1>4. \A q \in Runs, x \in EventTypes :
        Logged(q, x)' <=> Logged(q, x) \/ (q = run[p] /\ x = e)
  BY <1>1, AppendLogged DEF Whole
<1>5. copy[p].status \in RunStatuses
  BY RecordTypes DEF Whole, TypeOK
<1>6. rec.status = "queued" \/ Logged(run[p], StatusEvent(rec.status))'
  <2>1. CASE rec.status = copy[p].status
    <3>1. copy[p].status = "queued" \/ Logged(run[p], StatusEvent(copy[p].status))
      BY <1>1 DEF Kept, CopyStatusOK, Pending
    <3>2. StatusEvent(copy[p].status) \in EventTypes
      BY <1>5, StatusEventValues
    <3> QED
      BY <1>1, <1>4, <2>1, <3>1, <3>2
  <2>2. CASE StatusEvent(rec.status) = e
    BY <1>1, <1>4, <2>2
  <2> QED
    BY <2>1, <2>2
<1>7. CopyStatusOK(p)'
  BY <1>3, <1>6 DEF CopyStatusOK, Logged, Pending
<1>8. CopyReplyOK(p)'
  BY <1>1, <1>3 DEF Kept, CopyReplyOK, Said, Pending
<1> QED
  BY <1>2, <1>3, <1>7, <1>8, TruthFrame, CopiesCombine DEF Whole, Explained, Kept

\* The control points at which no event or message is due.
LEMMA PendingMembers ==
    {"start_log", "mark_get", "mark_log", "mark_save", "publish", "exec_get",
     "exec_setup", "begin_get", "begin_save", "runner", "succ_get", "summary_log",
     "summary_save", "succ_message_log", "succ_log", "succ_save", "fail_get",
     "fail_save", "cancel_get", "cancel_save", "release", "ready", "idle", "done",
     "start_message", "start_status", "start_create", "raised"} \cap Pending = {}
  BY DEF Pending

\* Every step leaves records and copies explained by log and transcripts.
LEMMA TruthStep ==
    ASSUME Whole, Truth, Copies, Next
    PROVE  Explained
<1> USE Constants DEF Requests, StartRequests
<1>1. ASSUME NEW p \in StartRequests, NEW c \in Conversations, StartCheck(p, c)
      PROVE  Explained
  <2>1. CASE c \in deleted \/ HasActiveRun(c)
    BY <1>1, <2>1, LeaveKept DEF StartCheck, LocalOnly, table
  <2>2. CASE ~(c \in deleted \/ HasActiveRun(c))
    <3>1. OthersSame(p) /\ copy'[p] = copy[p] /\ pc'[p] = "start_message"
      BY <1>1, <2>2 DEF StartCheck, Goto, OthersSame, Same, Whole, TypeOK
    <3>2. LogKept /\ SaidKept /\ UNCHANGED runs /\ pc[p] \notin RunPcs
      BY <1>1, LogStays, SaidStays, PcAt DEF StartCheck, LocalOnly, table
    <3> QED
      BY <3>1, <3>2, PendingMembers, NoCopyKept, TruthFrame DEF Whole
  <2> QED
    BY <2>1, <2>2
<1>2. ASSUME NEW p \in CancelRequests, NEW r \in Runs, CancelStart(p, r)
      PROVE  Explained
  <2>1. OthersSame(p) /\ copy'[p] = copy[p] /\ pc'[p] = "cancel_get"
    BY <1>2 DEF CancelStart, Goto, OthersSame, Same, Whole, TypeOK
  <2>2. LogKept /\ SaidKept /\ UNCHANGED runs /\ pc[p] \notin RunPcs
    BY <1>2, LogStays, SaidStays, PcAt DEF CancelStart, LocalOnly, table
  <2> QED
    BY <2>1, <2>2, PendingMembers, NoCopyKept, TruthFrame DEF Whole
<1>3. ASSUME NEW p \in StopRequests, NEW c \in Conversations, StopStart(p, c)
      PROVE  Explained
  <2>1. CASE c \in deleted \/ ~HasActiveRun(c)
    BY <1>3, <2>1, LeaveKept DEF StopStart, LocalOnly, table
  <2>2. CASE ~(c \in deleted \/ ~HasActiveRun(c))
    <3>1. PICK r \in Runs : run' = [run EXCEPT ![p] = r]
                            /\ Goto(p, "cancel_get") /\ UNCHANGED <<target, copy>>
      BY <1>3, <2>2 DEF StopStart
    <3>2. OthersSame(p) /\ copy'[p] = copy[p] /\ pc'[p] = "cancel_get"
      BY <3>1 DEF Goto, OthersSame, Same, Whole, TypeOK
    <3>3. LogKept /\ SaidKept /\ UNCHANGED runs /\ pc[p] \notin RunPcs
      BY <1>3, LogStays, SaidStays, PcAt DEF StopStart, LocalOnly, table
    <3> QED
      BY <3>2, <3>3, PendingMembers, NoCopyKept, TruthFrame DEF Whole
  <2> QED
    BY <2>1, <2>2
<1>4. ASSUME NEW p \in DeleteRequests, NEW c \in Conversations, Delete(p, c)
      PROVE  Explained
  BY <1>4, LeaveKept DEF Delete
<1>5. ASSUME NEW p \in Procs, Starting(p)
      PROVE  Explained
  <2>1. CASE StartMessage(p)
    <3>1. pc[p] \notin RunPcs /\ target[p] \in Conversations
          /\ [kind |-> "question", run |-> 0] \in Message
      BY <2>1, PcAt, AtHand DEF StartMessage, MessageStep, Message, Whole
    <3>2. CASE target[p] \in deleted
      BY <2>1, <3>2, LeaveKept DEF StartMessage, MessageStep
    <3>3. CASE target[p] \notin deleted
      <4>1. OthersSame(p) /\ copy'[p] = copy[p] /\ pc'[p] = "start_status"
        BY <2>1, <3>3, GotoLocals DEF StartMessage, MessageStep, Whole
      <4>2. transcript' = [transcript EXCEPT ![target[p]] =
                             Append(@, [kind |-> "question", run |-> 0])]
            /\ UNCHANGED <<runs, log>>
        BY <2>1, <3>3 DEF StartMessage, MessageStep
      <4>3. LogKept /\ SaidKept
        BY <3>1, <4>2, LogStays, SaidGrows DEF Whole
      <4> QED
        BY <3>1, <4>1, <4>2, <4>3, PendingMembers, NoCopyKept, TruthFrame DEF Whole
    <3> QED
      BY <3>2, <3>3
  <2>2. CASE StartStatus(p)
    <3>1. CASE target[p] \in deleted
      BY <2>2, <3>1, LeaveKept DEF StartStatus
    <3>2. CASE target[p] \notin deleted
      <4>1. OthersSame(p) /\ copy'[p] = copy[p] /\ pc'[p] = "start_create"
        BY <2>2, <3>2, GotoLocals DEF StartStatus, Whole
      <4>2. LogKept /\ SaidKept /\ UNCHANGED runs /\ pc[p] \notin RunPcs
        BY <2>2, LogStays, SaidStays, PcAt DEF StartStatus
      <4> QED
        BY <4>1, <4>2, PendingMembers, NoCopyKept, TruthFrame DEF Whole
    <3> QED
      BY <3>1, <3>2
  <2>3. CASE StartCreate(p)
    <3>1. target[p] \in Conversations /\ pc[p] \notin RunPcs
          /\ UNCHANGED <<log, transcript>>
      BY <2>3, PcAt, AtHand DEF StartCreate, Whole, table
    <3>2. /\ created + 1 \in Runs
          /\ runs'[created + 1].status = "queued" /\ runs'[created + 1].reply = "none"
          /\ \A r \in Runs : r # created + 1 => runs'[r] = runs[r]
      BY <2>3, <3>1, TableCreate DEF Whole
    <3>3. Truth'
      <4>1. StatusIsLogged'
        BY <3>1, <3>2 DEF Truth, StatusIsLogged, Logged
      <4>2. ReplyInTranscript'
        BY <3>1, <3>2 DEF Truth, ReplyInTranscript, Said
      <4> QED
        BY <4>1, <4>2 DEF Truth
    <3>4. OthersSame(p) /\ pc'[p] = "start_log" /\ copy'[p] = copy[p]
      BY <2>3 DEF StartCreate, Goto, OthersSame, Same, Whole, TypeOK
    <3> QED
      BY <3>1, <3>3, <3>4, LogStays, SaidStays, PendingMembers, NoCopyKept
  <2>4. CASE StartLog(p)
    BY <2>4, RunPcMembers, PendingMembers, EventMembers, LogStepKept DEF StartLog
  <2>5. CASE MarkGet(p) \/ MarkLog(p)
    <3>1. CASE MarkGet(p)
      <4>1. run[p] \in Runs /\ runs[run[p]] \in RunRecord /\ runs[run[p]].status # "absent"
        BY <3>1, AtHand, RunPcMembers DEF MarkGet, Whole
      <4>2. /\ runs[run[p]].status = "queued" \/ Logged(run[p], StatusEvent(runs[run[p]].status))
            /\ runs[run[p]].reply = "none"
               \/ Said(runs[run[p]].conversation, runs[run[p]].reply, run[p])
        BY <4>1 DEF Truth, StatusIsLogged, ReplyInTranscript
      <4> QED
        BY <3>1, <4>2, PendingMembers, KeepKept DEF MarkGet, LocalOnly, table
    <3>2. CASE MarkLog(p)
      BY <3>2, RunPcMembers, PendingMembers, EventMembers, LogStepKept DEF MarkLog
    <3> QED
      BY <2>5, <3>1, <3>2
  <2>6. CASE MarkSave(p)
    BY <2>6, PendingMembers, CopyPcMembers, SaveStepKept DEF MarkSave
  <2>7. CASE Publish(p)
    BY <2>7, LeaveKept DEF Publish, table
  <2>8. CASE PublishFails(p)
    BY <2>8, PendingMembers, HopKept DEF PublishFails, table
  <2>9. CASE StartRaises(p)
    BY <2>9, PendingMembers, HopKept DEF StartRaises, LocalOnly, table
  <2> QED
    BY <1>5, <2>1, <2>2, <2>3, <2>4, <2>5, <2>6, <2>7, <2>8, <2>9 DEF Starting
<1>6. ASSUME NEW p \in Procs, Executing(p)
      PROVE  Explained
  <2>1. CASE ExecGet(p)
    BY <2>1, PendingMembers, HopKept, LeaveKept DEF ExecGet, LocalOnly, table
  <2>2. CASE ExecSetup(p) \/ RunnerReturns(p)
    <3>1. PICK l \in {"begin_get", "succ_get", "fail_get"} : Goto(p, l) /\ LocalsKept
      BY <2>2 DEF ExecSetup, RunnerReturns
    <3> QED
      BY <2>2, <3>1, PendingMembers, HopKept DEF ExecSetup, RunnerReturns, LocalOnly, table
  <2>3. CASE BeginGet(p)
    <3>1. run[p] \in Runs /\ runs[run[p]] \in RunRecord
      BY <2>3, AtHand, RunPcMembers DEF BeginGet, Whole
    <3> DEFINE rec == [runs[run[p]] EXCEPT !.status = "running"]
    <3>2. /\ rec.status = "running" /\ rec.reply = runs[run[p]].reply
          /\ rec.conversation = runs[run[p]].conversation
      BY <3>1, WithStatus, StatusMembers
    <3>3. runs[run[p]].reply = "none" \/ Said(rec.conversation, rec.reply, run[p])
      BY <3>1, <3>2 DEF Truth, ReplyInTranscript
    <3> QED
      BY <2>3, <3>2, <3>3, KeepKept DEF BeginGet, LocalOnly, table
  <2>4. CASE BeginLog(p)
    <3>1. pc[p] = "begin_log" => copy[p].status = "running"
      BY DEF Copies, Kept, CopyStatusOK
    <3> QED
      BY <2>4, <3>1, StatusEventValues, PendingMembers, LogStatusKept DEF BeginLog
  <2>5. CASE BeginSave(p)
    BY <2>5, PendingMembers, CopyPcMembers, SaveStepKept DEF BeginSave
  <2>6. CASE RecordProgress(p)
    BY <2>6, RunPcMembers, PendingMembers, EventMembers, LogStepKept DEF RecordProgress
  <2>7. CASE SuccGet(p)
    <3>1. run[p] \in Runs /\ runs[run[p]] \in RunRecord /\ runs[run[p]].status # "absent"
      BY <2>7, AtHand, RunPcMembers DEF SuccGet, Whole
    <3>2. /\ runs[run[p]].status = "queued" \/ Logged(run[p], StatusEvent(runs[run[p]].status))
          /\ runs[run[p]].reply = "none"
             \/ Said(runs[run[p]].conversation, runs[run[p]].reply, run[p])
      BY <3>1 DEF Truth, StatusIsLogged, ReplyInTranscript
    <3> QED
      BY <2>7, <3>2, PendingMembers, KeepKept DEF SuccGet, LocalOnly, table
  <2>8. CASE SummaryLog(p)
    <3> DEFINE rec == [copy[p] EXCEPT !.summaries = @ + 1]
    <3>1. pc[p] \in RunPcs \ Pending /\ copy[p].status # "absent" /\ copy[p] \in RunRecord
      BY <2>8, AtHand, RunPcMembers, CopyPcMembers, PendingMembers DEF SummaryLog, Whole
    <3>2. /\ rec.status = copy[p].status /\ rec.reply = copy[p].reply
          /\ rec.conversation = copy[p].conversation
      BY <3>1, WithSummary
    <3>3. Goto(p, "summary_save") /\ Keep(p, rec) /\ AppendEvent(run[p], "summary")
          /\ UNCHANGED <<run, target, runs, transcript>>
      BY <2>8 DEF SummaryLog, table
    <3> HIDE DEF rec
    <3> QED
      BY <3>1, <3>2, <3>3, PendingMembers, EventMembers, KeepLogKept
  <2>9. CASE SummarySave(p)
    <3>1. /\ pc[p] \in CopyPcs \ Pending /\ copy[p].status # "absent"
          /\ copy[p] \in RunRecord /\ run[p] \in Runs
      BY <2>9, AtHand, RunPcMembers, CopyPcMembers, PendingMembers DEF SummarySave, Whole
    <3>2. Truth' /\ LogKept /\ SaidKept
      BY <2>9, <3>1, TruthSave, LogStays, SaidStays DEF SummarySave, Copies, table
    <3>3. UNCHANGED <<log, transcript, run, target>>
      BY <2>9 DEF SummarySave, table
    <3>4. \/ copy[p].status = "queued"
          \/ Logged(run[p], StatusEvent(copy[p].status))
      BY <3>1 DEF Copies, Kept, CopyStatusOK, Pending
    <3>5. CASE Goto(p, "summary_log") /\ UNCHANGED copy
      <4>1. OthersSame(p) /\ pc'[p] = "summary_log" /\ run'[p] = run[p] /\ copy'[p] = copy[p]
        BY <3>3, <3>5, GotoLocals DEF LocalsKept, Whole
      <4>2. Kept(p)'
        BY <3>1, <3>2, <4>1, PendingMembers, KeptOn DEF Copies
      <4> QED
        BY <3>2, <4>1, <4>2, CopiesCombine DEF Explained
    <3>6. CASE \/ Goto(p, "succ_message") /\ Keep(p, [copy[p] EXCEPT !.reply = "answer"])
               \/ Goto(p, "succ_log") /\ Keep(p, [copy[p] EXCEPT !.reply = "none"])
      <4>1. PICK x \in {"answer", "none"}, l \in {"succ_message", "succ_log"} :
              /\ Goto(p, l) /\ Keep(p, [copy[p] EXCEPT !.reply = x])
              /\ (l = "succ_message" <=> x = "answer")
        BY <3>6
      <4> DEFINE rec == [copy[p] EXCEPT !.reply = x]
      <4>2. rec.status = copy[p].status /\ rec.reply = x
        BY <3>1, <4>1, WithReply
      <4>3. OthersSame(p) /\ pc'[p] = l /\ run'[p] = run[p] /\ copy'[p] = rec
        BY <3>3, <4>1, KeepLocals DEF Whole
      <4> HIDE DEF rec
      <4>4. CopyStatusOK(p)'
        BY <3>3, <3>4, <4>1, <4>2, <4>3 DEF CopyStatusOK, Logged
      <4>5. CopyReplyOK(p)'
        BY <4>1, <4>2, <4>3 DEF CopyReplyOK
      <4> QED
        BY <3>2, <4>3, <4>4, <4>5, CopiesCombine DEF Explained, Kept
    <3> QED
      BY <2>9, <3>5, <3>6 DEF SummarySave
  <2>10. CASE SuccMessage(p)
    BY <2>10, ReplyKept DEF SuccMessage
  <2>11. CASE SuccMessageLog(p)
    BY <2>11, RunPcMembers, PendingMembers, EventMembers, LogStepKept DEF SuccMessageLog
  <2>12. CASE SuccLog(p)
    <3> DEFINE rec == [copy[p] EXCEPT !.status = "completed"]
    <3>1. pc[p] \in RunPcs \ Pending /\ copy[p].status # "absent" /\ copy[p] \in RunRecord
      BY <2>12, AtHand, RunPcMembers, CopyPcMembers, PendingMembers DEF SuccLog, Whole
    <3>2. /\ rec.status = "completed" /\ rec.reply = copy[p].reply
          /\ rec.conversation = copy[p].conversation
      BY <3>1, WithStatus, StatusMembers
    <3>3. Goto(p, "succ_save") /\ Keep(p, rec) /\ AppendEvent(run[p], "completed")
          /\ UNCHANGED <<run, target, runs, transcript>>
      BY <2>12 DEF SuccLog, table
    <3> HIDE DEF rec
    <3> QED
      BY <3>1, <3>2, <3>3, StatusEventValues, PendingMembers, EventMembers, KeepLogKept
  <2>13. CASE SuccSave(p)
    BY <2>13, PendingMembers, CopyPcMembers, SaveStepKept DEF SuccSave
  <2>14. CASE FailGet(p)
    <3>1. run[p] \in Runs /\ runs[run[p]] \in RunRecord
      BY <2>14, AtHand, RunPcMembers DEF FailGet, Whole
    <3> DEFINE rec  == [runs[run[p]] EXCEPT !.status = "failed"]
               rec2 == [runs[run[p]] EXCEPT !.status = "failed", !.reply = "failure"]
    <3>2. /\ rec.status = "failed" /\ rec.reply = runs[run[p]].reply
          /\ rec.conversation = runs[run[p]].conversation
          /\ rec2.status = "failed" /\ rec2.reply = "failure"
      BY <3>1 DEF RunRecord
    <3>3. runs[run[p]].reply = "none" \/ Said(rec.conversation, rec.reply, run[p])
      BY <3>1, <3>2 DEF Truth, ReplyInTranscript
    <3>4. UNCHANGED <<run, target, runs, log, transcript>>
      BY <2>14 DEF FailGet, LocalOnly, table
    <3>5. \/ Goto(p, "fail_message") /\ Keep(p, rec2)
          \/ Goto(p, "fail_log") /\ Keep(p, rec)
      BY <2>14 DEF FailGet
    <3> HIDE DEF rec, rec2
    <3>6. CASE Goto(p, "fail_message") /\ Keep(p, rec2)
      BY <3>2, <3>4, <3>6, KeepKept
    <3>7. CASE Goto(p, "fail_log") /\ Keep(p, rec)
      BY <3>2, <3>3, <3>4, <3>7, KeepKept
    <3> QED
      BY <3>5, <3>6, <3>7
  <2>15. CASE FailMessage(p)
    BY <2>15, ReplyKept DEF FailMessage
  <2>16. CASE FailLog(p)
    <3>1. pc[p] = "fail_log" => copy[p].status = "failed"
      BY DEF Copies, Kept, CopyStatusOK
    <3> QED
      BY <2>16, <3>1, StatusEventValues, PendingMembers, LogStatusKept DEF FailLog
  <2>17. CASE FailSave(p)
    BY <2>17, PendingMembers, CopyPcMembers, SaveStepKept DEF FailSave
  <2>18. CASE Release(p)
    BY <2>18, LeaveKept DEF Release
  <2> QED
    BY <1>6, <2>1, <2>2, <2>3, <2>4, <2>5, <2>6, <2>7, <2>8, <2>9, <2>10, <2>11, <2>12,
       <2>13, <2>14, <2>15, <2>16, <2>17, <2>18 DEF Executing
<1>7. ASSUME NEW p \in Procs, Cancelling(p)
      PROVE  Explained
  <2>1. CASE CancelGet(p)
    <3>1. CASE ~IsActive(run[p])
      BY <2>1, <3>1, LeaveKept DEF CancelGet, LocalOnly, table
    <3>2. CASE IsActive(run[p])
      <4>1. run[p] \in Runs /\ runs[run[p]] \in RunRecord
        BY <2>1, AtHand, RunPcMembers DEF CancelGet, Whole
      <4> DEFINE rec == [runs[run[p]] EXCEPT !.status = "cancelled"]
      <4>2. /\ rec.status = "cancelled" /\ rec.reply = runs[run[p]].reply
            /\ rec.conversation = runs[run[p]].conversation
        BY <4>1, WithStatus, StatusMembers
      <4>3. runs[run[p]].reply = "none" \/ Said(rec.conversation, rec.reply, run[p])
        BY <4>1, <4>2 DEF Truth, ReplyInTranscript
      <4> QED
        BY <2>1, <3>2, <4>2, <4>3, KeepKept DEF CancelGet, LocalOnly, table
    <3> QED
      BY <3>1, <3>2
  <2>2. CASE CancelLog(p)
    <3>1. pc[p] = "cancel_log" => copy[p].status = "cancelled"
      BY DEF Copies, Kept, CopyStatusOK
    <3> QED
      BY <2>2, <3>1, StatusEventValues, PendingMembers, LogStatusKept DEF CancelLog
  <2>3. CASE CancelSave(p)
    BY <2>3, PendingMembers, CopyPcMembers, SaveStepKept DEF CancelSave
  <2> QED
    BY <1>7, <2>1, <2>2, <2>3 DEF Cancelling
<1>8. ASSUME NEW w \in Workers, NEW r \in Runs, TakeTask(w, r)
      PROVE  Explained
  <2>1. OthersSame(w) /\ copy'[w] = copy[w] /\ pc'[w] = "exec_get"
    BY <1>8 DEF TakeTask, Goto, OthersSame, Same, Whole, TypeOK
  <2>2. LogKept /\ SaidKept /\ UNCHANGED runs /\ pc[w] \notin RunPcs
    BY <1>8, LogStays, SaidStays, PcAt DEF TakeTask, table
  <2> QED
    BY <2>1, <2>2, PendingMembers, NoCopyKept, TruthFrame DEF Whole
<1>9. ASSUME NEW p \in StreamRequests, Disconnect(p)
      PROVE  Explained
  BY <1>9, LeaveKept DEF Disconnect, LocalOnly, table
<1>10. CASE ApiCrash
  <2>1. LogKept /\ SaidKept /\ UNCHANGED runs
    BY <1>10, LogStays, SaidStays DEF ApiCrash, table
  <2>2. ASSUME NEW q \in Procs PROVE Kept(q)'
    <3>1. CASE q \in Requests
      <4>1. copy'[q] = NoRun /\ pc'[q] \in {"ready", "done"}
        BY <1>10, <3>1 DEF ApiCrash
      <4> QED
        BY <4>1, NoRunType, PendingMembers, KeptBlank
    <3>2. CASE q \notin Requests
      BY <1>10, <2>1, <3>2, KeptFrame DEF ApiCrash, Same, Copies
    <3> QED
      BY <3>1, <3>2
  <2> QED
    BY <2>1, <2>2, TruthFrame DEF Explained, Copies, Whole
<1>11. ASSUME NEW w \in Workers, WorkerCrash(w)
       PROVE  Explained
  BY <1>11, LeaveKept DEF WorkerCrash, table
<1> QED
  BY <1>1, <1>2, <1>3, <1>4, <1>5, <1>6, <1>7, <1>8, <1>9, <1>10, <1>11
  DEF Next, Arrive, Proceed, Take, Fault

(***************************************************************************)
(* The right to start a run passes from hand to hand and is used once.     *)
(***************************************************************************)
Token == StartTokenInv /\ StartedAtMostOnce

\* The control points from which a process may still start its run.
LEMMA MayStartMembers ==
    /\ MayStart \subseteq RunPcs
    /\ {"start_log", "mark_get", "mark_log", "mark_save", "publish", "exec_get",
        "exec_setup", "begin_get", "begin_log"} = MayStart
    /\ {"ready", "idle", "done", "start_message", "start_status", "start_create", "raised",
        "begin_save", "runner", "succ_get", "summary_log", "summary_save",
        "succ_message", "succ_message_log", "succ_log", "succ_save", "fail_get",
        "fail_message", "fail_log", "fail_save", "cancel_get", "cancel_log",
        "cancel_save", "release"} \cap MayStart = {}
  BY DEF MayStart, RunPcs, PcValues

\* A holder has a run of the table.
LEMMA Holds ==
    ASSUME Whole, NEW p \in Procs, pc[p] \in MayStart
    PROVE  run[p] \in Runs /\ run[p] <= created
  BY AtHand, MayStartMembers DEF Whole

\* An append keeps a single start, if it is not a second one.
LEMMA AppendOnce ==
    ASSUME TypeOK, StartedAtMostOnce, NEW r \in Runs, NEW e \in EventTypes,
           AppendEvent(r, e), e = "running" => ~Logged(r, "running")
    PROVE  StartedAtMostOnce'
<1>1. ASSUME NEW q \in Runs, NEW i \in DOMAIN log'[q], NEW j \in DOMAIN log'[q],
             log'[q][i] = "running", log'[q][j] = "running"
      PROVE  i = j
  <2>1. CASE q # r
    <3>1. log'[q] = log[q]
      BY <2>1 DEF AppendEvent, TypeOK
    <3> QED
      BY <1>1, <3>1 DEF StartedAtMostOnce
  <2>2. CASE q = r
    <3>1. log'[q] = Append(log[q], e) /\ log[q] \in Seq(EventTypes)
      BY <2>2 DEF AppendEvent, TypeOK
    <3>2. Len(log'[q]) = Len(log[q]) + 1 /\ log'[q][Len(log[q]) + 1] = e
          /\ \A k \in 1 .. Len(log[q]) : log'[q][k] = log[q][k]
      BY <3>1
    <3>3. DOMAIN log[q] = 1 .. Len(log[q]) /\ DOMAIN log'[q] = 1 .. Len(log'[q])
          /\ Len(log[q]) \in Nat
      BY <3>1
    <3>4. \A k \in DOMAIN log'[q] : k # Len(log[q]) + 1 =>
             k \in DOMAIN log[q] /\ log'[q][k] = log[q][k]
      BY <3>2, <3>3
    <3>5. CASE i # Len(log[q]) + 1 /\ j # Len(log[q]) + 1
      BY <1>1, <3>4, <3>5 DEF StartedAtMostOnce
    <3>6. CASE i = Len(log[q]) + 1 /\ j # Len(log[q]) + 1
      BY <1>1, <2>2, <3>2, <3>4, <3>6 DEF Logged
    <3>7. CASE j = Len(log[q]) + 1 /\ i # Len(log[q]) + 1
      BY <1>1, <2>2, <3>2, <3>4, <3>7 DEF Logged
    <3> QED
      BY <3>5, <3>6, <3>7
  <2> QED
    BY <2>1, <2>2
<1> QED
  BY <1>1 DEF StartedAtMostOnce

\* A step after which no process may start a run that could not before.
LEMMA TokenFrame ==
    ASSUME Whole, Token, UNCHANGED tasks,
           \A q \in Procs : pc'[q] \in MayStart => pc[q] \in MayStart /\ run'[q] = run[q],
           \/ UNCHANGED log
           \/ \E r \in Runs, e \in EventTypes \ {"running"} : AppendEvent(r, e)
    PROVE  Token'
<1>1. \A r \in Runs : Logged(r, "running")' => Logged(r, "running")
  <2>1. CASE UNCHANGED log
    BY <2>1 DEF Logged
  <2>2. CASE \E r \in Runs, e \in EventTypes \ {"running"} : AppendEvent(r, e)
    BY <2>2, AppendLogged, EventMembers DEF Whole
  <2> QED
    BY <2>1, <2>2
<1>2. StartedAtMostOnce'
  <2>1. CASE UNCHANGED log
    BY <2>1 DEF Token, StartedAtMostOnce
  <2>2. CASE \E r \in Runs, e \in EventTypes \ {"running"} : AppendEvent(r, e)
    BY <2>2, AppendOnce DEF Whole, Token
  <2> QED
    BY <2>1, <2>2
<1>3. \A p \in Procs : pc[p] \in MayStart => run[p] \in Runs
  BY Holds
<1>4. /\ \A p, q \in Procs : run'[p] = run'[q] /\ pc'[p] \in MayStart /\ pc'[q] \in MayStart
                               => p = q
      /\ \A r \in Runs : tasks'[r] <= 1
  BY DEF Token, StartTokenInv
<1>5. \A p \in Procs : pc'[p] \in MayStart =>
         tasks'[run'[p]] = 0 /\ ~Logged(run[p], "running") /\ run'[p] = run[p] /\ run[p] \in Runs
  BY <1>3 DEF Token, StartTokenInv
<1>6. \A p \in Procs : pc'[p] \in MayStart =>
         ~(\E i \in DOMAIN log'[run'[p]] : log'[run'[p]][i] = "running")
  BY <1>1, <1>5 DEF Logged
<1>7. \A r \in Runs : tasks'[r] = 1 => ~(\E i \in DOMAIN log'[r] : log'[r][i] = "running")
  BY <1>1 DEF Token, StartTokenInv, Logged
<1>8. StartTokenInv'
  BY <1>4, <1>5, <1>6, <1>7 DEF StartTokenInv, Logged
<1> QED
  BY <1>2, <1>8 DEF Token

\* The same for a step of one process.
LEMMA TokenOn ==
    ASSUME Whole, Token, NEW p \in Procs, OthersSame(p), UNCHANGED tasks,
           pc'[p] \in MayStart => pc[p] \in MayStart /\ run'[p] = run[p],
           \/ UNCHANGED log
           \/ \E r \in Runs, e \in EventTypes \ {"running"} : AppendEvent(r, e)
    PROVE  Token'
<1>1. \A q \in Procs : pc'[q] \in MayStart => pc[q] \in MayStart /\ run'[q] = run[q]
  BY DEF OthersSame, Same
<1> QED
  BY <1>1, TokenFrame

\* An append of an event other than the start.
LEMMA LogStepToken ==
    ASSUME Whole, Token, NEW p \in Procs, NEW at \in RunPcs, NEW l,
           NEW e \in EventTypes \ {"running"}, l \in MayStart => at \in MayStart,
           LogStep(p, at, e, l)
    PROVE  Token'
<1>1. run[p] \in Runs /\ pc[p] = at
  BY AtHand DEF Whole, LogStep
<1>2. OthersSame(p) /\ pc'[p] = l /\ run'[p] = run[p]
  BY GotoLocals DEF Whole, LogStep
<1> QED
  BY <1>1, <1>2, TokenOn DEF LogStep

\* A save of the copy.
LEMMA SaveStepToken ==
    ASSUME Whole, Token, NEW p \in Procs, NEW at, NEW l, l \in MayStart => at \in MayStart,
           SaveStep(p, at, l)
    PROVE  Token'
<1>1. OthersSame(p) /\ pc'[p] = l /\ run'[p] = run[p]
  BY GotoLocals DEF Whole, SaveStep
<1> QED
  BY <1>1, TokenOn DEF SaveStep

\* The end of a process.
LEMMA LeaveToken ==
    ASSUME Whole, Token, NEW p \in Procs, Return(p), UNCHANGED <<log, tasks>>
    PROVE  Token'
<1>1. OthersSame(p) /\ pc'[p] \notin MayStart
  BY ReturnLocals, MayStartMembers DEF Whole, Gone
<1> QED
  BY <1>1, TokenOn

\* A step that only moves its process on.
LEMMA HopToken ==
    ASSUME Whole, Token, NEW p \in Procs, NEW l, Goto(p, l), LocalsKept,
           l \in MayStart => pc[p] \in MayStart, UNCHANGED <<log, tasks>>
    PROVE  Token'
<1>1. OthersSame(p) /\ pc'[p] = l /\ run'[p] = run[p]
  BY GotoLocals DEF Whole
<1> QED
  BY <1>1, TokenOn

\* A step that loads a new copy.
LEMMA KeepToken ==
    ASSUME Whole, Token, NEW p \in Procs, NEW l, NEW rec, Goto(p, l), Keep(p, rec),
           UNCHANGED <<run, target, tasks>>, l \in MayStart => pc[p] \in MayStart,
           \/ UNCHANGED log
           \/ \E r \in Runs, e \in EventTypes \ {"running"} : AppendEvent(r, e)
    PROVE  Token'
<1>1. OthersSame(p) /\ pc'[p] = l /\ run'[p] = run[p]
  BY KeepLocals DEF Whole
<1> QED
  BY <1>1, TokenOn

\* An append of a message, or the 404 of a deleted conversation.
LEMMA MessageStepToken ==
    ASSUME Whole, Token, NEW p \in Procs, NEW at, NEW c, NEW m, NEW l,
           l \notin MayStart, MessageStep(p, at, c, m, l)
    PROVE  Token'
<1>1. CASE c \in deleted
  BY <1>1, LeaveToken DEF MessageStep
<1>2. CASE c \notin deleted
  BY <1>2, HopToken DEF MessageStep
<1> QED
  BY <1>1, <1>2

\* A process becomes the one that may start r: by its creation, or by taking
\* its task.
LEMMA TokenTaken ==
    ASSUME Whole, Token, NEW p \in Procs, NEW r \in Runs, OthersSame(p),
           pc'[p] \in MayStart, run'[p] = r, UNCHANGED log,
           \A q \in Procs : pc[q] \in MayStart => run[q] # r,
           ~Logged(r, "running"), tasks'[r] = 0,
           \A q \in Runs : q # r => tasks'[q] = tasks[q]
    PROVE  Token'
<1>1. \A q \in Procs : q # p => pc'[q] = pc[q] /\ run'[q] = run[q]
  BY DEF OthersSame, Same
<1>2. \A q \in Procs : pc[q] \in MayStart => run[q] \in Runs
  BY Holds
<1>3. \A x, y \in Procs : run'[x] = run'[y] /\ pc'[x] \in MayStart /\ pc'[y] \in MayStart
                            => x = y
  BY <1>1 DEF Token, StartTokenInv
<1>4. \A q \in Runs : /\ tasks'[q] <= 1
                      /\ tasks'[q] = 1 => ~Logged(q, "running")
  BY DEF Token, StartTokenInv
<1>5. \A q \in Procs : pc'[q] \in MayStart => tasks'[run'[q]] = 0 /\ ~Logged(run'[q], "running")
  BY <1>1, <1>2 DEF Token, StartTokenInv, Logged
<1>6. StartTokenInv'
  BY <1>3, <1>4, <1>5 DEF StartTokenInv, Logged
<1> QED
  BY <1>6 DEF Token, StartedAtMostOnce

\* The holder of the right gives it to a task, or gives it up.
LEMMA TokenGiven ==
    ASSUME Whole, Token, NEW p \in Procs, OthersSame(p), pc[p] \in MayStart,
           pc'[p] \notin MayStart, UNCHANGED log, tasks'[run[p]] <= 1,
           \A q \in Runs : q # run[p] => tasks'[q] = tasks[q]
    PROVE  Token'
<1>1. \A q \in Procs : q # p => pc'[q] = pc[q] /\ run'[q] = run[q]
  BY DEF OthersSame, Same
<1>2. \A q \in Procs : pc[q] \in MayStart => run[q] \in Runs
  BY Holds
<1>3. \A x, y \in Procs : run'[x] = run'[y] /\ pc'[x] \in MayStart /\ pc'[y] \in MayStart
                            => x = y
  BY <1>1 DEF Token, StartTokenInv
<1>4. \A q \in Runs : /\ tasks'[q] <= 1
                      /\ tasks'[q] = 1 => ~Logged(q, "running")
  BY DEF Token, StartTokenInv
<1>5. \A q \in Procs : pc'[q] \in MayStart =>
         q # p /\ run'[q] # run[p] /\ run'[q] \in Runs
  BY <1>1, <1>2 DEF Token, StartTokenInv
<1>6. \A q \in Procs : pc'[q] \in MayStart => tasks'[run'[q]] = 0 /\ ~Logged(run'[q], "running")
  BY <1>1, <1>5 DEF Token, StartTokenInv, Logged
<1>7. StartTokenInv'
  BY <1>3, <1>4, <1>6 DEF StartTokenInv, Logged
<1> QED
  BY <1>7 DEF Token, StartedAtMostOnce

\* The holder uses the right: the run begins.
LEMMA TokenUsed ==
    ASSUME Whole, Token, NEW p \in Procs, BeginLog(p)
    PROVE  Token'
<1>1. pc[p] \in MayStart /\ run[p] \in Runs /\ "running" \in EventTypes
  BY MayStartMembers, Holds, EventMembers DEF BeginLog, LogStep
<1>2. OthersSame(p) /\ pc'[p] = "begin_save"
  BY GotoLocals DEF BeginLog, LogStep, Whole
<1>3. \A r \in Runs : r # run[p] => log'[r] = log[r]
  BY <1>1 DEF BeginLog, LogStep, AppendEvent, Whole, TypeOK
<1>4. \A q \in Procs : pc'[q] \in MayStart =>
         /\ q # p /\ pc[q] \in MayStart /\ run'[q] = run[q] /\ run[q] \in Runs
         /\ run[q] # run[p]
  <2>1. \A q \in Procs : pc'[q] \in MayStart => q # p /\ pc[q] \in MayStart /\ run'[q] = run[q]
    BY <1>2, MayStartMembers DEF OthersSame, Same
  <2> QED
    BY <1>1, <2>1, Holds DEF Token, StartTokenInv
<1>5. tasks[run[p]] = 0 /\ ~Logged(run[p], "running") /\ UNCHANGED tasks
  BY <1>1 DEF Token, StartTokenInv, BeginLog, LogStep
<1>6. \A x, y \in Procs : run'[x] = run'[y] /\ pc'[x] \in MayStart /\ pc'[y] \in MayStart
                            => x = y
  BY <1>4 DEF Token, StartTokenInv
<1>7. \A r \in Runs : tasks'[r] <= 1
  BY <1>5 DEF Token, StartTokenInv
<1>8. \A r \in Runs : tasks'[r] = 1 => ~Logged(r, "running")'
  BY <1>3, <1>5 DEF Token, StartTokenInv, Logged
<1>9. \A q \in Procs : pc'[q] \in MayStart => tasks'[run'[q]] = 0 /\ ~Logged(run[q], "running")
  BY <1>4, <1>5 DEF Token, StartTokenInv
<1>10. \A q \in Procs : pc'[q] \in MayStart => ~Logged(run[q], "running")'
  BY <1>3, <1>4, <1>9 DEF Logged
<1>11. StartTokenInv'
  BY <1>6, <1>7, <1>8, <1>9, <1>10 DEF StartTokenInv
<1>12. StartedAtMostOnce'
  BY <1>1, <1>5, AppendOnce DEF BeginLog, LogStep, Whole, Token
<1> QED
  BY <1>11, <1>12 DEF Token

\* Every step keeps the right to start a run in one hand, to be used once.
LEMMA TokenStep ==
    ASSUME Whole, Token, Next
    PROVE  Token'
<1> USE Constants DEF Requests, StartRequests
<1>1. ASSUME NEW p \in StartRequests, NEW c \in Conversations, StartCheck(p, c)
      PROVE  Token'
  <2>1. CASE c \in deleted \/ HasActiveRun(c)
    BY <1>1, <2>1, LeaveToken DEF StartCheck, LocalOnly
  <2>2. CASE ~(c \in deleted \/ HasActiveRun(c))
    <3>1. OthersSame(p) /\ pc'[p] = "start_message"
      BY <1>1, <2>2 DEF StartCheck, Goto, OthersSame, Same, Whole, TypeOK
    <3> QED
      BY <1>1, <3>1, MayStartMembers, TokenOn DEF StartCheck, LocalOnly
  <2> QED
    BY <2>1, <2>2
<1>2. ASSUME NEW p \in CancelRequests, NEW r \in Runs, CancelStart(p, r)
      PROVE  Token'
  <2>1. OthersSame(p) /\ pc'[p] = "cancel_get"
    BY <1>2 DEF CancelStart, Goto, OthersSame, Same, Whole, TypeOK
  <2> QED
    BY <1>2, <2>1, MayStartMembers, TokenOn DEF CancelStart, LocalOnly
<1>3. ASSUME NEW p \in StopRequests, NEW c \in Conversations, StopStart(p, c)
      PROVE  Token'
  <2>1. CASE c \in deleted \/ ~HasActiveRun(c)
    BY <1>3, <2>1, LeaveToken DEF StopStart, LocalOnly
  <2>2. CASE ~(c \in deleted \/ ~HasActiveRun(c))
    <3>1. PICK r \in Runs : run' = [run EXCEPT ![p] = r]
                            /\ Goto(p, "cancel_get") /\ UNCHANGED <<target, copy>>
      BY <1>3, <2>2 DEF StopStart
    <3>2. OthersSame(p) /\ pc'[p] = "cancel_get"
      BY <3>1 DEF Goto, OthersSame, Same, Whole, TypeOK
    <3> QED
      BY <1>3, <3>2, MayStartMembers, TokenOn DEF StopStart, LocalOnly
  <2> QED
    BY <2>1, <2>2
<1>4. ASSUME NEW p \in DeleteRequests, NEW c \in Conversations, Delete(p, c)
      PROVE  Token'
  BY <1>4, LeaveToken DEF Delete
<1>5. ASSUME NEW p \in Procs, Starting(p)
      PROVE  Token'
  <2>1. CASE StartMessage(p)
    BY <2>1, MayStartMembers, MessageStepToken DEF StartMessage
  <2>2. CASE StartStatus(p)
    BY <2>2, MayStartMembers, LeaveToken, HopToken DEF StartStatus
  <2>3. CASE StartCreate(p)
    <3> DEFINE r == created + 1
    <3>1. r \in Runs /\ r > created /\ created \in Nat
      BY <2>3 DEF StartCreate, Whole, TypeOK
    <3>2. tasks[r] = 0 /\ log[r] = <<>>
      BY <3>1 DEF Whole, TableInv
    <3>3. ~Logged(r, "running")
      BY <3>2 DEF Logged
    <3>4. \A q \in Procs : pc[q] \in MayStart => run[q] # r
      BY <3>1, Holds
    <3>5. OthersSame(p) /\ pc'[p] = "start_log" /\ run'[p] = r
      BY <2>3, <3>1 DEF StartCreate, Goto, OthersSame, Same, Whole, TypeOK
    <3>6. UNCHANGED <<log, tasks>>
      BY <2>3 DEF StartCreate
    <3> HIDE DEF r
    <3> QED
      BY <3>1, <3>2, <3>3, <3>4, <3>5, <3>6, MayStartMembers, TokenTaken
  <2>4. CASE StartLog(p)
    BY <2>4, RunPcMembers, MayStartMembers, EventMembers, LogStepToken DEF StartLog
  <2>5. CASE MarkGet(p)
    BY <2>5, MayStartMembers, KeepToken DEF MarkGet, LocalOnly
  <2>6. CASE MarkLog(p)
    BY <2>6, RunPcMembers, MayStartMembers, EventMembers, LogStepToken DEF MarkLog
  <2>7. CASE MarkSave(p)
    BY <2>7, MayStartMembers, SaveStepToken DEF MarkSave
  <2>8. CASE Publish(p)
    <3>1. pc[p] \in MayStart /\ run[p] \in Runs
      BY <2>8, MayStartMembers, Holds DEF Publish
    <3>2. tasks[run[p]] = 0
      BY <3>1 DEF Token, StartTokenInv
    <3>3. tasks'[run[p]] <= 1 /\ \A q \in Runs : q # run[p] => tasks'[q] = tasks[q]
      BY <2>8, <3>1, <3>2 DEF Publish, Whole, TypeOK
    <3>4. OthersSame(p) /\ pc'[p] \notin MayStart
      BY <2>8, ReturnLocals, MayStartMembers DEF Whole, Gone, Publish
    <3> QED
      BY <2>8, <3>1, <3>3, <3>4, TokenGiven DEF Publish
  <2>9. CASE PublishFails(p)
    <3>1. pc[p] \in MayStart /\ run[p] \in Runs
      BY <2>9, MayStartMembers, Holds DEF PublishFails
    <3>2. tasks[run[p]] = 0
      BY <3>1 DEF Token, StartTokenInv
    <3>3. tasks'[run[p]] <= 1 /\ \A q \in Runs : q # run[p] => tasks'[q] = tasks[q]
      BY <2>9, <3>1, <3>2 DEF PublishFails, Whole, TypeOK
    <3>4. OthersSame(p) /\ pc'[p] \notin MayStart
      BY <2>9, GotoLocals, MayStartMembers DEF Whole, PublishFails
    <3> QED
      BY <2>9, <3>1, <3>3, <3>4, TokenGiven DEF PublishFails
  <2>10. CASE StartRaises(p)
    BY <2>10, MayStartMembers, HopToken DEF StartRaises, LocalOnly, table
  <2> QED
    BY <1>5, <2>1, <2>2, <2>3, <2>4, <2>5, <2>6, <2>7, <2>8, <2>9, <2>10 DEF Starting
<1>6. ASSUME NEW p \in Procs, Executing(p)
      PROVE  Token'
  <2>1. CASE ExecGet(p)
    BY <2>1, MayStartMembers, HopToken, LeaveToken DEF ExecGet, LocalOnly
  <2>2. CASE ExecSetup(p)
    BY <2>2, MayStartMembers, HopToken DEF ExecSetup, LocalOnly
  <2>3. CASE BeginGet(p)
    BY <2>3, MayStartMembers, KeepToken DEF BeginGet, LocalOnly
  <2>4. CASE BeginLog(p)
    BY <2>4, TokenUsed
  <2>5. CASE BeginSave(p)
    BY <2>5, MayStartMembers, SaveStepToken DEF BeginSave
  <2>6. CASE RecordProgress(p)
    BY <2>6, RunPcMembers, MayStartMembers, EventMembers, LogStepToken DEF RecordProgress
  <2>7. CASE RunnerReturns(p)
    BY <2>7, MayStartMembers, HopToken DEF RunnerReturns, LocalOnly
  <2>8. CASE SuccGet(p)
    BY <2>8, MayStartMembers, KeepToken DEF SuccGet, LocalOnly
  <2>9. CASE SummaryLog(p) \/ SuccLog(p)
    <3>1. run[p] \in Runs
      BY <2>9, AtHand, RunPcMembers DEF SummaryLog, SuccLog, Whole
    <3>2. PICK l \in {"summary_save", "succ_save"}, e \in {"summary", "completed"} :
            Goto(p, l) /\ AppendEvent(run[p], e)
      BY <2>9 DEF SummaryLog, SuccLog
    <3>3. OthersSame(p) /\ pc'[p] = l
      BY <2>9, <3>2 DEF SummaryLog, SuccLog, Goto, Keep, OthersSame, Same, Whole, TypeOK
    <3>4. e \in EventTypes \ {"running"} /\ l \notin MayStart
      BY <3>2, EventMembers, MayStartMembers
    <3>5. UNCHANGED tasks
      BY <2>9 DEF SummaryLog, SuccLog
    <3> QED
      BY <3>1, <3>2, <3>3, <3>4, <3>5, TokenOn
  <2>10. CASE SummarySave(p)
    <3>1. PICK l \in {"summary_log", "succ_message", "succ_log"} : Goto(p, l)
      BY <2>10 DEF SummarySave
    <3>2. \A q \in Procs : q # p => copy'[q] = copy[q]
      BY <2>10 DEF SummarySave, Keep, Whole, TypeOK
    <3>3. OthersSame(p) /\ pc'[p] = l
      BY <2>10, <3>1, <3>2 DEF SummarySave, Goto, OthersSame, Same, Whole, TypeOK
    <3> QED
      BY <2>10, <3>1, <3>3, MayStartMembers, TokenOn DEF SummarySave
  <2>11. CASE SuccMessage(p)
    BY <2>11, MayStartMembers, MessageStepToken DEF SuccMessage
  <2>12. CASE SuccMessageLog(p)
    BY <2>12, RunPcMembers, MayStartMembers, EventMembers, LogStepToken DEF SuccMessageLog
  <2>13. CASE SuccSave(p)
    BY <2>13, MayStartMembers, SaveStepToken DEF SuccSave
  <2>14. CASE FailGet(p)
    BY <2>14, MayStartMembers, KeepToken DEF FailGet, LocalOnly
  <2>15. CASE FailMessage(p)
    BY <2>15, MayStartMembers, MessageStepToken DEF FailMessage
  <2>16. CASE FailLog(p)
    BY <2>16, RunPcMembers, MayStartMembers, EventMembers, LogStepToken DEF FailLog
  <2>17. CASE FailSave(p)
    BY <2>17, MayStartMembers, SaveStepToken DEF FailSave
  <2>18. CASE Release(p)
    BY <2>18, LeaveToken DEF Release
  <2> QED
    BY <1>6, <2>1, <2>2, <2>3, <2>4, <2>5, <2>6, <2>7, <2>8, <2>9, <2>10, <2>11, <2>12,
       <2>13, <2>14, <2>15, <2>16, <2>17, <2>18 DEF Executing
<1>7. ASSUME NEW p \in Procs, Cancelling(p)
      PROVE  Token'
  <2>1. CASE CancelGet(p)
    BY <2>1, MayStartMembers, KeepToken, LeaveToken DEF CancelGet, LocalOnly
  <2>2. CASE CancelLog(p)
    BY <2>2, RunPcMembers, MayStartMembers, EventMembers, LogStepToken DEF CancelLog
  <2>3. CASE CancelSave(p)
    BY <2>3, MayStartMembers, SaveStepToken DEF CancelSave
  <2> QED
    BY <1>7, <2>1, <2>2, <2>3 DEF Cancelling
<1>8. ASSUME NEW w \in Workers, NEW r \in Runs, TakeTask(w, r)
      PROVE  Token'
  <2>1. OthersSame(w) /\ run'[w] = r /\ pc'[w] = "exec_get" /\ UNCHANGED log
    BY <1>8 DEF TakeTask, Goto, OthersSame, Same, Whole, TypeOK
  <2>2. tasks[r] = 1
    BY <1>8 DEF TakeTask, Token, StartTokenInv, Whole, TypeOK
  <2>3. tasks'[r] = 0 /\ \A q \in Runs : q # r => tasks'[q] = tasks[q]
    BY <1>8, <2>2 DEF TakeTask, Whole, TypeOK
  <2>4. ~Logged(r, "running") /\ \A q \in Procs : pc[q] \in MayStart => run[q] # r
    BY <2>2 DEF Token, StartTokenInv
  <2> QED
    BY <2>1, <2>3, <2>4, MayStartMembers, TokenTaken
<1>9. ASSUME NEW p \in StreamRequests, Disconnect(p)
      PROVE  Token'
  BY <1>9, LeaveToken DEF Disconnect, LocalOnly
<1>10. CASE ApiCrash
  <2>1. \A q \in Procs : pc'[q] \in MayStart => pc[q] \in MayStart /\ run'[q] = run[q]
    BY <1>10, MayStartMembers DEF ApiCrash
  <2> QED
    BY <1>10, <2>1, TokenFrame DEF ApiCrash
<1>11. ASSUME NEW w \in Workers, WorkerCrash(w)
       PROVE  Token'
  BY <1>11, LeaveToken DEF WorkerCrash
<1> QED
  BY <1>1, <1>2, <1>3, <1>4, <1>5, <1>6, <1>7, <1>8, <1>9, <1>10, <1>11
  DEF Next, Arrive, Proceed, Take, Fault

(***************************************************************************)
(* The inductive invariant and the theorems.                               *)
(***************************************************************************)

\* The inductive invariant, by the parts the lemmas above are about.
LEMMA Split == IInv <=> Whole /\ Truth /\ Copies /\ Token
  BY DEF IInv, Whole, Truth, Copies, Token, Kept, CopyStatusInv, CopyReplyInv

\* The inductive invariant holds at first.
LEMMA Initially == ASSUME Init PROVE IInv
<1> USE Constants, NoRunType
<1>1. TypeOK
  <2>1. pc \in [Procs -> PcValues]
    BY PcMembers DEF Init
  <2>2. \A S : <<>> \in Seq(S)
    OBVIOUS
  <2>3. /\ transcript \in [Conversations -> Seq(Message)]
        /\ log \in [Runs -> Seq(EventTypes)]
    BY <2>2 DEF Init
  <2>4. created \in 0 .. MaxRuns /\ crashes \in 0 .. MaxCrashes
    BY ConstantsAssumption DEF Init
  <2> QED
    BY <2>1, <2>3, <2>4 DEF Init, TypeOK
<1>2. \A p \in Procs : pc[p] \in {"idle", "ready"} /\ run[p] = 0 /\ copy[p] = NoRun
  BY DEF Init
<1>3. \A p \in Procs : pc[p] \notin RunPcs \cup CopyPcs \cup MayStart \cup Pending
         \cup {"start_message", "start_status", "start_create"}
  BY <1>2 DEF RunPcs, CopyPcs, MayStart, Pending
<1>4. \A r \in Runs : runs[r] = NoRun /\ log[r] = <<>> /\ tasks[r] = 0 /\ ~(r <= created)
  BY DEF Init
<1>5. TableInv
  BY <1>4 DEF TableInv
<1>6. LocalInv
  <2>1. created = 0 /\ NoRun.status = "absent"
    BY DEF Init
  <2>2. ASSUME NEW p \in Procs PROVE LocalOK(p)
    <3>1. pc[p] \notin RunPcs /\ pc[p] \notin CopyPcs
          /\ pc[p] \notin {"start_message", "start_status", "start_create"}
      BY <1>3
    <3>2. copy[p].status = "absent" /\ copy[p].reply = "none" /\ run[p] = 0
      BY <1>2
    <3> QED
      BY <2>1, <3>1, <3>2 DEF LocalOK
  <2> QED
    BY <2>2 DEF LocalInv
<1>7. Copies
  BY <1>2, <1>3 DEF Copies, Kept, CopyStatusOK, CopyReplyOK, Pending
<1>8. Truth
  BY <1>4 DEF Truth, StatusIsLogged, ReplyInTranscript
<1>9. \A r \in Runs : ~Logged(r, "running")
  BY <1>4 DEF Logged
<1>10. Token
  BY <1>3, <1>4, <1>9 DEF Token, StartTokenInv, StartedAtMostOnce
<1> QED
  BY <1>1, <1>5, <1>6, <1>7, <1>8, <1>10, Split DEF Whole

\* The inductive invariant survives stuttering.
LEMMA Stutter == ASSUME IInv, UNCHANGED vars PROVE IInv'
<1>1. Whole' /\ LogKept /\ SaidKept
  BY Split, LogStays, SaidStays
  DEF vars, table, Whole, TypeOK, TableInv, LocalInv, LocalOK
<1>2. Truth' /\ Copies'
  BY Split, <1>1, TruthFrame, KeptFrame DEF vars, table, Copies, Same, Whole
<1>3. Token'
  BY Split, TokenFrame DEF vars, table
<1> QED
  BY <1>1, <1>2, <1>3
  DEF IInv, Whole, Truth, Copies, Token, Kept, CopyStatusInv, CopyReplyInv

\* The inductive invariant survives every step.
LEMMA Inductive == ASSUME IInv, [Next]_vars PROVE IInv'
<1>1. CASE Next
  <2>1. Whole'
    BY <1>1, Split, TypeStep, LocalStep DEF Whole
  <2>2. Truth' /\ Copies' /\ Token'
    BY <1>1, Split, TruthStep, TokenStep DEF Explained
  <2> QED
    BY <2>1, <2>2 DEF IInv, Whole, Truth, Copies, Token, Kept, CopyStatusInv, CopyReplyInv
<1>2. CASE UNCHANGED vars
  BY <1>2, Stutter
<1> QED
  BY <1>1, <1>2

\* The inductive invariant holds in every reachable state, for any number of
\* conversations, requests, workers, runs and crashes.
THEOREM Invariant == Spec => []IInv
  BY Initially, Inductive, PTL DEF Spec

\* All variables keep their types, in particular a control point that works on
\* a run always has one.
THEOREM TypeCorrect == Spec => []TypeOK
<1>1. IInv => TypeOK
  BY DEF IInv
<1> QED
  BY Invariant, <1>1, PTL

\* No interleaving, crash, disconnection or stale whole-row save makes the
\* record of a run show a status the event log does not explain.
THEOREM RecordFollowsLog == Spec => []StatusIsLogged
<1>1. IInv => StatusIsLogged
  BY DEF IInv
<1> QED
  BY Invariant, <1>1, PTL

\* Every reply a run record shows is in the transcript of its conversation.
THEOREM RecordFollowsTranscript == Spec => []ReplyInTranscript
<1>1. IInv => ReplyInTranscript
  BY DEF IInv
<1> QED
  BY Invariant, <1>1, PTL

\* The runner is started at most once per run, even when a publish that raised
\* reached the broker and a worker takes its task.
THEOREM OneStart == Spec => []StartedAtMostOnce
<1>1. IInv => StartedAtMostOnce
  BY DEF IInv
<1> QED
  BY Invariant, <1>1, PTL
=============================================================================
