--------------------------- MODULE WorkspaceRuns ---------------------------
(***************************************************************************)
(* What the workbench of one tab knows of the runs, and how it sends and   *)
(* stops them.  Runs are numbered as the server creates them.  The runs    *)
(* query holds the latest RunLimit, of which the latest of each            *)
(* conversation is shown; nothing polls it: it is refetched when a stream  *)
(* settles or a stop is answered.  The status of a conversation, its Stop  *)
(* button and its active mark come from this cache.  The shown             *)
(* conversation is module WorkspaceClient's matter: here any conversation  *)
(* may be shown at a step.                                                 *)
(***************************************************************************)
EXTENDS Integers, FiniteSets

CONSTANTS
    Conversations, NoConversation,
    MaxRuns,   \* bound on the runs
    RunLimit   \* the limit of the runs request, 100 in the code

RunsAssumption ==
    MaxRuns \in Nat \ {0} /\ RunLimit \in Nat \ {0} /\ NoConversation \notin Conversations

VARIABLES
    run,      \* the server's latest run of each conversation: number, active
    seen,     \* the runs query's data
    fetch,    \* its fetch: idle, asked, or answered and not yet received
    answer,   \* what an answered fetch will deliver
    stream,   \* the conversation whose run this tab streams, and that run's number
    stop,     \* a stop in progress: step, conversation, run it names
    made,     \* the server's runs are 1..made
    settled,  \* history: the last run whose stream settled after the run had ended
    stopped,  \* history: the last run that a stop was answered for
    missed    \* history: a refetch failed

vars == <<run, seen, fetch, answer, stream, stop, made, settled, stopped, missed>>
query == <<seen, fetch, answer, missed>>
server == <<run, made>>
history == <<settled, stopped>>

NoRun  == [n |-> 0, active |-> FALSE]
NoRuns == [c \in Conversations |-> NoRun]
Runs   == [Conversations -> [n : 0..MaxRuns, active : BOOLEAN]]
NoStream == [conv |-> NoConversation, n |-> 0]
NoStop   == [pc |-> "idle", conv |-> NoConversation, n |-> 0]

TypeOK ==
    /\ run \in Runs /\ seen \in Runs /\ answer \in Runs
    /\ fetch \in {"idle", "asked", "answered"}
    /\ stream \in [conv : Conversations \cup {NoConversation}, n : 0..MaxRuns]
    /\ stop \in [pc : {"idle", "posting", "refetching"},
                 conv : Conversations \cup {NoConversation}, n : 0..MaxRuns]
    /\ {settled, stopped} \subseteq [conv : Conversations \cup {NoConversation}, n : 0..MaxRuns]
    /\ made \in 0..MaxRuns /\ missed \in BOOLEAN

\* The workbench mounts; another tab may have started a run.
Init ==
    /\ \/ made = 0 /\ run = NoRuns
       \/ made = 1 /\ \E c \in Conversations :
                          run = [NoRuns EXCEPT ![c] = [n |-> 1, active |-> TRUE]]
    /\ seen = NoRuns /\ answer = NoRuns /\ fetch = "asked"
    /\ stream = NoStream /\ stop = NoStop
    /\ settled = NoStream /\ stopped = NoStream /\ missed = FALSE

\* mapConversation and isActiveConversationRun, on the cached runs.
ShownActive(c) == seen[c].active

\* The server starts a run in c.
Startable(c) == made < MaxRuns /\ ~run[c].active
Starts(c) ==
    /\ made' = made + 1
    /\ run' = [run EXCEPT ![c] = [n |-> made + 1, active |-> TRUE]]

\* invalidateQueries: a fetch in flight is dropped and another is sent.
Invalidate == fetch' = "asked" /\ answer' = NoRuns /\ UNCHANGED <<seen, missed>>

-----------------------------------------------------------------------------
\* submitMessage, refused while the agent's client is running; the run may never start.
SubmitMessage(c) ==
    /\ stream = NoStream
    /\ stream' = [conv |-> c, n |-> 0]
    /\ UNCHANGED <<server, query, stop, history>>

StreamStarts ==
    /\ stream # NoStream /\ stream.n = 0 /\ Startable(stream.conv)
    /\ Starts(stream.conv)
    /\ stream' = [stream EXCEPT !.n = made + 1]
    /\ UNCHANGED <<query, stop, history>>

\* Another tab sends a message.
RunStartsElsewhere(c) ==
    /\ Startable(c)
    /\ Starts(c)
    /\ UNCHANGED <<query, stream, stop, history>>

RunEnds(c) ==
    /\ run[c].active
    /\ run' = [run EXCEPT ![c].active = FALSE]
    /\ UNCHANGED <<made, query, stream, stop, history>>

\* An executor's late write of its stale record takes a cancellation or a failure back.
\* What was over no longer is, and the histories forget it.
RunRevives(c) ==
    /\ run[c].n # 0 /\ ~run[c].active
    /\ run' = [run EXCEPT ![c].active = TRUE]
    /\ LET forget(h) == IF h = [conv |-> c, n |-> run[c].n] THEN NoStream ELSE h
       IN settled' = forget(settled) /\ stopped' = forget(stopped)
    /\ UNCHANGED <<made, query, stream, stop>>

\* Faulty: an answer that is on its way is taken for the refetch.
StreamSettlesJoins ==
    /\ stream # NoStream
    /\ settled' = IF stream.n = 0 \/ (run[stream.conv].n = stream.n /\ run[stream.conv].active)
                  THEN settled ELSE stream
    /\ stream' = NoStream
    /\ fetch' = IF fetch = "idle" THEN "asked" ELSE fetch
    /\ UNCHANGED <<server, seen, answer, missed, stop, stopped>>

\* The stream ends with its run, or is lost or aborted before: onRunSettled refetches.
StreamSettles ==
    /\ stream # NoStream
    /\ settled' = IF stream.n = 0 \/ (run[stream.conv].n = stream.n /\ run[stream.conv].active)
                  THEN settled ELSE stream
    /\ stream' = NoStream
    /\ stop' = IF stop.pc = "refetching" THEN NoStop ELSE stop
    /\ Invalidate
    /\ UNCHANGED <<server, stopped>>

\* stopActiveRun: enabled where the shown conversation's cached run is active; the POST
\* names that run.
StopActiveRun(c) ==
    /\ ShownActive(c) /\ stop.pc = "idle"
    /\ stop' = [pc |-> "posting", conv |-> c, n |-> seen[c].n]
    /\ UNCHANGED <<server, query, stream, history>>

CancelSeen ==
    /\ run' = [run EXCEPT ![stop.conv].active = @ /\ run[stop.conv].n # stop.n]
    /\ stopped' = [conv |-> stop.conv, n |-> stop.n]
    /\ UNCHANGED made

\* Faulty: a fetch in flight serves as the refetch.
RunCancelledJoins ==
    /\ stop.pc = "posting"
    /\ CancelSeen
    /\ stop' = NoStop
    /\ fetch' = IF fetch = "idle" THEN "asked" ELSE fetch
    /\ UNCHANGED <<seen, answer, missed, stream, settled>>

\* POST /runs/n/cancel ends run n if it is still active; onSuccess refetches and waits.
RunCancelled ==
    /\ stop.pc = "posting"
    /\ CancelSeen
    /\ stop' = [stop EXCEPT !.pc = "refetching"]
    /\ Invalidate
    /\ UNCHANGED <<stream, settled>>

\* A refused or lost cancel is an error message.
StopFails ==
    /\ stop.pc = "posting"
    /\ stop' = NoStop
    /\ UNCHANGED <<server, query, stream, history>>

-----------------------------------------------------------------------------
\* GET /runs?limit=100: a conversation whose latest run is not among the latest shows none.
Latest == [c \in Conversations |-> IF run[c].n > made - RunLimit THEN run[c] ELSE NoRun]

Answers ==
    /\ fetch = "asked"
    /\ fetch' = "answered" /\ answer' = Latest
    /\ UNCHANGED <<server, seen, missed, stream, stop, history>>

\* A stop that waited for this fetch refreshes once more.
Awaited == IF stop.pc = "refetching" THEN "asked" ELSE "idle"
Released == IF stop.pc = "refetching" THEN NoStop ELSE stop

Arrives ==
    /\ fetch = "answered"
    /\ seen' = answer /\ answer' = NoRuns
    /\ fetch' = Awaited /\ stop' = Released
    /\ UNCHANGED <<server, missed, stream, history>>

\* retry is off: a failed refetch leaves the old data.
FetchFails ==
    /\ fetch # "idle"
    /\ answer' = NoRuns /\ missed' = TRUE
    /\ fetch' = Awaited /\ stop' = Released
    /\ UNCHANGED <<server, seen, stream, history>>

\* The browser is online again, or the page is mounted again, and the data is stale.
Refetch ==
    /\ fetch = "idle"
    /\ fetch' = "asked"
    /\ UNCHANGED <<server, seen, answer, missed, stream, stop, history>>

Next ==
    \/ \E c \in Conversations : \/ SubmitMessage(c) \/ RunStartsElsewhere(c)
                                \/ RunEnds(c) \/ RunRevives(c) \/ StopActiveRun(c)
    \/ StreamStarts \/ StreamSettles \/ RunCancelled \/ StopFails
    \/ Answers \/ Arrives \/ FetchFails \/ Refetch

Spec == Init /\ [][Next]_vars

-----------------------------------------------------------------------------
\* Run s is over, in what the server or the cache knows of the runs.
Over(s, known) ==
    known[s.conv].n > s.n \/ (known[s.conv].n = s.n /\ ~known[s.conv].active)

\* It is shown over, or is so old that no list of runs holds it or a later one.
ShownOver(s, known) ==
    Over(s, known) \/ (known[s.conv] = NoRun /\ s.n <= made - RunLimit)

\* A run that had ended when its stream settled is shown ended once no fetch is out,
\* whatever answers were on their way, unless a refetch failed: none is retried, and the
\* run stays shown as it was.
SettledRunShown ==
    settled # NoStream /\ fetch = "idle" /\ ~missed => ShownOver(settled, seen)

\* So is a run that a stop was answered for: an answer from before the stop, or one that
\* another refetch asked for, does not leave it shown as running.
StoppedRunShown ==
    stopped # NoStream /\ fetch = "idle" /\ ~missed => ShownOver(stopped, seen)

\* What is known of the runs is not ahead of the server.
Known(known) == \A c \in Conversations : known[c].n <= run[c].n

\* SettledRunShown and StoppedRunShown, made inductive: the runs streamed and stopped are
\* the server's, and one that is over there is over in every answer under way.
IInv ==
    /\ TypeOK
    /\ \A c \in Conversations : run[c].n <= made
    /\ Known(seen) /\ Known(answer)
    /\ stop.pc # "idle" => stop.conv \in Conversations /\ stop.n <= run[stop.conv].n
    /\ stream # NoStream => stream.conv \in Conversations /\ stream.n <= run[stream.conv].n
    /\ \A s \in {settled, stopped} : s # NoStream =>
          /\ s.conv \in Conversations /\ Over(s, run)
          /\ fetch = "answered" => ShownOver(s, answer)
    /\ SettledRunShown /\ StoppedRunShown
=============================================================================
