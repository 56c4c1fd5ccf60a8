---------------------------- MODULE RunEventLog ----------------------------
(***************************************************************************)
(* The persistent event log of one Agent Run and the browser tabs that     *)
(* follow it over SSE.  append() reads the highest sequence and inserts    *)
(* the next one in a transaction, READ COMMITTED and without a unique      *)
(* constraint on (run_id, sequence): the read and the commit are two steps *)
(* here.  The handlers of RunLifecycle append to this log; there an append *)
(* is one step, here it is taken apart.                                    *)
(*                                                                         *)
(* The endpoint answers with the events committed when the request is      *)
(* handled and ends; EventSource then connects again by itself.  The tabs  *)
(* share the last seen sequence kept in localStorage.                      *)
(***************************************************************************)
EXTENDS Integers, Sequences, FiniteSets

CONSTANTS
    Writers,     \* threads that append: the executor, tool calls, a canceller
    Tabs,        \* browser tabs with useAgentRunStream on this run
    MaxEvents,   \* bound: events appended
    MaxLosses,   \* bound: connections lost before their response ended
    MaxUnmounts  \* bound: tabs that leave the page

ASSUME LogAssumption == /\ MaxEvents \in Nat
                        /\ MaxLosses \in Nat
                        /\ MaxUnmounts \in Nat

VARIABLES
    rows,      \* sequence column of agent_run_events, by id (autoincrement key)
    next,      \* the sequence a writer has computed and not yet inserted, or 0
    stored,    \* localStorage: the last seen sequence of the run
    conn,      \* per tab: state of its EventSource
    after,     \* per tab: the last seen sequence put into the URL, 0 for none
    lastId,    \* per tab: EventSource's last event id, 0 for none
    response,  \* per tab: ids of the rows still to be delivered
    events,    \* per tab: ids of the rows shown, in order
    losses, unmounts

vars == <<rows, next, stored, conn, after, lastId, response, events, losses, unmounts>>
client == <<stored, conn, after, lastId, response, events, losses, unmounts>>

Ids == 1 .. MaxEvents
SequencesTaken == {rows[i] : i \in DOMAIN rows}

\* What the query of _next_sequence returns: the highest sequence, 0 for none.
IsHighest(h) == /\ h \in SequencesTaken \/ (h = 0 /\ rows = <<>>)
                /\ \A s \in SequencesTaken : s <= h
Pending == {w \in Writers : next[w] # 0}

Init ==
    /\ rows     = <<>>
    /\ next     = [w \in Writers |-> 0]
    /\ stored   = 0
    /\ conn     = [t \in Tabs |-> "closed"]
    /\ after    = [t \in Tabs |-> 0]
    /\ lastId   = [t \in Tabs |-> 0]
    /\ response = [t \in Tabs |-> {}]
    /\ events   = [t \in Tabs |-> <<>>]
    /\ losses   = 0
    /\ unmounts = 0

-----------------------------------------------------------------------------
(* RunEventLogStore.append.                                                *)

\* Faulty: the sequence after the next one is taken.
NextSequenceSkips(w) ==
    /\ next[w] = 0
    /\ Len(rows) + Cardinality(Pending) < MaxEvents
    /\ \E h \in {0} \cup SequencesTaken :
         IsHighest(h) /\ next' = [next EXCEPT ![w] = h + 2]
    /\ UNCHANGED <<rows, client>>

NextSequence(w) ==
    /\ next[w] = 0
    /\ Len(rows) + Cardinality(Pending) < MaxEvents
    /\ \E h \in {0} \cup SequencesTaken :
         IsHighest(h) /\ next' = [next EXCEPT ![w] = h + 1]
    /\ UNCHANGED <<rows, client>>

Insert(w) ==
    /\ next[w] # 0
    /\ rows' = Append(rows, next[w])
    /\ next' = [next EXCEPT ![w] = 0]
    /\ UNCHANGED client

-----------------------------------------------------------------------------
(* useAgentRunStream, and the browser's EventSource.                       *)

\* Faulty: the events of the last visit are kept.
MountKeepsEvents(t) ==
    /\ conn[t] = "closed"
    /\ conn'   = [conn EXCEPT ![t] = "connecting"]
    /\ after'  = [after EXCEPT ![t] = stored]
    /\ lastId' = [lastId EXCEPT ![t] = 0]
    /\ UNCHANGED <<rows, next, stored, response, events, losses, unmounts>>

\* The tab forgets its events and resumes after the stored sequence.
Mount(t) ==
    /\ conn[t] = "closed"
    /\ conn'   = [conn EXCEPT ![t] = "connecting"]
    /\ after'  = [after EXCEPT ![t] = stored]
    /\ lastId' = [lastId EXCEPT ![t] = 0]
    /\ events' = [events EXCEPT ![t] = <<>>]
    /\ UNCHANGED <<rows, next, stored, response, losses, unmounts>>

\* Faulty: one event too many is skipped.
RespondSkips(t) ==
    /\ conn[t] = "connecting"
    /\ conn' = [conn EXCEPT ![t] = "open"]
    /\ LET from == IF after[t] > 0 THEN after[t] ELSE lastId[t] IN
         response' = [response EXCEPT ![t] = {i \in DOMAIN rows : rows[i] > from + 1}]
    /\ UNCHANGED <<rows, next, stored, after, lastId, events, losses, unmounts>>

\* stream_agent_run_events: ?after=, or else the Last-Event-ID header, selects
\* the rows.  The whole response is formatted before it is sent.
Respond(t) ==
    /\ conn[t] = "connecting"
    /\ conn' = [conn EXCEPT ![t] = "open"]
    /\ LET from == IF after[t] > 0 THEN after[t] ELSE lastId[t] IN
         response' = [response EXCEPT ![t] = {i \in DOMAIN rows : rows[i] > from}]
    /\ UNCHANGED <<rows, next, stored, after, lastId, events, losses, unmounts>>

\* A 401 (the session was revoked) or 404: EventSource
\* gives up for good.
Refuse(t) ==
    /\ conn[t] = "connecting"
    /\ conn' = [conn EXCEPT ![t] = "failed"]
    /\ UNCHANGED <<rows, next, stored, after, lastId, response, events, losses, unmounts>>

\* The rows of a response come in order of sequence; rows with equal sequences
\* in any order.
Earliest(t, i) == /\ i \in response[t]
                  /\ \A j \in response[t] : rows[i] <= rows[j]

\* Faulty: an event that is already shown is shown again.
ReceiveTwice(t) ==
    /\ conn[t] = "open"
    /\ \E i \in response[t] :
         /\ Earliest(t, i)
         /\ response' = [response EXCEPT ![t] = @ \ {i}]
         /\ lastId'   = [lastId EXCEPT ![t] = rows[i]]
         /\ stored'   = rows[i]
         /\ events'   = [events EXCEPT ![t] = Append(@, i)]
    /\ UNCHANGED <<rows, next, conn, after, losses, unmounts>>

\* handleEvent: the sequence is stored before the event is kept, and an event
\* whose sequence is already shown is dropped.
Receive(t) ==
    /\ conn[t] = "open"
    /\ \E i \in response[t] :
         /\ Earliest(t, i)
         /\ response' = [response EXCEPT ![t] = @ \ {i}]
         /\ lastId'   = [lastId EXCEPT ![t] = rows[i]]
         /\ stored'   = rows[i]
         /\ events'   = [events EXCEPT ![t] =
                           IF \E k \in DOMAIN @ : rows[@[k]] = rows[i] THEN @
                           ELSE Append(@, i)]
    /\ UNCHANGED <<rows, next, conn, after, losses, unmounts>>

\* The response has ended: EventSource connects again, with the same URL.
Reconnect(t) ==
    /\ conn[t] = "open"
    /\ response[t] = {}
    /\ conn' = [conn EXCEPT ![t] = "connecting"]
    /\ UNCHANGED <<rows, next, stored, after, lastId, response, events, losses, unmounts>>

\* The connection breaks before the response has ended.
Lose(t) ==
    /\ conn[t] = "open"
    /\ response[t] # {}
    /\ losses < MaxLosses
    /\ losses'   = losses + 1
    /\ conn'     = [conn EXCEPT ![t] = "connecting"]
    /\ response' = [response EXCEPT ![t] = {}]
    /\ UNCHANGED <<rows, next, stored, after, lastId, events, unmounts>>

\* The effect's cleanup: the user leaves the page or reloads it.
Unmount(t) ==
    /\ conn[t] # "closed"
    /\ unmounts < MaxUnmounts
    /\ unmounts' = unmounts + 1
    /\ conn'     = [conn EXCEPT ![t] = "closed"]
    /\ response' = [response EXCEPT ![t] = {}]
    /\ UNCHANGED <<rows, next, stored, after, lastId, events, losses>>

-----------------------------------------------------------------------------
Write(w)  == NextSequence(w) \/ Insert(w)
Follow(t) == Respond(t) \/ Receive(t) \/ Reconnect(t)

Next ==
    \/ \E w \in Writers : Write(w)
    \/ \E t \in Tabs : Mount(t) \/ Follow(t) \/ Refuse(t) \/ Lose(t) \/ Unmount(t)

Spec == Init /\ [][Next]_vars

\* The browser delivers what has arrived and reconnects (onerror does not close
\* the EventSource), the endpoint answers.  Nobody need write or mount.
FairSpec == Spec /\ \A t \in Tabs : WF_vars(Follow(t))

-----------------------------------------------------------------------------
(* Properties.                                                             *)

\* Types of all variables.
TypeOK ==
    /\ rows \in Seq(Nat \ {0})
    /\ next \in [Writers -> Nat]
    /\ stored \in Nat
    /\ conn \in [Tabs -> {"closed", "connecting", "open", "failed"}]
    /\ after \in [Tabs -> Nat]
    /\ lastId \in [Tabs -> Nat]
    /\ response \in [Tabs -> SUBSET Nat]
    /\ events \in [Tabs -> Seq(Nat)]
    /\ \A t \in Tabs : \A k \in DOMAIN events[t] : events[t][k] \in DOMAIN rows
    /\ losses \in 0 .. MaxLosses
    /\ unmounts \in 0 .. MaxUnmounts

\* However many threads race through _next_sequence, the log never skips a
\* sequence: a client that has seen n has been offered every sequence below n,
\* and "after n" leaves out no sequence it has not seen.
NoHole ==
    \A i \in DOMAIN rows : \A s \in 1 .. rows[i] : s \in SequencesTaken

Shown(t) == [k \in DOMAIN events[t] |-> rows[events[t][k]]]

\* What a tab shows since it was mounted is the contiguous stretch of sequences
\* after the one in its URL, in order and without repetition, whatever was
\* delivered twice, lost, or appended meanwhile by racing writers, and whatever
\* other tabs did to the sequence they share.
ShownIsContiguous ==
    \A t \in Tabs : Shown(t) = [k \in DOMAIN events[t] |-> after[t] + k]

\* Every event between the sequence a tab resumed from and the last one it shows
\* is shown: no event is passed over ("recoverable after the frontend returns").
NothingPassedOver ==
    \A t \in Tabs : \A i \in DOMAIN rows :
        rows[i] > after[t] /\ rows[i] <= after[t] + Len(events[t])
          => \E k \in DOMAIN events[t] : events[t][k] = i

-----------------------------------------------------------------------------
(* The inductive strengthening of NoHole and ShownIsContiguous.            *)

\* A sequence about to be inserted closes up to the ones already taken.
PendingInv == \A w \in Writers : \A s \in 1 .. next[w] - 1 : s \in SequencesTaken

\* A reconnection without ?after= resumes at or before the last event shown.
LastIdInv == \A t \in Tabs : after[t] = 0 => lastId[t] <= Len(events[t])

\* A response starts after the sequence of the URL and has all the sequences
\* that the tab still lacks, up to its last.
ResponseInv ==
    \A t \in Tabs : \A i \in response[t] :
        /\ conn[t] = "open"
        /\ i \in DOMAIN rows
        /\ rows[i] > after[t]
        /\ \A s \in (after[t] + Len(events[t]) + 1) .. rows[i] :
             \E j \in response[t] : rows[j] = s

IInv == /\ TypeOK /\ NoHole /\ PendingInv
        /\ LastIdInv /\ ResponseInv /\ ShownIsContiguous

-----------------------------------------------------------------------------
Following(t) == conn[t] \in {"connecting", "open"}

\* An event newer than the point a tab resumed from is shown by it at last, or
\* the tab leaves the page or was refused, or a racing append took its sequence.
EveryEventArrives ==
    \A t \in Tabs, i \in Ids :
        (Following(t) /\ i \in DOMAIN rows /\ rows[i] > after[t])
          ~> \/ ~Following(t)
             \/ \E k \in DOMAIN events[t] : events[t][k] = i
             \/ \E j \in DOMAIN rows : i \in DOMAIN rows /\ j # i /\ rows[j] = rows[i]

=============================================================================
