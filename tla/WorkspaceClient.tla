-------------------------- MODULE WorkspaceClient --------------------------
(***************************************************************************)
(* Which conversation the workbench of one tab shows: the cached list, the *)
(* selection, new conversations, and the refetches that follow a stream or *)
(* a stop.  Conversations are numbered as the server creates them; of a    *)
(* list it matters which it holds and which comes first.  The server lists *)
(* the latest ListLimit, latest first.  One agent is configured; its       *)
(* CopilotKit client, shared by all conversations, streams one run at a    *)
(* time.  What the runs query holds is module WorkspaceRuns.               *)
(***************************************************************************)
EXTENDS Integers, FiniteSets

CONSTANTS
    MaxConversations,  \* bound on the conversations
    ListLimit,         \* the limit of the list request, 50 in the code
    Drafts             \* creations of a conversation that may overlap

WorkspaceAssumption == MaxConversations \in Nat \ {0} /\ ListLimit \in Nat \ {0}

VARIABLES
    made,       \* the server's conversations are 1..made
    listed,     \* the list that the conversations query holds
    fetch,      \* per query: idle, asked, or answered and not yet received
    answer,     \* the list that an answered conversations query will deliver
    selected,   \* selectedConversationId
    preferred,  \* preferredConversationIdRef
    draft,      \* creations in progress
    latest,     \* the creation the mutation hook observes
    stream,     \* the run being streamed: conversation it was sent in, and its own
    stop        \* the conversation whose run is being stopped

vars == <<made, listed, fetch, answer, selected, preferred, draft, latest, stream, stop>>
lists == <<made, listed, fetch, answer>>
ui    == <<selected, preferred>>
work  == <<draft, latest, stream, stop>>

None     == 0
NoList   == [ids |-> {}, first |-> None]
Queries  == {"conversations", "runs"}
NoDraft  == [pc |-> "idle", conv |-> None]
NoStream == [on |-> FALSE, sent |-> None, conv |-> None]

TypeOK ==
    /\ made \in 0..MaxConversations
    /\ {listed, answer} \subseteq [ids : SUBSET (1..made), first : 0..made]
    /\ \A l \in {listed, answer} : IF l.ids = {} THEN l.first = None ELSE l.first \in l.ids
    /\ fetch \in [Queries -> {"idle", "asked", "answered"}]
    /\ selected \in 0..MaxConversations /\ preferred \in 0..MaxConversations
    /\ draft \in [Drafts -> [pc : {"idle", "posting", "made", "refetching", "refetched"},
                             conv : 0..MaxConversations]]
    /\ \A d \in Drafts : draft[d].pc = "made" => draft[d].conv \in 1..made
    /\ latest \in Drafts
    /\ stream \in [on : BOOLEAN, sent : 0..MaxConversations, conv : 0..MaxConversations]
    /\ stop \in 0..MaxConversations

\* The workbench mounts: useWorkspaceData asks for the lists.
Init ==
    /\ made \in 0..MaxConversations /\ listed = NoList /\ answer = NoList
    /\ fetch = [q \in Queries |-> "asked"]
    /\ selected = None /\ preferred = None
    /\ draft = [d \in Drafts |-> NoDraft] /\ latest \in Drafts
    /\ stream = NoStream /\ stop = None

\* createConversationDraftMutation.isPending
Creating == draft[latest].pc # "idle"

\* Faulty: the end of a creation does not run the effect.
SelectionEffectSkips(sel, pref, runsChanged) ==
    LET changed == runsChanged \/ sel # selected \/ listed' # listed
        wanted  == IF pref # None THEN pref ELSE sel
    IN IF ~changed \/ (Creating' /\ sel = None) \/ listed'.ids = {}
       THEN /\ preferred' = pref
            /\ selected' = IF changed /\ listed'.ids = {} THEN None ELSE sel
       ELSE /\ preferred' = None
            /\ selected' = IF wanted \in listed'.ids THEN wanted ELSE listed'.first

\* The selection effect, after a step that leaves sel selected and pref preferred.  It
\* runs where something it depends on changed; a preferred conversation wins.
SelectionEffect(sel, pref, runsChanged) ==
    LET changed == runsChanged \/ sel # selected \/ listed' # listed \/ Creating' # Creating
        wanted  == IF pref # None THEN pref ELSE sel
    IN IF ~changed \/ (Creating' /\ sel = None) \/ listed'.ids = {}
       THEN /\ preferred' = pref
            /\ selected' = IF changed /\ listed'.ids = {} THEN None ELSE sel
       ELSE /\ preferred' = None
            /\ selected' = IF wanted \in listed'.ids THEN wanted ELSE listed'.first

\* The creations that waited for a conversations fetch go on.
Refetched == [d \in Drafts |-> IF draft[d].pc = "refetching"
                               THEN [draft[d] EXCEPT !.pc = "refetched"] ELSE draft[d]]

-----------------------------------------------------------------------------
\* The conversations that the command palette offers, before a word narrows them.
Offered == listed.ids

\* A conversation is clicked in the sidebar or the command palette, or opened by the
\* openAgentConversation and openArtifactPreview tools.
Select(c) ==
    /\ c \in Offered
    /\ UNCHANGED <<lists, work>>
    /\ SelectionEffect(c, preferred, FALSE)

\* startNewAgentConversationDraft, a tool of the assistant: nothing is selected, until
\* the effect selects again.
SwitchToDraft ==
    /\ UNCHANGED <<lists, work>>
    /\ SelectionEffect(None, preferred, FALSE)

\* startNewConversation, up to the POST.  The palette's button is never disabled.
StartNewConversation(d) ==
    /\ draft[d].pc = "idle" /\ made < MaxConversations
    /\ draft' = [draft EXCEPT ![d].pc = "posting"]
    /\ latest' = d
    /\ UNCHANGED <<lists, stream, stop>>
    /\ SelectionEffect(None, preferred, FALSE)

\* The server creates the draft; others may create theirs before the response arrives.
DraftMade(d) ==
    /\ draft[d].pc = "posting" /\ made < MaxConversations
    /\ made' = made + 1
    /\ draft' = [draft EXCEPT ![d] = [pc |-> "made", conv |-> made + 1]]
    /\ UNCHANGED <<listed, fetch, answer, ui, latest, stream, stop>>

PutFirst(c) == [ids |-> listed.ids \cup {c}, first |-> c]

\* Faulty: a fetch in flight is joined, not dropped.
DraftCreatedJoins(d) ==
    /\ draft[d].pc = "made"
    /\ listed' = PutFirst(draft[d].conv)
    /\ fetch' = [fetch EXCEPT !["conversations"] = IF @ = "idle" THEN "asked" ELSE @]
    /\ draft' = [draft EXCEPT ![d].pc = "refetching"]
    /\ UNCHANGED <<made, answer, latest, stream, stop>>
    /\ SelectionEffect(selected, preferred, FALSE)

\* The response arrives: onSuccess puts the conversation first in the cached list and
\* refetches, dropping a fetch in flight; mutateAsync resolves when the refetch is over.
DraftCreated(d) ==
    /\ draft[d].pc = "made"
    /\ listed' = PutFirst(draft[d].conv)
    /\ fetch' = [fetch EXCEPT !["conversations"] = "asked"] /\ answer' = NoList
    /\ draft' = [Refetched EXCEPT ![d].pc = "refetching"]
    /\ UNCHANGED <<made, latest, stream, stop>>
    /\ SelectionEffect(selected, preferred, FALSE)

\* The rest of startNewConversation: the new conversation is selected, whatever was
\* selected meanwhile.
DraftSelected(d) ==
    /\ draft[d].pc = "refetched"
    /\ draft' = [draft EXCEPT ![d] = NoDraft]
    /\ UNCHANGED <<lists, latest, stream, stop>>
    /\ SelectionEffect(draft[d].conv, draft[d].conv, FALSE)

\* The draft is refused, or the response is lost.
DraftFails(d) ==
    /\ draft[d].pc \in {"posting", "made"}
    /\ draft' = [draft EXCEPT ![d] = NoDraft]
    /\ UNCHANGED <<lists, latest, stream, stop>>
    /\ SelectionEffect(selected, preferred, FALSE)

-----------------------------------------------------------------------------
\* submitMessage: one run of the shared agent at a time.
SubmitMessage ==
    /\ ~stream.on
    /\ stream' = [on |-> TRUE, sent |-> selected, conv |-> selected]
    /\ UNCHANGED <<lists, ui, draft, latest, stop>>

\* The runtime endpoint makes a conversation for a message sent without one.
StreamStarts ==
    /\ stream.on /\ stream.conv = None /\ made < MaxConversations
    /\ made' = made + 1
    /\ stream' = [stream EXCEPT !.conv = made + 1]
    /\ UNCHANGED <<listed, fetch, answer, ui, draft, latest, stop>>

\* refreshWorkspace(conv): the conversation becomes the preferred one; fetches in
\* flight are cancelled and all lists are fetched again.
Refresh(conv) ==
    /\ fetch' = [q \in Queries |-> "asked"] /\ answer' = NoList
    /\ draft' = Refetched
    /\ UNCHANGED <<made, listed, latest>>
    /\ SelectionEffect(selected, conv, FALSE)

\* runAgent resolves, with the conversation of the run, or fails, or is aborted, with
\* the one it was sent in: onRunSettled in any case.
StreamEnds ==
    /\ stream.on
    /\ \E conv \in {stream.sent, stream.conv} : Refresh(conv)
    /\ stream' = NoStream
    /\ UNCHANGED stop

\* stopActiveRun, from the header or the composer, for the conversation shown.
StopActiveRun ==
    /\ selected # None /\ stop = None
    /\ stop' = selected
    /\ UNCHANGED <<lists, ui, draft, latest, stream>>

\* The run is cancelled and the lists refetched: the stopped conversation is preferred.
StopSettles ==
    /\ stop # None
    /\ stop' = None
    /\ Refresh(stop)
    /\ UNCHANGED stream

-----------------------------------------------------------------------------
\* GET /conversations?limit=50: the latest, latest first.
Latest == [ids |-> {c \in 1..made : c > made - ListLimit}, first |-> made]

\* The server answers; what it changes later is not in the answer.
Answers(q) ==
    /\ fetch[q] = "asked"
    /\ fetch' = [fetch EXCEPT ![q] = "answered"]
    /\ answer' = IF q = "conversations" THEN Latest ELSE answer
    /\ UNCHANGED <<made, listed, ui, work>>

ListArrives ==
    /\ fetch["conversations"] = "answered"
    /\ fetch' = [fetch EXCEPT !["conversations"] = "idle"]
    /\ listed' = answer /\ answer' = NoList
    /\ draft' = Refetched
    /\ UNCHANGED <<made, latest, stream, stop>>
    /\ \E renamed \in BOOLEAN : SelectionEffect(selected, preferred, renamed)

RunsArrive ==
    /\ fetch["runs"] = "answered"
    /\ fetch' = [fetch EXCEPT !["runs"] = "idle"]
    /\ UNCHANGED <<made, listed, answer, work>>
    /\ \E changed \in BOOLEAN : SelectionEffect(selected, preferred, changed)

\* retry is off: a failed fetch leaves the old data.
FetchFails(q) ==
    /\ fetch[q] # "idle"
    /\ fetch' = [fetch EXCEPT ![q] = "idle"]
    /\ answer' = IF q = "conversations" THEN NoList ELSE answer
    /\ draft' = IF q = "conversations" THEN Refetched ELSE draft
    /\ UNCHANGED <<made, listed, ui, latest, stream, stop>>

\* The browser is online again: a stale query that is idle is fetched.
Refetch(q) ==
    /\ fetch[q] = "idle"
    /\ fetch' = [fetch EXCEPT ![q] = "asked"]
    /\ UNCHANGED <<made, listed, answer, ui, work>>

\* Another tab creates a conversation.
MadeElsewhere ==
    /\ made < MaxConversations
    /\ made' = made + 1
    /\ UNCHANGED <<listed, fetch, answer, ui, work>>

Next ==
    \/ \E c \in 1..made : Select(c)
    \/ \E d \in Drafts : \/ StartNewConversation(d) \/ DraftMade(d) \/ DraftCreated(d)
                         \/ DraftSelected(d) \/ DraftFails(d)
    \/ SwitchToDraft \/ SubmitMessage \/ StreamStarts \/ StreamEnds
    \/ StopActiveRun \/ StopSettles \/ MadeElsewhere
    \/ ListArrives \/ RunsArrive
    \/ \E q \in Queries : Answers(q) \/ FetchFails(q) \/ Refetch(q)

Spec == Init /\ [][Next]_vars

-----------------------------------------------------------------------------
\* The title, the transcript and the composer belong to one conversation of the list,
\* except in an empty workspace or while a new conversation is being created.
SelectionListed ==
    /\ selected \in listed.ids \cup {None}
    /\ selected = None => listed.ids = {} \/ Creating

\* A conversation that was created or listed stays in the sidebar as long as it is among
\* the latest ListLimit: no late answer to an earlier fetch takes a new one away again.
ListKeepsLatest == \A c \in listed.ids \ listed'.ids : c <= made' - ListLimit
LatestStayListed == [][ListKeepsLatest]_vars

\* An answer on its way holds all that is listed and among the latest: every step that adds
\* to the list drops it.
AnswerHoldsListed ==
    fetch["conversations"] = "answered" =>
        \A c \in listed.ids \ answer.ids : c <= made - ListLimit

\* SelectionListed and LatestStayListed, made inductive.
IInv == TypeOK /\ AnswerHoldsListed /\ SelectionListed
=============================================================================
