----------------------------- MODULE Transcript -----------------------------
(***************************************************************************)
(* What the conversation surface renders: the stored messages it has       *)
(* cached, the messages of the agent's client, which all conversations of  *)
(* an agent share, and the messages sent and not yet seen stored; and the  *)
(* effects that bring the three together.                                  *)
(***************************************************************************)
EXTENDS Integers, Sequences, FiniteSets

CONSTANTS
    Conversations,
    Texts,          \* what a user may send; a reply is named by the message it answers
    MaxSends,       \* bound on the messages sent
    NoConversation

\* The conversations are asked for with their last 80 messages.  No conversation is followed
\* past that: every send stores two messages at most.
MessageLimit == 80
TranscriptAssumption ==
    /\ MaxSends \in Nat /\ 2 * MaxSends <= MessageLimit
    /\ NoConversation \notin Conversations

VARIABLES
    stored,      \* per conversation, the messages of the server
    cached,      \* how many of them the conversations query holds
    job,         \* per conversation: the sends that the server has yet to store or to answer
    shown,       \* the conversation whose surface is mounted
    live,        \* agent.messages
    optimistic,  \* optimisticMessages
    stream,      \* the run of the agent's client: conversation, its own list of messages
    sends,       \* history: every message sent
    owed,        \* history: the number of the send whose message must be visible, or 0
    disturbed    \* history: the selection moved, or a list arrived, during a stream

vars == <<stored, cached, job, shown, live, optimistic, stream, sends, owed, disturbed>>
server == <<stored, job>>

NoStream == [conv |-> NoConversation, own |-> <<>>, n |-> 0]

\* id: <<"stored", conversation, index>>, or <<"local" or "streamed", conversation, number
\* of the send>>.
Message(kind, c, k, role, text, tools) ==
    [id |-> <<kind, c, k>>, role |-> role, text |-> text, tools |-> tools]
ConversationOf(message) == message.id[2]

\* mapConversation and toCopilotMessage: the stored messages, without tool calls.
CopilotMessages(c, held) ==
    [k \in 1..held |->
        Message("stored", c, k, stored[c][k].role, stored[c][k].text, FALSE)]

SameSignature(left, right) ==
    left.role = right.role /\ left.text = right.text /\ left.tools = right.tools

\* mergeOptimisticMessages: what is not there yet, by id and by signature, is appended.
Merge(messages, more) ==
    LET Merged[k \in 0..Len(more)] ==
          IF k = 0 THEN messages
          ELSE LET sofar == Merged[k - 1]
                   known == \E i \in 1..Len(sofar) :
                               sofar[i].id = more[k].id \/ SameSignature(sofar[i], more[k])
               IN IF known THEN sofar ELSE Append(sofar, more[k])
    IN Merged[Len(more)]

\* The effect on the stored messages: of what was sent, what is not yet there.
Unstored(messages, now) ==
    LET Kept[k \in 0..Len(messages)] ==
          IF k = 0 THEN <<>>
          ELSE IF \E i \in 1..Len(now) : /\ now[i].role = messages[k].role
                                         /\ now[i].text = messages[k].text
               THEN Kept[k - 1] ELSE Append(Kept[k - 1], messages[k])
    IN Kept[Len(messages)]

Rendered == Merge(Merge(CopilotMessages(shown, cached[shown]), live), optimistic)

TypeOK ==
    /\ \A c \in Conversations : cached[c] \in 0..Len(stored[c])
    /\ \A c \in Conversations : job[c] \subseteq 1..Len(sends)
    /\ shown \in Conversations
    /\ stream.conv \in Conversations \cup {NoConversation}
    /\ stream.n \in 0..Len(sends) /\ owed \in 0..Len(sends)
    /\ Len(sends) \in 0..MaxSends
    /\ disturbed \in BOOLEAN

Init ==
    /\ stored = [c \in Conversations |-> <<>>] /\ cached = [c \in Conversations |-> 0]
    /\ job = [c \in Conversations |-> {}]
    /\ shown \in Conversations
    /\ live = <<>> /\ optimistic = <<>> /\ stream = NoStream
    /\ sends = <<>> /\ owed = 0 /\ disturbed = FALSE

Streaming == stream # NoStream

-----------------------------------------------------------------------------
\* submitMessage: the message is shown at once, added to the agent and sent; the run
\* starts from the agent's messages.
SubmitMessage(text) ==
    /\ ~Streaming /\ Len(sends) < MaxSends
    /\ LET k == Len(sends) + 1
           m == Message("local", shown, k, "user", text, FALSE) IN
       /\ sends' = Append(sends, [conv |-> shown, text |-> text])
       /\ optimistic' = Append(optimistic, m)
       /\ live' = Append(live, m)
       /\ stream' = [conv |-> shown, own |-> live', n |-> k]
       /\ job' = [job EXCEPT ![shown] = @ \cup {k}]
       /\ owed' = k
    /\ UNCHANGED <<stored, cached, shown, disturbed>>

IsStored(k, role) ==
    LET c == sends[k].conv IN
    \E i \in 1..Len(stored[c]) : stored[c][i].role = role /\ stored[c][i].k = k

\* The server stores the message at the start of the run.
StoreMessage(c, k) ==
    /\ k \in job[c] /\ ~IsStored(k, "user")
    /\ stored' = [stored EXCEPT ![c] = Append(@, [role |-> "user", text |-> sends[k].text,
                                                  k |-> k])]
    /\ UNCHANGED <<cached, job, shown, live, optimistic, stream, sends, owed, disturbed>>

\* It stores the reply at the end of the run.
StoreReply(c, k) ==
    /\ k \in job[c] /\ IsStored(k, "user")
    /\ stored' = [stored EXCEPT ![c] = Append(@, [role |-> "assistant", text |-> k, k |-> k])]
    /\ job' = [job EXCEPT ![c] = @ \ {k}]
    /\ UNCHANGED <<cached, shown, live, optimistic, stream, sends, owed, disturbed>>

\* The run is refused, or ends without a reply.
RunFails(c, k) ==
    /\ k \in job[c]
    /\ job' = [job EXCEPT ![c] = @ \ {k}]
    /\ UNCHANGED <<stored, cached, shown, live, optimistic, stream, sends, owed, disturbed>>

\* The client of the agent applies a streamed reply, with or without tool calls, to the
\* run's own list and replaces agent.messages by it.
StreamReply(tools) ==
    /\ Streaming /\ IsStored(stream.n, "user")
    /\ \A i \in 1..Len(stream.own) : stream.own[i].text # stream.n
    /\ stream' = [stream EXCEPT !.own =
                    Append(@, Message("streamed", stream.conv, stream.n, "assistant",
                                      stream.n, tools))]
    /\ live' = stream'.own
    /\ UNCHANGED <<server, cached, shown, optimistic, sends, owed, disturbed>>

\* The run of the client resolves, fails or is aborted; a refetch is on its way.
StreamEnds ==
    /\ Streaming
    /\ stream' = NoStream
    /\ UNCHANGED <<server, cached, shown, live, optimistic, sends, owed, disturbed>>

\* Faulty: agent.messages keeps what the run left there.
ListArrivesUnsynced ==
    /\ cached' = [c \in Conversations |-> Len(stored[c])]
    /\ cached' # cached
    /\ disturbed' = (disturbed \/ Streaming)
    /\ UNCHANGED <<server, shown, live, optimistic, stream, sends, owed>>

\* The conversations query's data changes.  A new fingerprint of the shown conversation
\* replaces agent.messages, and what was sent and is now stored is forgotten.
ListArrives ==
    /\ cached' = [c \in Conversations |-> Len(stored[c])]
    /\ cached' # cached
    /\ disturbed' = (disturbed \/ Streaming)
    /\ IF cached'[shown] = cached[shown] THEN UNCHANGED <<live, optimistic>>
       ELSE LET now == CopilotMessages(shown, cached'[shown]) IN
            /\ live' = now
            /\ optimistic' = Unstored(optimistic, now)
    /\ UNCHANGED <<server, shown, stream, sends, owed>>

\* Another conversation is selected, by a click or by a refresh that prefers it: the
\* surface, keyed by the conversation, mounts anew.
Select(c) ==
    /\ c # shown
    /\ shown' = c
    /\ live' = CopilotMessages(c, cached[c]) /\ optimistic' = <<>>
    /\ owed' = 0 /\ disturbed' = Streaming
    /\ UNCHANGED <<server, cached, stream, sends>>

Next ==
    \/ \E text \in Texts : SubmitMessage(text)
    \/ \E c \in Conversations : \E k \in job[c] :
          StoreMessage(c, k) \/ StoreReply(c, k) \/ RunFails(c, k)
    \/ \E tools \in BOOLEAN : StreamReply(tools)
    \/ StreamEnds \/ ListArrives
    \/ \E c \in Conversations : Select(c)

Spec == Init /\ [][Next]_vars

-----------------------------------------------------------------------------
TimesSaid(c, text) == Cardinality({k \in 1..Len(sends) : sends[k] = [conv |-> c, text |-> text]})
Shows(role, text) == {i \in 1..Len(Rendered) : Rendered[i].role = role /\ Rendered[i].text = text}

\* Unless the selection moves or a list arrives while a run streams, the transcript is
\* that of the conversation shown and of no other, it shows nothing more often than it
\* was said, and what the user sent is on screen from the click on, whichever of the
\* three sources has it.
TranscriptExact ==
    ~disturbed =>
        /\ \A i \in 1..Len(Rendered) : ConversationOf(Rendered[i]) = shown
        /\ \A text \in Texts : Cardinality(Shows("user", text)) <= TimesSaid(shown, text)
        /\ \A k \in 1..Len(sends) : Cardinality(Shows("assistant", k)) <= 1
        /\ owed # 0 => Shows("user", sends[owed].text) # {}

\* What was sent in the conversation shown.
SaidHere == {k \in 1..Len(sends) : sends[k].conv = shown}

\* No reply to the send is among the messages held.
Unanswered(k) ==
    \A i \in 1..cached[shown] :
        stored[shown][i].role = "assistant" => stored[shown][i].k # k

\* The messages there can be on the surface: the stored ones that are held, what was sent,
\* and the streamed replies to sends that none held answers.
LocalOf(k) == Message("local", shown, k, "user", sends[k].text, FALSE)
StreamedOf(k, tools) == Message("streamed", shown, k, "assistant", k, tools)
Held == {CopilotMessages(shown, cached[shown])[i] : i \in 1..cached[shown]}
Locals == {LocalOf(k) : k \in SaidHere}
Replies == {StreamedOf(k, tools) : k \in {k \in SaidHere : Unanswered(k)}, tools \in BOOLEAN}

StoredTyped ==
    /\ stored \in [Conversations -> Seq([role : {"user", "assistant"}, text : Texts \cup Nat,
                                         k : Nat])]
    /\ cached \in [Conversations -> Nat]
    /\ job \in [Conversations -> SUBSET Nat]
    /\ sends \in Seq([conv : Conversations, text : Texts])
    /\ stream = [conv |-> stream.conv, own |-> stream.own, n |-> stream.n]

\* Every stored message is of one send of its conversation, which has no other of its role;
\* a send that the server has yet to answer has no reply.
StoredSound ==
    \A c \in Conversations :
        /\ \A k \in job[c] : k \in 1..Len(sends) /\ sends[k].conv = c
        /\ \A i \in 1..Len(stored[c]) :
              LET m == stored[c][i] IN
              /\ m.k \in 1..Len(sends) /\ sends[m.k].conv = c
              /\ m.text = IF m.role = "user" THEN sends[m.k].text ELSE m.k
              /\ m.role = "assistant" => m.k \notin job[c]
              /\ \A j \in 1..Len(stored[c]) :
                    stored[c][j].role = m.role /\ stored[c][j].k = m.k => i = j

\* The agent's messages are of this conversation, and what is streamed is its next reply.
LiveSound ==
    /\ live \in Seq(Held \cup Locals \cup Replies)
    /\ Streaming => /\ stream.conv = shown /\ stream.own = live
                    /\ stream.n \in SaidHere /\ Unanswered(stream.n)

\* What was sent last is held, or in what was sent and not seen stored.
OptimisticSound ==
    /\ optimistic \in Seq(Locals)
    /\ owed # 0 =>
          \/ \E i \in 1..cached[shown] : /\ stored[shown][i].role = "user"
                                         /\ stored[shown][i].text = sends[owed].text
          \/ \E i \in 1..Len(optimistic) : optimistic[i].text = sends[owed].text

\* The property made inductive.
IInv ==
    /\ TypeOK /\ StoredTyped /\ StoredSound
    /\ ~disturbed => LiveSound /\ OptimisticSound
=============================================================================
