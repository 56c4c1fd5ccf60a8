----------------------------- MODULE ModelPanel -----------------------------
(***************************************************************************)
(* The model configurations page of one administrator: the list loaded     *)
(* when it mounts, and the requests that create, save, enable, check and   *)
(* delete configurations.  A request keeps the list of the render it was   *)
(* made in; answers come in any order.  The settings a save sends are      *)
(* module SettingsForm's matter: here an edit is a number.                 *)
(***************************************************************************)
EXTENDS Integers, Sequences, SequencesExt

CONSTANTS
    MaxConfigurations,  \* bound on the configurations ever made
    Contents,           \* what the fields of a configuration may hold
    MaxRequests         \* bound on the requests in flight together

ModelPanelAssumption ==
    MaxConfigurations \in Nat \ {0} /\ MaxRequests \in Nat /\ Contents # {}

VARIABLES
    server,      \* the configurations, in order of id
    made,        \* how many were ever made
    loading,     \* the page's first request: asked, answered or done
    loaded,      \* what an answered load will deliver
    configurations,  \* the list
    selected,    \* selectedConfigurationId
    dialog,      \* isCreateDraftOpen
    request,     \* kind, id, what is sent, the list seen, pc, answer
    overlapped,  \* history: requests crossed in a way that the list does not survive
    missed       \* history: an answer to a change was lost, or the load was refused

vars == <<server, made, loading, loaded, configurations, selected, dialog, request,
          overlapped, missed>>
page == <<configurations, selected, dialog>>
load == <<loading, loaded>>

Ids    == 1..MaxConfigurations
None   == 0
Requests == 1..MaxRequests
AnyContent == CHOOSE x \in Contents : TRUE
Record == [id : Ids, content : Contents, enabled : BOOLEAN]
NoRecord  == [id |-> None, content |-> AnyContent, enabled |-> FALSE]
NoRequest == [kind |-> "none", id |-> None, content |-> AnyContent, enabled |-> FALSE,
              seen |-> <<>>, pc |-> "idle", answer |-> NoRecord]

TypeOK ==
    /\ server \in Seq(Record) /\ configurations \in Seq(Record) /\ loaded \in Seq(Record)
    /\ made \in 0..MaxConfigurations
    /\ loading \in {"asked", "answered", "done"}
    /\ selected \in {None} \cup Ids
    /\ \A r \in Requests :
          /\ request[r].kind \in {"none", "create", "save", "enable", "check", "delete"}
          /\ request[r].pc \in {"idle", "sent", "answered"}
    /\ dialog \in BOOLEAN /\ overlapped \in BOOLEAN /\ missed \in BOOLEAN

IdsOf(list) == {list[k].id : k \in 1..Len(list)}
\* An id is in a list once, so that the filter of the code leaves one configuration out.
Without(list, id) == RemoveFirstMatch(list, LAMBDA c : c.id = id)
Replace(list, c) == [k \in 1..Len(list) |-> IF list[k].id = c.id THEN c ELSE list[k]]
\* Where the configuration is in the list, 0 where it is not.
Find(list, id) == SelectInSeq(list, LAMBDA c : c.id = id)

\* selectedConfiguration: the one selected, or the first of the list.
Shown ==
    LET k == Find(configurations, selected)
    IN IF k # 0 THEN configurations[k]
       ELSE IF configurations # <<>> THEN configurations[1] ELSE NoRecord

\* The page mounts.
Init ==
    /\ made \in 0..1
    /\ server = IF made = 0 THEN <<>> ELSE <<[NoRecord EXCEPT !.id = 1, !.enabled = TRUE]>>
    /\ loading = "asked" /\ loaded = <<>>
    /\ configurations = <<>> /\ selected = None /\ dialog = FALSE
    /\ request = [r \in Requests |-> NoRequest]
    /\ overlapped = FALSE /\ missed = FALSE

LoadAnswered ==
    /\ loading = "asked"
    /\ loading' = "answered" /\ loaded' = server
    /\ UNCHANGED <<server, made, page, request, overlapped, missed>>

\* The providers and the configurations arrive together and replace the list; refused,
\* there is none.
LoadArrives ==
    /\ loading = "answered"
    /\ loading' = "done" /\ loaded' = <<>>
    /\ \/ configurations' = loaded /\ UNCHANGED missed
       \/ configurations' = <<>> /\ missed' = TRUE
    /\ selected' = IF configurations' = <<>> THEN None ELSE configurations'[1].id
    /\ UNCHANGED <<server, made, dialog, request, overlapped>>

\* The configurations of the list, each a row that selects it.
Listed == IdsOf(configurations)

\* A row is clicked, or focused by the assistant's focusModelConfiguration.
Select(id) ==
    /\ id \in Listed
    /\ selected' = id
    /\ UNCHANGED <<server, made, load, configurations, dialog, request, overlapped,
                   missed>>

\* The button above the list and the assistant open the dialog, Cancel closes it.
SetIsCreateDraftOpen(open) ==
    /\ dialog' = open /\ open # dialog
    /\ UNCHANGED <<server, made, load, configurations, selected, request, overlapped,
                   missed>>

-----------------------------------------------------------------------------
\* Two requests cross harmfully: one of them deletes, or both are about one configuration.
\* A creation crosses the load, whose list replaces what it put there.
Crosses(kind, id) ==
    \/ loading # "done"
    \/ \E r \in Requests : /\ request[r] # NoRequest
                        /\ \/ "delete" \in {kind, request[r].kind}
                           \/ id = request[r].id /\ id # None

Send(r, sent) ==
    /\ request[r] = NoRequest /\ \A s \in 1..(r - 1) : request[s] # NoRequest
    /\ request' = [request EXCEPT ![r] = [sent EXCEPT !.pc = "sent", !.seen = configurations]]
    /\ overlapped' = (overlapped \/ Crosses(sent.kind, sent.id))
    /\ UNCHANGED <<server, made, load, page, missed>>

\* createModelConfiguration; nothing stops a second submit before the answer.
CreateModelConfiguration(r) ==
    /\ dialog
    /\ Send(r, [NoRequest EXCEPT !.kind = "create"])

\* updateModelConfiguration: the fields of the form; enabled is not sent.
UpdateModelConfiguration(r, content) ==
    /\ Shown # NoRecord
    /\ Send(r, [NoRequest EXCEPT !.kind = "save", !.id = Shown.id, !.content = content])

\* setModelConfigurationEnabled: the opposite of what the list says.
SetModelConfigurationEnabled(r) ==
    /\ Shown # NoRecord
    /\ Send(r, [NoRequest EXCEPT !.kind = "enable", !.id = Shown.id, !.enabled = ~Shown.enabled])

\* The health fields, which nothing else changes, are left out.
CheckModelConfigurationHealth(r) ==
    /\ Shown # NoRecord
    /\ Send(r, [NoRequest EXCEPT !.kind = "check", !.id = Shown.id])

DeleteModelConfiguration(r) ==
    /\ Shown # NoRecord
    /\ Send(r, [NoRequest EXCEPT !.kind = "delete", !.id = Shown.id])

-----------------------------------------------------------------------------
\* The server handles the request, and answers with the record as it then is.
Serve(r) ==
    /\ request[r].pc = "sent"
    /\ LET q == request[r]
           old == server[Find(server, q.id)]
           new == CASE q.kind = "create" -> [NoRecord EXCEPT !.id = made + 1, !.enabled = TRUE]
                    [] q.kind = "save"   -> [old EXCEPT !.content = q.content]
                    [] q.kind = "enable" -> [old EXCEPT !.enabled = q.enabled]
                    [] q.kind = "check"  -> old
                    [] q.kind = "delete" -> NoRecord
       IN /\ q.kind = "create" \/ Find(server, q.id) # 0
          /\ made' = IF q.kind = "create" THEN made + 1 ELSE made
          /\ made' <= MaxConfigurations
          /\ server' = CASE q.kind = "create" -> Append(server, new)
                         [] q.kind = "delete" -> Without(server, q.id)
                         [] OTHER             -> Replace(server, new)
          /\ request' = [request EXCEPT ![r].pc = "answered", ![r].answer = new]
    /\ UNCHANGED <<load, page, overlapped, missed>>

\* Faulty: on the list of the render that made the request.
UpsertSeenConfiguration(c, seen) ==
    /\ configurations' = IF c.id \in IdsOf(seen) THEN Replace(seen, c) ELSE Append(seen, c)
    /\ selected' = c.id

\* upsertModelConfiguration, on the list as it is when the answer comes.
UpsertModelConfiguration(c, seen) ==
    /\ configurations' = IF c.id \in IdsOf(configurations) THEN Replace(configurations, c)
                         ELSE Append(configurations, c)
    /\ selected' = c.id

\* The answer to a creation, which closes the dialog, a save, a change or a check.
ConfigurationArrives(r) ==
    /\ request[r].pc = "answered" /\ request[r].kind # "delete"
    /\ UpsertModelConfiguration(request[r].answer, request[r].seen)
    /\ dialog' = (dialog /\ request[r].kind # "create")
    /\ request' = [request EXCEPT ![r] = NoRequest]
    /\ UNCHANGED <<server, made, load, overlapped, missed>>

\* After a deletion, what is left of the list that was there when it was asked for.
DeletionArrives(r) ==
    /\ request[r].pc = "answered" /\ request[r].kind = "delete"
    /\ configurations' = Without(request[r].seen, request[r].id)
    /\ selected' = IF selected # request[r].id THEN selected
                   ELSE IF configurations' = <<>> THEN None ELSE configurations'[1].id
    /\ request' = [request EXCEPT ![r] = NoRequest]
    /\ UNCHANGED <<server, made, load, dialog, overlapped, missed>>

\* Refused, or the answer is lost: a message, and the list as it was.
RequestFails(r) ==
    /\ request[r].pc # "idle"
    /\ missed' = (missed \/ request[r].pc = "answered")
    /\ request' = [request EXCEPT ![r] = NoRequest]
    /\ UNCHANGED <<server, made, load, page, overlapped>>

\* Nothing is said of a list that requests have crossed over, so it is not followed.
Next ==
    /\ ~overlapped /\ ~missed
    /\ \/ LoadAnswered \/ LoadArrives
       \/ \E id \in Ids : Select(id)
       \/ \E open \in BOOLEAN : SetIsCreateDraftOpen(open)
       \/ \E r \in Requests :
             \/ CreateModelConfiguration(r)
             \/ \E content \in Contents : UpdateModelConfiguration(r, content)
             \/ SetModelConfigurationEnabled(r) \/ CheckModelConfigurationHealth(r)
             \/ DeleteModelConfiguration(r)
             \/ Serve(r) \/ ConfigurationArrives(r) \/ DeletionArrives(r) \/ RequestFails(r)

Spec == Init /\ [][Next]_vars

-----------------------------------------------------------------------------
Quiet == loading = "done" /\ \A r \in Requests : request[r] = NoRequest

\* The page never fetches its list again, so the answers must keep it true: once all have
\* come it is the server's, unless an answer was lost, a request crossed the load or a
\* deletion, or two crossed about one configuration.
ListIsTheServers ==
    Quiet /\ ~overlapped /\ ~missed => ToSet(configurations) = ToSet(server)

\* What a request is about: the configuration it names, or the one that it created.
Subject(q) == IF q.kind = "create" THEN q.answer.id ELSE q.id

IdsDiffer(list) == \A j, k \in 1..Len(list) : list[j].id = list[k].id => j = k

RequestsTyped ==
    request \in [Requests -> [kind : {"none", "create", "save", "enable", "check", "delete"},
                              id : {None} \cup Ids, content : Contents, enabled : BOOLEAN,
                              seen : Seq(Record), pc : {"idle", "sent", "answered"},
                              answer : Record \cup {NoRecord}]]

\* Requests in flight are about different configurations, a creation about one that the
\* list has not got, any other about one that it has; a deletion is alone.
RequestsApart ==
    /\ \A r \in Requests :
          LET q == request[r] IN
          \/ q = NoRequest
          \/ /\ q.pc # "idle" /\ q.kind # "none"
             /\ q.kind # "create" => q.id \in IdsOf(configurations)
             /\ q.kind = "create" => Subject(q) \notin IdsOf(configurations)
             /\ q.kind = "delete" => q.seen = configurations
             /\ q.pc = "sent" => q.answer = NoRecord
             /\ q.pc = "answered" /\ q.kind # "delete" =>
                   q.answer.id = Subject(q) /\ q.answer \in Record
    /\ \A r, s \in Requests :
          r # s /\ request[r] # NoRequest /\ request[s] # NoRequest =>
             /\ request[r].kind # "delete"
             /\ Subject(request[r]) = Subject(request[s]) => Subject(request[r]) = None

Deleted == {r \in Requests : request[r].pc = "answered" /\ request[r].kind = "delete"}
Answers == {request[r].answer : r \in {r \in Requests : /\ request[r].pc = "answered"
                                                        /\ request[r].kind # "delete"}}

\* The list is the server's but for the answers to come, which have the server's records.
AnswersMakeUp ==
    /\ \A r \in Deleted :
          ToSet(server) = {c \in ToSet(configurations) : c.id # request[r].id}
    /\ Deleted = {} =>
          /\ Answers \subseteq ToSet(server)
          /\ ToSet(server) \subseteq ToSet(configurations) \cup Answers
          /\ \A c \in ToSet(configurations) :
                c \in ToSet(server) \/ \E a \in Answers : a.id = c.id

\* Until the load arrives there is no list and nothing is asked for.
ListFollows ==
    /\ IdsDiffer(server) /\ IdsDiffer(configurations) /\ RequestsApart
    /\ \A id \in IdsOf(server) \cup IdsOf(configurations) : id <= made
    /\ loading = "answered" => loaded = server
    /\ IF loading = "done" THEN AnswersMakeUp
       ELSE configurations = <<>> /\ \A r \in Requests : request[r] = NoRequest

\* The property made inductive.
IInv == TypeOK /\ RequestsTyped /\ (~overlapped /\ ~missed => ListFollows)
=============================================================================
