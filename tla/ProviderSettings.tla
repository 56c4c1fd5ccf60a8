-------------------------- MODULE ProviderSettings --------------------------
(***************************************************************************)
(* The page of the search provider, and that of the page-read provider,    *)
(* which differ in their fields only: the configuration in the query       *)
(* cache, the form that follows it, and the save.  A configuration is one  *)
(* value; another administrator may save too.                              *)
(***************************************************************************)
CONSTANTS
    Configurations,  \* what a provider may be configured to
    Unreadable,      \* an entry without digits, in a field for a number
    NoProvider       \* nothing is cached

ProviderAssumption ==
    Unreadable \notin Configurations /\ NoProvider \notin Configurations \cup {Unreadable}

VARIABLES
    server,  \* the API's configuration
    cached,  \* the query's data
    fetch,   \* the query's fetch: idle, asked, or answered with a configuration
    form,    \* what the fields hold
    typed,   \* the fields were edited since the page filled them
    save,    \* the mutation: idle, sent, or answered with a configuration
    missed   \* history: the server's configuration changed and no fetch asked since

vars == <<server, cached, fetch, form, typed, save, missed>>
query == <<cached, fetch>>

Entries == Configurations \cup {Unreadable}
Idle     == [pc |-> "idle", data |-> NoProvider]
Asked    == [pc |-> "asked", data |-> NoProvider]
Answered(data) == [pc |-> "answered", data |-> data]

TypeOK ==
    /\ server \in Configurations
    /\ cached \in Configurations \cup {NoProvider}
    /\ form \in Entries \cup {NoProvider}
    /\ fetch.pc \in {"idle", "asked", "answered"}
    /\ save.pc \in {"idle", "sent", "answered"}
    /\ typed \in BOOLEAN /\ missed \in BOOLEAN

\* The page mounts.  Data of an earlier visit may be there, and is fetched again unless
\* it is fresh.
Init ==
    /\ server \in Configurations
    /\ cached \in Configurations \cup {NoProvider}
    /\ fetch \in {Asked} \cup {f \in {Idle} : cached # NoProvider}
    /\ form = cached /\ typed = FALSE
    /\ save = Idle
    /\ missed = (fetch = Idle)

\* The query's data changes: the effect fills the form, over what was typed.
Provide(data) ==
    /\ cached' = data
    /\ form'  = IF data = cached THEN form ELSE data
    /\ typed' = (typed /\ data = cached)

-----------------------------------------------------------------------------
Answers ==
    /\ fetch = Asked
    /\ fetch' = Answered(server)
    /\ UNCHANGED <<server, cached, form, typed, save, missed>>

ProvidersArrive ==
    /\ fetch.pc = "answered"
    /\ Provide(fetch.data)
    /\ fetch' = Idle
    /\ UNCHANGED <<server, save, missed>>

FetchFails ==
    /\ fetch # Idle
    /\ fetch' = Idle
    /\ missed' = TRUE
    /\ UNCHANGED <<server, cached, form, typed, save>>

\* The browser is online again and the data is stale.
Refetch ==
    /\ fetch = Idle
    /\ fetch' = Asked
    /\ missed' = FALSE
    /\ UNCHANGED <<server, cached, form, typed, save>>

-----------------------------------------------------------------------------
Type(entry) ==
    /\ form' = entry /\ typed' = TRUE
    /\ entry # form
    /\ UNCHANGED <<server, query, save, missed>>

\* The button needs a provider and no save under way.  A number that cannot be read is
\* sent as the provider has it.
SaveProviderSettings ==
    /\ cached # NoProvider /\ save = Idle
    /\ save' = [pc |-> "sent", data |-> IF form = Unreadable THEN cached ELSE form]
    /\ UNCHANGED <<server, query, form, typed, missed>>

\* The API writes every field sent; a fetch under way may have read the old ones.
Patch ==
    /\ save.pc = "sent"
    /\ server' = save.data
    /\ save' = Answered(save.data)
    /\ missed' = TRUE
    /\ UNCHANGED <<query, form, typed>>

\* Faulty: the list is not fetched anew, as the cache holds the answer.
SavedTrustsAnswer ==
    /\ save.pc = "answered"
    /\ cached' = save.data
    /\ UNCHANGED fetch /\ missed' = FALSE
    /\ form' = save.data /\ typed' = FALSE
    /\ save' = Idle
    /\ UNCHANGED server

\* onSuccess puts the answer in the cache and has the list fetched anew, which drops a
\* fetch under way; then the form is filled with the answer.
Saved ==
    /\ save.pc = "answered"
    /\ cached' = save.data
    /\ fetch' = Asked /\ missed' = FALSE
    /\ form' = save.data /\ typed' = FALSE
    /\ save' = Idle
    /\ UNCHANGED server

\* Refused, or the answer is lost.
SaveFails ==
    /\ save # Idle
    /\ save' = Idle
    /\ UNCHANGED <<server, query, form, typed, missed>>

SavedElsewhere ==
    /\ server' \in Configurations \ {server}
    /\ missed' = TRUE
    /\ UNCHANGED <<query, form, typed, save>>

Next ==
    \/ Answers \/ ProvidersArrive \/ FetchFails \/ Refetch
    \/ \E entry \in Entries : Type(entry)
    \/ SaveProviderSettings \/ Patch \/ Saved \/ SaveFails
    \/ SavedElsewhere

Spec == Init /\ [][Next]_vars

-----------------------------------------------------------------------------
\* Once a fetch that was asked after the last change has arrived, fields nobody edited
\* hold the server's configuration: saving them changes nothing, whatever fetches and
\* saves crossed on the way.
UntouchedFormIsServers ==
    fetch = Idle /\ save = Idle /\ ~typed /\ ~missed => form = server

\* UntouchedFormIsServers and the types, made inductive: the form that nobody edited is
\* what is cached, and that, or what is on its way, is the server's.
IInv ==
    /\ TypeOK
    /\ fetch \in {Idle, Asked} \cup {Answered(data) : data \in Configurations}
    /\ save \in {Idle} \cup [pc : {"sent", "answered"}, data : Configurations]
    /\ form = NoProvider => cached = NoProvider
    /\ ~typed => form = cached
    /\ ~missed /\ fetch = Idle => cached = server
    /\ ~missed /\ fetch.pc = "answered" => fetch.data = server
=============================================================================
