------------------------------ MODULE RunAudit ------------------------------
(***************************************************************************)
(* The run audit page: the runs listed once, the status filter and the     *)
(* search, the run selected and its details, which an effect reads and     *)
(* merges into the list.  A run may settle meanwhile.                      *)
(***************************************************************************)
EXTENDS Integers

CONSTANT MaxRuns  \* the runs, numbered as listed, latest first

AuditAssumption == MaxRuns \in Nat \ {0}

VARIABLES
    status,        \* the server's, per run
    runs,          \* the page's, per run: its status, and whose details are merged in
    listed,        \* the list has arrived
    statusFilter,
    found,         \* the runs the search matches
    selected,      \* selectedRunId
    detail         \* the effect's call: idle, asked, or answered with a status; failed

vars == <<status, runs, listed, statusFilter, found, selected, detail>>

Runs     == 1..MaxRuns
None     == 0
Statuses == {"running", "completed"}
Filters  == Statuses \cup {"all"}
Idle     == [pc |-> "idle", status |-> "running"]
Asked    == [pc |-> "asked", status |-> "running"]
Failed   == [pc |-> "failed", status |-> "running"]
Answered(r) == [pc |-> "answered", status |-> status[r]]

TypeOK ==
    /\ status \in [Runs -> Statuses]
    /\ runs \in [Runs -> [status : Statuses, details : Runs \cup {None}]]
    /\ listed \in BOOLEAN /\ statusFilter \in Filters /\ found \subseteq Runs
    /\ selected \in Runs \cup {None}
    /\ detail.pc \in {"idle", "asked", "answered", "failed"}

Init ==
    /\ status \in [Runs -> Statuses]
    /\ runs = [r \in Runs |-> [status |-> status[r], details |-> None]]
    /\ listed = FALSE /\ statusFilter = "all" /\ found = Runs
    /\ selected = None /\ detail = Idle

\* The first of the runs that pass the filter, and of the runs selected from.
First(set) == IF set = {} THEN None ELSE CHOOSE r \in set : \A q \in set : r <= q
Passing(filter) == {r \in Runs : listed /\ filter \in {"all", runs[r].status}}

\* selectedRun: the run selected if the filter and the search leave it, else their first.
Shown == LET left == Passing(statusFilter) \cap found
         IN IF selected \in left THEN selected ELSE First(left)

\* The detail effect, where another run is selected; it drops the call under way.
DetailEffect(r) ==
    detail' = IF r = selected THEN detail ELSE IF r = None THEN Idle ELSE Asked

-----------------------------------------------------------------------------
ListArrives ==
    /\ ~listed
    /\ listed' = TRUE
    /\ runs' = [r \in Runs |-> [status |-> status[r], details |-> None]]
    /\ selected' = 1 /\ DetailEffect(1)
    /\ UNCHANGED <<status, statusFilter, found>>

\* The filter is chosen, or the assistant's setRunAuditStatusFilter.
SwitchStatusFilter(filter) ==
    /\ filter # statusFilter
    /\ statusFilter' = filter
    /\ selected' = First(Passing(filter)) /\ DetailEffect(First(Passing(filter)))
    /\ UNCHANGED <<status, runs, listed, found>>

\* The search changes what is listed and nothing else.
Search(set) ==
    /\ set # found
    /\ found' = set
    /\ UNCHANGED <<status, runs, listed, statusFilter, selected, detail>>

\* The details of a row; the assistant's focusAgentRun also sets the filter.
Focus(r, filter) ==
    /\ listed /\ r # selected
    /\ \/ filter = statusFilter /\ r \in Passing(filter) \cap found
       \/ filter = runs[r].status
    /\ statusFilter' = filter
    /\ selected' = r /\ DetailEffect(r)
    /\ UNCHANGED <<status, runs, listed, found>>

DetailAnswered ==
    /\ detail = Asked
    /\ detail' = Answered(selected)
    /\ UNCHANGED <<status, runs, listed, statusFilter, found, selected>>

\* Faulty: into the run shown.
DetailArrivesAtShown ==
    /\ detail.pc = "answered"
    /\ runs' = [r \in Runs |-> IF r = Shown
                               THEN [status |-> detail.status, details |-> selected]
                               ELSE runs[r]]
    /\ detail' = Idle
    /\ UNCHANGED <<status, listed, statusFilter, found, selected>>

\* mergeRunDetail: into the run the effect read; its status may leave the filter.
DetailArrives ==
    /\ detail.pc = "answered"
    /\ runs' = [runs EXCEPT ![selected] = [status |-> detail.status, details |-> selected]]
    /\ detail' = Idle
    /\ UNCHANGED <<status, listed, statusFilter, found, selected>>

DetailFails ==
    /\ detail.pc \in {"asked", "answered"}
    /\ detail' = Failed
    /\ UNCHANGED <<status, runs, listed, statusFilter, found, selected>>

RunSettles(r) ==
    /\ status[r] = "running"
    /\ status' = [status EXCEPT ![r] = "completed"]
    /\ UNCHANGED <<runs, listed, statusFilter, found, selected, detail>>

Next ==
    \/ ListArrives \/ DetailAnswered \/ DetailArrives \/ DetailFails
    \/ \E filter \in Filters : SwitchStatusFilter(filter)
    \/ \E set \in SUBSET Runs : Search(set)
    \/ \E r \in Runs, filter \in Statuses \cup {statusFilter} : Focus(r, filter)
    \/ \E r \in Runs : RunSettles(r)

Spec == Init /\ [][Next]_vars

-----------------------------------------------------------------------------
\* Details are shown beside the run they are of, and once none are being read the run
\* selected has its own, unless reading them failed.  The run shown may be another, where
\* the search or a merged status hides the one selected: it has none until it is clicked.
DetailsOfSelected ==
    /\ \A r \in Runs : runs[r].details \in {None, r}
    /\ selected # None /\ detail.pc = "idle" => runs[selected].details = selected

\* DetailsOfSelected and the types, made inductive: nothing is selected before the list,
\* and details are read of a run selected.
IInv ==
    /\ TypeOK /\ DetailsOfSelected
    /\ ~listed => selected = None
    /\ detail \in [pc : {"idle", "asked", "answered", "failed"}, status : Statuses]
    /\ detail.pc \in {"asked", "answered"} => selected # None
=============================================================================
