-------------------------- MODULE AccountApproval --------------------------
(***************************************************************************)
(* The account approval page of one administrator: the local accounts, the *)
(* tab and the account selected, the actions on them, and the audit trail  *)
(* of the account shown, which an effect reads again.  Of a trail only     *)
(* counts whether it holds the actions answered so far.  None of the       *)
(* accounts is an administrator's, whose row has no button to disable it,  *)
(* and nobody else acts on them.                                           *)
(***************************************************************************)
EXTENDS Integers

CONSTANTS
    MaxAccounts,  \* the accounts, numbered as listed
    Calls         \* actions that may be under way together

ApprovalAssumption == MaxAccounts \in Nat \ {0}

VARIABLES
    status,         \* the server's, per account
    accounts,       \* the page's copy: per account its status, "unknown" before the list
    statusFilter, selected,
    reason,         \* a reason is typed
    call,           \* per call: idle, sent, or handled; its account, its operation
    audit,          \* the effect's call: idle or asked
    events          \* accountAuditEvents: whose, or the page's own history; history:
                    \* whether they hold every action answered so far

vars == <<status, accounts, statusFilter, selected, reason, call, audit, events>>

Accounts == 1..MaxAccounts
None     == 0
Statuses == {"pending", "enabled", "rejected", "disabled"}
NoEvents == [of |-> None, current |-> FALSE, ownHistory |-> FALSE]
NoCall   == [pc |-> "idle", of |-> None, op |-> "note", result |-> "pending"]

TypeOK ==
    /\ status \in [Accounts -> Statuses]
    /\ accounts \in [Accounts -> Statuses \cup {"unknown"}]
    /\ statusFilter \in Statuses /\ selected \in Accounts \cup {None}
    /\ reason \in BOOLEAN
    /\ \A c \in Calls : call[c].pc \in {"idle", "sent", "handled"}
    /\ audit \in {"idle", "asked"}
    /\ events \in [of : Accounts \cup {None}, current : BOOLEAN, ownHistory : BOOLEAN]

Init ==
    /\ status \in [Accounts -> {"pending", "enabled"}]
    /\ accounts = [a \in Accounts |-> "unknown"]
    /\ statusFilter = "pending" /\ selected = None /\ reason = FALSE
    /\ call = [c \in Calls |-> NoCall]
    /\ audit = "idle" /\ events = NoEvents

\* selectedAccount: the account selected, if the tab lists it.
Shown == IF selected # None /\ accounts[selected] = statusFilter THEN selected ELSE None

\* Faulty: an answer is nothing the effect depends on.
AuditEffectUnkeyed(refreshed) ==
    IF Shown' # Shown
    THEN IF Shown' = None THEN audit' = "idle" /\ events' = NoEvents
         ELSE audit' = "asked" /\ events' = [events EXCEPT !.current = FALSE]
    ELSE audit' = audit /\ events' = [events EXCEPT !.current = @ /\ ~refreshed]

\* The audit effect, after a step: it runs where another account is shown, and after each
\* answer, whose refresh key changes; it drops the call under way.
AuditEffect(refreshed) ==
    IF Shown' # Shown \/ refreshed
    THEN IF Shown' = None THEN audit' = "idle" /\ events' = NoEvents
         ELSE audit' = "asked" /\ events' = [events EXCEPT !.current = FALSE]
    ELSE UNCHANGED <<audit, events>>

FirstOf(known, s) ==
    LET with == {a \in Accounts : known[a] = s}
    IN IF with = {} THEN None ELSE CHOOSE a \in with : \A b \in with : a <= b

-----------------------------------------------------------------------------
ListArrives ==
    /\ \A a \in Accounts : accounts[a] = "unknown"
    /\ accounts' = status
    /\ LET first == FirstOf(status, statusFilter)
       IN selected' = IF first = None THEN 1 ELSE first
    /\ UNCHANGED <<status, statusFilter, reason, call>>
    /\ AuditEffect(FALSE)

\* A tab is clicked, or the assistant's setLocalAccountApprovalView.
SwitchStatus(s) ==
    /\ s # statusFilter
    /\ statusFilter' = s /\ selected' = FirstOf(accounts, s)
    /\ UNCHANGED <<status, accounts, reason, call>>
    /\ AuditEffect(FALSE)

\* The details of a row, or the assistant's focusLocalAccount.
FocusLocalAccount(a) ==
    /\ accounts[a] # "unknown" /\ a # selected
    /\ statusFilter' = accounts[a] /\ selected' = a
    /\ UNCHANGED <<status, accounts, reason, call>>
    /\ AuditEffect(FALSE)

TypeReason ==
    /\ Shown # None /\ ~reason
    /\ reason' = TRUE
    /\ UNCHANGED <<status, accounts, statusFilter, selected, call, audit, events>>

-----------------------------------------------------------------------------
Send(c, a, op) ==
    /\ call[c].pc = "idle"
    /\ call' = [call EXCEPT ![c] = [NoCall EXCEPT !.pc = "sent", !.of = a, !.op = op]]
    /\ UNCHANGED <<status, accounts, statusFilter, selected, reason, audit, events>>

\* changeStatus, from the buttons of a row; a rejection and a disabling need a reason.
ChangeStatus(c, a, s) ==
    /\ accounts[a] = statusFilter
    /\ \/ accounts[a] = "pending" /\ s \in {"enabled", "rejected"}
       \/ accounts[a] = "enabled" /\ s = "disabled"
       \/ accounts[a] \in {"disabled", "rejected"} /\ s = "enabled"
    /\ s \in {"rejected", "disabled"} => reason
    /\ Send(c, a, s)

UpdateAccountNote(c) ==
    /\ Shown # None
    /\ Send(c, Shown, "note")

\* The API applies it, records it in the trail, and answers with the account.
Handle(c) ==
    /\ call[c].pc = "sent"
    /\ LET a == call[c].of
           s == IF call[c].op = "note" THEN status[a] ELSE call[c].op
       IN /\ status' = [status EXCEPT ![a] = s]
          /\ call'   = [call EXCEPT ![c].pc = "handled", ![c].result = s]
    /\ UNCHANGED <<accounts, statusFilter, selected, reason, audit, events>>

\* updateMappedAccount: the account answered is selected, on the tab of its status,
\* whatever was shown by then; a reason typed since goes with a change of status.
UpdateMappedAccount(c) ==
    /\ call[c].pc = "handled"
    /\ LET a == call[c].of IN
         /\ accounts' = [accounts EXCEPT ![a] = call[c].result]
         /\ statusFilter' = call[c].result /\ selected' = a
    /\ reason' = (reason /\ call[c].op = "note")
    /\ call' = [call EXCEPT ![c] = NoCall]
    /\ UNCHANGED status
    /\ AuditEffect(TRUE)

\* Refused, or the answer is lost.
CallFails(c) ==
    /\ call[c].pc # "idle"
    /\ call' = [call EXCEPT ![c] = NoCall]
    /\ UNCHANGED <<status, accounts, statusFilter, selected, reason, audit, events>>

-----------------------------------------------------------------------------
\* The trail of the account shown, read as it is delivered: an action answered in between
\* asks for it again.  After an error, the history the page made up itself.  (An empty
\* trail is shown so too; the trail of an account holds its registration.)
AuditArrives ==
    /\ audit = "asked"
    /\ \E failed \in BOOLEAN :
          events' = [of |-> Shown, current |-> ~failed, ownHistory |-> failed]
    /\ audit' = "idle"
    /\ UNCHANGED <<status, accounts, statusFilter, selected, reason, call>>

Next ==
    \/ ListArrives \/ TypeReason \/ AuditArrives
    \/ \E s \in Statuses : SwitchStatus(s)
    \/ \E a \in Accounts : FocusLocalAccount(a)
    \/ \E c \in Calls :
          \/ \E a \in Accounts, s \in Statuses : ChangeStatus(c, a, s)
          \/ UpdateAccountNote(c) \/ Handle(c) \/ UpdateMappedAccount(c) \/ CallFails(c)

Spec == Init /\ [][Next]_vars

-----------------------------------------------------------------------------
\* While no trail is being read, the trail shown beside an account is its own and holds
\* every action on it that was answered, however the answers and the selection crossed.
AuditTrailCurrent ==
    Shown # None /\ audit = "idle" /\ ~events.ownHistory =>
        events.of = Shown /\ events.current

\* AuditTrailCurrent and the types, made inductive: a call is about one of the accounts.
IInv ==
    /\ TypeOK /\ AuditTrailCurrent
    /\ call \in [Calls -> [pc : {"idle", "sent", "handled"}, of : Accounts \cup {None},
                          op : Statuses \cup {"note"}, result : Statuses]]
    /\ \A c \in Calls : call[c].pc # "idle" => call[c].of \in Accounts
=============================================================================
