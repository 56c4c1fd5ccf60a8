--------------------------- MODULE LocalAccounts ---------------------------
(***************************************************************************)
(* Local accounts: registration, approval, roles, sessions and the audit   *)
(* trail.  A request is authorised in one transaction; a change reads the  *)
(* account and its guard, and commits only the columns it found different. *)
(* PostgreSQL runs the transactions at READ COMMITTED, so others commit in *)
(* between.  Login names are the subject of a module of their own.         *)
(***************************************************************************)
EXTENDS Integers, FiniteSets

CONSTANTS
    AdminOps,        \* the changes administrators make in this instance
    Accounts,        \* ids of accounts
    Root,            \* the account bootstrapped from the environment
    Tokens,          \* session tokens, never issued twice
    Requests,        \* requests in progress
    NoAccount

Statuses == {"absent", "pending", "enabled", "rejected", "disabled"}
Roles    == {"user", "admin"}

\* The changes an administrator makes; a role is changed by "promote" and "demote".
StatusOps == {"approve", "reject", "disable", "enable"}
RoleOps   == {"promote", "demote"}
Ops       == StatusOps \cup RoleOps

ASSUME AccountsAssumption ==
    /\ Root \in Accounts
    /\ {NoAccount, "unused", "deleted"} \cap Accounts = {}
    /\ AdminOps \subseteq Ops

VARIABLES
    account,  \* the accounts: status and role
    session,  \* the sessions table: token -> account, "unused" or "deleted"
    audit,    \* per account: its last status event, and whether it was ever let in
    pc, loc   \* per request: control and local variables

vars == <<account, session, audit, pc, loc>>

NoLocal == [op |-> "none", actor |-> NoAccount, target |-> NoAccount,
            status |-> "absent", role |-> "user"]

Init ==
    /\ account = [a \in Accounts |-> IF a = Root THEN [status |-> "enabled", role |-> "admin"]
                                                 ELSE [status |-> "absent", role |-> "user"]]
    /\ session = [t \in Tokens |-> "unused"]
    /\ audit = [a \in Accounts |-> IF a = Root THEN [last |-> "bootstrap", granted |-> TRUE]
                                               ELSE [last |-> "none", granted |-> FALSE]]
    /\ pc  = [r \in Requests |-> "ready"]
    /\ loc = [r \in Requests |-> NoLocal]

Exists(a) == account[a].status # "absent"
IsEnabledAdmin(a) == account[a].role = "admin" /\ account[a].status = "enabled"
EnabledAdmins == {a \in Accounts : IsEnabledAdmin(a)}

Return(r) == /\ pc'  = [pc EXCEPT ![r] = "ready"]
             /\ loc' = [loc EXCEPT ![r] = NoLocal]

-----------------------------------------------------------------------------
(* Users.                                                                  *)

Register(a) ==
    /\ ~Exists(a)
    /\ account' = [account EXCEPT ![a] = [status |-> "pending", role |-> "user"]]
    /\ audit' = [audit EXCEPT ![a].last = "register"]
    /\ UNCHANGED <<session, pc, loc>>

\* Faulty: only rejected and disabled accounts are kept out.
LoginReadPending(r, a) ==
    /\ pc[r] = "ready"
    /\ account[a].status \in {"pending", "enabled"}
    /\ pc'  = [pc EXCEPT ![r] = "login"]
    /\ loc' = [loc EXCEPT ![r] = [NoLocal EXCEPT !.actor = a]]
    /\ UNCHANGED <<account, session, audit>>

\* authenticate: the account must be enabled when it is read.
LoginRead(r, a) ==
    /\ pc[r] = "ready"
    /\ account[a].status = "enabled"
    /\ pc'  = [pc EXCEPT ![r] = "login"]
    /\ loc' = [loc EXCEPT ![r] = [NoLocal EXCEPT !.actor = a]]
    /\ UNCHANGED <<account, session, audit>>

\* Faulty: the request forgets its account before it inserts the session.
LoginInsertOfNobody(r, t) ==
    /\ pc[r] = "login"
    /\ session[t] = "unused"
    /\ Return(r)
    /\ session' = [session EXCEPT ![t] = loc'[r].actor]
    /\ UNCHANGED <<account, audit>>

LoginInsert(r, t) ==
    /\ pc[r] = "login"
    /\ session[t] = "unused"
    /\ session' = [session EXCEPT ![t] = loc[r].actor]
    /\ Return(r)
    /\ UNCHANGED <<account, audit>>

\* A request whose account is not enabled any more loses its session.
Purge(t) ==
    /\ session[t] \in Accounts
    /\ account[session[t]].status # "enabled"
    /\ session' = [session EXCEPT ![t] = "deleted"]
    /\ UNCHANGED <<account, audit, pc, loc>>

-----------------------------------------------------------------------------
(* Administrators.                                                         *)

\* current_administrator.
Authorize(r, t, op, target) ==
    /\ pc[r] = "ready"
    /\ session[t] \in Accounts
    /\ IsEnabledAdmin(session[t])
    /\ Exists(target)
    /\ pc'  = [pc EXCEPT ![r] = "authorized"]
    /\ loc' = [loc EXCEPT ![r] = [NoLocal EXCEPT !.op = op, !.actor = session[t],
                                                 !.target = target]]
    /\ UNCHANGED <<account, session, audit>>

\* Faulty: a role can always be changed.
AllowedUnguardedRole(op, actor, a) ==
    op = "disable" =>
        actor # a /\ (account[a].role = "admin" => Cardinality(EnabledAdmins) > 1)

\* The guards of disable and of update_account.
Allowed(op, actor, a) ==
    /\ op = "disable" => actor # a
    /\ op \in {"disable", "demote"} /\ account[a].role = "admin" =>
         Cardinality(EnabledAdmins) > 1

\* The change reads the account and its guard; 409 if the guard fails.
Read(r) ==
    /\ pc[r] = "authorized"
    /\ LET l == loc[r] IN
         IF Allowed(l.op, l.actor, l.target)
         THEN /\ pc'  = [pc EXCEPT ![r] = "commit"]
              /\ loc' = [loc EXCEPT ![r] = [l EXCEPT !.status = account[l.target].status,
                                                     !.role   = account[l.target].role]]
         ELSE Return(r)
    /\ UNCHANGED <<account, session, audit>>

NewStatus(op) == CASE op \in {"approve", "enable"} -> "enabled"
                   [] op = "reject"  -> "rejected"
                   [] op = "disable" -> "disabled"
NewRole(op) == IF op = "promote" THEN "admin" ELSE "user"

\* Faulty: an account that is approved again leaves no audit event.
CommitStatusUnaudited(r) ==
    /\ pc[r] = "commit"
    /\ loc[r].op \in StatusOps
    /\ LET l == loc[r] IN
         /\ account' = [account EXCEPT ![l.target].status =
                          IF NewStatus(l.op) # l.status THEN NewStatus(l.op) ELSE @]
         /\ session' = [t \in Tokens |->
                          IF l.op \in {"reject", "disable"} /\ session[t] = l.target
                          THEN "deleted" ELSE session[t]]
         /\ audit' = IF l.op = "enable" THEN audit ELSE
                     [audit EXCEPT ![l.target] = [last |-> l.op,
                        granted |-> @.granted \/ NewStatus(l.op) = "enabled"]]
    /\ Return(r)

\* approve, reject, disable and enable: the status is written if it differs from
\* the one read; the sessions go, and the event is recorded, in any case.
CommitStatus(r) ==
    /\ pc[r] = "commit"
    /\ loc[r].op \in StatusOps
    /\ LET l == loc[r] IN
         /\ account' = [account EXCEPT ![l.target].status =
                          IF NewStatus(l.op) # l.status THEN NewStatus(l.op) ELSE @]
         /\ session' = [t \in Tokens |->
                          IF l.op \in {"reject", "disable"} /\ session[t] = l.target
                          THEN "deleted" ELSE session[t]]
         /\ audit' = [audit EXCEPT ![l.target] = [last |-> l.op,
                        granted |-> @.granted \/ NewStatus(l.op) = "enabled"]]
    /\ Return(r)

\* update_account.
CommitRole(r) ==
    /\ pc[r] = "commit"
    /\ loc[r].op \in RoleOps
    /\ account' = [account EXCEPT ![loc[r].target].role =
                     IF NewRole(loc[r].op) # loc[r].role THEN NewRole(loc[r].op) ELSE @]
    /\ Return(r)
    /\ UNCHANGED <<session, audit>>

-----------------------------------------------------------------------------
RequestStep(r) ==
    \/ \E a \in Accounts : LoginRead(r, a)
    \/ \E t \in Tokens : LoginInsert(r, t)
    \/ \E t \in Tokens, op \in AdminOps, a \in Accounts : Authorize(r, t, op, a)
    \/ Read(r)
    \/ CommitStatus(r)
    \/ CommitRole(r)

Next ==
    \/ \E a \in Accounts : Register(a)
    \/ \E r \in Requests : RequestStep(r)
    \/ \E t \in Tokens : Purge(t)

Spec == Init /\ [][Next]_vars

-----------------------------------------------------------------------------
(* Properties.                                                             *)

\* Types of all variables.
TypeOK ==
    /\ account \in [Accounts -> [status : Statuses, role : Roles]]
    /\ session \in [Tokens -> Accounts \cup {"unused", "deleted"}]
    /\ audit \in [Accounts -> [last : StatusOps \cup {"none", "register", "bootstrap"},
                               granted : BOOLEAN]]
    /\ pc \in [Requests -> {"ready", "login", "authorized", "commit"}]
    /\ loc \in [Requests -> [op : Ops \cup {"none"}, actor : Accounts \cup {NoAccount},
                             target : Accounts \cup {NoAccount},
                             status : Statuses, role : Roles]]

\* Nobody acts, and nobody holds a session, whose account no administrator ever let
\* in, whatever the order in which logins and decisions commit.
NobodyEntersUnapproved ==
    /\ \A t \in Tokens : session[t] \in Accounts => audit[session[t]].granted
    /\ \A r \in Requests : loc[r].actor # NoAccount => audit[loc[r].actor].granted
    /\ \A a \in Accounts : account[a].status = "enabled" => audit[a].granted

\* What a request in progress is about.
RequestsAreBound ==
    \A r \in Requests :
        /\ pc[r] = "login" => loc[r].actor \in Accounts
        /\ pc[r] \in {"authorized", "commit"} => loc[r].op \in Ops /\ loc[r].target \in Accounts

\* The inductive invariant, for requests in any order.
IInv == TypeOK /\ RequestsAreBound /\ NobodyEntersUnapproved

\* The last event of an account's audit trail explains its status.
AuditTellsStatus ==
    \A a \in Accounts :
        account[a].status = CASE audit[a].last = "none"      -> "absent"
                              [] audit[a].last = "register"  -> "pending"
                              [] audit[a].last = "bootstrap" -> "enabled"
                              [] OTHER -> NewStatus(audit[a].last)

\* What AuditTellsStatus rests on, if requests are handled one at a time: a change is made
\* to an account that exists, whose status is still the one it read.
ReadIsCurrent ==
    \A r \in Requests :
        /\ pc[r] \in {"authorized", "commit"} => Exists(loc[r].target)
        /\ pc[r] = "commit" => loc[r].status = account[loc[r].target].status

\* The platform loses its last enabled administrator by a rejection only: the
\* guards of disable and of a change of role see to it.
StrandedByRejection ==
    EnabledAdmins # {} /\ EnabledAdmins' = {} =>
        \E r \in Requests : pc[r] = "commit" /\ loc[r].op = "reject" /\ pc'[r] = "ready"
OnlyRejectionStrands == [][StrandedByRejection]_vars

\* A change that would cost the platform an administrator is still covered by its
\* guard when it commits, if requests are handled one at a time.
GuardStillHolds ==
    \A r \in Requests :
        /\ pc[r] = "commit"
        /\ loc[r].op \in {"disable", "demote"}
        /\ account[loc[r].target].role = "admin"
        => Cardinality(EnabledAdmins) > 1

=============================================================================
