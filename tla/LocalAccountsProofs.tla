------------------------ MODULE LocalAccountsProofs ------------------------
(***************************************************************************)
(* Whatever the order of logins and decisions, nobody gets in unapproved;  *)
(* and, one request at a time, only a rejection can cost the platform its  *)
(* last enabled administrator.                                             *)
(***************************************************************************)
EXTENDS MCLocalAccounts, FiniteSetTheorems, TLAPS

LEMMA InitInv == Init => IInv
  BY AccountsAssumption
     DEF Init, IInv, TypeOK, RequestsAreBound, NobodyEntersUnapproved, Statuses, Roles, Ops, StatusOps, RoleOps, NoLocal

\* Steps of requests.
LEMMA RequestStepInv ==
    ASSUME IInv, NEW r \in Requests, RequestStep(r)
    PROVE  IInv'
  <1> USE AccountsAssumption DEF IInv
  <1>0. NoLocal \in [op : Ops \cup {"none"}, actor : Accounts \cup {NoAccount},
                     target : Accounts \cup {NoAccount}, status : Statuses, role : Roles]
    BY DEF NoLocal, Statuses, Roles
  <1>1. ASSUME NEW a \in Accounts, LoginRead(r, a) PROVE IInv'
    <2>1. TypeOK'
      BY <1>0, <1>1 DEF LoginRead, TypeOK, NoLocal
    <2>2. audit[a].granted
      BY <1>1 DEF LoginRead, NobodyEntersUnapproved
    <2> QED BY <1>0, <1>1, <2>1, <2>2 DEF LoginRead, TypeOK, RequestsAreBound, NobodyEntersUnapproved, NoLocal
  <1>2. ASSUME NEW t \in Tokens, LoginInsert(r, t) PROVE IInv'
    BY <1>0, <1>2 DEF LoginInsert, Return, TypeOK, RequestsAreBound, NobodyEntersUnapproved, NoLocal
  <1>3. ASSUME NEW t \in Tokens, NEW op \in AdminOps, NEW a \in Accounts, Authorize(r, t, op, a)
        PROVE  IInv'
    <2>1. TypeOK'
      BY <1>0, <1>3 DEF Authorize, TypeOK, NoLocal
    <2> QED BY <1>0, <1>3, <2>1 DEF Authorize, TypeOK, RequestsAreBound, NobodyEntersUnapproved, NoLocal
  <1>4. ASSUME Read(r) PROVE IInv'
    <2>1. CASE Allowed(loc[r].op, loc[r].actor, loc[r].target)
      <3>1. /\ pc' = [pc EXCEPT ![r] = "commit"]
            /\ loc' = [loc EXCEPT ![r] = [loc[r] EXCEPT !.status = account[loc[r].target].status,
                                                        !.role   = account[loc[r].target].role]]
            /\ UNCHANGED <<account, session, audit>>
        BY <1>4, <2>1 DEF Read
      <3>2. loc[r].target \in Accounts /\ loc[r].op \in Ops
        BY <1>4 DEF Read, RequestsAreBound
      <3> DEFINE new == [loc[r] EXCEPT !.status = account[loc[r].target].status,
                                       !.role   = account[loc[r].target].role]
      <3>3. /\ new \in [op : Ops \cup {"none"}, actor : Accounts \cup {NoAccount},
                        target : Accounts \cup {NoAccount}, status : Statuses, role : Roles]
            /\ new.op = loc[r].op /\ new.actor = loc[r].actor /\ new.target = loc[r].target
        <4>1. loc[r] \in [op : Ops \cup {"none"}, actor : Accounts \cup {NoAccount},
                           target : Accounts \cup {NoAccount}, status : Statuses, role : Roles]
          BY DEF TypeOK
        <4>2. account[loc[r].target] \in [status : Statuses, role : Roles]
          BY <3>2 DEF TypeOK
        <4> QED BY <4>1, <4>2
      <3>4. TypeOK'
        BY <3>1, <3>3 DEF TypeOK
      <3> HIDE DEF new
      <3>5. \A q \in Requests : loc'[q] = IF q = r THEN new ELSE loc[q]
        BY <3>1 DEF TypeOK, new
      <3> HIDE DEF TypeOK
      <3>6. \A q \in Requests : /\ loc'[q].op = loc[q].op
                                /\ loc'[q].actor = loc[q].actor
                                /\ loc'[q].target = loc[q].target
        BY <3>3, <3>5
      <3>7. \A q \in Requests : pc'[q] = pc[q] \/ (q = r /\ pc[q] = "authorized" /\ pc'[q] = "commit")
        BY <1>4, <3>1 DEF Read, TypeOK
      <3>8. RequestsAreBound'
        BY <3>6, <3>7 DEF RequestsAreBound
      <3>9. NobodyEntersUnapproved'
        BY <3>1, <3>6 DEF NobodyEntersUnapproved
      <3> QED BY <3>4, <3>8, <3>9
    <2>2. CASE ~Allowed(loc[r].op, loc[r].actor, loc[r].target)
      <3>1. Return(r) /\ UNCHANGED <<account, session, audit>>
        BY <1>4, <2>2 DEF Read
      <3>2. TypeOK'
        BY <1>0, <3>1 DEF Return, TypeOK
      <3>3. RequestsAreBound'
        BY <3>1 DEF Return, TypeOK, RequestsAreBound
      <3> QED BY <3>1, <3>2, <3>3 DEF Return, TypeOK, NobodyEntersUnapproved, NoLocal
    <2> QED BY <2>1, <2>2
  <1>5. ASSUME CommitStatus(r) PROVE IInv'
    <2> DEFINE l == loc[r]
    <2>0. l.target \in Accounts
      BY <1>5 DEF CommitStatus, RequestsAreBound
    <2>1. NewStatus(l.op) \in {"enabled", "rejected", "disabled"} /\ l.op \in StatusOps
      BY <1>5 DEF CommitStatus, NewStatus, StatusOps
    <2>2. /\ \A a \in Accounts : a # l.target => account'[a] = account[a] /\ audit'[a] = audit[a]
          /\ account'[l.target].status \in {account[l.target].status, NewStatus(l.op)}
          /\ account'[l.target].role = account[l.target].role
          /\ audit'[l.target].granted = (audit[l.target].granted \/ NewStatus(l.op) = "enabled")
      BY <1>5, <2>0, <2>1 DEF CommitStatus, TypeOK
    <2>3. \A a \in Accounts : /\ audit[a].granted => audit'[a].granted
                              /\ account'[a].status = "enabled" => audit'[a].granted
      <3> SUFFICES ASSUME NEW a \in Accounts
                   PROVE  /\ audit[a].granted => audit'[a].granted
                          /\ account'[a].status = "enabled" => audit'[a].granted
        OBVIOUS
      <3>1. account[a].status = "enabled" => audit[a].granted
        BY DEF NobodyEntersUnapproved
      <3>2. CASE a = l.target
        BY <2>2, <3>1, <3>2
      <3>3. CASE a # l.target
        BY <2>2, <3>1, <3>3
      <3> QED BY <3>2, <3>3
    <2>4. TypeOK'
      <3>1. account' \in [Accounts -> [status : Statuses, role : Roles]]
        BY <1>5, <2>0, <2>1 DEF CommitStatus, TypeOK, Statuses
      <3>2. audit' \in [Accounts -> [last : StatusOps \cup {"none", "register", "bootstrap"},
                                     granted : BOOLEAN]]
        <4> DEFINE e == [last |-> l.op,
                         granted |-> audit[l.target].granted \/ NewStatus(l.op) = "enabled"]
        <4>1. e \in [last : StatusOps \cup {"none", "register", "bootstrap"}, granted : BOOLEAN]
          <5>1. (audit[l.target].granted \/ NewStatus(l.op) = "enabled") \in BOOLEAN
            OBVIOUS
          <5> QED BY <2>1, <5>1
        <4>2. audit' = [audit EXCEPT ![l.target] = e]
          BY <1>5 DEF CommitStatus
        <4> QED BY <4>1, <4>2 DEF TypeOK
      <3>3. session' \in [Tokens -> Accounts \cup {"unused", "deleted"}]
        BY <1>5 DEF CommitStatus, TypeOK
      <3>4. /\ pc' \in [Requests -> {"ready", "login", "authorized", "commit"}]
            /\ loc' \in [Requests -> [op : Ops \cup {"none"}, actor : Accounts \cup {NoAccount},
                                      target : Accounts \cup {NoAccount},
                                      status : Statuses, role : Roles]]
        BY <1>0, <1>5 DEF CommitStatus, Return, TypeOK
      <3> QED BY <3>1, <3>2, <3>3, <3>4 DEF TypeOK
    <2>5. \A t \in Tokens : session'[t] \in Accounts => session'[t] = session[t]
      BY <1>5 DEF CommitStatus, TypeOK
    <2>6. \A q \in Requests : loc'[q].actor # NoAccount => loc'[q].actor = loc[q].actor
      BY <1>0, <1>5 DEF CommitStatus, Return, TypeOK, NoLocal
    <2>7. \A q \in Requests : loc[q].actor # NoAccount => loc[q].actor \in Accounts
      BY DEF TypeOK
    <2>8. RequestsAreBound'
      BY <1>5 DEF CommitStatus, Return, TypeOK, RequestsAreBound
    <2> QED BY <2>3, <2>4, <2>5, <2>6, <2>7, <2>8 DEF NobodyEntersUnapproved
  <1>6. ASSUME CommitRole(r) PROVE IInv'
    <2>0. loc[r].target \in Accounts
      BY <1>6 DEF CommitRole, RequestsAreBound
    <2>1. \A a \in Accounts : account'[a].status = account[a].status
      BY <1>6 DEF CommitRole, TypeOK
    <2>2. TypeOK'
      <3>1. account' \in [Accounts -> [status : Statuses, role : Roles]]
        BY <1>6, <2>0 DEF CommitRole, TypeOK, NewRole, Roles
      <3> QED BY <1>0, <1>6, <3>1 DEF CommitRole, Return, TypeOK
    <2> QED BY <1>0, <1>6, <2>1, <2>2 DEF CommitRole, Return, TypeOK, RequestsAreBound, NobodyEntersUnapproved, NoLocal
  <1> QED BY <1>1, <1>2, <1>3, <1>4, <1>5, <1>6 DEF RequestStep

LEMMA NextInv == IInv /\ [Next]_vars => IInv'
  <1> SUFFICES ASSUME IInv, [Next]_vars PROVE IInv'
    OBVIOUS
  <1>1. ASSUME NEW a \in Accounts, Register(a) PROVE IInv'
    BY <1>1, AccountsAssumption
       DEF IInv, Register, TypeOK, RequestsAreBound, NobodyEntersUnapproved, Statuses, Roles
  <1>2. ASSUME NEW r \in Requests, RequestStep(r) PROVE IInv'
    BY <1>2, RequestStepInv
  <1>3. ASSUME NEW t \in Tokens, Purge(t) PROVE IInv'
    BY <1>3, AccountsAssumption DEF IInv, Purge, TypeOK, RequestsAreBound, NobodyEntersUnapproved
  <1>4. CASE UNCHANGED vars
    BY <1>4 DEF vars, IInv, TypeOK, RequestsAreBound, NobodyEntersUnapproved
  <1> QED BY <1>1, <1>2, <1>3, <1>4 DEF Next

\* Types hold for any accounts, tokens and requests.
THEOREM TypeCorrect == Spec => []TypeOK
  <1>1. IInv => TypeOK
    BY DEF IInv
  <1> QED BY <1>1, InitInv, NextInv, PTL DEF Spec

\* No login, racing with any decisions of any administrators, yields a session or
\* a request of an account that was never let in.
THEOREM OnlyTheApprovedEnter == Spec => []NobodyEntersUnapproved
  <1>1. IInv => NobodyEntersUnapproved
    BY DEF IInv
  <1> QED BY <1>1, InitInv, NextInv, PTL DEF Spec

-----------------------------------------------------------------------------
(* One request at a time.                                                  *)

OneRequest == \A q, r \in Requests : q = r

OthersReady(r) == \A q \in Requests : q # r => pc'[q] = "ready"

\* The request that makes a step was the only one in progress, or becomes it.
LEMMA OneInProgress ==
    ASSUME IInv, OneAtATime, OneAtATime', NEW r \in Requests, RequestStep(r)
    PROVE  OthersReady(r)
  <1>1. \A q \in Requests : q # r => pc'[q] = pc[q]
    BY DEF RequestStep, LoginRead, LoginInsert, Authorize, Read, CommitStatus, CommitRole,
           Return, IInv, TypeOK
  <1>2. pc[r] # "ready" \/ pc'[r] # "ready"
    BY DEF RequestStep, LoginRead, LoginInsert, Authorize, Read, CommitStatus, CommitRole,
           Return, IInv, TypeOK
  <1> QED BY <1>1, <1>2 DEF OneAtATime, OthersReady

\* Two or more administrators are not gone when one goes.
LEMMA OneOfMany ==
    ASSUME NEW S, NEW x, Cardinality(S) > 1
    PROVE  S \ {x} # {}
  <1> SUFFICES ASSUME S \ {x} = {} PROVE FALSE
    OBVIOUS
  <1>1. S = {} \/ S = {x}
    OBVIOUS
  <1>2. Cardinality({}) = 0 /\ Cardinality({x}) = 1
    BY FS_EmptySet, FS_Singleton
  <1> QED BY <1>1, <1>2

\* The guard of a request still holds after a step that keeps the administrators.
LEMMA GuardUnchanged ==
    ASSUME RequestsAreBound, GuardStillHolds, UNCHANGED <<pc, loc>>, EnabledAdmins' = EnabledAdmins,
           \A a \in Accounts : account'[a].role = "admin" => account[a].role = "admin"
    PROVE  GuardStillHolds'
  BY DEF GuardStillHolds, RequestsAreBound

LEMMA InitGuard == Init => GuardStillHolds
  BY DEF Init, GuardStillHolds

\* The steps of the one request in progress keep its guard.
LEMMA RequestStepGuard ==
    ASSUME IInv, GuardStillHolds, NEW r \in Requests, RequestStep(r), OthersReady(r)
    PROVE  GuardStillHolds'
  <1>1. ASSUME pc'[r] # "commit" PROVE GuardStillHolds'
    BY <1>1 DEF OthersReady, GuardStillHolds
  <1>2. CASE Read(r) /\ Allowed(loc[r].op, loc[r].actor, loc[r].target)
    <2>1. /\ loc'[r].op = loc[r].op /\ loc'[r].target = loc[r].target /\ account' = account
      <3> DEFINE new == [loc[r] EXCEPT !.status = account[loc[r].target].status,
                                       !.role   = account[loc[r].target].role]
      <3>1. loc' = [loc EXCEPT ![r] = new] /\ account' = account
        BY <1>2 DEF Read
      <3>2. loc[r] \in [op : Ops \cup {"none"}, actor : Accounts \cup {NoAccount},
                         target : Accounts \cup {NoAccount}, status : Statuses, role : Roles]
        BY DEF IInv, TypeOK
      <3>3. new.op = loc[r].op /\ new.target = loc[r].target
        BY <3>2
      <3> HIDE DEF new
      <3>4. loc'[r] = new
        BY <3>1 DEF IInv, TypeOK
      <3> QED BY <3>1, <3>3, <3>4
    <2>2. EnabledAdmins' = EnabledAdmins
      BY <2>1 DEF EnabledAdmins, IsEnabledAdmin
    <2> QED BY <1>2, <2>1, <2>2 DEF OthersReady, GuardStillHolds, Allowed
  <1>3. ASSUME \/ \E a \in Accounts : LoginRead(r, a)
               \/ \E t \in Tokens : LoginInsert(r, t)
               \/ \E t \in Tokens, op \in AdminOps, a \in Accounts : Authorize(r, t, op, a)
               \/ Read(r) /\ ~Allowed(loc[r].op, loc[r].actor, loc[r].target)
               \/ CommitStatus(r) \/ CommitRole(r)
        PROVE  pc'[r] # "commit"
    BY <1>3 DEF LoginRead, LoginInsert, Authorize, Read, CommitStatus, CommitRole, Return, IInv, TypeOK
  <1> QED BY <1>1, <1>2, <1>3 DEF RequestStep

\* A change of status or role by the one request costs the last administrator
\* only if it rejects.
LEMMA CommitKeepsAdmin ==
    ASSUME IInv, GuardStillHolds, NEW r \in Requests, CommitStatus(r) \/ CommitRole(r),
           EnabledAdmins # {}, EnabledAdmins' = {}
    PROVE  loc[r].op = "reject"
  <1> DEFINE x == loc[r].target
  <1>1. /\ pc[r] = "commit" /\ x \in Accounts /\ loc[r].op \in Ops
        /\ \A a \in Accounts : a # x => account'[a] = account[a]
    BY DEF CommitStatus, CommitRole, IInv, RequestsAreBound, TypeOK
  <1>2. EnabledAdmins \ {x} \subseteq EnabledAdmins'
    BY <1>1 DEF EnabledAdmins, IsEnabledAdmin
  <1>3. EnabledAdmins = {x}
    BY <1>2
  <1>4. ~(Cardinality(EnabledAdmins) > 1)
    BY <1>2, OneOfMany
  <1>5. account[x].role = "admin" /\ account[x].status = "enabled"
        /\ ~(account'[x].role = "admin" /\ account'[x].status = "enabled")
    BY <1>1, <1>3 DEF EnabledAdmins, IsEnabledAdmin
  <1>6. loc[r].op \notin {"disable", "demote"}
    BY <1>1, <1>4, <1>5 DEF GuardStillHolds
  <1>7. loc[r].op \in {"approve", "reject", "enable", "promote"}
    BY <1>1, <1>6 DEF Ops, StatusOps, RoleOps
  <1>8. loc[r].op # "promote"
    <2> SUFFICES ASSUME loc[r].op = "promote" PROVE FALSE
      OBVIOUS
    <2>1. CommitRole(r)
      BY DEF CommitStatus, StatusOps
    <2>2. account' = [account EXCEPT ![x].role = "admin"] \/ account' = account
      BY <1>1, <1>5, <2>1 DEF CommitRole, NewRole, IInv, TypeOK
    <2>3. account'[x].role = "admin" /\ account'[x].status = "enabled"
      BY <1>1, <1>5, <2>2 DEF IInv, TypeOK
    <2> QED BY <1>5, <2>3
  <1>9. loc[r].op \notin {"approve", "enable"}
    <2> SUFFICES ASSUME loc[r].op \in {"approve", "enable"} PROVE FALSE
      OBVIOUS
    <2>1. CommitStatus(r)
      BY DEF CommitRole, RoleOps
    <2>2. NewStatus(loc[r].op) = "enabled"
      BY DEF NewStatus
    <2>3. account'[x].role = "admin" /\ account'[x].status = "enabled"
      BY <1>1, <1>5, <2>1, <2>2 DEF CommitStatus, IInv, TypeOK
    <2> QED BY <1>5, <2>3
  <1> QED BY <1>7, <1>8, <1>9

\* Steps that are no commits keep the administrators.
LEMMA OthersKeepAdmins ==
    ASSUME IInv, [Next]_vars
    PROVE  \/ EnabledAdmins' = EnabledAdmins
           \/ \E r \in Requests : CommitStatus(r) \/ CommitRole(r)
  <1>1. ASSUME NEW a \in Accounts, Register(a) PROVE EnabledAdmins' = EnabledAdmins
    BY <1>1 DEF Register, Exists, EnabledAdmins, IsEnabledAdmin, IInv, TypeOK, NobodyEntersUnapproved
  <1>2. ASSUME account' = account PROVE EnabledAdmins' = EnabledAdmins
    BY <1>2 DEF EnabledAdmins, IsEnabledAdmin
  <1>3. ASSUME NEW r \in Requests, RequestStep(r), ~CommitStatus(r), ~CommitRole(r)
        PROVE  account' = account
    BY <1>3 DEF RequestStep, LoginRead, LoginInsert, Authorize, Read
  <1>4. ASSUME NEW t \in Tokens, Purge(t) PROVE account' = account
    BY <1>4 DEF Purge
  <1>5. CASE UNCHANGED vars
    BY <1>2, <1>5 DEF vars
  <1> QED BY <1>1, <1>2, <1>3, <1>4, <1>5 DEF Next

LEMMA GuardStep ==
    ASSUME IInv, GuardStillHolds, [Next]_vars,
           \A r \in Requests : RequestStep(r) => OthersReady(r)
    PROVE  GuardStillHolds'
  <1>1. ASSUME NEW a \in Accounts, Register(a) PROVE GuardStillHolds'
    <2>1. EnabledAdmins' = EnabledAdmins
      BY <1>1 DEF Register, Exists, EnabledAdmins, IsEnabledAdmin, IInv, TypeOK
    <2>2. /\ UNCHANGED <<pc, loc>>
          /\ \A b \in Accounts : account'[b].role = "admin" => account[b].role = "admin"
      BY <1>1 DEF Register, IInv, TypeOK
    <2> QED BY <2>1, <2>2, GuardUnchanged DEF IInv
  <1>2. ASSUME NEW r \in Requests, RequestStep(r) PROVE GuardStillHolds'
    BY <1>2, RequestStepGuard
  <1>3. ASSUME UNCHANGED <<account, pc, loc>> PROVE GuardStillHolds'
    <2>1. EnabledAdmins' = EnabledAdmins
      BY <1>3 DEF EnabledAdmins, IsEnabledAdmin
    <2> QED BY <1>3, <2>1, GuardUnchanged DEF IInv
  <1>4. ASSUME NEW t \in Tokens, Purge(t) PROVE GuardStillHolds'
    BY <1>3, <1>4 DEF Purge
  <1>5. CASE UNCHANGED vars
    BY <1>3, <1>5 DEF vars
  <1> QED BY <1>1, <1>2, <1>4, <1>5 DEF Next

\* A step that costs the platform its last enabled administrator commits a rejection.
LEMMA GuardsProtect ==
    ASSUME IInv, GuardStillHolds, [Next]_vars
    PROVE  StrandedByRejection
  <1> SUFFICES ASSUME EnabledAdmins # {}, EnabledAdmins' = {}
               PROVE  \E r \in Requests : pc[r] = "commit" /\ loc[r].op = "reject" /\ pc'[r] = "ready"
    BY DEF StrandedByRejection
  <1>1. PICK r \in Requests : CommitStatus(r) \/ CommitRole(r)
    BY OthersKeepAdmins
  <1>2. pc[r] = "commit" /\ pc'[r] = "ready"
    BY <1>1 DEF CommitStatus, CommitRole, Return, IInv, TypeOK
  <1>3. loc[r].op = "reject"
    BY <1>1, CommitKeepsAdmin
  <1> QED BY <1>2, <1>3

\* If there is one request at a time, only a rejection can leave the platform without an
\* enabled administrator.
THEOREM SerialGuardsHold ==
    ASSUME OneRequest
    PROVE  Spec => OnlyRejectionStrands
  <1>1. IInv /\ GuardStillHolds /\ [Next]_vars => GuardStillHolds' /\ StrandedByRejection
    BY GuardStep, GuardsProtect DEF OneRequest, OthersReady
  <1> QED BY <1>1, InitInv, InitGuard, NextInv, PTL DEF Spec, OnlyRejectionStrands

-----------------------------------------------------------------------------
(* The two instances.                                                      *)

\* At first nobody is registered, and nobody has read anything.
LEMMA InitExplained == Init => AuditTellsStatus /\ ReadIsCurrent
  BY DEF Init, AuditTellsStatus, ReadIsCurrent

\* A decision writes its status if it differs from the one read, and its event in any
\* case: the two agree because the status read is still the account's.
LEMMA CommitExplained ==
    ASSUME IInv, ReadIsCurrent, AuditTellsStatus, NEW r \in Requests, CommitStatus(r)
    PROVE  AuditTellsStatus'
  <1> DEFINE x == loc[r].target
             o == loc[r].op
  <1>1. x \in Accounts /\ o \in StatusOps /\ loc[r].status = account[x].status
    BY DEF CommitStatus, IInv, RequestsAreBound, ReadIsCurrent
  <1>2. /\ account'[x].status = NewStatus(o) /\ audit'[x].last = o
        /\ \A a \in Accounts : a # x => account'[a] = account[a] /\ audit'[a] = audit[a]
    BY <1>1 DEF CommitStatus, IInv, TypeOK
  <1>3. o \notin {"none", "register", "bootstrap"}
    BY <1>1 DEF StatusOps
  <1> QED BY <1>2, <1>3 DEF AuditTellsStatus

\* Every step of one request at a time keeps what the trail tells.
LEMMA ExplainedStep ==
    ASSUME IInv, ReadIsCurrent, AuditTellsStatus, [Next]_vars,
           \A r \in Requests : RequestStep(r) => OthersReady(r)
    PROVE  ReadIsCurrent' /\ AuditTellsStatus'
  <1>1. ASSUME NEW a \in Accounts, Register(a) PROVE ReadIsCurrent' /\ AuditTellsStatus'
    <2>1. /\ account'[a].status = "pending" /\ audit'[a].last = "register" /\ ~Exists(a)
          /\ UNCHANGED <<pc, loc>>
          /\ \A b \in Accounts : b # a => account'[b] = account[b] /\ audit'[b] = audit[b]
      BY <1>1 DEF Register, IInv, TypeOK
    <2> QED BY <2>1 DEF ReadIsCurrent, AuditTellsStatus, Exists, IInv, RequestsAreBound
  <1>2. ASSUME NEW r \in Requests, CommitStatus(r) \/ CommitRole(r)
        PROVE  ReadIsCurrent' /\ AuditTellsStatus'
    <2>1. pc'[r] = "ready" /\ OthersReady(r)
      BY <1>2 DEF CommitStatus, CommitRole, Return, RequestStep, IInv, TypeOK
    <2>2. ReadIsCurrent'
      BY <2>1 DEF OthersReady, ReadIsCurrent
    <2>3. CASE CommitRole(r)
      <3>1. UNCHANGED audit /\ \A a \in Accounts : account'[a].status = account[a].status
        BY <2>3 DEF CommitRole, IInv, TypeOK
      <3> QED BY <2>2, <3>1 DEF AuditTellsStatus
    <2> QED BY <1>2, <2>2, <2>3, CommitExplained
  <1>3. ASSUME NEW r \in Requests, RequestStep(r), ~CommitStatus(r), ~CommitRole(r)
        PROVE  ReadIsCurrent' /\ AuditTellsStatus'
    <2>1. UNCHANGED <<account, audit>> /\ OthersReady(r)
      BY <1>3 DEF RequestStep, LoginRead, LoginInsert, Authorize, Read
    <2>2. pc'[r] = "authorized" => Exists(loc'[r].target)
      <3>1. ASSUME pc'[r] = "authorized"
            PROVE  \E t \in Tokens, op \in AdminOps, a \in Accounts : Authorize(r, t, op, a)
        BY <1>3, <3>1 DEF RequestStep, LoginRead, LoginInsert, Read, Return, IInv, TypeOK
      <3>2. ASSUME NEW t \in Tokens, NEW op \in AdminOps, NEW a \in Accounts, Authorize(r, t, op, a)
            PROVE  Exists(loc'[r].target)
        BY <3>2 DEF Authorize, NoLocal, IInv, TypeOK
      <3> QED BY <3>1, <3>2
    <2>3. ASSUME pc'[r] = "commit"
          PROVE  Exists(loc'[r].target) /\ loc'[r].status = account[loc'[r].target].status
      <3>1. /\ pc[r] = "authorized"
            /\ loc' = [loc EXCEPT ![r] = [loc[r] EXCEPT !.status = account[loc[r].target].status,
                                                         !.role = account[loc[r].target].role]]
        BY <1>3, <2>3
        DEF RequestStep, LoginRead, LoginInsert, Authorize, Read, Return, IInv, TypeOK
      <3>2. loc[r] \in [op : Ops \cup {"none"}, actor : Accounts \cup {NoAccount},
                        target : Accounts \cup {NoAccount}, status : Statuses, role : Roles]
        BY DEF IInv, TypeOK
      <3>3. /\ loc'[r].target = loc[r].target
            /\ loc'[r].status = account[loc[r].target].status
        BY <3>1, <3>2 DEF IInv, TypeOK
      <3> QED BY <3>1, <3>3 DEF ReadIsCurrent
    <2>4. ReadIsCurrent'
      BY <2>1, <2>2, <2>3 DEF OthersReady, ReadIsCurrent, Exists
    <2> QED BY <2>1, <2>4 DEF AuditTellsStatus
  <1>4. CASE UNCHANGED <<account, audit, pc, loc>>
    BY <1>4 DEF ReadIsCurrent, AuditTellsStatus, Exists
  <1> QED BY <1>1, <1>2, <1>3, <1>4 DEF Next, Purge, vars

\* The invariant of the instances: what one request at a time adds to IInv.
SerialInv == serial => OneAtATime /\ GuardStillHolds /\ ReadIsCurrent /\ AuditTellsStatus

LEMMA InstanceInvariant ==
    /\ InstanceInit => IInv /\ SerialInv
    /\ IInv /\ SerialInv /\ [InstanceNext]_<<vars, serial>> => IInv' /\ SerialInv'
    /\ IInv /\ SerialInv /\ [InstanceNext]_<<vars, serial>>
         => [serial => StrandedByRejection]_<<vars, serial>>
  <1>1. ASSUME InstanceInit PROVE IInv /\ SerialInv
    <2>1. OneAtATime
      BY <1>1 DEF InstanceInit, Init, OneAtATime
    <2> QED BY <1>1, <2>1, InitInv, InitGuard, InitExplained DEF InstanceInit, SerialInv
  <1>2. ASSUME IInv, SerialInv, InstanceNext
        PROVE  IInv' /\ SerialInv' /\ (serial => StrandedByRejection)
    <2>1. Next /\ UNCHANGED serial /\ (serial => OneAtATime') /\ IInv'
      BY <1>2, NextInv DEF InstanceNext
    <2>2. CASE serial
      <3>1. OneAtATime /\ OneAtATime' /\ \A r \in Requests : RequestStep(r) => OthersReady(r)
        BY <1>2, <2>1, <2>2, OneInProgress DEF SerialInv
      <3>2. GuardStillHolds /\ ReadIsCurrent /\ AuditTellsStatus
        BY <1>2, <2>2 DEF SerialInv
      <3>3. GuardStillHolds' /\ ReadIsCurrent' /\ AuditTellsStatus' /\ StrandedByRejection
        BY <1>2, <2>1, <3>1, <3>2, GuardStep, GuardsProtect, ExplainedStep
      <3> QED BY <2>1, <3>1, <3>3 DEF SerialInv
    <2> QED BY <2>1, <2>2 DEF SerialInv
  <1>3. ASSUME IInv, SerialInv, UNCHANGED <<vars, serial>> PROVE IInv' /\ SerialInv'
    <2>1. IInv'
      BY <1>3, NextInv
    <2>2. SerialInv'
      BY <1>3 DEF SerialInv, vars, OneAtATime, GuardStillHolds, EnabledAdmins, IsEnabledAdmin,
         ReadIsCurrent, Exists, AuditTellsStatus
    <2> QED BY <2>1, <2>2
  <1> QED BY <1>1, <1>2, <1>3

\* Whatever the order of registrations, logins and decisions: the types, and that nobody
\* acts or holds a session who was never let in.
THEOREM AccountsInvariant == Spec => []IInv
  BY InitInv, NextInv, PTL DEF Spec

\* One request at a time, the last event of an account's trail explains its status, over
\* any number of requests.
THEOREM TrailExplains == InstanceSpec => []SerialAudit
  <1>1. SerialInv => SerialAudit
    BY DEF SerialInv, SerialAudit
  <1> QED BY <1>1, InstanceInvariant, PTL DEF InstanceSpec

\* One request at a time, the guards of disabling and of a change of role see to it that
\* only a rejection can cost the platform its last enabled administrator.
THEOREM GuardsSuffice == InstanceSpec => SerialGuards
  BY InstanceInvariant, PTL DEF InstanceSpec, SerialGuards
=============================================================================
