-------------------------- MODULE AdminPagesProofs --------------------------
(***************************************************************************)
(* Proofs about the administrator's pages: the accounts and their audit    *)
(* trails, the audit of runs, the settings of a provider, those of a model *)
(* configuration, and the MCP servers with their authorizations.           *)
(***************************************************************************)
EXTENDS MCWebPages, FiniteSetTheorems, WellFoundedInduction, TLAPS

-----------------------------------------------------------------------------
(* The first of some numbers *)

LEMMA NatLessThan == IsWellFoundedOn({ss \in Nat \X Nat : ss[1] < ss[2]}, Nat)
BY NatLessThanWellFounded DEF OpToRel

\* What a page lists by number has a first element.
LEMMA LeastExists ==
    ASSUME NEW S \in SUBSET Nat, S # {}
    PROVE  \E m \in S : \A k \in S : m <= k
<1> DEFINE R == {ss \in Nat \X Nat : ss[1] < ss[2]}
<1>1. PICK m \in S : \A k \in S : <<k, m>> \notin R
  BY NatLessThan, WFMin
<1>2. \A k \in S : k < m => <<k, m>> \in R
  OBVIOUS
<1>3. \A k \in S : ~(k < m)
  BY <1>1, <1>2
<1> QED
  BY <1>3

LEMMA LeastChosen ==
    ASSUME NEW S \in SUBSET Nat, S # {}
    PROVE  (CHOOSE m \in S : \A k \in S : m <= k) \in S
BY LeastExists

-----------------------------------------------------------------------------
(* AccountApproval: the trail beside an account *)

\* The audit effect leaves no trail beside another account, nor an old one.
LEMMA AuditEffectKeeps ==
    ASSUME Accounts!AuditTrailCurrent, NEW refreshed \in BOOLEAN,
           Accounts!AuditEffect(refreshed),
           x8 \in [of : Accounts!Accounts \cup {0}, current : BOOLEAN, ownHistory : BOOLEAN],
           x7 \in {"idle", "asked"}
    PROVE  /\ Accounts!AuditTrailCurrent'
           /\ x8' \in [of : Accounts!Accounts \cup {0}, current : BOOLEAN,
                       ownHistory : BOOLEAN]
           /\ x7' \in {"idle", "asked"}
<1>1. Accounts!AuditTrailCurrent'
  BY DEF Accounts!AuditEffect, Accounts!AuditTrailCurrent, Accounts!None
<1>2. /\ x8' \in [of : Accounts!Accounts \cup {0}, current : BOOLEAN, ownHistory : BOOLEAN]
      /\ x7' \in {"idle", "asked"}
  <2> DEFINE Trails == [of : Accounts!Accounts \cup {0}, current : BOOLEAN,
                        ownHistory : BOOLEAN]
  <2>1. x8' = x8 \/ x8' = Accounts!NoEvents \/ x8' = [x8 EXCEPT !.current = FALSE]
    BY DEF Accounts!AuditEffect
  <2>2. Accounts!NoEvents \in Trails /\ [x8 EXCEPT !.current = FALSE] \in Trails
    BY DEF Accounts!NoEvents, Accounts!None
  <2>3. x7' \in {"idle", "asked"}
    BY DEF Accounts!AuditEffect
  <2> QED
    BY <2>1, <2>2, <2>3
<1> QED
  BY <1>1, <1>2

\* FirstOf finds an account, or none.
LEMMA FirstOfTyped ==
    ASSUME NEW known, NEW s
    PROVE  Accounts!FirstOf(known, s) \in Accounts!Accounts \cup {0}
<1> DEFINE with == {a \in Accounts!Accounts : known[a] = s}
<1>1. with \in SUBSET Nat
  BY DEF Accounts!Accounts
<1>2. CASE with = {}
  BY <1>2 DEF Accounts!FirstOf, Accounts!None
<1>3. CASE with # {}
  <2>1. (CHOOSE a \in with : \A b \in with : a <= b) \in with
    BY <1>1, <1>3, LeastChosen
  <2> QED
    BY <1>3, <2>1 DEF Accounts!FirstOf
<1> QED
  BY <1>2, <1>3

LEMMA AccountsInit ==
    ASSUME MaxAccounts \in Nat \ {0}, Accounts!Init
    PROVE  Accounts!IInv
<1>1. Accounts!NoCall \in [pc : {"idle", "sent", "handled"}, of : Accounts!Accounts \cup {0},
                           op : Accounts!Statuses \cup {"note"}, result : Accounts!Statuses]
  BY DEF Accounts!NoCall, Accounts!Statuses, Accounts!None
<1>2. Accounts!TypeOK
  BY DEF Accounts!Init, Accounts!TypeOK, Accounts!Statuses, Accounts!NoCall, Accounts!NoEvents,
         Accounts!None
<1>3. Accounts!AuditTrailCurrent
  BY DEF Accounts!Init, Accounts!AuditTrailCurrent, Accounts!Shown, Accounts!None
<1> QED
  BY <1>1, <1>2, <1>3 DEF Accounts!Init, Accounts!IInv, Accounts!NoCall, Accounts!None

LEMMA AccountsStep ==
    ASSUME MaxAccounts \in Nat \ {0}, Accounts!IInv, Accounts!Next
    PROVE  Accounts!IInv'
<1> DEFINE A1 == Accounts!Accounts
           St == Accounts!Statuses
           OneCall == [pc : {"idle", "sent", "handled"}, of : A1 \cup {0},
                       op : St \cup {"note"}, result : St]
           \* the types of what the effect leaves alone
           Rest == /\ x1 \in [A1 -> St] /\ x2 \in [A1 -> St \cup {"unknown"}]
                   /\ x3 \in St /\ x4 \in A1 \cup {0} /\ x5 \in BOOLEAN
                   /\ x6 \in [Calls -> OneCall]
                   /\ \A c \in Calls : x6[c].pc # "idle" => x6[c].of \in A1
           Effect == /\ x8 \in [of : A1 \cup {0}, current : BOOLEAN, ownHistory : BOOLEAN]
                     /\ x7 \in {"idle", "asked"}
<1> USE DEF Accounts!None, Accounts!vars
<1>1. Rest /\ Effect /\ Accounts!AuditTrailCurrent
  BY DEF Accounts!IInv, Accounts!TypeOK
<1>2. ASSUME Rest', Effect', Accounts!AuditTrailCurrent'
      PROVE  Accounts!IInv'
  BY <1>2 DEF Accounts!IInv, Accounts!TypeOK
<1>3. ASSUME Rest', NEW refreshed \in BOOLEAN, Accounts!AuditEffect(refreshed)
      PROVE  Accounts!IInv'
  BY <1>1, <1>2, <1>3, AuditEffectKeeps
<1>4. Accounts!Shown \in A1 \cup {0}
  BY <1>1 DEF Accounts!Shown
<1>5. ASSUME Accounts!ListArrives
      PROVE  Accounts!IInv'
  <2>1. x4' \in A1 \cup {0}
    BY <1>5, FirstOfTyped DEF Accounts!ListArrives, Accounts!Accounts
  <2>2. Rest'
    BY <1>1, <1>5, <2>1 DEF Accounts!ListArrives
  <2> QED
    BY <1>3, <1>5, <2>2 DEF Accounts!ListArrives
<1>6. ASSUME NEW s \in St, Accounts!SwitchStatus(s)
      PROVE  Accounts!IInv'
  <2>1. x4' \in A1 \cup {0}
    BY <1>6, FirstOfTyped DEF Accounts!SwitchStatus
  <2>2. Rest'
    BY <1>1, <1>6, <2>1 DEF Accounts!SwitchStatus
  <2> QED
    BY <1>3, <1>6, <2>2 DEF Accounts!SwitchStatus
<1>7. ASSUME NEW a \in A1, Accounts!FocusLocalAccount(a)
      PROVE  Accounts!IInv'
  <2>1. Rest'
    BY <1>1, <1>7 DEF Accounts!FocusLocalAccount
  <2> QED
    BY <1>3, <1>7, <2>1 DEF Accounts!FocusLocalAccount
<1>8. ASSUME Accounts!TypeReason
      PROVE  Accounts!IInv'
  BY <1>1, <1>2, <1>8 DEF Accounts!TypeReason, Accounts!AuditTrailCurrent, Accounts!Shown
<1>0. Accounts!NoCall \in OneCall /\ Accounts!NoCall.pc = "idle"
  BY DEF Accounts!NoCall, Accounts!Statuses
<1>9. ASSUME NEW c \in Calls, NEW a \in A1, NEW op \in St \cup {"note"}, Accounts!Send(c, a, op)
      PROVE  Accounts!IInv'
  <2> DEFINE sent == [Accounts!NoCall EXCEPT !.pc = "sent", !.of = a, !.op = op]
  <2>1. sent \in OneCall /\ sent.of = a
    BY <1>0
  <2>2. x6' = [x6 EXCEPT ![c] = sent] /\ UNCHANGED <<x1, x2, x3, x4, x5, x7, x8>>
    BY <1>9 DEF Accounts!Send
  <2>3. Rest'
    BY <1>1, <2>1, <2>2
  <2> QED
    BY <1>1, <1>2, <2>2, <2>3 DEF Accounts!AuditTrailCurrent, Accounts!Shown
<1>10. ASSUME NEW c \in Calls, NEW a \in A1, NEW s \in St, Accounts!ChangeStatus(c, a, s)
       PROVE  Accounts!IInv'
  BY <1>9, <1>10 DEF Accounts!ChangeStatus
<1>11. ASSUME NEW c \in Calls, Accounts!UpdateAccountNote(c)
       PROVE  Accounts!IInv'
  BY <1>4, <1>9, <1>11 DEF Accounts!UpdateAccountNote
<1>12. ASSUME NEW c \in Calls, Accounts!Handle(c)
       PROVE  Accounts!IInv'
  <2> DEFINE s == IF x6[c].op = "note" THEN x1[x6[c].of] ELSE x6[c].op
  <2>1. x6[c].of \in A1 /\ s \in St /\ x6[c].pc = "sent"
    BY <1>1, <1>12 DEF Accounts!Handle
  <2>2. x1' = [x1 EXCEPT ![x6[c].of] = s]
        /\ x6' = [x6 EXCEPT ![c].pc = "handled", ![c].result = s]
        /\ UNCHANGED <<x2, x3, x4, x5, x7, x8>>
    BY <1>12 DEF Accounts!Handle
  <2>3. [x6[c] EXCEPT !.pc = "handled", !.result = s] \in OneCall
        /\ [x6[c] EXCEPT !.pc = "handled", !.result = s].of = x6[c].of
    BY <1>1, <2>1
  <2>4. x6' = [x6 EXCEPT ![c] = [x6[c] EXCEPT !.pc = "handled", !.result = s]]
    BY <1>1, <2>2
  <2>5. Rest'
    BY <1>1, <2>1, <2>2, <2>3, <2>4
  <2> QED
    BY <1>1, <1>2, <2>2, <2>5 DEF Accounts!AuditTrailCurrent, Accounts!Shown
<1>14. ASSUME NEW c \in Calls, Accounts!UpdateMappedAccount(c)
       PROVE  Accounts!IInv'
  <2>1. x6[c].of \in A1 /\ x6[c].result \in St
    BY <1>1, <1>14 DEF Accounts!UpdateMappedAccount
  <2>2. x2' = [x2 EXCEPT ![x6[c].of] = x6[c].result] /\ x3' = x6[c].result
        /\ x4' = x6[c].of /\ x5' = (x5 /\ x6[c].op = "note")
        /\ x6' = [x6 EXCEPT ![c] = Accounts!NoCall] /\ x1' = x1
    BY <1>14 DEF Accounts!UpdateMappedAccount
  <2>3. Rest'
    BY <1>1, <1>0, <2>1, <2>2
  <2>4. Accounts!AuditEffect(TRUE)
    BY <1>14 DEF Accounts!UpdateMappedAccount
  <2> QED
    BY <1>3, <2>3, <2>4
<1>15. ASSUME NEW c \in Calls, Accounts!CallFails(c)
       PROVE  Accounts!IInv'
  <2>1. x6' = [x6 EXCEPT ![c] = Accounts!NoCall] /\ UNCHANGED <<x1, x2, x3, x4, x5, x7, x8>>
    BY <1>15 DEF Accounts!CallFails
  <2>2. Rest'
    BY <1>1, <1>0, <2>1
  <2> QED
    BY <1>1, <1>2, <2>1, <2>2 DEF Accounts!AuditTrailCurrent, Accounts!Shown
<1>16. ASSUME Accounts!AuditArrives
       PROVE  Accounts!IInv'
  <2>1. PICK failed \in BOOLEAN :
           x8' = [of |-> Accounts!Shown, current |-> ~failed, ownHistory |-> failed]
    BY <1>16 DEF Accounts!AuditArrives
  <2>2. UNCHANGED <<x1, x2, x3, x4, x5, x6>> /\ x7' = "idle"
    BY <1>16 DEF Accounts!AuditArrives
  <2>3. Effect'
    BY <1>4, <2>1, <2>2
  <2>4. Accounts!AuditTrailCurrent'
    BY <2>1, <2>2 DEF Accounts!AuditTrailCurrent, Accounts!Shown
  <2> QED
    BY <1>1, <1>2, <2>2, <2>3, <2>4
<1> QED
  BY <1>5, <1>6, <1>7, <1>8, <1>10, <1>11, <1>12, <1>14, <1>15, <1>16 DEF Accounts!Next

-----------------------------------------------------------------------------
(* RunAudit: the details beside a run *)

LEMMA FirstRun ==
    ASSUME NEW S \in SUBSET Audit!Runs
    PROVE  Audit!First(S) \in Audit!Runs \cup {0}
<1>1. S \in SUBSET Nat
  BY DEF Audit!Runs
<1>2. CASE S = {}
  BY <1>2 DEF Audit!First, Audit!None
<1>3. CASE S # {}
  <2>1. (CHOOSE r \in S : \A q \in S : r <= q) \in S
    BY <1>1, <1>3, LeastChosen
  <2> QED
    BY <1>3, <2>1 DEF Audit!First
<1> QED
  BY <1>2, <1>3

LEMMA AuditInit ==
    ASSUME Audit!Init
    PROVE  Audit!IInv
<1>1. Audit!TypeOK
  BY DEF Audit!Init, Audit!TypeOK, Audit!Idle, Audit!Filters, Audit!None
<1>2. Audit!DetailsOfSelected
  BY DEF Audit!Init, Audit!DetailsOfSelected, Audit!None
<1> QED
  BY <1>1, <1>2 DEF Audit!Init, Audit!IInv, Audit!Idle, Audit!Statuses

LEMMA AuditStep ==
    ASSUME MaxRuns \in Nat \ {0}, Audit!IInv, Audit!Next
    PROVE  Audit!IInv'
<1> DEFINE St == {"running", "completed"}
           Detail == [pc : {"idle", "asked", "answered", "failed"}, status : St]
           Row == [status : St, details : Audit!Runs \cup {0}]
<1> USE DEF Audit!None, Audit!vars, Audit!Statuses
<1>1. /\ x1 \in [Audit!Runs -> St] /\ x2 \in [Audit!Runs -> Row] /\ x3 \in BOOLEAN
      /\ x4 \in Audit!Filters /\ x5 \subseteq Audit!Runs /\ x6 \in Audit!Runs \cup {0}
      /\ x7 \in Detail
      /\ x7.pc \in {"asked", "answered"} => x6 # 0
      /\ ~x3 => x6 = 0
      /\ \A r \in Audit!Runs : x2[r].details \in {0, r}
      /\ x6 # 0 /\ x7.pc = "idle" => x2[x6].details = x6
  BY DEF Audit!IInv, Audit!TypeOK, Audit!DetailsOfSelected
\* Another run is selected: its details are read.
<1>2. ASSUME NEW r \in Audit!Runs \cup {0}, x6' = r, Audit!DetailEffect(r)
      PROVE  /\ x7' \in Detail
             /\ x7'.pc \in {"asked", "answered"} => x6' # 0
             /\ x6' # 0 /\ x7'.pc = "idle" => x6' = x6 /\ x7' = x7
  BY <1>1, <1>2 DEF Audit!DetailEffect, Audit!Idle, Audit!Asked
<1>3. ASSUME Audit!ListArrives
      PROVE  Audit!IInv'
  <2>1. /\ ~x3 /\ x3' = TRUE /\ x6' = 1 /\ Audit!DetailEffect(1)
        /\ x2' = [r \in Audit!Runs |-> [status |-> x1[r], details |-> 0]]
        /\ UNCHANGED <<x1, x4, x5>>
    BY <1>3 DEF Audit!ListArrives
  <2>2. 1 \in Audit!Runs
    BY DEF Audit!Runs
  <2>3. x2' \in [Audit!Runs -> Row] /\ \A r \in Audit!Runs : x2'[r].details = 0
    BY <1>1, <2>1
  <2>4. x6 = 0
    BY <1>1, <2>1
  <2> QED
    BY <1>1, <1>2, <2>1, <2>2, <2>3, <2>4
       DEF Audit!IInv, Audit!TypeOK, Audit!DetailsOfSelected
<1>4. ASSUME NEW filter \in Audit!Filters, Audit!SwitchStatusFilter(filter)
      PROVE  Audit!IInv'
  <2>1. /\ x4' = filter /\ x6' = Audit!First(Audit!Passing(filter))
        /\ Audit!DetailEffect(Audit!First(Audit!Passing(filter)))
        /\ UNCHANGED <<x1, x2, x3, x5>>
    BY <1>4 DEF Audit!SwitchStatusFilter
  <2>2. Audit!Passing(filter) \in SUBSET Audit!Runs
    BY DEF Audit!Passing
  <2>3. Audit!First(Audit!Passing(filter)) \in Audit!Runs \cup {0}
    BY <2>2, FirstRun
  <2>4. ~x3 => x6' = 0
    BY <2>1 DEF Audit!Passing, Audit!First
  <2> QED
    BY <1>1, <1>2, <2>1, <2>3, <2>4
       DEF Audit!IInv, Audit!TypeOK, Audit!DetailsOfSelected
<1>5. ASSUME NEW set \in SUBSET Audit!Runs, Audit!Search(set)
      PROVE  Audit!IInv'
  BY <1>1, <1>5 DEF Audit!Search, Audit!IInv, Audit!TypeOK, Audit!DetailsOfSelected
<1>6. ASSUME NEW r \in Audit!Runs, NEW filter \in Audit!Statuses \cup {x4},
             Audit!Focus(r, filter)
      PROVE  Audit!IInv'
  <2>1. /\ x3 /\ x4' = filter /\ x6' = r /\ Audit!DetailEffect(r)
        /\ UNCHANGED <<x1, x2, x3, x5>>
    BY <1>6 DEF Audit!Focus
  <2>2. filter \in Audit!Filters
    BY <1>1 DEF Audit!Filters
  <2> QED
    BY <1>1, <1>2, <2>1, <2>2 DEF Audit!IInv, Audit!TypeOK, Audit!DetailsOfSelected
<1>7. ASSUME Audit!DetailAnswered
      PROVE  Audit!IInv'
  <2>1. /\ x7 = Audit!Asked /\ x7' = [pc |-> "answered", status |-> x1[x6]]
        /\ UNCHANGED <<x1, x2, x3, x4, x5, x6>>
    BY <1>7 DEF Audit!DetailAnswered, Audit!Answered
  <2>2. x6 \in Audit!Runs
    BY <1>1, <2>1 DEF Audit!Asked
  <2>3. x1[x6] \in St
    BY <1>1, <2>2
  <2>4. x7' \in Detail /\ x7'.pc = "answered"
    BY <2>1, <2>3
  <2>5. x6 # 0
    BY <1>1, <2>1 DEF Audit!Asked
  <2> QED
    BY <1>1, <2>1, <2>4, <2>5 DEF Audit!IInv, Audit!TypeOK, Audit!DetailsOfSelected
<1>8. ASSUME Audit!DetailArrives
      PROVE  Audit!IInv'
  <2>1. /\ x7.pc = "answered" /\ x7' = Audit!Idle
        /\ x2' = [x2 EXCEPT ![x6] = [status |-> x7.status, details |-> x6]]
        /\ UNCHANGED <<x1, x3, x4, x5, x6>>
    BY <1>8 DEF Audit!DetailArrives
  <2>2. x6 \in Audit!Runs /\ x7.status \in St
    BY <1>1, <2>1
  <2>3. x2' \in [Audit!Runs -> Row] /\ \A r \in Audit!Runs : x2'[r].details \in {0, r}
        /\ x2'[x6].details = x6
    BY <1>1, <2>1, <2>2
  <2>4. x7' \in Detail /\ x7'.pc = "idle"
    BY <2>1 DEF Audit!Idle
  <2> QED
    BY <1>1, <2>1, <2>2, <2>3, <2>4 DEF Audit!IInv, Audit!TypeOK, Audit!DetailsOfSelected
<1>9. ASSUME Audit!DetailFails
      PROVE  Audit!IInv'
  <2>1. x7' \in Detail /\ x7'.pc = "failed" /\ UNCHANGED <<x1, x2, x3, x4, x5, x6>>
    BY <1>9 DEF Audit!DetailFails, Audit!Failed
  <2> QED
    BY <1>1, <2>1 DEF Audit!IInv, Audit!TypeOK, Audit!DetailsOfSelected
<1>10. ASSUME NEW r \in Audit!Runs, Audit!RunSettles(r)
       PROVE  Audit!IInv'
  <2>1. x1' \in [Audit!Runs -> St] /\ UNCHANGED <<x2, x3, x4, x5, x6, x7>>
    BY <1>1, <1>10 DEF Audit!RunSettles
  <2> QED
    BY <1>1, <2>1 DEF Audit!IInv, Audit!TypeOK, Audit!DetailsOfSelected
<1> QED
  BY <1>3, <1>4, <1>5, <1>6, <1>7, <1>8, <1>9, <1>10 DEF Audit!Next

-----------------------------------------------------------------------------
(* ProviderSettings: the form and the server's configuration *)

LEMMA ProviderInit ==
    ASSUME Provider!ProviderAssumption, Provider!Init
    PROVE  Provider!IInv
<1>1. /\ x1 \in Configurations
      /\ x2 \in Configurations \cup {NoProvider}
      /\ x4 = x2
      /\ x5 = FALSE
      /\ x6 = Provider!Idle
      /\ x3 = Provider!Asked \/ x3 = Provider!Idle
  BY Zenon DEF Provider!Init
<1>2. x7 = (x3 = Provider!Idle)
  BY Zenon DEF Provider!Init
<1>3. x7 \in BOOLEAN
  <2>1. (x3 = Provider!Idle) \in BOOLEAN
    OBVIOUS
  <2> QED
    BY <1>2, <2>1, Zenon
<1>4. ~x7 => x3 = Provider!Asked
  BY <1>2, <1>1, Zenon
<1>5. Provider!Asked.pc = "asked" /\ Provider!Idle.pc = "idle"
  BY DEF Provider!Asked, Provider!Idle
<1>6. Provider!TypeOK
  <2>1. x3.pc \in {"idle", "asked", "answered"} /\ x6.pc = "idle"
    BY <1>1, <1>5
  <2>2. x4 \in Provider!Entries \cup {NoProvider}
    BY <1>1 DEF Provider!Entries
  <2> QED
    BY <1>1, <1>3, <2>1, <2>2 DEF Provider!TypeOK
<1>7. /\ x3 \in {Provider!Idle, Provider!Asked}
      /\ x3.pc # "answered"
      /\ ~x7 => x3 # Provider!Idle
  BY <1>1, <1>4, <1>5
<1> QED
  BY <1>1, <1>6, <1>7 DEF Provider!IInv

LEMMA ProviderStep ==
    ASSUME Provider!ProviderAssumption, Provider!IInv, Provider!Next
    PROVE  Provider!IInv'
<1> USE DEF Provider!vars, Provider!query, Provider!Idle, Provider!Asked, Provider!Entries,
            Provider!Answered
<1>1. /\ Provider!TypeOK /\ NoProvider \notin Configurations
      /\ x3 \in {Provider!Idle, Provider!Asked}
               \cup {Provider!Answered(data) : data \in Configurations}
      /\ x6 \in {Provider!Idle} \cup [pc : {"sent", "answered"}, data : Configurations]
      /\ x4 = NoProvider => x2 = NoProvider
      /\ ~x5 => x4 = x2
      /\ ~x7 /\ x3 = Provider!Idle => x2 = x1
      /\ ~x7 /\ x3.pc = "answered" => x3.data = x1
  BY DEF Provider!IInv, Provider!ProviderAssumption
<1>2. CASE Provider!Answers
  BY <1>1, <1>2 DEF Provider!Answers, Provider!IInv, Provider!TypeOK
<1>3. CASE Provider!ProvidersArrive
  <2>1. x3.data \in Configurations
    BY <1>1, <1>3 DEF Provider!ProvidersArrive
  <2> QED
    BY <1>1, <1>3, <2>1 DEF Provider!ProvidersArrive, Provider!Provide, Provider!IInv,
                            Provider!TypeOK
<1>4. CASE Provider!FetchFails
  BY <1>1, <1>4 DEF Provider!FetchFails, Provider!IInv, Provider!TypeOK
<1>5. CASE Provider!Refetch
  BY <1>1, <1>5 DEF Provider!Refetch, Provider!IInv, Provider!TypeOK
<1>6. ASSUME NEW entry \in Provider!Entries, Provider!Type(entry)
      PROVE  Provider!IInv'
  BY <1>1, <1>6 DEF Provider!Type, Provider!IInv, Provider!TypeOK, Provider!ProviderAssumption
<1>7. CASE Provider!SaveProviderSettings
  <2>1. x4 = Unreadable \/ x4 \in Configurations
    BY <1>1, <1>7 DEF Provider!SaveProviderSettings, Provider!TypeOK
  <2>2. (IF x4 = Unreadable THEN x2 ELSE x4) \in Configurations
    BY <1>1, <1>7, <2>1 DEF Provider!SaveProviderSettings, Provider!TypeOK
  <2> QED
    BY <1>1, <1>7, <2>2 DEF Provider!SaveProviderSettings, Provider!IInv, Provider!TypeOK
<1>8. CASE Provider!Patch
  <2>1. x6.data \in Configurations
    BY <1>1, <1>8 DEF Provider!Patch
  <2> QED
    BY <1>1, <1>8, <2>1 DEF Provider!Patch, Provider!IInv, Provider!TypeOK
<1>9. CASE Provider!Saved
  <2>1. x6.data \in Configurations
    BY <1>1, <1>9 DEF Provider!Saved
  <2> QED
    BY <1>1, <1>9, <2>1 DEF Provider!Saved, Provider!IInv, Provider!TypeOK
<1>10. CASE Provider!SaveFails
  BY <1>1, <1>10 DEF Provider!SaveFails, Provider!IInv, Provider!TypeOK
<1>11. CASE Provider!SavedElsewhere
  BY <1>1, <1>11 DEF Provider!SavedElsewhere, Provider!IInv, Provider!TypeOK
<1> QED
  BY <1>2, <1>3, <1>4, <1>5, <1>6, <1>7, <1>8, <1>9, <1>10, <1>11 DEF Provider!Next

LEMMA UntouchedIsServers ==
    ASSUME Provider!IInv
    PROVE  Provider!UntouchedFormIsServers
BY DEF Provider!IInv, Provider!UntouchedFormIsServers

-----------------------------------------------------------------------------
(* McpAuthorization: the tools, the boxes and what is granted *)

LEMMA GreaterOfTwo ==
    ASSUME NEW m \in Nat, NEW k \in Nat
    PROVE  Mcp!Max({m, k}) = IF m >= k THEN m ELSE k
<1> DEFINE g == IF m >= k THEN m ELSE k
<1>1. g \in {m, k} /\ \A y \in {m, k} : g >= y
  OBVIOUS
<1>2. \A x \in {m, k} : (\A y \in {m, k} : x >= y) => x = g
  OBVIOUS
<1> HIDE DEF g
<1>3. (CHOOSE x \in {m, k} : \A y \in {m, k} : x >= y) = g
  BY <1>1, <1>2
<1> QED
  BY <1>3 DEF Mcp!Max, g

\* Where two servers are listed another is left beside any one of them.
LEMMA AnotherIsLeft ==
    ASSUME NEW S, Mcp!Cardinality(S) > 1, NEW s
    PROVE  S \ {s} # {}
<1>1. SUFFICES ASSUME S \ {s} = {}
               PROVE  FALSE
  OBVIOUS
<1>2. S = {} \/ S = {s}
  BY <1>1
<1>3. Cardinality({}) = 0 /\ Cardinality({s}) = 1
  BY FS_EmptySet, FS_Singleton
<1>4. Mcp!Cardinality(S) = Cardinality(S)
  BY DEF Mcp!Cardinality, Cardinality
<1> QED
  BY <1>2, <1>3, <1>4

LEMMA McpInit ==
    ASSUME Mcp!McpAssumption, Mcp!Init
    PROVE  Mcp!IInv
<1>1. PICK n \in Mcp!Servers : /\ x2 = [ids |-> 1..n, made |-> n]
                               /\ x1 \in SUBSET (Mcp!Agents \X (1..n) \X Names)
  BY DEF Mcp!Init
<1>2. 1..n \subseteq Mcp!Servers /\ 1 \in 1..n /\ 1 \in Mcp!Agents
  BY DEF Mcp!Servers, Mcp!Agents, Mcp!McpAssumption
<1>3. /\ x3 = 1 /\ x4 = 1
      /\ x5 = Mcp!NoTools /\ x6 = Mcp!NoAuth
      /\ x7 = [k \in {} |-> Mcp!Fresh(FALSE)]
      /\ x8 = "asked" /\ x9 = Mcp!Asked /\ x10 = Mcp!NoCall /\ x11 = Mcp!NoSave
      /\ x12 = {} /\ x13 = FALSE
  BY DEF Mcp!Init
<1>4. x1 \subseteq Mcp!Agents \X Mcp!Servers \X Names
  BY <1>1, <1>2
<1>5. x7 \in [x5.names -> [tick : BOOLEAN, clicked : BOOLEAN]]
  BY <1>3 DEF Mcp!NoTools
<1>6. Mcp!TypeOK
  BY <1>1, <1>2, <1>3, <1>4, <1>5
     DEF Mcp!TypeOK, Mcp!NoTools, Mcp!NoAuth, Mcp!Asked, Mcp!NoCall, Mcp!NoSave, Mcp!None
<1>7. Mcp!CallsTyped
  BY <1>3 DEF Mcp!CallsTyped, Mcp!Saving, Mcp!NoTools, Mcp!NoAuth, Mcp!Asked, Mcp!NoCall,
              Mcp!NoSave, Mcp!None
<1>8. Mcp!SureIsGranted /\ Mcp!ToolsOfServerShown
  BY <1>3 DEF Mcp!SureIsGranted, Mcp!NoAuth, Mcp!Asked, Mcp!ToolsOfServerShown
<1> QED
  BY <1>3, <1>6, <1>7, <1>8 DEF Mcp!IInv, Mcp!UnclickedBoxesAreGranted, Mcp!PostsAreSound

\* What the boxes that can be relied on show, in the names of the tools.
LEMMA ShowKeeps ==
    ASSUME Mcp!IInv, NEW s \in Mcp!Servers, NEW a \in Mcp!Agents, Mcp!Show(s, a, x6),
           UNCHANGED <<x1, x5, x7, x11, x13>>
    PROVE  /\ x3' = s /\ x4' = a
           /\ x6' \in [names : SUBSET Names, sure : BOOLEAN]
           /\ x8' \in {"idle", "asked"}
           /\ x9' \in [pc : {"idle", "asked", "answered"}, names : SUBSET Names,
                       sure : BOOLEAN]
           /\ x12' \subseteq x5'.names
           /\ Mcp!ToolsOfServerShown' /\ Mcp!SureIsGranted'
           /\ Mcp!UnclickedBoxesAreGranted' /\ Mcp!PostsAreSound'
<1> DEFINE same == s = x3 /\ a = x4
<1>1. /\ x6 \in [names : SUBSET Names, sure : BOOLEAN]
      /\ x9 \in [pc : {"idle", "asked", "answered"}, names : SUBSET Names, sure : BOOLEAN]
      /\ x8 \in {"idle", "asked"} /\ x12 \subseteq x5.names
      /\ Mcp!ToolsOfServerShown /\ Mcp!SureIsGranted
      /\ Mcp!UnclickedBoxesAreGranted /\ Mcp!PostsAreSound
  BY DEF Mcp!IInv, Mcp!TypeOK, Mcp!CallsTyped
<1>2. /\ x3' = s /\ x4' = a
      /\ x8' = IF s = x3 THEN x8 ELSE "asked"
      /\ x9' = IF same THEN x9 ELSE Mcp!Asked
      /\ x6' = [x6 EXCEPT !.sure = x6.sure /\ same]
      /\ x12' = IF same THEN x12 \cap x5'.names ELSE {}
  BY DEF Mcp!Show
<1>3. /\ x6' \in [names : SUBSET Names, sure : BOOLEAN]
      /\ x6'.sure => x6.sure /\ same
      /\ x6'.names = x6.names
  BY <1>1, <1>2
<1>4. /\ x9' \in [pc : {"idle", "asked", "answered"}, names : SUBSET Names, sure : BOOLEAN]
      /\ x9'.sure => same
      /\ same => x9' = x9
  <2>1. /\ Mcp!Asked \in [pc : {"idle", "asked", "answered"}, names : SUBSET Names,
                          sure : BOOLEAN]
        /\ ~Mcp!Asked.sure
    BY DEF Mcp!Asked
  <2> QED
    BY <1>1, <1>2, <2>1
<1>5. Mcp!ToolsOfServerShown'
  BY <1>1, <1>2 DEF Mcp!ToolsOfServerShown
<1>6. Mcp!SureIsGranted'
  <2>1. ASSUME same
        PROVE  x3' = x3 /\ x4' = x4
    BY <1>2, <2>1
  <2> QED
    BY <1>1, <1>3, <1>4, <2>1 DEF Mcp!SureIsGranted, Mcp!Saving
<1>7. Mcp!UnclickedBoxesAreGranted' /\ Mcp!PostsAreSound'
  <2>1. CASE same
    <3>1. x3' = x3 /\ x4' = x4 /\ x12' \subseteq x12
      BY <1>2, <2>1
    <3>2. /\ \A n \in x12 : ~x7[n].clicked => x7[n].tick = (<<x4, x3, n>> \in x1)
          /\ \A n \in x12 : ~x7[n].clicked /\ Mcp!Saving =>
               x11.pair = Mcp!Pair /\ (n \in x11.left => (n \in x11.ticked <=> x7[n].tick))
      BY <1>1 DEF Mcp!UnclickedBoxesAreGranted, Mcp!PostsAreSound
    <3> QED
      BY <3>1, <3>2 DEF Mcp!UnclickedBoxesAreGranted, Mcp!PostsAreSound, Mcp!Saving, Mcp!Pair
  <2>2. CASE ~same
    BY <1>2, <2>2 DEF Mcp!UnclickedBoxesAreGranted, Mcp!PostsAreSound
  <2> QED
    BY <2>1, <2>2
<1> QED
  BY <1>1, <1>2, <1>3, <1>4, <1>5, <1>6, <1>7

\* Tools that mount bring boxes that can be relied on where the authorizations can.
LEMMA MountKeeps ==
    ASSUME Mcp!IInv, NEW s \in Mcp!Servers, NEW names \in SUBSET Names,
           Mcp!Mount(s, names), x12' = Mcp!Sound(s, names),
           UNCHANGED <<x1, x3, x4, x11>>
    PROVE  /\ x5' \in [of : Mcp!Servers \cup {0}, names : SUBSET Names]
           /\ x7' \in [x5'.names -> [tick : BOOLEAN, clicked : BOOLEAN]]
           /\ x12' \subseteq x5'.names
           /\ x5'.of = s
           /\ Mcp!UnclickedBoxesAreGranted' /\ Mcp!PostsAreSound'
<1> DEFINE stay == IF s = x5.of THEN x5.names ELSE {}
<1>1. /\ x7 \in [x5.names -> [tick : BOOLEAN, clicked : BOOLEAN]]
      /\ Mcp!SureIsGranted /\ Mcp!UnclickedBoxesAreGranted /\ Mcp!PostsAreSound
  BY DEF Mcp!IInv, Mcp!TypeOK
<1>2. /\ x5' = [of |-> s, names |-> names]
      /\ x7' = [n \in names |-> IF n \in stay THEN x7[n] ELSE Mcp!Fresh(n \in x6.names)]
      /\ x12' = (x12 \cap stay \cap names)
                \cup (IF s = x3 /\ x6.sure THEN names \ stay ELSE {})
  BY DEF Mcp!Mount, Mcp!Sound
<1>3. x7' \in [names -> [tick : BOOLEAN, clicked : BOOLEAN]]
  <2>1. \A n \in names : Mcp!Fresh(n \in x6.names) \in [tick : BOOLEAN, clicked : BOOLEAN]
    BY DEF Mcp!Fresh
  <2>2. \A n \in stay : x7[n] \in [tick : BOOLEAN, clicked : BOOLEAN]
    BY <1>1
  <2> QED
    BY <1>2, <2>1, <2>2
<1>4. ASSUME NEW n \in x12', ~x7'[n].clicked
      PROVE  /\ x7'[n].tick = (<<x4', x3', n>> \in x1')
             /\ Mcp!Saving' =>
                  x11'.pair = Mcp!Pair' /\ (n \in x11'.left => (n \in x11'.ticked <=> x7'[n].tick))
  <2>1. CASE n \in x12 \cap stay \cap names
    <3>1. x7'[n] = x7[n]
      BY <1>2, <2>1
    <3> QED
      BY <1>1, <1>4, <2>1, <3>1
         DEF Mcp!UnclickedBoxesAreGranted, Mcp!PostsAreSound, Mcp!Saving, Mcp!Pair
  <2>2. CASE s = x3 /\ x6.sure /\ n \in names \ stay
    <3>1. x7'[n].tick = (n \in x6.names)
      BY <1>2, <2>2 DEF Mcp!Fresh
    <3>2. /\ ~Mcp!Saving
          /\ x6.names = {k \in Names : <<x4, x3, k>> \in x1}
      BY <1>1, <2>2 DEF Mcp!SureIsGranted
    <3>3. n \in Names
      BY <2>2
    <3>4. (n \in x6.names) = (<<x4, x3, n>> \in x1)
      BY <3>2, <3>3
    <3> QED
      BY <3>1, <3>2, <3>4 DEF Mcp!Saving
  <2> QED
    BY <1>2, <2>1, <2>2
<1> QED
  BY <1>2, <1>3, <1>4 DEF Mcp!UnclickedBoxesAreGranted, Mcp!PostsAreSound

\* An answer that shows a server leaves every part of the invariant in place.
LEMMA UpsertKeeps ==
    ASSUME Mcp!IInv, NEW s \in Mcp!Servers, Mcp!UpsertServer(s), ~Mcp!Saving,
           x10' \in [pc : {"idle", "saving", "discovering", "reading"},
                     of : Mcp!Servers \cup {0}],
           x10'.pc # "idle" => x10'.of \in Mcp!Servers
    PROVE  Mcp!IInv'
<1>1. /\ Mcp!Show(s, x4, x6)
      /\ x2' = [ids |-> x2.ids \cup {s}, made |-> Mcp!Max({s, x2.made})]
      /\ UNCHANGED <<x1, x5, x7, x11, x13>>
  BY DEF Mcp!UpsertServer
<1>2. x4 \in Mcp!Agents /\ x2 \in [ids : SUBSET Mcp!Servers, made : Mcp!Servers]
  BY DEF Mcp!IInv, Mcp!TypeOK
<1>3. x2' \in [ids : SUBSET Mcp!Servers, made : Mcp!Servers] /\ s \in x2'.ids
  <2>1. s \in Nat /\ x2.made \in Nat /\ x2.made \in Mcp!Servers
    BY <1>2 DEF Mcp!Servers
  <2>2. Mcp!Max({s, x2.made}) \in Mcp!Servers
    BY <2>1, GreaterOfTwo
  <2>3. x2.ids \cup {s} \in SUBSET Mcp!Servers
    BY <1>2
  <2> QED
    BY <1>1, <2>2, <2>3
<1>4. /\ x3' = s /\ x4' = x4
      /\ x6' \in [names : SUBSET Names, sure : BOOLEAN]
      /\ x8' \in {"idle", "asked"}
      /\ x9' \in [pc : {"idle", "asked", "answered"}, names : SUBSET Names, sure : BOOLEAN]
      /\ x12' \subseteq x5'.names
      /\ Mcp!ToolsOfServerShown' /\ Mcp!SureIsGranted'
      /\ Mcp!UnclickedBoxesAreGranted' /\ Mcp!PostsAreSound'
  BY <1>1, <1>2, ShowKeeps
<1>5. Mcp!TypeOK'
  BY <1>1, <1>2, <1>3, <1>4 DEF Mcp!IInv, Mcp!TypeOK
<1>6. Mcp!CallsTyped'
  BY <1>1, <1>4 DEF Mcp!IInv, Mcp!CallsTyped, Mcp!Saving, Mcp!None
<1> QED
  BY <1>4, <1>5, <1>6 DEF Mcp!IInv

\* So does a selection of another server or agent.
LEMMA SelectionKeeps ==
    ASSUME Mcp!IInv, NEW s \in x2.ids, NEW a \in Mcp!Agents, Mcp!Show(s, a, x6),
           UNCHANGED <<x1, x2, x5, x7, x10, x11, x13>>
    PROVE  Mcp!IInv'
<1>1. s \in Mcp!Servers
  BY DEF Mcp!IInv, Mcp!TypeOK
<1>2. /\ x3' = s /\ x4' = a
      /\ x6' \in [names : SUBSET Names, sure : BOOLEAN]
      /\ x8' \in {"idle", "asked"}
      /\ x9' \in [pc : {"idle", "asked", "answered"}, names : SUBSET Names, sure : BOOLEAN]
      /\ x12' \subseteq x5'.names
      /\ Mcp!ToolsOfServerShown' /\ Mcp!SureIsGranted'
      /\ Mcp!UnclickedBoxesAreGranted' /\ Mcp!PostsAreSound'
  BY <1>1, ShowKeeps
<1>3. Mcp!TypeOK'
  BY <1>2 DEF Mcp!IInv, Mcp!TypeOK
<1>4. Mcp!CallsTyped'
  BY <1>2 DEF Mcp!IInv, Mcp!CallsTyped, Mcp!Saving
<1> QED
  BY <1>2, <1>3, <1>4 DEF Mcp!IInv

\* A call that begins.
LEMMA CallKeeps ==
    ASSUME Mcp!IInv,
           NEW pc \in {"creating", "saving", "deleting", "discovering"},
           NEW of \in Mcp!Servers \cup {0}, Mcp!Call(pc, of),
           pc # "creating" => of \in Mcp!Servers,
           pc = "creating" => x2.made < MaxServers,
           pc = "deleting" => x2.ids \ {of} # {}
    PROVE  Mcp!IInv'
<1>1. /\ ~Mcp!Saving /\ x10' = [pc |-> pc, of |-> of]
      /\ UNCHANGED <<x1, x2, x3, x4, x5, x6, x7, x8, x9, x11, x12, x13>>
  BY DEF Mcp!Call, Mcp!Quiet, Mcp!fetches, Mcp!history
<1>2. Mcp!CallsTyped'
  BY <1>1 DEF Mcp!IInv, Mcp!CallsTyped, Mcp!Saving, Mcp!None
<1>3. Mcp!TypeOK'
  BY <1>1 DEF Mcp!IInv, Mcp!TypeOK
<1>4. Mcp!ToolsOfServerShown' /\ Mcp!SureIsGranted' /\ Mcp!UnclickedBoxesAreGranted'
      /\ Mcp!PostsAreSound'
  BY <1>1 DEF Mcp!IInv, Mcp!ToolsOfServerShown, Mcp!SureIsGranted,
              Mcp!UnclickedBoxesAreGranted, Mcp!PostsAreSound, Mcp!Saving, Mcp!Pair
<1> QED
  BY <1>2, <1>3, <1>4 DEF Mcp!IInv

\* The answer to a deletion, for another server and whichever was shown.
LEMMA DeletedKeeps ==
    ASSUME Mcp!IInv, Mcp!Deleted
    PROVE  Mcp!IInv'
<1> DEFINE first == Mcp!Min(x2'.ids)
           Fetch == [pc : {"idle", "asked", "answered"}, names : SUBSET Names, sure : BOOLEAN]
<1>1. /\ x10.pc = "deleting" /\ x10' = Mcp!NoCall
      /\ x5' = Mcp!NoTools /\ x7' = [n \in {} |-> Mcp!Fresh(FALSE)]
      /\ x1' = {g \in x1 : g[2] # x10.of}
      /\ x2' = [x2 EXCEPT !.ids = x2.ids \ {x10.of}]
      /\ x11' = x11
  BY DEF Mcp!Deleted
<1>2. /\ x3' = first /\ x4' = x4
      /\ x8' = IF first = x3 THEN x8 ELSE "asked"
      /\ x9' = IF first = x3 THEN x9 ELSE Mcp!Asked
      /\ x6' = [Mcp!NoAuth EXCEPT !.sure = Mcp!NoAuth.sure /\ first = x3]
      /\ x12' = IF first = x3 THEN x12 \cap x5'.names ELSE {}
  BY DEF Mcp!Deleted, Mcp!Show
<1>3. x13' = (x8' = "idle")
  BY DEF Mcp!Deleted
<1>4. /\ x2 \in [ids : SUBSET Mcp!Servers, made : Mcp!Servers]
      /\ x1 \subseteq Mcp!Agents \X Mcp!Servers \X Names
      /\ x4 \in Mcp!Agents
      /\ x8 \in {"idle", "asked"} /\ x9 \in Fetch
      /\ x2.ids \ {x10.of} # {}
      /\ x11 \in [pair : (Mcp!Agents \cup {0}) \X (Mcp!Servers \cup {0}),
                  left : SUBSET Names, ticked : SUBSET Names, failed : BOOLEAN]
  BY <1>1 DEF Mcp!IInv, Mcp!TypeOK, Mcp!CallsTyped, Mcp!None
<1>5. ~Mcp!Saving
  BY <1>1 DEF Mcp!IInv, Mcp!CallsTyped, Mcp!NoCall
<1>6. /\ x2' \in [ids : SUBSET Mcp!Servers, made : Mcp!Servers]
      /\ x2'.ids = x2.ids \ {x10.of}
  BY <1>1, <1>4
<1>7. first \in x2'.ids
  <2>1. x2'.ids \in SUBSET Nat /\ x2'.ids # {}
    BY <1>4, <1>6 DEF Mcp!Servers
  <2> QED
    BY <2>1, LeastChosen DEF Mcp!Min
<1>8. first # x10.of
  BY <1>6, <1>7
<1>9. /\ x6' \in [names : SUBSET Names, sure : BOOLEAN]
      /\ ~x6'.sure
  BY <1>2 DEF Mcp!NoAuth
<1>10. Mcp!Asked \in Fetch /\ ~Mcp!Asked.sure
  BY DEF Mcp!Asked
<1>11. x8' \in {"idle", "asked"} /\ x9' \in Fetch
  BY <1>2, <1>4, <1>10
<1>12. x13' \in BOOLEAN
  <2>1. (x8' = "idle") \in BOOLEAN
    OBVIOUS
  <2> QED
    BY <1>3, <2>1, Zenon
<1>13. x5' = [of |-> 0, names |-> {}] /\ x12' = {}
  BY <1>1, <1>2 DEF Mcp!NoTools, Mcp!None
<1>14. x7' \in [x5'.names -> [tick : BOOLEAN, clicked : BOOLEAN]]
  BY <1>1, <1>13
<1>15. Mcp!TypeOK'
  <2>1. x1' \subseteq Mcp!Agents \X Mcp!Servers \X Names
    BY <1>1, <1>4
  <2> QED
    BY <1>1, <1>2, <1>4, <1>6, <1>7, <1>9, <1>11, <1>12, <1>13, <1>14, <2>1
       DEF Mcp!TypeOK, Mcp!NoCall, Mcp!None
<1>16. Mcp!CallsTyped'
  BY <1>1, <1>4, <1>5, <1>9, <1>11, <1>13 DEF Mcp!CallsTyped, Mcp!Saving, Mcp!NoCall, Mcp!None
<1>17. Mcp!ToolsOfServerShown'
  BY <1>3 DEF Mcp!ToolsOfServerShown
<1>18. Mcp!SureIsGranted'
  <2>1. ASSUME x9'.sure
        PROVE  ~Mcp!Saving' /\ x9'.pc = "answered"
               /\ x9'.names = {n \in Names : <<x4', x3', n>> \in x1'}
    <3>1. first = x3 /\ x9' = x9
      BY <1>2, <1>10, <2>1
    <3>2. x9.pc = "answered" /\ x9.names = {n \in Names : <<x4, x3, n>> \in x1}
      BY <2>1, <3>1 DEF Mcp!IInv, Mcp!SureIsGranted
    <3>3. \A n \in Names : <<x4, x3, n>> \in x1' <=> <<x4, x3, n>> \in x1
      BY <1>1, <1>8, <3>1
    <3> QED
      BY <1>1, <1>2, <1>5, <3>1, <3>2, <3>3 DEF Mcp!Saving
  <2> QED
    BY <1>9, <2>1 DEF Mcp!SureIsGranted
<1>19. Mcp!UnclickedBoxesAreGranted' /\ Mcp!PostsAreSound'
  BY <1>13 DEF Mcp!UnclickedBoxesAreGranted, Mcp!PostsAreSound
<1> QED
  BY <1>15, <1>16, <1>17, <1>18, <1>19 DEF Mcp!IInv

\* Each POST of a save grants what its boxes show, or nothing.
LEMMA PostKeeps ==
    ASSUME Mcp!IInv, NEW n \in Names, Mcp!Post(n)
    PROVE  Mcp!IInv'
<1> DEFINE grant == <<x11.pair[1], x11.pair[2], n>>
<1>1. /\ n \in x11.left
      /\ \/ x1' = IF n \in x11.ticked THEN x1 \cup {grant} ELSE x1 \ {grant}
         \/ x1' = x1
      /\ \/ x11' = [x11 EXCEPT !.left = x11.left \ {n}]
         \/ x11' = [x11 EXCEPT !.left = x11.left \ {n}, !.failed = TRUE]
      /\ UNCHANGED <<x2, x3, x4, x5, x6, x7, x8, x9, x10, x12, x13>>
  BY DEF Mcp!Post, Mcp!fetches, Mcp!history
<1>2. /\ x11 \in [pair : (Mcp!Agents \cup {0}) \X (Mcp!Servers \cup {0}),
                  left : SUBSET Names, ticked : SUBSET Names, failed : BOOLEAN]
      /\ x1 \subseteq Mcp!Agents \X Mcp!Servers \X Names
  BY DEF Mcp!IInv, Mcp!TypeOK, Mcp!CallsTyped, Mcp!None
<1>3. Mcp!Saving
  BY <1>1 DEF Mcp!Saving, Mcp!NoSave
<1>4. /\ x11.pair \in Mcp!Agents \X Mcp!Servers
      /\ x10 = Mcp!NoCall
      /\ ~x6.sure /\ ~x9.sure
  BY <1>3 DEF Mcp!IInv, Mcp!CallsTyped, Mcp!SureIsGranted
<1>5. /\ x11' \in [pair : (Mcp!Agents \cup {0}) \X (Mcp!Servers \cup {0}),
                   left : SUBSET Names, ticked : SUBSET Names, failed : BOOLEAN]
      /\ x11'.pair = x11.pair /\ x11'.ticked = x11.ticked
      /\ x11'.left = x11.left \ {n}
  BY <1>1, <1>2
<1>6. x1' \subseteq Mcp!Agents \X Mcp!Servers \X Names
  <2>1. grant \in Mcp!Agents \X Mcp!Servers \X Names
    BY <1>4
  <2> QED
    BY <1>1, <1>2, <2>1
<1>7. Mcp!TypeOK'
  BY <1>1, <1>2, <1>5, <1>6 DEF Mcp!IInv, Mcp!TypeOK
<1>8. Mcp!CallsTyped'
  BY <1>1, <1>3, <1>4, <1>5 DEF Mcp!IInv, Mcp!CallsTyped, Mcp!None, Mcp!Saving
<1>9. Mcp!ToolsOfServerShown' /\ Mcp!SureIsGranted'
  BY <1>1, <1>4 DEF Mcp!IInv, Mcp!ToolsOfServerShown, Mcp!SureIsGranted
<1>10. ASSUME NEW k \in x12, ~x7[k].clicked
       PROVE  /\ x11.pair = <<x4, x3>>
              /\ k \in x11.left => (k \in x11.ticked <=> x7[k].tick)
              /\ x7[k].tick = (<<x4, x3, k>> \in x1)
              /\ x7[k].tick \in BOOLEAN
  BY <1>3, <1>10 DEF Mcp!IInv, Mcp!PostsAreSound, Mcp!Pair, Mcp!UnclickedBoxesAreGranted,
                     Mcp!TypeOK
<1>11. Mcp!PostsAreSound'
  BY <1>1, <1>5, <1>10 DEF Mcp!PostsAreSound, Mcp!Pair
<1>12. ASSUME NEW k \in x12, ~x7[k].clicked
       PROVE  x7[k].tick = (<<x4, x3, k>> \in x1')
  <2>1. CASE k = n
    <3>1. /\ x11.pair = <<x4, x3>>
          /\ k \in x11.ticked <=> x7[k].tick
          /\ x7[k].tick \in BOOLEAN
      BY <1>1, <1>10, <1>12, <2>1
    <3>2. grant = <<x4, x3, k>>
      BY <2>1, <3>1
    <3>3. x7[k].tick <=> <<x4, x3, k>> \in x1'
      <4>1. CASE x1' = IF n \in x11.ticked THEN x1 \cup {grant} ELSE x1 \ {grant}
        BY <2>1, <3>1, <3>2, <4>1
      <4>2. CASE x1' = x1
        BY <1>10, <1>12, <4>2
      <4> QED
        BY <1>1, <4>1, <4>2
    <3> QED
      BY <3>1, <3>3
  <2>2. CASE k # n
    <3>1. <<x4, x3, k>> # grant
      BY <2>2
    <3>2. (<<x4, x3, k>> \in x1') = (<<x4, x3, k>> \in x1)
      BY <1>1, <3>1
    <3> QED
      BY <1>10, <1>12, <3>2
  <2> QED
    BY <2>1, <2>2
<1>13. Mcp!UnclickedBoxesAreGranted'
  BY <1>1, <1>12 DEF Mcp!UnclickedBoxesAreGranted
<1> QED
  BY <1>7, <1>8, <1>9, <1>11, <1>13 DEF Mcp!IInv

LEMMA McpStep ==
    ASSUME Mcp!McpAssumption, Mcp!IInv, Mcp!Next
    PROVE  Mcp!IInv'
<1> DEFINE Fetch == [pc : {"idle", "asked", "answered"}, names : SUBSET Names, sure : BOOLEAN]
           Auth  == [names : SUBSET Names, sure : BOOLEAN]
<1> USE DEF Mcp!fetches, Mcp!history, Mcp!None
<1>1. ASSUME NEW s \in Mcp!Servers, Mcp!SelectServer(s)
      PROVE  Mcp!IInv'
  <2>1. x4 \in Mcp!Agents
    BY DEF Mcp!IInv, Mcp!TypeOK
  <2> QED
    BY <1>1, <2>1, SelectionKeeps DEF Mcp!SelectServer
<1>2. ASSUME NEW a \in Mcp!Agents, Mcp!SelectAgent(a)
      PROVE  Mcp!IInv'
  <2>1. x3 \in x2.ids
    BY DEF Mcp!IInv, Mcp!TypeOK
  <2> QED
    BY <1>2, <2>1, SelectionKeeps DEF Mcp!SelectAgent
<1>3. CASE Mcp!AssistantSelectsAgent
  <2>1. x3 \in x2.ids /\ 1 \in Mcp!Agents
    BY DEF Mcp!IInv, Mcp!TypeOK, Mcp!Agents, Mcp!McpAssumption
  <2> QED
    BY <1>3, <2>1, SelectionKeeps DEF Mcp!AssistantSelectsAgent
<1>4. ASSUME NEW n \in Names, Mcp!Click(n)
      PROVE  Mcp!IInv'
  <2>1. /\ n \in x5.names
        /\ x7' = [x7 EXCEPT ![n] = [tick |-> ~x7[n].tick, clicked |-> TRUE]]
        /\ UNCHANGED <<x1, x2, x3, x4, x5, x6, x8, x9, x10, x11, x12, x13>>
    BY <1>4 DEF Mcp!Click
  <2>2. x7 \in [x5.names -> [tick : BOOLEAN, clicked : BOOLEAN]] /\ x12 \subseteq x5.names
    BY DEF Mcp!IInv, Mcp!TypeOK
  <2>3. x7' \in [x5'.names -> [tick : BOOLEAN, clicked : BOOLEAN]]
    BY <2>1, <2>2
  <2>4. \A k \in x12 : ~x7'[k].clicked => x7'[k] = x7[k]
    BY <2>1, <2>2
  <2>5. Mcp!TypeOK' /\ Mcp!CallsTyped' /\ Mcp!ToolsOfServerShown' /\ Mcp!SureIsGranted'
    BY <2>1, <2>3 DEF Mcp!IInv, Mcp!TypeOK, Mcp!CallsTyped, Mcp!ToolsOfServerShown,
                      Mcp!SureIsGranted, Mcp!Saving
  <2>6. Mcp!UnclickedBoxesAreGranted' /\ Mcp!PostsAreSound'
    BY <2>1, <2>4 DEF Mcp!IInv, Mcp!UnclickedBoxesAreGranted, Mcp!PostsAreSound, Mcp!Saving,
                      Mcp!Pair
  <2> QED
    BY <2>5, <2>6 DEF Mcp!IInv
<1>5. ASSUME NEW n \in Names, Mcp!Post(n)
      PROVE  Mcp!IInv'
  BY <1>5, PostKeeps
<1>6. CASE Mcp!ToolsArrive
  <2>1. PICK names \in {Names, {}} : Mcp!Mount(x3, names) /\ x12' = Mcp!Sound(x3, names)
    BY <1>6 DEF Mcp!ToolsArrive
  <2>2. x8' = "idle" /\ x13' = FALSE /\ UNCHANGED <<x1, x2, x3, x4, x6, x9, x10, x11>>
    BY <1>6 DEF Mcp!ToolsArrive
  <2>3. x3 \in Mcp!Servers /\ names \in SUBSET Names
    BY <2>1 DEF Mcp!IInv, Mcp!TypeOK
  <2>4. /\ x5' \in [of : Mcp!Servers \cup {0}, names : SUBSET Names]
        /\ x7' \in [x5'.names -> [tick : BOOLEAN, clicked : BOOLEAN]]
        /\ x12' \subseteq x5'.names /\ x5'.of = x3
        /\ Mcp!UnclickedBoxesAreGranted' /\ Mcp!PostsAreSound'
    BY <2>1, <2>2, <2>3, MountKeeps
  <2>5. Mcp!TypeOK' /\ Mcp!CallsTyped'
    BY <2>2, <2>4 DEF Mcp!IInv, Mcp!TypeOK, Mcp!CallsTyped, Mcp!Saving
  <2>6. Mcp!ToolsOfServerShown' /\ Mcp!SureIsGranted'
    BY <2>2, <2>4 DEF Mcp!IInv, Mcp!ToolsOfServerShown, Mcp!SureIsGranted, Mcp!Saving
  <2> QED
    BY <2>4, <2>5, <2>6 DEF Mcp!IInv
<1>7. CASE Mcp!AuthorizationsAnswered
  <2>1. /\ x9' = [pc |-> "answered", names |-> {n \in Names : <<x4, x3, n>> \in x1},
                  sure |-> ~Mcp!Saving]
        /\ UNCHANGED <<x1, x2, x3, x4, x5, x6, x7, x8, x10, x11, x12, x13>>
    BY <1>7 DEF Mcp!AuthorizationsAnswered
  <2>2. /\ x9' \in Fetch /\ x9'.pc = "answered"
        /\ x9'.names = {n \in Names : <<x4, x3, n>> \in x1}
        /\ x9'.sure => ~Mcp!Saving
    BY <2>1
  <2>3. Mcp!TypeOK' /\ Mcp!CallsTyped'
    BY <2>1, <2>2 DEF Mcp!IInv, Mcp!TypeOK, Mcp!CallsTyped, Mcp!Saving
  <2>4. Mcp!SureIsGranted'
    BY <2>1, <2>2 DEF Mcp!IInv, Mcp!SureIsGranted, Mcp!Saving
  <2>5. Mcp!ToolsOfServerShown' /\ Mcp!UnclickedBoxesAreGranted' /\ Mcp!PostsAreSound'
    BY <2>1 DEF Mcp!IInv, Mcp!ToolsOfServerShown, Mcp!UnclickedBoxesAreGranted,
                Mcp!PostsAreSound, Mcp!Saving, Mcp!Pair
  <2> QED
    BY <2>3, <2>4, <2>5 DEF Mcp!IInv
<1>8. CASE Mcp!AuthorizationsArrive
  <2>1. /\ x9.pc = "answered" /\ x9' = Mcp!Idle
        /\ \/ x6' = [names |-> x9.names, sure |-> x9.sure]
           \/ x6' = Mcp!NoAuth
        /\ UNCHANGED <<x1, x2, x3, x4, x5, x7, x8, x10, x11, x12, x13>>
    BY <1>8 DEF Mcp!AuthorizationsArrive
  <2>2. x9 \in Fetch
    BY DEF Mcp!IInv, Mcp!CallsTyped
  <2>3. x9' \in Fetch /\ ~x9'.sure
    BY <2>1 DEF Mcp!Idle
  <2>4. x6' \in Auth /\ (x6'.sure => x9.sure /\ x6'.names = x9.names)
    <3>1. CASE x6' = [names |-> x9.names, sure |-> x9.sure]
      BY <2>2, <3>1
    <3>2. CASE x6' = Mcp!NoAuth
      BY <3>2 DEF Mcp!NoAuth
    <3> QED
      BY <2>1, <3>1, <3>2
  <2>5. Mcp!TypeOK' /\ Mcp!CallsTyped'
    BY <2>1, <2>3, <2>4 DEF Mcp!IInv, Mcp!TypeOK, Mcp!CallsTyped, Mcp!Saving
  <2>6. Mcp!SureIsGranted'
    BY <2>1, <2>3, <2>4 DEF Mcp!IInv, Mcp!SureIsGranted, Mcp!Saving
  <2>7. Mcp!ToolsOfServerShown' /\ Mcp!UnclickedBoxesAreGranted' /\ Mcp!PostsAreSound'
    BY <2>1 DEF Mcp!IInv, Mcp!ToolsOfServerShown, Mcp!UnclickedBoxesAreGranted,
                Mcp!PostsAreSound, Mcp!Saving, Mcp!Pair
  <2> QED
    BY <2>5, <2>6, <2>7 DEF Mcp!IInv
<1>9. CASE Mcp!CreateMcpServer
  BY <1>9, CallKeeps DEF Mcp!CreateMcpServer
<1>10. x3 \in Mcp!Servers
  BY DEF Mcp!IInv, Mcp!TypeOK
<1>11. CASE Mcp!UpdateSelectedMcpServer
  BY <1>10, <1>11, CallKeeps DEF Mcp!UpdateSelectedMcpServer
<1>12. CASE Mcp!DeleteSelectedMcpServer
  <2>1. x2.ids \ {x3} # {}
    BY <1>12, AnotherIsLeft DEF Mcp!DeleteSelectedMcpServer
  <2> QED
    BY <1>10, <1>12, <2>1, CallKeeps DEF Mcp!DeleteSelectedMcpServer
<1>13. CASE Mcp!Discover
  BY <1>10, <1>13, CallKeeps DEF Mcp!Discover
<1>14. CASE Mcp!Created
  <2>1. x10.pc = "creating" /\ x10' = Mcp!NoCall /\ Mcp!UpsertServer(x2.made + 1)
    BY <1>14 DEF Mcp!Created
  <2>2. ~Mcp!Saving /\ x2.made < MaxServers /\ x2.made \in Mcp!Servers
    BY <2>1 DEF Mcp!IInv, Mcp!TypeOK, Mcp!CallsTyped, Mcp!NoCall
  <2>3. x2.made + 1 \in Mcp!Servers
    BY <2>2 DEF Mcp!Servers, Mcp!McpAssumption
  <2>4. x10' \in [pc : {"idle", "saving", "discovering", "reading"},
                  of : Mcp!Servers \cup {0}] /\ x10'.pc = "idle"
    BY <2>1 DEF Mcp!NoCall
  <2> QED
    BY <2>1, <2>2, <2>3, <2>4, UpsertKeeps
<1>15. CASE Mcp!Updated
  <2>1. /\ x10.pc \in {"saving", "discovering"}
        /\ x10' = IF x10.pc = "saving" THEN Mcp!NoCall ELSE [x10 EXCEPT !.pc = "reading"]
        /\ Mcp!UpsertServer(x10.of)
    BY <1>15 DEF Mcp!Updated
  <2>2. /\ x10 \in [pc : {"idle", "creating", "saving", "deleting", "discovering", "reading"},
                    of : Mcp!Servers \cup {0}]
        /\ x10.of \in Mcp!Servers /\ ~Mcp!Saving
    BY <2>1 DEF Mcp!IInv, Mcp!CallsTyped, Mcp!NoCall
  <2>3. /\ x10' \in [pc : {"idle", "saving", "discovering", "reading"},
                     of : Mcp!Servers \cup {0}]
        /\ x10'.pc # "idle" => x10'.of \in Mcp!Servers
    BY <2>1, <2>2 DEF Mcp!NoCall
  <2> QED
    BY <2>1, <2>2, <2>3, UpsertKeeps
<1>16. CASE Mcp!DiscoveryArrives
  <2>1. /\ x10.pc = "reading" /\ x10' = Mcp!NoCall
        /\ Mcp!Mount(x10.of, Names) /\ x12' = Mcp!Sound(x10.of, Names)
        /\ UNCHANGED <<x1, x2, x3, x4, x6, x8, x9, x11>>
    BY <1>16 DEF Mcp!DiscoveryArrives
  <2>2. x13' = (x10.of # x3)
    BY <1>16 DEF Mcp!DiscoveryArrives
  <2>3. x10.of \in Mcp!Servers /\ ~Mcp!Saving
    BY <2>1 DEF Mcp!IInv, Mcp!CallsTyped, Mcp!NoCall
  <2>4. /\ x5' \in [of : Mcp!Servers \cup {0}, names : SUBSET Names]
        /\ x7' \in [x5'.names -> [tick : BOOLEAN, clicked : BOOLEAN]]
        /\ x12' \subseteq x5'.names /\ x5'.of = x10.of
        /\ Mcp!UnclickedBoxesAreGranted' /\ Mcp!PostsAreSound'
    BY <2>1, <2>3, MountKeeps
  <2>5. x13' \in BOOLEAN
    <3>1. (x10.of # x3) \in BOOLEAN
      OBVIOUS
    <3> QED
      BY <2>2, <3>1, Zenon
  <2>6. Mcp!TypeOK'
    BY <2>1, <2>4, <2>5 DEF Mcp!IInv, Mcp!TypeOK, Mcp!NoCall
  <2>7. Mcp!CallsTyped'
    BY <2>1, <2>3, <2>4 DEF Mcp!IInv, Mcp!CallsTyped, Mcp!Saving, Mcp!NoCall
  <2>8. Mcp!ToolsOfServerShown'
    BY <2>1, <2>2, <2>4 DEF Mcp!ToolsOfServerShown
  <2>9. Mcp!SureIsGranted'
    BY <2>1 DEF Mcp!IInv, Mcp!SureIsGranted, Mcp!Saving
  <2> QED
    BY <2>4, <2>6, <2>7, <2>8, <2>9 DEF Mcp!IInv
<1>17. CASE Mcp!Deleted
  BY <1>17, DeletedKeeps
<1>18. CASE Mcp!CallFails
  <2>1. x10' = Mcp!NoCall /\ UNCHANGED <<x1, x2, x3, x4, x5, x6, x7, x8, x9, x11, x12, x13>>
    BY <1>18 DEF Mcp!CallFails
  <2>2. Mcp!TypeOK' /\ Mcp!CallsTyped'
    BY <2>1 DEF Mcp!IInv, Mcp!TypeOK, Mcp!CallsTyped, Mcp!NoCall, Mcp!Saving
  <2>3. Mcp!ToolsOfServerShown' /\ Mcp!SureIsGranted' /\ Mcp!UnclickedBoxesAreGranted'
        /\ Mcp!PostsAreSound'
    BY <2>1 DEF Mcp!IInv, Mcp!ToolsOfServerShown, Mcp!SureIsGranted,
                Mcp!UnclickedBoxesAreGranted, Mcp!PostsAreSound, Mcp!Saving, Mcp!Pair
  <2> QED
    BY <2>2, <2>3 DEF Mcp!IInv
<1>19. CASE Mcp!SaveToolAuthorization
  <2>1. /\ ~Mcp!Saving /\ x10 = Mcp!NoCall
        /\ x11' = [pair |-> <<x4, x3>>, left |-> x5.names, failed |-> FALSE,
                   ticked |-> {n \in x5.names : x7[n].tick}]
        /\ x6' = [x6 EXCEPT !.sure = FALSE] /\ x9' = [x9 EXCEPT !.sure = FALSE]
        /\ UNCHANGED <<x1, x2, x3, x4, x5, x7, x8, x10, x12, x13>>
    BY <1>19 DEF Mcp!SaveToolAuthorization, Mcp!Quiet, Mcp!Pair
  <2>2. x3 \in Mcp!Servers /\ x4 \in Mcp!Agents /\ x5.names \subseteq Names
        /\ x6 \in Auth /\ x9 \in Fetch
    BY DEF Mcp!IInv, Mcp!TypeOK, Mcp!CallsTyped
  <2>3. /\ x11' \in [pair : (Mcp!Agents \cup {0}) \X (Mcp!Servers \cup {0}),
                     left : SUBSET Names, ticked : SUBSET Names, failed : BOOLEAN]
        /\ x11'.pair = <<x4, x3>> /\ x11'.left = x5.names
        /\ x11'.ticked = {n \in x5.names : x7[n].tick}
    BY <2>1, <2>2
  <2>4. x6' \in Auth /\ ~x6'.sure /\ x9' \in Fetch /\ ~x9'.sure /\ x9'.pc = x9.pc
    BY <2>1, <2>2
  <2>5. Mcp!TypeOK' /\ Mcp!CallsTyped'
    BY <2>1, <2>2, <2>3, <2>4 DEF Mcp!IInv, Mcp!TypeOK, Mcp!CallsTyped
  <2>6. Mcp!SureIsGranted' /\ Mcp!ToolsOfServerShown' /\ Mcp!UnclickedBoxesAreGranted'
    BY <2>1, <2>4 DEF Mcp!IInv, Mcp!SureIsGranted, Mcp!ToolsOfServerShown,
                      Mcp!UnclickedBoxesAreGranted
  <2>7. Mcp!PostsAreSound'
    BY <2>1, <2>3 DEF Mcp!PostsAreSound, Mcp!Pair
  <2> QED
    BY <2>5, <2>6, <2>7 DEF Mcp!IInv
<1>20. CASE Mcp!SaveArrives
  <2>1. /\ Mcp!Saving
        /\ x6' = IF x11.failed THEN x6 ELSE [names |-> x11.ticked, sure |-> FALSE]
        /\ x11' = Mcp!NoSave
        /\ UNCHANGED <<x1, x2, x3, x4, x5, x7, x8, x9, x10, x12, x13>>
    BY <1>20 DEF Mcp!SaveArrives
  <2>2. /\ x6 \in Auth /\ ~x6.sure /\ ~x9.sure /\ x11.ticked \subseteq Names
        /\ x10 = Mcp!NoCall
    BY <2>1 DEF Mcp!IInv, Mcp!TypeOK, Mcp!CallsTyped, Mcp!SureIsGranted
  <2>3. x6' \in Auth /\ ~x6'.sure
    BY <2>1, <2>2
  <2>4. x11' \in [pair : (Mcp!Agents \cup {0}) \X (Mcp!Servers \cup {0}),
                  left : SUBSET Names, ticked : SUBSET Names, failed : BOOLEAN]
        /\ ~Mcp!Saving' /\ x11'.left = {} /\ x11'.ticked = {}
    BY <2>1 DEF Mcp!NoSave, Mcp!Saving
  <2>5. Mcp!TypeOK' /\ Mcp!CallsTyped'
    BY <2>1, <2>3, <2>4 DEF Mcp!IInv, Mcp!TypeOK, Mcp!CallsTyped
  <2>6. Mcp!SureIsGranted' /\ Mcp!ToolsOfServerShown' /\ Mcp!UnclickedBoxesAreGranted'
    BY <2>1, <2>2, <2>3 DEF Mcp!IInv, Mcp!SureIsGranted, Mcp!ToolsOfServerShown,
                            Mcp!UnclickedBoxesAreGranted
  <2>7. Mcp!PostsAreSound'
    BY <2>4 DEF Mcp!PostsAreSound
  <2> QED
    BY <2>5, <2>6, <2>7 DEF Mcp!IInv
<1> QED
  BY <1>1, <1>2, <1>3, <1>4, <1>5, <1>6, <1>7, <1>8, <1>9, <1>11, <1>12, <1>13, <1>14, <1>15,
     <1>16, <1>17, <1>18, <1>19, <1>20 DEF Mcp!Next

-----------------------------------------------------------------------------
(* SettingsForm: what a save builds, and builds again *)

\* A field filled from what it was read into is read alike.
LEMMA FieldReadAgain ==
    ASSUME Form!FormAssumption, NEW k \in Form!Keys, NEW entry \in Form!Entries(k)
    PROVE  Form!ReadField(k, Form!NativeField(k, Form!ReadField(k, entry)))
             = Form!ReadField(k, entry)
<1> USE DEF Form!FormAssumption, Form!NumericKeys, Form!TextKeys, Form!SdkChoices,
            Form!Choices, Form!SdkFlags, Form!Flags, Form!Tools, Form!Keys
<1>1. CASE k \in Form!NumericKeys
  <2>1. Form!ReadField(k, entry) \in Numbers \cup {Absent}
    BY <1>1 DEF Form!ReadField
  <2>2. \A v \in Numbers \cup {Absent} : Form!NativeField(k, v) = IF v = Absent THEN Blank ELSE v
    BY <1>1 DEF Form!NativeField, Form!ModelField
  <2> QED
    BY <1>1, <2>1, <2>2 DEF Form!ReadField
<1>2. CASE k \in Form!TextKeys
  <2>1. Form!ReadField(k, entry) \in Words \cup {Absent}
    BY <1>2 DEF Form!ReadField, Form!Entries
  <2>2. \A v \in Words \cup {Absent} : Form!NativeField(k, v) = IF v = Absent THEN Blank ELSE v
    BY <1>2 DEF Form!NativeField, Form!ModelField
  <2> QED
    BY <1>2, <2>1, <2>2 DEF Form!ReadField
<1>3. CASE k \in Form!SdkChoices
  <2>1. Form!ReadField(k, entry) \in Words \cup {Absent}
    BY <1>3 DEF Form!ReadField, Form!Entries
  <2>2. \A v \in Words \cup {Absent} : Form!NativeField(k, v) = IF v = Absent THEN Default ELSE v
    BY <1>3 DEF Form!NativeField, Form!ModelField
  <2> QED
    BY <1>3, <2>1, <2>2 DEF Form!ReadField
<1>4. CASE k \in Form!Choices
  <2>1. entry # Absent
    BY <1>4 DEF Form!Entries, Form!Values
  <2>2. Form!ReadField(k, entry) = entry /\ Form!NativeField(k, entry) = entry
    BY <1>4, <2>1 DEF Form!ReadField, Form!NativeField
  <2> QED
    BY <2>2
<1>5. CASE k \in Form!SdkFlags
  <2>1. Form!ReadField(k, TRUE) = TRUE /\ Form!ReadField(k, FALSE) = Absent
    BY <1>5 DEF Form!ReadField
  <2>2. Form!NativeField(k, TRUE) = TRUE /\ Form!NativeField(k, Absent) = FALSE
    BY <1>5 DEF Form!NativeField, Form!ModelField
  <2>3. entry = TRUE \/ entry = FALSE
    BY <1>5 DEF Form!Entries
  <2> QED
    BY <2>1, <2>2, <2>3
<1>6. CASE k \in Form!Flags \cup Form!Tools
  <2>1. entry \in BOOLEAN
    BY <1>6 DEF Form!Entries
  <2>2. Form!ReadField(k, entry) = entry /\ Form!NativeField(k, entry) = entry
    BY <1>6, <2>1 DEF Form!ReadField, Form!NativeField
  <2> QED
    BY <2>2
<1> QED
  BY <1>1, <1>2, <1>3, <1>4, <1>5, <1>6

\* The settings of a save and the fields they fill, key by key.
LEMMA FieldsOfModel ==
    ASSUME NEW k \in Form!Cards["model"], NEW v
    PROVE  Form!ModelField(k, v) = Form!NativeField(k, v)
BY DEF Form!Cards, Form!NativeField, Form!Tools, Form!Flags

LEMMA BuiltKeyByKey ==
    ASSUME NEW f, NEW k \in Form!Keys
    PROVE  /\ Form!Build(f)[k] = IF k \in Form!Cards["model"] \/ Form!Kept(k, f)
                                 THEN Form!ReadField(k, f[k]) ELSE Absent
           /\ Form!Fields(Form!Build(f))[k] = Form!NativeField(k, Form!Build(f)[k])
<1>1. CASE k \in Form!Cards["model"]
  BY <1>1, FieldsOfModel DEF Form!Build, Form!BuildModelSettings, Form!Fields
<1>2. CASE k \notin Form!Cards["model"]
  BY <1>2 DEF Form!Build, Form!BuildNativeToolSettings, Form!Fields
<1> QED
  BY <1>1, <1>2

\* What the keys of each card need.
LEMMA KeptOf ==
    ASSUME NEW k, NEW h
    PROVE  /\ k \in {"image", "timeout", "use_ssh_client"} =>
                Form!Kept(k, h) = (h["runtime"] = Docker)
           /\ k \in Form!Cards["web"] => Form!Kept(k, h) = h["web_search"]
           /\ k \in Form!Cards["file"] =>
                Form!Kept(k, h) = (h["file_search"] /\ h["vector_store_ids"] # Blank)
           /\ k \in {"mcp", "defer_loading"} => Form!Kept(k, h) = h["mcp"]
           /\ k \in {"tool_search", "description"} =>
                Form!Kept(k, h) = (h["mcp"] /\ h["tool_search"])
           /\ k \in Form!Cards["code"] =>
                Form!Kept(k, h) = (h["code_interpreter"] /\ h["container"] # Blank)
<1> USE DEF Form!Cards
<1>1. CASE k \in {"image", "timeout", "use_ssh_client"}
  BY <1>1 DEF Form!Kept
<1>2. CASE k \in Form!Cards["web"]
  BY <1>2 DEF Form!Kept
<1>3. CASE k \in Form!Cards["file"]
  BY <1>3 DEF Form!Kept
<1>4. CASE k \in {"mcp", "defer_loading"}
  BY <1>4 DEF Form!Kept
<1>5. CASE k \in {"tool_search", "description"}
  BY <1>5 DEF Form!Kept
<1>6. CASE k \in Form!Cards["code"]
  BY <1>6 DEF Form!Kept
<1> QED
  BY <1>1, <1>2, <1>3, <1>4, <1>5, <1>6

\* A card that was kept is kept again, and one that was dropped is dropped again.
LEMMA KeptAgain ==
    ASSUME Form!FormAssumption, NEW f, \A k \in Form!Keys : f[k] \in Form!Entries(k),
           NEW k \in Form!Keys \ Form!Cards["model"]
    PROVE  Form!Kept(k, Form!Fields(Form!Build(f))) <=> Form!Kept(k, f)
<1> DEFINE g == Form!Fields(Form!Build(f))
<1> USE DEF Form!FormAssumption, Form!Keys, Form!NumericKeys, Form!TextKeys,
            Form!SdkChoices, Form!Choices, Form!SdkFlags, Form!Flags, Form!Tools, Form!Cards
\* What fills a tool's box, a select and a text field.
<1>1. ASSUME NEW t \in Form!Tools
      PROVE  g[t] <=> f[t] /\ Form!Kept(t, f)
  <2>1. /\ t \notin Form!Cards["model"] /\ t \in Form!Keys
        /\ f[t] \in BOOLEAN
    BY DEF Form!Entries
  <2>2. g[t] = Form!NativeField(t, IF Form!Kept(t, f) THEN Form!ReadField(t, f[t]) ELSE Absent)
    BY <2>1, BuiltKeyByKey
  <2>3. Form!ReadField(t, f[t]) = f[t]
    BY DEF Form!ReadField
  <2>4. /\ Form!NativeField(t, TRUE) = TRUE /\ Form!NativeField(t, FALSE) = FALSE
        /\ Form!NativeField(t, Absent) = FALSE
    BY DEF Form!NativeField
  <2>5. f[t] = TRUE \/ f[t] = FALSE
    BY <2>1
  <2> HIDE DEF g
  <2> QED
    BY <2>2, <2>3, <2>4, <2>5
<1>2. g["runtime"] = f["runtime"]
  <2>1. Form!Kept("runtime", f) /\ f["runtime"] # Absent
    BY DEF Form!Kept, Form!Entries, Form!Values
  <2>2. g["runtime"] = Form!NativeField("runtime", Form!ReadField("runtime", f["runtime"]))
    BY <2>1, BuiltKeyByKey
  <2> QED
    BY <2>1, <2>2 DEF Form!NativeField, Form!ReadField
<1>3. ASSUME NEW t \in {"vector_store_ids", "container"}, Form!Kept(t, f), f[t] # Blank
      PROVE  g[t] = f[t]
  <2>1. t \notin Form!Cards["model"] /\ t \in Form!Keys /\ f[t] \in Words
    BY <1>3 DEF Form!Entries
  <2>2. g[t] = Form!NativeField(t, Form!ReadField(t, f[t]))
    BY <1>3, <2>1, BuiltKeyByKey
  <2> QED
    BY <1>3, <2>1, <2>2 DEF Form!NativeField, Form!ModelField, Form!ReadField
<1> HIDE DEF g
<1>4. CASE k \in {"image", "timeout", "use_ssh_client"}
  BY <1>2, <1>4, KeptOf DEF g
<1>5. CASE k \in Form!Cards["web"]
  <2>1. g["web_search"] <=> f["web_search"]
    BY <1>1 DEF Form!Kept
  <2> QED
    BY <1>5, <2>1, KeptOf DEF g
<1>6. CASE k \in Form!Cards["file"]
  <2>1. g["file_search"] <=> f["file_search"] /\ f["vector_store_ids"] # Blank
    BY <1>1 DEF Form!Kept
  <2>2. f["file_search"] /\ f["vector_store_ids"] # Blank
          => g["vector_store_ids"] = f["vector_store_ids"]
    BY <1>3 DEF Form!Kept
  <2> QED
    BY <1>6, <2>1, <2>2, KeptOf DEF g
<1>7. CASE k \in {"mcp", "defer_loading", "tool_search", "description"}
  <2>1. /\ g["mcp"] <=> f["mcp"]
        /\ g["tool_search"] <=> f["mcp"] /\ f["tool_search"]
    BY <1>1 DEF Form!Kept
  <2> QED
    BY <1>7, <2>1, KeptOf DEF g
<1>8. CASE k \in Form!Cards["code"]
  <2>1. g["code_interpreter"] <=> f["code_interpreter"] /\ f["container"] # Blank
    BY <1>1 DEF Form!Kept
  <2>2. f["code_interpreter"] /\ f["container"] # Blank => g["container"] = f["container"]
    BY <1>3 DEF Form!Kept
  <2> QED
    BY <1>8, <2>1, <2>2, KeptOf DEF g
<1>9. CASE k \in {"profile", "runtime"}
  BY <1>9 DEF Form!Kept
<1>10. \/ k \in {"image", "timeout", "use_ssh_client"}
       \/ k \in Form!Cards["web"] \/ k \in Form!Cards["file"] \/ k \in Form!Cards["code"]
       \/ k \in {"mcp", "defer_loading", "tool_search", "description"}
       \/ k \in {"profile", "runtime"}
  OBVIOUS
<1> QED
  BY <1>4, <1>5, <1>6, <1>7, <1>8, <1>9, <1>10 DEF g

\* Whatever fields a save was built from, the fields it fills build it again.
LEMMA SavedSettingsReopen ==
    ASSUME Form!FormAssumption, NEW f, \A k \in Form!Keys : f[k] \in Form!Entries(k)
    PROVE  Form!Build(Form!Fields(Form!Build(f))) = Form!Build(f)
<1> DEFINE s == Form!Build(f)
           g == Form!Fields(s)
<1>1. ASSUME NEW k \in Form!Keys
      PROVE  Form!Build(g)[k] = s[k]
  <2>1. /\ s[k] = IF k \in Form!Cards["model"] \/ Form!Kept(k, f)
                  THEN Form!ReadField(k, f[k]) ELSE Absent
        /\ g[k] = Form!NativeField(k, s[k])
        /\ Form!Build(g)[k] = IF k \in Form!Cards["model"] \/ Form!Kept(k, g)
                              THEN Form!ReadField(k, g[k]) ELSE Absent
    BY BuiltKeyByKey
  <2>2. k \in Form!Cards["model"] \/ (Form!Kept(k, g) <=> Form!Kept(k, f))
    BY KeptAgain
  <2>3. Form!ReadField(k, Form!NativeField(k, Form!ReadField(k, f[k])))
          = Form!ReadField(k, f[k])
    BY FieldReadAgain
  <2> HIDE DEF s, g
  <2> QED
    BY <2>1, <2>2, <2>3
<1>2. \A h : Form!Build(h) = [k \in Form!Keys |-> Form!Build(h)[k]]
  BY DEF Form!Build
<1> HIDE DEF s, g
<1>3. s = [k \in Form!Keys |-> s[k]]
  BY <1>2 DEF s
<1> QED
  BY <1>1, <1>2, <1>3 DEF s, g

\* A field shows what may be stored, and a save stores what a field may show.
LEMMA FieldTyped ==
    ASSUME NEW k \in Form!Keys, NEW v \in Form!Values(k), Form!FormAssumption
    PROVE  Form!NativeField(k, v) \in Form!Entries(k)
<1> USE DEF Form!NumericKeys, Form!TextKeys, Form!SdkChoices, Form!Choices, Form!SdkFlags,
            Form!Flags, Form!Tools, Form!Keys
<1>1. CASE k \in Form!NumericKeys
  BY <1>1 DEF Form!NativeField, Form!ModelField, Form!Values, Form!Entries
<1>2. CASE k \in Form!TextKeys
  BY <1>2 DEF Form!NativeField, Form!ModelField, Form!Values, Form!Entries
<1>3. CASE k \in Form!SdkChoices
  BY <1>3 DEF Form!NativeField, Form!ModelField, Form!Values, Form!Entries
<1>4. CASE k \in Form!Choices
  <2>1. Form!Entries(k) = Form!Values(k) \ {Absent}
    BY <1>4 DEF Form!Entries
  <2>2. CASE v # Absent
    BY <1>4, <2>1, <2>2 DEF Form!NativeField
  <2>3. CASE v = Absent
    <3>1. (k = "runtime" => Local \in Form!Values(k))
          /\ (k = "search_context_size" => Medium \in Form!Values(k))
      BY DEF Form!Values
    <3> QED
      BY <1>4, <2>1, <2>3, <3>1 DEF Form!NativeField, Form!FormAssumption
  <2> QED
    BY <2>2, <2>3
<1>5. CASE k \in Form!SdkFlags \cup Form!Flags \cup Form!Tools
  <2>1. Form!Entries(k) = BOOLEAN
    BY <1>5 DEF Form!Entries
  <2>2. Form!NativeField(k, v) = (v = TRUE)
    BY <1>5 DEF Form!NativeField, Form!ModelField
  <2>3. (v = TRUE) \in BOOLEAN
    OBVIOUS
  <2> QED
    BY <2>1, <2>2, <2>3, Zenon
<1> QED
  BY <1>1, <1>2, <1>3, <1>4, <1>5

LEMMA SavedTyped ==
    ASSUME NEW f, \A k \in Form!Keys : f[k] \in Form!Entries(k), NEW k \in Form!Keys
    PROVE  Form!Build(f)[k] \in Form!Values(k)
<1> USE DEF Form!NumericKeys, Form!TextKeys, Form!SdkChoices, Form!Choices, Form!SdkFlags,
            Form!Flags, Form!Tools, Form!Keys
<1>1. /\ Form!Build(f)[k] = IF k \in Form!Cards["model"] \/ Form!Kept(k, f)
                            THEN Form!ReadField(k, f[k]) ELSE Absent
      /\ f[k] \in Form!Entries(k)
      /\ Absent \in Form!Values(k)
  BY BuiltKeyByKey DEF Form!Values
<1>2. CASE k \in Form!NumericKeys \cup Form!TextKeys \cup Form!SdkChoices
  <2>1. Form!ReadField(k, f[k]) \in Form!Values(k)
    BY <1>1, <1>2 DEF Form!ReadField, Form!Entries, Form!Values
  <2> QED
    BY <1>1, <2>1
<1>3. CASE k \in Form!Choices
  <2>1. Form!ReadField(k, f[k]) \in Form!Values(k)
    BY <1>1, <1>3 DEF Form!ReadField, Form!Entries
  <2> QED
    BY <1>1, <2>1
<1>4. CASE k \in Form!SdkFlags \cup Form!Flags
  <2>1. Form!Entries(k) = BOOLEAN /\ Form!Values(k) = {Absent} \cup BOOLEAN
    BY <1>4 DEF Form!Entries, Form!Values
  <2>2. f[k] = TRUE \/ f[k] = FALSE
    BY <1>1, <2>1
  <2>3. Form!ReadField(k, f[k]) \in Form!Values(k)
    BY <1>4, <2>1, <2>2 DEF Form!ReadField
  <2> QED
    BY <1>1, <2>3
<1>5. CASE k \in Form!Tools
  <2>1. Form!Entries(k) = BOOLEAN /\ TRUE \in Form!Values(k)
    BY <1>5 DEF Form!Entries, Form!Values
  <2>2. f[k] = TRUE \/ f[k] = FALSE
    BY <1>1, <2>1
  <2>3. Form!Kept(k, f) => f[k]
    BY <1>5 DEF Form!Kept, Form!Cards
  <2>4. Form!ReadField(k, f[k]) = f[k] /\ k \notin Form!Cards["model"]
    BY <1>5 DEF Form!ReadField, Form!Cards
  <2> QED
    BY <1>1, <2>1, <2>2, <2>3, <2>4
<1> QED
  BY <1>2, <1>3, <1>4, <1>5

LEMMA FormInit ==
    ASSUME Form!FormAssumption, Form!Init
    PROVE  Form!IInv
<1>1. x1 \in DOMAIN Form!Cards /\ x3 = Form!Fields(x2) /\ x4 = FALSE
  BY DEF Form!Init
<1>2. PICK s \in [Form!Cards[x1] -> UNION {Form!Values(k) : k \in Form!Keys}] :
        /\ \A k \in Form!Cards[x1] : s[k] \in Form!Values(k)
        /\ x2 = [k \in Form!Keys |-> IF k \in Form!Cards[x1] THEN s[k] ELSE Absent]
  BY DEF Form!Init
<1>3. ASSUME NEW k \in Form!Keys
      PROVE  x2[k] \in Form!Values(k) /\ x3[k] \in Form!Entries(k)
  <2>1. x2[k] \in Form!Values(k)
    BY <1>2 DEF Form!Values
  <2>2. x3[k] = Form!NativeField(k, x2[k])
    BY <1>1, FieldsOfModel DEF Form!Fields
  <2> QED
    BY <2>1, <2>2, FieldTyped
<1>4. x3 = [k \in Form!Keys |-> x3[k]]
  BY <1>1 DEF Form!Fields
<1> QED
  BY <1>1, <1>3, <1>4 DEF Form!IInv, Form!TypeOK, Form!ReopenedSaveKeepsSettings

LEMMA FormStep ==
    ASSUME Form!FormAssumption, Form!IInv, Form!Next
    PROVE  Form!IInv'
<1>1. /\ x1 \in DOMAIN Form!Cards
      /\ \A k \in Form!Keys : x2[k] \in Form!Values(k)
      /\ \A k \in Form!Keys : x3[k] \in Form!Entries(k)
      /\ x4 \in BOOLEAN
      /\ x3 = [k \in Form!Keys |-> x3[k]]
  BY DEF Form!IInv, Form!TypeOK
<1>2. CASE Form!Open
  <2>1. x3' = Form!Fields(x2) /\ UNCHANGED <<x1, x2, x4>>
    BY <1>2 DEF Form!Open
  <2>2. \A k \in Form!Keys : x3'[k] = Form!NativeField(k, x2[k])
    BY <2>1, FieldsOfModel DEF Form!Fields
  <2>3. \A k \in Form!Keys : x3'[k] \in Form!Entries(k)
    BY <1>1, <2>2, FieldTyped
  <2>4. x3' = [k \in Form!Keys |-> x3'[k]]
    BY <2>1 DEF Form!Fields
  <2> QED
    BY <1>1, <2>1, <2>3, <2>4 DEF Form!IInv, Form!TypeOK, Form!ReopenedSaveKeepsSettings
<1>3. CASE Form!Save
  <2>1. x2' = Form!Build(x3) /\ x4' = TRUE /\ UNCHANGED <<x1, x3>>
    BY <1>3 DEF Form!Save
  <2>2. \A k \in Form!Keys : x2'[k] \in Form!Values(k)
    BY <1>1, <2>1, SavedTyped
  <2>3. Form!Build(Form!Fields(x2')) = x2'
    BY <1>1, <2>1, SavedSettingsReopen
  <2> QED
    BY <1>1, <2>1, <2>2, <2>3 DEF Form!IInv, Form!TypeOK, Form!ReopenedSaveKeepsSettings
<1>4. ASSUME NEW k \in Form!Cards[x1], NEW entry \in Form!Entries(k), Form!Type(k, entry)
      PROVE  Form!IInv'
  <2>1. x3' = [x3 EXCEPT ![k] = entry] /\ UNCHANGED <<x1, x2, x4>>
    BY <1>4 DEF Form!Type
  <2>2. \A j \in Form!Keys : x3'[j] = IF j = k THEN entry ELSE x3[j]
    BY <1>1, <2>1
  <2>3. \A j \in Form!Keys : x3'[j] \in Form!Entries(j)
    BY <1>1, <2>2
  <2>4. x3' = [j \in Form!Keys |-> x3'[j]]
    BY <1>1, <2>1
  <2> QED
    BY <1>1, <2>1, <2>3, <2>4 DEF Form!IInv, Form!TypeOK, Form!ReopenedSaveKeepsSettings
<1> QED
  BY <1>2, <1>3, <1>4 DEF Form!Next

-----------------------------------------------------------------------------
(* The administrator's pages together *)

\* Whichever of these pages is shown, its part keeps its invariant.
AdminPages ==
    /\ page = "form"     => Form!IInv
    /\ page = "mcp"      => Mcp!IInv
    /\ page = "accounts" => Accounts!IInv
    /\ page = "provider" => Provider!IInv
    /\ page = "audit"    => Audit!IInv

LEMMA AdminAssumptions ==
    /\ Form!FormAssumption /\ Mcp!McpAssumption /\ Provider!ProviderAssumption
    /\ MaxAccounts \in Nat \ {0} /\ MaxRuns \in Nat \ {0}
BY PagesAssumption DEF PagesAssumption, Accounts!ApprovalAssumption, Audit!AuditAssumption

LEMMA AdminStart == Init => AdminPages
BY AdminAssumptions, FormInit, McpInit, AccountsInit, ProviderInit, AuditInit
   DEF Init, AdminPages

\* A step that changes nothing keeps each invariant.
LEMMA AdminStay ==
    ASSUME AdminPages, UNCHANGED tab
    PROVE  AdminPages'
<1> USE DEF tab
<1>1. ASSUME Form!IInv
      PROVE  Form!IInv'
  BY <1>1 DEF Form!IInv, Form!TypeOK, Form!ReopenedSaveKeepsSettings
<1>2. ASSUME Mcp!IInv
      PROVE  Mcp!IInv'
  BY <1>2 DEF Mcp!IInv, Mcp!TypeOK, Mcp!CallsTyped, Mcp!ToolsOfServerShown,
              Mcp!SureIsGranted, Mcp!UnclickedBoxesAreGranted, Mcp!PostsAreSound,
              Mcp!Saving, Mcp!Pair
<1>3. ASSUME Accounts!IInv
      PROVE  Accounts!IInv'
  BY <1>3 DEF Accounts!IInv, Accounts!TypeOK, Accounts!AuditTrailCurrent, Accounts!Shown
<1>4. ASSUME Provider!IInv
      PROVE  Provider!IInv'
  BY <1>4 DEF Provider!IInv, Provider!TypeOK
<1>5. ASSUME Audit!IInv
      PROVE  Audit!IInv'
  BY <1>5 DEF Audit!IInv, Audit!TypeOK, Audit!DetailsOfSelected
<1> QED
  BY <1>1, <1>2, <1>3, <1>4, <1>5 DEF AdminPages

\* Neither does a step of a page break it.
LEMMA AdminMove ==
    ASSUME AdminPages, Next
    PROVE  AdminPages'
<1>1. /\ page' = page
      /\ page = "form" => Form!Next
      /\ page = "mcp" => Mcp!Next
      /\ page = "accounts" => Accounts!Next
      /\ page = "provider" => Provider!Next
      /\ page = "audit" => Audit!Next
  BY DEF Next
<1> QED
  BY <1>1, AdminAssumptions, FormStep, McpStep, AccountsStep, ProviderStep, AuditStep
     DEF AdminPages

LEMMA AdminInvariant == Spec => []AdminPages
<1>1. AdminPages /\ [Next]_tab => AdminPages'
  BY AdminStay, AdminMove
<1> QED
  BY <1>1, AdminStart, PTL DEF Spec

\* An administrator who opens settings that this form wrote, and saves them as they are,
\* changes nothing, whatever cards were filled in or dropped.
THEOREM ReopenedSaveIsIdle == Spec => []ReopenedSaveKeepsSettings
<1>1. AdminPages => ReopenedSaveKeepsSettings
  BY DEF AdminPages, ReopenedSaveKeepsSettings, Form!IInv
<1> QED
  BY <1>1, AdminInvariant, PTL

\* A box that mounted when its authorizations were known shows what is granted until it is
\* clicked, while saves, discoveries, deletions and selections cross, for any number of
\* servers, agents and tools.
THEOREM BoxesShowGrants == Spec => []UnclickedBoxesAreGranted
<1>1. AdminPages => UnclickedBoxesAreGranted
  BY DEF AdminPages, UnclickedBoxesAreGranted, Mcp!IInv
<1> QED
  BY <1>1, AdminInvariant, PTL

\* Once both effects are answered the tools listed are those of the server shown, unless the
\* answer of a discovery or a deletion came when another server was shown: it replaces the
\* tools listed, whichever server they are of.
THEOREM ToolsOfServer == Spec => []ToolsOfServerShown
<1>1. AdminPages => ToolsOfServerShown
  BY DEF AdminPages, ToolsOfServerShown, Mcp!IInv
<1> QED
  BY <1>1, AdminInvariant, PTL

\* The trail beside an account is its own and holds every action answered since it was
\* selected, whichever calls were out when the selection moved.
THEOREM TrailIsCurrent == Spec => []AuditTrailCurrent
<1>1. AdminPages => AuditTrailCurrent
  BY DEF AdminPages, AuditTrailCurrent, Accounts!IInv
<1> QED
  BY <1>1, AdminInvariant, PTL

\* Fields nobody edited hold the server's configuration once a fetch asked after the last
\* change has arrived.
THEOREM UntouchedIsServer == Spec => []UntouchedFormIsServers
<1>1. AdminPages => UntouchedFormIsServers
  BY UntouchedIsServers DEF AdminPages, UntouchedFormIsServers
<1> QED
  BY <1>1, AdminInvariant, PTL

\* Details are merged into the run they are of, and the run selected gets its own.
THEOREM DetailsAreOfRun == Spec => []DetailsOfSelected
<1>1. AdminPages => DetailsOfSelected
  BY DEF AdminPages, DetailsOfSelected, Audit!IInv
<1> QED
  BY <1>1, AdminInvariant, PTL
=============================================================================
