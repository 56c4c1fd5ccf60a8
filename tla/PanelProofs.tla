---------------------------- MODULE PanelProofs ----------------------------
(***************************************************************************)
(* Proofs about the panels of agents and of model configurations, whose    *)
(* lists follow the answers of requests that cross, and about the          *)
(* transcript, whose messages come from three sources; then the types of   *)
(* every page.                                                             *)
(***************************************************************************)
EXTENDS WorkspaceProofs, AdminPagesProofs, SequenceTheorems

-----------------------------------------------------------------------------
(* AgentPanel: the agent shown *)

\* The requests of the page, where the server has n agents.
PanelRequest(n) ==
    [kind : {"none", "save", "status", "check", "create"},
     agent : 0..n, config : {0} \cup Agents!Ids,
     retire : BOOLEAN, pc : {"idle", "sent", "answered"},
     answer : Agents!Record \cup {Agents!NoRecord}, moved : BOOLEAN]

\* The agent shown is one of the list, unless there is none.
LEMMA ShownListed ==
    ASSUME NEW list \in Seq(Agents!Record), NEW sel
    PROVE  \/ list = <<>> /\ Agents!ShownIn(list, sel) = Agents!NoRecord
           \/ \E k \in 1..Len(list) : Agents!ShownIn(list, sel) = list[k]
<1> DEFINE with == {k \in 1..Len(list) : list[k].id = sel}
           at == IF with # {} THEN CHOOSE k \in with : \A j \in with : k <= j ELSE 0
<1>1. Agents!ShownIn(list, sel) = IF at # 0 THEN list[at]
                                  ELSE IF list # <<>> THEN list[1] ELSE Agents!NoRecord
  BY DEF Agents!ShownIn, Agents!SelectInSeq, Agents!Min
<1>2. at # 0 => at \in 1..Len(list)
  <2>1. with \in SUBSET Nat
    OBVIOUS
  <2> QED
    BY <2>1, LeastChosen
<1>3. list # <<>> => 1 \in 1..Len(list)
  OBVIOUS
<1> HIDE DEF at
<1> QED
  BY <1>1, <1>2, <1>3

\* It is an agent the server has, and so is what is entered for it.
LEMMA ShownOwn ==
    ASSUME NEW list \in Seq(Agents!Record), Agents!RecordsOwn(list), NEW sel, x1 \in Seq(Agents!Record)
    PROVE  LET a == Agents!ShownIn(list, sel) IN
           /\ a = Agents!NoRecord \/ (a \in Agents!Record /\ a.id \in 1..Len(x1))
           /\ a.id \in 0..Len(x1)
           /\ a.id \in {0} \cup Agents!Ids
           /\ a.config = a.id
<1> DEFINE a == Agents!ShownIn(list, sel)
<1>1. CASE a = Agents!NoRecord
  BY <1>1 DEF Agents!NoRecord, Agents!None
<1>2. ASSUME NEW k \in 1..Len(list), a = list[k]
      PROVE  /\ a \in Agents!Record /\ a.id \in 1..Len(x1)
             /\ a.id \in Agents!Ids
             /\ a.config = a.id
  <2>1. list[k] \in Agents!Record /\ list[k].id <= Len(x1) /\ list[k].config = list[k].id
    BY DEF Agents!RecordsOwn
  <2>2. list[k].id \in Agents!Ids /\ list[k].id \in 1..Len(x1)
    BY <2>1 DEF Agents!Record, Agents!Ids
  <2> QED
    BY <1>2, <2>1, <2>2
<1>3. a = Agents!NoRecord \/ \E k \in 1..Len(list) : a = list[k]
  BY ShownListed
<1> QED
  BY <1>1, <1>2, <1>3

\* The agent answered takes its place in the list, or comes at its end.
LEMMA UpsertOwn ==
    ASSUME x4 \in Seq(Agents!Record), Agents!RecordsOwn(x4),
           NEW a \in Agents!Record, Agents!RecordsOwn(<<a>>), Agents!UpsertAgent(a)
    PROVE  /\ x4' \in Seq(Agents!Record) /\ Agents!RecordsOwn(x4')
           /\ x5' \in Agents!Ids
<1>1. x5' \in Agents!Ids
  BY DEF Agents!UpsertAgent, Agents!Record
<1>2. a.id <= Len(x1) /\ a.config = a.id
  BY DEF Agents!RecordsOwn
<1>3. CASE x4' = [k \in 1..Len(x4) |-> IF x4[k].id = a.id THEN a ELSE x4[k]]
  <2>1. x4' \in Seq(Agents!Record) /\ Len(x4') = Len(x4)
    BY <1>3
  <2> QED
    BY <1>1, <1>2, <1>3, <2>1 DEF Agents!RecordsOwn
<1>4. CASE x4' = Append(x4, a)
  <2>1. x4' \in Seq(Agents!Record) /\ Len(x4') = Len(x4) + 1
    BY <1>4
  <2>2. \A k \in 1..Len(x4') : x4'[k] = IF k = Len(x4) + 1 THEN a ELSE x4[k]
    BY <1>4
  <2> QED
    BY <1>1, <1>2, <2>1, <2>2 DEF Agents!RecordsOwn
<1> QED
  BY <1>3, <1>4 DEF Agents!UpsertAgent

\* What is known of one request.
LEMMA SlotOwn ==
    ASSUME NEW requests, Agents!RequestsOwn(requests), NEW s \in Slots
    PROVE  LET p == requests[s] IN
           /\ p \in PanelRequest(Len(x1))
           /\ p.kind \in {"save", "status", "check"} => p.agent # 0
           /\ p.kind = "none" <=> p.pc = "idle"
           /\ p.kind = "save" => p.config = p.agent
           /\ p.kind # "check" /\ p.pc = "answered" =>
                 p.answer \in Agents!Record /\ p.answer.id <= Len(x1)
                 /\ p.answer.config = p.answer.id
           /\ p.kind = "check" /\ ~p.moved => p.agent = Agents!Shown.id
<1>1. requests[s] \in PanelRequest(Len(x1))
  BY DEF Agents!RequestsOwn, PanelRequest, Agents!None
<1>2. Agents!RecordsOwn(<<requests[s].answer>>) =>
        requests[s].answer.id <= Len(x1) /\ requests[s].answer.config = requests[s].answer.id
  BY DEF Agents!RecordsOwn
<1> QED
  BY <1>1, <1>2 DEF Agents!RequestsOwn, Agents!None

\* A render leaves the editor, the result and the checks with the agent then shown.
LEMMA RenderKeeps ==
    ASSUME Agents!IInv, NEW requests, Agents!RequestsOwn(requests),
           x4' \in Seq(Agents!Record), Agents!RecordsOwn(x4'),
           Agents!Render(requests), Agents!KeepReadiness(x7), x1' = x1
    PROVE  /\ x6' \in [key : {0} \cup Agents!Ids, config : {0} \cup Agents!Ids]
           /\ x6'.config = Agents!Shown'.id
           /\ Agents!RequestsOwn(x9)'
           /\ x7' \in [agent : {0} \cup Agents!Ids, moved : BOOLEAN]
           /\ Agents!ReadinessOfAgentShown'
<1> DEFINE now == Agents!ShownIn(x4', x5')
<1>1. Agents!Shown' = now
  BY DEF Agents!Shown
<1>2. /\ x1 \in Seq(Agents!Record)
      /\ x6 \in [key : {0} \cup Agents!Ids, config : {0} \cup Agents!Ids]
      /\ x7 \in [agent : {0} \cup Agents!Ids, moved : BOOLEAN]
      /\ x6.config = Agents!Shown.id /\ Agents!ReadinessOfAgentShown
  BY DEF Agents!IInv, Agents!TypeOK, Agents!None
<1>3. now.id \in {0} \cup Agents!Ids /\ now.config = now.id
  BY <1>2, ShownOwn
<1> HIDE DEF now
<1>4. CASE now.id = Agents!Shown.id
  <2>1. x9' = requests /\ x6' = x6 /\ x7' = x7
    BY <1>1, <1>4 DEF Agents!Render, Agents!KeepReadiness, now
  <2>2. Agents!RequestsOwn(x9)'
    BY <1>1, <1>4, <2>1 DEF Agents!RequestsOwn, Agents!RecordsOwn
  <2> QED
    BY <1>1, <1>2, <1>4, <2>1, <2>2 DEF Agents!ReadinessOfAgentShown
<1>5. CASE now.id # Agents!Shown.id
  <2>1. /\ x9' = [r \in Slots |-> [requests[r] EXCEPT !.moved = TRUE]]
        /\ x6' = [key |-> now.id, config |-> now.config]
        /\ x7' = Agents!NoResult
    BY <1>1, <1>5 DEF Agents!Render, Agents!KeepReadiness, now
  <2>2. Agents!RequestsOwn(x9)'
    <3> DEFINE Request == [kind : {"none", "save", "status", "check", "create"},
                           agent : 0..Len(x1), config : {Agents!None} \cup Agents!Ids,
                           retire : BOOLEAN, pc : {"idle", "sent", "answered"},
                           answer : Agents!Record \cup {Agents!NoRecord}, moved : BOOLEAN]
    <3>1. requests \in [Slots -> Request]
      BY DEF Agents!RequestsOwn
    <3>2. /\ x9' \in [Slots -> Request]
          /\ \A r \in Slots :
                /\ x9'[r].kind = requests[r].kind /\ x9'[r].agent = requests[r].agent
                /\ x9'[r].config = requests[r].config /\ x9'[r].pc = requests[r].pc
                /\ x9'[r].answer = requests[r].answer /\ x9'[r].moved = TRUE
      BY <2>1, <3>1
    <3>3. ASSUME NEW s \in Slots
          PROVE  LET p == x9'[s] IN
                 /\ p.kind \in {"save", "status", "check"} => p.agent # 0
                 /\ p.kind = "none" <=> p.pc = "idle"
                 /\ p.kind = "save" => p.config = p.agent
                 /\ p.kind # "check" /\ p.pc = "answered" =>
                       /\ p.answer \in Agents!Record
                       /\ p.answer.id <= Len(x1') /\ p.answer.config = p.answer.id
                 /\ p.moved
      BY <3>2, SlotOwn
    <3>4. x9' \in [Slots -> [kind : {"none", "save", "status", "check", "create"},
                             agent : 0..Len(x1'), config : {Agents!None} \cup Agents!Ids,
                             retire : BOOLEAN, pc : {"idle", "sent", "answered"},
                             answer : Agents!Record \cup {Agents!NoRecord},
                             moved : BOOLEAN]]
      BY <3>2
    <3> HIDE DEF Request
    <3> QED
      BY <3>3, <3>4 DEF Agents!RequestsOwn, Agents!RecordsOwn, Agents!None
  <2> QED
    BY <1>1, <1>3, <2>1, <2>2 DEF Agents!ReadinessOfAgentShown, Agents!NoResult, Agents!None
<1> QED
  BY <1>4, <1>5

\* An answer that was taken, or a request that failed, leaves its slot.
LEMMA SlotFreed ==
    ASSUME NEW requests, Agents!RequestsOwn(requests), NEW r \in Slots,
           x1 \in Seq(Agents!Record)
    PROVE  Agents!RequestsOwn([requests EXCEPT ![r] = Agents!NoRequest])
<1>1. Agents!NoRequest \in [kind : {"none", "save", "status", "check", "create"},
                            agent : 0..Len(x1), config : {Agents!None} \cup Agents!Ids,
                            retire : BOOLEAN, pc : {"idle", "sent", "answered"},
                            answer : Agents!Record \cup {Agents!NoRecord}, moved : BOOLEAN]
  BY DEF Agents!NoRequest, Agents!None
<1> QED
  BY <1>1 DEF Agents!RequestsOwn, Agents!NoRequest

LEMMA AgentsInit ==
    ASSUME MaxAgents \in Nat \ {0}, Agents!Init
    PROVE  Agents!IInv
<1>1. /\ x1 = <<[id |-> 1, retired |-> FALSE, config |-> 1]>>
      /\ x2 = "asked" /\ x3 = <<>> /\ x4 = <<>> /\ x5 = 0
      /\ x6 = Agents!NoEditor /\ x7 = Agents!NoResult /\ x8 = FALSE
      /\ x9 = [r \in Slots |-> Agents!NoRequest]
  BY DEF Agents!Init, Agents!None
<1>2. [id |-> 1, retired |-> FALSE, config |-> 1] \in Agents!Record
  BY DEF Agents!Record, Agents!Ids
<1>3. x1 \in Seq(Agents!Record) /\ Len(x1) = 1 /\ x1[1].id = 1 /\ x1[1].config = 1
  BY <1>1, <1>2
<1>4. x3 \in Seq(Agents!Record) /\ x4 \in Seq(Agents!Record) /\ Len(x3) = 0 /\ Len(x4) = 0
  BY <1>1
<1>5. Agents!Shown = Agents!NoRecord
  <2>1. ~\E k \in 1..Len(x4) : Agents!ShownIn(x4, x5) = x4[k]
    BY <1>4
  <2> QED
    BY <1>4, <2>1, ShownListed DEF Agents!Shown
<1>6. Agents!TypeOK
  <2>1. /\ x6 \in [key : {0} \cup Agents!Ids, config : {0} \cup Agents!Ids]
        /\ x7 \in [agent : {0} \cup Agents!Ids, moved : BOOLEAN]
    BY <1>1 DEF Agents!NoEditor, Agents!NoResult, Agents!None
  <2>2. \A r \in Slots : x9[r].kind = "none" /\ x9[r].pc = "idle"
    BY <1>1 DEF Agents!NoRequest
  <2>3. Len(x1) \in 1..MaxAgents
    BY <1>3
  <2> QED
    BY <1>1, <1>3, <1>4, <2>1, <2>2, <2>3 DEF Agents!TypeOK, Agents!None
<1>7. Agents!RequestsOwn(x9)
  BY <1>1, <1>3 DEF Agents!RequestsOwn, Agents!NoRequest, Agents!None
<1>8. Agents!RecordsOwn(x1) /\ Agents!RecordsOwn(x3) /\ Agents!RecordsOwn(x4)
  BY <1>3, <1>4 DEF Agents!RecordsOwn
<1>9. x6.config = Agents!Shown.id /\ Agents!ReadinessOfAgentShown
  BY <1>1, <1>5 DEF Agents!NoEditor, Agents!NoRecord, Agents!ReadinessOfAgentShown
<1> QED
  BY <1>1, <1>3, <1>6, <1>7, <1>8, <1>9 DEF Agents!IInv, Agents!EditsStayWithTheirAgent

\* A request is sent for the agent shown, with what was entered for it, or to create one.
LEMMA SendKeeps ==
    ASSUME Agents!IInv, NEW r \in Slots, NEW sent, Agents!Send(r, sent),
           sent \in [kind : {"save", "status", "check", "create"},
                     agent : 0..Len(x1), config : {0} \cup Agents!Ids,
                     retire : BOOLEAN, pc : {"sent"},
                     answer : {Agents!NoRecord}, moved : BOOLEAN],
           sent.kind # "create" => sent.agent = Agents!Shown.id /\ sent.agent # 0,
           sent.kind = "save" => sent.config = sent.agent
    PROVE  Agents!IInv'
<1>1. x9' = [x9 EXCEPT ![r] = sent] /\ UNCHANGED <<x1, x2, x3, x4, x5, x6, x7, x8>>
  BY DEF Agents!Send
<1>2. Agents!Shown' = Agents!Shown
  BY <1>1 DEF Agents!Shown
<1>3. Agents!RequestsOwn(x9) /\ Agents!TypeOK
  BY DEF Agents!IInv
<1>4. x9' \in [Slots -> [kind : {"none", "save", "status", "check", "create"},
                         agent : 0..Len(x1), config : {0} \cup Agents!Ids,
                         retire : BOOLEAN, pc : {"idle", "sent", "answered"},
                         answer : Agents!Record \cup {Agents!NoRecord}, moved : BOOLEAN]]
      /\ \A q \in Slots : x9'[q] = IF q = r THEN sent ELSE x9[q]
  BY <1>1, <1>3 DEF Agents!RequestsOwn, Agents!None
<1>5. Agents!RequestsOwn(x9)'
  BY <1>1, <1>2, <1>3, <1>4 DEF Agents!RequestsOwn, Agents!RecordsOwn, Agents!None
<1>6. Agents!TypeOK'
  BY <1>1, <1>3, <1>4 DEF Agents!TypeOK
<1> QED
  BY <1>1, <1>2, <1>5, <1>6 DEF Agents!IInv, Agents!RecordsOwn,
     Agents!EditsStayWithTheirAgent, Agents!ReadinessOfAgentShown

\* The server does what it is asked, and answers with the agent as it is then.
LEMMA ServeKeeps ==
    ASSUME MaxAgents \in Nat \ {0}, Agents!IInv, NEW r \in Slots, Agents!Serve(r)
    PROVE  Agents!IInv'
<1> DEFINE q == x9[r]
<1> USE DEF Agents!None
<1>1. /\ q.pc = "sent" /\ Len(x1') <= MaxAgents
      /\ UNCHANGED <<x2, x3, x4, x5, x6, x7, x8>>
      /\ x1' = CASE q.kind = "save"   -> [x1 EXCEPT ![q.agent].config = q.config]
                 [] q.kind = "status" -> [x1 EXCEPT ![q.agent].retired = q.retire]
                 [] q.kind = "check"  -> x1
                 [] q.kind = "create" ->
                       Append(x1, [id |-> Len(x1) + 1, retired |-> FALSE,
                                   config |-> Len(x1) + 1])
      /\ x9' = [x9 EXCEPT ![r].pc = "answered",
                  ![r].answer = CASE q.kind = "create" -> Agents!Last(x1')
                                  [] q.kind = "check"  -> Agents!NoRecord
                                  [] OTHER             -> x1'[q.agent]]
  BY DEF Agents!Serve
<1>2. /\ Agents!TypeOK /\ Agents!RequestsOwn(x9)
      /\ x1 \in Seq(Agents!Record) /\ Len(x1) \in 1..MaxAgents
      /\ \A k \in 1..Len(x1) : x1[k].id = k /\ x1[k].config = k
  BY DEF Agents!IInv, Agents!TypeOK, Agents!RecordsOwn
<1>3. /\ x9 \in [Slots -> PanelRequest(Len(x1))]
      /\ q \in PanelRequest(Len(x1))
      /\ q.kind \in {"save", "status", "check", "create"}
      /\ q.kind \in {"save", "status", "check"} => q.agent \in 1..Len(x1)
      /\ q.kind = "save" => q.config = q.agent
  <2>1. x9 \in [Slots -> PanelRequest(Len(x1))]
    BY <1>2 DEF Agents!RequestsOwn, PanelRequest
  <2>2. /\ q \in PanelRequest(Len(x1))
        /\ q.kind \in {"save", "status", "check"} => q.agent # 0
        /\ q.kind = "none" <=> q.pc = "idle"
        /\ q.kind = "save" => q.config = q.agent
    BY <1>2, SlotOwn
  <2> QED
    BY <1>1, <1>2, <2>1, <2>2 DEF PanelRequest
\* The records the server has then, and the one it answers with.
<1>4. /\ x1' \in Seq(Agents!Record) /\ Len(x1') \in Len(x1)..MaxAgents
      /\ \A k \in 1..Len(x1') : x1'[k].id = k /\ x1'[k].config = k
      /\ q.kind = "create" => Len(x1') = Len(x1) + 1
  <2>1. CASE q.kind = "save"
    <3>1. x1' = [x1 EXCEPT ![q.agent].config = q.config]
      BY <1>1, <2>1
    <3>5. x1[q.agent] \in Agents!Record /\ q.config \in Agents!Ids
      BY <1>2, <1>3, <2>1 DEF PanelRequest, Agents!Ids
    <3>2. [x1[q.agent] EXCEPT !.config = q.config] \in Agents!Record
      BY <3>5 DEF Agents!Record
    <3>3. x1' \in Seq(Agents!Record) /\ Len(x1') = Len(x1)
      BY <1>2, <1>3, <2>1, <3>1, <3>2
    <3>4. \A k \in 1..Len(x1) :
            x1'[k] = IF k = q.agent THEN [x1[q.agent] EXCEPT !.config = q.config] ELSE x1[k]
      BY <1>2, <3>1
    <3> QED
      BY <1>2, <1>3, <2>1, <3>3, <3>4, <3>5 DEF Agents!Record
  <2>2. CASE q.kind = "status"
    <3>1. x1' = [x1 EXCEPT ![q.agent].retired = q.retire]
      BY <1>1, <2>2
    <3>5. x1[q.agent] \in Agents!Record /\ q.retire \in BOOLEAN
      BY <1>2, <1>3, <2>2 DEF PanelRequest
    <3>2. [x1[q.agent] EXCEPT !.retired = q.retire] \in Agents!Record
      BY <3>5 DEF Agents!Record
    <3>3. x1' \in Seq(Agents!Record) /\ Len(x1') = Len(x1)
      BY <1>2, <1>3, <2>2, <3>1, <3>2
    <3>4. \A k \in 1..Len(x1) :
            x1'[k] = IF k = q.agent THEN [x1[q.agent] EXCEPT !.retired = q.retire] ELSE x1[k]
      BY <1>2, <3>1
    <3> QED
      BY <1>2, <1>3, <2>2, <3>3, <3>4, <3>5 DEF Agents!Record
  <2>3. CASE q.kind = "check"
    BY <1>1, <1>2, <2>3
  <2>4. CASE q.kind = "create"
    <3> DEFINE a == [id |-> Len(x1) + 1, retired |-> FALSE, config |-> Len(x1) + 1]
    <3>1. x1' = Append(x1, a)
      BY <1>1, <2>4
    <3>2. Len(x1') = Len(x1) + 1
      BY <1>2, <3>1
    <3>3. a \in Agents!Record
      <4>1. Len(x1') <= MaxAgents /\ Len(x1) \in 1..MaxAgents
        BY <1>1, <1>2
      <4>2. Len(x1) + 1 \in Agents!Ids
        BY ONLY <4>1, <3>2, MaxAgents \in Nat \ {0} DEF Agents!Ids
      <4> QED
        BY <4>2 DEF Agents!Record
    <3>4. x1' \in Seq(Agents!Record)
      BY <1>2, <3>1, <3>3
    <3>5. \A k \in 1..Len(x1') : x1'[k] = IF k = Len(x1) + 1 THEN a ELSE x1[k]
      BY <1>2, <3>1, <3>2
    <3>6. a.id = Len(x1) + 1 /\ a.config = Len(x1) + 1
      OBVIOUS
    <3> HIDE DEF a
    <3>7. Len(x1') <= MaxAgents /\ Len(x1) \in 1..MaxAgents
      BY <1>1, <1>2
    <3>8. Len(x1') \in Len(x1)..MaxAgents
      BY <3>2, <3>7
    <3>9. \A k \in 1..Len(x1') : x1'[k].id = k /\ x1'[k].config = k
      BY <1>2, <3>2, <3>5, <3>6, <3>7
    <3> QED
      BY <3>2, <3>4, <3>8, <3>9
  <2> QED
    BY <1>3, <2>1, <2>2, <2>3, <2>4
<1>5. /\ x9' \in [Slots -> PanelRequest(Len(x1'))]
      /\ \A s \in Slots \ {r} : x9'[s] = x9[s]
      /\ x9'[r].kind = q.kind /\ x9'[r].agent = q.agent /\ x9'[r].config = q.config
      /\ x9'[r].moved = q.moved /\ x9'[r].pc = "answered"
      /\ q.kind # "check" => \E k \in 1..Len(x1') : x9'[r].answer = x1'[k]
  <2> DEFINE answer == CASE q.kind = "create" -> Agents!Last(x1')
                         [] q.kind = "check"  -> Agents!NoRecord
                         [] OTHER             -> x1'[q.agent]
  <2>1. /\ answer \in Agents!Record \cup {Agents!NoRecord}
        /\ q.kind # "check" => \E k \in 1..Len(x1') : answer = x1'[k]
    <3>1. CASE q.kind = "create"
      BY <1>2, <1>4, <3>1 DEF Agents!Last
    <3>2. CASE q.kind = "check"
      BY <3>2
    <3>3. CASE q.kind \in {"save", "status"}
      BY <1>3, <1>4, <3>3
    <3> QED
      BY <1>3, <3>1, <3>2, <3>3
  <2>2. x9' = [x9 EXCEPT ![r].pc = "answered", ![r].answer = answer]
    BY <1>1
  <2> DEFINE p == [q EXCEPT !.pc = "answered", !.answer = answer]
  <2> HIDE DEF answer
  <2>5. \A s \in Slots : x9[s] \in PanelRequest(Len(x1'))
    <3>1. 0..Len(x1) \subseteq 0..Len(x1')
      BY <1>2, <1>4
    <3> QED
      BY <1>3, <3>1 DEF PanelRequest
  <2>3. /\ p \in PanelRequest(Len(x1'))
        /\ p.kind = q.kind /\ p.agent = q.agent /\ p.config = q.config /\ p.moved = q.moved
        /\ p.pc = "answered" /\ p.answer = answer
    BY <2>1, <2>5 DEF PanelRequest
  <2> HIDE DEF p
  <2>4. \A s \in Slots : x9'[s] = IF s = r THEN p ELSE x9[s]
    BY <1>3, <2>2 DEF p
  <2>6. x9' \in [Slots -> PanelRequest(Len(x1'))]
    BY <1>3, <2>2, <2>3, <2>5 DEF p
  <2> QED
    BY <1>3, <2>1, <2>3, <2>4, <2>6
<1>6. Agents!Shown' = Agents!Shown
  BY <1>1 DEF Agents!Shown
<1>7. Agents!RequestsOwn(x9)'
  <2>1. ASSUME NEW s \in Slots
        PROVE  LET p == x9'[s] IN
               /\ p.kind \in {"save", "status", "check"} => p.agent # 0
               /\ p.kind = "none" <=> p.pc = "idle"
               /\ p.kind = "save" => p.config = p.agent
               /\ p.kind # "check" /\ p.pc = "answered" =>
                     /\ p.answer \in Agents!Record
                     /\ p.answer.id <= Len(x1') /\ p.answer.config = p.answer.id
               /\ p.kind = "check" /\ ~p.moved => p.agent = Agents!Shown.id
    <3>1. CASE s = r
      <4>1. q.kind = "check" /\ ~q.moved => q.agent = Agents!Shown.id
        BY <1>2 DEF Agents!RequestsOwn
      <4> QED
        BY <1>3, <1>4, <1>5, <3>1, <4>1
    <3>2. CASE s # r
      <4>1. x9'[s] = x9[s]
        BY <1>5, <3>2
      <4>2. LET p == x9[s] IN
            /\ p.kind \in {"save", "status", "check"} => p.agent # 0
            /\ p.kind = "none" <=> p.pc = "idle"
            /\ p.kind = "save" => p.config = p.agent
            /\ p.kind # "check" /\ p.pc = "answered" =>
                  p.answer \in Agents!Record /\ p.answer.id <= Len(x1)
                  /\ p.answer.config = p.answer.id
            /\ p.kind = "check" /\ ~p.moved => p.agent = Agents!Shown.id
        BY <1>2, SlotOwn
      <4>3. x9[s].answer \in Agents!Record => x9[s].answer.id \in Nat
        BY DEF Agents!Record, Agents!Ids
      <4> QED
        BY <1>2, <1>4, <4>1, <4>2, <4>3
    <3> QED
      BY <3>1, <3>2
  <2> QED
    BY <1>5, <1>6, <2>1 DEF Agents!RequestsOwn, Agents!RecordsOwn, PanelRequest
<1>8. Agents!RecordsOwn(x1)' /\ Agents!RecordsOwn(x3)' /\ Agents!RecordsOwn(x4)'
  <2>1. ASSUME NEW list \in Seq(Agents!Record), Agents!RecordsOwn(list), NEW k \in 1..Len(list)
        PROVE  list[k].id <= Len(x1') /\ list[k].config = list[k].id
    <3>1. list[k].id <= Len(x1) /\ list[k].config = list[k].id
      BY <2>1 DEF Agents!RecordsOwn
    <3>2. list[k].id \in Nat
      <4>1. list[k] \in Agents!Record
        BY <2>1
      <4>2. list[k].id \in 1..MaxAgents
        BY <4>1 DEF Agents!Record, Agents!Ids
      <4> QED
        BY <4>2
    <3> QED
      BY <1>2, <1>4, <3>1, <3>2
  <2>2. x3 \in Seq(Agents!Record) /\ x4 \in Seq(Agents!Record)
        /\ Agents!RecordsOwn(x3) /\ Agents!RecordsOwn(x4)
    BY DEF Agents!IInv, Agents!TypeOK
  <2>3. Agents!RecordsOwn(x3)' /\ Agents!RecordsOwn(x4)'
    BY <1>1, <2>1, <2>2 DEF Agents!RecordsOwn
  <2>4. Agents!RecordsOwn(x1)'
    BY <1>4 DEF Agents!RecordsOwn
  <2> QED
    BY <2>3, <2>4
<1>9. Agents!TypeOK'
  <2>1. Len(x1') \in 1..MaxAgents
    BY <1>2, <1>4
  <2>2. \A s \in Slots :
          /\ x9'[s].kind \in {"none", "save", "status", "check", "create"}
          /\ x9'[s].pc \in {"idle", "sent", "answered"}
    BY <1>5 DEF PanelRequest
  <2> QED
    BY <1>1, <1>2, <1>4, <2>1, <2>2 DEF Agents!TypeOK
<1> QED
  BY <1>1, <1>4, <1>6, <1>7, <1>8, <1>9 DEF Agents!IInv, Agents!EditsStayWithTheirAgent,
     Agents!ReadinessOfAgentShown

\* The list, the selection and the render after them, of a step that leaves the server alone.
LEMMA ListMoves ==
    ASSUME Agents!IInv, NEW requests, Agents!RequestsOwn(requests),
           x4' \in Seq(Agents!Record), Agents!RecordsOwn(x4'),
           x5' \in {0} \cup Agents!Ids,
           Agents!Render(requests), Agents!KeepReadiness(x7), x1' = x1,
           \/ x2' = x2 /\ x3' = x3
           \/ x2' = "done" /\ x3' = <<>>,
           x8' \in BOOLEAN
    PROVE  Agents!IInv'
<1>1. /\ x6' \in [key : {0} \cup Agents!Ids, config : {0} \cup Agents!Ids]
      /\ x6'.config = Agents!Shown'.id
      /\ Agents!RequestsOwn(x9)'
      /\ x7' \in [agent : {0} \cup Agents!Ids, moved : BOOLEAN]
      /\ Agents!ReadinessOfAgentShown'
  BY RenderKeeps
<1>2. /\ Agents!TypeOK /\ Agents!EditsStayWithTheirAgent
      /\ Agents!RecordsOwn(x1) /\ Agents!RecordsOwn(x3)
      /\ \A k \in 1..Len(x1) : x1[k].id = k
      /\ x2 = "answered" => x3 # <<>>
  BY DEF Agents!IInv
<1>3. /\ x3' \in Seq(Agents!Record) /\ Agents!RecordsOwn(x3)'
      /\ x2' \in {"asked", "answered", "done"}
      /\ x2' = "answered" => x3' # <<>>
  <2>1. CASE x2' = x2 /\ x3' = x3
    BY <1>2, <2>1 DEF Agents!TypeOK, Agents!RecordsOwn
  <2>2. CASE x2' = "done" /\ x3' = <<>>
    <3>1. x3' \in Seq(Agents!Record) /\ Len(x3') = 0
      BY <2>2
    <3> QED
      BY <2>2, <3>1 DEF Agents!RecordsOwn
  <2> QED
    BY <2>1, <2>2
<1>4. \A s \in Slots :
        /\ x9'[s].kind \in {"none", "save", "status", "check", "create"}
        /\ x9'[s].pc \in {"idle", "sent", "answered"}
  BY <1>1 DEF Agents!RequestsOwn
<1>5. Agents!TypeOK'
  BY <1>1, <1>2, <1>3, <1>4 DEF Agents!TypeOK, Agents!None
<1>6. Agents!RecordsOwn(x1)' /\ Agents!RecordsOwn(x4)'
  BY <1>2 DEF Agents!RecordsOwn
<1> QED
  BY <1>1, <1>2, <1>3, <1>5, <1>6 DEF Agents!IInv, Agents!EditsStayWithTheirAgent

\* A slot that is emptied, and the result it brought, if any.
LEMMA SlotEmptied ==
    ASSUME MaxAgents \in Nat \ {0}, Agents!IInv, NEW r \in Slots,
           x9' = [x9 EXCEPT ![r] = Agents!NoRequest],
           UNCHANGED <<x1, x2, x3, x4, x5, x6, x8>>,
           \/ x7' = x7
           \/ x7' = [agent |-> x9[r].agent, moved |-> x9[r].moved] /\ x9[r].kind = "check"
    PROVE  Agents!IInv'
<1>1. /\ Agents!TypeOK /\ Agents!RequestsOwn(x9) /\ Agents!ReadinessOfAgentShown
      /\ x1 \in Seq(Agents!Record) /\ Len(x1) \in 1..MaxAgents
  BY DEF Agents!IInv, Agents!TypeOK
<1>2. Agents!Shown' = Agents!Shown
  BY DEF Agents!Shown
<1>3. Agents!RequestsOwn(x9)'
  <2>1. Agents!RequestsOwn([x9 EXCEPT ![r] = Agents!NoRequest])
    BY <1>1, SlotFreed
  <2>2. Agents!RequestsOwn(x9')
    BY <2>1
  <2> QED
    BY <1>2, <2>2 DEF Agents!RequestsOwn, Agents!RecordsOwn
<1>4. \A s \in Slots :
        /\ x9'[s].kind \in {"none", "save", "status", "check", "create"}
        /\ x9'[s].pc \in {"idle", "sent", "answered"}
  BY <1>3 DEF Agents!RequestsOwn
<1>5. /\ x7' \in [agent : {0} \cup Agents!Ids, moved : BOOLEAN]
      /\ Agents!ReadinessOfAgentShown'
  <2>1. CASE x7' = x7
    BY <1>1, <1>2, <2>1 DEF Agents!TypeOK, Agents!ReadinessOfAgentShown, Agents!None
  <2>2. CASE x7' = [agent |-> x9[r].agent, moved |-> x9[r].moved] /\ x9[r].kind = "check"
    <3>1. /\ x9[r] \in PanelRequest(Len(x1))
          /\ ~x9[r].moved => x9[r].agent = Agents!Shown.id
      BY <1>1, <2>2, SlotOwn
    <3>2. x9[r].agent \in 0..Len(x1) /\ x9[r].moved \in BOOLEAN
      BY <3>1 DEF PanelRequest
    <3>3. x9[r].agent \in {0} \cup Agents!Ids
      <4>1. Len(x1) \in 1..MaxAgents
        BY <1>1
      <4> QED
        BY ONLY <3>2, <4>1, MaxAgents \in Nat \ {0} DEF Agents!Ids
    <3> QED
      BY <1>2, <2>2, <3>1, <3>2, <3>3 DEF Agents!ReadinessOfAgentShown
  <2> QED
    BY <2>1, <2>2
<1>6. Agents!TypeOK'
  BY <1>1, <1>4, <1>5 DEF Agents!TypeOK, Agents!None
<1> QED
  BY <1>2, <1>3, <1>5, <1>6 DEF Agents!IInv, Agents!RecordsOwn,
     Agents!EditsStayWithTheirAgent

LEMMA AgentsStep ==
    ASSUME MaxAgents \in Nat \ {0}, Agents!IInv, Agents!Next
    PROVE  Agents!IInv'
<1> USE DEF Agents!None
<1>1. /\ Agents!TypeOK /\ Agents!RequestsOwn(x9)
      /\ x1 \in Seq(Agents!Record) /\ x3 \in Seq(Agents!Record) /\ x4 \in Seq(Agents!Record)
      /\ Agents!RecordsOwn(x1) /\ Agents!RecordsOwn(x3) /\ Agents!RecordsOwn(x4)
      /\ x5 \in {0} \cup Agents!Ids /\ x8 \in BOOLEAN
      /\ x2 = "answered" => x3 # <<>>
      /\ x6.config = Agents!Shown.id
      /\ x6 \in [key : {0} \cup Agents!Ids, config : {0} \cup Agents!Ids]
      /\ Len(x1) \in 1..MaxAgents
  BY DEF Agents!IInv, Agents!TypeOK
<1>2. /\ Agents!Shown.id \in 0..Len(x1) /\ Agents!Shown.id \in {0} \cup Agents!Ids
      /\ Agents!Shown # Agents!NoRecord => Agents!Shown.id \in 1..Len(x1)
      /\ Agents!Shown.config = Agents!Shown.id
  BY <1>1, ShownOwn DEF Agents!Shown
<1>3. ASSUME Agents!LoadAnswered
      PROVE  Agents!IInv'
  <2>1. x2' = "answered" /\ x3' = x1 /\ UNCHANGED <<x1, x4, x5, x6, x7, x8, x9>>
    BY <1>3 DEF Agents!LoadAnswered
  <2>2. Agents!Shown' = Agents!Shown
    BY <2>1 DEF Agents!Shown
  <2>3. Agents!RequestsOwn(x9)'
    BY <1>1, <2>1, <2>2 DEF Agents!RequestsOwn, Agents!RecordsOwn
  <2>4. x1 # <<>>
    BY <1>1
  <2>5. Agents!TypeOK'
    BY <1>1, <2>1 DEF Agents!TypeOK
  <2>6. Agents!RecordsOwn(x1)' /\ Agents!RecordsOwn(x3)' /\ Agents!RecordsOwn(x4)'
    BY <1>1, <2>1 DEF Agents!RecordsOwn
  <2> QED
    BY <2>1, <2>2, <2>3, <2>4, <2>5, <2>6 DEF Agents!IInv, Agents!EditsStayWithTheirAgent,
       Agents!ReadinessOfAgentShown
<1>4. ASSUME Agents!LoadArrives
      PROVE  Agents!IInv'
  <2>1. /\ x2 = "answered" /\ x2' = "done" /\ x3' = <<>> /\ x1' = x1 /\ x8' = x8
        /\ \/ x4' = x3 /\ x5' = x3[1].id
           \/ x4' = <<>> /\ x5' = 0
        /\ Agents!Render(x9) /\ Agents!KeepReadiness(x7)
    BY <1>4 DEF Agents!LoadArrives
  <2>2. /\ x4' \in Seq(Agents!Record) /\ Agents!RecordsOwn(x4')
        /\ x5' \in {0} \cup Agents!Ids
    <3>1. CASE x4' = x3 /\ x5' = x3[1].id
      <4>1. x3[1] \in Agents!Record
        BY <1>1, <2>1
      <4> QED
        BY <1>1, <3>1, <4>1 DEF Agents!Record
    <3>2. CASE x4' = <<>> /\ x5' = 0
      <4>1. x4' \in Seq(Agents!Record) /\ Len(x4') = 0
        BY <3>2
      <4> QED
        BY <3>2, <4>1 DEF Agents!RecordsOwn
    <3> QED
      BY <2>1, <3>1, <3>2
  <2> QED
    BY <1>1, <2>1, <2>2, ListMoves
<1>5. ASSUME Agents!Type
      PROVE  Agents!IInv'
  <2>1. /\ x6' = [x6 EXCEPT !.config = Agents!Shown.id]
        /\ UNCHANGED <<x1, x2, x3, x4, x5, x7, x8, x9>>
    BY <1>5 DEF Agents!Type
  <2>2. /\ x6' \in [key : {0} \cup Agents!Ids, config : {0} \cup Agents!Ids]
        /\ x6'.config = Agents!Shown.id
    BY <1>1, <1>2, <2>1
  <2>3. Agents!Shown' = Agents!Shown
    BY <2>1 DEF Agents!Shown
  <2>4. Agents!RequestsOwn(x9)'
    BY <1>1, <2>1, <2>3 DEF Agents!RequestsOwn, Agents!RecordsOwn
  <2>5. Agents!TypeOK'
    BY <1>1, <2>1, <2>2 DEF Agents!TypeOK
  <2> QED
    BY <2>1, <2>2, <2>3, <2>4, <2>5 DEF Agents!IInv, Agents!RecordsOwn,
       Agents!EditsStayWithTheirAgent, Agents!ReadinessOfAgentShown
<1>6. ASSUME NEW i \in Agents!Ids, Agents!Select(i)
      PROVE  Agents!IInv'
  <2>1. /\ x5' = i /\ UNCHANGED <<x1, x2, x3, x4, x8>>
        /\ Agents!Render(x9) /\ Agents!KeepReadiness(x7)
    BY <1>6 DEF Agents!Select
  <2>2. /\ x4' \in Seq(Agents!Record) /\ Agents!RecordsOwn(x4')
        /\ x5' \in {0} \cup Agents!Ids /\ x8' \in BOOLEAN
    BY <1>1, <2>1
  <2>3. x1' = x1 /\ x2' = x2 /\ x3' = x3
    BY <2>1
  <2> QED
    BY <1>1, <2>1, <2>2, <2>3, ListMoves
<1>7. ASSUME NEW open \in BOOLEAN, Agents!SetIsCreateDraftOpen(open)
      PROVE  Agents!IInv'
  <2>1. x8' = open /\ UNCHANGED <<x1, x2, x3, x4, x5, x6, x7, x9>>
    BY <1>7 DEF Agents!SetIsCreateDraftOpen
  <2>2. Agents!Shown' = Agents!Shown
    BY <2>1 DEF Agents!Shown
  <2>3. Agents!RequestsOwn(x9)'
    BY <1>1, <2>1, <2>2 DEF Agents!RequestsOwn, Agents!RecordsOwn
  <2>4. Agents!TypeOK'
    BY <1>1, <2>1 DEF Agents!TypeOK
  <2> QED
    BY <2>1, <2>2, <2>3, <2>4 DEF Agents!IInv, Agents!RecordsOwn,
       Agents!EditsStayWithTheirAgent, Agents!ReadinessOfAgentShown
<1>8. ASSUME NEW r \in Slots, Agents!UpdateAgentConfiguration(r)
      PROVE  Agents!IInv'
  <2> DEFINE sent == [Agents!NoRequest EXCEPT !.kind = "save", !.agent = Agents!Shown.id,
                                              !.pc = "sent", !.config = x6.config]
  <2>1. Agents!Shown # Agents!NoRecord /\ Agents!Send(r, sent)
    BY <1>8 DEF Agents!UpdateAgentConfiguration
  <2>2. /\ sent \in [kind : {"save", "status", "check", "create"},
                     agent : 0..Len(x1), config : {0} \cup Agents!Ids,
                     retire : BOOLEAN, pc : {"sent"},
                     answer : {Agents!NoRecord}, moved : BOOLEAN]
        /\ sent.kind = "save" /\ sent.agent = Agents!Shown.id
        /\ sent.config = Agents!Shown.id
    BY <1>1, <1>2 DEF Agents!NoRequest
  <2> HIDE DEF sent
  <2>3. sent.agent # 0
    BY <1>2, <2>1, <2>2
  <2> QED
    BY <2>1, <2>2, <2>3, SendKeeps
<1>9. ASSUME NEW r \in Slots, NEW retire \in BOOLEAN, Agents!SetAgentStatus(r, retire)
      PROVE  Agents!IInv'
  <2> DEFINE sent == [Agents!NoRequest EXCEPT !.kind = "status", !.agent = Agents!Shown.id,
                                              !.pc = "sent", !.retire = retire]
  <2>1. ~Agents!Shown.retired /\ Agents!Send(r, sent)
    BY <1>9 DEF Agents!SetAgentStatus
  <2>2. /\ sent \in [kind : {"save", "status", "check", "create"},
                     agent : 0..Len(x1), config : {0} \cup Agents!Ids,
                     retire : BOOLEAN, pc : {"sent"},
                     answer : {Agents!NoRecord}, moved : BOOLEAN]
        /\ sent.kind = "status" /\ sent.agent = Agents!Shown.id
    BY <1>1, <1>2 DEF Agents!NoRequest
  <2> HIDE DEF sent
  <2>3. Agents!Shown # Agents!NoRecord
    BY <2>1 DEF Agents!NoRecord
  <2>4. sent.agent # 0
    BY <1>2, <2>2, <2>3
  <2> QED
    BY <2>1, <2>2, <2>4, SendKeeps
<1>10. ASSUME NEW r \in Slots, Agents!CheckAgentReadiness(r)
       PROVE  Agents!IInv'
  <2> DEFINE sent == [Agents!NoRequest EXCEPT !.kind = "check", !.agent = Agents!Shown.id,
                                              !.pc = "sent"]
  <2>1. Agents!Shown # Agents!NoRecord /\ Agents!Send(r, sent)
    BY <1>10 DEF Agents!CheckAgentReadiness
  <2>2. /\ sent \in [kind : {"save", "status", "check", "create"},
                     agent : 0..Len(x1), config : {0} \cup Agents!Ids,
                     retire : BOOLEAN, pc : {"sent"},
                     answer : {Agents!NoRecord}, moved : BOOLEAN]
        /\ sent.kind = "check" /\ sent.agent = Agents!Shown.id
    BY <1>1, <1>2 DEF Agents!NoRequest
  <2> HIDE DEF sent
  <2>3. sent.agent # 0
    BY <1>2, <2>1, <2>2
  <2> QED
    BY <2>1, <2>2, <2>3, SendKeeps
<1>11. ASSUME NEW r \in Slots, Agents!CreateAgent(r)
       PROVE  Agents!IInv'
  <2> DEFINE sent == [Agents!NoRequest EXCEPT !.kind = "create", !.pc = "sent"]
  <2>1. Agents!Send(r, sent)
    BY <1>11 DEF Agents!CreateAgent
  <2>2. /\ sent \in [kind : {"save", "status", "check", "create"},
                     agent : 0..Len(x1), config : {0} \cup Agents!Ids,
                     retire : BOOLEAN, pc : {"sent"},
                     answer : {Agents!NoRecord}, moved : BOOLEAN]
        /\ sent.kind = "create"
    <3>1. 0 \in 0..Len(x1)
      BY <1>1
    <3> QED
      BY <3>1 DEF Agents!NoRequest
  <2> HIDE DEF sent
  <2> QED
    BY <2>1, <2>2, SendKeeps
<1>12. ASSUME NEW r \in Slots, Agents!Serve(r)
       PROVE  Agents!IInv'
  BY <1>12, ServeKeeps
<1>13. ASSUME NEW r \in Slots, Agents!AgentArrives(r)
       PROVE  Agents!IInv'
  <2> DEFINE a == x9[r].answer
             left == [x9 EXCEPT ![r] = Agents!NoRequest]
  <2>1. /\ x9[r].pc = "answered" /\ x9[r].kind # "check"
        /\ Agents!UpsertAgent(a)
        /\ x8' = (x8 /\ x9[r].kind # "create")
        /\ Agents!Render(left) /\ Agents!KeepReadiness(x7)
        /\ UNCHANGED <<x1, x2, x3>>
    BY <1>13 DEF Agents!AgentArrives
  <2>2. a \in Agents!Record /\ Agents!RecordsOwn(<<a>>)
    BY <1>1, <2>1 DEF Agents!RequestsOwn
  <2>3. x4' \in Seq(Agents!Record) /\ Agents!RecordsOwn(x4') /\ x5' \in Agents!Ids
    BY <1>1, <2>1, <2>2, UpsertOwn
  <2>4. Agents!RequestsOwn(left)
    BY <1>1, SlotFreed
  <2>5. x8' \in BOOLEAN
    <3>1. (x8 /\ x9[r].kind # "create") \in BOOLEAN
      OBVIOUS
    <3> QED
      BY <2>1, <3>1, Zenon
  <2>6. x1' = x1 /\ x2' = x2 /\ x3' = x3 /\ x5' \in {0} \cup Agents!Ids
    BY <2>1, <2>3
  <2> HIDE DEF left, a
  <2> QED
    BY <2>1, <2>3, <2>4, <2>5, <2>6, ListMoves
<1>14. ASSUME NEW r \in Slots, Agents!ReadinessArrives(r)
       PROVE  Agents!IInv'
  BY <1>14, SlotEmptied DEF Agents!ReadinessArrives
<1>15. ASSUME NEW r \in Slots, Agents!RequestFails(r)
       PROVE  Agents!IInv'
  BY <1>15, SlotEmptied DEF Agents!RequestFails
<1> QED
  BY <1>3, <1>4, <1>5, <1>6, <1>7, <1>8, <1>9, <1>10, <1>11, <1>12, <1>13, <1>14, <1>15
     DEF Agents!Next

LEMMA AgentsStay ==
    ASSUME Agents!IInv, UNCHANGED <<x1, x2, x3, x4, x5, x6, x7, x8, x9>>
    PROVE  Agents!IInv'
<1>1. Agents!Shown' = Agents!Shown
  BY DEF Agents!Shown
<1>2. Agents!RequestsOwn(x9)'
  BY <1>1 DEF Agents!IInv, Agents!RequestsOwn, Agents!RecordsOwn
<1>3. Agents!TypeOK'
  BY DEF Agents!IInv, Agents!TypeOK
<1> QED
  BY <1>1, <1>2, <1>3 DEF Agents!IInv, Agents!RecordsOwn, Agents!EditsStayWithTheirAgent,
     Agents!ReadinessOfAgentShown

-----------------------------------------------------------------------------
(* The page of agents, among the others *)

LEMMA AgentsInvariant == Spec => [](page = "agents" => Agents!IInv)
<1> DEFINE Inv == page = "agents" => Agents!IInv
<1>1. MaxAgents \in Nat \ {0}
  BY PagesAssumption DEF PagesAssumption, Agents!AgentPanelAssumption
<1>2. Init => Inv
  BY <1>1, AgentsInit DEF Init
<1>3. Inv /\ [Next]_tab => Inv'
  <2>1. ASSUME Inv, Next
        PROVE  Inv'
    <3>1. page' = page /\ (page = "agents" => Agents!Next)
      BY <2>1 DEF Next
    <3> QED
      BY <1>1, <2>1, <3>1, AgentsStep
  <2>2. ASSUME Inv, UNCHANGED tab
        PROVE  Inv'
    BY <2>2, AgentsStay DEF tab
  <2> QED
    BY <2>1, <2>2
<1> QED
  BY <1>2, <1>3, PTL DEF Spec

\* What was typed for one agent is not saved as another's configuration, in whatever order
\* the answers come and move the selection, for any number of agents and of requests out.
THEOREM EditsStay == Spec => []EditsStayWithTheirAgent
<1>1. (page = "agents" => Agents!IInv) => EditsStayWithTheirAgent
  BY DEF EditsStayWithTheirAgent, Agents!IInv
<1> QED
  BY <1>1, AgentsInvariant, PTL

\* A readiness result beside an agent is that agent's, unless the selection moved while the
\* check was out.
THEOREM ReadinessIsOfAgent == Spec => []ReadinessOfAgentShown
<1>1. (page = "agents" => Agents!IInv) => ReadinessOfAgentShown
  BY DEF ReadinessOfAgentShown, Agents!IInv
<1> QED
  BY <1>1, AgentsInvariant, PTL

-----------------------------------------------------------------------------
(* ModelPanel: the lists *)

\* Membership in a list of configurations.
LEMMA InList ==
    ASSUME NEW list \in Seq(Models!Record)
    PROVE  /\ Models!ToSet(list) = {list[k] : k \in 1..Len(list)}
           /\ Models!ToSet(list) \subseteq Models!Record
           /\ Models!IdsOf(list) = {c.id : c \in Models!ToSet(list)}
<1>1. Models!ToSet(list) = {list[k] : k \in 1..Len(list)}
  BY DEF Models!ToSet
<1> QED
  BY <1>1 DEF Models!IdsOf

\* No two of a list have one id.
LEMMA OneOfId ==
    ASSUME NEW list \in Seq(Models!Record), Models!IdsDiffer(list),
           NEW c \in Models!ToSet(list), NEW d \in Models!ToSet(list), c.id = d.id
    PROVE  c = d
BY InList DEF Models!IdsDiffer

LEMMA FindOwn ==
    ASSUME NEW list \in Seq(Models!Record), NEW id
    PROVE  LET k == Models!Find(list, id) IN
           /\ k = 0 \/ (k \in 1..Len(list) /\ list[k] \in Models!Record /\ list[k].id = id)
           /\ k = 0 => id \notin Models!IdsOf(list)
<1> DEFINE with == {k \in 1..Len(list) : list[k].id = id}
           at == IF with # {} THEN CHOOSE k \in with : \A j \in with : k <= j ELSE 0
<1>1. Models!Find(list, id) = at
  BY DEF Models!Find, Models!SelectInSeq, Models!Min
<1>2. with \in SUBSET Nat
  OBVIOUS
<1>3. with # {} => at \in with
  BY <1>2, LeastChosen
<1>4. with = {} => at = 0
  OBVIOUS
<1> HIDE DEF at
<1> QED
  BY <1>1, <1>3, <1>4 DEF Models!IdsOf

\* A configuration answered takes the place of the one with its id.
LEMMA ReplaceOwn ==
    ASSUME NEW list \in Seq(Models!Record), NEW c \in Models!Record,
           c.id \in Models!IdsOf(list)
    PROVE  LET new == Models!Replace(list, c) IN
           /\ new \in Seq(Models!Record)
           /\ Models!IdsDiffer(list) => Models!IdsDiffer(new)
           /\ Models!IdsOf(new) = Models!IdsOf(list)
           /\ Models!ToSet(new) = {d \in Models!ToSet(list) : d.id # c.id} \cup {c}
<1> DEFINE new == Models!Replace(list, c)
<1>1. /\ new \in Seq(Models!Record) /\ Len(new) = Len(list)
      /\ \A k \in 1..Len(list) : new[k] = IF list[k].id = c.id THEN c ELSE list[k]
  BY DEF Models!Replace
<1>2. \A k \in 1..Len(list) : new[k].id = list[k].id
  BY <1>1
<1>3. Models!IdsDiffer(list) => Models!IdsDiffer(new)
  BY <1>1, <1>2 DEF Models!IdsDiffer
<1>4. Models!IdsOf(new) = Models!IdsOf(list)
  BY <1>1, <1>2 DEF Models!IdsOf
<1>5. PICK at \in 1..Len(list) : list[at].id = c.id
  BY DEF Models!IdsOf
<1>6. new[at] = c
  BY <1>1, <1>5
<1> HIDE DEF new
<1>7. Models!ToSet(new) = {d \in Models!ToSet(list) : d.id # c.id} \cup {c}
  BY <1>1, <1>5, <1>6, InList
<1> QED
  BY <1>1, <1>3, <1>4, <1>7 DEF new

\* A configuration that was created comes at the end.
LEMMA AppendOwn ==
    ASSUME NEW list \in Seq(Models!Record), NEW c \in Models!Record,
           c.id \notin Models!IdsOf(list)
    PROVE  LET new == Append(list, c) IN
           /\ new \in Seq(Models!Record)
           /\ Models!IdsDiffer(list) => Models!IdsDiffer(new)
           /\ Models!IdsOf(new) = Models!IdsOf(list) \cup {c.id}
           /\ Models!ToSet(new) = Models!ToSet(list) \cup {c}
<1> DEFINE new == Append(list, c)
<1>1. /\ new \in Seq(Models!Record) /\ Len(new) = Len(list) + 1
      /\ \A k \in 1..Len(list) : new[k] = list[k]
      /\ new[Len(list) + 1] = c
  OBVIOUS
<1>2. \A k \in 1..Len(list) : list[k].id # c.id
  BY DEF Models!IdsOf
<1> HIDE DEF new
<1>3. \A k \in 1..Len(new) : k \in 1..Len(list) \/ k = Len(list) + 1
  BY <1>1
<1>4. Models!IdsDiffer(list) => Models!IdsDiffer(new)
  BY <1>1, <1>2, <1>3 DEF Models!IdsDiffer
<1>5. 1..Len(new) = 1..Len(list) \cup {Len(list) + 1}
  BY <1>1
<1>6. Models!ToSet(new) = Models!ToSet(list) \cup {c}
  <2>1. Models!ToSet(new) = {new[k] : k \in 1..Len(new)}
    BY <1>1, InList
  <2>2. Models!ToSet(list) = {list[k] : k \in 1..Len(list)}
    BY InList
  <2> QED
    BY <1>1, <1>5, <2>1, <2>2
<1>7. Models!IdsOf(new) = Models!IdsOf(list) \cup {c.id}
  BY <1>1, <1>5 DEF Models!IdsOf
<1> QED
  BY <1>1, <1>4, <1>6, <1>7 DEF new

\* What a deletion leaves.
LEMMA WithoutOwn ==
    ASSUME NEW list \in Seq(Models!Record), Models!IdsDiffer(list), NEW id
    PROVE  LET new == Models!Without(list, id) IN
           /\ new \in Seq(Models!Record)
           /\ Models!IdsDiffer(new)
           /\ Models!ToSet(new) = {d \in Models!ToSet(list) : d.id # id}
<1> DEFINE new == Models!Without(list, id)
           at == Models!Find(list, id)
<1>1. at = 0 \/ (at \in 1..Len(list) /\ list[at].id = id)
  BY FindOwn
<1>2. at = 0 => \A k \in 1..Len(list) : list[k].id # id
  BY FindOwn DEF Models!IdsOf
<1>3. new = IF \E k \in 1..Len(list) : list[k].id = id
            THEN SubSeq(list, 1, at - 1) \o SubSeq(list, at + 1, Len(list)) ELSE list
  BY DEF Models!Without, Models!RemoveFirstMatch, Models!RemoveAt, Models!Find
<1> HIDE DEF new, at
<1>4. CASE at = 0
  <2>1. new = list
    BY <1>2, <1>3, <1>4
  <2> QED
    BY <1>2, <1>4, <2>1, InList DEF new
<1>5. CASE at \in 1..Len(list) /\ list[at].id = id
  <2> DEFINE front == SubSeq(list, 1, at - 1)
             back == SubSeq(list, at + 1, Len(list))
  <2>1. new = front \o back
    BY <1>3, <1>5
  <2>2. /\ front \in Seq(Models!Record) /\ Len(front) = at - 1
        /\ \A k \in 1..(at - 1) : front[k] = list[k]
    BY <1>5
  <2>3. /\ back \in Seq(Models!Record) /\ Len(back) = Len(list) - at
        /\ \A k \in 1..(Len(list) - at) : back[k] = list[k + at]
    BY <1>5
  <2> HIDE DEF front, back
  <2>4. /\ new \in Seq(Models!Record) /\ Len(new) = Len(list) - 1
        /\ \A k \in 1..Len(new) : new[k] = IF k < at THEN list[k] ELSE list[k + 1]
    <3>1. new \in Seq(Models!Record) /\ Len(new) = Len(front) + Len(back)
      BY <2>1, <2>2, <2>3, ConcatProperties
    <3>2. \A k \in 1..Len(new) :
            new[k] = IF k <= Len(front) THEN front[k] ELSE back[k - Len(front)]
      BY <2>1, <2>2, <2>3
    <3>3. ASSUME NEW k \in 1..Len(new)
          PROVE  new[k] = IF k < at THEN list[k] ELSE list[k + 1]
      <4>1. CASE k < at
        <5>1. new[k] = front[k]
          BY <1>5, <2>2, <3>2, <4>1
        <5>2. k \in 1..(at - 1)
          BY <1>5, <4>1
        <5> QED
          BY <2>2, <4>1, <5>1, <5>2
      <4>2. CASE k >= at
        <5>1. new[k] = back[k - (at - 1)] /\ k - (at - 1) \in 1..(Len(list) - at)
          BY <1>5, <2>2, <2>3, <3>1, <3>2, <4>2
        <5>2. (k - (at - 1)) + at = k + 1
          BY <1>5
        <5>3. ~(k < at)
          BY <1>5, <4>2
        <5> QED
          BY <2>3, <5>1, <5>2, <5>3
      <4> QED
        BY <1>5, <4>1, <4>2
    <3> QED
      BY <1>5, <2>2, <2>3, <3>1, <3>3
  <2>5. Models!IdsDiffer(new)
    BY <1>5, <2>4 DEF Models!IdsDiffer
  <2>6. Models!ToSet(new) = {d \in Models!ToSet(list) : d.id # id}
    <3>1. ASSUME NEW k \in 1..Len(new)
          PROVE  \E j \in 1..Len(list) : new[k] = list[j] /\ list[j].id # id
      <4> DEFINE j == IF k < at THEN k ELSE k + 1
      <4>1. j \in 1..Len(list) /\ j # at /\ new[k] = list[j]
        BY <1>5, <2>4
      <4> HIDE DEF j
      <4>2. list[j].id # id
        BY <1>5, <4>1 DEF Models!IdsDiffer
      <4> QED
        BY <4>1, <4>2
    <3>2. ASSUME NEW j \in 1..Len(list), list[j].id # id
          PROVE  \E k \in 1..Len(new) : new[k] = list[j]
      <4>1. CASE j < at
        BY <1>5, <2>4, <4>1
      <4>2. CASE j > at
        <5>1. j - 1 \in 1..Len(new) /\ ~(j - 1 < at) /\ (j - 1) + 1 = j
          BY <1>5, <2>4, <4>2
        <5> QED
          BY <2>4, <5>1
      <4>3. j # at
        BY <1>5, <3>2
      <4> QED
        BY <1>5, <4>1, <4>2, <4>3
    <3>3. /\ Models!ToSet(new) = {new[k] : k \in 1..Len(new)}
          /\ Models!ToSet(list) = {list[k] : k \in 1..Len(list)}
      BY <2>4, InList
    <3>4. ASSUME NEW d \in Models!ToSet(new)
          PROVE  d \in Models!ToSet(list) /\ d.id # id
      BY <3>1, <3>3
    <3>5. ASSUME NEW d \in Models!ToSet(list), d.id # id
          PROVE  d \in Models!ToSet(new)
      BY <3>2, <3>3, <3>5
    <3> QED
      BY <3>4, <3>5
  <2> QED
    BY <2>4, <2>5, <2>6 DEF new
<1> QED
  BY <1>1, <1>4, <1>5

-----------------------------------------------------------------------------
(* ModelPanel: the requests *)

\* The requests of the page.
ModelRequest ==
    [kind : {"none", "create", "save", "enable", "check", "delete"},
     id : {0} \cup Models!Ids, content : Contents, enabled : BOOLEAN,
     seen : Seq(Models!Record), pc : {"idle", "sent", "answered"},
     answer : Models!Record \cup {Models!NoRecord}]

LEMMA ModelsTypes ==
    ASSUME Models!ModelPanelAssumption
    PROVE  /\ MaxConfigurations \in Nat \ {0} /\ MaxRequests \in Nat
           /\ Models!AnyContent \in Contents
           /\ Models!Ids \subseteq Nat \ {0}
           /\ Models!NoRequest \in ModelRequest
           /\ Models!NoRequest.kind = "none" /\ Models!NoRequest.pc = "idle"
           /\ Models!NoRequest.id = 0
           /\ \A c \in Models!Record : c.id \in Models!Ids
           /\ Models!NoRecord \notin Models!Record /\ Models!NoRecord.id = 0
<1>1. MaxConfigurations \in Nat \ {0} /\ MaxRequests \in Nat /\ Contents # {}
  BY DEF Models!ModelPanelAssumption
<1>2. Models!AnyContent \in Contents
  BY <1>1 DEF Models!AnyContent
<1>3. Models!Ids \subseteq Nat \ {0}
  BY <1>1 DEF Models!Ids
<1>4. << >> \in Seq(Models!Record)
  OBVIOUS
<1>5. /\ Models!NoRequest \in ModelRequest
      /\ Models!NoRequest.kind = "none" /\ Models!NoRequest.pc = "idle"
      /\ Models!NoRequest.id = 0
  BY <1>2, <1>4 DEF Models!NoRequest, ModelRequest, Models!None
<1>6. Models!NoRecord.id = 0
  BY DEF Models!NoRecord, Models!None
<1>7. \A c \in Models!Record : c.id \in Models!Ids
  BY DEF Models!Record
<1> QED
  BY <1>1, <1>2, <1>3, <1>5, <1>6, <1>7

LEMMA ModelsInit ==
    ASSUME Models!ModelPanelAssumption, Models!Init
    PROVE  Models!IInv
<1>1. /\ x2 \in 0..1 /\ x3 = "asked" /\ x4 = <<>> /\ x5 = <<>> /\ x6 = 0 /\ x7 = FALSE
      /\ x1 = IF x2 = 0 THEN <<>> ELSE <<[Models!NoRecord EXCEPT !.id = 1, !.enabled = TRUE]>>
      /\ x8 = [r \in Models!Requests |-> Models!NoRequest]
      /\ x9 = FALSE /\ x10 = FALSE
  BY DEF Models!Init, Models!None
<1> DEFINE one == [Models!NoRecord EXCEPT !.id = 1, !.enabled = TRUE]
<1>2. one \in Models!Record /\ one.id = 1
  <2>1. 1 \in Models!Ids
    BY ModelsTypes DEF Models!Ids
  <2> QED
    BY <2>1, ModelsTypes DEF Models!Record, Models!NoRecord
<1> HIDE DEF one
<1>4. /\ x1 \in Seq(Models!Record) /\ Models!IdsDiffer(x1)
      /\ \A id \in Models!IdsOf(x1) : id <= x2
  <2>1. CASE x2 = 0
    <3>1. x1 \in Seq(Models!Record) /\ Len(x1) = 0
      BY <1>1, <2>1
    <3> QED
      BY <3>1 DEF Models!IdsDiffer, Models!IdsOf
  <2>2. CASE x2 = 1
    <3>1. x1 = <<one>>
      BY <1>1, <2>2 DEF one
    <3>2. x1 \in Seq(Models!Record) /\ Len(x1) = 1 /\ x1[1] = one
      BY <1>2, <3>1
    <3>3. \A k \in 1..Len(x1) : k = 1
      BY <3>2
    <3> QED
      BY <1>2, <2>2, <3>2, <3>3 DEF Models!IdsDiffer, Models!IdsOf
  <2> QED
    BY <1>1, <2>1, <2>2
<1>5. x5 \in Seq(Models!Record) /\ x4 \in Seq(Models!Record) /\ Len(x5) = 0
  BY <1>1
<1>6. Models!IdsDiffer(x5) /\ Models!IdsOf(x5) = {}
  BY <1>5 DEF Models!IdsDiffer, Models!IdsOf
<1>7. Models!RequestsTyped
  BY <1>1, ModelsTypes DEF Models!RequestsTyped, ModelRequest, Models!None
<1>8. Models!RequestsApart
  BY <1>1 DEF Models!RequestsApart
<1>9. Models!TypeOK
  <2>1. x2 \in 0..MaxConfigurations
    BY <1>1, ModelsTypes
  <2>2. \A r \in Models!Requests : x8[r].kind = "none" /\ x8[r].pc = "idle"
    BY <1>1, ModelsTypes
  <2> QED
    BY <1>1, <1>4, <1>5, <2>1, <2>2 DEF Models!TypeOK, Models!None
<1> QED
  BY <1>1, <1>4, <1>6, <1>7, <1>8, <1>9 DEF Models!IInv, Models!ListFollows

\* What is known of a request in flight.
LEMMA SlotKnown ==
    ASSUME Models!ModelPanelAssumption, Models!IInv, ~x9, ~x10,
           NEW r \in Models!Requests, x8[r].pc # "idle"
    PROVE  LET q == x8[r] IN
           /\ q \in ModelRequest /\ q.kind # "none"
           /\ q.kind # "create" => q.id \in Models!IdsOf(x5)
           /\ q.kind = "create" => q.answer.id \notin Models!IdsOf(x5)
           /\ q.kind = "delete" => q.seen = x5
           /\ q.pc = "sent" => q.answer = Models!NoRecord
           /\ q.pc = "answered" /\ q.kind # "delete" =>
                 q.answer.id = Models!Subject(q) /\ q.answer \in Models!Record
           /\ x3 = "done" /\ Models!AnswersMakeUp
<1>1. Models!RequestsTyped /\ Models!ListFollows
  BY DEF Models!IInv
<1>2. x8[r] \in ModelRequest
  BY <1>1 DEF Models!RequestsTyped, ModelRequest, Models!None
<1>3. x8[r] # Models!NoRequest
  BY ModelsTypes
<1>4. Models!RequestsApart
  BY <1>1 DEF Models!ListFollows
<1>5. x3 = "done" /\ Models!AnswersMakeUp
  BY <1>1, <1>3 DEF Models!ListFollows
<1> QED
  BY <1>2, <1>3, <1>4, <1>5 DEF Models!RequestsApart, Models!Subject

\* Two requests in flight: neither deletes, and they are about different configurations.
LEMMA SlotsApart ==
    ASSUME Models!ModelPanelAssumption, Models!IInv, ~x9, ~x10,
           NEW r \in Models!Requests, NEW s \in Models!Requests, r # s,
           x8[r].pc # "idle", x8[s].pc # "idle"
    PROVE  /\ x8[r].kind # "delete" /\ x8[s].kind # "delete"
           /\ Models!Subject(x8[r]) # 0 => Models!Subject(x8[r]) # Models!Subject(x8[s])
<1>1. x8[r] # Models!NoRequest /\ x8[s] # Models!NoRequest
  BY ModelsTypes
<1> QED
  BY <1>1 DEF Models!IInv, Models!ListFollows, Models!RequestsApart, Models!None

\* A request that is there is in flight.
LEMMA IdleSlot ==
    ASSUME Models!ModelPanelAssumption, Models!IInv, ~x9, ~x10,
           NEW r \in Models!Requests
    PROVE  x8[r].pc = "idle" <=> x8[r] = Models!NoRequest
BY ModelsTypes DEF Models!IInv, Models!ListFollows, Models!RequestsApart

\* A selection, a dialog opened or closed, and no step at all.
LEMMA ModelsStill ==
    ASSUME Models!IInv, UNCHANGED <<x1, x2, x3, x4, x5, x8, x9, x10>>,
           x6' \in {0} \cup Models!Ids, x7' \in BOOLEAN
    PROVE  Models!IInv'
<1>1. Models!TypeOK'
  BY DEF Models!IInv, Models!TypeOK, Models!None
<1>2. Models!RequestsTyped'
  BY DEF Models!IInv, Models!RequestsTyped
<1>3. Models!Deleted' = Models!Deleted /\ Models!Answers' = Models!Answers
  BY DEF Models!Deleted, Models!Answers
<1>4. Models!AnswersMakeUp => Models!AnswersMakeUp'
  BY <1>3 DEF Models!AnswersMakeUp
<1>5. Models!RequestsApart => Models!RequestsApart'
  BY DEF Models!RequestsApart
<1>6. Models!ListFollows => Models!ListFollows'
  BY <1>4, <1>5 DEF Models!ListFollows
<1> QED
  BY <1>1, <1>2, <1>6 DEF Models!IInv

\* The load arrives before anything is asked for.
LEMMA ModelsLoadAnswered ==
    ASSUME Models!ModelPanelAssumption, Models!IInv, ~x9, ~x10, Models!LoadAnswered
    PROVE  Models!IInv'
<1>1. /\ x3 = "asked" /\ x3' = "answered" /\ x4' = x1
      /\ UNCHANGED <<x1, x2, x5, x6, x7, x8, x9, x10>>
  BY DEF Models!LoadAnswered, Models!page
<1>2. Models!TypeOK'
  BY <1>1 DEF Models!IInv, Models!TypeOK
<1>3. Models!RequestsTyped'
  BY <1>1 DEF Models!IInv, Models!RequestsTyped
<1>4. Models!ListFollows
  BY DEF Models!IInv
<1>5. Models!RequestsApart'
  BY <1>1, <1>4 DEF Models!ListFollows, Models!RequestsApart
<1>6. Models!ListFollows'
  BY <1>1, <1>4, <1>5 DEF Models!ListFollows
<1> QED
  BY <1>2, <1>3, <1>6 DEF Models!IInv

LEMMA ModelsLoadArrives ==
    ASSUME Models!ModelPanelAssumption, Models!IInv, ~x9, ~x10, Models!LoadArrives
    PROVE  Models!IInv'
<1>1. /\ x3 = "answered" /\ x3' = "done" /\ x4' = <<>>
      /\ \/ x5' = x4 /\ x10' = x10
         \/ x5' = <<>> /\ x10' = TRUE
      /\ x6' = IF x5' = <<>> THEN 0 ELSE x5'[1].id
      /\ UNCHANGED <<x1, x2, x7, x8, x9>>
  BY DEF Models!LoadArrives, Models!None
<1>2. /\ Models!TypeOK /\ Models!RequestsTyped /\ Models!ListFollows
      /\ x1 \in Seq(Models!Record) /\ x4 \in Seq(Models!Record)
  BY DEF Models!IInv, Models!TypeOK
<1>3. /\ x4 = x1 /\ \A r \in Models!Requests : x8[r] = Models!NoRequest
      /\ Models!IdsDiffer(x1) /\ \A id \in Models!IdsOf(x1) : id <= x2
  BY <1>1, <1>2 DEF Models!ListFollows
<1>4. x5' \in Seq(Models!Record) /\ x4' \in Seq(Models!Record)
  <2>1. << >> \in Seq(Models!Record)
    OBVIOUS
  <2> QED
    BY <1>1, <1>2, <2>1
<1>5. x6' \in {0} \cup Models!Ids
  <2>1. CASE x5' = <<>>
    BY <1>1, <2>1
  <2>2. CASE x5' # <<>>
    <3>1. x5'[1] \in Models!Record
      BY <1>4, <2>2
    <3> QED
      BY <1>1, <2>2, <3>1, ModelsTypes
  <2> QED
    BY <2>1, <2>2
<1>6. Models!TypeOK'
  BY <1>1, <1>2, <1>4, <1>5 DEF Models!TypeOK, Models!None
<1>7. Models!RequestsTyped'
  BY <1>1, <1>2 DEF Models!RequestsTyped
<1>8. ASSUME ~x10'
      PROVE  Models!ListFollows'
  <2>1. x5' = x1 /\ x1' = x1 /\ x2' = x2
    BY <1>1, <1>3, <1>8
  <2>2. Models!RequestsApart'
    BY <1>1, <1>3 DEF Models!RequestsApart
  <2>3. Models!Deleted' = {} /\ Models!Answers' = {}
    BY <1>1, <1>3, ModelsTypes DEF Models!Deleted, Models!Answers
  <2>4. Models!AnswersMakeUp'
    BY <2>1, <2>3 DEF Models!AnswersMakeUp
  <2> QED
    BY <1>1, <1>3, <2>1, <2>2, <2>4 DEF Models!ListFollows
<1> QED
  BY <1>6, <1>7, <1>8 DEF Models!IInv

\* The configuration shown is one of the list, where there is one.
LEMMA ModelShown ==
    ASSUME x5 \in Seq(Models!Record), Models!Shown # Models!NoRecord
    PROVE  Models!Shown \in Models!Record /\ Models!Shown.id \in Models!IdsOf(x5)
<1>1. Models!Shown \in {x5[k] : k \in 1..Len(x5)}
  BY FindOwn DEF Models!Shown
<1> QED
  BY <1>1 DEF Models!IdsOf

\* Where requests do not cross, the one sent is about a configuration that no other is about.
LEMMA ModelSends ==
    ASSUME Models!ModelPanelAssumption, Models!IInv, ~x9, ~x10, NEW r \in Models!Requests,
           NEW sent \in ModelRequest, Models!Send(r, sent),
           sent.answer = Models!NoRecord, sent.kind # "none",
           IF sent.kind = "create" THEN sent.id = 0 ELSE sent.id \in Models!IdsOf(x5)
    PROVE  Models!IInv'
<1> DEFINE p == [sent EXCEPT !.pc = "sent", !.seen = x5]
<1>1. /\ x8[r] = Models!NoRequest /\ x8' = [x8 EXCEPT ![r] = p]
      /\ x9' = (x9 \/ Models!Crosses(sent.kind, sent.id))
      /\ UNCHANGED <<x1, x2, x3, x4, x5, x6, x7, x10>>
  BY DEF Models!Send, Models!load, Models!page
<1>2. /\ Models!TypeOK /\ Models!RequestsTyped /\ Models!ListFollows
      /\ x5 \in Seq(Models!Record)
  BY DEF Models!IInv, Models!TypeOK
<1>3. /\ p \in ModelRequest /\ p.kind = sent.kind /\ p.id = sent.id /\ p.pc = "sent"
      /\ p.seen = x5 /\ p.answer = Models!NoRecord
  BY <1>2 DEF ModelRequest
<1> HIDE DEF p
<1>4. x8 \in [Models!Requests -> ModelRequest]
  BY <1>2 DEF Models!RequestsTyped, ModelRequest, Models!None
<1>5. /\ x8' \in [Models!Requests -> ModelRequest]
      /\ \A s \in Models!Requests : x8'[s] = IF s = r THEN p ELSE x8[s]
  BY <1>1, <1>3, <1>4
<1>6. Models!RequestsTyped'
  BY <1>5 DEF Models!RequestsTyped, ModelRequest, Models!None
<1>7. Models!TypeOK'
  <2>1. x9' \in BOOLEAN
    <3>1. (x9 \/ Models!Crosses(sent.kind, sent.id)) \in BOOLEAN
      OBVIOUS
    <3> QED
      BY <1>1, <3>1, Zenon
  <2>2. \A s \in Models!Requests :
          /\ x8'[s].kind \in {"none", "create", "save", "enable", "check", "delete"}
          /\ x8'[s].pc \in {"idle", "sent", "answered"}
    BY <1>5 DEF ModelRequest
  <2> QED
    BY <1>1, <1>2, <2>1, <2>2 DEF Models!TypeOK
<1>8. ASSUME ~x9'
      PROVE  Models!ListFollows'
  <2>1. /\ x3 = "done"
        /\ \A s \in Models!Requests :
              x8[s] # Models!NoRequest =>
                 /\ sent.kind # "delete" /\ x8[s].kind # "delete"
                 /\ sent.id # 0 => sent.id # x8[s].id
    <3>1. ~Models!Crosses(sent.kind, sent.id)
      BY <1>1, <1>8
    <3> QED
      BY <3>1 DEF Models!Crosses, Models!None
  <2>2. Models!RequestsApart /\ Models!AnswersMakeUp
    BY <1>2, <2>1 DEF Models!ListFollows
  <2>3. 0 \notin Models!IdsOf(x5)
    BY <1>2, InList, ModelsTypes
  <2>4. Models!Subject(p) = sent.id
    BY <1>3, ModelsTypes DEF Models!Subject
  <2>5. ASSUME NEW s \in Models!Requests, x8[s] # Models!NoRequest
        PROVE  Models!Subject(p) = 0 \/ Models!Subject(p) # Models!Subject(x8[s])
    <3>1. CASE x8[s].kind = "create" /\ sent.kind # "create"
      BY <2>2, <2>4, <2>5, <3>1 DEF Models!RequestsApart
    <3>2. CASE x8[s].kind # "create"
      BY <2>1, <2>4, <2>5, <3>2 DEF Models!Subject
    <3> QED
      BY <2>4, <3>1, <3>2
  <2>6. Models!RequestsApart'
    <3>1. ASSUME NEW s \in Models!Requests
          PROVE  LET q == x8'[s] IN
                 \/ q = Models!NoRequest
                 \/ /\ q.pc # "idle" /\ q.kind # "none"
                    /\ q.kind # "create" => q.id \in Models!IdsOf(x5)
                    /\ q.kind = "create" => Models!Subject(q) \notin Models!IdsOf(x5)
                    /\ q.kind = "delete" => q.seen = x5
                    /\ q.pc = "sent" => q.answer = Models!NoRecord
                    /\ q.pc = "answered" /\ q.kind # "delete" =>
                          q.answer.id = Models!Subject(q) /\ q.answer \in Models!Record
      <4>1. CASE s = r
        BY <1>3, <1>5, <2>3, <2>4, <4>1
      <4>2. CASE s # r
        BY <1>5, <2>2, <4>2 DEF Models!RequestsApart
      <4> QED
        BY <4>1, <4>2
    <3>2. ASSUME NEW s \in Models!Requests, NEW t \in Models!Requests, s # t,
                 x8'[s] # Models!NoRequest, x8'[t] # Models!NoRequest
          PROVE  /\ x8'[s].kind # "delete"
                 /\ Models!Subject(x8'[s]) = Models!Subject(x8'[t]) => Models!Subject(x8'[s]) = 0
      <4>1. CASE s = r
        BY <1>3, <1>5, <2>1, <2>5, <3>2, <4>1
      <4>2. CASE t = r
        BY <1>5, <2>1, <2>5, <3>2, <4>2
      <4>3. CASE s # r /\ t # r
        BY <1>5, <2>2, <3>2, <4>3 DEF Models!RequestsApart, Models!None
      <4> QED
        BY <4>1, <4>2, <4>3
    <3> QED
      BY <1>1, <3>1, <3>2 DEF Models!RequestsApart, Models!None
  <2>7. Models!Deleted' = Models!Deleted /\ Models!Answers' = Models!Answers
    <3>1. \A s \in Models!Requests : x8'[s].pc = "answered" \/ x8[s].pc = "answered" => x8'[s] = x8[s]
      BY <1>1, <1>3, <1>5, ModelsTypes
    <3> QED
      BY <3>1 DEF Models!Deleted, Models!Answers
  <2>8. \A s \in Models!Deleted : x8'[s].id = x8[s].id
    BY <1>1, <1>5, ModelsTypes DEF Models!Deleted
  <2>9. Models!AnswersMakeUp'
    BY <1>1, <2>2, <2>7, <2>8 DEF Models!AnswersMakeUp
  <2> QED
    BY <1>1, <1>2, <2>1, <2>6, <2>9 DEF Models!ListFollows
<1> QED
  BY <1>6, <1>7, <1>8 DEF Models!IInv

\* A slot is freed of a request that brings nothing to the list.
LEMMA ModelFails ==
    ASSUME Models!ModelPanelAssumption, Models!IInv, ~x9, ~x10, NEW r \in Models!Requests,
           Models!RequestFails(r)
    PROVE  Models!IInv'
<1>1. /\ x8[r].pc # "idle" /\ x8' = [x8 EXCEPT ![r] = Models!NoRequest]
      /\ x10' = (x10 \/ x8[r].pc = "answered")
      /\ UNCHANGED <<x1, x2, x3, x4, x5, x6, x7, x9>>
  BY DEF Models!RequestFails, Models!load, Models!page
<1>2. /\ Models!TypeOK /\ Models!RequestsTyped /\ Models!ListFollows
      /\ x8 \in [Models!Requests -> ModelRequest]
  BY DEF Models!IInv, Models!RequestsTyped, ModelRequest, Models!None
<1>3. /\ x8' \in [Models!Requests -> ModelRequest]
      /\ \A s \in Models!Requests : x8'[s] = IF s = r THEN Models!NoRequest ELSE x8[s]
  BY <1>1, <1>2, ModelsTypes
<1>4. Models!RequestsTyped'
  BY <1>3 DEF Models!RequestsTyped, ModelRequest, Models!None
<1>5. Models!TypeOK'
  <2>1. x10' \in BOOLEAN
    <3>1. (x10 \/ x8[r].pc = "answered") \in BOOLEAN
      OBVIOUS
    <3> QED
      BY <1>1, <3>1, Zenon
  <2>2. \A s \in Models!Requests :
          /\ x8'[s].kind \in {"none", "create", "save", "enable", "check", "delete"}
          /\ x8'[s].pc \in {"idle", "sent", "answered"}
    BY <1>3 DEF ModelRequest
  <2> QED
    BY <1>1, <1>2, <2>1, <2>2 DEF Models!TypeOK
<1>6. ASSUME ~x10'
      PROVE  Models!ListFollows'
  <2>1. x8[r].pc # "answered"
    BY <1>1, <1>6
  <2>2. x3 = "done" /\ Models!AnswersMakeUp /\ Models!RequestsApart
    BY <1>1, <1>2, SlotKnown DEF Models!ListFollows
  <2>3. Models!RequestsApart'
    BY <1>1, <1>3, <2>2 DEF Models!RequestsApart
  <2>4. \A s \in Models!Requests :
          x8'[s].pc = "answered" \/ x8[s].pc = "answered" => x8'[s] = x8[s]
    BY <1>3, <2>1, ModelsTypes
  <2>5. Models!Deleted' = Models!Deleted /\ Models!Answers' = Models!Answers
    BY <2>4 DEF Models!Deleted, Models!Answers
  <2>6. \A s \in Models!Deleted : x8'[s].id = x8[s].id
    BY <2>4 DEF Models!Deleted
  <2>7. Models!AnswersMakeUp'
    BY <1>1, <2>2, <2>5, <2>6 DEF Models!AnswersMakeUp
  <2> QED
    BY <1>1, <1>2, <2>2, <2>3, <2>7 DEF Models!ListFollows
<1> QED
  BY <1>4, <1>5, <1>6 DEF Models!IInv

\* An answer puts its record, which is the server's, into the list.
LEMMA ModelArrives ==
    ASSUME Models!ModelPanelAssumption, Models!IInv, ~x9, ~x10, NEW r \in Models!Requests,
           Models!ConfigurationArrives(r)
    PROVE  Models!IInv'
<1> DEFINE c == x8[r].answer
<1>1. /\ x8[r].pc = "answered" /\ x8[r].kind # "delete"
      /\ x5' = IF c.id \in Models!IdsOf(x5) THEN Models!Replace(x5, c) ELSE Append(x5, c)
      /\ x6' = c.id
      /\ x7' = (x7 /\ x8[r].kind # "create")
      /\ x8' = [x8 EXCEPT ![r] = Models!NoRequest]
      /\ UNCHANGED <<x1, x2, x3, x4, x9, x10>>
  BY DEF Models!ConfigurationArrives, Models!UpsertModelConfiguration, Models!load
<1>2. /\ Models!TypeOK /\ Models!RequestsTyped /\ Models!ListFollows
      /\ x1 \in Seq(Models!Record) /\ x5 \in Seq(Models!Record)
      /\ x8 \in [Models!Requests -> ModelRequest]
  BY DEF Models!IInv, Models!TypeOK, Models!RequestsTyped, ModelRequest, Models!None
<1>3. /\ c \in Models!Record /\ c.id = Models!Subject(x8[r])
      /\ x3 = "done" /\ Models!AnswersMakeUp /\ Models!RequestsApart
      /\ Models!IdsDiffer(x1) /\ Models!IdsDiffer(x5)
      /\ \A id \in Models!IdsOf(x1) \cup Models!IdsOf(x5) : id <= x2
  BY <1>1, <1>2, SlotKnown DEF Models!ListFollows
<1>4. c.id \in Models!Ids /\ c.id # 0
  BY <1>3, ModelsTypes
<1>5. /\ x8' \in [Models!Requests -> ModelRequest]
      /\ \A s \in Models!Requests : x8'[s] = IF s = r THEN Models!NoRequest ELSE x8[s]
  BY <1>1, <1>2, ModelsTypes
<1>6. /\ x5' \in Seq(Models!Record)
      /\ Models!IdsDiffer(x5')
      /\ Models!IdsOf(x5') = Models!IdsOf(x5) \cup {c.id}
      /\ Models!ToSet(x5') = {d \in Models!ToSet(x5) : d.id # c.id} \cup {c}
  <2>1. CASE c.id \in Models!IdsOf(x5)
    BY <1>1, <1>2, <1>3, <2>1, ReplaceOwn
  <2>2. CASE c.id \notin Models!IdsOf(x5)
    <3>1. \A d \in Models!ToSet(x5) : d.id # c.id
      BY <1>2, <2>2, InList
    <3> QED
      BY <1>1, <1>2, <1>3, <2>2, <3>1, AppendOwn
  <2> QED
    BY <2>1, <2>2
<1>7. Models!RequestsTyped'
  BY <1>5 DEF Models!RequestsTyped, ModelRequest, Models!None
<1>8. Models!TypeOK'
  <2>1. x7' \in BOOLEAN
    <3>1. (x7 /\ x8[r].kind # "create") \in BOOLEAN
      OBVIOUS
    <3> QED
      BY <1>1, <3>1, Zenon
  <2>2. \A s \in Models!Requests :
          /\ x8'[s].kind \in {"none", "create", "save", "enable", "check", "delete"}
          /\ x8'[s].pc \in {"idle", "sent", "answered"}
    BY <1>5 DEF ModelRequest
  <2> QED
    BY <1>1, <1>2, <1>4, <1>6, <2>1, <2>2 DEF Models!TypeOK
\* No other request deletes, or is about the configuration answered.
<1>9. ASSUME NEW s \in Models!Requests, s # r, x8[s].pc # "idle"
      PROVE  x8[s].kind # "delete" /\ Models!Subject(x8[s]) # c.id
  BY <1>1, <1>3, <1>4, <1>9, SlotsApart
<1>10. Models!RequestsApart'
  <2>1. ASSUME NEW s \in Models!Requests
        PROVE  LET q == x8'[s] IN
               \/ q = Models!NoRequest
               \/ /\ q.pc # "idle" /\ q.kind # "none"
                  /\ q.kind # "create" => q.id \in Models!IdsOf(x5')
                  /\ q.kind = "create" => Models!Subject(q) \notin Models!IdsOf(x5')
                  /\ q.kind = "delete" => q.seen = x5'
                  /\ q.pc = "sent" => q.answer = Models!NoRecord
                  /\ q.pc = "answered" /\ q.kind # "delete" =>
                        q.answer.id = Models!Subject(q) /\ q.answer \in Models!Record
    <3>1. CASE s = r \/ x8[s] = Models!NoRequest
      BY <1>5, <3>1
    <3>2. CASE s # r /\ x8[s] # Models!NoRequest
      <4>1. x8[s].pc # "idle" /\ x8'[s] = x8[s]
        BY <1>5, <3>2, IdleSlot
      <4>2. x8[s].kind # "delete" /\ Models!Subject(x8[s]) # c.id
        BY <1>9, <3>2, <4>1
      <4> QED
        BY <1>3, <1>6, <3>2, <4>1, <4>2 DEF Models!RequestsApart
    <3> QED
      BY <3>1, <3>2
  <2>2. ASSUME NEW s \in Models!Requests, NEW t \in Models!Requests, s # t,
               x8'[s] # Models!NoRequest, x8'[t] # Models!NoRequest
        PROVE  /\ x8'[s].kind # "delete"
               /\ Models!Subject(x8'[s]) = Models!Subject(x8'[t]) => Models!Subject(x8'[s]) = 0
    BY <1>3, <1>5, <2>2 DEF Models!RequestsApart, Models!None
  <2> QED
    BY <2>1, <2>2 DEF Models!RequestsApart, Models!None
<1>11. Models!AnswersMakeUp'
  <2>1. Models!Deleted = {} /\ Models!Deleted' = {}
    BY <1>1, <1>5, <1>9, ModelsTypes DEF Models!Deleted
  <2>2. /\ c \in Models!Answers
        /\ Models!Answers' \subseteq Models!Answers
        /\ \A a \in Models!Answers : a # c => a \in Models!Answers' /\ a.id # c.id
    <3>1. c \in Models!Answers
      BY <1>1 DEF Models!Answers
    <3>2. Models!Answers' \subseteq Models!Answers
      BY <1>5, ModelsTypes DEF Models!Answers
    <3>3. ASSUME NEW a \in Models!Answers, a # c
          PROVE  a \in Models!Answers' /\ a.id # c.id
      <4>1. PICK s \in Models!Requests :
              x8[s].pc = "answered" /\ x8[s].kind # "delete" /\ a = x8[s].answer
        BY DEF Models!Answers
      <4>2. s # r /\ x8'[s] = x8[s]
        BY <1>5, <3>3, <4>1
      <4>3. a.id = Models!Subject(x8[s]) /\ Models!Subject(x8[s]) # c.id
        BY <1>9, <4>1, <4>2, SlotKnown
      <4> QED
        BY <4>1, <4>2, <4>3 DEF Models!Answers
    <3> QED
      BY <3>1, <3>2, <3>3
  <2>3. /\ Models!Answers \subseteq Models!ToSet(x1)
        /\ Models!ToSet(x1) \subseteq Models!ToSet(x5) \cup Models!Answers
        /\ \A d \in Models!ToSet(x5) :
              d \in Models!ToSet(x1) \/ \E a \in Models!Answers : a.id = d.id
    BY <1>3, <2>1 DEF Models!AnswersMakeUp
  <2>4. \A d \in Models!ToSet(x1) : d.id = c.id => d = c
    BY <1>2, <1>3, <2>2, <2>3, OneOfId
  <2>5. Models!Answers' \subseteq Models!ToSet(x1')
    BY <1>1, <2>2, <2>3
  <2>6. ASSUME NEW d \in Models!ToSet(x1)
        PROVE  d \in Models!ToSet(x5') \cup Models!Answers'
    BY <1>6, <2>2, <2>3, <2>4
  <2>7. ASSUME NEW d \in Models!ToSet(x5')
        PROVE  d \in Models!ToSet(x1) \/ \E a \in Models!Answers' : a.id = d.id
    <3>1. CASE d = c
      BY <2>2, <2>3, <3>1
    <3>2. CASE d # c
      <4>1. d \in Models!ToSet(x5) /\ d.id # c.id
        BY <1>6, <3>2
      <4>2. ASSUME NEW a \in Models!Answers, a.id = d.id
            PROVE  a \in Models!Answers'
        BY <2>2, <4>1, <4>2
      <4> QED
        BY <2>3, <4>1, <4>2
    <3> QED
      BY <3>1, <3>2
  <2> QED
    BY <1>1, <2>1, <2>5, <2>6, <2>7 DEF Models!AnswersMakeUp
<1>12. \A id \in Models!IdsOf(x1') \cup Models!IdsOf(x5') : id <= x2'
  <2>1. c \in Models!ToSet(x1)
    <3>1. Models!Deleted = {}
      BY <1>1, <1>9 DEF Models!Deleted
    <3> QED
      BY <1>1, <1>3, <3>1 DEF Models!AnswersMakeUp, Models!Answers
  <2>2. c.id \in Models!IdsOf(x1)
    BY <1>2, <2>1, InList
  <2> QED
    BY <1>1, <1>3, <1>6, <2>2
<1> QED
  BY <1>1, <1>3, <1>6, <1>7, <1>8, <1>10, <1>11, <1>12 DEF Models!IInv, Models!ListFollows

\* A deletion, which was alone, leaves in the list what it left on the server.
LEMMA ModelDeletionArrives ==
    ASSUME Models!ModelPanelAssumption, Models!IInv, ~x9, ~x10, NEW r \in Models!Requests,
           Models!DeletionArrives(r)
    PROVE  Models!IInv'
<1> DEFINE id == x8[r].id
<1>1. /\ x8[r].pc = "answered" /\ x8[r].kind = "delete"
      /\ x5' = Models!Without(x8[r].seen, id)
      /\ x6' = IF x6 # id THEN x6 ELSE IF x5' = <<>> THEN 0 ELSE x5'[1].id
      /\ x8' = [x8 EXCEPT ![r] = Models!NoRequest]
      /\ UNCHANGED <<x1, x2, x3, x4, x7, x9, x10>>
  BY DEF Models!DeletionArrives, Models!load, Models!None
<1>2. /\ Models!TypeOK /\ Models!RequestsTyped /\ Models!ListFollows
      /\ x1 \in Seq(Models!Record) /\ x5 \in Seq(Models!Record)
      /\ x8 \in [Models!Requests -> ModelRequest]
  BY DEF Models!IInv, Models!TypeOK, Models!RequestsTyped, ModelRequest, Models!None
<1>3. /\ x8[r].seen = x5 /\ x3 = "done" /\ Models!AnswersMakeUp
      /\ Models!IdsDiffer(x1) /\ Models!IdsDiffer(x5)
      /\ \A i \in Models!IdsOf(x1) \cup Models!IdsOf(x5) : i <= x2
  BY <1>1, <1>2, SlotKnown DEF Models!ListFollows
<1>4. \A s \in Models!Requests : s # r => x8[s] = Models!NoRequest
  BY <1>1, SlotsApart, IdleSlot
<1>5. /\ x8' \in [Models!Requests -> ModelRequest]
      /\ \A s \in Models!Requests : x8'[s] = Models!NoRequest
  BY <1>1, <1>2, <1>4, ModelsTypes
<1>6. /\ x5' \in Seq(Models!Record) /\ Models!IdsDiffer(x5')
      /\ Models!ToSet(x5') = {d \in Models!ToSet(x5) : d.id # id}
  BY <1>1, <1>2, <1>3, WithoutOwn
<1>7. Models!ToSet(x5') = Models!ToSet(x1)
  BY <1>1, <1>3, <1>6 DEF Models!AnswersMakeUp, Models!Deleted
<1>8. x6' \in {0} \cup Models!Ids
  <2>1. x6 \in {0} \cup Models!Ids
    BY <1>2 DEF Models!TypeOK, Models!None
  <2>2. x5' # <<>> => x5'[1] \in Models!Record
    BY <1>6
  <2> QED
    BY <1>1, <2>1, <2>2, ModelsTypes
<1>9. Models!RequestsTyped'
  BY <1>5 DEF Models!RequestsTyped, ModelRequest, Models!None
<1>10. Models!TypeOK'
  <2>1. \A s \in Models!Requests : x8'[s].kind = "none" /\ x8'[s].pc = "idle"
    BY <1>5, ModelsTypes
  <2> QED
    BY <1>1, <1>2, <1>6, <1>8, <2>1 DEF Models!TypeOK, Models!None
<1>11. Models!RequestsApart'
  BY <1>5 DEF Models!RequestsApart
<1>12. Models!AnswersMakeUp'
  <2>1. Models!Deleted' = {} /\ Models!Answers' = {}
    BY <1>5, ModelsTypes DEF Models!Deleted, Models!Answers
  <2> QED
    BY <1>1, <1>7, <2>1 DEF Models!AnswersMakeUp
<1>13. Models!IdsOf(x5') = Models!IdsOf(x1)
  BY <1>2, <1>6, <1>7, InList
<1> QED
  BY <1>1, <1>3, <1>6, <1>9, <1>10, <1>11, <1>12, <1>13 DEF Models!IInv, Models!ListFollows

\* What the server does with a request and what it answers.
LEMMA ModelServed ==
    ASSUME Models!ModelPanelAssumption, Models!IInv, ~x9, ~x10, NEW r \in Models!Requests,
           Models!Serve(r)
    PROVE  LET q == x8[r] IN
           \E new \in Models!Record \cup {Models!NoRecord} :
              /\ q.pc = "sent"
              /\ UNCHANGED <<x3, x4, x5, x6, x7, x9, x10>>
              /\ x2' \in 0..MaxConfigurations /\ x2 <= x2'
              /\ x8' = [x8 EXCEPT ![r].pc = "answered", ![r].answer = new]
              /\ \/ /\ q.kind = "create" /\ new \in Models!Record /\ new.id = x2 + 1
                    /\ x1' = Append(x1, new) /\ x2' = x2 + 1
                 \/ /\ q.kind \in {"save", "enable", "check"}
                    /\ new \in Models!Record /\ new.id = q.id /\ q.id \in Models!IdsOf(x1)
                    /\ x1' = Models!Replace(x1, new) /\ x2' = x2
                 \/ /\ q.kind = "delete" /\ new = Models!NoRecord
                    /\ x1' = Models!Without(x1, q.id) /\ x2' = x2
<1> DEFINE q == x8[r]
           at == Models!Find(x1, q.id)
           old == x1[at]
           new == CASE q.kind = "create" -> [Models!NoRecord EXCEPT !.id = x2 + 1, !.enabled = TRUE]
                    [] q.kind = "save"   -> [old EXCEPT !.content = q.content]
                    [] q.kind = "enable" -> [old EXCEPT !.enabled = q.enabled]
                    [] q.kind = "check"  -> old
                    [] q.kind = "delete" -> Models!NoRecord
<1>1. /\ q.pc = "sent"
      /\ q.kind = "create" \/ at # 0
      /\ x2' = (IF q.kind = "create" THEN x2 + 1 ELSE x2)
      /\ x2' <= MaxConfigurations
      /\ x1' = CASE q.kind = "create" -> Append(x1, new)
                 [] q.kind = "delete" -> Models!Without(x1, q.id)
                 [] OTHER             -> Models!Replace(x1, new)
      /\ x8' = [x8 EXCEPT ![r].pc = "answered", ![r].answer = new]
      /\ UNCHANGED <<x3, x4, x5, x6, x7, x9, x10>>
  BY DEF Models!Serve, Models!load, Models!page
<1>2. q \in ModelRequest /\ q.kind # "none"
  BY <1>1, SlotKnown
<1>3. x1 \in Seq(Models!Record) /\ x2 \in 0..MaxConfigurations
  BY DEF Models!IInv, Models!TypeOK
<1>4. /\ q.kind \in {"create", "save", "enable", "check", "delete"}
      /\ q.content \in Contents /\ q.enabled \in BOOLEAN
  BY <1>2 DEF ModelRequest
<1>5. at # 0 => old \in Models!Record /\ old.id = q.id /\ at \in 1..Len(x1)
  BY <1>3, FindOwn
<1>6. at # 0 => q.id \in Models!IdsOf(x1)
  BY <1>5 DEF Models!IdsOf
<1>7. x2' \in 0..MaxConfigurations /\ x2 <= x2'
  BY <1>1, <1>3, ModelsTypes
<1> HIDE DEF q, at, old
<1>8. CASE q.kind = "create"
  <2>1. new = [Models!NoRecord EXCEPT !.id = x2 + 1, !.enabled = TRUE]
    BY <1>8
  <2>2. x2 + 1 \in Models!Ids
    BY <1>1, <1>3, <1>8, ModelsTypes DEF Models!Ids
  <2>3. new \in Models!Record /\ new.id = x2 + 1
    BY <2>1, <2>2, ModelsTypes DEF Models!Record, Models!NoRecord
  <2> HIDE DEF new
  <2>4. x1' = Append(x1, new) /\ x2' = x2 + 1
    BY <1>1, <1>8
  <2> QED
    BY <1>1, <1>7, <1>8, <2>3, <2>4 DEF q
<1>9. CASE q.kind \in {"save", "enable", "check"}
  <2>1. old \in Models!Record /\ old.id = q.id /\ q.id \in Models!IdsOf(x1)
    BY <1>1, <1>5, <1>6, <1>9
  <2>2. new \in Models!Record /\ new.id = q.id
    <3>1. CASE q.kind = "save"
      <4>1. new = [old EXCEPT !.content = q.content]
        BY <3>1
      <4> QED
        BY <1>4, <2>1, <4>1 DEF Models!Record
    <3>2. CASE q.kind = "enable"
      <4>1. new = [old EXCEPT !.enabled = q.enabled]
        BY <3>2
      <4> QED
        BY <1>4, <2>1, <4>1 DEF Models!Record
    <3>3. CASE q.kind = "check"
      BY <2>1, <3>3
    <3> QED
      BY <1>9, <3>1, <3>2, <3>3
  <2> HIDE DEF new
  <2>3. x1' = Models!Replace(x1, new) /\ x2' = x2
    BY <1>1, <1>9
  <2> QED
    BY <1>1, <1>7, <1>9, <2>1, <2>2, <2>3 DEF q
<1>10. CASE q.kind = "delete"
  <2>1. new = Models!NoRecord
    BY <1>10
  <2> HIDE DEF new
  <2>2. x1' = Models!Without(x1, q.id) /\ x2' = x2
    BY <1>1, <1>10
  <2> QED
    BY <1>1, <1>7, <1>10, <2>1, <2>2 DEF q
<1> QED
  BY <1>4, <1>8, <1>9, <1>10

LEMMA ModelServes ==
    ASSUME Models!ModelPanelAssumption, Models!IInv, ~x9, ~x10, NEW r \in Models!Requests,
           Models!Serve(r)
    PROVE  Models!IInv'
<1> DEFINE q == x8[r]
<1>1. PICK new \in Models!Record \cup {Models!NoRecord} :
         /\ q.pc = "sent"
         /\ UNCHANGED <<x3, x4, x5, x6, x7, x9, x10>>
         /\ x2' \in 0..MaxConfigurations /\ x2 <= x2'
         /\ x8' = [x8 EXCEPT ![r].pc = "answered", ![r].answer = new]
         /\ \/ /\ q.kind = "create" /\ new \in Models!Record /\ new.id = x2 + 1
               /\ x1' = Append(x1, new) /\ x2' = x2 + 1
            \/ /\ q.kind \in {"save", "enable", "check"}
               /\ new \in Models!Record /\ new.id = q.id /\ q.id \in Models!IdsOf(x1)
               /\ x1' = Models!Replace(x1, new) /\ x2' = x2
            \/ /\ q.kind = "delete" /\ new = Models!NoRecord
               /\ x1' = Models!Without(x1, q.id) /\ x2' = x2
  BY ModelServed
<1>2. /\ Models!TypeOK /\ Models!RequestsTyped /\ Models!ListFollows
      /\ x1 \in Seq(Models!Record) /\ x5 \in Seq(Models!Record) /\ x2 \in Nat
      /\ x8 \in [Models!Requests -> ModelRequest]
  BY ModelsTypes DEF Models!IInv, Models!TypeOK, Models!RequestsTyped, ModelRequest, Models!None
<1>3. /\ q \in ModelRequest /\ q.kind # "none" /\ q.answer = Models!NoRecord
      /\ q.kind # "create" => q.id \in Models!IdsOf(x5)
      /\ q.kind = "delete" => q.seen = x5
      /\ x3 = "done" /\ Models!AnswersMakeUp /\ Models!RequestsApart
      /\ Models!IdsDiffer(x1) /\ Models!IdsDiffer(x5)
      /\ \A id \in Models!IdsOf(x1) \cup Models!IdsOf(x5) : id <= x2
  BY <1>1, <1>2, SlotKnown DEF Models!ListFollows
<1> DEFINE p == [q EXCEPT !.pc = "answered", !.answer = new]
<1>4. /\ p \in ModelRequest /\ p.kind = q.kind /\ p.id = q.id /\ p.seen = q.seen
      /\ p.pc = "answered" /\ p.answer = new
  BY <1>3 DEF ModelRequest
<1>5. /\ x8' \in [Models!Requests -> ModelRequest]
      /\ \A s \in Models!Requests : x8'[s] = IF s = r THEN p ELSE x8[s]
  BY <1>1, <1>2, <1>4
<1> HIDE DEF p
<1>6. Models!RequestsTyped'
  BY <1>5 DEF Models!RequestsTyped, ModelRequest, Models!None
<1>7. \A id \in Models!IdsOf(x1) \cup Models!IdsOf(x5) : id \in Nat /\ id # 0
  BY <1>2, InList, ModelsTypes
\* The server's records.
<1>8. /\ x1' \in Seq(Models!Record) /\ Models!IdsDiffer(x1')
      /\ q.kind = "create" => /\ Models!ToSet(x1') = Models!ToSet(x1) \cup {new}
                              /\ Models!IdsOf(x1') = Models!IdsOf(x1) \cup {new.id}
                              /\ new.id \notin Models!IdsOf(x1) \cup Models!IdsOf(x5)
      /\ q.kind \in {"save", "enable", "check"} =>
            /\ Models!ToSet(x1') = {d \in Models!ToSet(x1) : d.id # q.id} \cup {new}
            /\ Models!IdsOf(x1') = Models!IdsOf(x1)
      /\ q.kind = "delete" =>
            /\ Models!ToSet(x1') = {d \in Models!ToSet(x1) : d.id # q.id}
            /\ Models!IdsOf(x1') \subseteq Models!IdsOf(x1)
  <2>1. CASE q.kind = "create"
    <3>1. x2 + 1 \notin Models!IdsOf(x1) \cup Models!IdsOf(x5)
      BY <1>2, <1>3, <1>7
    <3>2. new \in Models!Record /\ new.id = x2 + 1 /\ x1' = Append(x1, new)
      BY <1>1, <2>1
    <3>3. /\ x1' \in Seq(Models!Record) /\ Models!IdsDiffer(x1')
          /\ Models!ToSet(x1') = Models!ToSet(x1) \cup {new}
          /\ Models!IdsOf(x1') = Models!IdsOf(x1) \cup {new.id}
      BY <1>2, <1>3, <3>1, <3>2, AppendOwn
    <3> QED
      BY <2>1, <3>1, <3>2, <3>3
  <2>2. CASE q.kind \in {"save", "enable", "check"}
    BY <1>1, <1>2, <1>3, <2>2, ReplaceOwn
  <2>3. CASE q.kind = "delete"
    <3>1. /\ x1' \in Seq(Models!Record) /\ Models!IdsDiffer(x1')
          /\ Models!ToSet(x1') = {d \in Models!ToSet(x1) : d.id # q.id}
      BY <1>1, <1>2, <1>3, <2>3, WithoutOwn
    <3>2. Models!IdsOf(x1') \subseteq Models!IdsOf(x1)
      BY <1>2, <3>1, InList
    <3> QED
      BY <2>3, <3>1, <3>2
  <2> QED
    BY <1>1, <2>1, <2>2, <2>3
<1>9. \A id \in Models!IdsOf(x1') \cup Models!IdsOf(x5) : id <= x2'
  <2>1. \A id \in Models!IdsOf(x1) \cup Models!IdsOf(x5) : id <= x2'
    BY <1>1, <1>2, <1>3, <1>7
  <2>2. q.kind = "create" => new.id <= x2'
    BY <1>1, <1>2
  <2> QED
    BY <1>1, <1>8, <2>1, <2>2
<1>10. Models!TypeOK'
  <2>1. \A s \in Models!Requests :
          /\ x8'[s].kind \in {"none", "create", "save", "enable", "check", "delete"}
          /\ x8'[s].pc \in {"idle", "sent", "answered"}
    BY <1>5 DEF ModelRequest
  <2> QED
    BY <1>1, <1>2, <1>8, <2>1 DEF Models!TypeOK
\* The answers given before, and what each is about.
<1>11. ASSUME NEW s \in Models!Requests, s # r, x8[s].pc # "idle"
       PROVE  /\ x8[s].kind # "delete" /\ q.kind # "delete"
              /\ Models!Subject(x8[s]) # 0 => Models!Subject(x8[s]) # Models!Subject(p)
  <2>1. /\ x8[s].kind # "delete" /\ q.kind # "delete"
        /\ Models!Subject(x8[s]) # 0 => Models!Subject(x8[s]) # Models!Subject(q)
    BY <1>1, <1>11, SlotsApart
  <2>2. CASE q.kind # "create"
    BY <1>4, <2>1, <2>2 DEF Models!Subject
  <2>3. CASE q.kind = "create"
    <3>1. Models!Subject(p) = new.id
      BY <1>4, <2>3 DEF Models!Subject
    <3>2. CASE x8[s].kind # "create"
      <4>1. Models!Subject(x8[s]) \in Models!IdsOf(x5)
        BY <1>11, <3>2, SlotKnown DEF Models!Subject
      <4> QED
        BY <1>8, <2>1, <2>3, <3>1, <4>1
    <3>3. CASE x8[s].kind = "create" /\ x8[s].pc = "sent"
      <4>1. Models!Subject(x8[s]) = 0
        BY <1>11, <3>3, SlotKnown, ModelsTypes DEF Models!Subject
      <4> QED
        BY <2>1, <4>1
    <3>4. CASE x8[s].kind = "create" /\ x8[s].pc = "answered"
      <4>1. Models!Deleted = {}
        BY <1>1, <2>1, SlotsApart DEF Models!Deleted
      <4>2. x8[s].answer \in Models!ToSet(x1)
        BY <1>3, <3>4, <4>1 DEF Models!AnswersMakeUp, Models!Answers
      <4>3. Models!Subject(x8[s]) \in Models!IdsOf(x1)
        BY <1>2, <3>4, <4>2, InList DEF Models!Subject
      <4> QED
        BY <1>8, <2>1, <2>3, <3>1, <4>3
    <3>5. x8[s].pc \in {"idle", "sent", "answered"}
      BY <1>2 DEF ModelRequest
    <3> QED
      BY <1>11, <3>2, <3>3, <3>4, <3>5
  <2> QED
    BY <2>2, <2>3
<1>12. Models!RequestsApart'
  <2>1. ASSUME NEW s \in Models!Requests
        PROVE  LET o == x8'[s] IN
               \/ o = Models!NoRequest
               \/ /\ o.pc # "idle" /\ o.kind # "none"
                  /\ o.kind # "create" => o.id \in Models!IdsOf(x5)
                  /\ o.kind = "create" => Models!Subject(o) \notin Models!IdsOf(x5)
                  /\ o.kind = "delete" => o.seen = x5
                  /\ o.pc = "sent" => o.answer = Models!NoRecord
                  /\ o.pc = "answered" /\ o.kind # "delete" =>
                        o.answer.id = Models!Subject(o) /\ o.answer \in Models!Record
    <3>1. CASE s = r
      <4>1. x8'[s] = p
        BY <1>5, <3>1
      <4>2. q.kind = "create" => Models!Subject(p) = new.id
        BY <1>4 DEF Models!Subject
      <4>3. q.kind # "create" => Models!Subject(p) = q.id
        BY <1>4 DEF Models!Subject
      <4> QED
        BY <1>1, <1>3, <1>4, <1>8, <4>1, <4>2, <4>3
    <3>2. CASE s # r
      BY <1>3, <1>5, <3>2 DEF Models!RequestsApart
    <3> QED
      BY <3>1, <3>2
  <2>2. ASSUME NEW s \in Models!Requests, NEW t \in Models!Requests, s # t,
               x8'[s] # Models!NoRequest, x8'[t] # Models!NoRequest
        PROVE  /\ x8'[s].kind # "delete"
               /\ Models!Subject(x8'[s]) = Models!Subject(x8'[t]) => Models!Subject(x8'[s]) = 0
    <3>1. CASE s = r
      <4>1. t # r /\ x8[t].pc # "idle" /\ x8'[t] = x8[t] /\ x8'[s] = p
        BY <1>5, <2>2, <3>1, IdleSlot
      <4> QED
        BY <1>4, <1>11, <4>1
    <3>2. CASE t = r
      <4>1. s # r /\ x8[s].pc # "idle" /\ x8'[s] = x8[s] /\ x8'[t] = p
        BY <1>5, <2>2, <3>2, IdleSlot
      <4> QED
        BY <1>4, <1>11, <4>1
    <3>3. CASE s # r /\ t # r
      BY <1>3, <1>5, <2>2, <3>3 DEF Models!RequestsApart, Models!None
    <3> QED
      BY <3>1, <3>2, <3>3
  <2> QED
    BY <1>1, <2>1, <2>2 DEF Models!RequestsApart, Models!None
<1>13. Models!AnswersMakeUp'
  <2>1. CASE q.kind # "delete"
    <3>1. Models!Deleted = {} /\ Models!Deleted' = {}
      <4>1. \A s \in Models!Requests : x8[s].pc = "answered" => x8[s].kind # "delete"
        BY <1>1, <1>11
      <4> QED
        BY <1>4, <1>5, <2>1, <4>1 DEF Models!Deleted
    <3>2. Models!Answers' = Models!Answers \cup {new}
      <4>1. x8'[r].pc = "answered" /\ x8'[r].kind # "delete" /\ x8'[r].answer = new
        BY <1>4, <1>5, <2>1
      <4>2. \A s \in Models!Requests : s # r => x8'[s] = x8[s]
        BY <1>5
      <4>3. x8[r].pc # "answered"
        BY <1>1
      <4>4. ASSUME NEW a \in Models!Answers'
            PROVE  a \in Models!Answers \cup {new}
        BY <4>1, <4>2 DEF Models!Answers
      <4>5. ASSUME NEW a \in Models!Answers
            PROVE  a \in Models!Answers'
        BY <4>2, <4>3 DEF Models!Answers
      <4>6. new \in Models!Answers'
        BY <4>1 DEF Models!Answers
      <4> QED
        BY <4>4, <4>5, <4>6
    <3>3. /\ Models!Answers \subseteq Models!ToSet(x1)
          /\ Models!ToSet(x1) \subseteq Models!ToSet(x5) \cup Models!Answers
          /\ \A d \in Models!ToSet(x5) :
                d \in Models!ToSet(x1) \/ \E a \in Models!Answers : a.id = d.id
      BY <1>3, <3>1 DEF Models!AnswersMakeUp
    <3>4. CASE q.kind = "create"
      <4>1. Models!ToSet(x1') = Models!ToSet(x1) \cup {new}
        BY <1>8, <3>4
      <4>2. x5' = x5
        BY <1>1
      <4> QED
        BY <3>1, <3>2, <3>3, <4>1, <4>2 DEF Models!AnswersMakeUp
    <3>5. CASE q.kind \in {"save", "enable", "check"}
      <4>1. Models!ToSet(x1') = {d \in Models!ToSet(x1) : d.id # q.id} \cup {new}
            /\ new.id = q.id /\ x5' = x5
        BY <1>1, <1>8, <3>5
      <4>2. ASSUME NEW a \in Models!Answers
            PROVE  a.id # q.id
        <5>1. PICK s \in Models!Requests :
                x8[s].pc = "answered" /\ x8[s].kind # "delete" /\ a = x8[s].answer
          BY DEF Models!Answers
        <5>2. s # r /\ a.id = Models!Subject(x8[s]) /\ a \in Models!Record
          BY <1>1, <5>1, SlotKnown
        <5>3. a.id # 0
          BY <5>2, ModelsTypes
        <5>4. Models!Subject(p) = q.id
          BY <1>4, <3>5 DEF Models!Subject
        <5> QED
          BY <1>11, <5>1, <5>2, <5>3, <5>4
      <4> QED
        BY <3>1, <3>2, <3>3, <4>1, <4>2 DEF Models!AnswersMakeUp
    <3> QED
      BY <1>1, <2>1, <3>4, <3>5
  <2>2. CASE q.kind = "delete"
    <3>1. \A s \in Models!Requests : s # r => x8[s].pc = "idle"
      BY <1>11, <2>2
    <3>2. Models!Deleted = {} /\ Models!Answers = {}
      BY <1>1, <3>1 DEF Models!Deleted, Models!Answers
    <3>3. Models!ToSet(x1) = Models!ToSet(x5)
      BY <1>3, <3>2 DEF Models!AnswersMakeUp
    <3>4. /\ Models!Deleted' = {r} /\ x8'[r].id = q.id
      BY <1>4, <1>5, <2>2, <3>1 DEF Models!Deleted
    <3>5. Models!ToSet(x1') = {d \in Models!ToSet(x5') : d.id # x8'[r].id}
      BY <1>1, <1>8, <2>2, <3>3, <3>4
    <3> QED
      BY <3>4, <3>5 DEF Models!AnswersMakeUp
  <2> QED
    BY <2>1, <2>2
<1> QED
  BY <1>1, <1>3, <1>6, <1>8, <1>9, <1>10, <1>12, <1>13 DEF Models!IInv, Models!ListFollows

LEMMA ModelsStep ==
    ASSUME Models!ModelPanelAssumption, Models!IInv, Models!Next
    PROVE  Models!IInv'
<1>1. ~x9 /\ ~x10
  BY DEF Models!Next
<1>2. /\ x5 \in Seq(Models!Record) /\ x6 \in {0} \cup Models!Ids /\ x7 \in BOOLEAN
  BY DEF Models!IInv, Models!TypeOK, Models!None
<1>3. ASSUME NEW id \in Models!Ids, Models!Select(id)
      PROVE  Models!IInv'
  BY <1>2, <1>3, ModelsStill DEF Models!Select, Models!load
<1>4. ASSUME NEW open \in BOOLEAN, Models!SetIsCreateDraftOpen(open)
      PROVE  Models!IInv'
  BY <1>2, <1>4, ModelsStill DEF Models!SetIsCreateDraftOpen, Models!load
<1>5. ASSUME NEW r \in Models!Requests, Models!CreateModelConfiguration(r)
      PROVE  Models!IInv'
  <2> DEFINE sent == [Models!NoRequest EXCEPT !.kind = "create"]
  <2>1. Models!Send(r, sent)
    BY <1>5 DEF Models!CreateModelConfiguration
  <2>2. /\ sent \in ModelRequest /\ sent.kind = "create" /\ sent.id = 0
        /\ sent.answer = Models!NoRecord
    BY ModelsTypes DEF Models!NoRequest, ModelRequest
  <2> HIDE DEF sent
  <2> QED
    BY <1>1, <2>1, <2>2, ModelSends
<1>6. ASSUME NEW r \in Models!Requests, NEW content \in Contents,
             Models!UpdateModelConfiguration(r, content)
      PROVE  Models!IInv'
  <2> DEFINE sent == [Models!NoRequest EXCEPT !.kind = "save", !.id = Models!Shown.id,
                                              !.content = content]
  <2>1. Models!Shown # Models!NoRecord /\ Models!Send(r, sent)
    BY <1>6 DEF Models!UpdateModelConfiguration
  <2>2. Models!Shown.id \in Models!Ids /\ Models!Shown.id \in Models!IdsOf(x5)
    BY <1>2, <2>1, ModelShown, ModelsTypes
  <2>3. /\ sent \in ModelRequest /\ sent.kind = "save" /\ sent.id = Models!Shown.id
        /\ sent.answer = Models!NoRecord
    BY <2>2, ModelsTypes DEF Models!NoRequest, ModelRequest
  <2> HIDE DEF sent
  <2> QED
    BY <1>1, <2>1, <2>2, <2>3, ModelSends
<1>7. ASSUME NEW r \in Models!Requests, Models!SetModelConfigurationEnabled(r)
      PROVE  Models!IInv'
  <2> DEFINE sent == [Models!NoRequest EXCEPT !.kind = "enable", !.id = Models!Shown.id,
                                              !.enabled = ~Models!Shown.enabled]
  <2>1. Models!Shown # Models!NoRecord /\ Models!Send(r, sent)
    BY <1>7 DEF Models!SetModelConfigurationEnabled
  <2>2. Models!Shown.id \in Models!Ids /\ Models!Shown.id \in Models!IdsOf(x5)
    BY <1>2, <2>1, ModelShown, ModelsTypes
  <2>3. (~Models!Shown.enabled) \in BOOLEAN
    OBVIOUS
  <2>4. /\ sent \in ModelRequest /\ sent.kind = "enable" /\ sent.id = Models!Shown.id
        /\ sent.answer = Models!NoRecord
    BY <2>2, <2>3, ModelsTypes DEF Models!NoRequest, ModelRequest
  <2> HIDE DEF sent
  <2> QED
    BY <1>1, <2>1, <2>2, <2>4, ModelSends
<1>8. ASSUME NEW r \in Models!Requests, Models!CheckModelConfigurationHealth(r)
      PROVE  Models!IInv'
  <2> DEFINE sent == [Models!NoRequest EXCEPT !.kind = "check", !.id = Models!Shown.id]
  <2>1. Models!Shown # Models!NoRecord /\ Models!Send(r, sent)
    BY <1>8 DEF Models!CheckModelConfigurationHealth
  <2>2. Models!Shown.id \in Models!Ids /\ Models!Shown.id \in Models!IdsOf(x5)
    BY <1>2, <2>1, ModelShown, ModelsTypes
  <2>3. /\ sent \in ModelRequest /\ sent.kind = "check" /\ sent.id = Models!Shown.id
        /\ sent.answer = Models!NoRecord
    BY <2>2, ModelsTypes DEF Models!NoRequest, ModelRequest
  <2> HIDE DEF sent
  <2> QED
    BY <1>1, <2>1, <2>2, <2>3, ModelSends
<1>9. ASSUME NEW r \in Models!Requests, Models!DeleteModelConfiguration(r)
      PROVE  Models!IInv'
  <2> DEFINE sent == [Models!NoRequest EXCEPT !.kind = "delete", !.id = Models!Shown.id]
  <2>1. Models!Shown # Models!NoRecord /\ Models!Send(r, sent)
    BY <1>9 DEF Models!DeleteModelConfiguration
  <2>2. Models!Shown.id \in Models!Ids /\ Models!Shown.id \in Models!IdsOf(x5)
    BY <1>2, <2>1, ModelShown, ModelsTypes
  <2>3. /\ sent \in ModelRequest /\ sent.kind = "delete" /\ sent.id = Models!Shown.id
        /\ sent.answer = Models!NoRecord
    BY <2>2, ModelsTypes DEF Models!NoRequest, ModelRequest
  <2> HIDE DEF sent
  <2> QED
    BY <1>1, <2>1, <2>2, <2>3, ModelSends
<1> QED
  BY <1>1, <1>3, <1>4, <1>5, <1>6, <1>7, <1>8, <1>9, ModelsLoadAnswered, ModelsLoadArrives,
     ModelServes, ModelArrives, ModelDeletionArrives, ModelFails
     DEF Models!Next

\* Once every answer has come the list is the server's.
LEMMA QuietListIsTheServers ==
    ASSUME Models!ModelPanelAssumption, Models!IInv
    PROVE  Models!ListIsTheServers
<1> SUFFICES ASSUME Models!Quiet, ~x9, ~x10
             PROVE  Models!ToSet(x5) = Models!ToSet(x1)
  BY DEF Models!ListIsTheServers
<1>1. x3 = "done" /\ \A r \in Models!Requests : x8[r] = Models!NoRequest
  BY DEF Models!Quiet
<1>2. Models!AnswersMakeUp
  BY <1>1 DEF Models!IInv, Models!ListFollows
<1>3. Models!Deleted = {} /\ Models!Answers = {}
  BY <1>1, ModelsTypes DEF Models!Deleted, Models!Answers
<1> QED
  BY <1>2, <1>3 DEF Models!AnswersMakeUp

LEMMA ModelsInvariant == Spec => [](page = "models" => Models!IInv)
<1> DEFINE Inv == page = "models" => Models!IInv
<1>1. Models!ModelPanelAssumption
  BY PagesAssumption DEF PagesAssumption
<1>2. Init => Inv
  BY <1>1, ModelsInit DEF Init
<1>3. Inv /\ [Next]_tab => Inv'
  <2>1. ASSUME Inv, Next
        PROVE  Inv'
    <3>1. page' = page /\ (page = "models" => Models!Next)
      BY <2>1 DEF Next
    <3> QED
      BY <1>1, <2>1, <3>1, ModelsStep
  <2>2. ASSUME Inv, UNCHANGED tab
        PROVE  Inv'
    <3>1. CASE page = "models"
      <4>1. /\ UNCHANGED <<x1, x2, x3, x4, x5, x6, x7, x8, x9, x10>>
            /\ x6 \in {0} \cup Models!Ids /\ x7 \in BOOLEAN
        BY <2>2, <3>1 DEF tab, Models!IInv, Models!TypeOK, Models!None
      <4> QED
        BY <2>2, <3>1, <4>1, ModelsStill
    <3>2. CASE page # "models"
      BY <2>2, <3>2 DEF tab
    <3> QED
      BY <3>1, <3>2
  <2> QED
    BY <2>1, <2>2
<1> QED
  BY <1>2, <1>3, PTL DEF Spec

\* As long as no answer is lost and no request crosses the load, a deletion or another about
\* the same configuration, the list, which is never fetched again, is the server's whenever
\* no answer is out.  The page is not followed past such a crossing.
THEOREM ListStaysTheServers == Spec => []ListIsTheServers
<1>1. (page = "models" => Models!IInv) => ListIsTheServers
  BY PagesAssumption, QuietListIsTheServers DEF PagesAssumption, ListIsTheServers
<1> QED
  BY <1>1, ModelsInvariant, PTL

-----------------------------------------------------------------------------
(* Transcript: what merging two lists of messages gives *)

\* Induction over the indexes of a list.
LEMMA UpTo ==
    ASSUME NEW n \in Nat, NEW P, 0 \in P, \A k \in 1..n : k - 1 \in P => k \in P
    PROVE  0..n \subseteq P
<1> DEFINE Without == (0..n) \ P
<1>1. SUFFICES ASSUME Without # {}
               PROVE  FALSE
  BY DEF Without
<1>2. Without \in SUBSET Nat
  OBVIOUS
<1>3. PICK m \in Without : \A k \in Without : m <= k
  <2> HIDE DEF Without
  <2> QED
    BY <1>1, <1>2, LeastExists
<1>4. m \in 1..n
  OBVIOUS
<1>5. m - 1 \in 0..n /\ ~(m <= m - 1)
  BY <1>4
<1>6. m - 1 \in P
  BY <1>3, <1>5
<1> QED
  BY <1>4, <1>6

\* What a recursion over the indexes of a list computes, in n steps.
StepsOf(f, n, S, first, step) ==
    /\ f \in [0..n -> S]
    /\ f[0] = first
    /\ \A k \in 1..n : f[k] = step[k][f[k - 1]]

\* A recursion over the indexes of a list has a result, step by step.
LEMMA StepsExist ==
    ASSUME NEW S, NEW n \in Nat, NEW first \in S, NEW step \in [1..n -> [S -> S]]
    PROVE  \E f : StepsOf(f, n, S, first, step)
<1> DEFINE Sound(m) == \E f \in [0..m -> S] : /\ f[0] = first
                                              /\ \A k \in 1..m : f[k] = step[k][f[k - 1]]
           P == {m \in 0..n : Sound(m)}
<1>1. Sound(0)
  <2> DEFINE f == [k \in 0..0 |-> first]
  <2>1. f \in [0..0 -> S] /\ f[0] = first /\ \A k \in 1..0 : f[k] = step[k][f[k - 1]]
    OBVIOUS
  <2> HIDE DEF f
  <2> QED
    BY <2>1
<1>2. ASSUME NEW m \in 1..n, Sound(m - 1)
      PROVE  Sound(m)
  <2>1. PICK f \in [0..(m - 1) -> S] : /\ f[0] = first
                                       /\ \A k \in 1..(m - 1) : f[k] = step[k][f[k - 1]]
    BY <1>2
  <2> DEFINE g == [k \in 0..m |-> IF k = m THEN step[m][f[m - 1]] ELSE f[k]]
  <2>2. /\ step[m][f[m - 1]] \in S
        /\ \A k \in 0..(m - 1) : f[k] \in S
    OBVIOUS
  <2>3. g \in [0..m -> S]
    BY <2>2
  <2>4. g[0] = first
    BY <2>1
  <2>5. ASSUME NEW k \in 1..m
        PROVE  g[k] = step[k][g[k - 1]]
    <3>1. k - 1 \in 0..(m - 1) /\ k - 1 # m
      OBVIOUS
    <3>2. g[k - 1] = f[k - 1]
      BY <3>1
    <3>3. CASE k = m
      BY <3>2, <3>3
    <3>4. CASE k # m
      BY <2>1, <3>2, <3>4
    <3> QED
      BY <3>3, <3>4
  <2> HIDE DEF g
  <2> QED
    BY <2>3, <2>4, <2>5
<1> HIDE DEF Sound
<1>3. 0..n \subseteq P
  <2>1. 0 \in P
    BY <1>1
  <2>2. ASSUME NEW k \in 1..n, k - 1 \in P
        PROVE  k \in P
    BY <1>2, <2>2
  <2> HIDE DEF P
  <2> QED
    BY <2>1, <2>2, UpTo
<1>4. Sound(n)
  BY <1>3
<1> QED
  BY <1>4 DEF Sound, StepsOf

\* A message is known among others by its id or by its signature.
KnownAmong(m, messages) ==
    \E i \in 1..Len(messages) : messages[i].id = m.id \/ Surface!SameSignature(messages[i], m)

\* mergeOptimisticMessages, message by message.
LEMMA MergeSteps ==
    ASSUME NEW S, NEW messages \in Seq(S), NEW more \in Seq(S)
    PROVE  \E f \in [0..Len(more) -> Seq(S)] :
              /\ f[0] = messages
              /\ \A k \in 1..Len(more) :
                    f[k] = IF KnownAmong(more[k], f[k - 1]) THEN f[k - 1]
                           ELSE Append(f[k - 1], more[k])
              /\ f[Len(more)] = Surface!Merge(messages, more)
<1> DEFINE n == Len(more)
           Merged[k \in 0..Len(more)] ==
             IF k = 0 THEN messages
             ELSE LET sofar == Merged[k - 1]
                      known == \E i \in 1..Len(sofar) :
                                  sofar[i].id = more[k].id \/ Surface!SameSignature(sofar[i], more[k])
                  IN IF known THEN sofar ELSE Append(sofar, more[k])
           step == [k \in 1..n |-> [sofar \in Seq(S) |->
                      IF KnownAmong(more[k], sofar) THEN sofar ELSE Append(sofar, more[k])]]
<1>1. Surface!Merge(messages, more) = Merged[n]
  BY DEF Surface!Merge
<1>2. step \in [1..n -> [Seq(S) -> Seq(S)]]
  OBVIOUS
<1> DEFINE T == Seq(S)
<1>3. PICK f : StepsOf(f, n, T, messages, step)
  <2>1. n \in Nat /\ messages \in T /\ step \in [1..n -> [T -> T]]
    BY <1>2
  <2> HIDE DEF step, n, T, Merged
  <2> QED
    BY <2>1, StepsExist
<1>a. /\ f \in [0..n -> T] /\ f[0] = messages
      /\ \A k \in 1..n : f[k] = step[k][f[k - 1]]
  <2> HIDE DEF step, n, T, Merged
  <2> QED
    BY <1>3 DEF StepsOf
<1>4. ASSUME NEW k \in 1..n
      PROVE  f[k] = IF KnownAmong(more[k], f[k - 1]) THEN f[k - 1]
                    ELSE Append(f[k - 1], more[k])
  <2>1. f[k - 1] \in Seq(S)
    <3>1. k - 1 \in 0..n
      OBVIOUS
    <3> QED
      BY <1>a, <3>1
  <2>2. step[k][f[k - 1]] = IF KnownAmong(more[k], f[k - 1]) THEN f[k - 1]
                            ELSE Append(f[k - 1], more[k])
    BY <2>1
  <2> QED
    BY <1>a, <2>2
<1> HIDE DEF step
<1> DEFINE Entry(g, k) == IF k = 0 THEN messages
                          ELSE LET sofar == g[k - 1]
                                  known == \E i \in 1..Len(sofar) :
                                              \/ sofar[i].id = more[k].id
                                              \/ Surface!SameSignature(sofar[i], more[k])
                              IN IF known THEN sofar ELSE Append(sofar, more[k])
<1>5. ASSUME NEW k \in 0..n
      PROVE  f[k] = Entry(f, k)
  <2>1. CASE k = 0
    BY <1>a, <2>1
  <2>2. CASE k # 0
    <3>1. k \in 1..n
      BY <2>2
    <3> QED
      BY <1>4, <2>2, <3>1 DEF KnownAmong
  <2> QED
    BY <2>1, <2>2
<1>6. f = [k \in 0..n |-> Entry(f, k)]
  <2> HIDE DEF Entry
  <2> QED
    BY <1>a, <1>5
<1>7. Merged = [k \in 0..n |-> Entry(Merged, k)]
  BY <1>6 DEF Merged
<1> HIDE DEF Merged
<1>8. ASSUME NEW k \in 0..n
      PROVE  Merged[k] = Entry(Merged, k)
  <2> HIDE DEF Entry
  <2> QED
    BY <1>7
<1>9. Merged[0] = messages
  <2>1. Merged[0] = Entry(Merged, 0)
    <3>1. 0 \in 0..n
      OBVIOUS
    <3> HIDE DEF Entry
    <3> QED
      BY <1>8, <3>1
  <2>2. Entry(Merged, 0) = messages
    OBVIOUS
  <2> QED
    BY ONLY <2>1, <2>2
<1>10. ASSUME NEW k \in 1..n
       PROVE  Merged[k] = IF KnownAmong(more[k], Merged[k - 1]) THEN Merged[k - 1]
                          ELSE Append(Merged[k - 1], more[k])
  BY <1>8 DEF KnownAmong
<1>11. Merged \in [0..n -> Seq(S)]
  <2> DEFINE P == {k \in 0..n : Merged[k] \in Seq(S)}
  <2>1. 0 \in P
    BY <1>9
  <2>2. ASSUME NEW k \in 1..n, k - 1 \in P
        PROVE  k \in P
    <3> HIDE DEF Entry
    <3>1. Merged[k - 1] \in Seq(S) /\ more[k] \in S
      BY <2>2
    <3>2. Append(Merged[k - 1], more[k]) \in Seq(S)
      BY <3>1
    <3>3. Merged[k] = Merged[k - 1] \/ Merged[k] = Append(Merged[k - 1], more[k])
      BY <1>10
    <3>4. Merged[k] \in Seq(S)
      <4> HIDE DEF P
      <4> QED
        BY <3>1, <3>2, <3>3
    <3> QED
      BY <3>4
  <2>3. 0..n \subseteq P
    <3>1. n \in Nat
      OBVIOUS
    <3> HIDE DEF P, n
    <3> QED
      BY <2>1, <2>2, <3>1, UpTo
  <2>4. Merged = [k \in 0..n |-> Merged[k]]
    <3> HIDE DEF Entry
    <3> QED
      BY <1>7, <1>8
  <2> QED
    BY <2>3, <2>4
<1> QED
  BY <1>1, <1>9, <1>10, <1>11

\* What merging more messages to some gives: those, and of the others some that no
\* message before them has the id or the signature of.
Extension(result, messages, more) ==
    /\ Len(messages) <= Len(result)
    /\ \A i \in 1..Len(messages) : result[i] = messages[i]
    /\ \A i \in 1..Len(result) : i > Len(messages) =>
          /\ \E k \in 1..Len(more) : result[i] = more[k]
          /\ \A j \in 1..Len(result) : j < i =>
                result[j].id # result[i].id /\ ~Surface!SameSignature(result[j], result[i])

LEMMA ExtensionStep ==
    ASSUME NEW S, NEW messages \in Seq(S), NEW more \in Seq(S), NEW sofar \in Seq(S),
           NEW k \in 1..Len(more), Extension(sofar, messages, more),
           ~KnownAmong(more[k], sofar)
    PROVE  Extension(Append(sofar, more[k]), messages, more)
<1> DEFINE result == Append(sofar, more[k])
           n == Len(sofar)
<1>1. /\ n \in Nat /\ Len(messages) \in Nat
      /\ Len(result) = n + 1
      /\ \A i \in 1..n : result[i] = sofar[i]
      /\ result[n + 1] = more[k]
  OBVIOUS
<1>2. \A i \in 1..n : sofar[i].id # more[k].id /\ ~Surface!SameSignature(sofar[i], more[k])
  BY DEF KnownAmong
<1> HIDE DEF result, n
<1>3. /\ Len(messages) <= n
      /\ \A i \in 1..Len(messages) : sofar[i] = messages[i]
      /\ \A i \in 1..n : i > Len(messages) =>
            /\ \E l \in 1..Len(more) : sofar[i] = more[l]
            /\ \A j \in 1..n : j < i =>
                  sofar[j].id # sofar[i].id /\ ~Surface!SameSignature(sofar[j], sofar[i])
  BY DEF Extension, n
<1>4. /\ Len(messages) <= Len(result)
      /\ \A i \in 1..Len(messages) : result[i] = messages[i]
  BY <1>1, <1>3
<1>5. ASSUME NEW i \in 1..Len(result), i > Len(messages)
      PROVE  /\ \E l \in 1..Len(more) : result[i] = more[l]
             /\ \A j \in 1..Len(result) : j < i =>
                   result[j].id # result[i].id /\ ~Surface!SameSignature(result[j], result[i])
  <2>1. CASE i = n + 1
    <3>1. \A j \in 1..Len(result) : j < i => j \in 1..n
      BY <1>1, <2>1
    <3> QED
      BY <1>1, <1>2, <2>1, <3>1
  <2>2. CASE i # n + 1
    <3>1. i \in 1..n
      BY <1>1, <2>2
    <3>2. \A j \in 1..Len(result) : j < i => j \in 1..n
      BY <1>1, <3>1
    <3>3. result[i] = sofar[i]
      BY <1>1, <3>1
    <3>4. \E l \in 1..Len(more) : result[i] = more[l]
      BY <1>3, <1>5, <3>1, <3>3
    <3>5. ASSUME NEW j \in 1..Len(result), j < i
          PROVE  result[j].id # result[i].id /\ ~Surface!SameSignature(result[j], result[i])
      <4>1. j \in 1..n
        BY <3>2, <3>5
      <4>2. result[j] = sofar[j]
        BY <1>1, <4>1
      <4>3. sofar[j].id # sofar[i].id /\ ~Surface!SameSignature(sofar[j], sofar[i])
        BY <1>3, <1>5, <3>1, <3>5, <4>1
      <4> QED
        BY <3>3, <4>2, <4>3
    <3> QED
      BY <3>4, <3>5
  <2> QED
    BY <2>1, <2>2
<1> QED
  BY <1>4, <1>5 DEF Extension, result

\* A list knows its messages, and still does as it grows.
LEMMA KnownStep ==
    ASSUME NEW S, NEW sofar \in Seq(S), NEW m \in S, NEW new \in S
    PROVE  /\ KnownAmong(m, sofar) => KnownAmong(m, Append(sofar, new))
           /\ KnownAmong(new, Append(sofar, new))
<1> DEFINE n == Len(sofar)
           result == Append(sofar, new)
<1>1. /\ n \in Nat
      /\ Len(result) = n + 1
      /\ \A i \in 1..n : result[i] = sofar[i]
      /\ result[n + 1] = new
  OBVIOUS
<1> HIDE DEF result
<1>2. \A i \in 1..n : i \in 1..(n + 1)
  BY <1>1
<1>3. n + 1 \in 1..(n + 1)
  BY <1>1
<1>4. KnownAmong(m, sofar) => KnownAmong(m, result)
  BY <1>1, <1>2 DEF KnownAmong
<1>5. KnownAmong(new, result)
  BY <1>1, <1>3 DEF KnownAmong
<1> QED
  BY <1>4, <1>5 DEF result

\* mergeOptimisticMessages only appends, and knows all of what it merged.
LEMMA MergeGives ==
    ASSUME NEW S, NEW messages \in Seq(S), NEW more \in Seq(S)
    PROVE  /\ Surface!Merge(messages, more) \in Seq(S)
           /\ Extension(Surface!Merge(messages, more), messages, more)
           /\ \A k \in 1..Len(more) : KnownAmong(more[k], Surface!Merge(messages, more))
<1>1. PICK f \in [0..Len(more) -> Seq(S)] :
              /\ f[0] = messages
              /\ \A k \in 1..Len(more) :
                    f[k] = IF KnownAmong(more[k], f[k - 1]) THEN f[k - 1]
                           ELSE Append(f[k - 1], more[k])
              /\ f[Len(more)] = Surface!Merge(messages, more)
  BY MergeSteps
<1> DEFINE n == Len(more)
           P == {k \in 0..n : /\ Extension(f[k], messages, more)
                              /\ \A j \in 1..n : j <= k => KnownAmong(more[j], f[k])}
<1>2. n \in Nat /\ \A k \in 0..n : f[k] \in Seq(S)
  <2>1. n \in Nat
    OBVIOUS
  <2> HIDE DEF n
  <2>2. f \in [0..n -> Seq(S)]
    BY <1>1 DEF n
  <2> QED
    BY <2>1, <2>2
<1>3. 0 \in P
  <2>1. Extension(messages, messages, more)
    BY DEF Extension
  <2>2. 0 \in 0..n /\ \A j \in 1..n : ~(j <= 0)
    BY <1>2
  <2> QED
    BY <1>1, <2>1, <2>2
<1>4. ASSUME NEW k \in 1..n, k - 1 \in P
      PROVE  k \in P
  <2> DEFINE sofar == f[k - 1]
  <2>1. /\ Extension(sofar, messages, more)
        /\ \A j \in 1..n : j <= k - 1 => KnownAmong(more[j], sofar)
    BY <1>4
  <2>2. k - 1 \in 0..n /\ k \in 0..n
    BY <1>2
  <2>3. sofar \in Seq(S)
    BY <1>2, <2>2
  <2>4. \A j \in 1..n : more[j] \in S
    OBVIOUS
  <2>5. f[k] = IF KnownAmong(more[k], sofar) THEN sofar ELSE Append(sofar, more[k])
    BY <1>1
  <2>6. \A j \in 1..n : j <= k => j <= k - 1 \/ j = k
    BY <1>2
  <2> HIDE DEF sofar, n
  <2>7. CASE KnownAmong(more[k], sofar)
    <3>1. \A j \in 1..n : j <= k => KnownAmong(more[j], sofar)
      BY <2>1, <2>6, <2>7
    <3> QED
      BY <2>1, <2>2, <2>5, <2>7, <3>1
  <2>8. CASE ~KnownAmong(more[k], sofar)
    <3>1. f[k] = Append(sofar, more[k])
      BY <2>5, <2>8
    <3>2. Extension(f[k], messages, more)
      BY <2>1, <2>3, <2>8, <3>1, ExtensionStep DEF n
    <3>3. \A j \in 1..n : j <= k => KnownAmong(more[j], f[k])
      <4>1. TAKE j \in 1..n
      <4>2. HAVE j <= k
      <4>3. KnownAmong(more[j], sofar) => KnownAmong(more[j], Append(sofar, more[k]))
        BY <2>3, <2>4, KnownStep
      <4>4. KnownAmong(more[k], Append(sofar, more[k]))
        BY <2>3, <2>4, KnownStep
      <4> QED
        BY <2>1, <2>6, <3>1, <4>2, <4>3, <4>4
    <3> QED
      BY <2>2, <3>2, <3>3
  <2> QED
    BY <2>7, <2>8
<1>5. 0..n \subseteq P
  <2> HIDE DEF P, n
  <2> QED
    BY <1>2, <1>3, <1>4, UpTo
<1>6. n \in P
  BY <1>2, <1>5
<1> QED
  BY <1>1, <1>2, <1>6

\* A message is among the stored ones by its role and its text.
StoredAmong(m, now) == \E i \in 1..Len(now) : now[i].role = m.role /\ now[i].text = m.text

\* The filter of what is not yet stored, message by message.
LEMMA UnstoredSteps ==
    ASSUME NEW S, NEW messages \in Seq(S), NEW now
    PROVE  \E f \in [0..Len(messages) -> Seq(S)] :
              /\ f[0] = <<>>
              /\ \A k \in 1..Len(messages) :
                    f[k] = IF StoredAmong(messages[k], now) THEN f[k - 1]
                           ELSE Append(f[k - 1], messages[k])
              /\ f[Len(messages)] = Surface!Unstored(messages, now)
<1> DEFINE n == Len(messages)
           T == Seq(S)
           Kept[k \in 0..Len(messages)] ==
             IF k = 0 THEN <<>>
             ELSE IF \E i \in 1..Len(now) : /\ now[i].role = messages[k].role
                                            /\ now[i].text = messages[k].text
                  THEN Kept[k - 1] ELSE Append(Kept[k - 1], messages[k])
           step == [k \in 1..n |-> [sofar \in Seq(S) |->
                      IF StoredAmong(messages[k], now) THEN sofar
                      ELSE Append(sofar, messages[k])]]
<1>1. Surface!Unstored(messages, now) = Kept[n]
  BY DEF Surface!Unstored
<1>2. step \in [1..n -> [Seq(S) -> Seq(S)]]
  OBVIOUS
<1>3. PICK f : StepsOf(f, n, T, <<>>, step)
  <2>1. n \in Nat /\ <<>> \in T /\ step \in [1..n -> [T -> T]]
    BY <1>2
  <2> HIDE DEF step, n, T, Kept
  <2> QED
    BY <2>1, StepsExist
<1>4. /\ f \in [0..n -> T] /\ f[0] = <<>>
      /\ \A k \in 1..n : f[k] = step[k][f[k - 1]]
  <2> HIDE DEF step, n, T, Kept
  <2> QED
    BY <1>3 DEF StepsOf
<1>5. ASSUME NEW k \in 1..n
      PROVE  f[k] = IF StoredAmong(messages[k], now) THEN f[k - 1]
                    ELSE Append(f[k - 1], messages[k])
  <2>1. f[k - 1] \in Seq(S)
    <3>1. k - 1 \in 0..n
      OBVIOUS
    <3> QED
      BY <1>4, <3>1
  <2>2. step[k][f[k - 1]] = IF StoredAmong(messages[k], now) THEN f[k - 1]
                            ELSE Append(f[k - 1], messages[k])
    BY <2>1
  <2> QED
    BY <1>4, <2>2
<1> HIDE DEF step
<1> DEFINE Entry(g, k) == IF k = 0 THEN <<>>
                         ELSE IF \E i \in 1..Len(now) : /\ now[i].role = messages[k].role
                                                        /\ now[i].text = messages[k].text
                              THEN g[k - 1] ELSE Append(g[k - 1], messages[k])
<1>6. ASSUME NEW k \in 0..n
      PROVE  f[k] = Entry(f, k)
  <2>1. CASE k = 0
    BY <1>4, <2>1
  <2>2. CASE k # 0
    <3>1. k \in 1..n
      BY <2>2
    <3> QED
      BY <1>5, <2>2, <3>1 DEF StoredAmong
  <2> QED
    BY <2>1, <2>2
<1>7. f = [k \in 0..n |-> Entry(f, k)]
  <2> HIDE DEF Entry
  <2> QED
    BY <1>4, <1>6
<1>8. Kept = [k \in 0..n |-> Entry(Kept, k)]
  BY <1>7 DEF Kept
<1> HIDE DEF Kept
<1>9. ASSUME NEW k \in 0..n
      PROVE  Kept[k] = Entry(Kept, k)
  <2> HIDE DEF Entry
  <2> QED
    BY <1>8
<1>10. Kept[0] = <<>>
  BY <1>9
<1>11. ASSUME NEW k \in 1..n
       PROVE  Kept[k] = IF StoredAmong(messages[k], now) THEN Kept[k - 1]
                        ELSE Append(Kept[k - 1], messages[k])
  BY <1>9 DEF StoredAmong
<1>12. Kept \in [0..n -> Seq(S)]
  <2> DEFINE P == {k \in 0..n : Kept[k] \in Seq(S)}
  <2>1. 0 \in P
    <3>1. <<>> \in Seq(S) /\ 0 \in 0..n
      OBVIOUS
    <3> HIDE DEF Entry, n
    <3> QED
      BY <1>10, <3>1
  <2>2. ASSUME NEW k \in 1..n, k - 1 \in P
        PROVE  k \in P
    <3> HIDE DEF Entry
    <3>1. Kept[k - 1] \in Seq(S) /\ messages[k] \in S
      BY <2>2
    <3>2. Append(Kept[k - 1], messages[k]) \in Seq(S)
      BY <3>1
    <3>3. Kept[k] = Kept[k - 1] \/ Kept[k] = Append(Kept[k - 1], messages[k])
      BY <1>11
    <3>4. Kept[k] \in Seq(S)
      <4> HIDE DEF P
      <4> QED
        BY <3>1, <3>2, <3>3
    <3> QED
      BY <3>4
  <2>3. 0..n \subseteq P
    <3>1. n \in Nat
      OBVIOUS
    <3> HIDE DEF P, n
    <3> QED
      BY <2>1, <2>2, <3>1, UpTo
  <2>4. Kept = [k \in 0..n |-> Kept[k]]
    <3> HIDE DEF Entry
    <3> QED
      BY <1>8, <1>9
  <2> QED
    BY <2>3, <2>4
<1> QED
  BY <1>1, <1>10, <1>11, <1>12

\* The filter keeps messages of the list, all that are not stored.
LEMMA UnstoredGives ==
    ASSUME NEW S, NEW messages \in Seq(S), NEW now
    PROVE  /\ Surface!Unstored(messages, now) \in Seq(S)
           /\ \A k \in 1..Len(messages) :
                 \/ StoredAmong(messages[k], now)
                 \/ \E i \in 1..Len(Surface!Unstored(messages, now)) :
                       Surface!Unstored(messages, now)[i] = messages[k]
<1>1. PICK f \in [0..Len(messages) -> Seq(S)] :
              /\ f[0] = <<>>
              /\ \A k \in 1..Len(messages) :
                    f[k] = IF StoredAmong(messages[k], now) THEN f[k - 1]
                           ELSE Append(f[k - 1], messages[k])
              /\ f[Len(messages)] = Surface!Unstored(messages, now)
  BY UnstoredSteps
<1> DEFINE n == Len(messages)
           Has(list, m) == \E i \in 1..Len(list) : list[i] = m
           P == {k \in 0..n : \A j \in 1..n : j <= k =>
                                StoredAmong(messages[j], now) \/ Has(f[k], messages[j])}
<1>2. n \in Nat /\ \A k \in 0..n : f[k] \in Seq(S)
  <2>1. n \in Nat
    OBVIOUS
  <2> HIDE DEF n
  <2>2. f \in [0..n -> Seq(S)]
    BY <1>1 DEF n
  <2> QED
    BY <2>1, <2>2
<1>3. ASSUME NEW list \in Seq(S), NEW new \in S, NEW m
      PROVE  /\ Has(list, m) => Has(Append(list, new), m)
             /\ Has(Append(list, new), new)
  <2> DEFINE l == Len(list)
             longer == Append(list, new)
  <2>1. /\ l \in Nat /\ Len(longer) = l + 1
        /\ \A i \in 1..l : longer[i] = list[i]
        /\ longer[l + 1] = new
    OBVIOUS
  <2> HIDE DEF longer
  <2>2. Has(list, m) => Has(longer, m)
    BY <2>1
  <2>3. l + 1 \in 1..Len(longer)
    BY <2>1
  <2>4. Has(longer, new)
    BY <2>1, <2>3
  <2> QED
    BY <2>2, <2>4 DEF longer
<1> HIDE DEF Has
<1>4. 0 \in P
  BY <1>2
<1>5. ASSUME NEW k \in 1..n, k - 1 \in P
      PROVE  k \in P
  <2>1. \A j \in 1..n : j <= k => j <= k - 1 \/ j = k
    BY <1>2
  <2>2. k - 1 \in 0..n /\ k \in 0..n
    BY <1>2
  <2>3. f[k - 1] \in Seq(S) /\ \A j \in 1..n : messages[j] \in S
    BY <1>2, <2>2
  <2>4. f[k] = IF StoredAmong(messages[k], now) THEN f[k - 1]
               ELSE Append(f[k - 1], messages[k])
    BY <1>1
  <2>5. ASSUME NEW j \in 1..n, j <= k, ~StoredAmong(messages[j], now)
        PROVE  Has(f[k], messages[j])
    <3>1. j <= k - 1 => Has(f[k - 1], messages[j])
      BY <1>5, <2>5
    <3> HIDE DEF P, n
    <3>2. CASE j = k
      <4>1. Has(Append(f[k - 1], messages[k]), messages[k])
        BY <1>3, <2>3
      <4> QED
        BY <2>4, <2>5, <3>2, <4>1
    <3>3. CASE j <= k - 1
      <4>1. Has(Append(f[k - 1], messages[k]), messages[j])
        BY <1>3, <2>3, <3>1, <3>3
      <4> QED
        BY <2>4, <3>1, <3>3, <4>1
    <3> QED
      BY <2>1, <2>5, <3>2, <3>3
  <2> QED
    BY <2>2, <2>5
<1>6. 0..n \subseteq P
  <2> HIDE DEF P, n
  <2> QED
    BY <1>2, <1>4, <1>5, UpTo
<1>7. n \in P
  <2>1. n \in 0..n
    BY <1>2
  <2> HIDE DEF P
  <2> QED
    BY <1>6, <2>1
<1>8. \A j \in 1..n : StoredAmong(messages[j], now) \/ Has(f[n], messages[j])
  <2>1. \A j \in 1..n : j <= n
    BY <1>2
  <2> QED
    BY <1>7, <2>1
<1>9. f[n] = Surface!Unstored(messages, now) /\ f[n] \in Seq(S)
  BY <1>1, <1>2
<1> QED
  BY <1>8, <1>9 DEF Has

-----------------------------------------------------------------------------
(* Transcript: what is rendered *)

\* One thing at most is counted at most once.
LEMMA AtMostOne ==
    ASSUME NEW S, \A a, b \in S : a = b
    PROVE  IsFiniteSet(S) /\ Cardinality(S) <= 1
<1>1. CASE S = {}
  BY <1>1, FS_EmptySet
<1>2. CASE S # {}
  <2>1. PICK a \in S : TRUE
    BY <1>2
  <2>2. S = {a}
    BY <2>1
  <2>3. IsFiniteSet({a}) /\ Cardinality({a}) = 1
    BY FS_Singleton
  <2> QED
    BY <2>2, <2>3
<1> QED
  BY <1>1, <1>2

\* The messages of the surface, each with the parts that are told apart.
LEMMA MessagesOf ==
    ASSUME Surface!TypeOK, Surface!StoredTyped
    PROVE  /\ Surface!CopilotMessages(x4, x2[x4]) \in Seq(Surface!Held)
           /\ Len(Surface!CopilotMessages(x4, x2[x4])) = x2[x4]
           /\ x2[x4] \in Nat /\ x2[x4] <= Len(x1[x4])
           /\ \A i \in 1..x2[x4] :
                 /\ i \in 1..Len(x1[x4])
                 /\ Surface!CopilotMessages(x4, x2[x4])[i] =
                      [id |-> <<"stored", x4, i>>, role |-> x1[x4][i].role,
                       text |-> x1[x4][i].text, tools |-> FALSE]
           /\ \A m \in Surface!Held : \E i \in 1..x2[x4] :
                 m = Surface!CopilotMessages(x4, x2[x4])[i]
           /\ \A m \in Surface!Locals : \E k \in Surface!SaidHere :
                 m = [id |-> <<"local", x4, k>>, role |-> "user", text |-> x8[k].text,
                      tools |-> FALSE]
           /\ \A m \in Surface!Replies : \E k \in Surface!SaidHere :
                 /\ Surface!Unanswered(k)
                 /\ \E t \in BOOLEAN : m = [id |-> <<"streamed", x4, k>>,
                                            role |-> "assistant", text |-> k, tools |-> t]
<1> DEFINE base == Surface!CopilotMessages(x4, x2[x4])
<1>1. x2[x4] \in Nat /\ x2[x4] <= Len(x1[x4]) /\ Len(x1[x4]) \in Nat
  BY DEF Surface!TypeOK, Surface!StoredTyped
<1>2. base = [i \in 1..x2[x4] |-> [id |-> <<"stored", x4, i>>, role |-> x1[x4][i].role,
                                    text |-> x1[x4][i].text, tools |-> FALSE]]
  BY DEF Surface!CopilotMessages, Surface!Message
<1>3. \A i \in 1..x2[x4] : i \in 1..Len(x1[x4])
  BY <1>1
<1>4. Surface!Held = {base[i] : i \in 1..x2[x4]}
  BY DEF Surface!Held
<1> HIDE DEF base
<1>5. base \in Seq(Surface!Held) /\ Len(base) = x2[x4]
  <2>1. \A i \in 1..x2[x4] : base[i] \in Surface!Held
    BY <1>4
  <2>2. base = [i \in 1..x2[x4] |-> base[i]]
    BY <1>2
  <2> HIDE DEF base
  <2>3. base \in [1..x2[x4] -> Surface!Held]
    BY <2>1, <2>2
  <2> QED
    BY <1>1, <2>3
<1>6. \A m \in Surface!Locals : \E k \in Surface!SaidHere :
         m = [id |-> <<"local", x4, k>>, role |-> "user", text |-> x8[k].text,
              tools |-> FALSE]
  BY DEF Surface!Locals, Surface!LocalOf, Surface!Message
<1>7. \A m \in Surface!Replies : \E k \in Surface!SaidHere :
         /\ Surface!Unanswered(k)
         /\ \E t \in BOOLEAN : m = [id |-> <<"streamed", x4, k>>,
                                    role |-> "assistant", text |-> k, tools |-> t]
  BY DEF Surface!Replies, Surface!StreamedOf, Surface!Message
<1> QED
  BY <1>1, <1>2, <1>3, <1>4, <1>5, <1>6, <1>7 DEF base

\* What is rendered: the messages held, then sent and streamed ones that nothing before
\* them has the id or the signature of, among them, or known by them, those of the
\* optimistic ones.
LEMMA RenderedGives ==
    ASSUME Surface!TypeOK, Surface!StoredTyped, Surface!LiveSound, Surface!OptimisticSound
    PROVE  /\ Surface!Rendered \in
                Seq(Surface!Held \cup Surface!Locals \cup Surface!Replies)
           /\ x2[x4] <= Len(Surface!Rendered)
           /\ \A i \in 1..x2[x4] :
                 Surface!Rendered[i] = Surface!CopilotMessages(x4, x2[x4])[i]
           /\ \A i \in 1..Len(Surface!Rendered) : i > x2[x4] =>
                 /\ Surface!Rendered[i] \in Surface!Locals \cup Surface!Replies
                 /\ \A j \in 1..Len(Surface!Rendered) : j < i =>
                       /\ Surface!Rendered[j].id # Surface!Rendered[i].id
                       /\ ~Surface!SameSignature(Surface!Rendered[j], Surface!Rendered[i])
           /\ \A k \in 1..Len(x6) : KnownAmong(x6[k], Surface!Rendered)
<1> DEFINE S == Surface!Held \cup Surface!Locals \cup Surface!Replies
           base == Surface!CopilotMessages(x4, x2[x4])
           both == Surface!Merge(base, x5)
           all == Surface!Merge(both, x6)
<1>1. /\ base \in Seq(S) /\ Len(base) = x2[x4] /\ x2[x4] \in Nat
      /\ \A m \in Surface!Held : \E i \in 1..x2[x4] : m = base[i]
  <2>1. base \in Seq(Surface!Held) /\ Len(base) = x2[x4] /\ x2[x4] \in Nat
    BY MessagesOf
  <2>2. \A m \in Surface!Held : \E i \in 1..x2[x4] : m = base[i]
    BY MessagesOf
  <2> HIDE DEF base
  <2> QED
    BY <2>1, <2>2
<1>2. x5 \in Seq(S) /\ x6 \in Seq(S) /\ x6 \in Seq(Surface!Locals)
  BY DEF Surface!LiveSound, Surface!OptimisticSound
<1>3. both \in Seq(S) /\ Extension(both, base, x5)
  <2> HIDE DEF S, base
  <2> QED
    BY <1>1, <1>2, MergeGives
<1>4. /\ all \in Seq(S) /\ Extension(all, both, x6)
      /\ \A k \in 1..Len(x6) : KnownAmong(x6[k], all)
  <2> HIDE DEF S, both
  <2> QED
    BY <1>2, <1>3, MergeGives
<1>5. all = Surface!Rendered
  BY DEF Surface!Rendered
<1> HIDE DEF base, both, all
<1>6. \A k \in 1..Len(x5) : x5[k] \in S
  BY <1>2
<1>7. \A k \in 1..Len(x6) : x6[k] \in Surface!Locals
  BY <1>2
<1> HIDE DEF S
<1>8. /\ Len(base) \in Nat /\ Len(both) \in Nat /\ Len(all) \in Nat
      /\ Len(base) <= Len(both) /\ Len(both) <= Len(all)
      /\ \A i \in 1..Len(base) : both[i] = base[i]
      /\ \A i \in 1..Len(both) : all[i] = both[i]
  BY <1>1, <1>3, <1>4 DEF Extension
<1>9. \A i \in 1..Len(base) : all[i] = base[i]
  BY <1>8
<1>10. ASSUME NEW i \in 1..Len(all), i > Len(base)
       PROVE  /\ all[i] \in Surface!Locals \cup Surface!Replies
              /\ \A j \in 1..Len(all) : j < i =>
                    all[j].id # all[i].id /\ ~Surface!SameSignature(all[j], all[i])
  <2>1. CASE i > Len(both)
    BY <1>4, <1>7, <2>1 DEF Extension
  <2>2. CASE ~(i > Len(both))
    <3>1. i \in 1..Len(both)
      BY <1>8, <2>2
    <3>2. PICK k \in 1..Len(x5) : both[i] = x5[k]
      BY <1>3, <1>10, <3>1 DEF Extension
    <3>3. \A j \in 1..Len(both) : j < i =>
             both[j].id # both[i].id /\ ~Surface!SameSignature(both[j], both[i])
      BY <1>3, <1>10, <3>1 DEF Extension
    <3>4. \A j \in 1..Len(all) : j < i => j \in 1..Len(both) /\ all[j] = both[j]
      BY <1>8, <3>1
    <3>5. both[i] \notin Surface!Held
      <4>1. SUFFICES ASSUME both[i] \in Surface!Held
                     PROVE  FALSE
        OBVIOUS
      <4>2. PICK j \in 1..Len(base) : both[i] = base[j]
        BY <1>1, <4>1
      <4>3. j \in 1..Len(both) /\ j < i /\ both[j] = base[j]
        BY <1>8, <1>10, <4>2
      <4> QED
        BY <3>3, <4>2, <4>3
    <3>6. all[i] = both[i] /\ all[i] \in S
      BY <1>6, <1>8, <3>1, <3>2
    <3> QED
      BY <3>3, <3>4, <3>5, <3>6 DEF S
  <2> QED
    BY <2>1, <2>2
<1> QED
  BY <1>1, <1>4, <1>5, <1>8, <1>9, <1>10 DEF S, base

\* A message held is rendered as it is stored.
LEMMA HeldRendered ==
    ASSUME Surface!TypeOK, Surface!StoredTyped, Surface!LiveSound, Surface!OptimisticSound,
           NEW i \in 1..x2[x4]
    PROVE  /\ i \in 1..Len(x1[x4])
           /\ Surface!Rendered[i].role = x1[x4][i].role
           /\ Surface!Rendered[i].text = x1[x4][i].text
           /\ Surface!Rendered[i].tools = FALSE
<1>1. Surface!Rendered[i] = Surface!CopilotMessages(x4, x2[x4])[i]
  BY RenderedGives
<1>2. /\ i \in 1..Len(x1[x4])
      /\ Surface!CopilotMessages(x4, x2[x4])[i] =
           [id |-> <<"stored", x4, i>>, role |-> x1[x4][i].role,
            text |-> x1[x4][i].text, tools |-> FALSE]
  BY MessagesOf
<1> QED
  BY <1>1, <1>2

\* Ids of different sources differ, and those of one source with the number of the message.
LEMMA IdsApart ==
    ASSUME NEW c, NEW k, NEW n
    PROVE  /\ <<"local", c, k>> # <<"stored", c, n>>
           /\ <<"local", c, k>> # <<"streamed", c, n>>
           /\ <<"local", c, k>> = <<"local", c, n>> => k = n
           /\ <<"local", c, k>>[2] = c /\ <<"stored", c, k>>[2] = c
           /\ <<"streamed", c, k>>[2] = c
OBVIOUS

\* The four parts of TranscriptExact.
LEMMA OwnMessages ==
    ASSUME Surface!TypeOK, Surface!StoredTyped, Surface!LiveSound, Surface!OptimisticSound
    PROVE  \A i \in 1..Len(Surface!Rendered) :
              Surface!ConversationOf(Surface!Rendered[i]) = x4
<1> DEFINE all == Surface!Rendered
<1>1. SUFFICES ASSUME NEW i \in 1..Len(all)
               PROVE  Surface!ConversationOf(all[i]) = x4
  OBVIOUS
<1>2. all[i] \in Surface!Held \cup Surface!Locals \cup Surface!Replies
  BY RenderedGives
<1> HIDE DEF all
<1>3. CASE all[i] \in Surface!Held
  <2>1. PICK j \in 1..x2[x4] : all[i] = Surface!CopilotMessages(x4, x2[x4])[j]
    BY <1>3, MessagesOf
  <2>a. Surface!CopilotMessages(x4, x2[x4])[j] =
          [id |-> <<"stored", x4, j>>, role |-> x1[x4][j].role,
           text |-> x1[x4][j].text, tools |-> FALSE]
    BY MessagesOf
  <2>2. all[i].id = <<"stored", x4, j>>
    BY <2>1, <2>a
  <2> QED
    BY <2>2, IdsApart DEF Surface!ConversationOf
<1>4. CASE all[i] \in Surface!Locals
  <2>1. PICK k \in Surface!SaidHere :
           all[i] = [id |-> <<"local", x4, k>>, role |-> "user", text |-> x8[k].text,
                     tools |-> FALSE]
    BY <1>4, MessagesOf
  <2> QED
    BY <2>1, IdsApart DEF Surface!ConversationOf
<1>5. CASE all[i] \in Surface!Replies
  <2>1. PICK k \in Surface!SaidHere : \E t \in BOOLEAN :
           all[i] = [id |-> <<"streamed", x4, k>>, role |-> "assistant", text |-> k,
                     tools |-> t]
    BY <1>5, MessagesOf
  <2> QED
    BY <2>1, IdsApart DEF Surface!ConversationOf
<1> QED
  BY <1>2, <1>3, <1>4, <1>5 DEF all

\* A text is shown at most as often as it was said: what is not among the messages held is
\* shown once and alone, and each message held is of a send of its own.
LEMMA NotTooOften ==
    ASSUME Surface!TypeOK, Surface!StoredTyped, Surface!StoredSound, Surface!LiveSound,
           Surface!OptimisticSound, NEW text
    PROVE  Cardinality(Surface!Shows("user", text))
             <= Cardinality({k \in 1..Len(x8) : x8[k] = [conv |-> x4, text |-> text]})
<1> DEFINE all == Surface!Rendered
           held == x2[x4]
           shows == {i \in 1..Len(all) : all[i].role = "user" /\ all[i].text = text}
           said == {k \in 1..Len(x8) : x8[k] = [conv |-> x4, text |-> text]}
<1>1. SUFFICES Cardinality(shows) <= Cardinality(said)
  BY DEF Surface!Shows
<1>2. /\ all \in Seq(Surface!Held \cup Surface!Locals \cup Surface!Replies)
      /\ held \in Nat /\ held <= Len(all) /\ Len(all) \in Nat
  BY RenderedGives, MessagesOf
<1>3. \A i \in 1..held : /\ i \in 1..Len(x1[x4])
                         /\ all[i].role = x1[x4][i].role /\ all[i].text = x1[x4][i].text
                         /\ all[i].tools = FALSE
  BY HeldRendered
<1>4. \A i \in 1..Len(all) : i > held =>
         /\ all[i] \in Surface!Locals \cup Surface!Replies
         /\ \A j \in 1..Len(all) : j < i => ~Surface!SameSignature(all[j], all[i])
  BY RenderedGives
<1> HIDE DEF all, held
<1>5. /\ x8 \in Seq([conv : Conversations, text : Texts]) /\ Len(x8) \in Nat
      /\ x4 \in Conversations
  BY DEF Surface!StoredTyped, Surface!TypeOK
<1>a. \A k \in 1..Len(x8) : x8[k] \in [conv : Conversations, text : Texts]
  BY <1>5, ElementOfSeq
<1>6. IsFiniteSet(said)
  <2>1. IsFiniteSet(1..Len(x8))
    BY <1>5, FS_Interval
  <2> QED
    BY <2>1, FS_Subset
<1>7. \A i \in shows : i > held =>
         /\ all[i].tools = FALSE
         /\ \E k \in said : TRUE
  <2>1. TAKE i \in shows
  <2>2. HAVE i > held
  <2>3. all[i] \in Surface!Locals \cup Surface!Replies
    BY <1>4, <2>2
  <2>4. all[i] \notin Surface!Replies
    <3>1. SUFFICES ASSUME all[i] \in Surface!Replies
                   PROVE  FALSE
      OBVIOUS
    <3>2. all[i].role = "assistant"
      BY <3>1, MessagesOf
    <3> QED
      BY <3>2
  <2>5. PICK k \in Surface!SaidHere :
           all[i] = [id |-> <<"local", x4, k>>, role |-> "user", text |-> x8[k].text,
                     tools |-> FALSE]
    BY <2>3, <2>4, MessagesOf
  <2>6. k \in 1..Len(x8) /\ x8[k].conv = x4 /\ x8[k].text = text
    BY <2>5 DEF Surface!SaidHere
  <2>7. x8[k] = [conv |-> x4, text |-> text]
    <3>1. x8[k] \in [conv : Conversations, text : Texts]
      BY <1>a, <2>6
    <3> QED
      BY ONLY <2>6, <3>1
  <2>8. k \in said
    BY <2>6, <2>7
  <2> QED
    BY <2>5, <2>8
<1>8. CASE \E i \in shows : i > held
  <2>1. PICK i \in shows : i > held
    BY <1>8
  <2>2. ASSUME NEW j \in shows
        PROVE  j = i
    <3>1. all[i].tools = FALSE
      BY <1>7, <2>1
    <3>2. all[j].tools = FALSE
      BY <1>2, <1>3, <1>7
    <3>3. Surface!SameSignature(all[i], all[j]) /\ Surface!SameSignature(all[j], all[i])
      BY <3>1, <3>2 DEF Surface!SameSignature
    <3>4. ~(j < i)
      BY <1>4, <2>1, <3>3
    <3>5. ~(i < j)
      BY <1>2, <1>4, <2>1, <3>3
    <3> QED
      BY <1>2, <3>4, <3>5
  <2>3. Cardinality(shows) <= 1 /\ Cardinality(shows) \in Nat
    BY <2>2, AtMostOne, FS_CardinalityType
  <2>4. said # {} /\ Cardinality(said) \in Nat
    BY <1>6, <1>7, <2>1, FS_CardinalityType
  <2>5. Cardinality(said) # 0
    BY <1>6, <2>4, FS_EmptySet
  <2> HIDE DEF shows, said
  <2> QED
    BY <2>3, <2>4, <2>5
<1>9. CASE \A i \in shows : ~(i > held)
  <2> DEFINE mark == [i \in shows |-> x1[x4][i].k]
  <2>1. ASSUME NEW i \in shows
        PROVE  i \in 1..held /\ x1[x4][i].role = "user" /\ x1[x4][i].k \in said
    <3>1. i \in 1..held
      BY <1>2, <1>9
    <3>2. /\ i \in 1..Len(x1[x4])
          /\ x1[x4][i].role = "user" /\ x1[x4][i].text = text
      BY <1>3, <3>1
    <3>3. /\ x1[x4][i].k \in 1..Len(x8) /\ x8[x1[x4][i].k].conv = x4
          /\ x8[x1[x4][i].k].text = text
      BY <1>5, <3>2 DEF Surface!StoredSound
    <3>4. x8[x1[x4][i].k] = [conv |-> x4, text |-> text]
      <4>1. x8[x1[x4][i].k] \in [conv : Conversations, text : Texts]
        BY <1>a, <3>3
      <4> QED
        BY ONLY <3>3, <4>1
    <3>5. x1[x4][i].k \in said
      BY <3>3, <3>4
    <3> QED
      BY <3>1, <3>2, <3>5
  <2>2. ASSUME NEW i \in shows, NEW j \in shows, x1[x4][i].k = x1[x4][j].k
        PROVE  i = j
    <3>1. /\ i \in 1..Len(x1[x4]) /\ j \in 1..Len(x1[x4])
          /\ x1[x4][i].role = x1[x4][j].role
      BY <1>3, <2>1
    <3> QED
      BY <1>5, <2>2, <3>1 DEF Surface!StoredSound
  <2>3. mark \in Injection(shows, said)
    <3>1. mark \in [shows -> said]
      BY <2>1
    <3>2. \A i, j \in shows : mark[i] = mark[j] => i = j
      BY <2>2
    <3> HIDE DEF mark, shows, said
    <3> QED
      BY <3>1, <3>2 DEF Injection, IsInjective
  <2> HIDE DEF mark, shows, said
  <2> QED
    BY <1>6, <2>3, FS_Injection
<1> QED
  BY <1>8, <1>9

\* A reply is shown at most once: a streamed one only if none is held.
LEMMA OneReplyShown ==
    ASSUME Surface!TypeOK, Surface!StoredTyped, Surface!StoredSound, Surface!LiveSound,
           Surface!OptimisticSound, NEW n
    PROVE  Cardinality(Surface!Shows("assistant", n)) <= 1
<1> DEFINE all == Surface!Rendered
           held == x2[x4]
           shows == {i \in 1..Len(all) : all[i].role = "assistant" /\ all[i].text = n}
<1>1. SUFFICES Cardinality(shows) <= 1
  BY DEF Surface!Shows
<1>2. /\ all \in Seq(Surface!Held \cup Surface!Locals \cup Surface!Replies)
      /\ held \in Nat /\ held <= Len(all) /\ Len(all) \in Nat
  BY RenderedGives, MessagesOf
<1>3. \A i \in 1..held : /\ i \in 1..Len(x1[x4])
                         /\ all[i].role = x1[x4][i].role /\ all[i].text = x1[x4][i].text
  BY HeldRendered
<1>4. \A i \in 1..Len(all) : i > held =>
         /\ all[i] \in Surface!Locals \cup Surface!Replies
         /\ \A j \in 1..Len(all) : j < i => all[j].id # all[i].id
  BY RenderedGives
<1> HIDE DEF all, held
<1>5. x4 \in Conversations
  BY DEF Surface!TypeOK
<1>6. \A i \in shows : i > held => Surface!Unanswered(n) /\ all[i].id = <<"streamed", x4, n>>
  <2>1. TAKE i \in shows
  <2>2. HAVE i > held
  <2>3. all[i] \notin Surface!Locals
    <3>1. SUFFICES ASSUME all[i] \in Surface!Locals
                   PROVE  FALSE
      OBVIOUS
    <3>2. all[i].role = "user"
      BY <3>1, MessagesOf
    <3> QED
      BY <3>2
  <2>4. all[i] \in Surface!Replies
    BY <1>4, <2>2, <2>3
  <2>5. PICK k \in Surface!SaidHere :
           /\ Surface!Unanswered(k)
           /\ \E t \in BOOLEAN : all[i] = [id |-> <<"streamed", x4, k>>, role |-> "assistant",
                                           text |-> k, tools |-> t]
    BY <2>4, MessagesOf
  <2>6. k = n
    BY <2>5
  <2> QED
    BY <2>5, <2>6
<1>7. \A i \in shows : i \in 1..held => /\ i \in 1..Len(x1[x4])
                                        /\ x1[x4][i].role = "assistant"
                                        /\ x1[x4][i].k = n
  BY <1>3, <1>5 DEF Surface!StoredSound
<1>8. ASSUME NEW i \in shows, NEW j \in shows, i < j
      PROVE  FALSE
  <2>1. i \in Nat /\ j \in Nat /\ i \in 1..Len(all) /\ j \in 1..Len(all)
    BY <1>2
  <2>2. CASE j <= held
    <3>1. i \in 1..held /\ j \in 1..held
      BY <1>2, <1>8, <2>1, <2>2
    <3>2. i = j
      BY <1>5, <1>7, <3>1 DEF Surface!StoredSound
    <3> QED
      BY <1>8, <2>1, <3>2
  <2>3. CASE j > held /\ i <= held
    <3>1. i \in 1..held
      BY <1>2, <2>1, <2>3
    <3>2. Surface!Unanswered(n)
      BY <1>6, <2>3
    <3> QED
      BY <1>7, <3>1, <3>2 DEF Surface!Unanswered, held
  <2>4. CASE j > held /\ i > held
    <3>1. all[i].id = <<"streamed", x4, n>> /\ all[j].id = <<"streamed", x4, n>>
      BY <1>6, <2>4
    <3>2. all[i].id # all[j].id
      BY <1>4, <1>8, <2>1, <2>4
    <3> QED
      BY <3>1, <3>2
  <2> QED
    BY <1>2, <2>1, <2>2, <2>3, <2>4
<1>9. \A i, j \in shows : i = j
  BY <1>2, <1>8
<1> HIDE DEF shows
<1> QED
  BY <1>9, AtMostOne

\* What was sent last is shown: it is held, or a message that is known by its id or by its
\* text.
LEMMA SentIsShown ==
    ASSUME Surface!TypeOK, Surface!StoredTyped, Surface!LiveSound, Surface!OptimisticSound,
           x9 # 0
    PROVE  Surface!Shows("user", x8[x9].text) # {}
<1> DEFINE all == Surface!Rendered
           held == x2[x4]
           text == x8[x9].text
<1>1. SUFFICES \E i \in 1..Len(all) : all[i].role = "user" /\ all[i].text = text
  BY DEF Surface!Shows
<1>2. held \in Nat /\ held <= Len(all) /\ Len(all) \in Nat
  BY RenderedGives, MessagesOf
<1>3. \A i \in 1..held : all[i].role = x1[x4][i].role /\ all[i].text = x1[x4][i].text
  BY HeldRendered
<1>4. all \in Seq(Surface!Held \cup Surface!Locals \cup Surface!Replies)
  BY RenderedGives
<1>5. \A k \in 1..Len(x6) : KnownAmong(x6[k], all)
  BY RenderedGives
<1> HIDE DEF all
<1>6. CASE \E i \in 1..held : x1[x4][i].role = "user" /\ x1[x4][i].text = text
  BY <1>2, <1>3, <1>6
<1>7. CASE \E k \in 1..Len(x6) : x6[k].text = text
  <2>1. PICK k \in 1..Len(x6) : x6[k].text = text
    BY <1>7
  <2>2. x6[k] \in Surface!Locals
    BY DEF Surface!OptimisticSound
  <2>3. PICK n \in Surface!SaidHere :
           x6[k] = [id |-> <<"local", x4, n>>, role |-> "user", text |-> x8[n].text,
                    tools |-> FALSE]
    BY <2>2, MessagesOf
  <2>4. PICK i \in 1..Len(all) : \/ all[i].id = x6[k].id
                                 \/ Surface!SameSignature(all[i], x6[k])
    BY <1>5 DEF KnownAmong
  <2>5. CASE Surface!SameSignature(all[i], x6[k])
    BY <2>1, <2>3, <2>5 DEF Surface!SameSignature
  <2>6. CASE all[i].id = x6[k].id
    <3>1. all[i].id = <<"local", x4, n>>
      BY <2>3, <2>6
    <3>2. all[i] \in Surface!Held \cup Surface!Locals \cup Surface!Replies
      BY <1>4
    <3>3. all[i] \notin Surface!Held
      <4>1. SUFFICES ASSUME all[i] \in Surface!Held
                     PROVE  FALSE
        OBVIOUS
      <4>2. PICK j \in 1..x2[x4] : all[i] = Surface!CopilotMessages(x4, x2[x4])[j]
        BY <4>1, MessagesOf
      <4>a. Surface!CopilotMessages(x4, x2[x4])[j] =
              [id |-> <<"stored", x4, j>>, role |-> x1[x4][j].role,
               text |-> x1[x4][j].text, tools |-> FALSE]
        BY MessagesOf
      <4>3. all[i].id = <<"stored", x4, j>>
        BY <4>2, <4>a
      <4> QED
        BY <3>1, <4>3, IdsApart
    <3>4. all[i] \notin Surface!Replies
      <4>1. SUFFICES ASSUME all[i] \in Surface!Replies
                     PROVE  FALSE
        OBVIOUS
      <4>2. PICK m \in Surface!SaidHere : all[i].id = <<"streamed", x4, m>>
        BY <4>1, MessagesOf
      <4> QED
        BY <3>1, <4>2, IdsApart
    <3>5. PICK m \in Surface!SaidHere :
             all[i] = [id |-> <<"local", x4, m>>, role |-> "user", text |-> x8[m].text,
                       tools |-> FALSE]
      BY <3>2, <3>3, <3>4, MessagesOf
    <3>6. m = n
      BY <3>1, <3>5
    <3> QED
      BY <2>1, <2>3, <3>5, <3>6
  <2> QED
    BY <2>4, <2>5, <2>6
<1> QED
  BY <1>6, <1>7 DEF Surface!OptimisticSound

-----------------------------------------------------------------------------
(* Transcript: the steps *)

LEMMA SurfaceInit ==
    ASSUME Surface!TranscriptAssumption, Surface!Init
    PROVE  Surface!IInv
<1> USE DEF Surface!Init, Surface!TranscriptAssumption
<1>1. Surface!StoredTyped
  <2>1. <<>> \in Seq([role : {"user", "assistant"}, text : Texts \cup Nat, k : Nat])
    OBVIOUS
  <2>2. <<>> \in Seq([conv : Conversations, text : Texts])
    OBVIOUS
  <2>3. x7 = [conv |-> x7.conv, own |-> x7.own, n |-> x7.n]
    BY DEF Surface!NoStream
  <2> QED
    BY <2>1, <2>2, <2>3 DEF Surface!StoredTyped
<1>2. Surface!TypeOK
  <2>1. /\ \A c \in Conversations : x1[c] = <<>> /\ x2[c] = 0 /\ x3[c] = {}
        /\ x8 = <<>> /\ x9 = 0 /\ x10 = FALSE /\ x4 \in Conversations
        /\ x7.conv = NoConversation /\ x7.n = 0
    BY DEF Surface!NoStream
  <2>2. Len(x8) = 0 /\ \A c \in Conversations : Len(x1[c]) = 0
    BY <2>1
  <2>3. MaxSends \in Nat
    OBVIOUS
  <2>4. \A c \in Conversations : x2[c] \in 0..Len(x1[c])
    BY ONLY <2>1, <2>2
  <2>5. \A c \in Conversations : x3[c] \subseteq 1..Len(x8)
    BY ONLY <2>1
  <2>6. x7.n \in 0..Len(x8) /\ x9 \in 0..Len(x8) /\ Len(x8) \in 0..MaxSends
    BY ONLY <2>1, <2>2, <2>3
  <2> QED
    BY ONLY <2>1, <2>4, <2>5, <2>6 DEF Surface!TypeOK
<1>3. Surface!StoredSound
  BY DEF Surface!StoredSound
<1>4. Surface!LiveSound /\ Surface!OptimisticSound
  BY DEF Surface!LiveSound, Surface!OptimisticSound, Surface!Streaming
<1> QED
  BY <1>1, <1>2, <1>3, <1>4 DEF Surface!IInv

\* What the surface may show grows as messages are sent, and keeps what is held.
LEMMA SourcesKeep ==
    ASSUME Surface!TypeOK, Surface!StoredTyped, x4' = x4, x2'[x4] = x2[x4],
           \A i \in 1..x2[x4] : x1'[x4][i] = x1[x4][i],
           \A k \in 1..Len(x8) : k \in 1..Len(x8)' /\ x8'[k] = x8[k]
    PROVE  /\ Surface!Held' = Surface!Held
           /\ \A k \in Surface!SaidHere : k \in Surface!SaidHere'
           /\ \A k : Surface!Unanswered(k)' <=> Surface!Unanswered(k)
           /\ Surface!Locals \subseteq Surface!Locals'
           /\ Surface!Replies \subseteq Surface!Replies'
<1>1. Surface!Held' = Surface!Held
  <2>1. Surface!CopilotMessages(x4', x2'[x4']) = Surface!CopilotMessages(x4, x2[x4])'
    BY DEF Surface!CopilotMessages, Surface!Message
  <2>2. [i \in 1..x2[x4] |-> Surface!CopilotMessages(x4, x2[x4])'[i]] =
        [i \in 1..x2[x4] |-> Surface!CopilotMessages(x4, x2[x4])[i]]
    BY DEF Surface!CopilotMessages, Surface!Message
  <2>3. \A i \in 1..x2[x4] : Surface!CopilotMessages(x4, x2[x4])'[i] =
                            Surface!CopilotMessages(x4, x2[x4])[i]
    BY DEF Surface!CopilotMessages, Surface!Message
  <2> QED
    BY <2>3 DEF Surface!Held
<1>2. \A k \in Surface!SaidHere : k \in Surface!SaidHere'
  BY DEF Surface!SaidHere
<1>3. \A k : Surface!Unanswered(k)' <=> Surface!Unanswered(k)
  BY DEF Surface!Unanswered
<1>4. Surface!Locals \subseteq Surface!Locals'
  <2>1. ASSUME NEW k \in Surface!SaidHere
        PROVE  Surface!LocalOf(k)' = Surface!LocalOf(k)
    BY DEF Surface!LocalOf, Surface!Message, Surface!SaidHere
  <2> QED
    BY <1>2, <2>1 DEF Surface!Locals
<1>5. Surface!Replies \subseteq Surface!Replies'
  <2>1. \A k, t : Surface!StreamedOf(k, t)' = Surface!StreamedOf(k, t)
    BY DEF Surface!StreamedOf, Surface!Message
  <2>2. \A k : k \in Surface!SaidHere /\ Surface!Unanswered(k) =>
                 k \in Surface!SaidHere' /\ Surface!Unanswered(k)'
    BY <1>2, <1>3
  <2> QED
    BY <2>1, <2>2 DEF Surface!Replies
<1> QED
  BY <1>1, <1>2, <1>3, <1>4, <1>5

\* A step of the server's keeps what the surface has.
LEMMA SurfaceKept ==
    ASSUME Surface!IInv, Surface!TypeOK', Surface!StoredTyped', Surface!StoredSound',
           \A i \in 1..x2[x4] : x1'[x4][i] = x1[x4][i],
           UNCHANGED <<x2, x4, x5, x6, x7, x8, x9, x10>>
    PROVE  Surface!IInv'
<1>1. Surface!TypeOK /\ Surface!StoredTyped
  BY DEF Surface!IInv
<1>2. /\ Surface!Held' = Surface!Held
      /\ \A k \in Surface!SaidHere : k \in Surface!SaidHere'
      /\ \A k : Surface!Unanswered(k)' <=> Surface!Unanswered(k)
      /\ Surface!Locals \subseteq Surface!Locals'
      /\ Surface!Replies \subseteq Surface!Replies'
  BY <1>1, SourcesKeep
<1>3. Surface!LiveSound => Surface!LiveSound'
  <2> DEFINE S == Surface!Held \cup Surface!Locals \cup Surface!Replies
  <2>1. S \subseteq S'
    BY <1>2
  <2>2. x5 \in Seq(S) => x5' \in Seq(S')
    <3> HIDE DEF S
    <3> QED
      BY <2>1
  <2> QED
    BY <1>2, <2>2 DEF Surface!LiveSound, Surface!Streaming
<1>4. Surface!OptimisticSound => Surface!OptimisticSound'
  <2>1. x6 \in Seq(Surface!Locals) => x6' \in Seq(Surface!Locals')
    BY <1>2
  <2> QED
    BY <2>1 DEF Surface!OptimisticSound
<1> QED
  BY <1>3, <1>4 DEF Surface!IInv

\* The types of the records of the server's messages.
LEMMA TablesOf ==
    ASSUME Surface!TypeOK, Surface!StoredTyped, NEW c \in Conversations
    PROVE  /\ x1[c] \in Seq([role : {"user", "assistant"}, text : Texts \cup Nat, k : Nat])
           /\ Len(x1[c]) \in Nat /\ x2[c] \in Nat /\ x2[c] <= Len(x1[c])
           /\ x3[c] \in SUBSET Nat /\ x3[c] \subseteq 1..Len(x8)
           /\ Len(x8) \in Nat
           /\ \A k \in 1..Len(x8) : x8[k] \in [conv : Conversations, text : Texts]
<1>1. x8 \in Seq([conv : Conversations, text : Texts])
  BY DEF Surface!StoredTyped
<1>2. \A k \in 1..Len(x8) : x8[k] \in [conv : Conversations, text : Texts]
  BY <1>1, ElementOfSeq
<1>3. /\ x1[c] \in Seq([role : {"user", "assistant"}, text : Texts \cup Nat, k : Nat])
      /\ x3[c] \in SUBSET Nat /\ x2[c] \in Nat
  BY DEF Surface!StoredTyped
<1>4. x2[c] \in 0..Len(x1[c]) /\ x3[c] \subseteq 1..Len(x8) /\ Len(x8) \in Nat
  BY DEF Surface!TypeOK
<1>5. Len(x1[c]) \in Nat
  BY <1>3
<1> QED
  BY <1>2, <1>3, <1>4, <1>5

\* A message is stored at the end of a conversation.
LEMMA StoredGrows ==
    ASSUME Surface!IInv, NEW c \in Conversations, NEW k \in 1..Len(x8), x8[k].conv = c,
           NEW m \in [role : {"user", "assistant"}, text : Texts \cup Nat, k : Nat],
           m.k = k, m.text = IF m.role = "user" THEN x8[k].text ELSE k,
           \A j \in 1..Len(x1[c]) : ~(x1[c][j].role = m.role /\ x1[c][j].k = k),
           x1' = [x1 EXCEPT ![c] = Append(@, m)],
           x3' = IF m.role = "user" THEN x3 ELSE [x3 EXCEPT ![c] = @ \ {k}],
           UNCHANGED <<x2, x4, x5, x6, x7, x8, x9, x10>>
    PROVE  Surface!IInv'
<1> DEFINE M == [role : {"user", "assistant"}, text : Texts \cup Nat, k : Nat]
<1>1. Surface!TypeOK /\ Surface!StoredTyped /\ Surface!StoredSound
  BY DEF Surface!IInv
<1>2. x1 \in [Conversations -> Seq(M)] /\ x3 \in [Conversations -> SUBSET Nat]
  BY <1>1 DEF Surface!StoredTyped
<1>3. /\ x1[c] \in Seq(M) /\ Len(x1[c]) \in Nat
  BY <1>1, TablesOf
<1> HIDE DEF M
<1>4. m \in M
  BY DEF M
<1> DEFINE n == Len(x1[c])
<1>5. /\ x1'[c] \in Seq(M) /\ Len(x1'[c]) = n + 1
      /\ \A i \in 1..n : x1'[c][i] = x1[c][i]
      /\ x1'[c][n + 1] = m
      /\ \A d \in Conversations : d # c => x1'[d] = x1[d]
  <2>1. x1'[c] = Append(x1[c], m)
    BY <1>2
  <2>2. \A d \in Conversations : d # c => x1'[d] = x1[d]
    BY <1>2
  <2> QED
    BY <1>3, <1>4, <2>1, <2>2
<1>6. x1' \in [Conversations -> Seq(M)]
  BY <1>2, <1>5
<1>7. x3' \in [Conversations -> SUBSET Nat] /\ \A d \in Conversations : x3'[d] \subseteq x3[d]
  BY <1>2
<1>8. m.role # "user" => k \notin x3'[c]
  BY <1>2
<1>9. Surface!StoredTyped'
  BY <1>1, <1>6, <1>7 DEF Surface!StoredTyped, M
<1>10. Surface!TypeOK'
  <2>1. \A d \in Conversations : x2[d] \in 0..Len(x1'[d])
    <3>1. TAKE d \in Conversations
    <3>2. x2[d] \in 0..Len(x1[d])
      BY <1>1 DEF Surface!TypeOK
    <3> QED
      BY <1>3, <1>5, <3>2
  <2> QED
    BY <1>1, <1>7, <2>1 DEF Surface!TypeOK
<1>11. Surface!StoredSound'
  <2> DEFINE Sound(d, i, w) ==
          /\ w[i].k \in 1..Len(x8) /\ x8[w[i].k].conv = d
          /\ w[i].text = IF w[i].role = "user" THEN x8[w[i].k].text ELSE w[i].k
  <2>1. ASSUME NEW d \in Conversations
        PROVE  \A l \in x3'[d] : l \in 1..Len(x8) /\ x8[l].conv = d
    BY <1>1, <1>7 DEF Surface!StoredSound
  <2>2. ASSUME NEW d \in Conversations, NEW i \in 1..Len(x1'[d])
        PROVE  /\ Sound(d, i, x1'[d])
               /\ x1'[d][i].role = "assistant" => x1'[d][i].k \notin x3'[d]
               /\ \A j \in 1..Len(x1'[d]) :
                     x1'[d][j].role = x1'[d][i].role /\ x1'[d][j].k = x1'[d][i].k => i = j
    <3>1. ASSUME NEW j \in 1..Len(x1[d])
          PROVE  /\ Sound(d, j, x1[d])
                 /\ x1[d][j].role = "assistant" => x1[d][j].k \notin x3'[d]
                 /\ \A l \in 1..Len(x1[d]) :
                       x1[d][l].role = x1[d][j].role /\ x1[d][l].k = x1[d][j].k => j = l
      BY <1>1, <1>7 DEF Surface!StoredSound
    <3> HIDE DEF Sound
    <3>2. CASE d # c
      <4>1. x1'[d] = x1[d]
        BY <1>5, <3>2
      <4> QED
        BY <3>1, <4>1
    <3>3. CASE d = c
      <4>1. \A j \in 1..Len(x1'[c]) : j \in 1..n \/ j = n + 1
        BY <1>3, <1>5
      <4>2. CASE i \in 1..n
        <5>1. x1'[c][i] = x1[c][i]
          BY <1>5, <4>2
        <5>2. Sound(c, i, x1'[c])
          BY <3>1, <3>3, <4>2, <5>1 DEF Sound
        <5>3. x1'[c][i].role = "assistant" => x1'[c][i].k \notin x3'[c]
          BY <3>1, <3>3, <4>2, <5>1
        <5>4. ASSUME NEW j \in 1..Len(x1'[c]),
                     x1'[c][j].role = x1'[c][i].role, x1'[c][j].k = x1'[c][i].k
              PROVE  i = j
          <6>1. CASE j \in 1..n
            BY <1>5, <3>1, <3>3, <4>2, <5>1, <5>4, <6>1
          <6>2. CASE j = n + 1
            BY <1>5, <4>2, <5>1, <5>4, <6>2
          <6> QED
            BY <4>1, <6>1, <6>2
        <5> QED
          BY <3>3, <5>2, <5>3, <5>4
      <4>3. CASE i = n + 1
        <5>1. x1'[c][i] = m
          BY <1>5, <4>3
        <5>2. Sound(c, i, x1'[c])
          BY <5>1 DEF Sound
        <5>3. m.role = "assistant" => m.k \notin x3'[c]
          BY <1>8
        <5>4. ASSUME NEW j \in 1..Len(x1'[c]), x1'[c][j].role = m.role, x1'[c][j].k = m.k
              PROVE  i = j
          <6>1. CASE j \in 1..n
            BY <1>5, <5>4, <6>1
          <6> QED
            BY <4>1, <4>3, <6>1
        <5> QED
          BY <3>3, <5>1, <5>2, <5>3, <5>4
      <4> QED
        BY <3>3, <4>1, <4>2, <4>3
    <3> QED
      BY <3>2, <3>3
  <2>3. ASSUME NEW d \in Conversations, NEW i \in 1..Len(x1'[d])
        PROVE  /\ x1'[d][i].k \in 1..Len(x8') /\ x8'[x1'[d][i].k].conv = d
               /\ x1'[d][i].text = IF x1'[d][i].role = "user" THEN x8'[x1'[d][i].k].text
                                   ELSE x1'[d][i].k
               /\ x1'[d][i].role = "assistant" => x1'[d][i].k \notin x3'[d]
               /\ \A j \in 1..Len(x1'[d]) :
                     x1'[d][j].role = x1'[d][i].role /\ x1'[d][j].k = x1'[d][i].k => i = j
    <3>1. x8' = x8
      OBVIOUS
    <3>2. Sound(d, i, x1'[d])
      BY <2>2
    <3>3. /\ x1'[d][i].k \in 1..Len(x8') /\ x8'[x1'[d][i].k].conv = d
          /\ x1'[d][i].text = IF x1'[d][i].role = "user" THEN x8'[x1'[d][i].k].text
                              ELSE x1'[d][i].k
      BY ONLY <3>1, <3>2
    <3> HIDE DEF Sound
    <3> QED
      BY <2>2, <3>3
  <2> HIDE DEF Sound
  <2>4. \A d \in Conversations : \A l \in x3'[d] : l \in 1..Len(x8') /\ x8'[l].conv = d
    BY <2>1
  <2> QED
    BY <2>3, <2>4 DEF Surface!StoredSound
<1>12. \A i \in 1..x2[x4] : x1'[x4][i] = x1[x4][i]
  <2>1. x4 \in Conversations
    BY <1>1 DEF Surface!TypeOK
  <2>2. x2[x4] \in Nat /\ x2[x4] <= Len(x1[x4]) /\ Len(x1[x4]) \in Nat
    BY <1>1, <2>1, TablesOf
  <2> QED
    BY <1>5, <2>1, <2>2
<1> QED
  BY <1>9, <1>10, <1>11, <1>12, SurfaceKept

LEMMA ServerSteps ==
    ASSUME Surface!IInv, NEW c \in Conversations, NEW k \in x3[c],
           Surface!StoreMessage(c, k) \/ Surface!StoreReply(c, k) \/ Surface!RunFails(c, k)
    PROVE  Surface!IInv'
<1>1. Surface!TypeOK /\ Surface!StoredTyped /\ Surface!StoredSound
  BY DEF Surface!IInv
<1>2. k \in 1..Len(x8) /\ x8[k].conv = c
  BY <1>1 DEF Surface!StoredSound
<1>3. x8[k].text \in Texts /\ k \in Nat
  BY <1>1, <1>2, TablesOf
<1>4. CASE Surface!StoreMessage(c, k)
  <2> DEFINE m == [role |-> "user", text |-> x8[k].text, k |-> k]
  <2>1. /\ m \in [role : {"user", "assistant"}, text : Texts \cup Nat, k : Nat]
        /\ m.k = k /\ m.role = "user" /\ m.text = x8[k].text
    BY <1>3
  <2>2. /\ x1' = [x1 EXCEPT ![c] = Append(@, m)]
        /\ UNCHANGED <<x2, x3, x4, x5, x6, x7, x8, x9, x10>>
    BY <1>4 DEF Surface!StoreMessage
  <2>3. \A j \in 1..Len(x1[c]) : ~(x1[c][j].role = "user" /\ x1[c][j].k = k)
    BY <1>2, <1>4 DEF Surface!StoreMessage, Surface!IsStored
  <2> HIDE DEF m
  <2>4. /\ m.text = IF m.role = "user" THEN x8[k].text ELSE k
        /\ \A j \in 1..Len(x1[c]) : ~(x1[c][j].role = m.role /\ x1[c][j].k = k)
        /\ x3' = IF m.role = "user" THEN x3 ELSE [x3 EXCEPT ![c] = @ \ {k}]
    BY <2>1, <2>2, <2>3
  <2> QED
    BY <1>2, <2>1, <2>2, <2>4, StoredGrows
<1>5. CASE Surface!StoreReply(c, k)
  <2> DEFINE m == [role |-> "assistant", text |-> k, k |-> k]
  <2>1. /\ m \in [role : {"user", "assistant"}, text : Texts \cup Nat, k : Nat]
        /\ m.k = k /\ m.role = "assistant" /\ m.text = k
    BY <1>3
  <2>2. /\ x1' = [x1 EXCEPT ![c] = Append(@, m)]
        /\ x3' = [x3 EXCEPT ![c] = @ \ {k}]
        /\ UNCHANGED <<x2, x4, x5, x6, x7, x8, x9, x10>>
    BY <1>5 DEF Surface!StoreReply
  <2>3. \A j \in 1..Len(x1[c]) : ~(x1[c][j].role = "assistant" /\ x1[c][j].k = k)
    BY <1>1 DEF Surface!StoredSound
  <2> HIDE DEF m
  <2>4. /\ m.text = IF m.role = "user" THEN x8[k].text ELSE k
        /\ \A j \in 1..Len(x1[c]) : ~(x1[c][j].role = m.role /\ x1[c][j].k = k)
        /\ x3' = IF m.role = "user" THEN x3 ELSE [x3 EXCEPT ![c] = @ \ {k}]
    BY <2>1, <2>2, <2>3
  <2>5. /\ m \in [role : {"user", "assistant"}, text : Texts \cup Nat, k : Nat]
        /\ m.k = k
        /\ x1' = [x1 EXCEPT ![c] = Append(@, m)]
        /\ UNCHANGED <<x2, x4, x5, x6, x7, x8, x9, x10>>
    BY <2>1, <2>2
  <2> QED
    BY <1>2, <2>4, <2>5, StoredGrows
<1>6. CASE Surface!RunFails(c, k)
  <2>1. /\ x3' = [x3 EXCEPT ![c] = @ \ {k}]
        /\ UNCHANGED <<x1, x2, x4, x5, x6, x7, x8, x9, x10>>
    BY <1>6 DEF Surface!RunFails
  <2>2. x3' \in [Conversations -> SUBSET Nat] /\ \A d \in Conversations : x3'[d] \subseteq x3[d]
    BY <1>1, <2>1 DEF Surface!StoredTyped
  <2>3. Surface!TypeOK'
    BY <1>1, <2>1, <2>2 DEF Surface!TypeOK
  <2>4. Surface!StoredTyped'
    BY <1>1, <2>1, <2>2 DEF Surface!StoredTyped
  <2>5. Surface!StoredSound'
    BY <1>1, <2>1, <2>2 DEF Surface!StoredSound
  <2> QED
    BY <2>1, <2>3, <2>4, <2>5, SurfaceKept
<1> QED
  BY <1>4, <1>5, <1>6

LEMMA SurfaceStutter ==
    ASSUME Surface!IInv, UNCHANGED <<x1, x2, x3, x4, x5, x6, x7, x8, x9, x10>>
    PROVE  Surface!IInv'
<1>1. Surface!TypeOK /\ Surface!StoredTyped /\ Surface!StoredSound
  BY DEF Surface!IInv
<1>2. Surface!TypeOK'
  BY <1>1 DEF Surface!TypeOK
<1>3. Surface!StoredTyped'
  BY <1>1 DEF Surface!StoredTyped
<1>4. Surface!StoredSound'
  BY <1>1 DEF Surface!StoredSound
<1> QED
  BY <1>2, <1>3, <1>4, SurfaceKept

\* What was sent is among the sources of the surface at once.
LEMMA SubmitKeeps ==
    ASSUME Surface!IInv, MaxSends \in Nat, NEW text \in Texts, Surface!SubmitMessage(text)
    PROVE  Surface!IInv'
<1>1. Surface!TypeOK /\ Surface!StoredTyped /\ Surface!StoredSound
  BY DEF Surface!IInv
<1>a. Len(x8) \in Nat
  BY <1>1 DEF Surface!TypeOK
<1>b. PICK k \in Nat : k = Len(x8) + 1
  BY <1>a
<1> DEFINE said == [conv |-> x4, text |-> text]
           m == Surface!Message("local", x4, k, "user", text, FALSE)
<1>2. /\ ~Surface!Streaming /\ Len(x8) < MaxSends
      /\ x8' = Append(x8, said) /\ x6' = Append(x6, m) /\ x5' = Append(x5, m)
      /\ x7' = [conv |-> x4, own |-> x5', n |-> k]
      /\ x3' = [x3 EXCEPT ![x4] = @ \cup {k}]
      /\ x9' = k /\ UNCHANGED <<x1, x2, x4, x10>>
  BY <1>b DEF Surface!SubmitMessage
<1>3. /\ x8 \in Seq([conv : Conversations, text : Texts]) /\ Len(x8) \in Nat
      /\ x4 \in Conversations /\ x3 \in [Conversations -> SUBSET Nat]
  BY <1>1 DEF Surface!StoredTyped, Surface!TypeOK
<1>4. said \in [conv : Conversations, text : Texts] /\ said.conv = x4 /\ said.text = text
  BY <1>3
<1> HIDE DEF said
<1>5. /\ x8' \in Seq([conv : Conversations, text : Texts])
      /\ Len(x8') = Len(x8) + 1
      /\ \A j \in 1..Len(x8) : x8'[j] = x8[j]
      /\ x8'[k] = said
  BY <1>b, <1>2, <1>3, <1>4
<1>6. /\ k \in Nat /\ k \in 1..Len(x8') /\ k # 0
      /\ \A j \in 1..Len(x8) : j \in 1..Len(x8') /\ j # k
      /\ Len(x8') \in 0..MaxSends
      /\ \A j \in 0..Len(x8) : j \in 0..Len(x8')
  BY <1>b, <1>2, <1>3, <1>5
<1>7. /\ x3' \in [Conversations -> SUBSET Nat]
      /\ \A c \in Conversations : \A j \in x3'[c] : j \in x3[c] \/ (j = k /\ c = x4)
  BY <1>2, <1>3, <1>6
<1>8. Surface!StoredTyped'
  <2>1. x7' = [conv |-> x7'.conv, own |-> x7'.own, n |-> x7'.n]
    BY <1>2
  <2> QED
    BY <1>1, <1>2, <1>5, <1>7, <2>1 DEF Surface!StoredTyped
<1>9. Surface!TypeOK'
  <2>1. x4' \in Conversations
    BY <1>2, <1>3
  <2>2. \A c \in Conversations : x2'[c] \in 0..Len(x1'[c])
    BY <1>1, <1>2 DEF Surface!TypeOK
  <2>3. \A c \in Conversations : x3'[c] \subseteq 1..Len(x8')
    BY <1>1, <1>6, <1>7 DEF Surface!TypeOK
  <2>4. x7'.conv \in Conversations \cup {NoConversation} /\ x7'.n \in 0..Len(x8')
    <3>1. k \in 0..Len(x8')
      BY <1>6
    <3> QED
      BY <1>2, <1>3, <3>1
  <2>5. x9' \in 0..Len(x8')
    BY <1>2, <1>6
  <2>6. x10' \in BOOLEAN
    BY <1>1, <1>2 DEF Surface!TypeOK
  <2> QED
    BY <1>6, <2>1, <2>2, <2>3, <2>4, <2>5, <2>6 DEF Surface!TypeOK
<1>10. Surface!StoredSound'
  <2>1. ASSUME NEW c \in Conversations, NEW j \in x3'[c]
        PROVE  j \in 1..Len(x8') /\ x8'[j].conv = c
    <3>1. CASE j \in x3[c]
      BY <1>1, <1>5, <1>6, <3>1 DEF Surface!StoredSound
    <3>2. CASE j = k /\ c = x4
      BY <1>4, <1>5, <1>6, <3>2
    <3> QED
      BY <1>7, <2>1, <3>1, <3>2
  <2>2. ASSUME NEW c \in Conversations, NEW i \in 1..Len(x1[c])
        PROVE  /\ x1[c][i].k \in 1..Len(x8') /\ x8'[x1[c][i].k].conv = c
               /\ x1[c][i].text = IF x1[c][i].role = "user" THEN x8'[x1[c][i].k].text
                                  ELSE x1[c][i].k
               /\ x1[c][i].role = "assistant" => x1[c][i].k \notin x3'[c]
               /\ \A j \in 1..Len(x1[c]) :
                     x1[c][j].role = x1[c][i].role /\ x1[c][j].k = x1[c][i].k => i = j
    <3>1. /\ x1[c][i].k \in 1..Len(x8) /\ x8[x1[c][i].k].conv = c
          /\ x1[c][i].text = IF x1[c][i].role = "user" THEN x8[x1[c][i].k].text
                             ELSE x1[c][i].k
          /\ x1[c][i].role = "assistant" => x1[c][i].k \notin x3[c]
          /\ \A j \in 1..Len(x1[c]) :
                x1[c][j].role = x1[c][i].role /\ x1[c][j].k = x1[c][i].k => i = j
      BY <1>1 DEF Surface!StoredSound
    <3>2. x8'[x1[c][i].k] = x8[x1[c][i].k] /\ x1[c][i].k # k /\ x1[c][i].k \in 1..Len(x8')
      BY <1>5, <1>6, <3>1
    <3> QED
      BY <1>7, <3>1, <3>2
  <2>3. x1' = x1
    BY <1>2
  <2> QED
    BY <2>1, <2>2, <2>3 DEF Surface!StoredSound
<1>11. /\ Surface!Held' = Surface!Held
       /\ \A j : Surface!Unanswered(j)' <=> Surface!Unanswered(j)
       /\ Surface!Locals \subseteq Surface!Locals'
       /\ Surface!Replies \subseteq Surface!Replies'
  <2>1. /\ x4' = x4 /\ x2'[x4] = x2[x4]
        /\ \A i \in 1..x2[x4] : x1'[x4][i] = x1[x4][i]
        /\ \A j \in 1..Len(x8) : j \in 1..Len(x8)' /\ x8'[j] = x8[j]
    BY <1>2, <1>5, <1>6
  <2> QED
    BY <1>1, <2>1, SourcesKeep
<1>12. k \in Surface!SaidHere'
  BY <1>2, <1>4, <1>5, <1>6 DEF Surface!SaidHere
<1>13. m \in Surface!Locals' /\ m.text = text
  <2>1. m = Surface!LocalOf(k)'
    BY <1>2, <1>4, <1>5 DEF Surface!LocalOf, Surface!Message
  <2>2. Surface!LocalOf(k)' \in Surface!Locals'
    BY <1>12 DEF Surface!Locals
  <2> QED
    BY <2>1, <2>2 DEF Surface!Message
<1>14. Surface!Unanswered(k)'
  <2>1. \A i \in 1..x2[x4] : i \in 1..Len(x1[x4])
    BY <1>1, <1>3, TablesOf
  <2>2. \A i \in 1..Len(x1[x4]) : x1[x4][i].k \in 1..Len(x8)
    BY <1>1, <1>3 DEF Surface!StoredSound
  <2>3. \A i \in 1..x2[x4] : x1[x4][i].k # k
    BY <1>6, <2>1, <2>2
  <2> QED
    BY <1>2, <2>3 DEF Surface!Unanswered
<1> HIDE DEF m
<1>15. Surface!LiveSound => Surface!LiveSound'
  <2> DEFINE S == Surface!Held \cup Surface!Locals \cup Surface!Replies
  <2>1. S \subseteq S' /\ m \in S'
    BY <1>11, <1>13
  <2>2. x5 \in Seq(S) => x5' \in Seq(S')
    <3> HIDE DEF S
    <3> QED
      BY <1>2, <2>1
  <2>3. x7'.conv = x4' /\ x7'.own = x5' /\ x7'.n = k
    BY <1>2
  <2> QED
    BY <1>12, <1>14, <2>2, <2>3 DEF Surface!LiveSound
<1>16. Surface!OptimisticSound => Surface!OptimisticSound'
  <2>1. ASSUME x6 \in Seq(Surface!Locals)
        PROVE  /\ x6' \in Seq(Surface!Locals')
               /\ \E i \in 1..Len(x6') : x6'[i] = m
    <3>1. x6 \in Seq(Surface!Locals')
      BY <1>11, <2>1
    <3>2. /\ x6' \in Seq(Surface!Locals') /\ Len(x6') = Len(x6) + 1
          /\ Len(x6) \in Nat /\ x6'[Len(x6) + 1] = m
      BY <1>2, <1>13, <3>1
    <3>3. Len(x6) + 1 \in 1..Len(x6')
      BY <3>2
    <3> QED
      BY <3>2, <3>3
  <2>2. x8'[x9'].text = text
    BY <1>2, <1>4, <1>5
  <2> QED
    BY <1>13, <2>1, <2>2 DEF Surface!OptimisticSound
<1> QED
  BY <1>2, <1>8, <1>9, <1>10, <1>15, <1>16 DEF Surface!IInv

\* The messages held, as they are stored.
LEMMA HeldAre ==
    Surface!TypeOK /\ Surface!StoredTyped =>
        /\ Surface!CopilotMessages(x4, x2[x4]) \in Seq(Surface!Held)
        /\ Len(Surface!CopilotMessages(x4, x2[x4])) = x2[x4]
        /\ \A i \in 1..x2[x4] : Surface!CopilotMessages(x4, x2[x4])[i] =
             [id |-> <<"stored", x4, i>>, role |-> x1[x4][i].role,
              text |-> x1[x4][i].text, tools |-> FALSE]
BY MessagesOf

LEMMA StreamKeeps ==
    ASSUME Surface!IInv, (\E tools \in BOOLEAN : Surface!StreamReply(tools)) \/ Surface!StreamEnds
    PROVE  Surface!IInv'
<1>1. Surface!TypeOK /\ Surface!StoredTyped /\ Surface!StoredSound
  BY DEF Surface!IInv
<1>2. UNCHANGED <<x1, x2, x3, x4, x6, x8, x9, x10>>
  BY DEF Surface!StreamReply, Surface!StreamEnds, Surface!server
<1>3. /\ Surface!Held' = Surface!Held
      /\ Surface!Locals \subseteq Surface!Locals'
      /\ Surface!Replies \subseteq Surface!Replies'
      /\ \A k \in Surface!SaidHere : k \in Surface!SaidHere'
      /\ \A k : Surface!Unanswered(k)' <=> Surface!Unanswered(k)
  BY <1>1, <1>2, SourcesKeep
<1>4. Surface!StoredSound'
  BY <1>1, <1>2 DEF Surface!StoredSound
<1>5. Surface!OptimisticSound => Surface!OptimisticSound'
  <2>1. x6 \in Seq(Surface!Locals) => x6' \in Seq(Surface!Locals')
    BY <1>2, <1>3
  <2> QED
    BY <1>2, <2>1 DEF Surface!OptimisticSound
<1>6. CASE Surface!StreamEnds
  <2>1. x7' = Surface!NoStream /\ x5' = x5
    BY <1>6 DEF Surface!StreamEnds
  <2>2. x7' = [conv |-> x7'.conv, own |-> x7'.own, n |-> x7'.n]
    BY <2>1 DEF Surface!NoStream
  <2>3. x7'.conv = NoConversation /\ x7'.n = 0
    BY <2>1 DEF Surface!NoStream
  <2>4. Surface!TypeOK'
    BY <1>1, <1>2, <2>3 DEF Surface!TypeOK
  <2>5. Surface!StoredTyped'
    BY <1>1, <1>2, <2>2 DEF Surface!StoredTyped
  <2>6. Surface!LiveSound => Surface!LiveSound'
    <3> DEFINE S == Surface!Held \cup Surface!Locals \cup Surface!Replies
    <3>1. S \subseteq S'
      BY <1>3
    <3>2. x5 \in Seq(S) => x5' \in Seq(S')
      <4> HIDE DEF S
      <4> QED
        BY <2>1, <3>1
    <3> QED
      BY <2>1, <3>2 DEF Surface!LiveSound, Surface!Streaming, Surface!NoStream
  <2> QED
    BY <1>2, <1>4, <1>5, <2>4, <2>5, <2>6 DEF Surface!IInv
<1>7. CASE \E tools \in BOOLEAN : Surface!StreamReply(tools)
  <2>1. PICK tools \in BOOLEAN : Surface!StreamReply(tools)
    BY <1>7
  <2> DEFINE m == Surface!Message("streamed", x7.conv, x7.n, "assistant", x7.n, tools)
  <2>2. /\ Surface!Streaming
        /\ x7' = [x7 EXCEPT !.own = Append(@, m)] /\ x5' = x7'.own
    BY <2>1 DEF Surface!StreamReply
  <2> HIDE DEF m
  <2>3. x7 = [conv |-> x7.conv, own |-> x7.own, n |-> x7.n]
    BY <1>1 DEF Surface!StoredTyped
  <2>4. x7' = [conv |-> x7.conv, own |-> Append(x7.own, m), n |-> x7.n]
    BY <2>2, <2>3
  <2>5. /\ x7'.conv = x7.conv /\ x7'.n = x7.n /\ x7'.own = Append(x7.own, m)
        /\ x7' = [conv |-> x7'.conv, own |-> x7'.own, n |-> x7'.n]
    BY <2>4
  <2>6. Surface!TypeOK'
    BY <1>1, <1>2, <2>5 DEF Surface!TypeOK
  <2>7. Surface!StoredTyped'
    BY <1>1, <1>2, <2>5 DEF Surface!StoredTyped
  <2>8. Surface!LiveSound => Surface!LiveSound'
    <3> DEFINE S == Surface!Held \cup Surface!Locals \cup Surface!Replies
    <3>1. HAVE Surface!LiveSound
    <3>2. /\ x7.conv = x4 /\ x7.own = x5 /\ x7.n \in Surface!SaidHere
          /\ Surface!Unanswered(x7.n) /\ x5 \in Seq(S)
      BY <2>2, <3>1 DEF Surface!LiveSound
    <3>3. m \in Surface!Replies
      BY <3>2 DEF Surface!Replies, Surface!StreamedOf, m
    <3>4. S \subseteq S' /\ m \in S'
      BY <1>3, <3>3
    <3>5. x5' \in Seq(S')
      <4> HIDE DEF S
      <4> QED
        BY <2>2, <2>5, <3>2, <3>4
    <3>6. x7'.conv = x4' /\ x7'.own = x5' /\ x7'.n \in Surface!SaidHere'
      BY <1>2, <1>3, <2>2, <2>5, <3>2
    <3>7. Surface!Unanswered(x7.n)'
      <4>1. PICK k : k = x7.n
        OBVIOUS
      <4>2. Surface!Unanswered(k)'
        BY <1>3, <3>2, <4>1
      <4> QED
        BY <2>5, <4>1, <4>2 DEF Surface!Unanswered
    <3> QED
      BY <3>5, <3>6, <3>7 DEF Surface!LiveSound
  <2> QED
    BY <1>2, <1>4, <1>5, <2>6, <2>7, <2>8 DEF Surface!IInv
<1> QED
  BY <1>6, <1>7

\* A list that arrives replaces the agent's messages and drops what is stored, where it
\* brings something new; what was sent last is then held, or still waits for its list.
LEMMA ListKeeps ==
    ASSUME Surface!IInv, Surface!ListArrives
    PROVE  Surface!IInv'
<1>1. Surface!TypeOK /\ Surface!StoredTyped /\ Surface!StoredSound
  BY DEF Surface!IInv
<1>2. /\ x2' = [c \in Conversations |-> Len(x1[c])]
      /\ x10' = (x10 \/ Surface!Streaming)
      /\ UNCHANGED <<x1, x3, x4, x7, x8, x9>>
  BY DEF Surface!ListArrives, Surface!server
<1>3. x10' \in BOOLEAN
  <2>1. (x10 \/ Surface!Streaming) \in BOOLEAN
    OBVIOUS
  <2> QED
    BY <1>2, <2>1, Zenon
<1>4. /\ x4 \in Conversations
      /\ \A c \in Conversations : Len(x1[c]) \in Nat /\ x2[c] \in Nat /\ x2[c] <= x2'[c]
      /\ \A c \in Conversations : x2'[c] \in Nat /\ x2'[c] \in 0..Len(x1[c])
  <2>1. x4 \in Conversations
    BY <1>1 DEF Surface!TypeOK
  <2>2. \A c \in Conversations : Len(x1[c]) \in Nat /\ x2[c] \in Nat /\ x2[c] <= Len(x1[c])
    BY <1>1, TablesOf
  <2>3. \A c \in Conversations : x2'[c] = Len(x1[c])
    BY <1>2
  <2> QED
    BY <2>1, <2>2, <2>3
<1>5. Surface!TypeOK'
  BY <1>1, <1>2, <1>3, <1>4 DEF Surface!TypeOK
<1>6. Surface!StoredTyped'
  <2>1. x2' \in [Conversations -> Nat]
    BY <1>2, <1>4
  <2> QED
    BY <1>1, <1>2, <2>1 DEF Surface!StoredTyped
<1>7. Surface!StoredSound'
  BY <1>1, <1>2 DEF Surface!StoredSound
<1>8. SUFFICES ASSUME ~x10'
               PROVE  Surface!LiveSound' /\ Surface!OptimisticSound'
  BY <1>5, <1>6, <1>7 DEF Surface!IInv
<1>9. ~x10 /\ ~Surface!Streaming
  BY <1>2, <1>8
<1>10. Surface!LiveSound /\ Surface!OptimisticSound
  BY <1>9 DEF Surface!IInv
<1>11. ~Surface!Streaming'
  BY <1>2, <1>9 DEF Surface!Streaming, Surface!NoStream
<1>12. Surface!Locals' = Surface!Locals
  BY <1>2 DEF Surface!Locals, Surface!SaidHere, Surface!LocalOf, Surface!Message
<1>13. CASE x2'[x4] = x2[x4]
  <2>1. UNCHANGED <<x5, x6>>
    BY <1>13 DEF Surface!ListArrives
  <2>2. /\ Surface!Held' = Surface!Held
        /\ Surface!Locals \subseteq Surface!Locals'
        /\ Surface!Replies \subseteq Surface!Replies'
    BY <1>1, <1>2, <1>13, SourcesKeep
  <2> DEFINE S == Surface!Held \cup Surface!Locals \cup Surface!Replies
  <2>3. S \subseteq S'
    BY <2>2
  <2>4. x5 \in Seq(S) => x5' \in Seq(S')
    <3> HIDE DEF S
    <3> QED
      BY <2>1, <2>3
  <2>5. Surface!LiveSound'
    BY <1>10, <1>11, <2>4 DEF Surface!LiveSound
  <2>6. Surface!OptimisticSound'
    BY <1>2, <1>10, <1>12, <1>13, <2>1 DEF Surface!OptimisticSound
  <2> QED
    BY <2>5, <2>6
<1>14. CASE x2'[x4] # x2[x4]
  <2> DEFINE now == Surface!CopilotMessages(x4, x2'[x4])
  <2>1. x5' = now /\ x6' = Surface!Unstored(x6, now)
    BY <1>14 DEF Surface!ListArrives
  <2>2. now = Surface!CopilotMessages(x4, x2[x4])'
    BY <1>2 DEF Surface!CopilotMessages, Surface!Message
  <2>3. (Surface!TypeOK /\ Surface!StoredTyped =>
            /\ Surface!CopilotMessages(x4, x2[x4]) \in Seq(Surface!Held)
            /\ Len(Surface!CopilotMessages(x4, x2[x4])) = x2[x4]
            /\ \A i \in 1..x2[x4] : Surface!CopilotMessages(x4, x2[x4])[i] =
                 [id |-> <<"stored", x4, i>>, role |-> x1[x4][i].role,
                  text |-> x1[x4][i].text, tools |-> FALSE])'
    BY HeldAre, PTL
  <2> HIDE DEF now
  <2>4. /\ now \in Seq(Surface!Held') /\ Len(now) = x2'[x4]
        /\ \A i \in 1..x2'[x4] : now[i].role = x1[x4][i].role /\ now[i].text = x1[x4][i].text
    <3>1. /\ now \in Seq(Surface!Held') /\ Len(now) = x2'[x4']
          /\ \A i \in 1..x2'[x4'] : now[i] =
               [id |-> <<"stored", x4', i>>, role |-> x1'[x4'][i].role,
                text |-> x1'[x4'][i].text, tools |-> FALSE]
      BY <1>5, <1>6, <2>2, <2>3
    <3>2. x4' = x4 /\ x1' = x1
      BY <1>2
    <3>3. \A i \in 1..x2'[x4] : now[i] =
               [id |-> <<"stored", x4, i>>, role |-> x1[x4][i].role,
                text |-> x1[x4][i].text, tools |-> FALSE]
      BY <3>1, <3>2
    <3>4. ASSUME NEW i \in 1..x2'[x4]
          PROVE  now[i].role = x1[x4][i].role /\ now[i].text = x1[x4][i].text
      <4>1. now[i] = [id |-> <<"stored", x4, i>>, role |-> x1[x4][i].role,
                      text |-> x1[x4][i].text, tools |-> FALSE]
        BY <3>3
      <4> QED
        BY ONLY <4>1
    <3>5. x2'[x4'] = x2'[x4]
      BY <3>2
    <3>6. now \in Seq(Surface!Held') /\ Len(now) = x2'[x4]
      BY <3>1, <3>5
    <3> QED
      BY <3>4, <3>6
  <2>5. Surface!LiveSound'
    <3>1. x5' \in Seq(Surface!Held' \cup Surface!Locals' \cup Surface!Replies')
      BY <2>1, <2>4
    <3> QED
      BY <1>11, <3>1 DEF Surface!LiveSound
  <2>6. x6 \in Seq(Surface!Locals)
    BY <1>10 DEF Surface!OptimisticSound
  <2>7. /\ x6' \in Seq(Surface!Locals)
        /\ \A k \in 1..Len(x6) : \/ StoredAmong(x6[k], now)
                                 \/ \E i \in 1..Len(x6') : x6'[i] = x6[k]
    BY <2>1, <2>6, UnstoredGives
  <2>8. \A k \in 1..Len(x6) : x6[k].role = "user"
    <3>1. \A k \in 1..Len(x6) : x6[k] \in Surface!Locals
      BY <2>6
    <3>2. \A m \in Surface!Locals : m.role = "user"
      BY DEF Surface!Locals, Surface!LocalOf, Surface!Message
    <3> QED
      BY <3>1, <3>2
  <2>9. ASSUME x9 # 0
        PROVE  \/ \E i \in 1..x2'[x4] : x1[x4][i].role = "user" /\ x1[x4][i].text = x8[x9].text
               \/ \E i \in 1..Len(x6') : x6'[i].text = x8[x9].text
    <3>1. CASE \E i \in 1..x2[x4] : x1[x4][i].role = "user" /\ x1[x4][i].text = x8[x9].text
      <4>1. \A i \in 1..x2[x4] : i \in 1..x2'[x4]
        BY <1>4
      <4> QED
        BY <3>1, <4>1
    <3>2. CASE \E k \in 1..Len(x6) : x6[k].text = x8[x9].text
      <4>1. PICK k \in 1..Len(x6) : x6[k].text = x8[x9].text
        BY <3>2
      <4>2. CASE StoredAmong(x6[k], now)
        BY <2>4, <2>8, <4>1, <4>2 DEF StoredAmong
      <4>3. CASE \E i \in 1..Len(x6') : x6'[i] = x6[k]
        BY <4>1, <4>3
      <4> QED
        BY <2>7, <4>2, <4>3
    <3> QED
      BY <1>10, <2>9, <3>1, <3>2 DEF Surface!OptimisticSound
  <2>10. Surface!OptimisticSound'
    BY <1>2, <1>12, <2>7, <2>9 DEF Surface!OptimisticSound
  <2> QED
    BY <2>5, <2>10
<1> QED
  BY <1>13, <1>14

\* The surface mounts anew with what is held of another conversation.
LEMMA SelectKeeps ==
    ASSUME Surface!IInv, NEW c \in Conversations, Surface!Select(c)
    PROVE  Surface!IInv'
<1>1. Surface!TypeOK /\ Surface!StoredTyped /\ Surface!StoredSound
  BY DEF Surface!IInv
<1>2. /\ x4' = c /\ x5' = Surface!CopilotMessages(c, x2[c]) /\ x6' = <<>>
      /\ x9' = 0 /\ x10' = Surface!Streaming
      /\ UNCHANGED <<x1, x2, x3, x7, x8>>
  BY DEF Surface!Select, Surface!server
<1>3. x10' \in BOOLEAN
  <2>1. Surface!Streaming \in BOOLEAN
    BY DEF Surface!Streaming
  <2> QED
    BY <1>2, <2>1, Zenon
<1>4. Surface!TypeOK'
  <2>1. x9' \in 0..Len(x8')
    BY <1>1, <1>2 DEF Surface!TypeOK
  <2> QED
    BY <1>1, <1>2, <1>3, <2>1 DEF Surface!TypeOK
<1>5. Surface!StoredTyped'
  BY <1>1, <1>2 DEF Surface!StoredTyped
<1>6. Surface!StoredSound'
  BY <1>1, <1>2 DEF Surface!StoredSound
<1>7. SUFFICES ASSUME ~x10'
               PROVE  Surface!LiveSound' /\ Surface!OptimisticSound'
  BY <1>4, <1>5, <1>6 DEF Surface!IInv
<1>8. ~Surface!Streaming'
  BY <1>2, <1>7 DEF Surface!Streaming, Surface!NoStream
<1>9. x5' \in Seq(Surface!Held')
  <2>1. x5' = Surface!CopilotMessages(x4, x2[x4])'
    BY <1>2 DEF Surface!CopilotMessages, Surface!Message
  <2>2. (Surface!TypeOK /\ Surface!StoredTyped =>
            /\ Surface!CopilotMessages(x4, x2[x4]) \in Seq(Surface!Held)
            /\ Len(Surface!CopilotMessages(x4, x2[x4])) = x2[x4]
            /\ \A i \in 1..x2[x4] : Surface!CopilotMessages(x4, x2[x4])[i] =
                 [id |-> <<"stored", x4, i>>, role |-> x1[x4][i].role,
                  text |-> x1[x4][i].text, tools |-> FALSE])'
    BY HeldAre, PTL
  <2> QED
    BY <1>4, <1>5, <2>1, <2>2
<1>10. Surface!LiveSound'
  BY <1>8, <1>9 DEF Surface!LiveSound
<1>11. Surface!OptimisticSound'
  BY <1>2 DEF Surface!OptimisticSound
<1> QED
  BY <1>10, <1>11

LEMMA SurfaceStep ==
    ASSUME Surface!IInv, MaxSends \in Nat, Surface!Next
    PROVE  Surface!IInv'
BY ServerSteps, SubmitKeeps, StreamKeeps, ListKeeps, SelectKeeps DEF Surface!Next

LEMMA SurfaceIsExact == Surface!IInv => Surface!TranscriptExact
<1>1. SUFFICES ASSUME Surface!IInv, ~x10
               PROVE  /\ \A i \in 1..Len(Surface!Rendered) :
                            Surface!ConversationOf(Surface!Rendered[i]) = x4
                      /\ \A text \in Texts : Surface!Cardinality(Surface!Shows("user", text))
                                               <= Surface!TimesSaid(x4, text)
                      /\ \A k \in 1..Len(x8) :
                            Surface!Cardinality(Surface!Shows("assistant", k)) <= 1
                      /\ x9 # 0 => Surface!Shows("user", x8[x9].text) # {}
  BY DEF Surface!TranscriptExact
<1>2. /\ Surface!TypeOK /\ Surface!StoredTyped /\ Surface!StoredSound
      /\ Surface!LiveSound /\ Surface!OptimisticSound
  BY <1>1 DEF Surface!IInv
<1>3. \A S : Surface!Cardinality(S) = Cardinality(S)
  BY DEF Surface!Cardinality, Cardinality
<1> QED
  BY <1>2, <1>3, OwnMessages, NotTooOften, OneReplyShown, SentIsShown DEF Surface!TimesSaid

-----------------------------------------------------------------------------
(* The transcript, among the other pages *)

LEMMA SurfaceInvariant == Spec => [](page = "surface" => Surface!IInv)
<1> DEFINE Inv == page = "surface" => Surface!IInv
<1>1. Surface!TranscriptAssumption /\ MaxSends \in Nat
  BY PagesAssumption DEF PagesAssumption, Surface!TranscriptAssumption
<1>2. Init => Inv
  BY <1>1, SurfaceInit DEF Init
<1>3. Inv /\ [Next]_tab => Inv'
  <2>1. ASSUME Inv, Next
        PROVE  Inv'
    <3>1. page' = page /\ (page = "surface" => Surface!Next)
      BY <2>1 DEF Next
    <3> QED
      BY <1>1, <2>1, <3>1, SurfaceStep
  <2>2. ASSUME Inv, UNCHANGED tab
        PROVE  Inv'
    BY <2>2, SurfaceStutter DEF tab
  <2> QED
    BY <2>1, <2>2
<1> QED
  BY <1>2, <1>3, PTL DEF Spec

\* The transcript holds only its conversation's messages, shows no text more often than it was
\* said there and no reply twice, and never loses what the user just sent, in whatever order
\* what is stored, streamed and sent comes, unless the selection moved or a list arrived during
\* a stream: for any number of conversations and of texts, and up to forty sends, whose
\* messages a fetch of the list holds completely.
THEOREM TranscriptIsExact == Spec => []TranscriptExact
<1>1. (page = "surface" => Surface!IInv) => TranscriptExact
  BY SurfaceIsExact DEF TranscriptExact
<1> QED
  BY <1>1, SurfaceInvariant, PTL

-----------------------------------------------------------------------------
(* The types of every page *)

\* Every variable of every page keeps the type the code gives it.
THEOREM PagesKeepTypes == Spec => []TypeOK
<1>1. WorkspacePages => /\ page = "session" => Session!TypeOK
                        /\ page = "workspace" => Workspace!TypeOK
                        /\ page = "runs" => Runs!TypeOK
  BY DEF WorkspacePages, Session!IInv, Workspace!IInv, Runs!IInv
<1>2. AdminPages => /\ page = "form" => Form!TypeOK
                    /\ page = "mcp" => Mcp!TypeOK
                    /\ page = "accounts" => Accounts!TypeOK
                    /\ page = "provider" => Provider!TypeOK
                    /\ page = "audit" => Audit!TypeOK
  BY DEF AdminPages, Form!IInv, Mcp!IInv, Accounts!IInv, Provider!IInv, Audit!IInv
<1>3. (page = "agents" => Agents!IInv) => (page = "agents" => Agents!TypeOK)
  BY DEF Agents!IInv
<1>4. (page = "models" => Models!IInv) => (page = "models" => Models!TypeOK)
  BY DEF Models!IInv
<1>5. (page = "surface" => Surface!IInv) => (page = "surface" => Surface!TypeOK)
  BY DEF Surface!IInv
<1>6. /\ WorkspacePages /\ AdminPages
      /\ page = "agents" => Agents!IInv
      /\ page = "models" => Models!IInv
      /\ page = "surface" => Surface!IInv
      => TypeOK
  BY <1>1, <1>2, <1>3, <1>4, <1>5 DEF TypeOK
<1> QED
  BY <1>6, WorkspaceInvariant, AdminInvariant, AgentsInvariant, ModelsInvariant,
     SurfaceInvariant, PTL
=============================================================================
