------------------------- MODULE RunEventLogProofs -------------------------
(***************************************************************************)
(* NoHole and ShownIsContiguous for any number of racing writers, tabs,    *)
(* events, lost connections and reloads.                                   *)
(***************************************************************************)
EXTENDS RunEventLog, TLAPS

\* An insert keeps the rows there are and adds one sequence.
LEMMA InsertTakes ==
    ASSUME TypeOK, NEW w \in Writers, rows' = Append(rows, next[w]), next[w] # 0
    PROVE  /\ rows' \in Seq(Nat \ {0})
           /\ DOMAIN rows \subseteq DOMAIN rows'
           /\ \A i \in DOMAIN rows : rows'[i] = rows[i]
           /\ SequencesTaken' = SequencesTaken \cup {next[w]}
  <1>1. rows \in Seq(Nat \ {0}) /\ next[w] \in Nat \ {0}
    BY DEF TypeOK
  <1>2. /\ rows' \in Seq(Nat \ {0})
        /\ Len(rows') = Len(rows) + 1
        /\ \A i \in 1 .. Len(rows) : rows'[i] = rows[i]
        /\ rows'[Len(rows) + 1] = next[w]
    BY <1>1
  <1>3. /\ DOMAIN rows = 1 .. Len(rows)
        /\ DOMAIN rows' = 1 .. (Len(rows) + 1)
        /\ Len(rows) \in Nat
    BY <1>1, <1>2
  <1>4. SequencesTaken' = SequencesTaken \cup {next[w]}
    BY <1>2, <1>3 DEF SequencesTaken
  <1> QED BY <1>2, <1>3, <1>4

\* Steps that leave the log alone keep what is said of the log alone.
LEMMA LogUnchanged ==
    ASSUME IInv, UNCHANGED <<rows, next>>
    PROVE  NoHole' /\ PendingInv'
  BY DEF IInv, NoHole, PendingInv, SequencesTaken

\* The initial states.
LEMMA InitInv == Init => IInv
  <1> SUFFICES ASSUME Init PROVE IInv
    OBVIOUS
  <1>1. TypeOK
    BY LogAssumption DEF Init, TypeOK
  <1>2. NoHole /\ PendingInv
    BY DEF Init, NoHole, PendingInv
  <1>3. LastIdInv /\ ResponseInv
    BY DEF Init, LastIdInv, ResponseInv
  <1>4. ShownIsContiguous
    BY DEF Init, ShownIsContiguous, Shown
  <1> QED BY <1>1, <1>2, <1>3, <1>4 DEF IInv

\* What the tabs show and expect is kept when the log only grows.
LEMMA ClientUnchanged ==
    ASSUME IInv, UNCHANGED client, DOMAIN rows \subseteq DOMAIN rows',
           \A i \in DOMAIN rows : rows'[i] = rows[i]
    PROVE  LastIdInv' /\ ResponseInv' /\ ShownIsContiguous'
  <1>1. LastIdInv'
    BY DEF IInv, client, LastIdInv
  <1>2. ResponseInv'
    BY DEF IInv, client, ResponseInv
  <1>3. ASSUME NEW t \in Tabs PROVE Shown(t)' = Shown(t)
    BY <1>3 DEF IInv, TypeOK, client, Shown
  <1>4. ShownIsContiguous'
    BY <1>3 DEF IInv, ShownIsContiguous, client
  <1> QED BY <1>1, <1>2, <1>4

LEMMA NextSequenceInv ==
    ASSUME IInv, NEW w \in Writers, NextSequence(w)
    PROVE  IInv'
  <1> USE DEF NextSequence
  <1>1. TypeOK'
    <2>1. PICK h \in {0} \cup SequencesTaken : next' = [next EXCEPT ![w] = h + 1]
      OBVIOUS
    <2>2. h \in Nat
      BY DEF IInv, TypeOK, SequencesTaken
    <2> QED BY <2>1, <2>2 DEF IInv, TypeOK, client
  <1>2. NoHole'
    BY DEF IInv, NoHole, SequencesTaken
  <1>3. PendingInv'
    <2> SUFFICES ASSUME NEW v \in Writers, NEW s \in 1 .. next'[v] - 1
                 PROVE  s \in SequencesTaken
      BY DEF PendingInv, SequencesTaken
    <2>1. CASE v # w
      BY <2>1 DEF IInv, TypeOK, PendingInv
    <2>2. CASE v = w
      <3>1. PICK h \in {0} \cup SequencesTaken :
              IsHighest(h) /\ next' = [next EXCEPT ![w] = h + 1]
        OBVIOUS
      <3>2. h \in Nat /\ next'[w] = h + 1
        BY <3>1 DEF IInv, TypeOK, SequencesTaken
      <3>3. s \in 1 .. h
        BY <2>2, <3>2
      <3>4. \E i \in DOMAIN rows : rows[i] = h
        BY <3>1, <3>3 DEF IsHighest, SequencesTaken
      <3> QED BY <3>3, <3>4 DEF IInv, NoHole
    <2> QED BY <2>1, <2>2
  <1>4. LastIdInv' /\ ResponseInv' /\ ShownIsContiguous'
    BY ClientUnchanged
  <1> QED BY <1>1, <1>2, <1>3, <1>4 DEF IInv

LEMMA InsertInv ==
    ASSUME IInv, NEW w \in Writers, Insert(w)
    PROVE  IInv'
  <1>0. /\ next[w] \in Nat \ {0}
        /\ rows' \in Seq(Nat \ {0})
        /\ DOMAIN rows \subseteq DOMAIN rows'
        /\ \A i \in DOMAIN rows : rows'[i] = rows[i]
        /\ SequencesTaken' = SequencesTaken \cup {next[w]}
    BY InsertTakes DEF IInv, TypeOK, Insert
  <1>1. TypeOK'
    BY <1>0 DEF IInv, TypeOK, Insert, client
  <1>2. NoHole'
    <2> SUFFICES ASSUME NEW q \in SequencesTaken', NEW s \in 1 .. q
                 PROVE  s \in SequencesTaken'
      BY DEF NoHole, SequencesTaken
    <2>1. CASE q \in SequencesTaken
      BY <2>1, <1>0 DEF IInv, NoHole, SequencesTaken
    <2>2. CASE q = next[w]
      <3>1. s = next[w] \/ s \in 1 .. next[w] - 1
        BY <2>2, <1>0
      <3> QED BY <3>1, <1>0 DEF IInv, PendingInv
    <2> QED BY <2>1, <2>2, <1>0
  <1>3. PendingInv'
    <2> SUFFICES ASSUME NEW v \in Writers, NEW s \in 1 .. next'[v] - 1
                 PROVE  s \in SequencesTaken
      BY <1>0 DEF PendingInv
    <2>1. CASE v = w
      BY <2>1 DEF Insert, IInv, TypeOK
    <2>2. CASE v # w
      BY <2>2 DEF Insert, IInv, TypeOK, PendingInv
    <2> QED BY <2>1, <2>2
  <1>4. LastIdInv' /\ ResponseInv' /\ ShownIsContiguous'
    BY <1>0, ClientUnchanged DEF Insert
  <1> QED BY <1>1, <1>2, <1>3, <1>4 DEF IInv

LEMMA MountInv ==
    ASSUME IInv, NEW t \in Tabs, Mount(t)
    PROVE  IInv'
  <1> USE DEF Mount
  <1>1. TypeOK'
    BY DEF IInv, TypeOK
  <1>2. NoHole' /\ PendingInv'
    BY LogUnchanged
  <1>3. LastIdInv'
    BY DEF IInv, TypeOK, LastIdInv
  <1>4. ResponseInv'
    <2> SUFFICES ASSUME NEW u \in Tabs, NEW i \in response[u]
                 PROVE  /\ u # t
                        /\ conn'[u] = "open" /\ i \in DOMAIN rows /\ rows[i] > after'[u]
                        /\ \A s \in (after'[u] + Len(events'[u]) + 1) .. rows[i] :
                             \E j \in response[u] : rows[j] = s
      BY DEF ResponseInv
    <2>1. u # t
      BY DEF IInv, ResponseInv
    <2> QED BY <2>1 DEF IInv, TypeOK, ResponseInv
  <1>5. ShownIsContiguous'
    <2> SUFFICES ASSUME NEW u \in Tabs
                 PROVE  Shown(u)' = [k \in DOMAIN events'[u] |-> after'[u] + k]
      BY DEF ShownIsContiguous
    <2>1. CASE u = t
      <3>1. events'[u] = <<>>
        BY <2>1 DEF IInv, TypeOK
      <3> QED BY <3>1 DEF Shown
    <2>2. CASE u # t
      <3>1. events'[u] = events[u] /\ after'[u] = after[u]
        BY <2>2 DEF IInv, TypeOK
      <3> QED BY <3>1 DEF IInv, ShownIsContiguous, Shown
    <2> QED BY <2>1, <2>2
  <1> QED BY <1>1, <1>2, <1>3, <1>4, <1>5 DEF IInv

\* The tabs show and have in their URL what they had.
LEMMA ShownUnchanged ==
    ASSUME IInv, UNCHANGED <<rows, events, after>>
    PROVE  ShownIsContiguous'
  BY DEF IInv, ShownIsContiguous, Shown

LEMMA RespondInv ==
    ASSUME IInv, NEW t \in Tabs, Respond(t)
    PROVE  IInv'
  <1> USE DEF Respond
  <1>1. TypeOK'
    <2>1. DOMAIN rows \subseteq Nat
      BY DEF IInv, TypeOK
    <2> QED BY <2>1 DEF IInv, TypeOK
  <1>2. NoHole' /\ PendingInv'
    BY LogUnchanged
  <1>3. LastIdInv'
    BY DEF IInv, LastIdInv
  <1>4. ResponseInv'
    <2> SUFFICES ASSUME NEW u \in Tabs, NEW i \in response'[u]
                 PROVE  /\ conn'[u] = "open" /\ i \in DOMAIN rows /\ rows[i] > after[u]
                        /\ \A s \in (after[u] + Len(events[u]) + 1) .. rows[i] :
                             \E j \in response'[u] : rows[j] = s
      BY DEF ResponseInv
    <2>1. CASE u # t
      BY <2>1 DEF IInv, TypeOK, ResponseInv
    <2>2. CASE u = t
      <3> DEFINE from == IF after[t] > 0 THEN after[t] ELSE lastId[t]
      <3>1. response'[t] = {j \in DOMAIN rows : rows[j] > from} /\ conn'[t] = "open"
        BY DEF IInv, TypeOK
      <3>2. /\ after[t] \in Nat /\ lastId[t] \in Nat /\ Len(events[t]) \in Nat
            /\ \A j \in DOMAIN rows : rows[j] \in Nat \ {0}
        BY DEF IInv, TypeOK
      <3>3. from \in Nat /\ after[t] <= from /\ from <= after[t] + Len(events[t])
        BY <3>2 DEF IInv, LastIdInv
      <3>4. i \in DOMAIN rows /\ rows[i] > from
        BY <2>2, <3>1
      <3>5. ASSUME NEW s \in (after[t] + Len(events[t]) + 1) .. rows[i]
            PROVE  \E j \in response'[t] : rows[j] = s
        <4>1. s \in 1 .. rows[i] /\ s > from
          BY <3>2, <3>3, <3>4
        <4>2. PICK j \in DOMAIN rows : rows[j] = s
          BY <4>1, <3>4 DEF IInv, NoHole, SequencesTaken
        <4> QED BY <4>1, <4>2, <3>1
      <3>6. rows[i] > after[t]
        BY <3>2, <3>3, <3>4
      <3> QED BY <2>2, <3>1, <3>4, <3>5, <3>6
    <2> QED BY <2>1, <2>2
  <1>5. ShownIsContiguous'
    BY ShownUnchanged
  <1> QED BY <1>1, <1>2, <1>3, <1>4, <1>5 DEF IInv

\* The event received is either the next one of the tab or one it shows.
LEMMA ReceiveInv ==
    ASSUME IInv, NEW t \in Tabs, Receive(t)
    PROVE  IInv'
  <1>1. PICK i \in response[t] :
          /\ Earliest(t, i)
          /\ response' = [response EXCEPT ![t] = @ \ {i}]
          /\ lastId'   = [lastId EXCEPT ![t] = rows[i]]
          /\ stored'   = rows[i]
          /\ events'   = [events EXCEPT ![t] =
                            IF \E k \in DOMAIN @ : rows[@[k]] = rows[i] THEN @
                            ELSE Append(@, i)]
    BY DEF Receive
  <1>2. UNCHANGED <<rows, next, conn, after, losses, unmounts>>
    BY DEF Receive
  <1> DEFINE top == after[t] + Len(events[t])
  <1>3. /\ i \in DOMAIN rows /\ i \in Nat /\ rows[i] \in Nat \ {0}
        /\ after[t] \in Nat /\ Len(events[t]) \in Nat /\ events[t] \in Seq(Nat)
        /\ rows[i] > after[t]
        /\ \A j \in response[t] : rows[j] \in Nat \ {0}
    <2>1. \A j \in response[t] : j \in DOMAIN rows /\ rows[j] > after[t]
      BY DEF IInv, ResponseInv
    <2>2. after[t] \in Nat /\ events[t] \in Seq(Nat)
      BY DEF IInv, TypeOK
    <2>3. i \in Nat /\ \A j \in DOMAIN rows : rows[j] \in Nat \ {0}
      BY DEF IInv, TypeOK
    <2> QED BY <2>1, <2>2, <2>3
  <1>4. \A k \in 1 .. Len(events[t]) : rows[events[t][k]] = after[t] + k
    <2>1. Shown(t) = [k \in DOMAIN events[t] |-> after[t] + k]
      BY DEF IInv, ShownIsContiguous
    <2>2. DOMAIN events[t] = 1 .. Len(events[t])
      BY <1>3
    <2> QED BY <2>1, <2>2 DEF Shown
  <1>5. CASE \E k \in DOMAIN events[t] : rows[events[t][k]] = rows[i]
    <2>1. events' = events
      BY <1>1, <1>5 DEF IInv, TypeOK
    <2>2. rows[i] <= top
      <3>1. PICK k \in 1 .. Len(events[t]) : rows[events[t][k]] = rows[i]
        BY <1>3, <1>5
      <3>2. rows[i] = after[t] + k
        BY <3>1, <1>4
      <3> QED BY <3>2, <1>3
    <2>3. TypeOK'
      BY <1>1, <1>2, <1>3, <2>1 DEF IInv, TypeOK
    <2>4. NoHole' /\ PendingInv'
      BY <1>2, LogUnchanged
    <2>5. LastIdInv'
      <3> SUFFICES ASSUME NEW u \in Tabs, after[u] = 0
                   PROVE  lastId'[u] <= Len(events[u])
        BY <1>2, <2>1 DEF LastIdInv
      <3>1. CASE u = t
        <4>1. lastId'[t] = rows[i]
          BY <1>1 DEF IInv, TypeOK
        <4> QED BY <3>1, <4>1, <2>2, <1>3
      <3>2. CASE u # t
        <4>1. lastId'[u] = lastId[u]
          BY <3>2, <1>1 DEF IInv, TypeOK
        <4> QED BY <4>1 DEF IInv, LastIdInv
      <3> QED BY <3>1, <3>2
    <2>6. ResponseInv'
      <3> SUFFICES ASSUME NEW u \in Tabs, NEW m \in response'[u]
                   PROVE  /\ conn[u] = "open" /\ m \in DOMAIN rows /\ rows[m] > after[u]
                          /\ \A s \in (after[u] + Len(events[u]) + 1) .. rows[m] :
                               \E j \in response'[u] : rows[j] = s
        BY <1>2, <2>1 DEF ResponseInv
      <3>1. m \in response[u]
        BY <1>1 DEF IInv, TypeOK
      <3>2. /\ conn[u] = "open" /\ m \in DOMAIN rows /\ rows[m] > after[u]
            /\ \A s \in (after[u] + Len(events[u]) + 1) .. rows[m] :
                 \E j \in response[u] : rows[j] = s
        BY <3>1 DEF IInv, ResponseInv
      <3>3. CASE u # t
        BY <3>2, <3>3, <1>1 DEF IInv, TypeOK
      <3>4. CASE u = t
        <4> SUFFICES ASSUME NEW s \in (top + 1) .. rows[m]
                     PROVE  \E j \in response'[t] : rows[j] = s
          BY <3>2, <3>4
        <4>1. PICK j \in response[t] : rows[j] = s
          BY <3>2, <3>4
        <4>2. j # i
          BY <4>1, <2>2, <1>3
        <4> QED BY <4>1, <4>2, <1>1 DEF IInv, TypeOK
      <3> QED BY <3>3, <3>4
    <2>7. ShownIsContiguous'
      BY <1>2, <2>1, ShownUnchanged
    <2> QED BY <2>3, <2>4, <2>5, <2>6, <2>7 DEF IInv
  <1>6. CASE ~ \E k \in DOMAIN events[t] : rows[events[t][k]] = rows[i]
    <2>1. /\ events' = [events EXCEPT ![t] = Append(@, i)]
          /\ events'[t] = Append(events[t], i)
      BY <1>1, <1>6 DEF IInv, TypeOK
    <2>2. /\ Len(events'[t]) = Len(events[t]) + 1
          /\ DOMAIN events'[t] = 1 .. (Len(events[t]) + 1)
          /\ \A k \in 1 .. Len(events[t]) : events'[t][k] = events[t][k]
          /\ events'[t][Len(events[t]) + 1] = i
      BY <2>1, <1>3
    <2>3. rows[i] = top + 1
      <3>1. rows[i] > top
        <4> SUFFICES ASSUME rows[i] <= top PROVE FALSE
          BY <1>3
        <4>1. rows[i] - after[t] \in 1 .. Len(events[t])
          BY <1>3
        <4>2. rows[events[t][rows[i] - after[t]]] = rows[i]
          <5>1. rows[events[t][rows[i] - after[t]]] = after[t] + (rows[i] - after[t])
            BY <4>1, <1>4
          <5> QED BY <5>1, <1>3
        <4>3. DOMAIN events[t] = 1 .. Len(events[t])
          BY <1>3
        <4> QED BY <4>1, <4>2, <4>3, <1>6
      <3>2. top + 1 \in (top + 1) .. rows[i]
        BY <3>1, <1>3
      <3>3. PICK j \in response[t] : rows[j] = top + 1
        BY <3>2 DEF IInv, ResponseInv
      <3>4. rows[i] <= rows[j]
        BY <1>1 DEF Earliest
      <3> QED BY <3>1, <3>3, <3>4, <1>3
    <2>4. TypeOK'
      <3>1. events' \in [Tabs -> Seq(Nat)]
        BY <2>1, <1>3 DEF IInv, TypeOK
      <3>2. ASSUME NEW u \in Tabs, NEW k \in DOMAIN events'[u]
            PROVE  events'[u][k] \in DOMAIN rows
        <4>1. CASE u = t
          <5>1. k \in 1 .. Len(events[t]) \/ k = Len(events[t]) + 1
            BY <4>1, <2>2, <3>2, <1>3
          <5>2. DOMAIN events[t] = 1 .. Len(events[t])
            BY <1>3
          <5> QED BY <4>1, <5>1, <5>2, <2>2, <1>3 DEF IInv, TypeOK
        <4>2. CASE u # t
          <5>1. events'[u] = events[u]
            BY <4>2, <2>1 DEF IInv, TypeOK
          <5> QED BY <5>1, <3>2 DEF IInv, TypeOK
        <4> QED BY <4>1, <4>2
      <3> QED BY <1>1, <1>2, <1>3, <3>1, <3>2 DEF IInv, TypeOK
    <2>5. NoHole' /\ PendingInv'
      BY <1>2, LogUnchanged
    <2>6. LastIdInv'
      <3> SUFFICES ASSUME NEW u \in Tabs, after[u] = 0
                   PROVE  lastId'[u] <= Len(events'[u])
        BY <1>2 DEF LastIdInv
      <3>1. CASE u = t
        BY <3>1, <1>1, <1>3, <2>2, <2>3 DEF IInv, TypeOK
      <3>2. CASE u # t
        BY <3>2, <1>1, <2>1 DEF IInv, TypeOK, LastIdInv
      <3> QED BY <3>1, <3>2
    <2>7. ResponseInv'
      <3> SUFFICES ASSUME NEW u \in Tabs, NEW m \in response'[u]
                   PROVE  /\ conn[u] = "open" /\ m \in DOMAIN rows /\ rows[m] > after[u]
                          /\ \A s \in (after[u] + Len(events'[u]) + 1) .. rows[m] :
                               \E j \in response'[u] : rows[j] = s
        BY <1>2 DEF ResponseInv
      <3>1. m \in response[u]
        BY <1>1 DEF IInv, TypeOK
      <3>2. /\ conn[u] = "open" /\ m \in DOMAIN rows /\ rows[m] > after[u]
            /\ \A s \in (after[u] + Len(events[u]) + 1) .. rows[m] :
                 \E j \in response[u] : rows[j] = s
        BY <3>1 DEF IInv, ResponseInv
      <3>3. CASE u # t
        <4>1. events'[u] = events[u] /\ response'[u] = response[u]
          BY <3>3, <2>1, <1>1 DEF IInv, TypeOK
        <4> QED BY <3>2, <4>1
      <3>4. CASE u = t
        <4> SUFFICES ASSUME NEW s \in (top + 2) .. rows[m]
                     PROVE  \E j \in response'[t] : rows[j] = s
          <5>1. after[t] + Len(events'[t]) + 1 = top + 2
            BY <2>2, <1>3
          <5> QED BY <3>2, <3>4, <5>1
        <4>1. s \in (top + 1) .. rows[m]
          BY <1>3
        <4>2. PICK j \in response[t] : rows[j] = s
          BY <3>2, <3>4, <4>1
        <4>3. j # i
          BY <4>2, <2>3, <1>3
        <4> QED BY <4>2, <4>3, <1>1 DEF IInv, TypeOK
      <3> QED BY <3>3, <3>4
    <2>8. ShownIsContiguous'
      <3> SUFFICES ASSUME NEW u \in Tabs
                   PROVE  Shown(u)' = [k \in DOMAIN events'[u] |-> after[u] + k]
        BY <1>2 DEF ShownIsContiguous
      <3>1. CASE u = t
        <4> SUFFICES ASSUME NEW k \in DOMAIN events'[t]
                     PROVE  rows[events'[t][k]] = after[t] + k
          BY <3>1, <1>2 DEF Shown
        <4>1. CASE k \in 1 .. Len(events[t])
          BY <4>1, <2>2, <1>4
        <4>2. CASE k = Len(events[t]) + 1
          BY <4>2, <2>2, <2>3, <1>3
        <4> QED BY <4>1, <4>2, <2>2
      <3>2. CASE u # t
        <4>1. events'[u] = events[u]
          BY <3>2, <2>1 DEF IInv, TypeOK
        <4> QED BY <4>1, <1>2 DEF IInv, ShownIsContiguous, Shown
      <3> QED BY <3>1, <3>2
    <2> QED BY <2>4, <2>5, <2>6, <2>7, <2>8 DEF IInv
  <1> QED BY <1>5, <1>6

\* Steps that only close or drop a response.
LEMMA ConnectionInv ==
    ASSUME IInv, NEW t \in Tabs, Reconnect(t) \/ Refuse(t) \/ Lose(t) \/ Unmount(t)
    PROVE  IInv'
  <1> USE DEF Reconnect, Refuse, Lose, Unmount
  <1>1. /\ UNCHANGED <<rows, next, stored, after, lastId, events>>
        /\ response' = [response EXCEPT ![t] = {}]
        /\ \A u \in Tabs : u # t => conn'[u] = conn[u]
    <2>1. response[t] = {} \/ response' = [response EXCEPT ![t] = {}]
      BY DEF IInv, ResponseInv
    <2> QED BY <2>1 DEF IInv, TypeOK
  <1>2. TypeOK'
    <2>1. conn' \in [Tabs -> {"closed", "connecting", "open", "failed"}]
      BY DEF IInv, TypeOK
    <2>2. losses' \in 0 .. MaxLosses /\ unmounts' \in 0 .. MaxUnmounts
      <3>1. losses \in 0 .. MaxLosses /\ unmounts \in 0 .. MaxUnmounts
        BY DEF IInv, TypeOK
      <3> QED BY <3>1, LogAssumption
    <2>3. response' \in [Tabs -> SUBSET Nat]
      BY <1>1 DEF IInv, TypeOK
    <2> QED BY <1>1, <2>1, <2>2, <2>3 DEF IInv, TypeOK
  <1>3. NoHole' /\ PendingInv'
    BY <1>1, LogUnchanged
  <1>4. LastIdInv'
    BY <1>1 DEF IInv, LastIdInv
  <1>5. ResponseInv'
    <2>1. ASSUME NEW u \in Tabs
          PROVE  response'[u] = {} \/ (u # t /\ response'[u] = response[u])
      BY <1>1 DEF IInv, TypeOK
    <2> QED BY <1>1, <2>1 DEF IInv, ResponseInv
  <1>6. ShownIsContiguous'
    BY <1>1, ShownUnchanged
  <1> QED BY <1>2, <1>3, <1>4, <1>5, <1>6 DEF IInv

\* Every step keeps the invariant.
LEMMA StepInv == IInv /\ [Next]_vars => IInv'
  <1> SUFFICES ASSUME IInv, [Next]_vars PROVE IInv'
    OBVIOUS
  <1>1. ASSUME NEW w \in Writers, Write(w) PROVE IInv'
    BY <1>1, NextSequenceInv, InsertInv DEF Write
  <1>2. ASSUME NEW t \in Tabs, Follow(t) PROVE IInv'
    BY <1>2, RespondInv, ReceiveInv, ConnectionInv DEF Follow
  <1>3. ASSUME NEW t \in Tabs, Mount(t) \/ Refuse(t) \/ Lose(t) \/ Unmount(t) PROVE IInv'
    BY <1>3, MountInv, ConnectionInv
  <1>4. CASE UNCHANGED vars
    <2>1. UNCHANGED <<rows, next, client>>
      BY <1>4 DEF vars, client
    <2>2. TypeOK'
      BY <2>1 DEF IInv, TypeOK, client
    <2>3. NoHole' /\ PendingInv'
      BY <2>1, LogUnchanged
    <2>4. LastIdInv' /\ ResponseInv' /\ ShownIsContiguous'
      BY <2>1, ClientUnchanged
    <2> QED BY <2>2, <2>3, <2>4 DEF IInv
  <1> QED BY <1>1, <1>2, <1>3, <1>4 DEF Next

\* The inductive invariant of the log and its followers.
THEOREM LogInvariant == Spec => []IInv
  <1> QED BY InitInv, StepInv, PTL DEF Spec

\* Racing appends never leave a hole in the sequences of a run.
THEOREM SequencesHaveNoHole == Spec => []NoHole
  <1>1. IInv => NoHole
    BY DEF IInv
  <1> QED BY <1>1, LogInvariant, PTL

\* A tab shows a contiguous, ordered stretch of sequences without repetition.
THEOREM TabsShowAStretch == Spec => []ShownIsContiguous
  <1>1. IInv => ShownIsContiguous
    BY DEF IInv
  <1> QED BY <1>1, LogInvariant, PTL

=============================================================================
