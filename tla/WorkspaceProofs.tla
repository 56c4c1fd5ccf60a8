--------------------------- MODULE WorkspaceProofs ---------------------------
(***************************************************************************)
(* Proofs about the workbench of one tab: which account it shows, which    *)
(* conversation, and what it knows of the runs.  Every part of MCWebPages  *)
(* keeps its variables to itself, so an invariant of the page is proved    *)
(* part by part: a part's own invariant holds where its page is shown.     *)
(***************************************************************************)
EXTENDS MCWebPages, FiniteSetTheorems, TLAPS

\* The assumptions on the constants of these pages.
LEMMA PageAssumptions ==
    /\ Session!SessionAssumption
    /\ MaxConversations \in Nat \ {0} /\ ListLimit \in Nat \ {0}
    /\ MaxRuns \in Nat \ {0} /\ RunLimit \in Nat \ {0} /\ NoConversation \notin Conversations
BY PagesAssumption DEF PagesAssumption, Workspace!WorkspaceAssumption, Runs!RunsAssumption

-----------------------------------------------------------------------------
(* WorkspaceClient: the list and the selection *)

\* The control points of a creation.
DraftPcs == {"idle", "posting", "made", "refetching", "refetched"}

\* A refetch that ends moves no creation to or from rest.
LEMMA RefetchedMoves ==
    ASSUME Workspace!TypeOK
    PROVE  /\ Workspace!Refetched \in
                [Drafts -> [pc : DraftPcs, conv : 0..MaxConversations]]
           /\ \A d \in Drafts :
                 /\ Workspace!Refetched[d].pc = "idle" <=> x7[d].pc = "idle"
                 /\ Workspace!Refetched[d].pc = "made" <=> x7[d].pc = "made"
                 /\ Workspace!Refetched[d].conv = x7[d].conv
BY DEF Workspace!TypeOK, Workspace!Refetched, DraftPcs

\* The selection effect leaves a selection of the list behind, and a preference of its
\* type.
LEMMA EffectSelects ==
    ASSUME Workspace!IInv, MaxConversations \in Nat,
           NEW sel \in 0..MaxConversations, NEW pref \in 0..MaxConversations,
           NEW changed \in BOOLEAN, x2'.ids \subseteq 1..MaxConversations,
           x2'.ids # {} => x2'.first \in x2'.ids,
           Workspace!SelectionEffect(sel, pref, changed)
    PROVE  Workspace!SelectionListed' /\ x5' \in 0..MaxConversations
                                      /\ x6' \in 0..MaxConversations
<1> DEFINE moved == changed \/ sel # x5 \/ x2' # x2 \/ Workspace!Creating' # Workspace!Creating
           wanted == IF pref # 0 THEN pref ELSE sel
<1>1. IF ~moved \/ (Workspace!Creating' /\ sel = 0) \/ x2'.ids = {}
      THEN x6' = pref /\ x5' = IF moved /\ x2'.ids = {} THEN 0 ELSE sel
      ELSE x6' = 0 /\ x5' = IF wanted \in x2'.ids THEN wanted ELSE x2'.first
  BY DEF Workspace!SelectionEffect, Workspace!None
<1>2. /\ x5 \in x2.ids \cup {0}
      /\ x5 = 0 => x2.ids = {} \/ Workspace!Creating
  BY DEF Workspace!IInv, Workspace!SelectionListed, Workspace!None
<1>3. CASE ~moved
  BY <1>1, <1>2, <1>3 DEF Workspace!SelectionListed, Workspace!None
<1>4. CASE moved /\ ((Workspace!Creating' /\ sel = 0) \/ x2'.ids = {})
  BY <1>1, <1>2, <1>4 DEF Workspace!SelectionListed, Workspace!None
<1>5. CASE moved /\ ~(Workspace!Creating' /\ sel = 0) /\ x2'.ids # {}
  <2>1. x5' \in x2'.ids /\ x5' \in 1..MaxConversations /\ x6' = 0
    BY <1>1, <1>5
  <2> QED
    BY <2>1 DEF Workspace!SelectionListed, Workspace!None
<1> QED BY <1>3, <1>4, <1>5

\* A step that changes neither the list nor the selection, and brings no creation to or
\* from rest, keeps the selection.
LEMMA SelectionStays ==
    ASSUME Workspace!SelectionListed, x5' = x5, x2' = x2,
           Workspace!Creating' = Workspace!Creating
    PROVE  Workspace!SelectionListed'
BY DEF Workspace!SelectionListed

\* The types of what the selection effect leaves alone.
ListsTyped ==
    /\ x1 \in 0..MaxConversations
    /\ {x2, x4} \subseteq [ids : SUBSET (1..x1), first : 0..x1]
    /\ \A l \in {x2, x4} : IF l.ids = {} THEN l.first = 0 ELSE l.first \in l.ids
DraftsTyped ==
    /\ x7 \in [Drafts -> [pc : DraftPcs, conv : 0..MaxConversations]]
    /\ \A d \in Drafts : x7[d].pc = "made" => x7[d].conv \in 1..x1
ListTyped ==
    /\ ListsTyped /\ DraftsTyped
    /\ x3 \in [{"conversations", "runs"} -> {"idle", "asked", "answered"}]
    /\ x8 \in Drafts
    /\ x9 \in [on : BOOLEAN, sent : 0..MaxConversations, conv : 0..MaxConversations]
    /\ x10 \in 0..MaxConversations

LEMMA TypesOfWorkspace ==
    Workspace!TypeOK <=>
        ListTyped /\ x5 \in 0..MaxConversations /\ x6 \in 0..MaxConversations
BY DEF Workspace!TypeOK, ListTyped, ListsTyped, DraftsTyped, Workspace!Queries,
       Workspace!None, DraftPcs

\* A list of conversations there are is one of conversations that may be.
LEMMA ListsGrow ==
    ASSUME MaxConversations \in Nat, NEW m \in 0..MaxConversations, NEW n \in m..MaxConversations
    PROVE  /\ [ids : SUBSET (1..m), first : 0..m] \subseteq [ids : SUBSET (1..n), first : 0..n]
           /\ 1..n \subseteq 1..MaxConversations
OBVIOUS

\* Lists keep their type where a fetch is dropped, and where conversations are made.
LEMMA ListsStay ==
    ASSUME ListsTyped, MaxConversations \in Nat, x1' \in x1..MaxConversations, x2' = x2,
           x4' \in {x4, Workspace!NoList}
    PROVE  ListsTyped'
<1>1. [ids : SUBSET (1..x1), first : 0..x1] \subseteq [ids : SUBSET (1..x1'), first : 0..x1']
  BY ListsGrow DEF ListsTyped
<1>2. /\ Workspace!NoList \in [ids : SUBSET (1..x1'), first : 0..x1']
      /\ Workspace!NoList.ids = {} /\ Workspace!NoList.first = 0
  BY DEF Workspace!NoList, Workspace!None, ListsTyped
<1>3. x1' \in 0..MaxConversations
  BY DEF ListsTyped
<1> QED
  BY <1>1, <1>2, <1>3 DEF ListsTyped

\* Creations keep their type where a refetch ends, and where others are made.
LEMMA DraftsStay ==
    ASSUME DraftsTyped, MaxConversations \in Nat, x1 \in Nat, x1' \in x1..MaxConversations,
           x7' \in {x7, Workspace!Refetched}
    PROVE  DraftsTyped'
<1>1. 1..x1 \subseteq 1..x1'
  OBVIOUS
<1> QED
  BY <1>1 DEF DraftsTyped, DraftPcs, Workspace!Refetched

\* What the server lists.
LEMMA LatestTyped ==
    ASSUME x1 \in Nat, ListLimit \in Nat \ {0}
    PROVE  /\ Workspace!Latest \in [ids : SUBSET (1..x1), first : 0..x1]
           /\ \A c \in 1..x1 : c \in Workspace!Latest.ids \/ c <= x1 - ListLimit
           /\ IF Workspace!Latest.ids = {} THEN Workspace!Latest.first = 0
              ELSE Workspace!Latest.first \in Workspace!Latest.ids
<1>1. /\ Workspace!Latest.ids = {c \in 1..x1 : c > x1 - ListLimit}
      /\ Workspace!Latest.first = x1
      /\ Workspace!Latest \in [ids : SUBSET (1..x1), first : 0..x1]
  BY DEF Workspace!Latest
<1>2. x1 # 0 => x1 \in 1..x1 /\ x1 > x1 - ListLimit
  OBVIOUS
<1> QED
  BY <1>1, <1>2

\* A step that leaves the list alone takes nothing out of it.
LEMMA SameListKept == ASSUME x2' = x2 PROVE Workspace!ListKeepsLatest
BY DEF Workspace!ListKeepsLatest

\* The invariant after a step that ends with the selection effect.
LEMMA EffectKeeps ==
    ASSUME Workspace!IInv, MaxConversations \in Nat,
           NEW sel \in 0..MaxConversations, NEW pref \in 0..MaxConversations,
           NEW changed \in BOOLEAN, ListTyped', Workspace!AnswerHoldsListed',
           Workspace!SelectionEffect(sel, pref, changed)
    PROVE  Workspace!IInv'
<1>1. /\ x1' \in 0..MaxConversations /\ x2' \in [ids : SUBSET (1..x1'), first : 0..x1']
      /\ x2'.ids # {} => x2'.first \in x2'.ids
  BY DEF ListTyped, ListsTyped
<1>2. x2'.ids \subseteq 1..MaxConversations
  BY <1>1
<1>3. Workspace!SelectionListed' /\ x5' \in 0..MaxConversations
                                 /\ x6' \in 0..MaxConversations
  BY <1>1, <1>2, EffectSelects
<1>4. (Workspace!TypeOK <=> ListTyped /\ x5 \in 0..MaxConversations
                                      /\ x6 \in 0..MaxConversations)'
  BY TypesOfWorkspace, PTL
<1> QED
  BY <1>3, <1>4 DEF Workspace!IInv

\* Every step of the workbench keeps its invariant and every conversation listed.
LEMMA WorkspaceStep ==
    ASSUME Workspace!IInv, MaxConversations \in Nat, Workspace!Next
    PROVE  Workspace!IInv' /\ Workspace!ListKeepsLatest
<1>1. /\ ListTyped /\ x5 \in 0..MaxConversations /\ x6 \in 0..MaxConversations
      /\ Workspace!AnswerHoldsListed /\ Workspace!SelectionListed
      /\ x1 \in 0..MaxConversations /\ x1 \in Nat
      /\ {x2, x4} \subseteq [ids : SUBSET (1..x1), first : 0..x1]
  BY TypesOfWorkspace DEF Workspace!IInv, ListTyped, ListsTyped
\* The step that leaves the server's conversations and the list alone, and creations too
\* but for the end of a refetch.
<1>15. ASSUME x1' = x1, x2' = x2, x4' \in {x4, Workspace!NoList}
       PROVE  ListsTyped' /\ (x7' \in {x7, Workspace!Refetched} => DraftsTyped')
  <2>1. x1' \in x1..MaxConversations
    BY <1>1, <1>15
  <2> QED
    BY <1>1, <1>15, <2>1, ListsStay, DraftsStay DEF ListTyped
<1> USE DEF Workspace!Queries, Workspace!None, Workspace!vars, Workspace!lists, Workspace!ui,
            Workspace!work
<1>2. ASSUME NEW c \in 1..x1, Workspace!Select(c)
      PROVE  Workspace!IInv' /\ Workspace!ListKeepsLatest
  <2>1. Workspace!SelectionEffect(c, x6, FALSE)
    BY <1>2 DEF Workspace!Select
  <2>2. ListTyped' /\ Workspace!AnswerHoldsListed' /\ x2' = x2
    BY <1>1, <1>2, <1>15 DEF Workspace!Select, ListTyped, Workspace!AnswerHoldsListed
  <2>3. c \in 0..MaxConversations
    BY <1>1
  <2> QED
    BY <1>1, <2>1, <2>2, <2>3, EffectKeeps, SameListKept
<1>3. ASSUME NEW d \in Drafts, Workspace!StartNewConversation(d)
      PROVE  Workspace!IInv' /\ Workspace!ListKeepsLatest
  <2>1. Workspace!SelectionEffect(0, x6, FALSE)
    BY <1>3 DEF Workspace!StartNewConversation
  <2>2. ListTyped' /\ Workspace!AnswerHoldsListed' /\ x2' = x2
    <3>1. UNCHANGED <<x1, x2, x3, x4, x9, x10>>
      BY <1>3 DEF Workspace!StartNewConversation
    <3>2. DraftsTyped'
      BY <1>1, <1>3, <3>1 DEF Workspace!StartNewConversation, ListTyped, DraftsTyped, DraftPcs
    <3> QED
      BY <1>1, <1>3, <1>15, <3>1, <3>2
         DEF Workspace!StartNewConversation, ListTyped, Workspace!AnswerHoldsListed
  <2>3. 0 \in 0..MaxConversations
    BY <1>1
  <2> QED
    BY <1>1, <2>1, <2>2, <2>3, EffectKeeps, SameListKept
\* What is listed is no later as others are made.
<1>17. ASSUME x1' = x1 + 1, x2' = x2, x3' = x3, x4' = x4
       PROVE  Workspace!AnswerHoldsListed'
  <2>1. \A c \in x2.ids : c <= x1 - ListLimit => c <= x1' - ListLimit
    BY <1>1, <1>17, PageAssumptions
  <2> QED
    BY <1>1, <1>17, <2>1 DEF Workspace!AnswerHoldsListed
<1>16. ASSUME NEW d \in Drafts, Workspace!DraftMade(d)
       PROVE  Workspace!IInv' /\ Workspace!ListKeepsLatest
  <2>1. /\ x1' = x1 + 1 /\ x1 < MaxConversations
        /\ x7' = [x7 EXCEPT ![d] = [pc |-> "made", conv |-> x1 + 1]] /\ x7[d].pc = "posting"
        /\ UNCHANGED <<x2, x3, x4, x5, x6, x8, x9, x10>>
    BY <1>16 DEF Workspace!DraftMade
  <2>2. x1' \in x1..MaxConversations /\ x1 + 1 \in 0..MaxConversations /\ x1 + 1 \in 1..x1'
        /\ 1..x1 \subseteq 1..x1'
    BY <1>1, <2>1
  <2>3. ListsTyped'
    BY <1>1, <2>1, <2>2, ListsStay DEF ListTyped
  <2>4. DraftsTyped'
    BY <1>1, <2>1, <2>2 DEF ListTyped, DraftsTyped, DraftPcs
  <2>5. ListTyped' /\ Workspace!AnswerHoldsListed'
    <3>1. ListTyped'
      BY <1>1, <2>1, <2>3, <2>4 DEF ListTyped
    <3> QED
      BY <1>17, <2>1, <3>1
  <2>6. Workspace!Creating' = Workspace!Creating
    BY <1>1, <2>1 DEF Workspace!Creating, ListTyped, DraftsTyped
  <2>7. Workspace!SelectionListed'
    BY <1>1, <2>1, <2>6, SelectionStays
  <2>8. (Workspace!TypeOK <=> ListTyped /\ x5 \in 0..MaxConversations
                                        /\ x6 \in 0..MaxConversations)'
    BY TypesOfWorkspace, PTL
  <2> QED
    BY <1>1, <2>1, <2>5, <2>7, <2>8, SameListKept DEF Workspace!IInv
<1>4. ASSUME NEW d \in Drafts, Workspace!DraftCreated(d)
      PROVE  Workspace!IInv' /\ Workspace!ListKeepsLatest
  <2>1. Workspace!SelectionEffect(x5, x6, FALSE)
    BY <1>4 DEF Workspace!DraftCreated
  <2>2. /\ x1' = x1 /\ x4' = Workspace!NoList /\ x2' = Workspace!PutFirst(x7[d].conv)
        /\ x3' = [x3 EXCEPT !["conversations"] = "asked"] /\ x7[d].pc = "made"
        /\ x7' = [Workspace!Refetched EXCEPT ![d].pc = "refetching"]
        /\ UNCHANGED <<x8, x9, x10>>
    BY <1>4 DEF Workspace!DraftCreated
  <2>3. DraftsTyped'
    <3>1. DraftsTyped
      BY <1>1 DEF ListTyped
    <3> QED
      BY <2>2, <3>1 DEF DraftsTyped, DraftPcs, Workspace!Refetched
  <2>4. x7[d].conv \in 1..x1
    BY <1>1, <2>2 DEF ListTyped, DraftsTyped
  <2>5. /\ x2' \in [ids : SUBSET (1..x1), first : 0..x1]
        /\ x2'.first \in x2'.ids /\ x2.ids \subseteq x2'.ids
    BY <1>1, <2>2, <2>4 DEF Workspace!PutFirst
  <2>6. x4' \in [ids : SUBSET (1..x1), first : 0..x1] /\ x4'.ids = {} /\ x4'.first = 0
    BY <1>1, <2>2 DEF Workspace!NoList
  <2>7. ListTyped' /\ Workspace!AnswerHoldsListed'
    <3>1. ListsTyped'
      BY <1>1, <2>2, <2>5, <2>6 DEF ListsTyped
    <3> QED
      BY <1>1, <2>2, <2>3, <3>1 DEF ListTyped, Workspace!AnswerHoldsListed
  <2>8. Workspace!ListKeepsLatest
    BY <2>5 DEF Workspace!ListKeepsLatest
  <2> QED
    BY <1>1, <2>1, <2>7, <2>8, EffectKeeps
<1>5. ASSUME NEW d \in Drafts, Workspace!DraftSelected(d)
      PROVE  Workspace!IInv' /\ Workspace!ListKeepsLatest
  <2>1. Workspace!SelectionEffect(x7[d].conv, x7[d].conv, FALSE)
    BY <1>5 DEF Workspace!DraftSelected
  <2>2. ListTyped' /\ Workspace!AnswerHoldsListed' /\ x2' = x2
    <3>1. UNCHANGED <<x1, x2, x3, x4, x9, x10>>
      BY <1>5 DEF Workspace!DraftSelected
    <3>2. DraftsTyped'
      BY <1>1, <1>5, <3>1 DEF Workspace!DraftSelected, Workspace!NoDraft, Workspace!None, ListTyped, DraftsTyped, DraftPcs
    <3> QED
      BY <1>1, <1>5, <1>15, <3>1, <3>2
         DEF Workspace!DraftSelected, ListTyped, Workspace!AnswerHoldsListed
  <2>3. x7[d].conv \in 0..MaxConversations
    BY <1>1 DEF ListTyped, DraftsTyped
  <2> QED
    BY <1>1, <2>1, <2>2, <2>3, EffectKeeps, SameListKept
<1>6. ASSUME NEW d \in Drafts, Workspace!DraftFails(d)
      PROVE  Workspace!IInv' /\ Workspace!ListKeepsLatest
  <2>1. Workspace!SelectionEffect(x5, x6, FALSE)
    BY <1>6 DEF Workspace!DraftFails
  <2>2. ListTyped' /\ Workspace!AnswerHoldsListed' /\ x2' = x2
    <3>1. UNCHANGED <<x1, x2, x3, x4, x9, x10>>
      BY <1>6 DEF Workspace!DraftFails
    <3>2. DraftsTyped'
      BY <1>1, <1>6, <3>1 DEF Workspace!DraftFails, Workspace!NoDraft, Workspace!None, ListTyped, DraftsTyped, DraftPcs
    <3> QED
      BY <1>1, <1>6, <1>15, <3>1, <3>2
         DEF Workspace!DraftFails, ListTyped, Workspace!AnswerHoldsListed
  <2> QED
    BY <1>1, <2>1, <2>2, EffectKeeps, SameListKept
<1>7. ASSUME Workspace!SwitchToDraft
      PROVE  Workspace!IInv' /\ Workspace!ListKeepsLatest
  <2>1. Workspace!SelectionEffect(0, x6, FALSE)
    BY <1>7 DEF Workspace!SwitchToDraft
  <2>2. ListTyped' /\ Workspace!AnswerHoldsListed' /\ x2' = x2
    BY <1>1, <1>7, <1>15 DEF Workspace!SwitchToDraft, ListTyped, Workspace!AnswerHoldsListed
  <2>3. 0 \in 0..MaxConversations
    BY <1>1
  <2> QED
    BY <1>1, <2>1, <2>2, <2>3, EffectKeeps, SameListKept
<1>8. ASSUME Workspace!SubmitMessage \/ Workspace!StreamStarts \/ Workspace!StopActiveRun
                \/ Workspace!MadeElsewhere
                \/ \E q \in Workspace!Queries : Workspace!Answers(q) \/ Workspace!Refetch(q)
      PROVE  Workspace!IInv' /\ Workspace!ListKeepsLatest
  <2>1. x2' = x2 /\ x5' = x5 /\ x6' = x6 /\ x7' = x7 /\ x8' = x8
    BY <1>8 DEF Workspace!SubmitMessage, Workspace!StreamStarts, Workspace!StopActiveRun,
                Workspace!MadeElsewhere, Workspace!Answers, Workspace!Refetch
  <2>2. ListTyped' /\ Workspace!AnswerHoldsListed'
    <3>1. CASE Workspace!SubmitMessage
      <4>1. x9' = [on |-> TRUE, sent |-> x5, conv |-> x5]
            /\ x1' = x1 /\ x3' = x3 /\ x4' = x4 /\ x10' = x10
        BY <3>1 DEF Workspace!SubmitMessage
      <4>2. x9' \in [on : BOOLEAN, sent : 0..MaxConversations, conv : 0..MaxConversations]
        BY <1>1, <4>1
      <4> QED
        BY <1>1, <1>15, <2>1, <4>1, <4>2 DEF ListTyped, Workspace!AnswerHoldsListed
    <3>5. CASE Workspace!StopActiveRun
      BY <1>1, <1>15, <2>1, <3>5
         DEF Workspace!StopActiveRun, ListTyped, Workspace!AnswerHoldsListed
    <3>2. CASE Workspace!StreamStarts \/ Workspace!MadeElsewhere
      <4>1. /\ x1' = x1 + 1 /\ x1 < MaxConversations /\ x3' = x3 /\ x4' = x4
            /\ x9' \in {x9, [x9 EXCEPT !.conv = x1 + 1]} /\ x10' = x10
        BY <3>2 DEF Workspace!StreamStarts, Workspace!MadeElsewhere
      <4>2. x1' \in x1..MaxConversations /\ x1 + 1 \in 0..MaxConversations
        BY <1>1, <4>1
      <4>3. x9' \in [on : BOOLEAN, sent : 0..MaxConversations, conv : 0..MaxConversations]
        BY <1>1, <4>1, <4>2 DEF ListTyped
      <4>4. ListsTyped' /\ DraftsTyped'
        BY <1>1, <2>1, <4>1, <4>2, ListsStay, DraftsStay DEF ListTyped
      <4> QED
        BY <1>1, <1>17, <2>1, <4>1, <4>3, <4>4 DEF ListTyped
    <3>3. ASSUME NEW q \in Workspace!Queries, Workspace!Answers(q)
          PROVE  ListTyped' /\ Workspace!AnswerHoldsListed'
      <4>1. /\ x3' = [x3 EXCEPT ![q] = "answered"]
            /\ UNCHANGED <<x1, x2, x5, x6, x7, x8, x9, x10>>
            /\ x4' = IF q = "conversations" THEN Workspace!Latest ELSE x4
        BY <3>3 DEF Workspace!Answers
      <4>2. /\ Workspace!Latest \in [ids : SUBSET (1..x1), first : 0..x1]
            /\ \A c \in 1..x1 : c \in Workspace!Latest.ids \/ c <= x1 - ListLimit
            /\ IF Workspace!Latest.ids = {} THEN Workspace!Latest.first = 0
               ELSE Workspace!Latest.first \in Workspace!Latest.ids
        BY <1>1, PageAssumptions, LatestTyped
      <4>3. ListsTyped' /\ DraftsTyped'
        BY <1>1, <4>1, <4>2 DEF ListTyped, ListsTyped, DraftsTyped
      <4>4. Workspace!AnswerHoldsListed'
        BY <1>1, <4>1, <4>2 DEF ListTyped, Workspace!AnswerHoldsListed
      <4> QED
        BY <1>1, <4>1, <4>3, <4>4 DEF ListTyped
    <3>4. ASSUME NEW q \in Workspace!Queries, Workspace!Refetch(q)
          PROVE  ListTyped' /\ Workspace!AnswerHoldsListed'
      BY <1>1, <1>15, <3>4 DEF Workspace!Refetch, ListTyped, Workspace!AnswerHoldsListed
    <3> QED
      BY <1>8, <3>1, <3>2, <3>3, <3>4, <3>5
  <2>3. Workspace!Creating' = Workspace!Creating
    BY <2>1 DEF Workspace!Creating
  <2>4. Workspace!SelectionListed'
    BY <1>1, <2>1, <2>3, SelectionStays
  <2>5. (Workspace!TypeOK <=> ListTyped /\ x5 \in 0..MaxConversations
                                        /\ x6 \in 0..MaxConversations)'
    BY TypesOfWorkspace, PTL
  <2> QED
    BY <1>1, <2>1, <2>2, <2>4, <2>5, SameListKept DEF Workspace!IInv
<1>9. ASSUME NEW q \in Workspace!Queries, Workspace!FetchFails(q)
      PROVE  Workspace!IInv' /\ Workspace!ListKeepsLatest
  <2>1. x2' = x2 /\ x5' = x5 /\ x6' = x6 /\ x8' = x8
        /\ x7' \in {x7, Workspace!Refetched}
    BY <1>9 DEF Workspace!FetchFails
  <2>2. x7'[x8].pc = "idle" <=> x7[x8].pc = "idle"
    BY <1>1, <2>1, RefetchedMoves DEF Workspace!IInv, ListTyped
  <2>3. ListTyped' /\ Workspace!AnswerHoldsListed'
    BY <1>1, <1>9, <1>15, <2>1 DEF Workspace!FetchFails, ListTyped, Workspace!AnswerHoldsListed
  <2>4. Workspace!Creating' = Workspace!Creating
    BY <2>1, <2>2 DEF Workspace!Creating
  <2>5. Workspace!SelectionListed'
    BY <1>1, <2>1, <2>4, SelectionStays
  <2>6. (Workspace!TypeOK <=> ListTyped /\ x5 \in 0..MaxConversations
                                        /\ x6 \in 0..MaxConversations)'
    BY TypesOfWorkspace, PTL
  <2> QED
    BY <1>1, <2>1, <2>3, <2>5, <2>6, SameListKept DEF Workspace!IInv
<1>10. ASSUME NEW conv \in 0..MaxConversations, Workspace!Refresh(conv),
              x9' \in [on : BOOLEAN, sent : 0..MaxConversations, conv : 0..MaxConversations],
              x10' \in 0..MaxConversations
       PROVE  Workspace!IInv' /\ Workspace!ListKeepsLatest
  <2>1. Workspace!SelectionEffect(x5, conv, FALSE)
    BY <1>10 DEF Workspace!Refresh
  <2>2. ListTyped' /\ Workspace!AnswerHoldsListed' /\ x2' = x2
    BY <1>1, <1>10, <1>15 DEF Workspace!Refresh, ListTyped, Workspace!AnswerHoldsListed
  <2> QED
    BY <1>1, <1>10, <2>1, <2>2, EffectKeeps, SameListKept
<1>11. ASSUME Workspace!StreamEnds
       PROVE  Workspace!IInv' /\ Workspace!ListKeepsLatest
  <2>1. PICK conv \in {x9.sent, x9.conv} : Workspace!Refresh(conv)
    BY <1>11 DEF Workspace!StreamEnds
  <2>2. /\ conv \in 0..MaxConversations /\ x10' \in 0..MaxConversations
        /\ x9' \in [on : BOOLEAN, sent : 0..MaxConversations, conv : 0..MaxConversations]
    BY <1>1, <1>11 DEF Workspace!StreamEnds, Workspace!NoStream, ListTyped
  <2> QED
    BY <2>1, <2>2, <1>10
<1>12. ASSUME Workspace!StopSettles
       PROVE  Workspace!IInv' /\ Workspace!ListKeepsLatest
  <2>1. /\ Workspace!Refresh(x10)
        /\ x10 \in 0..MaxConversations /\ x10' \in 0..MaxConversations
        /\ x9' \in [on : BOOLEAN, sent : 0..MaxConversations, conv : 0..MaxConversations]
    BY <1>1, <1>12 DEF Workspace!StopSettles, ListTyped
  <2> QED
    BY <2>1, <1>10
<1>13. ASSUME Workspace!ListArrives
       PROVE  Workspace!IInv' /\ Workspace!ListKeepsLatest
  <2>1. PICK renamed \in BOOLEAN : Workspace!SelectionEffect(x5, x6, renamed)
    BY <1>13 DEF Workspace!ListArrives
  <2>2. /\ x3["conversations"] = "answered" /\ x1' = x1 /\ x2' = x4 /\ x4' = Workspace!NoList
        /\ x3' = [x3 EXCEPT !["conversations"] = "idle"] /\ x7' = Workspace!Refetched
        /\ UNCHANGED <<x8, x9, x10>>
    BY <1>13 DEF Workspace!ListArrives
  <2>3. Workspace!NoList \in [ids : SUBSET (1..x1), first : 0..x1]
        /\ Workspace!NoList.ids = {} /\ Workspace!NoList.first = 0
    BY <1>1 DEF Workspace!NoList
  <2>4. ListsTyped'
    BY <1>1, <2>2, <2>3 DEF ListTyped, ListsTyped
  <2>5. DraftsTyped'
    BY <1>1, <2>2, DraftsStay DEF ListTyped
  <2>6. ListTyped' /\ Workspace!AnswerHoldsListed'
    BY <1>1, <2>2, <2>4, <2>5 DEF ListTyped, Workspace!AnswerHoldsListed
  <2>7. Workspace!ListKeepsLatest
    BY <1>1, <2>2 DEF Workspace!AnswerHoldsListed, Workspace!ListKeepsLatest
  <2> QED
    BY <1>1, <2>1, <2>6, <2>7, EffectKeeps
<1>14. ASSUME Workspace!RunsArrive
       PROVE  Workspace!IInv' /\ Workspace!ListKeepsLatest
  <2>1. PICK changed \in BOOLEAN : Workspace!SelectionEffect(x5, x6, changed)
    BY <1>14 DEF Workspace!RunsArrive
  <2>2. ListTyped' /\ Workspace!AnswerHoldsListed' /\ x2' = x2
    BY <1>1, <1>14, <1>15 DEF Workspace!RunsArrive, ListTyped, Workspace!AnswerHoldsListed
  <2> QED
    BY <1>1, <2>1, <2>2, EffectKeeps, SameListKept
<1> QED
  BY <1>2, <1>3, <1>4, <1>5, <1>6, <1>7, <1>8, <1>9, <1>11, <1>12, <1>13, <1>14,
     <1>16
     DEF Workspace!Next

LEMMA WorkspaceInit ==
    ASSUME MaxConversations \in Nat \ {0}, Workspace!Init
    PROVE  Workspace!IInv
<1>1. Workspace!TypeOK
  BY DEF Workspace!Init, Workspace!TypeOK, Workspace!NoDraft, Workspace!NoStream,
         Workspace!None, Workspace!NoList, Workspace!Queries
<1>2. Workspace!AnswerHoldsListed /\ Workspace!SelectionListed
  BY DEF Workspace!Init, Workspace!AnswerHoldsListed, Workspace!SelectionListed,
         Workspace!None, Workspace!NoList, Workspace!Queries
<1> QED
  BY <1>1, <1>2 DEF Workspace!IInv

-----------------------------------------------------------------------------
(* WorkspaceRuns: what the tab knows of the runs *)

RunRefs == [conv : Conversations \cup {NoConversation}, n : 0..MaxRuns]

\* The invariant in parts: the numbers of runs, the runs that a stop and a stream name, and
\* the two histories.
NumbersFit ==
    /\ \A c \in Conversations : x1[c].n <= x7
    /\ \A c \in Conversations : x2[c].n <= x1[c].n /\ x4[c].n <= x1[c].n
RefsFit ==
    /\ x6.pc # "idle" => x6.conv \in Conversations /\ x6.n <= x1[x6.conv].n
    /\ x5 # Runs!NoStream => x5.conv \in Conversations /\ x5.n <= x1[x5.conv].n
OverIn(s, known, made) ==
    Runs!Over(s, known) \/ (known[s.conv] = Runs!NoRun /\ s.n <= made - RunLimit)
PastFits(s, run, seen, fetch, answer, made, missed) ==
    s # Runs!NoStream =>
        /\ s.conv \in Conversations /\ Runs!Over(s, run)
        /\ fetch = "answered" => OverIn(s, answer, made)
        /\ fetch = "idle" /\ ~missed => OverIn(s, seen, made)

LEMMA RunsInParts ==
    Runs!IInv <=> /\ Runs!TypeOK /\ NumbersFit /\ RefsFit
                  /\ PastFits(x8, x1, x2, x3, x4, x7, x10)
                  /\ PastFits(x9, x1, x2, x3, x4, x7, x10)
BY DEF Runs!IInv, NumbersFit, RefsFit, PastFits, OverIn, Runs!Known, Runs!SettledRunShown,
       Runs!StoppedRunShown, Runs!ShownOver

\* The types of the runs known.
LEMMA RunTypes ==
    ASSUME Runs!TypeOK, NEW c \in Conversations
    PROVE  /\ x1[c] \in [n : 0..MaxRuns, active : BOOLEAN] /\ x1[c].n \in Nat
           /\ x2[c].n \in 0..MaxRuns /\ x2[c].n \in Nat
           /\ x4[c].n \in 0..MaxRuns /\ x4[c].n \in Nat
BY PageAssumptions DEF Runs!TypeOK, Runs!Runs

\* What is known to be over stays so, whatever starts or ends on the server.
LEMMA PastStays ==
    ASSUME Runs!TypeOK, x1' \in Runs!Runs, x7' \in x7..MaxRuns,
           \A c \in Conversations :
              \/ x1'[c] = x1[c]
              \/ x1'[c].n = x1[c].n /\ ~x1'[c].active
              \/ x1'[c].n > x1[c].n,
           NEW s \in RunRefs, PastFits(s, x1, x2, x3, x4, x7, x10)
    PROVE  PastFits(s, x1', x2, x3, x4, x7', x10)
<1>1. CASE s = Runs!NoStream
  BY <1>1 DEF PastFits
<1>2. CASE s # Runs!NoStream
  <2>1. s.conv \in Conversations /\ Runs!Over(s, x1) /\ s.n \in Nat
    BY <1>2 DEF PastFits, RunRefs
  <2>2. /\ x1[s.conv].n \in Nat /\ x1'[s.conv].n \in Nat
    BY <2>1, RunTypes DEF Runs!Runs
  <2>3. Runs!Over(s, x1')
    BY <2>1, <2>2 DEF Runs!Over
  <2>4. x7 \in Nat /\ x7' \in Nat /\ x7 <= x7' /\ RunLimit \in Nat
    BY PageAssumptions DEF Runs!TypeOK
  <2>5. s.n <= x7 - RunLimit => s.n <= x7' - RunLimit
    BY <2>1, <2>4
  <2> QED
    BY <1>2, <2>1, <2>3, <2>5 DEF PastFits, OverIn
<1> QED
  BY <1>1, <1>2

\* A fetch that is asked for says nothing yet.
LEMMA PastAsked ==
    ASSUME NEW s, NEW run, NEW seen, NEW answer, NEW made, NEW missed,
           s # Runs!NoStream => s.conv \in Conversations /\ Runs!Over(s, run)
    PROVE  PastFits(s, run, seen, "asked", answer, made, missed)
BY DEF PastFits

\* A start on the server.
LEMMA RunStarts ==
    ASSUME Runs!TypeOK, NumbersFit, NEW c \in Conversations, Runs!Startable(c), Runs!Starts(c)
    PROVE  /\ x1' \in Runs!Runs /\ x7' = x7 + 1 /\ x7' \in x7..MaxRuns
           /\ x1'[c].n = x7 + 1
           /\ \A e \in Conversations : x1'[e] = x1[e] \/ x1'[e].n > x1[e].n
           /\ \A e \in Conversations : x1[e].n <= x1'[e].n /\ x1'[e].n <= x7'
<1> DEFINE new == [n |-> x7 + 1, active |-> TRUE]
<1>1. x7 \in Nat /\ x7 + 1 \in 0..MaxRuns /\ x7' = x7 + 1 /\ x7' \in x7..MaxRuns
  BY PageAssumptions DEF Runs!TypeOK, Runs!Startable, Runs!Starts
<1>2. x1' = [x1 EXCEPT ![c] = new] /\ new \in [n : 0..MaxRuns, active : BOOLEAN]
      /\ new.n = x7 + 1
  BY <1>1 DEF Runs!Starts
<1> HIDE DEF new
<1>3. x1' \in Runs!Runs /\ \A e \in Conversations : x1'[e] = IF e = c THEN new ELSE x1[e]
  BY <1>2 DEF Runs!TypeOK, Runs!Runs
<1>4. \A e \in Conversations : x1[e].n \in Nat /\ x1[e].n <= x7
  BY RunTypes DEF NumbersFit
<1>5. \A e \in Conversations : x1'[e] = x1[e] \/ x1'[e].n > x1[e].n
  BY <1>1, <1>2, <1>3, <1>4
<1>6. \A e \in Conversations : x1[e].n <= x1'[e].n /\ x1'[e].n <= x7'
  BY <1>1, <1>2, <1>3, <1>4
<1> QED
  BY <1>1, <1>2, <1>3, <1>5, <1>6

\* The invariant after a step that starts or ends runs on the server, and of the tab changes
\* its stream only.
LEMMA ServerMoves ==
    ASSUME Runs!IInv, x1' \in Runs!Runs, x7' \in x7..MaxRuns,
           \A c \in Conversations :
              /\ \/ x1'[c] = x1[c]
                 \/ x1'[c].n = x1[c].n /\ ~x1'[c].active
                 \/ x1'[c].n > x1[c].n
              /\ x1[c].n <= x1'[c].n /\ x1'[c].n <= x7',
           x5' \in RunRefs,
           x5' # Runs!NoStream => x5'.conv \in Conversations /\ x5'.n <= x1'[x5'.conv].n,
           UNCHANGED <<x2, x3, x4, x6, x8, x9, x10>>
    PROVE  Runs!IInv'
<1>1. /\ Runs!TypeOK /\ NumbersFit /\ RefsFit
      /\ PastFits(x8, x1, x2, x3, x4, x7, x10) /\ PastFits(x9, x1, x2, x3, x4, x7, x10)
  BY RunsInParts
<1>2. \A c \in Conversations :
         /\ x1[c].n \in Nat /\ x1'[c].n \in Nat /\ x2[c].n \in Nat /\ x4[c].n \in Nat
         /\ x1[c].n <= x1'[c].n
  BY <1>1, RunTypes DEF Runs!Runs
<1>3. NumbersFit'
  BY <1>1, <1>2 DEF NumbersFit
<1>4. RefsFit'
  <2>1. x6.n \in Nat
    BY <1>1 DEF Runs!TypeOK
  <2>2. x6.pc # "idle" => x6.conv \in Conversations /\ x6.n <= x1'[x6.conv].n
    BY <1>1, <1>2, <2>1 DEF RefsFit
  <2> QED
    BY <2>2 DEF RefsFit, Runs!NoStream
<1>5. x8 \in RunRefs /\ x9 \in RunRefs
  BY <1>1 DEF Runs!TypeOK, RunRefs
<1>6. PastFits(x8, x1', x2, x3, x4, x7', x10) /\ PastFits(x9, x1', x2, x3, x4, x7', x10)
  BY <1>1, <1>5, PastStays
<1>7. Runs!TypeOK'
  BY <1>1, PageAssumptions DEF Runs!TypeOK, RunRefs
<1>8. (Runs!IInv <=> /\ Runs!TypeOK /\ NumbersFit /\ RefsFit
                     /\ PastFits(x8, x1, x2, x3, x4, x7, x10)
                     /\ PastFits(x9, x1, x2, x3, x4, x7, x10))'
  BY RunsInParts, PTL
<1> QED
  BY <1>3, <1>4, <1>6, <1>7, <1>8

LEMMA RunsInit ==
    ASSUME Runs!Init
    PROVE  Runs!IInv
<1>1. /\ Runs!NoRun \in [n : 0..MaxRuns, active : BOOLEAN] /\ Runs!NoRun.n = 0
      /\ [n |-> 1, active |-> TRUE] \in [n : 0..MaxRuns, active : BOOLEAN]
  BY PageAssumptions DEF Runs!NoRun
<1>2. /\ Runs!NoRuns \in Runs!Runs
      /\ \A c \in Conversations : Runs!NoRuns[c].n = 0
  BY <1>1 DEF Runs!Runs, Runs!NoRuns
<1>3. x1 \in Runs!Runs /\ x7 \in 0..MaxRuns /\ \A c \in Conversations : 0 <= x1[c].n /\ x1[c].n <= x7
  <2>1. CASE x7 = 0 /\ x1 = Runs!NoRuns
    BY <1>2, <2>1, PageAssumptions
  <2>2. CASE x7 = 1 /\ \E c \in Conversations :
                          x1 = [Runs!NoRuns EXCEPT ![c] = [n |-> 1, active |-> TRUE]]
    <3>1. PICK c \in Conversations : x1 = [Runs!NoRuns EXCEPT ![c] = [n |-> 1, active |-> TRUE]]
      BY <2>2
    <3>2. x1 \in Runs!Runs
      BY <1>1, <1>2, <3>1 DEF Runs!Runs
    <3>3. \A e \in Conversations : x1[e].n \in {0, 1}
      BY <1>2, <3>1 DEF Runs!Runs
    <3> QED
      BY <2>2, <3>2, <3>3, PageAssumptions
  <2> QED
    BY <2>1, <2>2 DEF Runs!Init
<1>4. Runs!NoStream \in [conv : Conversations \cup {NoConversation}, n : 0..MaxRuns]
      /\ Runs!NoStop \in [pc : {"idle", "posting", "refetching"},
                         conv : Conversations \cup {NoConversation}, n : 0..MaxRuns]
  BY PageAssumptions DEF Runs!NoStream, Runs!NoStop
<1>5. Runs!TypeOK
  BY <1>2, <1>3, <1>4 DEF Runs!Init, Runs!TypeOK
<1>6. NumbersFit /\ RefsFit
  BY <1>2, <1>3 DEF Runs!Init, NumbersFit, RefsFit, Runs!NoStop
<1>7. PastFits(x8, x1, x2, x3, x4, x7, x10) /\ PastFits(x9, x1, x2, x3, x4, x7, x10)
  BY DEF Runs!Init, PastFits
<1> QED
  BY <1>5, <1>6, <1>7, RunsInParts

\* Every step of the tab and of the server keeps the invariant.
LEMMA RunsStep ==
    ASSUME Runs!IInv, Runs!Next
    PROVE  Runs!IInv'
<1> USE DEF Runs!vars, Runs!query, Runs!server, Runs!history
<1> DEFINE Row == [n : 0..MaxRuns, active : BOOLEAN]
<1>1. /\ Runs!TypeOK /\ NumbersFit /\ RefsFit
      /\ PastFits(x8, x1, x2, x3, x4, x7, x10) /\ PastFits(x9, x1, x2, x3, x4, x7, x10)
  BY RunsInParts
<1>2. /\ x1 \in [Conversations -> Row] /\ x7 \in 0..MaxRuns /\ MaxRuns \in Nat /\ x7 \in Nat
      /\ x7 \in x7..MaxRuns
      /\ x5 \in RunRefs /\ x8 \in RunRefs /\ x9 \in RunRefs
      /\ x6 \in [pc : {"idle", "posting", "refetching"},
                 conv : Conversations \cup {NoConversation}, n : 0..MaxRuns]
      /\ Runs!NoRuns \in Runs!Runs /\ \A c \in Conversations : Runs!NoRuns[c].n = 0
  <2>1. Runs!NoRun \in [n : 0..MaxRuns, active : BOOLEAN] /\ Runs!NoRun.n = 0
    BY PageAssumptions DEF Runs!NoRun
  <2>2. Runs!NoRuns \in Runs!Runs /\ \A c \in Conversations : Runs!NoRuns[c].n = 0
    BY <2>1 DEF Runs!NoRuns, Runs!Runs
  <2> QED
    BY <1>1, <2>2, PageAssumptions DEF Runs!TypeOK, Runs!Runs, RunRefs
<1>3. \A c \in Conversations : /\ x1[c] \in Row /\ x1[c].n \in Nat /\ x1[c].n <= x7
                               /\ x1[c].active \in BOOLEAN
  BY <1>1, <1>2 DEF NumbersFit
\* It is enough to prove the parts.
<1>4. ASSUME Runs!TypeOK', NumbersFit', RefsFit',
             PastFits(x8', x1', x2', x3', x4', x7', x10'),
             PastFits(x9', x1', x2', x3', x4', x7', x10')
      PROVE  Runs!IInv'
  <2>1. (Runs!IInv <=> /\ Runs!TypeOK /\ NumbersFit /\ RefsFit
                       /\ PastFits(x8, x1, x2, x3, x4, x7, x10)
                       /\ PastFits(x9, x1, x2, x3, x4, x7, x10))'
    BY RunsInParts, PTL
  <2> QED
    BY <1>4, <2>1
<1>5. /\ x8 # Runs!NoStream => x8.conv \in Conversations /\ Runs!Over(x8, x1)
      /\ x9 # Runs!NoStream => x9.conv \in Conversations /\ Runs!Over(x9, x1)
  BY <1>1 DEF PastFits
\* The steps in which the server does nothing and an answer is dropped or delivered.
<1>6. ASSUME UNCHANGED <<x1, x7>>, x4' = Runs!NoRuns, x2' \in {x2, x4}
      PROVE  NumbersFit'
  <2>1. \A c \in Conversations : x4'[c].n <= x1[c].n
    BY <1>2, <1>3, <1>6
  <2> QED
    BY <1>1, <1>6, <2>1 DEF NumbersFit
<1>7. ASSUME NEW c \in Conversations, Runs!SubmitMessage(c)
      PROVE  Runs!IInv'
  <2>1. x5' = [conv |-> c, n |-> 0] /\ UNCHANGED <<x1, x2, x3, x4, x6, x7, x8, x9, x10>>
    BY <1>7 DEF Runs!SubmitMessage
  <2>2. x5' \in RunRefs /\ x5'.conv = c /\ x5'.n <= x1[c].n
    BY <1>2, <1>3, <2>1 DEF RunRefs
  <2> QED
    BY <1>1, <1>2, <1>3, <2>1, <2>2, ServerMoves DEF Runs!TypeOK
<1>8. ASSUME Runs!StreamStarts
      PROVE  Runs!IInv'
  <2>1. /\ x5 # Runs!NoStream /\ Runs!Startable(x5.conv) /\ Runs!Starts(x5.conv)
        /\ x5' = [x5 EXCEPT !.n = x7 + 1] /\ UNCHANGED <<x2, x3, x4, x6, x8, x9, x10>>
    BY <1>8 DEF Runs!StreamStarts
  <2>2. x5.conv \in Conversations
    BY <1>1, <2>1 DEF RefsFit
  <2>3. /\ x1' \in Runs!Runs /\ x7' = x7 + 1 /\ x7' \in x7..MaxRuns
        /\ x1'[x5.conv].n = x7 + 1
        /\ \A e \in Conversations : x1'[e] = x1[e] \/ x1'[e].n > x1[e].n
        /\ \A e \in Conversations : x1[e].n <= x1'[e].n /\ x1'[e].n <= x7'
    BY <1>1, <2>1, <2>2, RunStarts
  <2>4. x7 + 1 \in 0..MaxRuns
    BY <1>2, <2>3
  <2>5. x5' \in RunRefs /\ x5'.conv = x5.conv /\ x5'.n = x7 + 1
    BY <1>2, <2>1, <2>4 DEF RunRefs
  <2>6. x5'.n <= x1'[x5'.conv].n
    BY <1>2, <2>3, <2>5
  <2> QED
    BY <2>1, <2>2, <2>3, <2>5, <2>6, ServerMoves
<1>9. ASSUME NEW c \in Conversations, Runs!RunStartsElsewhere(c)
      PROVE  Runs!IInv'
  <2>1. Runs!Startable(c) /\ Runs!Starts(c) /\ UNCHANGED <<x2, x3, x4, x5, x6, x8, x9, x10>>
    BY <1>9 DEF Runs!RunStartsElsewhere
  <2>2. /\ x1' \in Runs!Runs /\ x7' \in x7..MaxRuns
        /\ \A e \in Conversations : x1'[e] = x1[e] \/ x1'[e].n > x1[e].n
        /\ \A e \in Conversations : x1[e].n <= x1'[e].n /\ x1'[e].n <= x7'
    BY <1>1, <2>1, RunStarts
  <2>3. x5 # Runs!NoStream => x5.conv \in Conversations /\ x5.n <= x1'[x5.conv].n
    <3>1. x5.n \in Nat /\ \A e \in Conversations : x1'[e].n \in Nat
      BY <1>2, <2>2 DEF RunRefs, Runs!Runs
    <3> QED
      BY <1>1, <1>3, <2>2, <3>1 DEF RefsFit
  <2> QED
    BY <1>2, <2>1, <2>2, <2>3, ServerMoves
\* An end of one run, which is then over.
<1>10. ASSUME NEW c \in Conversations, NEW b \in BOOLEAN,
              x1' = [x1 EXCEPT ![c].active = b], x7' = x7
       PROVE  /\ x1' \in Runs!Runs
              /\ \A e \in Conversations : x1'[e].n = x1[e].n
              /\ \A e \in Conversations : e # c => x1'[e] = x1[e]
              /\ x1'[c].active = b
  <2> DEFINE row == [x1[c] EXCEPT !.active = b]
  <2>1. row \in Row /\ row.n = x1[c].n /\ row.active = b
    BY <1>3
  <2>2. x1' = [x1 EXCEPT ![c] = row]
    BY <1>10
  <2> HIDE DEF row
  <2>3. \A e \in Conversations : x1'[e] = IF e = c THEN row ELSE x1[e]
    BY <1>2, <2>2
  <2>4. x1' \in Runs!Runs
    BY <1>2, <2>1, <2>2 DEF Runs!Runs
  <2> QED
    BY <2>1, <2>3, <2>4
<1>11. ASSUME NEW c \in Conversations, Runs!RunEnds(c)
       PROVE  Runs!IInv'
  <2>1. x1' = [x1 EXCEPT ![c].active = FALSE] /\ UNCHANGED <<x2, x3, x4, x5, x6, x7, x8, x9, x10>>
    BY <1>11 DEF Runs!RunEnds
  <2>2. /\ x1' \in Runs!Runs /\ \A e \in Conversations : x1'[e].n = x1[e].n
        /\ \A e \in Conversations : e # c => x1'[e] = x1[e]
        /\ x1'[c].active = FALSE
    BY <1>10, <2>1
  <2>3. \A e \in Conversations : x1'[e] = x1[e] \/ (x1'[e].n = x1[e].n /\ ~x1'[e].active)
    BY <2>2
  <2>4. x5 # Runs!NoStream => x5.conv \in Conversations /\ x5.n <= x1'[x5.conv].n
    BY <1>1, <2>2 DEF RefsFit
  <2> QED
    BY <1>2, <1>3, <2>1, <2>2, <2>3, <2>4, ServerMoves
<1>12. ASSUME NEW c \in Conversations, Runs!RunRevives(c)
       PROVE  Runs!IInv'
  <2> DEFINE gone == [conv |-> c, n |-> x1[c].n]
             forget(h) == IF h = gone THEN Runs!NoStream ELSE h
  <2>1. /\ x1' = [x1 EXCEPT ![c].active = TRUE] /\ UNCHANGED <<x2, x3, x4, x5, x6, x7, x10>>
        /\ x8' = forget(x8) /\ x9' = forget(x9)
    BY <1>12 DEF Runs!RunRevives
  <2>2. /\ x1' \in Runs!Runs /\ \A e \in Conversations : x1'[e].n = x1[e].n
        /\ \A e \in Conversations : e # c => x1'[e] = x1[e]
    BY <1>10, <2>1
  <2>3. Runs!NoStream \in RunRefs
    BY PageAssumptions DEF RunRefs, Runs!NoStream
  <2>4. ASSUME NEW h \in RunRefs, PastFits(h, x1, x2, x3, x4, x7, x10)
        PROVE  PastFits(forget(h), x1', x2, x3, x4, x7, x10)
    <3>1. CASE h = gone \/ h = Runs!NoStream
      BY <3>1 DEF PastFits
    <3>2. CASE h # gone /\ h # Runs!NoStream
      <4>1. h.conv \in Conversations /\ Runs!Over(h, x1) /\ h.n \in Nat
        BY <2>4, <3>2 DEF PastFits, RunRefs
      <4>2. h.conv = c => h.n # x1[c].n
        BY <3>2 DEF RunRefs
      <4>3. x1'[h.conv].n = x1[h.conv].n /\ (h.conv # c => x1'[h.conv] = x1[h.conv])
        BY <2>2, <4>1
      <4>4. Runs!Over(h, x1')
        BY <1>3, <4>1, <4>2, <4>3 DEF Runs!Over
      <4> QED
        BY <2>4, <3>2, <4>1, <4>4 DEF PastFits
    <3> QED
      BY <3>1, <3>2
  <2>5. PastFits(x8', x1', x2', x3', x4', x7', x10')
        /\ PastFits(x9', x1', x2', x3', x4', x7', x10')
    BY <1>1, <1>2, <2>1, <2>4
  <2>6. x8' \in RunRefs /\ x9' \in RunRefs
    BY <1>2, <2>1, <2>3
  <2>7. Runs!TypeOK'
    BY <1>1, <2>1, <2>2, <2>6 DEF Runs!TypeOK, RunRefs
  <2>8. NumbersFit' /\ RefsFit'
    BY <1>1, <2>1, <2>2 DEF NumbersFit, RefsFit, Runs!NoStream
  <2> QED
    BY <1>4, <2>5, <2>7, <2>8
<1>13. ASSUME Runs!StreamSettles
       PROVE  Runs!IInv'
  <2>1. /\ x5 # Runs!NoStream /\ x5' = Runs!NoStream /\ x3' = "asked" /\ x4' = Runs!NoRuns
        /\ UNCHANGED <<x1, x2, x7, x9, x10>>
        /\ x6' \in {x6, Runs!NoStop}
        /\ x8' \in {x5, x8}
        /\ x8' # x8 => x5.n # 0 /\ ~(x1[x5.conv].n = x5.n /\ x1[x5.conv].active)
    BY <1>13 DEF Runs!StreamSettles, Runs!Invalidate
  <2>2. x8' # Runs!NoStream => x8'.conv \in Conversations /\ Runs!Over(x8', x1)
    <3>1. CASE x8' = x8
      BY <1>5, <3>1
    <3>2. CASE x8' = x5 /\ x8' # x8
      <4>1. x5.conv \in Conversations /\ x5.n <= x1[x5.conv].n /\ x5.n \in Nat
        BY <1>1, <1>2, <2>1 DEF RefsFit, RunRefs
      <4>2. x1[x5.conv].n > x5.n \/ (x1[x5.conv].n = x5.n /\ ~x1[x5.conv].active)
        BY <1>3, <2>1, <3>2, <4>1
      <4> QED
        BY <3>2, <4>1, <4>2 DEF Runs!Over
    <3> QED
      BY <2>1, <3>1, <3>2
  <2>3. PastFits(x8', x1', x2', x3', x4', x7', x10')
        /\ PastFits(x9', x1', x2', x3', x4', x7', x10')
    BY <1>5, <2>1, <2>2, PastAsked
  <2>4. Runs!NoStream \in RunRefs /\ Runs!NoStop.pc = "idle"
        /\ Runs!NoStop \in [pc : {"idle", "posting", "refetching"},
                           conv : Conversations \cup {NoConversation}, n : 0..MaxRuns]
    BY PageAssumptions DEF Runs!NoStream, Runs!NoStop, RunRefs
  <2>5. Runs!TypeOK'
    BY <1>1, <1>2, <2>1, <2>4 DEF Runs!TypeOK, RunRefs
  <2>6. NumbersFit' /\ RefsFit'
    BY <1>1, <1>6, <2>1, <2>4 DEF RefsFit, Runs!NoStream
  <2> QED
    BY <1>4, <2>3, <2>5, <2>6
\* The steps of the Stop button.
<1>14. ASSUME NEW c \in Conversations, Runs!StopActiveRun(c)
       PROVE  Runs!IInv'
  <2>1. x2[c].n \in 0..MaxRuns /\ x2[c].n <= x1[c].n
    BY <1>1, RunTypes DEF NumbersFit
  <2>2. x6' = [pc |-> "posting", conv |-> c, n |-> x2[c].n]
        /\ UNCHANGED <<x1, x2, x3, x4, x5, x7, x8, x9, x10>>
    BY <1>14 DEF Runs!StopActiveRun
  <2>3. x6' \in [pc : {"idle", "posting", "refetching"},
                 conv : Conversations \cup {NoConversation}, n : 0..MaxRuns]
    BY <2>1, <2>2
  <2>4. Runs!TypeOK'
    BY <1>1, <2>2, <2>3 DEF Runs!TypeOK
  <2>5. NumbersFit' /\ RefsFit'
    BY <1>1, <2>1, <2>2 DEF NumbersFit, RefsFit, Runs!NoStream
  <2> QED
    BY <1>1, <1>4, <2>2, <2>4, <2>5
<1>15. ASSUME Runs!RunCancelled
       PROVE  Runs!IInv'
  <2> DEFINE c == x6.conv
             b == x1[c].active /\ x1[c].n # x6.n
  <2>1. /\ x6.pc = "posting"
        /\ x1' = [x1 EXCEPT ![x6.conv].active = @ /\ x1[x6.conv].n # x6.n]
        /\ x9' = [conv |-> x6.conv, n |-> x6.n]
        /\ x6' = [x6 EXCEPT !.pc = "refetching"]
        /\ x3' = "asked" /\ x4' = Runs!NoRuns /\ UNCHANGED <<x2, x5, x7, x8, x10>>
    BY <1>15 DEF Runs!RunCancelled, Runs!CancelSeen, Runs!Invalidate
  <2>2. c \in Conversations /\ x6.n <= x1[c].n /\ x6.n \in 0..MaxRuns /\ x6.n \in Nat
    BY <1>1, <1>2, <2>1 DEF RefsFit
  <2>3. b \in BOOLEAN /\ x1' = [x1 EXCEPT ![c].active = b]
    BY <1>2, <1>3, <2>1, <2>2
  <2>4. PICK d \in BOOLEAN : d = b
    BY <2>3
  <2>5. /\ x1' \in Runs!Runs /\ \A e \in Conversations : x1'[e].n = x1[e].n
        /\ \A e \in Conversations : e # c => x1'[e] = x1[e]
        /\ x1'[c].active = d
    BY <1>10, <2>1, <2>2, <2>3, <2>4
  <2>6. /\ d => x1[c].active /\ x1[c].n # x6.n
        /\ ~d => ~x1[c].active \/ x1[c].n = x6.n
    BY <2>4
  <2>7. Runs!Over(x9', x1')
    <3>1. x9'.conv = c /\ x9'.n = x6.n
      BY <2>1
    <3>2. x1[c].n \in Nat /\ x1'[c].n = x1[c].n
      BY <1>3, <2>2, <2>5
    <3>3. x1'[c].n > x6.n \/ (x1'[c].n = x6.n /\ ~x1'[c].active)
      BY <2>2, <2>5, <2>6, <3>2
    <3> QED
      BY <3>1, <3>3 DEF Runs!Over
  <2>8. x8 # Runs!NoStream => x8.conv \in Conversations /\ Runs!Over(x8, x1')
    <3>1. ASSUME x8 # Runs!NoStream
          PROVE  Runs!Over(x8, x1')
      <4>1. x8.conv \in Conversations /\ x8.n \in Nat /\ Runs!Over(x8, x1)
        BY <1>2, <1>5, <3>1 DEF RunRefs
      <4>2. x1'[x8.conv].n = x1[x8.conv].n /\ x1[x8.conv].n \in Nat
            /\ (x1'[x8.conv].active => x1[x8.conv].active)
        BY <1>3, <2>5, <2>6, <4>1
      <4> QED
        BY <4>1, <4>2 DEF Runs!Over
    <3> QED
      BY <1>5, <3>1
  <2>9. PastFits(x8', x1', x2', x3', x4', x7', x10')
        /\ PastFits(x9', x1', x2', x3', x4', x7', x10')
    BY <2>1, <2>2, <2>7, <2>8, PastAsked
  <2>10. x6' \in [pc : {"idle", "posting", "refetching"},
                  conv : Conversations \cup {NoConversation}, n : 0..MaxRuns]
         /\ x6'.conv = x6.conv /\ x6'.n = x6.n /\ x9' \in RunRefs
    BY <1>2, <2>1, <2>2 DEF RunRefs
  <2>11. Runs!TypeOK'
    BY <1>1, <1>2, <2>1, <2>5, <2>10 DEF Runs!TypeOK, RunRefs
  <2>12. NumbersFit' /\ RefsFit'
    <3>1. NumbersFit'
      BY <1>1, <1>2, <1>3, <2>1, <2>5 DEF NumbersFit
    <3> QED
      BY <1>1, <2>1, <2>2, <2>5, <2>10, <3>1 DEF RefsFit, Runs!NoStream
  <2> QED
    BY <1>4, <2>9, <2>11, <2>12
<1>16. ASSUME Runs!StopFails
       PROVE  Runs!IInv'
  <2>1. x6' = Runs!NoStop /\ UNCHANGED <<x1, x2, x3, x4, x5, x7, x8, x9, x10>>
    BY <1>16 DEF Runs!StopFails
  <2>2. Runs!NoStop.pc = "idle"
        /\ Runs!NoStop \in [pc : {"idle", "posting", "refetching"},
                           conv : Conversations \cup {NoConversation}, n : 0..MaxRuns]
    BY PageAssumptions DEF Runs!NoStop
  <2>3. Runs!TypeOK'
    BY <1>1, <2>1, <2>2 DEF Runs!TypeOK
  <2>4. NumbersFit' /\ RefsFit'
    BY <1>1, <2>1, <2>2 DEF NumbersFit, RefsFit, Runs!NoStream
  <2> QED
    BY <1>1, <1>4, <2>1, <2>3, <2>4
\* The steps of the fetch.
<1>17. ASSUME Runs!Answers
       PROVE  Runs!IInv'
  <2>1. x3' = "answered" /\ x4' = Runs!Latest /\ UNCHANGED <<x1, x2, x5, x6, x7, x8, x9, x10>>
    BY <1>17 DEF Runs!Answers
  <2>2. /\ Runs!NoRun \in Row /\ Runs!NoRun.n = 0
        /\ \A c \in Conversations :
              x4'[c] = IF x1[c].n > x7 - RunLimit THEN x1[c] ELSE Runs!NoRun
    BY <2>1, PageAssumptions DEF Runs!Latest, Runs!NoRun
  <2>3. x4' \in Runs!Runs
    BY <1>3, <2>1, <2>2 DEF Runs!Latest, Runs!Runs
  <2>4. ASSUME NEW h \in RunRefs, PastFits(h, x1, x2, x3, x4, x7, x10)
        PROVE  PastFits(h, x1, x2, "answered", x4', x7, x10)
    <3>1. CASE h = Runs!NoStream
      BY <3>1 DEF PastFits
    <3>2. CASE h # Runs!NoStream
      <4>1. h.conv \in Conversations /\ Runs!Over(h, x1) /\ h.n \in Nat
        BY <2>4, <3>2 DEF PastFits, RunRefs
      <4>2. x1[h.conv].n \in Nat /\ h.n <= x1[h.conv].n
        BY <1>3, <4>1 DEF Runs!Over
      <4>3. CASE x1[h.conv].n > x7 - RunLimit
        BY <2>2, <4>1, <4>3 DEF PastFits, OverIn, Runs!Over
      <4>4. CASE ~(x1[h.conv].n > x7 - RunLimit)
        <5>1. h.n <= x7 - RunLimit
          BY <1>2, <4>1, <4>2, <4>4, PageAssumptions
        <5> QED
          BY <2>2, <4>1, <4>4, <5>1 DEF PastFits, OverIn
      <4> QED
        BY <4>3, <4>4
    <3> QED
      BY <3>1, <3>2
  <2>5. PastFits(x8', x1', x2', x3', x4', x7', x10')
        /\ PastFits(x9', x1', x2', x3', x4', x7', x10')
    BY <1>1, <1>2, <2>1, <2>4
  <2>6. Runs!TypeOK'
    BY <1>1, <2>1, <2>3 DEF Runs!TypeOK
  <2>7. NumbersFit' /\ RefsFit'
    <3>1. \A c \in Conversations : x4'[c].n <= x1[c].n
      BY <1>3, <2>2
    <3> QED
      BY <1>1, <2>1, <3>1 DEF NumbersFit, RefsFit, Runs!NoStream
  <2> QED
    BY <1>4, <2>5, <2>6, <2>7
<1>18. ASSUME Runs!Refetch
       PROVE  Runs!IInv'
  <2>1. x3' = "asked" /\ UNCHANGED <<x1, x2, x4, x5, x6, x7, x8, x9, x10>>
    BY <1>18 DEF Runs!Refetch
  <2>2. PastFits(x8', x1', x2', x3', x4', x7', x10')
        /\ PastFits(x9', x1', x2', x3', x4', x7', x10')
    BY <1>5, <2>1, PastAsked
  <2> QED
    BY <1>1, <1>4, <2>1, <2>2 DEF Runs!TypeOK, NumbersFit, RefsFit, Runs!NoStream
\* The end of a fetch, and of a stop that waited for it.
<1>19. ASSUME x3' = Runs!Awaited, x6' = Runs!Released, x4' = Runs!NoRuns, x2' \in {x2, x4},
              x10' \in BOOLEAN, UNCHANGED <<x1, x5, x7, x8, x9>>
       PROVE  x3' \in {"idle", "asked"} /\ Runs!TypeOK' /\ NumbersFit' /\ RefsFit'
  <2>1. /\ x3' \in {"idle", "asked"}
        /\ x6' \in [pc : {"idle", "posting", "refetching"},
                    conv : Conversations \cup {NoConversation}, n : 0..MaxRuns]
        /\ x6'.pc # "idle" => x6' = x6
    BY <1>2, <1>19, PageAssumptions DEF Runs!Awaited, Runs!Released, Runs!NoStop
  <2>2. Runs!TypeOK'
    BY <1>1, <1>2, <1>19, <2>1 DEF Runs!TypeOK
  <2>3. RefsFit'
    BY <1>1, <1>19, <2>1 DEF RefsFit, Runs!NoStream
  <2> QED
    BY <1>6, <1>19, <2>1, <2>2, <2>3
<1>20. ASSUME Runs!Arrives
       PROVE  Runs!IInv'
  <2>1. /\ x3 = "answered" /\ x2' = x4 /\ x4' = Runs!NoRuns
        /\ x3' = Runs!Awaited /\ x6' = Runs!Released /\ UNCHANGED <<x1, x5, x7, x8, x9, x10>>
    BY <1>20 DEF Runs!Arrives
  <2>2. x3' \in {"idle", "asked"} /\ Runs!TypeOK' /\ NumbersFit' /\ RefsFit'
    BY <1>1, <1>19, <2>1 DEF Runs!TypeOK
  <2>3. PastFits(x8', x1', x2', x3', x4', x7', x10')
        /\ PastFits(x9', x1', x2', x3', x4', x7', x10')
    BY <1>1, <2>1, <2>2 DEF PastFits
  <2> QED
    BY <1>4, <2>2, <2>3
<1>21. ASSUME Runs!FetchFails
       PROVE  Runs!IInv'
  <2>1. /\ x10' = TRUE /\ x4' = Runs!NoRuns
        /\ x3' = Runs!Awaited /\ x6' = Runs!Released /\ UNCHANGED <<x1, x2, x5, x7, x8, x9>>
    BY <1>21 DEF Runs!FetchFails
  <2>2. x3' \in {"idle", "asked"} /\ Runs!TypeOK' /\ NumbersFit' /\ RefsFit'
    BY <1>19, <2>1
  <2>3. PastFits(x8', x1', x2', x3', x4', x7', x10')
        /\ PastFits(x9', x1', x2', x3', x4', x7', x10')
    BY <1>1, <2>1, <2>2 DEF PastFits
  <2> QED
    BY <1>4, <2>2, <2>3
<1> QED
  BY <1>7, <1>8, <1>9, <1>11, <1>12, <1>13, <1>14, <1>15, <1>16, <1>17, <1>18, <1>20, <1>21
     DEF Runs!Next

-----------------------------------------------------------------------------
(* WebSession: the account of the tab *)

\* The requests that a dropped query abandons, and any call, are requests.
LEMMA ReadsAreRequests ==
    /\ \A t \in {a1, b1, NoToken} : Session!Read(t) \in Session!Request
    /\ Session!TypeOK => Session!Abandoned \subseteq Session!Request
    /\ \A q \in Session!Abandoned : q.kind = "read"
<1>1. \A t \in {a1, b1, NoToken} : Session!Read(t) \in Session!Request
  BY DEF Session!Read, Session!Request
<1>2. ASSUME Session!TypeOK
      PROVE  Session!Abandoned \subseteq Session!Request
  BY <1>1, <1>2 DEF Session!TypeOK, Session!Abandoned
<1>3. \A q \in Session!Abandoned : q.kind = "read"
  BY DEF Session!Abandoned, Session!Read
<1> QED
  BY <1>1, <1>2, <1>3

\* The list query keeps its type, whether or not the conversation page mounts.
LEMMA MountsTyped ==
    ASSUME NEW l \in [owner : Users \cup {NoUser}, fetch : {a1, b1} \cup {NoToken, NoFetch}],
           x1' \in {a1, b1, NoToken}, Session!Mounts(l)
    PROVE  x4' \in [owner : Users \cup {NoUser}, fetch : {a1, b1} \cup {NoToken, NoFetch}]
<1>1. [l EXCEPT !.fetch = x1'] \in
         [owner : Users \cup {NoUser}, fetch : {a1, b1} \cup {NoToken, NoFetch}]
  OBVIOUS
<1>2. x4' \in {l, [l EXCEPT !.fetch = x1']}
  BY DEF Session!Mounts
<1> QED
  BY <1>1, <1>2

\* The types of what the list query does not hold.
SessionTyped ==
    /\ x1 \in {a1, b1} \cup {NoToken} /\ x2 \in {a1, b1} \cup {NoToken}
    /\ x3 \in [user : Users \cup {NoUser}, pending : BOOLEAN,
               fetch : {a1, b1} \cup {NoToken, NoFetch}]
    /\ x5 \in BOOLEAN /\ x6 \in Session!Routes
    /\ x7 \subseteq Session!Request
    /\ x9 \subseteq x8 /\ x8 \subseteq {a1, b1}
    /\ x10 \in BOOLEAN

ListOfSession == x4 \in [owner : Users \cup {NoUser}, fetch : {a1, b1} \cup {NoToken, NoFetch}]

LEMMA TypesOfSession == Session!TypeOK <=> SessionTyped /\ ListOfSession
BY DEF Session!TypeOK, SessionTyped, ListOfSession

\* Signing out leaves nothing of the session, unless a profile is being saved.
LEMMA SignOutKeeps ==
    ASSUME Session!IInv, Session!SessionAssumption, NEW inFlight \in SUBSET Session!Request,
           Session!SignOut(inFlight), UNCHANGED <<x8, x9>>
    PROVE  SessionTyped' /\ (~x10' => Session!OneSession')
<1>1. SessionTyped
  BY TypesOfSession DEF Session!IInv
<1>2. Session!NoQuery \in [user : Users \cup {NoUser}, pending : BOOLEAN,
                           fetch : {a1, b1} \cup {NoToken, NoFetch}]
  BY DEF Session!NoQuery
<1>3. SessionTyped'
  BY <1>1, <1>2 DEF SessionTyped, Session!SignOut, Session!Routes, Session!PublicRoutes
<1>4. ~x10' => Session!OneSession'
  BY DEF Session!SignOut, Session!OneSession, Session!NoQuery
<1> QED
  BY <1>3, <1>4

\* A tab that shows protected content has a token.
LEMMA ContentHasToken ==
    Session!Protected => x2 # NoToken
BY DEF Session!Protected, Session!Content, Session!AuthState, Session!ProtectedRoutes,
       Session!PublicRoutes

LEMMA SessionInit ==
    ASSUME Session!SessionAssumption, Session!Init
    PROVE  Session!IInv
<1>1. x1 \in {NoToken} \cup {a1, b1} /\ x2 = x1 /\ x9 \subseteq x8 /\ x8 \subseteq {a1, b1}
  BY DEF Session!Init
<1>2. x3 = [user |-> NoUser, pending |-> TRUE, fetch |-> IF x1 = NoToken THEN NoFetch ELSE x1]
  BY DEF Session!Init, Session!NoQuery
<1>3. x3 \in [user : Users \cup {NoUser}, pending : BOOLEAN,
              fetch : {a1, b1} \cup {NoToken, NoFetch}]
  BY <1>1, <1>2
<1>4. Session!TypeOK
  BY <1>1, <1>3 DEF Session!Init, Session!TypeOK
<1>5. Session!OneSession
  BY <1>1, <1>2 DEF Session!Init, Session!OneSession, Session!NoQuery
<1> QED
  BY <1>4, <1>5 DEF Session!IInv

LEMMA SessionAgrees ==
    ASSUME Session!IInv, Session!SessionAssumption
    PROVE  Session!AccountsAgreeUnlessStrayed
BY DEF Session!IInv, Session!OneSession, Session!AccountsAgreeUnlessStrayed,
       Session!AccountsAgree, Session!Shown, Session!NoQuery, Session!SessionAssumption

\* Every step of the tab, of its server and of other tabs keeps the invariant.
LEMMA SessionStep ==
    ASSUME Session!IInv, Session!SessionAssumption, Session!Next
    PROVE  Session!IInv'
<1> DEFINE Good == SessionTyped /\ (~x10 => Session!OneSession)
           Query == [user : Users \cup {NoUser}, pending : BOOLEAN,
                     fetch : {a1, b1} \cup {NoToken, NoFetch}]
<1> USE DEF Session!session, Session!server
<1>1. SessionTyped /\ ListOfSession /\ (~x10 => Session!OneSession)
  BY TypesOfSession DEF Session!IInv
<1>2. /\ NoToken \notin {a1, b1} /\ NoFetch \notin {a1, b1, NoToken} /\ NoUser \notin Users
      /\ \A t \in {a1, b1} : (a1 :> A @@ b1 :> B)[t] \in Users
  BY DEF Session!SessionAssumption
\* It is enough to look at the rest, where the list is left alone or mounts.
<1>3. ASSUME Good', x4' = x4 \/ Session!Mounts(x4)
      PROVE  Session!IInv'
  <2>1. x1' \in {a1, b1, NoToken}
    BY <1>3 DEF SessionTyped
  <2>2. ListOfSession'
    BY <1>1, <1>3, <2>1, MountsTyped DEF ListOfSession
  <2>3. (Session!TypeOK <=> SessionTyped /\ ListOfSession)'
    BY TypesOfSession, PTL
  <2> QED
    BY <1>3, <2>2, <2>3 DEF Session!IInv
<1>4. ASSUME NEW r \in Session!Routes \ {x6}, Session!Navigate(r)
      PROVE  Session!IInv'
  <2>1. Good'
    BY <1>1, <1>4 DEF Session!Navigate, SessionTyped, Session!OneSession
  <2> QED
    BY <1>3, <1>4, <2>1 DEF Session!Navigate
<1>5. ASSUME Session!Logout
      PROVE  Session!IInv'
  <2>1. x7 \cup Session!Abandoned \in SUBSET Session!Request
    BY <1>1, ReadsAreRequests DEF SessionTyped, Session!IInv
  <2>2. Good'
    BY <1>5, <2>1, SignOutKeeps DEF Session!Logout
  <2> QED
    BY <1>3, <1>5, <2>2 DEF Session!Logout
<1>6. ASSUME NEW u \in Users, Session!SubmitLogin(u)
      PROVE  Session!IInv'
  <2>1. [kind |-> "login", token |-> NoToken, user |-> u] \in Session!Request
    BY DEF Session!Request
  <2>2. x7' = x7 \cup {[kind |-> "login", token |-> NoToken, user |-> u]}
        /\ UNCHANGED <<x1, x2, x3, x4, x5, x6, x8, x9, x10>>
    BY <1>6 DEF Session!SubmitLogin
  <2>3. Good'
    BY <1>1, <2>1, <2>2 DEF SessionTyped, Session!OneSession
  <2> QED
    BY <1>3, <2>2, <2>3
<1>7. ASSUME Session!SubmitRegister
      PROVE  Session!IInv'
  <2>1. [kind |-> "register", token |-> NoToken, user |-> NoUser] \in Session!Request
    BY DEF Session!Request
  <2>2. x7' = x7 \cup {[kind |-> "register", token |-> NoToken, user |-> NoUser]}
        /\ UNCHANGED <<x1, x2, x3, x4, x5, x6, x8, x9, x10>>
    BY <1>7 DEF Session!SubmitRegister
  <2>3. Good'
    BY <1>1, <2>1, <2>2 DEF SessionTyped, Session!OneSession
  <2> QED
    BY <1>3, <2>2, <2>3
<1>8. ASSUME Session!AdminFetch \/ Session!AskCopilot
      PROVE  Session!IInv'
  <2>1. PICK t \in {a1, b1, NoToken} : x7' = x7 \cup {Session!Read(t)}
    BY <1>1, <1>8 DEF Session!AdminFetch, Session!AskCopilot, SessionTyped
  <2>2. Session!Read(t) \in Session!Request /\ Session!Read(t).kind = "read"
    BY <2>1, ReadsAreRequests DEF Session!Read
  <2>3. UNCHANGED <<x1, x2, x3, x4, x5, x6, x8, x9, x10>>
    BY <1>8 DEF Session!AdminFetch, Session!AskCopilot
  <2>4. Good'
    BY <1>1, <2>1, <2>2, <2>3 DEF SessionTyped, Session!OneSession
  <2> QED
    BY <1>3, <2>3, <2>4
<1>9. ASSUME Session!SaveProfile
      PROVE  Session!IInv'
  <2> DEFINE q == [kind |-> "save", token |-> x1, user |-> x3.user]
  <2>1. x2 # NoToken
    BY <1>9, ContentHasToken DEF Session!SaveProfile, Session!Protected,
                                 Session!ProtectedRoutes
  <2>2. x7' = x7 \cup {q} /\ UNCHANGED <<x1, x2, x3, x4, x5, x6, x8, x9, x10>>
    BY <1>9 DEF Session!SaveProfile
  <2>3. q \in Session!Request
    BY <1>1 DEF Session!Request, SessionTyped
  <2>4. Good'
    BY <1>1, <2>1, <2>2, <2>3 DEF SessionTyped, Session!OneSession
  <2> QED
    BY <1>3, <2>2, <2>4
<1>10. ASSUME NEW q \in x7, NEW t \in {a1, b1}, Session!LoginSucceeds(q, t)
       PROVE  Session!IInv'
  <2>1. /\ t \notin x8 /\ x8' = x8 \cup {t} /\ x9' = x9 \cup {t} /\ x1' = t /\ x2' = t
        /\ x3' \in Session!Enabled(t) /\ x5' = (x5 /\ x3'.pending) /\ x7' = x7 \ {q}
        /\ x6' = "conversation" /\ x10' = (x10 \/ x1 # NoToken \/ x2 # NoToken)
        /\ Session!Mounts(x4)
    BY <1>10 DEF Session!LoginSucceeds
  <2>2. [x3 EXCEPT !.fetch = t, !.pending = (x3.user = NoUser)] \in Query
    BY <1>1 DEF SessionTyped
  <2>3. x3' \in Query
    <3>1. x3' \in {x3, [x3 EXCEPT !.fetch = t, !.pending = (x3.user = NoUser)]}
      BY <2>1 DEF Session!Enabled
    <3> QED
      BY <1>1, <2>2, <3>1 DEF SessionTyped
  <2>4. x5' \in BOOLEAN /\ x10' \in BOOLEAN
    BY <1>1, <2>1
  <2>5. SessionTyped'
    BY <1>1, <2>1, <2>3, <2>4 DEF SessionTyped, Session!Routes, Session!ProtectedRoutes
  <2>6. ASSUME ~x10'
        PROVE  Session!OneSession'
    <3>1. x1 = NoToken /\ x2 = NoToken /\ x3 = Session!NoQuery /\ Session!OneSession
      BY <1>1, <2>1, <2>6 DEF SessionTyped, Session!OneSession
    <3>2. x3' = [x3 EXCEPT !.fetch = t, !.pending = (x3.user = NoUser)]
      BY <2>1, <3>1 DEF Session!Enabled, Session!NoQuery
    <3>3. x3'.fetch = t /\ x3'.user = NoUser
      BY <3>1, <3>2 DEF Session!NoQuery
    <3>4. \A p \in x7' : p.kind # "save"
      BY <2>1, <3>1 DEF Session!OneSession
    <3> QED
      BY <1>2, <2>1, <3>3, <3>4 DEF Session!OneSession
  <2> QED
    BY <1>3, <2>1, <2>5, <2>6
<1>11. ASSUME NEW q \in x7, \/ Session!LoginRefused(q) \/ Session!RegisterAnswers(q)
                            \/ Session!Answer(q)
       PROVE  Session!IInv'
  <2>1. /\ x7' = x7 \ {q} /\ UNCHANGED <<x1, x2, x3, x4, x5, x8, x9, x10>>
        /\ x6' \in {x6, "login", "approval-pending"}
    BY <1>11 DEF Session!LoginRefused, Session!RegisterAnswers, Session!Answer
  <2>2. Good'
    BY <1>1, <2>1 DEF SessionTyped, Session!OneSession, Session!Routes, Session!PublicRoutes
  <2> QED
    BY <1>3, <2>1, <2>2
<1>12. ASSUME NEW q \in x7, Session!Unauthorized(q)
       PROVE  Session!IInv'
  <2>1. (x7 \ {q}) \cup Session!Abandoned \in SUBSET Session!Request
    BY <1>1, ReadsAreRequests DEF SessionTyped, Session!IInv
  <2>2. Good'
    BY <1>12, <2>1, SignOutKeeps DEF Session!Unauthorized
  <2> QED
    BY <1>3, <1>12, <2>2 DEF Session!Unauthorized
<1>13. ASSUME NEW q \in x7, Session!ProfileSaved(q)
       PROVE  Session!IInv'
  <2>1. /\ q.kind = "save" /\ q.token \in x9 /\ x7' = x7 \ {q} /\ x5' = FALSE
        /\ x3' = [x3 EXCEPT !.user = (a1 :> A @@ b1 :> B)[q.token], !.pending = FALSE]
        /\ UNCHANGED <<x1, x2, x6, x8, x9, x10>> /\ Session!Mounts(x4)
    BY <1>13 DEF Session!ProfileSaved
  <2>2. q.token \in {a1, b1}
    BY <1>1, <2>1 DEF SessionTyped
  <2>3. (a1 :> A @@ b1 :> B)[q.token] \in Users
    BY <1>2, <2>2
  <2>4. x3' \in Query /\ x3'.fetch = x3.fetch /\ x3'.user = (a1 :> A @@ b1 :> B)[q.token]
    BY <1>1, <2>1, <2>3 DEF SessionTyped
  <2>5. SessionTyped'
    BY <1>1, <2>1, <2>4 DEF SessionTyped
  <2>6. ASSUME ~x10'
        PROVE  Session!OneSession'
    <3>1. x2 # NoToken /\ q.token = x2 /\ Session!OneSession
      BY <1>1, <2>1, <2>6 DEF Session!OneSession
    <3> QED
      BY <2>1, <2>4, <3>1 DEF Session!OneSession
  <2> QED
    BY <1>3, <2>1, <2>5, <2>6
<1>14. ASSUME Session!MeSucceeds
       PROVE  Session!IInv'
  <2>1. /\ x3.fetch \in x9 /\ x5' = FALSE
        /\ x3' = [user |-> (a1 :> A @@ b1 :> B)[x3.fetch], pending |-> FALSE,
                  fetch |-> NoFetch]
        /\ UNCHANGED <<x1, x2, x6, x7, x8, x9, x10>> /\ Session!Mounts(x4)
    BY <1>14 DEF Session!MeSucceeds
  <2>2. x3.fetch \in {a1, b1}
    BY <1>1, <2>1 DEF SessionTyped
  <2>3. (a1 :> A @@ b1 :> B)[x3.fetch] \in Users
    BY <1>2, <2>2
  <2>4. SessionTyped'
    BY <1>1, <2>1, <2>3 DEF SessionTyped
  <2>5. ASSUME ~x10'
        PROVE  Session!OneSession'
    <3>1. x3.fetch = x2 /\ x2 # NoToken /\ Session!OneSession
      BY <1>1, <1>2, <2>1, <2>2, <2>5 DEF Session!OneSession
    <3> QED
      BY <2>1, <3>1 DEF Session!OneSession
  <2> QED
    BY <1>3, <2>1, <2>4, <2>5
<1>15. ASSUME Session!MeFails
       PROVE  Session!IInv'
  <2>1. /\ x3.fetch # NoFetch /\ x5' = FALSE
        /\ x3' = [x3 EXCEPT !.pending = FALSE, !.fetch = NoFetch]
        /\ UNCHANGED <<x1, x2, x6, x7, x8, x9, x10>> /\ Session!Mounts(x4)
    BY <1>15 DEF Session!MeFails
  <2>2. x3' \in Query /\ x3'.fetch = NoFetch /\ x3'.user = x3.user
    BY <1>1, <2>1 DEF SessionTyped
  <2>3. SessionTyped'
    BY <1>1, <2>1, <2>2 DEF SessionTyped
  <2>4. ~x10' => Session!OneSession'
    BY <1>1, <2>1, <2>2 DEF Session!OneSession, Session!NoQuery
  <2> QED
    BY <1>3, <2>1, <2>3, <2>4
<1>16. ASSUME Session!MeRefused
       PROVE  Session!IInv'
  <2>1. x7 \in SUBSET Session!Request
    BY <1>1 DEF SessionTyped
  <2>2. Good'
    BY <1>16, <2>1, SignOutKeeps DEF Session!MeRefused
  <2> QED
    BY <1>3, <1>16, <2>2 DEF Session!MeRefused
<1>17. ASSUME Session!VerificationTimesOut
       PROVE  Session!IInv'
  <2>1. x5' = TRUE /\ UNCHANGED <<x1, x2, x3, x6, x7, x8, x9, x10>> /\ Session!Mounts(x4)
    BY <1>17 DEF Session!VerificationTimesOut
  <2>2. Good'
    BY <1>1, <2>1 DEF SessionTyped, Session!OneSession
  <2> QED
    BY <1>3, <2>1, <2>2
<1>18. ASSUME Session!Reconnect
       PROVE  Session!IInv'
  <2>1. /\ x2 # NoToken /\ x3' = [x3 EXCEPT !.fetch = x1, !.pending = (x3.user = NoUser)]
        /\ UNCHANGED <<x1, x2, x4, x5, x6, x7, x8, x9, x10>>
    BY <1>18 DEF Session!Reconnect
  <2>2. x3' \in Query /\ x3'.fetch = x1 /\ x3'.user = x3.user
    BY <1>1, <2>1 DEF SessionTyped
  <2>3. SessionTyped'
    BY <1>1, <2>1, <2>2 DEF SessionTyped
  <2>4. ~x10' => Session!OneSession'
    BY <1>1, <2>1, <2>2 DEF Session!OneSession
  <2> QED
    BY <1>3, <2>1, <2>3, <2>4
<1>19. ASSUME Session!ListArrives \/ Session!ListFails \/ Session!ListCollected
       PROVE  Session!IInv'
  <2>1. UNCHANGED <<x1, x2, x3, x5, x6, x7, x8, x9, x10>>
    BY <1>19 DEF Session!ListArrives, Session!ListFails, Session!ListCollected
  <2>2. ListOfSession'
    <3>1. CASE Session!ListArrives
      <4>1. x4.fetch \in {a1, b1} /\ x4' = [owner |-> (a1 :> A @@ b1 :> B)[x4.fetch],
                                            fetch |-> NoFetch]
        BY <1>1, <3>1 DEF Session!ListArrives, SessionTyped
      <4>2. (a1 :> A @@ b1 :> B)[x4.fetch] \in Users
        BY <1>2, <4>1
      <4> QED
        BY <4>1, <4>2 DEF ListOfSession
    <3>2. CASE Session!ListFails \/ Session!ListCollected
      BY <1>1, <3>2 DEF Session!ListFails, Session!ListCollected, ListOfSession
    <3> QED
      BY <1>19, <3>1, <3>2
  <2>3. Good'
    BY <1>1, <2>1 DEF SessionTyped, Session!OneSession
  <2>4. (Session!TypeOK <=> SessionTyped /\ ListOfSession)'
    BY TypesOfSession, PTL
  <2> QED
    BY <2>2, <2>3, <2>4 DEF Session!IInv
<1>20. ASSUME Session!ListRefused
       PROVE  Session!IInv'
  <2>1. x7 \cup Session!Abandoned \in SUBSET Session!Request
    BY <1>1, ReadsAreRequests DEF SessionTyped, Session!IInv
  <2>2. Good'
    BY <1>20, <2>1, SignOutKeeps DEF Session!ListRefused
  <2>3. ListOfSession'
    BY <1>1, <1>20 DEF Session!ListRefused, ListOfSession
  <2>4. (Session!TypeOK <=> SessionTyped /\ ListOfSession)'
    BY TypesOfSession, PTL
  <2> QED
    BY <2>2, <2>3, <2>4 DEF Session!IInv
<1>21. ASSUME NEW t \in {a1, b1}, Session!Expire(t)
       PROVE  Session!IInv'
  <2>1. x9' = x9 \ {t} /\ UNCHANGED <<x1, x2, x3, x4, x5, x6, x7, x8, x10>>
    BY <1>21 DEF Session!Expire
  <2>2. Good'
    BY <1>1, <2>1 DEF SessionTyped, Session!OneSession
  <2> QED
    BY <1>3, <2>1, <2>2
<1>22. ASSUME NEW t \in {NoToken}, Session!OtherTab(t)
       PROVE  Session!IInv'
  <2>1. /\ x1' = NoToken /\ x8' = x8 \cup ({t} \cap {a1, b1})
        /\ x9' = x9 \cup ({t} \cap {a1, b1}) /\ x10' = TRUE
        /\ UNCHANGED <<x2, x3, x4, x5, x6, x7>>
    BY <1>22 DEF Session!OtherTab
  <2>2. Good'
    BY <1>1, <2>1 DEF SessionTyped
  <2> QED
    BY <1>3, <2>1, <2>2
<1> QED
  BY <1>4, <1>5, <1>6, <1>7, <1>8, <1>9, <1>10, <1>11, <1>12, <1>13, <1>14, <1>15, <1>16,
     <1>17, <1>18, <1>19, <1>20, <1>21, <1>22 DEF Session!Next

-----------------------------------------------------------------------------
(* The pages together *)

\* Whichever of these pages is shown, its part keeps its invariant.
WorkspacePages ==
    /\ page = "session"   => Session!IInv
    /\ page = "workspace" => Workspace!IInv
    /\ page = "runs"      => Runs!IInv

LEMMA PagesStart == Init => WorkspacePages
BY PageAssumptions, SessionInit, WorkspaceInit, RunsInit DEF Init, WorkspacePages

\* A step that changes nothing keeps each invariant.
LEMMA PagesStay ==
    ASSUME WorkspacePages, UNCHANGED tab
    PROVE  WorkspacePages'
<1> USE DEF tab
<1>1. ASSUME Session!IInv
      PROVE  Session!IInv'
  BY <1>1 DEF Session!IInv, Session!TypeOK, Session!OneSession
<1>2. ASSUME Workspace!IInv
      PROVE  Workspace!IInv'
  BY <1>2 DEF Workspace!IInv, Workspace!TypeOK, Workspace!AnswerHoldsListed,
              Workspace!SelectionListed, Workspace!Creating
<1>3. ASSUME Runs!IInv
      PROVE  Runs!IInv'
  BY <1>3 DEF Runs!IInv, Runs!TypeOK, Runs!Over, Runs!ShownOver, Runs!Known,
              Runs!SettledRunShown, Runs!StoppedRunShown
<1> QED
  BY <1>1, <1>2, <1>3 DEF WorkspacePages

LEMMA PagesMove ==
    ASSUME WorkspacePages, Next
    PROVE  /\ WorkspacePages'
           /\ page = "workspace" => Workspace!ListKeepsLatest
<1>1. /\ page' = page
      /\ page = "session" => Session!Next
      /\ page = "workspace" => Workspace!Next
      /\ page = "runs" => Runs!Next
  BY DEF Next
<1> QED
  BY <1>1, PageAssumptions, SessionStep, WorkspaceStep, RunsStep DEF WorkspacePages

LEMMA WorkspaceInvariant == Spec => []WorkspacePages
<1>1. WorkspacePages /\ [Next]_tab => WorkspacePages'
  BY PagesStay, PagesMove
<1> QED
  BY <1>1, PagesStart, PTL DEF Spec

\* Unless the session strayed, the account shown is the one whose token is stored, and a
\* profile being saved goes to the account it was filled from: whatever requests, expiries,
\* timeouts and refetches crossed.
THEOREM AccountsNeverMix == Spec => []AccountsAgreeUnlessStrayed
<1>1. WorkspacePages => AccountsAgreeUnlessStrayed
  BY PageAssumptions, SessionAgrees DEF WorkspacePages, AccountsAgreeUnlessStrayed
<1> QED
  BY <1>1, WorkspaceInvariant, PTL

\* Outside of an empty workspace and a creation under way one conversation of the list is
\* selected, for any number of conversations and of creations that overlap.
THEOREM SelectionIsListed == Spec => []SelectionListed
<1>1. WorkspacePages => SelectionListed
  BY DEF WorkspacePages, SelectionListed, Workspace!IInv
<1> QED
  BY <1>1, WorkspaceInvariant, PTL

\* No step takes a conversation out of the sidebar that is among the latest ListLimit: for
\* any limit, and any number of conversations, of creations that overlap and of other tabs'.
THEOREM ListNeverLoses == Spec => LatestStayListed
<1>1. WorkspacePages /\ [Next]_tab => [page = "workspace" => Workspace!ListKeepsLatest]_tab
  BY PagesMove
<1> QED
  BY <1>1, WorkspaceInvariant, PTL DEF Spec, LatestStayListed

\* A run that was over when its stream settled is shown over once no fetch is out and none
\* has failed, unless a late write made it active again or it is too old to be listed.
THEOREM SettledIsShown == Spec => []SettledRunShown
<1>1. WorkspacePages => SettledRunShown
  BY DEF WorkspacePages, SettledRunShown, Runs!IInv
<1> QED
  BY <1>1, WorkspaceInvariant, PTL

\* A run that a stop was answered for is shown over once no fetch is out and none has failed,
\* whatever answers were on their way and whatever started since, unless its executor took
\* the cancellation back or the run is too old to be listed.
THEOREM StoppedIsShown == Spec => []StoppedRunShown
<1>1. WorkspacePages => StoppedRunShown
  BY DEF WorkspacePages, StoppedRunShown, Runs!IInv
<1> QED
  BY <1>1, WorkspaceInvariant, PTL
=============================================================================
