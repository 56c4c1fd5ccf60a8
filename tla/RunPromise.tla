----------------------------- MODULE RunPromise -----------------------------
(***************************************************************************)
(* What the application promises of its Agent Runs, without handlers,      *)
(* queues, copies and logs: a conversation has one active run at a time; a *)
(* run is queued, begins, replies at most once while it is active, and     *)
(* settles once and for all.  A failed run has replied: the user always    *)
(* reads why.                                                              *)
(***************************************************************************)
EXTENDS Naturals

CONSTANTS Conversations, Runs, NoConversation

VARIABLES
    state,     \* of each run: "absent" until it is queued
    owner,     \* the conversation of each run
    replies    \* how many replies each run has put in the transcript

promise == <<state, owner, replies>>

Active(r) == state[r] \in {"queued", "running"}

Init ==
    /\ state   = [r \in Runs |-> "absent"]
    /\ owner   = [r \in Runs |-> NoConversation]
    /\ replies = [r \in Runs |-> 0]

Queue(r, c) ==
    /\ state[r] = "absent"
    /\ \A q \in Runs : Active(q) => owner[q] # c
    /\ state' = [state EXCEPT ![r] = "queued"]
    /\ owner' = [owner EXCEPT ![r] = c]
    /\ UNCHANGED replies

Begin(r) ==
    /\ state[r] = "queued"
    /\ state' = [state EXCEPT ![r] = "running"]
    /\ UNCHANGED <<owner, replies>>

Reply(r) ==
    /\ Active(r)
    /\ replies[r] = 0
    /\ replies' = [replies EXCEPT ![r] = 1]
    /\ UNCHANGED <<state, owner>>

Complete(r) ==
    /\ state[r] = "running"
    /\ state' = [state EXCEPT ![r] = "completed"]
    /\ UNCHANGED <<owner, replies>>

Fail(r) ==
    /\ Active(r)
    /\ replies[r] = 1
    /\ state' = [state EXCEPT ![r] = "failed"]
    /\ UNCHANGED <<owner, replies>>

Next == \E r \in Runs : \/ \E c \in Conversations : Queue(r, c)
                        \/ Begin(r) \/ Reply(r) \/ Complete(r) \/ Fail(r)

Spec == Init /\ [][Next]_promise
=============================================================================
