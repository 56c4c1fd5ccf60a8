------------------------- MODULE MCAgentGovernance -------------------------
(***************************************************************************)
(* The instances of AgentGovernance for TLC: beside the default agent there*)
(* is a second agent, or a server, or a user with a conversation.  Agents  *)
(* are related through the models only, and servers are not guarded.       *)
(***************************************************************************)
EXTENDS AgentGovernance, TLC

SecondAgent == \E a \in Agents \ {DefaultAgent} : Exists(a)
UsesServer  == \E x \in Servers : server[x] # "absent"
UserIsThere == \/ \E c \in Conversations : conversation[c].status # "absent"
               \/ \E p \in Users : pc[p] # "ready"

OneSubject == Cardinality({s \in {"agent", "server", "user"} :
                 CASE s = "agent"  -> SecondAgent
                   [] s = "server" -> UsesServer
                   [] s = "user"   -> UserIsThere}) <= 1

SubjectSpec == Init /\ [][Next /\ OneSubject']_vars
=============================================================================
