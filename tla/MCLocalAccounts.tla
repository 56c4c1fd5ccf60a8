-------------------------- MODULE MCLocalAccounts --------------------------
(***************************************************************************)
(* The instances of LocalAccounts for TLC: requests that race over a few   *)
(* accounts, or requests handled one at a time over all of them.           *)
(***************************************************************************)
EXTENDS LocalAccounts, TLC

VARIABLE serial   \* which of the two

OneAtATime == \A q, r \in Requests : pc[q] # "ready" /\ pc[r] # "ready" => q = r
Spare == \E a \in Accounts : ~Exists(a)

InstanceInit == serial \in BOOLEAN /\ Init
InstanceNext == Next /\ UNCHANGED serial /\ IF serial THEN OneAtATime' ELSE Spare'
InstanceSpec == InstanceInit /\ [][InstanceNext]_<<vars, serial>>

\* One request at a time: the last event of the trail explains the status.
SerialAudit == serial => AuditTellsStatus

\* One request at a time: the guards hold, a rejection has none.
SerialGuards == [][serial => StrandedByRejection]_<<vars, serial>>

Symmetry == Permutations(Tokens) \cup Permutations(Requests)
              \cup Permutations(Accounts \ {Root})
=============================================================================
