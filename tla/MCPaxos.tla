------------------------------ MODULE MCPaxos ------------------------------
(***************************************************************************)
(* Instances of Paxos for TLC.                                             *)
(***************************************************************************)
EXTENDS Paxos

CONSTANTS c1, c2, MaxInFlight

\* Bound: messages sent and not yet taken.
InFlight(n) ==
  Cardinality({<<l, k>> \in Links \X (1 .. 10) : k <= Len(n[l])})
FewInFlight == InFlight(net) <= MaxInFlight

\* All batches go to the initial leader.
ToLeader == [r \in Replicas |-> IF r = InitialLeader THEN Commands ELSE {}]

\* One batch for the initial leader and one for the replica after it.
OneEach == [r \in Replicas |-> IF r = 0 THEN {c1} ELSE IF r = 1 THEN {c2} ELSE {}]
=============================================================================
