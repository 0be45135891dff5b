------------------------------ MODULE MCSwift ------------------------------
(***************************************************************************)
(* Two writes, which conflict, and the bound on what a change of leader is *)
(* explored from.                                                          *)
(***************************************************************************)
EXTENDS Swift, FiniteSetsExt

CONSTANTS a, b, nil

WritesOnly == {}

\* A change of leader is explored while no replica has stopped, without the old leader
\* and with few proposals taken.
ProposalsTaken == MapThenSumSet(LAMBDA r : Cardinality(node[r].proposes), Replicas)

SmallChange ==
    newLeaders # {} =>
        /\ \A r \in Replicas : Alive(r)
        /\ node[0].ballot = 0
        /\ ProposalsTaken <= IF syncs = {} THEN 5 ELSE 2

Symmetry == Permutations(Commands)
=============================================================================
