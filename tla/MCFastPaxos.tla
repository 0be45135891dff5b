---------------------------- MODULE MCFastPaxos ----------------------------
(***************************************************************************)
(* Instances of FastPaxos for TLC.                                         *)
(***************************************************************************)
EXTENDS FastPaxos, TLC

\* Commands are interchangeable; replicas, which are ordered, are not.
Symmetry == Permutations(Commands)

\* No quorum file, which is all three of three replicas; and a file with two
\* of them.
FixedQuorums == {ThreeQuarters, QuorumOf({0, 1})}
=============================================================================
