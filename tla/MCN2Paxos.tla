----------------------------- MODULE MCN2Paxos -----------------------------
(***************************************************************************)
(* Instances of N2Paxos for TLC.                                           *)
(***************************************************************************)
EXTENDS N2Paxos, TLC

\* Replicas that neither lead nor may crash are interchangeable, and so are
\* the commands.
Symmetry ==
  Permutations(Commands) \cup Permutations(Replicas \ (MayCrash \cup {Leader}))
=============================================================================
