------------------------------- MODULE MCCurp -------------------------------
(***************************************************************************)
(* Instances of Curp for TLC.                                              *)
(***************************************************************************)
EXTENDS Curp, TLC

CONSTANTS TheKey,       \* the key of all commands
          MaxInFlight   \* bound: acknowledgements sent and not handled yet

OneKey == [c \in Commands |-> TheKey]

InFlight == {<<r, s, k>> \in Replicas \X Replicas \X Slots :
               s \in acks[s][k] \ acks[r][k] /\ k \notin committed[r]}

InFlightBound == Cardinality(InFlight) <= MaxInFlight

\* The commands are interchangeable, and so are the followers.
Symmetry == Permutations(Commands) \cup Permutations(Followers)
=============================================================================
