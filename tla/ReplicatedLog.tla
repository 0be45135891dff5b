--------------------------- MODULE ReplicatedLog ---------------------------
(***************************************************************************)
(* What state machine replication promises, whatever the protocol: there   *)
(* is one log, it grows by commands that are not in it yet, and each       *)
(* replica applies the log's commands in order, starting from the first.   *)
(***************************************************************************)
EXTENDS Naturals, Sequences

CONSTANTS Replicas, Commands

VARIABLES log,       \* the commands in the order agreed upon
          executed   \* the commands each replica has applied

Init == log = << >> /\ executed = [r \in Replicas |-> << >>]

\* A command that is not in the log is ordered after those that are.
Order(c) ==
  /\ \A i \in 1 .. Len(log) : log[i] # c
  /\ log' = Append(log, c)

\* A replica applies the first command of the log it has not applied, which
\* may be one that is ordered in this very step.
Execute(r) ==
  /\ Len(executed[r]) < Len(log')
  /\ executed' = [executed EXCEPT ![r] = Append(@, log'[Len(@) + 1])]

Next ==
  /\ UNCHANGED log \/ \E c \in Commands : Order(c)
  /\ UNCHANGED executed \/ \E r \in Replicas : Execute(r)

Spec == Init /\ [][Next]_<<log, executed>>
=============================================================================
