----------------------------- MODULE FastPaxos -----------------------------
(***************************************************************************)
(* The Fast Paxos of fastpaxos/fastpaxos.go.  There is no leader: clients  *)
(* broadcast their commands, every replica puts each command it takes in   *)
(* its next instance and tells all the others (a 2B of ballot 0).  When a  *)
(* quorum's 2Bs of a ballot name one command, it is committed; when they   *)
(* collide, every replica takes the 2Bs for 1Bs, picks a value by itself   *)
(* and sends a 2B of the next ballot.                                      *)
(*                                                                         *)
(* One event of run() is one step, with the nested calls it leads to: a    *)
(* replica handles its own 2B on the spot, which may complete the next     *)
(* ballot's quorum.  2Bs from one replica to another stay in order.  No    *)
(* message is lost; there is no recovery from crashes, and a replica whose *)
(* 2Bs are not taken stands for one that has stopped.                      *)
(*                                                                         *)
(* The operators named after another one that they precede, such as        *)
(* HasQuorumButOne before HasQuorum, are mistakes the code does not make:  *)
(* with them in the place of the right one, a property must fail.          *)
(***************************************************************************)
EXTENDS Integers, Sequences, FiniteSetsExt

CONSTANTS
  N,             \* number of replicas
  Commands,      \* commands the clients broadcast
  None,          \* the zero CommandId, of no command
  Quorums,       \* the quorums a group may be configured with
  MaxInstances,  \* bound: instances opened
  MaxBallot      \* bound: ballots of an instance

Replicas == 0 .. N - 1
Instances == 0 .. MaxInstances - 1
Ballots == 0 .. MaxBallot

\* A quorum is the replicas whose 2Bs count and how many of them it takes:
\* three quarters of all, or the members of a quorum file.
ThreeQuarters == [members |-> Replicas, size |-> (3 * N) \div 4 + 1]
QuorumOf(members) == [members |-> members, size |-> Cardinality(members)]

ASSUME NAssumption == N \in Nat \ {0}
ASSUME QuorumAssumption ==
  Quorums \subseteq
    {ThreeQuarters} \cup {QuorumOf(M) : M \in SUBSET Replicas}
ASSUME BoundAssumption == MaxInstances \in Nat /\ MaxBallot \in Nat
ASSUME CommandsAssumption == None \notin Commands

VARIABLES
  quorum,        \* r.defaultFastQuorum, the same at every replica
  cmds,          \* commands whose proposal a replica has taken
  next,          \* next instance of a replica
  instances,     \* value, ballot and committed of each instance
  m2bSets,       \* the 2Bs a replica holds: values by instance, ballot, sender
  lastExecuted,  \* last instance executed
  executed,      \* the command executed for each instance; delivered is their set
  panicked,      \* replicas a nil dereference has killed
  net            \* 2Bs sent and not taken, per source and target

vars == <<quorum, cmds, next, instances, m2bSets, lastExecuted, executed,
          panicked, net>>

Links == {l \in Replicas \X Replicas : l[1] # l[2]}
M2B == [inst : Instances, bal : Ballots, val : Commands]
\* Ballot and cballot are equal in every instance and in every 2B.
Instance == [value : Commands \cup {None}, ballot : Ballots,
             committed : BOOLEAN]

TypeOK ==
  /\ quorum \in Quorums
  /\ cmds \in [Replicas -> SUBSET Commands]
  /\ next \in [Replicas -> 0 .. MaxInstances]
  /\ instances \in [Replicas -> [Instances -> Instance]]
  /\ m2bSets \in [Replicas -> [Instances ->
                   [Ballots -> [Replicas -> Commands \cup {None}]]]]
  /\ lastExecuted \in [Replicas -> Instances \cup {-1}]
  /\ executed \in [Replicas -> [Instances -> Commands \cup {None}]]
  /\ panicked \subseteq Replicas
  /\ net \in [Links -> Seq(M2B)]

Init ==
  /\ quorum \in Quorums
  /\ cmds = [r \in Replicas |-> {}]
  /\ next = [r \in Replicas |-> 0]
  /\ instances = [r \in Replicas |-> [i \in Instances |->
                   [value |-> None, ballot |-> 0, committed |-> FALSE]]]
  /\ m2bSets = [r \in Replicas |-> [i \in Instances |->
                 [b \in Ballots |-> [q \in Replicas |-> None]]]]
  /\ lastExecuted = [r \in Replicas |-> -1]
  /\ executed = [r \in Replicas |-> [i \in Instances |-> None]]
  /\ panicked = {}
  /\ net = [l \in Links |-> << >>]

----------------------------------------------------------------------------
(***************************************************************************)
(* A handler's view of an instance of r: the instance, its 2Bs, the 2Bs    *)
(* the handler sends, and the ballot whose set has grown last (-1 once     *)
(* nothing is left to do).                                                 *)
(***************************************************************************)
View(r, i) == [inst |-> instances[r][i], sets |-> m2bSets[r][i], sent |-> << >>,
               grown |-> -1]

\* MsgSet.Add() of the 2B of q for value v: only members are counted.
Add(s, q, b, v) ==
  IF q \in quorum.members /\ b \in Ballots THEN [s EXCEPT !.sets[b][q] = v, !.grown = b]
  ELSE [s EXCEPT !.grown = -1]

\* r sends a 2B for its value in its ballot and handles it itself.
SendM2BToOthers(s, r, i) ==
  [s EXCEPT !.sent = Append(@, [inst |-> i, bal |-> s.inst.ballot,
                                val |-> s.inst.value]), !.grown = -1]
SendM2B(s, r, i) ==
  LET m == [inst |-> i, bal |-> s.inst.ballot, val |-> s.inst.value]
  IN Add([s EXCEPT !.sent = Append(@, m)], r, m.bal, m.val)

Voters(set) == {q \in Replicas : set[q] # None}
Unanimous(set) == \A p, q \in Voters(set) : set[p] = set[q]
HasQuorumButOne(set) == Cardinality(Voters(set)) >= quorum.size - 1
HasQuorum(set) == Cardinality(Voters(set)) >= quorum.size

\* The value of a set's 2B that sorts last: by cballot, equal in all of them,
\* then by replica.
LastByValue(set) == CHOOSE v \in {set[q] : q \in Voters(set)} : TRUE
LastValue(set) == set[Max(Voters(set))]

\* handleM2Bs(), which the set calls on each 2B from the quorum-th one on:
\* commit, or recover from the collision with the value that sorts last.
HandleM2Bs(s, r, i, b) ==
  LET set == s.sets[b]
      recovered ==
        [s EXCEPT !.inst.value = LastValue(set), !.inst.ballot = b + 1]
  IN IF ~ HasQuorum(set) THEN [s EXCEPT !.grown = -1]
     ELSE IF Unanimous(set)
     THEN [s EXCEPT !.inst.value = LastValue(set), !.inst.committed = TRUE,
                    !.grown = -1]
     ELSE IF s.inst.ballot # b THEN [s EXCEPT !.grown = -1]
     ELSE SendM2B(recovered, r, i)

\* All the calls of handleM2Bs() that one 2B leads to, ballot after ballot.
Called(s, r, i, b) == IF s.grown = b THEN HandleM2Bs(s, r, i, b) ELSE s
Calls(s, r, i) ==
  LET called[n \in Nat] ==
        IF n = 0 THEN s ELSE Called(called[n - 1], r, i, n - 1)
  IN called
Settled(s, r, i) == Calls(s, r, i)[MaxBallot + 1]

\* The end of a handler of instance i, which leaves view s and a network n to
\* which its messages are added.  commit() executes the committed instances
\* after the last executed one, but for commands delivered before, and dies
\* of a command whose proposal r has not taken.
Conclude(r, i, s, n) ==
  LET insts == [instances[r] EXCEPT ![i] = s.inst]
      first == lastExecuted[r] + 1
      Ready(k) == k \in Instances /\ insts[k].committed
      stop == Min({k \in first .. MaxInstances :
                     ~ Ready(k) \/ insts[k].value \notin cmds'[r]})
      Due(k) == IF k < first THEN executed[r][k] ELSE insts[k].value
      Deliver(k) == IF \E j \in 0 .. k - 1 : Due(j) = Due(k) THEN None ELSE Due(k)
  IN /\ s.inst.ballot \in Ballots
     /\ instances' = [instances EXCEPT ![r] = insts]
     /\ m2bSets' = [m2bSets EXCEPT ![r][i] = s.sets]
     /\ net' = [l \in Links |-> IF l[1] = r THEN n[l] \o s.sent ELSE n[l]]
     /\ executed' = [executed EXCEPT ![r] = [k \in Instances |->
          IF k \in first .. stop - 1 THEN Deliver(k) ELSE executed[r][k]]]
     /\ lastExecuted' = [lastExecuted EXCEPT ![r] = stop - 1]
     /\ panicked' = IF Ready(stop) THEN panicked \cup {r} ELSE panicked

\* handleProposal(): the command takes the next instance, whatever r knows of
\* that instance already.
HandleProposal(r, c) ==
  LET i == next[r]
      s == View(r, i)
  IN /\ r \notin panicked
     /\ c \in Commands \ cmds[r]
     /\ i \in Instances
     /\ UNCHANGED quorum
     /\ cmds' = [cmds EXCEPT ![r] = @ \cup {c}]
     /\ next' = [next EXCEPT ![r] = i + 1]
     /\ Conclude(r, i, Settled(SendM2B([s EXCEPT !.inst.value = c], r, i),
                               r, i), net)

\* handleM2B() for a 2B of another replica.
HandleM2B(r, q) ==
  LET l == <<q, r>>
      m == Head(net[l])
  IN /\ r \notin panicked
     /\ l \in Links /\ net[l] # << >>
     /\ UNCHANGED <<quorum, cmds, next>>
     /\ Conclude(r, m.inst,
                 Settled(Add(View(r, m.inst), q, m.bal, m.val), r, m.inst),
                 [net EXCEPT ![l] = Tail(@)])

Next ==
  \E r \in Replicas :
    \/ \E c \in Commands : HandleProposal(r, c)
    \/ \E q \in Replicas : HandleM2B(r, q)

Spec == Init /\ [][Next]_vars

----------------------------------------------------------------------------
\* Agreement: no two members of the quorum commit different commands in an
\* instance, nor execute different ones for it (handleM2Bs(), commit()).  A
\* replica that a quorum file leaves out may: the handling of a proposal
\* assigns to i.value of an instance that is committed already.
Agreement ==
  \A r, s \in quorum.members :
    /\ \A i \in Instances :
         instances[r][i].committed /\ instances[s][i].committed =>
           instances[r][i].value = instances[s][i].value
    /\ \A i \in 0 .. lastExecuted[r] :
         i <= lastExecuted[s] => executed[r][i] = executed[s][i]

\* A committed instance of a member keeps its command, though recovery and the
\* handling of a proposal assign to i.value without looking at i.committed.
CommitsFinal ==
  [][\A r \in quorum.members, i \in Instances :
       instances[r][i].committed =>
         /\ instances'[r][i].committed
         /\ instances'[r][i].value = instances[r][i].value]_vars

\* No command is committed in two instances: "this is impossible without
\* failure recovery and with a single fast quorum" (commit()).
CommittedOnce ==
  \A r, s \in quorum.members, i, j \in Instances :
    i # j /\ instances[r][i].committed /\ instances[s][j].committed =>
      instances[r][i].value # instances[s][j].value

\* Collisions are resolved, though nobody coordinates the recovery
\* (handleM2Bs()): unless a replica has died, once nothing is left to take,
\* every member has executed every command.
Idle ==
  /\ \A r \in Replicas : cmds[r] = Commands
  /\ \A l \in Links : net[l] = << >>
CollisionsResolved ==
  Idle /\ panicked = {} =>
    \A r \in quorum.members, c \in Commands :
      \E i \in Instances : executed[r][i] = c

----------------------------------------------------------------------------
(***************************************************************************)
(* The inductive invariant behind Agreement, CommitsFinal and              *)
(* CommittedOnce, where the quorum is the same for every decision: its     *)
(* members are all needed.  (Without a quorum file, five replicas or more  *)
(* have several, and do not agree.)                                        *)
(***************************************************************************)
FixedQuorum == quorum.size = Cardinality(quorum.members)

\* What q has sent in ballot b of instance i, and the member that collisions
\* are resolved in favour of.
Own(q, i, b) == m2bSets[q][i][b][q]
Top == Max(quorum.members)

\* Who counts a 2B counts a member's, and none sends two in a ballot.
VotesOnce ==
  /\ \A r, q \in Replicas, i \in Instances, b \in Ballots :
       m2bSets[r][i][b][q] # None =>
         q \in quorum.members /\ m2bSets[r][i][b][q] = Own(q, i, b)
  /\ \A l \in Links : l[1] \in quorum.members =>
       \A k \in 1 .. Len(net[l]) :
         net[l][k].val = Own(l[1], net[l][k].inst, net[l][k].bal)

\* A member sends 2Bs in the ballots it has reached of the instances it has
\* opened.
VotesReached ==
  \A r \in quorum.members, i \in Instances :
    /\ \A b \in Ballots : Own(r, i, b) # None =>
         i < next[r] /\ b <= instances[r][i].ballot
    /\ next[r] <= i => instances[r][i].ballot = 0

\* There is one recovery at most, in which all send the command of Top.
RecoveredAlike ==
  \A r \in quorum.members, i \in Instances, b \in Ballots \ {0} :
    Own(r, i, b) # None => b = 1 /\ Own(r, i, b) = Own(Top, i, 0)

\* A replica proposes a command in one instance, once it has taken it.
ProposedOnce ==
  \A r \in quorum.members, i \in Instances : Own(r, i, 0) # None =>
    /\ Own(r, i, 0) \in cmds[r]
    /\ \A j \in Instances : Own(r, j, 0) = Own(r, i, 0) => i = j

\* What is committed, and what is executed, is the command of Top.
CommitsTop ==
  \A r \in quorum.members, i \in Instances : instances[r][i].committed =>
    /\ i < next[r] /\ Own(Top, i, 0) # None
    /\ instances[r][i].value = Own(Top, i, 0)
ExecutesCommitted ==
  \A r \in quorum.members : \A i \in 0 .. lastExecuted[r] :
    instances[r][i].committed /\ executed[r][i] = instances[r][i].value

IInv ==
  /\ TypeOK
  /\ FixedQuorum =>
       /\ VotesOnce /\ VotesReached /\ RecoveredAlike /\ ProposedOnce
       /\ CommitsTop /\ ExecutesCommitted

(***************************************************************************)
(* The inductive invariant behind CollisionsResolved: whatever the members *)
(* still wait for will come.                                               *)
(***************************************************************************)
\* A member's 2B is counted by the others, or on its way to them.
VotesArrive ==
  \A q, r \in quorum.members, i \in Instances, b \in Ballots :
    Own(q, i, b) # None /\ m2bSets[r][i][b][q] = None =>
      q # r /\ \E k \in 1 .. Len(net[<<q, r>>]) :
                net[<<q, r>>][k].inst = i /\ net[<<q, r>>][k].bal = b

\* A member that holds all of a ballot's 2Bs has committed, or has recovered
\* from the collision; who has recovered has sent a 2B of the next ballot.
Full(set) == Voters(set) = quorum.members
QuorumsHandled ==
  \A r \in quorum.members, i \in Instances :
    /\ instances[r][i].ballot # 0 => instances[r][i].ballot = 1 /\ Own(r, i, 1) # None
    /\ \A b \in Ballots : Full(m2bSets[r][i][b]) =>
         IF Unanimous(m2bSets[r][i][b]) THEN instances[r][i].committed
         ELSE instances[r][i].ballot # 0

\* The commands a member has taken are those it has proposed, one in each
\* instance it has opened.
TakenProposed ==
  \A r \in quorum.members :
    /\ IsFiniteSet(cmds[r]) /\ next[r] = Cardinality(cmds[r])
    /\ \A i \in 0 .. next[r] - 1 : Own(r, i, 0) # None
    /\ \A c \in cmds[r] : \E i \in Instances : Own(r, i, 0) = c

\* Execution stops before an instance that is not committed, or for good.
ExecutorStops ==
  \A r \in quorum.members \ panicked :
    lastExecuted[r] + 1 \in Instances => ~ instances[r][lastExecuted[r] + 1].committed

WakeInv == VotesArrive /\ QuorumsHandled /\ TakenProposed /\ ExecutorStops
FullInv == IInv /\ (FixedQuorum => WakeInv)

=============================================================================
