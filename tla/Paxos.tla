------------------------------- MODULE Paxos -------------------------------
(***************************************************************************)
(* The multi-decree Paxos of paxos/paxos.go, as it is coded.  A leader     *)
(* opens an instance per batch of commands; it runs the prepare phase      *)
(* until the other replicas follow its ballot (smallestDefaultBallot), and *)
(* from then on sends Accepts at once.  A replica whose execution is stuck *)
(* for three seconds recovers the instances from the stuck one on.         *)
(*                                                                         *)
(* One handler of the event loop run() is one step; executeCommands() is a *)
(* goroutine of its own and steps between them.  Messages of one type from *)
(* one replica to another stay in order (one connection, one Go channel    *)
(* per type), messages of different types overtake each other, and no      *)
(* message is lost: one that is never taken stands for a slow or stopped   *)
(* replica.  A batch of commands is one member of Commands.  Nothing is    *)
(* persisted (Durable is false), so a restarted replica is a new one.      *)
(*                                                                         *)
(* The operators named after another one that they precede, such as        *)
(* ReadyUnchecked before Ready, are mistakes the code does not make: with  *)
(* them in the place of the right one, a property must fail.               *)
(***************************************************************************)
EXTENDS Integers, Sequences, FiniteSets

CONSTANTS
  N,              \* number of replicas
  Commands,       \* batches of commands the clients propose
  Noop, None,     \* state.NOOP(), and the nil slice
  Proposals,      \* the batches the clients send to each replica
  InitialLeader,  \* the replica master.go makes the leader
  NewLeaders,     \* replicas master.go may make leaders later on
  Executing,      \* bound: replicas whose executor goroutine gets to run
  MaxInstances,   \* bound: instances opened
  MaxBallot,      \* bound: ballots tried
  MaxTimeouts     \* bound: times the executor of a replica gives up waiting

Replicas == 0 .. N - 1
F == (N - 1) \div 2
ReadQuorumSize == N - F
WriteQuorumSize == F + 1
Instances == 0 .. MaxInstances - 1
Ballots == -1 .. MaxBallot
Values == Commands \cup {Noop, None}

ASSUME NAssumption == N \in Nat \ {0}
ASSUME BoundAssumption ==
  MaxInstances \in Nat /\ MaxBallot \in Nat /\ MaxTimeouts \in Nat
ASSUME ValueAssumption == Noop # None /\ {Noop, None} \cap Commands = {}
ASSUME ReplicaAssumption ==
  /\ Proposals \in [Replicas -> SUBSET Commands]
  /\ InitialLeader \in Replicas /\ NewLeaders \subseteq Replicas
  /\ Executing \subseteq Replicas

VARIABLES
  isLeader, crtInstance, maxRecvBallot, defaultBallot,
  smallestDefaultBallot,     \* the fields of Replica of the same names
  insts,        \* instanceSpace: the acceptor's record of each instance
  lbs,          \* the leader's bookkeeping of each instance (inst.lb)
  proposeChan,  \* batches waiting in r.ProposeChan
  toRecover,    \* instances waiting in r.instancesToRecover
  timeouts,     \* how often the executor has timed out
  executed,     \* batches executed, in order: executedUpTo + 1 of them
  replied,      \* pairs of the batch of a client and the batch executed for it
  panicked,     \* replicas a nil dereference has killed
  net           \* messages sent and not taken, per source, target and type

vars == <<isLeader, crtInstance, maxRecvBallot, defaultBallot,
          smallestDefaultBallot, insts, lbs, proposeChan, toRecover,
          timeouts, executed, replied, panicked, net>>

Status == {"PREPARING", "PREPARED", "ACCEPTED", "COMMITTED"}
Types == {"Prepare", "PrepareReply", "Accept", "AcceptReply", "Commit",
          "CommitShort"}
Links == {l \in Replicas \X Replicas \X Types : l[1] # l[2]}

Instance == [cmds : Values, bal : Ballots, vbal : Ballots, status : Status]
Bookkeeping == [proposals : Commands \cup {None}, prepareOKs : Nat,
                acceptOKs : Nat, nacks : Nat, ballot : Ballots,
                cmds : Values, lastTried : Ballots]

\* No record yet: a nil pointer.
NoInstance == [status |-> "NIL"]
NoBookkeeping == [lastTried |-> "NIL"]

Known(r, i) == insts[r][i] # NoInstance
Bookkept(r, i) == lbs[r][i] # NoBookkeeping

\* The messages of type t.
Message(t) ==
  IF t \in {"Accept", "Commit"}
  THEN [inst : Instances, bal : Ballots, cmds : Values]
  ELSE IF t = "PrepareReply"
  THEN [inst : Instances, bal : Ballots, vbal : Ballots, cmds : Values,
        default : Ballots]
  ELSE [inst : Instances, bal : Ballots]

TypeOK ==
  /\ isLeader \in [Replicas -> BOOLEAN]
  /\ crtInstance \in [Replicas -> Instances \cup {-1}]
  /\ maxRecvBallot \in [Replicas -> Ballots]
  /\ defaultBallot \in [Replicas -> [Replicas -> Ballots]]
  /\ smallestDefaultBallot \in [Replicas -> Ballots]
  /\ insts \in [Replicas -> [Instances -> Instance \cup {NoInstance}]]
  /\ lbs \in [Replicas -> [Instances -> Bookkeeping \cup {NoBookkeeping}]]
  /\ proposeChan \in [Replicas -> SUBSET Commands]
  /\ toRecover \in [Replicas -> SUBSET Instances]
  /\ timeouts \in [Replicas -> 0 .. MaxTimeouts]
  /\ executed \in [Replicas -> Seq(Commands \cup {Noop})]
  /\ replied \in [Replicas -> SUBSET (Commands \X (Commands \cup {Noop}))]
  /\ panicked \subseteq Replicas
  /\ DOMAIN net = Links
  /\ \A l \in Links : net[l] \in Seq(Message(l[3]))

Init ==
  /\ isLeader = [r \in Replicas |-> r = InitialLeader]
  /\ crtInstance = [r \in Replicas |-> -1]
  /\ maxRecvBallot = [r \in Replicas |-> -1]
  /\ defaultBallot = [r \in Replicas |-> [q \in Replicas |-> -1]]
  /\ smallestDefaultBallot = [r \in Replicas |-> -1]
  /\ insts = [r \in Replicas |-> [i \in Instances |-> NoInstance]]
  /\ lbs = [r \in Replicas |-> [i \in Instances |-> NoBookkeeping]]
  /\ proposeChan = Proposals
  /\ toRecover = [r \in Replicas |-> {}]
  /\ timeouts = [r \in Replicas |-> 0]
  /\ executed = [r \in Replicas |-> << >>]
  /\ replied = [r \in Replicas |-> {}]
  /\ panicked = {}
  /\ net = [l \in Links |-> << >>]

----------------------------------------------------------------------------
Larger(a, b) == IF a > b THEN a ELSE b

\* A record opened on hearing of an instance, with the default ballot d.
Opened(d) == [cmds |-> None, bal |-> d, vbal |-> d, status |-> "PREPARING"]
InstanceOrOpened(r, i) ==
  IF Known(r, i) THEN insts[r][i] ELSE Opened(defaultBallot[r][r])

\* crtInstance once r has opened a record of instance i.
CoveringNothing(r, i) == crtInstance
Covering(r, i) ==
  [crtInstance EXCEPT ![r] = IF Known(r, i) THEN @ ELSE Larger(@, i)]
Received(r, b) == [maxRecvBallot EXCEPT ![r] = Larger(@, b)]

\* makeBallot(): the least ballot of a leader that is not below those it has
\* seen; a replica that does not lead uses its id, whatever it has seen.
MadeBallotOfAnyone(r, maxRecv) ==
  IF isLeader[r]
  THEN CHOOSE b \in 0 .. MaxBallot + N :
         /\ b >= defaultBallot[r][r] /\ b >= maxRecv /\ b >= r
         /\ \A a \in r .. b - 1 : a < defaultBallot[r][r] \/ a < maxRecv
  ELSE r
MadeBallot(r, maxRecv) ==
  IF isLeader[r]
  THEN CHOOSE b \in {n \in 0 .. MaxBallot + N : n % N = r} :
         /\ b >= defaultBallot[r][r] /\ b >= maxRecv
         /\ \A a \in 0 .. b - 1 :
              a % N = r => a < defaultBallot[r][r] \/ a < maxRecv
  ELSE r

\* The clients' batch r has for instance i, if any (lb.clientProposals).
OwnBatchOfLast(r, i) ==
  IF lbs[r][crtInstance[r]] = NoBookkeeping THEN None
  ELSE lbs[r][crtInstance[r]].proposals
OwnBatch(r, i) ==
  IF lbs[r][i] = NoBookkeeping THEN None ELSE lbs[r][i].proposals

\* The bookkeeping of r for instance i, opened if it has none.
NewBookkeeping(r, i) ==
  [proposals |-> None, prepareOKs |-> 0, acceptOKs |-> 0, nacks |-> 0,
   ballot |-> -1, cmds |-> None, lastTried |-> -1]
BookkeepingOrNew(r, i) ==
  IF lbs[r][i] # NoBookkeeping THEN lbs[r][i] ELSE NewBookkeeping(r, i)

\* The network after a message left link l, and after m of type t was sent
\* from r to q, or to every peer of r.
Taken(l) == [net EXCEPT ![l] = Tail(@)]
Sent(n, r, q, t, m) == [n EXCEPT ![<<r, q, t>>] = Append(@, m)]
Broadcast(n, r, t, m) ==
  [l \in Links |-> IF l[1] = r /\ l[3] = t THEN Append(n[l], m) ELSE n[l]]

\* A running replica r takes a message of type t from q.
Receives(r, q, t) ==
  /\ r \notin panicked
  /\ <<q, r, t>> \in Links
  /\ net[<<q, r, t>>] # << >>

Prepare(i, b) == [inst |-> i, bal |-> b]
Accept(i, b, v) == [inst |-> i, bal |-> b, cmds |-> v]

----------------------------------------------------------------------------
\* handlePropose() at a leader: a new instance, prepared first unless the
\* other replicas are known to follow the leader's ballot.
Propose(r, c) ==
  LET i == crtInstance[r] + 1
      b == MadeBallot(r, maxRecvBallot[r])
      d == defaultBallot[r][r]
      lb == [proposals |-> c, prepareOKs |-> 0, acceptOKs |-> 0, nacks |-> 0,
             ballot |-> r, cmds |-> None, lastTried |-> b]
  IN /\ r \notin panicked
     /\ c \in proposeChan[r]
     /\ isLeader[r]
     /\ i \in Instances /\ b <= MaxBallot
     /\ proposeChan' = [proposeChan EXCEPT ![r] = @ \ {c}]
     /\ crtInstance' = [crtInstance EXCEPT ![r] = i]
     /\ defaultBallot' = [defaultBallot EXCEPT ![r][r] = b]
     /\ \/ /\ b # smallestDefaultBallot[r]
           /\ insts' = [insts EXCEPT ![r][i] = Opened(d)]
           /\ lbs' = [lbs EXCEPT ![r][i] = lb]
           /\ net' = Broadcast(net, r, "Prepare", Prepare(i, b))
        \/ /\ b = smallestDefaultBallot[r]
           /\ insts' = [insts EXCEPT ![r][i] =
                [cmds |-> c, bal |-> b, vbal |-> b, status |-> "ACCEPTED"]]
           /\ lbs' = [lbs EXCEPT ![r][i] = [lb EXCEPT !.cmds = c]]
           /\ net' = Broadcast(net, r, "Accept", Accept(i, b, c))
     /\ UNCHANGED <<isLeader, maxRecvBallot, smallestDefaultBallot,
                    toRecover, timeouts, executed, replied, panicked>>

\* handlePropose() at another replica: the client is refused.
Refuse(r, c) ==
  /\ r \notin panicked
  /\ c \in proposeChan[r]
  /\ ~ isLeader[r]
  /\ proposeChan' = [proposeChan EXCEPT ![r] = @ \ {c}]
  /\ UNCHANGED <<isLeader, crtInstance, maxRecvBallot, defaultBallot,
                 smallestDefaultBallot, insts, lbs, toRecover, timeouts,
                 executed, replied, panicked, net>>

\* handlePrepare(): the answer is the commit of a committed instance, and
\* else what r has promised and accepted, whether it promises this ballot or
\* not.  A promise for r's last instance is its default for later ones.
HandlePrepare(r, q) ==
  LET l == <<q, r, "Prepare">>
      m == Head(net[l])
      old == InstanceOrOpened(r, m.inst)
      new == IF old.bal < m.bal
             THEN [old EXCEPT !.bal = m.bal, !.status = "PREPARED"]
             ELSE old
      promises == old.bal < m.bal /\ crtInstance'[r] = m.inst
  IN /\ Receives(r, q, "Prepare")
     /\ maxRecvBallot' = Received(r, m.bal)
     /\ crtInstance' = Covering(r, m.inst)
     /\ \/ /\ old.status = "COMMITTED"
           /\ net' = Sent(Taken(l), r, q, "Commit",
                          Accept(m.inst, old.vbal, old.cmds))
           /\ UNCHANGED <<insts, defaultBallot>>
        \/ /\ old.status # "COMMITTED"
           /\ insts' = [insts EXCEPT ![r][m.inst] = new]
           /\ defaultBallot' =
                [defaultBallot EXCEPT ![r][r] = IF promises THEN m.bal ELSE @]
           /\ net' = Sent(Taken(l), r, q, "PrepareReply",
                          [inst |-> m.inst, bal |-> new.bal,
                           vbal |-> new.vbal, cmds |-> new.cmds,
                           default |-> defaultBallot'[r][r]])
     /\ UNCHANGED <<isLeader, smallestDefaultBallot, lbs, proposeChan,
                    toRecover, timeouts, executed, replied, panicked>>

\* handleAccept(): accepts unless a higher ballot is promised or the instance
\* is committed; the answer names the ballot promised, not the acceptor.
HandleAccept(r, q) ==
  LET l == <<q, r, "Accept">>
      m == Head(net[l])
      old == insts[r][m.inst]
      new == IF \/ ~ Known(r, m.inst)
                \/ m.bal >= old.bal /\ old.status # "COMMITTED"
             THEN [cmds |-> m.cmds, bal |-> m.bal, vbal |-> m.bal,
                   status |-> "ACCEPTED"]
             ELSE old
  IN /\ Receives(r, q, "Accept")
     /\ maxRecvBallot' = Received(r, m.bal)
     /\ crtInstance' = Covering(r, m.inst)
     /\ insts' = [insts EXCEPT ![r][m.inst] = new]
     /\ net' = Sent(Taken(l), r, q, "AcceptReply",
                    [inst |-> m.inst, bal |-> new.bal])
     /\ UNCHANGED <<isLeader, defaultBallot, smallestDefaultBallot, lbs,
                    proposeChan, toRecover, timeouts, executed, replied,
                    panicked>>

\* handleCommit(): the batch r itself had for the instance is proposed anew.
HandleCommit(r, q) ==
  LET l == <<q, r, "Commit">>
      m == Head(net[l])
      old == InstanceOrOpened(r, m.inst)
      ignored == old.status = "COMMITTED" \/ m.bal < old.bal
      own == OwnBatch(r, m.inst)
  IN /\ Receives(r, q, "Commit")
     /\ crtInstance' = Covering(r, m.inst)
     /\ insts' = [insts EXCEPT ![r][m.inst] =
          IF ignored THEN old
          ELSE [cmds |-> m.cmds, bal |-> m.bal, vbal |-> m.bal,
                status |-> "COMMITTED"]]
     /\ \/ /\ ~ ignored /\ own # None
           /\ proposeChan' = [proposeChan EXCEPT ![r] = @ \cup {own}]
           /\ lbs' = [lbs EXCEPT ![r][m.inst].proposals = None]
        \/ /\ ignored \/ own = None
           /\ UNCHANGED <<proposeChan, lbs>>
     /\ net' = Taken(l)
     /\ UNCHANGED <<isLeader, maxRecvBallot, defaultBallot,
                    smallestDefaultBallot, toRecover, timeouts, executed,
                    replied, panicked>>

\* handleCommitShort(): commits whatever the replica holds for the instance.
HandleCommitShort(r, q) ==
  LET l == <<q, r, "CommitShort">>
      m == Head(net[l])
      old == insts[r][m.inst]
  IN /\ Receives(r, q, "CommitShort")
     /\ \/ /\ Known(r, m.inst)
           /\ old.status # "COMMITTED" /\ m.bal >= old.bal
           /\ insts' = [insts EXCEPT ![r][m.inst] =
                          [old EXCEPT !.status = "COMMITTED", !.bal = m.bal]]
        \/ /\ Known(r, m.inst) => old.status = "COMMITTED" \/ m.bal < old.bal
           /\ UNCHANGED insts
     /\ net' = Taken(l)
     /\ UNCHANGED <<isLeader, crtInstance, maxRecvBallot, defaultBallot,
                    smallestDefaultBallot, lbs, proposeChan, toRecover,
                    timeouts, executed, replied, panicked>>

----------------------------------------------------------------------------
\* The batch a leader proposes once it may: its clients' or a no-op.  What
\* the acceptors reported (lb.cmds) is not looked at.
ChosenValue(lb) == IF lb.proposals = None THEN Noop ELSE lb.proposals

\* The lowest default ballot known at r, if enough replicas have one, raises
\* smallestDefaultBallot.
Followed(r, defaults) ==
  LET known == {q \in Replicas : defaults[q] # -1}
      low == CHOOSE b \in {defaults[q] : q \in known} :
               \A q \in known : b <= defaults[q]
  IN IF known # {} /\ Cardinality(known) >= ReadQuorumSize - 1
     THEN Larger(smallestDefaultBallot[r], low)
     ELSE smallestDefaultBallot[r]

\* handlePrepareReply(): the message is for an older ballot, or refuses this
\* one, or promises it.  From the quorum-th promise on, every promise makes
\* the leader accept and broadcast its batch, even in a committed instance.
HandlePrepareReply(r, q) ==
  LET l == <<q, r, "PrepareReply">>
      m == Head(net[l])
      lb == lbs[r][m.inst]
      b == MadeBallot(r, Larger(maxRecvBallot[r], m.bal))
      heard == [lb EXCEPT !.prepareOKs = @ + 1,
                          !.ballot = Larger(@, m.vbal),
                          !.cmds = IF m.vbal > lb.ballot THEN m.cmds ELSE @]
      v == ChosenValue(lb)
      defaults == [defaultBallot[r] EXCEPT ![q] = Larger(@, m.default)]
  IN /\ Receives(r, q, "PrepareReply")
     /\ maxRecvBallot' = Received(r, m.bal)
     /\ \/ /\ m.bal < lb.lastTried
           /\ net' = Taken(l)
           /\ UNCHANGED <<defaultBallot, smallestDefaultBallot, insts, lbs>>
        \/ /\ m.bal > lb.lastTried
           /\ \/ /\ isLeader[r] /\ lb.nacks + 2 > N \div 2
                 /\ b <= MaxBallot
                 /\ lbs' = [lbs EXCEPT ![r][m.inst] =
                      [lb EXCEPT !.nacks = @ + 1, !.lastTried = b]]
                 /\ net' = Broadcast(Taken(l), r, "Prepare",
                                     Prepare(m.inst, b))
              \/ /\ ~ isLeader[r] \/ lb.nacks + 2 <= N \div 2
                 /\ lbs' = [lbs EXCEPT ![r][m.inst].nacks = @ + 1]
                 /\ net' = Taken(l)
           /\ UNCHANGED <<defaultBallot, smallestDefaultBallot, insts>>
        \/ /\ m.bal = lb.lastTried
           /\ defaultBallot' = [defaultBallot EXCEPT ![r] = defaults]
           /\ \/ /\ heard.prepareOKs + 1 >= ReadQuorumSize
                 /\ lbs' = [lbs EXCEPT ![r][m.inst] =
                      [heard EXCEPT !.cmds = v]]
                 /\ insts' = [insts EXCEPT ![r][m.inst] =
                      [@ EXCEPT !.cmds = v, !.bal = lb.lastTried,
                                !.status = "ACCEPTED"]]
                 /\ smallestDefaultBallot' =
                      [smallestDefaultBallot EXCEPT ![r] =
                         Followed(r, defaults)]
                 /\ net' = Broadcast(Taken(l), r, "Accept",
                                     Accept(m.inst, lb.lastTried, v))
              \/ /\ heard.prepareOKs + 1 < ReadQuorumSize
                 /\ lbs' = [lbs EXCEPT ![r][m.inst] = heard]
                 /\ net' = Taken(l)
                 /\ UNCHANGED <<insts, smallestDefaultBallot>>
     /\ UNCHANGED <<isLeader, crtInstance, proposeChan, toRecover, timeouts,
                    executed, replied, panicked>>

\* handleAcceptReply(): counts acceptances until the instance is committed.
\* On enough refusals a leader means to try a higher ballot, but makeBallot()
\* is given the refusing ballot for an instance: it changes the bookkeeping
\* of that instance, and dereferences nil if there is none.
HandleAcceptReply(r, q) ==
  LET l == <<q, r, "AcceptReply">>
      m == Head(net[l])
      lb == lbs[r][m.inst]
      inst == insts[r][m.inst]
      commits == lb.acceptOKs + 2 >= WriteQuorumSize
      retries == isLeader[r] /\ lb.nacks + 2 >= WriteQuorumSize
      hasLb == m.bal \in Instances /\ lbs[r][m.bal] # NoBookkeeping
      b == MadeBallot(r, Larger(maxRecvBallot[r], m.bal))
      nacked == [lbs EXCEPT ![r][m.inst].nacks = @ + 1]
  IN /\ Receives(r, q, "AcceptReply")
     /\ maxRecvBallot' = Received(r, m.bal)
     /\ \/ /\ inst.status = "COMMITTED" \/ m.bal < lb.lastTried
           /\ net' = Taken(l)
           /\ UNCHANGED <<insts, lbs, panicked>>
        \/ /\ inst.status # "COMMITTED" /\ m.bal > lb.lastTried
           /\ \/ /\ retries /\ hasLb /\ b <= MaxBallot
                 /\ lbs' = [nacked EXCEPT ![r][m.bal].lastTried = b]
                 /\ net' = Broadcast(Taken(l), r, "Prepare",
                             Prepare(m.inst, lbs'[r][m.inst].lastTried))
                 /\ UNCHANGED panicked
              \/ /\ retries /\ ~ hasLb
                 /\ panicked' = panicked \cup {r}
                 /\ net' = Taken(l)
                 /\ UNCHANGED lbs
              \/ /\ ~ retries
                 /\ lbs' = nacked
                 /\ net' = Taken(l)
                 /\ UNCHANGED panicked
           /\ UNCHANGED insts
        \/ /\ inst.status # "COMMITTED" /\ m.bal = lb.lastTried
           /\ lbs' = [lbs EXCEPT ![r][m.inst].acceptOKs = @ + 1]
           /\ insts' = [insts EXCEPT ![r][m.inst].status =
                          IF commits THEN "COMMITTED" ELSE @]
           /\ net' = IF commits
                     THEN Broadcast(Taken(l), r, "CommitShort",
                                    Prepare(m.inst, inst.bal))
                     ELSE Taken(l)
           /\ UNCHANGED panicked
     /\ UNCHANGED <<isLeader, crtInstance, defaultBallot,
                    smallestDefaultBallot, proposeChan, toRecover, timeouts,
                    executed, replied>>

\* recover(): r, leader or not, prepares instance i with a ballot of its own.
\* It keeps the bookkeeping it has, counters included, and promises nothing.
Recover(r, i) ==
  LET b == MadeBallot(r, maxRecvBallot[r])
      lb == BookkeepingOrNew(r, i)
  IN /\ r \notin panicked
     /\ i \in toRecover[r]
     /\ b <= MaxBallot
     /\ toRecover' = [toRecover EXCEPT ![r] = @ \ {i}]
     /\ insts' = [insts EXCEPT ![r][i] = InstanceOrOpened(r, i)]
     /\ lbs' = [lbs EXCEPT ![r][i] = [lb EXCEPT !.lastTried = b]]
     /\ net' = Broadcast(net, r, "Prepare", Prepare(i, b))
     /\ UNCHANGED <<isLeader, crtInstance, maxRecvBallot, defaultBallot,
                    smallestDefaultBallot, proposeChan, timeouts, executed,
                    replied, panicked>>

----------------------------------------------------------------------------
\* executeCommands(): the next instance to execute, and whether it is ready.
NextToExecute(r) == Len(executed[r])
ReadyUnchecked(r) ==
  LET i == NextToExecute(r)
  IN i \in Instances /\ Known(r, i) /\ insts[r][i].status = "COMMITTED"
ReadyAccepted(r) ==
  LET i == NextToExecute(r)
  IN i \in Instances /\ Known(r, i) /\ insts[r][i].cmds # None
Ready(r) ==
  LET i == NextToExecute(r)
  IN i \in Instances /\ Known(r, i)
     /\ insts[r][i].cmds # None /\ insts[r][i].status = "COMMITTED"

\* The clients whose batch r has bookkept get the results of what it executes.
Execute(r) ==
  LET i == NextToExecute(r)
      v == insts[r][i].cmds
      own == OwnBatch(r, i)
  IN /\ r \in Executing \ panicked
     /\ i <= crtInstance[r] /\ Ready(r)
     /\ executed' = [executed EXCEPT ![r] = Append(@, v)]
     /\ replied' = [replied EXCEPT ![r] =
          IF own = None THEN @ ELSE @ \cup {<<own, v>>}]
     /\ UNCHANGED <<isLeader, crtInstance, maxRecvBallot, defaultBallot,
                    smallestDefaultBallot, insts, lbs, proposeChan,
                    toRecover, timeouts, panicked, net>>

\* The executor has waited for COMMIT_GRACE_PERIOD: every instance from the
\* one it waits for on is to be recovered.
Timeout(r) ==
  /\ r \in Executing \ panicked
  /\ NextToExecute(r) <= crtInstance[r] /\ ~ Ready(r)
  /\ timeouts[r] < MaxTimeouts
  /\ timeouts' = [timeouts EXCEPT ![r] = @ + 1]
  /\ toRecover' = [toRecover EXCEPT ![r] =
                     @ \cup NextToExecute(r) .. crtInstance[r]]
  /\ UNCHANGED <<isLeader, crtInstance, maxRecvBallot, defaultBallot,
                 smallestDefaultBallot, insts, lbs, proposeChan, executed,
                 replied, panicked, net>>

\* The master has lost sight of the leader and appoints r; nothing ever makes
\* a replica step down.
BeTheLeader(r) ==
  /\ r \in NewLeaders \ panicked
  /\ ~ isLeader[r]
  /\ isLeader' = [isLeader EXCEPT ![r] = TRUE]
  /\ UNCHANGED <<crtInstance, maxRecvBallot, defaultBallot,
                 smallestDefaultBallot, insts, lbs, proposeChan, toRecover,
                 timeouts, executed, replied, panicked, net>>

Handle(r, q) ==
  \/ HandlePrepare(r, q)
  \/ HandlePrepareReply(r, q)
  \/ HandleAccept(r, q)
  \/ HandleAcceptReply(r, q)
  \/ HandleCommit(r, q)
  \/ HandleCommitShort(r, q)

Step ==
  \/ \E r \in Replicas, c \in Commands : Propose(r, c) \/ Refuse(r, c)
  \/ \E r, q \in Replicas : Handle(r, q)
  \/ \E r \in Replicas, i \in Instances : Recover(r, i)
  \/ \E r \in Replicas : Execute(r) \/ Timeout(r)

Next == Step \/ \E r \in Replicas : BeTheLeader(r)

Spec == Init /\ [][Next]_vars

----------------------------------------------------------------------------
\* Agreement: no two replicas execute different batches in an instance.
Agreement ==
  \A r, s \in Replicas :
    \A i \in 1 .. Len(executed[r]) :
      i <= Len(executed[s]) => executed[r][i] = executed[s][i]

\* A batch is executed only when a write quorum has accepted it in its
\* instance, so that no read quorum can miss it (handleAcceptReply()).
Accepted(r, i) ==
  {q \in Replicas :
     /\ Known(q, i - 1)
     /\ insts[q][i - 1].status \in {"ACCEPTED", "COMMITTED"}
     /\ insts[q][i - 1].cmds = executed[r][i]}
QuorumBacked ==
  \A r \in Replicas :
    \A i \in 1 .. Len(executed[r]) :
      Cardinality(Accepted(r, i)) >= WriteQuorumSize

\* A client is answered with the result of its own batch (executeCommands()
\* pairs inst.lb.clientProposals with inst.cmds by position).
RepliesMatch ==
  \A r \in Replicas : \A p \in replied[r] : p[1] = p[2]

\* The next instance a replica opens is beyond all it has a record of, so
\* handlePropose(), which does not look, never overwrites a promise.
NoOverwrite ==
  \A r \in Replicas, i \in Instances : Known(r, i) => i <= crtInstance[r]

\* No two replicas ever work for the same ballot (makeBallot()), whoever
\* leads, recovers or retries.
BallotsOwned ==
  \A l \in Links :
    l[3] \in {"Prepare", "Accept"} =>
      \A k \in 1 .. Len(net[l]) : net[l][k].bal % N = l[1]

\* A client is never forgotten: its batch, once sent to the leader, waits in
\* ProposeChan or is the business of one instance, whatever recoveries and
\* Commits take the instance from it (handleCommit()).  It may well be
\* proposed again, executed and answered a second time: a late promise (line
\* 597) or a Commit (line 509) brings back what was executed already.
Concerned(c) == {i \in Instances : lbs[InitialLeader][i] # NoBookkeeping
                                   /\ lbs[InitialLeader][i].proposals = c}
ClientsKept ==
  \A c \in Proposals[InitialLeader] :
    IF c \in proposeChan[InitialLeader] THEN Concerned(c) = {}
    ELSE Cardinality(Concerned(c)) = 1

----------------------------------------------------------------------------
(***************************************************************************)
(* The inductive invariant behind these properties, whoever leads and      *)
(* recovers.                                                               *)
(***************************************************************************)
OnLink(l) == {net[l][k] : k \in 1 .. Len(net[l])}

\* The bookkeeping of an instance comes with its record, and a ballot tried
\* is the replica's own.
BookkeepingKnown ==
  \A r \in Replicas, i \in Instances :
    Bookkept(r, i) => Known(r, i) /\ lbs[r][i].lastTried % N = r

\* Only opened instances are to be recovered.
RecoversOpened ==
  \A r \in Replicas : \A i \in toRecover[r] : i <= crtInstance[r]

\* Who asks keeps books, so that an answer never meets a nil pointer, and asks
\* with a ballot of its own.
MessagesOwned ==
  \A l \in Links : \A m \in OnLink(l) :
    /\ l[3] \in {"Prepare", "Accept"} =>
         Bookkept(l[1], m.inst) /\ m.bal % N = l[1]
    /\ l[3] \in {"PrepareReply", "AcceptReply"} => Bookkept(l[2], m.inst)

\* ClientsKept, without counting.
ClientsOnce ==
  /\ isLeader[InitialLeader]
  /\ \A c \in Commands :
       /\ c \in proposeChan[InitialLeader] => Concerned(c) = {}
       /\ c \in Proposals[InitialLeader] =>
            c \in proposeChan[InitialLeader] \/ Concerned(c) # {}
       /\ \A i, j \in Concerned(c) : i = j

IInv ==
  /\ TypeOK /\ NoOverwrite /\ BookkeepingKnown /\ RecoversOpened
  /\ MessagesOwned /\ ClientsOnce

----------------------------------------------------------------------------
(***************************************************************************)
(* What holds besides in a group of at most six replicas whose leader is   *)
(* never replaced and whose executors never give up waiting.  In a larger  *)
(* group the answer to a late Prepare may take the clients' batch from an  *)
(* instance, and a promise that is later still replace it by a no-op.      *)
(***************************************************************************)
Steady == NewLeaders = {} /\ MaxTimeouts = 0 /\ F <= 2
Peers == Replicas \ {InitialLeader}

\* What the leader has proposed in an instance, if anything, and the
\* promises it has counted.
Proposed(i) == insts[InitialLeader][i].cmds
Promises(i) == lbs[InitialLeader][i].prepareOKs
BatchTaken(i) == lbs[InitialLeader][i].proposals = None

\* In the network n, the instances of the messages on link l, and that no two
\* of these are about the same one.
InstsOn(n, l) == {n[l][k].inst : k \in 1 .. Len(n[l])}
Once(n, l) ==
  \A j, k \in 1 .. Len(n[l]) : n[l][j].inst = n[l][k].inst => j = k

\* The instances of the messages between the leader and peer q.
Asked(q) == InstsOn(net, <<InitialLeader, q, "Prepare">>)
Promised(q) == InstsOn(net, <<q, InitialLeader, "PrepareReply">>)
Corrected(q) == InstsOn(net, <<q, InitialLeader, "Commit">>)
Accepting(q) == InstsOn(net, <<q, InitialLeader, "AcceptReply">>)
Shortened(q) == InstsOn(net, <<InitialLeader, q, "CommitShort">>)

\* There is one leader and one ballot, the leader's identity.
OneBallot ==
  /\ \A r \in Replicas :
       /\ isLeader[r] => r = InitialLeader
       /\ toRecover[r] = {}
       /\ maxRecvBallot[r] \in {-1, InitialLeader}
       /\ \A q \in Replicas : defaultBallot[r][q] \in {-1, InitialLeader}
  /\ \A r \in Replicas, i \in Instances :
       Bookkept(r, i) => /\ r = InitialLeader
                         /\ lbs[r][i].lastTried = InitialLeader

\* A message on link l is of the leader's ballot, to the leader or from it,
\* and carries what the leader has proposed.
FromLeader(l, m) ==
  /\ m.bal = InitialLeader
  /\ InitialLeader = IF l[3] \in {"Prepare", "Accept", "CommitShort"}
                     THEN l[1] ELSE l[2]
  /\ l[3] = "PrepareReply" => m.default \in {-1, InitialLeader}
  /\ l[3] \in {"Accept", "Commit"} =>
       /\ Known(InitialLeader, m.inst)
       /\ m.cmds = Proposed(m.inst) /\ m.cmds # None
MessagesOfLeader == \A l \in Links : \A m \in OnLink(l) : FromLeader(l, m)

\* Of the messages of the first round trip of an instance, none comes twice.
RoundTripsOnce ==
  \A l \in Links : l[3] \in {"Prepare", "PrepareReply", "Commit"} => Once(net, l)

\* The leader has proposed its clients' batch, in an instance it opened.
LeaderProposes(i) ==
  Known(InitialLeader, i) =>
    /\ Bookkept(InitialLeader, i)
    /\ IF Proposed(i) = None
       THEN /\ insts[InitialLeader][i].status = "PREPARING"
            /\ insts[InitialLeader][i].bal \in {-1, InitialLeader}
       ELSE /\ insts[InitialLeader][i].status \in {"ACCEPTED", "COMMITTED"}
            /\ insts[InitialLeader][i].bal = InitialLeader
    /\ ~ BatchTaken(i) =>
         Proposed(i) \in {None, lbs[InitialLeader][i].proposals}

\* q has accepted what the leader proposed in instance i.
HasAccepted(q, i) ==
  /\ Known(q, i)
  /\ insts[q][i].cmds = Proposed(i) /\ insts[q][i].cmds # None
  /\ insts[q][i].vbal = InitialLeader
  /\ insts[q][i].status \in {"ACCEPTED", "COMMITTED"}
SomePeerAccepted(i) == \E q \in Peers : HasAccepted(q, i)

\* A peer has the leader's value or none, and has it already when it has not
\* yet read the leader's Prepare.
PeersCopy(i) ==
  \A q \in Peers : Known(q, i) =>
    /\ Known(InitialLeader, i)
    /\ insts[q][i].bal = InitialLeader
    /\ \/ HasAccepted(q, i)
       \/ /\ insts[q][i].cmds = None /\ i \notin Asked(q)
          /\ insts[q][i].status # "ACCEPTED"

\* A peer answers one Prepare of an instance, once, and in one way.
RoundTrip(i) ==
  \A q \in Peers :
    /\ ~ (i \in Asked(q) /\ i \in Promised(q))
    /\ ~ (i \in Asked(q) /\ i \in Corrected(q))
    /\ ~ (i \in Promised(q) /\ i \in Corrected(q))
    /\ i \in Asked(q) \/ i \in Promised(q) => Known(InitialLeader, i)
    /\ i \in Corrected(q) =>
         HasAccepted(q, i) /\ insts[q][i].status = "COMMITTED"

\* The peers whose round trip for instance i is over.
Finished(i) ==
  {q \in Peers : i \notin Asked(q) /\ i \notin Promised(q) /\ i \notin Corrected(q)}

\* Each promise counted is a peer's whose round trip is over, and a batch
\* that was taken back is due to one that is not among them.
PromisesCounted(i) ==
  Known(InitialLeader, i) =>
    Promises(i) + (IF BatchTaken(i) THEN 1 ELSE 0) <= Cardinality(Finished(i))

\* An instance that was prepared is proposed after enough promises, is set
\* back to ACCEPTED after one more, and only then loses its batch.
ProposedAfterPromises(i) ==
  Known(InitialLeader, i) =>
    /\ Proposed(i) # None =>
         Promises(i) >= ReadQuorumSize - 1 \/ Finished(i) = Peers
    /\ BatchTaken(i) => Promises(i) >= ReadQuorumSize /\ Proposed(i) # None
Decided(q, i) ==
  i \in Shortened(q) \/ (Known(q, i) /\ insts[q][i].status = "COMMITTED")
DecidedByLeader(i) ==
  \A q \in Peers : Decided(q, i) =>
    /\ Known(InitialLeader, i) /\ Proposed(i) # None
    /\ \/ insts[InitialLeader][i].status = "COMMITTED"
       \/ Promises(i) >= ReadQuorumSize

\* What is committed, or so much as answered, a peer has accepted.
CommitsAccepted(i) ==
  /\ (Known(InitialLeader, i) /\ insts[InitialLeader][i].status = "COMMITTED")
       => SomePeerAccepted(i)
  /\ \A q \in Peers :
       Decided(q, i) \/ i \in Accepting(q) => SomePeerAccepted(i)

InstanceSteady(i) ==
  /\ LeaderProposes(i) /\ PeersCopy(i) /\ RoundTrip(i) /\ PromisesCounted(i)
  /\ ProposedAfterPromises(i) /\ DecidedByLeader(i) /\ CommitsAccepted(i)

\* What is executed is what the leader proposed and a peer accepted.
ExecutedProposed ==
  \A r \in Replicas : \A k \in 1 .. Len(executed[r]) :
    /\ k - 1 \in Instances /\ Known(InitialLeader, k - 1)
    /\ executed[r][k] = Proposed(k - 1) /\ executed[r][k] # None
    /\ SomePeerAccepted(k - 1)

SteadyInv ==
  /\ OneBallot /\ MessagesOfLeader /\ RoundTripsOnce
  /\ \A i \in Instances : InstanceSteady(i)
  /\ ExecutedProposed /\ RepliesMatch
FullInv == IInv /\ (Steady => SteadyInv)

=============================================================================
