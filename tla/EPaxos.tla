------------------------------- MODULE EPaxos -------------------------------
(***************************************************************************)
(* EPaxos as epaxos/epaxos.go and epaxos/exec.go have it, with the sizes   *)
(* of quorums of replica/replica.go.                                       *)
(*                                                                         *)
(* Every replica leads the instances of its own row.  It pre-accepts a     *)
(* command with the instances of conflicting commands as dependencies, and *)
(* commits it when a fast quorum gives the same attributes (sequence       *)
(* number and dependencies), or after an Accept phase.  The executor, a    *)
(* goroutine of its own, finds the strongly connected components of the    *)
(* graph of committed instances and executes them, dependencies first.  It *)
(* also asks the event loop to recover instances that it waited for too    *)
(* long.                                                                   *)
(*                                                                         *)
(* A step is a handler of the event loop or a call of the executor.        *)
(* Messages of a type between two replicas keep their order: each type has *)
(* a channel of its own, so that types overtake one another.               *)
(*                                                                         *)
(* Not modelled because nothing depends on them: the durable log, which is *)
(* off, CommittedUpTo, which counts with more than seven replicas, nacks,  *)
(* which never exceed what the proposer tried.  TryPreAccept is never sent *)
(* (sub-case 4 of a recovery repeats the condition of sub-case 3).  A      *)
(* batch of commands is one of them.                                       *)
(***************************************************************************)
EXTENDS Integers, Sequences, FiniteSets, SequencesExt, FiniteSetsExt

CONSTANTS
    Groups,  \* groups of replicas to check, see the variable group
    Reads,   \* commands that only read
    Noop,    \* the batch of state.NOOP()
    Empty,   \* a batch without commands: what nil becomes on the wire
    Nil      \* nil

Commands == UNION {UNION {ToSet(g.proposals[r]) : r \in DOMAIN g.proposals} : g \in Groups}

ASSUME GroupsAssumption ==
    \A g \in Groups :
        /\ g.size \in Nat \ {0}
        /\ g.proposals \in [0..(g.size - 1) -> Seq(Commands)]
        /\ g.mayCrash \subseteq 0..(g.size - 1)

ASSUME CommandsAssumption == Nil \notin Commands /\ Noop \notin Commands /\ Empty \notin Commands

VARIABLES
    group,   \* the group: size, thrifty, leader (as the master has it), proposals of each
             \* replica's clients, mayCrash, recoverers, the number of recoveries of each,
             \* falseAlarms: recovery may start when the instance's replica is only late
    node,    \* the state of each replica, see NewNode
    net,     \* messages under way: channel -> sequence
    crashed  \* replicas that have stopped

vars == <<group, node, net, crashed>>

Replicas == 0..(group.size - 1)

F == (group.size - 1) \div 2
FastQuorumSize == F + (F + 1) \div 2
SlowQuorumSize == (group.size + 1) \div 2

\* The status of an instance.
NONE == 0
PREACCEPTED == 1
PREACCEPTED_EQ == 2
ACCEPTED == 3
COMMITTED == 4
EXECUTED == 5

NilDeps == [q \in Replicas |-> -1]

\* The map m after m[k] = v.
With(m, k, v) == [e \in DOMAIN m \cup {k} |-> IF e = k THEN v ELSE m[e]]

NewInstance(cmds, bal, status, seq, deps) ==
    [cmds |-> cmds, bal |-> bal, vbal |-> bal, status |-> status, seq |-> seq, deps |-> deps]

NewInstanceDefault == NewInstance(Nil, -1, NONE, -1, Nil)

NewLeaderBookkeeping(proposals, ballot, cmds, status, deps) ==
    [clientProposals |-> proposals, ballot |-> -1, allEqual |-> TRUE, preAcceptOKs |-> 0,
     acceptOKs |-> 0, prepareReplies |-> <<>>, preparing |-> TRUE, lastTriedBallot |-> ballot,
     cmds |-> cmds, status |-> status, seq |-> -1, deps |-> deps, leaderResponded |-> FALSE]

(***************************************************************************)
(* All commands are of one key but the no-op, whose key is another one.    *)
(* NoSeq is the absence of a key in maxSeqPerKey.                          *)
(***************************************************************************)
Keys == {"key", "noop"}
Key(c) == IF c = Noop THEN "noop" ELSE "key"
IsRead(c) == c \in Reads
NoSeq == -2

NewNode(proposals) ==
    [todo |-> proposals,                \* ProposeChan
     inst |-> <<>>,                     \* InstanceSpace: instance -> its record
     lb |-> <<>>,                       \* their leader's bookkeeping
     crtInstance |-> NilDeps,
     last |-> [k \in Keys |-> NilDeps],       \* conflicts
     lastWrite |-> [k \in Keys |-> NilDeps],
     maxSeqPerKey |-> [k \in Keys |-> NoSeq],
     maxRecvBallot |-> -1,
     created |-> <<>>,                  \* when an instance's record was made, counted in its row
     executed |-> <<>>,                 \* instances in the order of their execution
     recoveries |-> 0,
     asleep |-> FALSE,                  \* the executor found nothing to execute
     torn |-> FALSE]                    \* executed an instance while its attributes were written

Init ==
    /\ group \in Groups
    /\ node = [r \in Replicas |-> NewNode(group.proposals[r])]
    /\ net = <<>>
    /\ crashed = {}

-----------------------------------------------------------------------------
(***************************************************************************)
(* Messages.  Broadcasts go to the first of the preferred peers that are   *)
(* believed to be alive; a replica believes that of all that have not      *)
(* crashed, and of the others until their connections break.               *)
(***************************************************************************)
Channel(type, from, to) == [type |-> type, from |-> from, to |-> to]

Queue(c) == IF c \in DOMAIN net THEN net[c] ELSE <<>>

\* The preferred peers of a replica are those that follow it.
Peer(r, i) == (r + i) % group.size

FirstAlive(r, n, dead) ==
    LET alive == {i \in 1..(group.size - 1) : Peer(r, i) \notin dead}
    IN  {Peer(r, i) : i \in {j \in alive : Cardinality(alive \cap 1..j) <= n}}

ToAll(type, r, body, dead) ==
    {<<Channel(type, r, q), body>> : q \in FirstAlive(r, group.size - 1, dead)}

PreAcceptPeers == IF group.thrifty THEN FastQuorumSize - 1 ELSE group.size - 1
AcceptPeers == IF group.thrifty THEN group.size \div 2 ELSE group.size - 1

PreAccepts(n, r, id, dead) ==
    LET lb == n.lb[id]
    IN  {<<Channel("PreAccept", r, q),
           [id |-> id, ballot |-> lb.lastTriedBallot, cmds |-> lb.cmds, seq |-> lb.seq, deps |-> lb.deps]>> :
             q \in FirstAlive(r, PreAcceptPeers, dead)}

Accepts(n, r, id, dead) ==
    LET lb == n.lb[id]
    IN  {<<Channel("Accept", r, q),
           [id |-> id, ballot |-> lb.lastTriedBallot, seq |-> lb.seq, deps |-> lb.deps]>> :
             q \in FirstAlive(r, AcceptPeers, dead)}

Commits(n, r, id, dead) ==
    LET lb == n.lb[id]
    IN  ToAll("Commit", r, [id |-> id, ballot |-> lb.ballot, cmds |-> lb.cmds, seq |-> lb.seq,
                            deps |-> lb.deps], dead)

-----------------------------------------------------------------------------
(***************************************************************************)
(* Instances.                                                              *)
(***************************************************************************)
Inst(n, id) == IF id \in DOMAIN n.inst THEN n.inst[id] ELSE NewInstanceDefault

Lb(n, id) == IF id \in DOMAIN n.lb THEN n.lb[id] ELSE Nil

Row(id) == id[1]
Number(id) == id[2]

\* proposeTime, which only orders the instances of a row.
NextTime(n, row) == 1 + Max({0} \cup {n.created[e] : e \in {e \in DOMAIN n.created : Row(e) = row}})

Created(n, id) == [n EXCEPT !.created = With(@, id, NextTime(n, Row(id)))]

Put(n, id, inst) ==
    [(IF id \in DOMAIN n.inst THEN n ELSE Created(n, id)) EXCEPT !.inst = With(@, id, inst)]

PutLb(n, id, lb) == [n EXCEPT !.lb = With(@, id, lb)]

Seen(n, ballot) == [n EXCEPT !.maxRecvBallot = Max({@, ballot})]

Reached(n, id) == [n EXCEPT !.crtInstance[Row(id)] = Max({@, Number(id)})]

IsCommitted(n, id) == Inst(n, id).status >= COMMITTED /\ Inst(n, id).cmds # Nil

(***************************************************************************)
(* updateConflicts, updateAttributes, mergeAttributes.  Attributes are a   *)
(* sequence number and dependencies.                                       *)
(***************************************************************************)
UpdateConflicts(n, cmd, id, seq) ==
    IF cmd = Empty THEN n
    ELSE [n EXCEPT !.last[Key(cmd)][Row(id)] = Max({@, Number(id)}),
                   !.lastWrite[Key(cmd)][Row(id)] = IF IsRead(cmd) THEN @ ELSE Max({@, Number(id)}),
                   !.maxSeqPerKey[Key(cmd)] = Max({@, seq})]

Conflicts(n, cmd) ==
    IF cmd = Empty THEN NilDeps
    ELSE IF IsRead(cmd) THEN n.lastWrite[Key(cmd)] ELSE n.last[Key(cmd)]

\* The rows whose last conflicting instance is not among the dependencies; a replica that
\* is not the owner of the instance leaves the owner's row as it is.
Raised(n, r, cmd, deps, id) ==
    {q \in Replicas : (r = Row(id) \/ q # Row(id)) /\ Conflicts(n, cmd)[q] > deps[q]}

MaxSeq(n, cmd) == IF cmd = Empty THEN NoSeq ELSE n.maxSeqPerKey[Key(cmd)]

RaisedSeq(n, r, cmd, seq, deps, id) ==
    Max({seq} \cup {n.inst[<<q, Conflicts(n, cmd)[q]>>].seq + 1 : q \in Raised(n, r, cmd, deps, id)})

\* A mistake: conflicts are looked for in the row of the command's leader only.
UpdateAttributesOfOwner(n, r, cmd, seq, deps, id) ==
    [seq |-> Max({RaisedSeq(n, r, cmd, seq, deps, id), MaxSeq(n, cmd) + 1}), deps |-> deps, changed |-> FALSE]

UpdateAttributes(n, r, cmd, seq, deps, id) ==
    [seq |-> Max({RaisedSeq(n, r, cmd, seq, deps, id), MaxSeq(n, cmd) + 1}),
     deps |-> [q \in Replicas |-> IF q \in Raised(n, r, cmd, deps, id) THEN Conflicts(n, cmd)[q] ELSE deps[q]],
     changed |-> \/ Raised(n, r, cmd, deps, id) # {}
                 \/ RaisedSeq(n, r, cmd, seq, deps, id) <= MaxSeq(n, cmd)]

EqualAttributes(r, a, b) == a.seq = b.seq /\ \A q \in Replicas \ {r} : a.deps[q] = b.deps[q]

MergedDeps(r, deps1, deps2) ==
    [q \in Replicas |-> IF q = r THEN deps1[q] ELSE Max({deps1[q], deps2[q]})]

-----------------------------------------------------------------------------
(***************************************************************************)
(* Phase 1: startPhase1, on behalf of replica r whose state is n.  The     *)
(* sequence number of the leader's bookkeeping, which it sends, is -1.     *)
(***************************************************************************)
InPhase1(n, r, id, ballot, cmds, proposals, attr) ==
    UpdateConflicts(
        PutLb([Created(n, id) EXCEPT !.inst =
                   With(@, id, NewInstance(cmds, ballot, PREACCEPTED, attr.seq, attr.deps))],
              id, NewLeaderBookkeeping(proposals, ballot, cmds, PREACCEPTED, attr.deps)),
        cmds, id, attr.seq)

StartPhase1(n, r, id, ballot, cmds, proposals) ==
    InPhase1(n, r, id, ballot, cmds, proposals, UpdateAttributes(n, r, cmds, 0, NilDeps, id))

\* handlePropose
NextId(n, r) == <<r, n.crtInstance[r] + 1>>

Proposed(n, r) ==
    StartPhase1([n EXCEPT !.todo = Tail(@), !.crtInstance[r] = @ + 1], r, NextId(n, r), r,
                Head(n.todo), Head(n.todo))

(***************************************************************************)
(* handlePreAccept, for a ballot that is not too low.                      *)
(***************************************************************************)
PreAcceptedAs(n, m, attr) ==
    UpdateConflicts(
        Put(n, m.id, NewInstance(m.cmds, m.ballot, IF attr.changed THEN PREACCEPTED ELSE PREACCEPTED_EQ,
                                 attr.seq, attr.deps)),
        m.cmds, m.id, m.seq)

PreAccepted(n, r, m) ==
    IF Inst(n, m.id).status >= ACCEPTED THEN [n EXCEPT !.inst[m.id].bal = m.ballot]
    ELSE PreAcceptedAs(n, m, UpdateAttributes(n, r, m.cmds, m.seq, m.deps, m.id))

PreAcceptReply(n, id) ==
    LET i == n.inst[id]
    IN  [id |-> id, ballot |-> i.bal, vballot |-> i.vbal, seq |-> i.seq, deps |-> i.deps, status |-> i.status]

(***************************************************************************)
(* handlePreAcceptReply.  The first reply replaces the leader's own        *)
(* attributes, the others are merged into it.                              *)
(***************************************************************************)
IsPreAccepting(lb) == lb.status \in {PREACCEPTED, PREACCEPTED_EQ}

Counted(lb, m) ==
    IF m.vballot <= lb.ballot THEN [lb EXCEPT !.preAcceptOKs = @ + 1]
    ELSE [lb EXCEPT !.preAcceptOKs = @ + 1, !.ballot = m.vballot, !.seq = m.seq, !.deps = m.deps,
                    !.status = m.status]

Merged(r, lb, m) ==
    [lb EXCEPT !.allEqual = @ /\ ((group.size <= 3 /\ group.thrifty) \/ EqualAttributes(r, lb, m)),
               !.seq = IF IsPreAccepting(lb) THEN Max({@, m.seq}) ELSE @,
               !.deps = IF IsPreAccepting(lb) THEN MergedDeps(r, @, m.deps) ELSE @]

IsInitialBallot(ballot, id) == ballot = Row(id)

Decided(lb, id) ==
    IF lb.preAcceptOKs < FastQuorumSize - 1 THEN lb
    ELSE [lb EXCEPT !.status = IF lb.allEqual /\ IsInitialBallot(lb.lastTriedBallot, id)
                               THEN COMMITTED ELSE ACCEPTED]

\* The instance takes the decision over: its status first, the rest after that.
StatusTaken(n, id, lb) == PutLb([n EXCEPT !.inst[id].status = lb.status], id, lb)

\* A mistake: the instance keeps the dependencies that it had.
AttributesTakenButDeps(n, id, lb) ==
    [n EXCEPT !.inst[id] = [@ EXCEPT !.bal = lb.ballot, !.cmds = lb.cmds, !.seq = lb.seq]]

AttributesTaken(n, id, lb) ==
    [n EXCEPT !.inst[id] = [@ EXCEPT !.bal = lb.ballot, !.cmds = lb.cmds, !.deps = lb.deps, !.seq = lb.seq]]

(***************************************************************************)
(* The Accept phase and Commit.  handleAccept leaves the status and the    *)
(* commands of the instance as they are.                                   *)
(***************************************************************************)
Accepted(n, m) ==
    IF m.ballot < Inst(n, m.id).bal \/ Inst(n, m.id).status >= COMMITTED
    THEN Put(n, m.id, Inst(n, m.id))
    ELSE Put(n, m.id, [Inst(n, m.id) EXCEPT !.deps = m.deps, !.seq = m.seq, !.bal = m.ballot,
                                            !.vbal = m.ballot])

AcceptReply(n, id) == [id |-> id, ballot |-> n.inst[id].bal]

IsAccepting(lb, m) == lb.status = ACCEPTED /\ lb.lastTriedBallot = m.ballot

HasAccepted(lb) == lb.acceptOKs + 1 > group.size \div 2

\* The clients' commands of an own instance that became a no-op are proposed again.
Reproposed(n, r, m) ==
    IF Row(m.id) = r /\ m.cmds = Noop /\ n.lb[m.id].clientProposals # Nil
    THEN [n EXCEPT !.todo = Append(@, n.lb[m.id].clientProposals), !.lb[m.id].clientProposals = Nil]
    ELSE n

\* A mistake: a Commit of an instance that is committed or executed counts again.
CommittedAgain(n, r, m) ==
    IF m.ballot < Inst(n, m.id).bal THEN Put(n, m.id, Inst(n, m.id))
    ELSE UpdateConflicts(
             Put(Reproposed(n, r, m), m.id, NewInstance(m.cmds, m.ballot, COMMITTED, m.seq, m.deps)),
             m.cmds, m.id, m.seq)

Committed(n, r, m) ==
    IF Inst(n, m.id).status >= COMMITTED \/ m.ballot < Inst(n, m.id).bal THEN Put(n, m.id, Inst(n, m.id))
    ELSE UpdateConflicts(
             Put(Reproposed(n, r, m), m.id, NewInstance(m.cmds, m.ballot, COMMITTED, m.seq, m.deps)),
             m.cmds, m.id, m.seq)

-----------------------------------------------------------------------------
(***************************************************************************)
(* Recovery.  makeBallot: the same ballot at each attempt, unless the      *)
(* master has made the replica the leader.                                 *)
(***************************************************************************)
MadeBallot(n, r, id) ==
    LET least == IF r = Row(id) THEN r ELSE r + group.size
    IN  IF r # group.leader \/ least >= n.maxRecvBallot THEN least
        ELSE CHOOSE b \in n.maxRecvBallot..(n.maxRecvBallot + group.size - 1) : b % group.size = r

PrepareReply(n, r, id) ==
    LET i == Inst(n, id)
    IN  [from |-> r, id |-> id, ballot |-> i.bal, vballot |-> i.vbal, status |-> i.status,
         cmds |-> i.cmds, seq |-> i.seq, deps |-> i.deps]

\* The reply as it arrives: VBallot is not sent, nil lists become empty ones.
OnTheWire(reply) ==
    [reply EXCEPT !.vballot = 0, !.cmds = IF @ = Nil THEN Empty ELSE @]

Promised(n, id, ballot) == Put(n, id, [Inst(n, id) EXCEPT !.bal = ballot, !.vbal = ballot])

RecoveryStarted(n, r, id, ballot) ==
    PutLb(Promised([n EXCEPT !.recoveries = @ + 1], id, ballot), id,
          [NewLeaderBookkeeping(IF Lb(n, id) = Nil THEN Nil ELSE Lb(n, id).clientProposals,
                                ballot, Inst(n, id).cmds, Inst(n, id).status, Inst(n, id).deps)
           EXCEPT !.ballot = Inst(n, id).vbal, !.seq = Inst(n, id).seq, !.leaderResponded = (r = Row(id)),
                  !.prepareReplies = <<PrepareReply(Promised(n, id, ballot), r, id)>>])

\* handlePrepareReply: the last of the replies with the highest ballot counts.
Latest(lb) ==
    LET rs == lb.prepareReplies
        top == Max({lb.ballot} \cup {rs[i].vballot : i \in DOMAIN rs})
        best == {i \in DOMAIN rs : rs[i].vballot = top}
        leader == lb.leaderResponded \/ \E i \in DOMAIN rs : rs[i].from = Row(rs[i].id)
    IN  IF best = {} THEN [lb EXCEPT !.leaderResponded = leader]
        ELSE [lb EXCEPT !.leaderResponded = leader, !.ballot = top, !.cmds = rs[Max(best)].cmds,
                        !.seq = rs[Max(best)].seq, !.deps = rs[Max(best)].deps,
                        !.status = rs[Max(best)].status]

PreAcceptCount(lb) ==
    Cardinality({i \in DOMAIN lb.prepareReplies :
                    lb.prepareReplies[i].status \in {PREACCEPTED, PREACCEPTED_EQ}})

AllEqual(r, lb) ==
    \A i \in DOMAIN lb.prepareReplies :
        LET reply == lb.prepareReplies[i]
        IN  (reply.vballot = lb.ballot /\ reply.status >= PREACCEPTED) => EqualAttributes(r, lb, reply)

\* Sub-cases 2 and 3.
GoesToAccept(r, lb) ==
    \/ lb.status = ACCEPTED
    \/ /\ IsPreAccepting(lb)
       /\ PreAcceptCount(lb) >= SlowQuorumSize - 1
       /\ ~lb.leaderResponded
       /\ AllEqual(r, lb)

Recovered(n, id, lb) ==
    PutLb([n EXCEPT !.inst[id] = NewInstance(lb.cmds, lb.lastTriedBallot, lb.status, lb.seq, lb.deps)], id, lb)

\* Sub-cases 1; 2 and 3; 5 and 6.
AfterPrepare(n, r, id, lb) ==
    IF lb.status >= COMMITTED THEN Recovered(n, id, lb)
    ELSE IF GoesToAccept(r, lb) THEN Recovered(n, id, [lb EXCEPT !.status = ACCEPTED])
    ELSE StartPhase1(Recovered(n, id, lb), r, id, lb.lastTriedBallot,
                     IF lb.cmds = Nil THEN Noop ELSE lb.cmds, lb.clientProposals)

-----------------------------------------------------------------------------
(***************************************************************************)
(* Execution (exec.go): Tarjan's algorithm, from one instance.  The search *)
(* stops at an instance that is not committed; components found before     *)
(* that are executed.                                                      *)
(***************************************************************************)
NewSearch ==
    [count |-> 1, index |-> <<>>, lowlink |-> <<>>, stack |-> <<>>, done |-> <<>>, calls |-> <<>>]

\* A mistake: the search does not pass over instances executed before.
IsDoneNow(n, s, id) == Contains(s.done, id)

IsDone(n, s, id) == Inst(n, id).status = EXECUTED \/ Contains(s.done, id)

\* The instances that v depends on: in each row all up to the dependency.
DepsOf(n, v) == UNION {{<<q, i>> : i \in 0..n.inst[v].deps[q]} : q \in Replicas}

\* The one that the loops over rows and instances come to first.
FirstOf(ids) ==
    CHOOSE a \in ids : \A b \in ids : Row(a) < Row(b) \/ (Row(a) = Row(b) /\ Number(a) <= Number(b))

Lowered(s, v, l) == [s EXCEPT !.lowlink[v] = Min({@, l})]

\* nodeArray's order; proposeTime is when the replica made the record of the instance.
Less(n, a, b) ==
    \/ n.inst[a].seq < n.inst[b].seq
    \/ n.inst[a].seq = n.inst[b].seq /\ Row(a) < Row(b)
    \/ n.inst[a].seq = n.inst[b].seq /\ Row(a) = Row(b) /\ n.created[a] < n.created[b]

IndexIn(stack, v) == SelectInSeq(stack, LAMBDA e : e = v)

\* A mistake: a component is executed as it was found.
ComponentUnsorted(n, s, v) == SubSeq(s.stack, IndexIn(s.stack, v), Len(s.stack))

Component(n, s, v) ==
    LET nodes == ToSet(SubSeq(s.stack, IndexIn(s.stack, v), Len(s.stack)))
    IN  [i \in 1..Cardinality(nodes) |->
            CHOOSE a \in nodes : Cardinality({b \in nodes : Less(n, b, a)}) = i - 1]

Finished(n, s, v) ==
    IF s.lowlink[v] # s.index[v] THEN s
    ELSE [s EXCEPT !.done = @ \o Component(n, s, v), !.stack = SubSeq(@, 1, IndexIn(@, v) - 1)]

(***************************************************************************)
(* The calls under way, of strongconnect for v, have some of v's           *)
(* dependencies left to look at.  A dependency is called for, or may lower *)
(* v's link, or ends the search; the end of a call lowers its caller's.    *)
(***************************************************************************)
Called(n, s, v) ==
    [s EXCEPT !.count = @ + 1, !.index = With(@, v, s.count), !.lowlink = With(@, v, s.count),
              !.stack = Append(@, v), !.calls = Append(@, [of |-> v, left |-> DepsOf(n, v)])]

LookedAt(s, w) == [s EXCEPT !.calls[Len(s.calls)].left = @ \ {w}]

Visited(n, s, v, w) ==
    IF IsDone(n, s, w) THEN s
    ELSE IF Inst(n, w).status # COMMITTED \/ Inst(n, w).cmds = Nil THEN [s EXCEPT !.calls = <<>>]
    ELSE IF w \notin DOMAIN s.index THEN Called(n, s, w)
    ELSE IF Contains(s.stack, w) THEN Lowered(s, v, s.index[w]) ELSE s

Returned(s, v) ==
    LET t == [s EXCEPT !.calls = Front(@)]
    IN  IF t.calls = <<>> THEN t ELSE Lowered(t, Last(t.calls).of, s.lowlink[v])

StrongConnect(n, s) ==
    IF s.calls = <<>> THEN s
    ELSE LET v == Last(s.calls).of
             left == Last(s.calls).left
         IN  IF left = {} THEN Returned(Finished(n, s, v), v)
             ELSE Visited(n, LookedAt(s, FirstOf(left)), v, FirstOf(left))

\* Enough for all instances, each of which is called for once and looks once at each other.
MaxSteps(n) == Cardinality(DOMAIN n.inst) * (Cardinality(DOMAIN n.inst) + 1)

Search(n, id) ==
    LET search[k \in Nat] ==
            IF k = 0 THEN Called(n, NewSearch, id) ELSE StrongConnect(n, search[k - 1])
    IN  search

FindSCC(n, id) == Search(n, id)[MaxSteps(n)]

Executed(n, done) ==
    [n EXCEPT !.executed = @ \o done,
              !.inst = [id \in DOMAIN @ |-> IF Contains(done, id) THEN [@[id] EXCEPT !.status = EXECUTED] ELSE @[id]]]

\* executeCommands calls executeCommand on the instances of a row up to the first that is not
\* committed.
MayExecute(n, id) ==
    /\ Number(id) <= n.crtInstance[Row(id)]
    /\ Inst(n, id).status = COMMITTED
    /\ \A i \in 0..Number(id) : IsCommitted(n, <<Row(id), i>>)

ExecuteCommand(n, id) == Executed(n, FindSCC(n, id).done)

IsProblem(n, id) ==
    /\ ~IsCommitted(n, id)
    /\ \A i \in 0..(Number(id) - 1) : IsCommitted(n, <<Row(id), i>>)

-----------------------------------------------------------------------------
(***************************************************************************)
(* Steps.                                                                  *)
(***************************************************************************)
Alive(r) == r \in Replicas \ crashed

Sent(queues, out) ==
    [c \in DOMAIN queues \cup {o[1] : o \in out} |->
        LET q == IF c \in DOMAIN queues THEN queues[c] ELSE <<>>
            new == {o \in out : o[1] = c}
        IN  IF new = {} THEN q ELSE Append(q, (CHOOSE o \in new : TRUE)[2])]

Without(c) ==
    IF Len(net[c]) = 1 THEN [d \in DOMAIN net \ {c} |-> net[d]] ELSE [net EXCEPT ![c] = Tail(@)]

Becomes(r, n) == node' = [node EXCEPT ![r] = [n EXCEPT !.asleep = FALSE]]

\* A step that receives the next message of a channel, or none.
Receives(r, c, n, out) ==
    /\ Becomes(r, n)
    /\ net' = Sent(Without(c), out)
    /\ UNCHANGED <<group, crashed>>

Starts(r, n, out) ==
    /\ Becomes(r, n)
    /\ net' = Sent(net, out)
    /\ UNCHANGED <<group, crashed>>

HandlePropose(r) ==
    /\ node[r].todo # <<>>
    /\ \E dead \in SUBSET crashed :
           Starts(r, Proposed(node[r], r), PreAccepts(Proposed(node[r], r), r, NextId(node[r], r), dead))

HandlePreAccept(r, c, m) ==
    LET n == Reached(Seen(node[r], m.ballot), m.id)
    IN  IF m.ballot < Inst(n, m.id).bal THEN Receives(r, c, n, {})
        ELSE Receives(r, c, PreAccepted(n, r, m),
                      {<<Channel("PreAcceptReply", r, c.from), PreAcceptReply(PreAccepted(n, r, m), m.id)>>})

Decides(r, m) ==
    /\ Lb(node[r], m.id).lastTriedBallot = m.ballot
    /\ IsPreAccepting(Lb(node[r], m.id))

NewLb(r, m) == Decided(Merged(r, Counted(Lb(node[r], m.id), m), m), m.id)

IsDecided(lb) == lb.preAcceptOKs >= FastQuorumSize - 1

\* The executor may run between the assignments to the status and to the attributes, and
\* execute the instance with those of before.
WhileTaken(n, id, lb) ==
    {StatusTaken(n, id, lb)} \cup
    (IF lb.status = COMMITTED /\ MayExecute(StatusTaken(n, id, lb), id)
     THEN {[ExecuteCommand(StatusTaken(n, id, lb), id) EXCEPT
              !.torn = @ \/ n.inst[id].deps # lb.deps \/ n.inst[id].seq # lb.seq]}
     ELSE {})

Out(n, r, id, lb, dead) ==
    IF lb.status = COMMITTED THEN Commits(n, r, id, dead) ELSE Accepts(n, r, id, dead)

Takes(r, c, n, id, lb) ==
    \E t \in WhileTaken(n, id, lb), dead \in SUBSET crashed :
        Receives(r, c, AttributesTaken(t, id, lb), Out(AttributesTaken(t, id, lb), r, id, lb, dead))

HandlePreAcceptReply(r, c, m) ==
    LET n == Seen(node[r], m.ballot)
    IN  IF ~Decides(r, m) THEN Receives(r, c, n, {})
        ELSE IF ~IsDecided(NewLb(r, m)) THEN Receives(r, c, PutLb(n, m.id, NewLb(r, m)), {})
        ELSE Takes(r, c, n, m.id, NewLb(r, m))

HandleAccept(r, c, m) ==
    LET n == Accepted(Reached(Seen(node[r], m.ballot), m.id), m)
    IN  Receives(r, c, n, {<<Channel("AcceptReply", r, c.from), AcceptReply(n, m.id)>>})

HandleAcceptReply(r, c, m) ==
    LET n == Seen(node[r], m.ballot)
        lb == [Lb(n, m.id) EXCEPT !.acceptOKs = @ + 1]
    IN  IF ~IsAccepting(Lb(n, m.id), m) THEN Receives(r, c, n, {})
        ELSE IF ~HasAccepted(lb) THEN Receives(r, c, PutLb(n, m.id, lb), {})
        ELSE \E dead \in SUBSET crashed :
                 Receives(r, c, StatusTaken(n, m.id, [lb EXCEPT !.status = COMMITTED]),
                          Commits(PutLb(n, m.id, lb), r, m.id, dead))

HandleCommit(r, c, m) ==
    Receives(r, c, Committed(Reached(Seen(node[r], m.ballot), m.id), r, m), {})

\* The executor has waited too long for an instance and has those from it on recovered.
StartRecovery(r, id) ==
    /\ r \in group.recoverers
    /\ node[r].recoveries < group.recoveries
    /\ Row(id) \in crashed \/ group.falseAlarms
    /\ Number(id) <= node[r].crtInstance[Row(id)]
    /\ \E i \in 0..Number(id) : IsProblem(node[r], <<Row(id), i>>)
    /\ ~IsCommitted(node[r], id)
    /\ \E dead \in SUBSET crashed :
           LET made == MadeBallot(node[r], r, id)
           IN  Starts(r, RecoveryStarted(node[r], r, id, made),
                      ToAll("Prepare", r, [id |-> id, ballot |-> made], dead))

HandlePrepare(r, c, m) ==
    LET n == Seen(node[r], m.ballot)
        joined == Put(n, m.id, [Inst(n, m.id) EXCEPT !.bal = Max({@, m.ballot})])
    IN  Receives(r, c, joined,
                 {<<Channel("PrepareReply", r, c.from), OnTheWire(PrepareReply(joined, r, m.id))>>})

Prepares(r, m) ==
    Lb(node[r], m.id) # Nil /\ Lb(node[r], m.id).preparing /\ Lb(node[r], m.id).lastTriedBallot = m.ballot

OutOfPrepare(n, r, id, dead) ==
    CASE n.lb[id].status >= COMMITTED -> {}
      [] n.lb[id].status = ACCEPTED   -> Accepts(n, r, id, dead)
      [] OTHER                        -> PreAccepts(n, r, id, dead)

HandlePrepareReply(r, c, m) ==
    LET n == Seen(node[r], m.ballot)
        lb == [Lb(n, m.id) EXCEPT !.prepareReplies = Append(@, m)]
    IN  IF ~Prepares(r, m) THEN Receives(r, c, n, {})
        ELSE IF Len(lb.prepareReplies) < SlowQuorumSize THEN Receives(r, c, PutLb(n, m.id, lb), {})
        ELSE \E dead \in SUBSET crashed :
                 LET after == AfterPrepare(n, r, m.id, Latest([lb EXCEPT !.preparing = FALSE]))
                 IN  Receives(r, c, after, OutOfPrepare(after, r, m.id, dead))

Handle(r, c) ==
    LET m == Head(net[c])
    IN  \/ c.type = "PreAccept" /\ HandlePreAccept(r, c, m)
        \/ c.type = "PreAcceptReply" /\ HandlePreAcceptReply(r, c, m)
        \/ c.type = "Accept" /\ HandleAccept(r, c, m)
        \/ c.type = "AcceptReply" /\ HandleAcceptReply(r, c, m)
        \/ c.type = "Commit" /\ HandleCommit(r, c, m)
        \/ c.type = "Prepare" /\ HandlePrepare(r, c, m)
        \/ c.type = "PrepareReply" /\ HandlePrepareReply(r, c, m)

Execute(r, id) ==
    /\ MayExecute(node[r], id)
    /\ ExecuteCommand(node[r], id) # node[r]
    /\ Starts(r, ExecuteCommand(node[r], id), {})

\* A round of the executor that finds nothing, noted once there is nothing else to do.
Sleep(r) ==
    /\ net = <<>> /\ ~node[r].asleep
    /\ \A id \in DOMAIN node[r].inst :
           MayExecute(node[r], id) => ExecuteCommand(node[r], id) = node[r]
    /\ node' = [node EXCEPT ![r].asleep = TRUE]
    /\ UNCHANGED <<group, net, crashed>>

Crash(r) ==
    /\ r \in group.mayCrash
    /\ crashed' = crashed \cup {r}
    /\ UNCHANGED <<group, node, net>>

Step(r) ==
    \/ HandlePropose(r)
    \/ \E c \in DOMAIN net : c.to = r /\ Handle(r, c)
    \/ \E id \in DOMAIN node[r].inst : Execute(r, id)
    \/ Sleep(r)
    \/ \E q \in Replicas : \E i \in 0..node[r].crtInstance[q] : StartRecovery(r, <<q, i>>)
    \/ Crash(r)

Next == \E r \in Replicas : Alive(r) /\ Step(r)

Spec == Init /\ [][Next]_vars

-----------------------------------------------------------------------------
InstanceTyped(i) ==
    /\ i.status \in NONE..EXECUTED
    /\ i.status >= PREACCEPTED => i.cmds # Nil /\ \A q \in Replicas : i.deps[q] >= -1
    /\ i.bal >= -1 /\ i.vbal >= -1

TypeOK ==
    /\ group \in Groups
    /\ crashed \subseteq group.mayCrash
    /\ \A r \in Replicas :
           LET n == node[r]
           IN  /\ \A id \in DOMAIN n.inst : InstanceTyped(n.inst[id])
               /\ DOMAIN n.lb \subseteq DOMAIN n.inst
               /\ ToSet(n.executed) = {id \in DOMAIN n.inst : n.inst[id].status = EXECUTED}

CommittedAt(r) == {id \in DOMAIN node[r].inst : node[r].inst[id].status >= COMMITTED}

SameInstance(a, b) == a.cmds = b.cmds /\ a.seq = b.seq /\ a.deps = b.deps

\* Replicas agree on the command, the sequence number and the dependencies of an instance
\* that they have committed, whichever path and whoever committed it.
Agreement ==
    \A r, s \in Replicas : \A id \in CommittedAt(r) \cap CommittedAt(s) :
        SameInstance(node[r].inst[id], node[s].inst[id])

Interfere(c, d) == Noop \notin {c, d} /\ Empty \notin {c, d} /\ (~IsRead(c) \/ ~IsRead(d))

\* Of two interfering commands that are committed, by anyone, one depends on the other: the
\* quorums that gave them their dependencies have met.
ConflictsMeet ==
    \A r, s \in Replicas : \A a \in CommittedAt(r), b \in CommittedAt(s) :
        (Row(a) # Row(b) /\ Interfere(node[r].inst[a].cmds, node[s].inst[b].cmds)) =>
            \/ node[r].inst[a].deps[Row(b)] >= Number(b)
            \/ node[s].inst[b].deps[Row(a)] >= Number(a)

Position(r, id) == SelectInSeq(node[r].executed, LAMBDA e : e = id)

\* Replicas execute interfering commands in the same order.
SameOrderAt(replicas) ==
    \A r, s \in replicas :
        \A a, b \in ToSet(node[r].executed) \cap ToSet(node[s].executed) :
            (Interfere(node[r].inst[a].cmds, node[r].inst[b].cmds) /\ Position(r, a) < Position(r, b))
                => Position(s, a) < Position(s, b)

SameOrderUntorn == SameOrderAt({r \in Replicas : ~node[r].torn})

\* A replica never takes back what it has committed, nor executes an instance again.
Final ==
    [][\A r \in Replicas : \A id \in CommittedAt(r) :
          /\ id \in CommittedAt(r)'
          /\ SameInstance(node[r].inst[id], node'[r].inst[id])
          /\ IsPrefix(node[r].executed, node'[r].executed)
          /\ IsInjective(node'[r].executed)]_vars

\* When nothing is under way and the executors sleep, every command has been executed
\* everywhere.
NothingLeft ==
    (crashed = {} /\ net = <<>> /\ \A r \in Replicas : node[r].todo = <<>> /\ node[r].asleep) =>
        \A r, q \in Replicas : \A i \in 0..node[q].crtInstance[q] :
            Inst(node[r], <<q, i>>).status = EXECUTED
=============================================================================
