------------------------------- MODULE Swift -------------------------------
(***************************************************************************)
(* SwiftPaxos as swift/swift.go and swift/recovery.go have it and as       *)
(* run.go starts it by default: optimistic execution, no fast reads, no    *)
(* quorum file.                                                            *)
(* All commands are of one key; a write conflicts with everything.         *)
(*                                                                         *)
(* Clients broadcast their commands.  The leader orders a command after    *)
(* the last conflicting one, executes it, answers the client and sends its *)
(* dependency and the hash of the key's path to all, in a fast ack.  The   *)
(* members of the fast quorum send theirs too, to all and to the client;   *)
(* a follower that has the leader's ack takes over its dependency and      *)
(* sends a slow ack.  A follower executes a command when the leader and    *)
(* enough others agree and what the command depends on was executed.       *)
(*                                                                         *)
(* A step is one handler: of the event loop, or of a command's descriptor, *)
(* which is a goroutine at a follower.  What a replica has sent is in its  *)
(* own state (acked, replies), and how much of it another one has handled  *)
(* is in the latter's (heard): a connection keeps the order of the acks of *)
(* a command and of the leader's acks of all.  A stopped replica is one    *)
(* that takes no more steps.                                               *)
(*                                                                         *)
(* Not modelled: the pool of descriptors, descriptors that the event loop  *)
(* handles itself beyond MaxDescRoutines, batches of two ballots.          *)
(***************************************************************************)
EXTENDS HashLog, FiniteSetsExt

CONSTANTS
    N,           \* number of replicas
    Commands,    \* the commands clients broadcast, each once
    Reads,       \* those that only read
    NewLeaders,  \* replicas the master may make leaders
    MaxBallot,   \* bound on the ballots of new leaders
    Nil          \* a missing dependency

ASSUME NAssumption == N \in Nat /\ N > 1
ASSUME CommandsAssumption == IsFiniteSet(Commands) /\ Reads \subseteq Commands
ASSUME BallotAssumption == MaxBallot \in Nat
ASSUME NilAssumption == \A s \in SUBSET Commands : s # Nil

Replicas == 0..(N - 1)

VARIABLES
    node,          \* the state of each replica, see NewNode
    newLeaders,    \* ballots announced by a NewLeader
    newLeaderAcks, \* answers to them
    syncs          \* Syncs sent

vars == <<node, newLeaders, newLeaderAcks, syncs>>

(***************************************************************************)
(* Quorums.  Those of a leader are the majorities it belongs to, in the    *)
(* order in which subsets() builds them; the ballot picks the one that so  *)
(* many others come before.                                                *)
(***************************************************************************)
Leader(b) == b % N

Majority == N \div 2 + 1

Before(p, q) == Min((p \ q) \cup (q \ p)) \in p

QuorumsOf(l) == {q \in kSubset(Majority, Replicas) : l \in q}

Index(q, qs) == Cardinality({p \in qs \ {q} : Before(p, q)})

AQ(b) ==
    LET qs == QuorumsOf(Leader(b))
    IN  CHOOSE q \in qs : Index(q, qs) = (b \div N) % Cardinality(qs)

SQ == [members |-> Replicas, size |-> Majority]
FQ(b) == [members |-> AQ(b), size |-> Cardinality(AQ(b))]

(***************************************************************************)
(* A set of acks (replica.MsgSet): of the leader, at most one, and of the  *)
(* others, by replica.  An ack is a dependency; a slow one is Nil.         *)
(***************************************************************************)
NewMsgSet == [leader |-> <<>>, msgs |-> <<>>]

Accepts(dep, leader) == leader = <<>> \/ dep = Nil \/ leader = <<dep>>

Ignores(ms, q, from) ==
    from \notin q.members \/ (ms.leader # <<>> /\ from \in DOMAIN ms.msgs)

Added(ms, from, isLeader, dep) ==
    IF isLeader
    THEN [leader |-> <<dep>>,
          msgs |-> Restrict(ms.msgs, {s \in DOMAIN ms.msgs : Accepts(ms.msgs[s], <<dep>>)})]
    ELSE IF Accepts(dep, ms.leader)
    THEN [ms EXCEPT !.msgs = [s \in DOMAIN @ \cup {from} |-> IF s = from THEN dep ELSE @[s]]]
    ELSE ms

\* A mistake: the handler does not wait for the leader's ack.
CompleteUnled(ms, q) == Cardinality(DOMAIN ms.msgs) + 1 >= q.size

\* The handler does nothing without the leader's ack.
Complete(ms, q) == ms.leader # <<>> /\ Cardinality(DOMAIN ms.msgs) + 1 >= q.size

(***************************************************************************)
(* Descriptors and replicas.  commandDesc keeps a command's acks in        *)
(* slowPathH and fastPathH, here acks.                                     *)
(***************************************************************************)
\* No hash of a path, which has one command at least.
NoHash == <<>>

NewDesc ==
    [phase |-> "START", dep |-> {}, proposeDep |-> Nil, hs |-> NoHash, propose |-> FALSE,
     noop |-> FALSE, waiting |-> {}, slowPath |-> FALSE, successors |-> {},
     acks |-> [slow |-> NewMsgSet, fast |-> NewMsgSet]]

NewNode ==
    [dead |-> FALSE,              \* stopped by r.Fatal
     status |-> "NORMAL", ballot |-> 0, cballot |-> 0,
     lastCmd |-> {}, lastWrite |-> {},  \* r.keys
     log |-> NewHashLog,          \* r.hlog
     proposes |-> {},             \* commands proposed here
     queued |-> {},               \* proposals in the queues of their descriptors
     again |-> {},                \* proposals sent back to ProposeChan
     pendingHashUpds |-> {},
     seqnum |-> 0,
     desc |-> [c \in Commands |-> NewDesc],
     kept |-> {},                 \* delivered commands that still have their descriptor
     executed |-> <<>>,           \* commands applied to r.State, in order
     noops |-> {},                \* those of them that were replaced by no-ops
     unwoken |-> {},              \* delivered commands whose successors are not woken yet
     deliverChan |-> {},
     acked |-> [c \in Commands |-> <<>>],  \* acks sent
     replies |-> {},              \* MReply messages sent to clients
     accepts |-> {},              \* commands of which the client got an MAccept
     heard |-> [s \in Replicas |-> [c \in Commands |-> 0]],  \* number of acks handled,
                                  \* Nil: all, as those of a delivered command are dropped
     noted |-> {}]                \* leader's acks in the queues of their descriptors

Init ==
    /\ node = [r \in Replicas |-> NewNode]
    /\ newLeaders = {}
    /\ newLeaderAcks = {}
    /\ syncs = {}

Delivered(n) == ToSet(n.executed)

IsLeader(n, r) == Leader(n.ballot) = r

-----------------------------------------------------------------------------
(***************************************************************************)
(* deliver, on behalf of replica r whose state is n; the result is the     *)
(* state it leaves.  Of a delivered command the descriptor's dependency,   *)
(* phase and command may still be asked for.                               *)
(***************************************************************************)
\* A mistake: a command is delivered without its proposal.
DeliverableUnproposed(n, r, c) ==
    /\ c \notin Delivered(n)
    /\ n.desc[c].phase = "COMMIT" \/ IsLeader(n, r)
    /\ n.desc[c].dep \subseteq Delivered(n)

\* A mistake: a command may be delivered again.
DeliverableAgain(n, r, c) ==
    /\ n.desc[c].propose
    /\ n.desc[c].phase = "COMMIT" \/ IsLeader(n, r)
    /\ n.desc[c].dep \subseteq Delivered(n)

Deliverable(n, r, c) ==
    /\ n.desc[c].propose
    /\ c \notin Delivered(n)
    /\ n.desc[c].phase = "COMMIT" \/ IsLeader(n, r)
    /\ n.desc[c].dep \subseteq Delivered(n)

Reply(n, c, val) == [cmd |-> c, ballot |-> n.ballot, hs |-> n.desc[c].hs, val |-> val]

Deliver(n, r, c) ==
    IF ~Deliverable(n, r, c) THEN n
    ELSE [n EXCEPT !.executed = Append(@, c),
                   !.noops = IF n.desc[c].noop THEN @ \cup {c} ELSE @,
                   !.unwoken = IF n.desc[c].successors = {} THEN @ ELSE @ \cup {c},
                   !.heard = [s \in Replicas |-> IF s = Leader(n.ballot) THEN @[s]
                                                 ELSE [@[s] EXCEPT ![c] = Nil]],
                   !.replies = IF IsLeader(n, r) THEN @ \cup {Reply(n, c, "result")} ELSE @,
                   !.desc[c] = [NewDesc EXCEPT !.propose = TRUE, !.phase = "COMMIT",
                                               !.dep = n.desc[c].dep, !.noop = n.desc[c].noop,
                                               !.successors = n.desc[c].successors]]

(***************************************************************************)
(* The handler of both sets: commit, register with the commands this one   *)
(* depends on, deliver.                                                    *)
(***************************************************************************)
\* A mistake: what is waited for does not know it.
Unregistered(n, c) == n

Registered(n, c) ==
    [n EXCEPT !.desc = [e \in Commands |->
        IF e \in n.desc[c].dep /\ e \notin Delivered(n)
        THEN [n.desc[e] EXCEPT !.successors = @ \cup {c}] ELSE n.desc[e]]]

HandleAcks(n, r, c) == Deliver(Registered([n EXCEPT !.desc[c].phase = "COMMIT"], c), r, c)

QuorumFor(n, path) == IF path = "slow" THEN SQ ELSE FQ(n.ballot)

AfterAck(n, r, c, path) ==
    IF Complete(n.desc[c].acks[path], QuorumFor(n, path)) THEN HandleAcks(n, r, c) ELSE n

AddAck(n, r, c, path, from, dep) ==
    IF c \in Delivered(n) \/ Ignores(n.desc[c].acks[path], QuorumFor(n, path), from) THEN n
    ELSE AfterAck([n EXCEPT !.desc[c].acks[path] = Added(@, from, from = Leader(n.ballot), dep)],
                  r, c, path)

\* commonCaseFastAck
CommonCaseFastAck(n, r, c, from, m) ==
    IF n.status # "NORMAL" \/ n.ballot # m.ballot THEN n
    ELSE AddAck(IF m.dep # Nil THEN n ELSE AddAck(n, r, c, "slow", from, Nil),
                r, c, "fast", from, m.dep)

(***************************************************************************)
(* Acks.  The batcher merges a command's fast and slow ack into the slow   *)
(* one when both are in the batch.                                         *)
(***************************************************************************)
FastAck(n, c, seqnum) ==
    [ballot |-> n.ballot, dep |-> n.desc[c].dep, hs |-> n.desc[c].hs, seqnum |-> seqnum]

SlowAck(n) == [ballot |-> n.ballot, dep |-> Nil, hs |-> NoHash, seqnum |-> 0]

Send(n, c, ack) == [n EXCEPT !.acked[c] = Append(@, ack)]

SendSlow(n, c, merge) ==
    IF merge /\ n.acked[c] # <<>> /\ Last(n.acked[c]).ballot = n.ballot
    THEN [n EXCEPT !.acked[c] = Append(Front(@), SlowAck(n))]
    ELSE Send(n, c, SlowAck(n))

(***************************************************************************)
(* fastAckFromLeader, once the proposal is here.  The leader's ack is put  *)
(* into the sets, and may commit the command, before the leader's          *)
(* dependency is taken over.                                               *)
(***************************************************************************)
AcksOfLeader(n, r, c, dep) ==
    AddAck(AddAck(n, r, c, "slow", Leader(n.ballot), dep), r, c, "fast", Leader(n.ballot), dep)

TakenOver(n, c, dep) ==
    IF c \in Delivered(n) THEN n
    ELSE [n EXCEPT !.desc[c].dep = dep, !.desc[c].slowPath = TRUE]

FastAckFromLeader(n, r, c, m, merge) ==
    IF n.status # "NORMAL" \/ n.ballot # m.ballot THEN n
    ELSE IF IsLeader(n, r) THEN AcksOfLeader([n EXCEPT !.desc[c].phase = "ACCEPT"], r, c, m.dep)
    ELSE CommonCaseFastAck(
             SendSlow(TakenOver(AcksOfLeader([n EXCEPT !.desc[c].phase = "ACCEPT"], r, c, m.dep),
                                c, m.dep),
                      c, merge),
             r, c, r, SlowAck(n))

\* afterPropagate.Call and Recall: the leader's ack waits for the proposal.
CallAfterPropagate(n, r, c, m, merge) ==
    IF n.desc[c].propose THEN FastAckFromLeader(n, r, c, m, merge)
    ELSE [n EXCEPT !.desc[c].waiting = @ \cup {m}]

Recall(n, r, c, merge) ==
    LET now == {m \in n.desc[c].waiting : m.ballot = n.ballot}
    IN  IF now = {} THEN [n EXCEPT !.desc[c].waiting = {}]
        ELSE FastAckFromLeader([n EXCEPT !.desc[c].waiting = {}], r, c,
                               CHOOSE m \in now : TRUE, merge)

-----------------------------------------------------------------------------
(***************************************************************************)
(* Proposals.  handlePropose runs where the descriptor does.               *)
(***************************************************************************)
OwnAck(n, r, c) == FastAck(n, c, IF IsLeader(n, r) THEN n.seqnum ELSE 0)

LeaderPropose(n, r, c, ack, merge) ==
    IF c \in Delivered(n) THEN n ELSE CallAfterPropagate(n, r, c, ack, merge)

PreAccepted(n, r, c, ack, merge) ==
    IF IsLeader(n, r)
    THEN LeaderPropose(Deliver([Send(n, c, ack) EXCEPT !.seqnum = @ + 1], r, c), r, c, ack, merge)
    ELSE CommonCaseFastAck(Send(n, c, ack), r, c, r, ack)

\* Nothing more is sent when the leader's ack was waiting, and a slow ack has been.
AfterRecall(n, r, c, ran, merge) ==
    IF c \in Delivered(n) \/ (ran /\ n.desc[c].slowPath) THEN n
    ELSE PreAccepted(n, r, c, OwnAck(n, r, c), merge)

\* The proposal's command takes the place of a no-op that a Sync brought.
Proposed(n, r, c, merge) ==
    IF n.status # "NORMAL" \/ n.desc[c].propose THEN n
    ELSE IF r \notin AQ(n.ballot)
    THEN Recall([n EXCEPT !.desc[c].propose = TRUE, !.desc[c].noop = FALSE], r, c, merge)
    ELSE AfterRecall(
             Recall([n EXCEPT !.desc[c].propose = TRUE, !.desc[c].noop = FALSE,
                              !.desc[c].phase = "PRE_ACCEPT",
                              !.desc[c].dep = n.desc[c].proposeDep], r, c, merge),
             r, c, n.desc[c].waiting # {}, merge)

HandlePropose(n, r, c, merge) == Proposed([n EXCEPT !.queued = @ \ {c}], r, c, merge)

\* recordLeaderHash and updateLogs.  A leader's ack for a recovered command has
\* no hash, which stops the replica.
RecordLeaderHash(n, c, seqnum, hs) ==
    IF c \notin n.proposes
    THEN [n EXCEPT !.pendingHashUpds =
             {u \in @ : u.cmd # c} \cup {[cmd |-> c, seqnum |-> seqnum, hash |-> hs]}]
    ELSE IF hs = NoHash THEN [n EXCEPT !.dead = TRUE]
    ELSE [n EXCEPT !.log = UpdateOrSave(@, c, seqnum, hs)]

\* getDepAndHashes
Conflicts(n, c) == IF c \in Reads THEN n.lastWrite ELSE n.lastCmd

Numbered(n, c) ==
    [n EXCEPT !.proposes = @ \cup {c}, !.again = @ \ {c},
              !.lastCmd = {c}, !.lastWrite = IF c \in Reads THEN @ ELSE {c},
              !.log = AppendTo(@, c),
              !.desc[c] = IF @.proposeDep # Nil THEN @
                          ELSE [@ EXCEPT !.proposeDep = Conflicts(n, c), !.hs = AppendHash(n.log, c)]]

Hashed(n, r, c) ==
    LET us == {u \in n.pendingHashUpds : u.cmd = c}
    IN  IF us = {} \/ IsLeader(n, r) THEN n
        ELSE RecordLeaderHash([n EXCEPT !.pendingHashUpds = @ \ us], c,
                              (CHOOSE u \in us : TRUE).seqnum, (CHOOSE u \in us : TRUE).hash)

\* The event loop with a proposal, for a descriptor that the leader handles itself
\* and a follower's goroutine does.
HandedOver(n, r, c, merge) ==
    IF c \in Delivered(n) THEN [n EXCEPT !.dead = TRUE]
    ELSE IF IsLeader(n, r) /\ n.desc[c].phase = "START" THEN HandlePropose(n, r, c, merge)
    ELSE [n EXCEPT !.queued = @ \cup {c}]

\* A mistake: the leader's hash that came before the proposal is not applied.
TakenUnhashed(n, r, c, merge) == HandedOver(Numbered(n, c), r, c, merge)

Taken(n, r, c, merge) == HandedOver(Hashed(Numbered(n, c), r, c), r, c, merge)

-----------------------------------------------------------------------------
(***************************************************************************)
(* Steps of the normal case.                                               *)
(***************************************************************************)
Becomes(r, n) ==
    /\ node' = [node EXCEPT ![r] = n]
    /\ UNCHANGED <<newLeaders, newLeaderAcks, syncs>>

Runs(r) == ~node[r].dead /\ node[r].status = "NORMAL"

\* The acks of s that r has not handled.
HasNext(r, s, c) == node[r].heard[s][c] # Nil /\ node[r].heard[s][c] < Len(node[s].acked[c])
NextOf(r, s, c) == node[s].acked[c][node[r].heard[s][c] + 1]

\* The fast ack is still in r's batch.
Unsent(r, c) == \A s \in Replicas \ {r} : HasNext(s, r, c)

Merges(r, c) == IF Unsent(r, c) THEN BOOLEAN ELSE {FALSE}

TakeProposal(r, c) ==
    /\ Runs(r)
    /\ c \notin node[r].proposes \/ c \in node[r].again
    /\ \E merge \in Merges(r, c) : Becomes(r, Taken(node[r], r, c, merge))

QueuedProposal(r, c) ==
    /\ Runs(r)
    /\ c \in node[r].queued
    /\ \E merge \in Merges(r, c) : Becomes(r, HandlePropose(node[r], r, c, merge))

\* Of the leader's acks the earliest is next.
Earlier(m, k) == m.ballot < k.ballot \/ (m.ballot = k.ballot /\ m.seqnum < k.seqnum)

NoteLeaderAck(r, c) ==
    LET s == Leader(node[r].ballot)
        m == NextOf(r, s, c)
    IN  /\ Runs(r) /\ r # s
        /\ HasNext(r, s, c) /\ c \notin node[r].noted
        /\ \A e \in Commands : HasNext(r, s, e) /\ e \notin node[r].noted => ~Earlier(NextOf(r, s, e), m)
        /\ Becomes(r, [RecordLeaderHash(node[r], c, m.seqnum, m.hs) EXCEPT !.noted = @ \cup {c}])

HandleLeaderAck(r, c) ==
    LET n == node[r]
        s == Leader(n.ballot)
        heard == [n EXCEPT !.noted = @ \ {c}, !.heard[s][c] = @ + 1]
    IN  /\ Runs(r) /\ c \in n.noted
        /\ \E merge \in Merges(r, c) :
               Becomes(r, IF c \in Delivered(n) THEN heard
                          ELSE CallAfterPropagate(heard, r, c, NextOf(r, s, c), merge))

HandleAck(r, s, c) ==
    LET n == node[r]
        heard == [n EXCEPT !.heard[s][c] = @ + 1]
    IN  /\ Runs(r) /\ s \notin {r, Leader(n.ballot)}
        /\ HasNext(r, s, c)
        /\ Becomes(r, CommonCaseFastAck(heard, r, c, s, NextOf(r, s, c)))

\* The goroutines that pass a delivered command's successors on.
Wake(r, c) ==
    /\ Runs(r) /\ c \in node[r].unwoken
    /\ Becomes(r, [node[r] EXCEPT !.unwoken = @ \ {c},
                                  !.deliverChan = @ \cup node[r].desc[c].successors])

DeliverNext(r, c) ==
    /\ Runs(r) /\ c \in node[r].deliverChan
    /\ Becomes(r, Deliver([node[r] EXCEPT !.deliverChan = @ \ {c}], r, c))

-----------------------------------------------------------------------------
(***************************************************************************)
(* Change of leader.                                                       *)
(***************************************************************************)
Alive(r) == ~node[r].dead

\* fillNewLeaderAckN: descriptors that have their proposal, and proposals that do not
\* have such a descriptor, as accepted no-ops.
Described(n) == {c \in Commands : n.desc[c].propose} \ (Delivered(n) \ n.kept)

Entries(n) ==
    {[cmd |-> c, phase |-> n.desc[c].phase, dep |-> n.desc[c].dep, noop |-> n.desc[c].noop] :
        c \in Described(n)}
    \cup {[cmd |-> c, phase |-> "ACCEPT", dep |-> {}, noop |-> TRUE] :
            c \in n.proposes \ (Described(n) \cup Delivered(n))}

Counted(n) ==
    [n EXCEPT !.heard = [s \in Replicas |-> [c \in Commands |->
        IF @[s][c] = Nil THEN Len(node[s].acked[c]) ELSE @[s][c]]]]

\* What a delivered command leaves when the descriptors are stopped: its descriptor, if
\* the reply has not been sent yet.
MayKeep(r) == IF IsLeader(node[r], r) THEN {{}} ELSE SUBSET Delivered(node[r])

Recovering(n, b, kept) ==
    [n EXCEPT !.status = "RECOVERING", !.ballot = b, !.kept = kept, !.queued = {}, !.noted = {}]

\* handleNewLeader for a ballot that is higher than the replica's.  An answer's executed is
\* not in the message: it is there for the properties.
StartRecovery(r, b) ==
    /\ node[r].ballot < b
    /\ \E kept \in MayKeep(r) :
           LET n == Recovering(Counted(node[r]), b, kept)
           IN  /\ node' = [node EXCEPT ![r] = n]
               /\ newLeaderAcks' = newLeaderAcks \cup
                      {[from |-> r, ballot |-> b, cballot |-> n.cballot, entries |-> Entries(n),
                        executed |-> Delivered(n)]}
    /\ UNCHANGED syncs

\* The event loop takes the ballot that BeTheLeader sent it; it goes on to the next of its own
\* while it believes that one of the ballot's quorum is not alive.
BeTheLeader(r, b) ==
    /\ r \in NewLeaders
    /\ Runs(r)
    /\ node[r].executed # <<>>
    /\ Leader(b) = r /\ b \notin newLeaders
    /\ newLeaders' = newLeaders \cup {b}
    /\ StartRecovery(r, b)

\* A replica that is recovering stops for ever when it takes another NewLeader: it waits for
\* the goroutine of its replies to stop a second time.
HandleNewLeader(r, b) ==
    /\ Runs(r)
    /\ b \in newLeaders
    /\ StartRecovery(r, b)
    /\ UNCHANGED newLeaders

\* handleNewLeaderAckNs: of those with the highest cballot, what was accepted or
\* committed; the last one read wins.
Highest(acks) == {a \in acks : \A k \in acks : k.cballot <= a.cballot}

\* A mistake: what was committed does not count.
NotCommittedIn(acks) ==
    {e \in UNION {a.entries : a \in Highest(acks)} : e.phase = "ACCEPT"}

AcceptedIn(acks) ==
    {e \in UNION {a.entries : a \in Highest(acks)} : e.phase \in {"ACCEPT", "COMMIT"}}

LastRead(es) ==
    {s \in SUBSET es : /\ \A e, f \in s : e.cmd = f.cmd => e = f
                       /\ {e.cmd : e \in s} = {e.cmd : e \in es}}

ProposeDep(e) == IF e.dep = {} THEN Nil ELSE e.dep

\* handleSync.  The goroutines that pass the commands of the Sync to deliverChan share one
\* loop variable: they pass some of the commands (MayWake).  An empty dependency is nil
\* after its way through the network, and is found anew when the proposal comes.
Refreshed(n, c, sync) ==
    LET es == {e \in sync.entries : e.cmd = c}
        successors == {e.cmd : e \in {f \in sync.entries : c \in f.dep /\ f.cmd \notin Delivered(n)}}
    IN  IF c \in Delivered(n) THEN n.desc[c]
        ELSE IF es = {} THEN [NewDesc EXCEPT !.successors = successors]
        ELSE LET e == CHOOSE e \in es : TRUE
             IN  [NewDesc EXCEPT !.phase = e.phase, !.dep = e.dep, !.proposeDep = ProposeDep(e),
                                 !.noop = e.noop, !.propose = c \in n.proposes,
                                 !.successors = successors]

InSync(sync) == {e.cmd : e \in sync.entries}

Synced(n, sync, woken) ==
    [n EXCEPT !.status = "NORMAL", !.ballot = sync.ballot, !.cballot = sync.ballot,
              !.lastCmd = {}, !.lastWrite = {},
              !.kept = {}, !.queued = {}, !.noted = {},
              !.again = @ \cup (Described(n) \ InSync(sync)),
              !.desc = [c \in Commands |-> Refreshed(n, c, sync)],
              !.deliverChan = @ \cup woken,
              !.accepts = @ \cup (n.proposes \ InSync(sync))]

\* Its own ack of a recovered command, which it sends to all and handles at the end.
OwnAckOfSynced(n, c) == [FastAck(n, c, 0) EXCEPT !.hs = NoHash]

Told(n, c) ==
    [Send(n, c, OwnAckOfSynced(n, c)) EXCEPT !.replies = @ \cup
        {[cmd |-> c, ballot |-> n.ballot, hs |-> NoHash, val |-> "none"]}]

AckOfSynced(n, r, c) ==
    IF ~IsLeader(n, r) THEN CommonCaseFastAck(SendSlow(n, c, FALSE), r, c, r, SlowAck(n))
    ELSE IF c \in Delivered(n) THEN Told(n, c)
    ELSE CallAfterPropagate(Told(n, c), r, c, OwnAckOfSynced(n, c), FALSE)

AckNext(n, r, order, k) == IF k < Len(order) THEN AckOfSynced(n, r, order[k + 1]) ELSE n

AcksInOrder(n, r, order) ==
    LET after[k \in Nat] == IF k = 0 THEN n ELSE AckNext(after[k - 1], r, order, k - 1)
    IN  after

AcksOfSynced(n, r, cs) ==
    LET order == SetToSeq(cs)
    IN  AcksInOrder(n, r, order)[Len(order)]

AfterSync(n, r, sync, woken) ==
    AcksOfSynced(Synced(n, sync, woken), r, n.proposes \cap InSync(sync))

\* The commands that may be woken at n: none, when the loop variable can end at a command that
\* was delivered before.
Wakeable(n, sync) == InSync(sync) \ Delivered(n)

MayWake(n, sync) ==
    IF InSync(sync) = {} \/ InSync(sync) \cap Delivered(n) # {} THEN SUBSET Wakeable(n, sync)
    ELSE (SUBSET Wakeable(n, sync)) \ {{}}

HandleNewLeaderAcks(r, acks) ==
    /\ Alive(r) /\ node[r].status = "RECOVERING"
    /\ IsLeader(node[r], r)
    /\ node[r].ballot \notin {s.ballot : s \in syncs}
    /\ \A a \in acks : a.ballot = node[r].ballot
    /\ \E es \in LastRead(AcceptedIn(acks)) :
           LET sync == [ballot |-> node[r].ballot, entries |-> es, acks |-> acks]
           IN  /\ syncs' = syncs \cup {sync}
               /\ \E woken \in MayWake(node[r], sync) :
                      node' = [node EXCEPT ![r] = AfterSync(node[r], r, sync, woken)]
    /\ UNCHANGED <<newLeaders, newLeaderAcks>>

HandleSync(r, sync) ==
    LET n == node[r]
    IN  /\ Alive(r)
        /\ n.ballot < sync.ballot \/ (n.ballot = sync.ballot /\ n.status = "RECOVERING")
        /\ \E kept \in IF n.status = "NORMAL" THEN MayKeep(r) ELSE {n.kept},
              woken \in MayWake(n, sync) :
               Becomes(r, AfterSync([Counted(n) EXCEPT !.kept = kept], r, sync, woken))

-----------------------------------------------------------------------------
NormalStep(r) ==
    \E c \in Commands :
        \/ TakeProposal(r, c)
        \/ QueuedProposal(r, c)
        \/ NoteLeaderAck(r, c)
        \/ HandleLeaderAck(r, c)
        \/ \E s \in Replicas : HandleAck(r, s, c)
        \/ Wake(r, c)
        \/ DeliverNext(r, c)

RecoveryStep(r) ==
    \/ \E b \in 1..MaxBallot : BeTheLeader(r, b) \/ HandleNewLeader(r, b)
    \/ \E acks \in kSubset(Majority, newLeaderAcks) : HandleNewLeaderAcks(r, acks)
    \/ \E s \in syncs : HandleSync(r, s)

Next == \E r \in Replicas : NormalStep(r) \/ RecoveryStep(r)

Spec == Init /\ [][Next]_vars

-----------------------------------------------------------------------------
\* Types.
DescTyped(d) ==
    /\ d.phase \in {"START", "PRE_ACCEPT", "ACCEPT", "COMMIT"}
    /\ d.dep \subseteq Commands /\ d.successors \subseteq Commands
    /\ d.proposeDep = Nil \/ d.proposeDep \subseteq Commands
    /\ \A p \in {"slow", "fast"} :
           Len(d.acks[p].leader) <= 1 /\ DOMAIN d.acks[p].msgs \subseteq Replicas

TypeOK ==
    /\ newLeaders \subseteq 1..MaxBallot
    /\ \A r \in Replicas :
           LET n == node[r]
           IN  /\ n.ballot \in 0..MaxBallot /\ n.cballot <= n.ballot
               /\ n.status \in {"NORMAL", "RECOVERING"}
               /\ Delivered(n) \subseteq n.proposes
               /\ \A c \in Commands : DescTyped(n.desc[c])
               /\ \A s \in Replicas, c \in Commands : n.heard[s][c] = Nil \/ n.heard[s][c] <= Len(node[s].acked[c])

\* No replica executes a command twice, however often its acks, its proposal and its
\* successors come back to it.
ExecutedOnce == \A r \in Replicas : IsInjective(node[r].executed)

\* A command that a follower executed in the first ballot was acknowledged by a majority of the
\* replicas, the follower among them or not: the sets of acks count nobody twice.
Ackers(c) == {r \in Replicas : node[r].acked[c] # <<>>}

QuorumBacked ==
    \A r \in Replicas : \A c \in Delivered(node[r]) :
        IsLeader(node[r], r) \/ node[r].ballot > 0 \/ Cardinality(Ackers(c)) >= Majority

\* The path a reply's hash stands for is what the leader had executed, to the last command:
\* a client that finds the hash at a majority knows that they have seen the same commands in
\* the same order, whatever order their proposals came in.
RepliesHashHistory == newLeaders = {} =>
    \A r \in Replicas : \A rep \in node[r].replies :
        \E i \in DOMAIN node[r].executed :
            rep.hs = SubSeq(node[r].executed, 1, i) /\ node[r].executed[i] = rep.cmd

\* A follower's log of the key, as it cuts and extends it with the leader's hashes in any
\* order with its own proposals, begins with a path of the leader, names no command twice, and
\* misses none whose proposal came, once the leader's hashes that came first are applied.
Paths == newLeaders = {} =>
    \A r \in Replicas :
        LET n == node[r]
        IN  /\ n.log.hash = n.log.syncedHash \o n.log.pending
            /\ IsPrefix(n.log.syncedHash, node[0].log.hash)
            /\ IsInjective(n.log.hash)
            /\ n.pendingHashUpds = {} => n.proposes \subseteq ToSet(n.log.hash)

\* The leader's order of conflicting commands is every replica's.  No failure is needed to
\* break it: a follower outside the fast quorum that has another's slow ack first commits
\* on the leader's ack before it takes the leader's dependency over.
Conflicting(c, d) == c # d /\ (c \notin Reads \/ d \notin Reads)

OrderOf(r) ==
    LET x == node[r].executed
    IN  {p \in (DOMAIN x) \X (DOMAIN x) : p[1] < p[2] /\ Conflicting(x[p[1]], x[p[2]])}

SameOrder ==
    \A r, s \in Replicas :
        \A p \in OrderOf(r), q \in OrderOf(s) :
            ~(node[r].executed[p[1]] = node[s].executed[q[2]] /\ node[r].executed[p[2]] = node[s].executed[q[1]])

\* A command that a majority had accepted in the first ballot cannot go unnoticed in a change
\* of leader: one of the replicas that the new leader hears from had executed it when it
\* answered, or it offers the command itself, and then the Sync has an entry of that name.
\* The entry need not be the command: another's answer may offer a no-op of the name, for a
\* proposal that it has not passed on, and of the two the one that is read last is taken.
Offered(c, es) == {e \in es : e.cmd = c /\ e.phase \in {"ACCEPT", "COMMIT"}}

OffersItself(a, c) == \E e \in Offered(c, a.entries) : ~e.noop
OffersNoop(a, c) == \E e \in Offered(c, a.entries) : e.noop

\* What a replica has accepted in the first ballot, the leader with its fast ack.
AcceptedFirst(n, r, c) ==
    \E i \in 1..Len(n.acked[c]) : n.acked[c][i].ballot = 0 /\ (n.acked[c][i].dep = Nil \/ r = 0)

AcceptedAt(r, c) == AcceptedFirst(node[r], r, c)

AcceptedReported ==
    \A s \in syncs : (\A a \in s.acks : a.cballot = 0) =>
        \A c \in Commands : Cardinality({r \in Replicas : AcceptedAt(r, c)}) >= Majority =>
            \E a \in s.acks :
                \/ c \in a.executed
                \/ /\ OffersItself(a, c)
                   /\ \E e \in s.entries : e.cmd = c /\ (e.noop => \E k \in s.acks : OffersNoop(k, c))

\* Nothing is lost on the way: when every replica has handled all that there is to handle,
\* every command has been executed everywhere.  Each step handles something, so that the
\* runs without a change of leader all end, in such a state.
Quiet ==
    \A r \in Replicas :
        LET n == node[r]
        IN  /\ n.proposes = Commands
            /\ n.queued = {} /\ n.noted = {} /\ n.unwoken = {} /\ n.deliverChan = {}
            /\ \A s \in Replicas \ {r}, c \in Commands : ~HasNext(r, s, c)

NothingLeft ==
    (newLeaders = {} /\ Quiet) => \A r \in Replicas : Delivered(node[r]) = Commands

-----------------------------------------------------------------------------
(***************************************************************************)
(* The inductive invariant.  First the values that variables have.         *)
(***************************************************************************)
Phases == {"START", "PRE_ACCEPT", "ACCEPT", "COMMIT"}
Deps == SUBSET Commands
Path == Seq(Commands)
Ack == [ballot : Nat, dep : {Nil} \cup Deps, hs : Path, seqnum : Nat]
MsgSet ==
    [leader : {<<>>} \cup {<<d>> : d \in {Nil} \cup Deps}, msgs : UNION {[s -> {Nil} \cup Deps] : s \in SUBSET Replicas}]
Desc ==
    [phase : Phases, dep : Deps, proposeDep : {Nil} \cup Deps, hs : Path, propose : BOOLEAN,
     noop : BOOLEAN, waiting : SUBSET Ack, slowPath : BOOLEAN, successors : Deps,
     acks : [slow : MsgSet, fast : MsgSet]]
HashUpdate == [cmd : Commands, seqnum : Nat, hash : Path]
Log ==
    [synced : Int, syncedHash : Path, pending : Path, nodes : Deps, hash : Path,
     pendingUpd : SUBSET HashUpdate]
Node ==
    [dead : BOOLEAN, status : {"NORMAL", "RECOVERING"}, ballot : Nat, cballot : Nat,
     lastCmd : Deps, lastWrite : Deps, log : Log, proposes : Deps, queued : Deps, again : Deps,
     pendingHashUpds : SUBSET HashUpdate, seqnum : Nat, desc : [Commands -> Desc], kept : Deps,
     executed : Path, noops : Deps, unwoken : Deps, deliverChan : Deps,
     acked : [Commands -> Seq(Ack)],
     replies : SUBSET [cmd : Commands, ballot : Nat, hs : Path, val : {"result", "none"}],
     accepts : Deps, heard : [Replicas -> [Commands -> {Nil} \cup Nat]], noted : Deps]
Entry == [cmd : Commands, phase : Phases, dep : Deps, noop : BOOLEAN]
NewLeaderAck ==
    [from : Replicas, ballot : Nat, cballot : Nat, entries : SUBSET Entry, executed : Deps]
Sync == [ballot : Nat, entries : SUBSET Entry, acks : SUBSET NewLeaderAck]

\* What each replica's state says of itself: a replica's ballot is the one it works in but
\* during a recovery, delivered commands and queued ones were proposed, and a leader's acks
\* have a dependency.
Sane(n, r) ==
    /\ n.cballot <= n.ballot /\ (n.status = "NORMAL" => n.cballot = n.ballot)
    /\ n.ballot = 0 => n.status = "NORMAL"
    /\ IsInjective(n.executed)
    /\ n.queued \subseteq n.proposes
    /\ \A c \in Commands :
           LET d == n.desc[c]
           IN  /\ d.propose => c \in n.proposes
               /\ c \in Delivered(n) => d.propose /\ d.waiting = {}
               /\ c \in n.queued => d.propose \/ d.proposeDep # Nil
               /\ \A m \in d.waiting : n.status = "NORMAL" /\ m.ballot = n.ballot => m.dep # Nil
               /\ \A i \in 1..Len(n.acked[c]) :
                      /\ n.acked[c][i].ballot <= n.ballot
                      /\ Leader(n.acked[c][i].ballot) = r => n.acked[c][i].dep # Nil

\* In the first ballot a set of acks has those of replicas that have sent some, and what is
\* committed has a majority of them.
AckersAt(n, r, c) ==
    {s \in Replicas : IF s = r THEN n.acked[c] # <<>> ELSE node[s].acked[c] # <<>>}

AckBacked(n, r, c) ==
    LET d == n.desc[c]
        ackers == AckersAt(n, r, c)
    IN  /\ \A p \in {"slow", "fast"} :
               /\ d.acks[p].leader # <<>> => 0 \in ackers
               /\ DOMAIN d.acks[p].msgs \subseteq ackers \ {0}
        /\ d.waiting # {} => 0 \in ackers
        /\ r # 0 /\ (d.phase = "COMMIT" \/ c \in Delivered(n)) => Cardinality(ackers) >= Majority

AcksBacked(n, r) == n.ballot = 0 => \A c \in Commands : AckBacked(n, r, c)

\* What a replica has accepted in the first ballot it remembers, and as the command that it is,
\* until it works in another.
Remembered(n, r) == n.cballot = 0 =>
    \A c \in Commands :
        /\ ~n.desc[c].noop
        /\ AcceptedFirst(n, r, c) =>
               c \in Delivered(n) \/ (n.desc[c].propose /\ n.desc[c].phase \in {"ACCEPT", "COMMIT"})

\* A leader's ack that has been noted is still to be handled.
NotedWaits ==
    \A r \in Replicas : \A c \in node[r].noted :
        LET s == Leader(node[r].ballot) IN r # s /\ HasNext(r, s, c)

HeardSent ==
    \A r, s \in Replicas, c \in Commands :
        node[r].heard[s][c] # Nil => node[r].heard[s][c] <= Len(node[s].acked[c])

\* A replica answers a NewLeader once, with everything it has accepted and not executed in
\* the first ballot if it has worked in no other; a Sync has what the answers offered, and
\* nothing else.
AnswersComplete ==
    \A a \in newLeaderAcks :
        /\ a.ballot > 0 /\ a.ballot <= node[a.from].ballot
        /\ \A k \in newLeaderAcks : k.from = a.from /\ k.ballot = a.ballot => k = a
        /\ a.cballot = 0 => \A c \in Commands :
               AcceptedAt(a.from, c) => c \in a.executed \/ OffersItself(a, c)

SyncsComplete ==
    \A s \in syncs :
        /\ s.acks \subseteq newLeaderAcks /\ Cardinality(s.acks) = Majority
        /\ \A a \in s.acks : a.ballot = s.ballot
        /\ \A e \in s.entries : \E a \in s.acks : e \in Offered(e.cmd, a.entries)
        /\ (\A a \in s.acks : a.cballot = 0) =>
               \A a \in s.acks : \A c \in Commands : Offered(c, a.entries) # {} => c \in InSync(s)

Announced ==
    /\ \A r \in Replicas : node[r].ballot \in newLeaders \cup {0}
    /\ \A s \in syncs : s.ballot \in newLeaders

\* The leader of the first ballot executes every proposal at once: its log, its history and
\* its acks are one sequence.
Untouched(d) ==
    /\ ~d.propose /\ d.phase = "START" /\ d.proposeDep = Nil /\ d.waiting = {}
    /\ d.acks.slow.leader = <<>> /\ d.acks.fast.leader = <<>>

OrdersAll(n) ==
    LET x == n.executed
    IN  /\ n.log.hash = x /\ n.log.syncedHash = <<>> /\ n.log.pending = x
        /\ n.log.nodes = ToSet(x) /\ n.log.pendingUpd = {}
        /\ ToSet(x) = n.proposes /\ n.seqnum = Len(x)
        /\ n.queued = {} /\ n.again = {} /\ n.noted = {} /\ n.pendingHashUpds = {}
        /\ n.lastCmd \subseteq n.proposes /\ n.lastWrite \subseteq n.proposes
        /\ \A c \in Commands \ n.proposes : n.acked[c] = <<>> /\ Untouched(n.desc[c])
        /\ \A i \in 1..Len(x) :
               /\ Len(n.acked[x[i]]) = 1
               /\ n.acked[x[i]][1].seqnum = i - 1 /\ n.acked[x[i]][1].hs = SubSeq(x, 1, i)
        /\ \A rep \in n.replies : \E i \in 1..Len(x) : rep.hs = SubSeq(x, 1, i) /\ rep.cmd = x[i]

LeaderOrders == OrdersAll(node[0])

\* A follower has seen the leader's hashes up to that of the k-th command of the leader's
\* history l: those of proposals that came are in its log g, the others wait.  Its pending
\* commands are those whose hashes it has not seen.
Seen(n) == {c \in Commands : c \in n.noted \/ n.heard[0][c] # 0}

HashOf(l, i) == [cmd |-> l[i], seqnum |-> i - 1, hash |-> SubSeq(l, 1, i)]

Chained(g, l, k, unseen) ==
    /\ g.synced \in -1..(k - 1) /\ g.syncedHash = SubSeq(l, 1, g.synced + 1)
    /\ g.hash = g.syncedHash \o g.pending /\ g.pendingUpd = {}
    /\ IsInjective(g.pending) /\ ToSet(g.pending) = unseen /\ g.nodes = unseen

Follows(n, l, k) ==
    /\ Seen(n) = {l[i] : i \in 1..k}
    /\ n.pendingHashUpds = {HashOf(l, i) : i \in {j \in 1..k : l[j] \notin n.proposes}}
    /\ Chained(n.log, l, k, n.proposes \ Seen(n))
    /\ \A i \in 1..k : l[i] \in n.proposes => i - 1 <= n.log.synced
    /\ n.again = {} /\ n.replies = {}
    /\ \A c \in Commands :
           /\ n.heard[0][c] \in {0, 1}
           /\ c \in n.noted => n.heard[0][c] = 0

FollowersFollow ==
    \A r \in Replicas \ {0} :
        \E k \in 0..Len(node[0].executed) : Follows(node[r], node[0].executed, k)

Typed ==
    /\ node \in [Replicas -> Node]
    /\ newLeaders \subseteq 1..MaxBallot
    /\ newLeaderAcks \subseteq NewLeaderAck
    /\ syncs \subseteq Sync
    /\ \A r \in Replicas : Sane(node[r], r)
    /\ NotedWaits
    /\ HeardSent
    /\ Announced

Backed == \A r \in Replicas : AcksBacked(node[r], r)

Survival ==
    /\ \A r \in Replicas : Remembered(node[r], r)
    /\ AnswersComplete
    /\ SyncsComplete

Ordered == newLeaders = {} => LeaderOrders /\ FollowersFollow

Kept == Typed /\ Backed /\ Survival

IInv == Kept /\ Ordered
=============================================================================
