# PPaxos in TLA+

PPaxos (`src/swiftpaxos/`) is a Go program that runs a geo-replicated key-value
store under one of several consensus protocols: SwiftPaxos, Paxos, N²Paxos,
CURP, Fast Paxos, EPaxos and EPPaxos.  This directory holds TLA+ models of the
protocols and of the transport under them as they are *coded*, TLC
configurations that check them on small groups, and TLAPS proofs.

## 1. Inventory

| Component | State | Operations | Hard behaviour | What makes it correct |
|---|---|---|---|---|
| N²Paxos, `n2paxos/` | per slot a command descriptor (command, phase, set of 2Bs, queue), maps of proposals, slots and delivered slots | proposals, 2A, 2B, `deliver`, the event loop's `deliverChan` | a goroutine per descriptor; `deliver` may be woken from five places; the leader executes before the commit; partial broadcasts of a crash | replicas execute one order, once, what a majority holds; every command is executed |
| Paxos, `paxos/` | instance space (commands, ballots, status), a leader's bookkeeping, default ballots | propose, prepare, accept, commit, their answers, `recover`, the executor goroutine | six kinds of messages in six channels overtake one another; several leaders; a timeout that recovers an instance someone leads | one batch per instance; a batch is executed if a write quorum has it; ballots have one owner; no client is forgotten, and each is answered with its own results |
| Fast Paxos, `fastpaxos/` | instances, 2B sets per ballot, proposals, delivered commands | proposal, 2B, uncoordinated recovery, commit | every replica recovers from a collision alone; handlers call themselves; late 2Bs | commits agree and are final; collisions end |
| CURP, `curp/` | N²Paxos slots, unsynchronised commands per key | as N²Paxos, witness replies, sync | optimistic answers of the leader; counts that go up and down in different goroutines | an answer that a client accepts is never undone |
| SwiftPaxos, `swift/` | descriptors with fast and slow acknowledgement sets, dependencies and path hash of the key, ballots | propose, fast and slow acknowledgement, new leader, its answers, Sync | acknowledgements before proposals, successors delivered by other goroutines, merged batches, recovery | equal hashes mean equal histories; conflicting commands are executed in one order; a new leader hears of what was accepted, and keeps its name |
| EPaxos, `epaxos/` | a row of instances per replica, the leaders' bookkeeping, conflict maps, the executor's search | pre-accept, accept, commit, prepare and their replies; execution of components | cycles of dependencies; quorums that differ; the executor reads what the event loop writes; recovery | attributes agree and are final; interfering commands depend on one another and are executed in one order |
| EPPaxos, `eppaxos/` | as EPaxos, with timestamps | as EPaxos, with a batcher | as EPaxos | as EPaxos |
| PPaxos, SPPaxos | | | `run.go` starts neither | |
| Transport, `replica/`, `rpc/` and the `defs.go` of each protocol | connections, `Alive`, RPC tables, message encodings | broadcast, send, listeners of peers and clients, Marshal, Unmarshal | partial broadcasts; a connection that breaks inside a message; lengths and signs at their limits | what is read is what was written, in order |
| Quorums, `replica/quorum.go`, `replica/mset.go` | sets of messages | `Add`, quorum sizes, quorums of a ballot | handlers called again beyond the quorum; messages before the leader's | any two quorums meet; nobody is counted twice |
| Master, `master/` | node list, leader and alive flags | Register, GetLeader, GetReplicaList, ping loop | failures during start-up, unlocked flags | some live replica leads in the end |
| Clients, `client/` | window, outstanding requests | Loop, Connect, SendProposal | a window and synchronisation points on one channel | the loop ends; at most `window` requests are outstanding |
| Conditions, `hook/cond.go` | delayed functions | Call, Recall | a delayed function that adds another | each runs once |
| State machine, `state/` | key-value map | Execute, Conflict, encoding | 16-bit lengths, ranges of scans | Conflict covers everything that does not commute |

Components interact through TCP connections (one per pair of replicas; a
reader goroutine hands each message to the channel of its type), through the
clients' proposals (to the leader, or broadcast to all by a *fast* client), and
through the master's RPCs, which make replicas leaders.

## 2. Modules

| Module | Models |
|---|---|
| `ReplicatedLog` | abstract: one log, of which every replica applies a growing prefix |
| `N2Paxos` | `n2paxos/n2paxos.go`, with the batcher and crashes |
| `N2PaxosProofs` | theorems about `N2Paxos` and their proofs |
| `Paxos` | `paxos/paxos.go`, with the executor and the master's appointments |
| `PaxosProofs` | theorems about `Paxos`, with any leaders, timeouts and recoveries, and under one leader |
| `FastPaxos` | `fastpaxos/fastpaxos.go`, with `MsgSet.Add` and quorum files |
| `FastPaxosProofs` | theorems about `FastPaxos` and their proofs |
| `Induction` | induction over the naturals, over runs of a set of states, and what a function iterated over ballots, or over a sequence, keeps; used by `FastPaxosProofs`, `SwiftProofs` and `EPaxosProofs` |
| `Curp` | `curp/curp.go` and the quorums of `curp/client.go`, with `OptCondF.Call` |
| `CurpProofs` | theorems about `Curp` and their proofs |
| `HashLog` | `swift/dpath.go`: the hash of a key's path |
| `Swift` | `swift/swift.go` and `swift/recovery.go`, with the batcher, `MsgSet`, `OptCondF` and the leader's quorums |
| `SwiftProofs` | theorems about `Swift`: what each handler does, types, and no double execution |
| `SwiftSafetyProofs` | theorems about `Swift`: quorums, what a new leader hears of, and the paths that hashes stand for |
| `EPaxos` | `epaxos/epaxos.go` and `epaxos/exec.go`, with crashes |
| `EPaxosProofs` | theorems about `EPaxos` without recoveries |
| `Codec` | how kinds of fields become bytes and are read back |
| `Messages` | the layouts of all messages of seven protocols and of the clients, and the RPC tables |
| `Wire` | a connection: `sender.go`, the three listeners, breaks |
| `MC…` | constants, symmetry, groups and bounds for TLC |

`PROJECT.json` maps each definition to the lines it translates.  In each module
a definition that is named after the one it precedes (`DeliverForgetting`,
`Deliver`) is a mistake the code does not make; put in the place of the right
one, it must break a property.

### N2Paxos

A step is one handler: of the event loop or of a slot's descriptor.  The code
runs a slot's handlers one at a time, and those of different slots share only
concurrent maps, which each handler reads before it acts; so one handler at a
time is what an observer of these maps can see.  `slotCmd` is `desc.cmd` and
its inverse is `r.slots`; `twoBs` is the message set; `committed` the phase;
`delivered` and `deliverChan` carry the names of the code.  `Accept` is
`handle2A`, `Vote` is `handle2B` with the handler of the set, `Deliver` is
`deliver`.  `msgs` holds what is on the wire or in a queue and is unordered,
but for the leader's 2A and 2B of one slot.  A crash loses what the replica
had sent and nobody has handled, and what was sent to it; a message handled
after its sender's death needs no case of its own, because the death may as
well come after.

Properties: `Agreement`, `QuorumBacked`, `ExecutedOnce`, `NothingLeft`,
`EventuallyExecuted` and `ImplementsLog`, the refinement of `ReplicatedLog`
with the leader's slots for the log: the order is final when the leader takes
a proposal.

### Paxos

A step is one turn of `run()`, or one look of the executor goroutine.  A batch
of commands is one value.  `net` has a queue for each pair of replicas and each
type of message, as the program has a connection per pair and a channel per
type: messages of different types overtake each other.  No message is lost,
which a connection does not do; one that is never handled stands for a stopped
replica.  All fields of `Replica`, `Instance` and `LeaderBookkeeping` that a
condition reads are variables.

The model follows the code where it departs from Paxos: `ChosenValue` ignores
what acceptors reported (line 585), `HandleAcceptReply` counts answers (line
650) and gives `makeBallot` a ballot for an instance (line 643),
`HandleCommitShort` commits whatever is there (line 537).  `Agreement` and
`QuorumBacked` therefore hold with one leader and no timeout (`paxos_stable`)
and `paxos_agreement` shows the first lost to a recovery.

### FastPaxos

A step is one event of `run()` with the calls it makes: a replica handles its
own 2B on the spot, which may complete a quorum of the next ballot, and so on.
`View` is the state of an instance on the way through these calls, `Settled`
makes them, ballot after ballot, and `Conclude` is `commit`'s loop.  `Ballot`
and `Cballot` are equal everywhere in the code, so one is kept.  `quorum` is
chosen at the start: all replicas with the size of three quarters, or the
members of a quorum file.

`FixedQuorum` says that a quorum is all of its members, which a quorum file
makes it, and the size of three quarters in a group of at most four.  The
properties are about members: a replica that a quorum file leaves out handles
proposals as well, and what its `handlePropose` then writes is not what the
members commit.

### Curp

A step is one handler, but a follower takes a proposal in three: `TakeProposal`
stores it, `Answer` answers as a witness, `Unsync` counts it in, and the
goroutines of descriptors may run in between.  `Run` is a call of `afterPayload`
with all that was queued there (accept, commit, deliver), `Wait` a call that is
queued.  An Accept or an acknowledgement is in flight from the moment the
sender's state shows it until the receiver's does, so there is no variable of
messages, and a stopped replica is one that takes no more steps.  The client's
state is not needed either: `FastAnswered` and `SyncAnswered` say what it has
been sent, and hold from then on.

`dep` is `desc.dep` and `early` says that the leader has made the descriptor of
its next slot before the proposal came.  That happens after every execution,
and then the slot's dependency is lost (`LeaderPropose`), so that an answer may
be given on top of a command that is not committed.  `Recoverable` holds all
the same, because it asks for the command alone and not for those it was
executed after.

The count of a witness is not exact: a command that is executed between
`TakeProposal` and `Unsync` is counted out at zero and then in, for ever.
`UnsyncedCovers` states the side that matters for safety.

### Swift and HashLog

The hash of a path is the path itself: SHA-256 is taken to have no collisions.
`HashLog` is the list of pending commands behind the leader's last synchronised
hash; its operators are the methods of the same names.

`Swift` keeps the whole state of a replica in a record, `node[r]`, because a
handler of this code makes many nested calls: `HandleAcks`, `Deliver`,
`FastAckFromLeader`, `Recall` are functions from the state before to the state
after, and an action composes them as the handler does.  A step is one event of
`run()` or one message of a descriptor's goroutine; the leader's descriptors
run in the event loop.  The variable `acked` holds the acknowledgements a
replica has sent, and `heard` how many of another's each replica has handled: an
acknowledgement is in flight in between.  The batcher's merging of a fast and a
slow acknowledgement is the choice `Merges`, open while neither is sent.  `Wake`
and `DeliverNext` are the goroutines between a delivery and the successors'.

Handling an acknowledgement of the leader is two steps, as in the code: the
event loop notes the hash (`NoteLeaderAck`), then the descriptor handles the
acknowledgement (`HandleLeaderAck`).  In the second the order of the code's
statements is kept, and with it the defect that `swift_order` shows.

`StartRecovery`, `HandleNewLeaderAcks` and `HandleSync` are the change of
leader.  The answers are a set of records; the new leader takes any majority of
them, and where two disagree about a command, either (`LastRead`: the last one
read wins).  What is recovered is what the code recovers: an accepted no-op for
a proposal whose descriptor is not there yet, and a dependency-free entry for
it.  The goroutines of `handleSync` capture the loop variable (go 1.20), so only
some of the commands are passed on to be delivered, and possibly none, if the
variable ends at one that was delivered before (`MayWake`).

All commands are of one key, which is where commands conflict; reads are in the
model, and the runs use writes.

### EPaxos

`node[r]` is again a record, `net` a queue per pair of replicas and type of
message.  A step is a handler of the event loop or a call of the executor.
`InstanceSpace`, `LeaderBookkeeping`, the conflict maps and `maxSeqPerKey` are
fields; `UpdateAttributes`, `MergedDeps`, `UpdateConflicts` are the functions
of those names.  The executor's depth-first search, which is recursive in the
code, has its calls under way in a list: `StrongConnect` is one turn of the
loop of the innermost call, which looks at a dependency (`Visited`), calls for it
(`Called`) or ends (`Finished`, `Returned`), and `FindSCC` is the state after as
many turns as any search can take (`MaxSteps`).  `Component` sorts a component as
`nodeArray` does: by sequence number, then row, then the time the replica made
the record (`created`, counted row by row, as the order of times is only looked
at within a row).

The executor is another goroutine.  It may run between the assignment of an
instance's status and those of its attributes (`WhileTaken`), and then orders
the instance by what it had before; `torn` remembers it.

The groups to check are elements of a constant set, chosen by `Init`: sizes,
proposals, thrift, which replicas may crash and which recover, and whether a
recovery may start while the instance's replica is only late.  Crashed replicas
are believed alive until a sender finds out: each broadcast takes any subset of
them for dead.

The code's departures are kept: `OnTheWire` forgets `VBallot`, which
`PrepareReply` does not encode; `Accepted` leaves the status as it was;
`MadeBallot` gives the same ballot at each attempt; a new leader's bookkeeping
starts with the sequence number -1, and this is what is sent.

### Codec, Messages, Wire

A message type is a layout, the sequence of its fields' kinds; `Marshal` and
`Unmarshal` interpret it as the generated methods do, error returns included:
the error of a nested structure is dropped (`Struct`), that of an inlined one is
not.  A byte is a digit of base `Radix`, so that TLC meets the largest length of
a value and counts of more than one digit with lists of a few elements.

In `Wire` a connection carries two messages.  The listener reads a code, makes
an object, unmarshals it and hands it on, or ends, or stops the replica on an
unknown code.  A break cuts the bytes anywhere.  Messages of clients are handed
on by goroutines (`sleeping`), which may overtake one another.

## 3. Runs and bounds

| Run | Bounds | What it shows |
|---|---|---|
| `n2_safety` | 3 replicas, 2 commands, the leader may crash | the inductive invariants of the proofs, one log applied in order, once; without a crash nothing is left unexecuted: no lost wake-up among `proposes`, `slots` and `delivered` |
| `n2_crash` | 4 replicas, 1 command, a follower may crash | the remaining majority executes, and followers only what a majority of three of four holds |
| `paxos_stable` | 3 replicas, 2 batches and instances, one leader, no timeout, 5 messages in flight | the inductive invariants of the proofs; agreement, write quorums, answers paired with their batches |
| `paxos_change` | 2 replicas, 2 batches and instances, 2 leaders, 1 timeout each, ballots to 3, 2 messages in flight | owners of ballots, no overwritten record, no forgotten client |
| `paxos_agreement` | 3 replicas, 1 batch, 1 timeout | *violation*: a recovery replaces an accepted batch |
| `fast` | 3 replicas, 2 commands and instances, ballots to 2, quorum of all three or of two by a file | the members' commits agree, are final and unique; collisions are resolved |
| `curp` | 3 replicas, 2 commands of one key, 4 acknowledgements in flight | one log, commits backed by a majority, exclusive witnesses, fast answers that survive a minority, nothing left unexecuted |
| `swift` | 3 replicas, 2 conflicting commands, one new leader (`SmallChange`) | hashes stand for histories, acknowledgements are counted once, no lost wake-up, and what a majority accepted is reported to a new leader and keeps its name |
| `swift_order` | 3 replicas, 2 conflicting commands, no change of leader | *violation*: a follower outside the fast quorum executes out of order |
| `epaxos` | four groups, below | attributes agree and are final, interfering commands meet, components are executed in one order, nothing is left unexecuted |
| `epaxos_recovery` | the groups of recovery that go wrong | *violation*: a recovery commits other dependencies than those already committed |
| `wire` | every message of every RPC table in two samples, followed by another; bytes of base 4, hashes of 3 bytes | the reader stops where the next message begins, and loses nothing; what a break leaves |

The groups of `epaxos`: `ThreeRow`, three thrifty replicas of which one has two
instances in a row; `Five`, five thrifty replicas with two commands, whose fast
quorum of three is as large as a majority; `ThreeAll`, three replicas that
broadcast to all, so that a reply comes after the decision; `Crashing`, three
thrifty replicas of which the first may crash at any point and the second
recovers its instance, to a no-op if nobody heard of it.  One command in each of
the groups of three only reads.  `epaxos_recovery` has `CrashingAll`, as
`Crashing` without thrift, and `Late`, where the recovered replica is alive.
Each of the two violates `Agreement` alone as well.

Why the bounds are enough: two commands are what it takes to collide, to
reorder and to execute twice.  Three replicas give quorums that are not
everybody; four tell a majority from a half; five give EPaxos two pairs of
replicas whose quorums share a member that is neither's leader.  In `swift` the
third replica is outside the fast quorum of the first ballot, so both kinds of
followers are there.  The lists of `wire` have one and two elements, which with
base 4 are counts of one and two digits, and its values the greatest length
that two bytes hold.

`MaxInFlight` (a `CONSTRAINT`), `MaxBallot`, `MaxTimeouts`, `MaxInstances`,
`NumSlots`, `Executing` (replicas whose executor runs), `SmallChange` (a change
of leader, in which the old leader takes no part, is followed up to the Sync
while at most five of the six proposals have been taken, and beyond it while at
most two have) and the number of recoveries in a group are the
only bounds.  `FastPaxos` stops where a recovery would need a ballot beyond
`MaxBallot`, which with a fixed quorum of three is never needed twice.  `curp`
without its bound has 2.9 million states and no violation either; the bound of
four lets the leader's acknowledgements of both slots be under way to both
followers.

`CHECK_DEADLOCK FALSE` is set because clients propose finitely many commands:
the systems stop when all is done.  `TypeOK` of `FastPaxos`, `Curp` and `Wire`
document the variables and belong to no run.

### Fairness

`N2Paxos`: weak fairness of what each running replica does (`Takes`): it does
not stop taking proposals, messages and slots while there are any.  The event
loop is a `select` over channels, goroutines are scheduled fairly, and TCP
delivers what a running sender sent.  Which of them it takes first is open: as
each is taken once, none is neglected for ever.  Nothing is assumed of crashes.

`NothingLeft`, of `N2Paxos`, `Curp`, `Swift` and `EPaxos`, needs no fairness: it
says that when there is nothing left to handle everything has been executed.
As every step uses up a proposal, a message or a slot, the systems get there
whatever the schedule, if only they go on.

## 4. Proofs

The theorems hold for every value of the constants under the assumptions that
the modules name.  Each rests on an inductive invariant, which TLC has checked
on the constants of a run (of those of EPaxos, which quantify over all
instances, what is said of open instances and conflicts, with the quantifiers
bounded); the names below are those of its conjuncts, and each is commented
where it is defined.

| | Proved | Under |
|---|---|---|
| N²Paxos | types, `Agreement`, `QuorumBacked`, `ExecutedOnce`, `NothingLeft`, `ImplementsLog` | nothing more |
| CURP | `QuorumBacked`, `WitnessExclusive`, `UnsyncedCovers`, `Recoverable`, `NothingLeft`, `ImplementsLog` | nothing more |
| Paxos | types, `NoOverwrite`, `BallotsOwned`, `ClientsKept` | nothing more |
| Paxos | `Agreement`, `RepliesMatch`; `QuorumBacked` in groups of at most four | one leader, no timeout, at most six replicas (`Steady`) |
| SwiftPaxos | types, `ExecutedOnce`, `QuorumBacked`, `AcceptedReported`, `RepliesHashHistory`, `Paths` | nothing more: the last two properties themselves say that no ballot has been announced |
| Fast Paxos | types | nothing more |
| Fast Paxos | `Agreement`, `CommittedOnce`, `CommitsFinal`, `CollisionsResolved` | a fixed quorum (`FixedQuorum`) |
| EPaxos | types, `Agreement`, `Final` | no replica recovers the instances of another (`NoRecovery`) |
| EPaxos | `ConflictsMeet` | `NoRecovery`; fast quorums that overlap (`Overlapping`), as all do but those of two, four and six replicas |

### N²Paxos

None of the properties is inductive: that two replicas executed the same
command says nothing of the slots that decide the next one.  `IInv` adds that
the leader's slots are filled from 0 on with distinct commands it has taken
(`LeaderFills`, `LeaderDistinct`), that every other record of a slot, in a
descriptor or in a message, is a copy of the leader's (`SlotsCopied`,
`MsgsBacked`), that votes and commits are backed by replicas with the slot's
command (`VotesBacked`, `CommitsBacked`), and that what is executed is the
prefix of slots delivered, by a follower only once they are committed
(`ExecutedPrefix`, `FollowersWait`).  A lemma per action shows that it keeps
`IInv`; `DeliverKeeps` and `VoteKeeps` are shared by the five callers of
`deliver`.  The refinement uses `IInv` to show that a delivery applies the
leader's command of that slot.

`WakeInv` is what `NothingLeft` needs: of everything that a running replica
lacks it says which message, or which slot in `deliverChan`, will bring it.  It
is inductive given `IInv`, and when nothing is left to handle every replica that
runs lacks nothing.  The delicate case is `deliver`, which the code may call for
a slot whose predecessor, commit or proposal is missing, and which then gives
up: the invariant has to name the later caller, for each of the three.

### CURP

`IInv` follows the same plan (`LeaderFills`, `SlotsCopied`, `AcksBacked`,
`CommitsBacked`, `ExecutedPrefix`), with the witness' bookkeeping beside it: the
count of unsynchronised commands of a key is at least the number of commands
that were counted in and not executed, so that a witness which finds zero has
vouched for nothing that conflicts.  `Recoverable` is then an argument about
sets of replicas: any majority meets the three quarters that a fast answer
needs in more replicas than the others can outvote.  Cardinalities of
intersections are done with `FiniteSetTheorems`.  `WakeInv` adds who is to be
woken, the functions that `OptCondF` delays among them.

### Paxos

`IInv` holds whatever leaders are appointed and however often executors time
out: a ballot above the first encodes its owner (`Division`, for `makeBallot`),
an instance has a bookkeeping only where it was opened, and the batches under
way are the clients'.

Agreement is lost to a recovery (section 5), so it is proved for a leader that is
never replaced and executors that never give up waiting.  It is no matter of one
line even then: an answer to the initial Prepare may come after an instance was
opened, and sets it back, from committed too, to be proposed again.  `SteadyInv`
ties every Accept, promise and Commit under way to one batch per instance, and
counts the promises that can still be late.  The hypothesis of six replicas is
needed: with seven, TLC finds a late promise which sets a committed instance
back, a late Commit which takes the clients' batch out of the bookkeeping, and a
further promise that makes the leader propose a no-op at the same ballot.
`QuorumBacked` needs at most four: in a larger group the leader may take two
answers of a peer for those of two.

### Fast Paxos

A handler calls itself: the model's `Settled` iterates a call over the ballots.
`Views` is the set of states that an instance passes through on the way, and
lemmas show that a call maps views to views (`CalledKeeps`) and that the
iteration ends (`IteratesExist`, `IteratesAlike`, `Iterated` in `Induction`).
These are inductions over data.  The library's induction theorems take an
operator as a parameter and cannot be cited; `Induction` states the
least-element principle over sets of naturals, and proves the others from it by
sets and functions alone.

Where the quorum is fixed, `IInv` says that a member's vote in a ballot is cast
once (`VotesOnce`) and is what all others hear of it (`VotesReached`), that
whoever has all votes of a ballot recovers to the same value (`RecoveredAlike`),
and that a command is proposed in one instance only (`ProposedOnce`).
`SmallGroupsAgree` states the result for groups of at most four, whose quorum is
always fixed.  `WakeInv` says that every vote a member lacks is in flight to it
(`VotesArrive`), that a complete ballot has been handled (`QuorumsHandled`), and
that the executor stops only at what is not committed (`ExecutorStops`).

Without a fixed quorum the theorems are false: see section 5.

### SwiftPaxos

A handler of this code is ten functions deep, and each maps the record of a
replica to another.  So the proofs go function by function: one lemma says what
a function leaves alone and what it may change (`After`, and `Moved` for what
proposals and recoveries add), and the lemma of a caller cites those of the
functions it calls.  `Good` is what they all keep: the record's type and `Sane`,
what a replica's record says by itself.  `Typed` adds what ties it to the others'
records: what was heard has been sent, and a noted acknowledgement of the leader
is still to be handled.

`Backed` is about the first ballot: whoever is in a message set has sent an
acknowledgement, and of what a follower has committed a majority has.  Neither
is plain: a complete set needs the leader's own acknowledgement, sets are
counted again when a quorum is exceeded, and the size of a fast quorum is that of
the ballot's, which is the one that a given number of others come before in the
order of `subsets()`.  The proof shows that such a quorum exists, contains the
leader and is a majority (`BeforeOrders`, `Indexed`, `QuorumOfBallot`).

`Survival` follows a command that a replica has accepted in the first ballot:
the replica's record remembers it until the replica works in another
(`Remembered`), its answer to a NewLeader offers it, unless the replica has
executed it (`AnswersComplete`), and a Sync has an entry for whatever the answers
offer (`SyncsComplete`).  `AcceptedReported` then follows because two majorities
meet: of the replicas that answered, one has executed the command, or offers it,
and then its name is in the Sync.  It is the reach of what the code guarantees.
Another answer may offer a no-op under that name, for a proposal that its replica
has not passed on (`recovery.go:132`), and the answer that is read last wins
(`recovery.go:86`): the property allows the entry to be a no-op where somebody
offered one, so an accepted command, even an executed one, may be replaced.
`recovery.go` leaves out what was pre-accepted and what was delivered, and the
theorem says nothing of a command in later ballots.

`Kept`, the conjunction of the three, is inductive (`KeptInit`, `KeptNext`).
`AcksOfSynced` walks a set of commands in some order and is written as a
function on positions, so that `Induction` says what the whole walk keeps.

`Ordered` is about the hashes, until a ballot is announced (then the log is no
longer the leader's, and the two properties say nothing).  The leader executes a
proposal as soon as it comes, so that its log, its history, its sequence numbers
and its acknowledgements are one sequence l (`OrdersAll`).  A follower takes
proposals, and notes the leader's acknowledgements, each in an order of its own;
but of the acknowledgements the event loop takes the earliest first, so that what
it has seen are the first k commands of l (`NotesInOrder`).  `Follows` says what
the log is then: a beginning of l, to the highest synchronised command, and
behind it the proposals whose hashes have not come (`Chained`); the hashes of
commands whose proposals have not come wait in `pendingHashUpds`.  Three cases
carry the proof: a hash that comes after its proposal cuts the command out of the
middle of the list (`FollowerSyncs`), one that comes before waits
(`FollowerSaves`), and the proposal that it waited for enters the log and leaves
its tail at once (`FollowerCatchesUp`).  `Update` never lowers the synchronised
number, so that a proposal that is late by many commands does not cut the log
back.  `Typed /\ Ordered` is inductive (`OrderedNext`).

### EPaxos

With recovery the theorems are false (section 5), so they are about groups in
which no replica recovers the instances of another.  Any replica may crash, at
any point, thrift is on or off, and the executor may read an instance while its
owner is writing it.

`Step` has many handlers with many outcomes.  `StepIs` turns each into a small
relation between the replica's record before and after, the messages it took and
those it sent (`Goes`, `Acts`): `Proposing`, `PreAccepting`, `Counting`,
`Taking`, `Accepting`, `Committing`, `Executing` and `Idle`.  All that follows
is about these.

The first invariant, `Sound`, says of each instance what its owner, who alone
leads it, has decided: a copy elsewhere (`Copies`), and every message under way
(`Mail`), claims no more than that.  So whoever has committed an instance has
its owner's attributes, and `Agreement` follows.  What makes it delicate is that
the owner keeps the attributes twice, in the record and in the bookkeeping, that
the first reply replaces what it had, and that replies and Accepts arrive after
the decision (`Advances` is the order in which an owner's bookkeeping may go).
`Sound` also gives the records their types; with them the search for
components is shown to end, whatever the graph: a call looks at each instance
once, and `Todo` shrinks at each turn.  What a search finishes are instances that
are committed and not executed, each once (`Proper`), so that nothing is executed
twice (`Final`).

The second invariant, `Opinions`, is what orders conflicting commands.  It is
needed because that two committed instances depend on one another says nothing of
how two that are still open came to it.  A replica that has two open instances
of conflicting commands says that one of them depends on the other (`MeetsOpen`):
in the answer on its way to the owner, or, once the owner has received it, in the
owner's bookkeeping (`Says`).  This holds because a replica that
writes an instance makes it known to its conflict map in the same step (`Aware`),
and never forgets it.  No replica answers a PreAccept twice, nor has an answer
under way while it is still to be asked (`Distinct`, `Single`), so that the
owner's count of replies is at most the number of replicas that have answered
(`Counts`).  Hence an instance that is decided, by either path, has the votes of
a fast quorum (`Meets`); and at the moment at which the second of two
conflicting instances is decided a replica of both quorums has the opinion that
is missing (`MetNow`).  A step opens, answers or counts for one instance and one
replica at most; `View` says so once for all handlers, and the preservation
of `Opinions` is proved from it alone (`Moved`).

`SizesOverlap` computes which groups have fast quorums that overlap.

### Model-checked only

Liveness under fairness (`EventuallyExecuted`), which the prover does not reach.
`NothingLeft` of `Swift`, a statement about all that the nested handlers, the
delayed functions and the batcher may still do.  Of `EPaxos`: `SameOrderUntorn`,
which needs that the algorithm finds strongly connected components, the same ones
at each replica, and `NothingLeft`, which rests on it; and everything about a
recovery (`Crashing`).  `Codec` and `Wire`: they use recursive operators, as
layouts are nested, and the prover has no arithmetic in a module that reaches
one.

## 5. Findings and what else the models met

The three runs that expect a violation are findings of `PROJECT.json`.  What
follows was met while modelling; the models have it, and no run states it,
either because no text of the repository promises the contrary or because the
properties are stated around it.

- Paxos: a `CommitShort` before its `Accept` commits a record without commands
  and blocks execution for ever (`paxos.go:537`).  With seven replicas and one
  leader replicas may execute different batches (section 4); with five, a batch
  may be executed that two of them have accepted (`paxos.go:650`).  After a recovery,
  a late promise (`paxos.go:597`) or a peer's Commit (`paxos.go:509`) a client's
  commands may be proposed, executed and answered again; `ClientsKept` says only
  that they are not lost.
- Fast Paxos: with five replicas of which any four are a quorum, a recovery may
  replace a committed instance (`fastpaxos.go:138`), and the branch that a
  comment calls unreachable is reached; a replica that the quorum file leaves
  out overwrites a committed instance when it handles a proposal of its own
  (`fastpaxos.go:81`); a quorum of 2Bs before the proposal stops the replica
  (`fastpaxos.go:205`).
- CURP: a fast answer may be given on top of a command that is not committed
  (`curp.go:175`).
- SwiftPaxos: a proposal that no descriptor knows yet is offered to a new leader
  as an accepted no-op (`recovery.go:132`), which may replace the command that
  others have accepted or executed; pre-accepted commands do not count in
  a recovery (`recovery.go:88`); the leader's acknowledgements after a Sync have
  no hashes, and a follower that reads one stops; the keys' last commands are
  forgotten (`recovery.go:180`); answers after a Sync have no value.
- EPaxos: `handleAccept` does not set the status; a late reply to a pre-accept
  may take an executed instance back after another replica recovered it; `TryPreAccept`
  is never sent, as the condition that leads to it has been tested before; the
  ballots of a second recovery are those of the first.  `FastQuorumSize`
  (`replica.go:131`) is too small for four and six replicas: two fast quorums
  need not have a replica in common, and TLC finds two conflicting commands that
  are committed with neither depending on the other, in groups that broadcast
  thriftily.  For two replicas it is 0, and a thrifty group of two, or a group of
  one, asks nobody and commits nothing.
- Transport: when a connection breaks inside nested commands, the message is
  handed on with those that arrived (`paxos/defs.go:321`), and `InOrder` allows
  exactly that.

## 6. Not modelled

EPPaxos' protocol (planned below; its messages are modelled); PPaxos and
SPPaxos, which cannot be started; the master and the clients' loop; connection
set-up, latency tables, configuration, logging.  Of N²Paxos: descriptor pooling,
the capacity of a descriptor's queue, the size of the history.  Of CURP: the
same, and the values the client returns.  Of Paxos: the durable log (never
enabled), the capacities of channels.  Of Fast Paxos: the growth of the array of
instances.  Of SwiftPaxos: the pool of descriptors and its limit, fast reads and
quorum files (`run.go` passes on what the configuration says, and neither is on
by default), several keys, batches sent in one ballot and read in another, the
client's counting of replies.  Of EPaxos: the durable log, `CommittedUpTo` (used
in groups of more than seven), batches of several commands, several keys.  Of
the transport: the JSON of `STATS`, and the emulated delays, which are disabled.

## 7. Plan

1. Theorems: that a message of every layout is read back as it was written,
   with the recursion of `Codec` as recursive functions; that the executor of
   `EPaxos` finds strongly connected components, and so one order; `NothingLeft`
   of `Swift`.
2. The client: the window and synchronisation points of `BufferClient.Loop`,
   and the value CURP's client returns.  The master's pings and elections.
3. EPPaxos, as a variant of `EPaxos`.
4. A descriptor and its queue, with the capacity of eight, shared by N²Paxos,
   CURP and SwiftPaxos.
