------------------------------ MODULE N2Paxos ------------------------------
(***************************************************************************)
(* The N^2 variant of Paxos of n2paxos/n2paxos.go: a fixed leader gives    *)
(* every command the next slot and broadcasts a 2A; every replica that     *)
(* accepts it broadcasts a 2B to every other replica, so each replica      *)
(* learns of the commit on its own, without a message from the leader.     *)
(* There is one ballot and no view change: the M1A and M1B messages are    *)
(* declared in n2paxos/defs.go, and nothing sends or handles them.         *)
(*                                                                         *)
(* Clients broadcast a command to all replicas (client.SendProposal with   *)
(* Fast set, main.go:129), and a replica executes a slot only once it      *)
(* holds the client's own copy of the command.                             *)
(*                                                                         *)
(* One handler is one step.  The program runs the handlers of a slot one   *)
(* at a time (a goroutine per command descriptor, or the event loop), and  *)
(* handlers of different slots meet only in the concurrent maps of         *)
(* delivered slots and of proposals.  A message is in msgs until its       *)
(* handler runs, whether it is still on the wire, in a Go channel or in    *)
(* the descriptor's queue; handlers take messages in any order, but for    *)
(* the two the leader sends for one slot.  The batching of 2As and 2Bs in  *)
(* one M2s changes nothing else and is left out.                           *)
(*                                                                         *)
(* The operators named after another one that they precede, such as        *)
(* DeliverForgetting before Deliver, are mistakes the code does not make:  *)
(* with them in the place of the right one, a property must fail.          *)
(***************************************************************************)
EXTENDS Naturals, Sequences, FiniteSets

CONSTANTS
  Replicas,   \* the replicas of the group
  Leader,     \* the replica whose id is the ballot, for ever
  Commands,   \* the commands clients broadcast; None is not one of them
  None,       \* a descriptor whose command is not known (SeqNum = -42)
  NumSlots,   \* bound: slots the leader may hand out
  MayCrash    \* replicas that may stop; a stopped replica never returns

Slots == 0 .. NumSlots - 1

\* A majority as in replica.NewMajorityOf: N/2 + 1 members or more.
Majority(S) == Cardinality(S) >= Cardinality(Replicas) \div 2 + 1

ASSUME ReplicasAssumption == IsFiniteSet(Replicas) /\ Leader \in Replicas
ASSUME CommandsAssumption == None \notin Commands
ASSUME SlotsAssumption == NumSlots \in Nat
ASSUME CrashAssumption == MayCrash \subseteq Replicas

VARIABLES
  proposes,     \* proposals a replica has taken (r.proposes, desc.propose)
  lastCmdSlot,  \* next slot of the leader
  slotCmd,      \* desc.cmd of each slot; its inverse is r.slots
  twoBs,        \* senders of the 2Bs in each slot's message set
  committed,    \* slots whose phase is COMMIT
  delivered,    \* slots in r.delivered
  executed,     \* the commands applied to r.State, in order
  deliverChan,  \* slots sent to r.deliverChan and not taken yet
  msgs,         \* 2As and 2Bs sent and not handled yet
  crashed       \* replicas that have stopped

vars == <<proposes, lastCmdSlot, slotCmd, twoBs, committed,
          delivered, executed, deliverChan, msgs, crashed>>

Message ==
       [type : {"2A"}, src : Replicas, dst : Replicas, slot : Slots,
        cmd : Commands]
  \cup [type : {"2B"}, src : Replicas, dst : Replicas, slot : Slots]

TypeOK ==
  /\ proposes \in [Replicas -> SUBSET Commands]
  /\ lastCmdSlot \in 0 .. NumSlots
  /\ slotCmd \in [Replicas -> [Slots -> Commands \cup {None}]]
  /\ twoBs \in [Replicas -> [Slots -> SUBSET Replicas]]
  /\ committed \in [Replicas -> SUBSET Slots]
  /\ delivered \in [Replicas -> SUBSET Slots]
  /\ executed \in [Replicas -> Seq(Commands)]
  /\ deliverChan \in [Replicas -> SUBSET (0 .. NumSlots)]
  /\ msgs \subseteq Message
  /\ crashed \subseteq Replicas

Init ==
  /\ proposes = [r \in Replicas |-> {}]
  /\ lastCmdSlot = 0
  /\ slotCmd = [r \in Replicas |-> [k \in Slots |-> None]]
  /\ twoBs = [r \in Replicas |-> [k \in Slots |-> {}]]
  /\ committed = [r \in Replicas |-> {}]
  /\ delivered = [r \in Replicas |-> {}]
  /\ executed = [r \in Replicas |-> << >>]
  /\ deliverChan = [r \in Replicas |-> {}]
  /\ msgs = {}
  /\ crashed = {}

----------------------------------------------------------------------------
\* The messages r broadcasts to its peers (sender.SendToAll); those to a
\* stopped replica reach nobody.
Peers(r) == Replicas \ (crashed \cup {r})
TwoAs(r, k, c) ==
  [type : {"2A"}, src : {r}, dst : Peers(r), slot : {k}, cmd : {c}]
TwoBs(r, k) == [type : {"2B"}, src : {r}, dst : Peers(r), slot : {k}]

\* What deliver() asks of slot k of r in the state its caller leaves: the
\* slot's command is known, the slot is new, it is committed or r leads (the
\* leader does not wait for the commit), the slot before it was executed, and
\* r holds the client's proposal.
DeliverableInAnyOrder(r, k) ==
  /\ slotCmd'[r][k] # None
  /\ k \notin delivered[r]
  /\ k \in committed'[r] \/ r = Leader
  /\ slotCmd'[r][k] \in proposes'[r]
DeliverableUncommitted(r, k) ==
  /\ slotCmd'[r][k] # None
  /\ k \notin delivered[r]
  /\ k > 0 => k - 1 \in delivered[r]
  /\ slotCmd'[r][k] \in proposes'[r]
Deliverable(r, k) ==
  /\ slotCmd'[r][k] # None
  /\ k \notin delivered[r]
  /\ k \in committed'[r] \/ r = Leader
  /\ k > 0 => k - 1 \in delivered[r]
  /\ slotCmd'[r][k] \in proposes'[r]

\* deliver(): r executes slot k if it may.  The next slot goes to the event
\* loop through deliverChan, from which the handler took the slots in taken.
\* Calls queued in afterPayload are for this very slot: whether they run as
\* well makes no difference.
DeliverForgetting(r, k, taken) ==
  IF Deliverable(r, k)
  THEN /\ executed' = [executed EXCEPT ![r] = Append(@, slotCmd'[r][k])]
       /\ deliverChan' = [deliverChan EXCEPT ![r] = (@ \ taken) \cup {k + 1}]
       /\ UNCHANGED delivered
  ELSE /\ deliverChan' = [deliverChan EXCEPT ![r] = @ \ taken]
       /\ UNCHANGED <<delivered, executed>>
Deliver(r, k, taken) ==
  IF Deliverable(r, k)
  THEN /\ delivered' = [delivered EXCEPT ![r] = @ \cup {k}]
       /\ executed' = [executed EXCEPT ![r] = Append(@, slotCmd'[r][k])]
       /\ deliverChan' = [deliverChan EXCEPT ![r] = (@ \ taken) \cup {k + 1}]
  ELSE /\ deliverChan' = [deliverChan EXCEPT ![r] = @ \ taken]
       /\ UNCHANGED <<delivered, executed>>

\* handle2B() for a 2B of s for slot k: the message set calls its handler on
\* every message from the quorum-th one on.
Vote(r, k, s) ==
  LET votes == twoBs[r][k] \cup {s}
  IN /\ twoBs' = [twoBs EXCEPT ![r][k] = votes]
     /\ IF Majority(votes)
        THEN /\ committed' = [committed EXCEPT ![r] = @ \cup {k}]
             /\ Deliver(r, k, {})
        ELSE UNCHANGED <<committed, delivered, executed, deliverChan>>

\* handle2A(): r takes c as the command of slot k, tells its peers and votes.
Accept(r, k, c) ==
  /\ slotCmd' = [slotCmd EXCEPT ![r][k] = c]
  /\ Vote(r, k, r)

----------------------------------------------------------------------------
\* A proposal reaches the leader, which gives it the next slot.
LeaderProposeInPlace(c) ==
  /\ Leader \notin crashed
  /\ c \in Commands \ proposes[Leader]
  /\ lastCmdSlot < NumSlots
  /\ proposes' = [proposes EXCEPT ![Leader] = @ \cup {c}]
  /\ msgs' = msgs \cup TwoAs(Leader, lastCmdSlot, c)
                  \cup TwoBs(Leader, lastCmdSlot)
  /\ Accept(Leader, lastCmdSlot, c)
  /\ UNCHANGED <<lastCmdSlot, crashed>>
LeaderPropose(c) ==
  /\ Leader \notin crashed
  /\ c \in Commands \ proposes[Leader]
  /\ lastCmdSlot < NumSlots
  /\ proposes' = [proposes EXCEPT ![Leader] = @ \cup {c}]
  /\ lastCmdSlot' = lastCmdSlot + 1
  /\ msgs' = msgs \cup TwoAs(Leader, lastCmdSlot, c)
                  \cup TwoBs(Leader, lastCmdSlot)
  /\ Accept(Leader, lastCmdSlot, c)
  /\ UNCHANGED crashed

\* A proposal reaches another replica, which stores it and, if it knows the
\* command's slot already, tries to deliver that slot.
ProposeStoring(r, c) ==
  /\ r \notin crashed \cup {Leader}
  /\ c \in Commands \ proposes[r]
  /\ proposes' = [proposes EXCEPT ![r] = @ \cup {c}]
  /\ UNCHANGED <<lastCmdSlot, slotCmd, twoBs, committed, msgs, crashed,
                 delivered, executed, deliverChan>>
Propose(r, c) ==
  /\ r \notin crashed \cup {Leader}
  /\ c \in Commands \ proposes[r]
  /\ proposes' = [proposes EXCEPT ![r] = @ \cup {c}]
  /\ UNCHANGED <<lastCmdSlot, slotCmd, twoBs, committed, msgs, crashed>>
  /\ \/ \E k \in Slots : slotCmd[r][k] = c /\ Deliver(r, k, {})
     \/ /\ \A k \in Slots : slotCmd[r][k] # c
        /\ UNCHANGED <<delivered, executed, deliverChan>>

Handle2A(r, m) ==
  /\ r \notin crashed
  /\ m \in msgs /\ m.type = "2A" /\ m.dst = r
  /\ UNCHANGED <<proposes, lastCmdSlot, crashed>>
  /\ msgs' = (msgs \ {m}) \cup TwoBs(r, m.slot)
  /\ Accept(r, m.slot, m.cmd)

\* The event loop ignores what it takes for a slot that was executed: such
\* messages stay in msgs, and such slots in deliverChan.  The leader's 2A and
\* 2B for a slot travel and are queued in this order.
Handle2B(r, m) ==
  /\ r \notin crashed
  /\ m \in msgs /\ m.type = "2B" /\ m.dst = r
  /\ m.slot \notin delivered[r]
  /\ ~ \E a \in msgs :
         a.type = "2A" /\ a.src = m.src /\ a.dst = r /\ a.slot = m.slot
  /\ UNCHANGED <<proposes, lastCmdSlot, slotCmd, crashed>>
  /\ msgs' = msgs \ {m}
  /\ Vote(r, m.slot, m.src)

\* The event loop takes slot k from deliverChan.  Without a command the call
\* of deliver() is put off and changes nothing, so that a slot beyond the
\* last one needs no step.
DeliverNext(r, k) ==
  /\ r \notin crashed
  /\ k \in deliverChan[r] \ delivered[r]
  /\ UNCHANGED <<proposes, lastCmdSlot, slotCmd, twoBs, committed, msgs,
                 crashed>>
  /\ Deliver(r, k, {k})

\* A replica stops.  What was sent to it is never read; of what it sent, what
\* has not been handled is lost, so that a broadcast may turn out partial.  A
\* message handled after the replica stopped needs no case of its own: the
\* replica may as well have stopped after that, having done nothing since.
Crash(r) ==
  /\ r \in MayCrash \ crashed
  /\ crashed' = crashed \cup {r}
  /\ msgs' = {m \in msgs : m.src # r /\ m.dst # r}
  /\ UNCHANGED <<proposes, lastCmdSlot, slotCmd, twoBs, committed,
                 delivered, executed, deliverChan>>

Next ==
  \/ \E c \in Commands : LeaderPropose(c)
  \/ \E r \in Replicas, c \in Commands : Propose(r, c)
  \/ \E r \in Replicas : \E m \in msgs : Handle2A(r, m) \/ Handle2B(r, m)
  \/ \E r \in Replicas, k \in Slots : DeliverNext(r, k)
  \/ \E r \in Replicas : Crash(r)

Spec == Init /\ [][Next]_vars

\* What replica r's event loop and descriptors do.
Takes(r) ==
  \/ r = Leader /\ \E c \in Commands : LeaderPropose(c)
  \/ \E c \in Commands : Propose(r, c)
  \/ \E m \in msgs : Handle2A(r, m) \/ Handle2B(r, m)
  \/ \E k \in Slots : DeliverNext(r, k)

\* The event loop and the descriptors' goroutines of a running replica keep
\* taking what is in their channels, and connections do not lose messages of
\* a running sender.  Each step uses up a proposal, a message or a slot, so a
\* replica that keeps taking leaves nothing.  Nothing is assumed of Crash.
Fairness == \A r \in Replicas : WF_vars(Takes(r))

FairSpec == Spec /\ Fairness

----------------------------------------------------------------------------
\* Agreement: the commands two replicas have executed are prefixes of one
\* sequence, whoever crashed and whichever messages are missing (deliver()).
Agreement ==
  \A r, s \in Replicas :
    \A i \in 1 .. Len(executed[r]) :
      i <= Len(executed[s]) => executed[r][i] = executed[s][i]

\* A replica other than the leader executes a slot only when a majority of
\* the group has accepted the very command it executes, so it survives the
\* loss of a minority (get2BsHandler and the phase test of deliver()).
QuorumBacked ==
  \A r \in Replicas \ {Leader} :
    \A i \in 1 .. Len(executed[r]) :
      \E Q \in SUBSET Replicas :
        /\ Majority(Q)
        /\ \A q \in Q : slotCmd[q][i - 1] = executed[r][i]

\* No replica executes a command twice, though deliver() is called from five
\* places for the same slot and a slot's descriptor outlives its delivery.
ExecutedOnce ==
  \A r \in Replicas :
    \A i, j \in 1 .. Len(executed[r]) :
      executed[r][i] = executed[r][j] => i = j

\* Every command is executed by every replica that does not crash, if the
\* leader does not and a majority does not: no wake-up between the maps of
\* proposals, slots and delivered slots is lost (run() and deliver()).
EventuallyExecuted ==
  <>(\A r \in Replicas, c \in Commands :
       \/ \E i \in 1 .. Len(executed[r]) : executed[r][i] = c
       \/ {r, Leader} \cap crashed # {}
       \/ ~ Majority(Replicas \ crashed))

\* The same for any number of slots, as an invariant: when nothing is left to
\* handle and the leader runs, every running replica has executed everything.
Quiet ==
  /\ \A m \in msgs : m.type = "2B" /\ m.slot \in delivered[m.dst]
  /\ \A r \in Replicas \ crashed :
       proposes[r] = Commands /\ deliverChan[r] \cap Slots \subseteq delivered[r]

NothingLeft ==
  Quiet /\ Leader \notin crashed /\ Majority(Replicas \ crashed) =>
    \A r \in Replicas \ crashed : Len(executed[r]) = Cardinality(Commands)

\* The leader's slots are the log.
Assigned == [i \in 1 .. lastCmdSlot |-> slotCmd[Leader][i - 1]]

Log == INSTANCE ReplicatedLog WITH log <- Assigned

\* N2Paxos implements a replicated log whose order is fixed when the leader
\* takes a proposal, long before anybody has voted for it (handlePropose()).
ImplementsLog == Log!Spec

----------------------------------------------------------------------------
(***************************************************************************)
(* The inductive invariant from which the safety properties follow: the    *)
(* leader fills its slots from 0 on with distinct commands, every other    *)
(* record of a slot's command is a copy of the leader's, votes and commits *)
(* are backed by replicas that have the command, and what a replica has    *)
(* executed is the prefix of its slots that it has delivered.              *)
(***************************************************************************)
LeaderFills ==
  \A k \in Slots : slotCmd[Leader][k] # None <=> k < lastCmdSlot

LeaderDistinct ==
  \A k \in Slots :
    slotCmd[Leader][k] # None =>
      /\ slotCmd[Leader][k] \in proposes[Leader]
      /\ \A j \in Slots : slotCmd[Leader][j] = slotCmd[Leader][k] => j = k

SlotsCopied ==
  \A r \in Replicas, k \in Slots :
    slotCmd[r][k] # None => slotCmd[r][k] = slotCmd[Leader][k]

MsgsBacked ==
  \A m \in msgs :
    /\ m.type = "2A" => m.cmd = slotCmd[Leader][m.slot]
    /\ m.type = "2B" => slotCmd[m.src][m.slot] # None

VotesBacked ==
  \A r \in Replicas, k \in Slots : \A s \in twoBs[r][k] : slotCmd[s][k] # None

CommitsBacked ==
  \A r \in Replicas : \A k \in committed[r] :
    \E Q \in SUBSET Replicas :
      Majority(Q) /\ \A q \in Q : slotCmd[q][k] # None

ExecutedPrefix ==
  \A r \in Replicas :
    /\ delivered[r] = 0 .. Len(executed[r]) - 1
    /\ \A k \in delivered[r] :
         slotCmd[r][k] # None /\ executed[r][k + 1] = slotCmd[r][k]

FollowersWait ==
  \A r \in Replicas \ {Leader} : delivered[r] \subseteq committed[r]

\* Every record of a slot is a copy of the leader's choice, backed by the
\* replicas that vote for it; execution follows the order of the slots.
IInv ==
  /\ TypeOK
  /\ LeaderFills
  /\ LeaderDistinct
  /\ SlotsCopied
  /\ MsgsBacked
  /\ VotesBacked
  /\ CommitsBacked
  /\ ExecutedPrefix
  /\ FollowersWait

----------------------------------------------------------------------------
(***************************************************************************)
(* The second inductive invariant, from which NothingLeft follows: while   *)
(* the leader runs, whatever a running replica has not handled is still on *)
(* its way to it.                                                          *)
(***************************************************************************)
Running == Replicas \ crashed

\* A replica that does not know a slot of the leader has a 2A coming.
SlotsAnnounced ==
  \A r \in Running, k \in Slots :
    slotCmd[Leader][k] # None /\ slotCmd[r][k] = None =>
      \E m \in msgs :
        m.type = "2A" /\ m.src = Leader /\ m.dst = r /\ m.slot = k

\* A vote is counted or a 2B brings it.
VotesAnnounced ==
  \A r, s \in Running, k \in Slots :
    slotCmd[s][k] # None /\ s \notin twoBs[r][k] =>
      \E m \in msgs : m.type = "2B" /\ m.src = s /\ m.dst = r /\ m.slot = k

\* A slot is committed when the quorum-th 2B is counted.
VotesCommit ==
  \A r \in Replicas, k \in Slots : k \in committed[r] <=> Majority(twoBs[r][k])

\* A committed slot that could be executed waits in deliverChan.
Woken ==
  \A r \in Running : \A k \in committed[r] \ delivered[r] :
    /\ slotCmd[r][k] \in proposes[r]
    /\ k > 0 => k - 1 \in delivered[r]
    => k \in deliverChan[r]

\* The leader has given a slot to each proposal.
LeaderTakes ==
  \A c \in proposes[Leader] : \E k \in Slots : slotCmd[Leader][k] = c

\* Nothing that the leader and the votes have set off gets lost.
WakeInv ==
  /\ VotesCommit
  /\ LeaderTakes
  /\ Leader \notin crashed => SlotsAnnounced /\ VotesAnnounced /\ Woken
FullInv == IInv /\ WakeInv
=============================================================================
