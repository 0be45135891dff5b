-------------------------------- MODULE Curp --------------------------------
(***************************************************************************)
(* CURP over N^2 Paxos, as curp/curp.go and curp/client.go have it and as  *)
(* run.go starts it: optimized, executing, with contactClients never set.  *)
(*                                                                         *)
(* Clients broadcast their commands.  The leader gives a command the next  *)
(* slot, executes it when the slot before it was executed and, if the last *)
(* conflicting command is committed, answers at once.  A follower is a     *)
(* witness: it answers TRUE if it holds no conflicting command that it has *)
(* not executed yet.  Meanwhile all accept the slot and exchange           *)
(* acknowledgements, and the replica the client has for a proxy answers    *)
(* when the command is committed and executed there.                       *)
(*                                                                         *)
(* A step is one handler, of the event loop or of a slot's descriptor, as  *)
(* in N2Paxos; but a follower's handling of a proposal is three steps, as  *)
(* the descriptors' goroutines find the proposal, execute the command and  *)
(* count it out while the event loop has still to answer the client, and   *)
(* then to count it in.  Accepts and acknowledgements go to all and are    *)
(* handled once by each, so the messages in flight are those whose         *)
(* sender's state says that they were sent and whose receiver's state does *)
(* not show them: no variable holds them.  The behaviours in which a       *)
(* replica has stopped are those in which it takes no more steps and what  *)
(* it sent last is not handled.                                            *)
(*                                                                         *)
(* Not modelled: MCommit and MSync, which nothing sends when optimized     *)
(* (the client leaves its select before it would send one, client.go:129), *)
(* the descriptors' pool, and descriptors made beyond MaxDescRoutines.     *)
(***************************************************************************)
EXTENDS Integers, Sequences, FiniteSets

CONSTANTS
  Replicas,   \* the replicas of the group
  Leader,     \* the replica whose id is the ballot
  Commands,   \* the commands clients broadcast, each once
  None,       \* no command
  Key         \* the key of each command: those of one key conflict

Slots == 0 .. Cardinality(Commands) - 1
Keys == {Key[c] : c \in Commands}
Followers == Replicas \ {Leader}

\* replica.NewMajorityOf and replica.NewThreeQuartersOf.
MajorityOrHalf(S) == Cardinality(S) >= Cardinality(Replicas) \div 2
Majority(S) == Cardinality(S) >= Cardinality(Replicas) \div 2 + 1
FastQuorumMajority == Cardinality(Replicas) \div 2 + 1
FastQuorum == (3 * Cardinality(Replicas)) \div 4 + 1

ASSUME ReplicasAssumption ==
  IsFiniteSet(Replicas) /\ Leader \in Replicas /\ Cardinality(Replicas) > 1
ASSUME CommandsAssumption == IsFiniteSet(Commands) /\ None \notin Commands

VARIABLES
  proposes,     \* the proposals taken (r.proposes; the leader: desc.propose)
  proposing,    \* the follower's proposal that is not in r.unsynced yet
  answered,     \* whether the client has been answered about that one
  unsynced,     \* r.unsynced of the followers: a count for each key
  slotCmd,      \* desc.cmdId of each slot; its inverse is r.slots
  dep,          \* desc.dep of the leader's slots, -1 for none
  early,        \* the leader has made a descriptor for its next slot
  acks,         \* senders of the acknowledgements in each slot's set
  committed,    \* slots whose phase is COMMIT
  executed,     \* the commands applied to r.State, in order
  deliverChan,  \* slots that wait in r.deliverChan, or to be sent "deliver"
  okReplies     \* commands that a replica has answered TRUE to the client

vars == <<proposes, proposing, answered, unsynced, slotCmd, dep, early, acks,
          committed, executed, deliverChan, okReplies>>

TypeOK ==
  /\ proposes \in [Replicas -> SUBSET Commands]
  /\ proposing \in [Followers -> Commands \cup {None}]
  /\ answered \in [Followers -> BOOLEAN]
  /\ unsynced \in [Followers -> [Keys -> 0 .. Cardinality(Commands)]]
  /\ slotCmd \in [Replicas -> [Slots -> Commands \cup {None}]]
  /\ dep \in [Slots -> Slots \cup {-1}]
  /\ early \in BOOLEAN
  /\ acks \in [Replicas -> [Slots -> SUBSET Replicas]]
  /\ committed \in [Replicas -> SUBSET Slots]
  /\ executed \in [Replicas -> Seq(Commands)]
  /\ deliverChan \in [Replicas -> SUBSET (Slots \cup {Cardinality(Slots)})]
  /\ okReplies \in [Replicas -> SUBSET Commands]

Init ==
  /\ proposes = [r \in Replicas |-> {}]
  /\ proposing = [r \in Followers |-> None]
  /\ answered = [r \in Followers |-> FALSE]
  /\ unsynced = [r \in Followers |-> [k \in Keys |-> 0]]
  /\ slotCmd = [r \in Replicas |-> [k \in Slots |-> None]]
  /\ dep = [k \in Slots |-> -1]
  /\ early = FALSE
  /\ acks = [r \in Replicas |-> [k \in Slots |-> {}]]
  /\ committed = [r \in Replicas |-> {}]
  /\ executed = [r \in Replicas |-> << >>]
  /\ deliverChan = [r \in Replicas |-> {}]
  /\ okReplies = [r \in Replicas |-> {}]

----------------------------------------------------------------------------
IsExecuted(r, k) == k < Len(executed[r])
IsDelivered(r, k) == IsExecuted(r, k) /\ k \in committed[r]

\* The condition of desc.afterPayload: the slot's command is known and the
\* client's copy of it is here.
HasPayload(r, k) == slotCmd[r][k] # None /\ slotCmd[r][k] \in proposes[r]

\* sync(): a follower counts an executed command out.  It may do so before
\* the command was counted in.
Sync(r, c) ==
  unsynced' = IF r = Leader THEN unsynced
              ELSE [unsynced EXCEPT ![r][Key[c]] = IF @ > 0 THEN @ - 1 ELSE 0]

\* What deliver() asks of slot k of r, in the state its caller leaves.
DeliverableInAnyOrder(r, k) ==
  /\ HasPayload(r, k)'
  /\ ~IsDelivered(r, k)
  /\ k \in committed'[r] \/ r = Leader
Deliverable(r, k) ==
  /\ HasPayload(r, k)'
  /\ ~IsDelivered(r, k)
  /\ k \in committed'[r] \/ r = Leader
  /\ k <= Len(executed[r])

\* deliver(): r executes slot k if it may and has not yet, which sends the
\* next slot to the event loop.  The leader answers TRUE before the commit,
\* unless it knows of a conflicting command that is not committed; the proxy
\* answers after the commit.  chan is what the handler leaves in deliverChan.
Deliver(r, k, chan) ==
  LET c == slotCmd'[r][k]
      isNew == ~IsExecuted(r, k)
  IN IF Deliverable(r, k)
     THEN /\ Sync(r, c)
          /\ executed' = IF isNew THEN [executed EXCEPT ![r] = Append(@, c)]
                         ELSE executed
          /\ deliverChan' = [deliverChan EXCEPT ![r] =
                               chan \cup (IF isNew THEN {k + 1} ELSE {})]
          /\ okReplies' =
               IF k \notin committed'[r] /\ dep'[k] \in committed[r] \cup {-1}
               THEN [okReplies EXCEPT ![r] = @ \cup {c}] ELSE okReplies
     ELSE /\ deliverChan' = [deliverChan EXCEPT ![r] = chan]
          /\ UNCHANGED <<unsynced, executed, okReplies>>

\* A call of afterPayload when its condition holds: what was queued runs,
\* which accepts the slot and perhaps commits it, and the slot is delivered
\* if it may.  On the commit the leader wakes up the slot that depends on
\* this one.  The set of acknowledgements is of no use after the commit: only
\* that r has sent its own is kept.
Run(r, k, votes, chan) ==
  LET commits == Majority(votes \cup {r}) /\ k \notin committed[r]
      done == commits \/ k \in committed[r]
      woken == {s \in Slots : r = Leader /\ commits /\ dep'[s] = k}
  IN /\ acks' = [acks EXCEPT ![r][k] = IF done THEN {r} ELSE votes \cup {r}]
     /\ committed' = IF commits THEN [committed EXCEPT ![r] = @ \cup {k}]
                     ELSE committed
     /\ Deliver(r, k, chan \cup woken)

\* A call of afterPayload that has to wait, or none.
Wait(r, k, votes, chan) ==
  /\ acks' = [acks EXCEPT ![r][k] = votes]
  /\ deliverChan' = [deliverChan EXCEPT ![r] = chan]
  /\ UNCHANGED <<unsynced, committed, executed, okReplies>>

----------------------------------------------------------------------------
\* leaderUnsync(): the last slot with a command of c's key.
LastConflict(c) ==
  LET same == {k \in Slots : /\ slotCmd[Leader][k] # None
                             /\ Key[slotCmd[Leader][k]] = Key[c]}
  IN IF same = {} THEN -1 ELSE CHOOSE k \in same : \A j \in same : j <= k

\* A proposal reaches the leader, which gives it the next slot.  If the
\* descriptor was made before, by the event loop for a "deliver", then the
\* descriptor's goroutine handles the proposal, with the dependency it was
\* started with: none.
LeaderPropose(c) ==
  /\ c \notin proposes[Leader]
  /\ \E k \in Slots :
       /\ \A j \in Slots : slotCmd[Leader][j] # None <=> j < k
       /\ proposes' = [proposes EXCEPT ![Leader] = @ \cup {c}]
       /\ slotCmd' = [slotCmd EXCEPT ![Leader][k] = c]
       /\ dep' = [dep EXCEPT ![k] = IF early THEN -1 ELSE LastConflict(c)]
       /\ early' = FALSE
       /\ Run(Leader, k, {}, deliverChan[Leader])
  /\ UNCHANGED <<proposing, answered>>

\* A proposal reaches a follower, which stores it: what waits for it in the
\* descriptors may go on from now on.
TakeProposal(r, c) ==
  /\ proposing[r] = None
  /\ c \notin proposes[r]
  /\ proposes' = [proposes EXCEPT ![r] = @ \cup {c}]
  /\ proposing' = [proposing EXCEPT ![r] = c]
  /\ UNCHANGED <<answered, unsynced, slotCmd, dep, early, acks, committed,
                 executed, deliverChan, okReplies>>

\* The follower answers as a witness, by ok().
AnswerIfOne(r) ==
  LET c == proposing[r]
  IN /\ c # None
     /\ ~answered[r]
     /\ answered' = [answered EXCEPT ![r] = TRUE]
     /\ okReplies' = IF unsynced[r][Key[c]] <= 1
                     THEN [okReplies EXCEPT ![r] = @ \cup {c}] ELSE okReplies
     /\ UNCHANGED <<proposes, proposing, unsynced, slotCmd, dep, early, acks,
                    committed, executed, deliverChan>>
Answer(r) ==
  LET c == proposing[r]
  IN /\ c # None
     /\ ~answered[r]
     /\ answered' = [answered EXCEPT ![r] = TRUE]
     /\ okReplies' = IF unsynced[r][Key[c]] = 0
                     THEN [okReplies EXCEPT ![r] = @ \cup {c}] ELSE okReplies
     /\ UNCHANGED <<proposes, proposing, unsynced, slotCmd, dep, early, acks,
                    committed, executed, deliverChan>>

\* The follower counts the proposal in and, if it knows the command's slot,
\* has it delivered.
UnsyncToOne(r) ==
  LET c == proposing[r]
  IN /\ c # None /\ answered[r]
     /\ proposing' = [proposing EXCEPT ![r] = None]
     /\ answered' = [answered EXCEPT ![r] = FALSE]
     /\ unsynced' = [unsynced EXCEPT ![r][Key[c]] = 1]
     /\ deliverChan' = [deliverChan EXCEPT ![r] =
                          @ \cup {k \in Slots : slotCmd[r][k] = c}]
     /\ UNCHANGED <<proposes, slotCmd, dep, early, acks, committed, executed,
                    okReplies>>
UnsyncOnly(r) ==
  LET c == proposing[r]
  IN /\ c # None /\ answered[r]
     /\ proposing' = [proposing EXCEPT ![r] = None]
     /\ answered' = [answered EXCEPT ![r] = FALSE]
     /\ unsynced' = [unsynced EXCEPT ![r][Key[c]] = @ + 1]
     /\ UNCHANGED <<proposes, slotCmd, dep, early, acks, committed, executed,
                    deliverChan, okReplies>>
Unsync(r) ==
  LET c == proposing[r]
  IN /\ c # None /\ answered[r]
     /\ proposing' = [proposing EXCEPT ![r] = None]
     /\ answered' = [answered EXCEPT ![r] = FALSE]
     /\ unsynced' = [unsynced EXCEPT ![r][Key[c]] = @ + 1]
     /\ deliverChan' = [deliverChan EXCEPT ![r] =
                          @ \cup {k \in Slots : slotCmd[r][k] = c}]
     /\ UNCHANGED <<proposes, slotCmd, dep, early, acks, committed, executed,
                    okReplies>>

\* The leader's Accept of slot k reaches a follower, which accepts it now if
\* it has the proposal, and otherwise when that comes.
HandleAccept(r, k) ==
  /\ slotCmd[Leader][k] # None
  /\ slotCmd[r][k] = None
  /\ slotCmd' = [slotCmd EXCEPT ![r][k] = slotCmd[Leader][k]]
  /\ UNCHANGED <<proposes, proposing, answered, dep, early>>
  /\ IF slotCmd'[r][k] \in proposes[r]
     THEN Run(r, k, acks[r][k], deliverChan[r])
     ELSE Wait(r, k, acks[r][k], deliverChan[r])

\* The acknowledgement of slot k by s reaches r.  The leader's comes after
\* its Accept; one that comes after the commit changes nothing.
HandleAcceptAck(r, k, s) ==
  LET votes == acks[r][k] \cup {s}
  IN /\ s # r
     /\ s \in acks[s][k] \ acks[r][k]
     /\ s = Leader => slotCmd[r][k] # None
     /\ k \notin committed[r]
     /\ UNCHANGED <<proposes, proposing, answered, slotCmd, dep, early>>
     /\ IF HasPayload(r, k) /\ Majority(votes)
        THEN Run(r, k, votes, deliverChan[r])
        ELSE Wait(r, k, votes, deliverChan[r])

\* A "deliver" for slot k.  For its next slot the leader makes a descriptor.
DeliverNext(r, k) ==
  /\ k \in deliverChan[r]
  /\ ~IsDelivered(r, k)
  /\ early' = (early \/ (r = Leader /\ slotCmd[r][k] = None))
  /\ UNCHANGED <<proposes, proposing, answered, slotCmd, dep>>
  /\ IF HasPayload(r, k)
     THEN Run(r, k, acks[r][k], deliverChan[r] \ {k})
     ELSE Wait(r, k, acks[r][k], deliverChan[r] \ {k})

Next ==
  \/ \E c \in Commands : LeaderPropose(c)
  \/ \E r \in Followers, c \in Commands : TakeProposal(r, c)
  \/ \E r \in Followers : Answer(r)
  \/ \E r \in Followers : Unsync(r)
  \/ \E r \in Followers, k \in Slots : HandleAccept(r, k)
  \/ \E r, s \in Replicas, k \in Slots : HandleAcceptAck(r, k, s)
  \/ \E r \in Replicas, k \in Slots : DeliverNext(r, k)

Spec == Init /\ [][Next]_vars

----------------------------------------------------------------------------
\* What the client of client.go has been sent, if all of it is under way or
\* handled: a fast quorum of TRUE, the leader's among them, or the answer of
\* the replica it has for a proxy, whichever that is, after the commit.
FastAnswered(c) ==
  /\ c \in okReplies[Leader]
  /\ Cardinality({r \in Followers : c \in okReplies[r]}) >= FastQuorum - 1
SyncAnswered(c, r) == \E k \in Slots : slotCmd[r][k] = c /\ IsDelivered(r, k)

----------------------------------------------------------------------------
\* The leader's slots are the log.
Assigned ==
  [i \in 1 .. Cardinality({k \in Slots : slotCmd[Leader][k] # None})
     |-> slotCmd[Leader][i - 1]]

Log == INSTANCE ReplicatedLog WITH log <- Assigned

\* Curp implements a replicated log whose order is fixed when the leader
\* takes a proposal, though replicas execute before and after the commit and
\* wake up their slots through five different calls (deliver()).
ImplementsLog == Log!Spec

MoreThanHalf(S) == 2 * Cardinality(S) > Cardinality(Replicas)

\* The replicas that have accepted c in some slot.
Acceptors(c) ==
  {r \in Replicas : \E k \in Slots : slotCmd[r][k] = c /\ r \in acks[r][k]}

\* A proxy answers, and a follower executes, only what a majority of the
\* group has accepted (getAcksHandler() and handleCommit()).
QuorumBacked ==
  /\ \A c \in Commands, r \in Replicas :
       SyncAnswered(c, r) => MoreThanHalf(Acceptors(c))
  /\ \A r \in Followers : \A i \in 1 .. Len(executed[r]) :
       MoreThanHalf(Acceptors(executed[r][i]))

\* A witness never holds two conflicting commands that it has answered TRUE
\* and not executed: the count of ok() goes up in the event loop, after the
\* answer, and down in the descriptors' goroutines, perhaps before the answer.
WitnessExclusive ==
  \A r \in Followers : \A c, d \in okReplies[r] :
    c # d /\ Key[c] = Key[d] =>
      \E i \in 1 .. Len(executed[r]) : executed[r][i] \in {c, d}

\* When a follower's event loop comes to a proposal, the count of its key is
\* at least the number of commands taken and not executed (unsync(), sync()):
\* a late or clamped decrement errs to the side of a FALSE.
UnsyncedCovers ==
  \A r \in Followers : proposing[r] = None =>
    \A key \in Keys :
      unsynced[r][key] >=
        Cardinality({c \in proposes[r] : /\ Key[c] = key
                                         /\ \A i \in 1 .. Len(executed[r]) :
                                              executed[r][i] # c})

\* What a client was told survives any minority, the leader included: in
\* every majority of the replicas somebody has accepted the command, or it
\* has more witnesses there than any conflicting command that nobody there
\* has accepted (the quorums of NewClient()).
Recoverable ==
  \A c \in Commands : FastAnswered(c) =>
    \A S \in SUBSET Replicas : MoreThanHalf(S) =>
      \/ S \cap Acceptors(c) # {}
      \/ \A d \in Commands \ {c} :
           Key[d] = Key[c] /\ S \cap Acceptors(d) = {} =>
             Cardinality({r \in S \ {Leader} : c \in okReplies[r]}) >
             Cardinality({r \in S \ {Leader} : d \in okReplies[r]})

\* Nothing is left to do: no action of any replica has its guard.
Quiet ==
  /\ proposes = [r \in Replicas |-> Commands]
  /\ proposing = [r \in Followers |-> None]
  /\ \A r \in Replicas, k \in Slots :
       /\ slotCmd[Leader][k] # None => slotCmd[r][k] # None
       /\ k \in deliverChan[r] => IsDelivered(r, k)
       /\ \A s \in Replicas :
            s # r /\ s \in acks[s][k] \ acks[r][k] =>
              k \in committed[r] \/ (s = Leader /\ slotCmd[r][k] = None)

\* When nothing is left to do, every replica has executed every command and
\* knows its commit, so that every client is answered, if only by its proxy:
\* no wake-up among proposals, Accepts, acknowledgements and slots is lost
\* (run(), afterPayload).  Every step uses up a message, a proposal or a slot:
\* the system always gets there.
NothingLeft ==
  Quiet => \A c \in Commands, r \in Replicas : SyncAnswered(c, r)

----------------------------------------------------------------------------
(***************************************************************************)
(* The inductive invariant from which the safety properties follow: the    *)
(* leader fills its slots from 0 on with distinct commands, other records  *)
(* of a slot are copies, acknowledgements and commits are backed by the    *)
(* replicas they name, what is executed is a prefix of the slots, and a    *)
(* follower's counts keep up with what it has taken and not executed.      *)
(***************************************************************************)
LeaderFills ==
  \E n \in 0 .. Cardinality(Commands) :
    \A k \in Slots : slotCmd[Leader][k] # None <=> k < n

LeaderDistinct ==
  \A k \in Slots :
    slotCmd[Leader][k] # None =>
      /\ slotCmd[Leader][k] \in proposes[Leader]
      /\ \A j \in Slots : slotCmd[Leader][j] = slotCmd[Leader][k] => j = k

SlotsCopied ==
  \A r \in Replicas, k \in Slots :
    slotCmd[r][k] # None => slotCmd[r][k] = slotCmd[Leader][k]

\* Replica q has accepted slot k.
HasAccepted(q, k) == slotCmd[q][k] # None /\ q \in acks[q][k]

AcksBacked ==
  \A r \in Replicas, k \in Slots : \A s \in acks[r][k] : HasAccepted(s, k)

CommitsBacked ==
  \A r \in Replicas : \A k \in committed[r] :
    \E Q \in SUBSET Replicas : Majority(Q) /\ \A q \in Q : HasAccepted(q, k)

ExecutedPrefix ==
  \A r \in Replicas : \A i \in 1 .. Len(executed[r]) :
    /\ i - 1 \in Slots
    /\ executed[r][i] = slotCmd[r][i - 1]
    /\ HasAccepted(r, i - 1)
    /\ r # Leader => i - 1 \in committed[r]

\* The leader answers what it has accepted, a witness what it has taken.
AnswersKnown ==
  /\ \A c \in okReplies[Leader] :
       \E k \in Slots : slotCmd[Leader][k] = c /\ HasAccepted(Leader, k)
  /\ \A r \in Followers :
       /\ okReplies[r] \subseteq proposes[r]
       /\ proposing[r] # None => proposing[r] \in proposes[r]

\* Commands of a key that follower r has taken: those it has not executed,
\* and those it has counted in.
Pending(r, key) ==
  {c \in proposes[r] : /\ Key[c] = key
                       /\ \A i \in 1 .. Len(executed[r]) : executed[r][i] # c}
CountedIn(r, key) == {c \in proposes[r] \ {proposing[r]} : Key[c] = key}

\* A command that is being counted in may be executed, and counted out, first.
InHand(r, key) ==
  IF proposing[r] # None /\ Key[proposing[r]] = key THEN 1 ELSE 0
CountsKeepUp ==
  \A r \in Followers, key \in Keys :
    /\ Cardinality(Pending(r, key)) <= unsynced[r][key] + InHand(r, key)
    /\ unsynced[r][key] <= Cardinality(CountedIn(r, key))

\* Records, acknowledgements, execution and counts fit together.
IInv ==
  /\ TypeOK
  /\ LeaderFills
  /\ LeaderDistinct
  /\ SlotsCopied
  /\ AcksBacked
  /\ CommitsBacked
  /\ ExecutedPrefix
  /\ AnswersKnown
  /\ CountsKeepUp
  /\ WitnessExclusive

----------------------------------------------------------------------------
(***************************************************************************)
(* The second inductive invariant, from which NothingLeft follows: what a  *)
(* replica knows of a slot it has acted upon, or something will wake it.   *)
(***************************************************************************)
\* A replica accepts a slot whose command and proposal it has.
AcceptsPayload ==
  \A r \in Replicas, k \in Slots :
    /\ r \in acks[r][k] => HasPayload(r, k)
    /\ k \in committed[r] => r \in acks[r][k]

\* It does so unless the slot waits in deliverChan or the proposal, which
\* will send the slot there, is still in the event loop's hands.
PayloadWoken ==
  \A r \in Replicas, k \in Slots :
    HasPayload(r, k) =>
      \/ r \in acks[r][k]
      \/ k \in deliverChan[r]
      \/ r # Leader /\ proposing[r] = slotCmd[r][k]

\* An accepted slot is committed when the quorum-th acknowledgement is there.
QuorumCommits ==
  \A r \in Replicas, k \in Slots :
    r \in acks[r][k] /\ Majority(acks[r][k]) => k \in committed[r]

\* A committed slot that is the next to execute waits in deliverChan.
NextWoken ==
  \A r \in Replicas : \A k \in committed[r] :
    k = Len(executed[r]) => k \in deliverChan[r]

\* The leader has given a slot to each proposal.
LeaderTakes ==
  \A c \in proposes[Leader] : \E k \in Slots : slotCmd[Leader][k] = c

WakeInv ==
  /\ AcceptsPayload
  /\ PayloadWoken
  /\ QuorumCommits
  /\ NextWoken
  /\ LeaderTakes
=============================================================================
