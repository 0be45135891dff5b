--------------------------- MODULE N2PaxosProofs ---------------------------
(***************************************************************************)
(* Proofs about N2Paxos, for every group of replicas, every set of         *)
(* commands, every number of slots and every set of crashes: IInv is       *)
(* inductive, and Agreement, QuorumBacked and ExecutedOnce follow from it; *)
(* WakeInv is inductive given IInv, and NothingLeft follows from it.       *)
(***************************************************************************)
EXTENDS N2Paxos, FiniteSetTheorems, TLAPS

USE ReplicasAssumption, CommandsAssumption, SlotsAssumption, CrashAssumption

\* The part of the invariant that deliver() can disturb.
ExecInv ==
  /\ delivered \in [Replicas -> SUBSET Slots]
  /\ executed \in [Replicas -> Seq(Commands)]
  /\ deliverChan \in [Replicas -> SUBSET (0 .. NumSlots)]
  /\ ExecutedPrefix
  /\ FollowersWait

\* Commands that are recorded for a slot stay recorded.
Grows ==
  /\ slotCmd' \in [Replicas -> [Slots -> Commands \cup {None}]]
  /\ \A q \in Replicas, j \in Slots :
       slotCmd[q][j] # None => slotCmd'[q][j] = slotCmd[q][j]

\* A step that executes nothing keeps ExecInv.
LEMMA ExecStays ==
  ASSUME IInv, Grows, UNCHANGED <<committed, delivered, executed, deliverChan>>
  PROVE  ExecInv'
<1>1. /\ delivered \in [Replicas -> SUBSET Slots]
      /\ executed \in [Replicas -> Seq(Commands)]
      /\ deliverChan \in [Replicas -> SUBSET (0 .. NumSlots)]
      /\ ExecutedPrefix /\ FollowersWait
  BY DEF IInv, TypeOK
<1>2. \A q \in Replicas : \A j \in delivered[q] :
        slotCmd[q][j] # None /\ slotCmd'[q][j] = slotCmd[q][j]
  BY <1>1 DEF ExecutedPrefix, Grows
<1>3. ExecutedPrefix'
  BY <1>1, <1>2 DEF ExecutedPrefix
<1> QED
  BY <1>1, <1>3 DEF ExecInv, FollowersWait

\* A call of deliver() for slot k at r keeps the log of r the image of its
\* delivered slots, whatever else the step does.
LEMMA DeliverKeeps ==
  ASSUME IInv, Grows, NEW r \in Replicas, NEW k \in Slots, NEW taken,
         \A q \in Replicas : committed[q] \subseteq committed'[q],
         Deliver(r, k, taken)
  PROVE  ExecInv'
<1> USE DEF IInv, TypeOK, ExecInv, Grows, Slots
<1> DEFINE c == slotCmd'[r][k]
           Fires == /\ c # None
                    /\ k \notin delivered[r]
                    /\ k \in committed'[r] \/ r = Leader
                    /\ k > 0 => k - 1 \in delivered[r]
                    /\ c \in proposes'[r]
<1>1. CASE ~ Fires
  <2>1. /\ deliverChan' = [deliverChan EXCEPT ![r] = @ \ taken]
        /\ UNCHANGED <<delivered, executed>>
    BY <1>1 DEF Deliver, Deliverable
  <2>2. deliverChan' \in [Replicas -> SUBSET (0 .. NumSlots)]
    BY <2>1
  <2>3. ExecutedPrefix'
    BY <2>1 DEF ExecutedPrefix
  <2>4. FollowersWait'
    BY <2>1 DEF FollowersWait
  <2> QED
    BY <2>1, <2>2, <2>3, <2>4
<1>2. CASE Fires
  <2>1. /\ c \in Commands
        /\ c # None
        /\ k \notin delivered[r]
        /\ k \in committed'[r] \/ r = Leader
        /\ k > 0 => k - 1 \in delivered[r]
        /\ delivered' = [delivered EXCEPT ![r] = @ \cup {k}]
        /\ executed' = [executed EXCEPT ![r] = Append(@, c)]
        /\ deliverChan' =
             [deliverChan EXCEPT ![r] = (@ \ taken) \cup {k + 1}]
    BY <1>2 DEF Deliver, Deliverable
  <2> HIDE DEF c, Fires
  <2>2. /\ delivered[r] = 0 .. Len(executed[r]) - 1
        /\ executed[r] \in Seq(Commands)
    BY DEF ExecutedPrefix
  <2>3. k = Len(executed[r])
    BY <2>1, <2>2
  <2>4. /\ delivered' \in [Replicas -> SUBSET Slots]
        /\ executed' \in [Replicas -> Seq(Commands)]
        /\ deliverChan' \in [Replicas -> SUBSET (0 .. NumSlots)]
    BY <2>1
  <2>5. ExecutedPrefix'
    <3> SUFFICES ASSUME NEW q \in Replicas
                 PROVE  /\ delivered'[q] = 0 .. Len(executed'[q]) - 1
                        /\ \A j \in delivered'[q] :
                             /\ slotCmd'[q][j] # None
                             /\ executed'[q][j + 1] = slotCmd'[q][j]
      BY DEF ExecutedPrefix
    <3>1. CASE q = r
      <4>1. /\ executed'[r] = Append(executed[r], c)
            /\ delivered'[r] = delivered[r] \cup {k}
        BY <2>1
      <4>2. delivered'[r] = 0 .. Len(executed'[r]) - 1
        BY <4>1, <2>2, <2>3
      <4>3. ASSUME NEW j \in delivered'[r]
            PROVE  slotCmd'[r][j] # None /\ executed'[r][j + 1] = slotCmd'[r][j]
        <5>1. CASE j = k
          <6>1. slotCmd'[r][j] = c /\ c # None
            BY <5>1, <2>1 DEF c
          <6>2. executed'[r][k + 1] = c
            BY <4>1, <2>1, <2>2, <2>3
          <6> QED
            BY <5>1, <6>1, <6>2
        <5>2. CASE j \in delivered[r]
          <6>1. /\ slotCmd[r][j] # None
                /\ executed[r][j + 1] = slotCmd[r][j]
                /\ j \in Slots
            BY <5>2 DEF ExecutedPrefix
          <6>2. slotCmd'[r][j] = slotCmd[r][j]
            BY <6>1
          <6>3. j + 1 \in 1 .. Len(executed[r])
            BY <5>2, <2>2
          <6>4. executed'[r][j + 1] = executed[r][j + 1]
            BY <4>1, <6>3, <2>2
          <6> QED
            BY <6>1, <6>2, <6>4
        <5> QED
          BY <5>1, <5>2, <4>1, <4>3
      <4> QED
        BY <3>1, <4>2, <4>3
    <3>2. CASE q # r
      <4>1. delivered'[q] = delivered[q] /\ executed'[q] = executed[q]
        BY <3>2, <2>1
      <4>2. \A j \in delivered[q] :
              /\ j \in Slots
              /\ slotCmd[q][j] # None
              /\ slotCmd'[q][j] = slotCmd[q][j]
        BY DEF ExecutedPrefix
      <4>3. /\ delivered[q] = 0 .. Len(executed[q]) - 1
            /\ \A j \in delivered[q] : executed[q][j + 1] = slotCmd[q][j]
        BY DEF ExecutedPrefix
      <4> QED
        BY <4>1, <4>2, <4>3
    <3> QED
      BY <3>1, <3>2
  <2>6. FollowersWait'
    BY <2>1 DEF FollowersWait
  <2> QED
    BY <2>4, <2>5, <2>6
<1> QED
  BY <1>1, <1>2

\* The part of the invariant that handle2B() can disturb.
VoteInv ==
  /\ twoBs \in [Replicas -> [Slots -> SUBSET Replicas]]
  /\ committed \in [Replicas -> SUBSET Slots]
  /\ VotesBacked
  /\ CommitsBacked
  /\ ExecInv

\* A vote of a replica that has recorded the slot's command keeps votes and
\* commits backed.
LEMMA VoteKeeps ==
  ASSUME IInv,
         NEW r \in Replicas, NEW k \in Slots, NEW s \in Replicas,
         Vote(r, k, s), Grows, slotCmd'[s][k] # None
  PROVE  VoteInv'
<1> DEFINE votes == twoBs[r][k] \cup {s}
<1>1. /\ twoBs \in [Replicas -> [Slots -> SUBSET Replicas]]
      /\ committed \in [Replicas -> SUBSET Slots]
      /\ slotCmd \in [Replicas -> [Slots -> Commands \cup {None}]]
      /\ VotesBacked
      /\ CommitsBacked
  BY DEF IInv, TypeOK
<1>2. twoBs' = [twoBs EXCEPT ![r][k] = votes]
  BY DEF Vote
<1>3. twoBs' \in [Replicas -> [Slots -> SUBSET Replicas]]
  BY <1>1, <1>2
<1>4. \A q \in Replicas, j \in Slots :
        slotCmd[q][j] # None => slotCmd'[q][j] # None
  BY DEF Grows
<1>5. VotesBacked'
  <2> SUFFICES ASSUME NEW q \in Replicas, NEW j \in Slots,
                      NEW p \in twoBs'[q][j]
               PROVE  slotCmd'[p][j] # None
    BY DEF VotesBacked
  <2>1. p \in twoBs[q][j] \/ (p = s /\ j = k)
    BY <1>1, <1>2
  <2>2. p \in Replicas
    BY <1>3
  <2> QED
    BY <2>1, <2>2, <1>1, <1>4 DEF VotesBacked
<1>6. votes \subseteq Replicas /\ \A q \in votes : slotCmd'[q][k] # None
  BY <1>1, <1>4 DEF VotesBacked
<1>7. CASE Majority(votes)
  <2>1. /\ committed' = [committed EXCEPT ![r] = @ \cup {k}]
        /\ Deliver(r, k, {})
    BY <1>7 DEF Vote
  <2>2. /\ committed' \in [Replicas -> SUBSET Slots]
        /\ \A q \in Replicas : committed[q] \subseteq committed'[q]
        /\ k \in committed'[r]
    BY <2>1, <1>1
  <2>3. CommitsBacked'
    <3> SUFFICES ASSUME NEW q \in Replicas, NEW j \in committed'[q]
                 PROVE  \E Q \in SUBSET Replicas :
                          Majority(Q) /\ \A p \in Q : slotCmd'[p][j] # None
      BY DEF CommitsBacked, Majority
    <3>1. CASE j \in committed[q]
      <4>1. PICK Q \in SUBSET Replicas :
                   Majority(Q) /\ \A p \in Q : slotCmd[p][j] # None
        BY <3>1, <1>1 DEF CommitsBacked
      <4>2. j \in Slots
        BY <3>1, <1>1
      <4> QED
        BY <4>1, <4>2, <1>4
    <3>2. CASE q = r /\ j = k
      BY <3>2, <1>6, <1>7
    <3> QED
      BY <3>1, <3>2, <2>1, <1>1
  <2>4. ExecInv'
    BY <2>1, <2>2, DeliverKeeps
  <2> QED
    BY <1>3, <1>5, <2>2, <2>3, <2>4 DEF VoteInv
<1>8. CASE ~ Majority(votes)
  <2>1. UNCHANGED <<committed, delivered, executed, deliverChan>>
    BY <1>8 DEF Vote
  <2>2. CommitsBacked'
    <3> SUFFICES ASSUME NEW q \in Replicas, NEW j \in committed[q]
                 PROVE  \E Q \in SUBSET Replicas :
                          Majority(Q) /\ \A p \in Q : slotCmd'[p][j] # None
      BY <2>1 DEF CommitsBacked, Majority
    <3>1. PICK Q \in SUBSET Replicas :
                 Majority(Q) /\ \A p \in Q : slotCmd[p][j] # None
      BY <1>1 DEF CommitsBacked
    <3>2. j \in Slots
      BY <1>1
    <3> QED
      BY <3>1, <3>2, <1>4
  <2>3. ExecInv'
    BY <2>1, ExecStays
  <2> QED
    BY <1>1, <1>3, <1>5, <2>1, <2>2, <2>3 DEF VoteInv
<1> QED
  BY <1>7, <1>8

LEMMA InitIInv == Init => IInv
<1> SUFFICES ASSUME Init PROVE IInv
  OBVIOUS
<1>1. TypeOK
  BY DEF Init, TypeOK, Slots
<1>2. LeaderFills /\ LeaderDistinct /\ SlotsCopied /\ MsgsBacked
  BY DEF Init, LeaderFills, LeaderDistinct, SlotsCopied, MsgsBacked, Slots
<1>3. VotesBacked /\ CommitsBacked /\ ExecutedPrefix /\ FollowersWait
  BY DEF Init, VotesBacked, CommitsBacked, ExecutedPrefix, FollowersWait
<1> QED
  BY <1>1, <1>2, <1>3 DEF IInv

\* The leader takes a new command, for a slot nobody knows yet.
LEMMA LeaderProposeKeeps ==
  ASSUME IInv, NEW c \in Commands, LeaderPropose(c)
  PROVE  IInv'
<1> DEFINE k == lastCmdSlot
<1>1. /\ proposes \in [Replicas -> SUBSET Commands]
      /\ lastCmdSlot \in 0 .. NumSlots
      /\ slotCmd \in [Replicas -> [Slots -> Commands \cup {None}]]
      /\ msgs \subseteq Message
      /\ crashed \subseteq Replicas
      /\ LeaderFills /\ LeaderDistinct /\ SlotsCopied /\ MsgsBacked
  BY DEF IInv, TypeOK
<1>2. /\ c \notin proposes[Leader]
      /\ k \in Slots
      /\ proposes' = [proposes EXCEPT ![Leader] = @ \cup {c}]
      /\ lastCmdSlot' = k + 1
      /\ msgs' = msgs \cup TwoAs(Leader, k, c) \cup TwoBs(Leader, k)
      /\ slotCmd' = [slotCmd EXCEPT ![Leader][k] = c]
      /\ Vote(Leader, k, Leader)
      /\ crashed' = crashed
  BY <1>1 DEF LeaderPropose, Accept, Slots
<1> HIDE DEF k
<1>3. slotCmd[Leader][k] = None /\ slotCmd'[Leader][k] = c /\ c # None
  BY <1>1, <1>2 DEF LeaderFills, Slots, k
<1>4. \A r \in Replicas, j \in Slots :
        slotCmd'[r][j] = IF r = Leader /\ j = k THEN c ELSE slotCmd[r][j]
  BY <1>1, <1>2
<1>5. \A r \in Replicas : slotCmd[r][k] = None
  BY <1>1, <1>2, <1>3 DEF SlotsCopied
<1>6. Grows
  BY <1>1, <1>2, <1>3, <1>4 DEF Grows
<1>7. VoteInv'
  BY <1>2, <1>3, <1>6, VoteKeeps
<1>8. msgs' \subseteq Message
  BY <1>1, <1>2 DEF Message, TwoAs, TwoBs, Peers
<1>9. TypeOK'
  BY <1>1, <1>2, <1>6, <1>7, <1>8 DEF TypeOK, VoteInv, ExecInv, Grows, Slots
<1>10. LeaderFills'
  BY <1>1, <1>2, <1>3, <1>4 DEF LeaderFills, Slots, k
<1>11. LeaderDistinct'
  <2> SUFFICES ASSUME NEW i \in Slots, slotCmd'[Leader][i] # None
               PROVE  /\ slotCmd'[Leader][i] \in proposes'[Leader]
                      /\ \A j \in Slots :
                           slotCmd'[Leader][j] = slotCmd'[Leader][i] => j = i
    BY DEF LeaderDistinct
  <2>1. \A j \in Slots : slotCmd[Leader][j] # c
    BY <1>1, <1>2, <1>3 DEF LeaderDistinct
  <2> QED
    BY <2>1, <1>1, <1>2, <1>3, <1>4 DEF LeaderDistinct
<1>12. SlotsCopied'
  BY <1>1, <1>2, <1>3, <1>4, <1>5 DEF SlotsCopied
<1>13. MsgsBacked'
  <2> SUFFICES ASSUME NEW m \in msgs'
               PROVE  /\ m.type = "2A" => m.cmd = slotCmd'[Leader][m.slot]
                      /\ m.type = "2B" => slotCmd'[m.src][m.slot] # None
    BY DEF MsgsBacked
  <2>1. CASE m \in msgs /\ m.type = "2A"
    <3>1. m.slot \in Slots /\ m.cmd \in Commands
      BY <2>1, <1>1 DEF Message
    <3>2. slotCmd[Leader][m.slot] = m.cmd
      BY <2>1, <1>1 DEF MsgsBacked
    <3> QED
      BY <2>1, <3>1, <3>2, <1>3, <1>4
  <2>2. CASE m \in msgs /\ m.type = "2B"
    <3>1. m.slot \in Slots /\ m.src \in Replicas
      BY <2>2, <1>1 DEF Message
    <3> QED
      BY <2>2, <3>1, <1>1, <1>6 DEF MsgsBacked, Grows
  <2>3. CASE m \in TwoAs(Leader, k, c)
    BY <2>3, <1>3 DEF TwoAs
  <2>4. CASE m \in TwoBs(Leader, k)
    BY <2>4, <1>3 DEF TwoBs
  <2>5. m \in msgs => m.type \in {"2A", "2B"}
    BY <1>1 DEF Message
  <2> QED
    BY <2>1, <2>2, <2>3, <2>4, <2>5, <1>2
<1> QED
  BY <1>7, <1>9, <1>10, <1>11, <1>12, <1>13 DEF IInv, VoteInv, ExecInv

\* What the steps that take no new slot leave of the leader's choices.
LEMMA SlotsStay ==
  ASSUME IInv, Grows,
         lastCmdSlot' = lastCmdSlot,
         proposes' \in [Replicas -> SUBSET Commands],
         proposes[Leader] \subseteq proposes'[Leader],
         slotCmd'[Leader] = slotCmd[Leader],
         \A r \in Replicas, j \in Slots :
           slotCmd'[r][j] # None => slotCmd'[r][j] = slotCmd[Leader][j],
         \A m \in msgs' \ msgs : m.type = "2B" /\ slotCmd'[m.src][m.slot] # None
  PROVE  LeaderFills' /\ LeaderDistinct' /\ SlotsCopied' /\ MsgsBacked'
<1>1. /\ LeaderFills /\ LeaderDistinct /\ SlotsCopied /\ MsgsBacked
      /\ msgs \subseteq Message
  BY DEF IInv, TypeOK
<1>2. LeaderFills' /\ LeaderDistinct' /\ SlotsCopied'
  BY <1>1 DEF LeaderFills, LeaderDistinct, SlotsCopied
<1>3. ASSUME NEW m \in msgs'
      PROVE  /\ m.type = "2A" => m.cmd = slotCmd'[Leader][m.slot]
             /\ m.type = "2B" => slotCmd'[m.src][m.slot] # None
  <2>1. CASE m \in msgs
    <3>1. m.type = "2B" => m.slot \in Slots /\ m.src \in Replicas
      BY <2>1, <1>1 DEF Message
    <3> QED
      BY <2>1, <3>1, <1>1 DEF MsgsBacked, Grows
  <2>2. CASE m \notin msgs
    BY <2>2, <1>3
  <2> QED
    BY <2>1, <2>2
<1> QED
  BY <1>2, <1>3 DEF MsgsBacked

\* A replica accepts the leader's 2A.
LEMMA Handle2AKeeps ==
  ASSUME IInv, NEW r \in Replicas, NEW m \in msgs, Handle2A(r, m)
  PROVE  IInv'
<1>1. /\ proposes \in [Replicas -> SUBSET Commands]
      /\ lastCmdSlot \in 0 .. NumSlots
      /\ slotCmd \in [Replicas -> [Slots -> Commands \cup {None}]]
      /\ msgs \subseteq Message
      /\ crashed \subseteq Replicas
      /\ SlotsCopied /\ MsgsBacked
  BY DEF IInv, TypeOK
<1>2. /\ m.type = "2A"
      /\ UNCHANGED <<proposes, lastCmdSlot, crashed>>
      /\ msgs' = (msgs \ {m}) \cup TwoBs(r, m.slot)
      /\ slotCmd' = [slotCmd EXCEPT ![r][m.slot] = m.cmd]
      /\ Vote(r, m.slot, r)
  BY DEF Handle2A, Accept
<1>3. m.slot \in Slots /\ m.cmd \in Commands
  BY <1>1, <1>2 DEF Message
<1>4. m.cmd = slotCmd[Leader][m.slot]
  BY <1>1, <1>2 DEF MsgsBacked
<1>5. \A q \in Replicas, j \in Slots :
        slotCmd'[q][j] = IF q = r /\ j = m.slot THEN m.cmd ELSE slotCmd[q][j]
  BY <1>1, <1>2, <1>3
<1>6. Grows
  BY <1>1, <1>2, <1>3, <1>4, <1>5 DEF Grows, SlotsCopied
<1>7. slotCmd'[r][m.slot] # None
  BY <1>3, <1>5
<1>8. VoteInv'
  BY <1>2, <1>3, <1>6, <1>7, VoteKeeps
<1>9. slotCmd'[Leader] = slotCmd[Leader]
  BY <1>1, <1>2, <1>3, <1>4
<1>10. msgs' \subseteq Message
  BY <1>1, <1>2, <1>3 DEF Message, TwoBs, Peers
<1>11. \A n \in msgs' \ msgs :
         n.type = "2B" /\ slotCmd'[n.src][n.slot] # None
  BY <1>2, <1>7 DEF TwoBs
<1>12. LeaderFills' /\ LeaderDistinct' /\ SlotsCopied' /\ MsgsBacked'
  <2>1. \A q \in Replicas, j \in Slots :
          slotCmd'[q][j] # None => slotCmd'[q][j] = slotCmd[Leader][j]
    BY <1>1, <1>4, <1>5 DEF SlotsCopied
  <2> QED
    BY <2>1, <1>1, <1>2, <1>6, <1>9, <1>11, SlotsStay
<1>13. TypeOK'
  BY <1>1, <1>2, <1>6, <1>8, <1>10 DEF TypeOK, VoteInv, ExecInv, Grows
<1> QED
  BY <1>8, <1>12, <1>13 DEF IInv, VoteInv, ExecInv

\* A replica counts the 2B of another.
LEMMA Handle2BKeeps ==
  ASSUME IInv, NEW r \in Replicas, NEW m \in msgs, Handle2B(r, m)
  PROVE  IInv'
<1>1. /\ msgs \subseteq Message
      /\ slotCmd \in [Replicas -> [Slots -> Commands \cup {None}]]
      /\ proposes \in [Replicas -> SUBSET Commands]
      /\ MsgsBacked
      /\ SlotsCopied
  BY DEF IInv, TypeOK
<1>2. /\ m.type = "2B"
      /\ UNCHANGED <<proposes, lastCmdSlot, slotCmd, crashed>>
      /\ msgs' = msgs \ {m}
      /\ Vote(r, m.slot, m.src)
  BY DEF Handle2B
<1>3. m.slot \in Slots /\ m.src \in Replicas
  BY <1>1, <1>2 DEF Message
<1>4. Grows
  BY <1>1, <1>2 DEF Grows
<1>5. slotCmd'[m.src][m.slot] # None
  BY <1>1, <1>2 DEF MsgsBacked
<1>6. VoteInv'
  BY <1>2, <1>3, <1>4, <1>5, VoteKeeps
<1>7. LeaderFills' /\ LeaderDistinct' /\ SlotsCopied' /\ MsgsBacked'
  <2>1. \A n \in msgs' \ msgs :
          n.type = "2B" /\ slotCmd'[n.src][n.slot] # None
    BY <1>2
  <2> QED
    BY <2>1, <1>1, <1>2, <1>4, SlotsStay DEF SlotsCopied
<1>8. TypeOK'
  BY <1>2, <1>6 DEF IInv, TypeOK, VoteInv, ExecInv
<1> QED
  BY <1>6, <1>7, <1>8 DEF IInv, VoteInv, ExecInv

\* The steps that change neither slots, votes nor commits.
LEMMA QuietKeeps ==
  ASSUME IInv, UNCHANGED <<lastCmdSlot, slotCmd, twoBs, committed>>,
         proposes' \in [Replicas -> SUBSET Commands],
         proposes[Leader] \subseteq proposes'[Leader],
         msgs' \subseteq msgs,
         crashed' \subseteq Replicas,
         \/ UNCHANGED <<delivered, executed, deliverChan>>
         \/ \E r \in Replicas, k \in Slots : \E taken : Deliver(r, k, taken)
  PROVE  IInv'
<1>1. Grows
  BY DEF IInv, TypeOK, Grows
<1>2. ExecInv'
  <2>1. CASE UNCHANGED <<delivered, executed, deliverChan>>
    BY <2>1, <1>1, ExecStays
  <2>2. CASE \E r \in Replicas, k \in Slots : \E taken : Deliver(r, k, taken)
    BY <2>2, <1>1, DeliverKeeps
  <2> QED
    BY <2>1, <2>2
<1>3. LeaderFills' /\ LeaderDistinct' /\ SlotsCopied' /\ MsgsBacked'
  <2>1. \A n \in msgs' \ msgs :
          n.type = "2B" /\ slotCmd'[n.src][n.slot] # None
    OBVIOUS
  <2>2. SlotsCopied
    BY DEF IInv
  <2> QED
    BY <2>1, <2>2, <1>1, SlotsStay DEF SlotsCopied
<1>4. TypeOK'
  BY <1>2 DEF IInv, TypeOK, ExecInv
<1>5. VotesBacked' /\ CommitsBacked'
  BY DEF IInv, VotesBacked, CommitsBacked, Majority
<1> QED
  BY <1>2, <1>3, <1>4, <1>5 DEF IInv, ExecInv

\* Every step of the protocol keeps the invariant.
LEMMA NextKeeps == IInv /\ [Next]_vars => IInv'
<1> SUFFICES ASSUME IInv, [Next]_vars PROVE IInv'
  OBVIOUS
<1>1. /\ proposes \in [Replicas -> SUBSET Commands]
      /\ deliverChan \in [Replicas -> SUBSET (0 .. NumSlots)]
      /\ crashed \subseteq Replicas
  BY DEF IInv, TypeOK
<1>2. ASSUME NEW c \in Commands, LeaderPropose(c)
      PROVE  IInv'
  BY <1>2, LeaderProposeKeeps
<1>3. ASSUME NEW r \in Replicas, NEW c \in Commands, Propose(r, c)
      PROVE  IInv'
  <2>1. /\ proposes' = [proposes EXCEPT ![r] = @ \cup {c}]
        /\ UNCHANGED <<lastCmdSlot, slotCmd, twoBs, committed, msgs, crashed>>
    BY <1>3 DEF Propose
  <2>2. \/ UNCHANGED <<delivered, executed, deliverChan>>
        \/ \E k \in Slots : Deliver(r, k, {})
    BY <1>3 DEF Propose
  <2> QED
    BY <2>1, <2>2, <1>1, QuietKeeps
<1>4. ASSUME NEW r \in Replicas, NEW m \in msgs, Handle2A(r, m)
      PROVE  IInv'
  BY <1>4, Handle2AKeeps
<1>5. ASSUME NEW r \in Replicas, NEW m \in msgs, Handle2B(r, m)
      PROVE  IInv'
  BY <1>5, Handle2BKeeps
<1>6. ASSUME NEW r \in Replicas, NEW k \in Slots, DeliverNext(r, k)
      PROVE  IInv'
  BY <1>1, <1>6, QuietKeeps DEF DeliverNext
<1>7. ASSUME NEW r \in Replicas, Crash(r)
      PROVE  IInv'
  <2>1. msgs' \subseteq msgs /\ crashed' \subseteq Replicas
    BY <1>1, <1>7 DEF Crash
  <2> QED
    BY <2>1, <1>1, <1>7, QuietKeeps DEF Crash
<1>8. CASE UNCHANGED vars
  BY <1>1, <1>8, QuietKeeps DEF vars
<1> QED
  BY <1>2, <1>3, <1>4, <1>5, <1>6, <1>7, <1>8 DEF Next

----------------------------------------------------------------------------
\* Every slot's record, vote, commit and execution copies the leader's choice
\* (handle2A, handle2B, deliver).
THEOREM Invariance == Spec => []IInv
BY InitIInv, NextKeeps, PTL DEF Spec

\* The variables keep their types.
THEOREM TypeCorrect == Spec => []TypeOK
<1>1. IInv => TypeOK
  BY DEF IInv
<1> QED
  BY <1>1, Invariance, PTL

\* Two replicas never execute different commands at the same position.
THEOREM AgreementHolds == Spec => []Agreement
<1>1. IInv => Agreement
  <2> SUFFICES ASSUME IInv, NEW r \in Replicas, NEW s \in Replicas,
                      NEW i \in 1 .. Len(executed[r]), i <= Len(executed[s])
               PROVE  executed[r][i] = executed[s][i]
    BY DEF Agreement
  <2>1. executed \in [Replicas -> Seq(Commands)]
    BY DEF IInv, TypeOK
  <2>2. ASSUME NEW q \in Replicas, i <= Len(executed[q])
        PROVE  executed[q][i] = slotCmd[Leader][i - 1]
    <3>1. i - 1 \in delivered[q] /\ (i - 1) + 1 = i
      BY <2>1, <2>2 DEF IInv, ExecutedPrefix
    <3>2. slotCmd[q][i - 1] # None /\ executed[q][i] = slotCmd[q][i - 1]
      BY <3>1 DEF IInv, ExecutedPrefix
    <3>3. i - 1 \in Slots
      BY <3>1 DEF IInv, TypeOK
    <3> QED
      BY <3>2, <3>3 DEF IInv, SlotsCopied
  <2> QED
    BY <2>1, <2>2
<1> QED
  BY <1>1, Invariance, PTL

\* What a follower executes is held by a majority of the group.
THEOREM QuorumBackedHolds == Spec => []QuorumBacked
<1>1. IInv => QuorumBacked
  <2> SUFFICES ASSUME IInv, NEW r \in Replicas \ {Leader},
                      NEW i \in 1 .. Len(executed[r])
               PROVE  \E Q \in SUBSET Replicas :
                        /\ Majority(Q)
                        /\ \A q \in Q : slotCmd[q][i - 1] = executed[r][i]
    BY DEF QuorumBacked
  <2>1. /\ executed \in [Replicas -> Seq(Commands)]
        /\ delivered \in [Replicas -> SUBSET Slots]
        /\ ExecutedPrefix /\ FollowersWait /\ CommitsBacked /\ SlotsCopied
    BY DEF IInv, TypeOK
  <2>2. i - 1 \in delivered[r] /\ (i - 1) + 1 = i
    BY <2>1 DEF ExecutedPrefix
  <2>3. /\ i - 1 \in Slots
        /\ slotCmd[r][i - 1] # None
        /\ executed[r][i] = slotCmd[r][i - 1]
        /\ i - 1 \in committed[r]
    BY <2>1, <2>2 DEF ExecutedPrefix, FollowersWait
  <2>4. PICK Q \in SUBSET Replicas :
               Majority(Q) /\ \A q \in Q : slotCmd[q][i - 1] # None
    BY <2>1, <2>3 DEF CommitsBacked
  <2>5. \A q \in Q : slotCmd[q][i - 1] = executed[r][i]
    BY <2>1, <2>3, <2>4 DEF SlotsCopied
  <2> QED
    BY <2>4, <2>5
<1> QED
  BY <1>1, Invariance, PTL

\* No replica executes a command twice.
THEOREM ExecutedOnceHolds == Spec => []ExecutedOnce
<1>1. IInv => ExecutedOnce
  <2> SUFFICES ASSUME IInv, NEW r \in Replicas,
                      NEW i \in 1 .. Len(executed[r]),
                      NEW j \in 1 .. Len(executed[r]),
                      executed[r][i] = executed[r][j]
               PROVE  i = j
    BY DEF ExecutedOnce
  <2>1. /\ executed \in [Replicas -> Seq(Commands)]
        /\ delivered \in [Replicas -> SUBSET Slots]
        /\ ExecutedPrefix /\ LeaderDistinct /\ SlotsCopied
    BY DEF IInv, TypeOK
  <2>2. ASSUME NEW n \in 1 .. Len(executed[r])
        PROVE  /\ n - 1 \in Slots
               /\ slotCmd[Leader][n - 1] # None
               /\ executed[r][n] = slotCmd[Leader][n - 1]
    <3>1. n - 1 \in delivered[r] /\ (n - 1) + 1 = n
      BY <2>1 DEF ExecutedPrefix
    <3>2. /\ n - 1 \in Slots
          /\ slotCmd[r][n - 1] # None
          /\ executed[r][n] = slotCmd[r][n - 1]
      BY <2>1, <3>1 DEF ExecutedPrefix
    <3> QED
      BY <2>1, <3>2 DEF SlotsCopied
  <2>3. i - 1 = j - 1
    BY <2>1, <2>2 DEF LeaderDistinct
  <2> QED
    BY <2>1, <2>3
<1> QED
  BY <1>1, Invariance, PTL

----------------------------------------------------------------------------
\* A call of deliver() is a step of the log's replica r or leaves it alone.
LEMMA DeliverExecutes ==
  ASSUME IInv, IInv', NEW r \in Replicas, NEW k \in Slots, NEW taken,
         Deliver(r, k, taken)
  PROVE  UNCHANGED executed \/ Log!Execute(r)
<1> SUFFICES ASSUME executed' # executed
             PROVE  Log!Execute(r)
  OBVIOUS
<1>1. /\ slotCmd'[r][k] # None
      /\ k \notin delivered[r]
      /\ k > 0 => k - 1 \in delivered[r]
      /\ executed' = [executed EXCEPT ![r] = Append(@, slotCmd'[r][k])]
  BY DEF Deliver, Deliverable
<1>2. /\ executed \in [Replicas -> Seq(Commands)]
      /\ delivered[r] = 0 .. Len(executed[r]) - 1
  BY DEF IInv, TypeOK, ExecutedPrefix
<1>3. k = Len(executed[r])
  BY <1>1, <1>2 DEF Slots
<1>4. slotCmd'[r][k] = slotCmd'[Leader][k] /\ slotCmd'[Leader][k] # None
  BY <1>1 DEF IInv, SlotsCopied
<1>5. k < lastCmdSlot' /\ lastCmdSlot' \in Nat
  BY <1>4 DEF IInv, LeaderFills, TypeOK
<1>6. /\ Len(Assigned') = lastCmdSlot'
      /\ Assigned'[k + 1] = slotCmd'[Leader][k]
  BY <1>5 DEF Assigned, Slots
<1> QED
  BY <1>1, <1>2, <1>3, <1>4, <1>5, <1>6 DEF Log!Execute

\* A vote is a delivery or leaves the log's replicas alone.
LEMMA VoteExecutes ==
  ASSUME IInv, IInv', NEW r \in Replicas, NEW k \in Slots, NEW s,
         Vote(r, k, s)
  PROVE  UNCHANGED executed \/ Log!Execute(r)
BY DeliverExecutes DEF Vote

\* A step that takes no new slot leaves the log as it is.
LEMMA AssignedStays ==
  ASSUME UNCHANGED lastCmdSlot, slotCmd'[Leader] = slotCmd[Leader]
  PROVE  UNCHANGED Assigned
BY DEF Assigned

\* A new proposal of the leader is a new entry of the log.
LEMMA ProposalOrders ==
  ASSUME IInv, NEW c \in Commands, LeaderPropose(c)
  PROVE  Log!Order(c)
<1>1. /\ slotCmd \in [Replicas -> [Slots -> Commands \cup {None}]]
      /\ lastCmdSlot \in Slots
      /\ lastCmdSlot' = lastCmdSlot + 1
      /\ slotCmd' = [slotCmd EXCEPT ![Leader][lastCmdSlot] = c]
      /\ c \notin proposes[Leader]
  BY DEF LeaderPropose, Accept, IInv, TypeOK, Slots
<1>2. \A i \in 1 .. lastCmdSlot : Assigned[i] # c
  <2> SUFFICES ASSUME NEW i \in 1 .. lastCmdSlot
               PROVE  slotCmd[Leader][i - 1] # c
    BY DEF Assigned
  <2>1. i - 1 \in Slots /\ i - 1 < lastCmdSlot
    BY <1>1 DEF Slots
  <2> QED
    BY <1>1, <2>1 DEF IInv, LeaderFills, LeaderDistinct
<1>3. /\ Len(Assigned) = lastCmdSlot
      /\ Assigned \in Seq(Commands \cup {None})
  BY <1>1 DEF Assigned, Slots
<1>4. \A i \in 1 .. lastCmdSlot + 1 :
        slotCmd'[Leader][i - 1] =
          IF i = lastCmdSlot + 1 THEN c ELSE slotCmd[Leader][i - 1]
  BY <1>1 DEF Slots
<1>5. Assigned' = Append(Assigned, c)
  <2>1. Assigned' = [i \in 1 .. lastCmdSlot + 1 |->
                       IF i = lastCmdSlot + 1 THEN c
                                              ELSE slotCmd[Leader][i - 1]]
    BY <1>1, <1>4 DEF Assigned
  <2> QED
    BY <1>1, <1>3, <2>1 DEF Assigned, Slots
<1> QED
  BY <1>2, <1>3, <1>5 DEF Log!Order

\* N2Paxos implements the replicated log: every step is a step of the log or
\* leaves it alone.
THEOREM Refinement == Spec => ImplementsLog
<1>1. Init => Log!Init
  BY DEF Init, Log!Init, Assigned
<1>2. ASSUME IInv, IInv', [Next]_vars
      PROVE  [Log!Next]_<<Assigned, executed>>
  <2>1. ASSUME NEW c \in Commands, LeaderPropose(c)
        PROVE  Log!Next
    <3>1. Log!Order(c)
      BY <1>2, <2>1, ProposalOrders
    <3>2. lastCmdSlot \in Slots /\ Vote(Leader, lastCmdSlot, Leader)
      BY <1>2, <2>1 DEF LeaderPropose, Accept, IInv, TypeOK, Slots
    <3>3. UNCHANGED executed \/ Log!Execute(Leader)
      BY <1>2, <3>2, VoteExecutes
    <3> QED
      BY <3>1, <3>3 DEF Log!Next
  <2>2. ASSUME NEW r \in Replicas, NEW c \in Commands, Propose(r, c)
        PROVE  Log!Next
    <3>1. UNCHANGED Assigned
      BY <2>2, AssignedStays DEF Propose
    <3>2. UNCHANGED executed \/ Log!Execute(r)
      BY <1>2, <2>2, DeliverExecutes DEF Propose
    <3> QED
      BY <3>1, <3>2 DEF Log!Next
  <2>3. ASSUME NEW r \in Replicas, NEW m \in msgs, Handle2A(r, m)
        PROVE  Log!Next
    <3>1. /\ m.slot \in Slots
          /\ m.cmd \in Commands
          /\ m.cmd = slotCmd[Leader][m.slot]
          /\ slotCmd \in [Replicas -> [Slots -> Commands \cup {None}]]
      BY <1>2, <2>3 DEF Handle2A, IInv, TypeOK, Message, MsgsBacked
    <3>2. UNCHANGED Assigned
      BY <2>3, <3>1, AssignedStays DEF Handle2A, Accept
    <3>3. UNCHANGED executed \/ Log!Execute(r)
      BY <1>2, <2>3, <3>1, VoteExecutes DEF Handle2A, Accept
    <3> QED
      BY <3>2, <3>3 DEF Log!Next
  <2>4. ASSUME NEW r \in Replicas, NEW m \in msgs, Handle2B(r, m)
        PROVE  Log!Next
    <3>1. m.slot \in Slots
      BY <1>2, <2>4 DEF Handle2B, IInv, TypeOK, Message
    <3>2. UNCHANGED Assigned
      BY <2>4, AssignedStays DEF Handle2B
    <3>3. UNCHANGED executed \/ Log!Execute(r)
      BY <1>2, <2>4, <3>1, VoteExecutes DEF Handle2B
    <3> QED
      BY <3>2, <3>3 DEF Log!Next
  <2>5. ASSUME NEW r \in Replicas, NEW k \in Slots, DeliverNext(r, k)
        PROVE  Log!Next
    <3>1. UNCHANGED Assigned
      BY <2>5, AssignedStays DEF DeliverNext
    <3>2. UNCHANGED executed \/ Log!Execute(r)
      BY <1>2, <2>5, DeliverExecutes DEF DeliverNext
    <3> QED
      BY <3>1, <3>2 DEF Log!Next
  <2>6. ASSUME NEW r \in Replicas, Crash(r)
        PROVE  UNCHANGED <<Assigned, executed>>
    BY <2>6, AssignedStays DEF Crash
  <2>7. CASE UNCHANGED vars
    BY <2>7, AssignedStays DEF vars
  <2> QED
    BY <1>2, <2>1, <2>2, <2>3, <2>4, <2>5, <2>6, <2>7 DEF Next
<1> QED
  BY <1>1, <1>2, Invariance, PTL DEF Spec, ImplementsLog, Log!Spec

----------------------------------------------------------------------------
(***************************************************************************)
(* No wake-up is lost: when nothing is left to handle and the leader and a *)
(* majority run, every running replica has executed every command. WakeInv *)
(* says of everything that a running replica lacks which message, or which *)
(* slot in deliverChan, will bring it.                                     *)
(***************************************************************************)

\* Votes and commits are never withdrawn, and who has stopped never returns.
Lasts ==
  /\ \A q \in Replicas, j \in Slots : twoBs[q][j] \subseteq twoBs'[q][j]
  /\ crashed \subseteq crashed'

\* Except for slot k of r, no slot's command becomes executable by a proposal.
OnlyFor(r, k) ==
  \A q \in Replicas, j \in Slots :
    slotCmd'[q][j] \in proposes'[q] =>
      slotCmd[q][j] \in proposes[q] \/ (q = r /\ j = k)

----------------------------------------------------------------------------
\* More votes are a majority still.
LEMMA MajorityGrows ==
  ASSUME NEW S \in SUBSET Replicas, NEW T \in SUBSET S, Majority(T)
  PROVE  Majority(S)
<1>1. IsFiniteSet(S) /\ IsFiniteSet(T)
  BY FS_Subset
<1>2. Cardinality(T) <= Cardinality(S)
  BY <1>1, FS_Subset
<1>3. Cardinality(T) \in Nat /\ Cardinality(S) \in Nat /\ Cardinality(Replicas) \in Nat
  BY <1>1, FS_CardinalityType
<1> QED
  BY <1>2, <1>3 DEF Majority

\* Nobody is no majority.
LEMMA NobodyIsNoMajority == ~ Majority({})
<1>1. Cardinality({}) = 0 /\ Cardinality(Replicas) \in Nat
  BY FS_EmptySet, FS_CardinalityType
<1> QED
  BY <1>1 DEF Majority

LEMMA InitWakeInv == Init => WakeInv
<1> SUFFICES ASSUME Init PROVE WakeInv
  OBVIOUS
<1>1. VotesCommit
  BY NobodyIsNoMajority DEF Init, VotesCommit
<1>2. LeaderTakes
  BY DEF Init, LeaderTakes
<1>3. SlotsAnnounced /\ VotesAnnounced /\ Woken
  BY DEF Init, SlotsAnnounced, VotesAnnounced, Woken, Running
<1> QED
  BY <1>1, <1>2, <1>3 DEF WakeInv

----------------------------------------------------------------------------
\* A call of deliver() for slot k of r executes the slot or could not, and
\* wakes up the next one: it loses no wake-up, also if it was the slot's own.
LEMMA DeliverWakes ==
  ASSUME IInv, IInv', Woken, NEW r \in Replicas, NEW k \in Slots,
         NEW taken \in SUBSET {k},
         Deliver(r, k, taken), OnlyFor(r, k),
         crashed' = crashed,
         \A q \in Replicas : \A j \in committed'[q] :
           j \in committed[q] \/ (q = r /\ j = k)
  PROVE  Woken'
<1>1. /\ delivered \in [Replicas -> SUBSET Slots]
      /\ deliverChan \in [Replicas -> SUBSET (0 .. NumSlots)]
      /\ committed' \in [Replicas -> SUBSET Slots]
      /\ proposes' \in [Replicas -> SUBSET Commands]
      /\ Running' = Running
  BY DEF IInv, TypeOK, Running
<1>2. SUFFICES ASSUME NEW q \in Running, NEW j \in committed'[q],
                      j \notin delivered'[q],
                      slotCmd'[q][j] \in proposes'[q],
                      j > 0 => j - 1 \in delivered'[q]
               PROVE  j \in deliverChan'[q]
  BY <1>1 DEF Woken
<1>3. q \in Replicas /\ j \in Slots
  BY <1>1 DEF Running
<1>4. CASE Deliverable(r, k)
  <2>1. /\ delivered' = [delivered EXCEPT ![r] = @ \cup {k}]
        /\ deliverChan' = [deliverChan EXCEPT ![r] = (@ \ taken) \cup {k + 1}]
    BY <1>4 DEF Deliver
  <2>2. /\ \A p \in Replicas :
             delivered'[p] = IF p = r THEN delivered[p] \cup {k} ELSE delivered[p]
        /\ \A p \in Replicas :
             deliverChan'[p] = IF p = r THEN (deliverChan[p] \ taken) \cup {k + 1}
                                        ELSE deliverChan[p]
    BY <1>1, <2>1
  <2>3. ~ (q = r /\ j = k) /\ j \notin delivered[q]
    BY <1>2, <1>3, <2>2
  <2>4. j \in committed[q] \ delivered[q] /\ slotCmd[q][j] \in proposes[q]
    BY <1>2, <1>3, <2>3 DEF OnlyFor
  <2>5. CASE j > 0 => j - 1 \in delivered[q]
    <3>1. j \in deliverChan[q]
      BY <2>4, <2>5 DEF Woken
    <3> QED
      BY <1>3, <2>2, <2>3, <3>1
  <2>6. CASE ~ (j > 0 => j - 1 \in delivered[q])
    <3>1. j - 1 \in delivered'[q] /\ j - 1 \notin delivered[q]
      BY <1>2, <2>6
    <3>2. q = r
      BY <1>3, <2>2, <3>1
    <3>3. delivered'[q] = delivered[q] \cup {k}
      BY <1>3, <2>2, <3>2
    <3>4. j = k + 1
      BY <1>3, <3>1, <3>3 DEF Slots
    <3> QED
      BY <1>3, <2>2, <3>2, <3>4
  <2> QED
    BY <2>5, <2>6
<1>5. CASE ~ Deliverable(r, k)
  <2>1. /\ deliverChan' = [deliverChan EXCEPT ![r] = @ \ taken]
        /\ UNCHANGED delivered
    BY <1>5 DEF Deliver
  <2>2. \A p \in Replicas :
          deliverChan'[p] = IF p = r THEN deliverChan[p] \ taken ELSE deliverChan[p]
    BY <1>1, <2>1
  <2>3. ~ (q = r /\ j = k)
    <3> SUFFICES ASSUME q = r, j = k PROVE FALSE
      OBVIOUS
    <3>1. slotCmd'[r][k] # None
      BY <1>1, <1>2
    <3> QED
      BY <1>2, <1>5, <2>1, <3>1 DEF Deliverable
  <2>4. j \in committed[q] \ delivered[q] /\ slotCmd[q][j] \in proposes[q]
    BY <1>2, <1>3, <2>1, <2>3 DEF OnlyFor
  <2>5. j \in deliverChan[q]
    BY <1>2, <2>1, <2>4 DEF Woken
  <2> QED
    BY <1>3, <2>2, <2>3, <2>5
<1> QED
  BY <1>4, <1>5

\* A step that executes, commits and proposes nothing loses no wake-up.
LEMMA WokenStays ==
  ASSUME IInv, Woken, UNCHANGED <<committed, delivered, deliverChan>>,
         crashed \subseteq crashed',
         \A q \in Replicas, j \in Slots :
           j \in committed[q] /\ slotCmd'[q][j] \in proposes'[q] =>
             slotCmd[q][j] \in proposes[q]
  PROVE  Woken'
BY DEF IInv, TypeOK, Woken, Running

\* A vote for slot k of r commits the slot with the quorum-th vote, and then
\* every vote tries to execute it.
LEMMA VoteWakes ==
  ASSUME IInv, IInv', VotesCommit, NEW r \in Replicas, NEW k \in Slots,
         NEW s \in Replicas, Vote(r, k, s), OnlyFor(r, k), crashed' = crashed
  PROVE  VotesCommit' /\ Lasts /\ s \in twoBs'[r][k] /\ (Woken => Woken')
<1> DEFINE votes == twoBs[r][k] \cup {s}
<1>1. /\ twoBs \in [Replicas -> [Slots -> SUBSET Replicas]]
      /\ committed \in [Replicas -> SUBSET Slots]
  BY DEF IInv, TypeOK
<1>2. twoBs' = [twoBs EXCEPT ![r][k] = votes]
  BY DEF Vote
<1>3. \A q \in Replicas, j \in Slots :
        twoBs'[q][j] = IF q = r /\ j = k THEN votes ELSE twoBs[q][j]
  BY <1>1, <1>2
<1>4. Lasts /\ s \in twoBs'[r][k]
  BY <1>3 DEF Lasts
<1>5. /\ votes \in SUBSET Replicas
      /\ twoBs[r][k] \in SUBSET votes
      /\ k \in committed[r] => Majority(votes)
  <2>1. votes \in SUBSET Replicas /\ twoBs[r][k] \in SUBSET votes
    BY <1>1
  <2>2. k \in committed[r] => Majority(twoBs[r][k])
    BY DEF VotesCommit
  <2> HIDE DEF votes
  <2> QED
    BY <2>1, <2>2, MajorityGrows
<1> HIDE DEF votes
<1>6. CASE Majority(votes)
  <2>1. /\ committed' = [committed EXCEPT ![r] = @ \cup {k}]
        /\ Deliver(r, k, {})
    BY <1>6 DEF Vote, votes
  <2>2. \A q \in Replicas, j \in Slots :
          j \in committed'[q] <=> j \in committed[q] \/ (q = r /\ j = k)
    BY <1>1, <2>1
  <2>3. VotesCommit'
    BY <1>3, <1>6, <2>2 DEF VotesCommit, Majority
  <2>4. ASSUME Woken PROVE Woken'
    <3>1. {} \in SUBSET {k}
      OBVIOUS
    <3>2. \A q \in Replicas : \A j \in committed'[q] :
            j \in committed[q] \/ (q = r /\ j = k)
      BY <1>1, <2>1
    <3> QED
      BY <2>1, <2>4, <3>1, <3>2, DeliverWakes
  <2> QED
    BY <1>4, <2>3, <2>4
<1>7. CASE ~ Majority(votes)
  <2>1. UNCHANGED <<committed, delivered, executed, deliverChan>>
    BY <1>7 DEF Vote, votes
  <2>2. k \notin committed[r]
    BY <1>5, <1>7
  <2>3. VotesCommit'
    BY <1>3, <1>7, <2>1, <2>2 DEF VotesCommit, Majority
  <2>4. ASSUME Woken PROVE Woken'
    BY <2>1, <2>2, <2>4, WokenStays DEF OnlyFor
  <2> QED
    BY <1>4, <2>3, <2>4
<1> QED
  BY <1>6, <1>7

----------------------------------------------------------------------------
\* 2As are taken by the replica they are for, and a new slot comes with a 2A
\* to everybody else who runs.
LEMMA SlotsAnnouncedKept ==
  ASSUME SlotsAnnounced, Grows, Lasts,
         \A m \in msgs \ msgs' :
           m.type = "2A" /\ m.src = Leader /\ m.dst \in Running' =>
             slotCmd'[m.dst][m.slot] # None,
         \A k \in Slots : slotCmd[Leader][k] = None /\ slotCmd'[Leader][k] # None =>
           \A r \in Running' \ {Leader} : \E m \in msgs' :
             m.type = "2A" /\ m.src = Leader /\ m.dst = r /\ m.slot = k
  PROVE  SlotsAnnounced'
<1> SUFFICES ASSUME NEW r \in Running', NEW k \in Slots,
                    slotCmd'[Leader][k] # None, slotCmd'[r][k] = None
             PROVE  \E m \in msgs' :
                      m.type = "2A" /\ m.src = Leader /\ m.dst = r /\ m.slot = k
  BY DEF SlotsAnnounced
<1>1. r \in Running /\ r \in Replicas /\ r # Leader
  BY DEF Running, Lasts
<1>2. CASE slotCmd[Leader][k] = None
  BY <1>1, <1>2
<1>3. CASE slotCmd[Leader][k] # None
  <2>1. slotCmd[r][k] = None
    BY <1>1 DEF Grows
  <2>2. PICK m \in msgs :
               m.type = "2A" /\ m.src = Leader /\ m.dst = r /\ m.slot = k
    BY <1>1, <1>3, <2>1 DEF SlotsAnnounced
  <2> QED
    BY <2>2
<1> QED
  BY <1>2, <1>3

\* 2Bs are counted by the replica they are for, and a replica that accepts a
\* slot votes itself and sends a 2B to everybody else who runs.
LEMMA VotesAnnouncedKept ==
  ASSUME VotesAnnounced, Lasts,
         \A m \in msgs \ msgs' :
           m.type = "2B" /\ m.src \in Running' /\ m.dst \in Running' =>
             m.src \in twoBs'[m.dst][m.slot],
         \A s \in Replicas, k \in Slots :
           slotCmd[s][k] = None /\ slotCmd'[s][k] # None =>
             /\ s \in twoBs'[s][k]
             /\ \A r \in Running' \ {s} : \E m \in msgs' :
                  m.type = "2B" /\ m.src = s /\ m.dst = r /\ m.slot = k
  PROVE  VotesAnnounced'
<1> SUFFICES ASSUME NEW r \in Running', NEW s \in Running', NEW k \in Slots,
                    slotCmd'[s][k] # None, s \notin twoBs'[r][k]
             PROVE  \E m \in msgs' :
                      m.type = "2B" /\ m.src = s /\ m.dst = r /\ m.slot = k
  BY DEF VotesAnnounced
<1>1. r \in Running /\ s \in Running /\ r \in Replicas /\ s \in Replicas
  BY DEF Running, Lasts
<1>2. CASE slotCmd[s][k] = None
  BY <1>1, <1>2
<1>3. CASE slotCmd[s][k] # None
  <2>1. s \notin twoBs[r][k]
    BY <1>1 DEF Lasts
  <2>2. PICK m \in msgs :
               m.type = "2B" /\ m.src = s /\ m.dst = r /\ m.slot = k
    BY <1>1, <1>3, <2>1 DEF VotesAnnounced
  <2> QED
    BY <2>2
<1> QED
  BY <1>2, <1>3

----------------------------------------------------------------------------
\* Every recorded slot stays recorded, in whatever step.
LEMMA RecordsStay ==
  ASSUME IInv, IInv', [Next]_vars
  PROVE  Grows
<1>1. slotCmd \in [Replicas -> [Slots -> Commands \cup {None}]]
  BY DEF IInv, TypeOK
<1>2. slotCmd' \in [Replicas -> [Slots -> Commands \cup {None}]]
  BY DEF IInv, TypeOK
<1>3. ASSUME NEW q \in Replicas, NEW j \in Slots, slotCmd[q][j] # None
      PROVE  slotCmd'[q][j] = slotCmd[q][j]
  <2>1. slotCmd[q][j] = slotCmd[Leader][j]
    BY <1>3 DEF IInv, SlotsCopied
  <2>2. CASE \E c \in Commands : LeaderPropose(c)
    <3>1. PICK c \in Commands :
            slotCmd' = [slotCmd EXCEPT ![Leader][lastCmdSlot] = c]
      BY <2>2 DEF LeaderPropose, Accept
    <3>2. j # lastCmdSlot
      BY <1>3, <2>1 DEF IInv, TypeOK, LeaderFills, Slots
    <3> QED
      BY <1>1, <3>1, <3>2
  <2>3. CASE \E r \in Replicas : \E m \in msgs : Handle2A(r, m)
    <3>1. PICK r \in Replicas, m \in msgs : Handle2A(r, m)
      BY <2>3
    <3>2. /\ slotCmd' = [slotCmd EXCEPT ![r][m.slot] = m.cmd]
          /\ m.cmd = slotCmd[Leader][m.slot]
      BY <3>1 DEF Handle2A, Accept, IInv, MsgsBacked
    <3> QED
      BY <1>1, <2>1, <3>2
  <2>4. CASE UNCHANGED slotCmd
    BY <2>4
  <2> QED
    BY <2>2, <2>3, <2>4 DEF Next, Propose, Handle2B, DeliverNext, Crash, vars
<1> QED
  BY <1>2, <1>3 DEF Grows

\* The leader takes a proposal and tells everybody who runs.
LEMMA LeaderProposeWakes ==
  ASSUME IInv, IInv', Grows, WakeInv, NEW c \in Commands, LeaderPropose(c)
  PROVE  WakeInv'
<1> DEFINE k == lastCmdSlot
<1>1. /\ proposes \in [Replicas -> SUBSET Commands]
      /\ proposes' \in [Replicas -> SUBSET Commands]
      /\ slotCmd \in [Replicas -> [Slots -> Commands \cup {None}]]
      /\ LeaderDistinct
  BY DEF IInv, TypeOK
<1>2. /\ c \notin proposes[Leader]
      /\ k \in Slots
      /\ proposes' = [proposes EXCEPT ![Leader] = @ \cup {c}]
      /\ msgs' = msgs \cup TwoAs(Leader, k, c) \cup TwoBs(Leader, k)
      /\ slotCmd' = [slotCmd EXCEPT ![Leader][k] = c]
      /\ Vote(Leader, k, Leader)
      /\ crashed' = crashed
  BY DEF LeaderPropose, Accept, Slots, IInv, TypeOK
<1> HIDE DEF k
<1>3. /\ \A q \in Replicas, j \in Slots :
           slotCmd'[q][j] = IF q = Leader /\ j = k THEN c ELSE slotCmd[q][j]
      /\ \A q \in Replicas :
           proposes'[q] = IF q = Leader THEN proposes[q] \cup {c} ELSE proposes[q]
  BY <1>1, <1>2
<1>4. OnlyFor(Leader, k)
  <2> SUFFICES ASSUME NEW q \in Replicas, NEW j \in Slots,
                      slotCmd'[q][j] \in proposes'[q], ~ (q = Leader /\ j = k)
               PROVE  slotCmd[q][j] \in proposes[q]
    BY DEF OnlyFor
  <2>1. slotCmd[q][j] \in proposes'[q] /\ slotCmd[q][j] \in Commands
    BY <1>1, <1>3
  <2>2. q = Leader => slotCmd[q][j] # c
    BY <1>1, <1>2, <2>1 DEF LeaderDistinct
  <2> QED
    BY <1>3, <2>1, <2>2
<1>5. VotesCommit' /\ Lasts /\ Leader \in twoBs'[Leader][k] /\ (Woken => Woken')
  BY <1>2, <1>4, VoteWakes DEF WakeInv
<1>6. LeaderTakes'
  <2> SUFFICES ASSUME NEW d \in proposes'[Leader]
               PROVE  \E j \in Slots : slotCmd'[Leader][j] = d
    BY DEF LeaderTakes
  <2>1. CASE d = c
    BY <1>2, <1>3, <2>1
  <2>2. CASE d # c
    <3>1. d \in proposes[Leader] /\ d # None
      BY <1>1, <1>3, <2>2
    <3>2. PICK j \in Slots : slotCmd[Leader][j] = d
      BY <3>1 DEF WakeInv, LeaderTakes
    <3> QED
      BY <3>1, <3>2 DEF Grows
  <2> QED
    BY <2>1, <2>2
<1>7. ASSUME NEW r \in Running' \ {Leader}
      PROVE  /\ \E m \in msgs' : /\ m.type = "2A" /\ m.src = Leader
                                 /\ m.dst = r /\ m.slot = k
             /\ \E m \in msgs' : /\ m.type = "2B" /\ m.src = Leader
                                 /\ m.dst = r /\ m.slot = k
  <2>1. r \in Peers(Leader)
    BY <1>2 DEF Peers, Running
  <2>2. [type |-> "2A", src |-> Leader, dst |-> r, slot |-> k, cmd |-> c]
          \in TwoAs(Leader, k, c)
    BY <2>1 DEF TwoAs
  <2>3. [type |-> "2B", src |-> Leader, dst |-> r, slot |-> k] \in TwoBs(Leader, k)
    BY <2>1 DEF TwoBs
  <2> QED
    BY <1>2, <2>2, <2>3
<1>8. msgs \subseteq msgs'
  BY <1>2
<1>9. ASSUME Leader \notin crashed'
      PROVE  SlotsAnnounced' /\ VotesAnnounced' /\ Woken'
  <2>1. SlotsAnnounced /\ VotesAnnounced /\ Woken
    BY <1>2, <1>9 DEF WakeInv
  <2>2. \A q \in Replicas, j \in Slots :
          slotCmd[q][j] = None /\ slotCmd'[q][j] # None => q = Leader /\ j = k
    BY <1>3
  <2>3. SlotsAnnounced'
    BY <1>5, <1>7, <1>8, <2>1, <2>2, SlotsAnnouncedKept
  <2>4. VotesAnnounced'
    BY <1>5, <1>7, <1>8, <2>1, <2>2, VotesAnnouncedKept
  <2> QED
    BY <1>5, <2>1, <2>3, <2>4
<1> QED
  BY <1>5, <1>6, <1>9 DEF WakeInv

\* A replica takes a 2A, votes and tells everybody who runs.
LEMMA Handle2AWakes ==
  ASSUME IInv, IInv', Grows, WakeInv, NEW r \in Replicas, NEW m \in msgs,
         Handle2A(r, m)
  PROVE  WakeInv'
<1>1. /\ msgs \subseteq Message
      /\ slotCmd \in [Replicas -> [Slots -> Commands \cup {None}]]
  BY DEF IInv, TypeOK
<1>2. /\ m.type = "2A" /\ m.dst = r
      /\ UNCHANGED <<proposes, lastCmdSlot, crashed>>
      /\ msgs' = (msgs \ {m}) \cup TwoBs(r, m.slot)
      /\ slotCmd' = [slotCmd EXCEPT ![r][m.slot] = m.cmd]
      /\ Vote(r, m.slot, r)
  BY DEF Handle2A, Accept
<1>3. m.slot \in Slots /\ m.cmd \in Commands
  BY <1>1, <1>2 DEF Message
<1>4. \A q \in Replicas, j \in Slots :
        slotCmd'[q][j] = IF q = r /\ j = m.slot THEN m.cmd ELSE slotCmd[q][j]
  BY <1>1, <1>2, <1>3
<1>5. OnlyFor(r, m.slot)
  BY <1>2, <1>4 DEF OnlyFor
<1>6. VotesCommit' /\ Lasts /\ r \in twoBs'[r][m.slot] /\ (Woken => Woken')
  BY <1>2, <1>3, <1>5, VoteWakes DEF WakeInv
<1>7. LeaderTakes'
  <2> SUFFICES ASSUME NEW d \in proposes[Leader]
               PROVE  \E j \in Slots : slotCmd'[Leader][j] = d
    BY <1>2 DEF LeaderTakes
  <2>1. PICK j \in Slots : slotCmd[Leader][j] = d
    BY DEF WakeInv, LeaderTakes
  <2>2. d # None
    BY DEF IInv, TypeOK
  <2> QED
    BY <2>1, <2>2 DEF Grows
<1>8. ASSUME NEW q \in Running' \ {r}
      PROVE  \E n \in msgs' :
               n.type = "2B" /\ n.src = r /\ n.dst = q /\ n.slot = m.slot
  <2>1. q \in Peers(r)
    BY <1>2 DEF Peers, Running
  <2>2. [type |-> "2B", src |-> r, dst |-> q, slot |-> m.slot] \in TwoBs(r, m.slot)
    BY <2>1 DEF TwoBs
  <2> QED
    BY <1>2, <2>2
<1>9. \A n \in msgs \ msgs' : n = m
  BY <1>2
<1>10. slotCmd'[r][m.slot] # None
  BY <1>3, <1>4
<1>11. ASSUME Leader \notin crashed'
       PROVE  SlotsAnnounced' /\ VotesAnnounced' /\ Woken'
  <2>1. SlotsAnnounced /\ VotesAnnounced /\ Woken
    BY <1>2, <1>11 DEF WakeInv
  <2>2. \A q \in Replicas, j \in Slots :
          slotCmd[q][j] = None /\ slotCmd'[q][j] # None => q = r /\ j = m.slot
    BY <1>4
  <2>3. SlotsAnnounced'
    <3>1. \A j \in Slots : slotCmd'[Leader][j] # None => slotCmd[Leader][j] # None
      BY <1>1, <1>2, <1>3, <1>4 DEF IInv, MsgsBacked
    <3> QED
      BY <1>2, <1>6, <1>9, <1>10, <2>1, <3>1, SlotsAnnouncedKept
  <2>4. VotesAnnounced'
    BY <1>2, <1>6, <1>8, <1>9, <2>1, <2>2, VotesAnnouncedKept
  <2> QED
    BY <1>6, <2>1, <2>3, <2>4
<1> QED
  BY <1>6, <1>7, <1>11 DEF WakeInv

\* A replica counts a 2B.
LEMMA Handle2BWakes ==
  ASSUME IInv, IInv', Grows, WakeInv, NEW r \in Replicas, NEW m \in msgs,
         Handle2B(r, m)
  PROVE  WakeInv'
<1>1. msgs \subseteq Message
  BY DEF IInv, TypeOK
<1>2. /\ m.type = "2B" /\ m.dst = r
      /\ UNCHANGED <<proposes, lastCmdSlot, slotCmd, crashed>>
      /\ msgs' = msgs \ {m}
      /\ Vote(r, m.slot, m.src)
  BY DEF Handle2B
<1>3. m.slot \in Slots /\ m.src \in Replicas
  BY <1>1, <1>2 DEF Message
<1>4. OnlyFor(r, m.slot)
  BY <1>2 DEF OnlyFor
<1>5. VotesCommit' /\ Lasts /\ m.src \in twoBs'[r][m.slot] /\ (Woken => Woken')
  BY <1>2, <1>3, <1>4, VoteWakes DEF WakeInv
<1>6. LeaderTakes'
  BY <1>2 DEF WakeInv, LeaderTakes
<1>7. ASSUME Leader \notin crashed'
      PROVE  SlotsAnnounced' /\ VotesAnnounced' /\ Woken'
  <2>1. SlotsAnnounced /\ VotesAnnounced /\ Woken
    BY <1>2, <1>7 DEF WakeInv
  <2>2. \A n \in msgs \ msgs' : n = m
    BY <1>2
  <2>3. SlotsAnnounced'
    BY <1>2, <1>5, <2>1, <2>2, SlotsAnnouncedKept
  <2>4. VotesAnnounced'
    BY <1>2, <1>5, <2>1, <2>2, VotesAnnouncedKept
  <2> QED
    BY <1>5, <2>1, <2>3, <2>4
<1> QED
  BY <1>5, <1>6, <1>7 DEF WakeInv

\* A step that takes no slot and counts no vote keeps the invariant if it
\* wakes up what it should and takes messages of stopped replicas only.
LEMMA QuietWakes ==
  ASSUME WakeInv, Grows, UNCHANGED <<slotCmd, twoBs, committed>>,
         proposes'[Leader] = proposes[Leader],
         crashed \subseteq crashed',
         \A m \in msgs \ msgs' : m.src \in crashed' \/ m.dst \in crashed',
         Leader \notin crashed' /\ Woken => Woken'
  PROVE  WakeInv'
<1>1. Lasts
  BY DEF Lasts
<1>2. VotesCommit' /\ LeaderTakes'
  BY DEF WakeInv, VotesCommit, LeaderTakes, Majority
<1>3. ASSUME Leader \notin crashed'
      PROVE  SlotsAnnounced' /\ VotesAnnounced' /\ Woken'
  <2>1. SlotsAnnounced /\ VotesAnnounced /\ Woken
    BY <1>3 DEF WakeInv
  <2>2. SlotsAnnounced'
    BY <1>1, <1>3, <2>1, SlotsAnnouncedKept DEF Running
  <2>3. VotesAnnounced'
    BY <1>1, <2>1, VotesAnnouncedKept DEF Running
  <2> QED
    BY <1>3, <2>1, <2>2, <2>3
<1> QED
  BY <1>2, <1>3 DEF WakeInv

\* A replica stores a proposal, and executes its slot if it knows it.
LEMMA ProposeWakes ==
  ASSUME IInv, IInv', Grows, WakeInv, NEW r \in Replicas, NEW c \in Commands,
         Propose(r, c)
  PROVE  WakeInv'
<1>1. /\ proposes \in [Replicas -> SUBSET Commands]
      /\ proposes' \in [Replicas -> SUBSET Commands]
      /\ committed \in [Replicas -> SUBSET Slots]
      /\ LeaderDistinct /\ SlotsCopied
  BY DEF IInv, TypeOK
<1>2. /\ r # Leader
      /\ proposes' = [proposes EXCEPT ![r] = @ \cup {c}]
      /\ UNCHANGED <<lastCmdSlot, slotCmd, twoBs, committed, msgs, crashed>>
  BY DEF Propose
<1>3. \A q \in Replicas :
        proposes'[q] = IF q = r THEN proposes[q] \cup {c} ELSE proposes[q]
  BY <1>1, <1>2
<1>4. ASSUME Woken PROVE Woken'
  <2>1. CASE \E k \in Slots : slotCmd[r][k] = c /\ Deliver(r, k, {})
    <3>1. PICK k \in Slots : slotCmd[r][k] = c /\ Deliver(r, k, {})
      BY <2>1
    <3>2. OnlyFor(r, k)
      <4> SUFFICES ASSUME NEW q \in Replicas, NEW j \in Slots,
                          slotCmd'[q][j] \in proposes'[q],
                          slotCmd[q][j] \notin proposes[q]
                   PROVE  q = r /\ j = k
        BY DEF OnlyFor
      <4>1. q = r /\ slotCmd[r][j] = c
        BY <1>2, <1>3
      <4>2. slotCmd[Leader][j] = c /\ slotCmd[Leader][k] = c
        BY <1>1, <3>1, <4>1 DEF SlotsCopied
      <4> QED
        BY <1>1, <4>1, <4>2 DEF LeaderDistinct
    <3>3. \A q \in Replicas : \A j \in committed'[q] : j \in committed[q]
      BY <1>2
    <3>4. {} \in SUBSET {k}
      OBVIOUS
    <3> QED
      BY <1>2, <1>4, <3>1, <3>2, <3>3, <3>4, DeliverWakes
  <2>2. CASE /\ \A k \in Slots : slotCmd[r][k] # c
             /\ UNCHANGED <<delivered, executed, deliverChan>>
    <3>1. \A q \in Replicas, j \in Slots :
            slotCmd'[q][j] \in proposes'[q] => slotCmd[q][j] \in proposes[q]
      BY <1>2, <1>3, <2>2
    <3> QED
      BY <1>2, <1>4, <2>2, <3>1, WokenStays
  <2> QED
    BY <2>1, <2>2 DEF Propose
<1>5. proposes'[Leader] = proposes[Leader]
  BY <1>2, <1>3
<1> QED
  BY <1>2, <1>4, <1>5, QuietWakes

\* The event loop takes a slot from deliverChan.
LEMMA DeliverNextWakes ==
  ASSUME IInv, IInv', Grows, WakeInv, NEW r \in Replicas, NEW k \in Slots,
         DeliverNext(r, k)
  PROVE  WakeInv'
<1>1. /\ UNCHANGED <<proposes, lastCmdSlot, slotCmd, twoBs, committed, msgs,
                     crashed>>
      /\ Deliver(r, k, {k})
  BY DEF DeliverNext
<1>2. ASSUME Woken PROVE Woken'
  <2>1. OnlyFor(r, k) /\ {k} \in SUBSET {k}
    BY <1>1 DEF OnlyFor
  <2>2. \A q \in Replicas : \A j \in committed'[q] : j \in committed[q]
    BY <1>1
  <2> QED
    BY <1>1, <1>2, <2>1, <2>2, DeliverWakes
<1> QED
  BY <1>1, <1>2, QuietWakes

\* A replica stops: what is lost was sent by it or to it.
LEMMA CrashWakes ==
  ASSUME IInv, Grows, WakeInv, NEW r \in Replicas, Crash(r)
  PROVE  WakeInv'
<1>1. /\ crashed' = crashed \cup {r}
      /\ msgs' = {m \in msgs : m.src # r /\ m.dst # r}
      /\ UNCHANGED <<proposes, lastCmdSlot, slotCmd, twoBs, committed,
                     delivered, executed, deliverChan>>
  BY DEF Crash
<1>2. Woken => Woken'
  BY <1>1, WokenStays
<1>3. \A m \in msgs \ msgs' : m.src \in crashed' \/ m.dst \in crashed'
  BY <1>1
<1> QED
  BY <1>1, <1>2, <1>3, QuietWakes

\* The invariant of the wake-ups holds in every state.
THEOREM NoWakeUpLost == Spec => []FullInv
<1>1. Init => FullInv
  BY InitIInv, InitWakeInv DEF FullInv
<1>2. ASSUME FullInv, [Next]_vars
      PROVE  FullInv'
  <2>1. IInv /\ WakeInv /\ IInv'
    BY <1>2, NextKeeps DEF FullInv
  <2>2. Grows
    BY <1>2, <2>1, RecordsStay
  <2>3. CASE Next
    BY <2>1, <2>2, <2>3, LeaderProposeWakes, ProposeWakes, Handle2AWakes,
       Handle2BWakes, DeliverNextWakes, CrashWakes DEF Next, FullInv
  <2>4. CASE UNCHANGED vars
    <3>1. Woken => Woken'
      BY <2>1, <2>4, WokenStays DEF vars
    <3> QED
      BY <2>1, <2>2, <2>4, <3>1, QuietWakes DEF vars, FullInv
  <2> QED
    BY <1>2, <2>3, <2>4
<1> QED
  BY <1>1, <1>2, PTL DEF Spec

----------------------------------------------------------------------------
\* There are as many commands as the leader has slots, once all are proposed.
LEMMA SlotsCountCommands ==
  ASSUME FullInv, proposes[Leader] = Commands
  PROVE  Cardinality(Commands) = lastCmdSlot
<1>1. /\ lastCmdSlot \in Nat /\ lastCmdSlot <= NumSlots
      /\ slotCmd \in [Replicas -> [Slots -> Commands \cup {None}]]
      /\ LeaderFills /\ LeaderDistinct /\ LeaderTakes
  BY DEF FullInv, IInv, TypeOK, WakeInv
<1> DEFINE dom == 1 .. lastCmdSlot
           f == [i \in dom |-> slotCmd[Leader][i - 1]]
<1>2. \A i \in dom : i - 1 \in Slots /\ i - 1 < lastCmdSlot
  BY <1>1 DEF Slots
<1>3. \A i \in dom : slotCmd[Leader][i - 1] \in Commands
  BY <1>1, <1>2 DEF LeaderFills
<1>4. f \in [dom -> Commands]
  BY <1>3
<1>5. \A i, j \in dom : f[i] = f[j] => i = j
  BY <1>1, <1>2, <1>3 DEF LeaderDistinct
<1>6. \A c \in Commands : \E i \in dom : f[i] = c
  <2> SUFFICES ASSUME NEW c \in Commands
               PROVE  \E i \in dom : f[i] = c
    OBVIOUS
  <2>1. PICK k \in Slots : slotCmd[Leader][k] = c
    BY <1>1 DEF LeaderTakes
  <2>2. k < lastCmdSlot
    BY <1>1, <2>1 DEF LeaderFills
  <2>3. k + 1 \in dom /\ (k + 1) - 1 = k
    BY <1>1, <2>2 DEF Slots
  <2> QED
    BY <2>1, <2>3
<1> HIDE DEF dom, f
<1>7. f \in Bijection(dom, Commands)
  BY <1>4, <1>5, <1>6 DEF Bijection, Injection, Surjection, IsInjective
<1>8. IsFiniteSet(dom) /\ Cardinality(dom) = lastCmdSlot
  BY <1>1, FS_Interval DEF dom
<1> QED
  BY <1>7, <1>8, FS_Bijection DEF ExistsBijection

\* When no handler of run() and of the descriptors has anything left to do,
\* the leader and a majority of the replicas running, every running replica
\* has executed every command: none of the five calls of deliver() comes too
\* early for a slot without a later one that is not, whatever has crashed.
THEOREM NothingLeftHolds == Spec => []NothingLeft
<1>1. FullInv => NothingLeft
  <2> SUFFICES ASSUME FullInv, Quiet, Leader \notin crashed,
                      Majority(Replicas \ crashed),
                      NEW r \in Replicas \ crashed
               PROVE  Len(executed[r]) = Cardinality(Commands)
    BY DEF NothingLeft
  <2>1. /\ lastCmdSlot \in Nat /\ lastCmdSlot <= NumSlots
        /\ slotCmd \in [Replicas -> [Slots -> Commands \cup {None}]]
        /\ twoBs \in [Replicas -> [Slots -> SUBSET Replicas]]
        /\ executed \in [Replicas -> Seq(Commands)]
        /\ delivered \in [Replicas -> SUBSET Slots]
        /\ LeaderFills /\ SlotsCopied /\ ExecutedPrefix
    BY DEF FullInv, IInv, TypeOK
  <2>2. VotesCommit /\ SlotsAnnounced /\ VotesAnnounced /\ Woken
    BY DEF FullInv, WakeInv
  <2>3. /\ \A m \in msgs : m.type = "2B" /\ m.slot \in delivered[m.dst]
        /\ \A q \in Running : /\ proposes[q] = Commands
                              /\ deliverChan[q] \cap Slots \subseteq delivered[q]
        /\ r \in Running /\ Leader \in Running /\ r \in Replicas
    BY DEF Quiet, Running
  <2>4. Cardinality(Commands) = lastCmdSlot
    BY <2>3, SlotsCountCommands
  <2>5. \A q \in Running, k \in Slots : k < lastCmdSlot => slotCmd[q][k] # None
    BY <2>1, <2>2, <2>3 DEF SlotsAnnounced, LeaderFills
  <2> DEFINE n == Len(executed[r])
  <2>6. n \in Nat /\ delivered[r] = 0 .. n - 1
    BY <2>1, <2>3 DEF ExecutedPrefix
  <2>7. ~ (n < lastCmdSlot)
    <3> SUFFICES ASSUME n < lastCmdSlot PROVE FALSE
      OBVIOUS
    <3>1. n \in Slots /\ n \notin delivered[r]
      BY <2>1, <2>6 DEF Slots
    <3> HIDE DEF n
    <3>2. \A s \in Running : s \in twoBs[r][n]
      BY <2>2, <2>3, <2>5, <3>1 DEF VotesAnnounced
    <3>3. Majority(twoBs[r][n])
      BY <2>1, <2>3, <3>1, <3>2, MajorityGrows DEF Running
    <3>4. n \in committed[r]
      BY <2>2, <2>3, <3>1, <3>3 DEF VotesCommit
    <3>5. slotCmd[r][n] \in proposes[r]
      BY <2>1, <2>3, <2>5, <3>1
    <3>6. n > 0 => n - 1 \in delivered[r]
      BY <2>6
    <3>7. n \in deliverChan[r]
      BY <2>2, <2>3, <3>1, <3>4, <3>5, <3>6 DEF Woken
    <3> QED
      BY <2>3, <3>1, <3>7
  <2>8. ~ (n > lastCmdSlot)
    <3> SUFFICES ASSUME n > lastCmdSlot PROVE FALSE
      OBVIOUS
    <3>1. lastCmdSlot \in delivered[r]
      BY <2>1, <2>6
    <3>2. slotCmd[Leader][lastCmdSlot] # None /\ lastCmdSlot \in Slots
      BY <2>1, <2>3, <3>1 DEF ExecutedPrefix, SlotsCopied
    <3> QED
      BY <2>1, <3>2 DEF LeaderFills
  <2> QED
    BY <2>1, <2>4, <2>6, <2>7, <2>8
<1> QED
  BY <1>1, NoWakeUpLost, PTL

============================================================================
