----------------------------- MODULE CurpProofs -----------------------------
(***************************************************************************)
(* Proofs about Curp, for every group of two or more replicas, every       *)
(* finite set of commands and every assignment of keys: IInv is inductive, *)
(* the safety properties follow from it, and Curp implements the           *)
(* replicated log; WakeInv is inductive given IInv, and NothingLeft        *)
(* follows from it.                                                        *)
(***************************************************************************)
EXTENDS Curp, FiniteSetTheorems, TLAPS

USE ReplicasAssumption, CommandsAssumption

\* Commands that are recorded for a slot stay recorded.
Grows ==
  /\ slotCmd' \in [Replicas -> [Slots -> Commands \cup {None}]]
  /\ \A q \in Replicas, j \in Slots :
       slotCmd[q][j] # None => slotCmd'[q][j] = slotCmd[q][j]

\* The part of the invariant about acknowledgements and commits.
VoteInv ==
  /\ acks \in [Replicas -> [Slots -> SUBSET Replicas]]
  /\ committed \in [Replicas -> SUBSET Slots]
  /\ AcksBacked
  /\ CommitsBacked

\* The part of the invariant that deliver() can disturb.
ExecInv ==
  /\ unsynced \in [Followers -> [Keys -> 0 .. Cardinality(Commands)]]
  /\ executed \in [Replicas -> Seq(Commands)]
  /\ deliverChan \in [Replicas -> SUBSET (Slots \cup {Cardinality(Slots)})]
  /\ okReplies \in [Replicas -> SUBSET Commands]
  /\ ExecutedPrefix
  /\ AnswersKnown
  /\ CountsKeepUp
  /\ WitnessExclusive

\* What was accepted or committed stays so.
Lasts ==
  /\ \A q \in Replicas, j \in Slots : HasAccepted(q, j) => HasAccepted(q, j)'
  /\ \A q \in Replicas : committed[q] \subseteq committed'[q]

----------------------------------------------------------------------------
\* There are as many slots as commands, and finitely many of both.
LEMMA Sizes ==
  /\ Cardinality(Replicas) \in Nat
  /\ Cardinality(Commands) \in Nat
  /\ Cardinality(Slots) = Cardinality(Commands)
  /\ \A k \in Slots : k \in Nat /\ k < Cardinality(Commands)
<1>1. Cardinality(Replicas) \in Nat /\ Cardinality(Commands) \in Nat
  BY FS_CardinalityType
<1>2. Cardinality(Slots) = Cardinality(Commands)
  BY <1>1, FS_Interval DEF Slots
<1> QED
  BY <1>1, <1>2 DEF Slots

\* A group that contains a majority is one.
LEMMA MajorityGrows ==
  ASSUME NEW S \in SUBSET Replicas, NEW T \in SUBSET S, Majority(T)
  PROVE  Majority(S)
<1>1. IsFiniteSet(S) /\ IsFiniteSet(T)
  BY FS_Subset
<1>2. Cardinality(T) <= Cardinality(S)
  BY <1>1, FS_Subset
<1>3. Cardinality(T) \in Nat /\ Cardinality(S) \in Nat
  BY <1>1, FS_CardinalityType
<1> QED
  BY <1>2, <1>3, Sizes DEF Majority

\* The majority of NewMajorityOf is more than half of the group.
LEMMA MajorityIsHalf ==
  ASSUME NEW S \in SUBSET Replicas, Majority(S)
  PROVE  MoreThanHalf(S)
<1>1. Cardinality(S) \in Nat
  BY FS_Subset, FS_CardinalityType
<1> QED
  BY <1>1, Sizes DEF Majority, MoreThanHalf

\* A bounded set of numbers that is not empty has a greatest element.
LEMMA HasGreatest ==
  ASSUME NEW n \in Nat, NEW S \in SUBSET (0 .. n), S # {}
  PROVE  \E k \in S : \A j \in S : j <= k
<1> DEFINE Above(k) == {j \in S : k <= j}
           T == {Above(k) : k \in S}
<1>1. IsFiniteSet(S)
  <2>1. IsFiniteSet(0 .. n)
    BY FS_Interval
  <2> QED
    BY <2>1, FS_Subset
<1>2. T \subseteq FiniteSubsetsOf(S) /\ T # {}
  <2>1. \A k \in S : IsFiniteSet(Above(k)) /\ Above(k) \in SUBSET S
    BY <1>1, FS_Subset
  <2> QED
    BY <2>1 DEF FiniteSubsetsOf
<1>3. PICK x \in T : \A y \in T : <<y, x>> \notin StrictSubsetOrdering(S)
  BY <1>2, FS_StrictSubsetOrderingWellFounded, WFMin
<1>4. PICK k \in S : x = Above(k)
  OBVIOUS
<1>5. ASSUME NEW j \in S, ~ (j <= k)
      PROVE  FALSE
  <2>1. j \in Int /\ k \in Int /\ \A i \in S : i \in Int
    OBVIOUS
  <2>2. \A i \in S : j <= i => k <= i
    BY <1>5, <2>1
  <2>3. Above(j) \subseteq Above(k)
    BY <2>2
  <2>4. k \in Above(k) /\ k \notin Above(j)
    BY <1>5, <2>1
  <2>5. <<Above(j), x>> \in StrictSubsetOrdering(S)
    BY <1>4, <2>3, <2>4 DEF StrictSubsetOrdering
  <2> QED
    BY <1>3, <2>5
<1> QED
  BY <1>5

----------------------------------------------------------------------------
\* Init is a state of the invariant.
LEMMA InitIInv == Init => IInv
<1> SUFFICES ASSUME Init PROVE IInv
  OBVIOUS
<1>1. TypeOK
  <2>1. 0 \in 0 .. Cardinality(Commands)
    BY Sizes
  <2>2. unsynced \in [Followers -> [Keys -> 0 .. Cardinality(Commands)]]
    BY <2>1 DEF Init
  <2>3. /\ proposing \in [Followers -> Commands \cup {None}]
        /\ answered \in [Followers -> BOOLEAN]
    BY DEF Init
  <2>4. /\ proposes \in [Replicas -> SUBSET Commands]
        /\ slotCmd \in [Replicas -> [Slots -> Commands \cup {None}]]
        /\ dep \in [Slots -> Slots \cup {-1}]
        /\ early \in BOOLEAN
    BY DEF Init
  <2>5. /\ acks \in [Replicas -> [Slots -> SUBSET Replicas]]
        /\ committed \in [Replicas -> SUBSET Slots]
        /\ executed \in [Replicas -> Seq(Commands)]
    BY DEF Init
  <2>6. /\ deliverChan \in [Replicas -> SUBSET (Slots \cup {Cardinality(Slots)})]
        /\ okReplies \in [Replicas -> SUBSET Commands]
    BY DEF Init
  <2> QED
    BY <2>2, <2>3, <2>4, <2>5, <2>6 DEF TypeOK
<1>2. LeaderFills
  <2>1. 0 \in 0 .. Cardinality(Commands)
    BY Sizes
  <2>2. \A k \in Slots : slotCmd[Leader][k] # None <=> k < 0
    BY Sizes DEF Init
  <2> QED
    BY <2>1, <2>2 DEF LeaderFills
<1>3. LeaderDistinct /\ SlotsCopied /\ AcksBacked /\ CommitsBacked
  BY DEF Init, LeaderDistinct, SlotsCopied, AcksBacked, CommitsBacked
<1>4. ExecutedPrefix /\ AnswersKnown /\ WitnessExclusive
  BY DEF Init, ExecutedPrefix, AnswersKnown, WitnessExclusive, Followers
<1>5. CountsKeepUp
  <2> SUFFICES ASSUME NEW r \in Followers, NEW key \in Keys
               PROVE  /\ Cardinality(Pending(r, key)) <=
                           unsynced[r][key] + InHand(r, key)
                      /\ unsynced[r][key] <= Cardinality(CountedIn(r, key))
    BY DEF CountsKeepUp
  <2>1. unsynced[r][key] = 0 /\ proposing[r] = None /\ proposes[r] = {}
    BY DEF Init, Followers
  <2>2. Pending(r, key) = {} /\ CountedIn(r, key) = {} /\ InHand(r, key) = 0
    BY <2>1 DEF Pending, CountedIn, InHand
  <2> QED
    BY <2>1, <2>2, FS_EmptySet
<1> QED
  BY <1>1, <1>2, <1>3, <1>4, <1>5 DEF IInv

----------------------------------------------------------------------------
\* A new set of acknowledgements for slot k of r names replicas that have
\* accepted the slot, and keeps what r had of its own.
LEMMA AcksKeep ==
  ASSUME IInv, Grows, NEW r \in Replicas, NEW k \in Slots,
         NEW votes \in SUBSET Replicas,
         acks' = [acks EXCEPT ![r][k] = votes],
         r \in acks[r][k] => r \in votes,
         \A s \in votes : s # r => HasAccepted(s, k),
         r \in votes => slotCmd'[r][k] # None
  PROVE  /\ acks' \in [Replicas -> [Slots -> SUBSET Replicas]]
         /\ \A q \in Replicas, j \in Slots : HasAccepted(q, j) => HasAccepted(q, j)'
         /\ AcksBacked'
<1>1. acks \in [Replicas -> [Slots -> SUBSET Replicas]]
  BY DEF IInv, TypeOK
<1>2. acks' \in [Replicas -> [Slots -> SUBSET Replicas]]
  BY <1>1
<1>3. \A q \in Replicas, j \in Slots :
        acks'[q][j] = IF q = r /\ j = k THEN votes ELSE acks[q][j]
  BY <1>1
<1>4. \A q \in Replicas, j \in Slots : HasAccepted(q, j) => HasAccepted(q, j)'
  BY <1>3 DEF HasAccepted, Grows
<1>5. AcksBacked'
  <2> SUFFICES ASSUME NEW q \in Replicas, NEW j \in Slots, NEW s \in acks'[q][j]
               PROVE  HasAccepted(s, j)'
    BY DEF AcksBacked
  <2>1. CASE q = r /\ j = k
    <3>1. s \in votes
      BY <1>3, <2>1
    <3>2. CASE s = r
      BY <1>3, <2>1, <3>1, <3>2 DEF HasAccepted
    <3>3. CASE s # r
      BY <1>4, <2>1, <3>1, <3>3
    <3> QED
      BY <3>2, <3>3
  <2>2. CASE ~ (q = r /\ j = k)
    <3>1. s \in acks[q][j] /\ s \in Replicas
      BY <1>1, <1>3, <2>2
    <3> QED
      BY <1>4, <3>1 DEF IInv, AcksBacked
  <2> QED
    BY <2>1, <2>2
<1> QED
  BY <1>2, <1>4, <1>5

\* A handler that accepts slot k keeps votes and commits backed.
LEMMA RunKeepsVotes ==
  ASSUME IInv, Grows, NEW r \in Replicas, NEW k \in Slots,
         NEW votes \in SUBSET Replicas, NEW chan,
         \A s \in votes : s # r => HasAccepted(s, k),
         slotCmd'[r][k] # None,
         Run(r, k, votes, chan)
  PROVE  VoteInv' /\ Lasts /\ HasAccepted(r, k)'
<1> DEFINE commits == Majority(votes \cup {r}) /\ k \notin committed[r]
           done == commits \/ k \in committed[r]
           kept == IF done THEN {r} ELSE votes \cup {r}
<1>1. /\ acks' = [acks EXCEPT ![r][k] = kept]
      /\ committed' = IF commits THEN [committed EXCEPT ![r] = @ \cup {k}]
                      ELSE committed
  BY DEF Run
<1>2. kept \in SUBSET Replicas /\ r \in kept /\ kept \subseteq votes \cup {r}
  OBVIOUS
<1> HIDE DEF kept
<1>3. /\ acks' \in [Replicas -> [Slots -> SUBSET Replicas]]
      /\ \A q \in Replicas, j \in Slots : HasAccepted(q, j) => HasAccepted(q, j)'
      /\ AcksBacked'
  BY <1>1, <1>2, AcksKeep
<1>4. HasAccepted(r, k)'
  BY <1>1, <1>2 DEF HasAccepted, IInv, TypeOK
<1>5. committed \in [Replicas -> SUBSET Slots] /\ CommitsBacked
  BY DEF IInv, TypeOK
<1>6. /\ committed' \in [Replicas -> SUBSET Slots]
      /\ \A q \in Replicas : committed[q] \subseteq committed'[q]
      /\ \A q \in Replicas : \A j \in committed'[q] \ committed[q] :
           q = r /\ j = k /\ commits
  <2>1. CASE commits
    BY <1>1, <1>5, <2>1
  <2>2. CASE ~ commits
    BY <1>1, <1>5, <2>2
  <2> QED
    BY <2>1, <2>2
<1>7. CommitsBacked'
  <2> SUFFICES ASSUME NEW q \in Replicas, NEW j \in committed'[q]
               PROVE  \E Q \in SUBSET Replicas :
                        Majority(Q) /\ \A p \in Q : HasAccepted(p, j)'
    BY DEF CommitsBacked, Majority
  <2>1. CASE j \in committed[q]
    <3>1. PICK Q \in SUBSET Replicas :
                 Majority(Q) /\ \A p \in Q : HasAccepted(p, j)
      BY <1>5, <2>1 DEF CommitsBacked
    <3>2. j \in Slots
      BY <1>5, <2>1
    <3> QED
      BY <1>3, <3>1, <3>2
  <2>2. CASE j \notin committed[q]
    <3>1. j = k /\ Majority(votes \cup {r})
      BY <1>6, <2>2
    <3>2. \A p \in votes \cup {r} : HasAccepted(p, k)'
      BY <1>3, <1>4
    <3> QED
      BY <3>1, <3>2
  <2> QED
    BY <2>1, <2>2
<1> QED
  BY <1>3, <1>4, <1>6, <1>7 DEF VoteInv, Lasts

\* A handler that has to wait does so too.
LEMMA WaitKeepsVotes ==
  ASSUME IInv, Grows, NEW r \in Replicas, NEW k \in Slots,
         NEW votes \in SUBSET Replicas, NEW chan,
         acks[r][k] \subseteq votes,
         \A s \in votes : HasAccepted(s, k),
         Wait(r, k, votes, chan)
  PROVE  VoteInv' /\ Lasts
<1>1. acks' = [acks EXCEPT ![r][k] = votes] /\ UNCHANGED committed
  BY DEF Wait
<1>2. r \in votes => slotCmd'[r][k] # None
  BY DEF HasAccepted, Grows
<1>3. /\ acks' \in [Replicas -> [Slots -> SUBSET Replicas]]
      /\ \A q \in Replicas, j \in Slots : HasAccepted(q, j) => HasAccepted(q, j)'
      /\ AcksBacked'
  BY <1>1, <1>2, AcksKeep
<1>4. committed \in [Replicas -> SUBSET Slots] /\ CommitsBacked
  BY DEF IInv, TypeOK
<1>5. CommitsBacked'
  BY <1>1, <1>3, <1>4 DEF CommitsBacked, Majority
<1> QED
  BY <1>1, <1>3, <1>4, <1>5 DEF VoteInv, Lasts

----------------------------------------------------------------------------
\* Slot k, of command c, is the next to execute, and r executes it.
Executes(r, k, c) ==
  /\ k = Len(executed[r])
  /\ executed' = [executed EXCEPT ![r] = Append(@, c)]
  /\ Sync(r, c)
  /\ r # Leader => k \in committed'[r]

\* Only the leader may answer from deliver().
Answers(r, c) ==
  \/ UNCHANGED okReplies
  \/ r = Leader /\ okReplies' = [okReplies EXCEPT ![r] = @ \cup {c}]

\* A follower executes a slot once, after its commit; the leader may come to
\* a slot again after its commit, and then has nothing to execute.
LEMMA DeliverCases ==
  ASSUME IInv, NEW r \in Replicas, NEW k \in Slots,
         NEW chan \in SUBSET (Slots \cup {Cardinality(Slots)}),
         committed[r] \subseteq committed'[r],
         Deliver(r, k, chan)
  PROVE  /\ Answers(r, slotCmd'[r][k])
         /\ Executes(r, k, slotCmd'[r][k]) \/ UNCHANGED <<executed, unsynced>>
         /\ deliverChan' \in [Replicas -> SUBSET (Slots \cup {Cardinality(Slots)})]
<1> DEFINE c == slotCmd'[r][k]
           isNew == ~IsExecuted(r, k)
<1>1. /\ deliverChan \in [Replicas -> SUBSET (Slots \cup {Cardinality(Slots)})]
      /\ executed \in [Replicas -> Seq(Commands)]
      /\ unsynced \in [Followers -> [Keys -> 0 .. Cardinality(Commands)]]
  BY DEF IInv, TypeOK
<1>2. k + 1 \in Slots \cup {Cardinality(Slots)}
  BY Sizes DEF Slots
<1>3. CASE Deliverable(r, k)
  <2>1. /\ Sync(r, c)
        /\ executed' = IF isNew THEN [executed EXCEPT ![r] = Append(@, c)]
                       ELSE executed
        /\ deliverChan' = [deliverChan EXCEPT ![r] =
                             chan \cup (IF isNew THEN {k + 1} ELSE {})]
        /\ okReplies' =
             IF k \notin committed'[r] /\ dep'[k] \in committed[r] \cup {-1}
             THEN [okReplies EXCEPT ![r] = @ \cup {c}] ELSE okReplies
    BY <1>3 DEF Deliver
  <2>2. /\ ~IsDelivered(r, k)
        /\ k \in committed'[r] \/ r = Leader
        /\ k <= Len(executed[r])
    BY <1>3 DEF Deliverable
  <2>3. Answers(r, c)
    BY <2>1, <2>2 DEF Answers
  <2>4. deliverChan' \in [Replicas -> SUBSET (Slots \cup {Cardinality(Slots)})]
    BY <1>1, <1>2, <2>1
  <2>5. CASE isNew
    <3>1. k = Len(executed[r])
      BY <1>1, <2>2, <2>5 DEF IsExecuted, Slots
    <3> QED
      BY <2>1, <2>2, <2>3, <2>4, <2>5, <3>1 DEF Executes
  <2>6. CASE ~isNew
    <3>1. k + 1 \in 1 .. Len(executed[r]) /\ (k + 1) - 1 = k
      BY <1>1, <2>6 DEF IsExecuted, Slots
    <3>2. r # Leader => k \in committed[r]
      BY <3>1 DEF IInv, ExecutedPrefix
    <3>3. r = Leader
      BY <2>2, <2>6, <3>2 DEF IsDelivered
    <3> QED
      BY <2>1, <2>3, <2>4, <2>6, <3>3 DEF Sync
  <2> QED
    BY <2>5, <2>6
<1>4. CASE ~Deliverable(r, k)
  <2>1. /\ deliverChan' = [deliverChan EXCEPT ![r] = chan]
        /\ UNCHANGED <<unsynced, executed, okReplies>>
    BY <1>4 DEF Deliver
  <2> QED
    BY <1>1, <2>1 DEF Answers
<1> QED
  BY <1>3, <1>4

\* Appending c to the log of r.
LEMMA Appended ==
  ASSUME NEW e \in [Replicas -> Seq(Commands)], NEW r \in Replicas,
         NEW c \in Commands, NEW n, n = [e EXCEPT ![r] = Append(@, c)]
  PROVE  /\ n \in [Replicas -> Seq(Commands)]
         /\ \A q \in Replicas :
              Len(n[q]) = IF q = r THEN Len(e[q]) + 1 ELSE Len(e[q])
         /\ \A q \in Replicas : \A i \in 1 .. Len(e[q]) : n[q][i] = e[q][i]
         /\ n[r][Len(e[r]) + 1] = c
<1>1. n \in [Replicas -> Seq(Commands)]
  OBVIOUS
<1>2. n[r] = Append(e[r], c) /\ \A q \in Replicas : q # r => n[q] = e[q]
  OBVIOUS
<1>3. e[r] \in Seq(Commands)
  OBVIOUS
<1>4. /\ Len(n[r]) = Len(e[r]) + 1
      /\ n[r][Len(e[r]) + 1] = c
      /\ \A i \in 1 .. Len(e[r]) : n[r][i] = e[r][i]
  BY <1>2, <1>3
<1> QED
  BY <1>1, <1>2, <1>4

\* What a call of deliver() leaves executed is a prefix of the slots.
LEMMA PrefixKept ==
  ASSUME IInv, Grows, Lasts, NEW r \in Replicas, NEW k \in Slots,
         HasAccepted(r, k)',
         \/ Executes(r, k, slotCmd'[r][k])
         \/ UNCHANGED executed
  PROVE  executed' \in [Replicas -> Seq(Commands)] /\ ExecutedPrefix'
<1>1. executed \in [Replicas -> Seq(Commands)] /\ ExecutedPrefix
  BY DEF IInv, TypeOK
<1>2. slotCmd'[r][k] \in Commands
  BY DEF HasAccepted, Grows
<1>3. executed' \in [Replicas -> Seq(Commands)]
  <2>1. CASE UNCHANGED executed
    BY <1>1, <2>1
  <2>2. CASE Executes(r, k, slotCmd'[r][k])
    <3>1. executed' = [executed EXCEPT ![r] = Append(@, slotCmd'[r][k])]
      BY <2>2 DEF Executes
    <3> QED
      BY <1>1, <1>2, <3>1, Appended
  <2> QED
    BY <2>1, <2>2
<1>4. ASSUME NEW q \in Replicas, NEW i \in 1 .. Len(executed[q])
      PROVE  /\ i - 1 \in Slots
             /\ executed[q][i] = slotCmd'[q][i - 1]
             /\ HasAccepted(q, i - 1)'
             /\ q # Leader => i - 1 \in committed'[q]
  <2>1. /\ i - 1 \in Slots
        /\ executed[q][i] = slotCmd[q][i - 1]
        /\ HasAccepted(q, i - 1)
        /\ q # Leader => i - 1 \in committed[q]
    BY <1>1 DEF ExecutedPrefix
  <2> QED
    BY <2>1 DEF Grows, Lasts, HasAccepted
<1>5. CASE UNCHANGED executed
  <2>1. ExecutedPrefix'
    BY <1>4, <1>5 DEF ExecutedPrefix
  <2> QED
    BY <1>3, <2>1
<1>6. CASE Executes(r, k, slotCmd'[r][k])
  <2> SUFFICES ASSUME NEW q \in Replicas, NEW i \in 1 .. Len(executed'[q])
               PROVE  /\ i - 1 \in Slots
                      /\ executed'[q][i] = slotCmd'[q][i - 1]
                      /\ HasAccepted(q, i - 1)'
                      /\ q # Leader => i - 1 \in committed'[q]
    BY <1>3 DEF ExecutedPrefix
  <2>1. /\ k = Len(executed[r])
        /\ executed' = [executed EXCEPT ![r] = Append(@, slotCmd'[r][k])]
        /\ r # Leader => k \in committed'[r]
    BY <1>6 DEF Executes
  <2>0. /\ \A p \in Replicas :
             Len(executed'[p]) =
               IF p = r THEN Len(executed[p]) + 1 ELSE Len(executed[p])
        /\ \A p \in Replicas : \A j \in 1 .. Len(executed[p]) :
             executed'[p][j] = executed[p][j]
        /\ executed'[r][k + 1] = slotCmd'[r][k]
    BY <1>1, <1>2, <2>1, Appended
  <2>2. CASE i <= Len(executed[q])
    <3>1. i \in 1 .. Len(executed[q]) /\ executed'[q][i] = executed[q][i]
      BY <1>1, <2>0, <2>2
    <3> QED
      BY <1>4, <3>1
  <2>3. CASE ~ (i <= Len(executed[q]))
    <3>1. q = r /\ i = k + 1 /\ i - 1 = k
      BY <1>1, <2>0, <2>1, <2>3
    <3> QED
      BY <2>1, <2>0, <3>1
  <2> QED
    BY <2>2, <2>3
<1> QED
  BY <1>3, <1>5, <1>6

\* The leader answers only what it has accepted.
LEMMA AnswersKept ==
  ASSUME IInv, Grows, Lasts, NEW r \in Replicas, NEW k \in Slots,
         HasAccepted(r, k)', UNCHANGED proposing,
         \A f \in Followers : proposes'[f] = proposes[f],
         Answers(r, slotCmd'[r][k])
  PROVE  okReplies' \in [Replicas -> SUBSET Commands] /\ AnswersKnown'
<1>1. okReplies \in [Replicas -> SUBSET Commands] /\ AnswersKnown
  BY DEF IInv, TypeOK
<1>2. slotCmd'[r][k] \in Commands
  BY DEF HasAccepted, Grows
<1>3. okReplies' \in [Replicas -> SUBSET Commands]
  BY <1>1, <1>2 DEF Answers
<1>4. \A f \in Followers : okReplies'[f] = okReplies[f]
  BY <1>1 DEF Answers, Followers
<1>5. ASSUME NEW c \in okReplies'[Leader]
      PROVE  \E j \in Slots : slotCmd'[Leader][j] = c /\ HasAccepted(Leader, j)'
  <2>1. CASE c \in okReplies[Leader]
    <3>1. PICK j \in Slots : slotCmd[Leader][j] = c /\ HasAccepted(Leader, j)
      BY <1>1, <2>1 DEF AnswersKnown
    <3> QED
      BY <3>1 DEF Grows, Lasts, HasAccepted
  <2>2. CASE c \notin okReplies[Leader]
    BY <1>1, <2>2 DEF Answers
  <2> QED
    BY <2>1, <2>2
<1> QED
  BY <1>1, <1>3, <1>4, <1>5 DEF AnswersKnown

\* A witness that executes a command is rid of it.
LEMMA WitnessKept ==
  ASSUME IInv, NEW r \in Replicas, NEW k \in Slots, NEW c \in Commands,
         \A f \in Followers : okReplies'[f] = okReplies[f],
         Executes(r, k, c) \/ UNCHANGED executed
  PROVE  WitnessExclusive'
<1>1. executed \in [Replicas -> Seq(Commands)] /\ WitnessExclusive
  BY DEF IInv, TypeOK
<1>2. \A q \in Replicas : \A i \in 1 .. Len(executed[q]) :
        i \in 1 .. Len(executed'[q]) /\ executed'[q][i] = executed[q][i]
  <2>1. CASE UNCHANGED executed
    BY <1>1, <2>1
  <2>2. CASE Executes(r, k, c)
    <3>1. executed' = [executed EXCEPT ![r] = Append(@, c)]
      BY <2>2 DEF Executes
    <3>2. /\ \A q \in Replicas :
               Len(executed'[q]) =
                 IF q = r THEN Len(executed[q]) + 1 ELSE Len(executed[q])
          /\ \A q \in Replicas : \A i \in 1 .. Len(executed[q]) :
               executed'[q][i] = executed[q][i]
      BY <1>1, <3>1, Appended
    <3> QED
      BY <1>1, <3>2
  <2> QED
    BY <2>1, <2>2
<1>3. SUFFICES ASSUME NEW f \in Followers, NEW d \in okReplies[f],
                      NEW e \in okReplies[f], d # e, Key[d] = Key[e]
               PROVE  \E i \in 1 .. Len(executed'[f]) : executed'[f][i] \in {d, e}
  BY DEF WitnessExclusive
<1>4. PICK i \in 1 .. Len(executed[f]) : executed[f][i] \in {d, e}
  BY <1>1, <1>3 DEF WitnessExclusive
<1> QED
  BY <1>2, <1>4 DEF Followers

\* A command is executed once: the slots' commands are distinct.
LEMMA ExecutesNew ==
  ASSUME IInv, Grows, LeaderDistinct', SlotsCopied',
         NEW r \in Replicas, NEW k \in Slots, slotCmd'[r][k] # None,
         k = Len(executed[r])
  PROVE  \A i \in 1 .. Len(executed[r]) : executed[r][i] # slotCmd'[r][k]
<1> SUFFICES ASSUME NEW i \in 1 .. Len(executed[r]),
                    executed[r][i] = slotCmd'[r][k]
             PROVE  FALSE
  OBVIOUS
<1>1. /\ i - 1 \in Slots
      /\ executed[r][i] = slotCmd[r][i - 1]
      /\ slotCmd[r][i - 1] # None
  BY DEF IInv, ExecutedPrefix, HasAccepted
<1>2. slotCmd'[r][i - 1] = slotCmd'[r][k]
  BY <1>1 DEF Grows
<1>3. /\ slotCmd'[Leader][i - 1] = slotCmd'[Leader][k]
      /\ slotCmd'[Leader][k] # None
  BY <1>1, <1>2 DEF SlotsCopied
<1>4. i - 1 = k
  BY <1>1, <1>3 DEF LeaderDistinct
<1> QED
  BY <1>1, <1>4 DEF Slots

\* The sets that are counted are finite.
LEMMA CountsFinite ==
  ASSUME NEW f \in Followers, NEW key, proposes[f] \in SUBSET Commands
  PROVE  /\ IsFiniteSet(Pending(f, key)) /\ Cardinality(Pending(f, key)) \in Nat
         /\ IsFiniteSet(CountedIn(f, key)) /\ Cardinality(CountedIn(f, key)) \in Nat
         /\ Cardinality(CountedIn(f, key)) <= Cardinality(Commands)
<1>1. Pending(f, key) \in SUBSET Commands /\ CountedIn(f, key) \in SUBSET Commands
  BY DEF Pending, CountedIn
<1>2. IsFiniteSet(Pending(f, key)) /\ IsFiniteSet(CountedIn(f, key))
  BY <1>1, FS_Subset
<1>3. Cardinality(CountedIn(f, key)) <= Cardinality(Commands)
  BY <1>1, FS_Subset
<1> QED
  BY <1>2, <1>3, FS_CardinalityType

\* Counting out an executed command keeps the counts of its follower.
LEMMA CountsKept ==
  ASSUME IInv, Grows, LeaderDistinct', SlotsCopied',
         NEW r \in Replicas, NEW k \in Slots, slotCmd'[r][k] # None,
         slotCmd'[r][k] \in proposes'[r],
         UNCHANGED proposing,
         \A f \in Followers : proposes'[f] = proposes[f],
         \/ Executes(r, k, slotCmd'[r][k])
         \/ UNCHANGED <<executed, unsynced>>
  PROVE  /\ unsynced' \in [Followers -> [Keys -> 0 .. Cardinality(Commands)]]
         /\ CountsKeepUp'
<1> DEFINE c == slotCmd'[r][k]
<1>1. /\ unsynced \in [Followers -> [Keys -> 0 .. Cardinality(Commands)]]
      /\ executed \in [Replicas -> Seq(Commands)]
      /\ proposes \in [Replicas -> SUBSET Commands]
      /\ CountsKeepUp
  BY DEF IInv, TypeOK
<1>2. c \in Commands
  BY DEF Grows
<1>3. ASSUME NEW f \in Followers, NEW key \in Keys,
             executed'[f] = executed[f], unsynced'[f] = unsynced[f]
      PROVE  /\ Cardinality(Pending(f, key)') <= unsynced'[f][key] + InHand(f, key)'
             /\ unsynced'[f][key] <= Cardinality(CountedIn(f, key)')
  <2>1. /\ Pending(f, key)' = Pending(f, key)
        /\ CountedIn(f, key)' = CountedIn(f, key)
        /\ InHand(f, key)' = InHand(f, key)
    BY <1>3 DEF Pending, CountedIn, InHand
  <2> QED
    BY <1>1, <1>3, <2>1 DEF CountsKeepUp
<1>4. CASE UNCHANGED <<executed, unsynced>>
  BY <1>1, <1>3, <1>4 DEF CountsKeepUp
<1>5. CASE Executes(r, k, c) /\ r = Leader
  <2>1. /\ unsynced' = unsynced
        /\ \A f \in Followers : executed'[f] = executed[f]
    BY <1>1, <1>5 DEF Executes, Sync, Followers
  <2> QED
    BY <1>1, <1>3, <2>1 DEF CountsKeepUp
<1>6. CASE Executes(r, k, c) /\ r # Leader
  <2>1. /\ k = Len(executed[r])
        /\ executed' = [executed EXCEPT ![r] = Append(@, c)]
        /\ unsynced' = [unsynced EXCEPT ![r][Key[c]] = IF @ > 0 THEN @ - 1 ELSE 0]
        /\ r \in Followers /\ Key[c] \in Keys
    BY <1>2, <1>6 DEF Executes, Sync, Followers, Keys
  <2> HIDE DEF c
  <2>2. /\ unsynced' \in [Followers -> [Keys -> 0 .. Cardinality(Commands)]]
        /\ \A f \in Followers, key \in Keys :
             unsynced'[f][key] =
               IF f = r /\ key = Key[c]
               THEN IF unsynced[f][key] > 0 THEN unsynced[f][key] - 1 ELSE 0
               ELSE unsynced[f][key]
    BY <1>1, <2>1, Sizes
  <2>3. \A f \in Followers :
          f # r => executed'[f] = executed[f] /\ unsynced'[f] = unsynced[f]
    BY <1>1, <2>1 DEF Followers
  <2>4. \A i \in 1 .. Len(executed[r]) : executed[r][i] # c
    BY <2>1, ExecutesNew DEF c
  <2>5. ASSUME NEW key \in Keys
        PROVE  /\ Cardinality(Pending(r, key)') <= unsynced'[r][key] + InHand(r, key)'
               /\ unsynced'[r][key] <= Cardinality(CountedIn(r, key)')
    <3>1. /\ CountedIn(r, key)' = CountedIn(r, key)
          /\ InHand(r, key)' = InHand(r, key)
          /\ InHand(r, key) \in {0, 1}
      BY <2>1 DEF CountedIn, InHand
    <3>2. /\ Len(executed'[r]) = k + 1
          /\ executed'[r][k + 1] = c
          /\ \A i \in 1 .. k : executed'[r][i] = executed[r][i]
          /\ k \in Nat
      BY <1>1, <1>2, <2>1, Appended DEF c
    <3>3. /\ Cardinality(Pending(r, key)) <= unsynced[r][key] + InHand(r, key)
          /\ unsynced[r][key] <= Cardinality(CountedIn(r, key))
          /\ unsynced[r][key] \in Nat
      BY <1>1, <2>1, Sizes DEF CountsKeepUp
    <3>4. /\ IsFiniteSet(Pending(r, key)) /\ Cardinality(Pending(r, key)) \in Nat
          /\ Cardinality(CountedIn(r, key)) \in Nat
      BY <1>1, <2>1, CountsFinite DEF Followers
    <3>5. Pending(r, key)' = Pending(r, key) \ {c}
      <4>1. 1 .. Len(executed'[r]) = (1 .. k) \cup {k + 1}
        BY <3>2
      <4>2. ASSUME NEW d \in proposes[r]
            PROVE  (\A i \in 1 .. Len(executed'[r]) : executed'[r][i] # d)
                   <=> (d # c /\ \A i \in 1 .. k : executed[r][i] # d)
        BY <3>2, <4>1
      <4> QED
        BY <2>1, <4>2 DEF Pending
    <3>6. CASE key = Key[c]
      <4>1. c \in Pending(r, key)
        BY <2>1, <2>4, <3>6 DEF Pending, c
      <4>2. Cardinality(Pending(r, key)') = Cardinality(Pending(r, key)) - 1
        BY <3>4, <3>5, <4>1, FS_RemoveElement
      <4> QED
        BY <2>1, <2>2, <3>1, <3>3, <3>4, <3>6, <4>2
    <3>7. CASE key # Key[c]
      <4>1. Pending(r, key)' = Pending(r, key)
        BY <3>5, <3>7 DEF Pending
      <4> QED
        BY <2>1, <2>2, <3>1, <3>3, <3>7, <4>1
    <3> QED
      BY <3>6, <3>7
  <2> QED
    BY <1>3, <2>2, <2>3, <2>5 DEF CountsKeepUp
<1> QED
  BY <1>4, <1>5, <1>6

\* A call of deliver() keeps what it can disturb.
LEMMA DeliverKeeps ==
  ASSUME IInv, Grows, Lasts, LeaderDistinct', SlotsCopied',
         NEW r \in Replicas, NEW k \in Slots,
         NEW chan \in SUBSET (Slots \cup {Cardinality(Slots)}),
         HasAccepted(r, k)', slotCmd'[r][k] \in proposes'[r],
         UNCHANGED proposing,
         \A f \in Followers : proposes'[f] = proposes[f],
         Deliver(r, k, chan)
  PROVE  ExecInv'
<1> DEFINE c == slotCmd'[r][k]
<1>1. c \in Commands /\ c # None
  BY DEF HasAccepted, Grows
<1>2. /\ Answers(r, c)
      /\ Executes(r, k, c) \/ UNCHANGED <<executed, unsynced>>
      /\ deliverChan' \in [Replicas -> SUBSET (Slots \cup {Cardinality(Slots)})]
  BY DeliverCases DEF Lasts
<1> HIDE DEF c
<1>3. executed' \in [Replicas -> Seq(Commands)] /\ ExecutedPrefix'
  BY <1>2, PrefixKept DEF c
<1>4. okReplies' \in [Replicas -> SUBSET Commands] /\ AnswersKnown'
  BY <1>2, AnswersKept DEF c
<1>5. /\ unsynced' \in [Followers -> [Keys -> 0 .. Cardinality(Commands)]]
      /\ CountsKeepUp'
  BY <1>1, <1>2, CountsKept DEF c
<1>6. WitnessExclusive'
  <2>1. \A f \in Followers : okReplies'[f] = okReplies[f]
    BY <1>2 DEF Answers, Followers, IInv, TypeOK
  <2> QED
    BY <1>1, <1>2, <2>1, WitnessKept
<1> QED
  BY <1>2, <1>3, <1>4, <1>5, <1>6 DEF ExecInv

\* A step that executes and answers nothing keeps it too.
LEMMA ExecStays ==
  ASSUME IInv, Grows, Lasts, UNCHANGED <<unsynced, executed, okReplies, proposing>>,
         deliverChan' \in [Replicas -> SUBSET (Slots \cup {Cardinality(Slots)})],
         \A f \in Followers : proposes'[f] = proposes[f]
  PROVE  ExecInv'
<1>1. /\ unsynced \in [Followers -> [Keys -> 0 .. Cardinality(Commands)]]
      /\ executed \in [Replicas -> Seq(Commands)]
      /\ okReplies \in [Replicas -> SUBSET Commands]
      /\ ExecutedPrefix /\ AnswersKnown /\ CountsKeepUp /\ WitnessExclusive
  BY DEF IInv, TypeOK
<1>2. ExecutedPrefix'
  BY <1>1 DEF ExecutedPrefix, Grows, Lasts, HasAccepted
<1>3. AnswersKnown'
  <2>1. ASSUME NEW c \in okReplies[Leader]
        PROVE  \E j \in Slots : slotCmd'[Leader][j] = c /\ HasAccepted(Leader, j)'
    <3>1. PICK j \in Slots : slotCmd[Leader][j] = c /\ HasAccepted(Leader, j)
      BY <1>1 DEF AnswersKnown
    <3> QED
      BY <3>1 DEF Grows, Lasts, HasAccepted
  <2> QED
    BY <1>1, <2>1 DEF AnswersKnown
<1>4. CountsKeepUp'
  <2>1. \A f \in Followers, key \in Keys :
          /\ Pending(f, key)' = Pending(f, key)
          /\ CountedIn(f, key)' = CountedIn(f, key)
          /\ InHand(f, key)' = InHand(f, key)
    BY DEF Pending, CountedIn, InHand
  <2> QED
    BY <1>1, <2>1 DEF CountsKeepUp
<1>5. WitnessExclusive'
  BY <1>1 DEF WitnessExclusive
<1> QED
  BY <1>1, <1>2, <1>3, <1>4, <1>5 DEF ExecInv

----------------------------------------------------------------------------
\* What a handler that accepts slot k at r leaves.
LEMMA RunKeeps ==
  ASSUME IInv, Grows, LeaderDistinct', SlotsCopied',
         NEW r \in Replicas, NEW k \in Slots,
         NEW votes \in SUBSET Replicas,
         \A s \in votes : s # r => HasAccepted(s, k),
         NEW chan \in SUBSET (Slots \cup {Cardinality(Slots)}),
         slotCmd'[r][k] # None, slotCmd'[r][k] \in proposes'[r],
         UNCHANGED proposing,
         \A f \in Followers : proposes'[f] = proposes[f],
         Run(r, k, votes, chan)
  PROVE  VoteInv' /\ ExecInv'
<1>1. VoteInv' /\ Lasts /\ HasAccepted(r, k)'
  BY RunKeepsVotes
<1>2. \E more \in SUBSET Slots : Deliver(r, k, chan \cup more)
  BY DEF Run
<1>3. PICK more \in SUBSET Slots : Deliver(r, k, chan \cup more)
  BY <1>2
<1>4. chan \cup more \in SUBSET (Slots \cup {Cardinality(Slots)})
  OBVIOUS
<1>5. ExecInv'
  BY <1>1, <1>3, <1>4, DeliverKeeps
<1> QED
  BY <1>1, <1>5

\* What a handler that has to wait leaves.
LEMMA WaitKeeps ==
  ASSUME IInv, Grows, NEW r \in Replicas, NEW k \in Slots,
         NEW votes \in SUBSET Replicas,
         acks[r][k] \subseteq votes,
         \A s \in votes : HasAccepted(s, k),
         NEW chan \in SUBSET (Slots \cup {Cardinality(Slots)}),
         UNCHANGED proposing,
         \A f \in Followers : proposes'[f] = proposes[f],
         Wait(r, k, votes, chan)
  PROVE  VoteInv' /\ ExecInv'
<1>1. VoteInv' /\ Lasts
  BY WaitKeepsVotes
<1>2. /\ deliverChan' \in [Replicas -> SUBSET (Slots \cup {Cardinality(Slots)})]
      /\ UNCHANGED <<unsynced, executed, okReplies>>
  BY DEF Wait, IInv, TypeOK
<1> QED
  BY <1>1, <1>2, ExecStays

\* Steps that record no slot keep what is known of the slots.
LEMMA SlotsStay ==
  ASSUME IInv, UNCHANGED slotCmd, proposes[Leader] \subseteq proposes'[Leader]
  PROVE  Grows /\ LeaderFills' /\ LeaderDistinct' /\ SlotsCopied'
BY DEF IInv, TypeOK, Grows, LeaderFills, LeaderDistinct, SlotsCopied

----------------------------------------------------------------------------
\* The parts of the invariant, put together.
LEMMA Together ==
  ASSUME VoteInv', ExecInv', LeaderFills', LeaderDistinct', SlotsCopied',
         proposes' \in [Replicas -> SUBSET Commands],
         proposing' \in [Followers -> Commands \cup {None}],
         answered' \in [Followers -> BOOLEAN],
         slotCmd' \in [Replicas -> [Slots -> Commands \cup {None}]],
         dep' \in [Slots -> Slots \cup {-1}],
         early' \in BOOLEAN
  PROVE  IInv'
BY DEF VoteInv, ExecInv, IInv, TypeOK

\* leaderUnsync() names a slot or none.
LEMMA LastConflictType ==
  ASSUME NEW c PROVE LastConflict(c) \in Slots \cup {-1}
<1> DEFINE same == {k \in Slots : /\ slotCmd[Leader][k] # None
                                 /\ Key[slotCmd[Leader][k]] = Key[c]}
<1>1. CASE same = {}
  BY <1>1 DEF LastConflict
<1>2. CASE same # {}
  <2>1. same \in SUBSET (0 .. Cardinality(Commands))
    BY Sizes DEF Slots
  <2>2. \E k \in same : \A j \in same : j <= k
    BY <1>2, <2>1, HasGreatest, Sizes
  <2>3. (CHOOSE k \in same : \A j \in same : j <= k) \in same
    BY <2>2
  <2> QED
    BY <1>2, <2>3 DEF LastConflict
<1> QED
  BY <1>1, <1>2

\* The leader takes a proposal: its next slot has a command of its own.
LEMMA LeaderProposeKeeps ==
  ASSUME IInv, NEW c \in Commands, LeaderPropose(c)
  PROVE  IInv'
<1>1. /\ proposes \in [Replicas -> SUBSET Commands]
      /\ proposing \in [Followers -> Commands \cup {None}]
      /\ answered \in [Followers -> BOOLEAN]
      /\ slotCmd \in [Replicas -> [Slots -> Commands \cup {None}]]
      /\ dep \in [Slots -> Slots \cup {-1}]
      /\ deliverChan[Leader] \in SUBSET (Slots \cup {Cardinality(Slots)})
      /\ LeaderDistinct /\ SlotsCopied
  BY DEF IInv, TypeOK
<1>2. c \notin proposes[Leader] /\ UNCHANGED <<proposing, answered>>
  BY DEF LeaderPropose
<1>3. PICK k \in Slots :
        /\ \A j \in Slots : slotCmd[Leader][j] # None <=> j < k
        /\ proposes' = [proposes EXCEPT ![Leader] = @ \cup {c}]
        /\ slotCmd' = [slotCmd EXCEPT ![Leader][k] = c]
        /\ dep' = [dep EXCEPT ![k] = IF early THEN -1 ELSE LastConflict(c)]
        /\ early' = FALSE
        /\ Run(Leader, k, {}, deliverChan[Leader])
  BY DEF LeaderPropose
<1>4. slotCmd[Leader][k] = None
  BY <1>3 DEF Slots
<1>5. \A q \in Replicas, j \in Slots :
        slotCmd'[q][j] = IF q = Leader /\ j = k THEN c ELSE slotCmd[q][j]
  BY <1>1, <1>3
<1>6. Grows
  BY <1>1, <1>3, <1>4, <1>5 DEF Grows
<1>7. LeaderFills'
  <2>1. k + 1 \in 0 .. Cardinality(Commands)
    BY Sizes
  <2>2. \A j \in Slots : slotCmd'[Leader][j] # None <=> j < k + 1
    BY <1>3, <1>5 DEF Slots
  <2> QED
    BY <2>1, <2>2 DEF LeaderFills
<1>8. LeaderDistinct'
  <2>1. proposes'[Leader] = proposes[Leader] \cup {c}
    BY <1>1, <1>3
  <2> QED
    BY <1>1, <1>2, <1>5, <2>1 DEF LeaderDistinct
<1>9. SlotsCopied'
  BY <1>1, <1>4, <1>5 DEF SlotsCopied
<1>10. /\ slotCmd'[Leader][k] # None
       /\ slotCmd'[Leader][k] \in proposes'[Leader]
       /\ \A f \in Followers : proposes'[f] = proposes[f]
  BY <1>1, <1>3, <1>5 DEF Followers
<1>11. VoteInv' /\ ExecInv'
  <2>1. {} \in SUBSET Replicas /\ \A s \in {} : s # Leader => HasAccepted(s, k)
    OBVIOUS
  <2> QED
    BY <1>1, <1>2, <1>3, <1>6, <1>8, <1>9, <1>10, <2>1, RunKeeps
<1>12. /\ proposes' \in [Replicas -> SUBSET Commands]
       /\ proposing' \in [Followers -> Commands \cup {None}]
       /\ answered' \in [Followers -> BOOLEAN]
       /\ slotCmd' \in [Replicas -> [Slots -> Commands \cup {None}]]
       /\ dep' \in [Slots -> Slots \cup {-1}]
       /\ early' \in BOOLEAN
  BY <1>1, <1>2, <1>3, <1>6, LastConflictType DEF Grows
<1> QED
  BY <1>7, <1>8, <1>9, <1>11, <1>12, Together

\* Steps that accept nothing keep the votes.
LEMMA VotesStay ==
  ASSUME IInv, UNCHANGED <<slotCmd, acks, committed>>
  PROVE  VoteInv' /\ Lasts
<1>1. \A q, j : HasAccepted(q, j)' <=> HasAccepted(q, j)
  BY DEF HasAccepted
<1>2. /\ acks \in [Replicas -> [Slots -> SUBSET Replicas]]
      /\ committed \in [Replicas -> SUBSET Slots]
      /\ AcksBacked /\ CommitsBacked
  BY DEF IInv, TypeOK
<1>3. AcksBacked' /\ CommitsBacked'
  BY <1>1, <1>2 DEF AcksBacked, CommitsBacked, Majority
<1> QED
  BY <1>1, <1>2, <1>3 DEF VoteInv, Lasts

\* The counts of the followers that a step leaves alone.
LEMMA CountsStay ==
  ASSUME IInv, NEW f \in Followers, NEW key \in Keys,
         proposes'[f] = proposes[f], proposing'[f] = proposing[f],
         executed'[f] = executed[f], unsynced'[f] = unsynced[f]
  PROVE  /\ Cardinality(Pending(f, key)') <= unsynced'[f][key] + InHand(f, key)'
         /\ unsynced'[f][key] <= Cardinality(CountedIn(f, key)')
<1>1. /\ Pending(f, key)' = Pending(f, key)
      /\ CountedIn(f, key)' = CountedIn(f, key)
      /\ InHand(f, key)' = InHand(f, key)
  BY DEF Pending, CountedIn, InHand
<1> QED
  BY <1>1 DEF IInv, CountsKeepUp

\* A follower takes a proposal: it may be pending before it is counted in.
LEMMA TakeProposalKeeps ==
  ASSUME IInv, NEW r \in Followers, NEW c \in Commands, TakeProposal(r, c)
  PROVE  IInv'
<1>1. /\ proposes \in [Replicas -> SUBSET Commands]
      /\ proposing \in [Followers -> Commands \cup {None}]
      /\ unsynced \in [Followers -> [Keys -> 0 .. Cardinality(Commands)]]
      /\ executed \in [Replicas -> Seq(Commands)]
      /\ AnswersKnown /\ CountsKeepUp /\ WitnessExclusive /\ ExecutedPrefix
  BY DEF IInv, TypeOK
<1>2. /\ proposing[r] = None
      /\ c \notin proposes[r]
      /\ proposes' = [proposes EXCEPT ![r] = @ \cup {c}]
      /\ proposing' = [proposing EXCEPT ![r] = c]
      /\ UNCHANGED <<answered, unsynced, slotCmd, dep, early, acks, committed,
                     executed, deliverChan, okReplies>>
  BY DEF TakeProposal
<1>3. /\ r \in Replicas /\ r # Leader /\ Key[c] \in Keys
      /\ proposes' \in [Replicas -> SUBSET Commands]
      /\ proposing' \in [Followers -> Commands \cup {None}]
  BY <1>1, <1>2 DEF Followers, Keys
<1>4. /\ \A q \in Replicas :
           proposes'[q] = IF q = r THEN proposes[q] \cup {c} ELSE proposes[q]
      /\ \A f \in Followers : proposing'[f] = IF f = r THEN c ELSE proposing[f]
  BY <1>1, <1>2, <1>3
<1>5. Grows /\ LeaderFills' /\ LeaderDistinct' /\ SlotsCopied'
  BY <1>2, <1>3, <1>4, SlotsStay
<1>6. VoteInv' /\ Lasts
  BY <1>2, VotesStay
<1>7. ExecutedPrefix'
  BY <1>1, <1>2, <1>5, <1>6 DEF ExecutedPrefix, Grows, Lasts, HasAccepted
<1>8. AnswersKnown'
  <2>1. \A d \in okReplies'[Leader] :
          \E k \in Slots : slotCmd'[Leader][k] = d /\ HasAccepted(Leader, k)'
    BY <1>1, <1>2, <1>3, <1>4 DEF AnswersKnown, HasAccepted
  <2>2. \A f \in Followers :
          /\ okReplies'[f] \subseteq proposes'[f]
          /\ proposing'[f] # None => proposing'[f] \in proposes'[f]
    BY <1>1, <1>2, <1>3, <1>4 DEF AnswersKnown, Followers
  <2> QED
    BY <2>1, <2>2 DEF AnswersKnown
<1>9. CountsKeepUp'
  <2>1. ASSUME NEW key \in Keys
        PROVE  /\ Cardinality(Pending(r, key)') <= unsynced'[r][key] + InHand(r, key)'
               /\ unsynced'[r][key] <= Cardinality(CountedIn(r, key)')
    <3>1. /\ Cardinality(Pending(r, key)) <= unsynced[r][key] + InHand(r, key)
          /\ unsynced[r][key] <= Cardinality(CountedIn(r, key))
          /\ unsynced[r][key] \in Nat
      BY <1>1, Sizes DEF CountsKeepUp
    <3>2. /\ IsFiniteSet(Pending(r, key)) /\ Cardinality(Pending(r, key)) \in Nat
          /\ Cardinality(CountedIn(r, key)) \in Nat
      BY <1>1, <1>3, CountsFinite
    <3>3. CountedIn(r, key)' = CountedIn(r, key)
      BY <1>1, <1>2, <1>3, <1>4 DEF CountedIn
    <3>4. InHand(r, key) = 0 /\ InHand(r, key)' = IF Key[c] = key THEN 1 ELSE 0
      BY <1>2, <1>4 DEF InHand
    <3>5. CASE Key[c] = key
      <4>1. Pending(r, key)' \subseteq Pending(r, key) \cup {c}
        BY <1>2, <1>3, <1>4 DEF Pending
      <4>2. c \notin Pending(r, key)
        BY <1>2 DEF Pending
      <4>3. /\ IsFiniteSet(Pending(r, key) \cup {c})
            /\ Cardinality(Pending(r, key) \cup {c}) = Cardinality(Pending(r, key)) + 1
        BY <3>2, <4>2, FS_AddElement
      <4>4. /\ IsFiniteSet(Pending(r, key)')
            /\ Cardinality(Pending(r, key)') <= Cardinality(Pending(r, key)) + 1
        BY <4>1, <4>3, FS_Subset
      <4>5. Cardinality(Pending(r, key)') \in Nat
        BY <4>4, FS_CardinalityType
      <4> QED
        BY <1>2, <3>1, <3>2, <3>3, <3>4, <3>5, <4>4, <4>5
    <3>6. CASE Key[c] # key
      <4>1. Pending(r, key)' = Pending(r, key)
        BY <1>2, <1>3, <1>4, <3>6 DEF Pending
      <4> QED
        BY <1>2, <3>1, <3>3, <3>4, <3>6, <4>1
    <3> QED
      BY <3>5, <3>6
  <2>2. \A f \in Followers : f # r =>
          /\ proposes'[f] = proposes[f] /\ proposing'[f] = proposing[f]
          /\ executed'[f] = executed[f] /\ unsynced'[f] = unsynced[f]
    BY <1>2, <1>4 DEF Followers
  <2> QED
    BY <2>1, <2>2, CountsStay DEF CountsKeepUp
<1>10. WitnessExclusive'
  BY <1>1, <1>2 DEF WitnessExclusive
<1>11. ExecInv'
  BY <1>1, <1>2, <1>3, <1>7, <1>8, <1>9, <1>10 DEF ExecInv, IInv, TypeOK
<1> QED
  BY <1>2, <1>3, <1>5, <1>6, <1>11, Together DEF Grows, IInv, TypeOK

\* A follower answers: it says TRUE only if no other command is pending.
LEMMA AnswerKeeps ==
  ASSUME IInv, NEW r \in Followers, Answer(r)
  PROVE  IInv'
<1> DEFINE c == proposing[r]
<1>1. /\ proposes \in [Replicas -> SUBSET Commands]
      /\ proposing \in [Followers -> Commands \cup {None}]
      /\ answered \in [Followers -> BOOLEAN]
      /\ unsynced \in [Followers -> [Keys -> 0 .. Cardinality(Commands)]]
      /\ okReplies \in [Replicas -> SUBSET Commands]
      /\ executed \in [Replicas -> Seq(Commands)]
      /\ AnswersKnown /\ CountsKeepUp /\ WitnessExclusive /\ ExecutedPrefix
  BY DEF IInv, TypeOK
<1>2. /\ c # None
      /\ answered' = [answered EXCEPT ![r] = TRUE]
      /\ okReplies' = IF unsynced[r][Key[c]] = 0
                      THEN [okReplies EXCEPT ![r] = @ \cup {c}] ELSE okReplies
      /\ UNCHANGED <<proposes, proposing, unsynced, slotCmd, dep, early, acks,
                     committed, executed, deliverChan>>
  BY DEF Answer
<1>3. /\ r \in Replicas /\ r # Leader
      /\ c \in Commands /\ Key[c] \in Keys /\ c \in proposes[r]
      /\ answered' \in [Followers -> BOOLEAN]
      /\ okReplies' \in [Replicas -> SUBSET Commands]
  BY <1>1, <1>2 DEF Followers, Keys, AnswersKnown
<1>4. InHand(r, Key[c]) = 1
  BY <1>2 DEF InHand
<1> HIDE DEF c
<1>5. \A q \in Replicas :
        okReplies'[q] = IF q = r /\ unsynced[r][Key[c]] = 0
                        THEN okReplies[q] \cup {c} ELSE okReplies[q]
  BY <1>1, <1>2, <1>3
<1>6. Grows /\ LeaderFills' /\ LeaderDistinct' /\ SlotsCopied'
  BY <1>2, SlotsStay
<1>7. VoteInv' /\ Lasts
  BY <1>2, VotesStay
<1>8. ExecutedPrefix'
  BY <1>1, <1>2, <1>6, <1>7 DEF ExecutedPrefix, Grows, Lasts, HasAccepted
<1>9. AnswersKnown'
  BY <1>1, <1>2, <1>3, <1>5 DEF AnswersKnown, HasAccepted, Followers
<1>10. CountsKeepUp'
  BY <1>1, <1>2, CountsStay DEF CountsKeepUp
<1>11. ASSUME NEW d \in okReplies[r], d # c, Key[d] = Key[c],
              unsynced[r][Key[c]] = 0
       PROVE  \E i \in 1 .. Len(executed[r]) : executed[r][i] \in {c, d}
  <2> SUFFICES ASSUME \A i \in 1 .. Len(executed[r]) : executed[r][i] \notin {c, d}
               PROVE  FALSE
    OBVIOUS
  <2>1. d \in proposes[r]
    BY <1>1 DEF AnswersKnown
  <2> DEFINE P == Pending(r, Key[c])
  <2>2. c \in P /\ d \in P
    BY <1>3, <1>11, <2>1 DEF Pending
  <2>3. Cardinality(P) <= 1
    BY <1>1, <1>3, <1>4, <1>11 DEF CountsKeepUp
  <2>4. IsFiniteSet(P) /\ Cardinality(P) \in Nat
    BY <1>1, <1>3, CountsFinite
  <2> HIDE DEF P
  <2>5. /\ IsFiniteSet(P \ {c})
        /\ Cardinality(P \ {c}) = Cardinality(P) - 1
    BY <2>2, <2>4, FS_RemoveElement
  <2>6. Cardinality(P \ {c}) = 0
    <3>1. Cardinality(P \ {c}) \in Nat
      BY <2>5, FS_CardinalityType
    <3> QED
      BY <2>3, <2>4, <2>5, <3>1
  <2>7. P \ {c} = {}
    BY <2>5, <2>6, FS_EmptySet
  <2> QED
    BY <1>11, <2>2, <2>7
<1>12. WitnessExclusive'
  <2> SUFFICES ASSUME NEW f \in Followers, NEW d \in okReplies'[f],
                      NEW e \in okReplies'[f], d # e, Key[d] = Key[e]
               PROVE  \E i \in 1 .. Len(executed[f]) : executed[f][i] \in {d, e}
    BY <1>2 DEF WitnessExclusive
  <2>1. f \in Replicas
    BY DEF Followers
  <2>2. CASE d \in okReplies[f] /\ e \in okReplies[f]
    BY <1>1, <2>2 DEF WitnessExclusive
  <2>3. CASE d \notin okReplies[f] \/ e \notin okReplies[f]
    <3>1. /\ f = r /\ unsynced[r][Key[c]] = 0
          /\ okReplies'[r] = okReplies[r] \cup {c}
      BY <1>3, <1>5, <2>1, <2>3
    <3>2. \/ d = c /\ e \in okReplies[r]
          \/ e = c /\ d \in okReplies[r]
      BY <2>3, <3>1
    <3>3. CASE d = c /\ e \in okReplies[r]
      BY <1>11, <3>1, <3>3
    <3>4. CASE e = c /\ d \in okReplies[r]
      BY <1>11, <3>1, <3>4
    <3> QED
      BY <3>2, <3>3, <3>4
  <2> QED
    BY <2>2, <2>3
<1>13. ExecInv'
  BY <1>1, <1>2, <1>3, <1>8, <1>9, <1>10, <1>12 DEF ExecInv, IInv, TypeOK
<1> QED
  BY <1>2, <1>3, <1>6, <1>7, <1>13, Together DEF Grows, IInv, TypeOK

\* The follower counts the command in that it holds.
LEMMA UnsyncKeeps ==
  ASSUME IInv, NEW r \in Followers, Unsync(r)
  PROVE  IInv'
<1> DEFINE c == proposing[r]
<1>1. /\ proposes \in [Replicas -> SUBSET Commands]
      /\ proposing \in [Followers -> Commands \cup {None}]
      /\ unsynced \in [Followers -> [Keys -> 0 .. Cardinality(Commands)]]
      /\ deliverChan \in [Replicas -> SUBSET (Slots \cup {Cardinality(Slots)})]
      /\ executed \in [Replicas -> Seq(Commands)]
      /\ AnswersKnown /\ CountsKeepUp /\ WitnessExclusive /\ ExecutedPrefix
  BY DEF IInv, TypeOK
<1>2. /\ c # None
      /\ proposing' = [proposing EXCEPT ![r] = None]
      /\ answered' = [answered EXCEPT ![r] = FALSE]
      /\ unsynced' = [unsynced EXCEPT ![r][Key[c]] = @ + 1]
      /\ deliverChan' = [deliverChan EXCEPT ![r] =
                           @ \cup {k \in Slots : slotCmd[r][k] = c}]
      /\ UNCHANGED <<proposes, slotCmd, dep, early, acks, committed, executed,
                     okReplies>>
  BY DEF Unsync
<1>3. /\ r \in Replicas /\ c \in Commands /\ Key[c] \in Keys
      /\ c \in proposes[r]
      /\ proposing' \in [Followers -> Commands \cup {None}]
      /\ answered' \in [Followers -> BOOLEAN]
      /\ deliverChan' \in [Replicas -> SUBSET (Slots \cup {Cardinality(Slots)})]
  BY <1>1, <1>2 DEF Followers, Keys, AnswersKnown, IInv, TypeOK
<1> HIDE DEF c
<1>4. /\ \A f \in Followers : proposing'[f] = IF f = r THEN None ELSE proposing[f]
      /\ \A f \in Followers, key \in Keys :
           unsynced'[f][key] = IF f = r /\ key = Key[c] THEN unsynced[f][key] + 1
                                                        ELSE unsynced[f][key]
  BY <1>1, <1>2, <1>3
<1>5. Grows /\ LeaderFills' /\ LeaderDistinct' /\ SlotsCopied'
  BY <1>2, SlotsStay
<1>6. VoteInv' /\ Lasts
  BY <1>2, VotesStay
<1>7. ExecutedPrefix'
  BY <1>1, <1>2, <1>5, <1>6 DEF ExecutedPrefix, Grows, Lasts, HasAccepted
<1>8. AnswersKnown'
  BY <1>1, <1>2, <1>4 DEF AnswersKnown, HasAccepted
<1>9. ASSUME NEW key \in Keys
      PROVE  /\ Cardinality(Pending(r, key)') <= unsynced'[r][key] + InHand(r, key)'
             /\ unsynced'[r][key] <= Cardinality(CountedIn(r, key)')
             /\ unsynced'[r][key] <= Cardinality(Commands)
  <2>1. /\ Cardinality(Pending(r, key)) <= unsynced[r][key] + InHand(r, key)
        /\ unsynced[r][key] <= Cardinality(CountedIn(r, key))
        /\ unsynced[r][key] \in Nat
    BY <1>1, Sizes DEF CountsKeepUp
  <2>2. /\ Cardinality(Pending(r, key)) \in Nat
        /\ IsFiniteSet(CountedIn(r, key))
        /\ Cardinality(CountedIn(r, key)) \in Nat
    BY <1>1, <1>3, CountsFinite
  <2>3. Pending(r, key)' = Pending(r, key)
    BY <1>2 DEF Pending
  <2>4. InHand(r, key)' = 0 /\ InHand(r, key) = IF Key[c] = key THEN 1 ELSE 0
    BY <1>2, <1>4 DEF InHand, c
  <2>5. CountedIn(r, key)' = {d \in proposes[r] : Key[d] = key}
    BY <1>1, <1>2, <1>3, <1>4 DEF CountedIn
  <2>6. /\ Cardinality(CountedIn(r, key)') <= Cardinality(Commands)
        /\ Cardinality(CountedIn(r, key)') \in Nat
    <3>1. CountedIn(r, key)' \in SUBSET Commands
      BY <1>1, <1>3, <2>5
    <3>2. IsFiniteSet(CountedIn(r, key)')
      BY <3>1, FS_Subset
    <3>3. Cardinality(CountedIn(r, key)') <= Cardinality(Commands)
      BY <3>1, FS_Subset
    <3> QED
      BY <3>2, <3>3, FS_CardinalityType
  <2>7. CASE Key[c] = key
    <3>1. /\ CountedIn(r, key)' = CountedIn(r, key) \cup {c}
          /\ c \notin CountedIn(r, key)
      BY <1>3, <2>5, <2>7 DEF CountedIn, c
    <3>2. Cardinality(CountedIn(r, key)') = Cardinality(CountedIn(r, key)) + 1
      BY <2>2, <3>1, FS_AddElement
    <3> QED
      BY <1>4, <2>1, <2>2, <2>3, <2>4, <2>6, <2>7, <3>2, Sizes
  <2>8. CASE Key[c] # key
    <3>1. CountedIn(r, key)' = CountedIn(r, key)
      BY <2>5, <2>8 DEF CountedIn, c
    <3> QED
      BY <1>4, <2>1, <2>2, <2>3, <2>4, <2>6, <2>8, <3>1, Sizes
  <2> QED
    BY <2>7, <2>8
<1>10. unsynced' \in [Followers -> [Keys -> 0 .. Cardinality(Commands)]]
  <2>1. /\ unsynced'[r][Key[c]] = unsynced[r][Key[c]] + 1
        /\ unsynced[r][Key[c]] \in Nat
    BY <1>1, <1>3, <1>4, Sizes
  <2>2. unsynced'[r][Key[c]] <= Cardinality(Commands)
    BY <1>3, <1>9
  <2>3. unsynced[r][Key[c]] + 1 \in 0 .. Cardinality(Commands)
    BY <2>1, <2>2, Sizes
  <2> QED
    BY <1>1, <1>2, <1>3, <2>3
<1>11. CountsKeepUp'
  <2>1. \A f \in Followers : f # r =>
          /\ proposes'[f] = proposes[f] /\ proposing'[f] = proposing[f]
          /\ executed'[f] = executed[f] /\ unsynced'[f] = unsynced[f]
    BY <1>1, <1>2, <1>4
  <2> QED
    BY <1>9, <2>1, CountsStay DEF CountsKeepUp
<1>12. WitnessExclusive'
  BY <1>1, <1>2 DEF WitnessExclusive
<1>13. ExecInv'
  BY <1>1, <1>2, <1>3, <1>7, <1>8, <1>10, <1>11, <1>12 DEF ExecInv, IInv, TypeOK
<1> QED
  BY <1>2, <1>3, <1>5, <1>6, <1>13, Together DEF Grows, IInv, TypeOK

\* A follower records a slot as the leader has it.
LEMMA HandleAcceptKeeps ==
  ASSUME IInv, NEW r \in Followers, NEW k \in Slots, HandleAccept(r, k)
  PROVE  IInv'
<1>1. /\ slotCmd \in [Replicas -> [Slots -> Commands \cup {None}]]
      /\ acks \in [Replicas -> [Slots -> SUBSET Replicas]]
      /\ deliverChan \in [Replicas -> SUBSET (Slots \cup {Cardinality(Slots)})]
      /\ AcksBacked /\ LeaderFills /\ LeaderDistinct /\ SlotsCopied
      /\ r \in Replicas /\ r # Leader
  BY DEF IInv, TypeOK, Followers
<1>2. /\ slotCmd[Leader][k] # None
      /\ slotCmd[r][k] = None
      /\ slotCmd' = [slotCmd EXCEPT ![r][k] = slotCmd[Leader][k]]
      /\ UNCHANGED <<proposes, proposing, answered, dep, early>>
      /\ IF slotCmd'[r][k] \in proposes[r]
         THEN Run(r, k, acks[r][k], deliverChan[r])
         ELSE Wait(r, k, acks[r][k], deliverChan[r])
  BY DEF HandleAccept
<1>3. \A q \in Replicas, j \in Slots :
        slotCmd'[q][j] = IF q = r /\ j = k THEN slotCmd[Leader][k] ELSE slotCmd[q][j]
  BY <1>1, <1>2
<1>4. Grows
  BY <1>1, <1>2, <1>3 DEF Grows
<1>5. LeaderFills' /\ LeaderDistinct' /\ SlotsCopied'
  BY <1>1, <1>2, <1>3 DEF LeaderFills, LeaderDistinct, SlotsCopied
<1>6. /\ acks[r][k] \in SUBSET Replicas
      /\ \A s \in acks[r][k] : HasAccepted(s, k)
      /\ deliverChan[r] \in SUBSET (Slots \cup {Cardinality(Slots)})
      /\ slotCmd'[r][k] # None
  BY <1>1, <1>2, <1>3 DEF AcksBacked
<1>7. VoteInv' /\ ExecInv'
  <2>1. CASE slotCmd'[r][k] \in proposes[r]
    <3>1. /\ Run(r, k, acks[r][k], deliverChan[r])
          /\ slotCmd'[r][k] \in proposes'[r]
          /\ UNCHANGED proposing
          /\ \A f \in Followers : proposes'[f] = proposes[f]
      BY <1>2, <2>1
    <3> QED
      BY <1>1, <1>4, <1>5, <1>6, <3>1, RunKeeps
  <2>2. CASE slotCmd'[r][k] \notin proposes[r]
    <3>1. /\ Wait(r, k, acks[r][k], deliverChan[r])
          /\ UNCHANGED proposing
          /\ \A f \in Followers : proposes'[f] = proposes[f]
      BY <1>2, <2>2
    <3> QED
      BY <1>1, <1>4, <1>6, <3>1, WaitKeeps
  <2> QED
    BY <2>1, <2>2
<1> QED
  BY <1>2, <1>4, <1>5, <1>7, Together DEF Grows, IInv, TypeOK

\* An acknowledgement is of a replica that has accepted the slot.
LEMMA HandleAcceptAckKeeps ==
  ASSUME IInv, NEW r \in Replicas, NEW s \in Replicas, NEW k \in Slots,
         HandleAcceptAck(r, k, s)
  PROVE  IInv'
<1> DEFINE votes == acks[r][k] \cup {s}
<1>1. /\ acks \in [Replicas -> [Slots -> SUBSET Replicas]]
      /\ deliverChan \in [Replicas -> SUBSET (Slots \cup {Cardinality(Slots)})]
      /\ AcksBacked
  BY DEF IInv, TypeOK
<1>2. /\ s \in acks[s][k]
      /\ UNCHANGED <<proposes, proposing, answered, slotCmd, dep, early>>
      /\ IF HasPayload(r, k) /\ Majority(votes)
         THEN Run(r, k, votes, deliverChan[r])
         ELSE Wait(r, k, votes, deliverChan[r])
  BY DEF HandleAcceptAck
<1>3. Grows /\ LeaderFills' /\ LeaderDistinct' /\ SlotsCopied'
  BY <1>2, SlotsStay
<1>4. /\ votes \in SUBSET Replicas
      /\ acks[r][k] \subseteq votes
      /\ \A q \in votes : HasAccepted(q, k)
      /\ deliverChan[r] \in SUBSET (Slots \cup {Cardinality(Slots)})
      /\ \A f \in Followers : proposes'[f] = proposes[f]
  BY <1>1, <1>2 DEF AcksBacked
<1> HIDE DEF votes
<1>5. VoteInv' /\ ExecInv'
  <2>1. CASE HasPayload(r, k) /\ Majority(votes)
    <3>1. /\ Run(r, k, votes, deliverChan[r])
          /\ slotCmd'[r][k] # None /\ slotCmd'[r][k] \in proposes'[r]
      BY <1>2, <2>1 DEF HasPayload
    <3> QED
      BY <1>2, <1>3, <1>4, <3>1, RunKeeps
  <2>2. CASE ~ (HasPayload(r, k) /\ Majority(votes))
    <3>1. Wait(r, k, votes, deliverChan[r])
      BY <1>2, <2>2
    <3> QED
      BY <1>2, <1>3, <1>4, <3>1, WaitKeeps
  <2> QED
    BY <2>1, <2>2
<1> QED
  BY <1>2, <1>3, <1>5, Together DEF Grows, IInv, TypeOK

\* A "deliver" accepts and executes as the other handlers do.
LEMMA DeliverNextKeeps ==
  ASSUME IInv, NEW r \in Replicas, NEW k \in Slots, DeliverNext(r, k)
  PROVE  IInv'
<1> DEFINE chan == deliverChan[r] \ {k}
<1>1. /\ acks \in [Replicas -> [Slots -> SUBSET Replicas]]
      /\ deliverChan \in [Replicas -> SUBSET (Slots \cup {Cardinality(Slots)})]
      /\ early \in BOOLEAN
      /\ AcksBacked
  BY DEF IInv, TypeOK
<1>2. /\ early' = (early \/ (r = Leader /\ slotCmd[r][k] = None))
      /\ UNCHANGED <<proposes, proposing, answered, slotCmd, dep>>
      /\ IF HasPayload(r, k) THEN Run(r, k, acks[r][k], chan)
                             ELSE Wait(r, k, acks[r][k], chan)
  BY DEF DeliverNext
<1>3. Grows /\ LeaderFills' /\ LeaderDistinct' /\ SlotsCopied'
  BY <1>2, SlotsStay
<1>4. /\ acks[r][k] \in SUBSET Replicas
      /\ \A q \in acks[r][k] : HasAccepted(q, k)
      /\ chan \in SUBSET (Slots \cup {Cardinality(Slots)})
      /\ \A f \in Followers : proposes'[f] = proposes[f]
  BY <1>1, <1>2 DEF AcksBacked
<1> HIDE DEF chan
<1>5. VoteInv' /\ ExecInv'
  <2>1. CASE HasPayload(r, k)
    <3>1. /\ Run(r, k, acks[r][k], chan)
          /\ slotCmd'[r][k] # None /\ slotCmd'[r][k] \in proposes'[r]
      BY <1>2, <2>1 DEF HasPayload
    <3> QED
      BY <1>2, <1>3, <1>4, <3>1, RunKeeps
  <2>2. CASE ~ HasPayload(r, k)
    <3>1. Wait(r, k, acks[r][k], chan)
      BY <1>2, <2>2
    <3> QED
      BY <1>2, <1>3, <1>4, <3>1, WaitKeeps
  <2> QED
    BY <2>1, <2>2
<1>6. early' \in BOOLEAN
  BY <1>1, <1>2
<1> QED
  BY <1>2, <1>3, <1>5, <1>6, Together DEF Grows, IInv, TypeOK

\* Every step of Curp, and every stutter, keeps the invariant.
LEMMA NextKeeps ==
  ASSUME IInv, [Next]_vars
  PROVE  IInv'
<1>1. CASE Next
  BY <1>1, LeaderProposeKeeps, TakeProposalKeeps, AnswerKeeps, UnsyncKeeps,
     HandleAcceptKeeps, HandleAcceptAckKeeps, DeliverNextKeeps DEF Next
<1>2. CASE UNCHANGED vars
  <2>1. /\ Grows /\ LeaderFills' /\ LeaderDistinct' /\ SlotsCopied'
        /\ VoteInv' /\ Lasts
    BY <1>2, SlotsStay, VotesStay DEF vars
  <2>2. ExecInv'
    BY <1>2, <2>1, ExecStays DEF vars, IInv, TypeOK
  <2> QED
    BY <1>2, <2>1, <2>2, Together DEF vars, IInv, TypeOK
<1> QED
  BY <1>1, <1>2

\* The inductive invariant of Curp: whatever the order in which proposals,
\* Accepts, acknowledgements and slots of run() and of the descriptors'
\* goroutines are handled, records, votes, execution and counts fit together.
THEOREM Invariance == Spec => []IInv
BY InitIInv, NextKeeps, PTL DEF Spec

----------------------------------------------------------------------------
\* A command whose slot a replica has committed is accepted by a majority.
LEMMA CommitIsBacked ==
  ASSUME IInv, NEW r \in Replicas, NEW k \in committed[r], slotCmd[r][k] # None
  PROVE  MoreThanHalf(Acceptors(slotCmd[r][k]))
<1>1. k \in Slots /\ CommitsBacked /\ SlotsCopied
  BY DEF IInv, TypeOK
<1>2. PICK Q \in SUBSET Replicas : Majority(Q) /\ \A q \in Q : HasAccepted(q, k)
  BY <1>1 DEF CommitsBacked
<1>3. \A q \in Q : slotCmd[q][k] = slotCmd[r][k] /\ q \in acks[q][k]
  BY <1>1, <1>2 DEF SlotsCopied, HasAccepted
<1>4. Q \subseteq Acceptors(slotCmd[r][k]) /\ Acceptors(slotCmd[r][k]) \in SUBSET Replicas
  BY <1>1, <1>3 DEF Acceptors
<1> QED
  BY <1>2, <1>4, MajorityGrows, MajorityIsHalf

\* What the proxy answers, and what a follower executes, a majority of the
\* group has accepted: getAcksHandler() counts no replica that has not, and a
\* majority is more than half for every size of the group.
THEOREM CommitsNeedMajority == Spec => []QuorumBacked
<1>1. IInv => QuorumBacked
  <2> SUFFICES ASSUME IInv PROVE QuorumBacked
    OBVIOUS
  <2>1. ASSUME NEW c \in Commands, NEW r \in Replicas, SyncAnswered(c, r)
        PROVE  MoreThanHalf(Acceptors(c))
    <3>1. PICK k \in Slots : slotCmd[r][k] = c /\ k \in committed[r]
      BY <2>1 DEF SyncAnswered, IsDelivered
    <3> QED
      BY <3>1, CommitIsBacked
  <2>2. ASSUME NEW r \in Followers, NEW i \in 1 .. Len(executed[r])
        PROVE  MoreThanHalf(Acceptors(executed[r][i]))
    <3>1. /\ i - 1 \in committed[r]
          /\ executed[r][i] = slotCmd[r][i - 1]
          /\ slotCmd[r][i - 1] # None
          /\ r \in Replicas
      BY DEF IInv, ExecutedPrefix, HasAccepted, Followers
    <3> QED
      BY <3>1, CommitIsBacked
  <2> QED
    BY <2>1, <2>2 DEF QuorumBacked
<1> QED
  BY <1>1, Invariance, PTL

\* ok() never lets a follower vouch for two conflicting commands that it has
\* not executed, though the count it reads goes up in the event loop and down
\* in the descriptors' goroutines.
THEOREM WitnessesExclude == Spec => []WitnessExclusive
<1>1. IInv => WitnessExclusive
  BY DEF IInv
<1> QED
  BY <1>1, Invariance, PTL

\* Between two proposals the count of r.unsynced covers what the follower has
\* taken and not executed, clamped and early decrements of sync() included.
THEOREM CountsCover == Spec => []UnsyncedCovers
<1>1. IInv => UnsyncedCovers
  <2> SUFFICES ASSUME IInv, NEW r \in Followers, proposing[r] = None,
                      NEW key \in Keys
               PROVE  unsynced[r][key] >= Cardinality(Pending(r, key))
    BY DEF UnsyncedCovers, Pending
  <2>1. /\ unsynced[r][key] \in Nat
        /\ proposes[r] \in SUBSET Commands
        /\ Cardinality(Pending(r, key)) <= unsynced[r][key] + InHand(r, key)
    BY Sizes DEF IInv, TypeOK, CountsKeepUp, Followers
  <2>2. InHand(r, key) = 0 /\ Cardinality(Pending(r, key)) \in Nat
    BY <2>1, CountsFinite DEF InHand
  <2> QED
    BY <2>1, <2>2
<1> QED
  BY <1>1, Invariance, PTL

\* A fast quorum of witnesses outnumbers, in every majority without the
\* leader, those who vouch for something else.
LEMMA FastQuorumOutnumbers ==
  ASSUME NEW S \in SUBSET Followers, MoreThanHalf(S),
         NEW W \in SUBSET Followers, Cardinality(W) >= FastQuorum - 1,
         NEW V \in SUBSET S, V \cap W = {}
  PROVE  Cardinality(S \cap W) > Cardinality(V)
<1>1. /\ IsFiniteSet(Followers)
      /\ Cardinality(Followers) = Cardinality(Replicas) - 1
  BY FS_RemoveElement DEF Followers
<1>2. IsFiniteSet(S) /\ IsFiniteSet(W)
  BY <1>1, FS_Subset
<1>3. IsFiniteSet(V) /\ IsFiniteSet(S \cap W)
  BY <1>2, FS_Subset
<1>4. /\ Cardinality(S \cup W) = Cardinality(S) + Cardinality(W) - Cardinality(S \cap W)
      /\ IsFiniteSet(S \cup W)
  BY <1>2, FS_Union
<1>5. Cardinality(S \cup W) <= Cardinality(Followers)
  <2>1. S \cup W \subseteq Followers
    OBVIOUS
  <2> QED
    BY <1>1, <2>1, FS_Subset
<1>6. Cardinality((S \cap W) \cup V) = Cardinality(S \cap W) + Cardinality(V)
  <2> DEFINE B == S \cap W
  <2>1. Cardinality(B \cup V) = Cardinality(B) + Cardinality(V) - Cardinality(B \cap V)
    <3> HIDE DEF B
    <3> QED
      BY <1>3, FS_Union DEF B
  <2>2. Cardinality(B \cap V) = 0
    <3>1. B \cap V = {}
      OBVIOUS
    <3> QED
      BY <3>1, FS_EmptySet
  <2>3. Cardinality(B) \in Nat /\ Cardinality(V) \in Nat
    BY <1>3, FS_CardinalityType
  <2> QED
    BY <2>1, <2>2, <2>3
<1>7. Cardinality((S \cap W) \cup V) <= Cardinality(S)
  <2>1. (S \cap W) \cup V \subseteq S
    OBVIOUS
  <2> QED
    BY <1>2, <2>1, FS_Subset
<1>8. /\ Cardinality(S) \in Nat /\ Cardinality(W) \in Nat /\ Cardinality(V) \in Nat
      /\ Cardinality(S \cap W) \in Nat
  BY <1>2, <1>3, FS_CardinalityType
<1>9. /\ 2 * Cardinality(S) > Cardinality(Replicas)
      /\ Cardinality(W) >= (3 * Cardinality(Replicas)) \div 4
  BY <1>8, Sizes DEF MoreThanHalf, FastQuorum
<1>10. 4 * ((3 * Cardinality(Replicas)) \div 4) + 3 >= 3 * Cardinality(Replicas)
  BY Sizes
<1> QED
  BY <1>1, <1>4, <1>5, <1>6, <1>7, <1>8, <1>9, <1>10, Sizes

\* A replica that has executed a command has accepted it.
LEMMA ExecutedAccepted ==
  ASSUME IInv, NEW r \in Replicas, NEW i \in 1 .. Len(executed[r])
  PROVE  r \in Acceptors(executed[r][i])
BY DEF IInv, ExecutedPrefix, HasAccepted, Acceptors

\* What NewClient() takes for decided by a fast quorum is found again in every
\* majority of the replicas, for every size of the group: somebody there has
\* accepted the command, or most of the witnesses there vouch for it.
THEOREM FastPathRecoverable == Spec => []Recoverable
<1>1. IInv => Recoverable
  <2> SUFFICES ASSUME IInv, NEW c \in Commands, FastAnswered(c),
                      NEW S \in SUBSET Replicas, MoreThanHalf(S),
                      S \cap Acceptors(c) = {},
                      NEW d \in Commands \ {c},
                      Key[d] = Key[c], S \cap Acceptors(d) = {}
               PROVE  Cardinality({r \in S \ {Leader} : c \in okReplies[r]}) >
                      Cardinality({r \in S \ {Leader} : d \in okReplies[r]})
    BY DEF Recoverable
  <2> DEFINE W == {r \in Followers : c \in okReplies[r]}
             V == {r \in S \ {Leader} : d \in okReplies[r]}
  <2>1. Leader \notin S
    <3>1. PICK k \in Slots : slotCmd[Leader][k] = c /\ HasAccepted(Leader, k)
      BY DEF FastAnswered, IInv, AnswersKnown
    <3>2. Leader \in Acceptors(c)
      BY <3>1 DEF Acceptors, HasAccepted
    <3> QED
      BY <3>2
  <2>2. S \in SUBSET Followers /\ W \in SUBSET Followers /\ V \in SUBSET S
    BY <2>1 DEF Followers
  <2>3. V \cap W = {}
    <3> SUFFICES ASSUME NEW r \in V, r \in W
                 PROVE  FALSE
      OBVIOUS
    <3>1. r \in Followers /\ r \in S /\ c \in okReplies[r] /\ d \in okReplies[r]
      BY <2>2
    <3>2. PICK i \in 1 .. Len(executed[r]) : executed[r][i] \in {c, d}
      BY <3>1 DEF IInv, WitnessExclusive
    <3>3. r \in Acceptors(executed[r][i])
      BY <3>1, ExecutedAccepted
    <3> QED
      BY <3>1, <3>2, <3>3
  <2>4. Cardinality(W) >= FastQuorum - 1
    BY DEF FastAnswered
  <2>5. {r \in S \ {Leader} : c \in okReplies[r]} = S \cap W
    BY <2>1, <2>2
  <2> HIDE DEF W, V
  <2>6. Cardinality(S \cap W) > Cardinality(V)
    BY <2>2, <2>3, <2>4, FastQuorumOutnumbers
  <2> QED
    BY <2>5, <2>6 DEF V
<1> QED
  BY <1>1, Invariance, PTL

----------------------------------------------------------------------------
\* The number of slots that the leader has filled.
LEMMA FilledSlots ==
  ASSUME NEW f, NEW n \in 0 .. Cardinality(Commands),
         \A k \in Slots : f[k] # None <=> k < n
  PROVE  Cardinality({k \in Slots : f[k] # None}) = n
<1>1. {k \in Slots : f[k] # None} = 0 .. n - 1
  BY Sizes DEF Slots
<1>2. Cardinality(0 .. n - 1) = n
  BY FS_Interval
<1> QED
  BY <1>1, <1>2

\* A call of deliver() is a step of the log's replica r or leaves it alone.
LEMMA DeliverExecutes ==
  ASSUME IInv, IInv', NEW r \in Replicas, NEW k \in Slots,
         NEW chan \in SUBSET (Slots \cup {Cardinality(Slots)}),
         slotCmd'[r][k] # None,
         committed[r] \subseteq committed'[r],
         Deliver(r, k, chan)
  PROVE  UNCHANGED executed \/ Log!Execute(r)
<1> SUFFICES ASSUME ~ UNCHANGED executed
             PROVE  Log!Execute(r)
  OBVIOUS
<1>1. Executes(r, k, slotCmd'[r][k])
  BY DeliverCases
<1>2. /\ k = Len(executed[r])
      /\ executed' = [executed EXCEPT ![r] = Append(@, slotCmd'[r][k])]
  BY <1>1 DEF Executes
<1>3. slotCmd'[r][k] = slotCmd'[Leader][k] /\ slotCmd'[Leader][k] # None
  BY DEF IInv, SlotsCopied
<1>4. PICK n \in 0 .. Cardinality(Commands) :
        \A j \in Slots : slotCmd'[Leader][j] # None <=> j < n
  BY DEF IInv, LeaderFills
<1>5. k < n /\ n \in Nat /\ k \in Nat
  BY <1>3, <1>4, Sizes
<1>6. Assigned' = [i \in 1 .. n |-> slotCmd'[Leader][i - 1]]
  BY <1>4, FilledSlots DEF Assigned
<1>7. Len(Assigned') = n /\ Assigned'[k + 1] = slotCmd'[Leader][k]
  BY <1>5, <1>6
<1> QED
  BY <1>2, <1>3, <1>5, <1>7 DEF IInv, TypeOK, Log!Execute

\* So is a handler that accepts a slot.
LEMMA RunExecutes ==
  ASSUME IInv, IInv', NEW r \in Replicas, NEW k \in Slots, NEW votes,
         NEW chan \in SUBSET (Slots \cup {Cardinality(Slots)}),
         slotCmd'[r][k] # None,
         Run(r, k, votes, chan)
  PROVE  UNCHANGED executed \/ Log!Execute(r)
<1>1. committed \in [Replicas -> SUBSET Slots]
  BY DEF IInv, TypeOK
<1>2. committed[r] \subseteq committed'[r]
  BY <1>1 DEF Run
<1>3. PICK more \in SUBSET Slots : Deliver(r, k, chan \cup more)
  BY DEF Run
<1>4. chan \cup more \in SUBSET (Slots \cup {Cardinality(Slots)})
  OBVIOUS
<1> QED
  BY <1>2, <1>3, <1>4, DeliverExecutes

\* A step that leaves the leader's slots alone leaves the log as it is.
LEMMA AssignedStays ==
  ASSUME slotCmd'[Leader] = slotCmd[Leader]
  PROVE  UNCHANGED Assigned
BY DEF Assigned

\* A proposal that the leader takes is a new entry of the log.
LEMMA ProposalOrders ==
  ASSUME IInv, NEW c \in Commands, LeaderPropose(c)
  PROVE  Log!Order(c)
<1>1. slotCmd \in [Replicas -> [Slots -> Commands \cup {None}]] /\ LeaderDistinct
  BY DEF IInv, TypeOK
<1>2. PICK k \in Slots :
        /\ \A j \in Slots : slotCmd[Leader][j] # None <=> j < k
        /\ slotCmd' = [slotCmd EXCEPT ![Leader][k] = c]
  BY DEF LeaderPropose
<1>3. c \notin proposes[Leader]
  BY DEF LeaderPropose
<1>4. \A j \in Slots :
        slotCmd'[Leader][j] = IF j = k THEN c ELSE slotCmd[Leader][j]
  BY <1>1, <1>2
<1>5. /\ k \in Nat /\ k \in 0 .. Cardinality(Commands)
      /\ k + 1 \in 0 .. Cardinality(Commands)
  BY Sizes
<1>6. Assigned = [i \in 1 .. k |-> slotCmd[Leader][i - 1]]
  BY <1>2, <1>5, FilledSlots DEF Assigned
<1>7. Assigned' = [i \in 1 .. k + 1 |-> slotCmd'[Leader][i - 1]]
  <2>1. \A j \in Slots : slotCmd'[Leader][j] # None <=> j < k + 1
    BY <1>2, <1>4, <1>5 DEF Slots
  <2>2. Cardinality({j \in Slots : slotCmd'[Leader][j] # None}) = k + 1
    BY <1>5, <2>1, FilledSlots
  <2> QED
    BY <2>2 DEF Assigned
<1>8. \A i \in 1 .. k : i - 1 \in Slots /\ i - 1 < k /\ i - 1 # k
  BY <1>5, Sizes DEF Slots
<1>9. \A i \in 1 .. Len(Assigned) : Assigned[i] # c
  BY <1>1, <1>2, <1>3, <1>5, <1>6, <1>8 DEF LeaderDistinct
<1>10. Assigned' = Append(Assigned, c)
  <2>1. \A i \in 1 .. k + 1 :
          slotCmd'[Leader][i - 1] =
            IF i = k + 1 THEN c ELSE slotCmd[Leader][i - 1]
    BY <1>4, <1>5, <1>8
  <2>2. Assigned' = [i \in 1 .. k + 1 |->
                       IF i = k + 1 THEN c ELSE slotCmd[Leader][i - 1]]
    BY <1>7, <2>1
  <2>3. Assigned \in Seq(Commands \cup {None}) /\ Len(Assigned) = k
    BY <1>1, <1>5, <1>6, <1>8
  <2> QED
    BY <1>5, <1>6, <2>2, <2>3
<1> QED
  BY <1>9, <1>10 DEF Log!Order

\* Curp implements the replicated log: the leader's slots are its entries, and
\* every replica applies them in order, before the commit at the leader and
\* after it at the others, whichever of the five callers of deliver() it is.
THEOREM Refinement == Spec => ImplementsLog
<1>1. Init => Log!Init
  <2> SUFFICES ASSUME Init PROVE Log!Init
    OBVIOUS
  <2>1. {k \in Slots : slotCmd[Leader][k] # None} = {}
    BY DEF Init
  <2>2. Cardinality({k \in Slots : slotCmd[Leader][k] # None}) = 0
    BY <2>1, FS_EmptySet
  <2>3. Assigned = << >>
    <3>1. Assigned = [i \in 1 .. 0 |-> slotCmd[Leader][i - 1]]
      BY <2>2 DEF Assigned
    <3> QED
      BY <3>1
  <2> QED
    BY <2>3 DEF Init, Log!Init
<1>2. ASSUME IInv, IInv', [Next]_vars
      PROVE  [Log!Next]_<<Assigned, executed>>
  <2>0. \A r \in Replicas :
          deliverChan[r] \in SUBSET (Slots \cup {Cardinality(Slots)})
    BY <1>2 DEF IInv, TypeOK
  <2>1. ASSUME NEW c \in Commands, LeaderPropose(c)
        PROVE  Log!Next
    <3>1. Log!Order(c)
      BY <1>2, <2>1, ProposalOrders
    <3>2. PICK k \in Slots : /\ slotCmd' = [slotCmd EXCEPT ![Leader][k] = c]
                             /\ Run(Leader, k, {}, deliverChan[Leader])
      BY <2>1 DEF LeaderPropose
    <3>3. slotCmd'[Leader][k] # None
      BY <1>2, <3>2 DEF IInv, TypeOK
    <3>4. UNCHANGED executed \/ Log!Execute(Leader)
      BY <1>2, <2>0, <3>2, <3>3, RunExecutes
    <3> QED
      BY <3>1, <3>4 DEF Log!Next
  <2>2. ASSUME NEW r \in Followers, NEW c \in Commands, TakeProposal(r, c)
        PROVE  UNCHANGED <<Assigned, executed>>
    BY <2>2, AssignedStays DEF TakeProposal
  <2>3. ASSUME NEW r \in Followers, Answer(r) \/ Unsync(r)
        PROVE  UNCHANGED <<Assigned, executed>>
    BY <2>3, AssignedStays DEF Answer, Unsync
  <2>4. ASSUME NEW r \in Followers, NEW k \in Slots, HandleAccept(r, k)
        PROVE  Log!Next
    <3>1. /\ slotCmd \in [Replicas -> [Slots -> Commands \cup {None}]]
          /\ slotCmd[Leader][k] # None
          /\ slotCmd' = [slotCmd EXCEPT ![r][k] = slotCmd[Leader][k]]
          /\ r \in Replicas /\ r # Leader
      BY <1>2, <2>4 DEF HandleAccept, IInv, TypeOK, Followers
    <3>2. slotCmd'[Leader] = slotCmd[Leader] /\ slotCmd'[r][k] # None
      BY <3>1
    <3>3. UNCHANGED Assigned
      BY <3>2, AssignedStays
    <3>4. CASE Run(r, k, acks[r][k], deliverChan[r])
      <4>1. UNCHANGED executed \/ Log!Execute(r)
        BY <1>2, <2>0, <3>1, <3>2, <3>4, RunExecutes
      <4> QED
        BY <3>1, <3>3, <4>1 DEF Log!Next
    <3>5. CASE Wait(r, k, acks[r][k], deliverChan[r])
      BY <3>3, <3>5 DEF Wait, Log!Next
    <3> QED
      BY <2>4, <3>4, <3>5 DEF HandleAccept
  <2>5. ASSUME NEW r \in Replicas, NEW s \in Replicas, NEW k \in Slots,
               HandleAcceptAck(r, k, s)
        PROVE  Log!Next
    <3> DEFINE votes == acks[r][k] \cup {s}
    <3>1. UNCHANGED slotCmd /\ UNCHANGED Assigned
      BY <2>5, AssignedStays DEF HandleAcceptAck
    <3>2. CASE HasPayload(r, k) /\ Run(r, k, votes, deliverChan[r])
      <4>1. slotCmd'[r][k] # None
        BY <3>1, <3>2 DEF HasPayload
      <4> HIDE DEF votes
      <4>2. UNCHANGED executed \/ Log!Execute(r)
        BY <1>2, <2>0, <3>2, <4>1, RunExecutes
      <4> QED
        BY <3>1, <4>2 DEF Log!Next
    <3>3. CASE Wait(r, k, votes, deliverChan[r])
      BY <3>1, <3>3 DEF Wait, Log!Next
    <3> QED
      BY <2>5, <3>2, <3>3 DEF HandleAcceptAck
  <2>6. ASSUME NEW r \in Replicas, NEW k \in Slots, DeliverNext(r, k)
        PROVE  Log!Next
    <3> DEFINE chan == deliverChan[r] \ {k}
    <3>1. UNCHANGED slotCmd /\ UNCHANGED Assigned
      BY <2>6, AssignedStays DEF DeliverNext
    <3>2. CASE HasPayload(r, k) /\ Run(r, k, acks[r][k], chan)
      <4>1. /\ slotCmd'[r][k] # None
            /\ chan \in SUBSET (Slots \cup {Cardinality(Slots)})
        BY <2>0, <3>1, <3>2 DEF HasPayload
      <4> HIDE DEF chan
      <4>2. UNCHANGED executed \/ Log!Execute(r)
        BY <1>2, <3>2, <4>1, RunExecutes
      <4> QED
        BY <3>1, <4>2 DEF Log!Next
    <3>3. CASE Wait(r, k, acks[r][k], chan)
      BY <3>1, <3>3 DEF Wait, Log!Next
    <3> QED
      BY <2>6, <3>2, <3>3 DEF DeliverNext
  <2>7. CASE UNCHANGED vars
    BY <2>7, AssignedStays DEF vars
  <2> QED
    BY <1>2, <2>1, <2>2, <2>3, <2>4, <2>5, <2>6, <2>7 DEF Next
<1> QED
  BY <1>1, <1>2, Invariance, PTL DEF Spec, ImplementsLog, Log!Spec

----------------------------------------------------------------------------
(***************************************************************************)
(* No wake-up is lost: when nothing is left to do, every replica has       *)
(* executed every command and knows its commit.                            *)
(***************************************************************************)

\* Except for slot k of r, no slot gets its payload.
PayloadOnlyFor(r, k) ==
  \A q \in Replicas, j \in Slots :
    HasPayload(q, j)' => HasPayload(q, j) \/ (q = r /\ j = k)

\* What the wake-ups rest on lasts: records, proposals, acknowledgements.
Kept ==
  /\ Grows
  /\ \A q \in Replicas : proposes[q] \subseteq proposes'[q]

\* Except for k at r, what waits in deliverChan goes on waiting.
StillWaiting(r, k) ==
  \A q \in Replicas : \A j \in deliverChan[q] :
    j \in deliverChan'[q] \/ (q = r /\ j = k)

----------------------------------------------------------------------------
LEMMA InitWakeInv == Init => WakeInv
<1> SUFFICES ASSUME Init PROVE WakeInv
  OBVIOUS
<1>1. \A r \in Replicas :
        /\ committed[r] = {} /\ proposes[r] = {}
        /\ \A k \in Slots : slotCmd[r][k] = None /\ acks[r][k] = {}
  BY DEF Init
<1>2. AcceptsPayload /\ PayloadWoken /\ QuorumCommits
  BY <1>1 DEF AcceptsPayload, PayloadWoken, QuorumCommits, HasPayload
<1>3. NextWoken /\ LeaderTakes
  BY <1>1 DEF NextWoken, LeaderTakes
<1> QED
  BY <1>2, <1>3 DEF WakeInv

\* A slot's payload stays.
LEMMA PayloadStays ==
  ASSUME IInv, Kept, NEW q \in Replicas, NEW j \in Slots, HasPayload(q, j)
  PROVE  HasPayload(q, j)'
BY DEF Kept, Grows, HasPayload, IInv, TypeOK

\* A call of deliver() executes the slot or it is not the next one to
\* execute, and what it executes wakes up the slot after it.
LEMMA DeliverWakes ==
  ASSUME IInv, IInv', NextWoken, NEW r \in Replicas, NEW k \in Slots,
         NEW chan, deliverChan[r] \subseteq chan \cup {k},
         HasPayload(r, k)',
         \A q \in Replicas : \A j \in committed'[q] :
           j \in committed[q] \/ (q = r /\ j = k),
         Deliver(r, k, chan)
  PROVE  NextWoken' /\ StillWaiting(r, k)
<1>1. /\ executed \in [Replicas -> Seq(Commands)]
      /\ deliverChan \in [Replicas -> SUBSET (Slots \cup {Cardinality(Slots)})]
      /\ k \in Nat
  BY Sizes DEF IInv, TypeOK
<1>2. CASE Deliverable(r, k) /\ ~IsExecuted(r, k)
  <2>1. /\ executed' = [executed EXCEPT ![r] = Append(@, slotCmd'[r][k])]
        /\ deliverChan' = [deliverChan EXCEPT ![r] = chan \cup {k + 1}]
    BY <1>2 DEF Deliver
  <2>2. slotCmd'[r][k] \in Commands
    BY DEF HasPayload, IInv, TypeOK
  <2>3. \A q \in Replicas :
          Len(executed'[q]) =
            IF q = r THEN Len(executed[q]) + 1 ELSE Len(executed[q])
    BY <1>1, <2>1, <2>2, Appended
  <2>4. k = Len(executed[r])
    BY <1>1, <1>2 DEF Deliverable, IsExecuted
  <2>5. \A q \in Replicas :
          deliverChan'[q] = IF q = r THEN chan \cup {k + 1} ELSE deliverChan[q]
    BY <1>1, <2>1
  <2>6. StillWaiting(r, k)
    BY <2>5 DEF StillWaiting
  <2>7. ASSUME NEW q \in Replicas, NEW j \in committed'[q], j = Len(executed'[q])
        PROVE  j \in deliverChan'[q]
    <3>1. CASE q = r
      BY <2>3, <2>4, <2>5, <2>7, <3>1
    <3>2. CASE q # r
      BY <2>3, <2>5, <2>7, <3>2 DEF NextWoken
    <3> QED
      BY <3>1, <3>2
  <2> QED
    BY <2>6, <2>7 DEF NextWoken
<1>3. CASE ~ (Deliverable(r, k) /\ ~IsExecuted(r, k))
  <2>1. /\ executed' = executed
        /\ \E more : deliverChan' = [deliverChan EXCEPT ![r] = chan \cup more]
    <3>1. CASE Deliverable(r, k)
      BY <1>3, <3>1 DEF Deliver
    <3>2. CASE ~ Deliverable(r, k)
      <4>1. deliverChan' = [deliverChan EXCEPT ![r] = chan \cup {}]
        BY <3>2 DEF Deliver
      <4> QED
        BY <3>2, <4>1 DEF Deliver
    <3> QED
      BY <3>1, <3>2
  <2>2. PICK more : deliverChan' = [deliverChan EXCEPT ![r] = chan \cup more]
    BY <2>1
  <2>3. \A q \in Replicas :
          deliverChan'[q] = IF q = r THEN chan \cup more ELSE deliverChan[q]
    BY <1>1, <2>2
  <2>4. StillWaiting(r, k)
    BY <2>3 DEF StillWaiting
  <2>5. ASSUME NEW q \in Replicas, NEW j \in committed'[q], j = Len(executed'[q])
        PROVE  j \in deliverChan'[q]
    <3>1. ~ (q = r /\ j = k)
      <4> SUFFICES ASSUME q = r, j = k PROVE FALSE
        OBVIOUS
      <4>1. k = Len(executed[r]) /\ k \in committed'[r]
        BY <2>1, <2>5
      <4>2. ~IsExecuted(r, k) /\ ~IsDelivered(r, k) /\ k <= Len(executed[r])
        BY <1>1, <4>1 DEF IsExecuted, IsDelivered
      <4> QED
        BY <1>3, <4>1, <4>2 DEF Deliverable
    <3>2. j \in deliverChan[q]
      BY <2>1, <2>5, <3>1 DEF NextWoken
    <3> QED
      BY <2>4, <3>1, <3>2 DEF StillWaiting
  <2> QED
    BY <2>4, <2>5 DEF NextWoken
<1> QED
  BY <1>2, <1>3

\* A handler that accepts slot k at r: the slot is committed if the quorum is
\* there, and delivered if it is the next one.
LEMMA RunWakes ==
  ASSUME IInv, IInv', WakeInv, Kept, UNCHANGED proposing,
         NEW r \in Replicas, NEW k \in Slots, NEW votes \in SUBSET Replicas,
         NEW chan, deliverChan[r] \subseteq chan \cup {k},
         PayloadOnlyFor(r, k), HasPayload(r, k)', Run(r, k, votes, chan)
  PROVE  AcceptsPayload' /\ PayloadWoken' /\ QuorumCommits' /\ NextWoken'
<1> DEFINE commits == Majority(votes \cup {r}) /\ k \notin committed[r]
           done == commits \/ k \in committed[r]
           kept == IF done THEN {r} ELSE votes \cup {r}
<1>1. /\ acks' = [acks EXCEPT ![r][k] = kept]
      /\ committed' = IF commits THEN [committed EXCEPT ![r] = @ \cup {k}]
                      ELSE committed
      /\ acks \in [Replicas -> [Slots -> SUBSET Replicas]]
      /\ committed \in [Replicas -> SUBSET Slots]
  BY DEF Run, IInv, TypeOK
<1>2. \A q \in Replicas, j \in Slots :
        acks'[q][j] = IF q = r /\ j = k THEN kept ELSE acks[q][j]
  BY <1>1
<1>3. \A q \in Replicas, j \in Slots :
        j \in committed'[q] <=> j \in committed[q] \/ (q = r /\ j = k /\ commits)
  <2>1. CASE commits
    BY <1>1, <2>1
  <2>2. CASE ~ commits
    BY <1>1, <2>2
  <2> QED
    BY <2>1, <2>2
<1>4. r \in kept /\ (Majority(kept) => k \in committed'[r])
  <2>1. CASE done
    BY <1>3, <2>1
  <2>2. CASE ~ done
    BY <1>3, <2>2
  <2> QED
    BY <2>1, <2>2
<1> HIDE DEF kept, done
<1>5. AcceptsPayload'
  <2> SUFFICES ASSUME NEW q \in Replicas, NEW j \in Slots
               PROVE  /\ r \in acks'[r][k]
                      /\ q \in acks'[q][j] => HasPayload(q, j)'
                      /\ j \in committed'[q] => q \in acks'[q][j]
    BY DEF AcceptsPayload
  <2>1. r \in acks'[r][k]
    BY <1>2, <1>4
  <2>2. CASE q = r /\ j = k
    BY <2>1, <2>2
  <2>3. CASE ~ (q = r /\ j = k)
    <3>1. acks'[q][j] = acks[q][j] /\ (j \in committed'[q] <=> j \in committed[q])
      BY <1>2, <1>3, <2>3
    <3>2. q \in acks[q][j] => HasPayload(q, j)'
      BY PayloadStays DEF WakeInv, AcceptsPayload
    <3> QED
      BY <2>1, <3>1, <3>2 DEF WakeInv, AcceptsPayload
  <2> QED
    BY <2>2, <2>3
<1>6. QuorumCommits'
  <2> SUFFICES ASSUME NEW q \in Replicas, NEW j \in Slots,
                      q \in acks'[q][j], Majority(acks'[q][j])
               PROVE  j \in committed'[q]
    BY DEF QuorumCommits, Majority
  <2>1. CASE q = r /\ j = k
    BY <1>2, <1>4, <2>1
  <2>2. CASE ~ (q = r /\ j = k)
    BY <1>2, <1>3, <2>2 DEF WakeInv, QuorumCommits
  <2> QED
    BY <2>1, <2>2
<1>7. NextWoken' /\ StillWaiting(r, k)
  <2>1. PICK more \in SUBSET Slots : Deliver(r, k, chan \cup more)
    BY DEF Run
  <2>2. deliverChan[r] \subseteq (chan \cup more) \cup {k}
    OBVIOUS
  <2>3. \A q \in Replicas : \A j \in committed'[q] :
          j \in committed[q] \/ (q = r /\ j = k)
    <3>1. committed' \in [Replicas -> SUBSET Slots]
      BY DEF IInv, TypeOK
    <3> QED
      BY <1>3, <3>1
  <2> QED
    BY <2>1, <2>2, <2>3, DeliverWakes DEF WakeInv
<1>8. PayloadWoken'
  <2> SUFFICES ASSUME NEW q \in Replicas, NEW j \in Slots, HasPayload(q, j)',
                      q \notin acks'[q][j]
               PROVE  \/ j \in deliverChan'[q]
                      \/ q # Leader /\ proposing'[q] = slotCmd'[q][j]
    BY DEF PayloadWoken
  <2>1. ~ (q = r /\ j = k)
    BY <1>2, <1>4
  <2>2. HasPayload(q, j) /\ q \notin acks[q][j]
    BY <1>2, <2>1 DEF PayloadOnlyFor
  <2>3. \/ j \in deliverChan[q]
        \/ q # Leader /\ proposing[q] = slotCmd[q][j]
    BY <2>2 DEF WakeInv, PayloadWoken
  <2> QED
    BY <1>7, <2>1, <2>2, <2>3 DEF StillWaiting, Kept, Grows, HasPayload
<1> QED
  BY <1>5, <1>6, <1>7, <1>8

\* A handler that has to wait: slot k is not accepted yet, or the quorum is
\* not there, and if the slot leaves deliverChan its payload is missing.
LEMMA WaitWakes ==
  ASSUME IInv, IInv', WakeInv, Kept, UNCHANGED proposing,
         NEW r \in Replicas, NEW k \in Slots, NEW votes \in SUBSET Replicas,
         NEW chan, deliverChan[r] \subseteq chan \cup {k},
         k \in chan \/ k \notin deliverChan[r] \/ ~HasPayload(r, k)',
         \A q \in Replicas, j \in Slots :
           HasPayload(q, j)' => HasPayload(q, j),
         acks[r][k] \subseteq votes, r \in votes => r \in acks[r][k],
         ~ (r \in votes /\ Majority(votes)) \/ k \in committed[r],
         Wait(r, k, votes, chan)
  PROVE  AcceptsPayload' /\ PayloadWoken' /\ QuorumCommits' /\ NextWoken'
<1>1. /\ acks' = [acks EXCEPT ![r][k] = votes]
      /\ deliverChan' = [deliverChan EXCEPT ![r] = chan]
      /\ UNCHANGED <<unsynced, committed, executed, okReplies>>
      /\ acks \in [Replicas -> [Slots -> SUBSET Replicas]]
      /\ deliverChan \in [Replicas -> SUBSET (Slots \cup {Cardinality(Slots)})]
      /\ committed \in [Replicas -> SUBSET Slots]
  BY DEF Wait, IInv, TypeOK
<1>2. /\ \A q \in Replicas, j \in Slots :
           acks'[q][j] = IF q = r /\ j = k THEN votes ELSE acks[q][j]
      /\ \A q \in Replicas :
           deliverChan'[q] = IF q = r THEN chan ELSE deliverChan[q]
  BY <1>1
<1>3. \A q \in Replicas, j \in Slots : q \in acks'[q][j] <=> q \in acks[q][j]
  BY <1>2
<1>4. AcceptsPayload'
  <2>1. \A q \in Replicas, j \in Slots : q \in acks[q][j] => HasPayload(q, j)'
    BY PayloadStays DEF WakeInv, AcceptsPayload
  <2> QED
    BY <1>1, <1>3, <2>1 DEF WakeInv, AcceptsPayload
<1>5. QuorumCommits'
  <2> SUFFICES ASSUME NEW q \in Replicas, NEW j \in Slots,
                      q \in acks'[q][j], Majority(acks'[q][j])
               PROVE  j \in committed[q]
    BY <1>1 DEF QuorumCommits, Majority
  <2>1. CASE q = r /\ j = k
    BY <1>2, <2>1
  <2>2. CASE ~ (q = r /\ j = k)
    BY <1>2, <2>2 DEF WakeInv, QuorumCommits
  <2> QED
    BY <2>1, <2>2
<1>6. ASSUME NEW q \in Replicas, NEW j \in deliverChan[q]
      PROVE  j \in deliverChan'[q] \/ (q = r /\ j = k /\ ~HasPayload(r, k)')
  BY <1>2, <1>6
<1>7. NextWoken'
  <2> SUFFICES ASSUME NEW q \in Replicas, NEW j \in committed[q],
                      j = Len(executed[q])
               PROVE  j \in deliverChan'[q]
    BY <1>1 DEF NextWoken
  <2>1. j \in deliverChan[q] /\ j \in Slots
    BY <1>1 DEF WakeInv, NextWoken
  <2>2. HasPayload(q, j)'
    BY <2>1, PayloadStays DEF WakeInv, AcceptsPayload
  <2> QED
    BY <1>6, <2>1, <2>2
<1>8. PayloadWoken'
  <2> SUFFICES ASSUME NEW q \in Replicas, NEW j \in Slots, HasPayload(q, j)',
                      q \notin acks'[q][j]
               PROVE  \/ j \in deliverChan'[q]
                      \/ q # Leader /\ proposing'[q] = slotCmd'[q][j]
    BY DEF PayloadWoken
  <2>1. HasPayload(q, j) /\ q \notin acks[q][j]
    BY <1>3
  <2>2. \/ j \in deliverChan[q]
        \/ q # Leader /\ proposing[q] = slotCmd[q][j]
    BY <2>1 DEF WakeInv, PayloadWoken
  <2>3. slotCmd'[q][j] = slotCmd[q][j]
    BY <2>1 DEF Kept, Grows, HasPayload
  <2> QED
    BY <1>6, <2>2, <2>3
<1> QED
  BY <1>4, <1>5, <1>7, <1>8

\* The leader's slots keep their proposals.
LEMMA LeaderTakesStays ==
  ASSUME IInv, LeaderTakes, Grows, proposes'[Leader] = proposes[Leader]
  PROVE  LeaderTakes'
<1> SUFFICES ASSUME NEW d \in proposes[Leader]
             PROVE  \E j \in Slots : slotCmd'[Leader][j] = d
  BY DEF LeaderTakes
<1>1. PICK j \in Slots : slotCmd[Leader][j] = d
  BY DEF LeaderTakes
<1>2. d # None
  BY DEF IInv, TypeOK
<1> QED
  BY <1>1, <1>2 DEF Grows

----------------------------------------------------------------------------
\* Every recorded slot stays recorded, in whatever step.
LEMMA RecordsStay ==
  ASSUME IInv, IInv', [Next]_vars
  PROVE  Grows
<1>1. /\ slotCmd \in [Replicas -> [Slots -> Commands \cup {None}]]
      /\ slotCmd' \in [Replicas -> [Slots -> Commands \cup {None}]]
  BY DEF IInv, TypeOK
<1>2. ASSUME NEW q \in Replicas, NEW j \in Slots, slotCmd[q][j] # None
      PROVE  slotCmd'[q][j] = slotCmd[q][j]
  <2>1. CASE \E c \in Commands : LeaderPropose(c)
    <3>1. PICK c \in Commands, k \in Slots :
            /\ \A i \in Slots : slotCmd[Leader][i] # None <=> i < k
            /\ slotCmd' = [slotCmd EXCEPT ![Leader][k] = c]
      BY <2>1 DEF LeaderPropose
    <3>2. q = Leader => j # k
      BY <1>2, <3>1 DEF Slots
    <3> QED
      BY <1>1, <3>1, <3>2
  <2>2. CASE \E r \in Followers, k \in Slots : HandleAccept(r, k)
    <3>1. PICK r \in Followers, k \in Slots :
            /\ slotCmd[r][k] = None
            /\ slotCmd' = [slotCmd EXCEPT ![r][k] = slotCmd[Leader][k]]
      BY <2>2 DEF HandleAccept
    <3>2. ~ (q = r /\ j = k)
      BY <1>2, <3>1
    <3> QED
      BY <1>1, <3>1, <3>2
  <2>3. CASE UNCHANGED slotCmd
    BY <2>3
  <2> QED
    BY <2>1, <2>2, <2>3
    DEF Next, TakeProposal, Answer, Unsync, HandleAcceptAck, DeliverNext, vars
<1> QED
  BY <1>1, <1>2 DEF Grows

\* The leader takes a proposal.
LEMMA LeaderProposeWakes ==
  ASSUME IInv, IInv', Grows, WakeInv, NEW c \in Commands, LeaderPropose(c)
  PROVE  WakeInv'
<1>1. /\ proposes \in [Replicas -> SUBSET Commands]
      /\ slotCmd \in [Replicas -> [Slots -> Commands \cup {None}]]
      /\ LeaderDistinct /\ LeaderTakes
  BY DEF IInv, TypeOK, WakeInv
<1>2. PICK k \in Slots :
        /\ proposes' = [proposes EXCEPT ![Leader] = @ \cup {c}]
        /\ slotCmd' = [slotCmd EXCEPT ![Leader][k] = c]
        /\ Run(Leader, k, {}, deliverChan[Leader])
        /\ UNCHANGED proposing
  BY DEF LeaderPropose
<1>3. /\ \A q \in Replicas, j \in Slots :
           slotCmd'[q][j] = IF q = Leader /\ j = k THEN c ELSE slotCmd[q][j]
      /\ \A q \in Replicas :
           proposes'[q] = IF q = Leader THEN proposes[q] \cup {c} ELSE proposes[q]
  BY <1>1, <1>2
<1>4. Kept
  BY <1>3 DEF Kept
<1>5. PayloadOnlyFor(Leader, k)
  BY <1>1, <1>3 DEF PayloadOnlyFor, HasPayload, LeaderDistinct
<1>6. HasPayload(Leader, k)'
  BY <1>3 DEF HasPayload
<1>7. AcceptsPayload' /\ PayloadWoken' /\ QuorumCommits' /\ NextWoken'
  <2>1. {} \in SUBSET Replicas /\ deliverChan[Leader] \subseteq deliverChan[Leader] \cup {k}
    OBVIOUS
  <2> QED
    BY <1>2, <1>4, <1>5, <1>6, <2>1, RunWakes
<1>8. LeaderTakes'
  <2> SUFFICES ASSUME NEW d \in proposes'[Leader]
               PROVE  \E j \in Slots : slotCmd'[Leader][j] = d
    BY DEF LeaderTakes
  <2>1. CASE d = c
    BY <1>3, <2>1
  <2>2. CASE d # c
    <3>1. d \in proposes[Leader]
      BY <1>3, <2>2
    <3>2. d # None
      BY <1>1, <3>1
    <3>3. PICK j \in Slots : slotCmd[Leader][j] = d
      BY <1>1, <3>1 DEF LeaderTakes
    <3> QED
      BY <3>2, <3>3 DEF Grows
  <2> QED
    BY <2>1, <2>2
<1> QED
  BY <1>7, <1>8 DEF WakeInv

\* A follower takes a proposal: it is on its way to the slot that it is for.
LEMMA TakeProposalWakes ==
  ASSUME IInv, IInv', Grows, WakeInv, NEW r \in Followers, NEW c \in Commands,
         TakeProposal(r, c)
  PROVE  WakeInv'
<1>1. /\ proposes \in [Replicas -> SUBSET Commands]
      /\ proposing \in [Followers -> Commands \cup {None}]
      /\ proposing[r] = None
      /\ proposes' = [proposes EXCEPT ![r] = @ \cup {c}]
      /\ proposing' = [proposing EXCEPT ![r] = c]
      /\ UNCHANGED <<slotCmd, acks, committed, executed, deliverChan>>
      /\ r # Leader
  BY DEF IInv, TypeOK, TakeProposal, Followers
<1>2. /\ \A q \in Replicas :
           proposes'[q] = IF q = r THEN proposes[q] \cup {c} ELSE proposes[q]
      /\ \A f \in Followers : proposing'[f] = IF f = r THEN c ELSE proposing[f]
  BY <1>1
<1>3. AcceptsPayload' /\ QuorumCommits' /\ NextWoken'
  BY <1>1, <1>2 DEF WakeInv, AcceptsPayload, QuorumCommits, NextWoken,
                    HasPayload, Majority
<1>4. PayloadWoken'
  <2> SUFFICES ASSUME NEW q \in Replicas, NEW j \in Slots, HasPayload(q, j)',
                      q \notin acks[q][j], j \notin deliverChan[q]
               PROVE  q # Leader /\ proposing'[q] = slotCmd[q][j]
    BY <1>1 DEF PayloadWoken
  <2>1. CASE HasPayload(q, j)
    <3>1. q # Leader /\ proposing[q] = slotCmd[q][j] /\ slotCmd[q][j] # None
      BY <2>1 DEF WakeInv, PayloadWoken, HasPayload
    <3> QED
      BY <1>1, <1>2, <3>1 DEF Followers
  <2>2. CASE ~ HasPayload(q, j)
    <3>1. q = r /\ slotCmd[q][j] = c
      BY <1>1, <1>2, <2>2 DEF HasPayload
    <3> QED
      BY <1>1, <1>2, <3>1
  <2> QED
    BY <2>1, <2>2
<1>5. LeaderTakes'
  BY <1>1, <1>2, LeaderTakesStays DEF WakeInv
<1> QED
  BY <1>3, <1>4, <1>5 DEF WakeInv

\* A follower's answer wakes nothing and forgets nothing.
LEMMA AnswerWakes ==
  ASSUME WakeInv, NEW r \in Followers, Answer(r)
  PROVE  WakeInv'
BY DEF Answer, WakeInv, AcceptsPayload, PayloadWoken, QuorumCommits, NextWoken,
       LeaderTakes, HasPayload, Majority

\* The follower sends the slot of the proposal to deliverChan, if it knows it.
LEMMA UnsyncWakes ==
  ASSUME IInv, IInv', Grows, WakeInv, NEW r \in Followers, Unsync(r)
  PROVE  WakeInv'
<1>1. /\ deliverChan \in [Replicas -> SUBSET (Slots \cup {Cardinality(Slots)})]
      /\ proposing \in [Followers -> Commands \cup {None}]
      /\ proposing' = [proposing EXCEPT ![r] = None]
      /\ deliverChan' = [deliverChan EXCEPT ![r] =
                           @ \cup {k \in Slots : slotCmd[r][k] = proposing[r]}]
      /\ UNCHANGED <<proposes, slotCmd, acks, committed, executed>>
      /\ r \in Replicas
  BY DEF IInv, TypeOK, Unsync, Followers
<1>2. /\ \A q \in Replicas : deliverChan[q] \subseteq deliverChan'[q]
      /\ \A j \in Slots : slotCmd[r][j] = proposing[r] => j \in deliverChan'[r]
      /\ \A f \in Followers : f # r => proposing'[f] = proposing[f]
  BY <1>1
<1>3. AcceptsPayload' /\ QuorumCommits' /\ NextWoken'
  BY <1>1, <1>2 DEF WakeInv, AcceptsPayload, QuorumCommits, NextWoken,
                    HasPayload, Majority
<1>4. PayloadWoken'
  <2> SUFFICES ASSUME NEW q \in Replicas, NEW j \in Slots, HasPayload(q, j),
                      q \notin acks[q][j], j \notin deliverChan'[q]
               PROVE  q # Leader /\ proposing'[q] = slotCmd[q][j]
    BY <1>1 DEF PayloadWoken, HasPayload
  <2>1. q # Leader /\ proposing[q] = slotCmd[q][j]
    BY <1>2 DEF WakeInv, PayloadWoken
  <2> QED
    BY <1>2, <2>1 DEF Followers
<1>5. LeaderTakes'
  BY <1>1 DEF WakeInv, LeaderTakes
<1> QED
  BY <1>3, <1>4, <1>5 DEF WakeInv

\* A follower learns a slot.
LEMMA HandleAcceptWakes ==
  ASSUME IInv, IInv', Grows, WakeInv, NEW r \in Followers, NEW k \in Slots,
         HandleAccept(r, k)
  PROVE  WakeInv'
<1>1. /\ slotCmd \in [Replicas -> [Slots -> Commands \cup {None}]]
      /\ acks \in [Replicas -> [Slots -> SUBSET Replicas]]
      /\ r \in Replicas /\ r # Leader
  BY DEF IInv, TypeOK, Followers
<1>2. /\ slotCmd[Leader][k] # None
      /\ slotCmd[r][k] = None
      /\ slotCmd' = [slotCmd EXCEPT ![r][k] = slotCmd[Leader][k]]
      /\ UNCHANGED <<proposes, proposing, answered, dep, early>>
      /\ IF slotCmd'[r][k] \in proposes[r]
         THEN Run(r, k, acks[r][k], deliverChan[r])
         ELSE Wait(r, k, acks[r][k], deliverChan[r])
  BY DEF HandleAccept
<1>3. \A q \in Replicas, j \in Slots :
        slotCmd'[q][j] = IF q = r /\ j = k THEN slotCmd[Leader][k] ELSE slotCmd[q][j]
  BY <1>1, <1>2
<1>4. Kept /\ PayloadOnlyFor(r, k)
  BY <1>2, <1>3 DEF Kept, PayloadOnlyFor, HasPayload
<1>5. r \notin acks[r][k]
  BY <1>1, <1>2 DEF WakeInv, AcceptsPayload, HasPayload
<1>6. AcceptsPayload' /\ PayloadWoken' /\ QuorumCommits' /\ NextWoken'
  <2>0. acks[r][k] \in SUBSET Replicas
    BY <1>1
  <2>1. CASE slotCmd'[r][k] \in proposes[r]
    <3>1. HasPayload(r, k)' /\ Run(r, k, acks[r][k], deliverChan[r])
      BY <1>1, <1>2, <1>3, <2>1 DEF HasPayload
    <3> QED
      BY <1>1, <1>2, <1>4, <2>0, <3>1, RunWakes
  <2>2. CASE slotCmd'[r][k] \notin proposes[r]
    <3>1. ~HasPayload(r, k)' /\ Wait(r, k, acks[r][k], deliverChan[r])
      BY <1>2, <2>2 DEF HasPayload
    <3>2. \A q \in Replicas, j \in Slots : HasPayload(q, j)' => HasPayload(q, j)
      BY <1>4, <3>1 DEF PayloadOnlyFor
    <3> QED
      BY <1>1, <1>2, <1>4, <1>5, <2>0, <3>1, <3>2, WaitWakes
  <2> QED
    BY <2>1, <2>2
<1>7. LeaderTakes'
  BY <1>2, LeaderTakesStays DEF WakeInv
<1> QED
  BY <1>6, <1>7 DEF WakeInv

\* What the steps that learn no slot and take no proposal leave.
LEMMA NothingLearnt ==
  ASSUME IInv, Grows, UNCHANGED <<proposes, slotCmd>>
  PROVE  /\ Kept
         /\ \A q \in Replicas, j \in Slots : HasPayload(q, j)' <=> HasPayload(q, j)
BY DEF Kept, HasPayload

\* An acknowledgement comes.
LEMMA HandleAcceptAckWakes ==
  ASSUME IInv, IInv', Grows, WakeInv, NEW r \in Replicas, NEW s \in Replicas,
         NEW k \in Slots, HandleAcceptAck(r, k, s)
  PROVE  WakeInv'
<1> DEFINE votes == acks[r][k] \cup {s}
<1>1. /\ acks \in [Replicas -> [Slots -> SUBSET Replicas]]
      /\ s # r
      /\ UNCHANGED <<proposes, proposing, answered, slotCmd, dep, early>>
      /\ IF HasPayload(r, k) /\ Majority(votes)
         THEN Run(r, k, votes, deliverChan[r])
         ELSE Wait(r, k, votes, deliverChan[r])
  BY DEF IInv, TypeOK, HandleAcceptAck
<1>2. /\ votes \in SUBSET Replicas
      /\ acks[r][k] \subseteq votes
      /\ r \in votes => r \in acks[r][k]
  BY <1>1
<1> HIDE DEF votes
<1>3. /\ Kept
      /\ \A q \in Replicas, j \in Slots : HasPayload(q, j)' <=> HasPayload(q, j)
  BY <1>1, NothingLearnt
<1>4. AcceptsPayload' /\ PayloadWoken' /\ QuorumCommits' /\ NextWoken'
  <2>1. CASE HasPayload(r, k) /\ Majority(votes)
    <3>1. HasPayload(r, k)' /\ Run(r, k, votes, deliverChan[r])
      BY <1>1, <1>3, <2>1
    <3>2. PayloadOnlyFor(r, k)
      BY <1>3 DEF PayloadOnlyFor
    <3> QED
      BY <1>1, <1>2, <1>3, <3>1, <3>2, RunWakes
  <2>2. CASE ~ (HasPayload(r, k) /\ Majority(votes))
    <3>1. Wait(r, k, votes, deliverChan[r])
      BY <1>1, <2>2
    <3>2. ~ (r \in votes /\ Majority(votes))
      BY <1>2, <2>2 DEF WakeInv, AcceptsPayload
    <3>3. k \in deliverChan[r] \/ k \notin deliverChan[r]
      OBVIOUS
    <3> QED
      BY <1>1, <1>2, <1>3, <3>1, <3>2, <3>3, WaitWakes
  <2> QED
    BY <2>1, <2>2
<1>5. LeaderTakes'
  BY <1>1, LeaderTakesStays DEF WakeInv
<1> QED
  BY <1>4, <1>5 DEF WakeInv

\* A slot is taken from deliverChan.
LEMMA DeliverNextWakes ==
  ASSUME IInv, IInv', Grows, WakeInv, NEW r \in Replicas, NEW k \in Slots,
         DeliverNext(r, k)
  PROVE  WakeInv'
<1> DEFINE chan == deliverChan[r] \ {k}
<1>1. /\ acks \in [Replicas -> [Slots -> SUBSET Replicas]]
      /\ UNCHANGED <<proposes, proposing, answered, slotCmd, dep>>
      /\ IF HasPayload(r, k) THEN Run(r, k, acks[r][k], chan)
                             ELSE Wait(r, k, acks[r][k], chan)
  BY DEF IInv, TypeOK, DeliverNext
<1>2. deliverChan[r] \subseteq chan \cup {k} /\ acks[r][k] \in SUBSET Replicas
  BY <1>1
<1> HIDE DEF chan
<1>3. /\ Kept
      /\ \A q \in Replicas, j \in Slots : HasPayload(q, j)' <=> HasPayload(q, j)
  BY <1>1, NothingLearnt
<1>4. AcceptsPayload' /\ PayloadWoken' /\ QuorumCommits' /\ NextWoken'
  <2>1. CASE HasPayload(r, k)
    <3>1. HasPayload(r, k)' /\ Run(r, k, acks[r][k], chan)
      BY <1>1, <1>3, <2>1
    <3>2. PayloadOnlyFor(r, k)
      BY <1>3 DEF PayloadOnlyFor
    <3> QED
      BY <1>1, <1>2, <1>3, <3>1, <3>2, RunWakes
  <2>2. CASE ~ HasPayload(r, k)
    <3>1. ~HasPayload(r, k)' /\ Wait(r, k, acks[r][k], chan)
      BY <1>1, <1>3, <2>2
    <3>2. r \notin acks[r][k]
      BY <2>2 DEF WakeInv, AcceptsPayload
    <3> QED
      BY <1>1, <1>2, <1>3, <3>1, <3>2, WaitWakes
  <2> QED
    BY <2>1, <2>2
<1>5. LeaderTakes'
  BY <1>1, LeaderTakesStays DEF WakeInv
<1> QED
  BY <1>4, <1>5 DEF WakeInv

\* In every state, whatever a replica has not done for a slot is on its way.
THEOREM NoWakeUpLost == Spec => [](IInv /\ WakeInv)
<1>1. Init => IInv /\ WakeInv
  BY InitIInv, InitWakeInv
<1>2. ASSUME IInv, WakeInv, [Next]_vars
      PROVE  IInv' /\ WakeInv'
  <2>1. IInv'
    BY <1>2, NextKeeps
  <2>2. Grows
    BY <1>2, <2>1, RecordsStay
  <2>3. CASE Next
    BY <1>2, <2>1, <2>2, <2>3, LeaderProposeWakes, TakeProposalWakes,
       AnswerWakes, UnsyncWakes, HandleAcceptWakes, HandleAcceptAckWakes,
       DeliverNextWakes
    DEF Next
  <2>4. CASE UNCHANGED vars
    BY <1>2, <2>1, <2>4 DEF vars, WakeInv, AcceptsPayload, PayloadWoken,
       QuorumCommits, NextWoken, LeaderTakes, HasPayload, Majority
  <2> QED
    BY <1>2, <2>1, <2>3, <2>4
<1> QED
  BY <1>1, <1>2, PTL DEF Spec

\* When no handler of run() and of the descriptors has anything left to do,
\* every replica has executed every command and knows its commit, so that each
\* client is answered by its proxy: no call that waits in afterPayload and no
\* slot that waits for the one before it is forgotten.
THEOREM NothingLeftHolds == Spec => []NothingLeft
<1>1. IInv /\ WakeInv => NothingLeft
  <2> SUFFICES ASSUME IInv, WakeInv, Quiet,
                      NEW c \in Commands, NEW r \in Replicas
               PROVE  SyncAnswered(c, r)
    BY DEF NothingLeft
  <2>1. /\ slotCmd \in [Replicas -> [Slots -> Commands \cup {None}]]
        /\ acks \in [Replicas -> [Slots -> SUBSET Replicas]]
        /\ executed \in [Replicas -> Seq(Commands)]
        /\ SlotsCopied /\ ExecutedPrefix
    BY DEF IInv, TypeOK
  <2>2. /\ \A q \in Replicas : proposes[q] = Commands
        /\ \A q \in Followers : proposing[q] = None
    BY DEF Quiet
  <2>3. ASSUME NEW k \in Slots, slotCmd[Leader][k] # None, NEW q \in Replicas
        PROVE  HasPayload(q, k) /\ q \in acks[q][k]
    <3>1. slotCmd[q][k] # None
      BY <2>3 DEF Quiet
    <3>2. HasPayload(q, k)
      BY <2>1, <2>2, <3>1 DEF HasPayload
    <3>3. q \in acks[q][k] \/ k \in deliverChan[q]
      BY <2>2, <3>1, <3>2 DEF WakeInv, PayloadWoken, Followers
    <3>4. CASE k \in deliverChan[q]
      <4>1. k + 1 \in 1 .. Len(executed[q]) /\ (k + 1) - 1 = k
        BY <2>1, <3>4 DEF Quiet, IsDelivered, IsExecuted, Slots
      <4> QED
        BY <2>1, <3>2, <4>1 DEF ExecutedPrefix, HasAccepted
    <3> QED
      BY <3>2, <3>3, <3>4
  <2>4. ASSUME NEW k \in Slots, slotCmd[Leader][k] # None
        PROVE  k \in committed[r]
    <3> SUFFICES ASSUME k \notin committed[r] PROVE FALSE
      OBVIOUS
    <3>1. r \in acks[r][k] /\ slotCmd[r][k] # None
      BY <2>3, <2>4 DEF HasPayload
    <3>2. \A s \in Replicas : s \in acks[r][k]
      BY <2>3, <2>4, <3>1 DEF Quiet
    <3>3. acks[r][k] = Replicas
      BY <2>1, <3>2
    <3>4. Majority(acks[r][k])
      BY <3>3, Sizes DEF Majority
    <3> QED
      BY <3>1, <3>4 DEF WakeInv, QuorumCommits
  <2>5. PICK k \in Slots : slotCmd[Leader][k] = c
    BY <2>2 DEF WakeInv, LeaderTakes
  <2>6. slotCmd[r][k] = c
    BY <2>1, <2>5 DEF Quiet, SlotsCopied
  <2>7. IsExecuted(r, k)
    <3> SUFFICES ASSUME ~IsExecuted(r, k) PROVE FALSE
      OBVIOUS
    <3> DEFINE n == Len(executed[r])
    <3>0. n \in Nat /\ ~ (k < n)
      BY <2>1 DEF IsExecuted
    <3> HIDE DEF n
    <3>1. n <= k /\ n \in Slots
      BY <3>0, Sizes DEF Slots
    <3>2. slotCmd[Leader][n] # None
      <4>1. PICK m \in 0 .. Cardinality(Commands) :
                   \A j \in Slots : slotCmd[Leader][j] # None <=> j < m
        BY DEF IInv, LeaderFills
      <4>2. k < m
        BY <2>5, <4>1
      <4> QED
        BY <3>1, <4>1, <4>2, Sizes
    <3>3. n \in committed[r]
      BY <2>4, <3>1, <3>2
    <3>4. n \in deliverChan[r]
      BY <3>3 DEF WakeInv, NextWoken, n
    <3>5. n < Len(executed[r])
      BY <3>1, <3>4 DEF Quiet, IsDelivered, IsExecuted
    <3> QED
      BY <3>0, <3>5 DEF n
  <2> QED
    BY <2>4, <2>5, <2>6, <2>7 DEF SyncAnswered, IsDelivered
<1> QED
  BY <1>1, NoWakeUpLost, PTL

============================================================================
